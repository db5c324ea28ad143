---------------------------- MODULE ReconnectProofs ----------------------------
(***************************************************************************)
(* Theorems about Reconnect, for any number of connections and links and   *)
(* any policies.  The inductive invariant counts errors on their way from  *)
(* the connections through the fan-in to the helper, and the manager's     *)
(* failed dials against its attempts.  How long Backoff waits is proved by *)
(* induction over the attempts, as an induction over sets of numbers       *)
(* (Climb).                                                                *)
(***************************************************************************)
EXTENDS Reconnect, FiniteSetTheorems, WellFoundedInduction, TLAPS

Types ==
    /\ loop \in {"helper", "manager"}
    /\ policy \in Policies
    /\ pc \in {"out", "next", "sleep", "connect", "backoff", "notify", "watch", "done"}
    /\ result \in {"none", "ctx", "nil"}
    /\ link \in Links
    /\ conn \in [Links -> [Conns -> {"none", "up", "failed", "shut"}]]
    /\ watched \subseteq Links
    /\ heard \in Links \cup {0}
    /\ waiting \in [Links -> SUBSET Conns]
    /\ live \in [Links -> SUBSET Conns]
    /\ pend \in [Links -> Nat]
    /\ box \in [Links -> {0, 1}]
    /\ attempt \in Int /\ attempt >= -1
    /\ dials \in Nat

Failed(k) == {c \in Conns : conn[k][c] = "failed"}

(* The channel of link k is the one the loop reads, or read last. *)
Attended(k) == k = heard /\ pc \in {"watch", "done"}

(* The helper has taken an error from each channel it has left, and no     *)
(* error is there that no connection failed with.                          *)
ErrorsCounted ==
    \A k \in watched :
        pend[k] + box[k] + (IF Attended(k) THEN 0 ELSE 1) <= Cardinality(Failed(k))

(* Links are watched in their order, each once; a connection of a watched  *)
(* link that is up has a listener or a goroutine that will register one.   *)
WatchedInOrder ==
    /\ \A k \in watched : k <= link /\ Up(k) \subseteq waiting[k] \cup live[k]
    /\ \A k \in Links \ watched :
          pend[k] = 0 /\ box[k] = 0 /\ waiting[k] = {} /\ live[k] = {}
    /\ pc = "notify" => link \notin watched
    /\ pc = "watch" => heard \in watched

(* An attempt is counted before the dial it allows. *)
AttemptsCounted ==
    /\ pc \in {"backoff", "notify", "watch", "done"} => loop = "helper"
    /\ loop = "manager" => dials <= attempt + 1
    /\ loop = "helper" => dials = 0 /\ pc \notin {"out", "next", "sleep"}
    /\ dials > 0 => policy.Enabled
    /\ policy.MaxAttempts > 0 => dials <= policy.MaxAttempts
    /\ loop = "manager" /\ pc \in {"sleep", "connect"} =>
          /\ policy.Enabled /\ dials <= attempt
          /\ policy.MaxAttempts > 0 => attempt < policy.MaxAttempts

ReconnectInv == Types /\ ErrorsCounted /\ WatchedInOrder /\ AttemptsCounted

(* What the manager slept last is the backoff of an attempt it has made. *)
DelayOfAnAttempt ==
    /\ ctxDone \in BOOLEAN /\ closed \in BOOLEAN /\ slept \in Nat
    /\ slept # 0 => loop = "manager" /\ \E a \in 1..attempt : slept = Backoff(policy, a)

(* Between two successes the delays never get shorter, unless the          *)
(* multiplier is below 1 and not 0.                                        *)
DelaysNeverShrink ==
    [][slept' < slept => Reconnected \/ (policy.Num # 0 /\ policy.Num < policy.Den)]_vars

(* They never get longer, once there was one, unless the multiplier is     *)
(* above 1 or negative.                                                    *)
DelaysNeverGrow ==
    [][slept' > slept => slept = 0 \/ policy.Num < 0 \/ policy.Num > policy.Den]_vars

-----------------------------------------------------------------------------
LEMMA PolicyTypes ==
    ASSUME NEW p \in Policies
    PROVE  /\ p.MaxAttempts \in Nat /\ p.Enabled \in BOOLEAN
           /\ p.Initial \in Nat /\ p.Max \in Nat
           /\ p.Num \in Int /\ p.Den \in Nat \ {0}
<1>1. p \in [Enabled : BOOLEAN, Initial : Nat, Max : Nat, Num : Int, Den : Nat \ {0},
             MaxAttempts : Nat]
  BY ReconnectAssumption
<1>2. QED
  BY <1>1

-----------------------------------------------------------------------------
(* Induction over the numbers, as the induction over a set of them. *)

LEMMA LeastExists ==
    ASSUME NEW S, S \subseteq Nat, S # {}
    PROVE  \E n \in S : \A m \in S : n <= m
<1>1. PICK n \in S : \A m \in S : ~(<<m, n>> \in OpToRel(<, Nat))
  BY NatLessThanWellFounded, WFMin
<1>2. ASSUME NEW m \in S PROVE n <= m
  <2>1. m \in Nat /\ n \in Nat
    OBVIOUS
  <2>2. ~(m < n)
    BY <1>1, <2>1 DEF OpToRel
  <2>3. QED
    BY <2>1, <2>2
<1>3. QED
  BY <1>2

LEMMA Climb ==
    ASSUME NEW S, 0 \in S, \A n \in S \cap Nat : n + 1 \in S
    PROVE  Nat \subseteq S
<1>1. SUFFICES ASSUME Nat \ S # {} PROVE FALSE
  OBVIOUS
<1>2. PICK n \in Nat \ S : \A m \in Nat \ S : n <= m
  BY <1>1, LeastExists
<1>3. n # 0 /\ n - 1 \in Nat
  BY <1>2
<1>4. n - 1 \in S
  BY <1>2, <1>3
<1>5. (n - 1) + 1 \in S
  BY <1>3, <1>4
<1>6. QED
  BY <1>2, <1>5

(* The tables of the first n powers of m: that there is one for each n     *)
(* gives a function that satisfies the recursion.                          *)
Tables(m, n) == {t \in [0..n -> Int] : t[0] = 1 /\ \A i \in 1..n : t[i] = m * t[i - 1]}

LEMMA TableExists == ASSUME NEW m \in Int, NEW n \in Nat PROVE Tables(m, n) # {}
<1> DEFINE S == {k \in Nat : Tables(m, k) # {}}
<1>1. 0 \in S
  <2>1. [i \in 0..0 |-> 1] \in Tables(m, 0)
    BY DEF Tables
  <2>2. QED
    BY <2>1
<1>2. ASSUME NEW k \in S PROVE k + 1 \in S
  <2>1. PICK t \in Tables(m, k) : TRUE
    OBVIOUS
  <2> DEFINE u == [i \in 0..(k + 1) |-> IF i = k + 1 THEN m * t[k] ELSE t[i]]
  <2>2. t \in [0..k -> Int] /\ k \in Nat /\ t[0] = 1 /\ \A i \in 1..k : t[i] = m * t[i - 1]
    BY <2>1 DEF Tables
  <2>3. m * t[k] \in Int
    BY <2>2
  <2>4. u \in [0..(k + 1) -> Int]
    BY <2>2, <2>3
  <2>5. u[0] = 1
    BY <2>2
  <2>6. ASSUME NEW i \in 1..(k + 1) PROVE u[i] = m * u[i - 1]
    <3>1. u[i - 1] = t[i - 1]
      BY <2>2
    <3>2. CASE i = k + 1
      BY <2>2, <3>1, <3>2
    <3>3. CASE i # k + 1
      BY <2>2, <3>1, <3>3
    <3>4. QED
      BY <3>2, <3>3
  <2>7. u \in Tables(m, k + 1)
    BY <2>4, <2>5, <2>6 DEF Tables
  <2>8. QED
    BY <2>2, <2>7
<1> HIDE DEF S
<1>3. Nat \subseteq S
  BY <1>1, <1>2, Climb
<1>4. QED
  BY <1>3 DEF S

LEMMA TablesAgree ==
    ASSUME NEW m \in Int, NEW n \in Nat, NEW t \in Tables(m, n), NEW u \in Tables(m, n + 1)
    PROVE  \A i \in 0..n : t[i] = u[i]
<1> DEFINE S == {i \in Nat : i <= n => t[i] = u[i]}
<1>1. 0 \in S
  BY DEF Tables
<1>2. ASSUME NEW i \in S PROVE i + 1 \in S
  <2> SUFFICES ASSUME i + 1 <= n PROVE t[i + 1] = u[i + 1]
    OBVIOUS
  <2>1. i + 1 \in 1..n /\ i + 1 \in 1..(n + 1) /\ (i + 1) - 1 = i /\ t[i] = u[i]
    OBVIOUS
  <2>2. QED
    BY <2>1 DEF Tables
<1> HIDE DEF S
<1>3. Nat \subseteq S
  BY <1>1, <1>2, Climb
<1>4. QED
  BY <1>3 DEF S

LEMMA PowersRecur ==
    ASSUME NEW m \in Int
    PROVE  /\ Powers(m) \in [Nat -> Int]
           /\ Powers(m)[0] = 1
           /\ \A n \in Nat : Powers(m)[n + 1] = m * Powers(m)[n]
<1> DEFINE T(n) == CHOOSE t \in Tables(m, n) : TRUE
           F == [n \in Nat |-> T(n)[n]]
<1>1. \A n \in Nat : T(n) \in Tables(m, n)
  BY TableExists
<1> HIDE DEF T
<1>2. F \in [Nat -> Int] /\ F[0] = 1
  BY <1>1 DEF Tables
<1>3. ASSUME NEW n \in Nat PROVE F[n + 1] = m * F[n]
  <2>1. T(n + 1) \in Tables(m, n + 1) /\ T(n) \in Tables(m, n)
    BY <1>1
  <2>2. T(n + 1)[n + 1] = m * T(n + 1)[n]
    <3>1. n + 1 \in 1..(n + 1) /\ (n + 1) - 1 = n
      OBVIOUS
    <3>2. QED
      BY <2>1, <3>1 DEF Tables
  <2>3. T(n)[n] = T(n + 1)[n]
    BY <2>1, TablesAgree
  <2>4. QED
    BY <2>2, <2>3
<1>4. F = [n \in Nat |-> IF n = 0 THEN 1 ELSE m * F[n - 1]]
  <2>1. ASSUME NEW n \in Nat PROVE F[n] = IF n = 0 THEN 1 ELSE m * F[n - 1]
    <3>1. CASE n = 0
      BY <1>2, <3>1
    <3>2. CASE n # 0
      <4>1. n - 1 \in Nat /\ (n - 1) + 1 = n
        BY <3>2
      <4>2. F[(n - 1) + 1] = m * F[n - 1]
        BY <1>3, <4>1
      <4>3. QED
        BY <3>2, <4>1, <4>2
    <3>3. QED
      BY <3>1, <3>2
  <2>2. QED
    BY <1>2, <2>1
<1> HIDE DEF F
<1>5. Powers(m) = [n \in Nat |-> IF n = 0 THEN 1 ELSE m * Powers(m)[n - 1]]
  BY <1>4 DEF Powers
<1>6. Powers(m)[0] = 1 /\ \A n \in Nat : Powers(m)[n + 1] = m * Powers(m)[n]
  <2> DEFINE P == Powers(m)
  <2>1. \A n \in Nat : P[n] = IF n = 0 THEN 1 ELSE m * P[n - 1]
    BY <1>5
  <2> HIDE DEF P
  <2>2. \A n \in Nat : n + 1 \in Nat /\ n + 1 # 0 /\ (n + 1) - 1 = n
    OBVIOUS
  <2>3. P[0] = 1 /\ \A n \in Nat : P[n + 1] = m * P[n]
    BY <2>1, <2>2
  <2>4. QED
    BY <2>3 DEF P
<1>7. \A n \in Nat : Powers(m)[n] \in Int
  <2> DEFINE S == {n \in Nat : Powers(m)[n] \in Int}
  <2>1. 0 \in S /\ \A n \in S : n + 1 \in S
    BY <1>6
  <2> HIDE DEF S
  <2>2. Nat \subseteq S
    BY <2>1, Climb
  <2>3. QED
    BY <2>2 DEF S
<1>8. QED
  BY <1>5, <1>6, <1>7
-----------------------------------------------------------------------------
(* Backoff *)

LEMMA PowersPositive ==
    ASSUME NEW m \in Nat
    PROVE  \A n \in Nat : Powers(m)[n] \in Nat /\ (m # 0 => Powers(m)[n] # 0)
<1> DEFINE P == Powers(m)
           S == {n \in Nat : P[n] \in Nat /\ (m # 0 => P[n] # 0)}
<1>1. P[0] = 1 /\ \A n \in Nat : P[n + 1] = m * P[n]
  BY PowersRecur
<1> HIDE DEF P
<1>2. 0 \in S
  BY <1>1
<1>3. ASSUME NEW n \in S PROVE n + 1 \in S
  <2>1. \A x \in Nat : m * x \in Nat /\ (m # 0 /\ x # 0 => m * x # 0)
    OBVIOUS
  <2>2. P[n + 1] = m * P[n] /\ P[n] \in Nat /\ n + 1 \in Nat /\ (m # 0 => P[n] # 0)
    BY <1>1
  <2>3. QED
    BY <2>1, <2>2
<1> HIDE DEF S
<1>4. Nat \subseteq S
  BY <1>2, <1>3, Climb
<1>5. QED
  BY <1>4 DEF S, P

LEMMA Quotient ==
    ASSUME NEW x \in Int, NEW y \in Nat \ {0}
    PROVE  /\ x \div y \in Int
           /\ y * (x \div y) <= x
           /\ x < y * (x \div y) + y
OBVIOUS

LEMMA QuotientPos ==
    ASSUME NEW x \in Nat, NEW y \in Nat \ {0}
    PROVE  x \div y \in Nat
OBVIOUS

(* Times a fraction that is at least 1. *)
LEMMA FractionGrows ==
    ASSUME NEW x \in Nat, NEW y \in Nat \ {0}, NEW n \in Nat, NEW d \in Nat \ {0}, d <= n
    PROVE  x \div y <= (n * x) \div (d * y)
<1> DEFINE q == x \div y
           r == (n * x) \div (d * y)
<1>1. q \in Nat /\ y * q <= x
  BY Quotient, QuotientPos
<1>2. n * x \in Nat /\ d * y \in Nat \ {0}
  OBVIOUS
<1>3. r \in Nat /\ n * x < (d * y) * r + d * y
  <2> DEFINE u == n * x
             v == d * y
  <2>1. u \in Nat /\ v \in Nat \ {0}
    BY <1>2
  <2> HIDE DEF u, v
  <2>2. u \div v \in Nat /\ u < v * (u \div v) + v
    BY <2>1, Quotient, QuotientPos
  <2>3. QED
    BY <2>2 DEF u, v
<1> HIDE DEF q, r
<1>4. d * (y * q) <= d * x /\ d * x <= n * x
  <2>1. y * q \in Nat
    BY <1>1
  <2>2. QED
    BY <1>1, <2>1
<1>5. d * (y * q) = (d * y) * q
  BY <1>1
<1>6. (d * y) * q < (d * y) * (r + 1)
  BY <1>1, <1>2, <1>3, <1>4, <1>5
<1>7. q < r + 1
  <2> DEFINE e == d * y
  <2>1. e \in Nat \ {0} /\ e * q < e * (r + 1)
    BY <1>2, <1>6
  <2> HIDE DEF e
  <2>2. QED
    BY <1>1, <1>3, <2>1
<1>8. QED
  BY <1>1, <1>3, <1>7 DEF q, r

(* Times a fraction that is at most 1. *)
LEMMA FractionShrinks ==
    ASSUME NEW x \in Nat, NEW y \in Nat \ {0}, NEW n \in Nat, NEW d \in Nat \ {0}, n <= d
    PROVE  (n * x) \div (d * y) <= x \div y
<1> DEFINE q == x \div y
           r == (n * x) \div (d * y)
<1>1. q \in Nat /\ x < y * q + y
  BY Quotient, QuotientPos
<1>2. n * x \in Nat /\ d * y \in Nat \ {0}
  OBVIOUS
<1>3. r \in Nat /\ (d * y) * r <= n * x
  <2> DEFINE u == n * x
             v == d * y
  <2>1. u \in Nat /\ v \in Nat \ {0}
    BY <1>2
  <2> HIDE DEF u, v
  <2>2. u \div v \in Nat /\ v * (u \div v) <= u
    BY <2>1, Quotient, QuotientPos
  <2>3. QED
    BY <2>2 DEF u, v
<1> HIDE DEF q, r
<1>4. n * x <= d * x /\ d * x < d * (y * (q + 1))
  <2>1. y * (q + 1) \in Nat /\ x < y * (q + 1)
    BY <1>1
  <2> DEFINE z == y * (q + 1)
  <2> HIDE DEF z
  <2>2. z \in Nat /\ x < z
    BY <2>1 DEF z
  <2>3. d * x < d * z /\ n * x <= d * x
    BY <2>2
  <2>4. QED
    BY <2>3 DEF z
<1>5. d * (y * (q + 1)) = (d * y) * (q + 1)
  BY <1>1
<1>6. (d * y) * r < (d * y) * (q + 1)
  BY <1>1, <1>2, <1>3, <1>4, <1>5
<1>7. r < q + 1
  <2> DEFINE e == d * y
  <2>1. e \in Nat \ {0} /\ e * r < e * (q + 1)
    BY <1>2, <1>6
  <2> HIDE DEF e
  <2>2. QED
    BY <1>1, <1>3, <2>1
<1>8. QED
  BY <1>1, <1>3, <1>7 DEF q, r
(* The delay of attempt a before the cap. *)
Delay(p, a) == (p.Initial * Powers(p.Num)[a]) \div Powers(p.Den)[a]

LEMMA DelaySteps ==
    ASSUME NEW p \in Policies, p.Num \in Nat, NEW a \in Nat
    PROVE  /\ Delay(p, a) \in Nat /\ Delay(p, a + 1) \in Nat
           /\ p.Num >= p.Den => Delay(p, a) <= Delay(p, a + 1)
           /\ p.Num <= p.Den => Delay(p, a + 1) <= Delay(p, a)
<1>0. /\ \A m \in Int : \A i \in Nat : Powers(m)[i + 1] = m * Powers(m)[i]
      /\ p.Num \in Int /\ p.Den \in Int
  <2>1. ASSUME NEW m \in Int PROVE \A i \in Nat : Powers(m)[i + 1] = m * Powers(m)[i]
    BY PowersRecur
  <2>2. p.Num \in Int /\ p.Den \in Int
    BY PolicyTypes
  <2>3. QED
    BY <2>1, <2>2
<1> DEFINE n == p.Num
           d == p.Den
           x == p.Initial * Powers(p.Num)[a]
           y == Powers(p.Den)[a]
<1>1. p.Initial \in Nat /\ n \in Nat /\ d \in Nat \ {0}
  BY PolicyTypes
<1>2. x \in Nat /\ y \in Nat \ {0}
  <2>1. Powers(p.Num)[a] \in Nat /\ y \in Nat /\ y # 0
    BY <1>1, PowersPositive
  <2>2. QED
    BY <1>1, <2>1
<1>3. Powers(p.Den)[a + 1] = d * y
  BY <1>0
<1>4. p.Initial * Powers(p.Num)[a + 1] = n * x
  <2>1. Powers(p.Num)[a + 1] = n * Powers(p.Num)[a] /\ Powers(p.Num)[a] \in Nat
    BY <1>0, <1>1, PowersPositive
  <2>2. \A u, v, w \in Nat : u * (v * w) = v * (u * w)
    OBVIOUS
  <2>3. QED
    BY <1>1, <2>1, <2>2
<1>5. Delay(p, a) = x \div y /\ Delay(p, a + 1) = (n * x) \div (d * y)
  BY <1>3, <1>4 DEF Delay
<1> HIDE DEF x, y, n, d
<1>6. x \div y \in Nat
  BY <1>2, QuotientPos
<1>7. (n * x) \div (d * y) \in Nat
  <2> DEFINE u == n * x
             v == d * y
  <2>1. u \in Nat /\ v \in Nat \ {0}
    BY <1>1, <1>2
  <2> HIDE DEF u, v
  <2>2. u \div v \in Nat
    BY <2>1, QuotientPos
  <2>3. QED
    BY <2>2 DEF u, v
<1>8. n >= d => x \div y <= (n * x) \div (d * y)
  BY <1>1, <1>2, FractionGrows
<1>9. n <= d => (n * x) \div (d * y) <= x \div y
  BY <1>1, <1>2, FractionShrinks
<1>10. QED
  BY <1>5, <1>6, <1>7, <1>8, <1>9 DEF n, d

LEMMA DelayMonotone ==
    ASSUME NEW p \in Policies, p.Num \in Nat, NEW a \in Nat, NEW b \in Nat, a <= b
    PROVE  /\ Delay(p, a) \in Nat /\ Delay(p, b) \in Nat
           /\ p.Num >= p.Den => Delay(p, a) <= Delay(p, b)
           /\ p.Num <= p.Den => Delay(p, b) <= Delay(p, a)
<1> DEFINE D == [i \in Nat |-> Delay(p, i)]
           n == p.Num
           d == p.Den
           S == {k \in Nat : (n >= d => D[a] <= D[a + k]) /\ (n <= d => D[a + k] <= D[a])}
<1>0. n \in Int /\ d \in Int
  BY PolicyTypes
<1>1. \A i \in Nat :
         /\ D[i] \in Nat
         /\ n >= d => D[i] <= D[i + 1]
         /\ n <= d => D[i + 1] <= D[i]
  BY DelaySteps
<1> HIDE DEF D, n, d
<1>2. 0 \in S
  BY <1>0, <1>1
<1>3. ASSUME NEW k \in S PROVE k + 1 \in S
  <2>1. a + k \in Nat /\ a + (k + 1) = (a + k) + 1 /\ a + (k + 1) \in Nat /\ k + 1 \in Nat
    OBVIOUS
  <2>2. D[a] \in Nat /\ D[a + k] \in Nat /\ D[a + (k + 1)] \in Nat
    BY <1>0, <1>1, <2>1
  <2>3. /\ n >= d => (D[a + k] <= D[a + (k + 1)] /\ D[a] <= D[a + k])
        /\ n <= d => (D[a + (k + 1)] <= D[a + k] /\ D[a + k] <= D[a])
    BY <1>0, <1>1, <2>1
  <2>4. QED
    BY <2>1, <2>2, <2>3
<1> HIDE DEF S
<1>4. Nat \subseteq S
  BY <1>2, <1>3, Climb
<1>5. b - a \in S /\ a + (b - a) = b
  BY <1>4
<1>6. (n >= d => D[a] <= D[b]) /\ (n <= d => D[b] <= D[a])
  BY <1>5 DEF S
<1>7. QED
  BY <1>1, <1>6 DEF D, n, d

LEMMA BackoffCapped ==
    ASSUME NEW p \in Policies, NEW a \in Nat \ {0}
    PROVE  /\ Backoff(p, a) \in Int
           /\ IF p.Num = 0 THEN Backoff(p, a) = p.Initial ELSE Backoff(p, a) <= p.Max
<1>1. p.Initial \in Nat /\ p.Max \in Nat /\ p.Num \in Int /\ p.Den \in Nat \ {0}
  BY PolicyTypes
<1>2. CASE p.Num = 0
  BY <1>1, <1>2 DEF Backoff
<1>3. CASE p.Num # 0
  <2> DEFINE x == p.Initial * Powers(p.Num)[a]
             y == Powers(p.Den)[a]
  <2>1. x \in Int /\ y \in Nat \ {0}
    <3>1. Powers(p.Num)[a] \in Int /\ y \in Nat /\ y # 0
      BY <1>1, PowersRecur, PowersPositive
    <3>2. QED
      BY <1>1, <3>1
  <2>2. Backoff(p, a) = Least(x \div y, p.Max)
    BY <1>3 DEF Backoff
  <2> HIDE DEF x, y
  <2>3. x \div y \in Int
    BY <2>1, Quotient
  <2>4. QED
    BY <1>1, <1>3, <2>2, <2>3 DEF Least
<1>4. QED
  BY <1>2, <1>3

(* The cap keeps the order of the delays. *)
LEMMA BackoffMonotone ==
    ASSUME NEW p \in Policies, NEW a \in Nat \ {0}, NEW b \in Nat \ {0}, a <= b
    PROVE  /\ p.Num = 0 \/ p.Num >= p.Den => Backoff(p, a) <= Backoff(p, b)
           /\ 0 <= p.Num /\ p.Num <= p.Den => Backoff(p, b) <= Backoff(p, a)
<1>1. p.Initial \in Nat /\ p.Max \in Nat /\ p.Num \in Int /\ p.Den \in Nat \ {0}
  BY PolicyTypes
<1>2. CASE p.Num = 0
  BY <1>1, <1>2 DEF Backoff
<1>3. CASE p.Num # 0
  <2>1. Backoff(p, a) = Least(Delay(p, a), p.Max) /\ Backoff(p, b) = Least(Delay(p, b), p.Max)
    BY <1>3 DEF Backoff, Delay
  <2>2. CASE p.Num \in Nat
    <3>1. /\ Delay(p, a) \in Nat /\ Delay(p, b) \in Nat
          /\ p.Num >= p.Den => Delay(p, a) <= Delay(p, b)
          /\ p.Num <= p.Den => Delay(p, b) <= Delay(p, a)
      BY <2>2, DelayMonotone
    <3>2. QED
      BY <1>1, <1>3, <2>1, <3>1 DEF Least
  <2>3. CASE p.Num \notin Nat
    BY <1>1, <1>3, <2>3
  <2>4. QED
    BY <2>2, <2>3
<1>4. QED
  BY <1>2, <1>3

-----------------------------------------------------------------------------
LEMMA FailedFinite ==
    ASSUME NEW k \in Links
    PROVE  IsFiniteSet(Failed(k)) /\ Cardinality(Failed(k)) \in Nat
<1>1. IsFiniteSet(Conns)
  BY ReconnectAssumption, FS_Interval DEF Conns
<1>2. QED
  BY <1>1, FS_Subset, FS_CardinalityType DEF Failed

LEMMA ReconnectStart == Init => ReconnectInv
<1> SUFFICES ASSUME Init PROVE ReconnectInv
  OBVIOUS
<1>1. Types
  BY ReconnectAssumption DEF Init, Types, Links
<1>2. ErrorsCounted /\ WatchedInOrder
  BY DEF Init, ErrorsCounted, WatchedInOrder
<1>3. AttemptsCounted
  BY PolicyTypes DEF Init, AttemptsCounted
<1>4. QED
  BY <1>1, <1>2, <1>3 DEF ReconnectInv

-----------------------------------------------------------------------------
(* The connections *)

(* The manager's part is not touched while pc and the counters stay. *)
LEMMA ManagerStays ==
    ASSUME ReconnectInv, UNCHANGED <<loop, policy, pc, attempt, dials>> PROVE AttemptsCounted'
BY DEF ReconnectInv, AttemptsCounted

LEMMA ShutFacts ==
    ASSUME Types, NEW k \in Links, ShutLink(k)
    PROVE  /\ conn' \in [Links -> [Conns -> {"none", "up", "failed", "shut"}]]
           /\ live' \in [Links -> SUBSET Conns]
           /\ \A j \in Links : Failed(j)' = Failed(j)
           /\ \A j \in Links \ {k} : conn'[j] = conn[j] /\ live'[j] = live[j]
           /\ live'[k] = {} /\ Up(k)' = {}
           /\ \A j \in Links \ {k} : Up(j)' = Up(j)
BY DEF Types, ShutLink, Failed, Up

LEMMA DropKeepsInv == ASSUME ReconnectInv, NEW c \in Conns, Drop(c) PROVE ReconnectInv'
<1> USE DEF ReconnectInv, managerVars
<1>1. /\ link \in Links /\ conn[link][c] = "up"
      /\ UNCHANGED <<loop, policy, pc, result, link, watched, heard, waiting, box, attempt, dials>>
  BY DEF Drop, Types
<1>2. /\ conn' \in [Links -> [Conns -> {"none", "up", "failed", "shut"}]]
      /\ \A k \in Links, d \in Conns :
            conn'[k][d] = IF k = link /\ d = c THEN "failed" ELSE conn[k][d]
  BY <1>1 DEF Drop, Types
<1>3. /\ live' \in [Links -> SUBSET Conns]
      /\ live'[link] = live[link] \ {c} /\ \A k \in Links \ {link} : live'[k] = live[k]
  BY <1>1 DEF Drop, Types
<1>4. /\ pend' \in [Links -> Nat]
      /\ pend'[link] = (IF c \in live[link] THEN pend[link] + 1 ELSE pend[link])
      /\ \A k \in Links \ {link} : pend'[k] = pend[k]
  BY <1>1 DEF Drop, Types
<1>5. Types'
  BY <1>1, <1>2, <1>3, <1>4 DEF Types
<1>6. /\ \A k \in Links \ {link} : Failed(k)' = Failed(k)
      /\ \A k \in Links : k = link => Cardinality(Failed(k)') = Cardinality(Failed(k)) + 1
  <2>1. \A k \in Links \ {link} : Failed(k)' = Failed(k)
    BY <1>2 DEF Failed
  <2>2. \A k \in Links : k = link => Failed(k)' = Failed(k) \cup {c} /\ c \notin Failed(k)
    BY <1>1, <1>2 DEF Failed
  <2>3. QED
    BY <1>1, <2>1, <2>2, FailedFinite, FS_AddElement
<1>7. ErrorsCounted'
  <2> SUFFICES ASSUME NEW k \in watched
               PROVE  pend'[k] + box[k] + (IF Attended(k) THEN 0 ELSE 1) <= Cardinality(Failed(k)')
    BY <1>1 DEF ErrorsCounted, Attended
  <2>1. k \in Links /\ pend[k] \in Nat /\ box[k] \in Nat /\ Cardinality(Failed(k)) \in Nat
        /\ pend[k] + box[k] + (IF Attended(k) THEN 0 ELSE 1) <= Cardinality(Failed(k))
    BY FailedFinite DEF Types, ErrorsCounted
  <2>2. CASE k = link
    BY <1>4, <1>6, <2>1, <2>2
  <2>3. CASE k # link
    BY <1>4, <1>6, <2>1, <2>3
  <2>4. QED
    BY <2>2, <2>3
<1>8. WatchedInOrder'
  <2>1. Up(link)' = Up(link) \ {c} /\ \A k \in Links \ {link} : Up(k)' = Up(k)
    BY <1>1, <1>2 DEF Up
  <2>2. \A k \in Links \ watched : pend'[k] = 0 /\ live'[k] = {}
    BY <1>3, <1>4 DEF WatchedInOrder
  <2>3. \A k \in watched : Up(k)' \subseteq waiting[k] \cup live'[k]
    BY <1>1, <1>3, <2>1 DEF WatchedInOrder, Types
  <2>4. QED
    BY <1>1, <2>2, <2>3 DEF WatchedInOrder
<1>9. QED
  BY <1>1, <1>5, <1>7, <1>8, ManagerStays

LEMMA CloseKeeps == ASSUME ReconnectInv, Close PROVE ReconnectInv'
<1> USE DEF ReconnectInv, managerVars
<1>1. /\ ShutLink(link) /\ link \in Links
      /\ UNCHANGED <<loop, policy, pc, result, link, watched, heard, waiting, pend, box, attempt, dials>>
  BY DEF Close, Types
<1>2. Types' /\ ErrorsCounted'
  BY <1>1, ShutFacts DEF Types, ErrorsCounted, Attended
<1>3. WatchedInOrder'
  BY <1>1, ShutFacts DEF WatchedInOrder, Types
<1>4. QED
  BY <1>1, <1>2, <1>3, ManagerStays

(* The forwarder moves one error on. *)
LEMMA ForwardKeeps == ASSUME ReconnectInv, NEW k \in Links, Forward(k) PROVE ReconnectInv'
<1> USE DEF ReconnectInv, managerVars, clientVars
<1>1. /\ UNCHANGED <<loop, policy, pc, result, link, conn, watched, heard, waiting, live, attempt, dials>>
      /\ pend[k] \in Nat /\ pend[k] > 0 /\ box[k] = 0
      /\ pend' = [pend EXCEPT ![k] = @ - 1] /\ box' = [box EXCEPT ![k] = 1]
  BY DEF Forward, Types
<1>2. Types'
  BY <1>1 DEF Types
<1>3. \A j \in Links : pend'[j] + box'[j] = pend[j] + box[j]
  BY <1>1 DEF Types
<1>4. ErrorsCounted'
  BY <1>1, <1>3 DEF ErrorsCounted, Attended, Failed, Types
<1>5. WatchedInOrder'
  <2>1. k \in watched
    BY <1>1 DEF WatchedInOrder
  <2>2. \A j \in Links \ {k} : pend'[j] = pend[j] /\ box'[j] = box[j]
    BY <1>1 DEF Types
  <2>3. QED
    BY <1>1, <2>1, <2>2 DEF WatchedInOrder, Up
<1>6. QED
  BY <1>1, <1>2, <1>4, <1>5, ManagerStays

(* A goroutine registers its listener, or finds the connection down. *)
LEMMA RegisterKeeps ==
    ASSUME ReconnectInv, NEW k \in Links, NEW c \in Conns, Register(k, c) PROVE ReconnectInv'
<1> USE DEF ReconnectInv, managerVars, clientVars
<1>1. /\ UNCHANGED <<loop, policy, pc, result, link, conn, watched, heard, pend, box, attempt, dials>>
      /\ c \in waiting[k]
      /\ waiting' = [waiting EXCEPT ![k] = @ \ {c}]
      /\ live' = IF conn[k][c] = "up" THEN [live EXCEPT ![k] = @ \cup {c}] ELSE live
  BY DEF Register
<1>2. Types'
  BY <1>1 DEF Types
<1>3. ErrorsCounted'
  BY <1>1 DEF ErrorsCounted, Attended, Failed, Types
<1>4. WatchedInOrder'
  <2>1. k \in watched
    BY <1>1 DEF WatchedInOrder
  <2>2. \A j \in Links \ {k} : waiting'[j] = waiting[j] /\ live'[j] = live[j]
    BY <1>1 DEF Types
  <2>3. \A j \in watched : Up(j)' \subseteq waiting'[j] \cup live'[j]
    <3>1. Up(k) \subseteq waiting'[k] \cup live'[k]
      BY <1>1, <2>1 DEF WatchedInOrder, Types, Up
    <3>2. \A j \in watched : Up(j)' = Up(j)
      BY <1>1 DEF Up
    <3>3. QED
      BY <2>2, <3>1, <3>2 DEF WatchedInOrder, Types
  <2>4. QED
    BY <1>1, <2>1, <2>2, <2>3 DEF WatchedInOrder
<1>5. QED
  BY <1>1, <1>2, <1>3, <1>4, ManagerStays

-----------------------------------------------------------------------------
(* Dialling, by a loop or by somebody else *)

LEMMA RedialKeeps ==
    ASSUME ReconnectInv, Redial, pc' = pc \/ (pc = "connect" /\ pc' \in {"notify", "out"})
    PROVE  /\ ErrorsCounted' /\ WatchedInOrder'
           /\ UNCHANGED <<watched, heard, waiting, pend, box>> /\ link' \in Links
           /\ conn' \in [Links -> [Conns -> {"none", "up", "failed", "shut"}]]
           /\ live' \in [Links -> SUBSET Conns]
<1> USE DEF ReconnectInv
<1>1. /\ link \in Links /\ link + 1 \in Links /\ link' = link + 1
      /\ link + 1 \notin watched
      /\ UNCHANGED <<watched, heard, waiting, pend, box>>
  <2>1. /\ link \in 1..MaxLinks /\ link < MaxLinks /\ link' = link + 1 /\ MaxLinks \in Nat
        /\ UNCHANGED <<watched, heard, waiting, pend, box>>
    BY ReconnectAssumption DEF Redial, Types, Links
  <2>2. ~(link + 1 <= link)
    BY <2>1
  <2>3. QED
    BY <2>1, <2>2 DEF WatchedInOrder, Links
<1>2. /\ conn' \in [Links -> [Conns -> {"none", "up", "failed", "shut"}]]
      /\ live' \in [Links -> SUBSET Conns]
      /\ \A k \in Links \ {link} : live'[k] = live[k]
      /\ live'[link] = {}
  BY <1>1 DEF Redial, Types
<1>3. /\ \A k \in Links \ {link + 1} : Failed(k)' = Failed(k)
      /\ \A k \in Links \ {link, link + 1} : Up(k)' = Up(k)
      /\ \A k \in Links : k = link => Up(k)' = {}
  <2>1. link # link + 1
    BY <1>1 DEF Links
  <2>2. \A k \in Links \ {link, link + 1} : conn'[k] = conn[k]
    BY <1>1 DEF Redial, Types
  <2>3. \A c \in Conns : conn'[link][c] = IF conn[link][c] = "up" THEN "shut" ELSE conn[link][c]
    BY <1>1, <2>1 DEF Redial, Types
  <2>4. QED
    BY <1>1, <2>1, <2>2, <2>3 DEF Failed, Up
<1>4. ErrorsCounted'
  <2> SUFFICES ASSUME NEW k \in watched
               PROVE  pend[k] + box[k] + (IF Attended(k)' THEN 0 ELSE 1) <= Cardinality(Failed(k)')
    BY <1>1 DEF ErrorsCounted
  <2>1. k # link + 1 /\ k \in Links /\ (Attended(k)' <=> Attended(k))
    BY <1>1 DEF Attended, Types
  <2>2. QED
    BY <1>3, <2>1 DEF ErrorsCounted
<1>5. WatchedInOrder'
  <2>1. \A k \in watched : k <= link + 1 /\ k # link + 1 /\ k \in Links
    BY <1>1 DEF WatchedInOrder, Links, Types
  <2>2. \A k \in watched : Up(k)' \subseteq waiting[k] \cup live'[k]
    BY <1>2, <1>3, <2>1 DEF WatchedInOrder
  <2>3. \A k \in Links \ watched : pend[k] = 0 /\ box[k] = 0 /\ waiting[k] = {} /\ live'[k] = {}
    BY <1>2 DEF WatchedInOrder
  <2>4. pc' = "watch" => heard \in watched
    BY DEF WatchedInOrder
  <2>5. QED
    BY <1>1, <2>1, <2>2, <2>3, <2>4 DEF WatchedInOrder
<1>6. QED
  BY <1>1, <1>2, <1>4, <1>5

LEMMA RedialFailsKeeps ==
    ASSUME ReconnectInv, RedialFails, pc' = pc \/ (pc = "connect" /\ pc' \in {"backoff", "next"})
    PROVE  /\ ErrorsCounted' /\ WatchedInOrder'
           /\ UNCHANGED <<link, watched, heard, waiting, pend, box>>
           /\ conn' \in [Links -> [Conns -> {"none", "up", "failed", "shut"}]]
           /\ live' \in [Links -> SUBSET Conns]
<1> USE DEF ReconnectInv
<1>1. link \in Links /\ UNCHANGED <<link, watched, heard, waiting, pend, box>>
  BY DEF RedialFails, Types
<1>2. \A k \in Links : Attended(k)' = Attended(k)
  BY <1>1 DEF Attended
<1>3. CASE closed
  <2>1. UNCHANGED <<conn, live>>
    BY <1>3 DEF RedialFails
  <2>2. QED
    BY <1>1, <1>2, <2>1 DEF ErrorsCounted, WatchedInOrder, Types, Failed, Up
<1>4. CASE ~closed
  <2>1. ShutLink(link)
    BY <1>4 DEF RedialFails
  <2>2. ErrorsCounted'
    BY <1>1, <1>2, <2>1, ShutFacts DEF ErrorsCounted, Types
  <2>3. WatchedInOrder'
    BY <1>1, <2>1, ShutFacts DEF WatchedInOrder, Types
  <2>4. QED
    BY <1>1, <2>1, <2>2, <2>3, ShutFacts
<1>5. QED
  BY <1>3, <1>4

LEMMA OthersKeep == ASSUME ReconnectInv, OthersReconnect PROVE ReconnectInv'
<1> USE DEF ReconnectInv, managerVars
<1>1. UNCHANGED <<loop, policy, pc, result, attempt, dials>> /\ (Redial \/ RedialFails)
  BY DEF OthersReconnect
<1>2. /\ ErrorsCounted' /\ WatchedInOrder' /\ UNCHANGED <<watched, heard, waiting, pend, box>>
      /\ link' \in Links /\ live' \in [Links -> SUBSET Conns]
      /\ conn' \in [Links -> [Conns -> {"none", "up", "failed", "shut"}]]
  BY <1>1, RedialKeeps, RedialFailsKeeps DEF Types
<1>3. Types'
  BY <1>1, <1>2 DEF Types
<1>4. QED
  BY <1>1, <1>2, <1>3, ManagerStays

-----------------------------------------------------------------------------
(* The helper *)

LEMMA HelperKeeps == ASSUME ReconnectInv, Helper PROVE ReconnectInv'
<1> USE DEF ReconnectInv, Step, managerVars, clientVars, notifyVars
<1>1. CASE Connected
  <2>1. /\ pc = "connect" /\ pc' = "notify" /\ Redial /\ loop = "helper"
        /\ UNCHANGED <<loop, policy, result, attempt, dials>>
    BY <1>1 DEF Connected
  <2>2. AttemptsCounted'
    BY <2>1 DEF AttemptsCounted
  <2>3. QED
    BY <2>1, <2>2, RedialKeeps DEF Types
<1>2. CASE NotConnected
  <2>1. /\ pc = "connect" /\ pc' = "backoff" /\ RedialFails /\ loop = "helper"
        /\ UNCHANGED <<loop, policy, result, attempt, dials>>
    BY <1>2 DEF NotConnected
  <2>2. AttemptsCounted'
    BY <2>1 DEF AttemptsCounted
  <2>3. QED
    BY <2>1, <2>2, RedialFailsKeeps DEF Types
<1>3. CASE BackoffOver
  <2>1. \A k \in Links : Attended(k)' = Attended(k)
    BY <1>3 DEF BackoffOver, Attended
  <2>2. ErrorsCounted'
    BY <1>3, <2>1 DEF BackoffOver, ErrorsCounted, Types, Failed
  <2>3. AttemptsCounted'
    BY <1>3 DEF BackoffOver, AttemptsCounted
  <2>4. Types' /\ WatchedInOrder'
    BY <1>3 DEF BackoffOver, Types, WatchedInOrder, Up
  <2>5. QED
    BY <2>2, <2>3, <2>4
<1>4. CASE Notify
  <2>1. /\ pc = "notify" /\ pc' = "watch" /\ link \in Links /\ link \notin watched
        /\ watched' = watched \cup {link} /\ heard' = link
        /\ waiting' = [waiting EXCEPT ![link] = IF Pooled THEN Conns ELSE {}]
        /\ live' = [live EXCEPT ![link] = IF Pooled THEN {} ELSE Up(link)]
        /\ UNCHANGED <<loop, policy, result, link, conn, pend, box, attempt, dials>>
        /\ pend[link] = 0 /\ box[link] = 0
    BY <1>4 DEF Notify, WatchedInOrder, Types
  <2>2. Types'
    BY <2>1 DEF Types, Up
  <2>3. ErrorsCounted'
    <3>1. \A k \in Links : Failed(k)' = Failed(k)
      BY <2>1 DEF Failed
    <3>2. Attended(link)' /\ \A k \in watched : ~Attended(k) /\ ~Attended(k)'
      BY <2>1 DEF Attended
    <3>3. Cardinality(Failed(link)) \in Nat
      BY <2>1, FailedFinite
    <3>4. QED
      BY <2>1, <3>1, <3>2, <3>3 DEF ErrorsCounted, Types
  <2>4. WatchedInOrder'
    <3>1. \A k \in Links : Up(k)' = Up(k)
      BY <2>1 DEF Up
    <3>2. \A k \in Links \ {link} : waiting'[k] = waiting[k] /\ live'[k] = live[k]
      BY <2>1 DEF Types
    <3>3. Up(link) \subseteq waiting'[link] \cup live'[link]
      BY <2>1 DEF Types, Up
    <3>4. \A k \in watched' : k <= link /\ Up(k)' \subseteq waiting'[k] \cup live'[k]
      BY <2>1, <3>1, <3>2, <3>3 DEF WatchedInOrder, Types, Links
    <3>5. QED
      BY <2>1, <3>2, <3>4 DEF WatchedInOrder
  <2>5. AttemptsCounted'
    BY <2>1 DEF AttemptsCounted
  <2>6. QED
    BY <2>2, <2>3, <2>4, <2>5
<1>5. CASE HearError
  <2>1. /\ pc = "watch" /\ pc' = "connect" /\ heard \in watched /\ heard \in Links
        /\ box[heard] = 1 /\ box' = [box EXCEPT ![heard] = 0]
        /\ UNCHANGED <<loop, policy, result, link, conn, watched, heard, waiting, live, pend,
                       attempt, dials>>
    BY <1>5 DEF HearError, WatchedInOrder, Types
  <2>2. Types'
    BY <2>1 DEF Types
  <2>3. ErrorsCounted'
    <3> SUFFICES ASSUME NEW k \in watched
                 PROVE  pend[k] + box'[k] + (IF Attended(k)' THEN 0 ELSE 1) <= Cardinality(Failed(k))
      BY <2>1 DEF ErrorsCounted, Failed
    <3>1. /\ k \in Links /\ pend[k] \in Nat /\ Cardinality(Failed(k)) \in Nat
          /\ pend[k] + box[k] + (IF Attended(k) THEN 0 ELSE 1) <= Cardinality(Failed(k))
      BY FailedFinite DEF Types, ErrorsCounted
    <3>2. CASE k = heard
      <4>1. Attended(k) /\ ~Attended(k)' /\ box[k] = 1 /\ box'[k] = 0
        BY <2>1, <3>2 DEF Attended, Types
      <4>2. QED
        BY <3>1, <4>1
    <3>3. CASE k # heard
      <4>1. ~Attended(k) /\ ~Attended(k)' /\ box'[k] = box[k]
        BY <2>1, <3>1, <3>3 DEF Attended, Types
      <4>2. QED
        BY <3>1, <4>1
    <3>4. QED
      BY <3>2, <3>3
  <2>4. WatchedInOrder'
    BY <2>1 DEF WatchedInOrder, Types, Up
  <2>5. AttemptsCounted'
    BY <2>1 DEF AttemptsCounted
  <2>6. QED
    BY <2>2, <2>3, <2>4, <2>5
<1>6. CASE HearEnd \/ CtxReturn
  <2>1. /\ pc \in {"watch", "backoff"} /\ pc' = "done" /\ result' \in {"ctx", "nil"}
        /\ UNCHANGED <<loop, policy, link, conn, watched, heard, waiting, live, pend, box,
                       attempt, dials>>
    BY <1>6 DEF HearEnd, CtxReturn
  <2>2. Types' /\ WatchedInOrder' /\ AttemptsCounted'
    BY <2>1 DEF Types, WatchedInOrder, AttemptsCounted, Up
  <2>3. ErrorsCounted'
    <3>1. \A k \in watched : Failed(k)' = Failed(k) /\ (Attended(k) => Attended(k)')
      BY <2>1 DEF Failed, Attended
    <3>2. \A k \in watched : pend[k] \in Nat /\ box[k] \in Nat /\ Cardinality(Failed(k)) \in Nat
      BY FailedFinite DEF Types
    <3>3. QED
      BY <2>1, <3>1, <3>2 DEF ErrorsCounted
  <2>4. QED
    BY <2>2, <2>3
<1>7. QED
  BY <1>1, <1>2, <1>3, <1>4, <1>5, <1>6 DEF Helper

-----------------------------------------------------------------------------
(* The manager *)

LEMMA ManagerKeeps == ASSUME ReconnectInv, Manager PROVE ReconnectInv'
<1> USE DEF ReconnectInv, Step, managerVars, clientVars, notifyVars
<1>0. policy.MaxAttempts \in Nat /\ policy.Enabled \in BOOLEAN
  BY PolicyTypes DEF Types
<1>1. CASE Call \/ TryNext \/ GiveUp \/ Wake
  <2>1. /\ pc \in {"out", "next", "sleep"} /\ pc' \in {"out", "next", "sleep", "connect"}
        /\ attempt' \in Int /\ attempt' >= attempt
        /\ UNCHANGED <<loop, policy, result, link, conn, watched, heard, waiting, live, pend, box, dials>>
    BY <1>1 DEF Call, TryNext, GiveUp, Wake, Types
  <2>2. Types'
    BY <2>1 DEF Types
  <2>3. ErrorsCounted' /\ WatchedInOrder'
    <3>1. \A k \in Links : Attended(k)' = Attended(k)
      BY <2>1 DEF Attended
    <3>2. QED
      BY <2>1, <3>1 DEF ErrorsCounted, WatchedInOrder, Types, Failed, Up
  <2>4. AttemptsCounted'
    <3>1. CASE Call
      BY <3>1 DEF Call, AttemptsCounted
    <3>2. CASE TryNext
      <4>1. /\ pc = "next" /\ pc' \in {"sleep", "connect"} /\ attempt' = attempt + 1
            /\ policy.Enabled /\ Proceed(attempt + 1)
            /\ UNCHANGED <<loop, policy, dials>>
        BY <3>2 DEF TryNext
      <4>2. QED
        BY <1>0, <4>1 DEF AttemptsCounted, Proceed, Types
    <3>3. CASE GiveUp
      <4>1. pc = "next" /\ pc' = "out" /\ UNCHANGED <<loop, policy, dials>>
        BY <3>3 DEF GiveUp
      <4>2. loop = "manager" /\ dials <= attempt + 1
        BY <4>1 DEF AttemptsCounted, Types
      <4>3. dials <= attempt' + 1
        <5>1. dials \in Int /\ attempt \in Int
          BY DEF Types
        <5>2. attempt' = attempt + 1 \/ attempt' = attempt
          BY <3>3 DEF GiveUp
        <5>3. QED
          BY <4>2, <5>1, <5>2
      <4>4. QED
        BY <4>1, <4>2, <4>3 DEF AttemptsCounted
    <3>4. CASE Wake
      BY <3>4 DEF Wake, AttemptsCounted
    <3>5. QED
      BY <1>1, <3>1, <3>2, <3>3, <3>4
  <2>5. QED
    BY <2>2, <2>3, <2>4
<1>2. CASE DialFails
  <2>1. /\ pc = "connect" /\ pc' = "next" /\ RedialFails /\ loop = "manager" /\ dials' = dials + 1
        /\ UNCHANGED <<loop, policy, result, attempt>>
    BY <1>2 DEF DialFails
  <2>2. AttemptsCounted'
    BY <1>0, <2>1 DEF AttemptsCounted, Types
  <2>3. QED
    BY <2>1, <2>2, RedialFailsKeeps DEF Types
<1>3. CASE Reconnected
  <2>1. /\ pc = "connect" /\ pc' = "out" /\ Redial /\ loop = "manager" /\ dials' = 0 /\ attempt' = -1
        /\ UNCHANGED <<loop, policy, result>>
    BY <1>3 DEF Reconnected
  <2>2. AttemptsCounted'
    BY <1>0, <2>1 DEF AttemptsCounted, Types
  <2>3. QED
    BY <2>1, <2>2, RedialKeeps DEF Types
<1>4. QED
  BY <1>1, <1>2, <1>3 DEF Manager

LEMMA ReconnectNext == ASSUME ReconnectInv, [Next]_vars PROVE ReconnectInv'
<1>1. CASE CtxEnds
  BY <1>1 DEF CtxEnds, ReconnectInv, managerVars, clientVars, notifyVars,
     Types, ErrorsCounted, WatchedInOrder, AttemptsCounted, Failed, Attended, Up
<1>2. CASE UNCHANGED vars
  BY <1>2 DEF vars, ReconnectInv, managerVars, clientVars, notifyVars,
     Types, ErrorsCounted, WatchedInOrder, AttemptsCounted, Failed, Attended, Up
<1>3. QED
  BY <1>1, <1>2, HelperKeeps, ManagerKeeps, CloseKeeps, OthersKeep, DropKeepsInv, ForwardKeeps,
     RegisterKeeps DEF Next, FanIn

THEOREM ReconnectAlways == Spec => []ReconnectInv
<1>1. Init => ReconnectInv
  BY ReconnectStart
<1>2. ReconnectInv /\ [Next]_vars => ReconnectInv'
  BY ReconnectNext
<1>3. QED
  BY <1>1, <1>2, PTL DEF Spec

-----------------------------------------------------------------------------
(* Theorems *)

(* However often an application calls the manager's loop, between two      *)
(* successes it dials at most MaxAttempts times, and never when disabled.  *)
THEOREM ManagerObeysPolicy == Spec => []DialsWithinPolicy
<1>1. ReconnectInv => DialsWithinPolicy
  BY DEF ReconnectInv, AttemptsCounted, DialsWithinPolicy
<1>2. QED
  BY <1>1, ReconnectAlways, PTL

(* The goroutine NotifyClose started for a link the helper has left is     *)
(* stuck for ever only if three connections of that link failed.           *)
THEOREM ForwarderStuckByThree == Spec => []ForwarderStuckOnlyByThree
<1>1. ReconnectInv => ForwarderStuckOnlyByThree
  <2> SUFFICES ASSUME ReconnectInv, NEW k \in watched, pend[k] > 0, box[k] = 1, ~Attended(k)
               PROVE  Cardinality({c \in Conns : conn[k][c] = "failed"}) >= 3
    BY DEF ForwarderStuckOnlyByThree, Attended
  <2>1. pend[k] \in Nat /\ Cardinality(Failed(k)) \in Nat
    BY FailedFinite DEF ReconnectInv, Types
  <2>2. pend[k] + box[k] + 1 <= Cardinality(Failed(k))
    BY DEF ReconnectInv, ErrorsCounted
  <2>3. Cardinality(Failed(k)) >= 3
    BY <2>1, <2>2
  <2>4. QED
    BY <2>3 DEF Failed
<1>2. QED
  BY <1>1, ReconnectAlways, PTL

(* The helper takes the link it watches for closed only when none of its   *)
(* connections is up.                                                      *)
THEOREM NilMeansDown == Spec => NilOnlyWhenDown
<1> DEFINE Told == result # "nil" /\ result' = "nil" => heard # 0 /\ Up(heard) = {}
<1>1. ReconnectInv /\ [Next]_vars => [Told]_vars
  <2> SUFFICES ASSUME ReconnectInv, Next, result # "nil", result' = "nil"
               PROVE  heard # 0 /\ Up(heard) = {}
    OBVIOUS
  <2>1. HearEnd
    <3>1. CASE Helper
      BY <3>1 DEF Helper, Connected, NotConnected, BackoffOver, Notify, HearError, CtxReturn
    <3>2. CASE Manager
      BY <3>2 DEF Manager, Call, TryNext, GiveUp, Wake, DialFails, Reconnected
    <3>3. QED
      BY <3>1, <3>2 DEF Next, FanIn, CtxEnds, Close, OthersReconnect, Drop, Forward, Register
  <2>2. pc = "watch" /\ heard \in watched /\ Ended(heard)
    BY <2>1 DEF HearEnd, Step, ReconnectInv, WatchedInOrder
  <2>3. heard \in Links /\ 0 \notin Links
    BY <2>2 DEF ReconnectInv, Types, Links
  <2>4. QED
    BY <2>2, <2>3 DEF Ended, ReconnectInv, WatchedInOrder
<1>2. QED
  BY <1>1, ReconnectAlways, PTL DEF Spec, NilOnlyWhenDown

-----------------------------------------------------------------------------
(* The delays *)

(* Only two steps change slept: one sleeps, one starts over. *)
LEMMA SleptSteps ==
    ASSUME Next, ~TryNext, ~Reconnected
    PROVE  UNCHANGED <<slept, policy, loop>> /\ attempt' \in {attempt, attempt + 1}
<1> USE DEF managerVars, clientVars, notifyVars
<1>1. CASE Helper
  BY <1>1 DEF Helper, Connected, NotConnected, BackoffOver, Notify, HearError, HearEnd, CtxReturn
<1>2. CASE Manager
  BY <1>2 DEF Manager, Call, GiveUp, Wake, DialFails
<1>3. CASE CtxEnds \/ Close \/ OthersReconnect
  BY <1>3 DEF CtxEnds, Close, OthersReconnect
<1>4. CASE \/ \E c \in Conns : Drop(c)
           \/ \E k \in Links : Forward(k) \/ \E c \in Conns : Register(k, c)
  BY <1>4 DEF Drop, Forward, Register
<1>5. QED
  BY <1>1, <1>2, <1>3, <1>4 DEF Next, FanIn

LEMMA FlagsStayTyped ==
    ASSUME Next, ctxDone \in BOOLEAN, closed \in BOOLEAN
    PROVE  ctxDone' \in BOOLEAN /\ closed' \in BOOLEAN
<1> USE DEF managerVars, clientVars, notifyVars, Redial, RedialFails
<1>1. CASE Helper
  BY <1>1 DEF Helper, Connected, NotConnected, BackoffOver, Notify, HearError, HearEnd, CtxReturn
<1>2. CASE Manager
  BY <1>2 DEF Manager, Call, TryNext, GiveUp, Wake, DialFails, Reconnected
<1>3. CASE CtxEnds \/ Close \/ OthersReconnect
  BY <1>3 DEF CtxEnds, Close, OthersReconnect
<1>4. CASE \/ \E c \in Conns : Drop(c)
           \/ \E k \in Links : Forward(k) \/ \E c \in Conns : Register(k, c)
  BY <1>4 DEF Drop, Forward, Register
<1>5. QED
  BY <1>1, <1>2, <1>3, <1>4 DEF Next, FanIn

(* The attempt TryNext makes, and what it sleeps. *)
LEMMA TryNextFacts ==
    ASSUME ReconnectInv, DelayOfAnAttempt, TryNext
    PROVE  /\ UNCHANGED <<loop, policy>> /\ loop = "manager"
           /\ attempt' = attempt + 1
           /\ \/ slept' = slept
              \/ attempt' > 0 /\ slept' = Backoff(policy, attempt') /\ slept' > 0
<1>1. pc = "next" /\ loop = "manager"
  BY DEF TryNext, Step, ReconnectInv, AttemptsCounted, Types
<1>2. QED
  BY <1>1 DEF TryNext, Step

LEMMA DelayKept ==
    ASSUME ReconnectInv, DelayOfAnAttempt, [Next]_vars PROVE DelayOfAnAttempt'
<1> USE DEF ReconnectInv
<1>0. attempt \in Int /\ attempt' \in Int /\ policy \in Policies
  BY ReconnectNext DEF Types
<1>1. CASE UNCHANGED vars
  BY <1>1 DEF vars, managerVars, clientVars, notifyVars, DelayOfAnAttempt
<1>2. CASE Next /\ ~TryNext /\ ~Reconnected
  <2>1. UNCHANGED <<slept, policy, loop>> /\ attempt' \in {attempt, attempt + 1}
    BY <1>2, SleptSteps
  <2>2. 1..attempt \subseteq 1..attempt'
    BY <1>0, <2>1
  <2>3. ctxDone' \in BOOLEAN /\ closed' \in BOOLEAN
    BY <1>2, FlagsStayTyped DEF DelayOfAnAttempt
  <2>4. QED
    BY <2>1, <2>2, <2>3 DEF DelayOfAnAttempt
<1>3. CASE TryNext
  <2>1. Next
    BY <1>3 DEF Next, FanIn, Manager
  <2>2. ctxDone' \in BOOLEAN /\ closed' \in BOOLEAN
    BY <2>1, FlagsStayTyped DEF DelayOfAnAttempt
  <2>3. /\ UNCHANGED <<loop, policy>> /\ loop = "manager" /\ attempt' = attempt + 1
        /\ \/ slept' = slept
           \/ attempt' > 0 /\ slept' = Backoff(policy, attempt') /\ slept' > 0
    BY <1>3, TryNextFacts
  <2>4. CASE slept' = slept
    <3>1. 1..attempt \subseteq 1..attempt'
      BY <1>0, <2>3
    <3>2. QED
      BY <2>2, <2>3, <2>4, <3>1 DEF DelayOfAnAttempt
  <2>5. CASE attempt' > 0 /\ slept' = Backoff(policy, attempt') /\ slept' > 0
    <3>1. attempt' \in Nat \ {0} /\ attempt' \in 1..attempt'
      BY <1>0, <2>5
    <3>2. slept' \in Nat
      <4>1. slept' \in Int
        BY <1>0, <2>5, <3>1, BackoffCapped
      <4>2. slept' > 0
        BY <2>5
      <4>3. QED
        BY <4>1, <4>2
    <3>3. QED
      BY <2>2, <2>3, <2>5, <3>1, <3>2 DEF DelayOfAnAttempt
  <2>6. QED
    BY <2>3, <2>4, <2>5
<1>4. CASE Reconnected
  <2>1. Next /\ slept' = 0
    BY <1>4 DEF Next, FanIn, Manager, Reconnected
  <2>2. QED
    BY <2>1, FlagsStayTyped DEF DelayOfAnAttempt
<1>5. QED
  BY <1>1, <1>2, <1>3, <1>4

THEOREM DelaysAlways == Spec => [](ReconnectInv /\ DelayOfAnAttempt)
<1>1. Init => DelayOfAnAttempt
  <2> SUFFICES ASSUME Init PROVE DelayOfAnAttempt
    OBVIOUS
  <2>1. ctxDone = FALSE /\ closed = FALSE /\ slept = 0
    BY DEF Init
  <2>2. QED
    BY <2>1 DEF DelayOfAnAttempt
<1>2. ReconnectInv /\ DelayOfAnAttempt /\ [Next]_vars => DelayOfAnAttempt'
  BY DelayKept
<1>3. QED
  BY <1>1, <1>2, ReconnectAlways, PTL DEF Spec

(* Every variable keeps its type; in particular a link never has more      *)
(* errors on their way than connections.                                   *)
THEOREM ReconnectTypeCorrect == Spec => []TypeOK
<1>1. ReconnectInv /\ DelayOfAnAttempt => TypeOK
  <2> SUFFICES ASSUME ReconnectInv, DelayOfAnAttempt PROVE TypeOK
    OBVIOUS
  <2> USE DEF ReconnectInv
  <2>1. ASSUME NEW k \in Links PROVE pend[k] \in 0..N
    <3>1. CASE k \in watched
      <4>1. IsFiniteSet(Conns) /\ Cardinality(Conns) = N
        BY ReconnectAssumption, FS_Interval DEF Conns
      <4>2. Cardinality(Failed(k)) \in Nat /\ Cardinality(Failed(k)) <= N
        BY <4>1, FailedFinite, FS_Subset DEF Failed
      <4>3. pend[k] \in Nat /\ box[k] \in Nat
            /\ pend[k] + box[k] + (IF Attended(k) THEN 0 ELSE 1) <= Cardinality(Failed(k))
        BY <3>1 DEF Types, ErrorsCounted
      <4>4. N \in Nat
        BY ReconnectAssumption
      <4>5. QED
        BY <4>2, <4>3, <4>4
    <3>2. CASE k \notin watched
      BY <3>2, ReconnectAssumption DEF WatchedInOrder
    <3>3. QED
      BY <3>1, <3>2
  <2>2. pend \in [Links -> 0..N] /\ box \in [Links -> 0..1]
    BY <2>1 DEF Types
  <2>3. QED
    BY <2>2 DEF Types, DelayOfAnAttempt, TypeOK
<1>2. QED
  BY <1>1, DelaysAlways, PTL

(* Between two successes the manager dials no oftener than the policy      *)
(* says, never when it is disabled, and sleeps no longer than Max if the   *)
(* multiplier is not 0; if it is 0, for the time Initial, Max or not.      *)
THEOREM ManagerWithinPolicy == Spec => []WithinPolicy
<1>1. ReconnectInv /\ DelayOfAnAttempt => WithinPolicy
  <2> SUFFICES ASSUME ReconnectInv, DelayOfAnAttempt PROVE WithinPolicy
    OBVIOUS
  <2>1. policy \in Policies /\ attempt \in Int /\ policy.Max \in Nat
    BY PolicyTypes DEF ReconnectInv, Types
  <2>2. SleepsAsConfigured
    <3>1. CASE slept = 0
      BY <2>1, <3>1 DEF SleepsAsConfigured
    <3>2. CASE slept # 0
      <4>1. PICK a \in 1..attempt : slept = Backoff(policy, a)
        BY <3>2 DEF DelayOfAnAttempt
      <4>2. a \in Nat \ {0}
        BY <2>1
      <4>3. QED
        BY <2>1, <4>1, <4>2, BackoffCapped DEF SleepsAsConfigured
    <3>3. QED
      BY <3>1, <3>2
  <2>3. DialsWithinPolicy
    BY DEF ReconnectInv, AttemptsCounted, DialsWithinPolicy
  <2>4. QED
    BY <2>2, <2>3 DEF WithinPolicy
<1>2. QED
  BY <1>1, DelaysAlways, PTL

(* What one step does to the last delay: the counter only grows until a    *)
(* dial succeeds, and Backoff follows it the way the multiplier says.      *)
LEMMA DelayStep ==
    ASSUME ReconnectInv, DelayOfAnAttempt, Next, ~Reconnected
    PROVE  /\ slept \in Nat /\ slept' \in Nat /\ policy \in Policies
           /\ policy.Num = 0 \/ policy.Num >= policy.Den => slept <= slept'
           /\ slept # 0 /\ 0 <= policy.Num /\ policy.Num <= policy.Den => slept' <= slept
<1>1. slept \in Nat /\ slept' \in Nat /\ attempt \in Int /\ policy \in Policies
  BY DelayKept DEF ReconnectInv, DelayOfAnAttempt, Types
<1>2. CASE slept' = slept \/ slept = 0
  BY <1>1, <1>2
<1>3. CASE slept' # slept /\ slept # 0
  <2>1. TryNext
    BY <1>3, SleptSteps
  <2>2. attempt' = attempt + 1 /\ slept' = Backoff(policy, attempt') /\ attempt' > 0
    BY <1>3, <2>1, TryNextFacts
  <2>3. PICK a \in 1..attempt : slept = Backoff(policy, a)
    BY <1>3 DEF DelayOfAnAttempt
  <2>4. a \in Nat \ {0} /\ attempt' \in Nat \ {0} /\ a <= attempt'
    BY <1>1, <2>2
  <2>5. QED
    BY <1>1, <2>2, <2>3, <2>4, BackoffMonotone
<1>4. QED
  BY <1>2, <1>3

(* However often the manager's loop is called, with a multiplier of 0 or   *)
(* at least 1 a delay is never shorter than the one before until a dial    *)
(* succeeds.                                                               *)
THEOREM DelaysGrow == Spec => DelaysNeverShrink
<1>1. ReconnectInv /\ DelayOfAnAttempt /\ [Next]_vars
        => [slept' < slept => Reconnected \/ (policy.Num # 0 /\ policy.Num < policy.Den)]_vars
  <2> SUFFICES ASSUME ReconnectInv, DelayOfAnAttempt, Next, ~Reconnected,
                      policy.Num = 0 \/ ~(policy.Num < policy.Den)
               PROVE  ~(slept' < slept)
    OBVIOUS
  <2>1. policy.Num \in Int /\ policy.Den \in Nat
    BY DelayStep, PolicyTypes
  <2>2. slept \in Nat /\ slept' \in Nat /\ slept <= slept'
    BY <2>1, DelayStep
  <2>3. QED
    BY <2>2
<1>2. QED
  BY <1>1, DelaysAlways, PTL DEF Spec, DelaysNeverShrink

(* With a multiplier from 0 to 1 a delay is never longer than the one      *)
(* before; below 1 such a manager ends up dialling without any delay.      *)
THEOREM DelaysFade == Spec => DelaysNeverGrow
<1>1. ReconnectInv /\ DelayOfAnAttempt /\ [Next]_vars
        => [slept' > slept => slept = 0 \/ policy.Num < 0 \/ policy.Num > policy.Den]_vars
  <2> SUFFICES ASSUME ReconnectInv, DelayOfAnAttempt, Next, slept # 0,
                      ~(policy.Num < 0), ~(policy.Num > policy.Den)
               PROVE  ~(slept' > slept)
    OBVIOUS
  <2>1. CASE Reconnected
    BY <2>1 DEF Reconnected, DelayOfAnAttempt
  <2>2. CASE ~Reconnected
    <3>1. policy.Num \in Int /\ policy.Den \in Nat
      BY <2>2, DelayStep, PolicyTypes
    <3>2. slept \in Nat /\ slept' \in Nat /\ slept' <= slept
      BY <2>2, <3>1, DelayStep
    <3>3. QED
      BY <3>2
  <2>3. QED
    BY <2>1, <2>2
<1>2. QED
  BY <1>1, DelaysAlways, PTL DEF Spec, DelaysNeverGrow
=============================================================================
