------------------------- MODULE ProducerOrderProofs -------------------------
(***************************************************************************)
(* More theorems about Producer: a batch goes out in the order of Add, a   *)
(* message is lost only behind one of its batch that failed, and what      *)
(* became of a message stays.  They rest on knowing where each message is. *)
(* OrderInv says who has it (Owned), that batches and what goroutines      *)
(* still have to publish are sorted (Sorted), that a batch stays with one  *)
(* goroutine (Grouped), and what has been published of it so far (Behind). *)
(* DropInv adds what a Flush that failed leaves unpublished.               *)
(***************************************************************************)
EXTENDS ProducerProofs

Idle(t) == pc[t] \in {"out", "added", "flush", "closing"} \/ kind[t] = "close"

Owned ==
    /\ \A m \in 1..made :
          outcome[m] = "none" <=> m \in Elems(batch) \/ \E t \in T : m \in Elems(todo[t])
    /\ \A m \in M : m > made => outcome[m] = "none"
    /\ \A t \in T : Elems(todo[t]) \subseteq 1..made /\ Elems(todo[t]) \cap Elems(batch) = {}
    /\ \A t, u \in T : t # u => Elems(todo[t]) \cap Elems(todo[u]) = {}
    /\ \A t \in T : Idle(t) => todo[t] = <<>>

Increasing(s) == \A i, j \in 1..Len(s) : i < j => s[i] < s[j]

Sorted == Increasing(batch) /\ \A t \in T : Increasing(todo[t])

(* The messages a goroutine has come from one batch, the same for nobody   *)
(* else, or are not of a batch at all.                                     *)
Grouped ==
    /\ \A m \in M : taken[m] <= flushes
    /\ \A m \in Elems(batch) : taken[m] = 0
    /\ \A t \in T : \A x, y \in Elems(todo[t]) : taken[x] = taken[y]
    /\ \A t \in T : \A x \in Elems(todo[t]) : taken[x] # 0 => kind[t] = "flush"
    /\ \A t, u \in T : \A x \in Elems(todo[t]), y \in Elems(todo[u]) :
          taken[x] = taken[y] /\ taken[x] # 0 => t = u

(* Publication i is settled and comes before message x. *)
Past(i, x) == sent[i] < x /\ (enabled => verdict[i] = "ack")

Behind ==
    /\ \A i \in DOMAIN sent : sent[i] <= made /\ sent[i] \notin Elems(batch)
    /\ \A t \in T : \A i \in DOMAIN sent, x \in Elems(todo[t]) :
          taken[x] # 0 /\ taken[sent[i]] = taken[x]
             => (pc[t] = "wait" /\ i = tag[t]) \/ Past(i, x)

OrderInv == Owned /\ Sorted /\ Grouped /\ Behind /\ FlushInOrder

-----------------------------------------------------------------------------
(* Sequences *)

LEMMA SingletonElems ==
    ASSUME NEW x PROVE Elems(<<x>>) = {x} /\ Increasing(<<x>>)
<1>1. Len(<<x>>) = 1 /\ <<x>>[1] = x /\ 1..1 = {1}
  OBVIOUS
<1>2. QED
  BY <1>1 DEF Elems, Increasing

LEMMA AppendIncreasing ==
    ASSUME NEW s \in Seq(M), NEW x \in M, Increasing(s), \A y \in Elems(s) : y < x
    PROVE  Increasing(Append(s, x))
<1>1. /\ Len(Append(s, x)) = Len(s) + 1 /\ Len(s) \in Nat
      /\ \A i \in 1..Len(s) : Append(s, x)[i] = s[i]
      /\ Append(s, x)[Len(s) + 1] = x
  OBVIOUS
<1>2. \A i \in 1..Len(s) : s[i] < x
  BY DEF Elems
<1>3. SUFFICES ASSUME NEW i \in 1..(Len(s) + 1), NEW j \in 1..(Len(s) + 1), i < j
               PROVE  Append(s, x)[i] < Append(s, x)[j]
  BY <1>1 DEF Increasing
<1>4. i \in 1..Len(s)
  BY <1>1, <1>3
<1>5. CASE j = Len(s) + 1
  BY <1>1, <1>2, <1>4, <1>5
<1>6. CASE j # Len(s) + 1
  <2>1. j \in 1..Len(s)
    BY <1>1, <1>6
  <2>2. QED
    BY <1>1, <1>3, <1>4, <2>1 DEF Increasing
<1>7. QED
  BY <1>5, <1>6

LEMMA HeadFirst ==
    ASSUME NEW s \in Seq(M), s # <<>>, Increasing(s)
    PROVE  /\ Elems(s) = {Head(s)} \cup Elems(Tail(s))
           /\ Increasing(Tail(s))
           /\ Head(s) \notin Elems(Tail(s))
           /\ \A x \in Elems(Tail(s)) : Head(s) < x
<1>1. /\ Len(s) \in Nat \ {0} /\ Head(s) = s[1] /\ Tail(s) \in Seq(M)
      /\ Len(Tail(s)) = Len(s) - 1
      /\ \A i \in 1..(Len(s) - 1) : Tail(s)[i] = s[i + 1]
  BY HeadTailProperties
<1>2. \A i \in 1..Len(s) : s[i] \in Nat
  BY ProducerAssumption DEF M
<1>3. Elems(Tail(s)) = {s[i] : i \in 2..Len(s)}
  <2>1. ASSUME NEW i \in 1..(Len(s) - 1) PROVE i + 1 \in 2..Len(s) /\ Tail(s)[i] = s[i + 1]
    BY <1>1
  <2>2. ASSUME NEW i \in 2..Len(s) PROVE i - 1 \in 1..(Len(s) - 1) /\ s[i] = Tail(s)[i - 1]
    <3>1. i - 1 \in 1..(Len(s) - 1) /\ (i - 1) + 1 = i
      BY <1>1
    <3>2. QED
      BY <1>1, <3>1
  <2>3. Elems(Tail(s)) = {Tail(s)[i] : i \in 1..(Len(s) - 1)}
    BY <1>1 DEF Elems
  <2>4. ASSUME NEW x \in Elems(Tail(s)) PROVE \E i \in 2..Len(s) : x = s[i]
    <3>1. PICK i \in 1..(Len(s) - 1) : x = Tail(s)[i]
      BY <2>3
    <3>2. QED
      BY <2>1, <3>1
  <2>5. ASSUME NEW i \in 2..Len(s) PROVE s[i] \in Elems(Tail(s))
    BY <2>2, <2>3
  <2>6. QED
    BY <2>4, <2>5
<1>4. 1..Len(s) = {1} \cup 2..Len(s)
  BY <1>1
<1>5. Elems(s) = {Head(s)} \cup Elems(Tail(s))
  BY <1>1, <1>3, <1>4 DEF Elems
<1>6. \A i \in 2..Len(s) : s[1] < s[i]
  BY <1>1 DEF Increasing
<1>7. \A x \in Elems(Tail(s)) : Head(s) < x
  BY <1>1, <1>3, <1>6
<1>8. Increasing(Tail(s))
  <2>1. SUFFICES ASSUME NEW i \in 1..(Len(s) - 1), NEW j \in 1..(Len(s) - 1), i < j
                 PROVE  Tail(s)[i] < Tail(s)[j]
    BY <1>1 DEF Increasing
  <2>2. i + 1 \in 1..Len(s) /\ j + 1 \in 1..Len(s) /\ i + 1 < j + 1
    BY <1>1, <2>1
  <2>3. s[i + 1] < s[j + 1]
    BY <2>2 DEF Increasing
  <2>4. QED
    BY <1>1, <2>3
<1>9. Head(s) \notin Elems(Tail(s))
  BY <1>1, <1>2, <1>7
<1>10. QED
  BY <1>5, <1>7, <1>8, <1>9

-----------------------------------------------------------------------------
LEMMA OrderStart == Init => OrderInv
<1> SUFFICES ASSUME Init PROVE OrderInv
  OBVIOUS
<1>1. /\ Elems(batch) = {} /\ \A t \in T : todo[t] = <<>> /\ Elems(todo[t]) = {}
      /\ made = 0 /\ sent = <<>> /\ batch = <<>> /\ flushes = 0
      /\ \A m \in M : taken[m] = 0 /\ outcome[m] = "none"
  BY ElemsEmpty DEF Init
<1>2. Owned
  BY <1>1 DEF Owned
<1>3. Sorted
  BY <1>1 DEF Sorted, Increasing
<1>4. Grouped
  BY <1>1 DEF Grouped
<1>5. Behind /\ FlushInOrder
  BY <1>1 DEF Behind, FlushInOrder
<1>6. QED
  BY <1>2, <1>3, <1>4, <1>5 DEF OrderInv

-----------------------------------------------------------------------------
(* Steps that move no message *)

LEMMA QuietKeeps ==
    ASSUME OrderInv,
           UNCHANGED <<enabled, sent, batch, flushes, taken, made, outcome, todo, tag>>,
           \A i \in DOMAIN sent : verdict[i] = "ack" => verdict'[i] = "ack",
           \A u \in T : pc'[u] = "wait" <=> pc[u] = "wait",
           \A u \in T : todo[u] = <<>> \/ (kind'[u] = kind[u] /\ ~Idle(u)')
    PROVE  OrderInv'
<1> USE DEF OrderInv
<1>0. \A t \in T : todo[t] = <<>> => Elems(todo[t]) = {}
  BY ElemsEmpty
<1>1. Owned'
  <2>1. \A u \in T : Idle(u)' => todo'[u] = <<>>
    OBVIOUS
  <2>2. /\ \A m \in 1..made' : outcome'[m] = "none" <=>
              m \in Elems(batch') \/ \E u \in T : m \in Elems(todo'[u])
        /\ \A m \in M : m > made' => outcome'[m] = "none"
        /\ \A u \in T : Elems(todo'[u]) \subseteq 1..made' /\ Elems(todo'[u]) \cap Elems(batch') = {}
        /\ \A u, v \in T : u # v => Elems(todo'[u]) \cap Elems(todo'[v]) = {}
    BY DEF Owned
  <2>3. QED
    BY <2>1, <2>2 DEF Owned, Elems
<1>2. Sorted'
  BY DEF Sorted, Increasing
<1>3. Grouped'
  <2>1. \A t \in T : \A x \in Elems(todo[t]) : kind'[t] = kind[t]
    BY <1>0
  <2>2. QED
    BY <2>1 DEF Grouped, Elems
<1>4. Behind'
  BY DEF Behind, Past, Elems
<1>5. FlushInOrder'
  BY DEF FlushInOrder
<1>6. QED
  BY <1>1, <1>2, <1>3, <1>4, <1>5

LEMMA QuietCalls ==
    ASSUME ProducerInv, OrderInv, NEW t \in T,
           AfterAdd(t) \/ WantFlush(t) \/ Close(t) \/ Lock(t)
    PROVE  OrderInv'
<1> USE DEF ProducerInv
<1>1. /\ UNCHANGED <<enabled, sent, verdict, batch, flushes, taken, made, outcome, tag>>
      /\ pc[t] \in {"added", "out", "lock"}
      /\ \E l \in {"flush", "out", "lock", "send", "closing"} : pc' = [pc EXCEPT ![t] = l]
  BY DEF AfterAdd, WantFlush, Close, Lock, Call, Step, wireVars, batchVars
<1>2. /\ pc'[t] # "wait" /\ pc[t] # "wait"
      /\ \A u \in T \ {t} : pc'[u] = pc[u]
  BY <1>1 DEF TypeOK
<1>3. pc[t] \in {"added", "out"} \/ kind[t] = "close" => todo[t] = <<>>
  BY DEF OrderInv, Owned, Idle
<1>4. todo' = todo
  <2>1. CASE Close(t)
    BY <1>3, <2>1 DEF Close, Call, Step, TypeOK
  <2>2. CASE ~Close(t)
    BY <2>2 DEF AfterAdd, WantFlush, Lock
  <2>3. QED
    BY <2>1, <2>2
<1>5. \A u \in T \ {t} : kind'[u] = kind[u]
  BY DEF AfterAdd, WantFlush, Close, Lock, Call, TypeOK
<1>6. todo[t] = <<>> \/ (kind'[t] = kind[t] /\ ~Idle(t)')
  <2>1. CASE Lock(t)
    <3>1. kind' = kind /\ (kind[t] # "close" => pc'[t] = "send")
      BY <2>1 DEF Lock, Step, TypeOK
    <3>2. QED
      BY <1>3, <3>1 DEF Idle
  <2>2. CASE ~Lock(t)
    <3>1. pc[t] \in {"added", "out"}
      BY <2>2 DEF AfterAdd, WantFlush, Close, Call, Step
    <3>2. QED
      BY <1>3, <3>1
  <2>3. QED
    BY <2>1, <2>2
<1>7. \A u \in T : todo[u] = <<>> \/ (kind'[u] = kind[u] /\ ~Idle(u)')
  <2>1. \A u \in T : todo[u] # <<>> => ~Idle(u)
    BY DEF OrderInv, Owned
  <2>2. \A u \in T \ {t} : todo[u] = <<>> \/ (kind'[u] = kind[u] /\ ~Idle(u)')
    BY <1>2, <1>5, <2>1 DEF Idle
  <2>3. QED
    BY <1>6, <2>2
<1>8. \A u \in T : pc'[u] = "wait" <=> pc[u] = "wait"
  BY <1>2
<1>9. QED
  BY <1>1, <1>4, <1>7, <1>8, QuietKeeps

LEMMA QuietWire ==
    ASSUME ProducerInv, OrderInv,
           \/ \E t \in T : CloseChannel(t)
           \/ ChannelLost
           \/ \E i \in DOMAIN verdict, v \in {"ack", "nack"} : Confirm(i, v)
           \/ UNCHANGED vars
    PROVE  OrderInv'
<1> USE DEF ProducerInv
<1>1. UNCHANGED <<enabled, sent, batch, flushes, taken, made, outcome, todo, tag>>
  BY DEF CloseChannel, ChannelLost, Confirm, Die, vars, wireVars, batchVars, callVars
<1>2. \A i \in DOMAIN verdict : verdict[i] = "ack" => verdict'[i] = "ack"
  <2>1. Die \/ verdict' = verdict \/
        \E i \in DOMAIN verdict, v \in {"ack", "nack"} :
            verdict[i] = "none" /\ verdict' = [verdict EXCEPT ![i] = v]
    BY DEF CloseChannel, ChannelLost, Confirm, vars, wireVars
  <2>2. CASE Die
    BY <2>2, DieFacts
  <2>3. QED
    BY <2>1, <2>2 DEF TypeOK
<1>3. DOMAIN sent = DOMAIN verdict
  BY DEF TypeOK
<1>4. \A u \in T : \/ pc'[u] = pc[u] /\ kind'[u] = kind[u]
                   \/ pc[u] = "closing" /\ pc'[u] = "out"
  BY DEF CloseChannel, Step, ChannelLost, Confirm, vars, callVars, TypeOK
<1>5. \A u \in T : todo[u] = <<>> \/ (kind'[u] = kind[u] /\ ~Idle(u)')
  <2>1. \A u \in T : todo[u] # <<>> => ~Idle(u)
    BY DEF OrderInv, Owned
  <2>2. QED
    BY <1>4, <2>1 DEF Idle
<1>6. \A u \in T : pc'[u] = "wait" <=> pc[u] = "wait"
  BY <1>4
<1>7. QED
  BY <1>1, <1>2, <1>3, <1>5, <1>6, QuietKeeps

-----------------------------------------------------------------------------
(* A message that nobody has is given to a goroutine outside of any call.  *)

LEMMA BeginKeeps ==
    ASSUME ProducerInv, OrderInv, NEW t \in T, NEW m \in M, NEW k \in {"plain", "ctx", "async"},
           Call(t, k, <<m>>), made' \in Nat, made' >= made, 1..made' = (1..made) \cup {m},
           taken[m] = 0, m \notin Elems(batch), \A u \in T : m \notin Elems(todo[u]),
           \A n \in M : outcome'[n] = IF n = m THEN "none" ELSE outcome[n]
    PROVE  OrderInv'
<1> USE DEF ProducerInv, OrderInv
<1>1. /\ pc[t] = "out" /\ pc' = [pc EXCEPT ![t] = "lock"] /\ kind' = [kind EXCEPT ![t] = k]
      /\ todo' = [todo EXCEPT ![t] = <<m>>]
      /\ UNCHANGED <<enabled, sent, verdict, batch, flushes, taken, tag>>
  BY DEF Call, Step, wireVars, batchVars
<1>2. /\ pc'[t] = "lock" /\ kind'[t] = k /\ todo'[t] = <<m>>
      /\ \A u \in T \ {t} : pc'[u] = pc[u] /\ kind'[u] = kind[u] /\ todo'[u] = todo[u]
  BY <1>1 DEF TypeOK
<1>3. Elems(todo[t]) = {} /\ Elems(todo'[t]) = {m} /\ Increasing(todo'[t])
  <2>1. todo[t] = <<>>
    BY <1>1 DEF Owned, Idle
  <2>2. QED
    BY <1>2, <2>1, ElemsEmpty, SingletonElems
<1>4. \A u \in T \ {t} : Elems(todo'[u]) = Elems(todo[u])
  BY <1>2
<1>5. made \in Nat /\ 1..made \subseteq M /\ 1..made' \subseteq M
  <2>1. made \in Nat /\ 1..made \subseteq M
    BY ProducerAssumption DEF TypeOK, M
  <2>2. QED
    BY <2>1
<1>6. Owned'
  <2>1. \A n \in 1..made' :
           outcome'[n] = "none" <=> n \in Elems(batch') \/ \E u \in T : n \in Elems(todo'[u])
    <3>1. ASSUME NEW n \in 1..made', n # m
          PROVE  outcome'[n] = "none" <=> n \in Elems(batch') \/ \E u \in T : n \in Elems(todo'[u])
      <4>1. n \in 1..made /\ outcome'[n] = outcome[n]
        BY <1>5, <3>1
      <4>2. \A u \in T : n \in Elems(todo'[u]) <=> n \in Elems(todo[u])
        BY <1>3, <1>4, <3>1
      <4>3. QED
        BY <1>1, <4>1, <4>2 DEF Owned
    <3>2. QED
      BY <1>3, <3>1
  <2>2. \A n \in M : n > made' => outcome'[n] = "none"
    <3>1. \A n \in M : n > made' => n > made
      BY <1>5 DEF M
    <3>2. QED
      BY <3>1 DEF Owned
  <2>3. \A u \in T : Elems(todo'[u]) \subseteq 1..made' /\ Elems(todo'[u]) \cap Elems(batch') = {}
    <3>1. Elems(batch') = Elems(batch)
      BY <1>1
    <3>2. QED
      BY <1>3, <1>4, <3>1 DEF Owned
  <2>4. \A u, v \in T : u # v => Elems(todo'[u]) \cap Elems(todo'[v]) = {}
    BY <1>3, <1>4 DEF Owned
  <2>5. \A u \in T : Idle(u)' => todo'[u] = <<>>
    BY <1>2 DEF Owned, Idle
  <2>6. QED
    BY <2>1, <2>2, <2>3, <2>4, <2>5 DEF Owned, Elems
<1>7. Sorted'
  <2>1. Increasing(batch') /\ \A u \in T : Increasing(todo'[u])
    BY <1>1, <1>2, <1>3 DEF Sorted
  <2>2. QED
    BY <2>1 DEF Sorted, Increasing
<1>8. Grouped'
  <2>1. taken' = taken /\ flushes' = flushes /\ Elems(batch') = Elems(batch)
    BY <1>1
  <2>2. \A u \in T : \A x, y \in Elems(todo'[u]) : taken[x] = taken[y]
    BY <1>3, <1>4 DEF Grouped
  <2>3. \A u \in T : \A x \in Elems(todo'[u]) : taken[x] # 0 => u # t
    BY <1>3
  <2>4. \A u \in T : \A x \in Elems(todo'[u]) : taken[x] # 0 => kind'[u] = "flush"
    BY <1>2, <1>4, <2>3 DEF Grouped
  <2>5. \A u, v \in T : \A x \in Elems(todo'[u]), y \in Elems(todo'[v]) :
           taken[x] = taken[y] /\ taken[x] # 0 => u = v
    BY <1>4, <2>3 DEF Grouped
  <2>6. \A x \in Elems(batch') : taken'[x] = 0
    BY <2>1 DEF Grouped
  <2>7. \A n \in M : taken'[n] <= flushes'
    BY <2>1 DEF Grouped
  <2>8. QED
    BY <2>1, <2>2, <2>4, <2>5, <2>6, <2>7 DEF Grouped, Elems
<1>9. Behind'
  <2>1. \A i \in DOMAIN sent : sent[i] <= made' /\ sent[i] \notin Elems(batch')
    <3>1. \A i \in DOMAIN sent : sent[i] \in Nat
      <4>1. \A i \in DOMAIN sent : sent[i] \in M
        BY DEF TypeOK
      <4>2. QED
        BY <4>1, ProducerAssumption DEF M
    <3>2. QED
      BY <1>1, <1>5, <3>1 DEF Behind
  <2>2. \A u \in T : \A i \in DOMAIN sent, x \in Elems(todo'[u]) :
           taken[x] # 0 /\ taken[sent[i]] = taken[x]
             => (pc'[u] = "wait" /\ i = tag[u]) \/ Past(i, x)
    BY <1>2, <1>3, <1>4 DEF Behind
  <2>3. QED
    BY <1>1, <2>1, <2>2 DEF Behind, Past, Elems
<1>10. FlushInOrder'
  BY <1>1 DEF FlushInOrder
<1>11. QED
  BY <1>6, <1>7, <1>8, <1>9, <1>10

LEMMA PublishOrder ==
    ASSUME ProducerInv, OrderInv, NEW t \in T, NEW k \in {"plain", "ctx", "async"}, Publish(t, k)
    PROVE  OrderInv'
<1> USE DEF ProducerInv, OrderInv
<1>1. made' = made + 1 /\ Call(t, k, <<made + 1>>) /\ UNCHANGED <<retries, outcome>>
  BY DEF Publish
<1>2. made \in Nat /\ made + 1 \in M
  <2>1. ProducerInv'
    BY PublishKeeps
  <2>2. made \in Nat /\ made' \in 0..(MaxBatched + MaxSingle)
    BY <2>1 DEF TypeOK
  <2>3. QED
    BY <1>1, <2>2, ProducerAssumption DEF M
<1>3. made' \in Nat /\ made' >= made /\ 1..made' = (1..made) \cup {made + 1} /\ made + 1 \notin 1..made
  BY <1>1, <1>2
<1>4. /\ taken[made + 1] = 0 /\ made + 1 \notin Elems(batch)
      /\ \A u \in T : made + 1 \notin Elems(todo[u])
  <2>1. made + 1 > made
    BY <1>2
  <2>2. taken[made + 1] = 0
    BY <1>2, <2>1 DEF Numbered
  <2>3. QED
    BY <1>3, <2>2 DEF Numbered, Owned
<1>5. \A n \in M : outcome'[n] = IF n = made + 1 THEN "none" ELSE outcome[n]
  BY <1>1, <1>2 DEF Owned
<1>6. QED
  BY <1>1, <1>2, <1>3, <1>4, <1>5, BeginKeeps

LEMMA RetryOrder ==
    ASSUME ProducerInv, OrderInv, NEW t \in T, NEW m \in M, Retry(t, m) PROVE OrderInv'
<1> USE DEF ProducerInv, OrderInv
<1>1. /\ outcome[m] = "error" /\ taken[m] = 0 /\ made' = made /\ Call(t, "plain", <<m>>)
      /\ outcome' = [outcome EXCEPT ![m] = "none"]
  BY DEF Retry
<1>2. made \in Nat /\ m \in 1..made
  BY <1>1 DEF TypeOK, Owned, M
<1>3. m \notin Elems(batch) /\ \A u \in T : m \notin Elems(todo[u])
  BY <1>1, <1>2 DEF Owned
<1>4. \A n \in M : outcome'[n] = IF n = m THEN "none" ELSE outcome[n]
  BY <1>1 DEF TypeOK
<1>5. made' \in Nat /\ made' >= made /\ 1..made' = (1..made) \cup {m}
  BY <1>1, <1>2
<1>6. QED
  BY <1>1, <1>3, <1>4, <1>5, BeginKeeps

-----------------------------------------------------------------------------
(* Batches *)

LEMMA AddOrder == ASSUME ProducerInv, OrderInv, NEW t \in T, Add(t) PROVE OrderInv'
<1> USE DEF ProducerInv, OrderInv
<1>1. /\ pc[t] = "out" /\ pc' = [pc EXCEPT ![t] = "added"]
      /\ made' = made + 1 /\ batch' = Append(batch, made + 1)
      /\ UNCHANGED <<enabled, sent, verdict, flushes, taken, outcome, kind, todo, tag>>
  BY DEF Add, Step, wireVars
<1>2. made \in Nat /\ made + 1 \in M /\ batch \in Seq(M)
  <2>1. ProducerInv'
    BY AddKeeps
  <2>2. made \in Nat /\ made' \in 0..(MaxBatched + MaxSingle)
    BY <2>1 DEF TypeOK
  <2>3. QED
    BY <1>1, <2>2, ProducerAssumption DEF M, TypeOK
<1>3. 1..made' = (1..made) \cup {made + 1} /\ made + 1 \notin 1..made
  BY <1>1, <1>2
<1>4. Elems(batch') = Elems(batch) \cup {made + 1}
  BY <1>1, <1>2, ElemsAppend
<1>5. /\ taken[made + 1] = 0 /\ outcome[made + 1] = "none"
      /\ \A u \in T : made + 1 \notin Elems(todo[u])
  <2>1. made + 1 > made
    BY <1>2
  <2>2. QED
    BY <1>2, <1>3, <2>1 DEF Numbered, Owned
<1>6. \A u \in T \ {t} : pc'[u] = pc[u]
  BY <1>1 DEF TypeOK
<1>7. pc'[t] = "added" /\ todo[t] = <<>> /\ Elems(todo[t]) = {}
  BY <1>1, ElemsEmpty DEF TypeOK, Owned, Idle
<1>8. Owned'
  <2>1. \A n \in 1..made' :
           outcome'[n] = "none" <=> n \in Elems(batch') \/ \E u \in T : n \in Elems(todo'[u])
    BY <1>1, <1>3, <1>4, <1>5 DEF Owned
  <2>2. \A n \in M : n > made' => outcome'[n] = "none"
    <3>1. \A n \in M : n > made' => n > made
      BY <1>1, <1>2 DEF M
    <3>2. QED
      BY <1>1, <3>1 DEF Owned
  <2>3. \A u \in T : Elems(todo'[u]) \subseteq 1..made' /\ Elems(todo'[u]) \cap Elems(batch') = {}
    BY <1>1, <1>3, <1>4, <1>5 DEF Owned
  <2>4. \A u, v \in T : u # v => Elems(todo'[u]) \cap Elems(todo'[v]) = {}
    BY <1>1 DEF Owned
  <2>5. \A u \in T : Idle(u)' => todo'[u] = <<>>
    BY <1>1, <1>6, <1>7 DEF Owned, Idle
  <2>6. QED
    BY <2>1, <2>2, <2>3, <2>4, <2>5 DEF Owned, Elems
<1>9. Sorted'
  <2>1. \A y \in Elems(batch) : y < made + 1
    BY <1>2 DEF Numbered
  <2>2. Increasing(batch')
    BY <1>1, <1>2, <2>1, AppendIncreasing DEF Sorted
  <2>3. \A u \in T : Increasing(todo'[u])
    BY <1>1 DEF Sorted
  <2>4. QED
    BY <2>2, <2>3 DEF Sorted, Increasing
<1>10. Grouped'
  <2>1. taken' = taken /\ flushes' = flushes /\ kind' = kind /\ todo' = todo
    BY <1>1
  <2>2. \A x \in Elems(batch') : taken'[x] = 0
    BY <1>4, <1>5, <2>1 DEF Grouped
  <2>3. QED
    BY <2>1, <2>2 DEF Grouped, Elems
<1>11. Behind'
  <2>1. \A i \in DOMAIN sent : sent[i] <= made' /\ sent[i] \notin Elems(batch')
    <3>1. \A i \in DOMAIN sent : sent[i] \in Nat
      <4>1. \A i \in DOMAIN sent : sent[i] \in M
        BY DEF TypeOK
      <4>2. QED
        BY <4>1, ProducerAssumption DEF M
    <3>2. \A i \in DOMAIN sent : sent[i] <= made
      BY DEF Behind
    <3>3. QED
      BY <1>1, <1>2, <1>4, <3>1, <3>2 DEF Behind
  <2>2. \A u \in T : \A i \in DOMAIN sent, x \in Elems(todo'[u]) :
           taken[x] # 0 /\ taken[sent[i]] = taken[x]
             => (pc'[u] = "wait" /\ i = tag[u]) \/ Past(i, x)
    BY <1>1, <1>6, <1>7 DEF Behind
  <2>3. QED
    BY <1>1, <2>1, <2>2 DEF Behind, Past, Elems
<1>12. FlushInOrder'
  BY <1>1 DEF FlushInOrder
<1>13. QED
  BY <1>8, <1>9, <1>10, <1>11, <1>12

(* The batch gets a number no message had before. *)
LEMMA FlushOrder == ASSUME ProducerInv, OrderInv, NEW t \in T, Flush(t) PROVE OrderInv'
<1> USE DEF ProducerInv, OrderInv
<1>1. /\ pc[t] = "flush" /\ pc' = [pc EXCEPT ![t] = IF batch = <<>> THEN "out" ELSE "lock"]
      /\ kind' = [kind EXCEPT ![t] = IF batch = <<>> THEN "none" ELSE "flush"]
      /\ todo' = [todo EXCEPT ![t] = batch] /\ batch' = <<>>
      /\ flushes' = IF batch = <<>> THEN flushes ELSE flushes + 1
      /\ taken' = [m \in M |-> IF m \in Elems(batch) THEN flushes + 1 ELSE taken[m]]
      /\ UNCHANGED <<enabled, sent, verdict, made, outcome, tag>>
  BY DEF Flush, Step, wireVars
<1>2. /\ pc'[t] = (IF batch = <<>> THEN "out" ELSE "lock")
      /\ kind'[t] = (IF batch = <<>> THEN "none" ELSE "flush")
      /\ todo'[t] = batch
      /\ \A u \in T \ {t} : pc'[u] = pc[u] /\ kind'[u] = kind[u] /\ todo'[u] = todo[u]
  BY <1>1 DEF TypeOK
<1>3. /\ todo[t] = <<>> /\ Elems(todo[t]) = {} /\ Elems(batch') = {} /\ Elems(todo'[t]) = Elems(batch)
      /\ \A u \in T \ {t} : Elems(todo'[u]) = Elems(todo[u])
  BY <1>1, <1>2, ElemsEmpty DEF Owned, Idle
<1>4. /\ flushes \in Nat /\ made \in Nat /\ 1..made \subseteq M /\ taken \in [M -> Nat]
      /\ \A n \in M : taken[n] <= flushes
  BY ProducerAssumption DEF TypeOK, M, Grouped
<1>5. /\ \A n \in M \ Elems(batch) : taken'[n] = taken[n] /\ taken'[n] <= flushes
      /\ \A n \in Elems(batch) : n \in M /\ taken'[n] = flushes + 1
  BY <1>1, <1>4 DEF Numbered
<1>6. \A u \in T \ {t} : \A x \in Elems(todo'[u]) : x \in M \ Elems(batch)
  BY <1>3, <1>4 DEF Owned
<1>7. Owned'
  <2>1. \A n \in 1..made' :
           outcome'[n] = "none" <=> n \in Elems(batch') \/ \E u \in T : n \in Elems(todo'[u])
    BY <1>1, <1>3 DEF Owned
  <2>2. \A n \in M : n > made' => outcome'[n] = "none"
    BY <1>1 DEF Owned
  <2>3. \A u \in T : Elems(todo'[u]) \subseteq 1..made' /\ Elems(todo'[u]) \cap Elems(batch') = {}
    BY <1>1, <1>3 DEF Owned, Numbered
  <2>4. \A u, v \in T : u # v => Elems(todo'[u]) \cap Elems(todo'[v]) = {}
    BY <1>3 DEF Owned
  <2>5. \A u \in T : Idle(u)' => todo'[u] = <<>>
    BY <1>2 DEF Owned, Idle
  <2>6. QED
    BY <2>1, <2>2, <2>3, <2>4, <2>5 DEF Owned, Elems
<1>8. Sorted'
  <2>1. \A u \in T : Increasing(todo'[u])
    BY <1>2 DEF Sorted
  <2>2. Increasing(batch')
    BY <1>1 DEF Increasing
  <2>3. QED
    BY <2>1, <2>2 DEF Sorted, Increasing
<1>9. Grouped'
  <2>1. \A n \in M : taken'[n] <= flushes'
    <3>1. CASE batch = <<>>
      BY <1>1, <1>5, <3>1, ElemsEmpty
    <3>2. CASE batch # <<>>
      <4>1. flushes' = flushes + 1
        BY <1>1, <3>2
      <4>2. \A n \in M : taken'[n] = flushes + 1 \/ (taken'[n] = taken[n] /\ taken[n] <= flushes)
        BY <1>4, <1>5
      <4>3. QED
        BY <1>4, <4>1, <4>2
    <3>3. QED
      BY <3>1, <3>2
  <2>2. \A u \in T : \A x, y \in Elems(todo'[u]) : taken'[x] = taken'[y]
    BY <1>3, <1>5, <1>6 DEF Grouped
  <2>3. \A u \in T : \A x \in Elems(todo'[u]) : taken'[x] # 0 => kind'[u] = "flush"
    <3>1. \A x \in Elems(todo'[t]) : kind'[t] = "flush"
      BY <1>2, <1>3, ElemsEmpty
    <3>2. QED
      BY <1>2, <1>3, <1>5, <1>6, <3>1 DEF Grouped
  <2>4. \A u, v \in T : \A x \in Elems(todo'[u]), y \in Elems(todo'[v]) :
           taken'[x] = taken'[y] /\ taken'[x] # 0 => u = v
    <3>1. \A n \in M \ Elems(batch) : taken'[n] # flushes + 1
      BY <1>4, <1>5
    <3>2. \A u \in T \ {t} : \A x \in Elems(todo'[u]), y \in Elems(todo'[t]) : taken'[x] # taken'[y]
      BY <1>3, <1>5, <1>6, <3>1
    <3>3. \A u, v \in T \ {t} : \A x \in Elems(todo'[u]), y \in Elems(todo'[v]) :
             taken'[x] = taken'[y] /\ taken'[x] # 0 => u = v
      BY <1>3, <1>5, <1>6 DEF Grouped
    <3>4. QED
      BY <3>2, <3>3
  <2>5. QED
    BY <1>3, <2>1, <2>2, <2>3, <2>4 DEF Grouped, Elems
<1>10. \A i \in DOMAIN sent : sent[i] \in M \ Elems(batch)
  BY DEF TypeOK, Behind
<1>11. Behind'
  <2>1. \A i \in DOMAIN sent : sent[i] <= made' /\ sent[i] \notin Elems(batch')
    BY <1>1, <1>3 DEF Behind
  <2>2. \A u \in T : \A i \in DOMAIN sent, x \in Elems(todo'[u]) :
           taken'[x] # 0 /\ taken'[sent[i]] = taken'[x]
             => (pc'[u] = "wait" /\ i = tag[u]) \/ Past(i, x)
    <3>1. \A i \in DOMAIN sent, x \in Elems(todo'[t]) : taken'[sent[i]] # taken'[x]
      <4>1. \A i \in DOMAIN sent : taken'[sent[i]] # flushes + 1
        BY <1>4, <1>5, <1>10
      <4>2. QED
        BY <1>3, <1>5, <4>1
    <3>2. \A u \in T \ {t} : \A i \in DOMAIN sent, x \in Elems(todo'[u]) :
             taken'[x] # 0 /\ taken'[sent[i]] = taken'[x]
               => (pc'[u] = "wait" /\ i = tag[u]) \/ Past(i, x)
      BY <1>2, <1>3, <1>5, <1>6, <1>10 DEF Behind
    <3>3. QED
      BY <3>1, <3>2
  <2>3. UNCHANGED <<enabled, sent, verdict, tag>>
    BY <1>1
  <2>4. QED
    BY <2>1, <2>2, <2>3 DEF Behind, Past, Elems
<1>12. FlushInOrder'
  BY <1>1, <1>5, <1>10 DEF FlushInOrder
<1>13. QED
  BY <1>7, <1>8, <1>9, <1>11, <1>12

-----------------------------------------------------------------------------
(* Publishing *)

(* A goroutine is done with some of its messages, and says so. *)
LEMMA DoneKeeps ==
    ASSUME ProducerInv, OrderInv, NEW t \in T,
           UNCHANGED <<batch, flushes, taken, made>>,
           Increasing(todo'[t]), Elems(todo'[t]) \subseteq Elems(todo[t]),
           \A m \in M : IF m \in Elems(todo[t]) \ Elems(todo'[t])
                          THEN outcome'[m] # "none" ELSE outcome'[m] = outcome[m],
           \A u \in T \ {t} : pc'[u] = pc[u] /\ kind'[u] = kind[u] /\ todo'[u] = todo[u],
           Idle(t)' => todo'[t] = <<>>,
           todo'[t] # <<>> => kind'[t] = kind[t]
    PROVE  Owned' /\ Sorted' /\ Grouped'
<1> USE DEF ProducerInv, OrderInv
<1>1. /\ \A u \in T \ {t} : Elems(todo'[u]) = Elems(todo[u])
      /\ Elems(batch') = Elems(batch)
      /\ \A u \in T : Elems(todo'[u]) \subseteq Elems(todo[u])
  OBVIOUS
<1>2. made \in Nat /\ 1..made \subseteq M
  BY ProducerAssumption DEF TypeOK, M
<1>3. Owned'
  <2>1. \A n \in 1..made' :
           outcome'[n] = "none" <=> n \in Elems(batch') \/ \E u \in T : n \in Elems(todo'[u])
    <3> SUFFICES ASSUME NEW n \in 1..made
                 PROVE  outcome'[n] = "none" <=> n \in Elems(batch) \/ \E u \in T : n \in Elems(todo'[u])
      BY <1>1
    <3>1. CASE n \in Elems(todo[t]) \ Elems(todo'[t])
      <4>1. n \notin Elems(batch) /\ \A u \in T \ {t} : n \notin Elems(todo[u])
        BY <3>1 DEF Owned
      <4>2. outcome'[n] # "none"
        BY <1>2, <3>1
      <4>3. QED
        BY <1>1, <3>1, <4>1, <4>2
    <3>2. CASE n \notin Elems(todo[t]) \ Elems(todo'[t])
      <4>1. outcome'[n] = outcome[n]
        BY <1>2, <3>2
      <4>2. \A u \in T : n \in Elems(todo'[u]) <=> n \in Elems(todo[u])
        BY <1>1, <3>2
      <4>3. QED
        BY <4>1, <4>2 DEF Owned
    <3>3. QED
      BY <3>1, <3>2
  <2>2. \A n \in M : n > made' => outcome'[n] = "none"
    <3>1. \A n \in M : n > made => n \notin Elems(todo[t])
      BY <1>2 DEF Owned
    <3>2. QED
      BY <3>1 DEF Owned
  <2>3. \A u \in T : Elems(todo'[u]) \subseteq 1..made' /\ Elems(todo'[u]) \cap Elems(batch') = {}
    BY <1>1 DEF Owned
  <2>4. \A u, v \in T : u # v => Elems(todo'[u]) \cap Elems(todo'[v]) = {}
    BY <1>1 DEF Owned
  <2>5. \A u \in T : Idle(u)' => todo'[u] = <<>>
    BY DEF Owned, Idle
  <2>6. QED
    BY <2>1, <2>2, <2>3, <2>4, <2>5 DEF Owned, Elems
<1>4. Sorted'
  <2>1. Increasing(batch') /\ \A u \in T : Increasing(todo'[u])
    BY DEF Sorted
  <2>2. QED
    BY <2>1 DEF Sorted, Increasing
<1>5. Grouped'
  <2>1. taken' = taken /\ flushes' = flushes /\ Elems(batch') = Elems(batch)
    BY <1>1
  <2>2. \A u \in T : \A x, y \in Elems(todo'[u]) : taken[x] = taken[y]
    BY <1>1 DEF Grouped
  <2>3. \A u \in T : \A x \in Elems(todo'[u]) : taken[x] # 0 => kind'[u] = "flush"
    <3>1. \A x \in Elems(todo'[t]) : kind'[t] = kind[t]
      BY ElemsEmpty
    <3>2. \A u \in T : \A x \in Elems(todo'[u]) : kind'[u] = kind[u]
      BY <3>1
    <3>3. QED
      BY <1>1, <3>2 DEF Grouped
  <2>4. \A u, v \in T : \A x \in Elems(todo'[u]), y \in Elems(todo'[v]) :
           taken[x] = taken[y] /\ taken[x] # 0 => u = v
    BY <1>1 DEF Grouped
  <2>5. \A x \in Elems(batch') : taken'[x] = 0
    BY <2>1 DEF Grouped
  <2>6. \A n \in M : taken'[n] <= flushes'
    BY <2>1 DEF Grouped
  <2>7. QED
    BY <2>1, <2>2, <2>3, <2>4, <2>5, <2>6 DEF Grouped, Elems
<1>6. QED
  BY <1>3, <1>4, <1>5

LEMMA FailOrder ==
    ASSUME ProducerInv, OrderInv, NEW t \in T, Fail(t), pc[t] \in {"send", "wait"},
           UNCHANGED <<wireVars, batchVars, made, retries>>
    PROVE  OrderInv'
<1> USE DEF ProducerInv, OrderInv
<1>1. /\ outcome' = [m \in M |-> IF m = Head(todo[t]) THEN "error"
                               ELSE IF m \in Elems(todo[t]) THEN "dropped"
                               ELSE outcome[m]]
      /\ todo' = [todo EXCEPT ![t] = <<>>] /\ pc' = [pc EXCEPT ![t] = "out"]
      /\ kind' = [kind EXCEPT ![t] = "none"] /\ tag' = [tag EXCEPT ![t] = 0]
      /\ UNCHANGED <<enabled, sent, verdict, batch, flushes, taken, made>>
  BY DEF Fail, wireVars, batchVars
<1>2. /\ todo'[t] = <<>> /\ Elems(todo'[t]) = {}
      /\ \A u \in T \ {t} : /\ pc'[u] = pc[u] /\ kind'[u] = kind[u]
                            /\ todo'[u] = todo[u] /\ tag'[u] = tag[u]
  BY <1>1, ElemsEmpty DEF TypeOK
<1>3. Owned' /\ Sorted' /\ Grouped'
  <2>1. Increasing(todo'[t])
    BY <1>2 DEF Increasing
  <2>2. \A m \in M : IF m \in Elems(todo[t]) \ Elems(todo'[t])
                       THEN outcome'[m] # "none" ELSE outcome'[m] = outcome[m]
    <3>1. todo[t] # <<>> /\ todo[t] \in Seq(M) /\ Increasing(todo[t])
      BY DEF InCall, TypeOK, Sorted
    <3>2. Head(todo[t]) \in Elems(todo[t])
      BY <3>1, HeadFirst
    <3>3. QED
      BY <1>1, <1>2, <3>2
  <2>3. QED
    BY <1>1, <1>2, <2>1, <2>2, DoneKeeps
<1>4. Behind'
  <2>1. \A u \in T : \A i \in DOMAIN sent, x \in Elems(todo'[u]) :
           taken[x] # 0 /\ taken[sent[i]] = taken[x]
             => (pc'[u] = "wait" /\ i = tag'[u]) \/ Past(i, x)
    BY <1>2 DEF Behind
  <2>2. UNCHANGED <<enabled, sent, verdict, batch, taken, made>>
    BY <1>1
  <2>3. QED
    BY <2>1, <2>2 DEF Behind, Past, Elems
<1>5. FlushInOrder'
  BY <1>1 DEF FlushInOrder
<1>6. QED
  BY <1>3, <1>4, <1>5

(* What a goroutine that is done with its first message still has. *)
LEMMA SucceedOrder ==
    ASSUME ProducerInv, OrderInv, NEW t \in T, NEW what \in {"ok", "async"}, Succeed(t, what),
           pc[t] \in {"send", "wait"}, todo[t] # <<>>, kind[t] # "close",
           UNCHANGED <<batch, flushes, taken, made>>
    PROVE  /\ Owned' /\ Sorted' /\ Grouped'
           /\ Head(todo[t]) \in Elems(todo[t]) /\ Elems(todo'[t]) \subseteq Elems(todo[t])
           /\ \A x \in Elems(todo'[t]) : Head(todo[t]) < x
           /\ \A u \in T \ {t} : pc'[u] = pc[u] /\ todo'[u] = todo[u] /\ tag'[u] = tag[u]
<1> USE DEF ProducerInv, OrderInv
<1> DEFINE s == todo[t]
           l == IF Len(s) = 1 THEN "out" ELSE "lock"
           k == IF Len(s) = 1 THEN "none" ELSE kind[t]
<1>1. /\ outcome' = [outcome EXCEPT ![Head(s)] = what]
      /\ todo' = [todo EXCEPT ![t] = Tail(s)]
      /\ pc' = [pc EXCEPT ![t] = l] /\ kind' = [kind EXCEPT ![t] = k] /\ tag' = [tag EXCEPT ![t] = 0]
  BY DEF Succeed, TypeOK
<1>2. s \in Seq(M) /\ s # <<>> /\ Increasing(s)
  BY DEF TypeOK, Sorted
<1>3. /\ Elems(s) = {Head(s)} \cup Elems(Tail(s)) /\ Increasing(Tail(s))
      /\ Head(s) \notin Elems(Tail(s)) /\ \A x \in Elems(Tail(s)) : Head(s) < x
  BY <1>2, HeadFirst
<1>4. /\ pc'[t] = l /\ kind'[t] = k /\ todo'[t] = Tail(s)
      /\ \A u \in T \ {t} : /\ pc'[u] = pc[u] /\ kind'[u] = kind[u]
                            /\ todo'[u] = todo[u] /\ tag'[u] = tag[u]
  BY <1>1 DEF TypeOK
<1>5. \A m \in M : IF m \in Elems(s) \ Elems(todo'[t])
                     THEN outcome'[m] # "none" ELSE outcome'[m] = outcome[m]
  <2>1. Elems(s) \ Elems(todo'[t]) = {Head(s)}
    BY <1>3, <1>4
  <2>2. \A m \in M : outcome'[m] = IF m = Head(s) THEN what ELSE outcome[m]
    BY <1>1 DEF TypeOK
  <2>3. QED
    BY <2>1, <2>2
<1>6. Len(s) = 1 => todo'[t] = <<>>
  <2>1. Tail(s) \in Seq(M) /\ Len(Tail(s)) = Len(s) - 1
    BY <1>2, HeadTailProperties
  <2>2. Len(s) = 1 => Len(Tail(s)) = 0
    BY <2>1
  <2>3. Len(Tail(s)) = 0 => Tail(s) = <<>>
    BY <2>1, EmptySeq
  <2>4. QED
    BY <1>4, <2>2, <2>3
<1>7. Idle(t)' => todo'[t] = <<>>
  BY <1>4, <1>6 DEF Idle
<1>8. todo'[t] # <<>> => kind'[t] = kind[t]
  BY <1>4, <1>6
<1>9. Increasing(todo'[t]) /\ Elems(todo'[t]) \subseteq Elems(s)
  BY <1>3, <1>4
<1>10. Owned' /\ Sorted' /\ Grouped'
  BY <1>4, <1>5, <1>7, <1>8, <1>9, DoneKeeps
<1>11. QED
  BY <1>3, <1>4, <1>9, <1>10

LEMMA ConfirmedOrder ==
    ASSUME ProducerInv, OrderInv, NEW t \in T, Confirmed(t) PROVE OrderInv'
<1> USE DEF ProducerInv, OrderInv
<1>1. /\ pc[t] = "wait" /\ verdict[tag[t]] = "ack" /\ Succeed(t, "ok")
      /\ UNCHANGED <<enabled, sent, verdict, batch, flushes, taken, made>>
  BY DEF Confirmed, Verdict, wireVars, batchVars
<1>2. todo[t] # <<>> /\ tag[t] \in DOMAIN sent /\ sent[tag[t]] = Head(todo[t])
  BY <1>1 DEF InCall
<1>3. kind[t] # "close"
  BY <1>2 DEF Owned, Idle
<1>4. /\ Owned' /\ Sorted' /\ Grouped'
      /\ Elems(todo'[t]) \subseteq Elems(todo[t])
      /\ \A x \in Elems(todo'[t]) : Head(todo[t]) < x
      /\ \A u \in T \ {t} : pc'[u] = pc[u] /\ todo'[u] = todo[u] /\ tag'[u] = tag[u]
  BY <1>1, <1>2, <1>3, SucceedOrder
<1>5. Behind'
  <2>1. \A i \in DOMAIN sent, x \in Elems(todo'[t]) :
           taken[x] # 0 /\ taken[sent[i]] = taken[x] => Past(i, x)
    <3>1. \A x \in Elems(todo'[t]) : Past(tag[t], x)
      BY <1>1, <1>2, <1>4 DEF Past
    <3>2. QED
      BY <1>4, <3>1 DEF Behind
  <2>2. \A u \in T : \A i \in DOMAIN sent, x \in Elems(todo'[u]) :
           taken[x] # 0 /\ taken[sent[i]] = taken[x]
             => (pc'[u] = "wait" /\ i = tag'[u]) \/ Past(i, x)
    BY <1>4, <2>1 DEF Behind
  <2>3. UNCHANGED <<enabled, sent, verdict, batch, taken, made>>
    BY <1>1
  <2>4. QED
    BY <2>2, <2>3 DEF Behind, Past, Elems
<1>6. FlushInOrder'
  BY <1>1 DEF FlushInOrder
<1>7. QED
  BY <1>4, <1>5, <1>6

LEMMA SendOrder == ASSUME ProducerInv, OrderInv, NEW t \in T, Send(t) PROVE OrderInv'
<1> USE DEF ProducerInv, OrderInv
<1> DEFINE h == Head(todo[t])
           n == Len(sent)
<1>1. /\ pc[t] = "send" /\ todo[t] # <<>> /\ todo[t] \in Seq(M) /\ kind[t] # "close"
      /\ sent \in Seq(M) /\ n \in Nat /\ Len(verdict) = n
      /\ sent' = Append(sent, h) /\ verdict' = Append(verdict, "none")
      /\ UNCHANGED <<enabled, batch, flushes, taken, made>>
  BY DEF Send, InCall, TypeOK, batchVars
<1>2. /\ h \in Elems(todo[t]) /\ h \in M
  BY <1>1, HeadTail, HeadFirst DEF Sorted
<1>3. /\ DOMAIN sent = 1..n /\ DOMAIN sent' = 1..(n + 1)
      /\ \A i \in 1..n : sent'[i] = sent[i] /\ verdict'[i] = verdict[i]
      /\ sent'[n + 1] = h
  BY <1>1, <1>2 DEF TypeOK
<1>4. \A i \in 1..(n + 1) : i # n + 1 => i \in 1..n
  BY <1>1
<1>5. \A i \in 1..n, x \in Elems(todo[t]) : taken[x] # 0 /\ taken[sent[i]] = taken[x] => Past(i, x)
  BY <1>1, <1>3 DEF Behind
<1>6. /\ Owned' /\ Sorted' /\ Grouped'
      /\ Elems(todo'[t]) \subseteq Elems(todo[t])
      /\ \A u \in T \ {t} : pc'[u] = pc[u] /\ todo'[u] = todo[u] /\ tag'[u] = tag[u]
      /\ \/ pc'[t] = "wait" /\ tag'[t] = n + 1
         \/ \A x \in Elems(todo'[t]) : h < x /\ (taken[h] # 0 => ~enabled)
  <2>1. CASE NoWait(t)
    <3>1. PICK what \in {"ok", "async"} : Succeed(t, what)
      BY <2>1 DEF Send
    <3>2. taken[h] # 0 => ~enabled
      BY <1>2, <2>1 DEF NoWait, Grouped
    <3>3. QED
      BY <1>1, <3>1, <3>2, SucceedOrder
  <2>2. CASE ~NoWait(t)
    <3>1. /\ pc' = [pc EXCEPT ![t] = "wait"] /\ tag' = [tag EXCEPT ![t] = n + 1]
          /\ UNCHANGED <<outcome, kind, todo>>
      BY <2>2 DEF Send
    <3>2. /\ pc'[t] = "wait" /\ tag'[t] = n + 1
          /\ \A u \in T \ {t} : pc'[u] = pc[u] /\ tag'[u] = tag[u]
      BY <3>1 DEF TypeOK
    <3>3. Idle(t)' => todo'[t] = <<>>
      BY <1>1, <3>1, <3>2 DEF Idle
    <3>4. Increasing(todo'[t])
      BY <3>1 DEF Sorted
    <3>5. Owned' /\ Sorted' /\ Grouped'
      BY <1>1, <3>1, <3>2, <3>3, <3>4, DoneKeeps
    <3>6. QED
      BY <3>1, <3>2, <3>5
  <2>3. QED
    BY <2>1, <2>2
<1>7. Behind'
  <2>1. \A i \in DOMAIN sent' : sent'[i] <= made' /\ sent'[i] \notin Elems(batch')
    <3>1. h <= made /\ h \notin Elems(batch)
      BY <1>2 DEF Owned
    <3>2. QED
      BY <1>1, <1>3, <1>4, <3>1 DEF Behind
  <2>2. ASSUME NEW u \in T, NEW i \in DOMAIN sent', NEW x \in Elems(todo'[u]),
               taken[x] # 0, taken[sent'[i]] = taken[x]
        PROVE  (pc'[u] = "wait" /\ i = tag'[u]) \/ (sent'[i] < x /\ (enabled => verdict'[i] = "ack"))
    <3>1. CASE i = n + 1
      <4>1. x \in Elems(todo[u])
        BY <1>6
      <4>2. taken[h] = taken[x] /\ sent'[i] = h
        BY <1>3, <2>2, <3>1
      <4>3. u = t
        BY <1>2, <2>2, <4>1, <4>2 DEF Grouped
      <4>4. QED
        BY <1>6, <2>2, <3>1, <4>2, <4>3
    <3>2. CASE i # n + 1
      <4>1. i \in 1..n /\ sent'[i] = sent[i] /\ verdict'[i] = verdict[i]
        BY <1>3, <1>4, <3>2
      <4>2. CASE u = t
        BY <1>5, <1>6, <2>2, <4>1, <4>2 DEF Past
      <4>3. CASE u # t
        BY <1>3, <1>6, <2>2, <4>1, <4>3 DEF Behind, Past
      <4>4. QED
        BY <4>2, <4>3
    <3>3. QED
      BY <3>1, <3>2
  <2>3. UNCHANGED <<enabled, taken>>
    BY <1>1
  <2>4. QED
    BY <2>1, <2>2, <2>3 DEF Behind, Past, Elems
<1>8. FlushInOrder'
  <2>1. ASSUME NEW i \in DOMAIN sent', NEW j \in DOMAIN sent',
               i < j, taken[sent'[i]] # 0, taken[sent'[i]] = taken[sent'[j]]
        PROVE  sent'[i] < sent'[j] /\ (enabled => verdict'[i] = "ack")
    <3>1. i \in 1..n /\ sent'[i] = sent[i] /\ verdict'[i] = verdict[i]
      <4>1. i \in 1..n
        BY <1>1, <1>3, <2>1
      <4>2. QED
        BY <1>3, <4>1
    <3>2. CASE j = n + 1
      BY <1>2, <1>3, <1>5, <2>1, <3>1, <3>2 DEF Past
    <3>3. CASE j # n + 1
      <4>1. j \in 1..n /\ sent'[j] = sent[j]
        BY <1>3, <1>4, <3>3
      <4>2. QED
        BY <1>3, <2>1, <3>1, <4>1 DEF FlushInOrder
    <3>4. QED
      BY <3>2, <3>3
  <2>2. UNCHANGED <<enabled, taken>>
    BY <1>1
  <2>3. QED
    BY <2>1, <2>2 DEF FlushInOrder
<1>9. QED
  BY <1>6, <1>7, <1>8

-----------------------------------------------------------------------------
LEMMA OrderNext == ASSUME ProducerInv, OrderInv, [Next]_vars PROVE OrderInv'
<1>1. ASSUME NEW t \in T, Calls(t) PROVE OrderInv'
  BY <1>1, PublishOrder, RetryOrder, QuietCalls, AddOrder DEF Calls
<1>2. ASSUME NEW t \in T, Proceeds(t) PROVE OrderInv'
  <2>1. CASE SendFails(t) \/ NotConfirmed(t) \/ CtxDone(t) \/ TimedOut(t)
    BY <2>1, FailOrder DEF SendFails, NotConfirmed, CtxDone, TimedOut
  <2>2. QED
    BY <1>2, <2>1, QuietCalls, FlushOrder, SendOrder, ConfirmedOrder, QuietWire DEF Proceeds
<1>3. QED
  BY <1>1, <1>2, QuietCalls, QuietWire DEF Next

LEMMA OrderAlways == Spec => [](ProducerInv /\ OrderInv)
<1>1. Init => ProducerInv /\ OrderInv
  BY ProducerStart, OrderStart
<1>2. (ProducerInv /\ OrderInv) /\ [Next]_vars => (ProducerInv /\ OrderInv)'
  BY ProducerNext, OrderNext
<1>3. QED
  BY <1>1, <1>2, PTL DEF Spec

-----------------------------------------------------------------------------
(* Theorems *)

(* A batch goes out in the order of Add, no message twice, and in confirm  *)
(* mode each message only after the one before it was acknowledged,        *)
(* although Flush gives up bp.mu before it publishes and p.mu between two  *)
(* messages.                                                               *)
THEOREM BatchKeepsOrder == Spec => []FlushInOrder
<1>1. OrderInv => FlushInOrder
  BY DEF OrderInv
<1>2. QED
  BY <1>1, OrderAlways, PTL

-----------------------------------------------------------------------------
(* What a Flush leaves behind *)

(* Only a flush has more than one message to publish. *)
Queued == \A t \in T : \A x, y \in Elems(todo[t]) : x # y => taken[x] # 0

Dropped ==
    \A m \in M : outcome[m] = "dropped" =>
        /\ taken[m] # 0 /\ m \notin Elems(sent)
        /\ \E n \in M : n < m /\ taken[n] = taken[m] /\ outcome[n] = "error"

DropInv == Queued /\ Dropped

LEMMA QueuedStays ==
    ASSUME Queued, taken' = taken,
           \A u \in T : \/ Elems(todo'[u]) \subseteq Elems(todo[u])
                        \/ \A x, y \in Elems(todo'[u]) : x = y
    PROVE  Queued'
<1>1. \A u \in T : \A x, y \in Elems(todo'[u]) : x # y => taken'[x] # 0
  BY DEF Queued
<1>2. QED
  BY <1>1 DEF Queued, Elems

LEMMA DroppedStays ==
    ASSUME Dropped,
           \A m \in M : taken[m] # 0 => taken'[m] = taken[m],
           \A m \in M : outcome'[m] = "dropped" => outcome[m] = "dropped",
           \A m \in M : outcome[m] = "dropped" /\ m \in Elems(sent') => m \in Elems(sent),
           \A m \in M : outcome[m] = "error" /\ taken[m] # 0 => outcome'[m] = "error"
    PROVE  Dropped'
<1>1. ASSUME NEW m \in M, outcome'[m] = "dropped"
      PROVE  /\ taken'[m] # 0 /\ m \notin Elems(sent')
             /\ \E n \in M : n < m /\ taken'[n] = taken'[m] /\ outcome'[n] = "error"
  <2>1. /\ outcome[m] = "dropped" /\ taken[m] # 0 /\ m \notin Elems(sent)
    BY <1>1 DEF Dropped
  <2>2. PICK n \in M : n < m /\ taken[n] = taken[m] /\ outcome[n] = "error"
    BY <2>1 DEF Dropped
  <2>3. QED
    BY <2>1, <2>2
<1>2. QED
  BY <1>1 DEF Dropped, Elems

LEMMA PendingTold ==
    ASSUME ProducerInv, OrderInv, NEW t \in T, NEW m \in Elems(todo[t])
    PROVE  outcome[m] = "none"
BY DEF OrderInv, Owned

(* Steps that leave the wire, the batches and the outcomes alone.          *)
LEMMA DropQuiet ==
    ASSUME DropInv, UNCHANGED <<sent, taken, outcome, todo>> PROVE DropInv'
<1>1. Queued'
  BY QueuedStays DEF DropInv
<1>2. Dropped'
  BY DroppedStays DEF DropInv
<1>3. QED
  BY <1>1, <1>2 DEF DropInv

LEMMA DropCalls ==
    ASSUME ProducerInv, OrderInv, DropInv, NEW t \in T, NEW k, NEW msgs, Call(t, k, msgs),
           \A x, y \in Elems(msgs) : x = y,
           \A m \in M : \/ outcome'[m] = outcome[m]
                        \/ outcome[m] = "error" /\ taken[m] = 0 /\ outcome'[m] = "none"
    PROVE  DropInv'
<1>1. /\ todo' = [todo EXCEPT ![t] = msgs]
      /\ sent' = sent /\ taken' = taken
  BY DEF Call, wireVars, batchVars
<1>2. todo'[t] = msgs /\ \A u \in T \ {t} : todo'[u] = todo[u]
  BY <1>1 DEF ProducerInv, TypeOK
<1>3. Queued'
  BY <1>1, <1>2, QueuedStays DEF DropInv
<1>4. Dropped'
  BY <1>1, DroppedStays DEF DropInv
<1>5. QED
  BY <1>3, <1>4 DEF DropInv

LEMMA DropFlush ==
    ASSUME ProducerInv, OrderInv, DropInv, NEW t \in T, Flush(t) PROVE DropInv'
<1> USE DEF ProducerInv, OrderInv
<1>1. /\ pc[t] = "flush" /\ todo' = [todo EXCEPT ![t] = batch]
      /\ taken' = [m \in M |-> IF m \in Elems(batch) THEN flushes + 1 ELSE taken[m]]
      /\ sent' = sent /\ outcome' = outcome
  BY DEF Flush, Step, wireVars
<1>2. /\ todo'[t] = batch
      /\ \A u \in T \ {t} : todo'[u] = todo[u]
  BY <1>1 DEF TypeOK
<1>3. /\ \A x \in Elems(batch) : x \in M /\ taken'[x] = flushes + 1 /\ taken[x] = 0
      /\ \A x \in M \ Elems(batch) : taken'[x] = taken[x]
      /\ flushes \in Nat
      /\ \A u \in T : Elems(todo[u]) \subseteq M /\ Elems(todo[u]) \cap Elems(batch) = {}
  <2>1. 1..made \subseteq M
    BY ProducerAssumption DEF TypeOK, M
  <2>2. QED
    BY <1>1, <2>1 DEF Numbered, Grouped, Owned, TypeOK
<1>4. Queued'
  <2>1. \A u \in T : \A x, y \in Elems(todo'[u]) : x # y => taken'[x] # 0
    <3>1. \A x \in Elems(todo'[t]) : taken'[x] # 0
      BY <1>2, <1>3
    <3>2. ASSUME NEW u \in T \ {t}, NEW x \in Elems(todo'[u]), NEW y \in Elems(todo'[u]), x # y
          PROVE  taken'[x] # 0
      BY <1>2, <1>3, <3>2 DEF DropInv, Queued
    <3>3. QED
      BY <3>1, <3>2
  <2>2. QED
    BY <2>1 DEF Queued, Elems
<1>5. Dropped'
  <2>1. \A m \in M : taken[m] # 0 => taken'[m] = taken[m]
    BY <1>3
  <2>2. QED
    BY <1>1, <2>1, DroppedStays DEF DropInv
<1>6. QED
  BY <1>4, <1>5 DEF DropInv

(* The messages behind the first were not published: what went out of the  *)
(* same batch is the first, or comes before it.                            *)
LEMMA RestUnsent ==
    ASSUME ProducerInv, OrderInv, DropInv, NEW t \in T, pc[t] \in {"send", "wait"},
           NEW x \in Elems(todo[t]), x # Head(todo[t])
    PROVE  /\ Head(todo[t]) \in M /\ Head(todo[t]) < x
           /\ taken[Head(todo[t])] = taken[x] /\ taken[x] # 0
           /\ x \notin Elems(sent)
<1> USE DEF ProducerInv, OrderInv
<1>1. todo[t] \in Seq(M) /\ todo[t] # <<>> /\ Increasing(todo[t])
  BY DEF TypeOK, InCall, Sorted
<1>2. /\ Head(todo[t]) \in Elems(todo[t]) /\ Head(todo[t]) < x /\ Head(todo[t]) \in M
  BY <1>1, HeadFirst, HeadTail
<1>3. taken[Head(todo[t])] = taken[x] /\ taken[x] # 0
  BY <1>2 DEF Grouped, DropInv, Queued
<1>4. x \in Nat
  <2>1. made \in Nat /\ x \in 1..made
    BY DEF Owned, TypeOK
  <2>2. QED
    BY <2>1
<1>5. ASSUME NEW i \in DOMAIN sent, sent[i] = x PROVE FALSE
  <2>1. (pc[t] = "wait" /\ i = tag[t]) \/ sent[i] < x
    BY <1>3, <1>5 DEF Behind, Past
  <2>2. pc[t] = "wait" /\ i = tag[t]
    BY <1>4, <1>5, <2>1
  <2>3. sent[i] = Head(todo[t])
    BY <2>2 DEF InCall
  <2>4. QED
    BY <1>5, <2>3
<1>6. x \notin Elems(sent)
  <2>1. DOMAIN sent = 1..Len(sent)
    BY DEF TypeOK
  <2>2. QED
    BY <1>5, <2>1 DEF Elems
<1>7. QED
  BY <1>2, <1>3, <1>6

LEMMA DropFail ==
    ASSUME ProducerInv, OrderInv, DropInv, NEW t \in T, Fail(t), pc[t] \in {"send", "wait"},
           UNCHANGED <<sent, taken>>
    PROVE  DropInv'
<1> DEFINE h == Head(todo[t])
<1>1. /\ outcome' = [m \in M |-> IF m = h THEN "error"
                                 ELSE IF m \in Elems(todo[t]) THEN "dropped"
                                 ELSE outcome[m]]
      /\ todo' = [todo EXCEPT ![t] = <<>>]
  BY DEF Fail
<1>2. todo'[t] = <<>> /\ Elems(todo'[t]) = {} /\ \A u \in T \ {t} : todo'[u] = todo[u]
  BY <1>1, ElemsEmpty DEF ProducerInv, TypeOK
<1>3. Queued'
  BY <1>2, QueuedStays DEF DropInv
<1>4. ASSUME NEW m \in M, outcome'[m] = "dropped"
      PROVE  /\ taken[m] # 0 /\ m \notin Elems(sent)
             /\ \E n \in M : n < m /\ taken[n] = taken[m] /\ outcome'[n] = "error"
  <2>1. CASE m \in Elems(todo[t])
    <3>1. m # h
      BY <1>1, <1>4
    <3>2. /\ h \in M /\ h < m /\ taken[h] = taken[m] /\ taken[m] # 0 /\ m \notin Elems(sent)
      BY <2>1, <3>1, RestUnsent
    <3>3. outcome'[h] = "error"
      BY <1>1, <3>2
    <3>4. QED
      BY <3>2, <3>3
  <2>2. CASE m \notin Elems(todo[t])
    <3>1. outcome[m] = "dropped"
      BY <1>1, <1>4, <2>2
    <3>2. taken[m] # 0 /\ m \notin Elems(sent)
      BY <3>1 DEF DropInv, Dropped
    <3>3. PICK n \in M : n < m /\ taken[n] = taken[m] /\ outcome[n] = "error"
      BY <3>1 DEF DropInv, Dropped
    <3>4. n = h \/ n \notin Elems(todo[t])
      BY <3>3, PendingTold
    <3>5. outcome'[n] = "error"
      BY <1>1, <3>3, <3>4
    <3>6. QED
      BY <3>2, <3>3, <3>5
  <2>3. QED
    BY <2>1, <2>2
<1>5. Dropped'
  BY <1>4 DEF Dropped, Elems
<1>6. QED
  BY <1>3, <1>5 DEF DropInv

(* Publishing the first message, and being done with it.                   *)
LEMMA DropSucceed ==
    ASSUME ProducerInv, OrderInv, DropInv, NEW t \in T, pc[t] \in {"send", "wait"},
           NEW what \in {"ok", "async"}, Succeed(t, what), taken' = taken,
           sent' = sent \/ sent' = Append(sent, Head(todo[t]))
    PROVE  DropInv'
<1> DEFINE h == Head(todo[t])
<1>1. todo[t] \in Seq(M) /\ todo[t] # <<>> /\ Increasing(todo[t])
  BY DEF ProducerInv, TypeOK, InCall, OrderInv, Sorted
<1>2. /\ h \in Elems(todo[t]) /\ h \in M /\ outcome[h] = "none"
      /\ Elems(Tail(todo[t])) \subseteq Elems(todo[t])
  BY <1>1, HeadFirst, HeadTail, PendingTold
<1>3. /\ outcome' = [outcome EXCEPT ![h] = what]
      /\ todo' = [todo EXCEPT ![t] = Tail(todo[t])]
  BY DEF Succeed, ProducerInv, TypeOK
<1>4. /\ todo'[t] = Tail(todo[t]) /\ \A u \in T \ {t} : todo'[u] = todo[u]
      /\ \A m \in M : outcome'[m] = IF m = h THEN what ELSE outcome[m]
  BY <1>3 DEF ProducerInv, TypeOK
<1>5. Queued'
  BY <1>2, <1>4, QueuedStays DEF DropInv
<1>6. \A m \in M : outcome[m] = "dropped" /\ m \in Elems(sent') => m \in Elems(sent)
  <2>1. sent \in Seq(M)
    BY DEF ProducerInv, TypeOK
  <2>2. Elems(Append(sent, h)) = Elems(sent) \cup {h}
    BY <1>2, <2>1, ElemsAppend
  <2>3. sent' = sent => Elems(sent') = Elems(sent)
    OBVIOUS
  <2>4. sent' = Append(sent, h) => Elems(sent') = Elems(sent) \cup {h}
    BY <2>2
  <2>5. Elems(sent') \subseteq Elems(sent) \cup {h}
    BY <2>3, <2>4
  <2>6. QED
    BY <1>2, <2>5
<1>7. Dropped'
  BY <1>2, <1>4, <1>6, DroppedStays DEF DropInv
<1>8. QED
  BY <1>5, <1>7 DEF DropInv

LEMMA DropSend ==
    ASSUME ProducerInv, OrderInv, DropInv, NEW t \in T, Send(t) PROVE DropInv'
<1>1. pc[t] = "send" /\ sent' = Append(sent, Head(todo[t])) /\ taken' = taken
  BY DEF Send, batchVars
<1>2. CASE NoWait(t)
  <2>1. PICK what \in {"ok", "async"} : Succeed(t, what)
    BY <1>2 DEF Send
  <2>2. QED
    BY <1>1, <2>1, DropSucceed
<1>3. CASE ~NoWait(t)
  <2>1. outcome' = outcome /\ todo' = todo
    BY <1>3 DEF Send
  <2>2. todo[t] \in Seq(M) /\ todo[t] # <<>> /\ Increasing(todo[t])
    BY <1>1 DEF ProducerInv, TypeOK, InCall, OrderInv, Sorted
  <2>3. Head(todo[t]) \in M /\ outcome[Head(todo[t])] = "none"
    BY <2>2, HeadFirst, HeadTail, PendingTold
  <2>4. Elems(sent') \subseteq Elems(sent) \cup {Head(todo[t])}
    BY <1>1, <2>3, ElemsAppend DEF ProducerInv, TypeOK
  <2>5. \A m \in M : outcome[m] = "dropped" /\ m \in Elems(sent') => m \in Elems(sent)
    BY <2>3, <2>4
  <2>6. Queued'
    BY <1>1, <2>1, QueuedStays DEF DropInv
  <2>7. Dropped'
    BY <1>1, <2>1, <2>5, DroppedStays DEF DropInv
  <2>8. QED
    BY <2>6, <2>7 DEF DropInv
<1>4. QED
  BY <1>2, <1>3

LEMMA DropNext ==
    ASSUME ProducerInv, OrderInv, DropInv, [Next]_vars PROVE DropInv'
<1> USE DEF wireVars, batchVars, callVars
<1>1. ASSUME NEW t \in T, Calls(t) PROVE DropInv'
  <2>1. ASSUME NEW k \in {"plain", "ctx", "async"}, Publish(t, k) PROVE DropInv'
    <3>1. \A x, y \in Elems(<<made + 1>>) : x = y
      BY SingletonElems
    <3>2. QED
      BY <2>1, <3>1, DropCalls DEF Publish
  <2>2. ASSUME NEW m \in M, Retry(t, m) PROVE DropInv'
    <3>1. \A x, y \in Elems(<<m>>) : x = y
      BY SingletonElems
    <3>2. \A n \in M : \/ outcome'[n] = outcome[n]
                       \/ outcome[n] = "error" /\ taken[n] = 0 /\ outcome'[n] = "none"
      BY <2>2 DEF Retry, ProducerInv, TypeOK
    <3>3. Call(t, "plain", <<m>>)
      BY <2>2 DEF Retry
    <3>4. QED
      BY <3>1, <3>2, <3>3, DropCalls
  <2>3. CASE Close(t)
    <3>1. \A x, y \in Elems(<<>>) : x = y
      BY ElemsEmpty
    <3>2. QED
      BY <2>3, <3>1, DropCalls DEF Close
  <2>4. CASE Add(t) \/ WantFlush(t)
    BY <2>4, DropQuiet DEF Add, WantFlush
  <2>5. QED
    BY <1>1, <2>1, <2>2, <2>3, <2>4 DEF Calls
<1>2. ASSUME NEW t \in T, Proceeds(t) PROVE DropInv'
  <2>1. CASE SendFails(t) \/ NotConfirmed(t) \/ CtxDone(t) \/ TimedOut(t)
    BY <2>1, DropFail DEF SendFails, NotConfirmed, CtxDone, TimedOut
  <2>2. CASE Confirmed(t)
    BY <2>2, DropSucceed DEF Confirmed
  <2>3. CASE AfterAdd(t) \/ CloseChannel(t)
    BY <2>3, DropQuiet DEF AfterAdd, CloseChannel, Die
  <2>4. QED
    BY <1>2, <2>1, <2>2, <2>3, DropFlush, DropSend DEF Proceeds
<1>3. CASE \E t \in T : Lock(t)
  BY <1>3, DropQuiet DEF Lock
<1>4. CASE ChannelLost \/ UNCHANGED vars \/ \E i \in DOMAIN verdict, v \in {"ack", "nack"} : Confirm(i, v)
  BY <1>4, DropQuiet DEF ChannelLost, Die, Confirm, vars
<1>5. QED
  BY <1>1, <1>2, <1>3, <1>4 DEF Next

(* No message is lost between Add and Publish or published by two          *)
(* goroutines: it is in the batch or with exactly one of them until Publish*)
(* has returned for it, or until the Publish of an earlier message of its  *)
(* batch failed; the messages behind that one never went out.              *)
THEOREM NoMessageLost == Spec => []LostOnlyBehindAFailure
<1>1. Init => DropInv
  <2>1. ASSUME Init PROVE DropInv
    <3>1. \A t \in T : Elems(todo[t]) = {}
      BY <2>1, ElemsEmpty DEF Init
    <3>2. QED
      BY <2>1, <3>1 DEF Init, DropInv, Queued, Dropped
  <2>2. QED
    BY <2>1
<1>2. (ProducerInv /\ OrderInv) /\ DropInv /\ [Next]_vars => DropInv'
  BY DropNext
<1>3. ASSUME ProducerInv, OrderInv, DropInv PROVE LostOnlyBehindAFailure
  <2>1. ASSUME NEW m \in 1..made
        PROVE  outcome[m] = "none" <=>
                  \/ m \in Elems(batch) /\ Places(m) = {}
                  \/ m \notin Elems(batch) /\ Cardinality(Places(m)) = 1
    <3>1. /\ outcome[m] = "none" <=> m \in Elems(batch) \/ \E t \in T : m \in Elems(todo[t])
          /\ \A t \in T : m \in Elems(todo[t]) => m \notin Elems(batch)
          /\ \A t, u \in T : m \in Elems(todo[t]) /\ m \in Elems(todo[u]) => t = u
      BY <1>3 DEF OrderInv, Owned
    <3>2. CASE \E t \in T : m \in Elems(todo[t])
      <4>1. PICK t \in T : m \in Elems(todo[t])
        BY <3>2
      <4>2. Places(m) = {t}
        BY <3>1, <4>1 DEF Places
      <4>3. QED
        BY <3>1, <4>1, <4>2, FS_Singleton
    <3>3. CASE ~\E t \in T : m \in Elems(todo[t])
      <4>1. Places(m) = {}
        BY <3>3 DEF Places
      <4>2. QED
        BY <3>1, <3>3, <4>1, FS_EmptySet
    <3>4. QED
      BY <3>2, <3>3
  <2>2. QED
    BY <1>3, <2>1 DEF LostOnlyBehindAFailure, DropInv, Dropped
<1>4. ProducerInv /\ OrderInv /\ DropInv => LostOnlyBehindAFailure
  BY <1>3
<1>5. QED
  BY <1>1, <1>2, <1>4, OrderAlways, PTL DEF Spec

-----------------------------------------------------------------------------
(* What became of a message stays *)

(* Publish returns once for a message, and a dropped one stays dropped:    *)
(* after success no error, after an error no success, unless it was        *)
(* published again, which who flushed cannot: it is not told which failed. *)
ToldOnce ==
    \A m \in M : outcome[m] # "none" /\ outcome'[m] # outcome[m] =>
        /\ outcome[m] = "error" /\ taken[m] = 0
        /\ outcome'[m] = "none" /\ retries' = retries + 1

LEMMA OnceTold == ASSUME ProducerInv, OrderInv, Next PROVE ToldOnce
<1> USE DEF ToldOnce
<1>0. outcome \in [M -> {"none", "ok", "async", "error", "dropped"}]
  BY DEF ProducerInv, TypeOK
<1>1. ASSUME outcome' = outcome PROVE ToldOnce
  BY <1>1
<1>2. ASSUME NEW t \in T, Calls(t) PROVE ToldOnce
  <2>1. CASE \E m \in M : Retry(t, m)
    BY <1>0, <2>1 DEF Retry
  <2>2. CASE outcome' = outcome
    BY <1>1, <2>2
  <2>3. QED
    BY <1>2, <2>1, <2>2 DEF Calls, Publish, Close, Add, WantFlush
<1>3. ASSUME NEW t \in T, Fail(t), pc[t] \in {"send", "wait"} PROVE ToldOnce
  <2>1. todo[t] \in Seq(M) /\ todo[t] # <<>> /\ Increasing(todo[t])
    BY <1>3 DEF ProducerInv, TypeOK, InCall, OrderInv, Sorted
  <2>2. Head(todo[t]) \in Elems(todo[t])
    BY <2>1, HeadFirst
  <2>3. QED
    BY <1>3, <2>2, PendingTold DEF Fail
<1>4. ASSUME NEW t \in T, NEW what, Succeed(t, what), pc[t] = "wait" \/ pc[t] = "send" PROVE ToldOnce
  <2>1. todo[t] \in Seq(M) /\ todo[t] # <<>> /\ Increasing(todo[t])
    <3>1. todo[t] # <<>>
      BY <1>4 DEF ProducerInv, InCall
    <3>2. QED
      BY <3>1 DEF ProducerInv, TypeOK, OrderInv, Sorted
  <2>2. outcome[Head(todo[t])] = "none"
    BY <2>1, HeadFirst, PendingTold
  <2>3. QED
    BY <1>0, <1>4, <2>2 DEF Succeed
<1>5. ASSUME NEW t \in T, Proceeds(t) PROVE ToldOnce
  <2>1. CASE Send(t)
    BY <1>1, <1>4, <2>1 DEF Send
  <2>2. CASE Confirmed(t)
    BY <1>4, <2>2 DEF Confirmed
  <2>3. CASE SendFails(t) \/ NotConfirmed(t) \/ CtxDone(t) \/ TimedOut(t)
    BY <1>3, <2>3 DEF SendFails, NotConfirmed, CtxDone, TimedOut
  <2>4. CASE AfterAdd(t) \/ Flush(t) \/ CloseChannel(t)
    BY <1>1, <2>4 DEF AfterAdd, Flush, CloseChannel
  <2>5. QED
    BY <1>5, <2>1, <2>2, <2>3, <2>4 DEF Proceeds
<1>6. QED
  BY <1>1, <1>2, <1>5 DEF Next, Lock, Confirm, ChannelLost

(* Publish and PublishAsync return once for each message they are called   *)
(* with, and Flush drops one for good, whatever the broker confirms later  *)
(* and whichever goroutine flushes.                                        *)
THEOREM CallersToldOnce == Spec => [][ToldOnce]_vars
<1>1. (ProducerInv /\ OrderInv) /\ [Next]_vars => [ToldOnce]_vars
  BY OnceTold
<1>2. QED
  BY <1>1, OrderAlways, PTL DEF Spec

-----------------------------------------------------------------------------
(* p.mu *)

(* p.mu is held from the publication to the end of the wait for its        *)
(* confirmation, so the confirmation a goroutine waits for is always that  *)
(* of the publication sent last.                                           *)
WaiterIsLast ==
    \A t \in T : pc[t] = "wait" =>
        /\ tag[t] = Len(sent)
        /\ \A u \in T \ {t} : pc[u] \notin HoldsMu

OneHolder == \A t, u \in T : pc[t] \in HoldsMu /\ pc[u] \in HoldsMu => t = u

MuInv == OneHolder /\ WaiterIsLast

(* A step of a goroutine that does not take p.mu and does not publish.     *)
LEMMA MuStays ==
    ASSUME MuInv, sent' = sent,
           \A u \in T : \/ pc'[u] = pc[u] /\ tag'[u] = tag[u]
                        \/ pc'[u] \notin HoldsMu
    PROVE  MuInv'
BY DEF MuInv, OneHolder, WaiterIsLast, HoldsMu

LEMMA MuNext == ASSUME ProducerInv, MuInv, [Next]_vars PROVE MuInv'
<1>0. /\ pc \in [T -> Label] /\ tag \in [T -> Nat] /\ sent \in Seq(M)
  BY DEF ProducerInv, TypeOK
<1> USE DEF Step, wireVars, batchVars, callVars
<1>1. ASSUME NEW t \in T, Calls(t) \/ AfterAdd(t) \/ Flush(t) \/ CloseChannel(t) PROVE MuInv'
  <2>1. /\ sent' = sent /\ tag' = tag
        /\ \E l \in {"lock", "added", "flush", "out"} : pc' = [pc EXCEPT ![t] = l]
    BY <1>1 DEF Calls, Publish, Retry, Close, Call, Add, WantFlush, AfterAdd, Flush, CloseChannel, Die
  <2>2. QED
    BY <1>0, <2>1, MuStays DEF HoldsMu
<1>2. ASSUME NEW t \in T, sent' = sent, pc' = [pc EXCEPT ![t] = "out"], tag' = [tag EXCEPT ![t] = 0]
      PROVE  MuInv'
  BY <1>0, <1>2, MuStays DEF HoldsMu
<1>3. ASSUME NEW t \in T, SendFails(t) \/ NotConfirmed(t) \/ CtxDone(t) \/ TimedOut(t) PROVE MuInv'
  BY <1>2, <1>3 DEF SendFails, NotConfirmed, CtxDone, TimedOut, Fail
<1>4. ASSUME NEW t \in T, Confirmed(t) PROVE MuInv'
  <2>1. /\ sent' = sent /\ tag' = [tag EXCEPT ![t] = 0]
        /\ \E l \in {"lock", "out"} : pc' = [pc EXCEPT ![t] = l]
    BY <1>4 DEF Confirmed, Succeed
  <2>2. QED
    BY <1>0, <2>1, MuStays DEF HoldsMu
<1>5. ASSUME NEW t \in T, Lock(t) PROVE MuInv'
  <2>1. /\ sent' = sent /\ tag' = tag /\ \A u \in T : pc[u] \notin HoldsMu
        /\ \E l \in {"closing", "send"} : pc' = [pc EXCEPT ![t] = l]
    BY <1>5 DEF Lock, MuFree
  <2>2. QED
    BY <1>0, <2>1 DEF MuInv, OneHolder, WaiterIsLast, HoldsMu
<1>6. ASSUME NEW t \in T, Send(t) PROVE MuInv'
  <2>1. \A u \in T \ {t} : pc[u] \notin HoldsMu
    BY <1>6 DEF Send, MuInv, OneHolder, HoldsMu
  <2>2. Len(sent') = Len(sent) + 1
    BY <1>0, <1>6, HeadTail DEF Send, ProducerInv, TypeOK, InCall
  <2>3. /\ \A u \in T \ {t} : pc'[u] = pc[u]
        /\ pc'[t] = "wait" => tag'[t] = Len(sent) + 1
    BY <1>0, <1>6 DEF Send, Succeed
  <2>4. QED
    BY <2>1, <2>2, <2>3 DEF MuInv, OneHolder, WaiterIsLast, HoldsMu
<1>7. ASSUME UNCHANGED <<sent, pc, tag>> PROVE MuInv'
  BY <1>7 DEF MuInv, OneHolder, WaiterIsLast
<1>8. CASE UNCHANGED vars \/ ChannelLost \/ \E i \in DOMAIN verdict, v \in {"ack", "nack"} : Confirm(i, v)
  BY <1>7, <1>8 DEF vars, ChannelLost, Confirm, Die
<1>9. QED
  BY <1>1, <1>3, <1>4, <1>5, <1>6, <1>8 DEF Next, Proceeds

(* One publication at a time: whoever waits for a confirmation waits for   *)
(* that of the last publication, and nobody else publishes meanwhile.      *)
THEOREM WaitsForTheLast == Spec => []WaiterIsLast
<1>1. Init => MuInv
  BY DEF Init, MuInv, OneHolder, WaiterIsLast, HoldsMu
<1>2. ProducerInv /\ MuInv /\ [Next]_vars => MuInv'
  BY MuNext
<1>3. MuInv => WaiterIsLast
  BY DEF MuInv
<1>4. QED
  BY <1>1, <1>2, <1>3, ProducerAlways, PTL DEF Spec
=============================================================================
