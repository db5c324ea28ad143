---------------------------- MODULE ProducerProofs ----------------------------
(***************************************************************************)
(* Theorems about Producer, for any number of goroutines, messages and     *)
(* retries and any batch size.  The inductive invariant says what a        *)
(* goroutine inside a call carries with it (InCall), that messages are     *)
(* numbered in the order they come (Numbered) and that the bounds of the   *)
(* model hold (Counted).                                                   *)
(***************************************************************************)
EXTENDS Producer, FiniteSetTheorems, SequenceTheorems, TLAPS

(* A goroutine that is to publish has a message; one that waits for a      *)
(* confirmation has the tag of its first message.                          *)
InCall(t) ==
    /\ pc[t] \in {"lock", "send"} /\ kind[t] # "close" => todo[t] # <<>>
    /\ pc[t] = "send" => kind[t] # "close"
    /\ pc[t] = "wait" =>
          /\ enabled /\ todo[t] # <<>>
          /\ tag[t] \in DOMAIN sent /\ sent[tag[t]] = Head(todo[t])

Numbered ==
    /\ Elems(batch) \subseteq 1..made
    /\ \A m \in M : m > made => taken[m] = 0

Counted ==
    /\ Cardinality(Single) <= MaxSingle
    /\ made - Cardinality(Single) <= MaxBatched

ProducerInv ==
    /\ TypeOK
    /\ \A t \in T : InCall(t)
    /\ Numbered
    /\ Counted
    /\ ConfirmedMeansAcked
    /\ BatchBounded

-----------------------------------------------------------------------------
(* Sequences *)

LEMMA ElemsEmpty == Elems(<<>>) = {}
BY DEF Elems

LEMMA ElemsAppend ==
    ASSUME NEW S, NEW s \in Seq(S), NEW x \in S
    PROVE  Elems(Append(s, x)) = Elems(s) \cup {x}
<1>1. /\ Len(Append(s, x)) = Len(s) + 1 /\ Len(s) \in Nat
      /\ \A i \in 1..Len(s) : Append(s, x)[i] = s[i]
      /\ Append(s, x)[Len(s) + 1] = x
  OBVIOUS
<1>2. 1..(Len(s) + 1) = (1..Len(s)) \cup {Len(s) + 1}
  BY <1>1
<1>3. QED
  BY <1>1, <1>2 DEF Elems

LEMMA HeadTail ==
    ASSUME NEW S, NEW s \in Seq(S), s # <<>>
    PROVE  Head(s) \in S /\ Tail(s) \in Seq(S) /\ (Len(s) # 1 => Tail(s) # <<>>)
<1>0. Len(s) \in Nat
  OBVIOUS
<1>1. Head(s) \in S /\ Tail(s) \in Seq(S) /\ Len(Tail(s)) = Len(s) - 1
  BY HeadTailProperties
<1>2. Len(s) # 1 => Len(Tail(s)) # 0
  BY <1>0, <1>1
<1>3. Len(<<>>) = 0
  OBVIOUS
<1>4. QED
  BY <1>1, <1>2, <1>3, Zenon

-----------------------------------------------------------------------------
LEMMA SingleFinite == ASSUME made \in Nat PROVE IsFiniteSet(Single) /\ Cardinality(Single) \in Nat
<1>1. IsFiniteSet(1..made)
  BY FS_Interval
<1>2. Single \subseteq 1..made
  BY DEF Single
<1>3. QED
  BY <1>1, <1>2, FS_Subset, FS_CardinalityType

Between == {t \in T : pc[t] \in {"added", "flush"}}

LEMMA BetweenFinite == IsFiniteSet(Between) /\ Cardinality(Between) \in Nat
BY ProducerAssumption, FS_Subset, FS_CardinalityType DEF Between

LEMMA ProducerStart == Init => ProducerInv
<1> SUFFICES ASSUME Init PROVE ProducerInv
  OBVIOUS
<1>0. enabled \in BOOLEAN
  BY DEF Init
<1>1. /\ dead = FALSE /\ sent = <<>> /\ verdict = <<>> /\ batch = <<>> /\ made = 0
      /\ flushes = 0 /\ retries = 0
  BY DEF Init
<1>2. /\ taken \in [M -> Nat] /\ outcome \in [M -> {"none", "ok", "async", "error", "dropped"}]
      /\ pc \in [T -> Label] /\ kind \in [T -> Kind] /\ todo \in [T -> Seq(M)] /\ tag \in [T -> Nat]
  BY DEF Init, Label, Kind
<1>3. TypeOK
  <2>1. /\ sent \in Seq(M) /\ batch \in Seq(M) /\ Len(sent) = 0 /\ Len(verdict) = 0
        /\ verdict \in Seq({"none", "ack", "nack"})
    BY <1>1
  <2>2. dead \in BOOLEAN
    BY <1>1
  <2>3. made \in 0..(MaxBatched + MaxSingle) /\ flushes \in Nat /\ retries \in 0..MaxRetries
    BY <1>1, ProducerAssumption
  <2>4. QED
    BY <1>0, <1>2, <2>1, <2>2, <2>3 DEF TypeOK
<1>4. \A t \in T : InCall(t)
  BY DEF Init, InCall
<1>5. Numbered
  BY <1>1, ElemsEmpty DEF Init, Numbered
<1>6. Single = {}
  BY <1>1 DEF Single
<1>7. Counted
  BY <1>1, <1>6, FS_EmptySet, ProducerAssumption DEF Counted
<1>8. ConfirmedMeansAcked
  BY DEF Init, ConfirmedMeansAcked
<1>9. BatchBounded
  <2>1. Cardinality(Between) \in Nat
    BY BetweenFinite
  <2>2. Len(batch) = 0
    BY <1>1
  <2>3. QED
    BY <2>1, <2>2, ProducerAssumption DEF BatchBounded, Between
<1>10. QED
  BY <1>3, <1>4, <1>5, <1>7, <1>8, <1>9 DEF ProducerInv

-----------------------------------------------------------------------------
(* What the steps have in common *)

(* The goroutines between Add and Flush stay, or more come. *)
LEMMA BoundStays ==
    ASSUME ProducerInv, batch' = batch, Between \subseteq Between' PROVE BatchBounded'
<1>1. IsFiniteSet(Between')
  BY ProducerAssumption, FS_Subset DEF Between
<1>2. Cardinality(Between) <= Cardinality(Between') /\ Cardinality(Between') \in Nat
  BY <1>1, FS_Subset, FS_CardinalityType
<1>3. Len(batch) \in Nat /\ Cardinality(Between) \in Nat
  BY BetweenFinite DEF ProducerInv, TypeOK
<1>4. Len(batch) < MaxSize + Cardinality(Between)
  BY DEF ProducerInv, BatchBounded, Between
<1>5. Len(batch') < MaxSize + Cardinality(Between')
  BY <1>2, <1>3, <1>4, ProducerAssumption
<1>6. QED
  BY <1>5 DEF BatchBounded, Between

(* Nobody's messages, nor the batch, change. *)
LEMMA BatchStays ==
    ASSUME ProducerInv, UNCHANGED <<batch, taken, made>> PROVE Numbered' /\ Counted'
<1>1. Single' = Single
  BY DEF Single
<1>2. QED
  BY <1>1 DEF ProducerInv, Numbered, Counted

(* No caller is told of a new success, and what is acknowledged stays so. *)
LEMMA AckedStays ==
    ASSUME ProducerInv, enabled' = enabled, DOMAIN sent \subseteq DOMAIN sent',
           \A i \in DOMAIN sent : sent'[i] = sent[i] /\ (verdict[i] = "ack" => verdict'[i] = "ack"),
           \A m \in M : outcome'[m] = "ok" => outcome[m] = "ok"
    PROVE  ConfirmedMeansAcked'
BY DEF ProducerInv, ConfirmedMeansAcked

(* The other goroutines do not notice. *)
LEMMA OthersInCall ==
    ASSUME ProducerInv, NEW t \in T, enabled' = enabled, DOMAIN sent \subseteq DOMAIN sent',
           \A i \in DOMAIN sent : sent'[i] = sent[i],
           \A u \in T \ {t} : /\ pc'[u] = pc[u] /\ kind'[u] = kind[u]
                              /\ todo'[u] = todo[u] /\ tag'[u] = tag[u],
           InCall(t)'
    PROVE  \A u \in T : InCall(u)'
BY DEF ProducerInv, InCall

-----------------------------------------------------------------------------
(* Calls *)

(* A goroutine enters a call with msgs. *)
LEMMA CallKeeps ==
    ASSUME ProducerInv, NEW t \in T, NEW k \in Kind, NEW msgs \in Seq(M), Call(t, k, msgs),
           k # "close" => msgs # <<>>
    PROVE  /\ \A u \in T : InCall(u)'
           /\ pc' \in [T -> Label] /\ kind' \in [T -> Kind] /\ todo' \in [T -> Seq(M)]
           /\ UNCHANGED <<enabled, dead, sent, verdict, batch, flushes, taken, tag>>
           /\ Between' = Between
<1> USE DEF ProducerInv
<1>1. /\ pc[t] = "out" /\ pc' = [pc EXCEPT ![t] = "lock"]
      /\ kind' = [kind EXCEPT ![t] = k] /\ todo' = [todo EXCEPT ![t] = msgs]
      /\ UNCHANGED <<enabled, dead, sent, verdict, batch, flushes, taken, tag>>
  BY DEF Call, Step, wireVars, batchVars
<1>2. pc' \in [T -> Label] /\ kind' \in [T -> Kind] /\ todo' \in [T -> Seq(M)]
  BY <1>1 DEF TypeOK, Label, HoldsMu
<1>3. pc'[t] = "lock" /\ kind'[t] = k /\ todo'[t] = msgs
  BY <1>1 DEF TypeOK
<1>4. \A u \in T \ {t} : pc'[u] = pc[u] /\ kind'[u] = kind[u] /\ todo'[u] = todo[u]
  BY <1>1 DEF TypeOK
<1>5. InCall(t)'
  BY <1>3 DEF InCall
<1>6. \A u \in T : InCall(u)'
  BY <1>1, <1>4, <1>5, OthersInCall
<1>7. Between' = Between
  BY <1>1, <1>3, <1>4 DEF Between
<1>8. QED
  BY <1>1, <1>2, <1>6, <1>7

LEMMA PublishKeeps ==
    ASSUME ProducerInv, NEW t \in T, NEW k \in {"plain", "ctx", "async"}, Publish(t, k)
    PROVE  ProducerInv'
<1> USE DEF ProducerInv
<1>1. made \in Nat /\ Cardinality(Single) \in Nat /\ IsFiniteSet(Single)
  BY SingleFinite DEF TypeOK
<1>2. made' = made + 1 /\ Cardinality(Single) < MaxSingle /\ UNCHANGED <<retries, outcome>>
  BY DEF Publish
<1>3. made + 1 \in M /\ made' \in 0..(MaxBatched + MaxSingle)
  BY <1>1, <1>2, ProducerAssumption DEF Counted, M
<1>4. <<made + 1>> \in Seq(M) /\ <<made + 1>> # <<>> /\ Call(t, k, <<made + 1>>)
  BY <1>3 DEF Publish
<1>5. /\ \A u \in T : InCall(u)'
      /\ pc' \in [T -> Label] /\ kind' \in [T -> Kind] /\ todo' \in [T -> Seq(M)]
      /\ UNCHANGED <<enabled, dead, sent, verdict, batch, flushes, taken, tag>>
      /\ Between' = Between
  <2>1. k \in Kind /\ k # "close"
    BY DEF Kind
  <2>2. QED
    BY <1>4, <2>1, CallKeeps
<1>6. TypeOK'
  BY <1>2, <1>3, <1>5 DEF TypeOK
<1>7. Numbered'
  BY <1>1, <1>2, <1>5 DEF Numbered, M, Elems
<1>8. Single' = Single \cup {made + 1} /\ made + 1 \notin Single
  <2>1. taken[made + 1] = 0 /\ made + 1 \notin Elems(batch)
    BY <1>1, <1>3 DEF Numbered
  <2>2. 1..(made + 1) = (1..made) \cup {made + 1} /\ made + 1 \notin 1..made
    BY <1>1
  <2>3. QED
    BY <1>2, <1>5, <2>1, <2>2 DEF Single, Elems
<1>9. Counted'
  <2>1. Cardinality(Single') = Cardinality(Single) + 1
    BY <1>1, <1>8, FS_AddElement
  <2>2. QED
    BY <1>1, <1>2, <2>1, ProducerAssumption DEF Counted
<1>10. ConfirmedMeansAcked' /\ BatchBounded'
  BY <1>2, <1>5, AckedStays, BoundStays
<1>11. QED
  BY <1>5, <1>6, <1>7, <1>9, <1>10

LEMMA RetryKeeps ==
    ASSUME ProducerInv, NEW t \in T, NEW m \in M, Retry(t, m) PROVE ProducerInv'
<1> USE DEF ProducerInv
<1>1. /\ Call(t, "plain", <<m>>) /\ made' = made
      /\ retries < MaxRetries /\ retries' = retries + 1
      /\ outcome' = [outcome EXCEPT ![m] = "none"]
  BY DEF Retry
<1>2. /\ \A u \in T : InCall(u)'
      /\ pc' \in [T -> Label] /\ kind' \in [T -> Kind] /\ todo' \in [T -> Seq(M)]
      /\ UNCHANGED <<enabled, dead, sent, verdict, batch, flushes, taken, tag>>
      /\ Between' = Between
  <2>1. <<m>> \in Seq(M) /\ <<m>> # <<>> /\ "plain" \in Kind
    BY DEF Kind
  <2>2. QED
    BY <1>1, <2>1, CallKeeps
<1>3. TypeOK'
  BY <1>1, <1>2, ProducerAssumption DEF TypeOK
<1>4. \A n \in M : outcome'[n] = "ok" => outcome[n] = "ok"
  BY <1>1 DEF TypeOK
<1>5. QED
  BY <1>1, <1>2, <1>3, <1>4, BatchStays, AckedStays, BoundStays

LEMMA CloseKeeps == ASSUME ProducerInv, NEW t \in T, Close(t) PROVE ProducerInv'
<1> USE DEF ProducerInv
<1>1. Call(t, "close", <<>>) /\ UNCHANGED <<made, retries, outcome>>
  BY DEF Close
<1>2. /\ \A u \in T : InCall(u)'
      /\ pc' \in [T -> Label] /\ kind' \in [T -> Kind] /\ todo' \in [T -> Seq(M)]
      /\ UNCHANGED <<enabled, dead, sent, verdict, batch, flushes, taken, tag>>
      /\ Between' = Between
  <2>1. <<>> \in Seq(M) /\ "close" \in Kind
    BY DEF Kind
  <2>2. QED
    BY <1>1, <2>1, CallKeeps
<1>3. TypeOK'
  BY <1>1, <1>2 DEF TypeOK
<1>4. QED
  BY <1>1, <1>2, <1>3, BatchStays, AckedStays, BoundStays

-----------------------------------------------------------------------------
(* Batches *)

LEMMA AddKeeps == ASSUME ProducerInv, NEW t \in T, Add(t) PROVE ProducerInv'
<1> USE DEF ProducerInv
<1>1. made \in Nat /\ Cardinality(Single) \in Nat /\ batch \in Seq(M) /\ Len(batch) \in Nat
  BY SingleFinite DEF TypeOK
<1>2. /\ made - Cardinality(Single) < MaxBatched
      /\ pc[t] = "out" /\ pc' = [pc EXCEPT ![t] = "added"]
      /\ made' = made + 1 /\ batch' = Append(batch, made + 1)
      /\ UNCHANGED <<enabled, dead, sent, verdict, flushes, taken, retries, outcome, kind, todo, tag>>
  BY DEF Add, Step, wireVars
<1>3. made + 1 \in M /\ made' \in 0..(MaxBatched + MaxSingle)
  BY <1>1, <1>2, ProducerAssumption DEF Counted, M
<1>4. Elems(batch') = Elems(batch) \cup {made + 1} /\ batch' \in Seq(M) /\ Len(batch') = Len(batch) + 1
  BY <1>1, <1>2, <1>3, ElemsAppend
<1>5. pc' \in [T -> Label] /\ pc'[t] = "added" /\ \A u \in T \ {t} : pc'[u] = pc[u]
  BY <1>2 DEF TypeOK, Label
<1>6. TypeOK'
  BY <1>2, <1>3, <1>4, <1>5 DEF TypeOK
<1>7. \A u \in T : InCall(u)'
  <2>1. InCall(t)'
    BY <1>5 DEF InCall
  <2>2. QED
    BY <1>2, <1>5, <2>1, OthersInCall
<1>8. 1..(made + 1) = (1..made) \cup {made + 1} /\ made + 1 \notin 1..made
  BY <1>1
<1>9. Numbered'
  <2>1. \A m \in M : m > made + 1 => m > made
    BY <1>1 DEF M
  <2>2. QED
    BY <1>2, <1>4, <1>8, <2>1 DEF Numbered
<1>10. Single' = Single
  BY <1>2, <1>4, <1>8 DEF Single
<1>11. Counted'
  BY <1>1, <1>2, <1>10, ProducerAssumption DEF Counted
<1>12. ConfirmedMeansAcked'
  BY <1>2, AckedStays
<1>13. BatchBounded'
  <2>1. Between' = Between \cup {t} /\ t \notin Between
    BY <1>2, <1>5 DEF Between
  <2>2. Cardinality(Between') = Cardinality(Between) + 1 /\ Cardinality(Between) \in Nat
    BY <2>1, BetweenFinite, FS_AddElement
  <2>3. Len(batch) < MaxSize + Cardinality(Between)
    BY DEF BatchBounded, Between
  <2>4. Len(batch') < MaxSize + Cardinality(Between')
    BY <1>1, <1>4, <2>2, <2>3, ProducerAssumption
  <2>5. QED
    BY <2>4 DEF BatchBounded, Between
<1>14. QED
  BY <1>6, <1>7, <1>9, <1>11, <1>12, <1>13

(* The caller of Add looks whether the batch is full.  If it is not, the   *)
(* bound holds without the caller.                                         *)
LEMMA AfterAddKeeps ==
    ASSUME ProducerInv, NEW t \in T, AfterAdd(t) \/ WantFlush(t) PROVE ProducerInv'
<1> USE DEF ProducerInv
<1>1. /\ UNCHANGED <<enabled, dead, sent, verdict, batch, flushes, taken, made, retries, outcome, kind, todo, tag>>
      /\ pc[t] \in {"added", "out"}
  BY DEF AfterAdd, WantFlush, Step, wireVars, batchVars
<1>2. PICK l \in {"flush", "out"} : pc' = [pc EXCEPT ![t] = l] /\ (l = "out" => ~ShouldFlush)
  BY DEF AfterAdd, WantFlush, Step
<1>3. pc' \in [T -> Label] /\ pc'[t] = l /\ \A u \in T \ {t} : pc'[u] = pc[u]
  BY <1>2 DEF TypeOK, Label
<1>4. TypeOK'
  BY <1>1, <1>3 DEF TypeOK
<1>5. \A u \in T : InCall(u)'
  <2>1. InCall(t)'
    BY <1>3 DEF InCall
  <2>2. QED
    BY <1>1, <1>3, <2>1, OthersInCall
<1>6. BatchBounded'
  <2>1. CASE l = "flush"
    <3>1. Between \subseteq Between'
      BY <1>3, <2>1 DEF Between
    <3>2. QED
      BY <1>1, <3>1, BoundStays
  <2>2. CASE l = "out"
    <3>1. Len(batch) < MaxSize /\ Len(batch) \in Nat
      BY <1>2, <2>2, ProducerAssumption DEF ShouldFlush, TypeOK
    <3>2. Cardinality(Between') \in Nat
      BY ProducerAssumption, FS_Subset, FS_CardinalityType DEF Between
    <3>3. Len(batch') < MaxSize + Cardinality(Between')
      BY <1>1, <3>1, <3>2, ProducerAssumption
    <3>4. QED
      BY <3>3 DEF BatchBounded, Between
  <2>3. QED
    BY <2>1, <2>2
<1>7. QED
  BY <1>1, <1>4, <1>5, <1>6, BatchStays, AckedStays

LEMMA FlushKeepsInv == ASSUME ProducerInv, NEW t \in T, Flush(t) PROVE ProducerInv'
<1> USE DEF ProducerInv
<1>1. /\ pc[t] = "flush" /\ pc' = [pc EXCEPT ![t] = IF batch = <<>> THEN "out" ELSE "lock"]
      /\ kind' = [kind EXCEPT ![t] = IF batch = <<>> THEN "none" ELSE "flush"]
      /\ todo' = [todo EXCEPT ![t] = batch] /\ batch' = <<>>
      /\ flushes' = IF batch = <<>> THEN flushes ELSE flushes + 1
      /\ taken' = [m \in M |-> IF m \in Elems(batch) THEN flushes + 1 ELSE taken[m]]
      /\ UNCHANGED <<enabled, dead, sent, verdict, made, retries, outcome, tag>>
  BY DEF Flush, Step, wireVars
<1>2. pc' \in [T -> Label] /\ kind' \in [T -> Kind] /\ todo' \in [T -> Seq(M)]
  BY <1>1 DEF TypeOK, Label, HoldsMu, Kind
<1>3. /\ pc'[t] = (IF batch = <<>> THEN "out" ELSE "lock") /\ todo'[t] = batch
      /\ \A u \in T \ {t} : pc'[u] = pc[u] /\ kind'[u] = kind[u] /\ todo'[u] = todo[u]
  BY <1>1 DEF TypeOK
<1>4. flushes' \in Nat /\ taken' \in [M -> Nat] /\ batch' \in Seq(M)
  BY <1>1 DEF TypeOK
<1>5. TypeOK'
  BY <1>1, <1>2, <1>4 DEF TypeOK
<1>6. \A u \in T : InCall(u)'
  <2>1. InCall(t)'
    BY <1>3 DEF InCall
  <2>2. QED
    BY <1>1, <1>3, <2>1, OthersInCall
<1>7. Elems(batch') = {} /\ flushes \in Nat /\ made \in Nat
  BY <1>1, ElemsEmpty DEF TypeOK
<1>8. Numbered'
  <2>1. \A m \in M : m > made => m \notin Elems(batch)
    BY <1>7 DEF Numbered, M
  <2>2. QED
    BY <1>1, <1>7, <2>1 DEF Numbered
<1>9. Single' = Single
  <2>1. 1..made \subseteq M
    BY ProducerAssumption DEF TypeOK, M
  <2>2. \A m \in 1..made : taken'[m] = 0 <=> taken[m] = 0 /\ m \notin Elems(batch)
    BY <1>1, <1>7, <2>1
  <2>3. QED
    BY <1>1, <1>7, <2>2 DEF Single
<1>10. Counted'
  BY <1>1, <1>9 DEF Counted
<1>11. ConfirmedMeansAcked'
  BY <1>1, AckedStays
<1>12. BatchBounded'
  <2>1. Cardinality(Between') \in Nat
    BY ProducerAssumption, FS_Subset, FS_CardinalityType DEF Between
  <2>2. Len(batch') = 0
    BY <1>1
  <2>3. Len(batch') < MaxSize + Cardinality(Between')
    BY <2>1, <2>2, ProducerAssumption
  <2>4. QED
    BY <2>3 DEF BatchBounded, Between
<1>13. QED
  BY <1>5, <1>6, <1>8, <1>10, <1>11, <1>12

-----------------------------------------------------------------------------
(* Publishing *)

LEMMA LockKeeps == ASSUME ProducerInv, NEW t \in T, Lock(t) PROVE ProducerInv'
<1> USE DEF ProducerInv
<1>1. /\ UNCHANGED <<enabled, dead, sent, verdict, batch, flushes, taken, made, retries, outcome, kind, todo, tag>>
      /\ pc[t] = "lock" /\ pc' = [pc EXCEPT ![t] = IF kind[t] = "close" THEN "closing" ELSE "send"]
  BY DEF Lock, Step, wireVars, batchVars
<1>2. /\ pc' \in [T -> Label] /\ pc'[t] = (IF kind[t] = "close" THEN "closing" ELSE "send")
      /\ \A u \in T \ {t} : pc'[u] = pc[u]
  BY <1>1 DEF TypeOK, Label, HoldsMu
<1>3. TypeOK'
  BY <1>1, <1>2 DEF TypeOK
<1>4. InCall(t)'
  BY <1>1, <1>2 DEF InCall
<1>5. \A u \in T : InCall(u)'
  BY <1>1, <1>2, <1>4, OthersInCall
<1>6. Between \subseteq Between'
  BY <1>1, <1>2 DEF Between
<1>7. QED
  BY <1>1, <1>3, <1>5, <1>6, BatchStays, AckedStays, BoundStays

(* The end of the publication of one message. *)
LEMMA SucceedFacts ==
    ASSUME ProducerInv, NEW t \in T, NEW what \in {"ok", "async"}, Succeed(t, what),
           pc[t] \in {"send", "wait"}, todo[t] # <<>>,
           enabled' = enabled, DOMAIN sent \subseteq DOMAIN sent',
           \A i \in DOMAIN sent : sent'[i] = sent[i]
    PROVE  /\ outcome' \in [M -> {"none", "ok", "async", "error", "dropped"}]
           /\ pc' \in [T -> Label] /\ kind' \in [T -> Kind]
           /\ todo' \in [T -> Seq(M)] /\ tag' \in [T -> Nat]
           /\ \A u \in T : InCall(u)'
           /\ Between \subseteq Between'
           /\ Head(todo[t]) \in M
           /\ \A m \in M : outcome'[m] = IF m = Head(todo[t]) THEN what ELSE outcome[m]
<1> USE DEF ProducerInv
<1> DEFINE l == IF Len(todo[t]) = 1 THEN "out" ELSE "lock"
           k == IF Len(todo[t]) = 1 THEN "none" ELSE kind[t]
<1>1. /\ outcome' = [outcome EXCEPT ![Head(todo[t])] = what]
      /\ todo' = [todo EXCEPT ![t] = Tail(todo[t])]
      /\ pc' = [pc EXCEPT ![t] = l] /\ kind' = [kind EXCEPT ![t] = k] /\ tag' = [tag EXCEPT ![t] = 0]
  BY DEF Succeed, TypeOK
<1>2. Head(todo[t]) \in M /\ Tail(todo[t]) \in Seq(M) /\ (Len(todo[t]) # 1 => Tail(todo[t]) # <<>>)
  BY HeadTail DEF TypeOK
<1>3. l \in Label /\ k \in Kind
  BY DEF TypeOK, Label, HoldsMu, Kind
<1>4. /\ outcome' \in [M -> {"none", "ok", "async", "error", "dropped"}]
      /\ \A m \in M : outcome'[m] = IF m = Head(todo[t]) THEN what ELSE outcome[m]
  BY <1>1, <1>2 DEF TypeOK
<1>5. /\ pc' \in [T -> Label] /\ kind' \in [T -> Kind]
      /\ todo' \in [T -> Seq(M)] /\ tag' \in [T -> Nat]
  BY <1>1, <1>2, <1>3 DEF TypeOK
<1>6. /\ pc'[t] = l /\ todo'[t] = Tail(todo[t])
      /\ \A u \in T \ {t} : /\ pc'[u] = pc[u] /\ kind'[u] = kind[u]
                            /\ todo'[u] = todo[u] /\ tag'[u] = tag[u]
  BY <1>1 DEF TypeOK
<1>7. InCall(t)'
  BY <1>2, <1>6 DEF InCall
<1>8. \A u \in T : InCall(u)'
  BY <1>6, <1>7, OthersInCall
<1>9. Between \subseteq Between'
  BY <1>6 DEF Between
<1>10. QED
  BY <1>2, <1>4, <1>5, <1>8, <1>9

(* An error, wherever it comes from. *)
LEMMA FailKeeps ==
    ASSUME ProducerInv, NEW t \in T, Fail(t), pc[t] \in {"send", "wait"},
           UNCHANGED <<wireVars, batchVars, made, retries>>
    PROVE  ProducerInv'
<1> USE DEF ProducerInv
<1>1. /\ outcome' = [m \in M |-> IF m = Head(todo[t]) THEN "error"
                               ELSE IF m \in Elems(todo[t]) THEN "dropped"
                               ELSE outcome[m]]
      /\ todo' = [todo EXCEPT ![t] = <<>>] /\ pc' = [pc EXCEPT ![t] = "out"]
      /\ kind' = [kind EXCEPT ![t] = "none"] /\ tag' = [tag EXCEPT ![t] = 0]
      /\ UNCHANGED <<enabled, dead, sent, verdict, batch, flushes, taken, made, retries>>
  BY DEF Fail, wireVars, batchVars
<1>2. /\ outcome' \in [M -> {"none", "ok", "async", "error", "dropped"}]
      /\ \A m \in M : outcome'[m] = "ok" => outcome[m] = "ok"
  BY <1>1 DEF TypeOK
<1>3. /\ pc' \in [T -> Label] /\ kind' \in [T -> Kind]
      /\ todo' \in [T -> Seq(M)] /\ tag' \in [T -> Nat]
  BY <1>1 DEF TypeOK, Label, Kind
<1>4. TypeOK'
  BY <1>1, <1>2, <1>3 DEF TypeOK
<1>5. /\ pc'[t] = "out"
      /\ \A u \in T \ {t} : /\ pc'[u] = pc[u] /\ kind'[u] = kind[u]
                            /\ todo'[u] = todo[u] /\ tag'[u] = tag[u]
  BY <1>1 DEF TypeOK
<1>6. InCall(t)'
  BY <1>5 DEF InCall
<1>7. \A u \in T : InCall(u)'
  BY <1>1, <1>5, <1>6, OthersInCall
<1>8. Between \subseteq Between'
  BY <1>5 DEF Between
<1>9. QED
  BY <1>1, <1>2, <1>4, <1>7, <1>8, BatchStays, AckedStays, BoundStays

LEMMA SendKeeps == ASSUME ProducerInv, NEW t \in T, Send(t) PROVE ProducerInv'
<1> USE DEF ProducerInv
<1> DEFINE h == Head(todo[t])
           n == Len(sent)
<1>1. /\ pc[t] = "send" /\ todo[t] # <<>> /\ todo[t] \in Seq(M) /\ h \in M
      /\ sent \in Seq(M) /\ n \in Nat /\ Len(verdict) = n
      /\ sent' = Append(sent, h) /\ verdict' = Append(verdict, "none")
      /\ UNCHANGED <<enabled, dead, batch, flushes, taken, made, retries>>
  BY HeadTail DEF Send, InCall, TypeOK, batchVars
<1>2. /\ sent' \in Seq(M) /\ verdict' \in Seq({"none", "ack", "nack"})
      /\ Len(sent') = n + 1 /\ Len(verdict') = n + 1
  BY <1>1 DEF TypeOK
<1>3. /\ DOMAIN sent = 1..n /\ DOMAIN sent' = 1..(n + 1)
      /\ \A i \in 1..n : sent'[i] = sent[i] /\ verdict'[i] = verdict[i]
      /\ sent'[n + 1] = h
  BY <1>1, <1>2 DEF TypeOK
<1>4. DOMAIN sent \subseteq DOMAIN sent' /\ \A i \in DOMAIN sent : sent'[i] = sent[i]
  BY <1>1, <1>3
<1>5. CASE NoWait(t)
  <2>1. PICK what \in {"ok", "async"} : Succeed(t, what) /\ (what = "ok" => ~enabled)
    BY <1>5 DEF Send, NoWait
  <2>2. /\ outcome' \in [M -> {"none", "ok", "async", "error", "dropped"}]
        /\ pc' \in [T -> Label] /\ kind' \in [T -> Kind]
        /\ todo' \in [T -> Seq(M)] /\ tag' \in [T -> Nat]
        /\ \A u \in T : InCall(u)'
        /\ Between \subseteq Between'
        /\ \A m \in M : outcome'[m] = IF m = h THEN what ELSE outcome[m]
    BY <1>1, <1>4, <2>1, SucceedFacts
  <2>3. TypeOK'
    BY <1>1, <1>2, <2>2 DEF TypeOK
  <2>4. ConfirmedMeansAcked'
    <3> SUFFICES ASSUME NEW m \in M, outcome'[m] = "ok"
                 PROVE  \E i \in DOMAIN sent' : sent'[i] = m /\ (enabled => verdict'[i] = "ack")
      BY <1>1 DEF ConfirmedMeansAcked
    <3>1. CASE m = h
      <4>1. ~enabled
        BY <2>1, <2>2, <3>1
      <4>2. n + 1 \in DOMAIN sent' /\ sent'[n + 1] = m
        BY <1>1, <1>3, <3>1
      <4>3. QED
        BY <4>1, <4>2
    <3>2. CASE m # h
      <4>1. outcome[m] = "ok"
        BY <2>2, <3>2
      <4>2. PICK i \in DOMAIN sent : sent[i] = m /\ (enabled => verdict[i] = "ack")
        BY <4>1 DEF ConfirmedMeansAcked
      <4>3. i \in DOMAIN sent' /\ sent'[i] = m /\ verdict'[i] = verdict[i]
        BY <1>3, <1>4, <4>2
      <4>4. QED
        BY <4>2, <4>3
    <3>3. QED
      BY <3>1, <3>2
  <2>5. QED
    BY <1>1, <2>2, <2>3, <2>4, BatchStays, BoundStays
<1>6. CASE ~NoWait(t)
  <2>1. /\ enabled /\ pc' = [pc EXCEPT ![t] = "wait"] /\ tag' = [tag EXCEPT ![t] = n + 1]
        /\ UNCHANGED <<outcome, kind, todo>>
    BY <1>6 DEF Send, NoWait
  <2>2. /\ pc' \in [T -> Label] /\ tag' \in [T -> Nat]
        /\ pc'[t] = "wait" /\ tag'[t] = n + 1
        /\ \A u \in T \ {t} : pc'[u] = pc[u] /\ tag'[u] = tag[u]
    BY <1>1, <2>1 DEF TypeOK, Label, HoldsMu
  <2>3. TypeOK'
    BY <1>1, <1>2, <2>1, <2>2 DEF TypeOK
  <2>4. InCall(t)'
    <3>1. tag'[t] \in DOMAIN sent'
      BY <1>1, <1>3, <2>2
    <3>2. QED
      BY <1>1, <1>3, <2>1, <2>2, <3>1 DEF InCall
  <2>5. \A u \in T : InCall(u)'
    BY <1>1, <1>4, <2>1, <2>2, <2>4, OthersInCall
  <2>6. ConfirmedMeansAcked'
    BY <1>1, <1>3, <1>4, <2>1, AckedStays
  <2>7. Between \subseteq Between'
    BY <1>1, <2>2 DEF Between
  <2>8. QED
    BY <1>1, <2>3, <2>5, <2>6, <2>7, BatchStays, BoundStays
<1>7. QED
  BY <1>5, <1>6

LEMMA ConfirmedKeeps == ASSUME ProducerInv, NEW t \in T, Confirmed(t) PROVE ProducerInv'
<1> USE DEF ProducerInv
<1>1. /\ pc[t] = "wait" /\ verdict[tag[t]] = "ack" /\ Succeed(t, "ok")
      /\ UNCHANGED <<enabled, dead, sent, verdict, batch, flushes, taken, made, retries>>
  BY DEF Confirmed, Verdict, wireVars, batchVars
<1>2. todo[t] # <<>> /\ tag[t] \in DOMAIN sent /\ sent[tag[t]] = Head(todo[t])
  BY <1>1 DEF InCall
<1>3. /\ outcome' \in [M -> {"none", "ok", "async", "error", "dropped"}]
      /\ pc' \in [T -> Label] /\ kind' \in [T -> Kind]
      /\ todo' \in [T -> Seq(M)] /\ tag' \in [T -> Nat]
      /\ \A u \in T : InCall(u)'
      /\ Between \subseteq Between'
      /\ \A m \in M : outcome'[m] = IF m = Head(todo[t]) THEN "ok" ELSE outcome[m]
  BY <1>1, <1>2, SucceedFacts
<1>4. TypeOK'
  BY <1>1, <1>3 DEF TypeOK
<1>5. ConfirmedMeansAcked'
  <2> SUFFICES ASSUME NEW m \in M, outcome'[m] = "ok"
               PROVE  \E i \in DOMAIN sent : sent[i] = m /\ (enabled => verdict[i] = "ack")
    BY <1>1 DEF ConfirmedMeansAcked
  <2>1. CASE m = Head(todo[t])
    BY <1>1, <1>2, <2>1
  <2>2. CASE m # Head(todo[t])
    BY <1>3, <2>2 DEF ConfirmedMeansAcked
  <2>3. QED
    BY <2>1, <2>2
<1>6. QED
  BY <1>1, <1>3, <1>4, <1>5, BatchStays, BoundStays

-----------------------------------------------------------------------------
(* The channel and the broker *)

(* Confirmations that were there stay. *)
LEMMA WireKeeps ==
    ASSUME ProducerInv, UNCHANGED <<enabled, sent, batch, flushes, taken, made, retries, outcome>>,
           dead' \in BOOLEAN, verdict' \in Seq({"none", "ack", "nack"}), Len(verdict') = Len(verdict),
           \A i \in DOMAIN verdict : verdict[i] # "none" => verdict'[i] = verdict[i],
           pc' \in [T -> Label], kind' \in [T -> Kind], UNCHANGED <<todo, tag>>,
           \A u \in T : (pc'[u] = pc[u] /\ kind'[u] = kind[u]) \/ (pc[u] = "closing" /\ pc'[u] = "out")
    PROVE  ProducerInv'
<1> USE DEF ProducerInv
<1>1. TypeOK'
  BY DEF TypeOK
<1>2. \A u \in T : InCall(u)'
  BY DEF InCall
<1>3. DOMAIN sent = DOMAIN verdict
  BY DEF TypeOK
<1>4. ConfirmedMeansAcked'
  <2>1. \A i \in DOMAIN sent : verdict[i] = "ack" => verdict'[i] = "ack"
    BY <1>3
  <2>2. QED
    BY <2>1, AckedStays
<1>5. Between \subseteq Between'
  BY DEF Between
<1>6. QED
  BY <1>1, <1>2, <1>4, <1>5, BatchStays, BoundStays

LEMMA DieFacts ==
    ASSUME TypeOK, Die
    PROVE  /\ dead' \in BOOLEAN /\ verdict' \in Seq({"none", "ack", "nack"}) /\ Len(verdict') = Len(verdict)
           /\ \A i \in DOMAIN verdict : verdict[i] # "none" => verdict'[i] = verdict[i]
<1>1. verdict' = [i \in 1..Len(verdict) |-> IF verdict[i] = "none" THEN "nack" ELSE verdict[i]]
  BY DEF Die, TypeOK
<1>2. dead' \in BOOLEAN
  BY DEF Die
<1>3. /\ verdict' \in Seq({"none", "ack", "nack"}) /\ Len(verdict') = Len(verdict)
      /\ \A i \in DOMAIN verdict : verdict[i] # "none" => verdict'[i] = verdict[i]
  BY <1>1 DEF TypeOK
<1>4. QED
  BY <1>2, <1>3

LEMMA CloseChannelKeeps == ASSUME ProducerInv, NEW t \in T, CloseChannel(t) PROVE ProducerInv'
<1> USE DEF ProducerInv
<1>1. /\ pc[t] = "closing" /\ pc' = [pc EXCEPT ![t] = "out"] /\ kind' = [kind EXCEPT ![t] = "none"]
      /\ UNCHANGED <<enabled, sent, batch, flushes, taken, made, retries, outcome, todo, tag>>
  BY DEF CloseChannel, Step, wireVars, batchVars, Die
<1>2. /\ pc' \in [T -> Label] /\ kind' \in [T -> Kind]
      /\ \A u \in T : (pc'[u] = pc[u] /\ kind'[u] = kind[u]) \/ (pc[u] = "closing" /\ pc'[u] = "out")
  BY <1>1 DEF TypeOK, Label, Kind
<1>3. /\ dead' \in BOOLEAN /\ verdict' \in Seq({"none", "ack", "nack"}) /\ Len(verdict') = Len(verdict)
      /\ \A i \in DOMAIN verdict : verdict[i] # "none" => verdict'[i] = verdict[i]
  <2>1. CASE dead
    <3>1. dead' = dead /\ verdict' = verdict
      BY <2>1 DEF CloseChannel, wireVars
    <3>2. QED
      BY <3>1 DEF TypeOK
  <2>2. CASE ~dead
    BY <2>2, DieFacts DEF CloseChannel
  <2>3. QED
    BY <2>1, <2>2
<1>4. QED
  BY <1>1, <1>2, <1>3, WireKeeps

LEMMA BrokerKeeps ==
    ASSUME ProducerInv,
           ChannelLost \/ \E i \in DOMAIN verdict, v \in {"ack", "nack"} : Confirm(i, v)
    PROVE  ProducerInv'
<1> USE DEF ProducerInv
<1>1. UNCHANGED <<enabled, sent, batch, flushes, taken, made, retries, outcome, pc, kind, todo, tag>>
  BY DEF ChannelLost, Confirm, Die, batchVars, callVars
<1>2. /\ dead' \in BOOLEAN /\ verdict' \in Seq({"none", "ack", "nack"}) /\ Len(verdict') = Len(verdict)
      /\ \A i \in DOMAIN verdict : verdict[i] # "none" => verdict'[i] = verdict[i]
  <2>1. CASE ChannelLost
    BY <2>1, DieFacts DEF ChannelLost
  <2>2. ASSUME NEW i \in DOMAIN verdict, NEW v \in {"ack", "nack"}, Confirm(i, v)
        PROVE  /\ verdict' \in Seq({"none", "ack", "nack"}) /\ Len(verdict') = Len(verdict)
               /\ \A j \in DOMAIN verdict : verdict[j] # "none" => verdict'[j] = verdict[j]
               /\ dead' = dead
    BY <2>2 DEF Confirm, TypeOK
  <2>3. QED
    BY <2>1, <2>2 DEF TypeOK
<1>3. pc' \in [T -> Label] /\ kind' \in [T -> Kind]
  BY <1>1 DEF TypeOK
<1>4. QED
  BY <1>1, <1>2, <1>3, WireKeeps

-----------------------------------------------------------------------------
LEMMA ProducerNext == ASSUME ProducerInv, [Next]_vars PROVE ProducerInv'
<1>1. ASSUME NEW t \in T, Calls(t) PROVE ProducerInv'
  <2>1. CASE WantFlush(t)
    BY <2>1, AfterAddKeeps
  <2>2. QED
    BY <1>1, <2>1, PublishKeeps, RetryKeeps, CloseKeeps, AddKeeps DEF Calls
<1>2. ASSUME NEW t \in T, Proceeds(t) PROVE ProducerInv'
  <2>1. CASE SendFails(t) \/ NotConfirmed(t) \/ CtxDone(t) \/ TimedOut(t)
    BY <2>1, FailKeeps DEF SendFails, NotConfirmed, CtxDone, TimedOut
  <2>2. CASE AfterAdd(t)
    BY <2>2, AfterAddKeeps
  <2>3. QED
    BY <1>2, <2>1, <2>2, FlushKeepsInv, SendKeeps, ConfirmedKeeps, CloseChannelKeeps DEF Proceeds
<1>3. CASE UNCHANGED vars
  <2>1. UNCHANGED <<enabled, dead, sent, verdict, batch, flushes, taken, made, retries, outcome,
                    pc, kind, todo, tag>>
    BY <1>3 DEF vars, wireVars, batchVars, callVars
  <2>2. TypeOK' /\ (\A t \in T : InCall(t)') /\ Between' = Between
    BY <2>1 DEF ProducerInv, TypeOK, InCall, Between
  <2>3. QED
    BY <2>1, <2>2, BatchStays, AckedStays, BoundStays DEF ProducerInv
<1>4. QED
  BY <1>1, <1>2, <1>3, LockKeeps, BrokerKeeps DEF Next

THEOREM ProducerAlways == Spec => []ProducerInv
<1>1. Init => ProducerInv
  BY ProducerStart
<1>2. ProducerInv /\ [Next]_vars => ProducerInv'
  BY ProducerNext
<1>3. QED
  BY <1>1, <1>2, PTL DEF Spec

-----------------------------------------------------------------------------
(* Theorems *)

(* Types; in particular a confirmation exists for each publication, and    *)
(* the bounds of the model are never overrun.                              *)
THEOREM ProducerTypeCorrect == Spec => []TypeOK
<1>1. ProducerInv => TypeOK
  BY DEF ProducerInv
<1>2. QED
  BY <1>1, ProducerAlways, PTL

(* In confirm mode nobody is told of success unless the broker has         *)
(* acknowledged a publication of that very message, however late and in    *)
(* whatever order confirmations come.                                      *)
THEOREM SuccessIsConfirmed == Spec => []ConfirmedMeansAcked
<1>1. ProducerInv => ConfirmedMeansAcked
  BY DEF ProducerInv
<1>2. QED
  BY <1>1, ProducerAlways, PTL

(* The batch grows past maxSize by no more than one message for each       *)
(* goroutine between its Add and its Flush.                                *)
THEOREM BatchIsBounded == Spec => []BatchBounded
<1>1. ProducerInv => BatchBounded
  BY DEF ProducerInv
<1>2. QED
  BY <1>1, ProducerAlways, PTL
=============================================================================
