---------------------------- MODULE ChannelProofs ----------------------------
(***************************************************************************)
(* Theorems about the wrapper Channel, for any number of wrappers,         *)
(* goroutines and AMQP channels and any pool size.                         *)
(***************************************************************************)
EXTENDS Channel, FiniteSetTheorems, TLAPS

PoolActions(w) == \/ Pool!Admit(w) \/ Pool!Refuse(w) \/ Pool!LendFromShelf(w) \/ Pool!LendNew(w)
                  \/ Pool!Retire(w) \/ Pool!Shelve(w) \/ \E v \in W \ {w} : Pool!PassOn(w, v)

LEMMA PoolTyped ==
    ASSUME Pool!LeaseTypeOK,
           (\E w \in W : PoolActions(w)) \/ Pool!ClosePool \/ Pool!DropItem \/ UNCHANGED poolVars
    PROVE  Pool!LeaseTypeOK'
<1> USE DEF Pool!LeaseTypeOK
<1>1. ASSUME NEW w \in W, PoolActions(w) PROVE Pool!LeaseTypeOK'
  BY <1>1 DEF PoolActions, Pool!Admit, Pool!Refuse, Pool!LendFromShelf, Pool!LendNew,
              Pool!Retire, Pool!Shelve, Pool!PassOn
<1>2. CASE Pool!ClosePool \/ Pool!DropItem \/ UNCHANGED poolVars
  BY <1>2 DEF Pool!ClosePool, Pool!DropItem, poolVars
<1>3. QED
  BY <1>1, <1>2

-----------------------------------------------------------------------------
(* The counter of ch.inflight *)

LEMMA InMethodFinite ==
    ASSUME NEW w \in W
    PROVE  IsFiniteSet(InMethod(w)) /\ Cardinality(InMethod(w)) \in Nat
BY ChannelAssumption, FS_Subset, FS_CardinalityType DEF InMethod

LEMMA InflightUnmoved ==
    ASSUME InflightExact, inflight' = inflight,
           \A w \in W : InMethod(w)' = InMethod(w)
    PROVE  InflightExact'
BY DEF InflightExact

LEMMA InflightEnter ==
    ASSUME TypeOK, InflightExact, NEW t \in T, NEW w \in W, NEW op \in Ops, Enter(t, w, op)
    PROVE  InflightExact'
<1>1. /\ InMethod(w)' = InMethod(w) \cup {t} /\ t \notin InMethod(w)
      /\ \A v \in W \ {w} : InMethod(v)' = InMethod(v)
      /\ inflight' = [inflight EXCEPT ![w] = @ + 1]
  BY DEF Enter, InMethod, TypeOK
<1>2. Cardinality(InMethod(w)') = Cardinality(InMethod(w)) + 1
  BY <1>1, InMethodFinite, FS_AddElement
<1>3. QED
  BY <1>1, <1>2 DEF InflightExact, TypeOK

LEMMA InflightLeave ==
    ASSUME TypeOK, InflightExact, NEW t \in T, NEW w \in W, on[t] = w, Leave(t)
    PROVE  InflightExact' /\ inflight' \in [W -> Nat]
<1>1. /\ InMethod(w)' = InMethod(w) \ {t} /\ t \in InMethod(w)
      /\ \A v \in W \ {w} : InMethod(v)' = InMethod(v)
      /\ inflight' = [inflight EXCEPT ![w] = @ - 1]
  BY DEF Leave, InMethod, TypeOK
<1>2. /\ Cardinality(InMethod(w)') = Cardinality(InMethod(w)) - 1
      /\ IsFiniteSet(InMethod(w)')
  BY <1>1, InMethodFinite, FS_RemoveElement
<1>3. Cardinality(InMethod(w)') \in Nat
  BY <1>2, FS_CardinalityType
<1>4. QED
  BY <1>1, <1>2, <1>3 DEF InflightExact, TypeOK

(* inflight.Wait() returns only when no method is under way.               *)
LEMMA WaitMeansNoMethod ==
    ASSUME InflightExact, NEW w \in W, inflight[w] = 0 PROVE InMethod(w) = {}
BY InMethodFinite, FS_EmptySet DEF InflightExact

-----------------------------------------------------------------------------
(* Leases and closes *)

LEMMA WrapperStart == Init => WrapperInv
<1> SUFFICES ASSUME Init PROVE WrapperInv
  OBVIOUS
<1> USE DEF Init, Pool!LeaseInit
<1>1. Pool!LeaseTypeOK
  BY DEF Pool!LeaseTypeOK
<1>2. /\ wrapped \subseteq W /\ amqpCh \in [W -> Chan \cup {None}]
      /\ stateful \in [W -> BOOLEAN] /\ closing \in [W -> BOOLEAN]
      /\ inflight \in [W -> Nat] /\ traits \in [Chan -> SUBSET Trait]
  OBVIOUS
<1>3. /\ pc \in [T -> Label] /\ on \in [T -> W \cup {None}] /\ doing \in [T -> Ops \cup {None}]
      /\ raw \in [T -> Chan \cup {None}] /\ discards \in [T -> BOOLEAN]
  BY DEF Label
<1>4. TypeOK
  BY <1>1, <1>2, <1>3 DEF TypeOK
<1>5. WrapperShape /\ LeaseShape
  BY DEF WrapperShape, LeaseShape
<1>6. MethodsUseOwnLease /\ GivenBackOnce
  BY DEF MethodsUseOwnLease, GivenBackOnce, Closers
<1>7. InflightExact
  <2>1. \A w \in W : InMethod(w) = {}
    BY DEF InMethod
  <2>2. QED
    BY <2>1, FS_EmptySet DEF InflightExact
<1>8. QED
  BY <1>4, <1>5, <1>6, <1>7 DEF WrapperInv

(* Steps of the pool towards a wrapper that is not made yet.               *)
LEMMA WrapperPool ==
    ASSUME WrapperInv, PoolStep PROVE WrapperInv'
<1> USE DEF wrapperVars, callVars, poolVars
<1>0. TypeOK /\ WrapperShape /\ LeaseShape /\ MethodsUseOwnLease /\ GivenBackOnce /\ InflightExact
  BY DEF WrapperInv
<1>1. TypeOK'
  <2>1. Pool!LeaseTypeOK'
    <3>1. \/ \E w \in W : PoolActions(w)
          \/ Pool!ClosePool \/ Pool!DropItem \/ UNCHANGED poolVars
      BY DEF PoolStep, Ask, Refused, LeaseIdle, LeaseNew, Wrap, ClosePool, DropIdle, PoolActions
    <3>2. QED
      BY <1>0, <3>1, PoolTyped DEF TypeOK
  <2>2. traits' \in [Chan -> SUBSET Trait]
    BY <1>0 DEF TypeOK, PoolStep, Ask, Refused, LeaseIdle, LeaseNew, Wrap, ClosePool, DropIdle
  <2>3. wrapped' \subseteq W /\ amqpCh' \in [W -> Chan \cup {None}]
    BY <1>0 DEF TypeOK, Pool!LeaseTypeOK, PoolStep, Ask, Refused, LeaseIdle, LeaseNew, Wrap,
                ClosePool, DropIdle
  <2>4. UNCHANGED <<stateful, closing, inflight, callVars>>
    BY DEF PoolStep, Ask, Refused, LeaseIdle, LeaseNew, Wrap, ClosePool, DropIdle
  <2>5. QED
    BY <1>0, <2>1, <2>2, <2>3, <2>4 DEF TypeOK
<1>2. InflightExact'
  <2>1. inflight' = inflight /\ pc' = pc /\ on' = on
    BY DEF PoolStep, Ask, Refused, LeaseIdle, LeaseNew, Wrap, ClosePool, DropIdle
  <2>2. QED
    BY <1>0, <2>1, InflightUnmoved DEF InMethod
<1>3. ASSUME NEW w \in W, Ask(w) \/ Refused(w)
      PROVE  WrapperShape' /\ LeaseShape' /\ MethodsUseOwnLease' /\ GivenBackOnce'
  BY <1>0, <1>3 DEF Ask, Refused, Pool!Admit, Pool!Refuse, WrapperShape, LeaseShape,
                    MethodsUseOwnLease, GivenBackOnce, Closers, TypeOK
<1>4. ASSUME NEW w \in W, LeaseIdle(w) \/ LeaseNew(w)
      PROVE  WrapperShape' /\ LeaseShape' /\ MethodsUseOwnLease' /\ GivenBackOnce'
  <2>1. PICK c \in Chan : /\ holds' = [holds EXCEPT ![w] = c]
                          /\ \A v \in W : holds[v] # c
                          /\ c \notin shelf' /\ shelf' \subseteq shelf
    BY <1>0, <1>4, ChannelAssumption DEF LeaseIdle, LeaseNew, Pool!LendFromShelf, Pool!LendNew,
         Pool!Lent, Pool!LeaseTypeOK, TypeOK, LeaseShape
  <2>2. w \in asking /\ asking' = asking \ {w}
    BY <1>4 DEF LeaseIdle, LeaseNew, Pool!LendFromShelf, Pool!LendNew
  <2>3. UNCHANGED <<wrapperVars, callVars>>
    BY <1>4 DEF LeaseIdle, LeaseNew
  <2>4. LeaseShape'
    BY <1>0, <2>1 DEF LeaseShape, TypeOK, Pool!LeaseTypeOK
  <2>5. WrapperShape'
    BY <1>0, <2>1, <2>2, <2>3 DEF WrapperShape, TypeOK, Pool!LeaseTypeOK
  <2>6. MethodsUseOwnLease' /\ GivenBackOnce'
    BY <1>0, <2>1, <2>2, <2>3 DEF WrapperShape, TypeOK, Pool!LeaseTypeOK,
                                  MethodsUseOwnLease, GivenBackOnce, Closers
  <2>7. QED
    BY <2>4, <2>5, <2>6
<1>5. ASSUME NEW w \in W, Wrap(w)
      PROVE  WrapperShape' /\ LeaseShape' /\ MethodsUseOwnLease' /\ GivenBackOnce'
  BY <1>0, <1>5 DEF Wrap, WrapperShape, LeaseShape, MethodsUseOwnLease, GivenBackOnce,
                    Closers, TypeOK, Pool!LeaseTypeOK
<1>6. CASE ClosePool \/ DropIdle
  BY <1>0, <1>1, <1>2, <1>6 DEF ClosePool, DropIdle, Pool!ClosePool, Pool!DropItem, WrapperInv,
       WrapperShape, LeaseShape, MethodsUseOwnLease, GivenBackOnce, Closers
<1>7. QED
  BY <1>1, <1>2, <1>3, <1>4, <1>5, <1>6 DEF PoolStep, WrapperInv

(* Steps of goroutines that leave the leases where they are.               *)
LEMMA WrapperEnter ==
    ASSUME WrapperInv, NEW t \in T, NEW w \in W, NEW op \in Ops, Enter(t, w, op)
    PROVE  WrapperInv'
<1> USE DEF poolVars
<1>0. TypeOK /\ WrapperShape /\ LeaseShape /\ MethodsUseOwnLease /\ GivenBackOnce /\ InflightExact
  BY DEF WrapperInv
<1>1. TypeOK'
  BY <1>0 DEF Enter, TypeOK, Label, Pool!LeaseTypeOK
<1>2. InflightExact'
  BY <1>0, InflightEnter
<1>3. WrapperShape' /\ LeaseShape'
  BY <1>0 DEF Enter, Usable, WrapperShape, LeaseShape, TypeOK
<1>4. MethodsUseOwnLease'
  BY <1>0 DEF Enter, Usable, WrapperShape, MethodsUseOwnLease, TypeOK
<1>5. GivenBackOnce'
  <2>1. \A v \in W : Closers(v)' \subseteq Closers(v)
    BY <1>0 DEF Enter, Closers, TypeOK
  <2>2. UNCHANGED <<amqpCh, closing>>
    BY DEF Enter
  <2>3. QED
    BY <1>0, <2>1, <2>2 DEF GivenBackOnce
<1>6. QED
  BY <1>1, <1>2, <1>3, <1>4, <1>5 DEF WrapperInv

LEMMA WrapperMethod ==
    ASSUME WrapperInv, NEW t \in T, MethodStep(t) PROVE WrapperInv'
<1> USE DEF poolVars, wrapperVars
<1>0. TypeOK /\ WrapperShape /\ LeaseShape /\ MethodsUseOwnLease /\ GivenBackOnce /\ InflightExact
  BY DEF WrapperInv
<1>1. CASE Perform(t)
  <2>1. InflightExact'
    <3>1. inflight' = inflight /\ \A w \in W : InMethod(w)' = InMethod(w)
      BY <1>0, <1>1 DEF Perform, InMethod, TypeOK
    <3>2. QED
      BY <1>0, <3>1, InflightUnmoved
  <2>2. TypeOK'
    <3>1. traits' \in [Chan -> SUBSET Trait]
      BY <1>0, <1>1 DEF Perform, TypeOK, Adds, Removes, Trait
    <3>2. QED
      BY <1>0, <1>1, <3>1 DEF Perform, TypeOK, Label, Pool!LeaseTypeOK
  <2>3. WrapperShape' /\ LeaseShape' /\ MethodsUseOwnLease'
    BY <1>0, <1>1 DEF Perform, WrapperShape, LeaseShape, MethodsUseOwnLease, TypeOK
  <2>4. GivenBackOnce'
    <3>1. \A v \in W : Closers(v)' \subseteq Closers(v)
      BY <1>0, <1>1 DEF Perform, Closers, TypeOK
    <3>2. QED
      BY <1>0, <1>1, <3>1 DEF GivenBackOnce, Perform
  <2>5. QED
    BY <2>1, <2>2, <2>3, <2>4 DEF WrapperInv
<1>2. CASE Leave(t)
  <2>0. PICK w \in W : on[t] = w
    BY <1>0, <1>2 DEF Leave, WrapperShape, TypeOK
  <2>1. InflightExact' /\ inflight' \in [W -> Nat]
    BY <1>0, <1>2, <2>0, InflightLeave
  <2>2. TypeOK'
    BY <1>0, <1>2, <2>1 DEF Leave, TypeOK, Label, Pool!LeaseTypeOK
  <2>3. WrapperShape' /\ LeaseShape' /\ MethodsUseOwnLease'
    BY <1>0, <1>2 DEF Leave, WrapperShape, LeaseShape, MethodsUseOwnLease, TypeOK
  <2>4. GivenBackOnce'
    <3>1. \A v \in W : Closers(v)' \subseteq Closers(v)
      BY <1>0, <1>2 DEF Leave, Closers, TypeOK
    <3>2. QED
      BY <1>0, <1>2, <3>1 DEF GivenBackOnce, Leave
  <2>5. QED
    BY <2>1, <2>2, <2>3, <2>4 DEF WrapperInv
<1>3. QED
  BY <1>1, <1>2 DEF MethodStep

LEMMA WrapperRaw ==
    ASSUME WrapperInv, NEW t \in T,
           UseRaw(t) \/ DropRaw(t) \/ \E w \in W : RawChannel(t, w)
    PROVE  WrapperInv'
<1> USE DEF poolVars, wrapperVars, callVars
<1>0. TypeOK /\ WrapperShape /\ LeaseShape /\ MethodsUseOwnLease /\ GivenBackOnce /\ InflightExact
  BY DEF WrapperInv
<1>1. InflightExact'
  <2>1. inflight' = inflight /\ \A w \in W : InMethod(w)' = InMethod(w)
    BY <1>0 DEF UseRaw, DropRaw, RawChannel, InMethod, TypeOK
  <2>2. QED
    BY <1>0, <2>1, InflightUnmoved
<1>2. GivenBackOnce'
  <2>1. \A v \in W : Closers(v)' \subseteq Closers(v)
    BY <1>0 DEF UseRaw, DropRaw, RawChannel, Closers, TypeOK
  <2>2. UNCHANGED <<amqpCh, closing>>
    BY DEF UseRaw, DropRaw, RawChannel
  <2>3. QED
    BY <1>0, <2>1, <2>2 DEF GivenBackOnce
<1>3. CASE UseRaw(t)
  <2>1. TypeOK'
    BY <1>0, <1>3 DEF UseRaw, TypeOK, Trait, Pool!LeaseTypeOK
  <2>2. WrapperShape' /\ LeaseShape' /\ MethodsUseOwnLease'
    BY <1>0, <1>3 DEF UseRaw, WrapperShape, LeaseShape, MethodsUseOwnLease
  <2>3. QED
    BY <1>1, <1>2, <2>1, <2>2 DEF WrapperInv
<1>4. CASE DropRaw(t)
  <2>1. TypeOK'
    BY <1>0, <1>4 DEF DropRaw, TypeOK, Label, Pool!LeaseTypeOK
  <2>2. WrapperShape' /\ LeaseShape' /\ MethodsUseOwnLease'
    BY <1>0, <1>4 DEF DropRaw, WrapperShape, LeaseShape, MethodsUseOwnLease, TypeOK
  <2>3. QED
    BY <1>1, <1>2, <2>1, <2>2 DEF WrapperInv
<1>5. ASSUME NEW w \in W, RawChannel(t, w) PROVE WrapperInv'
  <2>1. TypeOK'
    BY <1>0, <1>5 DEF RawChannel, TypeOK, Label, Pool!LeaseTypeOK
  <2>2. WrapperShape' /\ LeaseShape' /\ MethodsUseOwnLease'
    BY <1>0, <1>5 DEF RawChannel, WrapperShape, LeaseShape, MethodsUseOwnLease, TypeOK
  <2>3. QED
    BY <1>1, <1>2, <2>1, <2>2 DEF WrapperInv
<1>6. QED
  BY <1>3, <1>4, <1>5

LEMMA WrapperBeginClose ==
    ASSUME WrapperInv, NEW t \in T, NEW w \in W, BeginClose(t, w) PROVE WrapperInv'
<1> USE DEF poolVars
<1>0. TypeOK /\ WrapperShape /\ LeaseShape /\ MethodsUseOwnLease /\ GivenBackOnce /\ InflightExact
  BY DEF WrapperInv
<1>1. TypeOK'
  BY <1>0 DEF BeginClose, TypeOK, Label, Pool!LeaseTypeOK
<1>2. InflightExact'
  <2>1. inflight' = inflight /\ \A v \in W : InMethod(v)' = InMethod(v)
    BY <1>0 DEF BeginClose, InMethod, TypeOK
  <2>2. QED
    BY <1>0, <2>1, InflightUnmoved
<1>3. WrapperShape' /\ LeaseShape'
  BY <1>0 DEF BeginClose, WrapperShape, LeaseShape, TypeOK
<1>4. MethodsUseOwnLease'
  BY <1>0 DEF BeginClose, WrapperShape, MethodsUseOwnLease, TypeOK
<1>5. GivenBackOnce'
  <2>1. /\ Closers(w) = {} /\ Closers(w)' = {t}
        /\ \A v \in W \ {w} : Closers(v)' = Closers(v)
    BY <1>0 DEF BeginClose, Closers, GivenBackOnce, TypeOK
  <2>2. /\ amqpCh' = [amqpCh EXCEPT ![w] = None] /\ closing' = [closing EXCEPT ![w] = TRUE]
        /\ amqpCh \in [W -> Chan \cup {None}] /\ closing \in [W -> BOOLEAN]
    BY <1>0 DEF BeginClose, TypeOK
  <2>3. QED
    BY <1>0, <2>1, <2>2 DEF GivenBackOnce
<1>6. QED
  BY <1>1, <1>2, <1>3, <1>4, <1>5 DEF WrapperInv

(* Close gives the lease back: on[t] is the wrapper, and t its only closer. *)
LEMMA CloseDetaches ==
    ASSUME WrapperInv, NEW t \in T, NEW w \in W, on[t] = w, pc[t] = "wait",
           inflight[w] = 0, CloseReturns(t)
    PROVE  /\ \A u \in T : pc'[u] \in {"call", "done", "wait"} =>
                 /\ u # t /\ on'[u] = on[u] /\ on[u] # w
                 /\ raw'[u] = raw[u] /\ pc'[u] = pc[u]
           /\ \A v \in W : Closers(v)' \subseteq Closers(v) /\ InMethod(v)' = InMethod(v)
<1>0. TypeOK /\ GivenBackOnce /\ InflightExact
  BY DEF WrapperInv
<1>1. InMethod(w) = {}
  BY <1>0, WaitMeansNoMethod
<1>2. \A u \in T : pc[u] = "wait" /\ on[u] = w => u = t
  BY <1>0 DEF GivenBackOnce, Closers
<1>3. \A u \in T \ {t} : pc'[u] = pc[u] /\ on'[u] = on[u] /\ raw'[u] = raw[u]
  BY <1>0 DEF CloseReturns, TypeOK
<1>4. pc'[t] = "out"
  BY <1>0 DEF CloseReturns, TypeOK
<1>5. \A u \in T : pc[u] \in {"call", "done"} => on[u] # w
  BY <1>1 DEF InMethod
<1>6. QED
  BY <1>2, <1>3, <1>4, <1>5 DEF Closers, InMethod

LEMMA WrapperGiveBack ==
    ASSUME WrapperInv, NEW t \in T, GiveBack(t) PROVE WrapperInv'
<1>0. TypeOK /\ WrapperShape /\ LeaseShape /\ MethodsUseOwnLease /\ GivenBackOnce /\ InflightExact
  BY DEF WrapperInv
<1>1. /\ pc[t] = "wait" /\ inflight[on[t]] = 0 /\ CloseReturns(t)
      /\ \/ Pool!Shelve(on[t]) \/ Pool!Retire(on[t])
         \/ \E v \in W \ {on[t]} : Pool!PassOn(on[t], v)
  BY DEF GiveBack, GiveBackDiscard, GiveBackRelease, NoneInflight
<1>2. PICK w \in W : on[t] = w
  BY <1>0, <1>1 DEF WrapperShape, TypeOK
<1>3. /\ \A u \in T : pc'[u] \in {"call", "done", "wait"} =>
            /\ u # t /\ on'[u] = on[u] /\ on[u] # w
            /\ raw'[u] = raw[u] /\ pc'[u] = pc[u]
      /\ \A v \in W : Closers(v)' \subseteq Closers(v) /\ InMethod(v)' = InMethod(v)
  BY <1>1, <1>2, CloseDetaches
<1>4. TypeOK'
  <2>1. PoolActions(w)
    BY <1>1, <1>2 DEF PoolActions
  <2>2. Pool!LeaseTypeOK'
    BY <1>0, <2>1, PoolTyped DEF TypeOK
  <2>3. QED
    BY <1>0, <1>1, <2>2 DEF CloseReturns, wrapperVars, TypeOK, Label
<1>5. InflightExact'
  <2>1. inflight' = inflight
    BY <1>1 DEF CloseReturns, wrapperVars
  <2>2. QED
    BY <1>0, <1>3, <2>1, InflightUnmoved
<1>6. GivenBackOnce'
  BY <1>0, <1>1, <1>3 DEF GivenBackOnce, CloseReturns, wrapperVars
<1>7. amqpCh[w] = None
  BY <1>0, <1>1, <1>2 DEF GivenBackOnce, Closers
<1>8. /\ UNCHANGED wrapperVars
      /\ \A v \in W \ {w} : holds'[v] = holds[v] \/ (v \in asking /\ v \notin asking')
      /\ holds'[w] = None /\ asking' \subseteq asking
      /\ LeaseShape'
  <2>1. UNCHANGED wrapperVars
    BY <1>1 DEF CloseReturns
  <2>2. CASE Pool!Shelve(w)
    BY <1>0, <2>1, <2>2, ChannelAssumption DEF Pool!Shelve, LeaseShape, TypeOK, Pool!LeaseTypeOK
  <2>3. CASE Pool!Retire(w)
    BY <1>0, <2>1, <2>3, ChannelAssumption DEF Pool!Retire, LeaseShape, TypeOK, Pool!LeaseTypeOK
  <2>4. ASSUME NEW v \in W \ {w}, Pool!PassOn(w, v)
        PROVE  /\ \A u \in W \ {w} : holds'[u] = holds[u] \/ (u \in asking /\ u \notin asking')
               /\ holds'[w] = None /\ asking' \subseteq asking
               /\ LeaseShape'
    BY <1>0, <2>1, <2>4, ChannelAssumption DEF Pool!PassOn, LeaseShape, TypeOK, Pool!LeaseTypeOK
  <2>5. QED
    BY <1>1, <1>2, <2>1, <2>2, <2>3, <2>4
<1>9. WrapperShape'
  <2>1. \A u \in T : pc'[u] # "out" => on'[u] = on[u] /\ raw'[u] = raw[u]
                                       /\ pc'[u] = pc[u] /\ doing'[u] = doing[u]
    <3>1. /\ pc' = [pc EXCEPT ![t] = "out"] /\ on' = [on EXCEPT ![t] = None]
          /\ raw' = [raw EXCEPT ![t] = None] /\ doing' = doing
      BY <1>1 DEF CloseReturns
    <3>2. QED
      BY <1>0, <3>1 DEF TypeOK
  <2>2. UNCHANGED <<wrapped, amqpCh, stateful, closing>>
    BY <1>8 DEF wrapperVars
  <2>3. \A v \in W : amqpCh'[v] # None =>
          v \in wrapped' /\ holds'[v] = amqpCh'[v] /\ ~closing'[v]
    BY <1>0, <1>7, <1>8, <2>2 DEF WrapperShape
  <2>4. \A v \in asking' : v \notin wrapped' /\ holds'[v] = None
    BY <1>0, <1>8, <2>2 DEF WrapperShape, TypeOK, Pool!LeaseTypeOK
  <2>5. /\ \A v \in W \ wrapped' : ~closing'[v]
        /\ \A v \in W : amqpCh'[v] = None => ~stateful'[v]
    BY <1>0, <2>2 DEF WrapperShape
  <2>6. /\ \A u \in T : pc'[u] # "out" => on'[u] \in wrapped' /\ raw'[u] \in Chan
        /\ \A u \in T : pc'[u] \in {"call", "done"} => doing'[u] \in Ops
    BY <1>0, <2>1, <2>2 DEF WrapperShape
  <2>7. QED
    BY <2>3, <2>4, <2>5, <2>6 DEF WrapperShape
<1>10. MethodsUseOwnLease'
  BY <1>0, <1>3, <1>8 DEF MethodsUseOwnLease, WrapperShape, TypeOK
<1>11. QED
  BY <1>4, <1>5, <1>6, <1>8, <1>9, <1>10 DEF WrapperInv

LEMMA WrapperNext == WrapperInv /\ [Next]_vars => WrapperInv'
<1> SUFFICES ASSUME WrapperInv, [Next]_vars PROVE WrapperInv'
  OBVIOUS
<1>1. CASE PoolStep
  BY <1>1, WrapperPool
<1>2. ASSUME NEW t \in T, Call(t) PROVE WrapperInv'
  BY <1>2, WrapperEnter, WrapperRaw, WrapperBeginClose DEF Call
<1>3. ASSUME NEW t \in T, MethodStep(t) PROVE WrapperInv'
  BY <1>3, WrapperMethod
<1>4. ASSUME NEW t \in T, GiveBack(t) PROVE WrapperInv'
  BY <1>4, WrapperGiveBack
<1>5. CASE UNCHANGED vars
  BY <1>5 DEF vars, poolVars, wrapperVars, callVars, WrapperInv, TypeOK, Pool!LeaseTypeOK,
              WrapperShape, LeaseShape, MethodsUseOwnLease, GivenBackOnce, Closers,
              InflightExact, InMethod
<1>6. QED
  BY <1>1, <1>2, <1>3, <1>4, <1>5 DEF Next

LEMMA WrapperAlways == Spec => []WrapperInv
BY WrapperStart, WrapperNext, PTL DEF Spec

-----------------------------------------------------------------------------
(* Every variable keeps its type. *)
THEOREM WrapperTypeCorrect == Spec => []TypeOK
<1>1. WrapperInv => TypeOK
  BY DEF WrapperInv
<1>2. QED
  BY <1>1, WrapperAlways, PTL

(* Methods of a Channel, and its Close, work on the channel the wrapper    *)
(* has on lease, never on one that was given back.                         *)
THEOREM MethodsKeepToLease == Spec => []MethodsUseOwnLease
<1>1. WrapperInv => MethodsUseOwnLease
  BY DEF WrapperInv
<1>2. QED
  BY <1>1, WrapperAlways, PTL

(* Concurrent calls of Close give the lease back once. *)
THEOREM LeaseGivenBackOnce == Spec => []GivenBackOnce
<1>1. WrapperInv => GivenBackOnce
  BY DEF WrapperInv
<1>2. QED
  BY <1>1, WrapperAlways, PTL

(* ch.inflight counts the methods under way. *)
THEOREM InflightCounts == Spec => []InflightExact
<1>1. WrapperInv => InflightExact
  BY DEF WrapperInv
<1>2. QED
  BY <1>1, WrapperAlways, PTL

(* Once a wrapper is closing, nobody raises its WaitGroup again. *)
THEOREM WaitGroupOnlyFalls == Spec => NoEntryWhileClosing
<1> DEFINE Falls == \A w \in W : closing[w] => inflight'[w] <= inflight[w]
<1>1. WrapperInv /\ [Next]_vars => [Falls]_vars
  <2> SUFFICES ASSUME WrapperInv, Next PROVE Falls
    BY DEF vars, poolVars, wrapperVars
  <2>0. inflight \in [W -> Nat]
    BY DEF WrapperInv, TypeOK
  <2>1. CASE inflight' = inflight
    BY <2>0, <2>1
  <2>2. ASSUME NEW t \in T, NEW w \in W, NEW op \in Ops, Enter(t, w, op) PROVE Falls
    <3>1. ~closing[w] /\ inflight' = [inflight EXCEPT ![w] = @ + 1]
      BY <2>2 DEF Enter, Usable
    <3>2. QED
      BY <2>0, <3>1
  <2>3. ASSUME NEW t \in T, Leave(t) PROVE Falls
    <3>1. inflight' = [inflight EXCEPT ![on[t]] = @ - 1]
      BY <2>3 DEF Leave
    <3>2. QED
      BY <2>0, <3>1
  <2>4. CASE PoolStep
    BY <2>1, <2>4 DEF PoolStep, Ask, Refused, LeaseIdle, LeaseNew, Wrap, ClosePool, DropIdle,
                      wrapperVars
  <2>5. ASSUME NEW t \in T, Perform(t) \/ UseRaw(t) \/ DropRaw(t) \/ GiveBack(t) PROVE Falls
    BY <2>1, <2>5 DEF Perform, UseRaw, DropRaw, GiveBack, GiveBackDiscard, GiveBackRelease,
                      CloseReturns, wrapperVars
  <2>6. ASSUME NEW t \in T, NEW w \in W, BeginClose(t, w) \/ RawChannel(t, w) PROVE Falls
    BY <2>1, <2>6 DEF BeginClose, RawChannel
  <2>7. QED
    BY <2>2, <2>3, <2>4, <2>5, <2>6 DEF Next, Call, MethodStep
<1>2. QED
  BY <1>1, WrapperAlways, PTL DEF Spec, NoEntryWhileClosing

-----------------------------------------------------------------------------
(* The channel RawChannel hands out: its wrapper is condemned, so its      *)
(* lease ends with a discard, and a new lease takes no object that         *)
(* somebody still refers to.                                               *)

(* Nothing a goroutine does inside a wrapper takes the mark off it. *)
LEMMA CondemnedKept ==
    ASSUME TypeOK, NEW t \in T, Call(t) \/ MethodStep(t) PROVE Condemned \subseteq Condemned'
<1> USE DEF TypeOK, Condemned, Closers, wrapperVars, callVars
<1>1. ASSUME NEW w \in W, NEW op \in Ops, Enter(t, w, op) PROVE Condemned \subseteq Condemned'
  BY <1>1 DEF Enter
<1>2. ASSUME NEW w \in W, BeginClose(t, w) PROVE Condemned \subseteq Condemned'
  <2>1. \A u \in T : pc[u] = "wait" => u # t
    BY <1>2 DEF BeginClose
  <2>2. \A u \in T \ {t} : pc'[u] = pc[u] /\ on'[u] = on[u] /\ discards'[u] = discards[u]
    BY <1>2 DEF BeginClose
  <2>3. /\ pc'[t] = "wait" /\ on'[t] = w /\ discards'[t] = stateful[w]
        /\ \A v \in W \ {w} : stateful'[v] = stateful[v]
    BY <1>2 DEF BeginClose
  <2>4. QED
    BY <2>1, <2>2, <2>3
<1>3. ASSUME NEW w \in W, RawChannel(t, w) PROVE Condemned \subseteq Condemned'
  BY <1>3 DEF RawChannel
<1>4. CASE UseRaw(t)
  BY <1>4 DEF UseRaw
<1>5. CASE DropRaw(t)
  BY <1>5 DEF DropRaw
<1>6. CASE Perform(t)
  BY <1>6 DEF Perform
<1>7. CASE Leave(t)
  BY <1>7 DEF Leave
<1>8. QED
  BY <1>1, <1>2, <1>3, <1>4, <1>5, <1>6, <1>7 DEF Call, MethodStep

LEMMA CondemnedPool ==
    ASSUME PoolStep PROVE UNCHANGED callVars /\ stateful' = stateful /\ Condemned' = Condemned
BY DEF PoolStep, Ask, Refused, LeaseIdle, LeaseNew, Wrap, ClosePool, DropIdle,
       wrapperVars, callVars, Condemned, Closers

LEMMA RawPool == ASSUME WrapperInv, RawIsPrivate, PoolStep PROVE RawIsPrivate'
<1> USE DEF poolVars, wrapperVars, callVars
<1>0. TypeOK /\ WrapperShape
  BY DEF WrapperInv
<1>1. UNCHANGED callVars /\ Condemned' = Condemned
  BY CondemnedPool
<1>2. shelf' \subseteq shelf
  BY DEF PoolStep, Ask, Refused, LeaseIdle, LeaseNew, Wrap, ClosePool, DropIdle, Pool!Admit,
         Pool!Refuse, Pool!LendFromShelf, Pool!LendNew, Pool!ClosePool, Pool!DropItem
<1>3. ASSUME NEW t \in T, pc[t] = "raw", NEW w \in W, holds'[w] = raw[t]
      PROVE  holds[w] = raw[t]
  <2>1. raw[t] \notin shelf /\ raw[t] # None
    BY <1>0, <1>3, ChannelAssumption DEF RawIsPrivate, WrapperShape
  <2>2. ASSUME NEW v \in W, LeaseIdle(v) PROVE holds[w] = raw[t]
    BY <1>0, <1>3, <2>1, <2>2 DEF LeaseIdle, Pool!LendFromShelf, TypeOK, Pool!LeaseTypeOK
  <2>3. ASSUME NEW v \in W, LeaseNew(v) PROVE holds[w] = raw[t]
    BY <1>0, <1>3, <2>3 DEF LeaseNew, Pool!LendNew, TypeOK, Pool!LeaseTypeOK
  <2>4. CASE holds' = holds
    BY <1>3, <2>4
  <2>5. QED
    BY <2>2, <2>3, <2>4 DEF PoolStep, Ask, Refused, Wrap, ClosePool, DropIdle, Pool!Admit,
                            Pool!Refuse, Pool!ClosePool, Pool!DropItem
<1>4. \A t \in T : pc[t] = "raw" => on[t] \in W
  BY <1>0 DEF WrapperShape, TypeOK
<1>5. QED
  BY <1>1, <1>2, <1>3, <1>4 DEF RawIsPrivate

LEMMA RawCall ==
    ASSUME WrapperInv, RawIsPrivate, NEW t \in T, Call(t) \/ MethodStep(t) PROVE RawIsPrivate'
<1> USE DEF poolVars, wrapperVars, callVars
<1>0. TypeOK /\ WrapperShape /\ LeaseShape
  BY DEF WrapperInv
<1>1. Condemned \subseteq Condemned' /\ UNCHANGED <<holds, shelf>>
  BY <1>0, CondemnedKept
     DEF Call, MethodStep, Enter, BeginClose, RawChannel, UseRaw, DropRaw, Perform, Leave
<1>2. CASE \A u \in T : pc'[u] = "raw" => pc[u] = "raw" /\ on'[u] = on[u] /\ raw'[u] = raw[u]
  BY <1>1, <1>2 DEF RawIsPrivate
<1>3. ASSUME NEW w \in W, RawChannel(t, w) PROVE RawIsPrivate'
  <2>1. /\ on'[t] = w /\ raw'[t] = holds[w] /\ holds[w] # None /\ stateful'[w]
        /\ \A u \in T \ {t} : pc'[u] = pc[u] /\ on'[u] = on[u] /\ raw'[u] = raw[u]
    BY <1>0, <1>3 DEF RawChannel, TypeOK, WrapperShape
  <2>2. w \in Condemned'
    BY <2>1 DEF Condemned
  <2>3. (\A v \in W \ {w} : holds[v] # raw'[t]) /\ raw'[t] \notin shelf
    BY <1>0, <2>1 DEF LeaseShape
  <2>4. QED
    BY <1>1, <2>1, <2>2, <2>3 DEF RawIsPrivate
<1>4. ASSUME NEW w \in W, BeginClose(t, w) \/ \E op \in Ops : Enter(t, w, op) PROVE RawIsPrivate'
  BY <1>0, <1>2, <1>4 DEF BeginClose, Enter, TypeOK
<1>5. CASE UseRaw(t) \/ DropRaw(t) \/ MethodStep(t)
  BY <1>0, <1>2, <1>5 DEF UseRaw, DropRaw, MethodStep, Perform, Leave, TypeOK
<1>6. QED
  BY <1>3, <1>4, <1>5 DEF Call

(* What giving back does: t leaves the wrapper, whose lease goes to the    *)
(* shelf or to another wrapper only if it is not condemned.                *)
LEMMA GiveBackFacts ==
    ASSUME WrapperInv, NEW t \in T, GiveBack(t), NEW w \in wrapped, on[t] = w
    PROVE  /\ CloseReturns(t) /\ traits' = traits /\ wrapped' = wrapped
           /\ pc'[t] = "out"
           /\ \A u \in T \ {t} : pc'[u] = pc[u] /\ on'[u] = on[u] /\ doing'[u] = doing[u]
                                 /\ raw'[u] = raw[u] /\ discards'[u] = discards[u]
           /\ \A v \in Condemned : v # w => v \in Condemned'
           /\ holds'[w] = None
           /\ \A v \in W \ {w} : \/ holds'[v] = holds[v]
                                 \/ v \notin wrapped /\ holds'[v] = holds[w] /\ w \notin Condemned
           /\ \A c \in shelf' : c \in shelf \/ (c = holds[w] /\ w \notin Condemned)
<1>0. TypeOK /\ WrapperShape /\ GivenBackOnce
  BY DEF WrapperInv
<1>1. on[t] = w /\ pc[t] = "wait" /\ w \in wrapped /\ w \in W
  BY <1>0 DEF GiveBack, GiveBackDiscard, GiveBackRelease, NoneInflight, TypeOK
<1>2. CloseReturns(t) /\ traits' = traits /\ wrapped' = wrapped /\ stateful' = stateful
  BY DEF GiveBack, GiveBackDiscard, GiveBackRelease, CloseReturns, wrapperVars
<1>3. /\ pc' = [pc EXCEPT ![t] = "out"] /\ on' = [on EXCEPT ![t] = None]
      /\ raw' = [raw EXCEPT ![t] = None] /\ discards' = [discards EXCEPT ![t] = FALSE]
      /\ doing' = doing
  BY <1>2 DEF CloseReturns
<1>4. /\ pc'[t] = "out"
      /\ \A u \in T \ {t} : pc'[u] = pc[u] /\ on'[u] = on[u] /\ doing'[u] = doing[u]
                            /\ raw'[u] = raw[u] /\ discards'[u] = discards[u]
  BY <1>0, <1>3 DEF TypeOK
<1>5. \A v \in Condemned : v # w => v \in Condemned'
  BY <1>0, <1>1, <1>2, <1>4 DEF Condemned, Closers, TypeOK
<1>6. ~discards[t] => w \notin Condemned
  <2>1. ~stateful[w] /\ \A u \in Closers(w) : u = t
    BY <1>0, <1>1 DEF GivenBackOnce, Closers, WrapperShape
  <2>2. QED
    BY <2>1 DEF Condemned
<1>7. /\ holds'[w] = None
      /\ \A v \in W \ {w} : \/ holds'[v] = holds[v]
                            \/ v \notin wrapped /\ holds'[v] = holds[w] /\ w \notin Condemned
      /\ \A c \in shelf' : c \in shelf \/ (c = holds[w] /\ w \notin Condemned)
  <2> USE DEF TypeOK, Pool!LeaseTypeOK
  <2>1. CASE Pool!Retire(w)
    BY <1>0, <2>1 DEF Pool!Retire
  <2>2. CASE ~discards[t] /\ Pool!Shelve(w)
    BY <1>0, <1>6, <2>2 DEF Pool!Shelve
  <2>3. ASSUME ~discards[t], NEW v \in W \ {w}, Pool!PassOn(w, v)
        PROVE  /\ holds'[w] = None
               /\ \A u \in W \ {w} : \/ holds'[u] = holds[u]
                                     \/ u \notin wrapped /\ holds'[u] = holds[w] /\ w \notin Condemned
               /\ \A c \in shelf' : c \in shelf
    BY <1>0, <1>6, <2>3 DEF Pool!PassOn, WrapperShape
  <2>4. QED
    BY <1>1, <2>1, <2>2, <2>3 DEF GiveBack, GiveBackDiscard, GiveBackRelease
<1>8. QED
  BY <1>2, <1>4, <1>5, <1>7

LEMMA RawGiveBack ==
    ASSUME WrapperInv, RawIsPrivate, NEW t \in T, GiveBack(t) PROVE RawIsPrivate'
<1>0. TypeOK /\ WrapperShape
  BY DEF WrapperInv
<1>1. PICK w \in wrapped : on[t] = w
  BY <1>0 DEF GiveBack, GiveBackDiscard, GiveBackRelease, NoneInflight, WrapperShape
<1>2. /\ pc'[t] = "out"
      /\ \A u \in T \ {t} : pc'[u] = pc[u] /\ on'[u] = on[u] /\ raw'[u] = raw[u]
      /\ \A v \in Condemned : v # w => v \in Condemned'
      /\ holds'[w] = None
      /\ \A v \in W \ {w} : \/ holds'[v] = holds[v]
                            \/ v \notin wrapped /\ holds'[v] = holds[w] /\ w \notin Condemned
      /\ \A c \in shelf' : c \in shelf \/ (c = holds[w] /\ w \notin Condemned)
  BY <1>1, GiveBackFacts
<1>3. ASSUME NEW u \in T, pc'[u] = "raw"
      PROVE  /\ holds'[on'[u]] = raw'[u] => on'[u] \in Condemned'
             /\ \A v \in W \ {on'[u]} : holds'[v] # raw'[u]
             /\ raw'[u] \notin shelf'
  <2>1. PICK b \in wrapped : /\ on[u] = b /\ on'[u] = b /\ raw'[u] = raw[u] /\ pc[u] = "raw"
                             /\ raw[u] \in Chan
    BY <1>0, <1>2, <1>3 DEF WrapperShape
  <2>2. /\ holds[b] = raw[u] => b \in Condemned
        /\ \A v \in W \ {b} : holds[v] # raw[u]
        /\ raw[u] \notin shelf
    BY <1>0, <2>1 DEF RawIsPrivate
  <2>3. w \notin Condemned => holds[w] # raw[u]
    BY <1>0, <2>2 DEF TypeOK
  <2>4. b \in W /\ raw[u] # None
    BY <1>0, <2>1, ChannelAssumption DEF TypeOK
  <2>5. holds'[b] = raw[u] => b \in Condemned'
    BY <1>2, <2>1, <2>2, <2>4
  <2>6. \A v \in W \ {b} : holds'[v] # raw[u]
    BY <1>2, <2>2, <2>3, <2>4
  <2>7. raw[u] \notin shelf'
    BY <1>2, <2>2, <2>3
  <2>8. QED
    BY <2>1, <2>5, <2>6, <2>7
<1>4. QED
  BY <1>3 DEF RawIsPrivate

LEMMA RawNext == WrapperInv /\ RawIsPrivate /\ [Next]_vars => RawIsPrivate'
<1> SUFFICES ASSUME WrapperInv, RawIsPrivate, [Next]_vars PROVE RawIsPrivate'
  OBVIOUS
<1>1. CASE UNCHANGED vars
  BY <1>1 DEF vars, poolVars, wrapperVars, callVars, RawIsPrivate, Condemned, Closers
<1>2. QED
  BY <1>1, RawPool, RawCall, RawGiveBack DEF Next

LEMMA RawAlways == Spec => []RawIsPrivate
<1>1. Init => RawIsPrivate
  BY DEF Init, RawIsPrivate
<1>2. QED
  BY <1>1, RawNext, WrapperAlways, PTL DEF Spec

(* Whoever uses the AMQP channel RawChannel returned shares it with no     *)
(* other borrower, however long after Close it goes on, and whatever       *)
(* methods the others call.                                                *)
THEOREM RawUsersAreAlone == Spec => []RawIsPrivate
BY RawAlways, PTL

-----------------------------------------------------------------------------
(* No state of one borrower reaches the next.  Get without automatic       *)
(* acknowledgement has to be left out: it is not marked (ChannelGetLeak).  *)
(* A channel that carries state is known to be discarded by its wrapper:   *)
(* TraceInv says so of whatever a goroutine may still do to it.            *)
TraceInv == WrapperInv /\ RawIsPrivate /\ TraceMarked /\ CleanLease

LEMMA MarkingOps ==
    ASSUME "Get" \notin Ops, NEW op \in Ops, Adds(op) # {} PROVE MarksStateful(op)
BY ChannelAssumption DEF Adds, Leaves, MarksStateful, StatefulOps, StatelessOps,
                          PlainOps, ModeOps, AckOps, NotifyOps

LEMMA TracePool ==
    ASSUME TraceInv, PoolStep PROVE TraceMarked' /\ CleanLease'
<1> USE DEF poolVars, wrapperVars, callVars
<1>0. TypeOK /\ WrapperShape /\ LeaseShape /\ TraceMarked /\ CleanLease
  BY DEF TraceInv, WrapperInv
<1>1. UNCHANGED callVars /\ stateful' = stateful
  BY CondemnedPool
<1>2. Condemned' = Condemned
  BY CondemnedPool
<1>3. ASSUME NEW w \in W, Ask(w) \/ Refused(w) PROVE TraceMarked' /\ CleanLease'
  BY <1>0, <1>1, <1>2, <1>3 DEF Ask, Refused, Pool!Admit, Pool!Refuse, TraceMarked, CleanLease
<1>4. CASE ClosePool \/ DropIdle
  BY <1>0, <1>1, <1>2, <1>4 DEF ClosePool, DropIdle, Pool!ClosePool, Pool!DropItem,
                                TraceMarked, CleanLease
<1>5. ASSUME NEW w \in W, Wrap(w) PROVE TraceMarked' /\ CleanLease'
  BY <1>0, <1>1, <1>2, <1>5 DEF Wrap, TraceMarked, CleanLease, TypeOK
<1>6. ASSUME NEW w \in W, LeaseIdle(w) \/ LeaseNew(w) PROVE TraceMarked' /\ CleanLease'
  <2>1. PICK c \in Chan : /\ holds' = [holds EXCEPT ![w] = c]
                          /\ \A v \in W : holds[v] # c
                          /\ c \notin shelf' /\ shelf' \subseteq shelf
                          /\ traits' = [traits EXCEPT ![c] = {}]
    <3>1. CASE LeaseIdle(w)
      <4>1. PICK c \in shelf : holds' = [holds EXCEPT ![w] = c] /\ shelf' = shelf \ {c}
        BY <3>1 DEF LeaseIdle, Pool!LendFromShelf
      <4>2. traits[c] = {} /\ traits' = traits /\ c \in Chan
        BY <1>0, <3>1 DEF LeaseIdle, CleanLease, TypeOK, Pool!LeaseTypeOK
      <4>3. traits' = [traits EXCEPT ![c] = {}]
        BY <1>0, <4>2 DEF TypeOK
      <4>4. QED
        BY <1>0, <4>1, <4>2, <4>3 DEF LeaseShape
    <3>2. CASE LeaseNew(w)
      <4>1. PICK c \in Chan \ (Pool!Lent \cup shelf) : holds' = [holds EXCEPT ![w] = c]
        BY <3>2 DEF LeaseNew, Pool!LendNew
      <4>2. holds'[w] = c /\ shelf' = shelf
        BY <1>0, <3>2, <4>1 DEF LeaseNew, Pool!LendNew, TypeOK, Pool!LeaseTypeOK
      <4>3. \A v \in W : holds[v] # c
        BY <4>1, ChannelAssumption DEF Pool!Lent
      <4>4. QED
        BY <3>2, <4>1, <4>2, <4>3 DEF LeaseNew
    <3>3. QED
      BY <1>6, <3>1, <3>2
  <2>2. w \in asking /\ wrapped' = wrapped /\ w \notin wrapped
    BY <1>0, <1>6 DEF LeaseIdle, LeaseNew, Pool!LendFromShelf, Pool!LendNew, WrapperShape
  <2>3. CleanLease'
    BY <1>0, <2>1, <2>2 DEF CleanLease, TypeOK, Pool!LeaseTypeOK
  <2>4. TraceMarked'
    <3>1. \A v \in wrapped' : holds'[v] = holds[v] /\ (holds[v] # None => traits'[holds[v]] = traits[holds[v]])
      BY <1>0, <2>1, <2>2 DEF TypeOK, Pool!LeaseTypeOK
    <3>2. \A v \in wrapped' : holds'[v] # None /\ traits'[holds'[v]] # {} => v \in Condemned'
      BY <1>0, <1>2, <2>2, <3>1 DEF TraceMarked, TypeOK
    <3>3. \A t \in T : pc'[t] = "call" /\ Adds(doing'[t]) # {} => on'[t] \in Condemned'
      BY <1>0, <1>1, <1>2 DEF TraceMarked
    <3>4. QED
      BY <3>2, <3>3 DEF TraceMarked
  <2>5. QED
    BY <2>3, <2>4
<1>7. QED
  BY <1>3, <1>4, <1>5, <1>6 DEF PoolStep

LEMMA TraceCall ==
    ASSUME "Get" \notin Ops, TraceInv, NEW t \in T, Call(t) \/ MethodStep(t)
    PROVE  TraceMarked' /\ CleanLease'
<1> USE DEF poolVars, wrapperVars, callVars
<1>0. /\ TypeOK /\ WrapperShape /\ LeaseShape /\ MethodsUseOwnLease
      /\ RawIsPrivate /\ TraceMarked /\ CleanLease
  BY DEF TraceInv, WrapperInv
<1>1. Condemned \subseteq Condemned'
  BY <1>0, CondemnedKept
<1>2. UNCHANGED <<holds, shelf, wrapped>>
  BY DEF Call, MethodStep, Enter, BeginClose, RawChannel, UseRaw, DropRaw, Perform, Leave
<1>3. ASSUME NEW w \in W, NEW op \in Ops, Enter(t, w, op) PROVE TraceMarked' /\ CleanLease'
  <2>1. Adds(op) # {} => w \in Condemned'
    <3>1. Adds(op) # {} => stateful'[w]
      BY <1>0, <1>3, MarkingOps DEF Enter, TypeOK
    <3>2. QED
      BY <3>1 DEF Condemned
  <2>2. /\ traits' = traits /\ pc'[t] = "call" /\ on'[t] = w /\ doing'[t] = op
        /\ \A u \in T \ {t} : pc'[u] = pc[u] /\ on'[u] = on[u] /\ doing'[u] = doing[u]
                              /\ raw'[u] = raw[u]
    BY <1>0, <1>3 DEF Enter, TypeOK
  <2>3. QED
    BY <1>0, <1>1, <1>2, <2>1, <2>2 DEF TraceMarked, CleanLease
<1>4. ASSUME NEW w \in W, BeginClose(t, w) PROVE TraceMarked' /\ CleanLease'
  <2>1. /\ traits' = traits /\ pc'[t] = "wait"
        /\ \A u \in T \ {t} : pc'[u] = pc[u] /\ on'[u] = on[u] /\ doing'[u] = doing[u]
                              /\ raw'[u] = raw[u]
    BY <1>0, <1>4 DEF BeginClose, TypeOK
  <2>2. QED
    BY <1>0, <1>1, <1>2, <2>1 DEF TraceMarked, CleanLease
<1>5. ASSUME NEW w \in W, RawChannel(t, w) PROVE TraceMarked' /\ CleanLease'
  <2>1. /\ traits' = traits /\ pc'[t] = "raw"
        /\ \A u \in T \ {t} : pc'[u] = pc[u] /\ on'[u] = on[u] /\ doing'[u] = doing[u]
    BY <1>0, <1>5 DEF RawChannel, TypeOK
  <2>2. QED
    BY <1>0, <1>1, <1>2, <2>1 DEF TraceMarked, CleanLease
<1>6. CASE UseRaw(t)
  <2>1. /\ \A c \in Chan \ {raw[t]} : traits'[c] = traits[c]
        /\ UNCHANGED <<pc, on, doing, raw>>
        /\ on[t] \in wrapped /\ raw[t] \in Chan /\ raw[t] \notin shelf
    BY <1>0, <1>6 DEF UseRaw, TypeOK, RawIsPrivate, WrapperShape
  <2>2. \A w \in W : holds[w] = raw[t] => w = on[t] /\ w \in Condemned
    BY <1>0, <1>6 DEF UseRaw, RawIsPrivate
  <2>3. CleanLease'
    BY <1>0, <1>2, <2>1, <2>2 DEF CleanLease, TypeOK, Pool!LeaseTypeOK
  <2>4. TraceMarked'
    BY <1>0, <1>1, <1>2, <2>1, <2>2 DEF TraceMarked, TypeOK, Pool!LeaseTypeOK
  <2>5. QED
    BY <2>3, <2>4
<1>7. CASE DropRaw(t)
  <2>1. /\ traits' = traits /\ pc'[t] = "out"
        /\ \A u \in T \ {t} : pc'[u] = pc[u] /\ on'[u] = on[u] /\ doing'[u] = doing[u]
                              /\ raw'[u] = raw[u]
    BY <1>0, <1>7 DEF DropRaw, TypeOK
  <2>2. QED
    BY <1>0, <1>1, <1>2, <2>1 DEF TraceMarked, CleanLease
<1>8. CASE Perform(t)
  <2>1. /\ pc'[t] = "done" /\ UNCHANGED <<on, doing, raw>>
        /\ \A u \in T \ {t} : pc'[u] = pc[u]
        /\ \A c \in Chan \ {raw[t]} : traits'[c] = traits[c]
        /\ traits'[raw[t]] \subseteq traits[raw[t]] \cup Adds(doing[t])
        /\ raw[t] \in Chan /\ holds[on[t]] = raw[t] /\ on[t] \in wrapped
    <3>1. raw[t] \in Chan /\ holds[on[t]] = raw[t] /\ on[t] \in wrapped
      BY <1>0, <1>8 DEF Perform, MethodsUseOwnLease, WrapperShape
    <3>2. \/ traits' = [traits EXCEPT ![raw[t]] = (@ \cup Adds(doing[t])) \ Removes(doing[t])]
          \/ traits' = traits
      BY <1>8 DEF Perform
    <3>3. /\ \A c \in Chan \ {raw[t]} : traits'[c] = traits[c]
          /\ traits'[raw[t]] \subseteq traits[raw[t]] \cup Adds(doing[t])
      BY <1>0, <3>1, <3>2 DEF TypeOK
    <3>4. QED
      BY <1>0, <1>8, <3>1, <3>3 DEF Perform, TypeOK
  <2>2. traits'[raw[t]] # {} => on[t] \in Condemned
    <3>1. traits[raw[t]] # {} => on[t] \in Condemned
      BY <1>0, <2>1, ChannelAssumption DEF TraceMarked
    <3>2. Adds(doing[t]) # {} => on[t] \in Condemned
      BY <1>0, <1>8 DEF TraceMarked, Perform
    <3>3. QED
      BY <2>1, <3>1, <3>2
  <2>3. /\ \A w \in W : holds[w] = raw[t] => w = on[t]
        /\ raw[t] \notin shelf
    BY <1>0, <2>1, ChannelAssumption DEF LeaseShape, TypeOK
  <2>4. CleanLease'
    BY <1>0, <1>2, <2>1, <2>3 DEF CleanLease, TypeOK, Pool!LeaseTypeOK
  <2>5. TraceMarked'
    <3>1. \A w \in wrapped' : holds'[w] # None /\ traits'[holds'[w]] # {} => w \in Condemned'
      <4>1. ASSUME NEW w \in wrapped, holds[w] # None, traits'[holds[w]] # {}
            PROVE  w \in Condemned
        <5>1. w \in W /\ holds[w] \in Chan
          BY <1>0, <4>1 DEF TypeOK, Pool!LeaseTypeOK
        <5>2. CASE holds[w] = raw[t]
          BY <2>2, <2>3, <4>1, <5>1, <5>2
        <5>3. CASE holds[w] # raw[t]
          BY <1>0, <2>1, <4>1, <5>1, <5>3 DEF TraceMarked
        <5>4. QED
          BY <5>2, <5>3
      <4>2. QED
        BY <1>1, <1>2, <4>1
    <3>2. \A u \in T : pc'[u] \in {"call", "raw"} => u # t /\ pc'[u] = pc[u]
      BY <2>1
    <3>3. QED
      BY <1>0, <1>1, <1>2, <2>1, <3>1, <3>2 DEF TraceMarked
  <2>6. QED
    BY <2>4, <2>5
<1>9. CASE Leave(t)
  <2>1. /\ traits' = traits /\ pc'[t] = "out"
        /\ \A u \in T \ {t} : pc'[u] = pc[u] /\ on'[u] = on[u] /\ doing'[u] = doing[u]
                              /\ raw'[u] = raw[u]
    BY <1>0, <1>9 DEF Leave, TypeOK
  <2>2. QED
    BY <1>0, <1>1, <1>2, <2>1 DEF TraceMarked, CleanLease
<1>10. QED
  BY <1>3, <1>4, <1>5, <1>6, <1>7, <1>8, <1>9 DEF Call, MethodStep

LEMMA TraceGiveBack ==
    ASSUME TraceInv, NEW t \in T, GiveBack(t) PROVE TraceMarked' /\ CleanLease'
<1>0. TypeOK /\ WrapperShape /\ TraceMarked /\ CleanLease /\ WrapperInv
  BY DEF TraceInv, WrapperInv
<1>1. PICK w \in W : on[t] = w /\ pc[t] = "wait" /\ w \in wrapped
  BY <1>0 DEF GiveBack, GiveBackDiscard, GiveBackRelease, NoneInflight, WrapperShape, TypeOK
<1>2. /\ CloseReturns(t) /\ traits' = traits /\ wrapped' = wrapped
      /\ pc'[t] = "out"
      /\ \A u \in T \ {t} : pc'[u] = pc[u] /\ on'[u] = on[u] /\ doing'[u] = doing[u]
                            /\ raw'[u] = raw[u] /\ discards'[u] = discards[u]
      /\ \A v \in Condemned : v # w => v \in Condemned'
      /\ holds'[w] = None
      /\ \A v \in W \ {w} : \/ holds'[v] = holds[v]
                            \/ v \notin wrapped /\ holds'[v] = holds[w] /\ w \notin Condemned
      /\ \A c \in shelf' : c \in shelf \/ (c = holds[w] /\ w \notin Condemned)
  BY <1>0, <1>1, GiveBackFacts
<1>3. w \notin Condemned => holds[w] = None \/ traits[holds[w]] = {}
  BY <1>0, <1>1 DEF TraceMarked
<1>4. CleanLease'
  <2>1. holds[w] # None
    BY <1>0, <1>1 DEF WrapperInv, MethodsUseOwnLease
  <2>2. QED
    BY <1>0, <1>1, <1>2, <1>3, <2>1 DEF CleanLease
<1>5. \A v \in wrapped' : holds'[v] # None /\ traits'[holds'[v]] # {} => v \in Condemned'
  BY <1>0, <1>1, <1>2 DEF TraceMarked, TypeOK
<1>6. \A u \in T : pc'[u] = "call" /\ Adds(doing'[u]) # {} => on'[u] \in Condemned'
  <2>1. inflight[w] = 0
    BY <1>1 DEF GiveBack, GiveBackDiscard, GiveBackRelease, NoneInflight
  <2>2. \A u \in T : pc'[u] = "call" => on[u] # w
    BY <1>0, <1>1, <1>2, <2>1, CloseDetaches
  <2>3. QED
    BY <1>0, <1>2, <2>2 DEF TraceMarked
<1>7. QED
  BY <1>4, <1>5, <1>6 DEF TraceMarked

LEMMA TraceNext ==
    ASSUME "Get" \notin Ops PROVE TraceInv /\ [Next]_vars => TraceInv'
<1> SUFFICES ASSUME TraceInv, [Next]_vars PROVE TraceInv'
  OBVIOUS
<1>1. WrapperInv' /\ RawIsPrivate'
  BY WrapperNext, RawNext DEF TraceInv
<1>2. CASE PoolStep
  BY <1>1, <1>2, TracePool DEF TraceInv
<1>3. ASSUME NEW t \in T, Call(t) \/ MethodStep(t) PROVE TraceInv'
  BY <1>1, <1>3, TraceCall DEF TraceInv
<1>4. ASSUME NEW t \in T, GiveBack(t) PROVE TraceInv'
  BY <1>1, <1>4, TraceGiveBack DEF TraceInv
<1>5. CASE UNCHANGED vars
  BY <1>1, <1>5 DEF vars, poolVars, wrapperVars, callVars, TraceInv, TraceMarked, CleanLease,
                    Condemned, Closers
<1>6. QED
  BY <1>2, <1>3, <1>4, <1>5 DEF Next

(* A channel that is idle, or lent and not used yet, carries no state of   *)
(* an earlier borrower, as long as nobody uses Get without autoAck.        *)
THEOREM BorrowersAreIsolated ==
    ASSUME "Get" \notin Ops PROVE Spec => []CleanLease
<1>1. Init => TraceInv
  <2> SUFFICES ASSUME Init PROVE TraceInv
    OBVIOUS
  <2>1. TraceMarked /\ CleanLease /\ RawIsPrivate
    BY DEF Init, Pool!LeaseInit, TraceMarked, CleanLease, RawIsPrivate
  <2>2. QED
    BY <2>1, WrapperStart DEF TraceInv
<1>2. TraceInv /\ [Next]_vars => TraceInv'
  BY TraceNext
<1>3. TraceInv => CleanLease
  BY DEF TraceInv
<1>4. QED
  BY <1>1, <1>2, <1>3, PTL DEF Spec

-----------------------------------------------------------------------------
(* The wrappers use the pool as it wants to be used, so what it guarantees *)
(* holds of them. *)

Lending == INSTANCE LeasePoolProofs WITH Client <- W, Item <- Chan, NoItem <- None

LEMMA LendingActions ==
    ASSUME NEW w \in W
    PROVE  /\ Pool!Admit(w) => Lending!Admit(w)
           /\ Pool!Refuse(w) => Lending!Refuse(w)
           /\ Pool!LendFromShelf(w) => Lending!LendFromShelf(w)
           /\ Pool!LendNew(w) => Lending!LendNew(w)
           /\ Pool!Shelve(w) => Lending!Shelve(w)
           /\ Pool!Retire(w) => Lending!Retire(w)
           /\ \A v \in W : Pool!PassOn(w, v) => Lending!PassOn(w, v)
<1>1. ASSUME NEW S PROVE Pool!Cardinality(S) = Lending!Cardinality(S)
  BY Zenon DEF Pool!Cardinality, Lending!Cardinality
<1>2. Pool!LendNew(w) => Lending!LendNew(w)
  BY <1>1 DEF Pool!LendNew, Lending!LendNew, Pool!Lent, Lending!Lent
<1>3. QED
  BY <1>2 DEF Pool!Admit, Lending!Admit, Pool!Refuse, Lending!Refuse,
     Pool!LendFromShelf, Lending!LendFromShelf, Pool!Shelve, Lending!Shelve,
     Pool!Retire, Lending!Retire, Pool!PassOn, Lending!PassOn

LEMMA LendingNext == WrapperInv /\ [Next]_vars => [Lending!LeaseNext]_poolVars
<1> SUFFICES ASSUME WrapperInv, [Next]_vars PROVE [Lending!LeaseNext]_poolVars
  OBVIOUS
<1>1. ASSUME NEW w \in W, PoolActions(w) PROVE Lending!LeaseNext
  BY <1>1, LendingActions DEF PoolActions, Lending!LeaseNext
<1>2. CASE PoolStep
  <2>1. \/ \E w \in W : PoolActions(w)
        \/ Pool!ClosePool \/ Pool!DropItem \/ UNCHANGED poolVars
    BY <1>2 DEF PoolStep, Ask, Refused, LeaseIdle, LeaseNew, Wrap, ClosePool, DropIdle, PoolActions
  <2>2. QED
    BY <1>1, <2>1 DEF Pool!ClosePool, Pool!DropItem, Lending!ClosePool, Lending!DropItem,
                      Lending!LeaseNext
<1>3. ASSUME NEW t \in T, GiveBack(t) PROVE Lending!LeaseNext
  <2>1. on[t] \in W
    BY <1>3 DEF GiveBack, GiveBackDiscard, GiveBackRelease, NoneInflight,
                WrapperInv, WrapperShape, TypeOK
  <2>2. PoolActions(on[t])
    BY <1>3 DEF GiveBack, GiveBackDiscard, GiveBackRelease, PoolActions
  <2>3. QED
    BY <1>1, <2>1, <2>2
<1>4. ASSUME NEW t \in T, Call(t) \/ MethodStep(t) PROVE UNCHANGED poolVars
  BY <1>4 DEF Call, MethodStep, Enter, Perform, Leave, RawChannel, UseRaw, DropRaw, BeginClose
<1>5. QED
  BY <1>2, <1>3, <1>4 DEF Next, vars

LEMMA LendingAlways == Spec => [](WrapperInv /\ Lending!LeasePromises)
<1>1. None \notin Chan /\ Limit \in Nat
  BY ChannelAssumption
<1>2. Lending!LeaseSpec => []Lending!LeasePromises
  BY <1>1, Lending!LeaseGuarantees
<1>3. Init => Lending!LeaseInit
  BY DEF Init, Pool!LeaseInit, Lending!LeaseInit
<1>4. Spec => Lending!LeaseSpec
  BY <1>3, LendingNext, WrapperAlways, PTL
     DEF Spec, Lending!LeaseSpec, Lending!leaseVars, poolVars
<1>5. QED
  BY <1>2, <1>4, WrapperAlways, PTL

(* At most Limit leases are out at any time, the idle channels counted in: *)
(* those of wrappers in use, of wrappers that wait in Close for their      *)
(* methods, and of wrappers AcquireChannel is about to make.               *)
LeasesWithinLimit ==
    Cardinality({w \in W : holds[w] # None}) + Cardinality(shelf) <= Limit

THEOREM LeasesAreLimited == Spec => []LeasesWithinLimit
<1>1. WrapperInv /\ Lending!LeasePromises => LeasesWithinLimit
  <2> SUFFICES ASSUME WrapperInv, Lending!LeasePromises PROVE LeasesWithinLimit
    OBVIOUS
  <2> DEFINE Owners == {w \in W : holds[w] # None}
             Out == {holds[w] : w \in Owners}
             f == [w \in Owners |-> holds[w]]
  <2>1. LeaseShape /\ holds \in [W -> Chan \cup {None}] /\ shelf \subseteq Chan
    BY DEF WrapperInv, TypeOK, Pool!LeaseTypeOK
  <2>2. IsFiniteSet(Owners)
    BY ChannelAssumption, FS_Subset
  <2>3. f \in Surjection(Owners, Out) /\ f \in Injection(Owners, Out)
    <3>1. f \in [Owners -> Out] /\ \A c \in Out : \E w \in Owners : f[w] = c
      OBVIOUS
    <3>2. \A w, v \in Owners : f[w] = f[v] => w = v
      BY <2>1 DEF LeaseShape
    <3>3. QED
      BY <3>1, <3>2, Zenon DEF Surjection, Injection, IsInjective
  <2>4. IsFiniteSet(Out) /\ Cardinality(Out) = Cardinality(Owners)
    BY <2>2, <2>3, FS_Surjection
  <2>5. Out \cap shelf = {} /\ Out \cup shelf = Lending!Items
    BY <2>1 DEF LeaseShape, Lending!Items, Lending!Lent
  <2>6. IsFiniteSet(Out \cup shelf) /\ Cardinality(Out \cup shelf) <= Limit
    <3>1. ASSUME NEW S PROVE Lending!Cardinality(S) = Cardinality(S)
      BY Zenon DEF Lending!Cardinality, Cardinality
    <3>2. ASSUME NEW S PROVE Lending!IsFiniteSet(S) = IsFiniteSet(S)
      BY Zenon DEF Lending!IsFiniteSet, IsFiniteSet
    <3>3. QED
      BY <2>5, <3>1, <3>2 DEF Lending!LeasePromises, Lending!WithinLimit
  <2>7. IsFiniteSet(shelf)
    BY <2>6, FS_Subset
  <2>8. Cardinality(Out \cup shelf) = Cardinality(Out) + Cardinality(shelf)
    <3>1. Cardinality(Out \cup shelf)
            = Cardinality(Out) + Cardinality(shelf) - Cardinality(Out \cap shelf)
      BY <2>4, <2>7, FS_Union
    <3>2. Cardinality(Out \cap shelf) = 0
      BY <2>5, FS_EmptySet
    <3>3. Cardinality(Out) \in Nat /\ Cardinality(shelf) \in Nat
      BY <2>4, <2>7, FS_CardinalityType
    <3>4. QED
      BY <3>1, <3>2, <3>3
  <2>9. QED
    BY <2>4, <2>6, <2>8 DEF LeasesWithinLimit
<1>2. QED
  BY <1>1, LendingAlways, PTL
=============================================================================
