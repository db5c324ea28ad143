-------------------------- MODULE ChannelPoolProofs --------------------------
(***************************************************************************)
(* Theorems about ChannelPool, for any number of goroutines and channel    *)
(* objects, any configured sizes, any deadlines and any upsets.            *)
(***************************************************************************)
EXTENDS ChannelPool, FiniteSetTheorems, TLAPS

(* The sizes newChannelPool computes are usable whatever is configured.    *)
LEMMA SizesUsable ==
    /\ PoolSize \in Nat /\ PoolSize >= 1
    /\ MaxIdle \in Nat /\ 1 <= MaxIdle /\ MaxIdle <= PoolSize
BY ChannelPoolAssumption DEF PoolSize, MaxIdle

-----------------------------------------------------------------------------
(* Typing *)

LEMMA TypeInit == Init => TypeOK
<1> SUFFICES ASSUME Init PROVE TypeOK
  OBVIOUS
<1>1. permits \in 0..PoolSize
  BY SizesUsable DEF Init
<1>2. /\ pc \in [G -> Label] /\ ret \in [G -> Return]
      /\ hand \in [G -> Chan \cup {None}]
  BY DEF Init, Label, Return, Asking
<1>3. closed \in BOOLEAN /\ connUp \in BOOLEAN
  BY DEF Init
<1>4. active \in Int
  BY DEF Init
<1>5. expired \subseteq G /\ idle \subseteq Chan /\ open \subseteq Chan /\ mu \in G \cup {None}
  BY DEF Init
<1>6. QED
  BY <1>1, <1>2, <1>3, <1>4, <1>5 DEF TypeOK

LEMMA TypeAcquire ==
    ASSUME TypeOK, NEW g \in G, BeginAcquire(g) \/ AcquireStep(g)
    PROVE  TypeOK'
<1> USE SizesUsable DEF TypeOK, Label, Return, Asking, GoTo, GiveUpFrom, poolVars, amqpVars
<1>1. CASE BeginAcquire(g) \/ Snapshot(g)
  BY <1>1 DEF BeginAcquire, Snapshot
<1>2. CASE CtxDone(g) \/ IdleClosed(g) \/ PollDefault(g) \/ Park(g)
  BY <1>2 DEF CtxDone, IdleClosed, PollDefault, Park
<1>3. CASE TakeIdle(g)
  BY <1>3 DEF TakeIdle
<1>4. CASE CheckAlive(g) \/ CheckDead(g)
  BY <1>4 DEF CheckAlive, CheckDead
<1>5. CASE TakePermit(g) \/ NoPermit(g) \/ CountUp(g)
  BY <1>5 DEF TakePermit, NoPermit, CountUp
<1>6. CASE OpenChannel(g)
  BY <1>6 DEF OpenChannel, Fresh
<1>7. CASE OpenFails(g) \/ OptionsDone(g) \/ OptionsFail(g)
  BY <1>7 DEF OpenFails, OptionsDone, OptionsFail
<1>8. QED
  BY <1>1, <1>2, <1>3, <1>4, <1>5, <1>6, <1>7 DEF AcquireStep

LEMMA TypeGiveBack ==
    ASSUME TypeOK, NEW g \in G,
           GiveBack(g) \/ ReleaseStep(g) \/ GiveUpStep(g)
    PROVE  TypeOK'
<1> USE SizesUsable DEF TypeOK, Label, Return, Asking, GoTo, GiveUpFrom, Releasing, poolVars, amqpVars
<1>1. CASE GiveBack(g)
  BY <1>1 DEF GiveBack, CallRelease, CallDiscard
<1>2. CASE ReleaseClosed(g) \/ ReleaseDead(g) \/ ReleaseShelve(g) \/ ReleaseOverflow(g)
  BY <1>2 DEF ReleaseClosed, ReleaseDead, ReleaseShelve, ReleaseOverflow
<1>3. CASE \E w \in G : ReleaseHandOff(g, w)
  BY <1>3 DEF ReleaseHandOff
<1>4. CASE GiveUpStep(g)
  BY <1>4 DEF GiveUpStep, CloseChannel, ReturnToken, CountDown
<1>5. QED
  BY <1>1, <1>2, <1>3, <1>4 DEF ReleaseStep

LEMMA TypeClose ==
    ASSUME TypeOK, NEW g \in G, BeginClose(g) \/ CloseStep(g)
    PROVE  TypeOK'
BY DEF TypeOK, Label, Return, Asking, GoTo, GiveUpFrom, poolVars, amqpVars,
       BeginClose, CloseStep, MarkClosed, DrainOne, DrainDone

LEMMA TypeEnvironment == ASSUME TypeOK, Environment PROVE TypeOK'
BY DEF TypeOK, Environment, Expire, ServerClosesChannel, ConnectionDrops, poolVars, amqpVars

LEMMA TypeNext == TypeOK /\ [Next]_vars => TypeOK'
<1> SUFFICES ASSUME TypeOK, [Next]_vars PROVE TypeOK'
  OBVIOUS
<1>1. ASSUME NEW g \in G, Call(g) \/ Step(g) PROVE TypeOK'
  BY <1>1, TypeAcquire, TypeGiveBack, TypeClose DEF Call, Step
<1>2. CASE UNCHANGED vars
  BY <1>2 DEF TypeOK, vars
<1>3. QED
  BY <1>1, <1>2, TypeEnvironment DEF Next

(* Every state of the pool is well typed; in particular p.permits never    *)
(* holds more tokens than its buffer has room for.                         *)
THEOREM TypeCorrect == Spec => []TypeOK
BY TypeInit, TypeNext, PTL DEF Spec

-----------------------------------------------------------------------------
(* Who has which channel *)

LEMMA LeaseInit == Init => LeaseInv
<1> SUFFICES ASSUME Init PROVE LeaseInv
  OBVIOUS
<1>1. HandMatchesLabel /\ ExclusiveLease
  BY DEF Init, HandMatchesLabel, ExclusiveLease
<1>2. NoChannelLeaked
  BY DEF Init, NoChannelLeaked
<1>3. QED
  BY <1>1, <1>2, TypeInit DEF LeaseInv

(* A step of g that moves only program counters and counters, between      *)
(* labels of the same kind.                                                *)
LEMMA LeaseUnmoved ==
    ASSUME LeaseInv, TypeOK', HandMatchesLabel',
           hand' = hand, idle' = idle, open' \subseteq open
    PROVE  LeaseInv'
BY DEF LeaseInv, ExclusiveLease, NoChannelLeaked, Referenced

LEMMA LeaseAcquire ==
    ASSUME LeaseInv, TypeOK', NEW g \in G, BeginAcquire(g) \/ AcquireStep(g)
    PROVE  LeaseInv'
<1> USE ChannelPoolAssumption
<1> USE DEF GoTo, GiveUpFrom, poolVars, amqpVars
<1>1. CASE BeginAcquire(g) \/ Snapshot(g) \/ CtxDone(g) \/ IdleClosed(g)
  <2>1. HandMatchesLabel' /\ hand' = hand /\ idle' = idle /\ open' = open
    BY <1>1 DEF LeaseInv, TypeOK, HandMatchesLabel, BeginAcquire, Snapshot, CtxDone, IdleClosed
  <2>2. QED
    BY <2>1, LeaseUnmoved
<1>2. CASE PollDefault(g) \/ Park(g) \/ CheckAlive(g)
  <2>1. HandMatchesLabel' /\ hand' = hand /\ idle' = idle /\ open' = open
    BY <1>2 DEF LeaseInv, TypeOK, HandMatchesLabel, PollDefault, Park, CheckAlive
  <2>2. QED
    BY <2>1, LeaseUnmoved
<1>3. CASE TakePermit(g) \/ NoPermit(g) \/ CountUp(g)
  <2>1. HandMatchesLabel' /\ hand' = hand /\ idle' = idle /\ open' = open
    BY <1>3 DEF LeaseInv, TypeOK, HandMatchesLabel, TakePermit, NoPermit, CountUp
  <2>2. QED
    BY <2>1, LeaseUnmoved
<1>4. CASE OpenFails(g) \/ OptionsDone(g) \/ OptionsFail(g)
  <2>1. HandMatchesLabel' /\ hand' = hand /\ idle' = idle /\ open' = open
    BY <1>4 DEF LeaseInv, TypeOK, HandMatchesLabel, OpenFails, OptionsDone, OptionsFail
  <2>2. QED
    BY <2>1, LeaseUnmoved
<1>5. CASE TakeIdle(g)
  <2>1. PICK c \in idle : hand' = [hand EXCEPT ![g] = c] /\ idle' = idle \ {c}
    BY <1>5 DEF TakeIdle
  <2>2. hand[g] = None /\ c # None /\ pc' = [pc EXCEPT ![g] = "check"] /\ open' = open
    BY <1>5 DEF TakeIdle, LeaseInv, TypeOK, HandMatchesLabel
  <2>3. HandMatchesLabel'
    BY <2>1, <2>2 DEF LeaseInv, TypeOK, HandMatchesLabel
  <2>4. ExclusiveLease'
    BY <2>1, <2>2 DEF LeaseInv, TypeOK, ExclusiveLease
  <2>5. NoChannelLeaked'
    BY <2>1, <2>2 DEF LeaseInv, TypeOK, NoChannelLeaked, Referenced
  <2>6. QED
    BY <2>3, <2>4, <2>5 DEF LeaseInv
<1>6. CASE CheckDead(g)
  <2>1. /\ hand[g] \notin open /\ hand' = [hand EXCEPT ![g] = None]
        /\ pc' = [pc EXCEPT ![g] = "token"] /\ idle' = idle /\ open' = open
    BY <1>6 DEF CheckDead
  <2>2. HandMatchesLabel'
    BY <2>1 DEF LeaseInv, TypeOK, HandMatchesLabel
  <2>3. ExclusiveLease'
    BY <2>1 DEF LeaseInv, TypeOK, ExclusiveLease
  <2>4. NoChannelLeaked'
    BY <2>1 DEF LeaseInv, TypeOK, NoChannelLeaked, Referenced
  <2>5. QED
    BY <2>2, <2>3, <2>4 DEF LeaseInv
<1>7. CASE OpenChannel(g)
  <2>1. PICK c \in Fresh : hand' = [hand EXCEPT ![g] = c] /\ open' = open \cup {c}
    BY <1>7 DEF OpenChannel
  <2>2. c # None /\ c \notin idle /\ \A h \in G : hand[h] # c
    BY DEF Fresh, Referenced
  <2>3. hand[g] = None /\ pc' = [pc EXCEPT ![g] = "options"] /\ idle' = idle
    BY <1>7 DEF OpenChannel, LeaseInv, TypeOK, HandMatchesLabel
  <2>4. HandMatchesLabel'
    BY <2>1, <2>2, <2>3 DEF LeaseInv, TypeOK, HandMatchesLabel
  <2>5. ExclusiveLease'
    BY <2>1, <2>2, <2>3 DEF LeaseInv, TypeOK, ExclusiveLease
  <2>6. NoChannelLeaked'
    BY <2>1, <2>2, <2>3 DEF LeaseInv, TypeOK, NoChannelLeaked, Referenced
  <2>7. QED
    BY <2>4, <2>5, <2>6 DEF LeaseInv
<1>8. QED
  BY <1>1, <1>2, <1>3, <1>4, <1>5, <1>6, <1>7 DEF AcquireStep

(* hand[g] goes away and open shrinks by at most that channel, which then  *)
(* is no longer open.                                                      *)
LEMMA LeaseLetGo ==
    ASSUME LeaseInv, TypeOK', NEW g \in G,
           hand' = [hand EXCEPT ![g] = None],
           pc'[g] = "token", \A h \in G \ {g} : pc'[h] = pc[h],
           idle' = idle, open' \subseteq open, hand[g] \notin open'
    PROVE  LeaseInv'
<1> USE ChannelPoolAssumption
<1>1. HandMatchesLabel'
  BY DEF LeaseInv, TypeOK, HandMatchesLabel
<1>2. ExclusiveLease'
  BY DEF LeaseInv, TypeOK, ExclusiveLease
<1>3. NoChannelLeaked'
  BY DEF LeaseInv, TypeOK, NoChannelLeaked, Referenced
<1>4. QED
  BY <1>1, <1>2, <1>3 DEF LeaseInv

LEMMA LeaseGiveBack ==
    ASSUME LeaseInv, TypeOK', NEW g \in G,
           GiveBack(g) \/ ReleaseStep(g) \/ GiveUpStep(g)
    PROVE  LeaseInv'
<1> USE ChannelPoolAssumption
<1> USE DEF GoTo, GiveUpFrom, poolVars, amqpVars, Releasing
<1>1. CASE GiveBack(g) \/ ReleaseClosed(g) \/ ReleaseOverflow(g)
  <2>1. HandMatchesLabel' /\ hand' = hand /\ idle' = idle /\ open' = open
    BY <1>1 DEF LeaseInv, TypeOK, HandMatchesLabel, GiveBack, CallRelease, CallDiscard,
                ReleaseClosed, ReleaseOverflow
  <2>2. QED
    BY <2>1, LeaseUnmoved
<1>2. CASE ReleaseDead(g)
  <2>1. /\ hand' = [hand EXCEPT ![g] = None] /\ hand[g] \notin open'
        /\ pc'[g] = "token" /\ \A h \in G \ {g} : pc'[h] = pc[h]
        /\ idle' = idle /\ open' = open
    BY <1>2 DEF ReleaseDead, LeaseInv, TypeOK
  <2>2. QED
    BY <2>1, LeaseLetGo
<1>3. CASE CloseChannel(g)
  <2>1. /\ hand' = [hand EXCEPT ![g] = None] /\ hand[g] \notin open'
        /\ pc'[g] = "token" /\ \A h \in G \ {g} : pc'[h] = pc[h]
        /\ idle' = idle /\ open' \subseteq open
    BY <1>3 DEF CloseChannel, LeaseInv, TypeOK
  <2>2. QED
    BY <2>1, LeaseLetGo
<1>4. CASE ReleaseShelve(g)
  <2>1. /\ hand' = [hand EXCEPT ![g] = None] /\ hand[g] # None
        /\ pc' = [pc EXCEPT ![g] = "out"]
        /\ idle' = idle \cup {hand[g]} /\ open' = open
    BY <1>4 DEF ReleaseShelve, LeaseInv, TypeOK
  <2>2. HandMatchesLabel'
    BY <2>1 DEF LeaseInv, TypeOK, HandMatchesLabel
  <2>3. ExclusiveLease'
    BY <2>1 DEF LeaseInv, TypeOK, ExclusiveLease
  <2>4. NoChannelLeaked'
    BY <2>1 DEF LeaseInv, TypeOK, NoChannelLeaked, Referenced
  <2>5. QED
    BY <2>2, <2>3, <2>4 DEF LeaseInv
<1>5. ASSUME NEW w \in G, ReleaseHandOff(g, w) PROVE LeaseInv'
  <2>1. /\ pc[g] = "release" /\ pc[w] = "parked" /\ hand[g] # None /\ hand[w] = None
        /\ hand' = [hand EXCEPT ![g] = None, ![w] = hand[g]]
        /\ pc' = [pc EXCEPT ![g] = "out", ![w] = "check"]
        /\ idle' = idle /\ open' = open
    BY <1>5 DEF ReleaseHandOff, LeaseInv, TypeOK, HandMatchesLabel, Parked
  <2>2. g # w
    BY <2>1
  <2>3. HandMatchesLabel'
    BY <2>1, <2>2 DEF LeaseInv, TypeOK, HandMatchesLabel
  <2>4. ExclusiveLease'
    BY <2>1, <2>2 DEF LeaseInv, TypeOK, ExclusiveLease
  <2>5. NoChannelLeaked'
    BY <2>1, <2>2 DEF LeaseInv, TypeOK, NoChannelLeaked, Referenced
  <2>6. QED
    BY <2>3, <2>4, <2>5 DEF LeaseInv
<1>6. CASE ReturnToken(g) \/ CountDown(g)
  <2>1. HandMatchesLabel' /\ hand' = hand /\ idle' = idle /\ open' = open
    BY <1>6 DEF LeaseInv, TypeOK, Return, HandMatchesLabel, ReturnToken, CountDown
  <2>2. QED
    BY <2>1, LeaseUnmoved
<1>7. QED
  BY <1>1, <1>2, <1>3, <1>4, <1>5, <1>6 DEF ReleaseStep, GiveUpStep

LEMMA LeaseClose ==
    ASSUME LeaseInv, TypeOK', NEW g \in G, BeginClose(g) \/ CloseStep(g)
    PROVE  LeaseInv'
<1> USE ChannelPoolAssumption
<1> USE DEF GoTo, GiveUpFrom, poolVars, amqpVars
<1>1. CASE BeginClose(g) \/ MarkClosed(g) \/ DrainDone(g)
  <2>1. HandMatchesLabel' /\ hand' = hand /\ idle' = idle /\ open' = open
    BY <1>1 DEF LeaseInv, TypeOK, HandMatchesLabel, BeginClose, MarkClosed, DrainDone
  <2>2. QED
    BY <2>1, LeaseUnmoved
<1>2. CASE DrainOne(g)
  <2>1. PICK c \in idle : hand' = [hand EXCEPT ![g] = c] /\ idle' = idle \ {c}
    BY <1>2 DEF DrainOne
  <2>2. hand[g] = None /\ c # None /\ pc' = [pc EXCEPT ![g] = "close"] /\ open' = open
    BY <1>2 DEF DrainOne, LeaseInv, TypeOK, HandMatchesLabel
  <2>3. HandMatchesLabel'
    BY <2>1, <2>2 DEF LeaseInv, TypeOK, HandMatchesLabel
  <2>4. ExclusiveLease'
    BY <2>1, <2>2 DEF LeaseInv, TypeOK, ExclusiveLease
  <2>5. NoChannelLeaked'
    BY <2>1, <2>2 DEF LeaseInv, TypeOK, NoChannelLeaked, Referenced
  <2>6. QED
    BY <2>3, <2>4, <2>5 DEF LeaseInv
<1>3. QED
  BY <1>1, <1>2 DEF CloseStep

LEMMA LeaseEnvironment ==
    ASSUME LeaseInv, TypeOK', Environment \/ UNCHANGED vars
    PROVE  LeaseInv'
<1>1. HandMatchesLabel' /\ hand' = hand /\ idle' = idle /\ open' \subseteq open
  BY DEF LeaseInv, HandMatchesLabel, Environment, Expire, ServerClosesChannel,
         ConnectionDrops, vars, poolVars, amqpVars
<1>2. QED
  BY <1>1, LeaseUnmoved

LEMMA LeaseNext == LeaseInv /\ [Next]_vars => LeaseInv'
<1> SUFFICES ASSUME LeaseInv, [Next]_vars PROVE LeaseInv'
  OBVIOUS
<1>1. TypeOK'
  BY TypeNext DEF LeaseInv
<1>2. ASSUME NEW g \in G, Call(g) \/ Step(g) PROVE LeaseInv'
  BY <1>1, <1>2, LeaseAcquire, LeaseGiveBack, LeaseClose DEF Call, Step
<1>3. QED
  BY <1>1, <1>2, LeaseEnvironment DEF Next

LEMMA LeaseInvariant == Spec => []LeaseInv
BY LeaseInit, LeaseNext, PTL DEF Spec

(* No channel is ever lent twice, or lent and idle at once.                *)
THEOREM LeasesAreExclusive == Spec => []ExclusiveLease
<1>1. LeaseInv => ExclusiveLease
  BY DEF LeaseInv
<1>2. QED
  BY <1>1, LeaseInvariant, PTL

(* No open AMQP channel is ever lost track of.                             *)
THEOREM NothingLeaks == Spec => []NoChannelLeaked
<1>1. LeaseInv => NoChannelLeaked
  BY DEF LeaseInv
<1>2. QED
  BY <1>1, LeaseInvariant, PTL

-----------------------------------------------------------------------------
(* Permits are conserved *)

HolderLabels == {"count", "open", "token", "options", "check", "leased", "release", "close"}

LEMMA HoldersByLabel ==
    /\ LeaseInv => Holders = {g \in G : pc[g] \in HolderLabels}
    /\ LeaseInv' => Holders' = {g \in G : pc'[g] \in HolderLabels}
BY DEF LeaseInv, HandMatchesLabel, Holders, HasPermit, HolderLabels

LEMMA HoldersFinite ==
    /\ IsFiniteSet(Holders)
    /\ Cardinality(Holders) \in Nat
BY ChannelPoolAssumption, FS_Subset, FS_CardinalityType DEF Holders

LEMMA PermitStart == Init => PermitInv
<1> SUFFICES ASSUME Init PROVE PermitInv
  OBVIOUS
<1>1. LeaseInv
  BY LeaseInit
<1>2. Holders = {}
  BY DEF Init, Holders, HasPermit
<1>3. IsFiniteSet(idle) /\ PermitsBalanced
  BY <1>2, FS_EmptySet DEF Init, PermitsBalanced
<1>4. QED
  BY <1>1, <1>3 DEF PermitInv

(* The four ways a step can move permits. *)
LEMMA PermitsUnmoved ==
    ASSUME PermitInv, LeaseInv', idle' = idle, permits' = permits,
           \A h \in G : pc'[h] \in HolderLabels <=> pc[h] \in HolderLabels
    PROVE  PermitInv'
<1>1. Holders' = Holders
  BY HoldersByLabel DEF PermitInv
<1>2. QED
  BY <1>1 DEF PermitInv, PermitsBalanced

LEMMA PermitsSwap ==
    ASSUME PermitInv, LeaseInv', idle' = idle, permits' = permits,
           NEW g \in G, NEW w \in G, pc[g] \in HolderLabels, pc[w] \notin HolderLabels,
           pc'[g] \notin HolderLabels, pc'[w] \in HolderLabels,
           \A h \in G \ {g, w} : pc'[h] = pc[h]
    PROVE  PermitInv'
<1>1. Holders' = (Holders \ {g}) \cup {w} /\ g \in Holders /\ w \notin Holders
  BY HoldersByLabel DEF PermitInv
<1>2. Cardinality(Holders \ {g}) = Cardinality(Holders) - 1 /\ IsFiniteSet(Holders \ {g})
  BY <1>1, HoldersFinite, FS_RemoveElement
<1>3. w \notin Holders \ {g}
  BY <1>1
<1>4. Cardinality((Holders \ {g}) \cup {w}) = Cardinality(Holders \ {g}) + 1
  BY <1>2, <1>3, FS_AddElement
<1>5. Cardinality(Holders') = Cardinality(Holders)
  BY <1>1, <1>2, <1>4, HoldersFinite
<1>6. QED
  BY <1>5 DEF PermitInv, PermitsBalanced

LEMMA PermitsFromIdle ==
    ASSUME PermitInv, LeaseInv', permits' = permits, NEW c \in idle, idle' = idle \ {c},
           NEW g \in G, pc[g] \notin HolderLabels, pc'[g] \in HolderLabels,
           \A h \in G \ {g} : pc'[h] = pc[h]
    PROVE  PermitInv'
<1>1. Holders' = Holders \cup {g} /\ g \notin Holders
  BY HoldersByLabel DEF PermitInv
<1>2. Cardinality(Holders') = Cardinality(Holders) + 1
  BY <1>1, HoldersFinite, FS_AddElement
<1>3. /\ IsFiniteSet(idle')
      /\ Cardinality(idle') = Cardinality(idle) - 1
  BY FS_RemoveElement DEF PermitInv
<1>4. Cardinality(idle) \in Nat
  BY FS_CardinalityType DEF PermitInv
<1>5. QED
  BY <1>2, <1>3, <1>4, HoldersFinite DEF PermitInv, PermitsBalanced

LEMMA PermitsToIdle ==
    ASSUME PermitInv, LeaseInv', permits' = permits, NEW c, c \notin idle, idle' = idle \cup {c},
           NEW g \in G, pc[g] \in HolderLabels, pc'[g] \notin HolderLabels,
           \A h \in G \ {g} : pc'[h] = pc[h]
    PROVE  PermitInv'
<1>1. Holders' = Holders \ {g} /\ g \in Holders
  BY HoldersByLabel DEF PermitInv
<1>2. Cardinality(Holders') = Cardinality(Holders) - 1
  BY <1>1, HoldersFinite, FS_RemoveElement
<1>3. /\ IsFiniteSet(idle')
      /\ Cardinality(idle') = Cardinality(idle) + 1
  BY FS_AddElement DEF PermitInv
<1>4. Cardinality(idle) \in Nat
  BY FS_CardinalityType DEF PermitInv
<1>5. QED
  BY <1>2, <1>3, <1>4, HoldersFinite DEF PermitInv, PermitsBalanced

(* While somebody holds a permit there is a token to receive: the default  *)
(* case of releasePermit never runs.                                       *)
LEMMA HolderHasToken ==
    ASSUME PermitInv, NEW g \in G, pc[g] \in HolderLabels
    PROVE  permits >= 1
<1>1. g \in Holders
  BY HoldersByLabel DEF PermitInv
<1>2. Cardinality(Holders) # 0
  BY <1>1, HoldersFinite, FS_EmptySet
<1>3. Cardinality(idle) \in Nat
  BY FS_CardinalityType DEF PermitInv
<1>4. QED
  BY <1>2, <1>3, HoldersFinite DEF PermitInv, PermitsBalanced

LEMMA PermitAcquire ==
    ASSUME PermitInv, LeaseInv', NEW g \in G, BeginAcquire(g) \/ AcquireStep(g)
    PROVE  PermitInv'
<1> USE DEF GoTo, GiveUpFrom, poolVars, amqpVars
<1>0. pc \in [G -> Label]
  BY DEF PermitInv, LeaseInv, TypeOK
<1>1. CASE BeginAcquire(g) \/ Snapshot(g) \/ CtxDone(g) \/ IdleClosed(g)
  <2>1. /\ idle' = idle /\ permits' = permits
        /\ \A h \in G : pc'[h] \in HolderLabels <=> pc[h] \in HolderLabels
    BY <1>0, <1>1 DEF HolderLabels, BeginAcquire, Snapshot, CtxDone, IdleClosed
  <2>2. QED
    BY <2>1, PermitsUnmoved
<1>2. CASE PollDefault(g) \/ Park(g) \/ NoPermit(g) \/ CountUp(g) \/ CheckAlive(g) \/ CheckDead(g)
  <2>1. /\ idle' = idle /\ permits' = permits
        /\ \A h \in G : pc'[h] \in HolderLabels <=> pc[h] \in HolderLabels
    BY <1>0, <1>2 DEF HolderLabels, PollDefault, Park, NoPermit, CountUp, CheckAlive, CheckDead
  <2>2. QED
    BY <2>1, PermitsUnmoved
<1>3. CASE OpenChannel(g) \/ OpenFails(g) \/ OptionsDone(g) \/ OptionsFail(g)
  <2>1. /\ idle' = idle /\ permits' = permits
        /\ \A h \in G : pc'[h] \in HolderLabels <=> pc[h] \in HolderLabels
    BY <1>0, <1>3 DEF HolderLabels, OpenChannel, OpenFails, OptionsDone, OptionsFail
  <2>2. QED
    BY <2>1, PermitsUnmoved
<1>4. CASE TakeIdle(g)
  <2>1. PICK c \in idle : idle' = idle \ {c}
    BY <1>4 DEF TakeIdle
  <2>2. /\ permits' = permits /\ pc[g] \notin HolderLabels /\ pc'[g] \in HolderLabels
        /\ \A h \in G \ {g} : pc'[h] = pc[h]
    BY <1>0, <1>4 DEF TakeIdle, HolderLabels
  <2>3. QED
    BY <2>1, <2>2, PermitsFromIdle
<1>5. CASE TakePermit(g)
  <2>1. /\ permits' = permits + 1 /\ idle' = idle
        /\ pc[g] \notin HolderLabels /\ pc'[g] \in HolderLabels
        /\ \A h \in G \ {g} : pc'[h] = pc[h]
    BY <1>0, <1>5 DEF TakePermit, HolderLabels
  <2>2. Holders' = Holders \cup {g} /\ g \notin Holders
    BY <2>1, HoldersByLabel DEF PermitInv
  <2>3. Cardinality(Holders') = Cardinality(Holders) + 1
    BY <2>2, HoldersFinite, FS_AddElement
  <2>4. Cardinality(idle) \in Nat
    BY FS_CardinalityType DEF PermitInv
  <2>5. QED
    BY <2>1, <2>3, <2>4, HoldersFinite DEF PermitInv, PermitsBalanced
<1>6. QED
  BY <1>1, <1>2, <1>3, <1>4, <1>5 DEF AcquireStep

LEMMA PermitGiveBack ==
    ASSUME PermitInv, LeaseInv', NEW g \in G,
           GiveBack(g) \/ ReleaseStep(g) \/ GiveUpStep(g)
    PROVE  PermitInv'
<1> USE DEF GoTo, GiveUpFrom, poolVars, amqpVars, Releasing
<1>0. pc \in [G -> Label] /\ ret \in [G -> Return]
  BY DEF PermitInv, LeaseInv, TypeOK
<1>1. CASE \/ GiveBack(g) \/ ReleaseClosed(g) \/ ReleaseDead(g) \/ ReleaseOverflow(g)
           \/ CloseChannel(g) \/ CountDown(g)
  <2>1. /\ idle' = idle /\ permits' = permits
        /\ \A h \in G : pc'[h] \in HolderLabels <=> pc[h] \in HolderLabels
    BY <1>0, <1>1 DEF HolderLabels, Return, GiveBack, CallRelease, CallDiscard, ReleaseClosed,
                      ReleaseDead, ReleaseOverflow, CloseChannel, CountDown
  <2>2. QED
    BY <2>1, PermitsUnmoved
<1>2. CASE ReleaseShelve(g)
  <2>1. /\ permits' = permits /\ idle' = idle \cup {hand[g]} /\ hand[g] \notin idle
        /\ pc[g] \in HolderLabels /\ pc'[g] \notin HolderLabels
        /\ \A h \in G \ {g} : pc'[h] = pc[h]
    BY <1>0, <1>2 DEF ReleaseShelve, HolderLabels, PermitInv, LeaseInv, ExclusiveLease
  <2>2. QED
    BY <2>1, PermitsToIdle
<1>3. ASSUME NEW w \in G, ReleaseHandOff(g, w) PROVE PermitInv'
  <2>1. /\ permits' = permits /\ idle' = idle
        /\ pc[g] \in HolderLabels /\ pc[w] \notin HolderLabels
        /\ pc'[g] \notin HolderLabels /\ pc'[w] \in HolderLabels
        /\ \A h \in G \ {g, w} : pc'[h] = pc[h]
    BY <1>0, <1>3 DEF ReleaseHandOff, Parked, HolderLabels
  <2>2. QED
    BY <2>1, PermitsSwap
<1>4. CASE ReturnToken(g)
  <2>1. /\ pc[g] \in HolderLabels /\ pc'[g] \notin HolderLabels /\ idle' = idle
        /\ \A h \in G \ {g} : pc'[h] = pc[h]
    BY <1>0, <1>4 DEF ReturnToken, HolderLabels
  <2>2. permits' = permits - 1
    BY <1>4, <2>1, HolderHasToken DEF ReturnToken, PermitInv, LeaseInv, TypeOK
  <2>3. Holders' = Holders \ {g} /\ g \in Holders
    BY <2>1, HoldersByLabel DEF PermitInv
  <2>4. Cardinality(Holders') = Cardinality(Holders) - 1
    BY <2>3, HoldersFinite, FS_RemoveElement
  <2>5. Cardinality(idle) \in Nat
    BY FS_CardinalityType DEF PermitInv
  <2>6. QED
    BY <2>1, <2>2, <2>4, <2>5, HoldersFinite DEF PermitInv, PermitsBalanced
<1>5. QED
  BY <1>1, <1>2, <1>3, <1>4 DEF ReleaseStep, GiveUpStep

LEMMA PermitClose ==
    ASSUME PermitInv, LeaseInv', NEW g \in G, BeginClose(g) \/ CloseStep(g)
    PROVE  PermitInv'
<1> USE DEF GoTo, GiveUpFrom, poolVars, amqpVars
<1>0. pc \in [G -> Label]
  BY DEF PermitInv, LeaseInv, TypeOK
<1>1. CASE BeginClose(g) \/ MarkClosed(g) \/ DrainDone(g)
  <2>1. /\ idle' = idle /\ permits' = permits
        /\ \A h \in G : pc'[h] \in HolderLabels <=> pc[h] \in HolderLabels
    BY <1>0, <1>1 DEF HolderLabels, BeginClose, MarkClosed, DrainDone
  <2>2. QED
    BY <2>1, PermitsUnmoved
<1>2. CASE DrainOne(g)
  <2>1. PICK c \in idle : idle' = idle \ {c}
    BY <1>2 DEF DrainOne
  <2>2. /\ permits' = permits /\ pc[g] \notin HolderLabels /\ pc'[g] \in HolderLabels
        /\ \A h \in G \ {g} : pc'[h] = pc[h]
    BY <1>0, <1>2 DEF DrainOne, HolderLabels
  <2>3. QED
    BY <2>1, <2>2, PermitsFromIdle
<1>3. QED
  BY <1>1, <1>2 DEF CloseStep

LEMMA PermitNext == PermitInv /\ [Next]_vars => PermitInv'
<1> SUFFICES ASSUME PermitInv, [Next]_vars PROVE PermitInv'
  OBVIOUS
<1>1. LeaseInv'
  BY LeaseNext DEF PermitInv
<1>2. ASSUME NEW g \in G, Call(g) \/ Step(g) PROVE PermitInv'
  BY <1>1, <1>2, PermitAcquire, PermitGiveBack, PermitClose DEF Call, Step
<1>3. CASE Environment \/ UNCHANGED vars
  <2>1. pc' = pc /\ idle' = idle /\ permits' = permits
    BY <1>3 DEF Environment, Expire, ServerClosesChannel, ConnectionDrops, vars, poolVars, amqpVars
  <2>2. QED
    BY <1>1, <2>1, PermitsUnmoved
<1>4. QED
  BY <1>2, <1>3 DEF Next

LEMMA PermitInvariant == Spec => []PermitInv
BY PermitStart, PermitNext, PTL DEF Spec

(* A permit is never lost or given twice: the tokens in p.permits are      *)
(* exactly those of the idle channels and of the goroutines that hold one. *)
THEOREM PermitsConserved == Spec => []PermitsBalanced
<1>1. PermitInv => PermitsBalanced
  BY DEF PermitInv
<1>2. QED
  BY <1>1, PermitInvariant, PTL

(* The channels in hand are no more than the goroutines holding a permit.  *)
LEMMA HandsWithinHolders ==
    ASSUME PermitInv
    PROVE  LET InHand == {hand[g] : g \in G} \ {None}
           IN  IsFiniteSet(InHand) /\ Cardinality(InHand) <= Cardinality(Holders)
<1> DEFINE InHand == {hand[g] : g \in G} \ {None}
           Owners == {g \in G : hand[g] # None}
           f == [g \in Owners |-> hand[g]]
<1>1. IsFiniteSet(Owners)
  BY ChannelPoolAssumption, FS_Subset
<1>2. f \in Surjection(Owners, InHand)
  BY DEF Surjection
<1>3. IsFiniteSet(InHand) /\ Cardinality(InHand) <= Cardinality(Owners)
  BY <1>1, <1>2, FS_Surjection
<1>4. Owners \subseteq Holders
  BY DEF Holders, HasPermit
<1>5. Cardinality(Owners) <= Cardinality(Holders)
  BY <1>4, HoldersFinite, FS_Subset
<1>6. Cardinality(InHand) \in Nat /\ Cardinality(Owners) \in Nat
  BY <1>1, <1>3, FS_CardinalityType
<1>7. QED
  BY <1>3, <1>5, <1>6, HoldersFinite

(* The pool never opens more AMQP channels than the configured size, in    *)
(* any race of Acquire, release, discard and Close.                        *)
THEOREM OpenChannelsBounded == Spec => []OpenWithinLimit
<1>1. ASSUME PermitInv PROVE OpenWithinLimit
  <2> DEFINE InHand == {hand[g] : g \in G} \ {None}
  <2>1. IsFiniteSet(InHand) /\ Cardinality(InHand) <= Cardinality(Holders)
    BY <1>1, HandsWithinHolders
  <2>2. IsFiniteSet(idle)
    BY <1>1 DEF PermitInv
  <2>3. /\ Cardinality(InHand) \in Nat /\ Cardinality(idle) \in Nat
        /\ Cardinality(idle \cap InHand) \in Nat
    BY <2>1, <2>2, FS_CardinalityType, FS_Subset
  <2>4. /\ IsFiniteSet(Referenced)
        /\ Cardinality(Referenced) <= Cardinality(idle) + Cardinality(InHand)
    BY <2>1, <2>2, <2>3, FS_Union DEF Referenced
  <2>5. IsFiniteSet(open) /\ Cardinality(open) <= Cardinality(Referenced)
    BY <1>1, <2>4, FS_Subset DEF PermitInv, LeaseInv, NoChannelLeaked
  <2>6. Cardinality(open) \in Nat /\ Cardinality(Referenced) \in Nat
    BY <2>4, <2>5, FS_CardinalityType
  <2>7. permits <= PoolSize /\ permits = Cardinality(Holders) + Cardinality(idle)
    BY <1>1, SizesUsable DEF PermitInv, LeaseInv, TypeOK, PermitsBalanced
  <2>8. QED
    BY <2>1, <2>3, <2>4, <2>5, <2>6, <2>7, HoldersFinite, SizesUsable DEF OpenWithinLimit
<1>2. QED
  BY <1>1, PermitInvariant, PTL

-----------------------------------------------------------------------------
(* The active gauge *)

Gauge == active = permits - Cardinality(Counting) + Cardinality(Uncounting)

LEMMA CountersFinite ==
    /\ IsFiniteSet(Counting) /\ Cardinality(Counting) \in Nat
    /\ IsFiniteSet(Uncounting) /\ Cardinality(Uncounting) \in Nat
BY ChannelPoolAssumption, FS_Subset, FS_CardinalityType DEF Counting, Uncounting

(* Goroutines about to count up hold a permit, so the gauge covers those   *)
(* about to count down.                                                    *)
LEMMA GaugeCoversUncounting ==
    ASSUME PermitInv, Gauge PROVE active >= Cardinality(Uncounting)
<1>1. Cardinality(Counting) <= Cardinality(Holders)
  BY HoldersFinite, FS_Subset DEF Counting, Holders, HasPermit
<1>2. Cardinality(idle) \in Nat
  BY FS_CardinalityType DEF PermitInv
<1>3. QED
  BY <1>1, <1>2, HoldersFinite, CountersFinite DEF PermitInv, PermitsBalanced, Gauge

LEMMA GaugeGuardsPass ==
    ASSUME PermitInv, Gauge PROVE ActiveTracksPermits
<1>1. ASSUME NEW g \in G, pc[g] = "token" PROVE permits > 0
  BY <1>1, HolderHasToken DEF HolderLabels, PermitInv, LeaseInv, TypeOK
<1>2. ASSUME NEW g \in G, pc[g] = "dec" PROVE active > 0
  <2>1. Uncounting # {}
    BY <1>2 DEF Uncounting
  <2>2. Cardinality(Uncounting) > 0
    BY <2>1, CountersFinite, FS_EmptySet
  <2>3. QED
    BY <2>2, GaugeCoversUncounting, CountersFinite DEF PermitInv, LeaseInv, TypeOK
<1>3. QED
  BY <1>1, <1>2 DEF ActiveTracksPermits, Gauge

LEMMA GaugeUnmoved ==
    ASSUME Gauge, active' = active, permits' = permits,
           \A h \in G : /\ pc'[h] = "count" <=> pc[h] = "count"
                        /\ pc'[h] = "dec" <=> pc[h] = "dec"
    PROVE  Gauge'
<1>1. Counting' = Counting /\ Uncounting' = Uncounting
  BY DEF Counting, Uncounting
<1>2. QED
  BY <1>1 DEF Gauge

LEMMA GaugeStep ==
    ASSUME PermitInv, Gauge, NEW g \in G, Call(g) \/ Step(g)
    PROVE  Gauge'
<1> USE DEF GoTo, GiveUpFrom, poolVars, amqpVars, Releasing
<1>0. /\ pc \in [G -> Label] /\ ret \in [G -> Return]
      /\ permits \in 0..PoolSize /\ active \in Int /\ PoolSize \in Nat
  BY SizesUsable DEF PermitInv, LeaseInv, TypeOK
<1>1. CASE TakePermit(g)
  <2>1. permits' = permits + 1 /\ active' = active
    BY <1>1 DEF TakePermit
  <2>2. Counting' = Counting \cup {g} /\ g \notin Counting /\ Uncounting' = Uncounting
    BY <1>0, <1>1 DEF TakePermit, Counting, Uncounting
  <2>3. Cardinality(Counting') = Cardinality(Counting) + 1
    BY <2>2, CountersFinite, FS_AddElement
  <2>4. QED
    BY <1>0, <2>1, <2>2, <2>3, CountersFinite DEF Gauge
<1>2. CASE CountUp(g)
  <2>1. permits' = permits /\ active' = active + 1
    BY <1>2 DEF CountUp
  <2>2. Counting' = Counting \ {g} /\ g \in Counting /\ Uncounting' = Uncounting
    BY <1>0, <1>2 DEF CountUp, Counting, Uncounting
  <2>3. Cardinality(Counting') = Cardinality(Counting) - 1
    BY <2>2, CountersFinite, FS_RemoveElement
  <2>4. QED
    BY <1>0, <2>1, <2>2, <2>3, CountersFinite DEF Gauge
<1>3. CASE ReturnToken(g)
  <2>1. permits > 0
    BY <1>0, <1>3, HolderHasToken DEF ReturnToken, HolderLabels
  <2>2. permits' = permits - 1 /\ active' = active
    BY <1>3, <2>1 DEF ReturnToken
  <2>3. Uncounting' = Uncounting \cup {g} /\ g \notin Uncounting /\ Counting' = Counting
    BY <1>0, <1>3 DEF ReturnToken, Counting, Uncounting
  <2>4. Cardinality(Uncounting') = Cardinality(Uncounting) + 1
    BY <2>3, CountersFinite, FS_AddElement
  <2>5. QED
    BY <1>0, <2>2, <2>3, <2>4, CountersFinite DEF Gauge
<1>4. CASE CountDown(g)
  <2>1. active > 0
    BY <1>4, GaugeGuardsPass DEF CountDown, ActiveTracksPermits
  <2>2. permits' = permits /\ active' = active - 1
    BY <1>0, <1>4, <2>1 DEF CountDown
  <2>3. Uncounting' = Uncounting \ {g} /\ g \in Uncounting /\ Counting' = Counting
    BY <1>0, <1>4 DEF CountDown, Return, Counting, Uncounting
  <2>4. Cardinality(Uncounting') = Cardinality(Uncounting) - 1
    BY <2>3, CountersFinite, FS_RemoveElement
  <2>5. QED
    BY <1>0, <2>2, <2>3, <2>4, CountersFinite DEF Gauge
<1>5. CASE \/ BeginAcquire(g) \/ Snapshot(g) \/ CtxDone(g) \/ TakeIdle(g) \/ IdleClosed(g)
           \/ PollDefault(g) \/ Park(g) \/ CheckAlive(g) \/ CheckDead(g) \/ NoPermit(g)
  <2>1. /\ active' = active /\ permits' = permits
        /\ \A h \in G : /\ pc'[h] = "count" <=> pc[h] = "count"
                        /\ pc'[h] = "dec" <=> pc[h] = "dec"
    BY <1>0, <1>5 DEF BeginAcquire, Snapshot, CtxDone, TakeIdle, IdleClosed, PollDefault,
                      Park, CheckAlive, CheckDead, NoPermit
  <2>2. QED
    BY <2>1, GaugeUnmoved
<1>6. CASE \/ OpenChannel(g) \/ OpenFails(g) \/ OptionsDone(g) \/ OptionsFail(g)
           \/ GiveBack(g) \/ CloseChannel(g) \/ BeginClose(g) \/ CloseStep(g)
  <2>1. /\ active' = active /\ permits' = permits
        /\ \A h \in G : /\ pc'[h] = "count" <=> pc[h] = "count"
                        /\ pc'[h] = "dec" <=> pc[h] = "dec"
    BY <1>0, <1>6 DEF OpenChannel, OpenFails, OptionsDone, OptionsFail, GiveBack, CallRelease,
                      CallDiscard, CloseChannel, BeginClose, CloseStep, MarkClosed, DrainOne,
                      DrainDone
  <2>2. QED
    BY <2>1, GaugeUnmoved
<1>7. CASE ReleaseStep(g)
  <2>1. /\ active' = active /\ permits' = permits
        /\ \A h \in G : /\ pc'[h] = "count" <=> pc[h] = "count"
                        /\ pc'[h] = "dec" <=> pc[h] = "dec"
    BY <1>0, <1>7 DEF ReleaseStep, ReleaseClosed, ReleaseDead, ReleaseShelve, ReleaseOverflow,
                      ReleaseHandOff, Parked
  <2>2. QED
    BY <2>1, GaugeUnmoved
<1>8. QED
  BY <1>1, <1>2, <1>3, <1>4, <1>5, <1>6, <1>7 DEF Call, Step, AcquireStep, GiveUpStep

LEMMA GaugeNext == PermitInv /\ Gauge /\ [Next]_vars => Gauge'
<1> SUFFICES ASSUME PermitInv, Gauge, [Next]_vars PROVE Gauge'
  OBVIOUS
<1>1. CASE Environment \/ UNCHANGED vars
  <2>1. pc' = pc /\ active' = active /\ permits' = permits
    BY <1>1 DEF Environment, Expire, ServerClosesChannel, ConnectionDrops, vars, poolVars, amqpVars
  <2>2. QED
    BY <2>1, GaugeUnmoved
<1>2. QED
  BY <1>1, GaugeStep DEF Next

LEMMA GaugeInit == Init => Gauge
<1> SUFFICES ASSUME Init PROVE Gauge
  OBVIOUS
<1>1. Counting = {} /\ Uncounting = {}
  BY DEF Init, Counting, Uncounting
<1>2. QED
  BY <1>1, FS_EmptySet DEF Init, Gauge

(* The gauge Stats() reports differs from the permits only by updates      *)
(* under way, and no guard of releasePermit ever drops one.                *)
THEOREM GaugeTracksPermits == Spec => []ActiveTracksPermits
<1>1. PermitInv /\ Gauge => ActiveTracksPermits
  BY GaugeGuardsPass
<1>2. Spec => []Gauge
  BY GaugeInit, GaugeNext, PermitInvariant, PTL DEF Spec
<1>3. QED
  BY <1>1, <1>2, PermitInvariant, PTL

-----------------------------------------------------------------------------
(* Close *)

LEMMA ShelfStep ==
    ASSUME TypeOK, NEW g \in G, Call(g) \/ Step(g), closed
    PROVE  closed' /\ idle' \subseteq idle
<1> USE DEF GoTo, GiveUpFrom, poolVars, amqpVars
<1>1. CASE Call(g)
  BY <1>1 DEF Call, BeginAcquire, GiveBack, CallRelease, CallDiscard, BeginClose
<1>2. CASE AcquireStep(g)
  BY <1>2 DEF AcquireStep, Snapshot, CtxDone, TakeIdle, IdleClosed, PollDefault, Park, CheckAlive,
              CheckDead, TakePermit, NoPermit, CountUp, OpenChannel, OpenFails, OptionsDone, OptionsFail
<1>3. CASE ReleaseStep(g) \/ GiveUpStep(g)
  BY <1>3 DEF ReleaseStep, ReleaseClosed, ReleaseDead, ReleaseShelve, ReleaseOverflow, ReleaseHandOff,
              GiveUpStep, CloseChannel, ReturnToken, CountDown
<1>4. CASE CloseStep(g)
  BY <1>4 DEF CloseStep, MarkClosed, DrainOne, DrainDone
<1>5. QED
  BY <1>1, <1>2, <1>3, <1>4 DEF Step

LEMMA ShelfNext ==
    ASSUME TypeOK, [Next]_vars, closed PROVE closed' /\ idle' \subseteq idle
<1>1. CASE Environment \/ UNCHANGED vars
  BY <1>1 DEF Environment, Expire, ServerClosesChannel, ConnectionDrops, vars, poolVars, amqpVars
<1>2. QED
  BY <1>1, ShelfStep DEF Next

(* A closed pool takes no channel back into its buffer: release never      *)
(* sends on the channel that Close has closed.                             *)
THEOREM ClosedBufferOnlyShrinks == Spec => NothingShelvedAfterClose
<1>1. TypeOK /\ [Next]_vars => [closed => idle' \subseteq idle]_vars
  BY ShelfNext
<1>2. QED
  BY <1>1, TypeCorrect, PTL DEF Spec, NothingShelvedAfterClose

DrainInv == closed /\ Draining = {} => idle = {}

(* A drain ends only with DrainDone, which finds the buffer empty.         *)
LEMMA DrainGoesOn ==
    ASSUME TypeOK, NEW g \in G, Call(g) \/ Step(g), ~DrainDone(g)
    PROVE  /\ Draining \subseteq Draining'
           /\ closed' /\ ~closed => Draining' # {}
<1> USE DEF GoTo, GiveUpFrom, poolVars, amqpVars, TypeOK, Draining
<1>1. CASE Call(g)
  BY <1>1 DEF Call, BeginAcquire, GiveBack, CallRelease, CallDiscard, BeginClose
<1>2. CASE AcquireStep(g)
  BY <1>2 DEF AcquireStep, Snapshot, CtxDone, TakeIdle, IdleClosed, PollDefault, Park, CheckAlive,
              CheckDead, TakePermit, NoPermit, CountUp, OpenChannel, OpenFails, OptionsDone, OptionsFail
<1>3. CASE ReleaseStep(g)
  BY <1>3 DEF ReleaseStep, ReleaseClosed, ReleaseDead, ReleaseShelve, ReleaseOverflow,
              ReleaseHandOff, Releasing, Parked
<1>4. CASE GiveUpStep(g)
  BY <1>4 DEF GiveUpStep, CloseChannel, ReturnToken, CountDown
<1>5. CASE CloseStep(g)
  BY <1>5 DEF CloseStep, MarkClosed, DrainOne
<1>6. QED
  BY <1>1, <1>2, <1>3, <1>4, <1>5 DEF Step

LEMMA DrainNext == TypeOK /\ DrainInv /\ [Next]_vars => DrainInv'
<1> SUFFICES ASSUME TypeOK, DrainInv, [Next]_vars PROVE DrainInv'
  OBVIOUS
<1>1. CASE Environment \/ UNCHANGED vars
  BY <1>1 DEF DrainInv, Draining, Environment, Expire, ServerClosesChannel, ConnectionDrops,
              vars, poolVars, amqpVars
<1>2. ASSUME NEW g \in G, DrainDone(g) PROVE DrainInv'
  BY <1>2 DEF DrainInv, DrainDone, poolVars
<1>3. ASSUME NEW g \in G, Call(g) \/ Step(g), ~DrainDone(g) PROVE DrainInv'
  BY <1>3, DrainGoesOn, ShelfStep DEF DrainInv
<1>4. QED
  BY <1>1, <1>2, <1>3 DEF Next

(* Once Close has returned nothing is idle, and when the last borrower is  *)
(* done no channel is open and no permit is taken.                         *)
THEOREM CloseLeavesNothing == Spec => []ClosedPoolEmpties
<1>1. Init => DrainInv
  BY DEF Init, DrainInv
<1>2. Spec => []DrainInv
  BY <1>1, DrainNext, TypeCorrect, PTL DEF Spec
<1>3. PermitInv /\ ActiveTracksPermits /\ DrainInv => ClosedPoolEmpties
  <2> SUFFICES ASSUME PermitInv, ActiveTracksPermits, closed, idle = {},
                      \A g \in G : pc[g] = "out"
               PROVE  open = {} /\ permits = 0 /\ active = 0
    BY DEF DrainInv, ClosedPoolEmpties
  <2>1. Holders = {} /\ Referenced = {} /\ Counting = {} /\ Uncounting = {}
    BY DEF PermitInv, LeaseInv, HandMatchesLabel, Holders, HasPermit, Referenced, Counting, Uncounting
  <2>2. permits = 0
    BY <2>1, FS_EmptySet DEF PermitInv, PermitsBalanced
  <2>3. QED
    BY <2>1, <2>2, FS_EmptySet DEF PermitInv, LeaseInv, NoChannelLeaked, ActiveTracksPermits
<1>4. QED
  BY <1>2, <1>3, PermitInvariant, GaugeTracksPermits, PTL

-----------------------------------------------------------------------------
(* ChannelPool implements LeasePool: every step of the pool's code is a    *)
(* step of the abstract lending pool or leaves it unchanged.               *)

AbstractVars == <<Waiting, hand, idle, closed>>

LEMMA RefinesInit == Init => Abstract!LeaseInit
BY DEF Init, Abstract!LeaseInit, Waiting

(* A step of g that moves no channel and keeps everybody waiting or not.   *)
LEMMA RefinesStutter ==
    ASSUME hand' = hand, idle' = idle, closed' = closed, Waiting' = Waiting
    PROVE  [Abstract!LeaseNext]_AbstractVars
BY DEF AbstractVars

LEMMA RefinesRefuse ==
    ASSUME NEW g \in G, g \in Waiting, Waiting' = Waiting \ {g},
           hand' = hand, idle' = idle, closed' = closed
    PROVE  Abstract!LeaseNext
BY DEF Abstract!LeaseNext, Abstract!Refuse

LEMMA RefinesRetire ==
    ASSUME NEW g \in G, hand[g] # None, hand' = [hand EXCEPT ![g] = None],
           Waiting' = Waiting, idle' = idle, closed' = closed
    PROVE  Abstract!LeaseNext
BY DEF Abstract!LeaseNext, Abstract!Retire

(* A goroutine about to open a channel has its permit already, so fewer    *)
(* than PoolSize channels exist.                                           *)
LEMMA RoomForNew ==
    ASSUME PermitInv, NEW g \in G, pc[g] = "open"
    PROVE  Cardinality(({hand[h] : h \in G} \ {None}) \cup idle) < PoolSize
<1> DEFINE InHand == {hand[h] : h \in G} \ {None}
           Owners == {h \in G : hand[h] # None}
           f == [h \in Owners |-> hand[h]]
<1>1. IsFiniteSet(Owners) /\ Cardinality(Owners) \in Nat
  BY ChannelPoolAssumption, FS_Subset, FS_CardinalityType
<1>2. f \in Surjection(Owners, InHand)
  BY DEF Surjection
<1>3. /\ IsFiniteSet(InHand) /\ Cardinality(InHand) <= Cardinality(Owners)
      /\ Cardinality(InHand) \in Nat
  BY <1>1, <1>2, FS_Surjection, FS_CardinalityType
<1>4. g \in Holders /\ g \notin Owners /\ Owners \subseteq Holders
  BY DEF Holders, HasPermit, PermitInv, LeaseInv, HandMatchesLabel
<1>5. Cardinality(Owners) < Cardinality(Holders)
  BY <1>1, <1>4, HoldersFinite, FS_Subset
<1>6. IsFiniteSet(idle) /\ Cardinality(idle) \in Nat /\ Cardinality(InHand \cap idle) \in Nat
  BY <1>3, FS_CardinalityType, FS_Subset DEF PermitInv
<1>7. Cardinality(InHand \cup idle) <= Cardinality(InHand) + Cardinality(idle)
  <2>1. Cardinality(InHand \cup idle)
          = Cardinality(InHand) + Cardinality(idle) - Cardinality(InHand \cap idle)
    BY <1>3, <1>6, FS_Union
  <2>2. QED
    BY <1>3, <1>6, <2>1
<1>8. Cardinality(InHand \cup idle) \in Nat
  BY <1>3, <1>6, FS_Union, FS_CardinalityType
<1>9. permits <= PoolSize /\ permits = Cardinality(Holders) + Cardinality(idle)
  BY SizesUsable DEF PermitInv, LeaseInv, TypeOK, PermitsBalanced
<1>10. QED
  BY <1>1, <1>3, <1>5, <1>6, <1>7, <1>8, <1>9, HoldersFinite, SizesUsable
      DEF PermitInv, LeaseInv, TypeOK

LEMMA RefinesAcquire ==
    ASSUME PermitInv, NEW g \in G, BeginAcquire(g) \/ AcquireStep(g)
    PROVE  [Abstract!LeaseNext]_AbstractVars
<1> USE DEF GoTo, GiveUpFrom, poolVars, amqpVars
<1>0. /\ pc \in [G -> Label] /\ hand \in [G -> Chan \cup {None}] /\ idle \subseteq Chan
      /\ HandMatchesLabel
  BY DEF PermitInv, LeaseInv, TypeOK
<1>1. CASE \/ BeginAcquire(g) \/ PollDefault(g) \/ Park(g) \/ CheckAlive(g) \/ TakePermit(g)
           \/ NoPermit(g) \/ CountUp(g) \/ OptionsDone(g) \/ OptionsFail(g)
  <2>1. /\ hand' = hand /\ idle' = idle /\ closed' = closed /\ Waiting' = Waiting
    BY <1>0, <1>1 DEF Waiting, BeginAcquire, PollDefault, Park, CheckAlive, TakePermit,
                      NoPermit, CountUp, OptionsDone, OptionsFail
  <2>2. QED
    BY <2>1, RefinesStutter
<1>2. CASE Snapshot(g)
  <2>1. CASE closed
    BY <1>0, <1>2, <2>1, RefinesStutter DEF Snapshot, Waiting
  <2>2. CASE ~closed
    <3>1. /\ Waiting' = Waiting \cup {g} /\ g \notin Waiting /\ hand[g] = None
          /\ hand' = hand /\ idle' = idle /\ closed' = closed
      BY <1>0, <1>2, <2>2 DEF Snapshot, Waiting, HandMatchesLabel
    <3>2. QED
      BY <2>2, <3>1 DEF Abstract!LeaseNext, Abstract!Admit
  <2>3. QED
    BY <2>1, <2>2
<1>3. CASE CtxDone(g) \/ IdleClosed(g) \/ OpenFails(g)
  <2>1. /\ g \in Waiting /\ Waiting' = Waiting \ {g}
        /\ hand' = hand /\ idle' = idle /\ closed' = closed
    BY <1>0, <1>3 DEF Waiting, CtxDone, IdleClosed, OpenFails
  <2>2. QED
    BY <2>1, RefinesRefuse
<1>4. CASE TakeIdle(g)
  <2>1. g \in Waiting /\ Waiting' = Waiting \ {g} /\ closed' = closed
    BY <1>0, <1>4 DEF Waiting, TakeIdle
  <2>2. QED
    BY <1>4, <2>1 DEF TakeIdle, Abstract!LeaseNext, Abstract!LendFromShelf
<1>5. CASE CheckDead(g)
  <2>1. /\ hand[g] # None /\ hand' = [hand EXCEPT ![g] = None]
        /\ Waiting' = Waiting /\ idle' = idle /\ closed' = closed
    BY <1>0, <1>5 DEF CheckDead, Waiting, HandMatchesLabel
  <2>2. QED
    BY <2>1, RefinesRetire
<1>6. CASE OpenChannel(g)
  <2>1. /\ g \in Waiting /\ Waiting' = Waiting \ {g} /\ idle' = idle /\ closed' = closed
    BY <1>0, <1>6 DEF Waiting, OpenChannel
  <2>2. Abstract!Cardinality(Abstract!Lent \cup idle) < PoolSize
    <3>1. Cardinality(Abstract!Lent \cup idle) < PoolSize
      BY <1>6, RoomForNew DEF OpenChannel, Abstract!Lent
    <3>2. ASSUME NEW S PROVE Abstract!Cardinality(S) = Cardinality(S)
      BY Zenon DEF Abstract!Cardinality, Cardinality
    <3>3. QED
      BY <3>1, <3>2
  <2>3. \E c \in Chan \ (Abstract!Lent \cup idle) : hand' = [hand EXCEPT ![g] = c]
    BY <1>6 DEF OpenChannel, Fresh, Referenced, Abstract!Lent
  <2>4. QED
    BY <2>1, <2>2, <2>3 DEF Abstract!LeaseNext, Abstract!LendNew
<1>7. QED
  BY <1>1, <1>2, <1>3, <1>4, <1>5, <1>6 DEF AcquireStep

LEMMA RefinesGiveBack ==
    ASSUME PermitInv, NEW g \in G, GiveBack(g) \/ ReleaseStep(g) \/ GiveUpStep(g)
    PROVE  [Abstract!LeaseNext]_AbstractVars
<1> USE DEF GoTo, GiveUpFrom, poolVars, amqpVars, Releasing
<1>0. /\ pc \in [G -> Label] /\ ret \in [G -> Return] /\ hand \in [G -> Chan \cup {None}]
      /\ HandMatchesLabel
  BY DEF PermitInv, LeaseInv, TypeOK
<1>1. CASE \/ GiveBack(g) \/ ReleaseClosed(g) \/ ReleaseOverflow(g)
           \/ ReturnToken(g) \/ CountDown(g)
  <2>1. /\ hand' = hand /\ idle' = idle /\ closed' = closed /\ Waiting' = Waiting
    BY <1>0, <1>1 DEF Waiting, Return, GiveBack, CallRelease, CallDiscard, ReleaseClosed,
                      ReleaseOverflow, ReturnToken, CountDown
  <2>2. QED
    BY <2>1, RefinesStutter
<1>2. CASE ReleaseDead(g) \/ CloseChannel(g)
  <2>1. /\ hand[g] # None /\ hand' = [hand EXCEPT ![g] = None]
        /\ Waiting' = Waiting /\ idle' = idle /\ closed' = closed
    BY <1>0, <1>2 DEF ReleaseDead, CloseChannel, Waiting, HandMatchesLabel
  <2>2. QED
    BY <2>1, RefinesRetire
<1>3. CASE ReleaseShelve(g)
  <2>1. /\ ~closed /\ hand[g] # None /\ idle' = idle \cup {hand[g]}
        /\ hand' = [hand EXCEPT ![g] = None]
        /\ Waiting' = Waiting /\ closed' = closed
    BY <1>0, <1>3 DEF ReleaseShelve, Waiting, HandMatchesLabel
  <2>2. QED
    BY <2>1 DEF Abstract!LeaseNext, Abstract!Shelve
<1>4. ASSUME NEW w \in G, ReleaseHandOff(g, w) PROVE Abstract!LeaseNext
  <2>1. /\ ~closed /\ hand[g] # None /\ w \in Waiting /\ w # g
        /\ hand' = [hand EXCEPT ![g] = None, ![w] = hand[g]]
        /\ Waiting' = Waiting \ {w} /\ idle' = idle /\ closed' = closed
    BY <1>0, <1>4 DEF ReleaseHandOff, Parked, Waiting, HandMatchesLabel
  <2>2. QED
    BY <2>1 DEF Abstract!LeaseNext, Abstract!PassOn
<1>5. QED
  BY <1>1, <1>2, <1>3, <1>4 DEF ReleaseStep, GiveUpStep

(* Only the Close that closed the pool drains it.                          *)
DrainersClosed == \A g \in G : pc[g] = "drain" \/ ret[g] = "drain" => closed

LEMMA DrainersStep ==
    ASSUME TypeOK, DrainersClosed, NEW g \in G, Call(g) \/ Step(g)
    PROVE  DrainersClosed'
<1> USE DEF GoTo, GiveUpFrom, poolVars, amqpVars, TypeOK, DrainersClosed
<1>1. CASE Call(g)
  BY <1>1 DEF Call, BeginAcquire, GiveBack, CallRelease, CallDiscard, BeginClose
<1>2. CASE AcquireStep(g)
  BY <1>2 DEF AcquireStep, Snapshot, CtxDone, TakeIdle, IdleClosed, PollDefault, Park, CheckAlive,
              CheckDead, TakePermit, NoPermit, CountUp, OpenChannel, OpenFails, OptionsDone, OptionsFail
<1>3. CASE ReleaseStep(g)
  BY <1>3 DEF ReleaseStep, ReleaseClosed, ReleaseDead, ReleaseShelve, ReleaseOverflow, ReleaseHandOff
<1>4. CASE GiveUpStep(g)
  BY <1>4 DEF GiveUpStep, CloseChannel, ReturnToken, CountDown
<1>5. CASE CloseStep(g)
  BY <1>5 DEF CloseStep, MarkClosed, DrainOne, DrainDone
<1>6. QED
  BY <1>1, <1>2, <1>3, <1>4, <1>5 DEF Step

LEMMA DrainersInvariant == Spec => []DrainersClosed
<1>1. Init => DrainersClosed
  BY DEF Init, DrainersClosed
<1>2. ASSUME TypeOK, DrainersClosed, Environment \/ UNCHANGED vars PROVE DrainersClosed'
  BY <1>2 DEF DrainersClosed, Environment, Expire, ServerClosesChannel, ConnectionDrops,
              vars, poolVars, amqpVars
<1>3. TypeOK /\ DrainersClosed /\ [Next]_vars => DrainersClosed'
  BY <1>2, DrainersStep DEF Next
<1>4. QED
  BY <1>1, <1>3, TypeCorrect, PTL DEF Spec

LEMMA RefinesClose ==
    ASSUME PermitInv, DrainersClosed, NEW g \in G, BeginClose(g) \/ CloseStep(g)
    PROVE  [Abstract!LeaseNext]_AbstractVars
<1> USE DEF GoTo, GiveUpFrom, poolVars, amqpVars
<1>0. pc \in [G -> Label] /\ HandMatchesLabel /\ hand \in [G -> Chan \cup {None}]
  BY DEF PermitInv, LeaseInv, TypeOK
<1>1. CASE BeginClose(g) \/ DrainDone(g)
  BY <1>0, <1>1, RefinesStutter DEF BeginClose, DrainDone, Waiting
<1>2. CASE MarkClosed(g)
  <2>1. hand' = hand /\ idle' = idle /\ Waiting' = Waiting /\ closed' = TRUE
    BY <1>0, <1>2 DEF MarkClosed, Waiting
  <2>2. closed \in BOOLEAN
    BY DEF PermitInv, LeaseInv, TypeOK
  <2>3. CASE closed = TRUE
    BY <2>1, <2>3, RefinesStutter
  <2>4. CASE closed = FALSE
    BY <2>1, <2>4 DEF Abstract!LeaseNext, Abstract!ClosePool
  <2>5. QED
    BY <2>2, <2>3, <2>4
<1>3. CASE DrainOne(g)
  <2>1. /\ g \notin Waiting /\ Waiting' = Waiting /\ hand[g] = None /\ closed' = closed
    BY <1>0, <1>3 DEF DrainOne, Waiting, HandMatchesLabel
  <2>2. closed
    BY <1>3 DEF DrainOne, DrainersClosed
  <2>3. Abstract!ClearShelf(g)
    BY <1>3, <2>1, <2>2 DEF DrainOne, Abstract!ClearShelf
  <2>4. QED
    BY <2>3 DEF Abstract!LeaseNext
<1>4. QED
  BY <1>1, <1>2, <1>3 DEF CloseStep

LEMMA RefinesNext ==
    PermitInv /\ DrainersClosed /\ [Next]_vars => [Abstract!LeaseNext]_AbstractVars
<1> SUFFICES ASSUME PermitInv, DrainersClosed, [Next]_vars
             PROVE  [Abstract!LeaseNext]_AbstractVars
  OBVIOUS
<1>1. CASE Environment \/ UNCHANGED vars
  BY <1>1, RefinesStutter DEF Waiting, Environment, Expire, ServerClosesChannel, ConnectionDrops,
                              vars, poolVars, amqpVars
<1>2. ASSUME NEW g \in G, Call(g) \/ Step(g) PROVE [Abstract!LeaseNext]_AbstractVars
  BY <1>2, RefinesAcquire, RefinesGiveBack, RefinesClose DEF Call, Step
<1>3. QED
  BY <1>1, <1>2 DEF Next

(* The channel pool implements the abstract lending pool: bounded, each    *)
(* item in one place, nothing admitted or kept after Close.                *)
THEOREM PoolRefinesLeasePool == Spec => LeasePoolSpec
BY RefinesInit, RefinesNext, PermitInvariant, DrainersInvariant, PTL
   DEF Spec, LeasePoolSpec, Abstract!LeaseSpec, Abstract!leaseVars, AbstractVars

-----------------------------------------------------------------------------
(* What the lending pool guarantees holds of the channel pool. *)

Lending == INSTANCE LeasePoolProofs WITH
    Client <- G, Item <- Chan, NoItem <- None, Limit <- PoolSize,
    asking <- Waiting, holds <- hand, shelf <- idle

LEMMA LendingInit == Abstract!LeaseInit => Lending!LeaseInit
BY DEF Abstract!LeaseInit, Lending!LeaseInit

LEMMA LendingNext == [Abstract!LeaseNext]_AbstractVars => [Lending!LeaseNext]_AbstractVars
<1>1. ASSUME NEW S PROVE Abstract!Cardinality(S) = Lending!Cardinality(S)
  BY Zenon DEF Abstract!Cardinality, Lending!Cardinality
<1>2. ASSUME NEW g \in G, Abstract!LendNew(g) PROVE Lending!LendNew(g)
  BY <1>1, <1>2 DEF Abstract!LendNew, Lending!LendNew, Abstract!Lent, Lending!Lent
<1>3. QED
  BY <1>2 DEF Abstract!LeaseNext, Lending!LeaseNext, Abstract!Admit, Lending!Admit,
     Abstract!Refuse, Lending!Refuse, Abstract!LendFromShelf, Lending!LendFromShelf,
     Abstract!Shelve, Lending!Shelve, Abstract!PassOn, Lending!PassOn,
     Abstract!Retire, Lending!Retire, Abstract!ClosePool, Lending!ClosePool,
     Abstract!ClearShelf, Lending!ClearShelf, Abstract!DropItem, Lending!DropItem

(* The channels lent out and the idle ones together, dead ones included,   *)
(* are at most PoolSize, no channel is in two places, and whoever waits in *)
(* Acquire has none.                                                       *)
THEOREM PoolKeepsPromises == Spec => []Lending!LeasePromises
<1>1. None \notin Chan /\ PoolSize \in Nat
  BY ChannelPoolAssumption, SizesUsable
<1>2. Lending!LeaseSpec => []Lending!LeasePromises
  BY <1>1, Lending!LeaseGuarantees
<1>3. LeasePoolSpec => Lending!LeaseSpec
  BY LendingInit, LendingNext, PTL
     DEF LeasePoolSpec, Abstract!LeaseSpec, Abstract!leaseVars, Lending!LeaseSpec,
         Lending!leaseVars, AbstractVars
<1>4. QED
  BY <1>2, <1>3, PoolRefinesLeasePool, PTL

(* Once p.closed is set it stays set, nobody gets past the head of         *)
(* Acquire's loop any more, and nothing goes into the buffer: only         *)
(* goroutines that took their snapshot before Close are still inside.      *)
THEOREM PoolCloseIsFinal ==
    Spec => [][closed => closed' /\ Waiting' \subseteq Waiting /\ idle' \subseteq idle]_vars
<1> DEFINE Final == closed => closed' /\ Waiting' \subseteq Waiting /\ idle' \subseteq idle
<1>1. LeasePoolSpec => Lending!LeaseSpec
  BY LendingInit, LendingNext, PTL
     DEF LeasePoolSpec, Abstract!LeaseSpec, Abstract!leaseVars, Lending!LeaseSpec,
         Lending!leaseVars, AbstractVars
<1>2. Lending!LeaseSpec => [][Lending!ShutForGood]_Lending!leaseVars
  BY Lending!LeaseCloseIsFinal
<1>3. [Lending!ShutForGood]_Lending!leaseVars => [Final]_vars
  BY DEF Lending!ShutForGood, Lending!leaseVars
<1>4. QED
  BY <1>1, <1>2, <1>3, PoolRefinesLeasePool, PTL
=============================================================================
