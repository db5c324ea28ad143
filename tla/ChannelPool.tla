----------------------------- MODULE ChannelPool -----------------------------
(***************************************************************************)
(* ChannelPool of pool.go: the channels of one AMQP connection, lent to    *)
(* goroutines.  Every goroutine runs Acquire, then release or discard, or  *)
(* Close; an action is one atomic step of the Go code (one channel         *)
(* operation, one atomic counter operation, one network call, or one       *)
(* critical section of p.mu that makes no blocking call).                  *)
(*                                                                         *)
(* Go's buffered channel p.channels is the set idle plus the goroutines    *)
(* parked in a receive: the order of the buffer is abstracted to a choice. *)
(* A send to a channel with a parked receiver hands the value to that      *)
(* receiver, it never enters the buffer (ReleaseHandOff).                  *)
(*                                                                         *)
(* The AMQP channel objects are Chan.  "open" holds those the server and   *)
(* the client library consider open; IsClosed() is membership in it.  An   *)
(* object nobody references any more may be used again for a new channel.  *)
(***************************************************************************)
EXTENDS Integers, FiniteSets

CONSTANTS G,                  \* goroutines
          Chan,               \* AMQP channel objects
          None,               \* no channel
          ChannelPoolSize,    \* Config.ChannelPoolSize
          ChannelPoolMaxIdle, \* Config.ChannelPoolMaxIdle
          Deadlines,          \* goroutines whose context can end
          Upsets              \* which disturbances happen, see Upset

Upset == {"discard", "serverClose", "connDrop", "openError", "optionsError"}

ASSUME ChannelPoolAssumption ==
    /\ IsFiniteSet(G)
    /\ None \notin Chan
    /\ ChannelPoolSize \in Int
    /\ ChannelPoolMaxIdle \in Int
    /\ Deadlines \subseteq G
    /\ Upsets \subseteq Upset

(* newChannelPool makes every configured size usable. *)
PoolSize == IF ChannelPoolSize <= 0 THEN 1 ELSE ChannelPoolSize
MaxIdle  == IF ChannelPoolMaxIdle <= 0 \/ ChannelPoolMaxIdle > PoolSize
              THEN PoolSize ELSE ChannelPoolMaxIdle

(* Where a goroutine is.  Acquire: "snapshot" (loop head), "poll" (first   *)
(* select), "permit", "count", "open", "options", "select" (about to run   *)
(* the second select), "parked" (blocked in it), "check" (a channel was    *)
(* received).  Then "leased", "release".  Close: "closing", "drain".       *)
(* Shared tail of every path that gives a permit up: "close" (ch.Close()), *)
(* "token" and "dec" (releasePermit); it continues at ret[g].              *)
Asking   == {"snapshot", "poll", "permit", "count", "open", "options",
             "select", "parked", "check"}
Label    == Asking \cup {"out", "leased", "release", "closing", "drain",
                         "close", "token", "dec"}
Return   == {"out", "snapshot", "drain"}

VARIABLES pc,       \* where each goroutine is
          ret,      \* where it continues after giving a permit up
          hand,     \* the channel each goroutine has
          expired,  \* goroutines whose context is done
          idle,     \* the buffer of p.channels
          permits,  \* number of tokens in p.permits
          active,   \* p.active
          closed,   \* p.closed, and p.channels closed
          mu,       \* who holds p.mu across a blocking call
          open,     \* AMQP channels that are open
          connUp    \* the AMQP connection is open

poolVars == <<idle, permits, active, closed, mu>>
amqpVars == <<open, connUp>>
vars == <<pc, ret, hand, expired, idle, permits, active, closed, mu, open, connUp>>

TypeOK ==
    /\ pc \in [G -> Label]
    /\ ret \in [G -> Return]
    /\ hand \in [G -> Chan \cup {None}]
    /\ expired \subseteq G
    /\ idle \subseteq Chan
    /\ permits \in 0..PoolSize
    /\ active \in Int
    /\ closed \in BOOLEAN
    /\ mu \in G \cup {None}
    /\ open \subseteq Chan
    /\ connUp \in BOOLEAN

Init ==
    /\ pc = [g \in G |-> "out"]
    /\ ret = [g \in G |-> "out"]
    /\ hand = [g \in G |-> None]
    /\ expired = {}
    /\ idle = {}
    /\ permits = 0
    /\ active = 0
    /\ closed = FALSE
    /\ mu = None
    /\ open = {}
    /\ connUp = TRUE

Referenced == idle \cup ({hand[g] : g \in G} \ {None})
Fresh  == Chan \ (open \cup Referenced)
Parked == {g \in G : pc[g] = "parked"}

GoTo(g, l) == pc' = [pc EXCEPT ![g] = l]

(* g gives its permit up (after closing its channel when l is "close") and *)
(* continues at r.                                                         *)
GiveUpFrom(g, l, r) == /\ GoTo(g, l)
                       /\ ret' = [ret EXCEPT ![g] = r]

-----------------------------------------------------------------------------
(* Acquire *)

BeginAcquire(g) ==
    /\ pc[g] = "out"
    /\ GoTo(g, "snapshot")
    /\ expired' = expired \ {g}
    /\ UNCHANGED <<ret, hand, poolVars, amqpVars>>

\* Mutant: the loop head forgets p.closed.
SnapshotIgnoresClosed(g) ==
    /\ pc[g] = "snapshot" /\ mu = None
    /\ GoTo(g, "poll")
    /\ UNCHANGED <<ret, hand, expired, poolVars, amqpVars>>

Snapshot(g) ==
    /\ pc[g] = "snapshot" /\ mu = None
    /\ GoTo(g, IF closed THEN "out" ELSE "poll")
    /\ UNCHANGED <<ret, hand, expired, poolVars, amqpVars>>

\* Mutant: the second select has no ctx.Done() case.
CtxDonePollOnly(g) ==
    /\ pc[g] = "poll" /\ g \in expired
    /\ GoTo(g, "out")
    /\ UNCHANGED <<ret, hand, expired, poolVars, amqpVars>>

(* A select with several ready cases takes any of them. *)
CtxDone(g) ==
    /\ pc[g] \in {"poll", "select", "parked"} /\ g \in expired
    /\ GoTo(g, "out")
    /\ UNCHANGED <<ret, hand, expired, poolVars, amqpVars>>

TakeIdle(g) ==
    /\ pc[g] \in {"poll", "select"}
    /\ \E c \in idle : /\ hand' = [hand EXCEPT ![g] = c]
                       /\ idle' = idle \ {c}
    /\ GoTo(g, "check")
    /\ UNCHANGED <<ret, expired, permits, active, closed, mu, amqpVars>>

\* Mutant: Close does not close p.channels, parked receivers stay.
IdleClosedNotParked(g) ==
    /\ pc[g] = "poll" /\ closed /\ idle = {}
    /\ GoTo(g, "out")
    /\ UNCHANGED <<ret, hand, expired, poolVars, amqpVars>>

(* A receive from the closed and empty channel returns at once. *)
IdleClosed(g) ==
    /\ pc[g] \in {"poll", "select", "parked"} /\ closed /\ idle = {}
    /\ GoTo(g, "out")
    /\ UNCHANGED <<ret, hand, expired, poolVars, amqpVars>>

NothingReady(g) == g \notin expired /\ idle = {} /\ ~closed

PollDefault(g) ==
    /\ pc[g] = "poll" /\ NothingReady(g)
    /\ GoTo(g, "permit")
    /\ UNCHANGED <<ret, hand, expired, poolVars, amqpVars>>

\* Mutant: the goroutine blocks without looking at the buffer again.
ParkBlind(g) ==
    /\ pc[g] = "select" /\ g \notin expired /\ ~closed
    /\ GoTo(g, "parked")
    /\ UNCHANGED <<ret, hand, expired, poolVars, amqpVars>>

Park(g) ==
    /\ pc[g] = "select" /\ NothingReady(g)
    /\ GoTo(g, "parked")
    /\ UNCHANGED <<ret, hand, expired, poolVars, amqpVars>>

(* The channel received may be dead: its permit goes back, the loop goes on. *)
CheckAlive(g) ==
    /\ pc[g] = "check" /\ hand[g] \in open
    /\ GoTo(g, "leased")
    /\ UNCHANGED <<ret, hand, expired, poolVars, amqpVars>>

\* Mutant: the permit of a dead channel is kept.
CheckDeadKeepsPermit(g) ==
    /\ pc[g] = "check" /\ hand[g] \notin open
    /\ GoTo(g, "snapshot")
    /\ hand' = [hand EXCEPT ![g] = None]
    /\ UNCHANGED <<ret, expired, poolVars, amqpVars>>

CheckDead(g) ==
    /\ pc[g] = "check" /\ hand[g] \notin open
    /\ GiveUpFrom(g, "token", "snapshot")
    /\ hand' = [hand EXCEPT ![g] = None]
    /\ UNCHANGED <<expired, poolVars, amqpVars>>

\* Mutant: one permit too many.
TakePermitOffByOne(g) ==
    /\ pc[g] = "permit" /\ permits <= PoolSize
    /\ permits' = permits + 1
    /\ GoTo(g, "count")
    /\ UNCHANGED <<ret, hand, expired, idle, active, closed, mu, amqpVars>>

(* acquirePermit: the token first, the counter in a step of its own. *)
TakePermit(g) ==
    /\ pc[g] = "permit" /\ permits < PoolSize
    /\ permits' = permits + 1
    /\ GoTo(g, "count")
    /\ UNCHANGED <<ret, hand, expired, idle, active, closed, mu, amqpVars>>

NoPermit(g) ==
    /\ pc[g] = "permit" /\ permits = PoolSize
    /\ GoTo(g, "select")
    /\ UNCHANGED <<ret, hand, expired, poolVars, amqpVars>>

CountUp(g) ==
    /\ pc[g] = "count"
    /\ active' = active + 1
    /\ GoTo(g, "open")
    /\ UNCHANGED <<ret, hand, expired, idle, permits, closed, mu, amqpVars>>

OpenChannel(g) ==
    /\ pc[g] = "open" /\ connUp
    /\ \E c \in Fresh : /\ hand' = [hand EXCEPT ![g] = c]
                        /\ open' = open \cup {c}
    /\ GoTo(g, "options")
    /\ UNCHANGED <<ret, expired, poolVars, connUp>>

OpenFails(g) ==
    /\ pc[g] = "open" /\ (~connUp \/ "openError" \in Upsets)
    /\ GiveUpFrom(g, "token", "out")
    /\ UNCHANGED <<hand, expired, poolVars, amqpVars>>

OptionsDone(g) ==
    /\ pc[g] = "options"
    /\ GoTo(g, "leased")
    /\ UNCHANGED <<ret, hand, expired, poolVars, amqpVars>>

\* Mutant: the channel is not closed when its options fail.
OptionsFailLeaks(g) ==
    /\ pc[g] = "options" /\ "optionsError" \in Upsets
    /\ GiveUpFrom(g, "token", "out")
    /\ hand' = [hand EXCEPT ![g] = None]
    /\ UNCHANGED <<expired, poolVars, amqpVars>>

OptionsFail(g) ==
    /\ pc[g] = "options" /\ "optionsError" \in Upsets
    /\ GiveUpFrom(g, "close", "out")
    /\ UNCHANGED <<hand, expired, poolVars, amqpVars>>

-----------------------------------------------------------------------------
(* The borrower calls release or discard, exactly one of them once per     *)
(* lease: Channel.Close sees to that (module Channel).                     *)

CallRelease(g) ==
    /\ pc[g] = "leased"
    /\ GoTo(g, "release")
    /\ UNCHANGED <<ret, hand, expired, poolVars, amqpVars>>

CallDiscard(g) ==
    /\ pc[g] = "leased" /\ "discard" \in Upsets
    /\ GiveUpFrom(g, "close", "out")
    /\ UNCHANGED <<hand, expired, poolVars, amqpVars>>

(* release runs under p.mu.  The cases that close a channel or give the    *)
(* permit up keep the lock until CountDown; the others are one step.       *)
Releasing(g) == pc[g] = "release" /\ mu = None

ReleaseClosed(g) ==
    /\ Releasing(g) /\ closed
    /\ GiveUpFrom(g, "close", "out")
    /\ mu' = g
    /\ UNCHANGED <<hand, expired, idle, permits, active, closed, amqpVars>>

ReleaseDead(g) ==
    /\ Releasing(g) /\ ~closed /\ hand[g] \notin open
    /\ GiveUpFrom(g, "token", "out")
    /\ hand' = [hand EXCEPT ![g] = None]
    /\ mu' = g
    /\ UNCHANGED <<expired, idle, permits, active, closed, amqpVars>>

\* Mutant: the channel goes to the receiver and into the buffer.
ReleaseHandOffTwice(g, w) ==
    /\ Releasing(g) /\ ~closed /\ hand[g] \in open
    /\ w \in Parked
    /\ hand' = [hand EXCEPT ![g] = None, ![w] = hand[g]]
    /\ pc' = [pc EXCEPT ![g] = "out", ![w] = "check"]
    /\ idle' = idle \cup {hand[g]}
    /\ UNCHANGED <<ret, expired, permits, active, closed, mu, amqpVars>>

ReleaseHandOff(g, w) ==
    /\ Releasing(g) /\ ~closed /\ hand[g] \in open
    /\ w \in Parked
    /\ hand' = [hand EXCEPT ![g] = None, ![w] = hand[g]]
    /\ pc' = [pc EXCEPT ![g] = "out", ![w] = "check"]
    /\ UNCHANGED <<ret, expired, poolVars, amqpVars>>

\* Mutant: release does not look at p.closed.
ReleaseShelveClosed(g) ==
    /\ Releasing(g) /\ hand[g] \in open
    /\ Parked = {} /\ Cardinality(idle) < MaxIdle
    /\ idle' = idle \cup {hand[g]}
    /\ hand' = [hand EXCEPT ![g] = None]
    /\ GoTo(g, "out")
    /\ UNCHANGED <<ret, expired, permits, active, closed, mu, amqpVars>>

ReleaseShelve(g) ==
    /\ Releasing(g) /\ ~closed /\ hand[g] \in open
    /\ Parked = {} /\ Cardinality(idle) < MaxIdle
    /\ idle' = idle \cup {hand[g]}
    /\ hand' = [hand EXCEPT ![g] = None]
    /\ GoTo(g, "out")
    /\ UNCHANGED <<ret, expired, permits, active, closed, mu, amqpVars>>

\* Mutant: the permit of a surplus channel goes back, the channel stays open.
ReleaseOverflowLeaks(g) ==
    /\ Releasing(g) /\ ~closed /\ hand[g] \in open
    /\ Parked = {} /\ Cardinality(idle) >= MaxIdle
    /\ GiveUpFrom(g, "token", "out")
    /\ hand' = [hand EXCEPT ![g] = None]
    /\ mu' = g
    /\ UNCHANGED <<expired, idle, permits, active, closed, amqpVars>>

ReleaseOverflow(g) ==
    /\ Releasing(g) /\ ~closed /\ hand[g] \in open
    /\ Parked = {} /\ Cardinality(idle) >= MaxIdle
    /\ GiveUpFrom(g, "close", "out")
    /\ mu' = g
    /\ UNCHANGED <<hand, expired, idle, permits, active, closed, amqpVars>>

(* ch.Close(): its error, if any, is dropped. *)
CloseChannel(g) ==
    /\ pc[g] = "close"
    /\ open' = open \ {hand[g]}
    /\ hand' = [hand EXCEPT ![g] = None]
    /\ GoTo(g, "token")
    /\ UNCHANGED <<ret, expired, poolVars, connUp>>

(* releasePermit: a token if there is one, then the counter if positive.   *)
(* The compare-and-swap loop is one step, the one that succeeds.           *)
ReturnToken(g) ==
    /\ pc[g] = "token"
    /\ permits' = IF permits > 0 THEN permits - 1 ELSE permits
    /\ GoTo(g, "dec")
    /\ UNCHANGED <<ret, hand, expired, idle, active, closed, mu, amqpVars>>

\* Mutant: the guard of the gauge is off by one.
CountDownOffByOne(g) ==
    /\ pc[g] = "dec"
    /\ active' = IF active <= 1 THEN active ELSE active - 1
    /\ mu' = IF mu = g THEN None ELSE mu
    /\ GoTo(g, ret[g])
    /\ UNCHANGED <<ret, hand, expired, idle, permits, closed, amqpVars>>

\* Mutant: release returns without unlocking p.mu.
CountDownKeepsLock(g) ==
    /\ pc[g] = "dec"
    /\ active' = IF active <= 0 THEN active ELSE active - 1
    /\ GoTo(g, ret[g])
    /\ UNCHANGED <<ret, hand, expired, idle, permits, closed, mu, amqpVars>>

CountDown(g) ==
    /\ pc[g] = "dec"
    /\ active' = IF active <= 0 THEN active ELSE active - 1
    /\ mu' = IF mu = g THEN None ELSE mu
    /\ GoTo(g, ret[g])
    /\ UNCHANGED <<ret, hand, expired, idle, permits, closed, amqpVars>>

-----------------------------------------------------------------------------
(* Close *)

BeginClose(g) ==
    /\ pc[g] = "out"
    /\ GoTo(g, "closing")
    /\ UNCHANGED <<ret, hand, expired, poolVars, amqpVars>>

\* Mutant: Close does not drain the buffer.
MarkClosedNoDrain(g) ==
    /\ pc[g] = "closing" /\ mu = None
    /\ closed' = TRUE
    /\ GoTo(g, "out")
    /\ UNCHANGED <<ret, hand, expired, idle, permits, active, mu, amqpVars>>

MarkClosed(g) ==
    /\ pc[g] = "closing" /\ mu = None
    /\ closed' = TRUE
    /\ GoTo(g, IF closed THEN "out" ELSE "drain")
    /\ UNCHANGED <<ret, hand, expired, idle, permits, active, mu, amqpVars>>

DrainOne(g) ==
    /\ pc[g] = "drain"
    /\ \E c \in idle : /\ hand' = [hand EXCEPT ![g] = c]
                       /\ idle' = idle \ {c}
    /\ GiveUpFrom(g, "close", "drain")
    /\ UNCHANGED <<expired, permits, active, closed, mu, amqpVars>>

DrainDone(g) ==
    /\ pc[g] = "drain" /\ idle = {}
    /\ GoTo(g, "out")
    /\ UNCHANGED <<ret, hand, expired, poolVars, amqpVars>>

-----------------------------------------------------------------------------
(* The environment: deadlines, the server and the network. *)

Expire(g) ==
    /\ g \in Deadlines \ expired /\ pc[g] \in Asking
    /\ expired' = expired \cup {g}
    /\ UNCHANGED <<pc, ret, hand, poolVars, amqpVars>>

ServerClosesChannel(c) ==
    /\ "serverClose" \in Upsets
    /\ c \in open
    /\ open' = open \ {c}
    /\ UNCHANGED <<pc, ret, hand, expired, poolVars, connUp>>

ConnectionDrops ==
    /\ "connDrop" \in Upsets /\ connUp
    /\ connUp' = FALSE
    /\ open' = {}
    /\ UNCHANGED <<pc, ret, hand, expired, poolVars>>

-----------------------------------------------------------------------------
AcquireStep(g) ==
    \/ Snapshot(g) \/ CtxDone(g) \/ TakeIdle(g) \/ IdleClosed(g)
    \/ PollDefault(g) \/ Park(g) \/ CheckAlive(g) \/ CheckDead(g)
    \/ TakePermit(g) \/ NoPermit(g) \/ CountUp(g)
    \/ OpenChannel(g) \/ OpenFails(g) \/ OptionsDone(g) \/ OptionsFail(g)

ReleaseStep(g) ==
    \/ ReleaseClosed(g) \/ ReleaseDead(g) \/ ReleaseShelve(g) \/ ReleaseOverflow(g)
    \/ \E w \in G : ReleaseHandOff(g, w)

GiveUpStep(g) == CloseChannel(g) \/ ReturnToken(g) \/ CountDown(g)

CloseStep(g) == MarkClosed(g) \/ DrainOne(g) \/ DrainDone(g)

(* What the pool's own code does for g, as opposed to what callers start. *)
Step(g) == AcquireStep(g) \/ ReleaseStep(g) \/ GiveUpStep(g) \/ CloseStep(g)

GiveBack(g) == CallRelease(g) \/ CallDiscard(g)

Call(g) == BeginAcquire(g) \/ GiveBack(g) \/ BeginClose(g)

Environment ==
    \/ \E g \in G : Expire(g)
    \/ \E c \in Chan : ServerClosesChannel(c)
    \/ ConnectionDrops

Next == (\E g \in G : Call(g) \/ Step(g)) \/ Environment

Spec == Init /\ [][Next]_vars

(***************************************************************************)
(* The scheduler runs every goroutine; sync.RWMutex does not starve one;   *)
(* network calls return; a select whose context stays done takes that case *)
(* in the end (it picks uniformly); parked receivers are served in the     *)
(* order they came; and a borrower gives its lease back.                   *)
(***************************************************************************)
Fairness ==
    \A g \in G : /\ SF_vars(Step(g))
                 /\ SF_vars(CtxDone(g))
                 /\ SF_vars(\E r \in G : ReleaseHandOff(r, g))
                 /\ WF_vars(GiveBack(g))

FairSpec == Spec /\ Fairness

-----------------------------------------------------------------------------
(* Correctness *)

HasPermit(g) == hand[g] # None \/ pc[g] \in {"count", "open", "token"}
Holders  == {g \in G : HasPermit(g)}
Counting   == {g \in G : pc[g] = "count"}
Uncounting == {g \in G : pc[g] = "dec"}
Draining == {g \in G : \/ pc[g] = "drain"
                       \/ pc[g] \in {"close", "token", "dec"} /\ ret[g] = "drain"}

(* No channel is lent to two goroutines, or lent and idle at once: the     *)
(* race between release, the hand-off and the drain of Close.              *)
ExclusiveLease ==
    /\ \A g, h \in G : hand[g] # None /\ hand[g] = hand[h] => g = h
    /\ \A g \in G : hand[g] \notin idle

(* Every permit is held for one channel: taken out, idle, or on its way in *)
(* or out.  A path of Acquire, release, discard or Close that forgot       *)
(* releasePermit, or ran it twice, would shrink or grow the pool for good. *)
PermitsBalanced == permits = Cardinality(Holders) + Cardinality(idle)

(* The connection never has more open channels than the configured size:   *)
(* each path closes a channel before it lets its permit go.                *)
OpenWithinLimit == Cardinality(open) <= PoolSize

(* No open channel is forgotten: somebody has it or it is idle.            *)
NoChannelLeaked == open \subseteq Referenced

(* What makes the above inductive: the labels at which a goroutine has a   *)
(* channel.                                                                *)
HandMatchesLabel ==
    \A g \in G : hand[g] # None <=>
        pc[g] \in {"options", "check", "leased", "release", "close"}

LeaseInv  == TypeOK /\ HandMatchesLabel /\ ExclusiveLease /\ NoChannelLeaked
PermitInv == LeaseInv /\ IsFiniteSet(idle) /\ PermitsBalanced

(* The active gauge, updated apart from the permits, differs from them     *)
(* only by updates under way; neither the default case of releasePermit    *)
(* nor its "active <= 0" guard ever swallows a release.                    *)
ActiveTracksPermits ==
    /\ active = permits - Cardinality(Counting) + Cardinality(Uncounting)
    /\ \A g \in G : /\ pc[g] = "token" => permits > 0
                    /\ pc[g] = "dec" => active > 0

(* Once the Close that closed the pool has returned, nothing is idle, and  *)
(* when the last borrower is done nothing is open and nothing is counted,  *)
(* whatever raced with Close on an old snapshot.                           *)
ClosedPoolEmpties ==
    closed /\ Draining = {} =>
        /\ idle = {}
        /\ (\A g \in G : pc[g] = "out") => open = {} /\ permits = 0 /\ active = 0

(* Nothing is put into the buffer of a closed pool (Go would panic).       *)
NothingShelvedAfterClose == [][closed => idle' \subseteq idle]_vars

(* The pool implements the abstract lending pool.                          *)
Waiting == {g \in G : pc[g] \in {"poll", "permit", "count", "open", "select", "parked"}}
Abstract == INSTANCE LeasePool WITH
    Client <- G, Item <- Chan, NoItem <- None, Limit <- PoolSize,
    asking <- Waiting, holds <- hand, shelf <- idle
LeasePoolSpec == Abstract!LeaseSpec

(* An Acquire whose context is done comes back, even from the second       *)
(* select and even when it keeps receiving dead channels.                  *)
DeadlineHonoured ==
    \A g \in Deadlines : g \in expired /\ pc[g] \in Asking ~> pc[g] \in {"out", "leased"}

(* Close returns, and every Acquire blocked on the pool notices it.        *)
CloseReturns == \A g \in G : pc[g] \in {"closing", "drain"} ~> pc[g] = "out"
CloseWakesWaiters ==
    \A g \in G : closed /\ pc[g] \in {"select", "parked"}
                    ~> pc[g] \notin {"select", "parked"}

(* Without upsets, whoever waits for a channel gets one.                   *)
WaiterServed == \A g \in G : pc[g] = "parked" ~> pc[g] \in {"check", "out"}

(* "A full buffer means the pool has reached its active channel limit"     *)
(* (pool.go, the comment on permits): nobody stays blocked while the       *)
(* permits are not full.                                                   *)
BlockedOnlyAtLimit ==
    \A g \in G : pc[g] = "parked" /\ permits < PoolSize
                    ~> pc[g] # "parked" \/ permits = PoolSize
=============================================================================
