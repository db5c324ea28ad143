------------------------------- MODULE Channel -------------------------------
(***************************************************************************)
(* Channel of channel.go: the wrapper around one leased AMQP channel,      *)
(* composed with the pool the lease comes from.  W are wrapper objects,    *)
(* each made for one lease by AcquireChannel and used by any goroutine of  *)
(* T, also after its Close.  The pool is the abstract LeasePool, whose     *)
(* clients are the wrappers: ChannelPool is shown to implement it.         *)
(*                                                                         *)
(* The methods of the wrapper differ in two things only: whether they mark *)
(* the wrapper stateful, and what they leave behind on the AMQP channel.   *)
(* traits[c] is what earlier calls left on channel c.                      *)
(***************************************************************************)
EXTENDS Integers, FiniteSets

CONSTANTS W,      \* wrapper objects
          T,      \* goroutines
          Chan,   \* AMQP channel objects
          None,   \* no channel, no wrapper
          Limit,  \* the pool's size
          Ops     \* the methods the callers use

(* The methods by what they leave behind.  PlainOps stands for declare,    *)
(* bind, purge, delete, publish, TxCommit, TxRollback and Get with autoAck;  *)
(* AckOps for Ack, Nack, Reject, Recover; "Notify" for each Notify method.  *)
PlainOps  == {"Publish"}
ModeOps   == {"Qos", "Flow", "Tx", "Confirm"}
AckOps    == {"Ack"}
NotifyOps == {"Notify"}

(* Those that call acquireChannel(true), and acquireChannel(false).        *)
StatefulOps  == ModeOps \cup NotifyOps \cup {"Consume"}
StatelessOps == PlainOps \cup AckOps \cup {"Cancel", "Get"}

ASSUME ChannelAssumption ==
    /\ IsFiniteSet(W) /\ IsFiniteSet(T)
    /\ None \notin Chan /\ None \notin W
    /\ Limit \in Nat \ {0}
    /\ Ops \subseteq StatefulOps \cup StatelessOps

Trait == {"consumer", "qos", "flow", "tx", "confirm", "listener", "unacked", "raw"}

(* What a method adds to and removes from the state of the AMQP channel.   *)
(* "Get" is Get(queue, autoAck = false) that found a message.              *)
Leaves == {<<"Consume", "consumer">>, <<"Qos", "qos">>, <<"Flow", "flow">>, <<"Tx", "tx">>,
           <<"Confirm", "confirm">>, <<"Notify", "listener">>, <<"Get", "unacked">>}
Undoes == {<<"Cancel", "consumer">>, <<"Ack", "unacked">>}
Adds(op)    == {x \in Trait : <<op, x>> \in Leaves}
Removes(op) == {x \in Trait : <<op, x>> \in Undoes}

\* Mutant: Confirm calls acquireChannel(false).
MarksAllButConfirm(op) == op \in StatefulOps \ {"Confirm"}

MarksStateful(op) == op \in StatefulOps

VARIABLES asking, holds, shelf, closed,  \* the pool, see LeasePool
          wrapped,   \* wrappers made so far
          amqpCh,    \* ch.amqpCh of each wrapper
          stateful,  \* ch.stateful
          closing,   \* ch.closing
          inflight,  \* the counter of ch.inflight
          pc,        \* where each goroutine is
          on,        \* the wrapper it is in a method of
          doing,     \* the method
          raw,       \* the AMQP channel it got from the wrapper
          discards,  \* in Close: the local copy of ch.stateful
          traits     \* state left on each AMQP channel

poolVars    == <<asking, holds, shelf, closed>>
wrapperVars == <<wrapped, amqpCh, stateful, closing, inflight>>
callVars    == <<pc, on, doing, raw, discards>>
vars == <<poolVars, wrapperVars, callVars, traits>>

Pool == INSTANCE LeasePool WITH Client <- W, Item <- Chan, NoItem <- None

(* "out", "call" (in a method, before the AMQP call), "done" (after it),   *)
(* "raw" (using the channel RawChannel returned), "wait" (in Close).       *)
Label == {"out", "call", "done", "raw", "wait"}

TypeOK ==
    /\ Pool!LeaseTypeOK
    /\ wrapped \subseteq W
    /\ amqpCh \in [W -> Chan \cup {None}]
    /\ stateful \in [W -> BOOLEAN]
    /\ closing \in [W -> BOOLEAN]
    /\ inflight \in [W -> Nat]
    /\ pc \in [T -> Label]
    /\ on \in [T -> W \cup {None}]
    /\ doing \in [T -> Ops \cup {None}]
    /\ raw \in [T -> Chan \cup {None}]
    /\ discards \in [T -> BOOLEAN]
    /\ traits \in [Chan -> SUBSET Trait]

Init ==
    /\ Pool!LeaseInit
    /\ wrapped = {}
    /\ amqpCh = [w \in W |-> None]
    /\ stateful = [w \in W |-> FALSE]
    /\ closing = [w \in W |-> FALSE]
    /\ inflight = [w \in W |-> 0]
    /\ pc = [t \in T |-> "out"]
    /\ on = [t \in T |-> None]
    /\ doing = [t \in T |-> None]
    /\ raw = [t \in T |-> None]
    /\ discards = [t \in T |-> FALSE]
    /\ traits = [c \in Chan |-> {}]

-----------------------------------------------------------------------------
(* The pool answers a wrapper-to-be; each wrapper is made for one lease.   *)

Ask(w) ==
    /\ w \notin wrapped
    /\ Pool!Admit(w)
    /\ UNCHANGED <<wrapperVars, callVars, traits>>

Refused(w) ==
    /\ Pool!Refuse(w)
    /\ UNCHANGED <<wrapperVars, callVars, traits>>

LeaseIdle(w) ==
    /\ Pool!LendFromShelf(w)
    /\ UNCHANGED <<wrapperVars, callVars, traits>>

(* A new AMQP channel starts without state; it is an object no goroutine   *)
(* still refers to.                                                        *)
LeaseNew(w) ==
    /\ Pool!LendNew(w)
    /\ \A t \in T : raw[t] # holds'[w]
    /\ traits' = [traits EXCEPT ![holds'[w]] = {}]
    /\ UNCHANGED <<wrapperVars, callVars>>

(* newChannelWithRelease *)
Wrap(w) ==
    /\ w \notin wrapped /\ holds[w] # None
    /\ wrapped' = wrapped \cup {w}
    /\ amqpCh' = [amqpCh EXCEPT ![w] = holds[w]]
    /\ UNCHANGED <<poolVars, stateful, closing, inflight, callVars, traits>>

ClosePool ==
    /\ Pool!ClosePool
    /\ UNCHANGED <<wrapperVars, callVars, traits>>

(* Close of the pool takes what is idle and closes it. *)
DropIdle ==
    /\ Pool!DropItem
    /\ UNCHANGED <<wrapperVars, callVars, traits>>

-----------------------------------------------------------------------------
(* A method: acquireChannel, the AMQP call, done().  On a closed wrapper   *)
(* acquireChannel fails and nothing changes.                               *)

\* Mutant: acquireChannel lets a method into a wrapper that is closing.
UsableOrClosing(w) == amqpCh[w] # None \/ closing[w]

Usable(w) == amqpCh[w] # None /\ ~closing[w]

\* Mutant: Add(1) is forgotten.
EnterUncounted(t, w, op) ==
    /\ pc[t] = "out" /\ Usable(w)
    /\ stateful' = IF MarksStateful(op) THEN [stateful EXCEPT ![w] = TRUE] ELSE stateful
    /\ pc' = [pc EXCEPT ![t] = "call"]
    /\ on' = [on EXCEPT ![t] = w]
    /\ doing' = [doing EXCEPT ![t] = op]
    /\ raw' = [raw EXCEPT ![t] = amqpCh[w]]
    /\ UNCHANGED <<poolVars, wrapped, amqpCh, inflight, closing, discards, traits>>

Enter(t, w, op) ==
    /\ pc[t] = "out" /\ Usable(w)
    /\ stateful' = IF MarksStateful(op) THEN [stateful EXCEPT ![w] = TRUE] ELSE stateful
    /\ inflight' = [inflight EXCEPT ![w] = @ + 1]
    /\ pc' = [pc EXCEPT ![t] = "call"]
    /\ on' = [on EXCEPT ![t] = w]
    /\ doing' = [doing EXCEPT ![t] = op]
    /\ raw' = [raw EXCEPT ![t] = amqpCh[w]]
    /\ UNCHANGED <<poolVars, wrapped, amqpCh, closing, discards, traits>>

(* The AMQP call may fail and leave the channel as it was. *)
Perform(t) ==
    /\ pc[t] = "call"
    /\ pc' = [pc EXCEPT ![t] = "done"]
    /\ \/ traits' = [traits EXCEPT ![raw[t]] = (@ \cup Adds(doing[t])) \ Removes(doing[t])]
       \/ UNCHANGED traits
    /\ UNCHANGED <<poolVars, wrapperVars, on, doing, raw, discards>>

\* Mutant: an error return skips done().
LeaveUncounted(t) ==
    /\ pc[t] = "done"
    /\ pc' = [pc EXCEPT ![t] = "out"]
    /\ on' = [on EXCEPT ![t] = None]
    /\ doing' = [doing EXCEPT ![t] = None]
    /\ raw' = [raw EXCEPT ![t] = None]
    /\ UNCHANGED <<poolVars, wrapped, amqpCh, stateful, closing, inflight, discards, traits>>

Leave(t) ==
    /\ pc[t] = "done"
    /\ inflight' = [inflight EXCEPT ![on[t]] = @ - 1]
    /\ pc' = [pc EXCEPT ![t] = "out"]
    /\ on' = [on EXCEPT ![t] = None]
    /\ doing' = [doing EXCEPT ![t] = None]
    /\ raw' = [raw EXCEPT ![t] = None]
    /\ UNCHANGED <<poolVars, wrapped, amqpCh, stateful, closing, discards, traits>>

(* RawChannel hands the AMQP channel out; its user is not counted in       *)
(* inflight and may go on after the wrapper was closed.                    *)
RawChannel(t, w) ==
    /\ pc[t] = "out" /\ amqpCh[w] # None
    /\ stateful' = [stateful EXCEPT ![w] = TRUE]
    /\ pc' = [pc EXCEPT ![t] = "raw"]
    /\ on' = [on EXCEPT ![t] = w]
    /\ raw' = [raw EXCEPT ![t] = amqpCh[w]]
    /\ UNCHANGED <<poolVars, wrapped, amqpCh, closing, inflight, doing, discards, traits>>

UseRaw(t) ==
    /\ pc[t] = "raw"
    /\ traits' = [traits EXCEPT ![raw[t]] = @ \cup {"raw"}]
    /\ UNCHANGED <<poolVars, wrapperVars, callVars>>

DropRaw(t) ==
    /\ pc[t] = "raw"
    /\ pc' = [pc EXCEPT ![t] = "out"]
    /\ on' = [on EXCEPT ![t] = None]
    /\ raw' = [raw EXCEPT ![t] = None]
    /\ UNCHANGED <<poolVars, wrapperVars, doing, discards, traits>>

-----------------------------------------------------------------------------
(* Close: the first caller takes the channel out of the wrapper under      *)
(* ch.mu; later callers find nil and return.  Then it waits for the        *)
(* methods under way and gives the channel back.                           *)

\* Mutant: Close does not set ch.amqpCh to nil.
BeginCloseKeepsChannel(t, w) ==
    /\ pc[t] = "out" /\ amqpCh[w] # None
    /\ closing' = [closing EXCEPT ![w] = TRUE]
    /\ stateful' = [stateful EXCEPT ![w] = FALSE]
    /\ discards' = [discards EXCEPT ![t] = stateful[w]]
    /\ pc' = [pc EXCEPT ![t] = "wait"]
    /\ on' = [on EXCEPT ![t] = w]
    /\ raw' = [raw EXCEPT ![t] = amqpCh[w]]
    /\ UNCHANGED <<poolVars, wrapped, amqpCh, inflight, doing, traits>>

BeginClose(t, w) ==
    /\ pc[t] = "out" /\ amqpCh[w] # None
    /\ closing' = [closing EXCEPT ![w] = TRUE]
    /\ amqpCh' = [amqpCh EXCEPT ![w] = None]
    /\ stateful' = [stateful EXCEPT ![w] = FALSE]
    /\ discards' = [discards EXCEPT ![t] = stateful[w]]
    /\ pc' = [pc EXCEPT ![t] = "wait"]
    /\ on' = [on EXCEPT ![t] = w]
    /\ raw' = [raw EXCEPT ![t] = amqpCh[w]]
    /\ UNCHANGED <<poolVars, wrapped, inflight, doing, traits>>

\* Mutant: Close gives the channel back without waiting.
NoWait(t) == pc[t] = "wait"

(* ch.inflight.Wait() has returned. *)
NoneInflight(t) == pc[t] = "wait" /\ inflight[on[t]] = 0

CloseReturns(t) ==
    /\ pc' = [pc EXCEPT ![t] = "out"]
    /\ on' = [on EXCEPT ![t] = None]
    /\ raw' = [raw EXCEPT ![t] = None]
    /\ discards' = [discards EXCEPT ![t] = FALSE]
    /\ UNCHANGED <<wrapperVars, doing, traits>>

GiveBackDiscard(t) ==
    /\ NoneInflight(t) /\ discards[t]
    /\ Pool!Retire(on[t])
    /\ CloseReturns(t)

(* release: the pool passes the channel on, keeps it, or retires it (dead, *)
(* no room, pool closed).                                                  *)
GiveBackRelease(t) ==
    /\ NoneInflight(t) /\ ~discards[t]
    /\ \/ Pool!Shelve(on[t])
       \/ Pool!Retire(on[t])
       \/ \E v \in W \ {on[t]} : Pool!PassOn(on[t], v)
    /\ CloseReturns(t)

-----------------------------------------------------------------------------
PoolStep ==
    \/ \E w \in W : Ask(w) \/ Refused(w) \/ LeaseIdle(w) \/ LeaseNew(w) \/ Wrap(w)
    \/ ClosePool \/ DropIdle

GiveBack(t) == GiveBackDiscard(t) \/ GiveBackRelease(t)

MethodStep(t) == Perform(t) \/ Leave(t)

Call(t) ==
    \/ \E w \in W : BeginClose(t, w) \/ RawChannel(t, w) \/ \E op \in Ops : Enter(t, w, op)
    \/ UseRaw(t) \/ DropRaw(t)

Next == PoolStep \/ \E t \in T : Call(t) \/ MethodStep(t) \/ GiveBack(t)

Spec == Init /\ [][Next]_vars

(* AMQP calls return (with an error when the connection is lost), and a    *)
(* goroutine past Wait gives the channel back.                             *)
FairSpec == Spec /\ \A t \in T : WF_vars(MethodStep(t)) /\ WF_vars(GiveBack(t))

-----------------------------------------------------------------------------
(* Correctness *)

InMethod(w) == {t \in T : pc[t] \in {"call", "done"} /\ on[t] = w}
Closers(w)  == {t \in T : pc[t] = "wait" /\ on[t] = w}

(* A method, and a Close under way, use the channel their wrapper still    *)
(* has on lease: nobody publishes on a channel that was given back and may *)
(* already be lent to another borrower.                                    *)
MethodsUseOwnLease ==
    \A t \in T : pc[t] \in {"call", "done", "wait"} =>
        /\ raw[t] # None
        /\ holds[on[t]] = raw[t]

(* Whatever order Close, a second Close and the methods run in, a lease is *)
(* given back by one goroutine, after which nobody enters the wrapper.     *)
GivenBackOnce ==
    \A w \in W : \A t \in Closers(w) :
        /\ amqpCh[w] = None /\ closing[w]
        /\ \A u \in Closers(w) : u = t

(* The WaitGroup counts the methods under way, and is not raised again     *)
(* once Close waits on it (WaitGroup forbids it).                          *)
InflightExact == \A w \in W : inflight[w] = Cardinality(InMethod(w))
NoEntryWhileClosing ==
    [][\A w \in W : closing[w] => inflight'[w] <= inflight[w]]_vars

(* "Pooled channels that enter stateful modes ... are closed on Close()    *)
(* instead of being returned to the idle pool" (README.md:150): a channel  *)
(* that is idle, or lent and not used yet, carries no state of an earlier  *)
(* borrower.                                                               *)
CleanLease ==
    /\ \A c \in shelf : traits[c] = {}
    /\ \A w \in W \ wrapped : holds[w] # None => traits[holds[w]] = {}

(* What makes these inductive.  A wrapper with a channel holds the lease   *)
(* and is not closing; one that is asked for has not been made yet.        *)
WrapperShape ==
    /\ \A w \in W : amqpCh[w] # None =>
          w \in wrapped /\ holds[w] = amqpCh[w] /\ ~closing[w]
    /\ \A w \in asking : w \notin wrapped /\ holds[w] = None
    /\ \A w \in W \ wrapped : ~closing[w]
    /\ \A w \in W : amqpCh[w] = None => ~stateful[w]
    /\ \A t \in T : pc[t] # "out" => on[t] \in wrapped /\ raw[t] \in Chan
    /\ \A t \in T : pc[t] \in {"call", "done"} => doing[t] \in Ops
LeaseShape ==
    /\ \A w, v \in W : holds[w] # None /\ holds[w] = holds[v] => w = v
    /\ \A w \in W : holds[w] \notin shelf
WrapperInv == TypeOK /\ WrapperShape /\ LeaseShape /\ MethodsUseOwnLease
                     /\ GivenBackOnce /\ InflightExact

(* The wrappers whose channel will be discarded: marked, or a Close that    *)
(* read the mark is under way.  Whoever may still change the state of any   *)
(* other channel leaves nothing on it: the mark is set before the AMQP call, *)
(* and Close reads it after it has shut the others out.                     *)
Condemned == {w \in W : stateful[w] \/ \E t \in Closers(w) : discards[t]}
TraceMarked ==
    /\ \A w \in wrapped : holds[w] # None /\ traits[holds[w]] # {} => w \in Condemned
    /\ \A t \in T : pc[t] = "call" /\ Adds(doing[t]) # {} => on[t] \in Condemned

(* The user of RawChannel is not counted in inflight and may go on after   *)
(* Close: no other borrower ever gets the channel meanwhile.               *)
RawIsPrivate ==
    \A t \in T : pc[t] = "raw" =>
        /\ holds[on[t]] = raw[t] => on[t] \in Condemned
        /\ \A w \in W \ {on[t]} : holds[w] # raw[t]
        /\ raw[t] \notin shelf

(* Close gives the channel back.                                           *)
CloseCompletes == \A t \in T : pc[t] = "wait" ~> pc[t] = "out"
=============================================================================
