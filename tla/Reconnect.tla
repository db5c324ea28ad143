------------------------------ MODULE Reconnect ------------------------------
(***************************************************************************)
(* The two loops that dial again: the helper ReconnectLoop of eamqp.go,    *)
(* which watches the connections through Client.NotifyClose, and           *)
(* reconnectManager.ReconnectLoop of reconnect.go with its backoff, which  *)
(* an application calls when it has lost a connection.  A behaviour uses   *)
(* one of the two.                                                         *)
(*                                                                         *)
(* The dial function is Client.Reconnect, one step here (its own steps are *)
(* in module Client): it closes the old link cleanly, then dials a new     *)
(* one or fails.  Others may call it as well.  Link k has N connections.   *)
(*                                                                         *)
(* NotifyClose is a fan-in: a goroutine for each connection registers a    *)
(* listener, sooner or later, and puts errors into a buffer with room for  *)
(* all; a forwarder puts them one by one into the channel the loop reads,  *)
(* which holds one and is closed when all connections are.                 *)
(***************************************************************************)
EXTENDS Integers, FiniteSets

CONSTANTS N,            \* connections of a link
          Pooled,       \* they are those of a ConnectionPool, not of a plain client
          Loops,        \* loops to choose from
          Policies,     \* policies to choose from
          OthersRedial, \* somebody else calls Client.Reconnect, too
          MaxLinks,     \* bound: links made, the first one included
          MaxTries      \* bound: attempts of an outage where the policy has none

ASSUME ReconnectAssumption ==
    /\ N \in Nat \ {0}
    /\ Pooled \in BOOLEAN /\ (~Pooled => N = 1)
    /\ Loops \subseteq {"helper", "manager"}
    /\ MaxLinks \in Nat \ {0}
    /\ MaxTries \in Nat
    /\ Policies \subseteq [Enabled : BOOLEAN, Initial : Nat, Max : Nat,
                           Num : Int, Den : Nat \ {0}, MaxAttempts : Nat]
    /\ OthersRedial \in BOOLEAN

Conns == 1..N
Links == 1..MaxLinks

VARIABLES loop,    \* "helper" or "manager"
          policy,  \* rm.policy
          pc,      \* where the loop is; "out": not called
          result,  \* of the helper: "none", "ctx", "nil"
          ctxDone, \* the helper's context has ended
          closed,  \* somebody has called Client.Close
          link,    \* the current link
          conn,    \* conn[k][c]: "none", "up", "failed" (with an error) or "shut" (cleanly)
          watched, \* the links NotifyClose was called for
          heard,   \* the link of the channel the helper reads, 0: none yet
          waiting, \* waiting[k]: the connections whose goroutine has not yet registered
          live,    \* live[k]: the connections with a listener that has not ended
          pend,    \* pend[k]: errors in the buffer
          box,     \* box[k]: errors in the channel the loop reads, at most one
          attempt, \* rm.attempt
          dials,   \* failed dials since the last success
          slept    \* the last sleep since the last success

clientVars == <<closed, link, conn>>
notifyVars == <<watched, heard, waiting, live, pend, box>>
managerVars == <<attempt, dials, slept>>
vars == <<loop, policy, pc, result, ctxDone, clientVars, notifyVars, managerVars>>

TypeOK ==
    /\ loop \in {"helper", "manager"}
    /\ policy \in Policies
    /\ pc \in {"out", "next", "sleep", "connect", "backoff", "notify", "watch", "done"}
    /\ result \in {"none", "ctx", "nil"}
    /\ ctxDone \in BOOLEAN
    /\ closed \in BOOLEAN
    /\ link \in Links
    /\ conn \in [Links -> [Conns -> {"none", "up", "failed", "shut"}]]
    /\ watched \subseteq Links
    /\ heard \in Links \cup {0}
    /\ waiting \in [Links -> SUBSET Conns]
    /\ live \in [Links -> SUBSET Conns]
    /\ pend \in [Links -> 0..N]
    /\ box \in [Links -> 0..1]
    /\ attempt \in Int /\ attempt >= -1
    /\ dials \in Nat
    /\ slept \in Nat

(* The helper has no policy; one stands for all. *)
HelpersPolicy == CHOOSE p \in Policies : TRUE

(* The client has lost its first link; nobody watches that one, so it      *)
(* would make no difference if it were up.                                 *)
Init ==
    /\ loop \in Loops
    /\ policy \in Policies /\ (loop = "helper" => policy = HelpersPolicy)
    /\ pc = IF loop = "helper" THEN "connect" ELSE "out"
    /\ result = "none"
    /\ ctxDone = FALSE
    /\ closed = FALSE
    /\ link = 1
    /\ conn = [k \in Links |-> [c \in Conns |-> IF k = 1 THEN "failed" ELSE "none"]]
    /\ watched = {} /\ heard = 0
    /\ waiting = [k \in Links |-> {}]
    /\ live = [k \in Links |-> {}]
    /\ pend = [k \in Links |-> 0]
    /\ box = [k \in Links |-> 0]
    /\ attempt = -1 /\ dials = 0 /\ slept = 0

Step(from, to) == pc = from /\ pc' = to

-----------------------------------------------------------------------------
(* The connections *)

Up(k) == {c \in Conns : conn[k][c] = "up"}

(* Every connection of the link is closed cleanly: no error, the           *)
(* notifications end.                                                      *)
ShutLink(k) ==
    /\ conn' = [conn EXCEPT ![k] = [c \in Conns |-> IF conn[k][c] = "up" THEN "shut" ELSE conn[k][c]]]
    /\ live' = [live EXCEPT ![k] = {}]

\* Mutant: a connection has two listeners.
DropHeardTwice(c) ==
    /\ conn[link][c] = "up"
    /\ conn' = [conn EXCEPT ![link] = [@ EXCEPT ![c] = "failed"]]
    /\ live' = [live EXCEPT ![link] = @ \ {c}]
    /\ pend' = [pend EXCEPT ![link] = IF c \in live[link] THEN @ + 2 ELSE @]
    /\ UNCHANGED <<loop, policy, pc, result, ctxDone, closed, link, watched, heard, waiting, box, managerVars>>

Drop(c) ==
    /\ conn[link][c] = "up"
    /\ conn' = [conn EXCEPT ![link] = [@ EXCEPT ![c] = "failed"]]
    /\ live' = [live EXCEPT ![link] = @ \ {c}]
    /\ pend' = [pend EXCEPT ![link] = IF c \in live[link] THEN @ + 1 ELSE @]
    /\ UNCHANGED <<loop, policy, pc, result, ctxDone, closed, link, watched, heard, waiting, box, managerVars>>

Close ==
    /\ ~closed
    /\ closed' = TRUE
    /\ ShutLink(link)
    /\ UNCHANGED <<loop, policy, pc, result, ctxDone, link, watched, heard, waiting, pend, box, managerVars>>

(* Client.Reconnect.  The links that come after the old one are new. *)
Redial ==
    /\ ~closed /\ link < MaxLinks
    /\ link' = link + 1
    /\ conn' = [conn EXCEPT
                  ![link] = [c \in Conns |-> IF conn[link][c] = "up" THEN "shut" ELSE conn[link][c]],
                  ![link + 1] = [c \in Conns |-> "up"]]
    /\ live' = [live EXCEPT ![link] = {}]
    /\ UNCHANGED <<closed, watched, heard, waiting, pend, box>>

RedialFails ==
    /\ IF closed THEN UNCHANGED <<conn, live>> ELSE ShutLink(link)
    /\ UNCHANGED <<closed, link, watched, heard, waiting, pend, box>>

(* Whoever calls Client.Reconnect besides the loop. *)
OthersReconnect ==
    /\ OthersRedial
    /\ Redial \/ RedialFails
    /\ UNCHANGED <<loop, policy, pc, result, ctxDone, managerVars>>

-----------------------------------------------------------------------------
(* Client.NotifyClose *)

(* The goroutine of one connection asks it for its notifications.  A       *)
(* connection that is down by then ends them at once, without the error.   *)
Register(k, c) ==
    /\ c \in waiting[k]
    /\ waiting' = [waiting EXCEPT ![k] = @ \ {c}]
    /\ live' = IF conn[k][c] = "up" THEN [live EXCEPT ![k] = @ \cup {c}] ELSE live
    /\ UNCHANGED <<loop, policy, pc, result, ctxDone, clientVars, watched, heard, pend, box,
                   managerVars>>

(* The forwarder. *)
Forward(k) ==
    /\ pend[k] > 0 /\ box[k] = 0
    /\ pend' = [pend EXCEPT ![k] = @ - 1]
    /\ box' = [box EXCEPT ![k] = 1]
    /\ UNCHANGED <<loop, policy, pc, result, ctxDone, clientVars, watched, heard, waiting, live, managerVars>>

\* Mutant: the first connection to end closes the channel.
FirstEnds(k) == waiting[k] \cup live[k] # Conns /\ pend[k] = 0 /\ box[k] = 0
Ended(k) == waiting[k] \cup live[k] = {} /\ pend[k] = 0 /\ box[k] = 0

-----------------------------------------------------------------------------
(* The helper *)

Connected ==
    /\ loop = "helper" /\ Step("connect", "notify") /\ Redial
    /\ UNCHANGED <<loop, policy, result, ctxDone, managerVars>>

NotConnected ==
    /\ loop = "helper" /\ Step("connect", "backoff") /\ RedialFails
    /\ UNCHANGED <<loop, policy, result, ctxDone, managerVars>>

(* Five seconds. *)
BackoffOver ==
    /\ Step("backoff", "connect")
    /\ UNCHANGED <<loop, policy, result, ctxDone, clientVars, notifyVars, managerVars>>

(* Client.NotifyClose starts the goroutines of a pool and returns; the     *)
(* listener of a plain connection it registers itself.  (Of a client that  *)
(* has been closed it returns a closed channel, as when all are down.)     *)
Notify ==
    /\ Step("notify", "watch")
    /\ watched' = watched \cup {link}
    /\ heard' = link
    /\ waiting' = [waiting EXCEPT ![link] = IF Pooled THEN Conns ELSE {}]
    /\ live' = [live EXCEPT ![link] = IF Pooled THEN {} ELSE Up(link)]
    /\ UNCHANGED <<loop, policy, result, ctxDone, clientVars, pend, box, managerVars>>

(* The channel is left behind with whatever still comes. *)
HearError ==
    /\ Step("watch", "connect") /\ box[heard] = 1
    /\ box' = [box EXCEPT ![heard] = 0]
    /\ UNCHANGED <<loop, policy, result, ctxDone, clientVars, watched, heard, waiting, live, pend,
                   managerVars>>

(* A closed channel yields nil, which the loop takes for a clean close. *)
HearEnd ==
    /\ Step("watch", "done") /\ Ended(heard)
    /\ result' = "nil"
    /\ UNCHANGED <<loop, policy, ctxDone, clientVars, notifyVars, managerVars>>

CtxEnds ==
    /\ loop = "helper" /\ ~ctxDone
    /\ ctxDone' = TRUE
    /\ UNCHANGED <<loop, policy, pc, result, clientVars, notifyVars, managerVars>>

\* Mutant: time.Sleep between two attempts instead of the select.
CtxReturnWatching ==
    /\ Step("watch", "done") /\ ctxDone
    /\ result' = "ctx"
    /\ UNCHANGED <<loop, policy, ctxDone, clientVars, notifyVars, managerVars>>

CtxReturn ==
    /\ pc \in {"backoff", "watch"} /\ ctxDone
    /\ pc' = "done" /\ result' = "ctx"
    /\ UNCHANGED <<loop, policy, ctxDone, clientVars, notifyVars, managerVars>>

-----------------------------------------------------------------------------
(* The manager *)

Least(a, b) == IF a < b THEN a ELSE b

(* math.Pow, for the numerator and the denominator of the multiplier. *)
Powers(m) == LET pow[n \in Nat] == IF n = 0 THEN 1 ELSE m * pow[n - 1] IN pow

(* ReconnectPolicy.Backoff, in whole units of time, for the multiplier     *)
(* Num / Den.                                                              *)
Backoff(p, a) ==
    IF a <= 0 \/ p.Num = 0 THEN p.Initial
    ELSE Least((p.Initial * Powers(p.Num)[a]) \div Powers(p.Den)[a], p.Max)

Call ==
    /\ loop = "manager" /\ Step("out", "next")
    /\ UNCHANGED <<loop, policy, result, ctxDone, clientVars, notifyVars, managerVars>>

Proceed(a) == policy.MaxAttempts > 0 => a < policy.MaxAttempts

(* rm.next, and the delay.  Nothing resets the counter of a manager that   *)
(* has used up its attempts.                                               *)
TryNext ==
    /\ policy.Enabled /\ Proceed(attempt + 1)
    /\ attempt < MaxTries
    /\ attempt' = attempt + 1
    /\ IF attempt' > 0 /\ Backoff(policy, attempt') > 0
         THEN Step("next", "sleep") /\ slept' = Backoff(policy, attempt')
         ELSE Step("next", "connect") /\ slept' = slept
    /\ UNCHANGED <<loop, policy, result, ctxDone, clientVars, notifyVars, dials>>

(* The loop returns nil; the counter of an enabled manager goes on all the *)
(* same.                                                                   *)
GiveUp ==
    /\ Step("next", "out")
    /\ ~policy.Enabled \/ ~Proceed(attempt + 1)
    /\ attempt' = IF policy.Enabled /\ attempt < MaxTries THEN attempt + 1 ELSE attempt
    /\ UNCHANGED <<loop, policy, result, ctxDone, clientVars, notifyVars, dials, slept>>

Wake ==
    /\ Step("sleep", "connect")
    /\ UNCHANGED <<loop, policy, result, ctxDone, clientVars, notifyVars, managerVars>>

\* Mutant: the counter is reset after each dial.
DialFailsResets ==
    /\ loop = "manager" /\ Step("connect", "next") /\ RedialFails
    /\ dials' = dials + 1
    /\ attempt' = -1
    /\ UNCHANGED <<loop, policy, result, ctxDone, slept>>

DialFails ==
    /\ loop = "manager" /\ Step("connect", "next") /\ RedialFails
    /\ dials' = dials + 1
    /\ UNCHANGED <<loop, policy, result, ctxDone, attempt, slept>>

Reconnected ==
    /\ loop = "manager" /\ Step("connect", "out") /\ Redial
    /\ attempt' = -1 /\ dials' = 0 /\ slept' = 0
    /\ UNCHANGED <<loop, policy, result, ctxDone>>

-----------------------------------------------------------------------------
Helper ==
    \/ Connected \/ NotConnected \/ BackoffOver \/ Notify
    \/ HearError \/ HearEnd \/ CtxReturn

Manager == Call \/ TryNext \/ GiveUp \/ Wake \/ DialFails \/ Reconnected

FanIn == \E k \in Links : Forward(k) \/ \E c \in Conns : Register(k, c)

Next ==
    \/ Helper \/ Manager \/ FanIn \/ CtxEnds \/ Close \/ OthersReconnect
    \/ \E c \in Conns : Drop(c)

Spec == Init /\ [][Next]_vars

(* connect returns, timers fire and some goroutine of the fan-ins that can *)
(* run does; where the context and something else are both ready, select   *)
(* takes the context sometime.                                             *)
Fairness == WF_vars(Helper) /\ WF_vars(FanIn) /\ SF_vars(CtxReturn)

FairSpec == Spec /\ Fairness

-----------------------------------------------------------------------------
(* Correctness *)

(* The helper takes the link it watches for closed only when none of its   *)
(* connections is up: the fan-in ends with the last of them, not with the  *)
(* first.  (Somebody else's Reconnect may have made a newer link by then.) *)
NilOnlyWhenDown ==
    [][result # "nil" /\ result' = "nil" => heard # 0 /\ Up(heard) = {}]_vars

(* An error that a listener of the watched link has got makes the helper   *)
(* go on, and so does the end of its last connection, also when somebody   *)
(* else has made another link meanwhile; and it returns when its context   *)
(* ends, wherever it waits.  (Nobody gets the error of a connection that   *)
(* fails before its goroutine has registered, though NotifyClose may have  *)
(* returned long ago: only the end of the whole link is certain to be      *)
(* noticed.)                                                               *)
HelperReacts ==
    /\ (pc = "watch" /\ (pend[heard] + box[heard] > 0 \/ Up(heard) = {})) ~> (pc # "watch")
    /\ (loop = "helper" /\ ctxDone) ~> (pc = "done")

(* Between two successes the manager dials no oftener than the policy      *)
(* says, however often its loop is called, and never when it is disabled.  *)
DialsWithinPolicy ==
    /\ dials > 0 => policy.Enabled
    /\ policy.MaxAttempts > 0 => dials <= policy.MaxAttempts

(* It sleeps no longer than Max (reconnect.go:13: "Maximum backoff         *)
(* interval"), except that the multiplier 0 means the constant delay       *)
(* Initial, also where that is longer, as reconnect_test.go:86-95 has it   *)
(* with Max left at 0.                                                     *)
SleepsAsConfigured ==
    /\ policy.Num # 0 => slept <= policy.Max
    /\ policy.Num = 0 => slept \in {0, policy.Initial}

WithinPolicy == DialsWithinPolicy /\ SleepsAsConfigured

(* The helper leaves the channel of an old link behind, against the        *)
(* comment at client.go:235-237.  The forwarder is stuck with it for ever  *)
(* only if at least three connections of that link had failed, or if the   *)
(* context ended the loop there.                                           *)
ForwarderStuckOnlyByThree ==
    \A k \in watched : pend[k] > 0 /\ box[k] = 1 =>
        \/ k = heard /\ pc \in {"watch", "done"}
        \/ Cardinality({c \in Conns : conn[k][c] = "failed"}) >= 3

(* eamqp.go:137: "It blocks until the context is cancelled or reconnection *)
(* is disabled"; disabled is read as: the client was closed.               *)
EndsOnlyWhenTold == pc = "done" => ctxDone \/ closed
=============================================================================
