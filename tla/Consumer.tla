------------------------------- MODULE Consumer ------------------------------
(***************************************************************************)
(* Consumer and RetryConsumer of consumer.go: one consumer of one queue,   *)
(* run by ConsumeWithHandler, ConsumeWithWorkers, ConsumeWithTimeout or    *)
(* ConsumeWithRetry, with the broker and the client library's buffer of    *)
(* deliveries around it.  The channel may be lost at any step.             *)
(*                                                                         *)
(* Messages are told apart by nothing but their name; the order of a queue *)
(* plays no role here.  A handler may succeed, fail, or (with workers or a *)
(* time limit) not come back.                                              *)
(***************************************************************************)
EXTENDS Integers, FiniteSets

CONSTANTS Msg,        \* messages in the queue
          W,          \* worker goroutines
          Main,       \* the goroutine that called ConsumeWith...
          None,
          MaxRetries, \* rc.maxRetries
          Modes       \* ways to consume to start in

ASSUME ConsumerAssumption ==
    /\ Main \notin W /\ W # {}
    /\ None \notin Msg
    /\ MaxRetries \in Nat
    /\ Modes \subseteq {"handler", "workers", "timeout", "retry"}

VARIABLES mode, autoAck,
          chan,    \* the deliveries: "open", "cancelled" or "closed" with the channel
          ctxDone, \* the caller's context has ended
          pc,      \* where Main is
          result,  \* what it returned: "ctx", "ended" (nil), "clean", "late"
          place,   \* at the broker: in the "queue", "out" (unacknowledged), "gone"
          buffer,  \* delivered, not yet received by the code
          hands,   \* the delivery a goroutine is working on
          tries,   \* failed attempts of ConsumeWithRetry at it
          strays,  \* messages of handlers ConsumeWithTimeout has given up on
          handled  \* messages some handler has dealt with successfully

control == <<mode, autoAck, chan, ctxDone, pc, result>>
vars == <<control, place, buffer, hands, tries, strays, handled>>

Runner == W \cup {Main}

(* The goroutines that run handlers. *)
Runs(w) == IF mode = "workers" THEN w \in W ELSE w = Main

TypeOK ==
    /\ mode \in Modes
    /\ autoAck \in BOOLEAN
    /\ chan \in {"open", "cancelled", "closed"}
    /\ ctxDone \in BOOLEAN
    /\ pc \in {"consuming", "cancel", "close", "join", "done"}
    /\ result \in {"none", "ctx", "ended", "clean", "late"}
    /\ place \in [Msg -> {"queue", "out", "gone"}]
    /\ buffer \subseteq Msg
    /\ hands \in [Runner -> Msg \cup {None}]
    /\ tries \in [Runner -> 0..MaxRetries]
    /\ strays \subseteq Msg
    /\ handled \subseteq Msg

(* Consume has returned the channel of deliveries. *)
Init ==
    /\ mode \in Modes
    /\ autoAck \in BOOLEAN
    /\ chan = "open"
    /\ ctxDone = FALSE
    /\ pc = "consuming"
    /\ result = "none"
    /\ place = [m \in Msg |-> "queue"]
    /\ buffer = {}
    /\ hands = [w \in Runner |-> None]
    /\ tries = [w \in Runner |-> 0]
    /\ strays = {}
    /\ handled = {}

-----------------------------------------------------------------------------
(* The broker and the library *)

Deliver(m) ==
    /\ chan = "open" /\ place[m] = "queue"
    /\ place' = [place EXCEPT ![m] = IF autoAck THEN "gone" ELSE "out"]
    /\ buffer' = buffer \cup {m}
    /\ UNCHANGED <<control, hands, tries, strays, handled>>

(* Every unacknowledged message goes back into the queue. *)
Requeued == [m \in Msg |-> IF place[m] = "out" THEN "queue" ELSE place[m]]

(* The connection or the channel is lost, or Consumer.Close is called. *)
ChannelCloses ==
    /\ chan # "closed"
    /\ chan' = "closed"
    /\ place' = Requeued
    /\ UNCHANGED <<mode, autoAck, ctxDone, pc, result, buffer, hands, tries, strays, handled>>

(* On a closed channel the library drops what it still has, sooner or      *)
(* later; on a cancelled one it hands everything out.                      *)
BufferDrops ==
    /\ chan = "closed" /\ buffer # {}
    /\ buffer' = {}
    /\ UNCHANGED <<control, place, hands, tries, strays, handled>>

(* Consumer.Cancel. *)
Cancel ==
    /\ chan = "open"
    /\ chan' = "cancelled"
    /\ UNCHANGED <<mode, autoAck, ctxDone, pc, result, place, buffer, hands, tries, strays, handled>>

CtxEnds ==
    /\ ~ctxDone
    /\ ctxDone' = TRUE
    /\ UNCHANGED <<mode, autoAck, chan, pc, result, place, buffer, hands, tries, strays, handled>>

-----------------------------------------------------------------------------
(* Handling *)

Alive(w) == Runs(w) /\ (w = Main => pc = "consuming")
Drained  == chan # "open" /\ buffer = {}

Take(w, m) ==
    /\ Alive(w) /\ hands[w] = None /\ m \in buffer
    /\ hands' = [hands EXCEPT ![w] = m]
    /\ buffer' = buffer \ {m}
    /\ UNCHANGED <<control, place, tries, strays, handled>>

\* Mutant: Nack does not requeue.
SettleDrops(m, ack) ==
    place' = IF autoAck \/ chan = "closed" THEN place ELSE [place EXCEPT ![m] = "gone"]

(* Ack, or Nack with requeue.  On a closed channel both fail, which        *)
(* nobody looks at; the broker has the message back already.               *)
Settle(m, ack) ==
    place' = IF autoAck \/ chan = "closed" THEN place
             ELSE [place EXCEPT ![m] = IF ack THEN "gone" ELSE "queue"]

Finish(w, ack) ==
    /\ Settle(hands[w], ack)
    /\ hands' = [hands EXCEPT ![w] = None]
    /\ tries' = [tries EXCEPT ![w] = 0]

HandlerOk(w) ==
    /\ hands[w] # None
    /\ Finish(w, TRUE)
    /\ handled' = handled \cup {hands[w]}
    /\ UNCHANGED <<control, buffer, strays>>

\* Mutant: attempt <= maxRetries + 1.
RetriesTooOften(w) == mode = "retry" /\ tries[w] <= MaxRetries
RetriesLeft(w) == mode = "retry" /\ tries[w] < MaxRetries

(* The next attempt, whether the context has ended or not. *)
TryAgain(w) ==
    /\ hands[w] # None /\ RetriesLeft(w)
    /\ tries' = [tries EXCEPT ![w] = @ + 1]
    /\ UNCHANGED <<control, place, buffer, hands, strays, handled>>

\* Mutant: `continue` comes before the Nack.
HandlerFailsUnsettled(w) ==
    /\ hands[w] # None /\ ~RetriesLeft(w)
    /\ hands' = [hands EXCEPT ![w] = None]
    /\ tries' = [tries EXCEPT ![w] = 0]
    /\ UNCHANGED <<control, place, buffer, strays, handled>>

HandlerFails(w) ==
    /\ hands[w] # None /\ ~RetriesLeft(w)
    /\ Finish(w, FALSE)
    /\ UNCHANGED <<control, buffer, strays, handled>>

(* The loop goes on; the handler does too, and nobody hears of its result. *)
HandlerTooSlow ==
    /\ mode = "timeout" /\ hands[Main] # None
    /\ Finish(Main, FALSE)
    /\ strays' = strays \cup {hands[Main]}
    /\ UNCHANGED <<control, buffer, handled>>

StrayEnds(m) ==
    /\ m \in strays
    /\ strays' = strays \ {m}
    /\ handled' \in {handled, handled \cup {m}}
    /\ UNCHANGED <<control, place, buffer, hands, tries>>

-----------------------------------------------------------------------------
(* The end *)

Return(r) == pc' = "done" /\ result' = r

\* Mutant: a `break` that only leaves the select.
CtxReturnBreaks ==
    /\ mode \in {"handler", "retry"} /\ pc = "consuming"
    /\ hands[Main] = None /\ ctxDone
    /\ UNCHANGED vars

(* ConsumeWithHandler looks at the context between two deliveries and      *)
(* leaves the consumer registered.                                         *)
CtxReturn ==
    /\ mode \in {"handler", "retry"} /\ pc = "consuming"
    /\ hands[Main] = None /\ ctxDone
    /\ Return("ctx")
    /\ UNCHANGED <<mode, autoAck, chan, ctxDone, place, buffer, hands, tries, strays, handled>>

DeliveriesEnd ==
    /\ mode # "workers" /\ pc = "consuming"
    /\ hands[Main] = None /\ Drained
    /\ Return("ended")
    /\ UNCHANGED <<mode, autoAck, chan, ctxDone, place, buffer, hands, tries, strays, handled>>

(* ConsumeWithWorkers waits for nothing but the context. *)
StopWorkers ==
    /\ mode = "workers" /\ pc = "consuming" /\ ctxDone
    /\ pc' = "cancel"
    /\ UNCHANGED <<mode, autoAck, chan, ctxDone, result, place, buffer, hands, tries, strays, handled>>

(* Cancel fails if the channel is gone already. *)
CancelWorkers ==
    /\ pc = "cancel"
    /\ chan' = IF chan = "open" THEN "cancelled" ELSE chan
    /\ pc' = "close"
    /\ UNCHANGED <<mode, autoAck, ctxDone, result, place, buffer, hands, tries, strays, handled>>

(* The channel is closed while workers still hold deliveries. *)
CloseChannel ==
    /\ pc = "close"
    /\ chan' = "closed"
    /\ place' = Requeued
    /\ pc' = "join"
    /\ UNCHANGED <<mode, autoAck, ctxDone, result, buffer, hands, tries, strays, handled>>

\* Mutant: only waits until the deliveries end.
NobodyLooks == Drained
WorkersDone == Drained /\ \A w \in W : hands[w] = None

Joined ==
    /\ pc = "join" /\ WorkersDone
    /\ Return("clean")
    /\ UNCHANGED <<mode, autoAck, chan, ctxDone, place, buffer, hands, tries, strays, handled>>

(* defaultConsumerShutdownTimeout *)
JoinTimeout ==
    /\ pc = "join"
    /\ Return("late")
    /\ UNCHANGED <<mode, autoAck, chan, ctxDone, place, buffer, hands, tries, strays, handled>>

-----------------------------------------------------------------------------
Handles(w) == HandlerOk(w) \/ TryAgain(w) \/ HandlerFails(w)

Ends ==
    \/ CtxReturn \/ DeliveriesEnd
    \/ StopWorkers \/ CancelWorkers \/ CloseChannel \/ Joined \/ JoinTimeout

Next ==
    \/ \E m \in Msg : Deliver(m) \/ StrayEnds(m) \/ \E w \in Runner : Take(w, m)
    \/ \E w \in Runner : Handles(w)
    \/ ChannelCloses \/ BufferDrops \/ Cancel \/ CtxEnds
    \/ HandlerTooSlow
    \/ Ends

Spec == Init /\ [][Next]_vars

(* A handler comes back where nothing else ends the wait for it, a timer   *)
(* fires, and select does not choose the deliveries for ever when the      *)
(* context has ended too.                                                  *)
Fairness ==
    /\ SF_vars(Ends) /\ WF_vars(BufferDrops) /\ WF_vars(HandlerTooSlow)
    /\ WF_vars(mode \in {"handler", "retry"} /\ Handles(Main))

FairSpec == Spec /\ Fairness

-----------------------------------------------------------------------------
(* Correctness *)

Holders(m) == {w \in Runner : hands[w] = m}

(* While the channel lasts, an unacknowledged message is in the buffer or  *)
(* with one handler whose result will settle it, and with nobody else: no  *)
(* delivery is forgotten, settled twice, or given to a second handler      *)
(* before it was put back.  (A handler past its time limit is not counted: *)
(* its message may be with another one.)                                   *)
OneOwner ==
    chan # "closed" /\ ~autoAck =>
        \A m \in Msg :
            IF place[m] = "out"
              THEN \/ m \in buffer /\ Holders(m) = {}
                   \/ m \notin buffer /\ Cardinality(Holders(m)) = 1
              ELSE m \notin buffer /\ Holders(m) = {}

(* With manual acknowledgement a message leaves the broker only after a    *)
(* handler has dealt with it, whatever fails, times out or stops.          *)
AtLeastOnce == ~autoAck => \A m \in Msg : place[m] = "gone" => m \in handled

(* Unless ConsumeWithWorkers reports that its workers did not stop, no     *)
(* handler is still running for the consumer when the call returns; what   *)
(* its workers had not acknowledged is back in the queue.  (Again without a *)
(* handler past its time limit.)                                           *)
CleanStop ==
    pc = "done" /\ result # "late" =>
        /\ \A w \in Runner : hands[w] = None
        /\ mode = "workers" => buffer = {} /\ \A m \in Msg : place[m] # "out"

(* A call with a context returns when it ends; a call without workers      *)
(* returns when the channel is lost.                                       *)
CallReturns ==
    /\ (ctxDone /\ mode # "timeout") ~> (pc = "done")
    /\ (chan = "closed" /\ mode # "workers") ~> (pc = "done")
=============================================================================
