---------------------------- MODULE ConsumerProofs ----------------------------
(***************************************************************************)
(* Theorems about Consumer, for any messages, workers and retries.  The    *)
(* inductive invariant adds to the checked ones what holds on the way to   *)
(* the end of a call (Ending): which goroutines can have a delivery at all *)
(* and that a closed channel leaves nothing unacknowledged at the broker.  *)
(***************************************************************************)
EXTENDS Consumer, FiniteSetTheorems, TLAPS

(* OneOwner without counting. *)
Owned ==
    chan # "closed" /\ ~autoAck =>
        \A m \in Msg :
            IF place[m] = "out"
              THEN \/ m \in buffer /\ \A w \in Runner : hands[w] # m
                   \/ m \notin buffer /\ \E w \in Runner : \A v \in Runner : hands[v] = m <=> v = w
              ELSE m \notin buffer /\ \A w \in Runner : hands[w] # m

Ending ==
    /\ \A w \in Runner : hands[w] # None => Runs(w)
    /\ chan = "closed" => \A m \in Msg : place[m] # "out"
    /\ pc \in {"cancel", "close", "join"} => mode = "workers"
    /\ pc = "join" => chan = "closed"
    /\ pc = "done" /\ mode # "workers" => hands[Main] = None /\ result # "clean"
    /\ pc = "done" /\ mode = "workers" => chan = "closed" /\ result \in {"clean", "late"}
    /\ pc = "done" /\ result = "clean" => buffer = {} /\ \A w \in Runner : hands[w] = None

ConsumerInv == TypeOK /\ Owned /\ AtLeastOnce /\ Ending

-----------------------------------------------------------------------------
LEMMA OwnedCounts == Owned => OneOwner
<1> SUFFICES ASSUME Owned, chan # "closed", ~autoAck, NEW m \in Msg
             PROVE  IF place[m] = "out"
                      THEN \/ m \in buffer /\ Holders(m) = {}
                           \/ m \notin buffer /\ Cardinality(Holders(m)) = 1
                      ELSE m \notin buffer /\ Holders(m) = {}
  BY DEF OneOwner
<1>1. ASSUME NEW w \in Runner, \A v \in Runner : hands[v] = m <=> v = w
      PROVE  Cardinality(Holders(m)) = 1
  <2>1. Holders(m) = {w}
    BY <1>1 DEF Holders
  <2>2. QED
    BY <2>1, FS_Singleton
<1>2. (\A w \in Runner : hands[w] # m) => Holders(m) = {}
  BY DEF Holders
<1>3. QED
  BY <1>1, <1>2 DEF Owned

LEMMA EndingIsClean == ConsumerInv => CleanStop
<1> SUFFICES ASSUME ConsumerInv, pc = "done", result # "late"
             PROVE  /\ \A w \in Runner : hands[w] = None
                    /\ mode = "workers" => buffer = {} /\ \A m \in Msg : place[m] # "out"
  BY DEF CleanStop
<1>1. CASE mode = "workers"
  BY <1>1 DEF ConsumerInv, Ending
<1>2. CASE mode # "workers"
  BY <1>2 DEF ConsumerInv, Ending, Runs
<1>3. QED
  BY <1>1, <1>2

LEMMA ConsumerStart == Init => ConsumerInv
<1> SUFFICES ASSUME Init PROVE ConsumerInv
  OBVIOUS
<1>1. TypeOK
  <2>1. /\ place \in [Msg -> {"queue", "out", "gone"}]
        /\ hands \in [Runner -> Msg \cup {None}] /\ tries \in [Runner -> 0..MaxRetries]
    BY ConsumerAssumption DEF Init
  <2>2. mode \in Modes
    BY DEF Init
  <2>3. autoAck \in BOOLEAN
    BY DEF Init
  <2>4. /\ chan = "open" /\ ctxDone = FALSE /\ pc = "consuming" /\ result = "none"
        /\ buffer = {} /\ strays = {} /\ handled = {}
    BY DEF Init
  <2>5. QED
    BY <2>1, <2>2, <2>3, <2>4 DEF TypeOK
<1>2. \A m \in Msg, w \in Runner : place[m] = "queue" /\ hands[w] = None /\ m # None
  BY ConsumerAssumption DEF Init
<1>3. Owned /\ AtLeastOnce /\ Ending
  BY <1>2 DEF Init, Owned, AtLeastOnce, Ending
<1>4. QED
  BY <1>1, <1>3 DEF ConsumerInv

-----------------------------------------------------------------------------
(* The broker, the library and the caller *)

LEMMA DeliverKeeps == ASSUME ConsumerInv, NEW m \in Msg, Deliver(m) PROVE ConsumerInv'
<1> USE DEF ConsumerInv, control
<1>1. TypeOK'
  BY DEF Deliver, TypeOK
<1>2. /\ place[m] = "queue" /\ place'[m] = IF autoAck THEN "gone" ELSE "out"
      /\ \A k \in Msg \ {m} : place'[k] = place[k]
      /\ chan = "open" /\ buffer' = buffer \cup {m}
  BY DEF Deliver, TypeOK
<1>3. Owned'
  BY <1>2 DEF Deliver, Owned
<1>4. AtLeastOnce'
  BY <1>2 DEF Deliver, AtLeastOnce
<1>5. Ending'
  BY <1>2 DEF Deliver, Ending, Runs
<1>6. QED
  BY <1>1, <1>3, <1>4, <1>5

LEMMA RequeuedRuns ==
    ASSUME TypeOK
    PROVE  /\ Requeued \in [Msg -> {"queue", "out", "gone"}]
           /\ \A m \in Msg : Requeued[m] # "out" /\ (Requeued[m] = "gone" => place[m] = "gone")
BY DEF Requeued, TypeOK

LEMMA OutsideKeeps ==
    ASSUME ConsumerInv, ChannelCloses \/ BufferDrops \/ Cancel \/ CtxEnds PROVE ConsumerInv'
<1> USE DEF ConsumerInv, control
<1>1. CASE ChannelCloses
  <2>1. TypeOK' /\ Owned'
    BY <1>1, RequeuedRuns DEF ChannelCloses, TypeOK, Owned
  <2>2. AtLeastOnce' /\ Ending'
    BY <1>1, RequeuedRuns DEF ChannelCloses, AtLeastOnce, Ending, Runs
  <2>3. QED
    BY <2>1, <2>2
<1>2. CASE BufferDrops
  BY <1>2 DEF BufferDrops, TypeOK, Owned, AtLeastOnce, Ending, Runs
<1>3. CASE Cancel
  BY <1>3 DEF Cancel, TypeOK, Owned, AtLeastOnce, Ending, Runs
<1>4. CASE CtxEnds
  BY <1>4 DEF CtxEnds, TypeOK, Owned, AtLeastOnce, Ending, Runs
<1>5. QED
  BY <1>1, <1>2, <1>3, <1>4

-----------------------------------------------------------------------------
(* Handling *)

LEMMA TakeKeeps ==
    ASSUME ConsumerInv, NEW w \in Runner, NEW m \in Msg, Take(w, m) PROVE ConsumerInv'
<1> USE DEF ConsumerInv, control
<1>1. /\ Runs(w) /\ (w = Main => pc = "consuming") /\ hands[w] = None /\ m \in buffer /\ m # None
      /\ hands'[w] = m /\ \A v \in Runner \ {w} : hands'[v] = hands[v]
      /\ buffer' = buffer \ {m}
      /\ UNCHANGED <<mode, autoAck, chan, ctxDone, pc, result, place, tries, strays, handled>>
  BY ConsumerAssumption DEF Take, Alive, TypeOK
<1>2. TypeOK'
  BY <1>1 DEF Take, TypeOK
<1>3. Owned'
  <2> SUFFICES ASSUME chan # "closed", ~autoAck, NEW k \in Msg
               PROVE  IF place[k] = "out"
                        THEN \/ k \in buffer' /\ \A v \in Runner : hands'[v] # k
                             \/ k \notin buffer' /\ \E u \in Runner : \A v \in Runner : hands'[v] = k <=> v = u
                        ELSE k \notin buffer' /\ \A v \in Runner : hands'[v] # k
    BY <1>1 DEF Owned
  <2>1. CASE k = m
    BY <1>1, <2>1 DEF Owned
  <2>2. CASE k # m
    <3>1. k # None /\ \A v \in Runner : hands'[v] = k <=> hands[v] = k
      BY <1>1, <2>2, ConsumerAssumption
    <3>2. k \in buffer' <=> k \in buffer
      BY <1>1, <2>2
    <3>3. QED
      BY <3>1, <3>2 DEF Owned
  <2>3. QED
    BY <2>1, <2>2
<1>4. AtLeastOnce'
  BY <1>1 DEF AtLeastOnce
<1>5. Ending'
  BY <1>1 DEF Ending, Runs, Runner
<1>6. QED
  BY <1>2, <1>3, <1>4, <1>5

(* A delivery is acknowledged or put back, and leaves its goroutine. *)
LEMMA FinishKeeps ==
    ASSUME ConsumerInv, NEW w \in Runner, NEW ack \in BOOLEAN, hands[w] # None, Finish(w, ack),
           UNCHANGED <<control, buffer>>, strays' \subseteq Msg,
           handled' = IF ack THEN handled \cup {hands[w]} ELSE handled
    PROVE  ConsumerInv'
<1> USE DEF ConsumerInv, control
<1>0. hands[w] \in Msg /\ hands \in [Runner -> Msg \cup {None}] /\ place \in [Msg -> {"queue", "out", "gone"}]
  BY DEF TypeOK
<1>1. /\ hands' = [hands EXCEPT ![w] = None] /\ tries' = [tries EXCEPT ![w] = 0]
      /\ place' = IF autoAck \/ chan = "closed" THEN place
                  ELSE [place EXCEPT ![hands[w]] = IF ack THEN "gone" ELSE "queue"]
  BY DEF Finish, Settle
<1>2. /\ hands'[w] = None /\ \A v \in Runner \ {w} : hands'[v] = hands[v]
  BY <1>0, <1>1
<1>3. \A m \in Msg :
         place'[m] = IF m = hands[w] /\ ~autoAck /\ chan # "closed"
                       THEN IF ack THEN "gone" ELSE "queue"
                       ELSE place[m]
  BY <1>0, <1>1
<1>4. TypeOK'
  <2>1. place' \in [Msg -> {"queue", "out", "gone"}]
    BY <1>0, <1>1
  <2>2. hands' \in [Runner -> Msg \cup {None}] /\ tries' \in [Runner -> 0..MaxRetries]
    BY <1>0, <1>1, ConsumerAssumption DEF TypeOK
  <2>3. handled' \subseteq Msg
    BY <1>0 DEF TypeOK
  <2>4. QED
    BY <2>1, <2>2, <2>3 DEF TypeOK
<1>5. Owned'
  <2> SUFFICES ASSUME chan # "closed", ~autoAck, NEW k \in Msg
               PROVE  IF place'[k] = "out"
                        THEN \/ k \in buffer /\ \A v \in Runner : hands'[v] # k
                             \/ k \notin buffer /\ \E u \in Runner : \A v \in Runner : hands'[v] = k <=> v = u
                        ELSE k \notin buffer /\ \A v \in Runner : hands'[v] # k
    BY DEF Owned
  <2>1. k # None
    BY ConsumerAssumption
  <2>2. CASE k = hands[w]
    <3>1. k \notin buffer /\ \A v \in Runner : hands[v] = k => v = w
      BY <2>2 DEF Owned
    <3>2. place'[k] # "out"
      BY <1>3, <2>2
    <3>3. QED
      BY <1>2, <2>1, <3>1, <3>2
  <2>3. CASE k # hands[w]
    <3>1. \A v \in Runner : hands'[v] = k <=> hands[v] = k
      BY <1>2, <2>1, <2>3
    <3>2. place'[k] = place[k]
      BY <1>3, <2>3
    <3>3. QED
      BY <3>1, <3>2 DEF Owned
  <2>4. QED
    BY <2>2, <2>3
<1>6. AtLeastOnce'
  BY <1>0, <1>3 DEF AtLeastOnce
<1>7. Ending'
  <2>1. \A m \in Msg : chan = "closed" => place'[m] = place[m]
    BY <1>3
  <2>2. \A v \in Runner : hands'[v] # None => hands'[v] = hands[v]
    BY <1>2
  <2>3. hands[Main] = None => hands'[Main] = None
    BY <1>2 DEF Runner
  <2>4. QED
    BY <2>1, <2>2, <2>3 DEF Ending, Runs
<1>8. QED
  BY <1>4, <1>5, <1>6, <1>7

LEMMA HandlesKeeps == ASSUME ConsumerInv, NEW w \in Runner, Handles(w) PROVE ConsumerInv'
<1>1. CASE HandlerOk(w)
  <2>1. UNCHANGED <<control, buffer>> /\ strays' \subseteq Msg
    BY <1>1 DEF HandlerOk, ConsumerInv, TypeOK
  <2>2. QED
    BY <1>1, <2>1, FinishKeeps DEF HandlerOk
<1>2. CASE HandlerFails(w)
  <2>1. UNCHANGED <<control, buffer>> /\ strays' \subseteq Msg
    BY <1>2 DEF HandlerFails, ConsumerInv, TypeOK
  <2>2. QED
    BY <1>2, <2>1, FinishKeeps DEF HandlerFails
<1>3. CASE TryAgain(w)
  <2>1. TypeOK'
    BY <1>3, ConsumerAssumption DEF TryAgain, RetriesLeft, ConsumerInv, TypeOK, control
  <2>2. QED
    BY <1>3, <2>1 DEF TryAgain, ConsumerInv, control, Owned, AtLeastOnce, Ending, Runs
<1>4. QED
  BY <1>1, <1>2, <1>3 DEF Handles

LEMMA StrayKeeps ==
    ASSUME ConsumerInv, HandlerTooSlow \/ \E m \in Msg : StrayEnds(m) PROVE ConsumerInv'
<1>1. CASE HandlerTooSlow
  <2>1. UNCHANGED <<control, buffer>> /\ strays' \subseteq Msg /\ Main \in Runner
    BY <1>1 DEF HandlerTooSlow, ConsumerInv, TypeOK, Runner
  <2>2. QED
    BY <1>1, <2>1, FinishKeeps DEF HandlerTooSlow
<1>2. CASE \E m \in Msg : StrayEnds(m)
  <2>1. /\ strays' \subseteq Msg /\ handled \subseteq handled' /\ handled' \subseteq Msg
        /\ UNCHANGED <<control, place, buffer, hands, tries>>
    BY <1>2 DEF StrayEnds, ConsumerInv, TypeOK
  <2>2. QED
    BY <2>1 DEF ConsumerInv, control, TypeOK, Owned, AtLeastOnce, Ending, Runs
<1>3. QED
  BY <1>1, <1>2

-----------------------------------------------------------------------------
(* The end *)

LEMMA EndsKeeps == ASSUME ConsumerInv, Ends PROVE ConsumerInv'
<1> USE DEF ConsumerInv, Return
<1>1. CASE CtxReturn \/ DeliveriesEnd
  BY <1>1 DEF CtxReturn, DeliveriesEnd, TypeOK, Owned, AtLeastOnce, Ending, Runs
<1>2. CASE StopWorkers \/ CancelWorkers
  BY <1>2 DEF StopWorkers, CancelWorkers, TypeOK, Owned, AtLeastOnce, Ending, Runs
<1>3. CASE CloseChannel
  <2>1. TypeOK' /\ Owned'
    BY <1>3, RequeuedRuns DEF CloseChannel, TypeOK, Owned
  <2>2. AtLeastOnce' /\ Ending'
    BY <1>3, RequeuedRuns DEF CloseChannel, AtLeastOnce, Ending, Runs
  <2>3. QED
    BY <2>1, <2>2
<1>4. CASE Joined
  <2>1. \A w \in Runner : hands[w] = None
    BY <1>4 DEF Joined, WorkersDone, Ending, Runs
  <2>2. QED
    BY <1>4, <2>1 DEF Joined, WorkersDone, Drained, TypeOK, Owned, AtLeastOnce, Ending, Runs
<1>5. CASE JoinTimeout
  BY <1>5 DEF JoinTimeout, TypeOK, Owned, AtLeastOnce, Ending, Runs
<1>6. QED
  BY <1>1, <1>2, <1>3, <1>4, <1>5 DEF Ends

LEMMA ConsumerNext == ASSUME ConsumerInv, [Next]_vars PROVE ConsumerInv'
<1>1. CASE Next
  BY <1>1, DeliverKeeps, OutsideKeeps, TakeKeeps, HandlesKeeps, StrayKeeps, EndsKeeps DEF Next
<1>2. CASE UNCHANGED vars
  BY <1>2 DEF vars, control, ConsumerInv, TypeOK, Owned, AtLeastOnce, Ending, Runs
<1>3. QED
  BY <1>1, <1>2

THEOREM ConsumerAlways == Spec => []ConsumerInv
<1>1. Init => ConsumerInv
  BY ConsumerStart
<1>2. ConsumerInv /\ [Next]_vars => ConsumerInv'
  BY ConsumerNext
<1>3. QED
  BY <1>1, <1>2, PTL DEF Spec

-----------------------------------------------------------------------------
(* Theorems *)

(* Types, among them the bound of ConsumeWithRetry's attempts. *)
THEOREM ConsumerTypeCorrect == Spec => []TypeOK
<1>1. ConsumerInv => TypeOK
  BY DEF ConsumerInv
<1>2. QED
  BY <1>1, ConsumerAlways, PTL

(* With manual acknowledgement a message leaves the broker only after a    *)
(* handler has dealt with it, in all four ways to consume.                 *)
THEOREM HandledBeforeGone == Spec => []AtLeastOnce
<1>1. ConsumerInv => AtLeastOnce
  BY DEF ConsumerInv
<1>2. QED
  BY <1>1, ConsumerAlways, PTL

(* While the channel lasts, each unacknowledged message is in the buffer   *)
(* or with exactly one handler that will settle it.                        *)
THEOREM OneOwnerAlways == Spec => []OneOwner
<1>1. ConsumerInv => OneOwner
  BY OwnedCounts DEF ConsumerInv
<1>2. QED
  BY <1>1, ConsumerAlways, PTL

(* A call that does not report late workers leaves no handler running, and *)
(* ConsumeWithWorkers nothing unacknowledged.                              *)
THEOREM StopsClean == Spec => []CleanStop
<1>1. ConsumerInv => CleanStop
  BY EndingIsClean
<1>2. QED
  BY <1>1, ConsumerAlways, PTL

-----------------------------------------------------------------------------
(* The acknowledgements a consumer sends *)

(* How a message may move at the broker: out on delivery, back into the    *)
(* queue when the channel closes, and otherwise only when the goroutine    *)
(* that holds it settles it, gone only if a handler dealt with it.         *)
MovesByOwner ==
    \A m \in Msg : place'[m] # place[m] =>
       \/ /\ place[m] = "queue" /\ chan = "open" /\ m \in buffer' \ buffer
          /\ place'[m] = IF autoAck THEN "gone" ELSE "out"
       \/ /\ place[m] = "out" /\ ~autoAck
          /\ chan' = "closed" => place'[m] = "queue"
          /\ chan' # "closed" => \E w \in Runner : hands[w] = m /\ hands'[w] = None
          /\ place'[m] = "gone" => m \in handled'

(* An Ack or Nack on a live channel is for a delivery that is outstanding  *)
(* and settles it.  A second one for the same delivery would make the      *)
(* broker close the channel.                                               *)
SettlesOutstanding ==
    \A w \in Runner : hands[w] # None /\ hands'[w] = None /\ chan # "closed" /\ ~autoAck
       => place[hands[w]] = "out" /\ place'[hands[w]] # "out"

SettledOnce == [][MovesByOwner /\ SettlesOutstanding]_vars

(* With autoAck a delivery is gone from the broker at once. *)
AutoGone == autoAck => \A m \in Msg : place[m] # "out" /\ (m \in buffer => place[m] = "gone")

AckInv == ConsumerInv /\ AutoGone

LEMMA HeldIsOut ==
    ASSUME ConsumerInv, NEW w \in Runner, hands[w] # None, chan # "closed", ~autoAck
    PROVE  hands[w] \in Msg /\ place[hands[w]] = "out"
BY DEF ConsumerInv, TypeOK, Owned

LEMMA FinishSettles ==
    ASSUME ConsumerInv, NEW w \in Runner, NEW ack \in BOOLEAN, hands[w] # None, Finish(w, ack),
           UNCHANGED <<mode, autoAck, chan>>, ack => handled' = handled \cup {hands[w]}
    PROVE  MovesByOwner /\ SettlesOutstanding
<1>0. /\ hands \in [Runner -> Msg \cup {None}] /\ place \in [Msg -> {"queue", "out", "gone"}]
      /\ hands[w] \in Msg
  BY DEF ConsumerInv, TypeOK
<1>1. hands' = [hands EXCEPT ![w] = None] /\ Settle(hands[w], ack)
  BY DEF Finish
<1>2. CASE autoAck \/ chan = "closed"
  BY <1>0, <1>1, <1>2 DEF Settle, MovesByOwner, SettlesOutstanding
<1>3. CASE ~autoAck /\ chan # "closed"
  <2>1. place[hands[w]] = "out"
    BY <1>3, HeldIsOut
  <2>2. place' = [place EXCEPT ![hands[w]] = IF ack THEN "gone" ELSE "queue"]
    BY <1>1, <1>3 DEF Settle
  <2>3. \A v \in Runner \ {w} : hands'[v] = hands[v]
    BY <1>0, <1>1
  <2>4. SettlesOutstanding
    BY <1>0, <2>1, <2>2, <2>3 DEF SettlesOutstanding
  <2>5. MovesByOwner
    BY <1>0, <1>1, <1>3, <2>1, <2>2 DEF MovesByOwner
  <2>6. QED
    BY <2>4, <2>5
<1>4. QED
  BY <1>2, <1>3

LEMMA NextSettles == ASSUME AckInv, Next PROVE MovesByOwner /\ SettlesOutstanding
<1>0. /\ hands \in [Runner -> Msg \cup {None}] /\ place \in [Msg -> {"queue", "out", "gone"}]
      /\ chan \in {"open", "cancelled", "closed"} /\ None \notin Msg /\ Main \in Runner
  BY ConsumerAssumption DEF AckInv, ConsumerInv, TypeOK, Runner
<1> USE DEF AckInv
<1>1. ASSUME NEW m \in Msg, Deliver(m) PROVE MovesByOwner /\ SettlesOutstanding
  <2>1. m \notin buffer
    BY <1>1 DEF Deliver, ConsumerInv, Owned, AutoGone
  <2>2. hands' = hands
    BY <1>1 DEF Deliver
  <2>3. SettlesOutstanding
    BY <2>2 DEF SettlesOutstanding
  <2>4. QED
    BY <1>0, <1>1, <2>1, <2>3 DEF Deliver, MovesByOwner
<1>2. ASSUME NEW w \in Runner, Handles(w) PROVE MovesByOwner /\ SettlesOutstanding
  <2>1. CASE TryAgain(w)
    BY <2>1 DEF TryAgain, MovesByOwner, SettlesOutstanding
  <2>2. CASE HandlerOk(w)
    BY <2>2, FinishSettles DEF HandlerOk, control
  <2>3. CASE HandlerFails(w)
    BY <2>3, FinishSettles DEF HandlerFails, control
  <2>4. QED
    BY <1>2, <2>1, <2>2, <2>3 DEF Handles
<1>3. CASE HandlerTooSlow
  BY <1>0, <1>3, FinishSettles DEF HandlerTooSlow, control
<1>4. ASSUME place' = Requeued, chan' = "closed", hands' = hands
      PROVE  MovesByOwner /\ SettlesOutstanding
  BY <1>0, <1>4 DEF AutoGone, Requeued, MovesByOwner, SettlesOutstanding
<1>5. ASSUME place' = place,
             \A w \in Runner : hands'[w] = hands[w] \/ hands'[w] # None
      PROVE  MovesByOwner /\ SettlesOutstanding
  BY <1>5 DEF MovesByOwner, SettlesOutstanding
<1>6. ASSUME NEW w \in Runner, NEW m \in Msg, Take(w, m) PROVE MovesByOwner /\ SettlesOutstanding
  BY <1>0, <1>5, <1>6 DEF Take
<1>7. CASE Cancel \/ CtxEnds \/ BufferDrops \/ \E m \in Msg : StrayEnds(m)
  BY <1>5, <1>7 DEF Cancel, CtxEnds, BufferDrops, StrayEnds
<1>8. CASE Ends /\ ~CloseChannel
  BY <1>5, <1>8 DEF Ends, CtxReturn, DeliveriesEnd, StopWorkers, CancelWorkers, Joined, JoinTimeout
<1>9. QED
  BY <1>1, <1>2, <1>3, <1>4, <1>6, <1>7, <1>8 DEF Next, ChannelCloses, CloseChannel

LEMMA AutoNext == ASSUME AckInv, [Next]_vars PROVE AutoGone'
<1> SUFFICES ASSUME autoAck' PROVE AutoGone'
  BY DEF AutoGone
<1> USE DEF AckInv, AutoGone, control
<1>0. place \in [Msg -> {"queue", "out", "gone"}] /\ buffer \subseteq Msg
  BY DEF ConsumerInv, TypeOK
<1>1. ASSUME NEW m \in Msg, Deliver(m) PROVE AutoGone'
  BY <1>0, <1>1 DEF Deliver
<1>2. ASSUME autoAck' = autoAck, buffer' \subseteq buffer, place' = place \/ place' = Requeued
      PROVE  AutoGone'
  BY <1>0, <1>2 DEF Requeued
<1>3. ASSUME NEW w \in Runner, Handles(w) PROVE AutoGone'
  BY <1>2, <1>3 DEF Handles, HandlerOk, TryAgain, HandlerFails, Finish, Settle
<1>4. CASE HandlerTooSlow
  BY <1>2, <1>4 DEF HandlerTooSlow, Finish, Settle
<1>5. ASSUME NEW w \in Runner, NEW m \in Msg, Take(w, m) PROVE AutoGone'
  BY <1>2, <1>5 DEF Take
<1>6. CASE Cancel \/ CtxEnds \/ BufferDrops \/ ChannelCloses \/ \E m \in Msg : StrayEnds(m)
  BY <1>2, <1>6 DEF Cancel, CtxEnds, BufferDrops, ChannelCloses, StrayEnds
<1>7. CASE Ends
  BY <1>2, <1>7 DEF Ends, CtxReturn, DeliveriesEnd, StopWorkers, CancelWorkers, CloseChannel,
                    Joined, JoinTimeout
<1>8. CASE UNCHANGED vars
  BY <1>2, <1>8 DEF vars
<1>9. QED
  BY <1>1, <1>3, <1>4, <1>5, <1>6, <1>7, <1>8 DEF Next

LEMMA AckAlways == Spec => []AckInv
<1>1. Init => AckInv
  BY ConsumerStart DEF AckInv, AutoGone, Init
<1>2. AckInv /\ [Next]_vars => AckInv'
  BY ConsumerNext, AutoNext DEF AckInv
<1>3. QED
  BY <1>1, <1>2, PTL DEF Spec

(* Every delivery is settled once, by the goroutine that has it: no        *)
(* interleaving of workers, retries, a time limit and the end of the call  *)
(* acknowledges twice, or lets a message go that no handler dealt with.    *)
THEOREM AcksAreSingle == Spec => SettledOnce
<1>1. AckInv /\ [Next]_vars => [MovesByOwner /\ SettlesOutstanding]_vars
  BY NextSettles
<1>2. QED
  BY <1>1, AckAlways, PTL DEF Spec, SettledOnce
=============================================================================
