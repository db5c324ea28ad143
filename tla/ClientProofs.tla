----------------------------- MODULE ClientProofs -----------------------------
(***************************************************************************)
(* Theorems about Client, for any number of goroutines, connections,       *)
(* channels and reconnects, in both modes.  The inductive invariant        *)
(* ClientInv says, next to the types, how the two locks exclude each       *)
(* other, what a goroutine may rely on where it is, and that a link other  *)
(* than the current one is finished.                                       *)
(***************************************************************************)
EXTENDS Client, FiniteSetTheorems, TLAPS

Writer == WriteHeld \cup {"announced"}

(* c.mu: one writer, and no reader while it is write-held. *)
LocksExclude ==
    \A g, h \in G :
        /\ pc[g] \in Writer /\ pc[h] \in Writer => g = h
        /\ pc[g] \in WriteHeld => pc[h] # "acquire"

(* What a reader relies on. *)
ReaderSees(g) ==
    /\ pc[g] = "acquire" =>
          /\ ~closed /\ cur # 0 /\ at[g][1] = cur /\ at[g][2] # 0
          /\ pool[cur] = "open"
    /\ pc[g] \in {"pinging", "pingOpen"} => at[g][1] # 0 /\ at[g][2] # 0
    /\ pc[g] = "pingOpen" => pool[at[g][1]] = "open"

(* What a writer relies on. *)
WriterSees(g) ==
    /\ pc[g] \in Closing => cur # 0 /\ (closed \/ made < MaxDials)
    /\ pc[g] \in {"mark", "drain"} => ~single
    /\ pc[g] = "mark" => pool[cur] = "open"
    /\ pc[g] = "drain" => pool[cur] = "marked"
    /\ pc[g] \in {"dial", "dialing", "undo"} => ~closed
    /\ pc[g] = "dial" => cur = 0 /\ made < MaxDials
    /\ pc[g] = "dialing" =>
          /\ at[g] \in {made} \X Slots
          /\ cur = IF single THEN 0 ELSE made
          /\ \A j \in Slot : j < at[g][2] => conn[made][j] # "none"
    /\ pc[g] = "undo" => ~single /\ cur = made

(* Links not made yet are untouched, and only a link that is being closed, *)
(* was closed or was replaced is not open.                                 *)
LinksInOrder ==
    /\ cur <= made
    /\ \A k \in Link : k > made => pool[k] = "open" /\ \A i \in Slot : conn[k][i] = "none"
    /\ single => \A k \in Link : pool[k] = "open" /\ \A i \in Slot \ {1} : conn[k][i] = "none"
    /\ cur # 0 /\ pool[cur] # "open" => closed \/ \E g \in G : pc[g] \in Closing

ClientInv ==
    /\ TypeOK
    /\ LocksExclude
    /\ \A g \in G : ReaderSees(g) /\ WriterSees(g)
    /\ LinksInOrder
    /\ NoConnectionLeaked

-----------------------------------------------------------------------------
(* Round robin never leaves the slice, whatever the counter. *)
LEMMA RoundRobinInRange ==
    ASSUME NEW c \in Nat, NEW n \in Nat \ {0} PROVE RoundRobin(c, n) \in 0..(n - 1)
BY DEF RoundRobin

LEMMA TurnInRange ==
    ASSUME TypeOK, NEW k \in Link PROVE NextTurn(k) \in 0..(N - 1)
BY ClientAssumption, RoundRobinInRange DEF NextTurn, TypeOK

LEMMA ClientStart == Init => ClientInv
<1> SUFFICES ASSUME Init PROVE ClientInv
  OBVIOUS
<1>1. TypeOK
  <2>0. single \in BOOLEAN
    <3>1. \E m \in Modes : single = (m = "single")
      BY DEF Init
    <3>2. QED
      BY <3>1
  <2>1. closed \in BOOLEAN /\ cur \in 0..MaxDials /\ made \in Link
    <3>1. closed = FALSE /\ cur = 1 /\ made = 1
      BY DEF Init
    <3>2. 1 \in 0..MaxDials /\ 1 \in Link
      BY ClientAssumption DEF Link
    <3>3. QED
      BY <3>1, <3>2
  <2>2. conn \in [Link -> [Slot -> {"none", "up", "down"}]]
    BY DEF Init
  <2>3. pool \in [Link -> {"open", "marked", "closed"}] /\ turn \in [Link -> 0..(N - 1)]
    BY ClientAssumption DEF Init
  <2>4. pc \in [G -> Label] /\ job \in [G -> {"none", "close", "reconnect"}]
    BY DEF Init, Label
  <2>5. Nowhere \in Place
    BY ClientAssumption DEF Nowhere, Place
  <2>6. at \in [G -> Place] /\ lease \in [G -> Place]
    BY <2>5 DEF Init
  <2>7. QED
    BY <2>0, <2>1, <2>2, <2>3, <2>4, <2>6 DEF TypeOK
<1>2. \A g \in G : pc[g] = "out"
  BY DEF Init
<1>3. LocksExclude /\ \A g \in G : ReaderSees(g) /\ WriterSees(g)
  BY <1>2 DEF LocksExclude, ReaderSees, WriterSees, Writer, WriteHeld, Closing, Dialing
<1>4. LinksInOrder
  BY ClientAssumption DEF Init, LinksInOrder, Slots, Slot, Link
<1>5. NoConnectionLeaked
  BY ClientAssumption DEF Init, NoConnectionLeaked, Slots, Slot, Link
<1>6. QED
  BY <1>1, <1>3, <1>4, <1>5 DEF ClientInv

-----------------------------------------------------------------------------
(* Steps of goroutines that are not writers *)

(* Such a step touches no link. *)
QuietStep(g, l) ==
    /\ pc[g] \notin Writer /\ l \notin Writer
    /\ pc' = [pc EXCEPT ![g] = l]
    /\ UNCHANGED <<single, closed, cur, made, conn, pool>>

LEMMA QuietKeeps ==
    ASSUME ClientInv, NEW g \in G, NEW l \in Label, QuietStep(g, l),
           l = "acquire" => CanRead
    PROVE  LocksExclude' /\ LinksInOrder' /\ NoConnectionLeaked'
<1> USE DEF ClientInv, QuietStep
<1>1. \A h \in G : (pc'[h] \in Writer <=> pc[h] \in Writer)
                   /\ (pc[h] \in Writer => pc'[h] = pc[h])
  BY DEF TypeOK
<1>2. LocksExclude'
  <2> SUFFICES ASSUME NEW h \in G, NEW k \in G
               PROVE  /\ pc'[h] \in Writer /\ pc'[k] \in Writer => h = k
                      /\ pc'[h] \in WriteHeld => pc'[k] # "acquire"
    BY DEF LocksExclude
  <2>1. pc'[h] \in Writer /\ pc'[k] \in Writer => h = k
    BY <1>1 DEF LocksExclude
  <2>2. ASSUME pc'[h] \in WriteHeld PROVE pc'[k] # "acquire"
    <3>1. pc[h] \in WriteHeld
      BY <1>1, <2>2 DEF Writer
    <3>2. pc[k] # "acquire"
      BY <3>1 DEF LocksExclude
    <3>3. CASE k = g
      BY <3>1, <3>3 DEF CanRead, TypeOK
    <3>4. CASE k # g
      BY <3>2, <3>4 DEF TypeOK
    <3>5. QED
      BY <3>3, <3>4
  <2>3. QED
    BY <2>1, <2>2
<1>3. LinksInOrder'
  <2>1. (\E h \in G : pc[h] \in Closing) => \E h \in G : pc'[h] \in Closing
    BY <1>1 DEF Writer, WriteHeld
  <2>2. QED
    BY <2>1 DEF LinksInOrder, Slots
<1>4. NoConnectionLeaked'
  <2>1. /\ (\E h \in G : pc[h] \in Closing) => \E h \in G : pc'[h] \in Closing
        /\ (\E h \in G : pc[h] \in Dialing) => \E h \in G : pc'[h] \in Dialing
    BY <1>1 DEF Writer, WriteHeld
  <2>2. QED
    BY <2>1 DEF NoConnectionLeaked, Slots
<1>5. QED
  BY <1>2, <1>3, <1>4

(* The other goroutines see what they saw. *)
LEMMA OthersSee ==
    ASSUME ClientInv, NEW g \in G, NEW l \in Label, QuietStep(g, l),
           \A h \in G \ {g} : at'[h] = at[h]
    PROVE  /\ \A h \in G \ {g} : ReaderSees(h)' /\ WriterSees(h)'
           /\ WriterSees(g)'
<1> USE DEF ClientInv, QuietStep
<1>1. \A h \in G \ {g} : pc'[h] = pc[h]
  BY DEF TypeOK
<1>2. pc'[g] \notin Writer
  BY DEF TypeOK
<1>3. WriterSees(g)'
  BY <1>2 DEF WriterSees, Writer, WriteHeld, Closing, Dialing
<1>4. \A h \in G \ {g} : ReaderSees(h)' /\ WriterSees(h)'
  BY <1>1 DEF ReaderSees, WriterSees, Slots
<1>5. QED
  BY <1>3, <1>4

(* A step that leaves its goroutine outside, or about to take c.mu. *)
LEMMA StandsBack ==
    ASSUME ClientInv, NEW g \in G, NEW l \in Label, QuietStep(g, l),
           l \notin {"acquire", "pinging", "pingOpen"},
           \A h \in G \ {g} : at'[h] = at[h], TypeOK'
    PROVE  ClientInv'
<1>1. pc'[g] = l
  BY DEF QuietStep, ClientInv, TypeOK
<1>2. ReaderSees(g)'
  BY <1>1 DEF ReaderSees
<1>3. QED
  BY <1>2, QuietKeeps, OthersSee DEF ClientInv

LEMMA NowherePlace == Nowhere \in Place
BY ClientAssumption DEF Nowhere, Place

LEMMA LabelsApart ==
    /\ {"out", "ask", "peek", "ping", "pinging", "pingOpen", "lock", "acquire"} \cap Writer = {}
    /\ {"out", "ask", "peek", "ping", "pinging", "pingOpen", "lock", "acquire"} \subseteq Label
BY DEF Writer, WriteHeld, Closing, Dialing, Label, ReadHeld

LEMMA BorrowingKeeps ==
    ASSUME ClientInv, NEW g \in G, Borrowing(g) PROVE ClientInv'
<1> USE DEF Step, linkVars
<1>0. TypeOK
  BY DEF ClientInv
<1>1. CASE WantChannel(g)
  <2>1. TypeOK' /\ QuietStep(g, "ask") /\ \A h \in G \ {g} : at'[h] = at[h]
    BY <1>0, <1>1, LabelsApart DEF WantChannel, QuietStep, TypeOK
  <2>2. QED
    BY <2>1, LabelsApart, StandsBack
<1>2. CASE Refused(g) \/ CtxDone(g) \/ NotGranted(g)
  <2>1. at' \in [G -> Place]
    BY <1>0, <1>2, NowherePlace DEF Refused, CtxDone, NotGranted, TypeOK
  <2>2. TypeOK' /\ QuietStep(g, "out") /\ \A h \in G \ {g} : at'[h] = at[h]
    BY <1>0, <1>2, <2>1, LabelsApart DEF Refused, CtxDone, NotGranted, QuietStep, TypeOK
  <2>3. QED
    BY <2>2, LabelsApart, StandsBack
<1>3. CASE EmptySlot(g)
  <2>1. cur \in Link /\ NextTurn(cur) \in 0..(N - 1)
    BY <1>0, <1>3, TurnInRange DEF EmptySlot, Usable, TypeOK, Link
  <2>2. TypeOK' /\ QuietStep(g, "out") /\ \A h \in G \ {g} : at'[h] = at[h]
    BY <1>0, <1>3, <2>1, LabelsApart DEF EmptySlot, QuietStep, TypeOK
  <2>3. QED
    BY <2>2, LabelsApart, StandsBack
<1>4. CASE AskPool(g) \/ AskConnection(g)
  <2>1. cur \in Link /\ NextTurn(cur) \in 0..(N - 1)
    BY <1>0, <1>4, TurnInRange DEF AskPool, AskConnection, Usable, TypeOK, Link
  <2>2. PICK i \in 1..N : at' = [at EXCEPT ![g] = <<cur, i>>]
    BY <1>4, <2>1, ClientAssumption DEF AskPool, AskConnection
  <2>3. <<cur, i>> \in Place /\ at' \in [G -> Place] /\ at'[g] = <<cur, i>>
    BY <1>0, <2>1, <2>2 DEF TypeOK, Place, Link
  <2>10. turn' \in [Link -> 0..(N - 1)]
    BY <1>0, <1>4, <2>1 DEF AskPool, AskConnection, TypeOK
  <2>4. TypeOK' /\ QuietStep(g, "acquire") /\ CanRead /\ \A h \in G \ {g} : at'[h] = at[h]
    <3>1. CASE AskPool(g)
      BY <1>0, <3>1, <2>2, <2>3, <2>10, LabelsApart DEF AskPool, QuietStep, TypeOK
    <3>2. CASE AskConnection(g)
      BY <1>0, <3>2, <2>2, <2>3, <2>10, LabelsApart DEF AskConnection, QuietStep, TypeOK
    <3>3. QED
      BY <1>4, <3>1, <3>2
  <2>5. pc'[g] = "acquire" /\ ~closed' /\ cur' # 0 /\ cur' = cur /\ pool'[cur] = "open"
    BY <1>0, <1>4 DEF AskPool, AskConnection, Usable, TypeOK
  <2>6. ReaderSees(g)'
    BY <2>3, <2>5 DEF ReaderSees
  <2>7. QED
    BY <2>4, <2>6, LabelsApart, QuietKeeps, OthersSee DEF ClientInv
<1>5. CASE Granted(g)
  <2>1. at' \in [G -> Place] /\ lease' \in [G -> Place]
    BY <1>0, <1>5, NowherePlace DEF Granted, TypeOK
  <2>2. TypeOK' /\ QuietStep(g, "out") /\ \A h \in G \ {g} : at'[h] = at[h]
    BY <1>0, <1>5, <2>1, LabelsApart DEF Granted, QuietStep, TypeOK
  <2>3. QED
    BY <2>2, LabelsApart, StandsBack
<1>6. CASE Release(g)
  <2>1. lease' \in [G -> Place]
    BY <1>0, <1>6, NowherePlace DEF Release, TypeOK
  <2>2. TypeOK' /\ QuietStep(g, "out") /\ \A h \in G \ {g} : at'[h] = at[h]
    BY <1>0, <1>6, <2>1, LabelsApart DEF Release, QuietStep, TypeOK
  <2>3. QED
    BY <2>2, LabelsApart, StandsBack
<1>7. QED
  BY <1>1, <1>2, <1>3, <1>4, <1>5, <1>6 DEF Borrowing

LEMMA ReadingKeeps ==
    ASSUME ClientInv, NEW g \in G, Reading(g) PROVE ClientInv'
<1> USE DEF Step, linkVars
<1>0. TypeOK
  BY DEF ClientInv
<1>1. CASE WantPeek(g) \/ Peek(g) \/ WantPing(g) \/ PingRefused(g)
  <2>1. PICK l \in {"peek", "out", "ping"} : QuietStep(g, l)
    BY <1>0, <1>1, LabelsApart DEF WantPeek, Peek, WantPing, PingRefused, QuietStep
  <2>2. TypeOK' /\ \A h \in G \ {g} : at'[h] = at[h]
    BY <1>0, <1>1, LabelsApart DEF WantPeek, Peek, WantPing, PingRefused, TypeOK
  <2>3. QED
    BY <2>1, <2>2, LabelsApart, StandsBack
<1>2. CASE PingTooLate(g) \/ PingDone(g)
  <2>1. at' \in [G -> Place]
    BY <1>0, <1>2, NowherePlace DEF PingTooLate, PingDone, TypeOK
  <2>2. TypeOK' /\ QuietStep(g, "out") /\ \A h \in G \ {g} : at'[h] = at[h]
    BY <1>0, <1>2, <2>1, LabelsApart DEF PingTooLate, PingDone, QuietStep, TypeOK
  <2>3. QED
    BY <2>2, LabelsApart, StandsBack
<1>3. CASE PingReads(g)
  <2>1. /\ at' = [at EXCEPT ![g] = <<cur, 1>>]
        /\ cur # 0 /\ <<cur, 1>> \in Place
    BY <1>0, <1>3, ClientAssumption DEF PingReads, TypeOK, Place
  <2>2. TypeOK' /\ QuietStep(g, "pinging") /\ \A h \in G \ {g} : at'[h] = at[h]
    BY <1>0, <1>3, <2>1, LabelsApart DEF PingReads, QuietStep, TypeOK
  <2>3. ReaderSees(g)'
    <3>1. pc'[g] = "pinging" /\ at'[g] = <<cur, 1>>
      BY <1>0, <1>3, <2>1 DEF PingReads, TypeOK
    <3>2. QED
      BY <2>1, <3>1 DEF ReaderSees
  <2>4. QED
    BY <2>2, <2>3, LabelsApart, QuietKeeps, OthersSee DEF ClientInv
<1>4. CASE PingTries(g)
  <2> DEFINE k == at[g][1]
             i == IF single THEN 1 ELSE NextTurn(k) + 1
  <2>1. k \in Link /\ pc[g] = "pinging"
    <3>1. pc[g] = "pinging"
      BY <1>4 DEF PingTries
    <3>2. at[g][1] # 0 /\ at[g] \in Place
      BY <1>0, <3>1 DEF ClientInv, ReaderSees, TypeOK
    <3>3. QED
      BY <3>1, <3>2 DEF Place, Link
  <2>2. i \in Slot /\ NextTurn(k) \in 0..(N - 1)
    BY <1>0, <2>1, TurnInRange, ClientAssumption DEF Slot
  <2>3. turn' \in [Link -> 0..(N - 1)]
    BY <1>0, <1>4, <2>1, <2>2 DEF PingTries, TypeOK
  <2>4. CASE conn[k][i] = "up"
    <3>1. /\ pc' = [pc EXCEPT ![g] = "pingOpen"]
          /\ at' = [at EXCEPT ![g] = <<k, i>>]
          /\ <<k, i>> \in Place
      BY <1>4, <2>1, <2>2, <2>4, ClientAssumption DEF PingTries, Place, Link, Slot
    <3>2. TypeOK' /\ QuietStep(g, "pingOpen") /\ \A h \in G \ {g} : at'[h] = at[h]
      BY <1>0, <1>4, <2>1, <2>3, <3>1, LabelsApart DEF PingTries, QuietStep, TypeOK
    <3>3. pool[k] = "open"
      BY <1>4, <2>1 DEF PingTries, ClientInv, LinksInOrder
    <3>4. pc'[g] = "pingOpen" /\ at'[g] = <<k, i>> /\ pool' = pool /\ k # 0 /\ i # 0
      BY <1>0, <1>4, <2>1, <2>2, <3>1 DEF PingTries, TypeOK, Link, Slot
    <3>5. ReaderSees(g)'
      BY <3>3, <3>4 DEF ReaderSees
    <3>6. QED
      BY <3>2, <3>5, LabelsApart, QuietKeeps, OthersSee DEF ClientInv
  <2>5. CASE conn[k][i] # "up"
    <3>1. at' \in [G -> Place]
      BY <1>0, <1>4, <2>5, NowherePlace DEF PingTries, TypeOK
    <3>2. TypeOK' /\ QuietStep(g, "out") /\ \A h \in G \ {g} : at'[h] = at[h]
      BY <1>0, <1>4, <2>1, <2>3, <2>5, <3>1, LabelsApart DEF PingTries, QuietStep, TypeOK
    <3>3. QED
      BY <3>2, LabelsApart, StandsBack
  <2>6. QED
    BY <2>4, <2>5
<1>5. QED
  BY <1>1, <1>2, <1>3, <1>4 DEF Reading

-----------------------------------------------------------------------------
(* Steps of writers *)

LEMMA AnnounceKeeps ==
    ASSUME ClientInv, NEW g \in G, Announce(g) PROVE ClientInv'
<1> USE DEF ClientInv
<1>1. /\ pc' = [pc EXCEPT ![g] = "announced"] /\ pc[g] = "lock"
      /\ UNCHANGED <<single, closed, cur, made, conn, pool, turn, job, at, lease>>
      /\ \A h \in G : pc[h] \notin Writer
  BY DEF Announce, Step, CanRead, Writer, linkVars
<1>2. /\ pc'[g] = "announced" /\ \A h \in G \ {g} : pc'[h] = pc[h]
  BY <1>1 DEF TypeOK
<1>3. TypeOK'
  BY <1>1 DEF TypeOK, Label
<1>4. LocksExclude'
  BY <1>1, <1>2 DEF LocksExclude, Writer, WriteHeld, Closing, Dialing
<1>5. ReaderSees(g)' /\ WriterSees(g)'
  BY <1>2 DEF ReaderSees, WriterSees, Closing
<1>6. \A h \in G \ {g} : ReaderSees(h)' /\ WriterSees(h)'
  BY <1>1, <1>2 DEF ReaderSees, WriterSees, Slots
<1>7. \A h \in G : (pc'[h] \in Closing <=> pc[h] \in Closing)
                   /\ (pc'[h] \in Dialing <=> pc[h] \in Dialing)
  BY <1>1, <1>2 DEF Closing, Dialing
<1>8. LinksInOrder' /\ NoConnectionLeaked'
  BY <1>1, <1>7 DEF LinksInOrder, NoConnectionLeaked, Slots
<1>9. QED
  BY <1>3, <1>4, <1>5, <1>6, <1>8

(* A writer that has the lock to itself; l is where it goes. *)
AloneStep(g, l) ==
    /\ pc[g] \in Writer /\ \A h \in G : pc[h] # "acquire"
    /\ pc' = [pc EXCEPT ![g] = l]
    /\ l \in WriteHeld \cup {"out"}
    /\ \A h \in G \ {g} : at'[h] = at[h]

LEMMA AloneKeeps ==
    ASSUME ClientInv, NEW g \in G, NEW l, AloneStep(g, l),
           \A h \in G \ {g} : pc[h] = "pingOpen" => pool'[at[h][1]] = "open"
    PROVE  /\ LocksExclude'
           /\ \A h \in G \ {g} : ReaderSees(h)' /\ WriterSees(h)'
           /\ ReaderSees(g)'
           /\ pc'[g] = l
           /\ \A h \in G \ {g} : pc'[h] = pc[h] /\ pc[h] \notin Writer
<1> USE DEF ClientInv, AloneStep
<1>1. pc'[g] = l /\ \A h \in G \ {g} : pc'[h] = pc[h]
  BY DEF TypeOK
<1>2. \A h \in G \ {g} : pc[h] \notin Writer
  BY DEF LocksExclude
<1>3. LocksExclude'
  BY <1>1, <1>2 DEF LocksExclude, Writer, WriteHeld, Closing, Dialing
<1>4. ReaderSees(g)'
  BY <1>1 DEF ReaderSees, WriteHeld, Closing, Dialing
<1>5. \A h \in G \ {g} : ReaderSees(h)'
  BY <1>1 DEF ReaderSees
<1>6. \A h \in G \ {g} : WriterSees(h)'
  BY <1>1, <1>2 DEF WriterSees, Writer, WriteHeld, Closing, Dialing
<1>7. QED
  BY <1>1, <1>2, <1>3, <1>4, <1>5, <1>6

LEMMA HeldAlone ==
    ASSUME ClientInv, NEW g \in G, pc[g] \in WriteHeld
    PROVE  pc[g] \in Writer /\ \A h \in G : pc[h] # "acquire"
BY DEF ClientInv, LocksExclude, Writer

(* The first step with c.mu write-held. *)
LEMMA LockedKeeps ==
    ASSUME ClientInv, NEW g \in G,
           AlreadyClosed(g) \/ BeginClose(g) \/ BeginReconnect(g) \/ OutOfDials(g)
    PROVE  ClientInv'
<1> USE DEF ClientInv
<1>1. /\ pc[g] = "announced" /\ \A h \in G : pc[h] # "acquire"
      /\ UNCHANGED <<single, cur, made, conn, pool, turn, at, lease>>
  BY DEF AlreadyClosed, BeginClose, BeginReconnect, OutOfDials, Locked, NoReader, ReadHeld, linkVars
<1>2. \A h \in G : pc[h] \notin WriteHeld
  BY <1>1 DEF LocksExclude, Writer, WriteHeld, Closing, Dialing
<1>3. cur # 0 /\ ~closed => pool[cur] = "open"
  BY <1>2 DEF LinksInOrder, WriteHeld
<1>4. PICK l \in WriteHeld \cup {"out"} : pc' = [pc EXCEPT ![g] = l]
  <2>1. {"mark", "shut", "dial", "out"} \subseteq WriteHeld \cup {"out"}
    BY DEF WriteHeld, Closing
  <2>2. CASE AlreadyClosed(g) \/ OutOfDials(g)
    BY <2>1, <2>2 DEF AlreadyClosed, OutOfDials
  <2>3. CASE BeginClose(g)
    BY <2>1, <2>3 DEF BeginClose
  <2>4. CASE BeginReconnect(g)
    BY <2>1, <2>4 DEF BeginReconnect
  <2>5. QED
    BY <2>2, <2>3, <2>4
<1>5. AloneStep(g, l) /\ \A h \in G \ {g} : pc[h] = "pingOpen" => pool'[at[h][1]] = "open"
  BY <1>1, <1>4 DEF AloneStep, Writer, ReaderSees
<1>6. /\ LocksExclude' /\ ReaderSees(g)' /\ pc'[g] = l
      /\ \A h \in G \ {g} : ReaderSees(h)' /\ WriterSees(h)' /\ pc'[h] = pc[h]
  BY <1>5, AloneKeeps
<1>7. TypeOK'
  <2>1. pc' \in [G -> Label]
    BY <1>4 DEF TypeOK, Label
  <2>2. job' \in [G -> {"none", "close", "reconnect"}]
    BY DEF AlreadyClosed, BeginClose, BeginReconnect, OutOfDials, Served, TypeOK
  <2>3. closed' \in BOOLEAN
    BY DEF AlreadyClosed, BeginClose, BeginReconnect, OutOfDials, TypeOK
  <2>4. QED
    BY <1>1, <2>1, <2>2, <2>3 DEF TypeOK
<1>8. WriterSees(g)'
  <2>1. CASE AlreadyClosed(g) \/ OutOfDials(g)
    <3>1. pc'[g] = "out"
      BY <1>1, <2>1 DEF AlreadyClosed, OutOfDials, TypeOK
    <3>2. QED
      BY <3>1 DEF WriterSees, Closing
  <2>2. CASE BeginClose(g)
    <3>1. /\ closed' /\ ~closed
          /\ pc'[g] = IF cur = 0 THEN "out" ELSE IF single THEN "shut" ELSE "mark"
      BY <1>1, <2>2 DEF BeginClose, TypeOK
    <3>2. QED
      BY <1>1, <1>3, <3>1 DEF WriterSees, Closing
  <2>3. CASE BeginReconnect(g)
    <3>1. /\ closed' = closed /\ ~closed /\ made < MaxDials
          /\ pc'[g] = IF cur = 0 THEN "dial" ELSE IF single THEN "shut" ELSE "mark"
      <4>1. made < MaxDials
        BY <2>3 DEF BeginReconnect
      <4>2. QED
        BY <1>1, <2>3, <4>1 DEF BeginReconnect, TypeOK
    <3>2. QED
      BY <1>1, <1>3, <3>1 DEF WriterSees, Closing
  <2>4. QED
    BY <2>1, <2>2, <2>3
<1>9. closed => closed'
  BY DEF AlreadyClosed, BeginClose, BeginReconnect, OutOfDials
<1>10. LinksInOrder'
  BY <1>1, <1>2, <1>9 DEF LinksInOrder, WriteHeld, Slots
<1>11. NoConnectionLeaked'
  <2>1. ASSUME NEW k \in Link, NEW i \in Slot, conn[k][i] = "up"
        PROVE  /\ k = cur /\ ~closed
               /\ ~\E j \in Slots : conn[k][j] = "none"
    BY <1>2, <2>1 DEF NoConnectionLeaked, WriteHeld
  <2>2. ASSUME closed', ~closed, cur # 0 PROVE pc'[g] \in Closing
    <3>1. BeginClose(g)
      BY <2>2 DEF AlreadyClosed, BeginReconnect, OutOfDials
    <3>2. QED
      BY <1>1, <2>2, <3>1 DEF BeginClose, Closing, TypeOK
  <2>3. SUFFICES ASSUME NEW k \in Link, NEW i \in Slot, conn[k][i] = "up"
                 PROVE  /\ k = cur
                        /\ closed' => \E h \in G : pc'[h] \in Closing
                        /\ (\E j \in Slots : conn[k][j] = "none") => \E h \in G : pc'[h] \in Dialing
    BY <1>1 DEF NoConnectionLeaked, Slots
  <2>4. k = cur /\ ~closed /\ ~\E j \in Slots : conn[k][j] = "none"
    BY <2>1, <2>3
  <2>5. cur # 0
    BY <2>4 DEF Link
  <2>6. QED
    BY <2>2, <2>4, <2>5
<1>12. QED
  BY <1>6, <1>7, <1>8, <1>10, <1>11

(* ConnectionPool.Close marks and drains the pool. *)
LEMMA PoolCloseKeeps ==
    ASSUME ClientInv, NEW g \in G, Mark(g) \/ Drain(g) PROVE ClientInv'
<1> USE DEF ClientInv
<1>1. PICK from \in {"mark", "drain"}, l \in {"drain", "shut"}, s \in {"marked", "closed"} :
         /\ pc[g] = from /\ pc' = [pc EXCEPT ![g] = l] /\ pool' = [pool EXCEPT ![cur] = s]
         /\ \/ from = "mark" /\ l = "drain" /\ s = "marked" /\ NoPoolReader(cur)
            \/ from = "drain" /\ l = "shut" /\ s = "closed"
         /\ UNCHANGED <<single, closed, cur, made, conn, turn, job, at, lease>>
  BY DEF Mark, Drain, Step
<1>2. pc[g] \in WriteHeld /\ pc[g] \in Closing /\ l \in Closing /\ ~single
  BY <1>1 DEF WriteHeld, Closing, WriterSees
<1>3. cur \in Link /\ cur <= made
  BY <1>1, <1>2 DEF WriterSees, TypeOK, Link, LinksInOrder
<1>4. \A h \in G : pc[h] = "pingOpen" => at[h][1] # cur
  BY <1>1, <1>2 DEF NoPoolReader, ReaderSees, WriterSees
<1>5. \A h \in G \ {g} : pc[h] = "pingOpen" => pool'[at[h][1]] = "open"
  <2> SUFFICES ASSUME NEW h \in G, pc[h] = "pingOpen" PROVE pool'[at[h][1]] = "open"
    OBVIOUS
  <2>1. at[h][1] # cur /\ at[h][1] \in Link /\ pool[at[h][1]] = "open"
    BY <1>4 DEF ReaderSees, TypeOK, Place, Link
  <2>2. QED
    BY <1>1, <2>1 DEF TypeOK
<1>6. AloneStep(g, l)
  BY <1>1, <1>2, HeldAlone DEF AloneStep, WriteHeld
<1>7. /\ LocksExclude' /\ ReaderSees(g)' /\ pc'[g] = l
      /\ \A h \in G \ {g} : ReaderSees(h)' /\ WriterSees(h)'
  BY <1>5, <1>6, AloneKeeps
<1>8. TypeOK'
  BY <1>1, <1>2 DEF TypeOK, Label, WriteHeld
<1>9. WriterSees(g)'
  <2>1. pool'[cur] = s /\ cur # 0 /\ (closed \/ made < MaxDials)
    BY <1>1, <1>2, <1>3 DEF TypeOK, WriterSees
  <2>2. QED
    BY <1>1, <1>2, <1>7, <2>1 DEF WriterSees
<1>10. LinksInOrder'
  <2>1. \A k \in Link : k > made => pool'[k] = pool[k]
    BY <1>1, <1>3 DEF TypeOK, Link
  <2>2. \E h \in G : pc'[h] \in Closing
    BY <1>2, <1>7
  <2>3. QED
    BY <1>1, <1>2, <2>1, <2>2 DEF LinksInOrder, Slots
<1>11. NoConnectionLeaked'
  <2>1. \E h \in G : pc'[h] \in Closing
    BY <1>2, <1>7
  <2>2. \A h \in G : pc[h] \notin Dialing
    BY <1>1, <1>2 DEF LocksExclude, Writer, WriteHeld, Closing, Dialing
  <2>3. QED
    BY <1>1, <2>1, <2>2 DEF NoConnectionLeaked, Slots
<1>12. QED
  BY <1>7, <1>8, <1>9, <1>10, <1>11

(* One connection goes down. *)
LEMMA DownKeepsLinks ==
    ASSUME ClientInv, NEW k \in Link, NEW i \in Slot, conn[k][i] = "up", SetConn(k, i, "down"),
           UNCHANGED <<single, closed, cur, made, pool, pc, at>>
    PROVE  /\ LinksInOrder' /\ NoConnectionLeaked'
           /\ conn' \in [Link -> [Slot -> {"none", "up", "down"}]]
           /\ \A g \in G : WriterSees(g)'
<1> USE DEF ClientInv
<1>1. /\ conn' \in [Link -> [Slot -> {"none", "up", "down"}]]
      /\ \A m \in Link, j \in Slot : /\ conn'[m][j] = "none" <=> conn[m][j] = "none"
                                     /\ conn'[m][j] = "up" => conn[m][j] = "up"
  BY DEF SetConn, TypeOK
<1>2. LinksInOrder'
  BY <1>1 DEF LinksInOrder
<1>3. Slots \subseteq Slot /\ Slots' = Slots
  BY ClientAssumption DEF Slots, Slot
<1>4. NoConnectionLeaked'
  BY <1>1, <1>3 DEF NoConnectionLeaked
<1>5. \A g \in G : WriterSees(g)'
  <2> SUFFICES ASSUME NEW g \in G PROVE WriterSees(g)'
    OBVIOUS
  <2>1. ASSUME pc[g] = "dialing" PROVE \A j \in Slot : j < at[g][2] => conn'[made][j] # "none"
    BY <1>1, <2>1 DEF WriterSees, TypeOK
  <2>2. QED
    BY <1>3, <2>1 DEF WriterSees
<1>6. QED
  BY <1>1, <1>2, <1>4, <1>5

LEMMA DropKeeps == ASSUME ClientInv, Drop PROVE ClientInv'
<1> USE DEF ClientInv
<1>1. PICK k \in Link, i \in Slot : conn[k][i] = "up" /\ SetConn(k, i, "down")
  BY DEF Drop
<1>2. UNCHANGED <<single, closed, cur, made, pool, turn, pc, job, at, lease>>
  BY DEF Drop
<1>3. LinksInOrder' /\ NoConnectionLeaked' /\ (\A g \in G : WriterSees(g)')
      /\ conn' \in [Link -> [Slot -> {"none", "up", "down"}]]
  BY <1>1, <1>2, DownKeepsLinks
<1>4. TypeOK' /\ LocksExclude' /\ \A g \in G : ReaderSees(g)'
  BY <1>2, <1>3 DEF TypeOK, LocksExclude, ReaderSees
<1>5. QED
  BY <1>3, <1>4

LEMMA ShutKeeps == ASSUME ClientInv, NEW g \in G, Shut(g) PROVE ClientInv'
<1> USE DEF ClientInv
<1>1. cur \in Link
  BY DEF Shut, WriterSees, Closing, TypeOK, Link
<1>2. PICK i \in Slot : conn[cur][i] = "up" /\ SetConn(cur, i, "down")
  BY DEF Shut
<1>3. UNCHANGED <<single, closed, cur, made, pool, turn, pc, job, at, lease>>
  BY DEF Shut
<1>4. LinksInOrder' /\ NoConnectionLeaked' /\ (\A h \in G : WriterSees(h)')
      /\ conn' \in [Link -> [Slot -> {"none", "up", "down"}]]
  BY <1>1, <1>2, <1>3, DownKeepsLinks
<1>5. TypeOK' /\ LocksExclude' /\ \A h \in G : ReaderSees(h)'
  BY <1>3, <1>4 DEF TypeOK, LocksExclude, ReaderSees
<1>6. QED
  BY <1>4, <1>5

(* The writer is done with connections that are all down. *)
LEMMA NoneUp ==
    ASSUME ClientInv, AllShut(cur) \/ cur = 0, cur \in 0..MaxDials
    PROVE  \A k \in Link, i \in Slot : conn[k][i] # "up"
BY DEF ClientInv, NoConnectionLeaked, AllShut, Link

LEMMA ShutDoneKeeps ==
    ASSUME ClientInv, NEW g \in G, CloseDone(g) \/ UndoDone(g) PROVE ClientInv'
<1> USE DEF ClientInv
<1>1. /\ pc[g] \in {"shut", "undo"} /\ pc' = [pc EXCEPT ![g] = "out"] /\ AllShut(cur)
      /\ pc[g] = "shut" => closed
      /\ UNCHANGED <<single, closed, cur, made, conn, pool, turn, job, at, lease>>
  BY DEF CloseDone, UndoDone, Step, linkVars
<1>2. pc[g] \in WriteHeld
  BY <1>1 DEF WriteHeld, Closing, Dialing
<1>3. AloneStep(g, "out") /\ \A h \in G \ {g} : pc[h] = "pingOpen" => pool'[at[h][1]] = "open"
  BY <1>1, <1>2, HeldAlone DEF AloneStep, ReaderSees
<1>4. /\ LocksExclude' /\ ReaderSees(g)' /\ pc'[g] = "out"
      /\ \A h \in G \ {g} : ReaderSees(h)' /\ WriterSees(h)' /\ pc[h] \notin Writer
  BY <1>3, AloneKeeps
<1>5. TypeOK'
  BY <1>1 DEF TypeOK, Label
<1>6. WriterSees(g)'
  BY <1>4 DEF WriterSees, Closing
<1>7. NoConnectionLeaked'
  BY <1>1, NoneUp DEF NoConnectionLeaked, TypeOK
<1>8. LinksInOrder'
  <2>1. pc[g] = "undo" => \A h \in G : pc[h] \notin Closing
    BY <1>4 DEF Writer, WriteHeld, Closing
  <2>2. QED
    BY <1>1, <2>1 DEF LinksInOrder, Slots
<1>9. QED
  BY <1>4, <1>5, <1>6, <1>7, <1>8

LEMMA UnlinkKeeps == ASSUME ClientInv, NEW g \in G, Unlink(g) PROVE ClientInv'
<1> USE DEF ClientInv
<1>1. /\ pc[g] = "shut" /\ pc' = [pc EXCEPT ![g] = "dial"] /\ AllShut(cur) /\ ~closed /\ cur' = 0
      /\ UNCHANGED <<single, closed, made, conn, pool, turn, job, at, lease>>
  BY DEF Unlink, Step
<1>2. pc[g] \in WriteHeld /\ "dial" \in WriteHeld /\ made < MaxDials
  BY <1>1 DEF WriteHeld, Closing, WriterSees
<1>3. AloneStep(g, "dial") /\ \A h \in G \ {g} : pc[h] = "pingOpen" => pool'[at[h][1]] = "open"
  BY <1>1, <1>2, HeldAlone DEF AloneStep, ReaderSees
<1>4. /\ LocksExclude' /\ ReaderSees(g)' /\ pc'[g] = "dial"
      /\ \A h \in G \ {g} : ReaderSees(h)' /\ WriterSees(h)'
  BY <1>3, AloneKeeps
<1>5. TypeOK'
  BY <1>1, <1>2, ClientAssumption DEF TypeOK, Label
<1>6. WriterSees(g)'
  BY <1>1, <1>2, <1>4 DEF WriterSees, Closing
<1>7. NoConnectionLeaked' /\ LinksInOrder'
  BY <1>1, NoneUp DEF NoConnectionLeaked, LinksInOrder, TypeOK, Slots, Link
<1>8. QED
  BY <1>4, <1>5, <1>6, <1>7

LEMMA StartDialKeeps == ASSUME ClientInv, NEW g \in G, StartDial(g) PROVE ClientInv'
<1> USE DEF ClientInv
<1>1. /\ pc[g] = "dial" /\ pc' = [pc EXCEPT ![g] = "dialing"]
      /\ made' = made + 1 /\ cur' = IF single THEN cur ELSE made + 1
      /\ at' = [at EXCEPT ![g] = <<made + 1, 1>>]
      /\ UNCHANGED <<single, closed, conn, pool, turn, job, lease>>
  BY DEF StartDial, Step
<1>2. /\ pc[g] \in WriteHeld /\ "dialing" \in WriteHeld /\ cur = 0 /\ ~closed
      /\ made + 1 \in Link /\ made \in Link /\ 1 \in Slot /\ 1 \in Slots
  BY <1>1, ClientAssumption DEF WriteHeld, Dialing, WriterSees, TypeOK, Link, Slot, Slots
<1>3. at' \in [G -> Place] /\ at'[g] = <<made + 1, 1>>
  BY <1>1, <1>2 DEF TypeOK, Place, Link, Slot
<1>4. AloneStep(g, "dialing") /\ \A h \in G \ {g} : pc[h] = "pingOpen" => pool'[at[h][1]] = "open"
  BY <1>1, <1>2, HeldAlone DEF AloneStep, ReaderSees, TypeOK
<1>5. /\ LocksExclude' /\ ReaderSees(g)' /\ pc'[g] = "dialing"
      /\ \A h \in G \ {g} : ReaderSees(h)' /\ WriterSees(h)'
  BY <1>4, AloneKeeps
<1>6. TypeOK'
  BY <1>1, <1>2, <1>3, ClientAssumption DEF TypeOK, Label, Link
<1>7. WriterSees(g)'
  <2>1. \A j \in Slot : ~(j < 1)
    BY DEF Slot
  <2>2. at'[g] \in {made'} \X Slots' /\ Slots' = Slots
    BY <1>1, <1>2, <1>3 DEF Slots
  <2>3. QED
    BY <1>1, <1>2, <1>3, <1>5, <2>1, <2>2 DEF WriterSees, Closing
<1>8. NoConnectionLeaked'
  BY <1>1, <1>2, NoneUp DEF NoConnectionLeaked, TypeOK
<1>9. LinksInOrder'
  BY <1>1, <1>2 DEF LinksInOrder, TypeOK, Link, Slots
<1>10. QED
  BY <1>5, <1>6, <1>7, <1>8, <1>9

LEMMA DialFailKeepsInv == ASSUME ClientInv, NEW g \in G, DialFail(g) PROVE ClientInv'
<1> USE DEF ClientInv
<1>1. /\ pc[g] = "dialing" /\ pc' = [pc EXCEPT ![g] = IF single THEN "out" ELSE "undo"]
      /\ at' = [at EXCEPT ![g] = Nowhere]
      /\ UNCHANGED <<single, closed, cur, made, conn, pool, turn, job, lease>>
  BY DEF DialFail, Step, linkVars
<1>2. /\ pc[g] \in WriteHeld /\ {"undo", "out"} \subseteq WriteHeld \cup {"out"} /\ ~closed
      /\ cur = IF single THEN 0 ELSE made
  BY <1>1 DEF WriteHeld, Dialing, WriterSees
<1>3. PICK l \in {"undo", "out"} : l = IF single THEN "out" ELSE "undo"
  OBVIOUS
<1>4. AloneStep(g, l) /\ \A h \in G \ {g} : pc[h] = "pingOpen" => pool'[at[h][1]] = "open"
  BY <1>1, <1>2, <1>3, HeldAlone DEF AloneStep, ReaderSees, TypeOK
<1>5. /\ LocksExclude' /\ ReaderSees(g)' /\ pc'[g] = l
      /\ \A h \in G \ {g} : ReaderSees(h)' /\ WriterSees(h)' /\ pc'[h] = pc[h] /\ pc[h] \notin Writer
  BY <1>4, AloneKeeps
<1>6. TypeOK'
  BY <1>1, <1>2, <1>3, NowherePlace DEF TypeOK, Label
<1>7. WriterSees(g)'
  BY <1>1, <1>2, <1>3, <1>5 DEF WriterSees, Closing
<1>8. NoConnectionLeaked'
  <2>1. CASE single
    BY <1>1, <1>2, <2>1, NoneUp DEF NoConnectionLeaked, TypeOK
  <2>2. CASE ~single
    <3>1. \E h \in G : pc'[h] \in Dialing
      BY <1>3, <1>5, <2>2 DEF Dialing
    <3>2. QED
      BY <1>1, <1>2, <3>1 DEF NoConnectionLeaked
  <2>3. QED
    BY <2>1, <2>2
<1>9. LinksInOrder'
  <2>1. \A h \in G : pc[h] \notin Closing
    BY <1>1, <1>5 DEF Writer, WriteHeld, Closing
  <2>2. QED
    BY <1>1, <2>1 DEF LinksInOrder, Slots
<1>10. QED
  BY <1>5, <1>6, <1>7, <1>8, <1>9

LEMMA DialOkKeeps == ASSUME ClientInv, NEW g \in G, DialOk(g) PROVE ClientInv'
<1> USE DEF ClientInv
<1> DEFINE i == at[g][2]
           done == single \/ i = N
<1>1. /\ pc[g] = "dialing" /\ ~closed /\ cur = IF single THEN 0 ELSE made
      /\ at[g] \in {made} \X Slots /\ \A j \in Slot : j < i => conn[made][j] # "none"
  BY DEF DialOk, WriterSees
<1>2. at[g][1] = made /\ i \in Slots
  BY <1>1
<1>3. made \in Link /\ made # 0 /\ i \in Slot /\ Slots \subseteq Slot
  BY <1>2, ClientAssumption DEF TypeOK, Link, Slots, Slot
<1>4. /\ conn' = [conn EXCEPT ![made] = [@ EXCEPT ![i] = "up"]] /\ cur' = made
      /\ pc' = [pc EXCEPT ![g] = IF done THEN "out" ELSE "dialing"]
      /\ at' = [at EXCEPT ![g] = IF done THEN Nowhere ELSE <<made, i + 1>>]
      /\ UNCHANGED <<single, closed, made, pool, turn, job, lease>>
  BY <1>2 DEF DialOk, SetConn
<1>5. PICK l \in {"out", "dialing"} : l = IF done THEN "out" ELSE "dialing"
  OBVIOUS
<1>6. AloneStep(g, l) /\ \A h \in G \ {g} : pc[h] = "pingOpen" => pool'[at[h][1]] = "open"
  <2>1. pc[g] \in WriteHeld /\ l \in WriteHeld \cup {"out"}
    BY <1>1, <1>5 DEF WriteHeld, Dialing
  <2>2. \A h \in G \ {g} : at'[h] = at[h]
    BY <1>4 DEF TypeOK
  <2>3. QED
    BY <1>4, <1>5, <2>1, <2>2, HeldAlone DEF AloneStep, ReaderSees
<1>7. /\ LocksExclude' /\ ReaderSees(g)' /\ pc'[g] = l
      /\ \A h \in G \ {g} : ReaderSees(h)' /\ WriterSees(h)' /\ pc'[h] = pc[h] /\ pc[h] \notin Writer
  BY <1>6, AloneKeeps
<1>8. ~done => <<made, i + 1>> \in {made} \X Slots /\ <<made, i + 1>> \in Place
  BY <1>2, <1>3, ClientAssumption DEF Slots, Slot, Place, Link
<1>9. at' \in [G -> Place] /\ (~done => at'[g] = <<made, i + 1>>)
  BY <1>4, <1>8, NowherePlace DEF TypeOK
<1>10. /\ conn' \in [Link -> [Slot -> {"none", "up", "down"}]]
       /\ \A k \in Link, j \in Slot :
             conn'[k][j] = IF k = made /\ j = i THEN "up" ELSE conn[k][j]
  BY <1>3, <1>4 DEF TypeOK
<1>11. TypeOK'
  BY <1>3, <1>4, <1>5, <1>9, <1>10 DEF TypeOK, Label, WriteHeld, Dialing, Link
<1>12. WriterSees(g)'
  <2>1. CASE done
    BY <1>5, <1>7, <2>1 DEF WriterSees, Closing
  <2>2. CASE ~done
    <3>1. \A j \in Slot : j < i + 1 => conn'[made][j] # "none"
      BY <1>1, <1>3, <1>10 DEF Slot
    <3>2. pc'[g] = "dialing" /\ at'[g] = <<made, i + 1>> /\ ~single
      BY <1>5, <1>7, <1>9, <2>2
    <3>3. Slots' = Slots
      BY <1>4 DEF Slots
    <3>4. QED
      BY <1>1, <1>4, <1>8, <2>2, <3>1, <3>2, <3>3 DEF WriterSees, Closing
  <2>3. QED
    BY <2>1, <2>2
<1>13. LinksInOrder'
  <2>1. made' = made /\ cur' = made /\ pool' = pool /\ single' = single
    BY <1>4
  <2>2. \A k \in Link : k > made => \A j \in Slot : conn'[k][j] = conn[k][j]
    BY <1>3, <1>10 DEF Link
  <2>3. ASSUME single PROVE i = 1
    BY <1>2, <2>3 DEF Slots
  <2>4. single => \A k \in Link : \A j \in Slot \ {1} : conn'[k][j] = conn[k][j]
    BY <1>10, <2>3
  <2>5. pool[made] = "open"
    <3>1. \A h \in G : pc[h] \notin Closing
      BY <1>1, <1>7 DEF Writer, WriteHeld, Closing
    <3>2. QED
      BY <1>1, <1>3, <3>1 DEF LinksInOrder
  <2>6. made <= made
    BY <1>3 DEF Link
  <2>7. QED
    BY <2>1, <2>2, <2>4, <2>5, <2>6 DEF LinksInOrder
<1>14. NoConnectionLeaked'
  <2> SUFFICES ASSUME NEW k \in Link, NEW j \in Slot, conn'[k][j] = "up"
               PROVE  /\ k = made
                      /\ (\E m \in Slots : conn'[k][m] = "none") => \E h \in G : pc'[h] \in Dialing
    BY <1>1, <1>4 DEF NoConnectionLeaked, Slots
  <2>1. k = made
    <3>1. CASE cur = 0
      <4>1. conn[k][j] # "up"
        BY <3>1, NoneUp DEF TypeOK
      <4>2. QED
        BY <1>10, <4>1
    <3>2. CASE cur # 0
      BY <1>1, <1>10, <3>2 DEF NoConnectionLeaked
    <3>3. QED
      BY <3>1, <3>2
  <2>2. CASE done
    <3>1. \A m \in Slots : m = i \/ conn[made][m] # "none"
      BY <1>1, <1>2, <1>3, <2>2 DEF Slots, Slot
    <3>2. \A m \in Slots : conn'[made][m] # "none"
      BY <1>3, <1>10, <3>1
    <3>3. QED
      BY <2>1, <3>2
  <2>3. CASE ~done
    BY <1>5, <1>7, <2>1, <2>3 DEF Dialing
  <2>4. QED
    BY <2>1, <2>2, <2>3
<1>15. QED
  BY <1>7, <1>11, <1>12, <1>13, <1>14

LEMMA WritingKeeps == ASSUME ClientInv, NEW g \in G, Writing(g) PROVE ClientInv'
<1>1. ASSUME NEW j \in {"close", "reconnect"}, WantLock(g, j) PROVE ClientInv'
  <2>1. TypeOK' /\ QuietStep(g, "lock") /\ \A h \in G \ {g} : at'[h] = at[h]
    BY <1>1, LabelsApart DEF WantLock, Step, QuietStep, ClientInv, TypeOK, linkVars
  <2>2. QED
    BY <2>1, LabelsApart, StandsBack
<1>2. CASE WriterStep(g)
  BY <1>2, LockedKeeps, PoolCloseKeeps, ShutKeeps, ShutDoneKeeps, UnlinkKeeps,
     StartDialKeeps, DialOkKeeps, DialFailKeepsInv DEF WriterStep
<1>3. QED
  BY <1>1, <1>2, AnnounceKeeps DEF Writing

LEMMA ClientNext == ASSUME ClientInv, [Next]_vars PROVE ClientInv'
<1>1. CASE Next
  BY <1>1, DropKeeps, BorrowingKeeps, ReadingKeeps, WritingKeeps DEF Next
<1>2. CASE UNCHANGED vars
  <2>1. UNCHANGED <<single, closed, cur, made, conn, pool, turn, pc, job, at, lease>>
    BY <1>2 DEF vars, linkVars
  <2>2. TypeOK' /\ LocksExclude'
    BY <2>1 DEF ClientInv, TypeOK, LocksExclude
  <2>3. \A g \in G : ReaderSees(g)' /\ WriterSees(g)'
    BY <2>1 DEF ClientInv, ReaderSees, WriterSees, Slots
  <2>4. LinksInOrder' /\ NoConnectionLeaked'
    BY <2>1 DEF ClientInv, LinksInOrder, NoConnectionLeaked, Slots
  <2>5. QED
    BY <2>2, <2>3, <2>4 DEF ClientInv
<1>3. QED
  BY <1>1, <1>2

THEOREM ClientAlways == Spec => []ClientInv
<1>1. Init => ClientInv
  BY ClientStart
<1>2. ClientInv /\ [Next]_vars => ClientInv'
  BY ClientNext
<1>3. QED
  BY <1>1, <1>2, PTL DEF Spec

-----------------------------------------------------------------------------
(* Theorems *)

(* Type correctness of the whole client: no index leaves its slice, no     *)
(* goroutine is somewhere the code has no place for.                       *)
THEOREM ClientTypeCorrect == Spec => []TypeOK
<1>1. ClientInv => TypeOK
  BY DEF ClientInv
<1>2. QED
  BY <1>1, ClientAlways, PTL

(* Client.Close, Reconnect and a dialAll that fails half way leave no      *)
(* connection up that the client does not refer to.                        *)
THEOREM NothingLeftUp == Spec => []NoConnectionLeaked
<1>1. ClientInv => NoConnectionLeaked
  BY DEF ClientInv
<1>2. QED
  BY <1>1, ClientAlways, PTL

(* ConnectionPool.mu and Client.mu do their work: the pool is open as long *)
(* as AcquireFromPool or the channel of a Ping uses one of its connections. *)
THEOREM PoolOpenUnderReader == Spec => []PoolNotClosedUnderReader
<1>1. ClientInv => PoolNotClosedUnderReader
  BY DEF ClientInv, ReaderSees, PoolNotClosedUnderReader
<1>2. QED
  BY <1>1, ClientAlways, PTL

LEMMA LeaseChanges ==
    ASSUME Next PROVE lease' = lease \/ \E g \in G : Granted(g) \/ Release(g)
<1> USE DEF linkVars, Step
<1>1. CASE Drop
  BY <1>1 DEF Drop
<1>2. ASSUME NEW g \in G, Borrowing(g), ~Granted(g), ~Release(g) PROVE lease' = lease
  BY <1>2 DEF Borrowing, WantChannel, Refused, EmptySlot, AskPool, AskConnection, NotGranted, CtxDone
<1>3. ASSUME NEW g \in G, Reading(g) PROVE lease' = lease
  BY <1>3 DEF Reading, WantPeek, Peek, WantPing, PingRefused, PingReads, PingTries, PingTooLate, PingDone
<1>4. ASSUME NEW g \in G, Writing(g) PROVE lease' = lease
  <2>1. CASE WriterStep(g)
    BY <2>1 DEF WriterStep, AlreadyClosed, BeginClose, BeginReconnect, OutOfDials,
       Mark, Drain, Shut, CloseDone, Unlink, StartDial, DialOk, DialFail, UndoDone
  <2>2. CASE ~WriterStep(g)
    BY <1>4, <2>2 DEF Writing, WantLock, Announce
  <2>3. QED
    BY <2>1, <2>2
<1>5. QED
  BY <1>1, <1>2, <1>3, <1>4 DEF Next

LEMMA GrantsCome ==
    ASSUME ClientInv, Next, NEW g \in G, lease[g] = Nowhere, lease'[g] # Nowhere
    PROVE  Granted(g)
<1>1. lease \in [G -> Place]
  BY DEF ClientInv, TypeOK
<1>2. QED
  BY <1>1, LeaseChanges DEF Granted, Release

(* AcquireChannel never answers with a channel of a link that Reconnect    *)
(* replaced or Close closed while the caller waited.                       *)
THEOREM GrantsAreCurrent == Spec => GrantFromCurrent
<1> DEFINE Fresh == \A g \in G : lease[g] = Nowhere /\ lease'[g] # Nowhere
                       => lease'[g][1] = cur /\ ~closed /\ pool[cur] = "open"
<1>1. ClientInv /\ [Next]_vars => [Fresh]_vars
  <2> SUFFICES ASSUME ClientInv, Next PROVE Fresh
    OBVIOUS
  <2> SUFFICES ASSUME NEW g \in G, lease[g] = Nowhere, lease'[g] # Nowhere
               PROVE  lease'[g][1] = cur /\ ~closed /\ pool[cur] = "open"
    OBVIOUS
  <2>1. Granted(g)
    BY GrantsCome
  <2>2. pc[g] = "acquire" /\ lease'[g] = at[g]
    BY <2>1 DEF Granted, Step, ClientInv, TypeOK
  <2>3. QED
    BY <2>2 DEF ClientInv, ReaderSees
<1>2. QED
  BY <1>1, ClientAlways, PTL DEF Spec, GrantFromCurrent

(* HealthStatus tells the truth about the connections, also after a failed *)
(* Reconnect and with connections of older links around.                   *)
LEMMA HealthFollows == ASSUME ClientInv PROVE HealthTruthful
<1> USE DEF ClientInv
<1> SUFFICES ASSUME CanRead PROVE HealthTruthful!2
  BY DEF HealthTruthful
<1>1. \A g \in G : pc[g] \notin Closing
  BY DEF CanRead, WriteHeld
<1>2. cur # 0 => closed \/ pool[cur] = "open"
  BY <1>1 DEF LinksInOrder
<1> DEFINE Up == {i \in Slots : conn[cur][i] = "up"}
<1>3. IsFiniteSet(Slots) /\ Slots \subseteq Slot /\ 1 \in Slots
  BY ClientAssumption, FS_Interval, FS_Singleton DEF Slots, Slot
<1>4. /\ IsFiniteSet(Up) /\ Cardinality(Up) \in Nat /\ Cardinality(Slots) \in Nat
      /\ Cardinality(Up) = Cardinality(Slots) => Up = Slots
      /\ Cardinality(Up) <= Cardinality(Slots)
      /\ Cardinality(Up) = 0 <=> Up = {}
      /\ Cardinality(Slots) = 0 <=> Slots = {}
  BY <1>3, FS_Subset, FS_CardinalityType, FS_EmptySet
<1>5. HealthStatus = "closed" <=> closed
  BY <1>2 DEF HealthStatus, PoolStatus
<1>6. HealthStatus = "up" => \A i \in Slots : conn[cur][i] = "up"
  BY <1>4 DEF HealthStatus, PoolStatus, Active, Slots
<1>7. ASSUME HealthStatus = "degraded"
      PROVE  /\ \E i \in Slots : conn[cur][i] = "up"
             /\ \E i \in Slots : conn[cur][i] # "up"
  <2>1. Cardinality(Up) # 0 /\ Cardinality(Up) < Cardinality(Slots)
    BY <1>7 DEF HealthStatus, PoolStatus, Active
  <2>2. Up # {} /\ Up # Slots
    BY <1>4, <2>1
  <2>3. QED
    BY <2>2
<1>8. ASSUME HealthStatus = "down" PROVE \A k \in Link : AllShut(k)
  <2>1. cur = 0 \/ Up = {}
    BY <1>4, <1>8 DEF HealthStatus, PoolStatus, Active, Slots
  <2>2. cur = 0 \/ AllShut(cur)
    <3>1. CASE cur # 0 /\ Up = {}
      <4>1. cur \in Link
        BY <3>1 DEF TypeOK, Link
      <4>2. \A i \in Slot \ Slots : conn[cur][i] # "up"
        BY <4>1 DEF LinksInOrder, Slots
      <4>3. QED
        BY <3>1, <4>2 DEF AllShut
    <3>2. QED
      BY <1>4, <2>1, <3>1
  <2>3. QED
    BY <2>2, NoneUp DEF AllShut, TypeOK
<1>9. QED
  BY <1>5, <1>6, <1>7, <1>8

THEOREM HealthIsTruthful == Spec => []HealthTruthful
<1>1. ClientInv => HealthTruthful
  BY HealthFollows
<1>2. QED
  BY <1>1, ClientAlways, PTL

-----------------------------------------------------------------------------
(* How a connection may change *)

(* A connection goes up because it was just dialled, and down because it   *)
(* is lost or shut; no other step touches one.                             *)
GoesDown == \E k \in Link, i \in Slot : conn[k][i] = "up" /\ SetConn(k, i, "down")

LEMMA ConnChanges ==
    ASSUME ClientInv, Next PROVE conn' = conn \/ GoesDown \/ \E g \in G : DialOk(g)
<1> USE DEF linkVars
<1>1. CASE Drop
  BY <1>1 DEF Drop, GoesDown
<1>2. ASSUME NEW g \in G, Borrowing(g) PROVE conn' = conn
  BY <1>2 DEF Borrowing, WantChannel, Refused, EmptySlot, AskPool, AskConnection,
              Granted, NotGranted, CtxDone, Release
<1>3. ASSUME NEW g \in G, Reading(g) PROVE conn' = conn
  BY <1>3 DEF Reading, WantPeek, Peek, WantPing, PingRefused, PingReads, PingTries, PingTooLate, PingDone
<1>4. ASSUME NEW g \in G, Writing(g), ~DialOk(g), ~Shut(g) PROVE conn' = conn
  <2>1. CASE WriterStep(g)
    BY <1>4, <2>1 DEF WriterStep, AlreadyClosed, BeginClose, BeginReconnect, OutOfDials,
       Mark, Drain, CloseDone, Unlink, StartDial, DialFail, UndoDone
  <2>2. CASE ~WriterStep(g)
    BY <1>4, <2>2 DEF Writing, WantLock, Announce
  <2>3. QED
    BY <2>1, <2>2
<1>5. ASSUME NEW g \in G, Shut(g) PROVE GoesDown
  <2>1. cur \in Link
    BY <1>5 DEF Shut, ClientInv, WriterSees, TypeOK, Closing, Link
  <2>2. QED
    BY <1>5, <2>1 DEF Shut, GoesDown
<1>6. QED
  BY <1>1, <1>2, <1>3, <1>4, <1>5 DEF Next

(* dialAll has reached nothing behind the slot it is at. *)
RestStillEmpty ==
    \A g \in G : pc[g] = "dialing" =>
        \A j \in Slot : j >= at[g][2] => conn[at[g][1]][j] = "none"

DialInv == ClientInv /\ RestStillEmpty

(* Only StartDial and DialOk lead a goroutine to "dialing" or move it on.  *)
LEMMA DialingKept ==
    ASSUME ClientInv, Next, NEW h \in G, pc'[h] = "dialing",
           ~StartDial(h), ~DialOk(h)
    PROVE  pc[h] = "dialing" /\ at'[h] = at[h]
<1> USE DEF Step
<1>0. /\ pc \in [G -> Label] /\ at \in [G -> Place]
  BY DEF ClientInv, TypeOK
<1>1. CASE Drop
  BY <1>1 DEF Drop
<1>2. ASSUME NEW g \in G, Borrowing(g) PROVE pc[h] = "dialing" /\ at'[h] = at[h]
  <2>1. \/ pc' = pc /\ at' = at
        \/ pc' = [pc EXCEPT ![g] = "ask"] /\ at' = at
        \/ pc' = [pc EXCEPT ![g] = "out"] /\ at' = at
        \/ pc' = [pc EXCEPT ![g] = "out"] /\ at' = [at EXCEPT ![g] = Nowhere]
        \/ pc' = [pc EXCEPT ![g] = "acquire"] /\ \E p \in Place : at' = [at EXCEPT ![g] = p]
    <3>1. CASE AskPool(g) \/ AskConnection(g)
      <4>1. pc' = [pc EXCEPT ![g] = "acquire"] /\ \E p : at' = [at EXCEPT ![g] = p]
        BY <3>1 DEF AskPool, AskConnection
      <4>2. at' \in [G -> Place]
        BY <3>1, BorrowingKeeps, <1>2 DEF ClientInv, TypeOK
      <4>3. QED
        BY <1>0, <4>1, <4>2
    <3>2. CASE ~(AskPool(g) \/ AskConnection(g))
      BY <1>2, <3>2 DEF Borrowing, WantChannel, Refused, EmptySlot, Granted, NotGranted, CtxDone, Release
    <3>3. QED
      BY <3>1, <3>2
  <2>2. QED
    BY <1>0, <2>1
<1>3. ASSUME NEW g \in G, Reading(g) PROVE pc[h] = "dialing" /\ at'[h] = at[h]
  <2>1. /\ \A x \in G \ {g} : pc'[x] = pc[x] /\ at'[x] = at[x]
        /\ pc'[g] # "dialing"
    BY <1>0, <1>3 DEF Reading, WantPeek, Peek, WantPing, PingRefused, PingReads, PingTries, PingTooLate, PingDone
  <2>2. QED
    BY <2>1
<1>4. ASSUME NEW g \in G, Writing(g) PROVE pc[h] = "dialing" /\ at'[h] = at[h]
  <2>1. CASE StartDial(g) \/ DialOk(g)
    <3>1. g # h /\ \A x \in G \ {g} : pc'[x] = pc[x] /\ at'[x] = at[x]
      BY <1>0, <2>1 DEF StartDial, DialOk
    <3>2. QED
      BY <3>1
  <2>2. CASE AlreadyClosed(g) \/ BeginClose(g) \/ BeginReconnect(g) \/ OutOfDials(g)
    <3>1. at' = at /\ \E l \in Label \ {"dialing"} : pc' = [pc EXCEPT ![g] = l]
      BY <2>2 DEF AlreadyClosed, BeginClose, BeginReconnect, OutOfDials, Label, WriteHeld, Closing
    <3>2. QED
      BY <1>0, <3>1
  <2>3. CASE Mark(g) \/ Drain(g) \/ CloseDone(g) \/ Unlink(g) \/ UndoDone(g) \/ Shut(g)
    BY <1>0, <2>3 DEF Mark, Drain, CloseDone, Unlink, UndoDone, Shut
  <2>4. CASE DialFail(g)
    BY <1>0, <2>4 DEF DialFail
  <2>5. CASE WantLock(g, "close") \/ WantLock(g, "reconnect") \/ Announce(g)
    BY <1>0, <2>5 DEF WantLock, Announce
  <2>6. QED
    BY <1>4, <2>1, <2>2, <2>3, <2>4, <2>5 DEF Writing, WriterStep
<1>5. QED
  BY <1>1, <1>2, <1>3, <1>4 DEF Next

(* What a step of dialAll does: it writes the slot it is at and moves on,  *)
(* in a link nobody else dials.                                            *)
LEMMA DialOkFacts ==
    ASSUME DialInv, NEW g \in G, DialOk(g)
    PROVE  /\ at[g][1] = made /\ made \in Link /\ at[g][2] \in Slot /\ ~closed
           /\ conn[made][at[g][2]] = "none"
           /\ \A j \in Slot : j < at[g][2] => conn[made][j] # "none"
           /\ SetConn(made, at[g][2], "up") /\ cur' = made
           /\ closed' = closed /\ made' = made /\ lease' = lease
           /\ \A h \in G \ {g} : pc'[h] # "dialing"
           /\ pc'[g] = "dialing" => at'[g] = <<made, at[g][2] + 1>>
<1>0. pc \in [G -> Label] /\ at \in [G -> Place] /\ made \in Link
  BY DEF DialInv, ClientInv, TypeOK
<1>1. pc[g] = "dialing" /\ WriterSees(g)
  BY DEF DialOk, DialInv, ClientInv
<1>2. at[g] \in {made} \X Slots /\ at[g][1] = made /\ at[g][2] \in Slots /\ ~closed
      /\ \A j \in Slot : j < at[g][2] => conn[made][j] # "none"
  BY <1>1 DEF WriterSees
<1>3. at[g][2] \in Slot /\ at[g][2] >= at[g][2]
  BY <1>2, ClientAssumption DEF Slots, Slot
<1>4. conn[made][at[g][2]] = "none"
  BY <1>1, <1>2, <1>3 DEF DialInv, RestStillEmpty
<1>5. \A h \in G \ {g} : pc[h] # "dialing"
  BY <1>1 DEF DialInv, ClientInv, LocksExclude, Writer, WriteHeld, Dialing
<1>6. /\ SetConn(made, at[g][2], "up") /\ cur' = made
      /\ closed' = closed /\ made' = made /\ lease' = lease
      /\ \A h \in G \ {g} : pc'[h] = pc[h]
      /\ pc'[g] = "dialing" => at'[g] = <<made, at[g][2] + 1>>
  BY <1>0, <1>2 DEF DialOk
<1>7. QED
  BY <1>0, <1>2, <1>3, <1>4, <1>5, <1>6

LEMMA DialStart == ClientInv /\ Init => DialInv
BY DEF DialInv, RestStillEmpty, Init

LEMMA DialNext == ASSUME DialInv, [Next]_vars PROVE DialInv'
<1>0. ClientInv /\ ClientInv' /\ RestStillEmpty
  BY ClientNext DEF DialInv
<1>1. /\ conn \in [Link -> [Slot -> {"none", "up", "down"}]] /\ made \in Link
      /\ pc \in [G -> Label] /\ at \in [G -> Place] /\ Slot \subseteq Int
  BY <1>0 DEF ClientInv, TypeOK, Slot
<1>2. CASE Next
  <2> SUFFICES ASSUME NEW h \in G, pc'[h] = "dialing", NEW j \in Slot, j >= at'[h][2]
               PROVE  conn'[at'[h][1]][j] = "none"
    BY <1>0 DEF DialInv, RestStillEmpty
  <2>1. CASE StartDial(h)
    <3>1. /\ at'[h] = <<made + 1, 1>> /\ conn' = conn /\ pc[h] = "dial"
      BY <1>1, <2>1 DEF StartDial, Step
    <3>2. made + 1 \in Link /\ made + 1 > made
      BY <1>0, <1>1, <3>1, ClientAssumption DEF ClientInv, WriterSees, Link
    <3>3. QED
      BY <1>0, <3>1, <3>2 DEF ClientInv, LinksInOrder
  <2>2. CASE \E g \in G : DialOk(g)
    <3>1. PICK g \in G : DialOk(g)
      BY <2>2
    <3>2. h = g /\ at'[h] = <<made, at[h][2] + 1>> /\ at[h][2] \in Slot
          /\ at[h][1] = made /\ SetConn(made, at[h][2], "up")
      BY <3>1, DialOkFacts
    <3>3. j >= at[h][2] /\ j # at[h][2]
      <4>1. at'[h][2] = at[h][2] + 1
        BY <3>2
      <4>2. at[h][2] \in Int /\ j \in Int /\ j >= at[h][2] + 1
        BY <1>1, <3>2, <4>1
      <4>3. QED
        BY <4>2
    <3>4. conn[made][j] = "none"
      BY <1>0, <3>1, <3>2, <3>3 DEF RestStillEmpty, DialOk
    <3>5. QED
      BY <1>1, <3>2, <3>3, <3>4 DEF SetConn
  <2>3. CASE ~StartDial(h) /\ ~\E g \in G : DialOk(g)
    <3>1. pc[h] = "dialing" /\ at'[h] = at[h]
      BY <1>0, <1>2, <2>3, DialingKept
    <3>2. conn[at[h][1]][j] = "none" /\ at[h][1] \in Link
      BY <1>0, <1>1, <3>1 DEF RestStillEmpty, ClientInv, WriterSees
    <3>3. conn' = conn \/ GoesDown
      BY <1>0, <1>2, <2>3, ConnChanges
    <3>4. conn'[at[h][1]][j] = conn[at[h][1]][j]
      BY <1>1, <3>2, <3>3 DEF GoesDown, SetConn
    <3>5. QED
      BY <3>1, <3>2, <3>4
  <2>4. QED
    BY <2>1, <2>2, <2>3
<1>3. CASE UNCHANGED vars
  BY <1>0, <1>3 DEF vars, linkVars, DialInv, RestStillEmpty
<1>4. QED
  BY <1>2, <1>3

LEMMA DialAlways == Spec => []DialInv
<1>1. ClientInv /\ Init => DialInv
  BY DialStart
<1>2. DialInv /\ [Next]_vars => DialInv'
  BY DialNext
<1>3. QED
  BY <1>1, <1>2, ClientAlways, PTL DEF Spec

(* The life of a connection (dialAll at pool.go, Close): empty, up, down,  *)
(* and never up again.  It comes up only in the link dialled last, one     *)
(* slot after the other, while the client is open, so dialAll overwrites   *)
(* no connection: one that comes up is never lost from its slice.          *)
UpOnce ==
    [][\A k \in Link, i \in Slot : conn'[k][i] # conn[k][i] =>
          \/ conn[k][i] = "up" /\ conn'[k][i] = "down"
          \/ /\ conn[k][i] = "none" /\ conn'[k][i] = "up"
             /\ k = made /\ k = cur' /\ ~closed
             /\ \A j \in Slot : j < i => conn[k][j] # "none"]_vars

THEOREM ConnectionsComeUpOnce == Spec => UpOnce
<1> DEFINE Changes == \A k \in Link, i \in Slot : conn'[k][i] # conn[k][i] =>
          \/ conn[k][i] = "up" /\ conn'[k][i] = "down"
          \/ /\ conn[k][i] = "none" /\ conn'[k][i] = "up"
             /\ k = made /\ k = cur' /\ ~closed
             /\ \A j \in Slot : j < i => conn[k][j] # "none"
<1>1. DialInv /\ [Next]_vars => [Changes]_vars
  <2> SUFFICES ASSUME DialInv, Next PROVE Changes
    OBVIOUS
  <2>0. conn \in [Link -> [Slot -> {"none", "up", "down"}]] /\ ClientInv
    BY DEF DialInv, ClientInv, TypeOK
  <2>1. CASE conn' = conn \/ GoesDown
    BY <2>0, <2>1 DEF GoesDown, SetConn
  <2>2. CASE \E g \in G : DialOk(g)
    <3>1. PICK g \in G : DialOk(g)
      BY <2>2
    <3>2. /\ made \in Link /\ at[g][2] \in Slot /\ ~closed
          /\ conn[made][at[g][2]] = "none"
          /\ \A j \in Slot : j < at[g][2] => conn[made][j] # "none"
          /\ SetConn(made, at[g][2], "up") /\ cur' = made
      BY <3>1, DialOkFacts
    <3>3. \A k \in Link, i \in Slot : conn'[k][i] # conn[k][i] => k = made /\ i = at[g][2]
      BY <2>0, <3>2 DEF SetConn
    <3>4. conn'[made][at[g][2]] = "up"
      BY <2>0, <3>2 DEF SetConn
    <3>5. QED
      BY <3>2, <3>3, <3>4
  <2>3. QED
    BY <2>0, <2>1, <2>2, ConnChanges
<1>2. QED
  BY <1>1, DialAlways, PTL DEF Spec, UpOnce

(* Client.Close is final.  A Reconnect, AcquireChannel or NewChannel that  *)
(* waits for the lock when it is called, or comes later, dials nothing,    *)
(* brings nothing up and is handed no channel.                             *)
StaysClosed ==
    closed => /\ closed' /\ cur' = cur /\ made' = made
              /\ \A k \in Link, i \in Slot : conn'[k][i] = "up" => conn[k][i] = "up"
              /\ \A g \in G : lease'[g] \in {Nowhere, lease[g]}

ClosedForGood == [][StaysClosed]_vars

LEMMA ClosedKeeps ==
    ASSUME ClientInv, Next, closed PROVE closed' /\ cur' = cur /\ made' = made
<1> USE DEF linkVars
<1>1. CASE Drop
  BY <1>1 DEF Drop
<1>2. ASSUME NEW g \in G, Borrowing(g) PROVE closed' /\ cur' = cur /\ made' = made
  BY <1>2 DEF Borrowing, WantChannel, Refused, EmptySlot, AskPool, AskConnection,
              Granted, NotGranted, CtxDone, Release
<1>3. ASSUME NEW g \in G, Reading(g) PROVE closed' /\ cur' = cur /\ made' = made
  BY <1>3 DEF Reading, WantPeek, Peek, WantPing, PingRefused, PingReads, PingTries, PingTooLate, PingDone
<1>4. ASSUME NEW g \in G, Writing(g) PROVE closed' /\ cur' = cur /\ made' = made
  <2>1. pc[g] \notin {"dial", "dialing", "undo"}
    BY DEF ClientInv, WriterSees
  <2>2. ~StartDial(g) /\ ~DialOk(g)
    BY <2>1 DEF StartDial, DialOk, Step
  <2>3. CASE WriterStep(g)
    BY <2>2, <2>3 DEF WriterStep, AlreadyClosed, BeginClose, BeginReconnect, OutOfDials,
       Mark, Drain, Shut, CloseDone, Unlink, DialFail, UndoDone
  <2>4. CASE ~WriterStep(g)
    BY <1>4, <2>4 DEF Writing, WantLock, Announce
  <2>5. QED
    BY <2>3, <2>4
<1>5. QED
  BY <1>1, <1>2, <1>3, <1>4 DEF Next

THEOREM ClientCloseIsFinal == Spec => ClosedForGood
<1>1. DialInv /\ [Next]_vars => [StaysClosed]_vars
  <2> SUFFICES ASSUME DialInv, Next, closed PROVE StaysClosed
    BY DEF StaysClosed
  <2>0. conn \in [Link -> [Slot -> {"none", "up", "down"}]] /\ ClientInv
    BY DEF DialInv, ClientInv, TypeOK
  <2>1. ~\E g \in G : DialOk(g)
    BY DialOkFacts
  <2>2. \A k \in Link, i \in Slot : conn'[k][i] = "up" => conn[k][i] = "up"
    BY <2>0, <2>1, ConnChanges DEF GoesDown, SetConn
  <2>3. \A g \in G : lease'[g] \in {Nowhere, lease[g]}
    <3> SUFFICES ASSUME NEW g \in G, lease'[g] # Nowhere PROVE lease'[g] = lease[g]
      OBVIOUS
    <3>1. \A h \in G : ~Granted(h)
      BY <2>0 DEF Granted, Step, ClientInv, ReaderSees
    <3>2. lease' = lease \/ \E h \in G : Release(h)
      BY <2>0, <3>1, LeaseChanges
    <3>3. QED
      BY <2>0, <3>2 DEF Release, ClientInv, TypeOK
  <2>4. QED
    BY <2>0, <2>2, <2>3, ClosedKeeps DEF StaysClosed
<1>2. QED
  BY <1>1, DialAlways, PTL DEF Spec, ClosedForGood

-----------------------------------------------------------------------------
(* The round-robin counter *)

LEMMA Divides ==
    ASSUME NEW a \in Nat, NEW n \in Nat \ {0}
    PROVE  a \div n \in Int /\ a % n \in 0..(n - 1) /\ a = n * (a \div n) + (a % n)
BY SMT

LEMMA Grows ==
    ASSUME NEW x \in Int, NEW n \in Nat \ {0}, x >= 1 PROVE n * x >= n
BY SMT

LEMMA RemainderUnique ==
    ASSUME NEW n \in Nat \ {0}, NEW q \in Int, NEW r \in 0..(n - 1), NEW p \in Int, NEW s \in 0..(n - 1),
           n * q + r = n * p + s
    PROVE  r = s
<1>1. n * (q - p) = s - r
  BY SMT
<1>2. ~(q - p >= 1)
  BY <1>1, Grows
<1>3. n * (p - q) = r - s
  BY SMT
<1>4. ~(p - q >= 1)
  BY <1>3, Grows
<1>5. q = p
  BY <1>2, <1>4
<1>6. QED
  BY <1>1, <1>5

(* The counter p.current may be kept modulo n, as turn is.                 *)
LEMMA NextRemainder ==
    ASSUME NEW c \in Nat, NEW n \in Nat \ {0}
    PROVE  RoundRobin(RoundRobin(c, n) + 1, n) = RoundRobin(c + 1, n)
<1> DEFINE r == c % n
<1>1. c \div n \in Int /\ r \in 0..(n - 1) /\ c = n * (c \div n) + r
  BY Divides
<1>2. /\ (r + 1) \div n \in Int /\ (r + 1) % n \in 0..(n - 1)
      /\ r + 1 = n * ((r + 1) \div n) + ((r + 1) % n)
  BY <1>1, Divides
<1>3. /\ (c + 1) \div n \in Int /\ (c + 1) % n \in 0..(n - 1)
      /\ c + 1 = n * ((c + 1) \div n) + ((c + 1) % n)
  BY Divides
<1> DEFINE p == c \div n
           q == (r + 1) \div n
<1>4. n * (p + q) = n * p + n * q
  BY <1>1, <1>2
<1>5. n * (p + q) + ((r + 1) % n) = n * ((c + 1) \div n) + ((c + 1) % n)
  <2> HIDE DEF p, q, r
  <2>1. n * p \in Int /\ n * q \in Int
    BY <1>1, <1>2 DEF p, q
  <2>2. c = n * p + r /\ r + 1 = n * q + ((r + 1) % n) /\ r \in Int /\ (r + 1) % n \in Int
    BY <1>1, <1>2 DEF p, q
  <2>3. c + 1 = n * p + n * q + ((r + 1) % n)
    BY <2>1, <2>2
  <2>4. QED
    BY <2>3, <1>3, <1>4
<1>6. (r + 1) % n = (c + 1) % n
  <2>1. p + q \in Int
    BY <1>1, <1>2
  <2> HIDE DEF p, q
  <2>2. QED
    BY <1>2, <1>3, <1>5, <2>1, RemainderUnique
<1>7. QED
  BY <1>6 DEF RoundRobin

(* Round robin is fair (AcquireFromPool, pool.go:345): wherever the        *)
(* counter stands, the next n calls visit each of the n connections once.  *)
THEOREM RoundRobinVisitsAll ==
    ASSUME NEW c \in Nat, NEW n \in Nat \ {0}, NEW i \in 0..(n - 1)
    PROVE  \E d \in 1..n : /\ RoundRobin(c + d, n) = i
                          /\ \A e \in 1..n : RoundRobin(c + e, n) = i => e = d
<1> DEFINE r == c % n
           q == c \div n
<1>1. q \in Int /\ r \in 0..(n - 1) /\ c = n * q + r
  BY Divides
<1>2. \E d \in 1..n : \E p \in Int : c + d = n * p + i
  <2> HIDE DEF q, r
  <2>0. n * q \in Int /\ n * (q + 1) = n * q + n
    BY <1>1
  <2>1. CASE i > r
    <3>1. i - r \in 1..n /\ c + (i - r) = n * q + i
      BY <1>1, <2>0, <2>1
    <3>2. QED
      BY <1>1, <3>1
  <2>2. CASE i <= r
    <3>1. n + i - r \in 1..n /\ c + (n + i - r) = n * (q + 1) + i
      BY <1>1, <2>0, <2>2
    <3>2. q + 1 \in Int
      BY <1>1
    <3>3. QED
      BY <3>1, <3>2
  <2>3. QED
    BY <1>1, <2>1, <2>2
<1>3. PICK d \in 1..n, p \in Int : c + d = n * p + i
  BY <1>2
<1>4. RoundRobin(c + d, n) = i
  <2>1. c + d \in Nat
    OBVIOUS
  <2>2. /\ (c + d) \div n \in Int /\ (c + d) % n \in 0..(n - 1)
        /\ c + d = n * ((c + d) \div n) + ((c + d) % n)
    BY <2>1, Divides
  <2>3. QED
    BY <1>3, <2>2, RemainderUnique DEF RoundRobin
<1>5. ASSUME NEW e \in 1..n, RoundRobin(c + e, n) = i PROVE e = d
  <2>1. /\ (c + e) \div n \in Int /\ c + e = n * ((c + e) \div n) + i
    BY <1>5, Divides DEF RoundRobin
  <2> DEFINE s == (c + e) \div n
  <2> HIDE DEF s
  <2>2. s \in Int /\ n * (s - p) = n * s - n * p /\ n * (p - s) = n * p - n * s
    BY <2>1, <1>3 DEF s
  <2>3. n * s \in Int /\ n * p \in Int /\ c + e = n * s + i /\ c + d = n * p + i
    BY <2>1, <1>3, <2>2 DEF s
  <2>4. n * (s - p) = e - d /\ n * (p - s) = d - e
    BY <2>2, <2>3
  <2>5. s - p < 1 /\ p - s < 1
    <3>1. e - d < n /\ d - e < n
      OBVIOUS
    <3>2. s - p \in Int /\ p - s \in Int
      BY <1>3, <2>2
    <3>3. QED
      BY <2>4, <3>1, <3>2, Grows
  <2>6. s = p
    BY <1>3, <2>2, <2>5
  <2>7. QED
    BY <2>3, <2>6
<1>6. QED
  BY <1>4, <1>5

(* How far that goes: p.current is an int32, and after k increments it     *)
(* holds the signed value of k, half = 2^31; % truncates in Go.            *)
Signed(k, half) == ((k + half) % (2 * half)) - half
GoRem(a, n) == IF a >= 0 THEN a % n ELSE -((-a) % n)

LEMMA SmallRemainder ==
    ASSUME NEW m \in Nat \ {0}, NEW r \in 0..(m - 1), NEW q \in Int, NEW a \in Nat, a = m * q + r
    PROVE  a % m = r
<1>1. a \div m \in Int /\ a % m \in 0..(m - 1) /\ a = m * (a \div m) + (a % m)
  BY Divides
<1>2. QED
  BY <1>1, RemainderUnique

(* Until the counter wraps the index in the code is the model's.  After    *)
(* half increments it is negative, outside the slice, unless n divides the *)
(* count: what is checked and proved of Client is about the first 2^31 - 1 *)
(* channels asked for on a pool.                                           *)
THEOREM RoundRobinHorizon ==
    ASSUME NEW half \in Nat \ {0}, NEW n \in 1..(half - 1), NEW k \in 0..(2 * half - 1)
    PROVE  /\ k < half => GoRem(Signed(k, half), n) = RoundRobin(k, n)
           /\ k >= half => GoRem(Signed(k, half), n) = -RoundRobin(2 * half - k, n)
<1>0. 2 * half \in Nat \ {0} /\ k \in Nat /\ n \in Nat \ {0}
  OBVIOUS
<1>1. CASE k < half
  <2>1. k + half \in 0..(2 * half - 1) /\ k + half = (2 * half) * 0 + (k + half) /\ k + half \in Nat
    BY <1>1
  <2>2. (k + half) % (2 * half) = k + half
    BY <1>0, <2>1, SmallRemainder
  <2>3. Signed(k, half) = k
    BY <1>0, <2>2 DEF Signed
  <2>4. QED
    BY <1>0, <1>1, <2>3 DEF GoRem, RoundRobin
<1>2. CASE k >= half
  <2>1. k - half \in 0..(2 * half - 1) /\ k + half = (2 * half) * 1 + (k - half) /\ k + half \in Nat
    BY <1>2
  <2>2. (k + half) % (2 * half) = k - half
    BY <1>0, <2>1, SmallRemainder
  <2>3. Signed(k, half) = k - 2 * half
    BY <1>0, <2>2 DEF Signed
  <2>4. -(k - 2 * half) = 2 * half - k /\ ~(k - 2 * half >= 0) /\ ~(k < half)
    BY <1>2
  <2>5. QED
    BY <2>3, <2>4 DEF GoRem, RoundRobin
<1>3. QED
  BY <1>1, <1>2
=============================================================================
