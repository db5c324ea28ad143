------------------------------- MODULE Client --------------------------------
(***************************************************************************)
(* Client of client.go and ConnectionPool of pool.go: the connections of   *)
(* one client, their replacement by Reconnect, and the two read-write      *)
(* locks on the way (Client.mu, ConnectionPool.mu).                        *)
(*                                                                         *)
(* Each dial makes a new link: a ConnectionPool with N connections and a   *)
(* ChannelPool for each, or one plain connection (single mode).  Links are *)
(* numbered 1, 2, ...; cur is the one c.pool or c.conn refers to, 0 is     *)
(* nil.  Old links stay reachable through leases and running Pings.        *)
(*                                                                         *)
(* The locks are not variables: who holds them follows from where the      *)
(* goroutines are.  As in Go, a writer that waits keeps new readers out.   *)
(* A ChannelPool is what LeasePool promises: Acquire answers with a        *)
(* channel, with an error, or when the context ends; it may block while    *)
(* there is room (see ChannelPool!BlockedOnlyAtLimit).                     *)
(***************************************************************************)
EXTENDS Integers, FiniteSets

CONSTANTS G,               \* goroutines
          N,               \* connections of a ConnectionPool
          ChannelPoolSize, \* Config.ChannelPoolSize, after newChannelPool
          MaxDials,        \* bound: links made, the first one included
          Modes,           \* which of "single" and "pool" to start in
          Patient          \* goroutines whose context never ends

ASSUME ClientAssumption ==
    /\ IsFiniteSet(G)
    /\ N \in Nat \ {0}
    /\ ChannelPoolSize \in Nat \ {0}
    /\ MaxDials \in Nat \ {0}
    /\ Modes \subseteq {"single", "pool"}
    /\ Patient \subseteq G

Link  == 1..MaxDials
Slot  == 1..N
Place == (0..MaxDials) \X (0..N)
Nowhere == <<0, 0>>

(* Where a goroutine is.  "ask", "peek", "ping": about to take c.mu for    *)
(* reading, in NewChannel or AcquireChannel, in a method that only reads   *)
(* the fields (IsClosed, HealthStatus, Stats, RawConnection, Notify...),   *)
(* and in Ping.  "acquire": in AcquireFromPool (conn.Channel() in single   *)
(* mode), both locks read-held.  "pinging": Ping has let c.mu go;          *)
(* "pingOpen": it opens its channel, ConnectionPool.mu read-held.          *)
(* "lock", "announced": waiting for c.mu as a writer, first for other      *)
(* writers, then for the readers.  The rest hold c.mu for writing.         *)
ReadHeld  == {"acquire"}
Closing   == {"mark", "drain", "shut"}
Dialing   == {"dialing", "undo"}
WriteHeld == Closing \cup Dialing \cup {"dial"}
Label     == ReadHeld \cup WriteHeld
               \cup {"out", "ask", "peek", "ping", "pinging", "pingOpen", "lock", "announced"}

VARIABLES single,  \* single-connection mode
          closed,  \* c.closed
          cur,     \* the current link
          made,    \* links made so far
          conn,    \* conn[k][i]: "none" (nil), "up" or "down"
          pool,    \* "open", "marked" (p.closed), "closed" (and its ChannelPools)
          turn,    \* p.current modulo N
          pc,      \* where each goroutine is
          job,     \* what it waits for c.mu for
          at,      \* the connection it is working on
          lease    \* the connection its channel belongs to

linkVars == <<cur, made, conn, pool, turn>>
vars == <<single, closed, linkVars, pc, job, at, lease>>

Slots == IF single THEN {1} ELSE Slot

TypeOK ==
    /\ single \in BOOLEAN
    /\ closed \in BOOLEAN
    /\ cur \in 0..MaxDials
    /\ made \in Link
    /\ conn \in [Link -> [Slot -> {"none", "up", "down"}]]
    /\ pool \in [Link -> {"open", "marked", "closed"}]
    /\ turn \in [Link -> 0..(N - 1)]
    /\ pc \in [G -> Label]
    /\ job \in [G -> {"none", "close", "reconnect"}]
    /\ at \in [G -> Place]
    /\ lease \in [G -> Place]

(* New has returned: the first link is complete. *)
Init ==
    /\ single \in {m = "single" : m \in Modes}
    /\ closed = FALSE
    /\ cur = 1 /\ made = 1
    /\ conn = [k \in Link |-> [i \in Slot |-> IF k = 1 /\ i \in Slots THEN "up" ELSE "none"]]
    /\ pool = [k \in Link |-> "open"]
    /\ turn = [k \in Link |-> 0]
    /\ pc = [g \in G |-> "out"]
    /\ job = [g \in G |-> "none"]
    /\ at = [g \in G |-> Nowhere]
    /\ lease = [g \in G |-> Nowhere]

Step(g, from, to) == pc[g] = from /\ pc' = [pc EXCEPT ![g] = to]
SetConn(k, i, s)  == conn' = [conn EXCEPT ![k] = [@ EXCEPT ![i] = s]]

-----------------------------------------------------------------------------
(* The locks *)

CanRead       == \A h \in G : pc[h] \notin WriteHeld \cup {"announced"}
\* Mutant: Client.AcquireChannel lets c.mu go before it waits.
ReadersPassed == TRUE
NoReader      == \A h \in G : pc[h] \notin ReadHeld
(* ConnectionPool.mu of link k: Close waits for it at "mark". *)
CanReadPool(k)  == ~(k = cur /\ \E h \in G : pc[h] = "mark")
\* Mutant: ConnectionPool.Close sets p.closed without p.mu.
AnyPoolReader(k) == TRUE
NoPoolReader(k) == \A h \in G : pc[h] \in {"acquire", "pingOpen"} => at[h][1] # k

-----------------------------------------------------------------------------
(* NewChannel and AcquireChannel.  A goroutine borrows one channel a time. *)

WantChannel(g) ==
    /\ Step(g, "out", "ask") /\ lease[g] = Nowhere
    /\ UNCHANGED <<single, closed, linkVars, job, at, lease>>

Usable == ~closed /\ cur # 0 /\ pool[cur] = "open"

(* AcquireChannel needs a pool, NewChannel does not. *)
Refused(g) ==
    /\ Step(g, "ask", "out") /\ CanRead /\ (single \/ ~Usable)
    /\ UNCHANGED <<single, closed, linkVars, job, at, lease>>

(* Round robin: the counter is incremented before it is used. *)
RoundRobin(count, n) == count % n
NextTurn(k) == RoundRobin(turn[k] + 1, N)

(* The slot is nil: a dialAll that failed has not reached it. *)
EmptySlot(g) ==
    /\ Step(g, "ask", "out") /\ CanRead /\ Usable /\ ~single
    /\ conn[cur][NextTurn(cur) + 1] = "none"
    /\ turn' = [turn EXCEPT ![cur] = NextTurn(cur)]
    /\ UNCHANGED <<single, closed, cur, made, conn, pool, job, at, lease>>

AskPool(g) ==
    /\ Step(g, "ask", "acquire") /\ CanRead /\ Usable /\ ~single
    /\ conn[cur][NextTurn(cur) + 1] # "none"
    /\ turn' = [turn EXCEPT ![cur] = NextTurn(cur)]
    /\ at' = [at EXCEPT ![g] = <<cur, NextTurn(cur) + 1>>]
    /\ UNCHANGED <<single, closed, cur, made, conn, pool, job, lease>>

AskConnection(g) ==
    /\ Step(g, "ask", "acquire") /\ CanRead /\ Usable /\ single
    /\ at' = [at EXCEPT ![g] = <<cur, 1>>]
    /\ UNCHANGED <<single, closed, linkVars, job, lease>>

Holders(p) == {h \in G : lease[h] = p}
Room(p)    == single \/ Cardinality(Holders(p)) < ChannelPoolSize

Granted(g) ==
    /\ Step(g, "acquire", "out")
    /\ Room(at[g]) /\ conn[at[g][1]][at[g][2]] = "up" /\ pool[at[g][1]] # "closed"
    /\ lease' = [lease EXCEPT ![g] = at[g]]
    /\ at' = [at EXCEPT ![g] = Nowhere]
    /\ UNCHANGED <<single, closed, linkVars, job>>

(* The channel does not open, or its ChannelOptions fail. *)
NotGranted(g) ==
    /\ Step(g, "acquire", "out")
    /\ Room(at[g]) \/ pool[at[g][1]] = "closed"
    /\ at' = [at EXCEPT ![g] = Nowhere]
    /\ UNCHANGED <<single, closed, linkVars, job, lease>>

\* Mutant: AcquireFromPool is not given the caller's context.
CtxDoneIgnored(g) ==
    /\ Step(g, "acquire", "out") /\ FALSE
    /\ UNCHANGED <<single, closed, linkVars, job, at, lease>>

(* NewChannel's five seconds, or the caller's context. *)
CtxDone(g) ==
    /\ Step(g, "acquire", "out") /\ ~single /\ g \notin Patient
    /\ at' = [at EXCEPT ![g] = Nowhere]
    /\ UNCHANGED <<single, closed, linkVars, job, lease>>

(* Channel.Close of the borrower: it needs neither of the two locks. *)
Release(g) ==
    /\ pc[g] = "out" /\ lease[g] # Nowhere
    /\ lease' = [lease EXCEPT ![g] = Nowhere]
    /\ UNCHANGED <<single, closed, linkVars, pc, job, at>>

-----------------------------------------------------------------------------
(* Methods that only read *)

WantPeek(g) ==
    /\ Step(g, "out", "peek")
    /\ UNCHANGED <<single, closed, linkVars, job, at, lease>>

Peek(g) ==
    /\ Step(g, "peek", "out") /\ CanRead
    /\ UNCHANGED <<single, closed, linkVars, job, at, lease>>

WantPing(g) ==
    /\ Step(g, "out", "ping")
    /\ UNCHANGED <<single, closed, linkVars, job, at, lease>>

PingRefused(g) ==
    /\ Step(g, "ping", "out") /\ CanRead
    /\ closed \/ cur = 0
    /\ UNCHANGED <<single, closed, linkVars, job, at, lease>>

(* Ping keeps the link and lets c.mu go. *)
PingReads(g) ==
    /\ Step(g, "ping", "pinging") /\ CanRead
    /\ ~closed /\ cur # 0
    /\ at' = [at EXCEPT ![g] = <<cur, 1>>]
    /\ UNCHANGED <<single, closed, linkVars, job, lease>>

(* ConnectionPool.AcquireChannel, or the plain connection. *)
PingTries(g) ==
    LET k == at[g][1]
        i == IF single THEN 1 ELSE NextTurn(k) + 1
    IN  /\ pc[g] = "pinging" /\ (single \/ (CanReadPool(k) /\ pool[k] = "open"))
        /\ turn' = IF single THEN turn ELSE [turn EXCEPT ![k] = NextTurn(k)]
        /\ IF conn[k][i] = "up"
             THEN /\ pc' = [pc EXCEPT ![g] = "pingOpen"]
                  /\ at' = [at EXCEPT ![g] = <<k, i>>]
             ELSE /\ pc' = [pc EXCEPT ![g] = "out"]
                  /\ at' = [at EXCEPT ![g] = Nowhere]
        /\ UNCHANGED <<single, closed, cur, made, conn, pool, job, lease>>

(* The link was closed after Ping had let c.mu go. *)
PingTooLate(g) ==
    /\ Step(g, "pinging", "out")
    /\ ~single /\ CanReadPool(at[g][1]) /\ pool[at[g][1]] # "open"
    /\ at' = [at EXCEPT ![g] = Nowhere]
    /\ UNCHANGED <<single, closed, linkVars, job, lease>>

PingDone(g) ==
    /\ Step(g, "pingOpen", "out")
    /\ at' = [at EXCEPT ![g] = Nowhere]
    /\ UNCHANGED <<single, closed, linkVars, job, lease>>
-----------------------------------------------------------------------------
(* Close and Reconnect *)

WantLock(g, j) ==
    /\ Step(g, "out", "lock")
    /\ j = "reconnect" => made < MaxDials
    /\ job' = [job EXCEPT ![g] = j]
    /\ UNCHANGED <<single, closed, linkVars, at, lease>>

(* One writer at a time goes on to wait for the readers. *)
Announce(g) ==
    /\ Step(g, "lock", "announced") /\ CanRead
    /\ UNCHANGED <<single, closed, linkVars, job, at, lease>>

Locked(g) == pc[g] = "announced" /\ NoReader

Served(g) == job' = [job EXCEPT ![g] = "none"]

AlreadyClosed(g) ==
    /\ Locked(g) /\ closed
    /\ pc' = [pc EXCEPT ![g] = "out"]
    /\ Served(g) /\ UNCHANGED <<single, closed, linkVars, at, lease>>

(* The link that has to be closed first, if there is one.  A plain         *)
(* connection has no pool to mark and drain.                               *)
BeginClose(g) ==
    /\ Locked(g) /\ ~closed /\ job[g] = "close"
    /\ closed' = TRUE
    /\ pc' = [pc EXCEPT ![g] = IF cur = 0 THEN "out" ELSE IF single THEN "shut" ELSE "mark"]
    /\ Served(g) /\ UNCHANGED <<single, linkVars, at, lease>>

\* Mutant: Reconnect does not close the old link.
BeginReconnectKeeps(g) ==
    /\ Locked(g) /\ ~closed /\ job[g] = "reconnect" /\ made < MaxDials
    /\ pc' = [pc EXCEPT ![g] = "dial"]
    /\ Served(g) /\ UNCHANGED <<single, closed, linkVars, at, lease>>

(* The bound is checked again: another Reconnect may have come first. *)
BeginReconnect(g) ==
    /\ Locked(g) /\ ~closed /\ job[g] = "reconnect" /\ made < MaxDials
    /\ pc' = [pc EXCEPT ![g] = IF cur = 0 THEN "dial" ELSE IF single THEN "shut" ELSE "mark"]
    /\ Served(g) /\ UNCHANGED <<single, closed, linkVars, at, lease>>

OutOfDials(g) ==
    /\ Locked(g) /\ ~closed /\ job[g] = "reconnect" /\ made = MaxDials
    /\ pc' = [pc EXCEPT ![g] = "out"]
    /\ Served(g) /\ UNCHANGED <<single, closed, linkVars, at, lease>>

(* ConnectionPool.Close: p.closed under p.mu, then, without the lock, the  *)
(* ChannelPools, then the connections one by one.                          *)
Mark(g) ==
    /\ Step(g, "mark", "drain") /\ NoPoolReader(cur)
    /\ pool' = [pool EXCEPT ![cur] = "marked"]
    /\ UNCHANGED <<single, closed, cur, made, conn, turn, job, at, lease>>

Drain(g) ==
    /\ Step(g, "drain", "shut")
    /\ pool' = [pool EXCEPT ![cur] = "closed"]
    /\ UNCHANGED <<single, closed, cur, made, conn, turn, job, at, lease>>

AllShut(k) == \A i \in Slot : conn[k][i] # "up"

Shut(g) ==
    /\ pc[g] \in {"shut", "undo"}
    /\ \E i \in Slot : conn[cur][i] = "up" /\ SetConn(cur, i, "down")
    /\ UNCHANGED <<single, closed, cur, made, pool, turn, pc, job, at, lease>>

CloseDone(g) ==
    /\ Step(g, "shut", "out") /\ AllShut(cur) /\ closed
    /\ UNCHANGED <<single, closed, linkVars, job, at, lease>>

(* Reconnect drops the closed link before it dials. *)
Unlink(g) ==
    /\ Step(g, "shut", "dial") /\ AllShut(cur) /\ ~closed
    /\ cur' = 0
    /\ UNCHANGED <<single, closed, made, conn, pool, turn, job, at, lease>>

(* dial: c.pool refers to the new pool before its connections are dialled, *)
(* c.conn to the new connection only once it is up.                        *)
StartDial(g) ==
    /\ Step(g, "dial", "dialing")
    /\ made' = made + 1
    /\ cur' = IF single THEN cur ELSE made + 1
    /\ at' = [at EXCEPT ![g] = <<made + 1, 1>>]
    /\ UNCHANGED <<single, closed, conn, pool, turn, job, lease>>

\* Mutant: dialAll dials one connection too many.
DialOkPastEnd(g) ==
    LET k == at[g][1]
        i == at[g][2]
        done == single \/ i > N
    IN  /\ pc[g] = "dialing"
        /\ SetConn(k, i, "up")
        /\ cur' = k
        /\ pc' = [pc EXCEPT ![g] = IF done THEN "out" ELSE "dialing"]
        /\ at' = [at EXCEPT ![g] = IF done THEN Nowhere ELSE <<k, i + 1>>]
        /\ UNCHANGED <<single, closed, made, pool, turn, job, lease>>

DialOk(g) ==
    LET k == at[g][1]
        i == at[g][2]
        done == single \/ i = N
    IN  /\ pc[g] = "dialing"
        /\ SetConn(k, i, "up")
        /\ cur' = k
        /\ pc' = [pc EXCEPT ![g] = IF done THEN "out" ELSE "dialing"]
        /\ at' = [at EXCEPT ![g] = IF done THEN Nowhere ELSE <<k, i + 1>>]
        /\ UNCHANGED <<single, closed, made, pool, turn, job, lease>>

\* Mutant: dialAll returns the error and leaves the earlier connections up.
DialFailKeeps(g) ==
    /\ Step(g, "dialing", "out")
    /\ at' = [at EXCEPT ![g] = Nowhere]
    /\ UNCHANGED <<single, closed, linkVars, job, lease>>

(* In pool mode the connections made so far are closed again. *)
DialFail(g) ==
    /\ Step(g, "dialing", IF single THEN "out" ELSE "undo")
    /\ at' = [at EXCEPT ![g] = Nowhere]
    /\ UNCHANGED <<single, closed, linkVars, job, lease>>

UndoDone(g) ==
    /\ Step(g, "undo", "out") /\ AllShut(cur)
    /\ UNCHANGED <<single, closed, linkVars, job, at, lease>>

(* A connection is lost. *)
Drop ==
    /\ \E k \in Link, i \in Slot : conn[k][i] = "up" /\ SetConn(k, i, "down")
    /\ UNCHANGED <<single, closed, cur, made, pool, turn, pc, job, at, lease>>

-----------------------------------------------------------------------------
Borrowing(g) ==
    \/ WantChannel(g) \/ Refused(g) \/ EmptySlot(g) \/ AskPool(g) \/ AskConnection(g)
    \/ Granted(g) \/ NotGranted(g) \/ CtxDone(g) \/ Release(g)

Reading(g) ==
    \/ WantPeek(g) \/ Peek(g)
    \/ WantPing(g) \/ PingRefused(g) \/ PingReads(g)
    \/ PingTries(g) \/ PingTooLate(g) \/ PingDone(g)

(* What a goroutine with c.mu write-held, or first in line for it, does. *)
WriterStep(g) ==
    \/ AlreadyClosed(g) \/ BeginClose(g) \/ BeginReconnect(g) \/ OutOfDials(g)
    \/ Mark(g) \/ Drain(g) \/ Shut(g) \/ CloseDone(g) \/ Unlink(g)
    \/ StartDial(g) \/ DialOk(g) \/ DialFail(g) \/ UndoDone(g)

Writing(g) == WantLock(g, "close") \/ WantLock(g, "reconnect") \/ Announce(g) \/ WriterStep(g)

(* conn.Channel() of single mode; a wait for a ChannelPool need not end.   *)
Opens(g) == single /\ (Granted(g) \/ NotGranted(g))

Next == Drop \/ \E g \in G : Borrowing(g) \/ Reading(g) \/ Writing(g)

Spec == Init /\ [][Next]_vars

(* Network calls return and contexts that can end do.  sync.RWMutex hands  *)
(* the lock to every waiter in the end, however many others want it, and a *)
(* borrower gives its channel back.                                        *)
Fairness ==
    \A g \in G : /\ WF_vars(CtxDone(g)) /\ WF_vars(Opens(g)) /\ WF_vars(PingDone(g)) /\ WF_vars(WriterStep(g))
                 /\ SF_vars(Announce(g)) /\ SF_vars(Peek(g)) /\ SF_vars(Release(g))

FairSpec == Spec /\ Fairness

(* The same with ChannelPools that answer whenever there is room. *)
PromptSpec == FairSpec /\ \A g \in G : SF_vars(Granted(g) \/ NotGranted(g))

-----------------------------------------------------------------------------
(* Health *)

(* Stats asks one connection after the other while they can only go down,  *)
(* so the number it counts was right at some moment in between.            *)
Active(k) == Cardinality({i \in Slots : conn[k][i] = "up"})

\* Mutant: Stats counts connections without asking IsClosed().
PoolStatusByPresence(k) ==
    IF pool[k] # "open" THEN "closed"
    ELSE IF \A i \in Slots : conn[k][i] # "none" THEN "up"
    ELSE IF \E i \in Slots : conn[k][i] # "none" THEN "degraded" ELSE "down"

PoolStatus(k) ==
    IF pool[k] # "open" THEN "closed"
    ELSE IF Active(k) = 0 THEN "down"
    ELSE IF Active(k) < Cardinality(Slots) THEN "degraded" ELSE "up"

(* HealthStatus().Status.  A plain connection is up or down. *)
HealthStatus ==
    IF closed THEN "closed"
    ELSE IF cur = 0 THEN "down"
    ELSE IF single THEN (IF conn[cur][1] = "up" THEN "up" ELSE "down")
    ELSE PoolStatus(cur)

-----------------------------------------------------------------------------
(* Correctness *)

(* A connection that is up belongs to the link of an open client, and a    *)
(* link with connections up and a slot still empty is just being dialled:  *)
(* Close and Reconnect, also one that fails half way, leave none behind.   *)
NoConnectionLeaked ==
    \A k \in Link, i \in Slot : conn[k][i] = "up" =>
        /\ k = cur
        /\ closed => \E g \in G : pc[g] \in Closing
        /\ (\E j \in Slots : conn[k][j] = "none") => \E g \in G : pc[g] \in Dialing

(* ConnectionPool.Close does not get between a goroutine's look at         *)
(* p.closed and its use of the connection.                                 *)
PoolNotClosedUnderReader ==
    \A g \in G : ~single /\ pc[g] \in {"acquire", "pingOpen"} => pool[at[g][1]] = "open"

(* Every channel handed out belongs to the connections the client has at   *)
(* that moment, never to those a Reconnect replaced or a Close closed      *)
(* while the caller waited.                                                *)
GrantFromCurrent ==
    [][\A g \in G : lease[g] = Nowhere /\ lease'[g] # Nowhere
          => lease'[g][1] = cur /\ ~closed /\ pool[cur] = "open"]_vars

(* What the comments at health.go:12-19 say of the four values, whenever   *)
(* HealthStatus can be computed (c.mu is free or read-held).               *)
HealthTruthful ==
    CanRead =>
        /\ HealthStatus = "closed" <=> closed
        /\ HealthStatus = "up" => \A i \in Slots : conn[cur][i] = "up"
        /\ HealthStatus = "degraded" =>
              /\ \E i \in Slots : conn[cur][i] = "up"
              /\ \E i \in Slots : conn[cur][i] # "up"
        /\ HealthStatus = "down" => \A k \in Link : AllShut(k)

(* Close and Reconnect get c.mu and come back, whoever waits for a channel *)
(* meanwhile.                                                              *)
CloseReturns == \A g \in G : pc[g] = "lock" ~> pc[g] = "out"
=============================================================================
