------------------------------- MODULE Producer ------------------------------
(***************************************************************************)
(* Producer and BatchProducer of producer.go: goroutines publish one by    *)
(* one, or collect a batch and flush it, through one AMQP channel in       *)
(* confirm mode or not.                                                    *)
(*                                                                         *)
(* A message is a number.  A delivery tag is the index of a publication in *)
(* sent, as the broker counts them.  The broker confirms in any order, or  *)
(* never.  Producer.mu is not a variable: it is held by the goroutine in   *)
(* "send", "wait" or "closing".  BatchProducer.mu is held within one step. *)
(***************************************************************************)
EXTENDS Integers, Sequences, FiniteSets

CONSTANTS T,           \* goroutines
          MaxSize,     \* maxSize of NewBatchProducer
          MaxBatched,  \* bound: messages added to the batch
          MaxSingle,   \* bound: messages published one by one
          MaxRetries   \* bound: repeated publications, over all messages

ASSUME ProducerAssumption ==
    /\ IsFiniteSet(T)
    /\ MaxSize \in Nat \ {0}
    /\ MaxBatched \in Nat
    /\ MaxSingle \in Nat
    /\ MaxRetries \in Nat

M == 1..(MaxBatched + MaxSingle)

(* "added": between Add and ShouldFlush; "flush": Flush was called.        *)
HoldsMu == {"send", "wait", "closing"}
Label   == HoldsMu \cup {"out", "added", "flush", "lock"}
Kind    == {"none", "plain", "ctx", "async", "flush", "close"}

VARIABLES enabled, \* p.enabled
          dead,    \* the channel was closed, by us or by the other side
          sent,    \* the publications, in the order of their delivery tags
          verdict, \* verdict[i]: "none", "ack" or "nack", what confirmation i says
          batch,   \* bp.batch
          made,    \* messages that exist
          flushes, \* batches taken
          taken,   \* taken[m]: the number of the batch m went with, 0: none
          retries, \* publications repeated
          outcome, \* outcome[m]: what Publish(m) returned, "dropped": never called
          pc, kind,
          todo,    \* what the goroutine still has to publish
          tag      \* the delivery tag of the confirmation it waits for

wireVars  == <<enabled, dead, sent, verdict>>
batchVars == <<batch, flushes, taken>>
callVars  == <<pc, kind, todo, tag>>
vars == <<wireVars, batchVars, made, retries, outcome, callVars>>

TypeOK ==
    /\ enabled \in BOOLEAN
    /\ dead \in BOOLEAN
    /\ sent \in Seq(M)
    /\ verdict \in Seq({"none", "ack", "nack"})
    /\ Len(verdict) = Len(sent)
    /\ batch \in Seq(M)
    /\ made \in 0..(MaxBatched + MaxSingle)
    /\ flushes \in Nat
    /\ taken \in [M -> Nat]
    /\ retries \in 0..MaxRetries
    /\ outcome \in [M -> {"none", "ok", "async", "error", "dropped"}]
    /\ pc \in [T -> Label]
    /\ kind \in [T -> Kind]
    /\ todo \in [T -> Seq(M)]
    /\ tag \in [T -> Nat]

(* NewProducer has put the channel into confirm mode if asked to. *)
Init ==
    /\ enabled \in BOOLEAN
    /\ dead = FALSE
    /\ sent = <<>> /\ verdict = <<>>
    /\ batch = <<>> /\ made = 0
    /\ flushes = 0 /\ taken = [m \in M |-> 0]
    /\ retries = 0
    /\ outcome = [m \in M |-> "none"]
    /\ pc = [t \in T |-> "out"]
    /\ kind = [t \in T |-> "none"]
    /\ todo = [t \in T |-> <<>>]
    /\ tag = [t \in T |-> 0]

Elems(s) == {s[i] : i \in 1..Len(s)}
(* The messages that were not added to the batch. *)
Single == {m \in 1..made : taken[m] = 0 /\ m \notin Elems(batch)}
Step(t, from, to) == pc[t] = from /\ pc' = [pc EXCEPT ![t] = to]

-----------------------------------------------------------------------------
(* Calls *)

Call(t, k, msgs) ==
    /\ Step(t, "out", "lock")
    /\ kind' = [kind EXCEPT ![t] = k]
    /\ todo' = [todo EXCEPT ![t] = msgs]
    /\ UNCHANGED <<wireVars, batchVars, tag>>

(* Publish, PublishWithContext and PublishAsync of a new message. *)
Publish(t, k) ==
    /\ Cardinality(Single) < MaxSingle
    /\ made' = made + 1
    /\ Call(t, k, <<made + 1>>)
    /\ UNCHANGED <<retries, outcome>>

(* The caller was told of an error and publishes the message again.  The   *)
(* caller of Flush cannot: it is not told which message failed.            *)
Retry(t, m) ==
    /\ outcome[m] = "error" /\ taken[m] = 0
    /\ retries < MaxRetries
    /\ retries' = retries + 1
    /\ outcome' = [outcome EXCEPT ![m] = "none"]
    /\ Call(t, "plain", <<m>>)
    /\ UNCHANGED made

Close(t) == Call(t, "close", <<>>) /\ UNCHANGED <<made, retries, outcome>>

Add(t) ==
    /\ made - Cardinality(Single) < MaxBatched
    /\ Step(t, "out", "added")
    /\ made' = made + 1
    /\ batch' = Append(batch, made + 1)
    /\ UNCHANGED <<wireVars, flushes, taken, retries, outcome, kind, todo, tag>>

\* Mutant: the batch is flushed when it is over its size.
ShouldFlushLate == Len(batch) > MaxSize
ShouldFlush == Len(batch) >= MaxSize

(* As the comment at producer.go:216-218 asks of the caller of Add. *)
AfterAdd(t) ==
    /\ Step(t, "added", IF ShouldFlush THEN "flush" ELSE "out")
    /\ UNCHANGED <<wireVars, batchVars, made, retries, outcome, kind, todo, tag>>

(* Flush of an empty batch changes nothing. *)
WantFlush(t) ==
    /\ batch # <<>>
    /\ Step(t, "out", "flush")
    /\ UNCHANGED <<wireVars, batchVars, made, retries, outcome, kind, todo, tag>>

\* Mutant: the batch is emptied only after it was published.
FlushKeeps(t) ==
    /\ Step(t, "flush", IF batch = <<>> THEN "out" ELSE "lock")
    /\ kind' = [kind EXCEPT ![t] = IF batch = <<>> THEN "none" ELSE "flush"]
    /\ todo' = [todo EXCEPT ![t] = batch]
    /\ flushes' = IF batch = <<>> THEN flushes ELSE flushes + 1
    /\ taken' = [m \in M |-> IF m \in Elems(batch) THEN flushes + 1 ELSE taken[m]]
    /\ UNCHANGED <<wireVars, batch, made, retries, outcome, tag>>

(* Flush takes the whole batch under bp.mu and publishes it without. *)
Flush(t) ==
    /\ Step(t, "flush", IF batch = <<>> THEN "out" ELSE "lock")
    /\ kind' = [kind EXCEPT ![t] = IF batch = <<>> THEN "none" ELSE "flush"]
    /\ todo' = [todo EXCEPT ![t] = batch]
    /\ batch' = <<>>
    /\ flushes' = IF batch = <<>> THEN flushes ELSE flushes + 1
    /\ taken' = [m \in M |-> IF m \in Elems(batch) THEN flushes + 1 ELSE taken[m]]
    /\ UNCHANGED <<wireVars, made, retries, outcome, tag>>

-----------------------------------------------------------------------------
(* Publishing under p.mu *)

MuFree == \A t \in T : pc[t] \notin HoldsMu

Lock(t) ==
    /\ Step(t, "lock", IF kind[t] = "close" THEN "closing" ELSE "send")
    /\ MuFree
    /\ UNCHANGED <<wireVars, batchVars, made, retries, outcome, kind, todo, tag>>

(* One message is done.  Flush goes on with the next Publish, which locks  *)
(* p.mu again.                                                             *)
Succeed(t, what) ==
    /\ outcome' = [outcome EXCEPT ![Head(todo[t])] = what]
    /\ todo' = [todo EXCEPT ![t] = Tail(@)]
    /\ pc' = [pc EXCEPT ![t] = IF Len(todo[t]) = 1 THEN "out" ELSE "lock"]
    /\ kind' = [kind EXCEPT ![t] = IF Len(todo[t]) = 1 THEN "none" ELSE @]
    /\ tag' = [tag EXCEPT ![t] = 0]

\* Mutant: Flush goes on with the next message after an error.
FailSkips(t) ==
    /\ outcome' = [outcome EXCEPT ![Head(todo[t])] = "error"]
    /\ todo' = [todo EXCEPT ![t] = Tail(@)]
    /\ pc' = [pc EXCEPT ![t] = IF Len(todo[t]) = 1 THEN "out" ELSE "lock"]
    /\ kind' = [kind EXCEPT ![t] = IF Len(todo[t]) = 1 THEN "none" ELSE @]
    /\ tag' = [tag EXCEPT ![t] = 0]

(* The error ends the call.  A Flush drops the messages it has not reached *)
(* and returns the one error to its caller; the goroutines that added them *)
(* are told nothing.                                                       *)
Fail(t) ==
    /\ outcome' = [m \in M |-> IF m = Head(todo[t]) THEN "error"
                               ELSE IF m \in Elems(todo[t]) THEN "dropped"
                               ELSE outcome[m]]
    /\ todo' = [todo EXCEPT ![t] = <<>>]
    /\ pc' = [pc EXCEPT ![t] = "out"]
    /\ kind' = [kind EXCEPT ![t] = "none"]
    /\ tag' = [tag EXCEPT ![t] = 0]

(* A publication whose confirmation nobody in the producer waits for. *)
NoWait(t) == ~enabled \/ kind[t] = "async"

Send(t) ==
    /\ pc[t] = "send" /\ ~dead
    /\ sent' = Append(sent, Head(todo[t]))
    /\ verdict' = Append(verdict, "none")
    /\ IF NoWait(t)
         THEN Succeed(t, IF kind[t] = "async" THEN "async" ELSE "ok")
         ELSE /\ pc' = [pc EXCEPT ![t] = "wait"]
              /\ tag' = [tag EXCEPT ![t] = Len(sent) + 1]
              /\ UNCHANGED <<outcome, kind, todo>>
    /\ UNCHANGED <<enabled, dead, batchVars, made, retries>>

\* Mutant: a publication that fails leaves its confirmation behind.
SendFailsLeaves(t) ==
    /\ pc[t] = "send" /\ Fail(t)
    /\ verdict' = Append(verdict, "none")
    /\ UNCHANGED <<enabled, dead, sent, batchVars, made, retries>>

(* The channel is gone, or refuses this message; no tag is used up. *)
SendFails(t) ==
    /\ pc[t] = "send" /\ Fail(t)
    /\ UNCHANGED <<wireVars, batchVars, made, retries>>

\* Mutant: the next confirmation of the channel is taken for one's own.
SomeVerdict(t, v) == \E i \in DOMAIN verdict : i >= tag[t] - 1 /\ verdict[i] = v
Verdict(t, v) == verdict[tag[t]] = v

(* waitForDeferredConfirm: select between the three. *)
Confirmed(t) ==
    /\ pc[t] = "wait" /\ Verdict(t, "ack") /\ Succeed(t, "ok")
    /\ UNCHANGED <<wireVars, batchVars, made, retries>>

NotConfirmed(t) ==
    /\ pc[t] = "wait" /\ Verdict(t, "nack") /\ Fail(t)
    /\ UNCHANGED <<wireVars, batchVars, made, retries>>

CtxDone(t) ==
    /\ pc[t] = "wait" /\ kind[t] = "ctx" /\ Fail(t)
    /\ UNCHANGED <<wireVars, batchVars, made, retries>>

\* Mutant: no timer, as in DeferredConfirmation.Wait.
NeverTimesOut(t) ==
    /\ pc[t] = "wait" /\ FALSE /\ Fail(t)
    /\ UNCHANGED <<wireVars, batchVars, made, retries>>

TimedOut(t) ==
    /\ pc[t] = "wait" /\ Fail(t)
    /\ UNCHANGED <<wireVars, batchVars, made, retries>>

(* A dead channel answers everything outstanding with a nack. *)
Die ==
    /\ dead' = TRUE
    /\ verdict' = [i \in DOMAIN verdict |-> IF verdict[i] = "none" THEN "nack" ELSE verdict[i]]
    /\ UNCHANGED <<enabled, sent>>

CloseChannel(t) ==
    /\ Step(t, "closing", "out")
    /\ IF dead THEN UNCHANGED wireVars ELSE Die
    /\ kind' = [kind EXCEPT ![t] = "none"]
    /\ UNCHANGED <<batchVars, made, retries, outcome, todo, tag>>

-----------------------------------------------------------------------------
(* The broker *)

Confirm(i, v) ==
    /\ enabled /\ ~dead /\ verdict[i] = "none"
    /\ verdict' = [verdict EXCEPT ![i] = v]
    /\ UNCHANGED <<enabled, dead, sent, batchVars, made, retries, outcome, callVars>>

ChannelLost ==
    /\ ~dead /\ Die
    /\ UNCHANGED <<batchVars, made, retries, outcome, callVars>>

-----------------------------------------------------------------------------
Calls(t) ==
    \/ \E k \in {"plain", "ctx", "async"} : Publish(t, k)
    \/ \E m \in M : Retry(t, m)
    \/ Close(t) \/ Add(t) \/ WantFlush(t)

(* What ends by itself, p.mu apart. *)
Proceeds(t) ==
    \/ AfterAdd(t) \/ Flush(t)
    \/ Send(t) \/ SendFails(t) \/ Confirmed(t) \/ NotConfirmed(t) \/ CtxDone(t)
    \/ TimedOut(t) \/ CloseChannel(t)

Next ==
    \/ \E t \in T : Calls(t) \/ Lock(t) \/ Proceeds(t)
    \/ \E i \in DOMAIN verdict, v \in {"ack", "nack"} : Confirm(i, v)
    \/ ChannelLost

Spec == Init /\ [][Next]_vars

(* A goroutine that can go on does, a timer fires, and sync.Mutex serves   *)
(* every waiter (starvation mode).  The broker need not answer.            *)
Fairness == \A t \in T : WF_vars(Proceeds(t)) /\ SF_vars(Lock(t))

FairSpec == Spec /\ Fairness

-----------------------------------------------------------------------------
(* Correctness *)

(* In confirm mode a caller is told of success only if the broker has      *)
(* acknowledged a publication of this very message: a late confirmation of *)
(* one that timed out is never credited to another.                        *)
ConfirmedMeansAcked ==
    \A m \in M : outcome[m] = "ok" =>
        \E i \in DOMAIN sent : sent[i] = m /\ (enabled => verdict[i] = "ack")

(* The batch a Flush publishes goes out in the order of Add, no message    *)
(* twice, and in confirm mode each one only after the one before it was    *)
(* acknowledged - whatever other goroutines publish in between.            *)
FlushInOrder ==
    \A i, j \in DOMAIN sent :
        i < j /\ taken[sent[i]] # 0 /\ taken[sent[i]] = taken[sent[j]]
            => sent[i] < sent[j] /\ (enabled => verdict[i] = "ack")

Places(m) == {t \in T : m \in Elems(todo[t])}

(* A message is not lost between Add and Publish, nor published by two     *)
(* goroutines: as long as nothing has become of it, it is in the batch or  *)
(* with exactly one of them.  Flush drops one only behind an earlier       *)
(* message of the same batch whose Publish failed - so that this Flush     *)
(* returned an error - and never one that went out: who flushed may add    *)
(* the rest again without a duplicate.  Who added a dropped message is not *)
(* told, unless it flushed itself.                                         *)
LostOnlyBehindAFailure ==
    /\ \A m \in 1..made :
          outcome[m] = "none" <=> \/ m \in Elems(batch) /\ Places(m) = {}
                                  \/ m \notin Elems(batch) /\ Cardinality(Places(m)) = 1
    /\ \A m \in M : outcome[m] = "dropped" =>
          /\ taken[m] # 0 /\ m \notin Elems(sent)
          /\ \E n \in M : n < m /\ taken[n] = taken[m] /\ outcome[n] = "error"

(* Callers that do as the comment of Add says keep the batch below maxSize *)
(* plus one message for each goroutine between its Add and its Flush.      *)
BatchBounded == Len(batch) < MaxSize + Cardinality({t \in T : pc[t] \in {"added", "flush"}})

(* Every call returns, also Close, also when the broker never answers.     *)
CallsReturn == \A t \in T : pc[t] # "out" ~> pc[t] = "out"
=============================================================================
