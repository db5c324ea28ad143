# eamqp in TLA+

A model of the concurrent core of eamqp, a pooling wrapper around amqp091-go
for the ego framework: what is modelled, what TLC checks on small instances,
and what TLAPS proves for every size. Source references are to the repository
at the commit this project stands beside (`pool.go:106` is line 106 of that
file).

## The system

| Component | State | Operations | Talks to |
|---|---|---|---|
| **ChannelPool** (`pool.go:12-239`) | `channels` (buffered Go channel of idle AMQP channels), `permits` (reverse semaphore), `active` gauge, `closed`, `mu` | `Acquire`, the closures `release` and `discard`, `Close`, `Stats` | one AMQP connection; the wrapper calls the closures |
| **Channel** (`channel.go`) | `amqpCh`, `release`, `discard`, `stateful`, `closing`, `inflight`, `mu` | about forty AMQP methods between `acquireChannel` and `done`, `RawChannel`, `Close` | the pool, through the two closures |
| **ConnectionPool** (`pool.go:241-552`) | connections and channel pools, one per URI, `closed`, round-robin `current`, `mu` | `dialAll`, `AcquireChannel`, `AcquireFromPool`, `NotifyClose`, `NotifyBlocked`, `Close` | ChannelPool, amqp091-go |
| **Client** (`client.go`) | `conn` or `pool`, `closed`, `closeChan`, `mu` | `New`, `NewChannel`, `AcquireChannel`, `Reconnect`, `Close`, `NotifyClose` | ConnectionPool, Channel |
| **Producer**, **BatchProducer** (`producer.go`) | `mu`, confirm mode and timeout; the batch | `Publish*`, `PublishAsync`, `Add`, `Flush`, `Close` | Channel, broker confirmations |
| **Consumer**, **RetryConsumer** (`consumer.go`) | none of their own besides the goroutines they start | `ConsumeWithHandler`, `ConsumeWithWorkers`, `ConsumeWithTimeout`, `ConsumeWithRetry` | Channel, broker deliveries |
| **Reconnection** (`reconnect.go`, `eamqp.go:136-164`) | `attempt` | `reconnectManager.ReconnectLoop`, `ReconnectLoop`, `Backoff`, fed by `NotifyClose` | Client, ConnectionPool |
| **Helpers** (`eamqp.go:20-134`) | none | `SimplePublish`, `SimpleConsume`, `SimpleRPC`, declarations | Client, Channel |
| **Health** (`health.go`) | none (reads the others) | `HealthStatus`, `Ping` | Client, ConnectionPool |
| **Glue** (`config.go`, `options.go`, `container.go`, `stat.go`, `observability.go`, `trace.go`, ...) | configuration, counters | parsing, registration, interceptors | ego |

What is hard about it:

* *Interleaving.* `Acquire` works on a snapshot of the pool, takes its permit
  without the lock and blocks outside it; `release` holds the lock across a
  network call; `discard` runs without it; `Close` closes the buffer first and
  drains it after unlocking. A wrapper is used, closed and given back by
  different goroutines. `Client.mu` is read-held while a goroutine waits for a
  channel and write-held while connections are closed and dialled.
* *Failure.* The server closes channels, connections drop, opening a channel
  or setting its options fails, each between any two of those steps. A dial
  fails half way; a publication, a confirmation or a handler fails in the middle
  of a batch or a delivery.
* *Deadlines.* A context may end at every point of `Acquire`; a confirmation
  arrives after its publisher has given up; a handler goes on after its limit.
* *Isolation.* State that one borrower leaves on an AMQP channel (confirm mode,
  QoS, consumers, listeners, transactions) must not reach the next one.

What makes each component correct: for the ChannelPool, exclusive leases, exact
permits, the channel limit, no leak, a Close that empties the pool and wakes
everyone, deadlines honoured; for the Channel, a lease used only while it is
held and given back once, isolation; for Client and ConnectionPool, that a
failed or raced reconnect leaves no connection behind, that channels come from
the current connections, that the health report is true and that Close comes
back; for the Producer, that a message is reported confirmed only if it was and
that Flush keeps its order and drops messages only behind one that failed; for the Consumer, that
every delivery has one owner and leaves the broker only when handled, and that
calls stop; for reconnection, that losses a listener hears make the loop go on, a
link is not taken for closed while it is up, and the policy is kept. `PROJECT.json` lists the hazards
line by line with the properties that cover them.

## Modules

| Module | Contents |
|---|---|
| `LeasePool` | The abstract lending pool: clients ask, are lent an item or refused, shelve, pass on or retire it. At most `Limit` items; a closed pool admits nobody and keeps nothing. |
| `ChannelPool` | `pool.go:12-239` step by step, its properties, and `Abstract`, the refinement mapping to `LeasePool`. |
| `Channel` | `channel.go`, composed with `LeasePool` as the pool its leases come from. |
| `Client` | `client.go`, `ConnectionPool` of `pool.go:241-552`, `health.go`: the connections of a client, the two locks, Close, Reconnect, Ping, HealthStatus. |
| `Producer` | `producer.go` with the broker's confirmations. |
| `Consumer` | `consumer.go` with a broker that requeues. |
| `Reconnect` | The loops of `eamqp.go:136-164` and `reconnect.go`, and the `NotifyClose` fan-in. |
| `MCChannelPool`, `MCChannel`, `MCClient`, `MCProducer`, `MCConsumer`, `MCReconnect` | The instances for TLC. |
| `LeasePoolProofs` | What `LeasePool` guarantees to whoever uses or implements it. |
| `ChannelPoolProofs` | Theorems about `ChannelPool`, among them that it implements `LeasePool` and so keeps its guarantees. |
| `ChannelProofs`, `ClientProofs`, `ProducerProofs`, `ConsumerProofs`, `ReconnectProofs` | Theorems about the module of that name. |
| `ProducerOrderProofs` | More about `Producer`: order, what a failing `Flush` drops, no outcome taken back, one publication at a time. |

`Channel` uses `LeasePool` where the code uses `ChannelPool`; the refinement
theorem is what allows that. In `Channel` the pool's clients are the wrappers,
since `Client.AcquireChannel` (`client.go:201-233`) makes one wrapper for each
lease; in `ChannelPool` they are goroutines, each with one lease at a time. The
composition depends on `ChannelPool`'s caller giving every lease back by one
call of `release` or `discard`; that is `GivenBackOnce` of `Channel`.

### ChannelPool

`pc[g]` says where goroutine `g` is; each action is one atomic step of the Go
code: a channel operation, an atomic counter operation, a network call, or a
critical section of `p.mu` without a network call.

| Code | Model |
|---|---|
| `p.channels` | the set `idle` and the goroutines at label `parked`. Buffer order is abstracted to a choice. A send with a receiver waiting goes to the receiver, as in Go (`ReleaseHandOff`), never through the buffer. |
| `p.permits` | the number `permits` of tokens in it |
| `p.active` | `active`, changed in steps of its own (`CountUp`, `CountDown`); the compare-and-swap loop is the attempt that succeeds |
| `p.mu` | `mu`, set only while a critical section contains further steps (`release` closing a channel or giving its permit up); shorter sections are one action guarded by `mu = None` |
| first and second `select` of `Acquire` | labels `poll`, and `select`/`parked`. `Park` is possible only when no case is ready. |
| `ch.IsClosed()` | membership in `open` |
| `for ch := range channels` in `Close` | `DrainOne`, `CloseChannel`, `ReturnToken`, `CountDown`, repeated |

A channel object nobody refers to may be reused as a new one, so the set `Chan`
stays finite. The default sizes (`ChannelPoolSize <= 0`, a maximum of idle
channels that is zero or above the pool size) are part of the model
(`PoolSize`, `MaxIdle`). Left out: the counters `acquired`, `returned` and
`created`, which nothing but `Stats` reads, and branches for nil fields that
`newChannelPool` never leaves nil.

`Upsets` says which disturbances an instance allows: borrowers discarding,
channels closed by the server, the connection dropping, failing opens and
failing options. `Deadlines` are the goroutines whose context may end.

### Channel

A method is `Enter` (acquireChannel), `Perform` (the AMQP call, which may fail)
and `Leave` (done). Methods differ only in whether they mark the wrapper
stateful and in what they leave on the AMQP channel, `traits[c]`; `PlainOps`,
`ModeOps`, `AckOps`, `NotifyOps`, `Leaves` and `Undoes` say so for every method. `RawChannel` hands
the channel out to a user who is not counted and may go on after `Close`.
`Close` is `BeginClose` (under `ch.mu`), the wait for `inflight`, and
`GiveBackDiscard` or `GiveBackRelease`. Wrappers of single-connection mode,
which close their channel instead of giving it back (`channel.go:88`), are not
modelled.

### Client

A *link* is what one dial makes: a `ConnectionPool` with a `ChannelPool` for
each of its `N` connections, or one plain connection in single mode. Links are
numbered; `cur` is the one `c.pool` or `c.conn` refers to, 0 is nil. Old links
stay reachable through leases and a running `Ping`.

| Code | Model |
|---|---|
| `Client.mu`, `ConnectionPool.mu` | no variables: who holds them is read off `pc`. A goroutine at `acquire` read-holds both, one at `pingOpen` the pool's; `mark`, `drain`, `shut`, `dial`, `dialing`, `undo` write-hold `Client.mu`. `announced` is the writer `sync.RWMutex` has let in front of new readers. |
| `Close`, `Reconnect` | `WantLock`, `Announce`, then `BeginClose` or `BeginReconnect`, `Mark`, `Drain`, `Shut` for each connection, and `CloseDone`, or `Unlink` and `StartDial` |
| `dial`, `dialAll` | `DialOk` for each connection; `DialFail` closes those made so far (`undo`) and leaves the new, half-empty pool in place, as the code does |
| `p.current` | `turn`, kept modulo `N`; `RoundRobin` is the expression of `pool.go:382` |
| `ChannelPool.Acquire` | what `LeasePool` promises: an answer when there is room, an error, or the end of the context. It need not be prompt (see the finding about `pool.go:106`). |
| `Ping` | takes the link under `Client.mu`, lets go, and asks the ConnectionPool later |
| `HealthStatus` | an operator; computed while `Client.mu` is read-held, when connections can only go down |

A goroutine borrows one channel at a time. `MaxDials` bounds the links.

### Producer

Messages are numbers, delivery tags indices into `sent`. `p.mu` is held at
`send`, `wait` and `closing`; `Flush` takes the batch under `bp.mu` and then
locks `p.mu` anew for each message, so other publishers get in between. The
broker confirms in any order or never; when the channel dies the library nacks
what is outstanding. Callers publish again what failed (`Retry`), except what
went with a batch, since the error of `Flush` does not say which message it is
about. `outcome[m]` is what became of a message: what `Publish` returned for it
last, or `dropped`, if a `Flush` did not reach it after the error of one before
it (`Fail`). That error goes to the goroutine that called `Flush`. Who added a
dropped message is told nothing, unless it is the same: its own `Flush` may have
found the batch empty and returned nil.

### Consumer

One consumer of one queue in one of the four ways. `place` is the broker's
view of each message, `buffer` what the library has but the code has not
received, `hands` what goroutines are working on. Retries of `ConsumeWithRetry`
happen inside the handler, without a look at the context. A handler that
exceeds the limit of `ConsumeWithTimeout` goes on as a stray while its message
is requeued. `ConsumeWithWorkers` cancels, closes the channel and then waits for
its workers, whose acknowledgements fail from then on.

### Reconnect

A behaviour runs the helper or the manager. `Client.Reconnect` is one step here;
its own steps are in `Client`. Where `OthersRedial` is set, somebody else calls it
as well, at any time; the helper then goes on with the channel of the old link
until that ends. `NotifyClose` is modelled with all its stages:

| Code | Model |
|---|---|
| `client.NotifyClose()` of the helper | `Notify`: the channel it reads from then on is that of the link `heard` |
| the goroutine for each connection of a pool (`pool.go:404-409`) | `waiting` until it has asked the connection for its notifications, which may be after `NotifyClose` has returned (`Register`); then `live` until they end. A connection that is down when it asks ends them without the error. |
| a plain connection (`client.go:243-244`) | registered by `Notify` itself (`Pooled` is FALSE) |
| the buffer of `ConnectionPool.NotifyClose` and what the forwarder of `Client.NotifyClose` holds | `pend` |
| the channel the loop reads, with one place | `box`; closed when nobody is waiting or live and both are empty (`Ended`) |

`Backoff` is computed in whole units of time for a multiplier `Num / Den`, any
fraction, also below 1 or negative. Left out are NaN, infinities and the rounding
of `float64`.

## What the runs show

| Run | Instance | Result |
|---|---|---|
| `pool_safety` | 3 goroutines with deadlines, 3 channel objects, size 2, 1 idle, all upsets; symmetric in goroutines and channels; 371,864 states | all safety properties and the refinement hold |
| `pool_liveness` | 2 goroutines, one with a deadline, 2 objects, size 1, all upsets; 13,672 states | `DeadlineHonoured`, `CloseReturns`, `CloseWakesWaiters` hold |
| `pool_service` | 3 goroutines, 2 objects, size 2, 1 idle, no upset; 17,071 states | `WaiterServed` holds |
| `pool_lost_wakeup` | 2 goroutines, size 1, borrowers may discard | `BlockedOnlyAtLimit` is violated (finding) |
| `channel_wrapper` | 2 wrappers, 2 goroutines, 2 channels, a plain, a mode, a consume and a cancel method; 238,602 states | all properties hold |
| `client_lifecycle` | 2 goroutines, 2 connections with 1 channel each, both modes, one reconnect; 81,956 states | all safety properties hold; `CloseReturns` holds since every context ends |
| `client_close_stuck` | 3 goroutines, 1 connection, 1 channel, one context that never ends | `CloseReturns` is violated (finding) |
| `producer` | 2 goroutines, 2 messages in batches, 1 alone, 1 repetition, with and without confirms; 403,510 states | all properties hold |
| `consumer` | 3 messages, 2 workers, 1 retry, four modes, with and without autoAck; 23,455 states | all properties hold |
| `reconnect` | helper and manager, 3 connections, 3 links, somebody else reconnects too, 6 policies, 7 attempts; 173,076 states | all properties hold |
| `reconnect_loop_ends` | helper, 1 plain connection, 2 links | `EndsOnlyWhenTold` is violated (finding) |
| `channel_get_leak` | 2 wrappers, 1 goroutine, 1 channel, `Get` without autoAck | `CleanLease` is violated (finding) |

**Bounds.** Three goroutines on a pool of two let one hold a channel, one race
with it and one be blocked or closing the pool; one idle slot out of two makes
the overflow of `release` happen; three objects let an object leak without
stopping the others. Contention for a pool of one needs two goroutines, which
is enough for the liveness properties, since each is about one goroutine
against the rest. Two wrappers on two goroutines allow a method, a `Close`, a
second `Close` and a raw user to overlap on one wrapper while its channel
already belongs to the other. Permits and the gauge are bounded by the pool size and the goroutines.

Two goroutines on a client put a `Close` or a `Reconnect` against a borrower, a
`Ping` or another writer at every step; two connections let a dial fail half way
and the link degrade; two links show an old one against the new one. The
deadlock needs three goroutines and has a run of its own. Two batched messages
and one alone let a `Flush` be interrupted by another publisher and fail with a
message left; `MaxSize` 1 makes every `Add` ask for a flush, so two goroutines
race for one batch, and a batch of two forms when both have added. One
repetition is enough for a late confirmation to meet a second publication of its
message. Three messages for two workers keep one in
the buffer; one retry tells a retry from its last failure. Three connections in a
link are the least that can leave a forwarder stuck; three links let the second
outage find what the first left, and a `Reconnect` by somebody else come between.
The first link is down from the start: the loop is called because of that, and
no one watches it. The six policies are the default, one with three attempts, one
with constant delays above its maximum, one whose delays shrink, one with a
negative multiplier, and one that is off. `MaxTries` lets a policy without limit reach
its cap (1, 2, 4, 8, 16, 30) and stops it there.

The runs of `Channel`, `Consumer` and `Reconnect` switch the deadlock check off:
wrappers are used up, calls return, the manager reaches `MaxTries`.

**Fairness.** `ChannelPool!Fairness` asks for strong fairness of each
goroutine's own steps (the scheduler runs every goroutine, `sync.RWMutex` does
not starve one, network calls return); of a ready `ctx.Done()` case (a `select`
picks uniformly among ready cases, so a case that stays ready is taken in the
end); of the hand-off to each blocked receiver (Go serves them in order); and
weak fairness of giving a lease back, the borrower's side of the contract,
which only `WaiterServed` needs. Nobody is obliged to start a call.
`Channel!FairSpec` asks that AMQP calls return and that a `Close` past its wait
goes on.

`Client!Fairness`: network calls return, contexts outside `Patient` end, the
lock serves every writer and reader that stays in line, and a borrower that is
not stuck gives its channel back. `PromptSpec` adds that the ChannelPools answer
whenever there is room, so that the deadlock of `client_close_stuck` is not
blamed on them. `Producer!Fairness`: a goroutine that can go on does, a timer
fires, and `sync.Mutex` starves nobody (its starvation mode); the broker owes
nothing. `Consumer!Fairness`: `select` does not prefer deliveries over a context
that stays done, timers fire, and a handler comes back in the two modes in which
nothing else ends the wait for it. `Reconnect!Fairness`: `connect` returns,
timers fire, some goroutine of the fan-ins that can run does, and `select` takes a
context that stays done.

**Findings.** (1) The second `select` of `Acquire` waits for an idle channel
only. A permit that comes back without a channel (`discard`, a dead channel, a
full buffer) wakes nobody: the waiter stays blocked below the limit until some
other borrower releases a channel or its context ends. (2) `Get` with
`autoAck` false leaves an unacknowledged delivery on the channel but does not
mark the wrapper stateful, so the channel is pooled with it. (3) `Close` of the
client may never return: a goroutine waiting for a channel without a deadline
holds `Client.mu` for reading, `Close` waits for it, and the borrower that
should give the channel back waits behind `Close` in any method that reads
(`Ping` in the run). `client_lifecycle` shows that contexts that end suffice to
prevent it. (4) The helper `ReconnectLoop` asks for notifications after
`connect` has returned; a connection that drops in between looks like a clean
close, and the loop ends with nil instead of connecting again. In pool mode the
window is longer: each connection is registered with by a goroutine that may run
after `NotifyClose` has returned. One of several connections that drops before is
never reported, and the helper goes on with a degraded link; `HelperReacts`
therefore speaks of the errors a listener has got, and of the whole link.

Worth knowing, though no document says otherwise: a `Flush` that fails drops the
rest of the batch, with the messages other goroutines added, and only its own
caller learns of it, without learning which; `ConsumeWithHandler` leaves what it
had not taken yet unacknowledged when its context ends; with a multiplier below 1
the manager ends up dialling without a pause; `ConsumeWithWorkers` does not
return when the channel is lost, only when its context ends; the manager's loop
returns nil for success and for having given up, and one that has used up its
attempts never dials again; after a failed `Reconnect` the client is open and
reports `down` until the next one; `Ping` may fail on a healthy client if a
`Reconnect` overtakes it.

On the delay of a reconnect policy the code and its comments disagree, and the
tests side with the code: with the multiplier 0 the manager waits for `Initial`
even where that is above `Max` (`reconnect.go:36-38`; in the run `Initial` is 4,
`Max` 3). `reconnect.go:13` calls `Max` the maximum interval, while
`reconnect_test.go:86-95` asks for the constant delay of one second with `Max` left
at zero. `SleepsAsConfigured` follows the test and names the exception.

## What is proved

For every finite set of goroutines (`IsFiniteSet(G)`), any channel objects and
any configured sizes (`ChannelPoolAssumption`):

* `TypeCorrect`, `LeasesAreExclusive`, `NothingLeaks` from `LeaseInv`. Exclusive
  leases are not inductive alone: a step may copy a hand only because the label
  tells who has one, so `HandMatchesLabel` (a goroutine has a channel exactly at
  five labels) and `NoChannelLeaked` (a fresh object is referenced by nobody)
  are proved together with it.
* `PermitsConserved`, from `PermitInv`, which adds that the buffer is finite:
  the permits are the goroutines holding one plus the idle channels. Each step
  moves one unit between the two sets, by lemmas on cardinality.
* `OpenChannelsBounded` is a consequence: every open channel is in a hand or
  idle, and each of those stands for one permit.
* `GaugeTracksPermits`: the gauge is the permits minus the goroutines between
  the two steps of acquirePermit plus those between the two of releasePermit.
* `ClosedBufferOnlyShrinks` and `CloseLeavesNothing`, the latter from the former
  facts and that a goroutine draining the pool keeps `Draining` non-empty until
  the buffer is empty.
* `PoolRefinesLeasePool`: every step is a step of `LeasePool` or a stutter. The
  one that needs the invariant is `OpenChannel`, which may lend a new item only
  because the permit it holds is not yet counted in items.
* `LeaseGuarantees` and `LeaseCloseIsFinal` are about `LeasePool` alone:
  `LeasePromises` (at most `Limit` items, each in one place, one for a client) is
  inductive, and a closed pool only loses items and requests. Through
  `Lending == INSTANCE LeasePoolProofs WITH ...` and the refinement they become
  `PoolKeepsPromises` and `PoolCloseIsFinal` of `ChannelPool`, with no second
  proof over the steps of the code.

For every finite set of wrappers and goroutines (`ChannelAssumption`):

* `WrapperTypeCorrect`, `MethodsKeepToLease`, `LeaseGivenBackOnce`,
  `InflightCounts` from `WrapperInv`. The four need one another: the lease may
  go back because the count is zero, the count is exact because methods leave
  through it, and a method's channel is still leased because only the one
  closer gives it back, after the count. `WrapperShape` and `LeaseShape` add
  that a wrapper with a channel holds the lease and that leases differ.
* `WaitGroupOnlyFalls`, from `WrapperInv`: entering needs `~closing`.
* `RawUsersAreAlone`: `RawIsPrivate`, for all methods. A channel somebody uses
  raw, if it is on lease at all, is with a wrapper in `Condemned`, one that is
  marked or whose running Close has read the mark; so it is never shelved.
* `BorrowersAreIsolated`: `CleanLease`, provided `"Get" \notin Ops`. The
  strengthening `TraceMarked` says of channels with state and of methods about
  to leave some what `RawIsPrivate` says of raw users.
* `LeasesAreLimited`: the guarantees of `LeasePool` again, since each step of
  `Channel` is one of its pool's or leaves the pool alone.

For every finite set of goroutines, any number of connections, channels and
links, and any modes (`ClientAssumption`):

* `ClientTypeCorrect`, `NothingLeftUp`, `PoolOpenUnderReader`, from `ClientInv`.
  It adds `LocksExclude` (the labels exclude one another as the locks do), what
  a reader and a writer rely on where they are (`ReaderSees`, `WriterSees`), and
  `LinksInOrder` (links not made yet are empty, and the current pool is open
  unless it is being closed or the client is).
* `GrantsAreCurrent`: a goroutine at `acquire` works on the current, open link,
  because no writer can be past the lock.
* `HealthIsTruthful`: the counted connections are all, some or none of the
  slots, by cardinality, and a link that is not current is down.
* `ConnectionsComeUpOnce`: empty, up, down, never back, and up only in the link
  dialled last. `ClientInv` alone does not say that `dialAll` finds the slot it
  writes empty; `DialInv` adds that nothing behind it has been reached.
* `ClientCloseIsFinal`: after `Close` has begun nothing is dialled, comes up or
  is lent, although a `Reconnect` may wait for the lock: no goroutine is past the
  lock's check of `closed` (`WriterSees`, `ReaderSees`).
* Round robin: `RoundRobinInRange` (the index is in the slice),
  `RoundRobinVisitsAll` (n calls in a row visit each of n connections once,
  from any count), `NextRemainder` (so the counter may be kept modulo `N`, as
  `turn` is), and `RoundRobinHorizon`: the `int32` of the code agrees with that
  until it wraps, after 2^31 - 1 calls, and is negative or zero from then on.
  Before the overflow the model is exact; what happens after it is outside.

For every finite set of goroutines and any bounds (`ProducerAssumption`):
`ProducerTypeCorrect`, `SuccessIsConfirmed` and `BatchIsBounded`, from
`ProducerInv`: a waiting goroutine's tag is that of its first message (`InCall`),
messages are numbered as they come (`Numbered`). `BatchKeepsOrder` adds `OrderInv`, which knows where every message is: with one
goroutine, in the batch, or settled (`Owned`); lists are sorted (`Sorted`); a
batch has one number and one goroutine (`Grouped`); and what is published of it
comes before, and was acknowledged before, what is not (`Behind`). The number of
a batch is new when `Flush` takes it, so no two batches meet. `NoMessageLost` adds
`DropInv`: only a flush has more than one message to publish (`Queued`), and a
dropped message never went out and stands behind one of its batch that failed
(`Dropped`). That the messages behind the first have not been published
(`RestUnsent`) follows from `Behind`. `CallersToldOnce` is an action property from
`OrderInv`: only a message of which nothing has become is with a goroutine, so no
outcome is overwritten, except that of a message published again after an error. `WaitsForTheLast` is the mutual exclusion of
`p.mu` and what follows from it: one publication is outstanding at a time, and
the tag waited for is the last.

For any messages, workers and retries (`ConsumerAssumption`):
`ConsumerTypeCorrect`, `HandledBeforeGone`, `OneOwnerAlways`, `StopsClean`, from
`ConsumerInv`, which says without counting that a delivery has one owner and,
in `Ending`, what is over at each label on the way out of a call.
`AcksAreSingle`, an action property, says that every `Ack` or `Nack` on a live
channel is for an outstanding delivery and settles it (a second one would make
the broker close the channel), and that the broker loses or requeues a message in
no other way. It needs `AutoGone`: with `autoAck` what is buffered is gone at the
broker.

For any number of connections and links and any policies
(`ReconnectAssumption`): `ReconnectTypeCorrect`, `ForwarderStuckByThree` and
`NilMeansDown`, from `ReconnectInv`: errors in the buffers come from distinct
failed connections (`ErrorsCounted`), and the failed dials are covered by the
attempts (`AttemptsCounted`). `ManagerWithinPolicy` adds `DelayOfAnAttempt` (what
was slept is the backoff of an attempt made) and the lemma `BackoffCapped`. It
says of the sleeps what the code does: at most `Max` with a multiplier other than
0, and `Initial` with 0, even above `Max`. `DelaysGrow` and `DelaysFade` are
action properties: with a multiplier of 0 or at least 1 no delay is shorter than
the one before, from 0 to 1 none is longer (`BackoffMonotone`); a negative one has
no such order. The lemmas are about `Powers`, a recursive function, and are proved
by an induction over sets of numbers (`Climb`, from the least element of a set),
which needs no operator as a parameter; `Quotient` and what follows it handle the
division. `NilMeansDown` needs that a connection of the watched link that is up
is waiting or live. `ManagerObeysPolicy` is the half of `WithinPolicy` about dials.

The inductive strengthenings are conjunctions of named parts in the modules or
beside their proofs; they follow from the theorems' lemmas and are not runs of
their own. Every safety and action property of the passing runs is a theorem; a
few theorems (`PoolCloseIsFinal`, `LeasesAreLimited`, `RawUsersAreAlone`,
`ConnectionsComeUpOnce`, `ClientCloseIsFinal`, `CallersToldOnce`,
`WaitsForTheLast`, `AcksAreSingle`, `DelaysGrow`, `DelaysFade`) state a property that no run
checks.

Only model-checked: liveness, which rests on fairness (`ENABLED` is beyond the
prover). The four findings are counterexamples of TLC.

## Plan

What is left, most important first:

1. Wrappers of single-connection mode in `Channel`.
2. The composition of `Client` with `ChannelPool` itself instead of what
   `LeasePool` promises, so that the lost wakeup and the two locks meet.

## Not modelled

Configuration parsing, TLS, tracing, metrics, logging, the ego container and
governor hook: no protocol state. The counters of `Stats` that nothing reads:
`Reconnects` is always 0, because nothing calls `incrementReconnects`. The helpers
of `eamqp.go:20-134` are sequences of wrapper calls. Two of them are worth a
warning: `SimpleConsume` loses the wrapper, so in pool mode its lease never comes
back; `SimpleRPC` takes the first delivery for its answer and sets no correlation
id, so a late reply to an earlier call is taken for the reply to this one. No
document promises more, which is why they have no property. The examples use the
library within what the modules allow their callers. The AMQP protocol itself is
amqp091-go's and appears as environment actions: channels and connections close,
calls fail, confirmations and deliveries come in any order.
