# Verification of Cliros

Cliros is a Go library for choreographed sagas. Every service embeds a
`Controller`, registers its steps on broker topics, and runs each step in one
database transaction together with a claim in an *inbox* table (deduplication)
and the rows of an *outbox* table (outgoing events). A background reader
publishes the outbox. This directory holds TLA+ models of that machinery, their
TLC configurations, and proofs checked by TLAPS.

Paths below are relative to the repository's root.

## 1. Inventory

| Component | State it keeps | Operations | Hard behaviour | What makes it correct |
|---|---|---|---|---|
| Step executor, `internal/executor` | none of its own; one transaction per attempt | `ExecuteStep`, `CompensateStep`, `atomicRun`, `runErrorHandler`, `publishEvent` | redelivery and replicas, lost commits, crashes, two nested retry loops, three stages with a transaction each | an effect at most once; claim, effect and events all or nothing; a duplicate is acknowledged and nothing else; every call returns |
| Retrier, `retry` | attempts, last error | `Retry` | cancellation, exhaustion, which errors are retryable | bounded attempts; the two budgets stay apart |
| Inbox, `internal/inbox` | `inbox(saga_id, from_step)` | `Claim` | two open transactions with one key; dialects report conflicts differently; different messages with one key | one winner per key; only what was handled counts as a duplicate |
| Outbox writer, `internal/outbox/writer.go` | `outbox(saga_id, topic, saga_type, ...)` | `WriteMessages`, `WriteTx` | primary key conflicts inside a retry loop | one row per key |
| Outbox reader, `internal/outbox/reader.go` | buffer, `started`, `closed`, two contexts | `Start`, `Close`, `polling`, `scanBatch`, `processMessage`, two updates | several replicas without row locks; crash between publish and update; partial scan; shutdown | nothing marked that was not sent; attempts bounded; every row settled; `Close` waits |
| Controller, `controller` | wiring | `New`, `Init`, `Register`, `StartSaga`, `StartSagaWithSteps`, `Close` | acknowledgements; sagas that start without a sender; steps handed over in the process | nothing is acknowledged that left no trace; a failed step ends the start |
| The saga as a whole | inboxes and outboxes of all services, messages under way | -- | reordering, redelivery, failure at any step, compensation while events are under way | forward and back in the order of the chain, each step once; no failure is forgotten; all or nothing |
| Step, routing, message | immutable values | constructors and getters, `WithRetry` | keys built from them collide | -- |
| Backoff, `backoff` | none | `CalcBackoff` of two policies | overflow, cap against jitter | min <= result <= max, growth up to the cap |
| NATS client, `pubsub/nats` | subscription map, closed flag | `Publish`, `Subscribe`, `Close` | at-most-once delivery; `Close` that fails halfway; shutdown order | the map matches the connection; no row meets a closed client |
| Kafka client, `examples/kafka-pubsub` | handlers, closed flag, a goroutine; the group's offset | `Publish`, `Subscribe`, `Run`, `ConsumeClaim`, `Close` | rebalance, crash, commit of an offset past a failed message; `Close` while sending or handling | no message is skipped; `Close` leaves nothing running, and returns |
| Database interfaces, pgx adapter, tracing, metrics, example program | -- | pass-through | -- | -- |

Interaction: the broker calls the handler of `Register`; the handler calls the
executor; the executor's transactions write `inbox` and `outbox`; the reader
polls `outbox` and calls the broker's `Publish`, which reaches the handlers of
other services. The database is the only state shared by replicas.

`PROJECT.json` lists every component with its status, and under `hazards` each
place of the code that is hard to test with the properties that watch it.

## 2. Modules

| Module | Models | Code |
|---|---|---|
| `Retrier` | the attempt loop as decisions: at its head, on entry, after a failure | `retry/retry.go`, `retryInfra`, `errors.go` |
| `SagaStep` | steps, messages, inbox key, outbox key, what a stage writes | `step`, `message`, `migrations.go`, `writer.go` |
| `ServiceMessages` | the messages one service may be handed | `controller.go` |
| `AtomicStep` | abstract specification: a unit of work changes the tables as a whole, or not | contract of `atomicRun` |
| `Executor` | the executor over both tables, any number of replicas; `Register` and `StartSaga` as deliveries | `executor.go`, `inbox.go`, `writer.go`, `controller.go` |
| `ExecutorProofs`, `ExecutorDeliveryProofs` | theorems about `Executor`: its tables; its acknowledgements and duplicates | |
| `OutboxDelivery` | abstract specification: a row is committed, then sent, then settled | purpose of the outbox |
| `OutboxReader` | polling, publishing, marking, rescheduling by several replicas | `reader.go` |
| `OutboxReaderProofs` | theorems about `OutboxReader`; it implements `OutboxDelivery` | |
| `Backoff` | both backoff policies as functions of the retry number | `backoff.go` |
| `RowBackoff` | composition: the readers with the `AttemptCounter` in their buffers, and the pauses they set | `reader.go:85-226`, `scanBatch` |
| `RowBackoffProofs` | theorems about `RowBackoff`, and what they need of powers and quotients | |
| `ReaderLifecycle` | `Start`, `Close`, the two contexts and `select` of `polling` | `reader.go:85-174` |
| `ReaderLifecycleProofs` | theorems about `ReaderLifecycle` | |
| `NatsClient` | subscription map, closed flag and connection of the NATS client | `pubsub/nats/nats.go` |
| `Service` | composition: controller and reader over the NATS client, up to the deferred closes | `controller.go`, `reader.go`, `nats.go` |
| `ServiceProofs` | theorems about `Service`; it implements `ReaderLifecycle` | |
| `SagaOrder` | abstract specification: a chain is walked forward, and back from a failure | purpose of a saga |
| `Saga` | composition: several services, their tables, readers and the broker; `StartSagaWithSteps` | `controller.go`, `executor.go`, `inbox.go`, `writer.go` |
| `SagaRouting` | conditions on an application's routing, which the theorems about `Saga` assume | `step/routing.go`, `controller.go` |
| `SagaProofs` | theorems about `Saga` | |
| `KafkaConsumer` | the Kafka client in several processes of a group over one partition | `examples/kafka-pubsub/kafka.go` |
| `KafkaConsumerProofs` | theorems about `KafkaConsumer` | |
| `MCExecutor`, `MCOutboxReader`, `MCService`, `MCSaga`, `MCSagaChain`, `MCKafka` | instances for TLC | |

```
Retrier <- SagaStep <- ServiceMessages <- Executor   (implements AtomicStep)
                    <- Saga                          (implements SagaOrder)
ReaderLifecycle, NatsClient <- Service
OutboxReader, Backoff <- RowBackoff                  (OutboxReader implements OutboxDelivery)
```

### Executor

A worker is a goroutine that runs a handler in any replica, or a caller of
`StartSaga`. `work[w]` is its control state: the place in the transaction
(`begin`, `claim`, `body`, `write`, `commit`), the stage (`action`, `handler`
for OnError and OnCompensateError, `publish` for the failure event), both retry
counters and the error that ended the stage before. `inbox`, `outbox` and `done` are what is committed; `done` counts the
committed transactions of each message and stage and stands for the business
effect. An open transaction is given by its worker's place: `HoldsClaim` and
`HoldsRow` say which uncommitted keys it has inserted, and another INSERT of the
same key waits for it, as both databases do.

Actions: `Deliver`, `BeginTx`, `Claim`, `UserCode`, `WriteMessages`, `Commit`,
`CommitLost` (the commit applies and reports an error), `DatabaseError` (any
call fails), `Cancel` (of the context of `StartSaga`; subscribers pass
`context.Background()`), `Crash`. Where a failed attempt leads is computed by
`AttemptFailed` and the operators it uses, one per function of the code: the
infrastructure loop decides first, its result goes to the user's loop, and what
that returns starts the error handler, the failure event, or ends the call.

Abstractions, all towards more behaviours or outside the properties:

- Saga ids parse, payload and trace context are dropped. User code ends with
  success, a retryable or a permanent error; it does not itself return
  `ErrDuplicate` or a context error.
- `WriteMessages` inserts all topics of a stage in one step. The code inserts
  one by one; two workers that inserted in opposite orders would be a deadlock
  the database ends with an error, which `DatabaseError` covers.
- Two rows of one routing with the same topic are one row; the code would fail.
- The message an OnError handler returns together with an error keeps its saga.
- A handler wrapped by `step.WithRetry` repeats inside its transaction and then
  ends as any handler may: with success, a permanent error (also the context's),
  or a retryable one (`ErrMaxRetriesExceeded` wraps the last error). `UserCode`
  chooses among these.
- `Started` are the messages that `StartSagaWithSteps` makes and hands to the
  executor itself: its input with the fresh id, and the results of its steps,
  which may carry a sender. Only they run under a context that can be cancelled,
  and a message without sender is one of them and is handled once
  (`MessagesAssumption`, `Deliver`). `Deliver` hands them over in any order and
  as often as other messages; `Saga` models the loop itself.
- On MySQL, ON DUPLICATE KEY UPDATE with the value the row has reports 0
  affected rows, or 1 with CLIENT_FOUND_ROWS; both are possible outcomes.

### OutboxReader

A row is its place in the order of `created_at`. `processed`, `attempts` and
`due` are its columns; `reader[p]` is the buffer and the place in
`processMessage`; `published` counts what the broker received. `Write` makes
rows visible in any order, because `created_at` is taken before the commit.
Faults (a scan that breaks off, an update that fails or whose commit is lost, a
publish whose answer is lost, a crash) share the budget `MaxFaults`; a publish
that plainly fails is free. MySQL may report 0 affected rows for a row that is
marked a second time within one second. Rows that do not decode are left out:
the writer only writes what it encoded. Cancelling the context of `Init` in the
middle of a batch looks like failing calls and is covered by the faults.

### Backoff, RowBackoff

`CalcBackoff` and `CalcJitter` compute with exact fractions; the conversion to a
`Duration` truncates (or is preceded by `Ceil`), and gives a negative number
above the largest duration. The random number of the jitter is a choice of any
result between floor and ceiling. `float64` rounding is left out.

`RowBackoff` extends the readers of `OutboxReader`. A reader takes the
`AttemptCounter` of a row from its buffer, where the SELECT put it (`counter`),
and computes the pause from that; the UPDATE increments the column, whatever the
buffer says. With two replicas the two differ. `paused` is a history variable:
for each reader and row the counter of the last pause it set. Only the rows in
`Watched` are followed, which leaves the readers themselves as they are
(`RowsAreRead`). The pauses are stated for every configuration with
0 <= min <= max. With min above max the code exceeds the
maximum (retry 0 and the floor of the jitter are not capped), and without a
maximum the conversion may overflow; no property is stated for these.

### ReaderLifecycle, NatsClient, Service

`ReaderLifecycle`: callers of `Init` and `Close`, one place per atomic operation
of `Start` and `Close`, and the polling goroutine. A batch is the number of its
rows left. `CloseDuringStart` names the order of calls: FALSE is the usage the
repository's README shows (`Init`, then a deferred `Close`). With TRUE, `Close`
may come between the check of `closed` and the launch. `Init` and `Close` are
called by different callers (`Starters`, `Closers`).

`NatsClient`: `Publish` and `Subscribe` run under the client's lock and call the
connection once, so each is one step. `Close` holds the lock (`closing`) over
several calls of the connection: it unsubscribes the topics of its map one by
one, gives up at the first that fails and leaves the connection open and the flag
unset, or closes the connection when the map is empty. It may be called again
after it failed. The connection is external: `live` are the topics it delivers,
`handling` those whose handler runs; it may be lost for good at any moment, also
between two steps of `Close`, after which it refuses every call; it refuses to
end what it is not subscribed to, and may refuse to end any subscription.

`Service` puts both into one process: a row's `Publish` meets the client, and
the deferred calls run in the order `Controller.Close`, `Client.Close`. A message
that is in the connection's buffer when the connection is lost is gone although
its row is marked processed: NATS core promises no more, and neither does the
model.

### Saga

The state is the inbox and outbox of each service, the messages the broker has
received (`sent`, never removed: a message may come again, late, or before an
earlier one), the call of `StartSagaWithSteps`, and history: effects and
compensations per step, steps whose failure event was recorded, messages that
led to a unit of work. One saga is enough, since every key contains its id.

The composition is by contract. `Executor` implements `AtomicStep`, so a service
changes its tables by whole units of work; `Handle` commits one of the units a
call may commit for a message, under the same conditions as `AtomicStep`'s
`Process`. `Units` is what is left of the control inside a call: the action, the
handler if there is one, the failure event of an execution that failed. It does
not matter for the tables how many attempts came before. The failure event is
possible whatever the inbox says: `publishEvent` does not look at it, and errors
of the database lead there too.

`StartSagaWithSteps` is a loop of `StepSucceeds`, `StepFails`, `StepIsDuplicate`,
`StepCommitLost` (the retrier starts over) and `StartAborts`. The result of a
step is the input of the next one; `FromStep` is set only when events were
written, otherwise it is what the user's action returned: a new message, or its
input.

`ImplementsSagaOrder` maps the history to positions in the chain. `Registered`,
`StartSteps` and `Chain` are the routing of the application; the instances use
chains in which every step tells its predecessor of a failure. The library checks
none of it. `SagaRouting` states what a property needs of the routing, as
conditions on these constants; `MCSagaChain` has TLC evaluate them for the
instance of `SagaChain`, so that the theorems speak of an instance the runs reach.

### KafkaConsumer

One partition, one topic. A client's goroutine is not started, at the head of
its loop, in `Consume`, in a handler, or ended. sarama and the coordinator are
external: one session owns the partition; the mark is committed at any time and,
if the coordinator can be reached, at the end of the session; a session starts
after the committed offset, or at the end of the log while there is none, because
`NewKafka` leaves `Offsets.Initial` at `OffsetNewest` (`jumped` records what such
a start passes over). Faults are rebalances, an expulsion while a handler runs, a
`Consume` that fails, and crashes. A call of `Run` without handlers returns nil
and does nothing; a second call of `Run`, and messages sarama has buffered for a
client that lost the partition, are left out.

## 3. Runs

| Run | Question | Bounds |
|---|---|---|
| `ExecutorRedelivery` | Does redelivery, by replicas, with errors, crashes and lost commits, ever double or tear a unit of work? `TypeOK`, `EffectAtMostOnce`, `ClaimInv`, `ImplementsAtomicStep` | 2 workers; two steps with error handlers, an execute message for one and a failure for the other, whose compensation writes no row, 2 deliveries each; 2 infrastructure attempts |
| `ExecutorStart` | What does the outbox key protect, is an acknowledgement safe, is a duplicate ever a failure, does every call end? `OutboxKeyGuardsEffects`, `RowInv`, `AckedIsDurable`, `NoFailureEventForDuplicate`, `HandlerReturns` | 2 workers; a start of a saga with handler, 2 user attempts and nobody to tell of its failure, and a step without handlers with 2 deliveries; 2 infrastructure attempts |
| `OutboxReaders` | Two replicas without row locks: is anything lost or sent needlessly, do attempts stay bounded, is every row settled, are the pauses right? `TypeOK`, `ProcessedWasPublished`, `AttemptsBounded`, `OncePerReaderPlusFaults`, `ImplementsOutboxDelivery`, `EventuallySettled`, `BackoffWithinLimits`, `BackoffGrows` | 2 readers, 2 rows, batch 2, 3 attempts, 2 faults, MySQL; backoff: the pauses of one of the rows (`Watched`), a largest duration of 20, 3 factors, 3 values for min and max |
| `ServiceShutdown` | One polling goroutine, an orderly end? `TypeOK`, `OnePoller`, `ClosedMeansStopped`, `NoRowRefused`, `MapMatchesConnection`, `CloseTerminates` | 2 callers of `Init`, 1 of `Close`, batch 3, 2 topics |
| `SagaChain` | Does a saga keep its order, forward and back, and end? `TypeOK`, `OnceOnly`, `DuplicateMeansHandled`, `CompensationRunsBack`, `StartStopsAtFailure`, `ImplementsSagaOrder`, `SagaEnds` | 3 services, 5 steps, 3 of them in one call of `StartSagaWithSteps`, one step with OnError, 2 lost commits; deliveries unbounded |
| `KafkaGroup` | Does the group skip a message, does `Close` end properly? `TypeOK`, `PassedWasAttempted`, `ClosedIsQuiet`, `CloseTerminates`, `EventuallyAttempted` | 2 clients, 3 messages of which one does not decode, 1 fault |
| `ExecutorDuplicateFails` | violated: `NoFailureEventForDuplicate` for a step with OnError | 1 worker, 1 message twice |
| `ExecutorMySQL` | violated: `EffectAtMostOnce` on MySQL | 1 worker, last step of a saga, twice |
| `SagaSplit` | violated: `AllOrNothing` | one step started, a chain of 3 |
| `SagaForgets` | violated: `DuplicateMeansHandled` when the second step of a start tells the first of its failure | as `SagaChain`, no lost commits |
| `StartGoesOn` | violated: `StartStopsAtFailure` | two steps, the first without ErrorTopics |
| `KafkaSkips` | violated: `PassedWasHandled` | 1 client, 3 messages, no fault |

Why the bounds suffice: the conflicts are between two transactions over one
key, so two workers and two deliveries show every pair; a redelivery after the
first delivery has ended and one that overlaps it are both within 2. A retry
loop behaves alike from the second attempt on. Two readers show every overlap on
a row, and two faults a failed update after a lost answer. Three attempts instead
of the default 5 are enough for one reader to attempt a row more than once while
the other holds its old batch. The batch of
`OutboxReaders` holds all rows, so that a scan that breaks off is the only way a
row waits for another; it does not show a queue longer than a batch. In `Saga`
nothing is removed from `sent`, so each message is delivered as often and as late
as one likes; three services and a compensation that crosses two of them show
every order of neighbours. Three messages are what a skipped one needs: one that
is committed, one that is skipped, one that is marked. For the backoff, a largest
duration of 20 lets the product overflow within the attempts of a row. What depends on the
number of workers, messages, rows or readers is proved (section 5).

Deadlock is not checked: the bounded deliveries end, all rows get settled, a
saga ends, a closed client stops.

What the violated runs show of the code:

- `ExecutorDuplicateFails`: `ErrDuplicate` is recognised only by steps without
  OnError. With one, the handler's claim is again a duplicate, and the redelivery
  of a message that succeeded writes a failure event.
- `ExecutorMySQL`: the claim waits for `RowsAffected() == 2`, which MySQL never
  reports for this statement.
- `SagaSplit`: the failure event neither consults nor claims the inbox. A message
  that failed takes effect when delivered again: the last step of the chain is
  done and the first one undone. (The other order exists as well: a processed
  message whose redelivery meets database errors until the retries are spent is
  reported as failed. The outbox key makes it worse: the step's later compensation
  cannot write its event beside the failure event and is rolled back.)
- `SagaForgets`: a step that got its input in the process claims the name of the
  step before it; the failure event of that step is a duplicate then.
- `StartGoesOn`: `ExecuteStep` returns no error after a failure it recorded or
  swallowed.
- `KafkaSkips`: the loop of `ConsumeClaim` goes on after a failed message, and
  the next mark passes it.

Seen in the models, but not the subject of a run:

- `actionError` unwraps to the user's `RetryableError`, so the infrastructure
  loop retries it as well (`internal/executor/errors.go:4` says it stops);
- an exhausted infrastructure loop returns an error that is retryable for the
  user's loop (`internal/executor/executor.go:31` says it costs nothing there);
- a reader with an old batch replaces the pause another reader has set by a
  shorter one: it computes it from the `AttemptCounter` of its buffer
  (`internal/outbox/reader.go:219-226`), and the UPDATE sets `scheduled_at`
  whatever the row holds by then (`:252`). `BackoffGrows` therefore compares
  readers only when the buffer is not stale;
- a start step without next topics takes effect twice when its commit is lost:
  it has no sender to claim and writes no row (`internal/executor/executor.go:211`);
- a second call of `Reader.Close` returns at once while the first still waits
  (`internal/outbox/reader.go:135`);
- `Kafka.Close` waits for a rebalance when the context given to `Run` is not
  cancelled as well: `Consume` never looks at the one `Close` cancels. The
  comment at `examples/kafka-pubsub/kafka.go:137` names either as enough.

`EventuallySettled` says "processed or given up": a row that failed
`MaxAttempts` times (5; `Config` has no field for it) is never read again, so an
outage of the broker can lose messages. This is documented at
`internal/outbox/reader.go:74-76`.

## 4. Fairness

- `Executor.FairSpec`: weak fairness of `Progress(w)`: goroutines are scheduled,
  user code and database calls return, and a call on a cancelled context fails.
  No error is forced otherwise: in particular an INSERT that waits for a lock is
  not rescued by a timeout.
- `OutboxReader.FairSpec`: weak fairness of a reader's steps (the ticker ticks,
  calls return) and of `BackoffElapses` (time passes). A publish may fail for
  ever. Faults are bounded: the database and the process work in the end.
- `Service.ServiceFairSpec`: that of `ReaderLifecycle`: weak fairness of the
  steps of `Close` and of a row's processing; strong fairness of `Stop`, because
  Go's `select` chooses at random among ready channels and a ready ticker cannot
  win for ever.
- `Saga.FairSpec`: recorded rows are published (no outage outlasts
  `MaxAttempts`, which `OutboxReader` shows to be the limit), and a message that
  led to no unit of work yet is delivered again until it does (a broker that
  redelivers what was not acknowledged, user code that ends, a database that
  recovers). A second unit for a message is never forced, and neither is any step
  of `StartSagaWithSteps`. The shipped NATS client and, after `KafkaSkips`, the
  Kafka client do not give the second assumption: `SagaEnds` is a statement about
  the library over a broker that redelivers.
- `KafkaConsumer.FairSpec`: goroutines are scheduled, handlers return, a free
  partition is assigned, and a cancelled context ends a session. No rebalance is
  forced, which is why `CloseTerminates` speaks of a cancelled context.

## 5. Proofs

| Theorem | Statement | Assumption |
|---|---|---|
| `ExecutorProofs!TypeCorrect` | `Spec => []TypeOK` | |
| `ExecutorProofs!RowsGuarded` | `Spec => []RowInv` | |
| `ExecutorProofs!OutboxKeyGuards` | `Spec => []OutboxKeyGuardsEffects` | |
| `ExecutorProofs!ClaimsGuarded` | `Spec => []ClaimInv` | `Dialect = "postgres"` |
| `ExecutorProofs!AtMostOnce` | `Spec => []EffectAtMostOnce` | `Dialect = "postgres"` |
| `ExecutorProofs!Refinement` | `Spec => ImplementsAtomicStep` | `Dialect = "postgres"` |
| `ExecutorDeliveryProofs!AcknowledgedIsDurable` | `Spec => []AckedIsDurable` | |
| `ExecutorDeliveryProofs!DuplicateFailsInHandler` | `Spec => []DuplicateFailsOnlyWithHandler` | |
| `ExecutorDeliveryProofs!NoFailureForDuplicate` | `Spec => []NoFailureEventForDuplicate` | steps that execute claimed messages have no OnError |
| `OutboxReaderProofs!TypeCorrect` | `Spec => []TypeOK` | |
| `OutboxReaderProofs!NothingLost` | `Spec => []ProcessedWasPublished` | |
| `OutboxReaderProofs!AttemptsStayBounded` | `Spec => []AttemptsBounded` | |
| `OutboxReaderProofs!ReceivedOncePerReader` | `Spec => []OncePerReaderPlusFaults` | |
| `OutboxReaderProofs!DeliveryRefinement` | `Spec => ImplementsOutboxDelivery` | |
| `RowBackoffProofs!PauseWithinLimits` | `RowSpec => []BackoffWithinLimits` | |
| `RowBackoffProofs!PausesGrow` | `RowSpec => []BackoffGrows` | |
| `RowBackoffProofs!RowsAreRead` | `RowSpec => Spec` of the readers | |
| `ReaderLifecycleProofs!TypeCorrect` | `Spec => []TypeOK` | |
| `ReaderLifecycleProofs!OnePollerEver` | `Spec => []OnePoller` | |
| `ReaderLifecycleProofs!ClosedIsStopped` | `Spec => []ClosedMeansStopped` | `CloseDuringStart = FALSE`, one caller of `Close` |
| `ServiceProofs!ServiceRunsReader` | `ServiceSpec => Spec` of the reader | |
| `ServiceProofs!ServiceKeepsReader` | `ServiceSpec => [](TypeOK /\ OnePoller /\ ClosedMeansStopped)` | as `ClosedIsStopped` |
| `ServiceProofs!NoRowIsRefused` | `ServiceSpec => []NoRowRefused` | `CloseDuringStart = FALSE`, somebody calls `Close` |
| `ServiceProofs!MapIsTheConnections` | `ServiceSpec => []MapMatchesConnection` | |
| `SagaProofs!TypeCorrect` | `Spec => []TypeOK` | |
| `SagaProofs!EffectsHappenOnce` | `Spec => []OnceOnly` | `OnePlace` |
| `SagaProofs!DuplicatesAreDuplicates` | `Spec => []DuplicateMeansHandled` | `KeysTellApart` |
| `SagaProofs!Refinement` | `Spec => ImplementsSagaOrder` | `AlongChain` |
| `SagaProofs!CompensationIsOrdered` | `Spec => []CompensationRunsBack` | `AlongChain` |
| `SagaProofs!StartStops` | `Spec => []StartStopsAtFailure` | `StartWritesEvents` |
| `KafkaConsumerProofs!TypeCorrect` | `Spec => []TypeOK` | |
| `KafkaConsumerProofs!NoMessageSkipped` | `Spec => []PassedWasAttempted` | |
| `KafkaConsumerProofs!ClosedClientIsQuiet` | `Spec => []ClosedIsQuiet` | |

They hold for any sets of workers, steps and messages, any retry policies and
numbers of deliveries, any set of rows and finite set of readers, any services,
routing and start of a saga, any clients of a group and length of the log.
Besides the assumptions in the table they use the named assumptions of the
modules (well-formed steps and messages, a sender of every message that no start
made, separate callers of `Init` and `Close`), which TLC evaluates in the runs.

### Executor

*At most once.* `EffectAtMostOnce` is not inductive: it does not say why a
second commit under the same key cannot follow. `ClaimInv` adds the reason: no
two open transactions hold one claim (an INSERT waits), a claim that is held is
not in the inbox (the holder found it absent, and nobody can have committed it
since), and what was committed under a claim is in the inbox. The `dup` outcome
of `Claim` is where the dialect matters: on MySQL a conflict may be reported as
success, `ClaimsFresh` fails, and the run `ExecutorMySQL` shows the result.

*Outbox key.* `RowInv` is the same argument for outbox rows; a conflict is an
error on both dialects. It makes the start of a saga, which claims nothing, take
effect at most once if it has a next topic.

*Refinement.* A `Commit` or `CommitLost` is a `Process` step of `AtomicStep`:
`ClaimInv` gives that the claim is absent when it is committed, `RowInv` the same
for the rows. Every other action leaves the tables unchanged.

*Acknowledgements.* An acknowledgement is decided several steps after what
justifies it: a stage ends, the error of the one before is kept in `work[w]`, and
the next attempt or stage decides. `LegalInv` says of each busy worker that its
record is one such a path can produce (`Legal`): the stage belongs to the message,
only a message with a sender is at its claim, the failure event is reached only by
executions that have ErrorTopics, and from a duplicate only by way of OnError. With it every way of a call
to return nil without a committed unit is a duplicate or a failure without
ErrorTopics, which is what `AckedIsDurable` allows.

*Duplicates.* From the same invariant: a duplicate that ends as a failure came
through an error handler's claim. `NoFailureEventForDuplicate` follows for steps
without OnError. The hypothesis is needed: the run `ExecutorDuplicateFails` shows
the violation with one, and the run `ExecutorStart` meets it.

### OutboxReader

*Nothing lost.* The strengthening says that the row a reader is about to mark
was published.

*Attempts.* `AttemptsBounded` is proved from a strengthening that counts in
advance: the attempts of a row plus the readers that hold it in their buffer and
may still count it stay below `MaxAttempts` plus the number of readers.

*Received once per reader.* The count is bounded in two regimes (`ReceivedInv`).
While a row is not marked, every publish that no fault pays for belongs to a
reader that is about to mark the row. Once it is marked, nobody reads it again,
and the publishes plus the readers that still hold it unpublished are at most the
readers plus the faults. The step that marks it first joins the two: those about
to mark and those that may still publish are different readers.

*Delivery.* A row is received once `published` counts it, settled once it is
marked. A `Publish` that the broker got, answered or not, is `Send`, which needs
that a reader only holds rows whose transaction was committed (`BatchesWritten`);
`MarkProcessed` is `Settle`, because the reader that marks a row has published
it; a second `Publish` or mark of a row stutters. Nothing takes a row back: in
particular a crash and a failed update do not.

### RowBackoff

*Powers.* `Power` is a recursive function over all of `Nat`, and that such a
function satisfies its equation is itself a theorem. Induction is done over
sets: a set of numbers that contains 0 and every successor of a member is `Nat`,
since its complement has no least element. The equation then follows from
approximations on `0 .. n`, which exist for every n and agree (`PowerUnfolds`).

*Limits.* The rest is about quotients: truncation, rounding up and the jitter's
choice stay below a cap that was applied before them, and at least the minimum,
because the factor that `Factor` returns is above 1. This holds for every counter
a buffer may hold (`RowTyped`).

*Growth.* The next power is larger by a factor above 1, and where one of two
pauses is capped, so is the later one (`PauseGrows`); any number of attempts more
is induction over a set again (`PausesOrdered`). Which counters meet is a
question about the readers, and `PauseInv` answers it: a pause recorded for
counter n means that the column is above n (`PausedBelow`), because the counter
in a buffer is never above the column and the UPDATE increments it; and what a
reader holds it has read after its own last pause of that row
(`ReadSincePause`), because the row leaves the batch when its attempt is
recorded. So a reader's own counters grow strictly, and a buffer that agrees with
the column is above every pause recorded by anybody.

### ReaderLifecycle, Service

*One poller.* `OneLauncher`: among the callers of `Init` at most one is past the
swap of `started`, and only it launches.

*Close.* `ClosedInOrder`: once `closed` is set no caller of `Init` is on its way,
and while the goroutine runs some caller of `Close` still is. `CloseDuringStart = FALSE` and one caller are
the usage the repository's README shows; without either the property is false
(section 3, and the hazards at `internal/outbox/reader.go:122` and `:139`).

*Service.* A step of the composition is a step of the reader or leaves the
reader's variables alone, so its theorems carry over. That no row is refused
follows because the client is closed only when `Controller.Close` has returned;
this is where somebody must call it.

*Subscriptions.* `MapMatchesConnection` is preserved by each step of `Close`
because a topic leaves the map exactly when its subscription has ended. A `Close`
that fails keeps what is left in both; one that closes the connection does so
with an empty map. A lost connection delivers nothing, whatever the map holds.

### Saga

`Shape` describes where rows, messages and the start's input come from: a row
names the step that wrote it, its topic is in that step's routing, and the step
took effect (or failed, or was undone, for a row of a failure); a message comes
from such a row; while the start has the saga's id, the step before was executed.
Every step of the specification that changes a table or the history is one
`Unit`, which executes a step, undoes one, or gives it up; each invariant is then
proved for units.

*Once.* An effect leaves a trace that the database refuses to repeat (`Traced`):
the inbox row of the one step that sends its step successes (or failures), or the
outbox rows of a step of the start. A second execution would have to claim the
same key or write the same rows. `OnePlace` is what makes the trace unique: with
two senders, or a step that is both started and told, one step takes effect
twice, with two different keys.

*Duplicates.* Every inbox row belongs to a message that was handled and could be
claimed (`ClaimedHandled`), and the input of the start carries a sender only if
it was handed on by a step that wrote events (`HandsOn`). `KeysTellApart` says
that no two such messages share a key in one service. The run `SagaForgets` is a
routing without it, and violates the property.

*Order.* By `AlongChain` the sender of a message is the neighbour in the chain,
and `Shape` says that it took effect or failed. So each unit that concerns a step
of the chain is `Execute`, `Fail` or `Compensate` of `SagaOrder` at its position,
and all other steps stutter. The start may enter the chain in the middle only
behind a step of the chain, and with steps that write events: a step without
next topics also commits with the empty message that follows a failure
(`StartGoesOn`), one that writes events cannot.

*Back.* `CompensationRunsBack` is proved of `SagaOrder` alone and carried over by
the refinement. `OrderInv`: everything before a step that was executed or failed
was executed, and behind a step that is undone there is a failure, with every
step between them undone. That what is undone was done follows from both.

*A start that stops.* `StartStopsAtFailure` is violated in general (`StartGoesOn`)
and holds under `StartWritesEvents`: after a failure, `ExecuteStep` returns the
empty message, and a step that has events to write cannot do so without a saga
id. What protects such a start is the uuid parser of the writer, not the loop.

### KafkaConsumer

*Nothing skipped.* `OffsetInv`: whoever owns the partition is in a session; what
a session has taken from its claim was attempted, does not decode or was jumped;
its mark is not ahead of that. A mark may then be committed at any time, and a
session that lost the partition marks nothing.

*Quiet.* `QuietInv`: from the moment `Close` has the client's lock nobody is
sending, and when it has returned the goroutine is in no session.

### Only model-checked

- Liveness (`HandlerReturns`, `EventuallySettled`, `CloseTerminates`, `SagaEnds`,
  `EventuallyAttempted`), which is out of the prover's reach.

Every safety invariant, action property and refinement of the passing runs is a
theorem.

## 6. Not modelled, and the plan

The plan is carried out but for one step: the composition of `AtomicStep` into
`Saga` stays one by contract. `AtomicStep` counts the units of each message and
stage (`done`), `Saga` those of each step, so that a refinement would need `Saga`
to carry a history it has no other use for.

Left out for good: tracing, metrics, the pgx adapter, the database interfaces and
the example program, which hold no state the system acts on; the migrations
`Init` runs (one transaction of CREATE IF NOT EXISTS); the error channel of the
reader; time zones of `scheduled_at` (the models abstract time to whether a row
is due).
