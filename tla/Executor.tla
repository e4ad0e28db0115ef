------------------------------ MODULE Executor ------------------------------
(***************************************************************************)
(* StepExecutor and the handler Controller.Register installs, over the     *)
(* inbox and outbox tables of one service.                                 *)
(*                                                                         *)
(* Workers are the goroutines that run handlers: the subscriber's          *)
(* callbacks in every replica that shares the database, and the callers    *)
(* of StartSaga.  A delivery runs up to three stages (the action, the      *)
(* error handler, the failure event), each an attempt loop of              *)
(* transactions BeginTx, Claim, user code, WriteMessages, Commit.  The     *)
(* database is read committed; an INSERT waits while an open transaction   *)
(* holds the same unique key.                                              *)
(***************************************************************************)
EXTENDS ServiceMessages

CONSTANTS
    Workers,
    Dialect,            \* "postgres" or "mysql"
    InfraPolicy,        \* Config.InfraRetry
    MaxDeliveries,      \* bound: deliveries of one message by the broker
    CommitMayBeLost     \* can Commit apply and still report an error?

ASSUME ExecutorAssumption == /\ Dialect \in {"postgres", "mysql"}
                             /\ InfraPolicy \in Policies
                             /\ MaxDeliveries \in Nat
                             /\ CommitMayBeLost \in BOOLEAN

VARIABLES
    inbox,        \* committed rows of the inbox, by primary key
    outbox,       \* committed rows of the outbox, by primary key
    done,         \* history: committed transactions per message and stage
    work,         \* what each worker is doing
    deliveries,   \* history: deliveries of each message so far
    acked         \* messages some handler call has returned nil for

tables == <<inbox, outbox, done>>
vars == <<inbox, outbox, done, work, deliveries, acked>>

PCs == {"begin", "claim", "body", "write", "commit"}

(* A busy worker: the message it handles, the stage and the place in its   *)
(* transaction, the retries spent in the infrastructure and in the user    *)
(* loop, the error that ended the stage before, and whether the caller's   *)
(* context is cancelled.                                                   *)
Idle == [pc |-> "idle"]
BusyType == [pc: PCs, msg: Messages, stage: Stages, infra: Nat, user: Nat,
             cause: Errors \cup {"none"}, cancelled: BOOLEAN]

Busy(w) == work[w].pc # "idle"

\* The transaction of worker w has inserted the inbox key k, not committed.
HoldsClaim(w, k) == /\ work[w].pc \in {"body", "write", "commit"}
                    /\ Claims(work[w].msg, work[w].stage)
                    /\ InboxKey(work[w].msg) = k

\* The transaction of worker w has inserted the outbox row r, not committed.
HoldsRow(w, r) == work[w].pc = "commit" /\ r \in Rows(work[w].msg, work[w].stage)

-----------------------------------------------------------------------------
(* inbox.Claim.  Postgres reports a conflict by returning no row.  MySQL   *)
(* reports affected rows: 1 for an insert; ON DUPLICATE KEY UPDATE that    *)
(* assigns the value the row already has reports 0, or 1 under the         *)
(* CLIENT_FOUND_ROWS flag.                                                 *)
AffectedRows(exists) == IF exists THEN {0, 1} ELSE {1}

ClaimOutcomesMutIgnore(exists) == {"ok"}
ClaimOutcomes(exists) ==
    IF Dialect = "postgres"
    THEN {IF exists THEN "dup" ELSE "ok"}
    ELSE {IF n = 2 THEN "dup" ELSE "ok" : n \in AffectedRows(exists)}

\* The outcomes of a handler call the broker takes for an acknowledgement:
\* Register maps inbox.ErrDuplicate to nil.
AcksMutAnyError(err) == err # "ctx"
Acks(err) == err \in {"none", "dup"}

-----------------------------------------------------------------------------
(* Local control: where a failed attempt leads.  Each operator maps the    *)
(* record of a busy worker to its next record; Return ends the delivery.   *)

Attempt(s, stage) == [s EXCEPT !.pc = "begin", !.stage = stage,
                               !.infra = 0, !.user = 0]
Again(s) == [s EXCEPT !.pc = "begin"]
Return(err) == [pc |-> "idle", err |-> err]

\* publishEvent: no topics, no event; else WriteTx under the infra retrier.
EnterPublish(s) ==
    IF s.msg.step.error = {} THEN Return("none")
    ELSE LET v == EnterLoop(InfraPolicy, s.cancelled) IN
         IF v = "run" THEN Attempt(s, "publish") ELSE Return(v)

\* ExecuteStep after runErrorHandler failed; CompensateStep returns.
HandlerFailed(s, err) ==
    IF s.msg.type = "execute" THEN EnterPublish([s EXCEPT !.cause = err]) ELSE Return(err)

EnterHandler(s) ==
    LET v == EnterLoop(InfraPolicy, s.cancelled) IN
    IF v = "run" THEN Attempt(s, "handler") ELSE HandlerFailed(s, v)

\* ExecuteStep and CompensateStep after runWithUserRetry failed.
ActionFailedMutDup(s, err) ==
    LET t == [s EXCEPT !.cause = err] IN
    IF HasHandler(s.msg) THEN EnterHandler(t)
    ELSE IF s.msg.type = "failed" THEN Return(err)
    ELSE EnterPublish(t)
ActionFailed(s, err) ==
    LET t == [s EXCEPT !.cause = err] IN
    IF HasHandler(s.msg) THEN EnterHandler(t)
    ELSE IF s.msg.type = "failed" THEN Return(err)
    ELSE IF err = "dup" THEN Return("none")
    ELSE EnterPublish(t)

\* runWithUserRetry: enter the user loop, and in it the infra loop.
EnterAction(s) ==
    LET u == EnterLoop(s.msg.step.retry, s.cancelled)
        v == IF u = "run" THEN EnterLoop(InfraPolicy, s.cancelled) ELSE u
    IN IF v = "run" THEN Attempt(s, "action") ELSE ActionFailed(s, v)

\* A failed attempt of the action: the infra loop decides first, and what it
\* returns is an attempt's error to the user loop.
ActionAttemptFailedMutNoCount(s, err) ==
    LET v == AfterFailure(InfraPolicy, s.infra, err, s.cancelled)
        u == AfterFailure(s.msg.step.retry, s.user, v, s.cancelled)
    IN IF v = "run" THEN [Again(s) EXCEPT !.infra = @ + 1]
       ELSE IF u = "run" THEN [Again(s) EXCEPT !.infra = 0]
       ELSE ActionFailed(s, u)
ActionAttemptFailed(s, err) ==
    LET v == AfterFailure(InfraPolicy, s.infra, err, s.cancelled)
        u == AfterFailure(s.msg.step.retry, s.user, v, s.cancelled)
    IN IF v = "run" THEN [Again(s) EXCEPT !.infra = @ + 1]
       ELSE IF u = "run" THEN [Again(s) EXCEPT !.infra = 0, !.user = @ + 1]
       ELSE ActionFailed(s, u)

\* The transaction of the attempt is rolled back and the stage decides.
AttemptFailed(s, err) ==
    IF s.stage = "action" THEN ActionAttemptFailed(s, err)
    ELSE LET v == AfterFailure(InfraPolicy, s.infra, err, s.cancelled) IN
         IF v = "run" THEN [Again(s) EXCEPT !.infra = @ + 1]
         ELSE IF s.stage = "handler" THEN HandlerFailed(s, v)
         ELSE Return(v)

\* Worker w goes on with record s; a Return gives up the worker and, when it
\* is an acknowledgement, marks the message.
Continue(w, m, s) ==
    IF s.pc = "idle"
    THEN /\ work' = [work EXCEPT ![w] = Idle]
         /\ acked' = IF Acks(s.err) THEN acked \cup {m} ELSE acked
    ELSE /\ work' = [work EXCEPT ![w] = s]
         /\ UNCHANGED acked

\* A step of worker w's transaction fails: roll back, then decide.
FailMutClaimStays(w, err) ==
    /\ Continue(w, work[w].msg, AttemptFailed(work[w], err))
    /\ inbox' = IF work[w].pc = "body" /\ Claims(work[w].msg, work[w].stage)
                THEN inbox \cup {InboxKey(work[w].msg)} ELSE inbox
    /\ UNCHANGED <<outbox, done, deliveries>>
Fail(w, err) == /\ Continue(w, work[w].msg, AttemptFailed(work[w], err))
                /\ UNCHANGED <<tables, deliveries>>

Goto(w, pc) == /\ work' = [work EXCEPT ![w].pc = pc]
               /\ UNCHANGED <<tables, deliveries, acked>>

-----------------------------------------------------------------------------
Init == /\ inbox = {}
        /\ outbox = {}
        /\ done = [m \in Messages |-> [s \in Stages |-> 0]]
        /\ work = [w \in Workers |-> Idle]
        /\ deliveries = [m \in Messages |-> 0]
        /\ acked = {}

\* The broker hands message m to a handler, possibly not for the first time
\* and possibly while another worker handles it; or StartSagaWithSteps calls
\* ExecuteStep, once per step.  What a step that wrote events hands on may also
\* arrive as one of them.
Deliver(w, m) ==
    /\ ~Busy(w)
    /\ deliveries[m] < (IF m.from = NoStep THEN 1 ELSE MaxDeliveries)
    /\ deliveries' = [deliveries EXCEPT ![m] = @ + 1]
    /\ Continue(w, m, EnterAction([pc |-> "begin", msg |-> m, stage |-> "action",
                                   infra |-> 0, user |-> 0,
                                   cause |-> "none", cancelled |-> FALSE]))
    /\ UNCHANGED tables

BeginTx(w) ==
    /\ work[w].pc = "begin"
    /\ ~work[w].cancelled
    /\ LET next == IF work[w].stage = "publish" THEN "write"
                   ELSE IF Claims(work[w].msg, work[w].stage) THEN "claim"
                   ELSE "body"
       IN Goto(w, next)

\* The INSERT of the claim waits for a transaction that inserted the key.
Claim(w) ==
    /\ work[w].pc = "claim"
    /\ LET k == InboxKey(work[w].msg) IN
       /\ \A v \in Workers \ {w} : ~HoldsClaim(v, k)
       /\ \E outcome \in ClaimOutcomes(k \in inbox) :
             IF outcome = "dup" THEN Fail(w, "dup") ELSE Goto(w, "body")

\* Execute, Compensate, OnError or OnCompensateError.
UserCode(w) ==
    /\ work[w].pc = "body"
    /\ \/ Goto(w, IF TargetTopics(work[w].msg, work[w].stage) = {} THEN "commit" ELSE "write")
       \/ \E err \in UserErrors : Fail(w, err)

\* WriteMessages: all INSERTs of the topics; they wait for a transaction that
\* inserted one of the rows, and fail on a row that is there.
WriteConflictMut(rows) == FALSE
WriteConflict(rows) == rows \cap outbox # {}

WriteMessages(w) ==
    /\ work[w].pc = "write"
    /\ LET rows == Rows(work[w].msg, work[w].stage) IN
       /\ \A v \in Workers \ {w}, r \in rows : ~HoldsRow(v, r)
       /\ IF WriteConflict(rows) THEN Fail(w, "infra") ELSE Goto(w, "commit")

\* The effect of a commit on the tables: claim, business effect and events.
Apply(m, s) ==
    /\ inbox' = inbox \cup (IF Claims(m, s) THEN {InboxKey(m)} ELSE {})
    /\ outbox' = outbox \cup Rows(m, s)
    /\ done' = [done EXCEPT ![m][s] = @ + 1]

Commit(w) ==
    /\ work[w].pc = "commit"
    /\ ~work[w].cancelled
    /\ Apply(work[w].msg, work[w].stage)
    /\ Continue(w, work[w].msg, Return("none"))
    /\ UNCHANGED deliveries

\* The connection breaks after the server committed: Commit reports an error.
CommitLost(w) ==
    /\ CommitMayBeLost
    /\ work[w].pc = "commit"
    /\ ~work[w].cancelled
    /\ Apply(work[w].msg, work[w].stage)
    /\ Continue(w, work[w].msg, AttemptFailed(work[w], "infra"))
    /\ UNCHANGED deliveries

\* Any database call of the transaction fails; nothing of it is applied.
DatabaseError(w) ==
    /\ work[w].pc \in {"begin", "claim", "write", "commit"}
    /\ Fail(w, "infra")

\* The caller of StartSagaWithSteps cancels its context.  Subscribers call
\* handlers with context.Background(); that a delivered copy of a message of
\* Started may be cancelled as well only adds behaviours.
Cancel(w) ==
    /\ Busy(w)
    /\ work[w].msg \in Started
    /\ ~work[w].cancelled
    /\ work' = [work EXCEPT ![w].cancelled = TRUE]
    /\ UNCHANGED <<tables, deliveries, acked>>

\* The process of worker w dies; the database rolls its transaction back.
Crash(w) ==
    /\ Busy(w)
    /\ work' = [work EXCEPT ![w] = Idle]
    /\ UNCHANGED <<tables, deliveries, acked>>

Advance(w) == \/ BeginTx(w) \/ Claim(w) \/ UserCode(w) \/ WriteMessages(w)
              \/ Commit(w) \/ CommitLost(w)

Next == \E w \in Workers : \/ \E m \in Messages : Deliver(w, m)
                           \/ Advance(w)
                           \/ DatabaseError(w)
                           \/ Cancel(w)
                           \/ Crash(w)

(* Goroutines are scheduled, user code and database calls return, and a     *)
(* call on a cancelled context fails.  Nothing forces an error otherwise:   *)
(* an INSERT that waits may wait for as long as the lock is held.           *)
Progress(w) == Advance(w) \/ (Busy(w) /\ work[w].cancelled /\ DatabaseError(w))

Fairness == \A w \in Workers : WF_vars(Progress(w))

Spec == Init /\ [][Next]_vars
FairSpec == Spec /\ Fairness

-----------------------------------------------------------------------------
(* Properties.                                                             *)

\* Type invariant of the tables, the workers and the history.
TypeOK ==
    /\ inbox \subseteq Sagas \X StepNames
    /\ outbox \subseteq OutboxKeys
    /\ done \in [Messages -> [Stages -> Nat]]
    /\ work \in [Workers -> BusyType \cup {Idle}]
    /\ deliveries \in [Messages -> Nat]
    /\ acked \subseteq Messages

\* Two committed transactions that share an inbox key are one and the same:
\* however often a message is delivered, by however many replicas, and even
\* if a Commit that applied reports an error and is retried, at most one of
\* its Execute, OnError, Compensate and OnCompensateError calls takes effect
\* (inbox.Claim at the head of atomicRun and runErrorHandler).
EffectAtMostOnce ==
    \A m, n \in Messages : \A s, t \in UserStages :
        /\ m.from # NoStep
        /\ InboxKey(m) = InboxKey(n)
        /\ done[m][s] > 0
        /\ done[n][t] > 0
        => m = n /\ s = t /\ done[m][s] = 1

\* Two committed transactions that write the same outbox row are one and the
\* same: the primary key (saga_id, topic, saga_type) makes Execute of a saga's
\* start, which claims nothing in the inbox, take effect at most once when it
\* has a next topic, and gives a saga at most one failure event per topic.
OutboxKeyGuardsEffects ==
    \A m, n \in Messages : \A s, t \in Stages :
        /\ Rows(m, s) \cap Rows(n, t) # {}
        /\ done[m][s] > 0
        /\ done[n][t] > 0
        => m = n /\ s = t /\ done[m][s] = 1

\* Inductive strengthening of EffectAtMostOnce: no two open transactions hold
\* the same claim, a claim that is held is not in the inbox yet, and what was
\* committed under a claim is in the inbox.
ClaimsExclusive ==
    \A v, w \in Workers, k \in Sagas \X StepNames :
        HoldsClaim(v, k) /\ HoldsClaim(w, k) => v = w
ClaimsFresh ==
    \A w \in Workers, k \in Sagas \X StepNames : HoldsClaim(w, k) => k \notin inbox
ClaimsRecorded ==
    \A m \in Messages, s \in Stages :
        done[m][s] > 0 /\ Claims(m, s) => InboxKey(m) \in inbox
ClaimInv == ClaimsExclusive /\ ClaimsFresh /\ ClaimsRecorded /\ EffectAtMostOnce

\* The same for the rows of the outbox and OutboxKeyGuardsEffects.
RowsExclusive ==
    \A v, w \in Workers, r \in OutboxKeys : HoldsRow(v, r) /\ HoldsRow(w, r) => v = w
RowsFresh ==
    \A w \in Workers, r \in OutboxKeys : HoldsRow(w, r) => r \notin outbox
RowsRecorded ==
    \A m \in Messages, s \in Stages : done[m][s] > 0 => Rows(m, s) \subseteq outbox
RowInv == RowsExclusive /\ RowsFresh /\ RowsRecorded /\ OutboxKeyGuardsEffects

\* A handler call that returns nil has left something durable: a claim of the
\* message's key, or a transaction of the message itself.  The one exception
\* is the execution of a step without ErrorTopics, whose failure publishEvent
\* swallows.  A broker may therefore forget an acknowledged message.
AckedIsDurable ==
    \A m \in acked : \/ m.from # NoStep /\ InboxKey(m) \in inbox
                     \/ \E s \in Stages : done[m][s] > 0
                     \/ m.type = "execute" /\ m.step.error = {}

\* A claim that finds the key in the inbox never leads to a failure event,
\* which would compensate the earlier steps of a saga that goes on: the
\* duplicate is acknowledged and nothing else (ExecuteStep on ErrDuplicate).
NoFailureEventForDuplicate ==
    \A w \in Workers :
        Busy(w) /\ work[w].stage = "publish" => work[w].cause # "dup"

\* Every handler call returns: both retry loops are bounded, a worker never
\* waits forever for the claim or the rows of another, and a cancelled
\* context ends the loops (retry.Retrier, ExecuteStep, CompensateStep).
HandlerReturns == \A w \in Workers : Busy(w) ~> ~Busy(w)

\* The executor implements the atomic step: whatever happens between BeginTx
\* and Commit, the tables change by whole units of work only, each of which
\* found its claim and its rows absent when it committed.
Abs == INSTANCE AtomicStep
ImplementsAtomicStep == Abs!Spec

=============================================================================
