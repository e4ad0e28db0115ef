--------------------------- MODULE ExecutorProofs ---------------------------
(***************************************************************************)
(* Proofs about Executor, for every set of workers, messages and steps and *)
(* every retry policy: type correctness, at-most-once effects, the guard   *)
(* of the outbox key, and the refinement of AtomicStep.                    *)
(***************************************************************************)
EXTENDS Executor, TLAPS

-----------------------------------------------------------------------------
(* The retry loops.                                                        *)

LEMMA LoopHeadType ==
    ASSUME NEW max, NEW retries, NEW last \in Errors \cup {"none"}, NEW cancelled
    PROVE  LoopHead(max, retries, last, cancelled) \in Errors \cup {"run"}
  BY DEF LoopHead, Errors

LEMMA EnterLoopType ==
    ASSUME NEW policy, NEW cancelled
    PROVE  EnterLoop(policy, cancelled) \in Errors \cup {"run"}
  BY LoopHeadType DEF EnterLoop

LEMMA AfterFailureType ==
    ASSUME NEW policy, NEW retries, NEW err \in Errors, NEW cancelled
    PROVE  AfterFailure(policy, retries, err, cancelled) \in Errors \cup {"run"}
  BY LoopHeadType DEF AfterFailure

-----------------------------------------------------------------------------
(* Local control: wherever a failed attempt leads, the worker is idle or   *)
(* at the beginning of a transaction for the same message.                 *)

Outcome(m, t) == t.pc = "idle" \/ (t \in BusyType /\ t.pc = "begin" /\ t.msg = m)

LEMMA ReturnOutcome ==
    ASSUME NEW m, NEW err
    PROVE  Outcome(m, Return(err))
  BY DEF Outcome, Return

LEMMA AttemptOutcome ==
    ASSUME NEW s \in BusyType, NEW stage \in Stages
    PROVE  Outcome(s.msg, Attempt(s, stage))
  BY DEF Outcome, Attempt, BusyType, PCs

LEMMA CauseType ==
    ASSUME NEW s \in BusyType, NEW err \in Errors
    PROVE  /\ [s EXCEPT !.cause = err] \in BusyType
           /\ [s EXCEPT !.cause = err].msg = s.msg
  BY DEF BusyType

LEMMA PublishOutcome ==
    ASSUME NEW s \in BusyType
    PROVE  Outcome(s.msg, EnterPublish(s))
  BY ReturnOutcome, AttemptOutcome DEF EnterPublish, Stages

LEMMA HandlerFailedOutcome ==
    ASSUME NEW s \in BusyType, NEW err \in Errors
    PROVE  Outcome(s.msg, HandlerFailed(s, err))
  <1> DEFINE t == [s EXCEPT !.cause = err]
  <1>1. t \in BusyType /\ t.msg = s.msg
    BY CauseType
  <1>2. Outcome(s.msg, EnterPublish(t))
    BY <1>1, PublishOutcome
  <1> QED
    BY <1>2, ReturnOutcome DEF HandlerFailed

LEMMA EnterHandlerOutcome ==
    ASSUME NEW s \in BusyType
    PROVE  Outcome(s.msg, EnterHandler(s))
  <1> DEFINE v == EnterLoop(InfraPolicy, s.cancelled)
  <1>1. CASE v = "run"
    BY <1>1, AttemptOutcome DEF EnterHandler, Stages
  <1>2. CASE v # "run"
    <2>1. v \in Errors
      BY <1>2, EnterLoopType
    <2> HIDE DEF v
    <2>2. Outcome(s.msg, HandlerFailed(s, v))
      BY <2>1, HandlerFailedOutcome
    <2>3. EnterHandler(s) = HandlerFailed(s, v)
      BY <1>2 DEF EnterHandler, v
    <2> QED
      BY <2>2, <2>3
  <1> QED
    BY <1>1, <1>2

LEMMA ActionFailedOutcome ==
    ASSUME NEW s \in BusyType, NEW err \in Errors
    PROVE  Outcome(s.msg, ActionFailed(s, err))
  <1> DEFINE t == [s EXCEPT !.cause = err]
  <1>1. t \in BusyType /\ t.msg = s.msg
    BY CauseType
  <1> HIDE DEF t
  <1>2. Outcome(s.msg, EnterHandler(t)) /\ Outcome(s.msg, EnterPublish(t))
    BY <1>1, EnterHandlerOutcome, PublishOutcome
  <1>3. ActionFailed(s, err) \in {EnterHandler(t), EnterPublish(t), Return(err), Return("none")}
    BY DEF ActionFailed, t
  <1> QED
    BY <1>2, <1>3, ReturnOutcome

LEMMA EnterActionOutcome ==
    ASSUME NEW s \in BusyType
    PROVE  Outcome(s.msg, EnterAction(s))
  <1> DEFINE u == EnterLoop(s.msg.step.retry, s.cancelled)
             v == IF u = "run" THEN EnterLoop(InfraPolicy, s.cancelled) ELSE u
  <1>1. v \in Errors \cup {"run"}
    BY EnterLoopType
  <1>2. EnterAction(s) = IF v = "run" THEN Attempt(s, "action") ELSE ActionFailed(s, v)
    BY DEF EnterAction
  <1> HIDE DEF v
  <1>3. CASE v = "run"
    BY <1>2, <1>3, AttemptOutcome DEF Stages
  <1>4. CASE v # "run"
    BY <1>1, <1>2, <1>4, ActionFailedOutcome
  <1> QED
    BY <1>3, <1>4

LEMMA AgainOutcome ==
    ASSUME NEW s \in BusyType
    PROVE  /\ Outcome(s.msg, [Again(s) EXCEPT !.infra = @ + 1])
           /\ Outcome(s.msg, [Again(s) EXCEPT !.infra = 0, !.user = @ + 1])
  <1> DEFINE t == Again(s)
  <1>1. t \in BusyType /\ t.pc = "begin" /\ t.msg = s.msg
    BY DEF Again, BusyType, PCs
  <1>2. t.infra \in Nat /\ t.user \in Nat
    BY <1>1 DEF BusyType
  <1> HIDE DEF t
  <1>3. t.infra + 1 \in Nat /\ t.user + 1 \in Nat /\ 0 \in Nat
    BY <1>2
  <1>4. Outcome(s.msg, [t EXCEPT !.infra = t.infra + 1])
    BY <1>1, <1>3 DEF Outcome, BusyType
  <1>5. Outcome(s.msg, [t EXCEPT !.infra = 0, !.user = t.user + 1])
    BY <1>1, <1>3 DEF Outcome, BusyType
  <1> QED
    BY <1>4, <1>5 DEF t

LEMMA AttemptFailedOutcome ==
    ASSUME NEW s \in BusyType, NEW err \in Errors
    PROVE  Outcome(s.msg, AttemptFailed(s, err))
  <1> DEFINE v == AfterFailure(InfraPolicy, s.infra, err, s.cancelled)
             u == AfterFailure(s.msg.step.retry, s.user, v, s.cancelled)
  <1>1. v \in Errors \cup {"run"}
    BY AfterFailureType
  <1>2. v \in Errors => u \in Errors \cup {"run"}
    BY AfterFailureType
  <1>3. AttemptFailed(s, err) \in
          {[Again(s) EXCEPT !.infra = @ + 1],
           IF u = "run" THEN [Again(s) EXCEPT !.infra = 0, !.user = @ + 1]
                        ELSE ActionFailed(s, u),
           HandlerFailed(s, v), Return(v)}
    BY DEF AttemptFailed, ActionAttemptFailed
  <1>4. v = "run" => AttemptFailed(s, err) = [Again(s) EXCEPT !.infra = @ + 1]
    BY DEF AttemptFailed, ActionAttemptFailed
  <1> HIDE DEF u, v
  <1>5. CASE v = "run"
    BY <1>4, <1>5, AgainOutcome
  <1>6. CASE v \in Errors
    <2>1. /\ Outcome(s.msg, [Again(s) EXCEPT !.infra = @ + 1])
          /\ Outcome(s.msg, [Again(s) EXCEPT !.infra = 0, !.user = @ + 1])
      BY <1>6, AgainOutcome
    <2>2. u # "run" => Outcome(s.msg, ActionFailed(s, u))
      BY <1>2, <1>6, ActionFailedOutcome
    <2>3. Outcome(s.msg, HandlerFailed(s, v)) /\ Outcome(s.msg, Return(v))
      BY <1>6, HandlerFailedOutcome, ReturnOutcome
    <2> QED
      BY <1>3, <2>1, <2>2, <2>3
  <1> QED
    BY <1>1, <1>5, <1>6

-----------------------------------------------------------------------------
(* The kinds of steps.  All that the invariants need to know of a step is  *)
(* how the worker's place in its transaction and the tables change.        *)

\* Worker w ends up idle or at the beginning of a transaction.
Settle(w) == \E t \in BusyType \cup {Idle} :
                /\ t.pc \in {"idle", "begin"}
                /\ work' = [work EXCEPT ![w] = t]

Move(w, pc) == work' = [work EXCEPT ![w].pc = pc]

\* Worker w moves within its transaction.
Advances(w) ==
    /\ work[w].pc \in PCs
    /\ UNCHANGED tables
    /\ \/ work[w].pc = "begin" /\ ~Claims(work[w].msg, work[w].stage) /\ Move(w, "body")
       \/ work[w].pc = "begin" /\ work[w].stage = "publish" /\ Move(w, "write")
       \/ work[w].pc = "begin" /\ Move(w, "claim")
       \/ /\ work[w].pc = "claim"
          /\ \A v \in Workers \ {w} : ~HoldsClaim(v, InboxKey(work[w].msg))
          /\ Dialect = "postgres" => InboxKey(work[w].msg) \notin inbox
          /\ Move(w, "body")
       \/ work[w].pc = "body" /\ Move(w, "write")
       \/ work[w].pc = "body" /\ Rows(work[w].msg, work[w].stage) = {} /\ Move(w, "commit")
       \/ /\ work[w].pc = "write"
          /\ \A v \in Workers \ {w}, r \in Rows(work[w].msg, work[w].stage) : ~HoldsRow(v, r)
          /\ Rows(work[w].msg, work[w].stage) \cap outbox = {}
          /\ Move(w, "commit")

\* Worker w commits.
Commits(w) == work[w].pc = "commit" /\ Apply(work[w].msg, work[w].stage) /\ Settle(w)

Cancels(w) ==
    /\ work[w].pc \in PCs
    /\ UNCHANGED tables
    /\ work' = [work EXCEPT ![w].cancelled = TRUE]

StepKind(w) == (Settle(w) /\ UNCHANGED tables) \/ Advances(w) \/ Commits(w) \/ Cancels(w)

LEMMA BusyWorker ==
    ASSUME TypeOK, NEW w \in Workers, Busy(w)
    PROVE  work[w] \in BusyType /\ work[w].pc \in PCs /\ work[w].msg \in Messages
           /\ work[w].stage \in Stages
  BY DEF TypeOK, Busy, Idle, BusyType

LEMMA ContinueSettles ==
    ASSUME TypeOK, NEW w \in Workers, NEW m \in Messages, NEW s, Outcome(m, s),
           Continue(w, m, s)
    PROVE  Settle(w) /\ acked' \subseteq Messages
  <1>1. acked' \subseteq Messages
    BY DEF TypeOK, Continue
  <1>2. CASE s.pc = "idle"
    BY <1>1, <1>2 DEF Continue, Settle, Idle
  <1>3. CASE s.pc # "idle"
    BY <1>1, <1>3 DEF Continue, Settle, Outcome
  <1> QED
    BY <1>1, <1>2, <1>3

LEMMA FailSettles ==
    ASSUME TypeOK, NEW w \in Workers, Busy(w), NEW err \in Errors, Fail(w, err)
    PROVE  Settle(w) /\ UNCHANGED tables /\ acked' \subseteq Messages
  <1>1. Outcome(work[w].msg, AttemptFailed(work[w], err))
    BY BusyWorker, AttemptFailedOutcome
  <1>2. Continue(w, work[w].msg, AttemptFailed(work[w], err))
    BY DEF Fail
  <1> QED
    BY <1>1, <1>2, BusyWorker, ContinueSettles DEF Fail

LEMMA CommitSettles ==
    ASSUME TypeOK, NEW w \in Workers, Commit(w) \/ CommitLost(w)
    PROVE  Commits(w) /\ acked' \subseteq Messages
  <1>1. Busy(w) /\ work[w].pc = "commit" /\ Apply(work[w].msg, work[w].stage)
    BY DEF Busy, Commit, CommitLost
  <1>2. work[w] \in BusyType /\ work[w].msg \in Messages
    BY <1>1, BusyWorker
  <1>3. /\ Outcome(work[w].msg, Return("none"))
        /\ Outcome(work[w].msg, AttemptFailed(work[w], "infra"))
    BY <1>2, ReturnOutcome, AttemptFailedOutcome DEF Errors
  <1>4. CASE Commit(w)
    BY <1>1, <1>2, <1>3, <1>4, ContinueSettles DEF Commit, Commits
  <1>5. CASE CommitLost(w)
    BY <1>1, <1>2, <1>3, <1>5, ContinueSettles DEF CommitLost, Commits
  <1> QED
    BY <1>4, <1>5

\* Every step of Next is of one of the kinds.
LEMMA NextKinds ==
    ASSUME TypeOK, Next
    PROVE  /\ \E w \in Workers : StepKind(w)
           /\ acked' \subseteq Messages
           /\ deliveries' \in [Messages -> Nat]
  <1> PICK w \in Workers : \/ \E m \in Messages : Deliver(w, m)
                           \/ Advance(w) \/ DatabaseError(w) \/ Cancel(w) \/ Crash(w)
    BY DEF Next
  <1> DEFINE Kind == /\ StepKind(w)
                     /\ acked' \subseteq Messages
                     /\ deliveries' \in [Messages -> Nat]
  <1> SUFFICES Kind
    OBVIOUS
  <1>0. acked \subseteq Messages /\ deliveries \in [Messages -> Nat]
    BY DEF TypeOK
  <1>1. ASSUME NEW m \in Messages, Deliver(w, m)
        PROVE  Kind
    <2> DEFINE s == [pc |-> "begin", msg |-> m, stage |-> "action", infra |-> 0,
                     user |-> 0, cause |-> "none", cancelled |-> FALSE]
    <2>1. s \in BusyType /\ s.msg = m
      BY DEF BusyType, PCs, Stages
    <2>2. Continue(w, m, EnterAction(s)) /\ UNCHANGED tables
      BY <1>1 DEF Deliver
    <2>3. deliveries' \in [Messages -> Nat]
      BY <1>0, <1>1 DEF Deliver
    <2> HIDE DEF s
    <2>4. Settle(w) /\ acked' \subseteq Messages
      BY <2>1, <2>2, EnterActionOutcome, ContinueSettles
    <2> QED
      BY <2>2, <2>3, <2>4 DEF StepKind
  <1>2. CASE BeginTx(w)
    BY <1>0, <1>2 DEF BeginTx, Goto, StepKind, Advances, Move, Claims, UserStages, PCs
  <1>3. CASE Claim(w)
    <2>1. /\ Busy(w) /\ work[w].pc = "claim"
          /\ \A v \in Workers \ {w} : ~HoldsClaim(v, InboxKey(work[w].msg))
      BY <1>3 DEF Claim, Busy
    <2>2. PICK outcome \in ClaimOutcomes(InboxKey(work[w].msg) \in inbox) :
             IF outcome = "dup" THEN Fail(w, "dup") ELSE Goto(w, "body")
      BY <1>3 DEF Claim
    <2>3. CASE outcome = "dup"
      <3>1. Fail(w, "dup") /\ "dup" \in Errors
        BY <2>2, <2>3 DEF Errors
      <3>2. deliveries' = deliveries
        BY <3>1 DEF Fail
      <3> QED
        BY <1>0, <2>1, <3>1, <3>2, FailSettles DEF StepKind
    <2>4. CASE outcome # "dup"
      <3>1. Goto(w, "body")
        BY <2>2, <2>4
      <3>2. Dialect = "postgres" => InboxKey(work[w].msg) \notin inbox
        BY <2>2, <2>4 DEF ClaimOutcomes
      <3> QED
        BY <1>0, <2>1, <3>1, <3>2 DEF Goto, StepKind, Advances, Move, PCs
    <2> QED
      BY <2>3, <2>4
  <1>4. CASE UserCode(w)
    <2>1. Busy(w) /\ work[w].pc = "body"
      BY <1>4 DEF UserCode, Busy
    <2>2. CASE Goto(w, IF TargetTopics(work[w].msg, work[w].stage) = {}
                       THEN "commit" ELSE "write")
      <3>1. TargetTopics(work[w].msg, work[w].stage) = {}
              => Rows(work[w].msg, work[w].stage) = {}
        BY DEF Rows
      <3> QED
        BY <1>0, <2>1, <2>2, <3>1 DEF Goto, StepKind, Advances, Move, PCs
    <2>3. ASSUME NEW err \in UserErrors, Fail(w, err)
          PROVE  Kind
      <3>1. err \in Errors
        BY DEF Errors
      <3>2. deliveries' = deliveries
        BY <2>3 DEF Fail
      <3> QED
        BY <1>0, <2>1, <2>3, <3>1, <3>2, FailSettles DEF StepKind
    <2> QED
      BY <1>4, <2>2, <2>3 DEF UserCode
  <1>5. CASE WriteMessages(w)
    <2> DEFINE rows == Rows(work[w].msg, work[w].stage)
    <2>1. /\ Busy(w) /\ work[w].pc = "write"
          /\ \A v \in Workers \ {w}, r \in rows : ~HoldsRow(v, r)
      BY <1>5 DEF WriteMessages, Busy
    <2>2. CASE WriteConflict(rows)
      <3>1. Fail(w, "infra") /\ "infra" \in Errors
        BY <1>5, <2>2 DEF WriteMessages, Errors
      <3>2. deliveries' = deliveries
        BY <3>1 DEF Fail
      <3> QED
        BY <1>0, <2>1, <3>1, <3>2, FailSettles DEF StepKind
    <2>3. CASE ~WriteConflict(rows)
      <3>1. Goto(w, "commit") /\ rows \cap outbox = {}
        BY <1>5, <2>3 DEF WriteMessages, WriteConflict
      <3> QED
        BY <1>0, <2>1, <3>1 DEF Goto, StepKind, Advances, Move, PCs
    <2> QED
      BY <2>2, <2>3
  <1>6. CASE Commit(w) \/ CommitLost(w)
    <2>1. deliveries' = deliveries
      BY <1>6 DEF Commit, CommitLost
    <2> QED
      BY <1>0, <1>6, <2>1, CommitSettles DEF StepKind
  <1>7. CASE DatabaseError(w)
    <2>1. Busy(w) /\ Fail(w, "infra") /\ "infra" \in Errors
      BY <1>7 DEF DatabaseError, Busy, Errors
    <2>2. deliveries' = deliveries
      BY <2>1 DEF Fail
    <2> QED
      BY <1>0, <2>1, <2>2, FailSettles DEF StepKind
  <1>8. CASE Cancel(w)
    BY <1>0, <1>8, BusyWorker DEF Cancel, StepKind, Cancels
  <1>9. CASE Crash(w)
    BY <1>0, <1>9 DEF Crash, StepKind, Settle, Idle
  <1> QED
    BY <1>1, <1>2, <1>3, <1>4, <1>5, <1>6, <1>7, <1>8, <1>9 DEF Advance

-----------------------------------------------------------------------------
(* Type correctness.                                                       *)

LEMMA MessageFacts ==
    ASSUME NEW m \in Messages
    PROVE  /\ m.saga \in Sagas /\ m.from \in StepNames \cup {NoStep}
           /\ m.step.next \subseteq Topics /\ m.step.error \subseteq Topics
  BY StepsAssumption, MessagesAssumption DEF MessageType, StepType

\* What a unit of work adds to the tables are rows of the tables.
LEMMA RowTypes ==
    ASSUME NEW m \in Messages, NEW s \in Stages
    PROVE  /\ Rows(m, s) \subseteq OutboxKeys
           /\ Claims(m, s) => InboxKey(m) \in Sagas \X StepNames
  <1>1. Claims(m, s) => InboxKey(m) \in Sagas \X StepNames
    BY MessageFacts DEF Claims, InboxKey
  <1>2. TargetTopics(m, s) \subseteq Topics
    BY MessageFacts DEF TargetTopics
  <1>3. Phase(m, s) \in {"execute", "compensate"}
    BY DEF Phase
  <1> QED
    BY <1>1, <1>2, <1>3, MessageFacts DEF Rows, OutboxKeys

LEMMA MoveType ==
    ASSUME TypeOK, NEW w \in Workers, NEW pc \in PCs, work[w].pc \in PCs, Move(w, pc)
    PROVE  work' \in [Workers -> BusyType \cup {Idle}]
  <1>1. work[w] \in BusyType
    BY BusyWorker DEF Busy, PCs
  <1>2. [work[w] EXCEPT !.pc = pc] \in BusyType
    BY <1>1 DEF BusyType
  <1> QED
    BY <1>2 DEF Move, TypeOK

LEMMA ApplyType ==
    ASSUME TypeOK, NEW m \in Messages, NEW s \in Stages, Apply(m, s)
    PROVE  /\ inbox' \subseteq Sagas \X StepNames
           /\ outbox' \subseteq OutboxKeys
           /\ done' \in [Messages -> [Stages -> Nat]]
  <1>1. inbox' \subseteq Sagas \X StepNames /\ outbox' \subseteq OutboxKeys
    BY RowTypes DEF Apply, TypeOK
  <1>2. done[m] \in [Stages -> Nat] /\ done[m][s] + 1 \in Nat
    BY DEF TypeOK
  <1>3. [done[m] EXCEPT ![s] = @ + 1] \in [Stages -> Nat]
    BY <1>2
  <1> QED
    BY <1>1, <1>3 DEF Apply, TypeOK

LEMMA TypeStep ==
    ASSUME TypeOK, [Next]_vars
    PROVE  TypeOK'
  <1>1. CASE UNCHANGED vars
    BY <1>1 DEF vars, TypeOK
  <1>2. CASE Next
    <2>1. PICK w \in Workers : StepKind(w)
      BY <1>2, NextKinds
    <2>2. acked' \subseteq Messages /\ deliveries' \in [Messages -> Nat]
      BY <1>2, NextKinds
    <2>3. CASE Settle(w) /\ UNCHANGED tables
      BY <2>2, <2>3 DEF Settle, tables, TypeOK
    <2>4. CASE Advances(w)
      <3>1. work' \in [Workers -> BusyType \cup {Idle}]
        BY <2>4, MoveType DEF Advances, PCs
      <3> QED
        BY <2>2, <2>4, <3>1 DEF Advances, tables, TypeOK
    <2>5. CASE Commits(w)
      <3>1. work[w].msg \in Messages /\ work[w].stage \in Stages
        BY <2>5, BusyWorker DEF Commits, Busy
      <3>2. work' \in [Workers -> BusyType \cup {Idle}]
        BY <2>5 DEF Commits, Settle, TypeOK
      <3> QED
        BY <2>2, <2>5, <3>1, <3>2, ApplyType DEF Commits, TypeOK
    <2>6. CASE Cancels(w)
      <3>1. work[w] \in BusyType
        BY <2>6, BusyWorker DEF Cancels, Busy, PCs
      <3>2. [work[w] EXCEPT !.cancelled = TRUE] \in BusyType
        BY <3>1 DEF BusyType
      <3> QED
        BY <2>2, <2>6, <3>2 DEF Cancels, tables, TypeOK
    <2> QED
      BY <2>1, <2>3, <2>4, <2>5, <2>6 DEF StepKind
  <1> QED
    BY <1>1, <1>2

LEMMA TypeInit == Init => TypeOK
  BY DEF Init, TypeOK

\* The tables, the records of the workers and the history stay in their types.
THEOREM TypeCorrect == Spec => []TypeOK
  BY TypeInit, TypeStep, PTL DEF Spec

-----------------------------------------------------------------------------
(* Who holds which claim and which row after a step.  A worker that holds  *)
(* one held it before, or has just found it free.                          *)

NewClaim(w, k) == /\ \A u \in Workers \ {w} : ~HoldsClaim(u, k)
                  /\ Dialect = "postgres" => k \notin inbox

NewRow(w, r) == /\ \A u \in Workers \ {w} : ~HoldsRow(u, r)
                /\ r \notin outbox

LEMMA SettleHolds ==
    ASSUME TypeOK, NEW w \in Workers, Settle(w), NEW v \in Workers
    PROVE  /\ \A k : HoldsClaim(v, k)' => v # w /\ HoldsClaim(v, k)
           /\ \A r : HoldsRow(v, r)' => v # w /\ HoldsRow(v, r)
  BY DEF TypeOK, Settle, HoldsClaim, HoldsRow

LEMMA CancelHolds ==
    ASSUME TypeOK, NEW w \in Workers, Cancels(w), NEW v \in Workers
    PROVE  /\ \A k : HoldsClaim(v, k)' => HoldsClaim(v, k)
           /\ \A r : HoldsRow(v, r)' => HoldsRow(v, r)
  <1>1. CASE v = w
    <2>1. work[w] \in BusyType
      BY BusyWorker DEF Cancels, Busy, PCs
    <2>2. work'[w] = [work[w] EXCEPT !.cancelled = TRUE]
      BY DEF Cancels, TypeOK
    <2>3. /\ work'[w].pc = work[w].pc /\ work'[w].msg = work[w].msg
          /\ work'[w].stage = work[w].stage
      BY <2>1, <2>2 DEF BusyType
    <2> QED
      BY <1>1, <2>3 DEF HoldsClaim, HoldsRow
  <1>2. CASE v # w
    BY <1>2 DEF TypeOK, Cancels, HoldsClaim, HoldsRow
  <1> QED
    BY <1>1, <1>2

LEMMA AdvanceHolds ==
    ASSUME TypeOK, NEW w \in Workers, Advances(w), NEW v \in Workers
    PROVE  /\ \A k : HoldsClaim(v, k)' => HoldsClaim(v, k) \/ (v = w /\ NewClaim(w, k))
           /\ \A r : HoldsRow(v, r)' => HoldsRow(v, r) \/ (v = w /\ NewRow(w, r))
  <1>1. CASE v # w
    BY <1>1 DEF TypeOK, Advances, Move, HoldsClaim, HoldsRow
  <1>2. CASE v = w
    <2>1. work[w] \in BusyType
      BY BusyWorker DEF Advances, Busy, PCs
    <2>2. ASSUME NEW pc \in PCs, Move(w, pc)
          PROVE  /\ work'[w].pc = pc /\ work'[w].msg = work[w].msg
                 /\ work'[w].stage = work[w].stage
      <3>1. work'[w] = [work[w] EXCEPT !.pc = pc]
        BY <2>2 DEF Move, TypeOK
      <3> QED
        BY <2>1, <3>1 DEF BusyType
    <2>3. CASE Move(w, "claim")
      BY <1>2, <2>2, <2>3 DEF HoldsClaim, HoldsRow, PCs
    <2>4. CASE Move(w, "body")
      <3>1. work'[w].pc = "body" /\ work'[w].msg = work[w].msg /\ work'[w].stage = work[w].stage
        BY <2>2, <2>4 DEF PCs
      <3>2. Claims(work[w].msg, work[w].stage) => NewClaim(w, InboxKey(work[w].msg))
        <4>1. ~Move(w, "claim") /\ ~Move(w, "write") /\ ~Move(w, "commit")
          BY <2>2, <3>1 DEF PCs
        <4> QED
          BY <4>1 DEF Advances, NewClaim
      <3> QED
        BY <1>2, <3>1, <3>2 DEF HoldsClaim, HoldsRow
    <2>5. CASE Move(w, "write")
      <3>1. work'[w].pc = "write" /\ work'[w].msg = work[w].msg /\ work'[w].stage = work[w].stage
        BY <2>2, <2>5 DEF PCs
      <3>2. work[w].pc = "body" \/ work[w].stage = "publish"
        <4>1. ~Move(w, "claim") /\ ~Move(w, "body") /\ ~Move(w, "commit")
          BY <2>2, <3>1 DEF PCs
        <4> QED
          BY <4>1 DEF Advances
      <3> QED
        BY <1>2, <3>1, <3>2 DEF HoldsClaim, HoldsRow, Claims, UserStages
    <2>6. CASE Move(w, "commit")
      <3>1. work'[w].pc = "commit" /\ work'[w].msg = work[w].msg /\ work'[w].stage = work[w].stage
        BY <2>2, <2>6 DEF PCs
      <3>2. /\ work[w].pc \in {"body", "write"}
            /\ \A r \in Rows(work[w].msg, work[w].stage) : NewRow(w, r)
        <4>1. ~Move(w, "claim") /\ ~Move(w, "body") /\ ~Move(w, "write")
          BY <2>2, <3>1 DEF PCs
        <4> QED
          BY <4>1 DEF Advances, NewRow
      <3> QED
        BY <1>2, <3>1, <3>2 DEF HoldsClaim, HoldsRow
    <2> QED
      BY <2>3, <2>4, <2>5, <2>6 DEF Advances
  <1> QED
    BY <1>1, <1>2

LEMMA ApplyDone ==
    ASSUME TypeOK, NEW m0 \in Messages, NEW s0 \in Stages, Apply(m0, s0),
           NEW m \in Messages, NEW s \in Stages
    PROVE  /\ m = m0 /\ s = s0 => done'[m][s] = done[m][s] + 1
           /\ m # m0 \/ s # s0 => done'[m][s] = done[m][s]
           /\ done[m][s] \in Nat
  BY DEF Apply, TypeOK

-----------------------------------------------------------------------------
(* The outbox key.                                                         *)

LEMMA RowInvStep ==
    ASSUME TypeOK, RowInv, [Next]_vars
    PROVE  RowInv'
  <1>1. CASE UNCHANGED vars
    BY <1>1 DEF vars, RowInv, RowsExclusive, RowsFresh, RowsRecorded,
                OutboxKeyGuardsEffects, HoldsRow
  <1>2. CASE Next
    <2>1. PICK w \in Workers : StepKind(w)
      BY <1>2, NextKinds
    <2>2. ASSUME UNCHANGED tables,
                 \A v \in Workers, r \in OutboxKeys :
                    HoldsRow(v, r)' => HoldsRow(v, r) \/ (v = w /\ NewRow(w, r))
          PROVE  RowInv'
      <3>1. RowsExclusive'
        BY <2>2 DEF RowInv, RowsExclusive, NewRow
      <3>2. RowsFresh'
        BY <2>2 DEF RowInv, RowsFresh, NewRow, tables
      <3>3. RowsRecorded' /\ OutboxKeyGuardsEffects'
        BY <2>2 DEF RowInv, RowsRecorded, OutboxKeyGuardsEffects, tables
      <3> QED
        BY <3>1, <3>2, <3>3 DEF RowInv
    <2>3. CASE Settle(w) /\ UNCHANGED tables
      BY <2>2, <2>3, SettleHolds
    <2>4. CASE Advances(w)
      BY <2>2, <2>4, AdvanceHolds DEF Advances
    <2>5. CASE Cancels(w)
      BY <2>2, <2>5, CancelHolds DEF Cancels
    <2>6. CASE Commits(w)
      <3> DEFINE m0 == work[w].msg
                 s0 == work[w].stage
      <3>1. m0 \in Messages /\ s0 \in Stages /\ Apply(m0, s0)
        BY <2>6, BusyWorker DEF Commits, Busy
      <3>2. \A r : \A v \in Workers : HoldsRow(v, r)' => v # w /\ HoldsRow(v, r)
        BY <2>6, SettleHolds DEF Commits
      <3>3. \A r \in Rows(m0, s0) : HoldsRow(w, r) /\ r \in OutboxKeys
        BY <2>6, <3>1, RowTypes DEF Commits, HoldsRow
      <3>4. Rows(m0, s0) \cap outbox = {}
        BY <3>3 DEF RowInv, RowsFresh
      <3> HIDE DEF m0, s0
      <3>5. RowsExclusive'
        BY <3>2 DEF RowInv, RowsExclusive
      <3>6. RowsFresh'
        BY <3>1, <3>2, <3>3 DEF RowInv, RowsFresh, RowsExclusive, Apply
      <3>7. RowsRecorded'
        BY <3>1, ApplyDone DEF RowInv, RowsRecorded, Apply
      <3>8. \A m \in Messages, s \in Stages :
               Rows(m, s) \cap Rows(m0, s0) # {} => done[m][s] = 0
        BY <3>1, <3>4, ApplyDone DEF RowInv, RowsRecorded
      <3>9. OutboxKeyGuardsEffects'
        <4> SUFFICES ASSUME NEW m \in Messages, NEW n \in Messages,
                            NEW s \in Stages, NEW t \in Stages,
                            Rows(m, s) \cap Rows(n, t) # {},
                            done'[m][s] > 0, done'[n][t] > 0
                     PROVE  m = n /\ s = t /\ done'[m][s] = 1
          BY DEF OutboxKeyGuardsEffects
        <4>1. CASE m = m0 /\ s = s0
          BY <3>1, <3>8, <4>1, ApplyDone
        <4>2. CASE n = m0 /\ t = s0
          BY <3>1, <3>8, <4>2, ApplyDone
        <4>3. CASE (m # m0 \/ s # s0) /\ (n # m0 \/ t # s0)
          BY <3>1, <4>3, ApplyDone DEF RowInv, OutboxKeyGuardsEffects
        <4> QED
          BY <4>1, <4>2, <4>3
      <3> QED
        BY <3>5, <3>6, <3>7, <3>9 DEF RowInv
    <2> QED
      BY <2>1, <2>3, <2>4, <2>5, <2>6 DEF StepKind
  <1> QED
    BY <1>1, <1>2

LEMMA RowInvInit == Init => RowInv
  BY DEF Init, RowInv, RowsExclusive, RowsFresh, RowsRecorded, OutboxKeyGuardsEffects,
         HoldsRow, Idle

\* Whatever the dialect, no two open transactions hold the same row of the
\* outbox, a row that is held is not committed yet, and what a committed
\* transaction wrote is there.
THEOREM RowsGuarded == Spec => []RowInv
  <1>1. Init => TypeOK /\ RowInv
    BY TypeInit, RowInvInit
  <1>2. TypeOK /\ RowInv /\ [Next]_vars => TypeOK' /\ RowInv'
    BY TypeStep, RowInvStep
  <1> QED
    BY <1>1, <1>2, PTL DEF Spec

\* So two committed transactions that write the same row are one and the same.
THEOREM OutboxKeyGuards == Spec => []OutboxKeyGuardsEffects
  <1>1. RowInv => OutboxKeyGuardsEffects
    BY DEF RowInv
  <1> QED
    BY <1>1, RowsGuarded, PTL

-----------------------------------------------------------------------------
(* The inbox.  Only Postgres detects a duplicate.                          *)

LEMMA ClaimInvStep ==
    ASSUME Dialect = "postgres", TypeOK, ClaimInv, [Next]_vars
    PROVE  ClaimInv'
  <1>1. CASE UNCHANGED vars
    BY <1>1 DEF vars, ClaimInv, ClaimsExclusive, ClaimsFresh, ClaimsRecorded,
                EffectAtMostOnce, HoldsClaim
  <1>2. CASE Next
    <2>1. PICK w \in Workers : StepKind(w)
      BY <1>2, NextKinds
    <2>2. ASSUME UNCHANGED tables,
                 \A v \in Workers, k \in Sagas \X StepNames :
                    HoldsClaim(v, k)' => HoldsClaim(v, k) \/ (v = w /\ NewClaim(w, k))
          PROVE  ClaimInv'
      <3>1. ClaimsExclusive'
        BY <2>2 DEF ClaimInv, ClaimsExclusive, NewClaim
      <3>2. ClaimsFresh'
        BY <2>2 DEF ClaimInv, ClaimsFresh, NewClaim, tables
      <3>3. ClaimsRecorded' /\ EffectAtMostOnce'
        BY <2>2 DEF ClaimInv, ClaimsRecorded, EffectAtMostOnce, tables
      <3> QED
        BY <3>1, <3>2, <3>3 DEF ClaimInv
    <2>3. CASE Settle(w) /\ UNCHANGED tables
      BY <2>2, <2>3, SettleHolds
    <2>4. CASE Advances(w)
      BY <2>2, <2>4, AdvanceHolds DEF Advances
    <2>5. CASE Cancels(w)
      BY <2>2, <2>5, CancelHolds DEF Cancels
    <2>6. CASE Commits(w)
      <3> DEFINE m0 == work[w].msg
                 s0 == work[w].stage
                 k0 == InboxKey(m0)
      <3>1. m0 \in Messages /\ s0 \in Stages /\ Apply(m0, s0)
        BY <2>6, BusyWorker DEF Commits, Busy
      <3>2. \A k : \A v \in Workers : HoldsClaim(v, k)' => v # w /\ HoldsClaim(v, k)
        BY <2>6, SettleHolds DEF Commits
      <3>3. Claims(m0, s0) => HoldsClaim(w, k0) /\ k0 \in Sagas \X StepNames
        BY <2>6, <3>1, RowTypes DEF Commits, HoldsClaim
      <3>4. Claims(m0, s0) => k0 \notin inbox
        BY <3>3 DEF ClaimInv, ClaimsFresh
      <3> HIDE DEF m0, s0
      <3>5. ClaimsExclusive'
        BY <3>2 DEF ClaimInv, ClaimsExclusive
      <3>6. ClaimsFresh'
        <4> SUFFICES ASSUME NEW v \in Workers, NEW k \in Sagas \X StepNames, HoldsClaim(v, k)'
                     PROVE  k \notin inbox'
          BY DEF ClaimsFresh
        <4>1. v # w /\ HoldsClaim(v, k) /\ k \notin inbox
          BY <3>2 DEF ClaimInv, ClaimsFresh
        <4>2. Claims(m0, s0) => k # k0
          BY <3>3, <4>1 DEF ClaimInv, ClaimsExclusive
        <4> QED
          BY <3>1, <4>1, <4>2 DEF Apply
      <3>7. ClaimsRecorded'
        BY <3>1, ApplyDone DEF ClaimInv, ClaimsRecorded, Apply
      <3>8. ASSUME NEW m \in Messages, NEW s \in UserStages, m.from # NoStep,
                   Claims(m0, s0), InboxKey(m) = k0
            PROVE  done[m][s] = 0
        <4>1. Claims(m, s) /\ s \in Stages
          BY <3>8 DEF Claims, UserStages, Stages
        <4> QED
          BY <3>1, <3>4, <3>8, <4>1, ApplyDone DEF ClaimInv, ClaimsRecorded
      <3>9. EffectAtMostOnce'
        <4> SUFFICES ASSUME NEW m \in Messages, NEW n \in Messages,
                            NEW s \in UserStages, NEW t \in UserStages,
                            m.from # NoStep, InboxKey(m) = InboxKey(n),
                            done'[m][s] > 0, done'[n][t] > 0
                     PROVE  m = n /\ s = t /\ done'[m][s] = 1
          BY DEF EffectAtMostOnce
        <4>1. n.from # NoStep /\ s \in Stages /\ t \in Stages
          BY DEF InboxKey, UserStages, Stages
        <4>2. CASE m = m0 /\ s = s0
          <5>1. Claims(m0, s0) /\ InboxKey(m) = k0 /\ InboxKey(n) = k0
            BY <4>2 DEF Claims
          <5>2. done[m][s] = 0 /\ done[n][t] = 0
            BY <3>8, <4>1, <5>1
          <5> QED
            BY <3>1, <4>1, <4>2, <5>2, ApplyDone
        <4>3. CASE n = m0 /\ t = s0
          <5>1. Claims(m0, s0) /\ InboxKey(m) = k0 /\ InboxKey(n) = k0
            BY <4>1, <4>3 DEF Claims
          <5>2. done[m][s] = 0 /\ done[n][t] = 0
            BY <3>8, <4>1, <5>1
          <5> QED
            BY <3>1, <4>1, <4>3, <5>2, ApplyDone
        <4>4. CASE (m # m0 \/ s # s0) /\ (n # m0 \/ t # s0)
          BY <3>1, <4>1, <4>4, ApplyDone DEF ClaimInv, EffectAtMostOnce
        <4> QED
          BY <4>2, <4>3, <4>4
      <3> QED
        BY <3>5, <3>6, <3>7, <3>9 DEF ClaimInv
    <2> QED
      BY <2>1, <2>3, <2>4, <2>5, <2>6 DEF StepKind
  <1> QED
    BY <1>1, <1>2

LEMMA ClaimInvInit == Init => ClaimInv
  BY DEF Init, ClaimInv, ClaimsExclusive, ClaimsFresh, ClaimsRecorded, EffectAtMostOnce,
         HoldsClaim, Idle, UserStages, Stages

\* On Postgres no two open transactions hold the same claim, a claim that is
\* held is not committed yet, and what was committed under one is in the inbox.
THEOREM ClaimsGuarded ==
    ASSUME Dialect = "postgres"
    PROVE  Spec => []ClaimInv
  <1>1. Init => TypeOK /\ ClaimInv
    BY TypeInit, ClaimInvInit
  <1>2. TypeOK /\ ClaimInv /\ [Next]_vars => TypeOK' /\ ClaimInv'
    BY TypeStep, ClaimInvStep
  <1> QED
    BY <1>1, <1>2, PTL DEF Spec

\* On Postgres at most one transaction that runs user code commits per inbox key.
THEOREM AtMostOnce ==
    ASSUME Dialect = "postgres"
    PROVE  Spec => []EffectAtMostOnce
  <1>1. ClaimInv => EffectAtMostOnce
    BY DEF ClaimInv
  <1> QED
    BY <1>1, ClaimsGuarded, PTL

-----------------------------------------------------------------------------
(* Refinement.                                                             *)

LEMMA SameUnits ==
    ASSUME NEW m, NEW s
    PROVE  /\ Abs!Stages = Stages
           /\ Abs!Claims(m, s) <=> Claims(m, s)
           /\ Abs!InboxKey(m) = InboxKey(m)
           /\ Abs!Rows(m, s) = Rows(m, s)
  <1>1. Abs!Stages = Stages /\ Abs!UserStages = UserStages
    BY DEF Stages, Abs!Stages, UserStages, Abs!UserStages
  <1>2. Abs!TargetTopics(m, s) = TargetTopics(m, s)
    BY <1>1 DEF TargetTopics, Abs!TargetTopics
  <1>3. Abs!Phase(m, s) = Phase(m, s)
    BY <1>1 DEF Phase, Abs!Phase
  <1>4. Abs!Rows(m, s) = Rows(m, s)
    BY <1>2, <1>3 DEF Rows, Abs!Rows
  <1> QED
    BY <1>1, <1>4 DEF Claims, Abs!Claims, InboxKey, Abs!InboxKey

LEMMA AtomicStepRefined ==
    ASSUME TypeOK, RowInv, ClaimInv, [Next]_vars
    PROVE  [Abs!Next]_(Abs!tables)
  <1>1. CASE UNCHANGED vars
    BY <1>1 DEF vars, Abs!tables
  <1>2. CASE Next
    <2>1. PICK w \in Workers : StepKind(w)
      BY <1>2, NextKinds
    <2>2. CASE UNCHANGED tables
      BY <2>2 DEF tables, Abs!tables
    <2>3. CASE Commits(w)
      <3> DEFINE m == work[w].msg
                 s == work[w].stage
      <3>1. m \in Messages /\ s \in Stages /\ Apply(m, s)
        BY <2>3, BusyWorker DEF Commits, Busy
      <3>2. Rows(m, s) \cap outbox = {}
        BY <2>3, <3>1, RowTypes DEF Commits, HoldsRow, RowInv, RowsFresh
      <3>3. Claims(m, s) => InboxKey(m) \notin inbox
        BY <2>3, <3>1, RowTypes DEF Commits, HoldsClaim, ClaimInv, ClaimsFresh
      <3> HIDE DEF m, s
      <3>4. Abs!Process(m, s)
        BY <3>1, <3>2, <3>3, SameUnits DEF Apply, Abs!Process
      <3> QED
        BY <3>1, <3>4, SameUnits DEF Abs!Next
    <2> QED
      BY <2>1, <2>2, <2>3 DEF StepKind, Advances, Cancels
  <1> QED
    BY <1>1, <1>2

\* On Postgres the executor implements the atomic step.
THEOREM Refinement ==
    ASSUME Dialect = "postgres"
    PROVE  Spec => ImplementsAtomicStep
  <1>1. Init => TypeOK /\ RowInv /\ ClaimInv /\ Abs!Init
    BY TypeInit, RowInvInit, ClaimInvInit, SameUnits DEF Init, Abs!Init
  <1>2. TypeOK /\ RowInv /\ ClaimInv /\ [Next]_vars => TypeOK' /\ RowInv' /\ ClaimInv'
    BY TypeStep, RowInvStep, ClaimInvStep
  <1>3. TypeOK /\ RowInv /\ ClaimInv /\ [Next]_vars => [Abs!Next]_(Abs!tables)
    BY AtomicStepRefined
  <1> QED
    BY <1>1, <1>2, <1>3, PTL DEF Spec, ImplementsAtomicStep, Abs!Spec

=============================================================================
