----------------------- MODULE ExecutorDeliveryProofs -----------------------
(***************************************************************************)
(* Proofs about what a handler call of Executor ends with, for every set   *)
(* of workers, messages and steps, every retry policy and both dialects:   *)
(* an acknowledged message has left something durable, and a duplicate     *)
(* leads to a failure event only where the step has an OnError handler.    *)
(***************************************************************************)
EXTENDS ExecutorProofs

-----------------------------------------------------------------------------
(* The retry loops never make up an ErrDuplicate.                          *)

LEMMA EnterLoopErrors ==
    ASSUME NEW policy, NEW cancelled
    PROVE  EnterLoop(policy, cancelled) \in {"run", "ctx", "exhausted"}
  BY DEF EnterLoop, LoopHead

LEMMA DuplicatePassedOn ==
    ASSUME NEW policy, NEW retries, NEW err \in Errors, NEW cancelled,
           AfterFailure(policy, retries, err, cancelled) = "dup"
    PROVE  err = "dup"
  BY DEF AfterFailure, LoopHead, Errors

-----------------------------------------------------------------------------
(* What holds of the record of a busy worker: which stages it can be in    *)
(* for its message, that it claims only what has a sender, and that a      *)
(* failure event follows a duplicate only if OnError found it.             *)

DuplicateInHandler(m) == HasHandler(m) /\ m.from # NoStep

Legal(s) ==
    /\ s.stage = "handler" => HasHandler(s.msg)
    /\ s.stage = "publish" => s.msg.type = "execute" /\ s.msg.step.error # {}
    /\ s.pc = "claim" => Claims(s.msg, s.stage)
    /\ s.stage = "publish" /\ s.cause = "dup" => DuplicateInHandler(s.msg)

\* The failure of an execution that nobody is told about.
Unannounced(m) == m.type = "execute" /\ m.step.error = {}

\* Record t continues the handling of m: it is legal, or ends it; and it is an
\* acknowledgement only if a duplicate was found or the failure is unannounced.
Good(m, duplicate, t) ==
    IF t.pc = "idle" THEN Acks(t.err) => duplicate \/ Unannounced(m) ELSE Legal(t)

LEMMA ReturnGood ==
    ASSUME NEW m, NEW err \in Errors
    PROVE  Good(m, err = "dup", Return(err))
  BY DEF Good, Return, Acks, Errors, UserErrors

LEMMA LoopReturnGood ==
    ASSUME NEW m, NEW err \in {"ctx", "exhausted"}, NEW d
    PROVE  Good(m, d, Return(err))
  BY DEF Good, Return, Acks

LEMMA AttemptFields ==
    ASSUME NEW s \in BusyType, NEW stage
    PROVE  /\ Attempt(s, stage).pc = "begin"
           /\ Attempt(s, stage).stage = stage
           /\ Attempt(s, stage).msg = s.msg
           /\ Attempt(s, stage).cause = s.cause
  BY DEF Attempt, BusyType

LEMMA CauseFields ==
    ASSUME NEW s \in BusyType, NEW err \in Errors
    PROVE  /\ [s EXCEPT !.cause = err] \in BusyType
           /\ [s EXCEPT !.cause = err].msg = s.msg
           /\ [s EXCEPT !.cause = err].cause = err
  BY DEF BusyType

LEMMA EnterPublishGood ==
    ASSUME NEW s \in BusyType, NEW d,
           s.msg.type = "execute",
           s.cause = "dup" => DuplicateInHandler(s.msg)
    PROVE  Good(s.msg, d, EnterPublish(s))
  <1> DEFINE v == EnterLoop(InfraPolicy, s.cancelled)
  <1>1. CASE s.msg.step.error = {}
    BY <1>1 DEF EnterPublish, Good, Return, Unannounced
  <1>2. CASE s.msg.step.error # {} /\ v = "run"
    <2>1. EnterPublish(s) = Attempt(s, "publish")
      BY <1>2 DEF EnterPublish
    <2> QED
      BY <1>2, <2>1, AttemptFields DEF Good, Legal
  <1>3. CASE s.msg.step.error # {} /\ v # "run"
    <2>1. EnterPublish(s) = Return(v)
      BY <1>3 DEF EnterPublish
    <2>2. v \in {"ctx", "exhausted"}
      BY <1>3, EnterLoopErrors
    <2> QED
      BY <2>1, <2>2, LoopReturnGood
  <1> QED
    BY <1>1, <1>2, <1>3

LEMMA HandlerFailedGood ==
    ASSUME NEW s \in BusyType, NEW err \in Errors,
           err = "dup" => DuplicateInHandler(s.msg)
    PROVE  Good(s.msg, err = "dup", HandlerFailed(s, err))
  <1> DEFINE t == [s EXCEPT !.cause = err]
  <1>1. t \in BusyType /\ t.msg = s.msg /\ t.cause = err
    BY CauseFields
  <1>2. HandlerFailed(s, err) = IF s.msg.type = "execute" THEN EnterPublish(t) ELSE Return(err)
    BY DEF HandlerFailed
  <1> HIDE DEF t
  <1>3. CASE s.msg.type = "execute"
    <2>1. Good(t.msg, err = "dup", EnterPublish(t))
      BY <1>1, <1>3, EnterPublishGood
    <2> QED
      BY <1>1, <1>2, <1>3, <2>1
  <1>4. CASE s.msg.type # "execute"
    BY <1>2, <1>4, ReturnGood
  <1> QED
    BY <1>3, <1>4

LEMMA EnterHandlerGood ==
    ASSUME NEW s \in BusyType, NEW d, HasHandler(s.msg)
    PROVE  Good(s.msg, d, EnterHandler(s))
  <1> DEFINE v == EnterLoop(InfraPolicy, s.cancelled)
  <1>1. EnterHandler(s) = IF v = "run" THEN Attempt(s, "handler") ELSE HandlerFailed(s, v)
    BY DEF EnterHandler
  <1>2. v \in {"run", "ctx", "exhausted"}
    BY EnterLoopErrors
  <1> HIDE DEF v
  <1>3. CASE v = "run"
    BY <1>1, <1>3, AttemptFields DEF Good, Legal
  <1>4. CASE v # "run"
    <2>1. v \in Errors /\ v # "dup"
      BY <1>2, <1>4 DEF Errors
    <2>2. Good(s.msg, v = "dup", HandlerFailed(s, v))
      BY <2>1, HandlerFailedGood
    <2> QED
      BY <1>1, <1>4, <2>1, <2>2 DEF Good
  <1> QED
    BY <1>3, <1>4

LEMMA ActionFailedGood ==
    ASSUME NEW s \in BusyType, NEW err \in Errors
    PROVE  Good(s.msg, err = "dup", ActionFailed(s, err))
  <1> DEFINE t == [s EXCEPT !.cause = err]
  <1>1. t \in BusyType /\ t.msg = s.msg /\ t.cause = err
    BY CauseFields
  <1>2. ActionFailed(s, err) =
          IF HasHandler(s.msg) THEN EnterHandler(t)
          ELSE IF s.msg.type = "failed" THEN Return(err)
          ELSE IF err = "dup" THEN Return("none")
          ELSE EnterPublish(t)
    BY DEF ActionFailed
  <1> HIDE DEF t
  <1>3. CASE HasHandler(s.msg)
    <2>1. Good(t.msg, err = "dup", EnterHandler(t))
      BY <1>1, <1>3, EnterHandlerGood
    <2> QED
      BY <1>1, <1>2, <1>3, <2>1
  <1>4. CASE ~HasHandler(s.msg) /\ s.msg.type = "failed"
    BY <1>2, <1>4, ReturnGood
  <1>5. CASE ~HasHandler(s.msg) /\ s.msg.type # "failed" /\ err = "dup"
    BY <1>2, <1>5 DEF Good, Return
  <1>6. CASE ~HasHandler(s.msg) /\ s.msg.type # "failed" /\ err # "dup"
    <2>1. s.msg.type = "execute"
      BY <1>6, MessagesAssumption DEF BusyType, MessageType
    <2>2. Good(t.msg, err = "dup", EnterPublish(t))
      BY <1>1, <1>6, <2>1, EnterPublishGood
    <2> QED
      BY <1>1, <1>2, <1>6, <2>2
  <1> QED
    BY <1>3, <1>4, <1>5, <1>6

LEMMA EnterActionGood ==
    ASSUME NEW s \in BusyType
    PROVE  Good(s.msg, FALSE, EnterAction(s))
  <1> DEFINE u == EnterLoop(s.msg.step.retry, s.cancelled)
             v == IF u = "run" THEN EnterLoop(InfraPolicy, s.cancelled) ELSE u
  <1>1. v \in {"run", "ctx", "exhausted"}
    BY EnterLoopErrors
  <1>2. EnterAction(s) = IF v = "run" THEN Attempt(s, "action") ELSE ActionFailed(s, v)
    BY DEF EnterAction
  <1> HIDE DEF v
  <1>3. CASE v = "run"
    BY <1>2, <1>3, AttemptFields DEF Good, Legal
  <1>4. CASE v # "run"
    <2>1. v \in Errors /\ v # "dup"
      BY <1>1, <1>4 DEF Errors
    <2>2. Good(s.msg, v = "dup", ActionFailed(s, v))
      BY <2>1, ActionFailedGood
    <2> QED
      BY <1>2, <1>4, <2>1, <2>2 DEF Good
  <1> QED
    BY <1>3, <1>4

\* The next attempt is for the same message, in the same stage.
LEMMA AgainGood ==
    ASSUME NEW s \in BusyType, NEW d, Legal(s)
    PROVE  /\ Good(s.msg, d, [Again(s) EXCEPT !.infra = @ + 1])
           /\ Good(s.msg, d, [Again(s) EXCEPT !.infra = 0, !.user = @ + 1])
  <1> DEFINE t == Again(s)
  <1>1. /\ t \in BusyType /\ t.pc = "begin" /\ t.msg = s.msg /\ t.stage = s.stage
        /\ t.cause = s.cause
    BY DEF Again, BusyType, PCs
  <1> HIDE DEF t
  <1>2. ASSUME NEW a, NEW b
        PROVE  /\ Good(s.msg, d, [t EXCEPT !.infra = a])
               /\ Good(s.msg, d, [t EXCEPT !.infra = a, !.user = b])
    <2>1. ASSUME NEW c, c.pc = "begin", c.msg = s.msg, c.stage = s.stage, c.cause = s.cause
          PROVE  Good(s.msg, d, c)
      BY <2>1 DEF Good, Legal
    <2>2. /\ [t EXCEPT !.infra = a].pc = "begin"
          /\ [t EXCEPT !.infra = a].msg = s.msg
          /\ [t EXCEPT !.infra = a].stage = s.stage
          /\ [t EXCEPT !.infra = a].cause = s.cause
      BY <1>1 DEF BusyType
    <2>3. /\ [t EXCEPT !.infra = a, !.user = b].pc = "begin"
          /\ [t EXCEPT !.infra = a, !.user = b].msg = s.msg
          /\ [t EXCEPT !.infra = a, !.user = b].stage = s.stage
          /\ [t EXCEPT !.infra = a, !.user = b].cause = s.cause
      BY <1>1 DEF BusyType
    <2> QED
      BY <2>1, <2>2, <2>3
  <1>3. Good(s.msg, d, [t EXCEPT !.infra = t.infra + 1])
    BY <1>2
  <1>4. Good(s.msg, d, [t EXCEPT !.infra = 0, !.user = t.user + 1])
    BY <1>2
  <1> QED
    BY <1>3, <1>4 DEF t

LEMMA AttemptFailedGood ==
    ASSUME NEW s \in BusyType, NEW err \in Errors, Legal(s),
           err = "dup" => s.msg.from # NoStep
    PROVE  Good(s.msg, err = "dup", AttemptFailed(s, err))
  <1> DEFINE v == AfterFailure(InfraPolicy, s.infra, err, s.cancelled)
             u == AfterFailure(s.msg.step.retry, s.user, v, s.cancelled)
  <1>1. v \in Errors \cup {"run"} /\ (v = "dup" => err = "dup")
    BY AfterFailureType, DuplicatePassedOn
  <1>2. v \in Errors => u \in Errors \cup {"run"} /\ (u = "dup" => v = "dup")
    BY AfterFailureType, DuplicatePassedOn
  <1>3. AttemptFailed(s, err) =
          IF v = "run" THEN [Again(s) EXCEPT !.infra = @ + 1]
          ELSE IF s.stage = "action"
          THEN IF u = "run" THEN [Again(s) EXCEPT !.infra = 0, !.user = @ + 1]
               ELSE ActionFailed(s, u)
          ELSE IF s.stage = "handler" THEN HandlerFailed(s, v)
          ELSE Return(v)
    BY DEF AttemptFailed, ActionAttemptFailed
  <1> HIDE DEF u, v
  <1>4. CASE v = "run"
    BY <1>3, <1>4, AgainGood
  <1>5. CASE v # "run" /\ s.stage = "action" /\ u = "run"
    BY <1>3, <1>5, AgainGood
  <1>6. CASE v # "run" /\ s.stage = "action" /\ u # "run"
    <2>1. u \in Errors /\ (u = "dup" => err = "dup")
      BY <1>1, <1>2, <1>6
    <2>2. Good(s.msg, u = "dup", ActionFailed(s, u))
      BY <2>1, ActionFailedGood
    <2> QED
      BY <1>3, <1>6, <2>1, <2>2 DEF Good
  <1>7. CASE v # "run" /\ s.stage = "handler"
    <2>1. v \in Errors /\ (v = "dup" => err = "dup" /\ DuplicateInHandler(s.msg))
      BY <1>1, <1>7 DEF Legal, DuplicateInHandler
    <2>2. Good(s.msg, v = "dup", HandlerFailed(s, v))
      BY <2>1, HandlerFailedGood
    <2> QED
      BY <1>3, <1>7, <2>1, <2>2 DEF Good
  <1>8. CASE v # "run" /\ s.stage \notin {"action", "handler"}
    <2>1. v \in Errors
      BY <1>1, <1>8
    <2>2. Good(s.msg, v = "dup", Return(v))
      BY <2>1, ReturnGood
    <2> QED
      BY <1>1, <1>3, <1>8, <2>2 DEF Good
  <1> QED
    BY <1>4, <1>5, <1>6, <1>7, <1>8

-----------------------------------------------------------------------------
(* The steps.                                                              *)

LegalInv == \A w \in Workers : Busy(w) => Legal(work[w])

\* What AckedIsDurable says of one message.
Durable(m) == \/ m.from # NoStep /\ InboxKey(m) \in inbox
              \/ \E s \in Stages : done[m][s] > 0
              \/ Unannounced(m)

\* The message of worker w is acknowledged, or nothing is.
MayAck(m) == acked' \subseteq acked \cup {m}

LEMMA ContinueGood ==
    ASSUME TypeOK, LegalInv, NEW w \in Workers, NEW m, NEW d, NEW t, Good(m, d, t),
           Continue(w, m, t)
    PROVE  /\ LegalInv'
           /\ acked' = acked \/ (MayAck(m) /\ (d \/ Unannounced(m)))
  <1>1. ASSUME NEW v \in Workers \ {w}
        PROVE  work'[v] = work[v]
    BY DEF Continue, TypeOK
  <1>2. CASE t.pc = "idle"
    <2>1. work'[w] = Idle
      BY <1>2 DEF Continue, TypeOK
    <2>2. LegalInv'
      BY <1>1, <2>1 DEF LegalInv, Busy, Idle
    <2> QED
      BY <1>2, <2>2 DEF Continue, Good, MayAck
  <1>3. CASE t.pc # "idle"
    <2>1. work'[w] = t /\ Legal(t) /\ acked' = acked
      BY <1>3 DEF Continue, TypeOK, Good
    <2> QED
      BY <1>1, <2>1 DEF LegalInv, Busy
  <1> QED
    BY <1>2, <1>3

LEMMA FailGood ==
    ASSUME TypeOK, LegalInv, NEW w \in Workers, Busy(w), NEW err \in Errors,
           err = "dup" => work[w].msg.from # NoStep,
           Continue(w, work[w].msg, AttemptFailed(work[w], err))
    PROVE  /\ LegalInv'
           /\ \/ acked' = acked
              \/ MayAck(work[w].msg) /\ (err = "dup" \/ Unannounced(work[w].msg))
  <1>1. Good(work[w].msg, err = "dup", AttemptFailed(work[w], err))
    BY BusyWorker, AttemptFailedGood DEF LegalInv
  <1> QED
    BY <1>1, ContinueGood

LEMMA GotoGood ==
    ASSUME TypeOK, LegalInv, NEW w \in Workers, NEW pc \in PCs, Busy(w), Goto(w, pc),
           pc = "claim" => Claims(work[w].msg, work[w].stage)
    PROVE  LegalInv' /\ UNCHANGED <<acked, tables>>
  <1>1. work[w] \in BusyType /\ work' = [work EXCEPT ![w].pc = pc]
    BY BusyWorker DEF Goto
  <1> DEFINE t == [work[w] EXCEPT !.pc = pc]
  <1>2. /\ t.pc = pc /\ t.msg = work[w].msg /\ t.stage = work[w].stage
        /\ t.cause = work[w].cause
    BY <1>1 DEF BusyType
  <1>3. work'[w] = t /\ \A v \in Workers \ {w} : work'[v] = work[v]
    BY <1>1 DEF TypeOK
  <1> HIDE DEF t
  <1>4. Legal(t)
    BY <1>2 DEF LegalInv, Legal
  <1> QED
    BY <1>3, <1>4 DEF LegalInv, Busy, Goto

\* A step keeps the records legal, and acknowledges a message that is durable.
StepGood == LegalInv' /\ \A m \in acked' \ acked : Durable(m)'

LEMMA FailStepGood ==
    ASSUME TypeOK, LegalInv, NEW w \in Workers, Busy(w), NEW err \in Errors, Fail(w, err),
           err = "dup" => /\ work[w].msg.from # NoStep
                          /\ InboxKey(work[w].msg) \in inbox
    PROVE  StepGood
  <1>1. Continue(w, work[w].msg, AttemptFailed(work[w], err)) /\ inbox' = inbox
    BY DEF Fail, tables
  <1>2. /\ LegalInv'
        /\ \/ acked' = acked
           \/ MayAck(work[w].msg) /\ (err = "dup" \/ Unannounced(work[w].msg))
    BY <1>1, FailGood
  <1> QED
    BY <1>1, <1>2 DEF StepGood, MayAck, Durable

LEMMA ClaimGood ==
    ASSUME TypeOK, LegalInv, NEW w \in Workers, Claim(w)
    PROVE  StepGood
  <1> DEFINE k == InboxKey(work[w].msg)
  <1>1. PICK outcome \in ClaimOutcomes(k \in inbox) :
           IF outcome = "dup" THEN Fail(w, "dup") ELSE Goto(w, "body")
    BY DEF Claim
  <1>2. Busy(w) /\ work[w].pc = "claim"
    BY DEF Claim, Busy
  <1>3. CASE outcome = "dup"
    <2>1. k \in inbox
      BY <1>3 DEF ClaimOutcomes, AffectedRows
    <2>2. work[w].msg.from # NoStep
      BY <1>2 DEF LegalInv, Legal, Claims
    <2> QED
      BY <1>1, <1>2, <1>3, <2>1, <2>2, FailStepGood DEF Errors
  <1>4. CASE outcome # "dup"
    BY <1>1, <1>2, <1>4, GotoGood DEF StepGood, PCs
  <1> QED
    BY <1>3, <1>4

LEMMA CommitGood ==
    ASSUME TypeOK, LegalInv, NEW w \in Workers, Commit(w) \/ CommitLost(w)
    PROVE  StepGood
  <1>1. Busy(w)
    BY DEF Commit, CommitLost, Busy
  <1> PICK m \in Messages, s \in Stages : m = work[w].msg /\ s = work[w].stage
    BY <1>1, BusyWorker
  <1>2. Apply(m, s)
    BY DEF Commit, CommitLost
  <1>3. Durable(m)'
    <2>1. done'[m][s] > 0
      BY <1>2, ApplyDone
    <2> QED
      BY <2>1 DEF Durable
  <1>4. CASE Commit(w)
    <2>1. Good(m, TRUE, Return("none"))
      BY DEF Good, Return
    <2>2. Continue(w, m, Return("none"))
      BY <1>4 DEF Commit
    <2> QED
      BY <1>3, <2>1, <2>2, ContinueGood DEF StepGood, MayAck
  <1>5. CASE CommitLost(w)
    <2>1. Continue(w, m, AttemptFailed(work[w], "infra"))
      BY <1>5 DEF CommitLost
    <2>2. LegalInv' /\ (acked' = acked \/ MayAck(m))
      BY <1>1, <2>1, FailGood DEF Errors
    <2> QED
      BY <1>3, <2>2 DEF StepGood, MayAck
  <1> QED
    BY <1>4, <1>5

LEMMA NextGood ==
    ASSUME TypeOK, LegalInv, Next
    PROVE  StepGood
  <1> PICK w \in Workers : \/ \E m \in Messages : Deliver(w, m)
                           \/ Advance(w) \/ DatabaseError(w) \/ Cancel(w) \/ Crash(w)
    BY DEF Next
  <1>1. ASSUME NEW m \in Messages, Deliver(w, m)
        PROVE  StepGood
    <2> DEFINE s == [pc |-> "begin", msg |-> m, stage |-> "action", infra |-> 0,
                     user |-> 0, cause |-> "none", cancelled |-> FALSE]
    <2>1. s \in BusyType /\ s.msg = m
      BY DEF BusyType, PCs, Stages
    <2>2. Continue(w, m, EnterAction(s))
      BY <1>1 DEF Deliver
    <2> HIDE DEF s
    <2>3. LegalInv' /\ (acked' = acked \/ (MayAck(m) /\ Unannounced(m)))
      BY <2>1, <2>2, EnterActionGood, ContinueGood
    <2> QED
      BY <2>3 DEF StepGood, MayAck, Durable
  <1>2. CASE BeginTx(w)
    <2>1. Busy(w)
      BY <1>2 DEF BeginTx, Busy
    <2>2. CASE work[w].stage = "publish"
      BY <1>2, <2>1, <2>2, GotoGood DEF BeginTx, StepGood, PCs
    <2>3. CASE work[w].stage # "publish" /\ Claims(work[w].msg, work[w].stage)
      BY <1>2, <2>1, <2>3, GotoGood DEF BeginTx, StepGood, PCs
    <2>4. CASE work[w].stage # "publish" /\ ~Claims(work[w].msg, work[w].stage)
      BY <1>2, <2>1, <2>4, GotoGood DEF BeginTx, StepGood, PCs
    <2> QED
      BY <2>2, <2>3, <2>4
  <1>3. CASE UserCode(w)
    <2>1. Busy(w)
      BY <1>3 DEF UserCode, Busy
    <2>2. ASSUME NEW pc \in {"commit", "write"}, Goto(w, pc)
          PROVE  StepGood
      BY <2>1, <2>2, GotoGood DEF StepGood, PCs
    <2>3. ASSUME NEW err \in UserErrors, Fail(w, err)
          PROVE  StepGood
      BY <2>1, <2>3, FailStepGood DEF UserErrors, Errors
    <2> QED
      BY <1>3, <2>2, <2>3 DEF UserCode
  <1>4. CASE WriteMessages(w) \/ DatabaseError(w)
    <2>1. Busy(w)
      BY <1>4 DEF WriteMessages, DatabaseError, Busy
    <2>2. CASE Fail(w, "infra")
      BY <2>1, <2>2, FailStepGood DEF Errors
    <2>3. CASE Goto(w, "commit")
      BY <2>1, <2>3, GotoGood DEF StepGood, PCs
    <2> QED
      BY <1>4, <2>2, <2>3 DEF WriteMessages, DatabaseError
  <1>5. CASE Cancel(w)
    <2>1. work[w] \in BusyType /\ work' = [work EXCEPT ![w].cancelled = TRUE] /\ acked' = acked
      BY <1>5, BusyWorker DEF Cancel
    <2> DEFINE t == [work[w] EXCEPT !.cancelled = TRUE]
    <2>2. /\ t.pc = work[w].pc /\ t.msg = work[w].msg /\ t.stage = work[w].stage
          /\ t.cause = work[w].cause
      BY <2>1 DEF BusyType
    <2>3. work'[w] = t /\ \A v \in Workers \ {w} : work'[v] = work[v]
      BY <2>1 DEF TypeOK
    <2> HIDE DEF t
    <2>4. Busy(w) => Legal(t)
      BY <2>2 DEF LegalInv, Legal
    <2> QED
      BY <1>5, <2>1, <2>3, <2>4 DEF LegalInv, Busy, StepGood, Cancel
  <1>6. CASE Crash(w)
    BY <1>6 DEF Crash, LegalInv, Busy, Idle, StepGood, TypeOK
  <1> QED
    BY <1>1, <1>2, <1>3, <1>4, <1>5, <1>6, ClaimGood, CommitGood DEF Advance

LEMMA LegalInvStep ==
    ASSUME TypeOK, LegalInv, [Next]_vars
    PROVE  LegalInv'
  <1>1. CASE UNCHANGED vars
    BY <1>1 DEF vars, LegalInv, Busy
  <1> QED
    BY <1>1, NextGood DEF StepGood

LEMMA LegalInvInit == Init => LegalInv
  BY DEF Init, LegalInv, Busy, Idle

-----------------------------------------------------------------------------
(* Acknowledgements.                                                       *)

\* The inbox and the history only grow.
LEMMA DurableForGood ==
    ASSUME TypeOK, [Next]_vars, NEW m \in Messages, Durable(m)
    PROVE  Durable(m)'
  <1>1. CASE UNCHANGED tables
    BY <1>1 DEF tables, Durable
  <1>2. ASSUME NEW w \in Workers, Commits(w)
        PROVE  Durable(m)'
    <2>1. work[w].msg \in Messages /\ work[w].stage \in Stages
          /\ Apply(work[w].msg, work[w].stage)
      BY <1>2, BusyWorker DEF Commits, Busy
    <2>2. \A s \in Stages : done[m][s] > 0 => done'[m][s] > 0
      BY <2>1, ApplyDone
    <2> QED
      BY <2>1, <2>2 DEF Durable, Apply
  <1>3. UNCHANGED tables \/ \E w \in Workers : Commits(w)
    <2>1. CASE UNCHANGED vars
      BY <2>1 DEF vars, tables
    <2>2. CASE Next
      BY <2>2, NextKinds DEF StepKind, Advances, Cancels
    <2> QED
      BY <2>1, <2>2
  <1> QED
    BY <1>1, <1>2, <1>3

LEMMA AckedStep ==
    ASSUME TypeOK, TypeOK', LegalInv, AckedIsDurable, [Next]_vars
    PROVE  AckedIsDurable'
  <1>1. AckedIsDurable <=> \A m \in acked : Durable(m)
    BY DEF AckedIsDurable, Durable, Unannounced
  <1>2. \A m \in acked : m \in Messages
    BY DEF TypeOK
  <1>3. \A m \in acked : Durable(m)'
    BY <1>1, <1>2, DurableForGood
  <1>4. \A m \in acked' \ acked : Durable(m)'
    <2>1. CASE UNCHANGED vars
      BY <2>1 DEF vars
    <2> QED
      BY <2>1, NextGood DEF StepGood
  <1>5. \A m \in acked' : Durable(m)'
    BY <1>3, <1>4
  <1> QED
    BY <1>5 DEF AckedIsDurable, Durable, Unannounced

\* Whatever the dialect and the retry policies: a message the broker may forget
\* has left a claim or a committed transaction, unless it is the execution of a
\* step whose failure nobody is told about.
THEOREM AcknowledgedIsDurable == Spec => []AckedIsDurable
  <1>1. Init => TypeOK /\ LegalInv /\ AckedIsDurable
    BY TypeInit, LegalInvInit DEF Init, AckedIsDurable
  <1>2. TypeOK /\ LegalInv /\ AckedIsDurable /\ [Next]_vars
          => TypeOK' /\ LegalInv' /\ AckedIsDurable'
    BY TypeStep, LegalInvStep, AckedStep
  <1> QED
    BY <1>1, <1>2, PTL DEF Spec

-----------------------------------------------------------------------------
(* Failure events after a duplicate.                                       *)

\* A claimed message whose step has an OnError handler.
DuplicateFailsOnlyWithHandler ==
    \A w \in Workers :
        Busy(w) /\ work[w].stage = "publish" /\ work[w].cause = "dup"
            => work[w].msg.from # NoStep /\ HasHandler(work[w].msg)

\* A duplicate leads to a failure event only by way of an OnError handler.
THEOREM DuplicateFailsInHandler == Spec => []DuplicateFailsOnlyWithHandler
  <1>1. LegalInv => DuplicateFailsOnlyWithHandler
    BY DEF LegalInv, Legal, DuplicateInHandler, DuplicateFailsOnlyWithHandler
  <1> QED
    BY <1>1, TypeInit, TypeStep, LegalInvInit, LegalInvStep, PTL DEF Spec

\* So it never does in a service whose steps have no OnError handler, except
\* for those it gives to StartSaga.
THEOREM NoFailureForDuplicate ==
    ASSUME \A m \in Messages : m.type = "execute" /\ m.from # NoStep => ~m.step.onError
    PROVE  Spec => []NoFailureEventForDuplicate
  <1>1. TypeOK /\ LegalInv => NoFailureEventForDuplicate
    <2> SUFFICES ASSUME TypeOK, LegalInv, NEW w \in Workers, Busy(w),
                        work[w].stage = "publish"
                 PROVE  work[w].cause # "dup"
      BY DEF NoFailureEventForDuplicate
    <2>1. work[w].msg \in Messages /\ Legal(work[w])
      BY BusyWorker DEF LegalInv
    <2> QED
      BY <2>1 DEF Legal, DuplicateInHandler, HasHandler
  <1> QED
    BY <1>1, TypeInit, TypeStep, LegalInvInit, LegalInvStep, PTL DEF Spec

=============================================================================
