------------------------------ MODULE SagaStep ------------------------------
(***************************************************************************)
(* Messages, steps and the rows a step leaves in the service database.     *)
(*                                                                         *)
(* A step is a record (step/step.go, step/routing.go): its name, its       *)
(* routing (the topics of a success and of an error), whether an OnError   *)
(* and an OnCompensateError handler is set, and its RetryPolicy.  A        *)
(* message carries the saga it belongs to, the step it comes from          *)
(* (NoStep for a message given to StartSaga: FromStep is empty), its type, *)
(* and here also the step that is registered on the topic it arrives at.   *)
(* Payload and trace context are left out: no property is about them.      *)
(***************************************************************************)
EXTENDS Naturals, FiniteSets, Retrier

CONSTANTS
    Sagas,       \* saga ids (UUIDs, so always parseable)
    StepNames,   \* names of steps
    Topics,      \* broker topics
    NoStep,      \* the empty FromStep of a message that starts a saga
    Steps        \* the steps registered with Register or given to StartSaga

StepType == [name: StepNames, next: SUBSET Topics, error: SUBSET Topics,
             onError: BOOLEAN, onCompensateError: BOOLEAN, retry: Policies]

MessageType == [saga: Sagas, from: StepNames \cup {NoStep},
                type: {"execute", "failed"}, step: Steps]

ASSUME StepsAssumption == /\ NoStep \notin StepNames
                          /\ NoPolicy \notin Nat
                          /\ Steps \subseteq StepType

-----------------------------------------------------------------------------
(* The three units of work of a delivery, each a transaction of its own.   *)
Stages == {"action", "handler", "publish"}

\* Stages that run user code: Execute or Compensate, OnError or
\* OnCompensateError.
UserStages == {"action", "handler"}

HasHandler(m) == IF m.type = "execute" THEN m.step.onError ELSE m.step.onCompensateError

\* inbox primary key of a message
InboxKeyMutSwapped(m) == <<m.from, m.saga>>
InboxKeyMutSagaOnly(m) == <<m.saga, m.saga>>
InboxKey(m) == <<m.saga, m.from>>

\* Only a message that names its sender is claimed.
Claims(m, stage) == stage \in UserStages /\ m.from # NoStep

\* Topics and phase (saga_type) of the events a stage writes.  A failure
\* event goes to ErrorTopics in the compensate phase, whatever it follows.
TargetTopicsMutForward(m, stage) == m.step.next
TargetTopics(m, stage) ==
    IF stage \in UserStages /\ m.type = "execute" THEN m.step.next ELSE m.step.error

Phase(m, stage) ==
    IF stage \in UserStages /\ m.type = "execute" THEN "execute" ELSE "compensate"

\* Outbox rows, reduced to the primary key (saga_id, topic, saga_type).  The
\* type of the event follows from the phase.
OutboxKeys == [saga: Sagas, topic: Topics, phase: {"execute", "compensate"}]

Rows(m, stage) == {[saga |-> m.saga, topic |-> t, phase |-> Phase(m, stage)] :
                      t \in TargetTopics(m, stage)}

=============================================================================
