----------------------------- MODULE SagaProofs -----------------------------
(***************************************************************************)
(* Proofs about Saga, for every set of services, every start and every     *)
(* routing that meets the conditions of SagaRouting the theorem names:     *)
(* type correctness, effects that happen once, duplicates that are what    *)
(* they are taken for, and the refinement of SagaOrder.                    *)
(***************************************************************************)
EXTENDS SagaRouting, TLAPS

-----------------------------------------------------------------------------
(* Where rows, messages and the input of the start come from.  A row, and  *)
(* a message made of it, names the step that wrote it, and stands for an   *)
(* effect of that step.  The start loses the saga's id when a step fails,  *)
(* and the sender with it; while it has the id, the steps before took      *)
(* effect.                                                                 *)

\* The step named n was executed; or it failed or was undone.
Went(n) == executed[n] > 0
Broke(n) == n \in failed \/ compensated[n] > 0

RowsKnown ==
    \A v \in Services : \A row \in outbox[v] :
        /\ row.key.saga = Saga
        /\ \E p \in Used :
              /\ row.from = p.name
              /\ row.key.topic \in IF row.key.phase = "execute" THEN p.next ELSE p.error
        /\ IF row.key.phase = "execute" THEN Went(row.from) ELSE Broke(row.from)

SentKnown ==
    \A m \in sent :
        /\ \E p \in Used : m \in EventsOf(p)
        /\ IF m.type = "execute" THEN Went(m.from) ELSE Broke(m.from)

CallKnown ==
    /\ call.saga \in {Saga, NoSaga}
    /\ call.saga = NoSaga => call.from = NoStep
    /\ call.saga = Saga /\ Running /\ call.at > 1 => Went(StartSteps[call.at - 1].name)

Shape == TypeOK /\ RowsKnown /\ SentKnown /\ CallKnown

-----------------------------------------------------------------------------
(* Steps, and messages that are being handled.                             *)

LEMMA UsedSteps ==
    ASSUME NEW p \in Used
    PROVE  /\ p \in Steps
           /\ p.name \in StepNames
           /\ p.next \subseteq Topics /\ p.error \subseteq Topics
           /\ ServiceOf[p.name] \in Services
  <1>1. p \in Steps
    BY SagaAssumption DEF Used
  <1> QED
    BY <1>1, SagaAssumption, StepsAssumption DEF StepType

LEMMA StartUsed ==
    ASSUME NEW i \in DOMAIN StartSteps
    PROVE  StartSteps[i] \in Used
  BY DEF Used

LEMMA StartLength == Len(StartSteps) \in Nat /\ DOMAIN StartSteps = 1 .. Len(StartSteps)
  BY SagaAssumption

LEMMA EventFacts ==
    ASSUME NEW p \in Used, NEW m \in EventsOf(p)
    PROVE  /\ m \in MessageType
           /\ m.saga = Saga /\ m.from = p.name /\ m.step \in Used
           /\ m.type \in {"execute", "failed"}
           /\ m.type = "execute" => Forward(p, m.step.name)
           /\ m.type = "failed" => Back(p, m.step.name)
  <1>1. \A t \in DOMAIN Registered : Registered[t] \in Used
    BY DEF Used
  <1>2. PICK t \in DOMAIN Registered :
           \/ /\ t \in p.next
              /\ m = [saga |-> Saga, from |-> p.name, type |-> "execute", step |-> Registered[t]]
           \/ /\ t \in p.error
              /\ m = [saga |-> Saga, from |-> p.name, type |-> "failed", step |-> Registered[t]]
    BY DEF EventsOf
  <1>3. m.saga = Saga /\ m.from = p.name /\ m.step = Registered[t] /\ m.type \in {"execute", "failed"}
    BY <1>2
  <1>4. m \in MessageType
    BY <1>1, <1>2, UsedSteps, SagaAssumption DEF MessageType
  <1>5. (m.type = "execute" => t \in p.next) /\ (m.type = "failed" => t \in p.error)
    BY <1>2
  <1> QED
    BY <1>1, <1>3, <1>4, <1>5 DEF Forward, Back

\* The messages a unit of work may be committed for.
Handling(m) == m \in sent \/ (Running /\ m = Input)

LEMMA HandlingFacts ==
    ASSUME Shape, NEW m, Handling(m)
    PROVE  /\ m.step \in Used /\ m.step.name \in StepNames /\ Here(m) \in Services
           /\ m.type \in {"execute", "failed"}
           /\ m.saga \in {Saga, NoSaga} /\ m.from \in StepNames \cup {NoStep}
           /\ m.saga = NoSaga => m.from = NoStep
           /\ m \notin sent => m.type = "execute"
  <1>1. CASE m \in sent
    <2>1. PICK p \in Used : m \in EventsOf(p)
      BY <1>1 DEF Shape, SentKnown
    <2> QED
      BY <1>1, <2>1, EventFacts, UsedSteps, SagaAssumption DEF Here
  <1>2. CASE Running /\ m = Input
    <2>1. /\ m.saga = call.saga /\ m.from = call.from /\ m.type = "execute"
          /\ m.step = StartSteps[call.at]
      BY <1>2 DEF Input
    <2>2. m.step \in Used
      BY <1>2, <2>1, StartUsed DEF Running
    <2>3. call.from \in StepNames \cup {NoStep}
      BY DEF Shape, TypeOK
    <2> QED
      BY <2>1, <2>2, <2>3, UsedSteps DEF Shape, CallKnown, Here
  <1> QED
    BY <1>1, <1>2 DEF Handling

-----------------------------------------------------------------------------
(* The steps.  Each commits one unit of work or leaves the databases and   *)
(* the history alone.                                                      *)

Unit(m, s) == Handling(m) /\ s \in Units(m) /\ Process(m, s)

LEMMA StartUnits ==
    ASSUME Start
    PROVE  /\ UNCHANGED sent
           /\ UNCHANGED <<tables, history>> \/ \E s \in Units(Input) : Running /\ Process(Input, s)
  <1>1. CASE StartSaga \/ StepIsDuplicate \/ StartAborts
    BY <1>1 DEF StartSaga, StepIsDuplicate, StartAborts
  <1>2. CASE StepSucceeds
    BY <1>2 DEF StepSucceeds
  <1>3. CASE StepCommitLost
    BY <1>3 DEF StepCommitLost
  <1>4. CASE StepFails
    BY <1>4 DEF StepFails
  <1> QED
    BY <1>1, <1>2, <1>3, <1>4 DEF Start

LEMMA NextUnits ==
    ASSUME [Next]_vars
    PROVE  UNCHANGED <<tables, history>> \/ \E m : \E s \in Units(m) : Unit(m, s)
  <1>1. CASE UNCHANGED vars
    BY <1>1 DEF vars
  <1>2. CASE Start
    BY <1>2, StartUnits DEF Unit, Handling
  <1>3. ASSUME NEW v \in Services, NEW row \in outbox[v], Publish(v, row)
        PROVE  UNCHANGED <<tables, history>>
    BY <1>3 DEF Publish
  <1>4. ASSUME NEW m \in sent, Handle(m)
        PROVE  \E s \in Units(m) : Unit(m, s)
    BY <1>4 DEF Handle, Unit, Handling
  <1> QED
    BY <1>1, <1>2, <1>3, <1>4 DEF Next

\* The row keys a service has recorded.
Keys(v) == {row.key : row \in outbox[v]}

\* What a unit of work needs and does.
LEMMA UnitEffect ==
    ASSUME Shape, NEW m, NEW s, Unit(m, s)
    PROVE  /\ ~IsDuplicate(m, s)
           /\ Rows(m, s) \cap Keys(Here(m)) = {}
           /\ m.saga = NoSaga => Rows(m, s) = {}
           /\ inbox'[Here(m)] = inbox[Here(m)] \cup (IF Claims(m, s) THEN {InboxKey(m)} ELSE {})
           /\ \A v \in Services : v # Here(m) => inbox'[v] = inbox[v]
           /\ outbox'[Here(m)] = outbox[Here(m)] \cup RowsOf(m, s)
           /\ \A v \in Services : v # Here(m) => outbox'[v] = outbox[v]
           /\ handled' = handled \cup {m}
  <1>1. Here(m) \in Services
    BY HandlingFacts DEF Unit
  <1>2. inbox \in [Services -> SUBSET (Sagas \X StepNames)] /\ DOMAIN outbox = Services
    BY DEF Shape, TypeOK
  <1> QED
    BY <1>1, <1>2 DEF Unit, Process, CanWrite, Keys

\* Its effect on the history: it executes the step of the message, undoes it,
\* or records its failure.
Executes(m, s) == /\ m.type = "execute" /\ s \in UserStages
                  /\ executed' = [executed EXCEPT ![m.step.name] = @ + 1]
                  /\ UNCHANGED <<compensated, failed>>
Undoes(m, s) == /\ m.type = "failed" /\ s \in UserStages /\ m \in sent
                /\ compensated' = [compensated EXCEPT ![m.step.name] = @ + 1]
                /\ UNCHANGED <<executed, failed>>
GivesUp(m, s) == /\ m.type = "execute" /\ s = "publish" /\ m.step.error # {}
                 /\ failed' = failed \cup {m.step.name}
                 /\ UNCHANGED <<executed, compensated>>

LEMMA UnitKinds ==
    ASSUME Shape, NEW m, NEW s, Unit(m, s)
    PROVE  Executes(m, s) \/ Undoes(m, s) \/ GivesUp(m, s)
  <1>1. m.type \in {"execute", "failed"} /\ (m \notin sent => m.type = "execute")
    BY HandlingFacts DEF Unit
  <1>2. \/ s \in UserStages
        \/ s = "publish" /\ m.type = "execute" /\ m.step.error # {}
    BY DEF Unit, Units, UserStages
  <1>3. "publish" \notin UserStages
    BY DEF UserStages
  <1> QED
    BY <1>1, <1>2, <1>3 DEF Unit, Process, Count, Executes, Undoes, GivesUp

\* The counts as numbers.
LEMMA Counts ==
    ASSUME Shape, NEW n \in StepNames
    PROVE  executed[n] \in Nat /\ compensated[n] \in Nat
  BY DEF Shape, TypeOK

LEMMA UnitCounts ==
    ASSUME Shape, NEW m, NEW s, Unit(m, s), NEW n \in StepNames
    PROVE  /\ executed'[n] = IF Executes(m, s) /\ n = m.step.name
                             THEN executed[n] + 1 ELSE executed[n]
           /\ compensated'[n] = IF Undoes(m, s) /\ n = m.step.name
                                THEN compensated[n] + 1 ELSE compensated[n]
  <1>1. executed \in [StepNames -> Nat] /\ compensated \in [StepNames -> Nat]
    BY DEF Shape, TypeOK
  <1>2. m.step.name \in StepNames
    BY HandlingFacts DEF Unit
  <1>3. CASE Executes(m, s)
    BY <1>1, <1>2, <1>3 DEF Executes, Undoes
  <1>4. CASE Undoes(m, s)
    BY <1>1, <1>2, <1>4 DEF Executes, Undoes
  <1>5. CASE GivesUp(m, s)
    BY <1>1, <1>2, <1>5 DEF Executes, Undoes, GivesUp, UserStages
  <1> QED
    BY <1>3, <1>4, <1>5, UnitKinds

-----------------------------------------------------------------------------
(* Type correctness.                                                       *)

\* What was done stays done.
LEMMA NeverForgets ==
    ASSUME Shape, [Next]_vars, NEW n \in StepNames
    PROVE  (Went(n) => Went(n)') /\ (Broke(n) => Broke(n)')
  <1>1. ASSUME NEW m, NEW s, Unit(m, s)
        PROVE  (Went(n) => Went(n)') /\ (Broke(n) => Broke(n)')
    <2>1. executed[n] > 0 => executed'[n] > 0
      BY <1>1, UnitCounts, Counts
    <2>2. compensated[n] > 0 => compensated'[n] > 0
      BY <1>1, UnitCounts, Counts
    <2>3. failed \subseteq failed'
      BY <1>1, UnitKinds DEF Executes, Undoes, GivesUp
    <2> QED
      BY <2>1, <2>2, <2>3 DEF Went, Broke
  <1>2. CASE UNCHANGED <<tables, history>>
    BY <1>2 DEF history, Went, Broke
  <1> QED
    BY <1>1, <1>2, NextUnits

\* The rows of a unit of work.
LEMMA RowFacts ==
    ASSUME Shape, NEW m, NEW s, Unit(m, s), NEW row \in RowsOf(m, s)
    PROVE  /\ row \in [key: OutboxKeys, from: StepNames]
           /\ row.key.saga = Saga /\ row.from = m.step.name
           /\ row.key.topic \in IF row.key.phase = "execute" THEN m.step.next ELSE m.step.error
           /\ IF row.key.phase = "execute" THEN Executes(m, s) ELSE Undoes(m, s) \/ GivesUp(m, s)
  <1>1. PICK t \in TargetTopics(m, s) :
           row = [key |-> [saga |-> m.saga, topic |-> t, phase |-> Phase(m, s)],
                  from |-> m.step.name]
    BY DEF RowsOf, Rows
  <1>2. m.saga = Saga
    BY <1>1, HandlingFacts, UnitEffect DEF Unit, Rows
  <1>3. m.step \in Used /\ m.step.name \in StepNames
    BY HandlingFacts DEF Unit
  <1>4. t \in Topics /\ Phase(m, s) \in {"execute", "compensate"}
    BY <1>1, <1>3, UsedSteps DEF TargetTopics, Phase
  <1>5. IF Phase(m, s) = "execute" THEN Executes(m, s) ELSE Undoes(m, s) \/ GivesUp(m, s)
    BY UnitKinds DEF Phase, Executes, Undoes, GivesUp, UserStages
  <1>6. t \in IF Phase(m, s) = "execute" THEN m.step.next ELSE m.step.error
    BY <1>1 DEF TargetTopics, Phase
  <1>7. row \in [key: OutboxKeys, from: StepNames]
    BY <1>1, <1>2, <1>3, <1>4, SagaAssumption DEF OutboxKeys
  <1> QED
    BY <1>1, <1>2, <1>5, <1>6, <1>7

\* A unit of work leaves its mark.
LEMMA UnitMarks ==
    ASSUME Shape, NEW m, NEW s, Unit(m, s)
    PROVE  /\ Executes(m, s) => Went(m.step.name)'
           /\ Undoes(m, s) \/ GivesUp(m, s) => Broke(m.step.name)'
  <1> DEFINE n == m.step.name
  <1>1. n \in StepNames
    BY HandlingFacts DEF Unit
  <1>2. (Executes(m, s) => executed'[n] > 0) /\ (Undoes(m, s) => compensated'[n] > 0)
    BY <1>1, UnitCounts, Counts
  <1>3. GivesUp(m, s) => n \in failed'
    BY DEF GivesUp
  <1> QED
    BY <1>2, <1>3 DEF Went, Broke

LEMMA TypeOfUnit ==
    ASSUME Shape, NEW m, NEW s, Unit(m, s), sent' = sent,
           call' \in [at: 0 .. Len(StartSteps) + 1, saga: Sagas \cup {NoSaga},
                      from: StepNames \cup {NoStep}],
           lost' \in 0 .. MaxLostCommits
    PROVE  TypeOK'
  <1>1. /\ m.step \in Steps /\ m.step.name \in StepNames /\ Here(m) \in Services
        /\ m.saga \in {Saga, NoSaga} /\ m.from \in StepNames \cup {NoStep}
        /\ m.saga = NoSaga => m.from = NoStep
    BY HandlingFacts, UsedSteps DEF Unit
  <1>2. inbox' \in [Services -> SUBSET (Sagas \X StepNames)]
    <2>1. Claims(m, s) => InboxKey(m) \in Sagas \X StepNames
      BY <1>1, SagaAssumption DEF Claims, InboxKey
    <2> QED
      BY <1>1, <2>1 DEF Unit, Process, Shape, TypeOK
  <1>3. outbox' \in [Services -> SUBSET [key: OutboxKeys, from: StepNames]]
    <2>1. RowsOf(m, s) \subseteq [key: OutboxKeys, from: StepNames]
      BY RowFacts
    <2> QED
      BY <1>1, <2>1 DEF Unit, Process, Shape, TypeOK
  <1>4. executed' \in [StepNames -> Nat] /\ compensated' \in [StepNames -> Nat]
    <2>1. executed \in [StepNames -> Nat] /\ compensated \in [StepNames -> Nat]
      BY DEF Shape, TypeOK
    <2>2. executed' = [executed EXCEPT ![m.step.name] = @ + 1] \/ executed' = executed
      BY UnitKinds DEF Executes, Undoes, GivesUp
    <2>3. compensated' = [compensated EXCEPT ![m.step.name] = @ + 1] \/ compensated' = compensated
      BY UnitKinds DEF Executes, Undoes, GivesUp
    <2>4. executed' \in [StepNames -> Nat]
      BY <1>1, <2>1, <2>2
    <2>5. compensated' \in [StepNames -> Nat]
      BY <1>1, <2>1, <2>3
    <2> QED
      BY <2>4, <2>5
  <1>5. failed' \subseteq StepNames
    <2>1. failed' = failed \/ failed' = failed \cup {m.step.name}
      BY UnitKinds DEF Executes, Undoes, GivesUp
    <2> QED
      BY <1>1, <2>1 DEF Shape, TypeOK
  <1>6. handled' \subseteq sent' \cup [saga: Sagas \cup {NoSaga}, from: StepNames \cup {NoStep},
                                       type: {"execute"}, step: Steps]
    <2>1. m \in sent \/ m \in [saga: Sagas \cup {NoSaga}, from: StepNames \cup {NoStep},
                               type: {"execute"}, step: Steps]
      BY <1>1, SagaAssumption DEF Unit, Handling, Input
    <2> QED
      BY <2>1 DEF Unit, Process, Shape, TypeOK
  <1>7. sent' \subseteq MessageType
    BY DEF Shape, TypeOK
  <1> QED
    BY <1>2, <1>3, <1>4, <1>5, <1>6, <1>7 DEF TypeOK

\* The input of the start, and what the start does to it.
LEMMA CallTyped ==
    ASSUME Shape, Start
    PROVE  /\ call' \in [at: 0 .. Len(StartSteps) + 1, saga: Sagas \cup {NoSaga},
                         from: StepNames \cup {NoStep}]
           /\ lost' \in 0 .. MaxLostCommits
  <1> DEFINE Calls == [at: 0 .. Len(StartSteps) + 1, saga: Sagas \cup {NoSaga},
                       from: StepNames \cup {NoStep}]
  <1>1. call \in Calls /\ lost \in 0 .. MaxLostCommits
    BY DEF Shape, TypeOK
  <1>2. ASSUME Running, NEW g \in Sagas \cup {NoSaga}, NEW n \in StepNames \cup {NoStep},
               Advance(g, n)
        PROVE  call' \in Calls
    <2>1. call.at + 1 \in 0 .. Len(StartSteps) + 1
      BY <1>2, StartLength DEF Running
    <2> QED
      BY <1>2, <2>1 DEF Advance
  <1>3. Running => Input.step.name \in StepNames
    BY StartUsed, UsedSteps DEF Running, Input
  <1>4. CASE StartSaga
    <2>1. 1 \in 0 .. Len(StartSteps) + 1
      BY StartLength
    <2> QED
      BY <1>1, <1>4, <2>1 DEF StartSaga
  <1>5. CASE StepSucceeds
    <2>1. \E n \in {Input.step.name, NoStep, call.from} : Advance(call.saga, n)
      BY <1>5 DEF StepSucceeds
    <2>2. call.saga \in Sagas \cup {NoSaga} /\ call.from \in StepNames \cup {NoStep}
      BY <1>1
    <2> QED
      BY <1>1, <1>2, <1>3, <1>5, <2>1, <2>2 DEF StepSucceeds
  <1>6. CASE StepCommitLost
    <2>1. lost' \in 0 .. MaxLostCommits
      BY <1>1, <1>6, SagaAssumption DEF StepCommitLost
    <2> QED
      BY <1>1, <1>6, <2>1 DEF StepCommitLost
  <1>7. CASE StepIsDuplicate \/ StepFails
    BY <1>1, <1>2, <1>7 DEF StepIsDuplicate, StepFails, AfterFailureEvent
  <1>8. CASE StartAborts
    <2>1. Len(StartSteps) + 1 \in 0 .. Len(StartSteps) + 1
      BY StartLength
    <2> QED
      BY <1>1, <1>8, <2>1 DEF StartAborts, Abort
  <1> QED
    BY <1>4, <1>5, <1>6, <1>7, <1>8 DEF Start

\* A row is published as a message its writer may send.
LEMMA EventKnown ==
    ASSUME Shape, NEW v \in Services, NEW row \in outbox[v], row.key.topic \in DOMAIN Registered
    PROVE  /\ \E p \in Used : Event(row) \in EventsOf(p)
           /\ Event(row).from = row.from
           /\ Event(row).type = "execute" <=> row.key.phase = "execute"
  <1>1. PICK p \in Used :
           /\ row.from = p.name
           /\ row.key.topic \in IF row.key.phase = "execute" THEN p.next ELSE p.error
    BY DEF Shape, RowsKnown
  <1>2. row.key.saga = Saga
    BY DEF Shape, RowsKnown
  <1>3. Event(row) \in EventsOf(p)
    BY <1>1, <1>2 DEF Event, EventsOf
  <1> QED
    BY <1>3 DEF Event

LEMMA ShapeInit == Init => Shape
  <1> SUFFICES ASSUME Init PROVE Shape
    OBVIOUS
  <1>1. TypeOK
    <2>1. 0 \in 0 .. Len(StartSteps) + 1 /\ 0 \in 0 .. MaxLostCommits
      BY StartLength, SagaAssumption
    <2>2. call \in [at: 0 .. Len(StartSteps) + 1, saga: Sagas \cup {NoSaga},
                    from: StepNames \cup {NoStep}]
      BY <2>1, SagaAssumption DEF Init
    <2> QED
      BY <2>1, <2>2, SagaAssumption DEF Init, TypeOK
  <1>2. CallKnown
    BY StartLength DEF Init, CallKnown, Running
  <1> QED
    BY <1>1, <1>2 DEF Init, Shape, RowsKnown, SentKnown

LEMMA ShapeTyped == Shape /\ [Next]_vars => TypeOK'
  <1> SUFFICES ASSUME Shape, [Next]_vars PROVE TypeOK'
    OBVIOUS
  <1>1. TypeOK
    BY DEF Shape
  <1>2. CASE UNCHANGED vars
    BY <1>1, <1>2 DEF vars, tables, history, TypeOK
  <1>3. CASE Start
    <2>1. sent' = sent
      BY <1>3, StartUnits
    <2>2. CASE UNCHANGED <<tables, history>>
      BY <1>1, <1>3, <2>1, <2>2, CallTyped DEF tables, history, TypeOK
    <2>3. CASE \E s \in Units(Input) : Running /\ Process(Input, s)
      BY <1>3, <2>1, <2>3, CallTyped, TypeOfUnit DEF Unit, Handling
    <2> QED
      BY <1>3, <2>2, <2>3, StartUnits
  <1>4. ASSUME NEW v \in Services, NEW row \in outbox[v], Publish(v, row)
        PROVE  TypeOK'
    <2>1. Event(row) \in MessageType
      BY <1>4, EventKnown, EventFacts DEF Publish
    <2> QED
      BY <1>1, <1>4, <2>1 DEF Publish, tables, history, TypeOK
  <1>5. ASSUME NEW m \in sent, Handle(m)
        PROVE  TypeOK'
    <2>1. sent' = sent /\ call' = call /\ lost' = lost
      BY <1>5 DEF Handle
    <2>2. PICK s \in Units(m) : Unit(m, s)
      BY <1>5 DEF Handle, Unit, Handling
    <2> QED
      BY <1>1, <2>1, <2>2, TypeOfUnit DEF TypeOK
  <1> QED
    BY <1>2, <1>3, <1>4, <1>5 DEF Next

LEMMA RowsStep == Shape /\ [Next]_vars => RowsKnown'
  <1> SUFFICES ASSUME Shape, [Next]_vars, NEW v \in Services, NEW row \in outbox'[v]
               PROVE  /\ row.key.saga = Saga
                      /\ \E p \in Used :
                            /\ row.from = p.name
                            /\ row.key.topic \in IF row.key.phase = "execute"
                                                 THEN p.next ELSE p.error
                      /\ IF row.key.phase = "execute" THEN Went(row.from)' ELSE Broke(row.from)'
    BY DEF RowsKnown
  <1>1. ASSUME row \in outbox[v]
        PROVE  /\ row.key.saga = Saga
               /\ \E p \in Used :
                     /\ row.from = p.name
                     /\ row.key.topic \in IF row.key.phase = "execute" THEN p.next ELSE p.error
               /\ row.from \in StepNames
               /\ IF row.key.phase = "execute" THEN Went(row.from) ELSE Broke(row.from)
    BY <1>1, UsedSteps DEF Shape, RowsKnown
  <1>2. CASE row \in outbox[v]
    BY <1>1, <1>2, NeverForgets
  <1>3. CASE row \notin outbox[v]
    <2>1. PICK m, s : s \in Units(m) /\ Unit(m, s)
      BY <1>3, NextUnits DEF tables
    <2>2. row \in RowsOf(m, s)
      BY <1>3, <2>1, UnitEffect
    <2>3. m.step \in Used
      BY <2>1, HandlingFacts DEF Unit
    <2> QED
      BY <2>1, <2>2, <2>3, RowFacts, UnitMarks
  <1> QED
    BY <1>2, <1>3

LEMMA SentStep == Shape /\ [Next]_vars => SentKnown'
  <1> SUFFICES ASSUME Shape, [Next]_vars, NEW m \in sent'
               PROVE  /\ \E p \in Used : m \in EventsOf(p)
                      /\ IF m.type = "execute" THEN Went(m.from)' ELSE Broke(m.from)'
    BY DEF SentKnown
  <1>1. ASSUME NEW n \in StepNames
        PROVE  (Went(n) => Went(n)') /\ (Broke(n) => Broke(n)')
    BY NeverForgets
  <1>2. CASE m \in sent
    <2>1. PICK p \in Used : m \in EventsOf(p)
      BY <1>2 DEF Shape, SentKnown
    <2>2. m.from \in StepNames
      BY <2>1, EventFacts, UsedSteps
    <2> QED
      BY <1>1, <1>2, <2>1, <2>2 DEF Shape, SentKnown
  <1>3. CASE m \notin sent
    <2>1. PICK v \in Services : \E row \in outbox[v] : Publish(v, row)
      BY <1>3, StartUnits DEF Next, Handle, vars
    <2>2. PICK row \in outbox[v] : m = Event(row) /\ row.key.topic \in DOMAIN Registered
      BY <1>3, <2>1 DEF Publish
    <2>3. row.from \in StepNames
      BY UsedSteps DEF Shape, RowsKnown
    <2>4. IF row.key.phase = "execute" THEN Went(row.from) ELSE Broke(row.from)
      BY DEF Shape, RowsKnown
    <2> QED
      BY <1>1, <2>2, <2>3, <2>4, EventKnown
  <1> QED
    BY <1>2, <1>3

\* A step of the start succeeds with an effect on the history.
LEMMA StartExecutes ==
    ASSUME Shape, StepSucceeds
    PROVE  /\ Running
           /\ \E m : \E s \in UserStages : m = Input /\ Unit(m, s) /\ Executes(m, s)
           /\ executed'[StartSteps[call.at].name] > 0
           /\ call.saga = NoSaga => StartSteps[call.at].next = {}
  <1>1. PICK m : m = Input
    OBVIOUS
  <1>2. PICK s \in UserStages : Unit(m, s)
    BY <1>1 DEF StepSucceeds, Unit, Handling
  <1>3. m.type = "execute" /\ m.saga = call.saga /\ m.step = StartSteps[call.at]
    BY <1>1 DEF Input
  <1>4. Executes(m, s)
    BY <1>2, <1>3, UnitKinds DEF Undoes, GivesUp, UserStages
  <1>5. executed'[m.step.name] > 0
    BY <1>2, <1>4, UnitMarks DEF Went
  <1>6. m.saga = NoSaga => m.step.next = {}
    <2> SUFFICES ASSUME m.saga = NoSaga, NEW t \in m.step.next PROVE FALSE
      OBVIOUS
    <2>1. Rows(m, s) = {}
      BY <1>2, UnitEffect
    <2>2. t \in TargetTopics(m, s)
      BY <1>2, <1>3 DEF TargetTopics
    <2> QED
      BY <2>1, <2>2 DEF Rows
  <1> QED
    BY <1>1, <1>2, <1>3, <1>4, <1>5, <1>6 DEF StepSucceeds

LEMMA CallStep == Shape /\ [Next]_vars => CallKnown'
  <1> SUFFICES ASSUME Shape, [Next]_vars PROVE CallKnown'
    OBVIOUS
  <1>1. CallKnown /\ call.at \in Nat /\ call \in [at: Nat, saga: Sagas \cup {NoSaga},
                                                  from: StepNames \cup {NoStep}]
    BY StartLength DEF Shape, TypeOK
  <1>2. CASE call' = call
    <2>1. call.saga = Saga /\ Running /\ call.at > 1 => executed'[StartSteps[call.at - 1].name] > 0
      <3> SUFFICES ASSUME call.saga = Saga, Running, call.at > 1
                   PROVE  executed'[StartSteps[call.at - 1].name] > 0
        OBVIOUS
      <3>1. PICK n : n = StartSteps[call.at - 1].name
        OBVIOUS
      <3>2. call.at - 1 \in DOMAIN StartSteps
        BY <1>1, StartLength DEF Running
      <3>3. n \in StepNames /\ Went(n)
        BY <1>1, <3>1, <3>2, StartUsed, UsedSteps DEF CallKnown
      <3> QED
        BY <3>1, <3>3, NeverForgets DEF Went
    <2> QED
      BY <1>1, <1>2, <2>1 DEF CallKnown, Running, Went
  <1>3. CASE StartSaga
    BY <1>1, <1>3 DEF StartSaga, CallKnown, Running
  <1>4. CASE StepSucceeds
    <2>1. /\ call'.at = call.at + 1 /\ call'.saga = call.saga
          /\ call'.from \in {StartSteps[call.at].name, NoStep, call.from}
          /\ StartSteps[call.at].next = {} => call'.from \in {NoStep, call.from}
      BY <1>4 DEF StepSucceeds, Advance, Input
    <2>2. executed'[StartSteps[call'.at - 1].name] > 0
      BY <1>1, <1>4, <2>1, StartExecutes
    <2>3. call'.saga = NoSaga => call'.from = NoStep
      BY <1>1, <1>4, <2>1, StartExecutes DEF CallKnown
    <2> QED
      BY <1>1, <2>1, <2>2, <2>3 DEF CallKnown, Went
  <1>5. CASE StepIsDuplicate \/ StepFails
    <2>1. call'.saga = NoSaga /\ call'.from = NoStep
      BY <1>5 DEF StepIsDuplicate, StepFails, AfterFailureEvent, Advance
    <2> QED
      BY <2>1, SagaAssumption DEF CallKnown
  <1>6. CASE StartAborts
    <2>1. ~Running' /\ call'.saga = call.saga /\ call'.from = call.from
      BY <1>1, <1>6, StartLength DEF StartAborts, Abort, Running
    <2> QED
      BY <1>1, <2>1 DEF CallKnown
  <1> QED
    BY <1>2, <1>3, <1>4, <1>5, <1>6 DEF Next, Start, StepCommitLost, Publish, Handle, vars

LEMMA ShapeStep == Shape /\ [Next]_vars => Shape'
  BY ShapeTyped, RowsStep, SentStep, CallStep DEF Shape

LEMMA ShapeAlways == Spec => []Shape
  BY ShapeInit, ShapeStep, PTL DEF Spec

\* The type invariant.
THEOREM TypeCorrect == Spec => []TypeOK
  <1>1. Shape => TypeOK
    BY DEF Shape
  <1> QED
    BY <1>1, ShapeAlways, PTL

-----------------------------------------------------------------------------
(* Effects happen once.  An effect leaves a trace that the database refuses *)
(* to repeat: the claim of the one step a handler's step is told by, or the *)
(* rows of a step of the start.                                             *)

ForwardTaken(n) == \E p \in Used : Forward(p, n) /\ <<Saga, p.name>> \in inbox[ServiceOf[n]]
BackTaken(n) == \E p \in Used : Back(p, n) /\ <<Saga, p.name>> \in inbox[ServiceOf[n]]

SuccessKeys(p) == {[saga |-> Saga, topic |-> t, phase |-> "execute"] : t \in p.next}
StartRecorded(n) == \E i \in DOMAIN StartSteps :
                       /\ StartSteps[i].name = n
                       /\ SuccessKeys(StartSteps[i]) \subseteq Keys(ServiceOf[n])

Traced == \A n \in StepNames :
             /\ executed[n] > 0 => ForwardTaken(n) \/ StartRecorded(n)
             /\ compensated[n] > 0 => BackTaken(n)

OnceInv == Traced /\ OnceOnly

LEMMA TablesGrow ==
    ASSUME Shape, [Next]_vars, NEW v \in Services
    PROVE  inbox[v] \subseteq inbox'[v] /\ Keys(v) \subseteq Keys(v)'
  <1>1. CASE UNCHANGED <<tables, history>>
    BY <1>1 DEF tables, Keys
  <1>2. ASSUME NEW m, NEW s, Unit(m, s)
        PROVE  inbox[v] \subseteq inbox'[v] /\ outbox[v] \subseteq outbox'[v]
    BY <1>2, UnitEffect
  <1> QED
    BY <1>1, <1>2, NextUnits DEF Keys

LEMMA TracesStay ==
    ASSUME Shape, [Next]_vars, NEW n \in StepNames
    PROVE  /\ ForwardTaken(n) => ForwardTaken(n)'
           /\ BackTaken(n) => BackTaken(n)'
           /\ StartRecorded(n) => StartRecorded(n)'
  <1>1. ServiceOf[n] \in Services
    BY SagaAssumption
  <1>2. inbox[ServiceOf[n]] \subseteq inbox'[ServiceOf[n]]
        /\ Keys(ServiceOf[n]) \subseteq Keys(ServiceOf[n])'
    BY <1>1, TablesGrow
  <1> QED
    BY <1>2 DEF ForwardTaken, BackTaken, StartRecorded

\* A message that a handler works on is claimed, for the first time.
LEMMA HandlerClaims ==
    ASSUME Shape, NEW m \in sent, NEW s \in UserStages, Unit(m, s)
    PROVE  \E p \in Used :
              /\ m \in EventsOf(p)
              /\ InboxKey(m) = <<Saga, p.name>>
              /\ <<Saga, p.name>> \notin inbox[ServiceOf[m.step.name]]
              /\ <<Saga, p.name>> \in inbox'[ServiceOf[m.step.name]]
  <1>1. PICK p \in Used : m \in EventsOf(p)
    BY DEF Shape, SentKnown
  <1>2. m.saga = Saga /\ m.from = p.name /\ p.name \in StepNames
    BY <1>1, EventFacts, UsedSteps
  <1>3. Claims(m, s) /\ InboxKey(m) = <<Saga, p.name>>
    BY <1>2, StepsAssumption DEF Claims, InboxKey
  <1>4. InboxKey(m) \notin inbox[Here(m)] /\ InboxKey(m) \in inbox'[Here(m)]
    BY <1>3, UnitEffect DEF IsDuplicate
  <1> QED
    BY <1>1, <1>3, <1>4 DEF Here

\* A step of the start that works on the input writes its rows, for the first
\* time.
LEMMA StartWrites ==
    ASSUME Shape, NEW m, Running, m = Input, NEW s \in UserStages, Unit(m, s)
    PROVE  /\ m.step = StartSteps[call.at] /\ call.at \in DOMAIN StartSteps
           /\ SuccessKeys(m.step) \subseteq Keys(ServiceOf[m.step.name])'
           /\ SuccessKeys(m.step) \cap Keys(ServiceOf[m.step.name]) = {}
  <1>1. m.type = "execute" /\ m.step = StartSteps[call.at] /\ call.at \in DOMAIN StartSteps
    BY DEF Input, Running
  <1>2. Rows(m, s) = {[saga |-> m.saga, topic |-> t, phase |-> "execute"] : t \in m.step.next}
    BY <1>1 DEF Rows, TargetTopics, Phase
  <1>3. m.saga = NoSaga => m.step.next = {}
    <2> SUFFICES ASSUME m.saga = NoSaga, NEW t \in m.step.next PROVE FALSE
      OBVIOUS
    <2>1. [saga |-> m.saga, topic |-> t, phase |-> "execute"] \in Rows(m, s)
      BY <1>2
    <2> QED
      BY <2>1, UnitEffect
  <1>4. SuccessKeys(m.step) = Rows(m, s)
    <2>1. m.saga \in {Saga, NoSaga}
      BY HandlingFacts DEF Unit
    <2> QED
      BY <1>2, <1>3, <2>1 DEF SuccessKeys
  <1>5. Rows(m, s) \cap Keys(Here(m)) = {} /\ outbox'[Here(m)] = outbox[Here(m)] \cup RowsOf(m, s)
    BY UnitEffect
  <1>6. Rows(m, s) \subseteq Keys(Here(m))'
    <2> SUFFICES ASSUME NEW k \in Rows(m, s)
                 PROVE  \E row \in outbox'[ServiceOf[m.step.name]] : row.key = k
      BY DEF Keys, Here
    <2>1. [key |-> k, from |-> m.step.name] \in outbox'[ServiceOf[m.step.name]]
      BY <1>5 DEF RowsOf, Here
    <2> QED
      BY <2>1
  <1> QED
    BY <1>1, <1>4, <1>5, <1>6 DEF Here

LEMMA OnceExecutes ==
    ASSUME OnePlace, Shape, OnceInv, NEW m, NEW s, Unit(m, s), Executes(m, s)
    PROVE  /\ executed[m.step.name] = 0 \/ \E i \in DOMAIN StartSteps :
                 StartSteps[i].name = m.step.name /\ StartSteps[i].next = {}
           /\ (ForwardTaken(m.step.name) \/ StartRecorded(m.step.name))'
  <1> DEFINE n == m.step.name
  <1>1. s \in UserStages /\ m.type = "execute" /\ n \in StepNames
    BY HandlingFacts DEF Unit, Executes
  <1>2. executed[n] = 0 \/ ForwardTaken(n) \/ StartRecorded(n)
    BY <1>1, Counts DEF OnceInv, Traced
  <1>3. CASE m \in sent
    <2>1. PICK p \in Used :
             /\ Forward(p, n)
             /\ <<Saga, p.name>> \notin inbox[ServiceOf[n]]
             /\ <<Saga, p.name>> \in inbox'[ServiceOf[n]]
      BY <1>1, <1>3, HandlerClaims, EventFacts
    <2>2. ~ForwardTaken(n)
      BY <1>1, <2>1 DEF ForwardTaken, OnePlace
    <2>3. ~StartRecorded(n)
      BY <2>1 DEF StartRecorded, OnePlace
    <2>4. ForwardTaken(n)'
      BY <2>1 DEF ForwardTaken
    <2> QED
      BY <1>2, <2>2, <2>3, <2>4
  <1>4. CASE Running /\ m = Input
    <2>1. PICK i \in DOMAIN StartSteps :
             /\ StartSteps[i] = m.step
             /\ SuccessKeys(m.step) \subseteq Keys(ServiceOf[n])'
             /\ SuccessKeys(m.step) \cap Keys(ServiceOf[n]) = {}
      BY <1>1, <1>4, StartWrites
    <2>2. ~ForwardTaken(n)
      BY <2>1 DEF ForwardTaken, OnePlace
    <2>3. StartRecorded(n) => SuccessKeys(m.step) = {}
      <3>1. ASSUME NEW j \in DOMAIN StartSteps, StartSteps[j].name = n
            PROVE  j = i
        BY <2>1, <3>1 DEF OnePlace
      <3> QED
        BY <2>1, <3>1 DEF StartRecorded
    <2>4. SuccessKeys(m.step) = {} => m.step.next = {}
      <3> SUFFICES ASSUME SuccessKeys(m.step) = {}, NEW t \in m.step.next PROVE FALSE
        OBVIOUS
      <3> QED
        BY DEF SuccessKeys
    <2>5. StartRecorded(n)'
      BY <2>1 DEF StartRecorded
    <2> QED
      BY <1>2, <2>1, <2>2, <2>3, <2>4, <2>5
  <1> QED
    BY <1>3, <1>4 DEF Unit, Handling

LEMMA OnceUndoes ==
    ASSUME OnePlace, Shape, OnceInv, NEW m, NEW s, Unit(m, s), Undoes(m, s)
    PROVE  compensated[m.step.name] = 0 /\ BackTaken(m.step.name)'
  <1> DEFINE n == m.step.name
  <1>1. s \in UserStages /\ m.type = "failed" /\ n \in StepNames /\ m \in sent
    BY HandlingFacts DEF Unit, Undoes
  <1>2. PICK p \in Used :
           /\ Back(p, n)
           /\ <<Saga, p.name>> \notin inbox[ServiceOf[n]]
           /\ <<Saga, p.name>> \in inbox'[ServiceOf[n]]
    BY <1>1, HandlerClaims, EventFacts
  <1>3. ~BackTaken(n)
    BY <1>1, <1>2 DEF BackTaken, OnePlace
  <1>4. compensated[n] = 0
    BY <1>1, <1>3, Counts DEF OnceInv, Traced
  <1> QED
    BY <1>2, <1>4 DEF BackTaken

LEMMA OnceStep ==
    ASSUME OnePlace, Shape, OnceInv, [Next]_vars
    PROVE  OnceInv'
  <1> SUFFICES ASSUME NEW n \in StepNames
               PROVE  /\ executed'[n] > 0 => (ForwardTaken(n) \/ StartRecorded(n))'
                      /\ compensated'[n] > 0 => BackTaken(n)'
                      /\ compensated'[n] <= 1
                      /\ executed'[n] <= 1 \/ \E i \in DOMAIN StartSteps :
                            StartSteps[i].name = n /\ StartSteps[i].next = {}
    BY DEF OnceInv, Traced, OnceOnly
  <1> DEFINE Local == \E i \in DOMAIN StartSteps :
                          StartSteps[i].name = n /\ StartSteps[i].next = {}
  <1>1. /\ executed[n] > 0 => ForwardTaken(n) \/ StartRecorded(n)
        /\ compensated[n] > 0 => BackTaken(n)
        /\ compensated[n] <= 1 /\ (executed[n] <= 1 \/ Local)
    BY DEF OnceInv, Traced, OnceOnly
  <1>2. /\ ForwardTaken(n) \/ StartRecorded(n) => (ForwardTaken(n) \/ StartRecorded(n))'
        /\ BackTaken(n) => BackTaken(n)'
    BY TracesStay
  <1>3. executed'[n] = executed[n]
        \/ /\ executed[n] = 0 \/ Local
           /\ executed'[n] = executed[n] + 1
           /\ (ForwardTaken(n) \/ StartRecorded(n))'
    <2>1. ASSUME NEW m, NEW s, Unit(m, s), Executes(m, s), n = m.step.name
          PROVE  /\ executed[n] = 0 \/ Local
                 /\ executed'[n] = executed[n] + 1
                 /\ (ForwardTaken(n) \/ StartRecorded(n))'
      BY <2>1, OnceExecutes, UnitCounts
    <2>2. CASE UNCHANGED <<tables, history>>
      BY <2>2 DEF history
    <2> QED
      BY <2>1, <2>2, NextUnits, UnitCounts
  <1>4. compensated'[n] = compensated[n]
        \/ /\ compensated[n] = 0
           /\ compensated'[n] = compensated[n] + 1
           /\ BackTaken(n)'
    <2>1. ASSUME NEW m, NEW s, Unit(m, s), Undoes(m, s), n = m.step.name
          PROVE  compensated[n] = 0 /\ compensated'[n] = compensated[n] + 1 /\ BackTaken(n)'
      BY <2>1, OnceUndoes, UnitCounts
    <2>2. CASE UNCHANGED <<tables, history>>
      BY <2>2 DEF history
    <2> QED
      BY <2>1, <2>2, NextUnits, UnitCounts
  <1>5. executed'[n] <= 1 \/ Local
    BY <1>1, <1>3
  <1>6. compensated'[n] <= 1
    BY <1>1, <1>4
  <1> QED
    BY <1>1, <1>2, <1>3, <1>4, <1>5, <1>6

\* In a saga in which every step has one place a step takes effect once and
\* is undone once, however often and in whatever order messages are
\* delivered, over any number of services.
THEOREM EffectsHappenOnce ==
    ASSUME OnePlace
    PROVE  Spec => []OnceOnly
  <1>1. Init => OnceInv
    BY DEF Init, OnceInv, Traced, OnceOnly
  <1>2. Shape /\ OnceInv /\ [Next]_vars => OnceInv'
    BY OnceStep
  <1>3. OnceInv => OnceOnly
    BY DEF OnceInv
  <1> QED
    BY <1>1, <1>2, <1>3, ShapeAlways, PTL DEF Spec

-----------------------------------------------------------------------------
(* A duplicate is what it is taken for.  The start hands the sender of its *)
(* input on only from steps that wrote events, and every key of an inbox   *)
(* was claimed for a message that could be claimed.                        *)

HandsOn == /\ call.at = 0 => call.from = NoStep
           /\ Running /\ call.from # NoStep => Input \in HandedOn

ClaimedHandled ==
    \A v \in Services : \A k \in inbox[v] :
        \E m \in handled \cap Claimable : Here(m) = v /\ InboxKey(m) = k

DuplicateInv == HandsOn /\ ClaimedHandled

LEMMA HandsOnStep ==
    ASSUME KeysTellApart, Shape, HandsOn, [Next]_vars
    PROVE  HandsOn'
  <1>1. call.at \in Nat /\ CallKnown
    BY StartLength DEF Shape, TypeOK
  <1>2. CASE call' = call
    BY <1>2 DEF HandsOn, Running, Input
  <1>3. CASE StartSaga
    <2>1. call'.from = NoStep
      BY <1>3 DEF StartSaga, HandsOn
    <2> QED
      BY <2>1 DEF HandsOn
  <1>4. CASE StepSucceeds
    <2>1. PICK i : i = call.at
      OBVIOUS
    <2>2. /\ i \in DOMAIN StartSteps /\ call'.at = i + 1 /\ call'.saga = call.saga
          /\ IF StartSteps[i].next # {} THEN call'.from = StartSteps[i].name
             ELSE call'.from \in {NoStep, call.from}
      BY <1>4, <2>1 DEF StepSucceeds, Running, Advance, Input
    <2>3. CASE StartSteps[i].next # {}
      <3>1. call'.saga = Saga
        BY <1>1, <1>4, <2>1, <2>2, <2>3, StartExecutes DEF CallKnown
      <3> SUFFICES ASSUME Running' PROVE Input' \in HandedOn
        BY <2>2, StartLength DEF HandsOn
      <3>2. i + 1 \in 2 .. Len(StartSteps) /\ (i + 1) - 1 = i
        BY <2>2, StartLength DEF Running
      <3>3. Input' = [saga |-> Saga, from |-> StartSteps[i].name, type |-> "execute",
                      step |-> StartSteps[i + 1]]
        BY <2>2, <2>3, <3>1 DEF Input
      <3> QED
        BY <2>3, <3>2, <3>3 DEF HandedOn
    <2>4. CASE StartSteps[i].next = {}
      <3>1. ASSUME call.from # NoStep PROVE FALSE
        <4>1. Input \in HandedOn
          BY <2>1, <2>2, <3>1 DEF HandsOn, Running
        <4>2. PICK j \in 2 .. Len(StartSteps) :
                 /\ StartSteps[j - 1].next # {}
                 /\ StartSteps[j] = StartSteps[i]
          BY <2>1, <4>1 DEF HandedOn, Input
        <4>3. j - 1 \in DOMAIN StartSteps /\ j \in DOMAIN StartSteps /\ j - 1 < j
          BY StartLength
        <4> QED
          BY <2>4, <4>2, <4>3 DEF KeysTellApart
      <3>2. call'.from = NoStep
        BY <2>2, <2>4, <3>1
      <3> QED
        BY <3>2 DEF HandsOn
    <2> QED
      BY <2>3, <2>4
  <1>5. CASE StepIsDuplicate \/ StepFails
    <2>1. call'.from = NoStep
      BY <1>5 DEF StepIsDuplicate, StepFails, AfterFailureEvent, Advance
    <2> QED
      BY <2>1 DEF HandsOn
  <1>6. CASE StartAborts
    <2>1. call'.at # 0 /\ ~Running'
      <3>1. call'.at = Len(StartSteps) + 1
        BY <1>6 DEF StartAborts, Abort, Shape, TypeOK
      <3> QED
        BY <3>1, StartLength DEF Running
    <2> QED
      BY <2>1 DEF HandsOn
  <1> QED
    BY <1>2, <1>3, <1>4, <1>5, <1>6 DEF Next, Start, StepCommitLost, Publish, Handle, vars

\* A message that is claimed is one that can be.
LEMMA ClaimsClaimable ==
    ASSUME Shape, HandsOn, NEW m, Handling(m), m.from # NoStep
    PROVE  m \in Claimable
  <1>1. CASE m \in sent
    <2>1. PICK p \in Used : m \in EventsOf(p)
      BY <1>1 DEF Shape, SentKnown
    <2> QED
      BY <2>1 DEF Claimable
  <1>2. CASE Running /\ m = Input
    BY <1>2 DEF HandsOn, Claimable, Input
  <1> QED
    BY <1>1, <1>2 DEF Handling

LEMMA ClaimedStep ==
    ASSUME Shape, HandsOn, ClaimedHandled, [Next]_vars
    PROVE  ClaimedHandled'
  <1> SUFFICES ASSUME NEW v \in Services, NEW k \in inbox'[v]
               PROVE  \E m \in handled' \cap Claimable : Here(m) = v /\ InboxKey(m) = k
    BY DEF ClaimedHandled
  <1>1. CASE UNCHANGED <<tables, history>>
    BY <1>1 DEF tables, history, ClaimedHandled
  <1>2. ASSUME NEW m, NEW s, Unit(m, s)
        PROVE  \E n \in handled' \cap Claimable : Here(n) = v /\ InboxKey(n) = k
    <2>1. handled' = handled \cup {m} /\ Handling(m)
      BY <1>2, UnitEffect DEF Unit
    <2>2. CASE k \in inbox[v]
      BY <2>1, <2>2 DEF ClaimedHandled
    <2>3. CASE k \notin inbox[v]
      <3>1. v = Here(m) /\ k = InboxKey(m) /\ Claims(m, s)
        BY <1>2, <2>3, UnitEffect
      <3>2. m \in Claimable
        BY <2>1, <3>1, ClaimsClaimable DEF Claims
      <3> QED
        BY <2>1, <3>1, <3>2
    <2> QED
      BY <2>2, <2>3
  <1> QED
    BY <1>1, <1>2, NextUnits

LEMMA DuplicateHandled ==
    ASSUME KeysTellApart, Shape, DuplicateInv
    PROVE  DuplicateMeansHandled
  <1> SUFFICES ASSUME NEW m, Handling(m), IsDuplicate(m, "action")
               PROVE  m \in handled
    BY DEF DuplicateMeansHandled, Handling
  <1>1. m.from # NoStep /\ InboxKey(m) \in inbox[Here(m)]
    BY DEF IsDuplicate, Claims
  <1>2. m \in Claimable
    BY <1>1, ClaimsClaimable DEF DuplicateInv
  <1>3. PICK n \in handled \cap Claimable : Here(n) = Here(m) /\ InboxKey(n) = InboxKey(m)
    BY <1>1, HandlingFacts DEF DuplicateInv, ClaimedHandled
  <1>4. n.from = m.from
    BY <1>3 DEF InboxKey
  <1> QED
    BY <1>2, <1>3, <1>4 DEF KeysTellApart

\* Where the inbox key tells the messages of a service apart, a message that
\* is acknowledged as a duplicate is one: it led to a unit of work before.
THEOREM DuplicatesAreDuplicates ==
    ASSUME KeysTellApart
    PROVE  Spec => []DuplicateMeansHandled
  <1>1. Init => DuplicateInv
    BY StartLength DEF Init, DuplicateInv, HandsOn, ClaimedHandled, Running
  <1>2. Shape /\ DuplicateInv /\ [Next]_vars => DuplicateInv'
    BY HandsOnStep, ClaimedStep DEF DuplicateInv
  <1>3. Shape /\ DuplicateInv => DuplicateMeansHandled
    BY DuplicateHandled
  <1> QED
    BY <1>1, <1>2, <1>3, ShapeAlways, PTL DEF Spec

-----------------------------------------------------------------------------
(* The refinement of SagaOrder.  Every unit of work that concerns a step   *)
(* of the chain is a step of the order at its position: the sender of its  *)
(* message, or the step before it in the start, is the neighbour whose     *)
(* effect or failure the order asks for.                                   *)

Acted == {n \in StepNames : executed[n] > 0}
Undone == {n \in StepNames : compensated[n] > 0}

LEMMA ChainFacts ==
    /\ Len(Chain) \in Nat /\ DOMAIN Chain = 1 .. Len(Chain)
    /\ \A i \in DOMAIN Chain : Chain[i] \in StepNames
  BY SagaAssumption

LEMMA PositionsGrow ==
    ASSUME AlongChain, NEW names, NEW n
    PROVE  \/ Positions(names \cup {n}) = Positions(names)
           \/ \E i \in 1 .. Len(Chain) :
                 Chain[i] = n /\ Positions(names \cup {n}) = Positions(names) \cup {i}
  <1>1. CASE n \notin {Chain[i] : i \in DOMAIN Chain}
    BY <1>1 DEF Positions
  <1>2. CASE \E i \in DOMAIN Chain : Chain[i] = n
    <2>1. PICK i \in DOMAIN Chain : Chain[i] = n
      BY <1>2
    <2>2. \A j \in DOMAIN Chain : Chain[j] = n => j = i
      BY <2>1 DEF AlongChain
    <2>3. Positions(names \cup {n}) = Positions(names) \cup {i}
      BY <2>1, <2>2 DEF Positions
    <2> QED
      BY <2>1, <2>3, ChainFacts
  <1> QED
    BY <1>1, <1>2

\* A step is executed or fails only after the one before it in the chain was
\* executed.
LEMMA TurnCame ==
    ASSUME AlongChain, Shape, NEW m, NEW s, Unit(m, s), Executes(m, s) \/ GivesUp(m, s),
           NEW i \in 1 .. Len(Chain), Chain[i] = m.step.name, i # 1
    PROVE  i - 1 \in 1 .. Len(Chain) /\ Went(Chain[i - 1])
  <1>1. i \in DOMAIN Chain /\ i > 1 /\ i - 1 \in 1 .. Len(Chain)
    BY ChainFacts
  <1>2. m.type = "execute"
    BY DEF Executes, GivesUp
  <1>3. CASE m \in sent
    <2>1. PICK p \in Used : m \in EventsOf(p)
      BY <1>3 DEF Shape, SentKnown
    <2>2. m.from = p.name /\ Forward(p, Chain[i])
      BY <1>2, <2>1, EventFacts
    <2>3. p.name = Chain[i - 1]
      BY <1>1, <2>2 DEF AlongChain
    <2> QED
      BY <1>1, <1>2, <1>3, <2>2, <2>3 DEF Shape, SentKnown
  <1>4. CASE Running /\ m = Input
    <2>1. /\ m.step = StartSteps[call.at] /\ m.saga = call.saga
          /\ call.at \in DOMAIN StartSteps
      BY <1>4 DEF Input, Running
    <2>2. /\ call.at > 1 /\ StartSteps[call.at - 1].name = Chain[i - 1]
          /\ m.step.next # {}
      BY <1>1, <2>1 DEF AlongChain
    <2>3. TargetTopics(m, s) # {}
      BY <1>2, <2>2 DEF TargetTopics, Executes, GivesUp, UserStages
    <2>4. Rows(m, s) # {}
      <3>1. PICK t : t \in TargetTopics(m, s)
        BY <2>3
      <3>2. [saga |-> m.saga, topic |-> t, phase |-> Phase(m, s)] \in Rows(m, s)
        BY <3>1 DEF Rows
      <3> QED
        BY <3>2
    <2>5. call.saga = Saga
      BY <2>1, <2>4, UnitEffect DEF Shape, CallKnown
    <2> QED
      BY <1>1, <1>4, <2>2, <2>5 DEF Shape, CallKnown
  <1> QED
    BY <1>3, <1>4 DEF Unit, Handling

\* A step is undone only after the one behind it in the chain failed or was
\* undone.
LEMMA BackCame ==
    ASSUME AlongChain, Shape, NEW m, NEW s, Unit(m, s), Undoes(m, s),
           NEW i \in 1 .. Len(Chain), Chain[i] = m.step.name
    PROVE  i + 1 \in 1 .. Len(Chain) /\ Broke(Chain[i + 1])
  <1>1. i \in DOMAIN Chain
    BY ChainFacts
  <1>2. m.type = "failed" /\ m \in sent
    BY DEF Undoes
  <1>3. PICK p \in Used : m \in EventsOf(p)
    BY <1>2 DEF Shape, SentKnown
  <1>4. m.from = p.name /\ Back(p, Chain[i])
    BY <1>2, <1>3, EventFacts
  <1>5. i < Len(Chain) /\ p.name = Chain[i + 1]
    BY <1>1, <1>4 DEF AlongChain
  <1>6. i + 1 \in 1 .. Len(Chain)
    BY <1>5, ChainFacts
  <1> QED
    BY <1>2, <1>4, <1>5, <1>6 DEF Shape, SentKnown

\* A unit of work in the terms of the order.
LEMMA UnitOrder ==
    ASSUME Shape, NEW m, NEW s, Unit(m, s)
    PROVE  /\ m.step.name \in StepNames
           /\ \/ /\ Executes(m, s)
                 /\ Acted' = Acted \cup {m.step.name} /\ UNCHANGED <<failed, Undone>>
              \/ /\ Undoes(m, s)
                 /\ Undone' = Undone \cup {m.step.name} /\ UNCHANGED <<failed, Acted>>
              \/ /\ GivesUp(m, s)
                 /\ failed' = failed \cup {m.step.name} /\ UNCHANGED <<Acted, Undone>>
  <1>1. m.step.name \in StepNames
    BY HandlingFacts DEF Unit
  <1>2. CASE Executes(m, s)
    <2>1. \A n \in StepNames : executed'[n] > 0 <=> executed[n] > 0 \/ n = m.step.name
      BY <1>2, UnitCounts, Counts
    <2> QED
      BY <1>1, <1>2, <2>1 DEF Executes, Acted, Undone
  <1>3. CASE Undoes(m, s)
    <2>1. \A n \in StepNames : compensated'[n] > 0 <=> compensated[n] > 0 \/ n = m.step.name
      BY <1>3, UnitCounts, Counts
    <2> QED
      BY <1>1, <1>3, <2>1 DEF Undoes, Acted, Undone
  <1>4. CASE GivesUp(m, s)
    BY <1>1, <1>4 DEF GivesUp, Acted, Undone
  <1> QED
    BY <1>1, <1>2, <1>3, <1>4, UnitKinds

LEMMA UnitRefines ==
    ASSUME AlongChain, Shape, NEW m, NEW s, Unit(m, s)
    PROVE  [Order!Next]_(Order!vars)
  <1> DEFINE n == m.step.name
             ex == Positions(Acted)
             fa == Positions(failed)
             co == Positions(Undone)
  <1>1. n \in StepNames
    BY HandlingFacts DEF Unit
  <1>2. \A i \in 1 .. Len(Chain), names \in SUBSET StepNames :
           i \in Positions(names) <=> Chain[i] \in names
    BY ChainFacts DEF Positions
  <1>3. Acted \in SUBSET StepNames /\ Undone \in SUBSET StepNames /\ failed \in SUBSET StepNames
    BY DEF Acted, Undone, Shape, TypeOK
  <1>4. CASE Executes(m, s)
    <2>1. Acted' = Acted \cup {n} /\ failed' = failed /\ Undone' = Undone
      BY <1>4, UnitOrder DEF Executes, Undoes, GivesUp, UserStages
    <2>2. fa' = fa /\ co' = co
      BY <2>1 DEF Positions
    <2>3. ex' = Positions(Acted \cup {n})
      BY <2>1 DEF Positions
    <2>4. CASE ex' = ex
      BY <2>2, <2>4 DEF Order!vars, Acted, Undone
    <2>5. CASE \E i \in 1 .. Len(Chain) : Chain[i] = n /\ ex' = ex \cup {i}
      <3>1. PICK i \in 1 .. Len(Chain) : Chain[i] = n /\ ex' = ex \cup {i}
        BY <2>5
      <3>2. i = 1 \/ i - 1 \in ex
        <4>1. ASSUME i # 1 PROVE i - 1 \in 1 .. Len(Chain) /\ Chain[i - 1] \in Acted
          BY <1>4, <3>1, <4>1, TurnCame, ChainFacts DEF Went, Acted
        <4> QED
          BY <1>2, <1>3, <4>1
      <3>3. Order!Execute(i)
        BY <2>2, <3>1, <3>2 DEF Order!Execute, Order!Reached, Acted, Undone
      <3> QED
        BY <3>3 DEF Order!Next
    <2> QED
      BY <2>3, <2>4, <2>5, PositionsGrow
  <1>5. CASE GivesUp(m, s)
    <2>1. failed' = failed \cup {n} /\ Acted' = Acted /\ Undone' = Undone
      BY <1>5, UnitOrder DEF Executes, Undoes, GivesUp, UserStages
    <2>2. ex' = ex /\ co' = co
      BY <2>1 DEF Positions
    <2>3. fa' = Positions(failed \cup {n})
      BY <2>1 DEF Positions
    <2>4. CASE fa' = fa
      BY <2>2, <2>4 DEF Order!vars, Acted, Undone
    <2>5. CASE \E i \in 1 .. Len(Chain) : Chain[i] = n /\ fa' = fa \cup {i}
      <3>1. PICK i \in 1 .. Len(Chain) : Chain[i] = n /\ fa' = fa \cup {i}
        BY <2>5
      <3>2. i = 1 \/ i - 1 \in ex
        <4>1. ASSUME i # 1 PROVE i - 1 \in 1 .. Len(Chain) /\ Chain[i - 1] \in Acted
          BY <1>5, <3>1, <4>1, TurnCame, ChainFacts DEF Went, Acted
        <4> QED
          BY <1>2, <1>3, <4>1
      <3>3. Order!Fail(i)
        BY <2>2, <3>1, <3>2 DEF Order!Fail, Order!Reached, Acted, Undone
      <3> QED
        BY <3>3 DEF Order!Next
    <2> QED
      BY <2>3, <2>4, <2>5, PositionsGrow
  <1>6. CASE Undoes(m, s)
    <2>1. Undone' = Undone \cup {n} /\ Acted' = Acted /\ failed' = failed
      BY <1>6, UnitOrder DEF Executes, Undoes, GivesUp, UserStages
    <2>2. ex' = ex /\ fa' = fa
      BY <2>1 DEF Positions
    <2>3. co' = Positions(Undone \cup {n})
      BY <2>1 DEF Positions
    <2>4. CASE co' = co
      BY <2>2, <2>4 DEF Order!vars, Acted, Undone
    <2>5. CASE \E i \in 1 .. Len(Chain) : Chain[i] = n /\ co' = co \cup {i}
      <3>1. PICK i \in 1 .. Len(Chain) : Chain[i] = n /\ co' = co \cup {i}
        BY <2>5
      <3>2. i + 1 \in fa \cup co
        <4>1. i + 1 \in 1 .. Len(Chain) /\ Chain[i + 1] \in failed \cup Undone
          BY <1>6, <3>1, BackCame, ChainFacts DEF Broke, Undone
        <4> QED
          BY <1>2, <1>3, <4>1
      <3>3. Order!Compensate(i)
        BY <2>2, <3>1, <3>2 DEF Order!Compensate, Acted, Undone
      <3> QED
        BY <3>3 DEF Order!Next
    <2> QED
      BY <2>3, <2>4, <2>5, PositionsGrow
  <1> QED
    BY <1>4, <1>5, <1>6, UnitKinds

\* Along a chain of steps, over any number of services, the saga goes forward
\* one by one, fails where its turn is, and is undone one by one from there,
\* whatever the delivery of messages.
THEOREM Refinement ==
    ASSUME AlongChain
    PROVE  Spec => ImplementsSagaOrder
  <1>1. Init => Order!Init
    <2> SUFFICES ASSUME Init PROVE Order!Init
      OBVIOUS
    <2>1. Acted = {} /\ Undone = {} /\ failed = {}
      BY DEF Init, Acted, Undone
    <2> QED
      BY <2>1 DEF Order!Init, Positions, Acted, Undone
  <1>2. Shape /\ [Next]_vars => [Order!Next]_(Order!vars)
    <2> SUFFICES ASSUME Shape, [Next]_vars PROVE [Order!Next]_(Order!vars)
      OBVIOUS
    <2>1. CASE UNCHANGED <<tables, history>>
      BY <2>1 DEF history, Order!vars, Positions
    <2> QED
      BY <2>1, UnitRefines, NextUnits
  <1> QED
    BY <1>1, <1>2, ShapeAlways, PTL DEF Spec, ImplementsSagaOrder, Order!Spec

-----------------------------------------------------------------------------
(* What the order means.  The steps that were executed are a prefix of the *)
(* chain, so is what lies before a failure, and compensation has come back *)
(* from a failure.  This is an invariant of SagaOrder, and the services    *)
(* have it because they implement SagaOrder.                               *)

ExecutedAt == Positions(Acted)
FailedAt == Positions(failed)
UndoneAt == Positions(Undone)

BeforeExecuted == \A i \in ExecutedAt : 1 .. i \subseteq ExecutedAt
BeforeFailed == \A j \in FailedAt : 1 .. (j - 1) \subseteq ExecutedAt
OnTheWayBack ==
    \A i \in UndoneAt : \E j \in FailedAt : i < j /\ i .. (j - 1) \subseteq UndoneAt
OrderInv == BeforeExecuted /\ BeforeFailed /\ OnTheWayBack

LEMMA OrderInvInit == Order!Init => OrderInv
  <1> SUFFICES ASSUME Order!Init PROVE OrderInv
    OBVIOUS
  <1>1. ExecutedAt = {} /\ FailedAt = {} /\ UndoneAt = {}
    BY DEF Order!Init, ExecutedAt, FailedAt, UndoneAt, Acted, Undone
  <1> QED
    BY <1>1 DEF OrderInv, BeforeExecuted, BeforeFailed, OnTheWayBack

LEMMA PositionTypes ==
    /\ Len(Chain) \in Nat /\ DOMAIN Chain = 1 .. Len(Chain)
    /\ ExecutedAt \subseteq 1 .. Len(Chain)
    /\ FailedAt \subseteq 1 .. Len(Chain)
    /\ UndoneAt \subseteq 1 .. Len(Chain)
  BY SagaAssumption DEF ExecutedAt, FailedAt, UndoneAt, Positions

LEMMA OrderInvStep ==
    ASSUME OrderInv, [Order!Next]_(Order!vars)
    PROVE  OrderInv'
  <1>0. 1 .. Len(Chain) \subseteq Nat
    BY PositionTypes
  <1>1. PICK E \in SUBSET Nat, F \in SUBSET Nat, C \in SUBSET Nat :
           E = ExecutedAt /\ F = FailedAt /\ C = UndoneAt
    <2>1. ExecutedAt \in SUBSET Nat /\ FailedAt \in SUBSET Nat /\ UndoneAt \in SUBSET Nat
      BY <1>0, PositionTypes
    <2> QED
      BY <2>1, Zenon
  <1>2. /\ \A i \in E : 1 .. i \subseteq E
        /\ \A j \in F : 1 .. (j - 1) \subseteq E
        /\ \A i \in C : \E j \in F : i < j /\ i .. (j - 1) \subseteq C
    BY <1>1 DEF OrderInv, BeforeExecuted, BeforeFailed, OnTheWayBack
  <1>3. CASE UNCHANGED Order!vars
    <2>1. ExecutedAt' = E /\ FailedAt' = F /\ UndoneAt' = C
      BY <1>1, <1>3 DEF Order!vars, ExecutedAt, FailedAt, UndoneAt, Acted, Undone
    <2> QED
      BY <1>2, <2>1 DEF OrderInv, BeforeExecuted, BeforeFailed, OnTheWayBack
  <1>4. ASSUME NEW i \in 1 .. Len(Chain), Order!Execute(i)
        PROVE  OrderInv'
    <2>1. ExecutedAt' = E \cup {i} /\ FailedAt' = F /\ UndoneAt' = C /\ (i = 1 \/ i - 1 \in E)
      BY <1>1, <1>4 DEF Order!Execute, Order!Reached, ExecutedAt, FailedAt, UndoneAt, Acted, Undone
    <2>2. i \in Nat
      BY <1>0
    <2>3. 1 .. (i - 1) \subseteq E
      BY <1>2, <2>1, <2>2
    <2>4. 1 .. i \subseteq E \cup {i}
      BY <2>2, <2>3
    <2> QED
      BY <1>2, <2>1, <2>4 DEF OrderInv, BeforeExecuted, BeforeFailed, OnTheWayBack
  <1>5. ASSUME NEW i \in 1 .. Len(Chain), Order!Fail(i)
        PROVE  OrderInv'
    <2>1. ExecutedAt' = E /\ FailedAt' = F \cup {i} /\ UndoneAt' = C /\ (i = 1 \/ i - 1 \in E)
      BY <1>1, <1>5 DEF Order!Fail, Order!Reached, ExecutedAt, FailedAt, UndoneAt, Acted, Undone
    <2>2. i \in Nat
      BY <1>0
    <2>3. 1 .. (i - 1) \subseteq E
      BY <1>2, <2>1, <2>2
    <2> QED
      BY <1>2, <2>1, <2>3 DEF OrderInv, BeforeExecuted, BeforeFailed, OnTheWayBack
  <1>6. ASSUME NEW i \in 1 .. Len(Chain), Order!Compensate(i)
        PROVE  OrderInv'
    <2>1. ExecutedAt' = E /\ FailedAt' = F /\ UndoneAt' = C \cup {i} /\ i + 1 \in F \cup C
      BY <1>1, <1>6 DEF Order!Compensate, ExecutedAt, FailedAt, UndoneAt, Acted, Undone
    <2>2. i \in Nat
      BY <1>0
    <2>3. \E j \in F : i < j /\ i .. (j - 1) \subseteq C \cup {i}
      <3>1. CASE i + 1 \in F
        BY <2>2, <3>1
      <3>2. CASE i + 1 \in C
        <4>1. PICK j \in F : i + 1 < j /\ (i + 1) .. (j - 1) \subseteq C
          BY <1>2, <3>2
        <4>2. i .. (j - 1) \subseteq C \cup {i}
          BY <2>2, <4>1
        <4> QED
          BY <2>2, <4>1, <4>2
      <3> QED
        BY <2>1, <3>1, <3>2
    <2>4. \A k \in C : \E j \in F : k < j /\ k .. (j - 1) \subseteq C \cup {i}
      BY <1>2
    <2> QED
      BY <1>2, <2>1, <2>3, <2>4 DEF OrderInv, BeforeExecuted, BeforeFailed, OnTheWayBack
  <1> QED
    BY <1>3, <1>4, <1>5, <1>6 DEF Order!Next

LEMMA OrderRunsBack == OrderInv => Order!RunsBack
  <1> SUFFICES ASSUME OrderInv, NEW i \in UndoneAt
               PROVE  /\ i \in ExecutedAt
                      /\ \E j \in FailedAt : i < j /\ i .. (j - 1) \subseteq UndoneAt
    BY DEF Order!RunsBack, ExecutedAt, FailedAt, UndoneAt, Acted, Undone
  <1>1. PICK j \in FailedAt : i < j /\ i .. (j - 1) \subseteq UndoneAt
    BY DEF OrderInv, OnTheWayBack
  <1>2. i \in 1 .. (j - 1)
    BY <1>1, PositionTypes
  <1> QED
    BY <1>1, <1>2 DEF OrderInv, BeforeFailed

\* Steps are undone only after they took effect, and in the reverse order, back
\* from a step that failed.
THEOREM CompensationIsOrdered ==
    ASSUME AlongChain
    PROVE  Spec => []CompensationRunsBack
  <1>1. Spec => Order!Spec
    BY Refinement DEF ImplementsSagaOrder
  <1>2. Order!Spec => []OrderInv
    BY OrderInvInit, OrderInvStep, PTL DEF Order!Spec
  <1> QED
    BY <1>1, <1>2, OrderRunsBack, PTL DEF CompensationRunsBack

-----------------------------------------------------------------------------
(* The start stops at a failure, when its steps write events.              *)

LEMMA StartStopsStep ==
    ASSUME StartWritesEvents, Shape, StartStopsAtFailure, [Next]_vars
    PROVE  StartStopsAtFailure'
  <1> SUFFICES ASSUME NEW i \in 2 .. Len(StartSteps), executed'[StartSteps[i].name] > 0
               PROVE  executed'[StartSteps[i - 1].name] > 0
    BY DEF StartStopsAtFailure, Done
  <1>1. i \in DOMAIN StartSteps /\ i - 1 \in DOMAIN StartSteps /\ i \in Nat /\ i > 1
    BY StartLength
  <1>2. PICK a, b : a = StartSteps[i].name /\ b = StartSteps[i - 1].name
    OBVIOUS
  <1>3. a \in StepNames /\ b \in StepNames
    BY <1>1, <1>2, StartUsed, UsedSteps
  <1>4. Went(b) => executed'[b] > 0
    BY <1>3, NeverForgets DEF Went
  <1>5. CASE Went(a)
    BY <1>2, <1>4, <1>5 DEF StartStopsAtFailure, Done, Went
  <1>6. CASE ~Went(a)
    <2>1. ~UNCHANGED <<tables, history>>
      BY <1>2, <1>6 DEF history, Went
    <2>2. PICK m, s : s \in Units(m) /\ Unit(m, s)
      BY <2>1, NextUnits
    <2>3. Executes(m, s) /\ a = m.step.name
      BY <1>2, <1>3, <1>6, <2>2, UnitCounts DEF Went
    <2>4. m.type = "execute" /\ s \in UserStages
      BY <2>3 DEF Executes
    <2>5. m \notin sent
      <3> SUFFICES ASSUME m \in sent PROVE FALSE
        OBVIOUS
      <3>1. PICK p \in Used : m \in EventsOf(p)
        BY DEF Shape, SentKnown
      <3>2. Forward(p, m.step.name)
        BY <2>4, <3>1, EventFacts
      <3>3. m.step.name = StartSteps[i].name
        BY <1>2, <2>3
      <3> QED
        BY <3>1, <3>2, <3>3 DEF StartWritesEvents
    <2>6. Running /\ m = Input
      BY <2>2, <2>5 DEF Unit, Handling
    <2>7. m.saga = call.saga /\ m.step = StartSteps[call.at] /\ call.at \in DOMAIN StartSteps
      BY <2>6 DEF Input, Running
    <2>8. call.at = i
      BY <1>1, <1>2, <2>3, <2>7 DEF StartWritesEvents
    <2>9. m.saga # NoSaga
      <3> SUFFICES ASSUME m.saga = NoSaga PROVE FALSE
        OBVIOUS
      <3>1. Rows(m, s) = {}
        BY <2>2, UnitEffect
      <3>2. PICK t : t \in m.step.next
        BY <2>7, <2>8 DEF StartWritesEvents
      <3>3. t \in TargetTopics(m, s)
        BY <2>4, <3>2 DEF TargetTopics
      <3> QED
        BY <3>1, <3>3 DEF Rows
    <2>10. Went(StartSteps[i - 1].name)
      BY <1>1, <2>6, <2>7, <2>8, <2>9 DEF Shape, CallKnown
    <2> QED
      BY <1>2, <1>4, <2>10
  <1> QED
    BY <1>5, <1>6

\* A step of StartSagaWithSteps does not take effect after one that failed, if
\* it writes events: ExecuteStep reports no error for a failure it recorded,
\* and the loop of the start goes on, but with a message no event can be
\* written for.
THEOREM StartStops ==
    ASSUME StartWritesEvents
    PROVE  Spec => []StartStopsAtFailure
  <1>1. Init => StartStopsAtFailure
    <2> SUFFICES ASSUME Init, NEW i \in 2 .. Len(StartSteps)
                 PROVE  ~(executed[StartSteps[i].name] > 0)
      BY DEF StartStopsAtFailure, Done
    <2>1. i \in DOMAIN StartSteps
      BY StartLength
    <2>2. StartSteps[i].name \in StepNames
      BY <2>1, StartUsed, UsedSteps
    <2> QED
      BY <2>2 DEF Init
  <1> QED
    BY <1>1, StartStopsStep, ShapeAlways, PTL DEF Spec

=============================================================================
