-------------------------------- MODULE Saga --------------------------------
(***************************************************************************)
(* One saga across services: a call of StartSagaWithSteps in one service,  *)
(* the handlers Register installed in the others, their databases, the     *)
(* outbox readers and the broker between them.                             *)
(*                                                                         *)
(* A service changes its database by whole units of work (Executor         *)
(* implements AtomicStep; a unit here is a Process step of it).  What the  *)
(* attempts between the units do is left to chance: an attempt may fail,   *)
(* a message may be handled again before or after it was acknowledged.     *)
(* An event may be published at any time after it was recorded, and a      *)
(* published message may be delivered any number of times, in any order.   *)
(* One saga is enough: every key contains the saga id.                     *)
(***************************************************************************)
EXTENDS SagaStep, Sequences

CONSTANTS
    Services,
    ServiceOf,      \* the service each step lives in
    Registered,     \* the step registered on each topic
    StartSteps,     \* the steps given to StartSagaWithSteps
    Chain,          \* the names of the saga's steps in their order
    Saga,           \* the id StartSagaWithSteps generates
    NoSaga,         \* the empty SagaID of message.Message{}
    MaxLostCommits  \* bound: commits of the start whose answer is lost

ASSUME SagaAssumption ==
    /\ Saga \in Sagas /\ NoSaga \notin Sagas
    /\ ServiceOf \in [StepNames -> Services]
    /\ DOMAIN Registered \subseteq Topics
    /\ \A t \in DOMAIN Registered : Registered[t] \in Steps
    /\ StartSteps \in Seq(Steps)
    /\ Chain \in Seq(StepNames)
    /\ MaxLostCommits \in Nat

VARIABLES
    inbox,        \* inbox rows of each service's database
    outbox,       \* outbox rows of each service's database
    sent,         \* messages the broker has received
    call,         \* the call of StartSagaWithSteps
    executed,     \* history: effects of Execute or OnError of each step
    compensated,  \* history: effects of Compensate or OnCompensateError
    failed,       \* history: steps whose failure event was recorded
    handled,      \* history: messages that led to some unit of work
    lost          \* commits whose answer was lost

tables == <<inbox, outbox>>
history == <<executed, compensated, failed, handled>>
vars == <<tables, sent, call, history, lost>>

Here(m) == ServiceOf[m.step.name]

\* A row of the outbox is its primary key and the step that wrote it.
RowsOf(m, s) == {[key |-> k, from |-> m.step.name] : k \in Rows(m, s)}

\* The message a row is published as, delivered to the handler of its topic.
Event(row) == [saga |-> row.key.saga, from |-> row.from,
               type |-> IF row.key.phase = "execute" THEN "execute" ELSE "failed",
               step |-> Registered[row.key.topic]]

\* The units of work a call of ExecuteStep or CompensateStep may commit.  The
\* failure event does not depend on the inbox: errors of the database lead to
\* it also when the message was processed before.
Units(m) == {"action"}
            \cup (IF HasHandler(m) THEN {"handler"} ELSE {})
            \cup (IF m.type = "execute" /\ m.step.error # {} THEN {"publish"} ELSE {})

IsDuplicateMutNever(m, s) == FALSE
IsDuplicate(m, s) == Claims(m, s) /\ InboxKey(m) \in inbox[Here(m)]

\* The primary key of the outbox admits the rows, and the saga id parses.
CanWriteMutAnySaga(m, s) == Rows(m, s) \cap {row.key : row \in outbox[Here(m)]} = {}
CanWrite(m, s) ==
    /\ Rows(m, s) \cap {row.key : row \in outbox[Here(m)]} = {}
    /\ m.saga = NoSaga => Rows(m, s) = {}

Count(history_, m) == [history_ EXCEPT ![m.step.name] = @ + 1]

\* One transaction commits: claim, effect and events (AtomicStep's Process).
Process(m, s) ==
    /\ ~IsDuplicate(m, s)
    /\ CanWrite(m, s)
    /\ inbox' = [inbox EXCEPT ![Here(m)] = @ \cup (IF Claims(m, s) THEN {InboxKey(m)} ELSE {})]
    /\ outbox' = [outbox EXCEPT ![Here(m)] = @ \cup RowsOf(m, s)]
    /\ executed' = IF s \in UserStages /\ m.type = "execute" THEN Count(executed, m) ELSE executed
    /\ compensated' = IF m.type = "failed" THEN Count(compensated, m) ELSE compensated
    /\ failed' = IF s = "publish" THEN failed \cup {m.step.name} ELSE failed
    /\ handled' = handled \cup {m}

-----------------------------------------------------------------------------
Init == /\ inbox = [v \in Services |-> {}]
        /\ outbox = [v \in Services |-> {}]
        /\ sent = {}
        /\ call = [at |-> 0, saga |-> Saga, from |-> NoStep]
        /\ executed = [n \in StepNames |-> 0]
        /\ compensated = [n \in StepNames |-> 0]
        /\ failed = {}
        /\ handled = {}
        /\ lost = 0

\* The outbox reader of service v publishes a row.
Publish(v, row) ==
    /\ row \in outbox[v]
    /\ row.key.topic \in DOMAIN Registered
    /\ Event(row) \notin sent
    /\ sent' = sent \cup {Event(row)}
    /\ UNCHANGED <<tables, call, history, lost>>

\* The handler of Register commits a unit of work for message m.
Handle(m) == /\ m \in sent
             /\ \E s \in Units(m) : Process(m, s)
             /\ UNCHANGED <<sent, call, lost>>

-----------------------------------------------------------------------------
(* StartSagaWithSteps: at counts the steps begun; at = Len + 1 is a return. *)

\* The saga id is generated and the first step begins.
StartSaga == /\ call.at = 0
             /\ call' = [call EXCEPT !.at = 1]
             /\ UNCHANGED <<tables, sent, history, lost>>

Running == call.at \in DOMAIN StartSteps

\* The message ExecuteStep is called with.
Input == [saga |-> call.saga, from |-> call.from, type |-> "execute",
          step |-> StartSteps[call.at]]

Advance(saga, from) == call' = [at |-> call.at + 1, saga |-> saga, from |-> from]
Abort == call' = [call EXCEPT !.at = Len(StartSteps) + 1]

\* The result of the action goes to the next step.  FromStep is set only when
\* events were written; otherwise it is what the action put in its result: an
\* action builds a new message or passes its input on.
StepSucceeds ==
    /\ Running
    /\ \E s \in Units(Input) \cap UserStages : Process(Input, s)
    /\ IF Input.step.next # {} THEN Advance(call.saga, Input.step.name)
       ELSE \E from \in {NoStep, call.from} : Advance(call.saga, from)
    /\ UNCHANGED <<sent, lost>>

\* A commit applies and reports an error: the retrier starts over.
StepCommitLost ==
    /\ Running
    /\ lost < MaxLostCommits
    /\ lost' = lost + 1
    /\ \E s \in Units(Input) : Process(Input, s)
    /\ UNCHANGED <<sent, call>>

\* ExecuteStep returns an empty message and no error: the input was claimed
\* before and there is no OnError, the failure event was recorded, or the
\* step has no ErrorTopics.  The loop goes on with the empty message.
AfterFailureEvent == Advance(NoSaga, NoStep)

StepIsDuplicate == /\ Running
                   /\ IsDuplicate(Input, "action")
                   /\ ~Input.step.onError
                   /\ AfterFailureEvent
                   /\ UNCHANGED <<tables, sent, history, lost>>

StepFails == /\ Running
             /\ IF "publish" \in Units(Input) THEN Process(Input, "publish")
                ELSE UNCHANGED <<tables, history>>
             /\ AfterFailureEvent
             /\ UNCHANGED <<sent, lost>>

\* The failure event cannot be written, the context is cancelled or the
\* process dies: the call ends.
StartAborts == /\ Running
               /\ Abort
               /\ UNCHANGED <<tables, sent, history, lost>>

Start == \/ StartSaga \/ StepSucceeds \/ StepCommitLost
         \/ StepIsDuplicate \/ StepFails \/ StartAborts

Next == \/ Start
        \/ \E v \in Services : \E row \in outbox[v] : Publish(v, row)
        \/ \E m \in sent : Handle(m)

(* Readers publish what is recorded: no outage outlasts MaxAttempts.  The   *)
(* broker redelivers a message until a handler acknowledged it, and user    *)
(* code succeeds or fails for good in the end: every message leads to one   *)
(* unit of work.  A second one, after a redelivery, is never forced.        *)
Fairness ==
    /\ WF_vars(\E v \in Services : \E row \in outbox[v] : Publish(v, row))
    /\ WF_vars(\E m \in sent \ handled : Handle(m))

Spec == Init /\ [][Next]_vars
FairSpec == Spec /\ Fairness

-----------------------------------------------------------------------------
(* Properties.                                                             *)

\* Type invariant.
TypeOK ==
    /\ inbox \in [Services -> SUBSET (Sagas \X StepNames)]
    /\ outbox \in [Services -> SUBSET [key: OutboxKeys, from: StepNames]]
    /\ sent \subseteq MessageType
    /\ call \in [at: 0 .. Len(StartSteps) + 1, saga: Sagas \cup {NoSaga},
                 from: StepNames \cup {NoStep}]
    /\ {executed, compensated} \subseteq [StepNames -> Nat]
    /\ failed \subseteq StepNames
    /\ handled \subseteq sent \cup [saga: Sagas \cup {NoSaga}, from: StepNames \cup {NoStep},
                                   type: {"execute"}, step: Steps]
    /\ lost \in 0 .. MaxLostCommits

\* However often messages are delivered, in whatever order, a step takes
\* effect once and is undone once.  The exception is a step of the start that
\* has no next topics: it is neither claimed nor does a row of the outbox
\* stand for it, and a lost commit repeats it (atomicRun, executor.go:211).
OnceOnly ==
    \A n \in StepNames :
        /\ compensated[n] <= 1
        /\ executed[n] <= 1 \/ \E i \in DOMAIN StartSteps :
                                  StartSteps[i].name = n /\ StartSteps[i].next = {}

\* A claim that finds the inbox key taken stands for a message that led to a
\* unit of work before: what the handler acknowledges as a duplicate is one
\* (ErrDuplicate, inbox.go:15; the key is the saga and the sender only).
DuplicateMeansHandled ==
    \A m \in sent \cup (IF Running THEN {Input} ELSE {}) :
        IsDuplicate(m, "action") => m \in handled

\* A saga whose call of StartSagaWithSteps got to its last step ends: its
\* last step takes effect, or its first step is undone.  No failure in the
\* middle is forgotten (outbox, redelivery, publishEvent, CompensateStep).
Done(n) == executed[n] > 0
LastStarted == StartSteps[Len(StartSteps)].name
SagaEnds ==
    Done(LastStarted) \/ LastStarted \in failed
        ~> Done(Chain[Len(Chain)]) \/ compensated[Chain[1]] > 0

\* The services together implement the order of a chain: forward one by one,
\* a failure at the step whose turn it is, and back one by one.
Positions(names) == {i \in DOMAIN Chain : Chain[i] \in names}
Order == INSTANCE SagaOrder WITH
            Length <- Len(Chain),
            executed <- Positions({n \in StepNames : executed[n] > 0}),
            failed <- Positions(failed),
            compensated <- Positions({n \in StepNames : compensated[n] > 0})
ImplementsSagaOrder == Order!Spec

\* However messages are delivered, a step is compensated only if it took
\* effect, and only after every step between it and one that failed
\* (CompensateStep writes the next failure event with the compensation).
CompensationRunsBack == Order!RunsBack

\* A saga is all or nothing: its last step does not take effect when its
\* first step is undone (the purpose of a saga: what was done is rolled back
\* when a step failed).
AllOrNothing ==
    ~(Done(Chain[Len(Chain)]) /\ compensated[Chain[1]] > 0)

\* A step of StartSagaWithSteps takes effect only after the one before it
\* did: an error of any step ends the saga.
StartStopsAtFailure ==
    \A i \in 2 .. Len(StartSteps) :
        Done(StartSteps[i].name) => Done(StartSteps[i - 1].name)

=============================================================================
