----------------------------- MODULE MCExecutor -----------------------------
(***************************************************************************)
(* Small instances of Executor for TLC.  The saga runs A -> B -> C; the    *)
(* service under test registers A and B and starts sagas with S.           *)
(***************************************************************************)
EXTENDS Executor, TLC

CONSTANTS w1, w2, g1, g2

MCStepNames == {"A", "B", "C", "S"}
MCTopics == {"toA", "toC", "toB"}

\* B with both error handlers and a RetryPolicy of one attempt
StepB == [name |-> "B", next |-> {"toC"}, error |-> {"toA"}, onError |-> TRUE,
          onCompensateError |-> TRUE, retry |-> 1]

\* A, the first step of the saga: nobody is told that it was compensated.
FirstA == [StepB EXCEPT !.name = "A", !.next = {"toB"}, !.error = {}]

\* B without error handlers, and as the last step of its saga
BareB == [StepB EXCEPT !.onError = FALSE, !.onCompensateError = FALSE]
LastB == [BareB EXCEPT !.next = {}]

\* S, the first step of its saga: nobody is told that it failed.
StepS == [name |-> "S", next |-> {"toB"}, error |-> {}, onError |-> TRUE,
          onCompensateError |-> FALSE, retry |-> 2]

Exec(s) == [saga |-> g1, from |-> "A", type |-> "execute", step |-> s]
Comp(s) == [saga |-> g1, from |-> "C", type |-> "failed", step |-> s]
Start(s) == [saga |-> g2, from |-> NoStep, type |-> "execute", step |-> s]

\* Redelivery: the saga comes to B, and the failure of C comes back to A,
\* whose compensation writes no row that could stand in for the claim.
BothWays == {Exec(StepB), Comp(FirstA)}

\* A saga starts here, and the second step of another start, whose message
\* arrives as an event too.
Starting == {Start(StepS), Exec(BareB)}

JustB == {Exec(StepB)}
JustLast == {Exec(LastB)}

MCSteps == {FirstA, StepB, BareB, LastB, StepS}

WorkerSymmetry == Permutations(Workers)

=============================================================================
