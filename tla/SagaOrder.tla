------------------------------ MODULE SagaOrder -----------------------------
(***************************************************************************)
(* What a choreographed saga over a chain of steps promises: the chain is  *)
(* walked forward one step at a time, a step fails only when its turn has  *)
(* come, and compensation walks back from a failure, one step at a time.   *)
(* Positions 1 .. Length are the steps in their order.                     *)
(***************************************************************************)
EXTENDS Naturals

CONSTANT Length

VARIABLES executed, failed, compensated

vars == <<executed, failed, compensated>>

Reached(i) == i = 1 \/ i - 1 \in executed

Init == executed = {} /\ failed = {} /\ compensated = {}

Execute(i) == /\ Reached(i)
              /\ executed' = executed \cup {i}
              /\ UNCHANGED <<failed, compensated>>

Fail(i) == /\ Reached(i)
           /\ failed' = failed \cup {i}
           /\ UNCHANGED <<executed, compensated>>

Compensate(i) == /\ i + 1 \in failed \cup compensated
                 /\ compensated' = compensated \cup {i}
                 /\ UNCHANGED <<executed, failed>>

Next == \E i \in 1 .. Length : Execute(i) \/ Fail(i) \/ Compensate(i)

Spec == Init /\ [][Next]_vars

\* A step is undone only if it was executed, and only on the way back from a
\* failure: a step behind it failed and all steps between them are undone.
RunsBack == \A i \in compensated :
                /\ i \in executed
                /\ \E j \in failed : i < j /\ i .. (j - 1) \subseteq compensated

=============================================================================
