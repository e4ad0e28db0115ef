----------------------------- MODULE AtomicStep -----------------------------
(***************************************************************************)
(* What the executor promises the service's database: whatever happens     *)
(* between BeginTx and Commit, the tables only ever see whole units of     *)
(* work.  One step claims the message in the inbox, applies the business   *)
(* effect and records the outgoing events, all together, and only if the   *)
(* message was not claimed and the events were not recorded before.        *)
(***************************************************************************)
EXTENDS ServiceMessages

VARIABLES inbox, outbox, done

tables == <<inbox, outbox, done>>

Init == /\ inbox = {}
        /\ outbox = {}
        /\ done = [m \in Messages |-> [s \in Stages |-> 0]]

Process(m, s) ==
    /\ Claims(m, s) => InboxKey(m) \notin inbox
    /\ Rows(m, s) \cap outbox = {}
    /\ inbox' = inbox \cup (IF Claims(m, s) THEN {InboxKey(m)} ELSE {})
    /\ outbox' = outbox \cup Rows(m, s)
    /\ done' = [done EXCEPT ![m][s] = @ + 1]

Next == \E m \in Messages, s \in Stages : Process(m, s)

Spec == Init /\ [][Next]_tables

=============================================================================
