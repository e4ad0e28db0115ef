--------------------------- MODULE OutboxDelivery ---------------------------
(***************************************************************************)
(* What an outbox promises: a message is recorded together with the work   *)
(* it reports, is sent to the broker only after that was committed, and is *)
(* settled only after the broker has it.  It may be sent again at any      *)
(* time: delivery is at least once, and in no particular order.            *)
(***************************************************************************)
CONSTANT Rows

VARIABLES
    written,     \* rows of committed transactions
    received,    \* rows whose message the broker has received
    settled      \* rows marked as processed

vars == <<written, received, settled>>

Init == written = {} /\ received = {} /\ settled = {}

Write(r) == /\ written' = written \cup {r}
            /\ UNCHANGED <<received, settled>>

Send(r) == /\ r \in written
           /\ received' = received \cup {r}
           /\ UNCHANGED <<written, settled>>

Settle(r) == /\ r \in received
             /\ settled' = settled \cup {r}
             /\ UNCHANGED <<written, received>>

Next == \E r \in Rows : Write(r) \/ Send(r) \/ Settle(r)

Spec == Init /\ [][Next]_vars

=============================================================================
