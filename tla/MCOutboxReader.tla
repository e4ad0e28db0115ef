--------------------------- MODULE MCOutboxReader ---------------------------
(***************************************************************************)
(* Small instances of OutboxReader for TLC, and of the backoff policy that *)
(* sets the next attempt of a row (calculateNextAttempt).                  *)
(***************************************************************************)
EXTENDS RowBackoff

CONSTANTS p1, p2

\* 1/2 stands for the default, 3/2 and 3 for themselves.
MCFactors == {[num |-> 1, den |-> 2], [num |-> 3, den |-> 2], [num |-> 3, den |-> 1]}

MCDurations == {0, 3, 20}

=============================================================================
