----------------------------- MODULE RowBackoff -----------------------------
(***************************************************************************)
(* The outbox readers with their backoff policy: how long a row waits      *)
(* after a failed publish, for every configuration of the policy.  The     *)
(* pause is computed from the attempts_counter that the reader's SELECT    *)
(* found, not from the one its UPDATE increments: another reader may have  *)
(* attempted the row in between.  When a pause is over is OutboxReader's   *)
(* due.                                                                    *)
(***************************************************************************)
EXTENDS OutboxReader, Backoff

CONSTANT Watched   \* the rows whose pauses are followed

ASSUME WatchedAssumption == Watched \subseteq Rows

VARIABLES
    counter,   \* AttemptCounter of the watched rows in each reader's buffer
    paused     \* history: the counter each reader last paused a row for, plus
               \* 1; 0 before the first time

rowVars == <<vars, counter, paused>>

\* Configurations with 0 <= minBackoff <= maxBackoff and a maximum.
Configs == {c \in [factor: Factors, min: Durations, max: Durations] :
               0 <= c.min /\ c.min <= c.max /\ 0 < c.max}

\* calculateNextAttempt with either policy, for a row whose AttemptCounter is n
Pause(n, c) == CalcBackoff(n, c.factor, c.min, c.max)
Pauses(n, c) == {Pause(n, c)} \cup CalcJitter(n, c.factor, c.min, c.max)

-----------------------------------------------------------------------------
Unread == [r \in Watched |-> 0]

RowInit == Init /\ counter = [p \in Readers |-> Unread] /\ paused = [p \in Readers |-> Unread]

\* What a SELECT puts into the buffer.
BufferedMutNone(batch) == Unread
Buffered(batch) == [r \in Watched |-> IF r \in batch THEN attempts[r] ELSE 0]

ReadRows(p) ==
    /\ ScanBatch(p)
    /\ counter' = [counter EXCEPT ![p] = Buffered(reader'[p].batch)]
    /\ UNCHANGED paused

\* What is left in the buffer when the reader goes on.
Rest(p) == [r \in Watched |-> IF r \in reader'[p].batch THEN counter[p][r] ELSE 0]

\* The result is recorded.  When the UPDATE of handlePublishError applies, the
\* row is paused for what the buffer says.
Record(p) ==
    /\ MarkProcessed(p) \/ MarkFailed(p) \/ UpdateFails(p)
    /\ paused' = IF attempts' = attempts \/ Current(p) \notin Watched THEN paused
                 ELSE [paused EXCEPT ![p][Current(p)] = counter[p][Current(p)] + 1]
    /\ counter' = [counter EXCEPT ![p] = Rest(p)]

NewReader(p) ==
    /\ Crash(p)
    /\ counter' = [counter EXCEPT ![p] = Unread]
    /\ UNCHANGED paused

Elsewhere == /\ \/ \E r \in Rows : Write(r) \/ BackoffElapses(r)
                \/ \E p \in Readers : Publish(p)
             /\ UNCHANGED <<counter, paused>>

RowNext == \/ Elsewhere
           \/ \E p \in Readers : ReadRows(p) \/ Record(p) \/ NewReader(p)

RowSpec == RowInit /\ [][RowNext]_rowVars
RowFairSpec == RowSpec /\ Fairness

-----------------------------------------------------------------------------
(* Properties.                                                             *)

\* However often a row was attempted, the pause a reader is to give it lies
\* between minBackoff and maxBackoff: it is no busy loop, does not overflow and,
\* with jitter, whatever the random number (calculateNextAttempt, CalcBackoff of
\* both policies).
BackoffWithinLimits ==
    \A p \in Readers, c \in Configs : \A r \in reader[p].batch \cap Watched :
        Pauses(counter[p][r], c) \subseteq c.min .. c.max

\* A reader never pauses a row for the same counter twice, nor for a shorter
\* time than it did before, whatever other readers, failed updates and crashes
\* come between; and no reader's pause was longer, unless another reader has
\* attempted the row since this one read it.  Then the buffer is stale, and the
\* pause may be shorter than the one it replaces (calculateNextAttempt takes
\* AttemptCounter from the buffer, buildUpdateOnErrQuery increments the column).
BackoffGrows ==
    \A p, q \in Readers : \A r \in reader[p].batch \cap Watched :
        q = p \/ counter[p][r] = attempts[r] =>
            /\ paused[q][r] <= counter[p][r]
            /\ paused[q][r] > 0 =>
                  \A c \in Configs : Pause(paused[q][r] - 1, c) <= Pause(counter[p][r], c)

=============================================================================
