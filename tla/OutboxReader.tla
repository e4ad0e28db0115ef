---------------------------- MODULE OutboxReader ----------------------------
(***************************************************************************)
(* outbox.Reader: the readers of all replicas poll one outbox table,       *)
(* publish its rows and record the result.                                 *)
(*                                                                         *)
(* A row is the number of its place in the order of created_at.  Rows      *)
(* become visible in any order, since created_at is taken before the       *)
(* transaction that writes the row commits.  Nothing locks a row between   *)
(* the SELECT and the UPDATEs: the batch in a reader's buffer is a         *)
(* snapshot that other readers may have overtaken.  Time is abstracted to  *)
(* whether scheduled_at has passed.                                        *)
(***************************************************************************)
EXTENDS Naturals, FiniteSets

CONSTANTS
    Rows,          \* places in the order of created_at
    Readers,       \* Reader objects, one per replica of the service
    BatchSize,
    MaxAttempts,
    Dialect,       \* "postgres" or "mysql"
    MaxFaults      \* bound: database errors, crashes and ambiguous publishes

ASSUME ReaderAssumption == /\ Rows \subseteq Nat
                           /\ IsFiniteSet(Readers)
                           /\ BatchSize \in Nat \ {0}
                           /\ MaxAttempts \in Nat \ {0}
                           /\ Dialect \in {"postgres", "mysql"}
                           /\ MaxFaults \in Nat

VARIABLES
    written,     \* rows committed by the executor
    processed,   \* rows whose processed_at is set
    attempts,    \* attempts_counter of each row
    due,         \* rows with scheduled_at <= NOW()
    reader,      \* what each reader is doing
    published,   \* history: messages of each row the broker has received
    faults       \* faults so far

table == <<written, processed, attempts, due>>
vars == <<written, processed, attempts, due, reader, published, faults>>

PCs == {"idle", "publish", "mark", "retry"}
ReaderType == [pc: PCs, batch: SUBSET Rows]

\* The batch is processed oldest first; a reader works on its current row.
Oldest(batch) == CHOOSE r \in batch : \A q \in batch : r <= q
Current(p) == Oldest(reader[p].batch)

\* At the end of the batch the reader waits for the next tick.
WithoutRowMutReturn(batch, r) ==
    [pc |-> IF batch = {r} THEN "done" ELSE "publish", batch |-> batch \ {r}]
WithoutRow(batch, r) ==
    [pc |-> IF batch = {r} THEN "idle" ELSE "publish", batch |-> batch \ {r}]
NextRow(p) ==
    reader' = [reader EXCEPT ![p] = WithoutRow(reader[p].batch, Current(p))]

EligibleMutOffByOne == {r \in (written \cap due) \ processed : attempts[r] <= MaxAttempts}
EligibleMutUncommitted == {r \in due \ processed : attempts[r] < MaxAttempts}
EligibleMutProcessed == {r \in written \cap due : attempts[r] < MaxAttempts}
Eligible == {r \in (written \cap due) \ processed : attempts[r] < MaxAttempts}

\* The rows a SELECT may return before it fails: the oldest eligible ones.
Batches == {B \in SUBSET Eligible : /\ Cardinality(B) <= BatchSize
                                    /\ \A b \in B, e \in Eligible : e < b => e \in B}
Complete(B) == Cardinality(B) = BatchSize \/ B = Eligible

\* UPDATE ... SET processed_at affects the row it names.  MySQL does not count
\* a row that keeps its values, and processed_at is a DATETIME without
\* fractions: a second mark within one second affects no row.
MarkAffects(r) == IF Dialect = "mysql" /\ r \in processed THEN {0, 1} ELSE {1}

\* attempts_counter + 1 and a scheduled_at in the future
RecordFailureMutNoCount(r) == due' = due \ {r} /\ UNCHANGED attempts
RecordFailure(r) == /\ attempts' = [attempts EXCEPT ![r] = @ + 1]
                    /\ due' = due \ {r}

Fault == faults < MaxFaults /\ faults' = faults + 1

-----------------------------------------------------------------------------
Init == /\ written = {}
        /\ processed = {}
        /\ attempts = [r \in Rows |-> 0]
        /\ due = Rows
        /\ reader = [p \in Readers |-> [pc |-> "idle", batch |-> {}]]
        /\ published = [r \in Rows |-> 0]
        /\ faults = 0

\* Writer.WriteMessages commits: the row is there, and due.
Write(r) == /\ r \notin written
            /\ written' = written \cup {r}
            /\ UNCHANGED <<processed, attempts, due, reader, published, faults>>

\* scheduled_at of a row that failed passes.
BackoffElapses(r) == /\ r \notin due
                     /\ due' = due \cup {r}
                     /\ UNCHANGED <<written, processed, attempts, reader, published, faults>>

\* A tick: scanBatch reads the oldest eligible rows into the buffer.  When it
\* fails halfway, the rows read so far are processed all the same.
ScanBatch(p) ==
    /\ reader[p].pc = "idle"
    /\ \E B \in Batches \ {{}} :
          /\ \/ Complete(B) /\ UNCHANGED faults
             \/ ~Complete(B) /\ Fault
          /\ reader' = [reader EXCEPT ![p] = [pc |-> "publish", batch |-> B]]
    /\ UNCHANGED <<table, published>>

\* Publisher.Publish, and where processMessage goes on.
AfterPublishMutIgnore(err) == "mark"
AfterPublish(err) == IF err THEN "retry" ELSE "mark"

Published(r) == published' = [published EXCEPT ![r] = @ + 1]

Publish(p) ==
    /\ reader[p].pc = "publish"
    /\ \E err \in BOOLEAN :
          /\ reader' = [reader EXCEPT ![p].pc = AfterPublish(err)]
          /\ \/ ~err /\ Published(Current(p)) /\ UNCHANGED faults
             \/ err /\ UNCHANGED <<published, faults>>
             \/ err /\ Published(Current(p)) /\ Fault   \* the answer was lost
    /\ UNCHANGED table

\* handlePublishSuccess: when no row was affected, go on as after an error.
MarkProcessed(p) ==
    /\ reader[p].pc = "mark"
    /\ processed' = processed \cup {Current(p)}
    /\ \E affected \in MarkAffects(Current(p)) :
          IF affected = 0 THEN reader' = [reader EXCEPT ![p].pc = "retry"] ELSE NextRow(p)
    /\ UNCHANGED <<written, attempts, due, published, faults>>

\* handlePublishError
MarkFailed(p) ==
    /\ reader[p].pc = "retry"
    /\ RecordFailure(Current(p))
    /\ NextRow(p)
    /\ UNCHANGED <<written, processed, published, faults>>

\* The transaction of an update fails, or its Commit applies and reports an
\* error; either way the reader goes on with the next row.
UpdateFails(p) ==
    /\ \/ reader[p].pc \in {"mark", "retry"} /\ UNCHANGED table
       \/ /\ reader[p].pc = "mark"
          /\ processed' = processed \cup {Current(p)}
          /\ UNCHANGED <<written, attempts, due>>
       \/ /\ reader[p].pc = "retry"
          /\ RecordFailure(Current(p))
          /\ UNCHANGED <<written, processed>>
    /\ Fault
    /\ NextRow(p)
    /\ UNCHANGED published

\* The process dies and comes back: Init starts a new reader.
Crash(p) ==
    /\ reader[p].pc # "idle"
    /\ Fault
    /\ reader' = [reader EXCEPT ![p] = [pc |-> "idle", batch |-> {}]]
    /\ UNCHANGED <<table, published>>

Step(p) == ScanBatch(p) \/ Publish(p) \/ MarkProcessed(p) \/ MarkFailed(p)

Next == \/ \E r \in Rows : Write(r) \/ BackoffElapses(r)
        \/ \E p \in Readers : Step(p) \/ UpdateFails(p) \/ Crash(p)

\* The ticker ticks, calls return and time passes.
Fairness == /\ \A p \in Readers : WF_vars(Step(p))
            /\ \A r \in Rows : WF_vars(BackoffElapses(r))

Spec == Init /\ [][Next]_vars
FairSpec == Spec /\ Fairness

-----------------------------------------------------------------------------
(* Properties.                                                             *)

\* Type invariant.
TypeOK == /\ written \subseteq Rows
          /\ processed \subseteq Rows
          /\ attempts \in [Rows -> Nat]
          /\ due \subseteq Rows
          /\ reader \in [Readers -> ReaderType]
          /\ published \in [Rows -> Nat]
          /\ faults \in Nat

\* A row is marked processed only if the broker has received its message:
\* no crash, error or other reader between SELECT, Publish and the UPDATEs
\* loses a message for good (processMessage, handlePublishSuccess).
ProcessedWasPublished == \A r \in processed : published[r] > 0

\* Readers do not lock rows, so each of them may count one more attempt of a
\* row it read below the limit; attempts_counter never gets beyond that.
AttemptsBounded ==
    \A r \in Rows : attempts[r] < MaxAttempts + Cardinality(Readers)

\* Each reader that read a row before it was marked may publish it once; the
\* broker receives its message again only because of a fault: a failed update
\* after a publish, a crash between the two, or a publish whose answer was
\* lost (processMessage; the SELECT takes no lock).
OncePerReaderPlusFaults ==
    \A r \in Rows : published[r] <= Cardinality(Readers) + faults

\* Every row of the outbox is settled: marked processed, or given up after
\* MaxAttempts.  A row that fails does not hold up the rows behind it.
EventuallySettled ==
    \A r \in Rows :
        r \in written ~> (r \in processed \/ attempts[r] >= MaxAttempts)

\* The readers of all replicas together deliver what the outbox promises: a
\* message reaches the broker only if the transaction that wrote it committed,
\* and its row is settled only when it did (scanBatch, processMessage).
Delivery == INSTANCE OutboxDelivery WITH
                received <- {r \in Rows : published[r] > 0},
                settled <- processed
ImplementsOutboxDelivery == Delivery!Spec

=============================================================================
