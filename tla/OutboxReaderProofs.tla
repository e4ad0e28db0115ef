------------------------- MODULE OutboxReaderProofs -------------------------
(***************************************************************************)
(* Proofs about OutboxReader, for every finite set of readers and every    *)
(* set of rows: no row is marked processed before its message reached the  *)
(* broker, attempts_counter stays below its bound, the broker receives a   *)
(* message again only from another reader or because of a fault, and the   *)
(* readers implement OutboxDelivery.                                       *)
(***************************************************************************)
EXTENDS OutboxReader, FiniteSetTheorems, WellFoundedInduction, NaturalsInduction, TLAPS

-----------------------------------------------------------------------------
(* The current row of a batch.                                             *)

LEMMA OldestInBatch ==
    ASSUME NEW B \in SUBSET Rows, B # {}
    PROVE  Oldest(B) \in B /\ Oldest(B) \in Rows
  <1>1. B \subseteq Nat
    BY ReaderAssumption
  <1>2. PICK r \in B : \A q \in B : ~(<<q, r>> \in OpToRel(<, Nat))
    BY <1>1, NatLessThanWellFounded, WFMin
  <1>3. \A q \in B : r <= q
    <2> SUFFICES ASSUME NEW q \in B
                 PROVE  r <= q
      OBVIOUS
    <2>1. ~(q < r)
      BY <1>1, <1>2 DEF OpToRel
    <2> QED
      BY <1>1, <2>1
  <1> QED
    BY <1>3 DEF Oldest

ReadersBusy == \A p \in Readers : reader[p].pc # "idle" => reader[p].batch # {}

LEMMA CurrentRow ==
    ASSUME TypeOK, ReadersBusy, NEW p \in Readers, reader[p].pc # "idle"
    PROVE  Current(p) \in reader[p].batch /\ Current(p) \in Rows
  <1>1. reader[p].batch \in SUBSET Rows /\ reader[p].batch # {}
    BY DEF TypeOK, ReaderType, ReadersBusy
  <1> QED
    BY <1>1, OldestInBatch DEF Current

-----------------------------------------------------------------------------
(* No message is lost: the inductive invariant says that a reader about to *)
(* mark a row has published it.                                            *)

MarksPublished ==
    \A p \in Readers : reader[p].pc = "mark" => published[Current(p)] > 0

Inv == TypeOK /\ ReadersBusy /\ MarksPublished /\ ProcessedWasPublished

LEMMA NextRowEffect ==
    ASSUME TypeOK, ReadersBusy, NEW p \in Readers, reader[p].pc # "idle", NextRow(p)
    PROVE  /\ reader' \in [Readers -> ReaderType]
           /\ ReadersBusy'
           /\ reader'[p].pc \in {"idle", "publish"}
           /\ reader'[p].batch = reader[p].batch \ {Current(p)}
           /\ \A q \in Readers \ {p} : reader'[q] = reader[q]
  <1> DEFINE B == reader[p].batch
             r == Current(p)
  <1>1. B \in SUBSET Rows /\ r \in B
    BY CurrentRow DEF TypeOK, ReaderType
  <1>2. /\ WithoutRow(B, r) \in ReaderType
        /\ WithoutRow(B, r).batch = B \ {r}
        /\ WithoutRow(B, r).pc \in {"idle", "publish"}
        /\ WithoutRow(B, r).pc = "publish" => B \ {r} # {}
    BY <1>1 DEF WithoutRow, ReaderType, PCs
  <1>3. reader' = [reader EXCEPT ![p] = WithoutRow(B, r)] /\ reader \in [Readers -> ReaderType]
    BY DEF NextRow, TypeOK
  <1> HIDE DEF B, r
  <1>4. reader'[p] = WithoutRow(B, r) /\ \A q \in Readers \ {p} : reader'[q] = reader[q]
    BY <1>3
  <1>5. reader' \in [Readers -> ReaderType]
    BY <1>2, <1>3
  <1>6. ReadersBusy'
    BY <1>2, <1>4 DEF ReadersBusy
  <1> QED
    BY <1>2, <1>4, <1>5, <1>6 DEF B, r

\* A reader that changes its place in processMessage keeps its batch.
LEMMA PlaceEffect ==
    ASSUME TypeOK, ReadersBusy, NEW p \in Readers, reader[p].pc # "idle",
           NEW pc \in PCs, reader' = [reader EXCEPT ![p].pc = pc]
    PROVE  /\ reader' \in [Readers -> ReaderType]
           /\ ReadersBusy'
           /\ reader'[p].pc = pc
           /\ \A q \in Readers : reader'[q].batch = reader[q].batch
           /\ \A q \in Readers \ {p} : reader'[q] = reader[q]
  <1>1. reader[p] \in ReaderType
    BY DEF TypeOK
  <1>2. /\ [reader[p] EXCEPT !.pc = pc] \in ReaderType
        /\ [reader[p] EXCEPT !.pc = pc].pc = pc
        /\ [reader[p] EXCEPT !.pc = pc].batch = reader[p].batch
    BY <1>1 DEF ReaderType
  <1>3. /\ reader' \in [Readers -> ReaderType]
        /\ reader'[p] = [reader[p] EXCEPT !.pc = pc]
        /\ \A q \in Readers \ {p} : reader'[q] = reader[q]
    BY <1>2 DEF TypeOK
  <1> QED
    BY <1>2, <1>3 DEF ReadersBusy

LEMMA RecordFailureType ==
    ASSUME TypeOK, NEW r \in Rows, RecordFailure(r)
    PROVE  attempts' \in [Rows -> Nat] /\ due' \subseteq Rows
  BY DEF TypeOK, RecordFailure

LEMMA FaultType ==
    ASSUME TypeOK, Fault \/ UNCHANGED faults
    PROVE  faults' \in Nat
  BY DEF TypeOK, Fault

LEMMA InvInit == Init => Inv
  BY DEF Init, Inv, TypeOK, ReadersBusy, MarksPublished, ProcessedWasPublished,
         ReaderType, PCs

LEMMA ScanKeepsInv ==
    ASSUME Inv, NEW p \in Readers, ScanBatch(p)
    PROVE  Inv'
  <1>1. PICK B \in Batches \ {{}} :
           /\ Fault \/ UNCHANGED faults
           /\ reader' = [reader EXCEPT ![p] = [pc |-> "publish", batch |-> B]]
    BY DEF ScanBatch
  <1>2. B \subseteq Rows /\ B # {}
    BY DEF Batches, Eligible, Inv, TypeOK
  <1>3. [pc |-> "publish", batch |-> B] \in ReaderType
    BY <1>2 DEF ReaderType, PCs
  <1>4. /\ reader' \in [Readers -> ReaderType]
        /\ reader'[p] = [pc |-> "publish", batch |-> B]
        /\ \A q \in Readers \ {p} : reader'[q] = reader[q]
    BY <1>1, <1>3 DEF Inv, TypeOK
  <1>5. UNCHANGED <<table, published>>
    BY DEF ScanBatch
  <1>6. TypeOK'
    BY <1>1, <1>4, <1>5, FaultType DEF Inv, TypeOK, table
  <1>7. ReadersBusy'
    BY <1>2, <1>4 DEF Inv, ReadersBusy
  <1>8. MarksPublished'
    BY <1>4, <1>5 DEF Inv, MarksPublished, Current
  <1> QED
    BY <1>5, <1>6, <1>7, <1>8 DEF Inv, ProcessedWasPublished, table

LEMMA PublishKeepsInv ==
    ASSUME Inv, NEW p \in Readers, Publish(p)
    PROVE  Inv'
  <1> DEFINE r == Current(p)
  <1>1. PICK err \in BOOLEAN :
           /\ reader' = [reader EXCEPT ![p].pc = AfterPublish(err)]
           /\ \/ ~err /\ Published(r) /\ UNCHANGED faults
              \/ err /\ UNCHANGED <<published, faults>>
              \/ err /\ Published(r) /\ Fault
    BY DEF Publish
  <1>2. AfterPublish(err) \in PCs /\ (AfterPublish(err) = "mark" => ~err)
    BY DEF AfterPublish, PCs
  <1>3. reader[p].pc = "publish" /\ r \in Rows
    BY CurrentRow DEF Publish, Inv
  <1>4. UNCHANGED table
    BY DEF Publish
  <1> DEFINE pc == AfterPublish(err)
  <1> HIDE DEF r, pc
  <1>5. /\ reader' \in [Readers -> ReaderType]
        /\ ReadersBusy'
        /\ reader'[p].pc = pc
        /\ \A q \in Readers : reader'[q].batch = reader[q].batch
        /\ \A q \in Readers \ {p} : reader'[q] = reader[q]
    BY <1>1, <1>2, <1>3, PlaceEffect DEF Inv, pc
  <1>6. published' \in [Rows -> Nat] /\ \A q \in Rows : published'[q] >= published[q]
    BY <1>1, <1>3 DEF Inv, TypeOK, Published
  <1>7. ~err => published'[r] > 0
    BY <1>1, <1>3 DEF Inv, TypeOK, Published
  <1>8. TypeOK'
    BY <1>1, <1>4, <1>5, <1>6, FaultType DEF Inv, TypeOK, table
  <1>9. \A q \in Readers : Current(q)' = Current(q)
    BY <1>5 DEF Current
  <1>10. MarksPublished'
    <2> SUFFICES ASSUME NEW q \in Readers, reader'[q].pc = "mark"
                 PROVE  published'[Current(q)] > 0
      BY <1>9 DEF MarksPublished
    <2>1. CASE q = p
      BY <1>2, <1>5, <1>7, <2>1 DEF r, pc
    <2>2. CASE q # p
      <3>1. reader[q].pc = "mark" /\ Current(q) \in Rows
        BY <1>5, <2>2, CurrentRow DEF Inv
      <3>2. published[Current(q)] > 0 /\ published[Current(q)] \in Nat
        BY <3>1 DEF Inv, MarksPublished, TypeOK
      <3>3. published'[Current(q)] \in Nat /\ published'[Current(q)] >= published[Current(q)]
        BY <1>6, <3>1
      <3> QED
        BY <3>2, <3>3
    <2> QED
      BY <2>1, <2>2
  <1>11. ProcessedWasPublished'
    <2> SUFFICES ASSUME NEW q \in processed
                 PROVE  published'[q] > 0
      BY <1>4 DEF ProcessedWasPublished, table
    <2>1. q \in Rows /\ published[q] > 0 /\ published[q] \in Nat
      BY DEF Inv, TypeOK, ProcessedWasPublished
    <2> QED
      BY <1>6, <2>1
  <1> QED
    BY <1>5, <1>8, <1>10, <1>11 DEF Inv

\* The two updates, whether they succeed or fail: the row is only marked by a
\* reader that has published it.
LEMMA UpdateKeepsInv ==
    ASSUME Inv, NEW p \in Readers, MarkProcessed(p) \/ MarkFailed(p) \/ UpdateFails(p)
    PROVE  Inv'
  <1> DEFINE r == Current(p)
  <1>1. reader[p].pc \in {"mark", "retry"} /\ r \in Rows
    BY CurrentRow DEF Inv, MarkProcessed, MarkFailed, UpdateFails
  <1>2. UNCHANGED <<written, published>>
    BY DEF MarkProcessed, MarkFailed, UpdateFails, table
  <1>3. processed' \in {processed, processed \cup {r}}
    BY DEF MarkProcessed, MarkFailed, UpdateFails, table
  <1>4. processed' # processed => reader[p].pc = "mark"
    BY DEF MarkProcessed, MarkFailed, UpdateFails, table
  <1>5. RecordFailure(r) \/ UNCHANGED <<attempts, due>>
    BY DEF MarkProcessed, MarkFailed, UpdateFails, table
  <1>6. Fault \/ UNCHANGED faults
    BY DEF MarkProcessed, MarkFailed, UpdateFails
  <1>7. NextRow(p) \/ reader' = [reader EXCEPT ![p].pc = "retry"]
    BY DEF MarkProcessed, MarkFailed, UpdateFails
  <1>8. /\ reader' \in [Readers -> ReaderType]
        /\ ReadersBusy'
        /\ reader'[p].pc # "mark"
        /\ \A q \in Readers \ {p} : reader'[q] = reader[q]
    <2>1. CASE NextRow(p)
      BY <1>1, <2>1, NextRowEffect DEF Inv
    <2>2. CASE reader' = [reader EXCEPT ![p].pc = "retry"]
      BY <1>1, <2>2, PlaceEffect DEF Inv, PCs
    <2> QED
      BY <1>7, <2>1, <2>2
  <1> HIDE DEF r
  <1>9. attempts' \in [Rows -> Nat] /\ due' \subseteq Rows
    BY <1>1, <1>5, RecordFailureType DEF Inv, TypeOK
  <1>10. TypeOK'
    BY <1>1, <1>2, <1>3, <1>6, <1>8, <1>9, FaultType DEF Inv, TypeOK
  <1>11. MarksPublished'
    BY <1>2, <1>8 DEF Inv, MarksPublished, Current
  <1>12. ProcessedWasPublished'
    <2>1. reader[p].pc = "mark" => published[r] > 0
      BY DEF Inv, MarksPublished, r
    <2> QED
      BY <1>2, <1>3, <1>4, <2>1 DEF Inv, ProcessedWasPublished
  <1> QED
    BY <1>8, <1>10, <1>11, <1>12 DEF Inv

LEMMA CrashKeepsInv ==
    ASSUME Inv, NEW p \in Readers, Crash(p)
    PROVE  Inv'
  <1>1. [pc |-> "idle", batch |-> {}] \in ReaderType
    BY DEF ReaderType, PCs
  <1>2. /\ reader' \in [Readers -> ReaderType]
        /\ reader'[p] = [pc |-> "idle", batch |-> {}]
        /\ \A q \in Readers \ {p} : reader'[q] = reader[q]
        /\ UNCHANGED <<table, published>>
    BY <1>1 DEF Inv, TypeOK, Crash
  <1>3. TypeOK'
    BY <1>2, FaultType DEF Inv, TypeOK, table, Crash
  <1>4. ReadersBusy' /\ MarksPublished' /\ ProcessedWasPublished'
    BY <1>2 DEF Inv, ReadersBusy, MarksPublished, ProcessedWasPublished, Current, table
  <1> QED
    BY <1>3, <1>4 DEF Inv

LEMMA InvStep ==
    ASSUME Inv, [Next]_vars
    PROVE  Inv'
  <1>1. CASE UNCHANGED vars
    BY <1>1 DEF vars, Inv, TypeOK, ReadersBusy, MarksPublished, ProcessedWasPublished, Current
  <1>2. ASSUME NEW r \in Rows, Write(r) \/ BackoffElapses(r)
        PROVE  Inv'
    BY <1>2 DEF Write, BackoffElapses, Inv, TypeOK, ReadersBusy, MarksPublished,
                ProcessedWasPublished, Current
  <1>3. ASSUME NEW p \in Readers, Step(p) \/ UpdateFails(p) \/ Crash(p)
        PROVE  Inv'
    BY <1>3, ScanKeepsInv, PublishKeepsInv, UpdateKeepsInv, CrashKeepsInv DEF Step
  <1> QED
    BY <1>1, <1>2, <1>3 DEF Next

\* The table, the readers and the history stay in their types.
THEOREM TypeCorrect == Spec => []TypeOK
  <1>1. Inv => TypeOK
    BY DEF Inv
  <1> QED
    BY <1>1, InvInit, InvStep, PTL DEF Spec

\* A processed row has been published, whatever fails.
THEOREM NothingLost == Spec => []ProcessedWasPublished
  <1>1. Inv => ProcessedWasPublished
    BY DEF Inv
  <1> QED
    BY <1>1, InvInit, InvStep, PTL DEF Spec

-----------------------------------------------------------------------------
(* The bound of attempts_counter.  A reader that has a row in its batch may *)
(* count one more attempt; the inductive invariant charges it in advance.   *)

Pending(r) == {p \in Readers : r \in reader[p].batch}

AttemptsInv ==
    \A r \in Rows :
        attempts[r] + Cardinality(Pending(r)) < MaxAttempts + Cardinality(Readers)

LEMMA PendingFinite ==
    ASSUME NEW r
    PROVE  /\ IsFiniteSet(Pending(r))
           /\ Cardinality(Pending(r)) \in Nat
           /\ Cardinality(Pending(r)) <= Cardinality(Readers)
           /\ Cardinality(Readers) \in Nat
  <1>1. Pending(r) \subseteq Readers /\ IsFiniteSet(Readers)
    BY ReaderAssumption DEF Pending
  <1> QED
    BY <1>1, FS_Subset, FS_CardinalityType

LEMMA PendingFiniteNext ==
    ASSUME NEW r
    PROVE  /\ IsFiniteSet(Pending(r)')
           /\ Cardinality(Pending(r)') \in Nat
           /\ Cardinality(Pending(r)') <= Cardinality(Readers)
  <1>1. Pending(r)' \subseteq Readers /\ IsFiniteSet(Readers)
    BY ReaderAssumption DEF Pending
  <1> QED
    BY <1>1, FS_Subset, FS_CardinalityType

\* A step that counts no attempt and puts no row into a batch.
LEMMA ShrinkKeepsAttempts ==
    ASSUME TypeOK, AttemptsInv, UNCHANGED attempts,
           \A q \in Readers : reader'[q].batch \subseteq reader[q].batch
    PROVE  AttemptsInv'
  <1> SUFFICES ASSUME NEW r \in Rows
               PROVE  attempts[r] + Cardinality(Pending(r)') < MaxAttempts + Cardinality(Readers)
    BY DEF AttemptsInv
  <1>1. Pending(r)' \subseteq Pending(r)
    BY DEF Pending
  <1>2. Cardinality(Pending(r)') <= Cardinality(Pending(r))
    BY <1>1, PendingFinite, FS_Subset
  <1> QED
    BY <1>2, PendingFinite, PendingFiniteNext, ReaderAssumption DEF AttemptsInv, TypeOK

LEMMA ScanKeepsAttempts ==
    ASSUME TypeOK, AttemptsInv, NEW p \in Readers, ScanBatch(p)
    PROVE  AttemptsInv'
  <1>1. PICK B \in Batches \ {{}} :
           reader' = [reader EXCEPT ![p] = [pc |-> "publish", batch |-> B]]
    BY DEF ScanBatch
  <1>2. attempts' = attempts
    BY DEF ScanBatch, table
  <1>3. reader'[p].batch = B /\ \A q \in Readers \ {p} : reader'[q] = reader[q]
    BY <1>1 DEF TypeOK
  <1> SUFFICES ASSUME NEW r \in Rows
               PROVE  attempts[r] + Cardinality(Pending(r)') < MaxAttempts + Cardinality(Readers)
    BY <1>2 DEF AttemptsInv
  <1>4. CASE r \in B
    <2>1. attempts[r] < MaxAttempts
      BY <1>4 DEF Batches, Eligible
    <2> QED
      BY <2>1, PendingFinite, PendingFiniteNext, ReaderAssumption DEF TypeOK
  <1>5. CASE r \notin B
    <2>1. Pending(r)' \subseteq Pending(r)
      BY <1>3, <1>5 DEF Pending
    <2>2. Cardinality(Pending(r)') <= Cardinality(Pending(r))
      BY <2>1, PendingFinite, FS_Subset
    <2> QED
      BY <2>2, PendingFinite, PendingFiniteNext, ReaderAssumption DEF AttemptsInv, TypeOK
  <1> QED
    BY <1>4, <1>5

LEMMA CountKeepsAttempts ==
    ASSUME TypeOK, ReadersBusy, AttemptsInv, NEW p \in Readers, reader[p].pc # "idle",
           RecordFailure(Current(p)), NextRow(p)
    PROVE  AttemptsInv'
  <1> DEFINE c == Current(p)
  <1>1. c \in Rows /\ c \in reader[p].batch
    BY CurrentRow
  <1>2. /\ reader'[p].batch = reader[p].batch \ {c}
        /\ \A q \in Readers \ {p} : reader'[q] = reader[q]
    BY NextRowEffect
  <1>3. attempts' = [attempts EXCEPT ![c] = @ + 1]
    BY DEF RecordFailure
  <1> HIDE DEF c
  <1> SUFFICES ASSUME NEW r \in Rows
               PROVE  attempts'[r] + Cardinality(Pending(r)') < MaxAttempts + Cardinality(Readers)
    BY DEF AttemptsInv
  <1>4. CASE r = c
    <2>1. p \in Pending(r) /\ Pending(r)' = Pending(r) \ {p}
      BY <1>1, <1>2, <1>4 DEF Pending
    <2>2. Cardinality(Pending(r)') = Cardinality(Pending(r)) - 1
      BY <2>1, PendingFinite, FS_RemoveElement
    <2>3. attempts'[r] = attempts[r] + 1
      BY <1>1, <1>3, <1>4 DEF TypeOK
    <2> QED
      BY <2>2, <2>3, PendingFinite, PendingFiniteNext, ReaderAssumption DEF AttemptsInv, TypeOK
  <1>5. CASE r # c
    <2>1. Pending(r)' \subseteq Pending(r) /\ attempts'[r] = attempts[r]
      BY <1>2, <1>3, <1>5 DEF Pending, TypeOK
    <2>2. Cardinality(Pending(r)') <= Cardinality(Pending(r))
      BY <2>1, PendingFinite, FS_Subset
    <2> QED
      BY <2>1, <2>2, PendingFinite, PendingFiniteNext, ReaderAssumption DEF AttemptsInv, TypeOK
  <1> QED
    BY <1>4, <1>5

LEMMA AttemptsStep ==
    ASSUME Inv, AttemptsInv, [Next]_vars
    PROVE  AttemptsInv'
  <1>0. TypeOK /\ ReadersBusy
    BY DEF Inv
  <1>1. CASE UNCHANGED vars
    BY <1>0, <1>1, ShrinkKeepsAttempts DEF vars
  <1>2. ASSUME NEW r \in Rows, Write(r) \/ BackoffElapses(r)
        PROVE  AttemptsInv'
    BY <1>0, <1>2, ShrinkKeepsAttempts DEF Write, BackoffElapses
  <1>3. ASSUME NEW p \in Readers, Publish(p)
        PROVE  AttemptsInv'
    <2>1. PICK err \in BOOLEAN : reader' = [reader EXCEPT ![p].pc = AfterPublish(err)]
      BY <1>3 DEF Publish
    <2>2. AfterPublish(err) \in PCs
      BY DEF AfterPublish, PCs
    <2>3. UNCHANGED attempts /\ reader[p].pc # "idle"
      BY <1>3 DEF Publish, table
    <2>4. \A q \in Readers : reader'[q].batch = reader[q].batch
      BY <1>0, <2>1, <2>2, <2>3, PlaceEffect
    <2> QED
      BY <1>0, <2>3, <2>4, ShrinkKeepsAttempts
  <1>4. ASSUME NEW p \in Readers, MarkProcessed(p) \/ MarkFailed(p) \/ UpdateFails(p)
        PROVE  AttemptsInv'
    <2>1. reader[p].pc # "idle"
      BY <1>4 DEF MarkProcessed, MarkFailed, UpdateFails
    <2>2. \/ RecordFailure(Current(p)) /\ NextRow(p)
          \/ UNCHANGED attempts /\ NextRow(p)
          \/ UNCHANGED attempts /\ reader' = [reader EXCEPT ![p].pc = "retry"]
      BY <1>4 DEF MarkProcessed, MarkFailed, UpdateFails, table
    <2>3. CASE RecordFailure(Current(p)) /\ NextRow(p)
      BY <1>0, <2>1, <2>3, CountKeepsAttempts
    <2>4. CASE UNCHANGED attempts /\ NextRow(p)
      <3>1. \A q \in Readers : reader'[q].batch \subseteq reader[q].batch
        BY <1>0, <2>1, <2>4, NextRowEffect
      <3> QED
        BY <1>0, <2>4, <3>1, ShrinkKeepsAttempts
    <2>5. CASE UNCHANGED attempts /\ reader' = [reader EXCEPT ![p].pc = "retry"]
      <3>1. \A q \in Readers : reader'[q].batch = reader[q].batch
        BY <1>0, <2>1, <2>5, PlaceEffect DEF PCs
      <3> QED
        BY <1>0, <2>5, <3>1, ShrinkKeepsAttempts
    <2> QED
      BY <2>2, <2>3, <2>4, <2>5
  <1>5. ASSUME NEW p \in Readers, Crash(p)
        PROVE  AttemptsInv'
    <2>1. UNCHANGED attempts /\ \A q \in Readers : reader'[q].batch \subseteq reader[q].batch
      BY <1>0, <1>5 DEF Crash, table, TypeOK
    <2> QED
      BY <1>0, <2>1, ShrinkKeepsAttempts
  <1> QED
    BY <1>0, <1>1, <1>2, <1>3, <1>4, <1>5, ScanKeepsAttempts DEF Next, Step

LEMMA AttemptsInit == Init => AttemptsInv
  <1> SUFFICES ASSUME Init, NEW r \in Rows
               PROVE  attempts[r] + Cardinality(Pending(r)) < MaxAttempts + Cardinality(Readers)
    BY DEF AttemptsInv
  <1>1. Pending(r) = {} /\ attempts[r] = 0
    BY DEF Init, Pending
  <1>2. Cardinality({}) = 0
    BY FS_EmptySet
  <1> QED
    BY <1>1, <1>2, PendingFinite, ReaderAssumption

\* attempts_counter stays below MaxAttempts plus the number of readers.
THEOREM AttemptsStayBounded == Spec => []AttemptsBounded
  <1>1. Inv /\ AttemptsInv => AttemptsBounded
    BY PendingFinite, ReaderAssumption DEF Inv, TypeOK, AttemptsInv, AttemptsBounded
  <1>2. Init => Inv /\ AttemptsInv
    BY InvInit, AttemptsInit
  <1>3. Inv /\ AttemptsInv /\ [Next]_vars => Inv' /\ AttemptsInv'
    BY InvStep, AttemptsStep
  <1> QED
    BY <1>1, <1>2, <1>3, PTL DEF Spec

-----------------------------------------------------------------------------
(* How often a message is received.  Until a row is marked, a publish that  *)
(* no fault excuses belongs to a reader that is about to mark it; once it   *)
(* is, only readers that still hold it may publish it.                      *)

MayPublish(r) == {p \in Readers : /\ r \in reader[p].batch
                                  /\ reader[p].pc = "publish" \/ Current(p) # r}
Marking(r) == {p \in Readers : reader[p].pc = "mark" /\ Current(p) = r}

Received(r) ==
    IF r \in processed
    THEN published[r] + Cardinality(MayPublish(r)) <= Cardinality(Readers) + faults
    ELSE published[r] <= Cardinality(Marking(r)) + faults

ReceivedInv == \A r \in Rows : Received(r)

LEMMA SubsetOfReaders ==
    ASSUME NEW P \in SUBSET Readers
    PROVE  /\ IsFiniteSet(P) /\ Cardinality(P) \in Nat
           /\ Cardinality(Readers) \in Nat /\ Cardinality(P) <= Cardinality(Readers)
           /\ \A Q \in SUBSET P : Cardinality(Q) <= Cardinality(P)
  BY ReaderAssumption, FS_Subset, FS_CardinalityType

LEMMA SetsOfReaders ==
    ASSUME NEW r
    PROVE  /\ MayPublish(r) \in SUBSET Readers /\ MayPublish(r)' \in SUBSET Readers
           /\ Marking(r) \in SUBSET Readers /\ Marking(r)' \in SUBSET Readers
  BY DEF MayPublish, Marking

\* A step that neither publishes the row nor marks it for the first time: a
\* reader that gives up marking it does so by a fault.
LEMMA OtherStep ==
    ASSUME TypeOK, TypeOK', NEW r \in Rows, Received(r),
           published'[r] = published[r], r \in processed <=> r \in processed',
           r \in processed => MayPublish(r)' \subseteq MayPublish(r),
           \/ r \in processed /\ faults' >= faults
           \/ Marking(r) \subseteq Marking(r)' /\ faults' >= faults
           \/ faults' = faults + 1 /\ \E p \in Readers : Marking(r) \subseteq Marking(r)' \cup {p}
    PROVE  Received(r)'
  <1>1. published[r] \in Nat /\ faults \in Nat /\ faults' \in Nat
    BY DEF TypeOK
  <1>2. CASE r \in processed
    <2>1. Cardinality(MayPublish(r)') <= Cardinality(MayPublish(r))
      BY <1>2, SetsOfReaders, SubsetOfReaders
    <2>2. Cardinality(MayPublish(r)') \in Nat /\ Cardinality(MayPublish(r)) \in Nat
          /\ Cardinality(Readers) \in Nat
      BY SetsOfReaders, SubsetOfReaders
    <2>3. published[r] + Cardinality(MayPublish(r)) <= Cardinality(Readers) + faults
      BY <1>2 DEF Received
    <2>4. faults' >= faults
      BY <1>1
    <2>5. published'[r] + Cardinality(MayPublish(r)') <= Cardinality(Readers) + faults'
      BY <1>1, <2>1, <2>2, <2>3, <2>4
    <2> QED
      BY <1>2, <2>5 DEF Received
  <1>3. CASE r \notin processed
    <2>1. Cardinality(Marking(r)) \in Nat /\ Cardinality(Marking(r)') \in Nat
      BY SetsOfReaders, SubsetOfReaders
    <2>2. Cardinality(Marking(r)) + faults <= Cardinality(Marking(r)') + faults'
      <3>1. CASE Marking(r) \subseteq Marking(r)' /\ faults' >= faults
        <4>1. Cardinality(Marking(r)) <= Cardinality(Marking(r)')
          BY <3>1, SetsOfReaders, SubsetOfReaders
        <4> QED
          BY <1>1, <2>1, <3>1, <4>1
      <3>2. ASSUME faults' = faults + 1, NEW p \in Readers, Marking(r) \subseteq Marking(r)' \cup {p}
            PROVE  Cardinality(Marking(r)) + faults <= Cardinality(Marking(r)') + faults'
        <4>1. Cardinality(Marking(r)) <= Cardinality(Marking(r)' \cup {p})
          BY <3>2, SetsOfReaders, SubsetOfReaders
        <4>2. Cardinality(Marking(r)' \cup {p}) \in {Cardinality(Marking(r)'), Cardinality(Marking(r)') + 1}
          BY SetsOfReaders, SubsetOfReaders, FS_AddElement
        <4> QED
          BY <1>1, <2>1, <3>2, <4>1, <4>2
      <3> QED
        BY <1>3, <3>1, <3>2
    <2>3. published[r] <= Cardinality(Marking(r)) + faults
      BY <1>3 DEF Received
    <2>4. published'[r] <= Cardinality(Marking(r)') + faults'
      BY <1>1, <2>1, <2>2, <2>3
    <2> QED
      BY <1>3, <2>4 DEF Received
  <1> QED
    BY <1>2, <1>3

\* The row is marked for the first time: those who were about to mark it and
\* those who may still publish it are different readers.
LEMMA FirstMark ==
    ASSUME TypeOK, TypeOK', NEW r \in Rows, Received(r),
           published'[r] = published[r], faults' >= faults,
           r \notin processed, r \in processed',
           Marking(r) \cap MayPublish(r)' = {}
    PROVE  Received(r)'
  <1>1. published[r] \in Nat /\ faults \in Nat /\ faults' \in Nat
    BY DEF TypeOK
  <1> DEFINE A == Marking(r)
             B == MayPublish(r)'
  <1>2. /\ A \cup B \in SUBSET Readers /\ IsFiniteSet(A) /\ IsFiniteSet(B)
        /\ Cardinality(A) \in Nat /\ Cardinality(B) \in Nat
    BY SetsOfReaders, SubsetOfReaders
  <1>3. Cardinality(A \cap B) = 0
    BY FS_EmptySet
  <1> HIDE DEF A, B
  <1>4. Cardinality(A \cup B) = Cardinality(A) + Cardinality(B) - Cardinality(A \cap B)
    BY <1>2, FS_Union
  <1>5. Cardinality(A \cup B) <= Cardinality(Readers) /\ Cardinality(Readers) \in Nat
    BY <1>2, SubsetOfReaders
  <1>6. published[r] <= Cardinality(A) + faults
    BY DEF Received, A
  <1>7. published'[r] + Cardinality(B) <= Cardinality(Readers) + faults'
    BY <1>1, <1>2, <1>3, <1>4, <1>5, <1>6
  <1> QED
    BY <1>7 DEF Received, B

\* A step of one reader concerns that reader only.
LEMMA OthersStay ==
    ASSUME NEW p \in Readers, \A q \in Readers \ {p} : reader'[q] = reader[q], NEW r
    PROVE  \A q \in Readers \ {p} : /\ q \in MayPublish(r)' <=> q \in MayPublish(r)
                                    /\ q \in Marking(r)' <=> q \in Marking(r)
  BY DEF MayPublish, Marking, Current

LEMMA FaultGrows ==
    ASSUME TypeOK, Fault \/ UNCHANGED faults
    PROVE  faults' >= faults
  BY DEF TypeOK, Fault

LEMMA ScanReceived ==
    ASSUME Inv, Inv', ReceivedInv, NEW p \in Readers, ScanBatch(p)
    PROVE  ReceivedInv'
  <1> SUFFICES ASSUME NEW r \in Rows PROVE Received(r)'
    BY DEF ReceivedInv
  <1>1. PICK B \in Batches \ {{}} :
           /\ Fault \/ UNCHANGED faults
           /\ reader' = [reader EXCEPT ![p] = [pc |-> "publish", batch |-> B]]
    BY DEF ScanBatch
  <1>2. B \cap processed = {}
    BY DEF Batches, Eligible
  <1>3. reader[p].pc = "idle" /\ UNCHANGED <<processed, published>>
    BY DEF ScanBatch, table
  <1>4. reader'[p].batch = B /\ \A q \in Readers \ {p} : reader'[q] = reader[q]
    BY <1>1 DEF Inv, TypeOK
  <1>5. r \in processed => p \notin MayPublish(r)'
    BY <1>2, <1>4 DEF MayPublish
  <1>6. p \notin Marking(r)
    BY <1>3 DEF Marking
  <1>7. (r \in processed => MayPublish(r)' \subseteq MayPublish(r)) /\ Marking(r) \subseteq Marking(r)'
    BY <1>4, <1>5, <1>6, OthersStay, SetsOfReaders
  <1> QED
    BY <1>1, <1>3, <1>7, FaultGrows, OtherStep DEF Inv, ReceivedInv

LEMMA PublishReceived ==
    ASSUME Inv, Inv', ReceivedInv, NEW p \in Readers, Publish(p)
    PROVE  ReceivedInv'
  <1> SUFFICES ASSUME NEW r \in Rows PROVE Received(r)'
    BY DEF ReceivedInv
  <1>1. PICK c \in Rows : c = Current(p) /\ c \in reader[p].batch
    BY CurrentRow DEF Publish, Inv
  <1>2. PICK err \in BOOLEAN :
           /\ reader' = [reader EXCEPT ![p].pc = AfterPublish(err)]
           /\ \/ ~err /\ Published(c) /\ UNCHANGED faults
              \/ err /\ UNCHANGED <<published, faults>>
              \/ err /\ Published(c) /\ Fault
    BY <1>1 DEF Publish
  <1>3. AfterPublish(err) \in PCs /\ AfterPublish(err) = IF err THEN "retry" ELSE "mark"
    BY DEF AfterPublish, PCs
  <1>4. reader[p].pc = "publish" /\ UNCHANGED processed
    BY DEF Publish, table
  <1>5. /\ reader'[p].pc = AfterPublish(err)
        /\ \A q \in Readers : reader'[q].batch = reader[q].batch
        /\ \A q \in Readers \ {p} : reader'[q] = reader[q]
    BY <1>2, <1>3, <1>4, PlaceEffect DEF Inv
  <1>6. Current(p)' = c
    BY <1>1, <1>5 DEF Current
  <1>7. /\ p \in MayPublish(c) /\ p \notin MayPublish(c)'
        /\ \A q \in Rows : p \notin Marking(q)
        /\ ~err => p \in Marking(c)'
    BY <1>1, <1>3, <1>4, <1>5, <1>6 DEF MayPublish, Marking
  <1>8. \A q \in Readers \ {p} : /\ q \in MayPublish(r)' <=> q \in MayPublish(r)
                                 /\ q \in Marking(r)' <=> q \in Marking(r)
    BY <1>5, OthersStay
  <1>9. /\ published \in [Rows -> Nat] /\ faults \in Nat /\ faults' \in Nat
        /\ Received(r)
    BY DEF Inv, TypeOK, ReceivedInv
  <1>10. CASE published'[r] = published[r]
    <2>1. p \in MayPublish(r)' => p \in MayPublish(r)
      BY <1>4, <1>5, <1>6, <1>7 DEF MayPublish
    <2>2. MayPublish(r)' \subseteq MayPublish(r) /\ Marking(r) \subseteq Marking(r)'
      BY <1>7, <1>8, <2>1, SetsOfReaders
    <2> QED
      BY <1>2, <1>4, <1>9, <1>10, <2>2, FaultGrows, OtherStep DEF Inv
  <1>11. CASE published'[r] # published[r]
    <2>1. r = c /\ published'[r] = published[r] + 1 /\ (err => faults' = faults + 1)
          /\ (~err => faults' = faults)
      BY <1>2, <1>9, <1>11 DEF Published, Fault
    <2>2. MayPublish(r)' = MayPublish(r) \ {p}
      BY <1>7, <1>8, <2>1, SetsOfReaders
    <2>3. Cardinality(MayPublish(r)') = Cardinality(MayPublish(r)) - 1
      BY <1>7, <2>1, <2>2, SetsOfReaders, SubsetOfReaders, FS_RemoveElement
    <2>4. Cardinality(Marking(r)') >= Cardinality(Marking(r)) + (IF err THEN 0 ELSE 1)
      <3>1. CASE err
        <4>1. Marking(r) \subseteq Marking(r)'
          BY <1>7, <1>8, SetsOfReaders
        <4>2. Cardinality(Marking(r)) <= Cardinality(Marking(r)')
          BY <4>1, SetsOfReaders, SubsetOfReaders
        <4> QED
          BY <3>1, <4>2, SetsOfReaders, SubsetOfReaders
      <3>2. CASE ~err
        <4>1. Marking(r)' = Marking(r) \cup {p} /\ p \notin Marking(r)
          BY <1>7, <1>8, <2>1, <3>2, SetsOfReaders
        <4>2. Cardinality(Marking(r)') = Cardinality(Marking(r)) + 1
          BY <4>1, SetsOfReaders, SubsetOfReaders, FS_AddElement
        <4> QED
          BY <3>2, <4>2, SetsOfReaders, SubsetOfReaders
      <3> QED
        BY <3>1, <3>2
    <2>5. /\ Cardinality(Marking(r)) \in Nat /\ Cardinality(Marking(r)') \in Nat
          /\ Cardinality(MayPublish(r)) \in Nat /\ Cardinality(Readers) \in Nat
      BY SetsOfReaders, SubsetOfReaders
    <2>6. published[r] \in Nat
      BY <1>9
    <2>7. CASE r \in processed
      <3>1. published[r] + Cardinality(MayPublish(r)) <= Cardinality(Readers) + faults
        BY <1>9, <2>7 DEF Received
      <3>2. published'[r] + Cardinality(MayPublish(r)') <= Cardinality(Readers) + faults'
        BY <1>9, <2>1, <2>3, <2>5, <2>6, <3>1
      <3> QED
        BY <1>4, <2>7, <3>2 DEF Received
    <2>8. CASE r \notin processed
      <3>1. published[r] <= Cardinality(Marking(r)) + faults
        BY <1>9, <2>8 DEF Received
      <3>2. published'[r] <= Cardinality(Marking(r)') + faults'
        BY <1>9, <2>1, <2>4, <2>5, <2>6, <3>1
      <3> QED
        BY <1>4, <2>8, <3>2 DEF Received
    <2> QED
      BY <2>7, <2>8
  <1> QED
    BY <1>10, <1>11

LEMMA UpdateReceived ==
    ASSUME Inv, Inv', ReceivedInv, NEW p \in Readers,
           MarkProcessed(p) \/ MarkFailed(p) \/ UpdateFails(p)
    PROVE  ReceivedInv'
  <1> SUFFICES ASSUME NEW r \in Rows PROVE Received(r)'
    BY DEF ReceivedInv
  <1>1. Fault \/ UNCHANGED faults
    BY DEF MarkProcessed, MarkFailed, UpdateFails
  <1>2. PICK c \in Rows : c = Current(p) /\ c \in reader[p].batch
    BY CurrentRow DEF Inv, MarkProcessed, MarkFailed, UpdateFails
  <1>3. published' = published /\ processed' \in {processed, processed \cup {c}}
    BY <1>2 DEF MarkProcessed, MarkFailed, UpdateFails, table
  <1>4. c \in processed' \/ reader[p].pc = "retry" \/ Fault
    BY <1>2 DEF MarkProcessed, MarkFailed, UpdateFails
  <1>5. NextRow(p) \/ reader' = [reader EXCEPT ![p].pc = "retry"]
    BY DEF MarkProcessed, MarkFailed, UpdateFails
  <1>6. /\ p \notin MayPublish(c)'
        /\ \A q \in Rows \ {c} : p \in MayPublish(q)' => p \in MayPublish(q)
        /\ \A q \in Readers \ {p} : reader'[q] = reader[q]
    <2>0. reader[p].pc # "idle"
      BY DEF MarkProcessed, MarkFailed, UpdateFails
    <2>1. CASE NextRow(p)
      <3>1. /\ reader'[p].batch = reader[p].batch \ {c}
            /\ \A q \in Readers \ {p} : reader'[q] = reader[q]
        BY <1>2, <2>0, <2>1, NextRowEffect DEF Inv
      <3> QED
        BY <1>2, <3>1 DEF MayPublish
    <2>2. CASE reader' = [reader EXCEPT ![p].pc = "retry"]
      <3>1. /\ reader'[p].pc = "retry"
            /\ \A q \in Readers : reader'[q].batch = reader[q].batch
            /\ \A q \in Readers \ {p} : reader'[q] = reader[q]
        BY <2>0, <2>2, PlaceEffect DEF Inv, PCs
      <3>2. Current(p)' = c
        BY <1>2, <3>1 DEF Current
      <3> QED
        BY <1>2, <3>1, <3>2 DEF MayPublish
    <2> QED
      BY <1>5, <2>1, <2>2
  <1>7. \A q \in Readers \ {p} : /\ q \in MayPublish(r)' <=> q \in MayPublish(r)
                                 /\ q \in Marking(r)' <=> q \in Marking(r)
    BY <1>6, OthersStay
  <1>8. p \in Marking(r) => r = c /\ reader[p].pc = "mark"
    BY <1>2 DEF Marking
  <1>9. faults' >= faults /\ Received(r) /\ TypeOK /\ TypeOK' /\ published'[r] = published[r]
    BY <1>1, <1>3, FaultGrows DEF Inv, ReceivedInv, MarkProcessed, MarkFailed, UpdateFails
  <1>10. MayPublish(r)' \subseteq MayPublish(r) /\ Marking(r) \subseteq Marking(r)' \cup {p}
    BY <1>6, <1>7, SetsOfReaders
  <1>11. CASE r \notin processed /\ r \in processed'
    <2>1. r = c
      BY <1>3, <1>11
    <2>2. Marking(r) \cap MayPublish(r)' = {}
      BY <1>6, <1>7, <2>1, SetsOfReaders DEF Marking, MayPublish
    <2> QED
      BY <1>9, <1>11, <2>2, FirstMark
  <1>12. CASE r \in processed
    BY <1>3, <1>9, <1>10, <1>12, OtherStep
  <1>13. CASE r \notin processed'
    <2>1. p \in Marking(r) => faults' = faults + 1
      BY <1>4, <1>8, <1>13 DEF Fault
    <2>2. CASE p \in Marking(r)
      BY <1>3, <1>9, <1>10, <1>13, <2>1, <2>2, OtherStep
    <2>3. CASE p \notin Marking(r)
      <3>1. Marking(r) \subseteq Marking(r)'
        BY <1>7, <2>3, SetsOfReaders
      <3> QED
        BY <1>3, <1>9, <1>10, <1>13, <3>1, OtherStep
    <2> QED
      BY <2>2, <2>3
  <1> QED
    BY <1>11, <1>12, <1>13

LEMMA CrashReceived ==
    ASSUME Inv, Inv', ReceivedInv, NEW p \in Readers, Crash(p)
    PROVE  ReceivedInv'
  <1> SUFFICES ASSUME NEW r \in Rows PROVE Received(r)'
    BY DEF ReceivedInv
  <1>1. /\ reader'[p].batch = {} /\ \A q \in Readers \ {p} : reader'[q] = reader[q]
        /\ UNCHANGED <<processed, published>> /\ faults' = faults + 1
    BY DEF Inv, TypeOK, Crash, table, Fault
  <1>2. p \notin MayPublish(r)'
    BY <1>1 DEF MayPublish
  <1>3. MayPublish(r)' \subseteq MayPublish(r) /\ Marking(r) \subseteq Marking(r)' \cup {p}
    BY <1>1, <1>2, OthersStay, SetsOfReaders
  <1> QED
    BY <1>1, <1>3, OtherStep DEF Inv, ReceivedInv

LEMMA ReceivedStep ==
    ASSUME Inv, ReceivedInv, [Next]_vars
    PROVE  ReceivedInv'
  <1>0. Inv'
    BY InvStep
  <1>1. CASE UNCHANGED <<processed, reader, published, faults>>
    BY <1>1 DEF ReceivedInv, Received, MayPublish, Marking, Current
  <1>2. ASSUME NEW r \in Rows, Write(r) \/ BackoffElapses(r)
        PROVE  ReceivedInv'
    BY <1>1, <1>2 DEF Write, BackoffElapses
  <1>3. ASSUME NEW p \in Readers, Step(p) \/ UpdateFails(p) \/ Crash(p)
        PROVE  ReceivedInv'
    BY <1>0, <1>3, ScanReceived, PublishReceived, UpdateReceived, CrashReceived DEF Step
  <1> QED
    BY <1>1, <1>2, <1>3 DEF Next, vars

\* The broker receives a row's message at most once per reader, and once more
\* for every fault, for any number of readers and rows.
THEOREM ReceivedOncePerReader == Spec => []OncePerReaderPlusFaults
  <1>1. Init => ReceivedInv
    <2> SUFFICES ASSUME Init, NEW r \in Rows PROVE Received(r)
      BY DEF ReceivedInv
    <2>1. published[r] = 0 /\ faults = 0 /\ r \notin processed
      BY DEF Init
    <2>2. Cardinality(Marking(r)) \in Nat
      BY SetsOfReaders, SubsetOfReaders
    <2> QED
      BY <2>1, <2>2 DEF Received
  <1>2. Inv /\ ReceivedInv => OncePerReaderPlusFaults
    <2> SUFFICES ASSUME Inv, NEW r \in Rows, Received(r)
                 PROVE  published[r] <= Cardinality(Readers) + faults
      BY DEF ReceivedInv, OncePerReaderPlusFaults
    <2>1. /\ Cardinality(Marking(r)) \in Nat /\ Cardinality(Marking(r)) <= Cardinality(Readers)
          /\ Cardinality(MayPublish(r)) \in Nat /\ Cardinality(Readers) \in Nat
      BY SetsOfReaders, SubsetOfReaders
    <2>2. published[r] \in Nat /\ faults \in Nat
      BY DEF Inv, TypeOK
    <2>3. CASE r \in processed
      <3>1. published[r] + Cardinality(MayPublish(r)) <= Cardinality(Readers) + faults
        BY <2>3 DEF Received
      <3> QED
        BY <2>1, <2>2, <3>1
    <2>4. CASE r \notin processed
      <3>1. published[r] <= Cardinality(Marking(r)) + faults
        BY <2>4 DEF Received
      <3> QED
        BY <2>1, <2>2, <3>1
    <2> QED
      BY <2>3, <2>4
  <1> QED
    BY <1>1, <1>2, InvInit, InvStep, ReceivedStep, PTL DEF Spec

-----------------------------------------------------------------------------
(* The refinement of OutboxDelivery: what a reader holds was read from a    *)
(* committed transaction.                                                  *)

BatchesWritten == \A p \in Readers : reader[p].batch \subseteq written

LEMMA BatchesWrittenInit == Init => BatchesWritten
  BY DEF Init, BatchesWritten

LEMMA BatchesWrittenStep ==
    ASSUME Inv, BatchesWritten, [Next]_vars
    PROVE  BatchesWritten'
  <1>1. written \subseteq written'
    BY DEF Next, vars, Step, Write, BackoffElapses, ScanBatch, Publish, MarkProcessed,
           MarkFailed, UpdateFails, Crash, table
  <1>2. CASE UNCHANGED reader
    BY <1>1, <1>2 DEF BatchesWritten
  <1>3. ASSUME NEW p \in Readers, reader'[p].batch \subseteq reader[p].batch \cup written,
               \A q \in Readers \ {p} : reader'[q] = reader[q]
        PROVE  BatchesWritten'
    BY <1>1, <1>3 DEF BatchesWritten
  <1>4. ASSUME NEW p \in Readers, ScanBatch(p)
        PROVE  BatchesWritten'
    <2>1. PICK B \in Batches : reader' = [reader EXCEPT ![p] = [pc |-> "publish", batch |-> B]]
      BY <1>4 DEF ScanBatch
    <2>2. B \subseteq written
      BY DEF Batches, Eligible
    <2> QED
      BY <1>3, <2>1, <2>2 DEF Inv, TypeOK
  <1>5. ASSUME NEW p \in Readers, reader[p].pc # "idle", NEW pc \in PCs,
               reader' = [reader EXCEPT ![p].pc = pc]
        PROVE  BatchesWritten'
    BY <1>3, <1>5, PlaceEffect DEF Inv
  <1>6. ASSUME NEW p \in Readers, Publish(p)
        PROVE  BatchesWritten'
    <2>1. reader[p].pc # "idle"
          /\ \E pc \in PCs : reader' = [reader EXCEPT ![p].pc = pc]
      BY <1>6 DEF Publish, AfterPublish, PCs
    <2> QED
      BY <1>5, <2>1
  <1>7. ASSUME NEW p \in Readers, MarkProcessed(p) \/ MarkFailed(p) \/ UpdateFails(p)
        PROVE  BatchesWritten'
    <2>1. reader[p].pc # "idle" /\ (NextRow(p) \/ reader' = [reader EXCEPT ![p].pc = "retry"])
      BY <1>7 DEF MarkProcessed, MarkFailed, UpdateFails
    <2>2. CASE NextRow(p)
      BY <1>3, <2>1, <2>2, NextRowEffect DEF Inv
    <2>3. CASE reader' = [reader EXCEPT ![p].pc = "retry"]
      BY <1>5, <2>1, <2>3 DEF PCs
    <2> QED
      BY <2>1, <2>2, <2>3
  <1>8. ASSUME NEW p \in Readers, Crash(p)
        PROVE  BatchesWritten'
    BY <1>3, <1>8 DEF Crash, Inv, TypeOK
  <1> QED
    BY <1>2, <1>4, <1>6, <1>7, <1>8 DEF Next, vars, Step, Write, BackoffElapses

OnceReceived == {r \in Rows : published[r] > 0}

\* A row that is published becomes received, the others stay what they were.
LEMMA ReceivedGrows ==
    ASSUME TypeOK, NEW c \in Rows, Published(c)
    PROVE  OnceReceived' = OnceReceived \cup {c}
  <1>1. /\ published \in [Rows -> Nat]
        /\ published'[c] = published[c] + 1
        /\ \A r \in Rows \ {c} : published'[r] = published[r]
    BY DEF TypeOK, Published
  <1> QED
    BY <1>1 DEF OnceReceived

LEMMA DeliveryStep ==
    ASSUME Inv, BatchesWritten, [Next]_vars
    PROVE  [Delivery!Next]_(Delivery!vars)
  <1>1. CASE UNCHANGED <<written, published, processed>>
    BY <1>1 DEF Delivery!vars
  <1>2. ASSUME NEW r \in Rows, Write(r)
        PROVE  [Delivery!Next]_(Delivery!vars)
    <2>1. Delivery!Write(r)
      BY <1>2 DEF Write, Delivery!Write
    <2> QED
      BY <2>1 DEF Delivery!Next
  <1>3. ASSUME NEW p \in Readers, Publish(p)
        PROVE  [Delivery!Next]_(Delivery!vars)
    <2>1. PICK c \in Rows : c = Current(p) /\ c \in reader[p].batch
      BY <1>3, CurrentRow DEF Publish, Inv
    <2>2. UNCHANGED <<written, processed>> /\ (Published(c) \/ UNCHANGED published)
      BY <1>3, <2>1 DEF Publish, table
    <2>3. CASE Published(c)
      <3>1. c \in written
        BY <2>1 DEF BatchesWritten
      <3>2. Delivery!Send(c)
        BY <2>2, <2>3, <3>1, ReceivedGrows DEF Delivery!Send, OnceReceived, Inv
      <3> QED
        BY <3>2 DEF Delivery!Next
    <2> QED
      BY <1>1, <2>2, <2>3
  <1>4. ASSUME NEW p \in Readers, MarkProcessed(p) \/ MarkFailed(p) \/ UpdateFails(p)
        PROVE  [Delivery!Next]_(Delivery!vars)
    <2>1. PICK c \in Rows : c = Current(p)
      BY <1>4, CurrentRow DEF MarkProcessed, MarkFailed, UpdateFails, Inv
    <2>2. /\ UNCHANGED <<written, published>>
          /\ \/ UNCHANGED processed
             \/ reader[p].pc = "mark" /\ processed' = processed \cup {c}
      BY <1>4, <2>1 DEF MarkProcessed, MarkFailed, UpdateFails, table
    <2>3. CASE reader[p].pc = "mark" /\ processed' = processed \cup {c}
      <3>1. c \in OnceReceived
        BY <2>1, <2>3 DEF Inv, MarksPublished, OnceReceived
      <3>2. Delivery!Settle(c)
        BY <2>2, <2>3, <3>1 DEF Delivery!Settle, OnceReceived
      <3> QED
        BY <3>2 DEF Delivery!Next
    <2> QED
      BY <1>1, <2>2, <2>3
  <1> QED
    BY <1>1, <1>2, <1>3, <1>4 DEF Next, vars, Step, BackoffElapses, ScanBatch, Crash, table

\* Whatever fails and however many readers share the table, a message is sent
\* only after its transaction committed and settled only after it was sent.
THEOREM DeliveryRefinement == Spec => ImplementsOutboxDelivery
  <1>1. Init => Delivery!Init
    BY DEF Init, Delivery!Init
  <1> QED
    BY <1>1, InvInit, InvStep, BatchesWrittenInit, BatchesWrittenStep, DeliveryStep, PTL
       DEF Spec, ImplementsOutboxDelivery, Delivery!Spec

=============================================================================
