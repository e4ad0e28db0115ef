------------------------ MODULE ReaderLifecycleProofs -----------------------
(***************************************************************************)
(* Proofs about ReaderLifecycle, for every set of callers of Start and     *)
(* Close and every batch size: type correctness, that one goroutine polls, *)
(* and that it has stopped when Close returns.                             *)
(***************************************************************************)
EXTENDS ReaderLifecycle, TLAPS

-----------------------------------------------------------------------------
(* Type correctness.  ProcessRow counts down: it needs a row to be left.   *)

RowIsLeft == poller.pc = "batch" => poller.left >= 1

Typed == TypeOK /\ RowIsLeft

LEMMA TypedInit == Init => Typed
  <1> SUFFICES ASSUME Init PROVE Typed
    OBVIOUS
  <1>1. {started, closed, closeDone, userDone} \subseteq BOOLEAN
    BY DEF Init
  <1>2. 0 \in 0 .. BatchSize
    BY LifecycleAssumption
  <1>3. RowIsLeft /\ pollers \in Nat
    BY DEF Init, RowIsLeft
  <1>4. call \in [Callers -> {"idle", "checked", "swapped", "waiting", "returned"}]
    BY DEF Init
  <1> QED
    BY <1>1, <1>2, <1>3, <1>4 DEF Init, Typed, TypeOK

LEMMA TypedStep ==
    ASSUME Typed, [Next]_vars
    PROVE  Typed'
  <1> USE DEF Typed, TypeOK, RowIsLeft
  <1>1. ASSUME NEW s \in Starters, StartStep(s)
        PROVE  Typed'
    <2>1. CASE StartLoadsClosed(s)
      BY <2>1 DEF StartLoadsClosed, Goto, Callers
    <2>2. CASE StartSwapsStarted(s)
      BY <2>2 DEF StartSwapsStarted, Goto, Callers
    <2>3. CASE StartLaunches(s)
      BY <2>3, LifecycleAssumption DEF StartLaunches, Goto, Callers
    <2> QED
      BY <1>1, <2>1, <2>2, <2>3 DEF StartStep
  <1>2. ASSUME NEW c \in Closers, CloseStep(c)
        PROVE  Typed'
    BY <1>2 DEF CloseStep, CloseSwapsClosed, CloseCancels, CloseReturns, Goto, Callers
  <1>3. CASE Tick
    BY <1>3, LifecycleAssumption DEF Tick, RowsRead
  <1>4. CASE ProcessRow
    <2>1. poller.left \in 1 .. BatchSize
      BY <1>4 DEF ProcessRow
    <2>2. CASE poller.left = 1
      BY <1>4, <2>2, LifecycleAssumption DEF ProcessRow
    <2>3. CASE poller.left # 1
      <3>1. poller.left - 1 \in 1 .. BatchSize
        BY <2>1, <2>3, LifecycleAssumption
      <3>2. poller' = [pc |-> "batch", left |-> poller.left - 1]
        BY <1>4, <2>3 DEF ProcessRow
      <3> QED
        BY <1>4, <3>1, <3>2 DEF ProcessRow
    <2> QED
      BY <2>2, <2>3
  <1>5. CASE Stop
    BY <1>5, LifecycleAssumption DEF Stop
  <1>6. CASE CancelUserContext
    BY <1>6 DEF CancelUserContext
  <1>7. CASE UNCHANGED vars
    BY <1>7 DEF vars
  <1> QED
    BY <1>1, <1>2, <1>3, <1>4, <1>5, <1>6, <1>7 DEF Next

\* Type invariant, for every number of callers and every batch size.
THEOREM TypeCorrect == Spec => []TypeOK
  <1>1. Typed => TypeOK
    BY DEF Typed
  <1> QED
    BY <1>1, TypedInit, TypedStep, PTL DEF Spec

-----------------------------------------------------------------------------
(* One polling goroutine.  Whoever swaps started from false may launch it, *)
(* once: a call between the swap and the launch is alone, and it is not    *)
(* there when the flag is still down or the goroutine was launched.        *)

Launching(s) == call[s] = "swapped"

OneLauncher ==
    /\ \A s, t \in Starters : Launching(s) /\ Launching(t) => s = t
    /\ \A s \in Starters : Launching(s) => started /\ pollers = 0
    /\ ~started => pollers = 0
    /\ pollers <= 1
    /\ Running => pollers = 1

LEMMA OneLauncherStep ==
    ASSUME Typed, OneLauncher, [Next]_vars
    PROVE  OneLauncher'
  <1> USE DEF OneLauncher, Launching, Typed, TypeOK, Running
  <1>1. ASSUME NEW s \in Starters, StartStep(s)
        PROVE  OneLauncher'
    <2>1. CASE StartLoadsClosed(s)
      BY <2>1 DEF StartLoadsClosed, Goto, Callers
    <2>2. CASE StartSwapsStarted(s)
      BY <2>2 DEF StartSwapsStarted, Goto, Callers, SwapStarted
    <2>3. CASE StartLaunches(s)
      BY <2>3 DEF StartLaunches, Goto, Callers
    <2> QED
      BY <1>1, <2>1, <2>2, <2>3 DEF StartStep
  <1>2. ASSUME NEW c \in Closers, CloseStep(c)
        PROVE  OneLauncher'
    <2>1. /\ UNCHANGED <<started, pollers, poller>>
          /\ \A s \in Starters : call'[s] = call[s]
      BY <1>2, LifecycleAssumption
      DEF CloseStep, CloseSwapsClosed, CloseCancels, CloseReturns, Goto, Callers
    <2> QED
      BY <2>1
  <1>3. CASE Tick \/ ProcessRow \/ Stop
    BY <1>3 DEF Tick, ProcessRow, Stop
  <1>4. CASE CancelUserContext
    BY <1>4 DEF CancelUserContext
  <1>5. CASE UNCHANGED vars
    BY <1>5 DEF vars
  <1> QED
    BY <1>1, <1>2, <1>3, <1>4, <1>5 DEF Next

\* However many goroutines call Init of the controller, in whatever order and
\* together with whatever calls of Close, one polling goroutine is launched.
THEOREM OnePollerEver == Spec => []OnePoller
  <1>1. Init => OneLauncher
    BY DEF Init, OneLauncher, Launching, Callers, Running
  <1>2. OneLauncher => OnePoller
    BY DEF OneLauncher, OnePoller
  <1> QED
    BY <1>1, <1>2, TypedInit, TypedStep, OneLauncherStep, PTL DEF Spec

-----------------------------------------------------------------------------
(* Close waits.  The first call of Close swaps closed; until it has waited *)
(* for the goroutine it is on its way, and afterwards nobody can launch    *)
(* another one, because no call of Start is past its look at closed.       *)

Settled(s) == call[s] \in {"idle", "returned"}
Closing(c) == call[c] \in {"swapped", "waiting"}

ClosedInOrder ==
    /\ closed => \A s \in Starters : Settled(s)
    /\ ~closed => \A c \in Closers : call[c] = "idle"
    /\ closed /\ Running => \E c \in Closers : Closing(c)

LEMMA ClosedInOrderStep ==
    ASSUME CloseDuringStart = FALSE, Typed, ClosedInOrder, [Next]_vars
    PROVE  ClosedInOrder'
  <1> USE DEF ClosedInOrder, Settled, Closing, Typed, TypeOK, Running
  <1>1. ASSUME NEW s \in Starters, StartStep(s)
        PROVE  ClosedInOrder'
    <2>1. closed' = closed /\ \A c \in Closers : call'[c] = call[c]
      BY <1>1, LifecycleAssumption
      DEF StartStep, StartLoadsClosed, StartSwapsStarted, StartLaunches, Goto, Callers
    <2>2. CASE StartLoadsClosed(s)
      BY <2>1, <2>2 DEF StartLoadsClosed, Goto, Callers
    <2>3. CASE StartSwapsStarted(s)
      BY <2>1, <2>3 DEF StartSwapsStarted, Goto, Callers
    <2>4. CASE StartLaunches(s)
      BY <2>1, <2>4 DEF StartLaunches, Goto, Callers
    <2> QED
      BY <1>1, <2>2, <2>3, <2>4 DEF StartStep
  <1>2. ASSUME NEW c \in Closers, CloseStep(c)
        PROVE  ClosedInOrder'
    <2>1. UNCHANGED poller /\ \A s \in Starters : call'[s] = call[s]
      BY <1>2, LifecycleAssumption
      DEF CloseStep, CloseSwapsClosed, CloseCancels, CloseReturns, Goto, Callers
    <2>2. CASE CloseSwapsClosed(c)
      <3>1. \A s \in Starters : Settled(s)
        BY <2>2 DEF CloseSwapsClosed, MayClose
      <3>2. CASE closed
        BY <2>1, <2>2, <3>1, <3>2 DEF CloseSwapsClosed, Goto, Callers
      <3>3. CASE ~closed
        BY <2>1, <2>2, <3>1, <3>3 DEF CloseSwapsClosed, Goto, Callers
      <3> QED
        BY <3>2, <3>3
    <2>3. CASE CloseCancels(c)
      BY <2>1, <2>3 DEF CloseCancels, Goto, Callers
    <2>4. CASE CloseReturns(c)
      BY <2>1, <2>4 DEF CloseReturns, Goto, Callers, WaitOver
    <2> QED
      BY <1>2, <2>2, <2>3, <2>4 DEF CloseStep
  <1>3. CASE Tick \/ ProcessRow \/ Stop
    BY <1>3 DEF Tick, ProcessRow, Stop
  <1>4. CASE CancelUserContext
    BY <1>4 DEF CancelUserContext
  <1>5. CASE UNCHANGED vars
    BY <1>5 DEF vars
  <1> QED
    BY <1>1, <1>2, <1>3, <1>4, <1>5 DEF Next

LEMMA ClosedInOrderInit == Init => ClosedInOrder
  BY DEF Init, ClosedInOrder, Settled, Callers, Running

\* Every call of Close has returned, and there was one: nothing polls.  This
\* holds for any number of calls of Close; one that finds the flag set may
\* return while the first still waits.
AllClosedMeansStopped ==
    (Closers # {} /\ \A c \in Closers : call[c] = "returned") => ~Running

LEMMA InOrderMeansStopped ==
    ASSUME ClosedInOrder
    PROVE  AllClosedMeansStopped
  BY DEF ClosedInOrder, AllClosedMeansStopped, Closing

\* When Close is not called while a call of Start runs and is called once,
\* the polling goroutine has stopped when it returns.
THEOREM ClosedIsStopped ==
    ASSUME CloseDuringStart = FALSE,
           \A c, d \in Closers : c = d
    PROVE  Spec => []ClosedMeansStopped
  <1>1. ClosedInOrder => ClosedMeansStopped
    BY DEF ClosedInOrder, ClosedMeansStopped, Closing
  <1> QED
    BY <1>1, TypedInit, TypedStep, ClosedInOrderInit, ClosedInOrderStep, PTL DEF Spec

=============================================================================
