--------------------------- MODULE ReaderLifecycle --------------------------
(***************************************************************************)
(* Starting and closing an outbox.Reader: Controller.Init calls Start,     *)
(* Controller.Close calls Close, and the polling goroutine selects between *)
(* its two contexts and the ticker.  A batch is abstracted to the number   *)
(* of its rows that are left (OutboxReader models what is done to a row).  *)
(***************************************************************************)
EXTENDS Naturals, FiniteSets

CONSTANTS
    Starters,           \* goroutines that call Init
    Closers,            \* goroutines that call Close
    BatchSize,
    CloseDuringStart    \* may Close be called while a call of Start runs?

\* A goroutine that calls both counts twice: its calls have a place each.
ASSUME LifecycleAssumption == /\ BatchSize \in Nat
                              /\ CloseDuringStart \in BOOLEAN
                              /\ Starters \cap Closers = {}

VARIABLES
    started,     \* the flags of the Reader
    closed,
    closeDone,   \* closeCtx is cancelled
    userDone,    \* the context given to Start is cancelled
    pollers,     \* how many polling goroutines were launched
    poller,      \* the polling goroutine: place in its loop, rows left
    call         \* place of each caller in Start or Close

vars == <<started, closed, closeDone, userDone, pollers, poller, call>>

Callers == Starters \cup Closers

Running == poller.pc \in {"select", "batch"}

Init == /\ started = FALSE /\ closed = FALSE
        /\ closeDone = FALSE /\ userDone = FALSE
        /\ pollers = 0
        /\ poller = [pc |-> "none", left |-> 0]
        /\ call = [c \in Callers |-> "idle"]

Goto(c, from, to) == call[c] = from /\ call' = [call EXCEPT ![c] = to]

-----------------------------------------------------------------------------
(* Start                                                                   *)

StartLoadsClosed(s) ==
    /\ Goto(s, "idle", IF closed THEN "returned" ELSE "checked")
    /\ UNCHANGED <<started, closed, closeDone, userDone, pollers, poller>>

SwapStartedMutStore == TRUE
SwapStarted == ~started

StartSwapsStarted(s) ==
    /\ Goto(s, "checked", IF SwapStarted THEN "swapped" ELSE "returned")
    /\ started' = TRUE
    /\ UNCHANGED <<closed, closeDone, userDone, pollers, poller>>

\* wg.Go launches polling.
StartLaunches(s) ==
    /\ Goto(s, "swapped", "returned")
    /\ pollers' = pollers + 1
    /\ poller' = [pc |-> "select", left |-> 0]
    /\ UNCHANGED <<started, closed, closeDone, userDone>>

-----------------------------------------------------------------------------
(* Close                                                                   *)

MayClose == CloseDuringStart \/ \A s \in Starters : call[s] \in {"idle", "returned"}

CloseSwapsClosed(c) ==
    /\ MayClose
    /\ Goto(c, "idle", IF closed THEN "returned" ELSE "swapped")
    /\ closed' = TRUE
    /\ UNCHANGED <<started, closeDone, userDone, pollers, poller>>

CloseCancels(c) ==
    /\ Goto(c, "swapped", "waiting")
    /\ closeDone' = TRUE
    /\ UNCHANGED <<started, closed, userDone, pollers, poller>>

\* wg.Wait
WaitOverMut == TRUE
WaitOver == ~Running

CloseReturns(c) ==
    /\ WaitOver
    /\ Goto(c, "waiting", "returned")
    /\ UNCHANGED <<started, closed, closeDone, userDone, pollers, poller>>

-----------------------------------------------------------------------------
(* polling                                                                 *)

\* scanBatch reads at most as many rows as the buffer has places.
RowsReadMutLimit == 1 .. BatchSize + 1
RowsRead == 1 .. BatchSize

\* The ticker's channel is ready; select may choose it even when a context is
\* done.
Tick == /\ poller.pc = "select"
        /\ \E n \in RowsRead : poller' = [pc |-> "batch", left |-> n]
        /\ UNCHANGED <<started, closed, closeDone, userDone, pollers, call>>

\* processMessage of one row; no context is looked at between the rows.
ProcessRow ==
    /\ poller.pc = "batch"
    /\ poller' = IF poller.left = 1 THEN [pc |-> "select", left |-> 0]
                 ELSE [poller EXCEPT !.left = @ - 1]
    /\ UNCHANGED <<started, closed, closeDone, userDone, pollers, call>>

StopSignalMutUser == userDone
StopSignal == closeDone \/ userDone

Stop == /\ poller.pc = "select"
        /\ StopSignal
        /\ poller' = [pc |-> "done", left |-> 0]
        /\ UNCHANGED <<started, closed, closeDone, userDone, pollers, call>>

\* The application cancels the context it gave to Init.
CancelUserContext ==
    /\ ~userDone
    /\ userDone' = TRUE
    /\ UNCHANGED <<started, closed, closeDone, pollers, poller, call>>

StartStep(s) == StartLoadsClosed(s) \/ StartSwapsStarted(s) \/ StartLaunches(s)
CloseStep(c) == CloseSwapsClosed(c) \/ CloseCancels(c) \/ CloseReturns(c)

Next == \/ \E s \in Starters : StartStep(s)
        \/ \E c \in Closers : CloseStep(c)
        \/ Tick \/ ProcessRow \/ Stop \/ CancelUserContext

(* Goroutines are scheduled and a row's calls return.  select chooses at    *)
(* random among the channels that are ready, so a done context is chosen   *)
(* sooner or later: strong fairness of Stop.                               *)
Fairness == /\ \A c \in Closers : WF_vars(CloseCancels(c)) /\ WF_vars(CloseReturns(c))
            /\ WF_vars(ProcessRow)
            /\ SF_vars(Stop)

Spec == Init /\ [][Next]_vars
FairSpec == Spec /\ Fairness

-----------------------------------------------------------------------------
(* Properties.                                                             *)

\* Type invariant.
TypeOK == /\ {started, closed, closeDone, userDone} \subseteq BOOLEAN
          /\ pollers \in Nat
          /\ poller \in [pc: {"none", "select", "batch", "done"}, left: 0 .. BatchSize]
          /\ call \in [Callers -> {"idle", "checked", "swapped", "waiting", "returned"}]

\* However many goroutines call Init, one polling goroutine is launched: two
\* of them would share the reader's buffer.
OnePoller == pollers <= 1

\* When a call of Close has returned, the polling goroutine is not running:
\* the caller may close the broker's client and the database.
ClosedMeansStopped == (\E c \in Closers : call[c] = "returned") => ~Running

\* A call of Close that has cancelled the context returns.
CloseTerminates == \A c \in Closers : call[c] = "waiting" ~> call[c] = "returned"

=============================================================================
