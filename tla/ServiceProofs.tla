---------------------------- MODULE ServiceProofs ---------------------------
(***************************************************************************)
(* Proofs about Service: a service runs its reader as ReaderLifecycle      *)
(* says, so that what is proved of the reader holds of it; no row meets a  *)
(* closed client; and the client's map stands for its subscriptions.       *)
(***************************************************************************)
EXTENDS Service, ReaderLifecycleProofs

LEMMA ServiceStepIsReaderStep ==
    ASSUME [ServiceNext]_serviceVars
    PROVE  [Next]_vars
  <1>1. CASE \E t \in Topics : Register(t)
    BY <1>1 DEF Register
  <1>2. CASE PublishRow
    BY <1>2 DEF PublishRow, Next
  <1>3. CASE ControllerStep
    BY <1>3 DEF ControllerStep, Next
  <1>4. CASE CloseClient \/ ConnectionStep
    BY <1>4 DEF CloseClient, ConnectionStep
  <1>5. CASE UNCHANGED serviceVars
    BY <1>5 DEF serviceVars
  <1> QED
    BY <1>1, <1>2, <1>3, <1>4, <1>5 DEF ServiceNext

\* Composing the reader with the client adds nothing to what the reader does:
\* every step of the service is a step of the reader or leaves it alone.
THEOREM ServiceRunsReader == ServiceSpec => Spec
  <1>1. ServiceInit => Init
    BY DEF ServiceInit
  <1> QED
    BY <1>1, ServiceStepIsReaderStep, PTL DEF ServiceSpec, Spec

\* So one goroutine publishes the rows of a service, and when its only call of
\* Controller.Close has returned none does.
THEOREM ServiceKeepsReader ==
    ASSUME CloseDuringStart = FALSE,
           \A c, d \in Closers : c = d
    PROVE  ServiceSpec => [](TypeOK /\ OnePoller /\ ClosedMeansStopped)
  BY ServiceRunsReader, TypeCorrect, OnePollerEver, ClosedIsStopped, PTL

-----------------------------------------------------------------------------
(* The shutdown order.  The client is closed after every call of Close has *)
(* returned, and then the goroutine that publishes has stopped for good.   *)

ClientClosedLast == closing \/ clientClosed => closed /\ ~Running

ShutdownInv == Typed /\ ClosedInOrder /\ ClientClosedLast /\ NoRowRefused

LEMMA ShutdownInit == ServiceInit => ShutdownInv
  BY TypedInit, ClosedInOrderInit
  DEF ServiceInit, ClientInit, ShutdownInv, ClientClosedLast, NoRowRefused

LEMMA StoppedForGood ==
    ASSUME ClosedInOrder, closed, ~Running, Typed, [Next]_vars
    PROVE  closed' /\ ~Running'
  <1> USE DEF Running
  <1>1. ASSUME NEW s \in Starters, StartStep(s)
        PROVE  closed' /\ ~Running'
    BY <1>1 DEF StartStep, StartLoadsClosed, StartSwapsStarted, StartLaunches, Goto,
                ClosedInOrder, Settled
  <1>2. ASSUME NEW c \in Closers, CloseStep(c)
        PROVE  closed' /\ ~Running'
    BY <1>2 DEF CloseStep, CloseSwapsClosed, CloseCancels, CloseReturns
  <1>3. CASE Tick \/ ProcessRow \/ Stop
    BY <1>3 DEF Tick, ProcessRow, Stop
  <1>4. CASE CancelUserContext \/ UNCHANGED vars
    BY <1>4 DEF CancelUserContext, vars
  <1> QED
    BY <1>1, <1>2, <1>3, <1>4 DEF Next

LEMMA ShutdownStep ==
    ASSUME CloseDuringStart = FALSE, Closers # {}, ShutdownInv, [ServiceNext]_serviceVars
    PROVE  ShutdownInv'
  <1> USE DEF ShutdownInv
  <1>0. [Next]_vars
    BY ServiceStepIsReaderStep
  <1>1. Typed' /\ ClosedInOrder'
    BY <1>0, TypedStep, ClosedInOrderStep
  <1>2. closing \/ clientClosed => closed' /\ ~Running'
    BY <1>0, StoppedForGood DEF ClientClosedLast
  <1>3. CASE UNCHANGED <<closing, clientClosed, refused>>
    BY <1>1, <1>2, <1>3 DEF ClientClosedLast, NoRowRefused
  <1>4. CASE PublishRow
    <2>1. ~clientClosed
      BY <1>4 DEF PublishRow, ProcessRow, ClientClosedLast, Running
    <2> QED
      BY <1>1, <1>2, <1>4, <2>1
      DEF PublishRow, PublishOutcome, clientVars, ClientClosedLast, NoRowRefused
  <1>5. CASE CloseClient
    <2>1. closing \/ \A c \in Closers : call[c] = "returned"
      BY <1>5 DEF CloseClient, MayCloseClient, CloseUnsubscribes, CloseFails, CloseCloses
    <2>2. closed /\ ~Running
      BY <2>1, InOrderMeansStopped
      DEF ClientClosedLast, AllClosedMeansStopped, ClosedInOrder, Typed, TypeOK
    <2>3. UNCHANGED <<vars, refused>>
      BY <1>5 DEF CloseClient
    <2> QED
      BY <1>1, <2>2, <2>3 DEF vars, Running, ClientClosedLast, NoRowRefused
  <1> QED
    BY <1>3, <1>4, <1>5
    DEF ServiceNext, Register, Subscribe, ControllerStep, ConnectionStep, Disconnect,
        HandlerStarts, HandlerReturns, clientVars, serviceVars

\* No row is offered to a closed client, whatever the number of goroutines that
\* call Init or Close, the batch size and the topics, as long as somebody calls
\* Close and nobody does while Start runs.
THEOREM NoRowIsRefused ==
    ASSUME CloseDuringStart = FALSE,
           Closers # {}
    PROVE  ServiceSpec => []NoRowRefused
  <1>1. ShutdownInv => NoRowRefused
    BY DEF ShutdownInv
  <1> QED
    BY <1>1, ShutdownInit, ShutdownStep, PTL DEF ServiceSpec

-----------------------------------------------------------------------------
(* The client.                                                             *)

LEMMA MapStep ==
    ASSUME MapMatchesConnection, [ServiceNext]_serviceVars
    PROVE  MapMatchesConnection'
  <1> USE DEF MapMatchesConnection
  <1>1. ASSUME NEW t \in Topics, Register(t)
        PROVE  MapMatchesConnection'
    BY <1>1 DEF Register, Subscribe
  <1>2. CASE PublishRow \/ ControllerStep
    BY <1>2 DEF PublishRow, ControllerStep, clientVars
  <1>3. CASE CloseClient
    <2>1. ASSUME NEW t \in Topics, CloseUnsubscribes(t)
          PROVE  MapMatchesConnection'
      BY <2>1 DEF CloseUnsubscribes, Unsubscribed
    <2> QED
      BY <1>3, <2>1 DEF CloseClient, CloseLocks, CloseFails, CloseCloses
  <1>4. CASE ConnectionStep
    BY <1>4 DEF ConnectionStep, Disconnect, HandlerStarts, HandlerReturns
  <1>5. CASE UNCHANGED serviceVars
    BY <1>5 DEF serviceVars, clientVars
  <1> QED
    BY <1>1, <1>2, <1>3, <1>4, <1>5 DEF ServiceNext

\* What the connection delivers is what the client's map holds, through a Close
\* that fails at any of its topics and is called again, and through the loss of
\* the connection at any moment of it.
THEOREM MapIsTheConnections == ServiceSpec => []MapMatchesConnection
  <1>1. ServiceInit => MapMatchesConnection
    BY DEF ServiceInit, ClientInit, MapMatchesConnection
  <1> QED
    BY <1>1, MapStep, PTL DEF ServiceSpec

=============================================================================
