------------------------------ MODULE Service -------------------------------
(***************************************************************************)
(* One process of a service from Register to shutdown: the controller with *)
(* its outbox reader, over the NATS client.  The reader's goroutine calls  *)
(* the client's Publish for every row; the deferred calls of main run in   *)
(* the order Controller.Close, Client.Close.                               *)
(***************************************************************************)
EXTENDS ReaderLifecycle, NatsClient

VARIABLE refused    \* history: rows whose Publish met a closed client

serviceVars == <<vars, clientVars, refused>>

ServiceInit == Init /\ ClientInit /\ refused = FALSE

\* Controller.Register, before Init.
Register(t) == /\ \A s \in Starters : call[s] = "idle"
               /\ Subscribe(t)
               /\ UNCHANGED <<vars, refused>>

\* A row is published; what is refused counts as a failed attempt of the row.
PublishRow == /\ ProcessRow
              /\ ~closing
              /\ refused' = (refused \/ PublishOutcome = "closed")
              /\ UNCHANGED clientVars

ControllerStep == /\ \/ \E s \in Starters : StartStep(s)
                     \/ \E c \in Closers : CloseStep(c)
                     \/ Tick \/ Stop \/ CancelUserContext
                  /\ UNCHANGED <<clientVars, refused>>

\* The broker's client is closed after the controller.
MayCloseClient == \A c \in Closers : call[c] = "returned"

\* Client.Close, again if it failed.
CloseClient == /\ \/ MayCloseClient /\ CloseLocks
                  \/ \E t \in Topics : CloseUnsubscribes(t)
                  \/ CloseFails \/ CloseCloses
               /\ UNCHANGED <<vars, refused>>

ConnectionStep == /\ \/ Disconnect
                     \/ \E t \in Topics : HandlerStarts(t) \/ HandlerReturns(t)
                  /\ UNCHANGED <<vars, refused>>

ServiceNext == \/ \E t \in Topics : Register(t)
               \/ PublishRow \/ ControllerStep \/ CloseClient \/ ConnectionStep

ServiceSpec == ServiceInit /\ [][ServiceNext]_serviceVars
ServiceFairSpec == ServiceSpec /\ Fairness

-----------------------------------------------------------------------------
(* Properties.                                                             *)

\* No row of the outbox is offered to a client that is closed: such a row
\* would spend its attempts on a shutdown and never be read again (Reader.Close
\* waits for the polling goroutine; Client.Publish checks the flag).
NoRowRefused == ~refused

\* The connection delivers the topics of the client's map and no others, also
\* between the calls of a Close, after one that failed halfway and when it was
\* lost: no subscription runs on that Close does not find, and Close does not
\* fail for ever at one that it has already ended (Client.Subscribe, the order
\* of Unsubscribe and delete in Client.Close).
MapMatchesConnection == live = IF connected THEN subs ELSE {}

=============================================================================
