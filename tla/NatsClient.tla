----------------------------- MODULE NatsClient -----------------------------
(***************************************************************************)
(* pubsub/nats.Client: the subscription map, the closed flag, and what its *)
(* methods do to the connection.  Publish and Subscribe run under the      *)
(* client's read-write lock, each in one step against the other methods.   *)
(* Close holds the lock over several calls of the connection, which may be *)
(* lost, and whose handlers may run, between any two of them.              *)
(* External: nats.Conn calls the handlers of one subscription one after    *)
(* the other; once it gave up reconnecting it refuses every call, and it   *)
(* refuses to unsubscribe what it is not subscribed to.  Unsubscribe may   *)
(* also fail for reasons the client knows nothing of; the subscription     *)
(* then stays.                                                             *)
(***************************************************************************)
CONSTANT Topics

VARIABLES
    subs,          \* topics in the client's map
    clientClosed,  \* the client's flag
    closing,       \* a call of Close holds the lock
    connected,     \* the connection is open (it may be reconnecting)
    live,          \* topics the connection delivers
    handling       \* topics whose handler is running

clientVars == <<subs, clientClosed, closing, connected, live, handling>>

ClientInit == /\ subs = {} /\ live = {} /\ handling = {}
              /\ clientClosed = FALSE /\ closing = FALSE /\ connected = TRUE

\* Subscribe; a second one for a topic is refused, like any after Close.
Subscribe(t) ==
    /\ ~closing
    /\ ~clientClosed
    /\ t \notin subs
    /\ connected
    /\ subs' = subs \cup {t}
    /\ live' = live \cup {t}
    /\ UNCHANGED <<clientClosed, closing, connected, handling>>

\* Publish: refused by a closed client, an error of a lost connection, or a
\* message in the connection's buffer.
PublishOutcome ==
    IF clientClosed THEN "closed" ELSE IF connected THEN "buffered" ELSE "error"

\* A message arrives and the handler is called; messages of a topic wait for
\* the handler of the one before.
HandlerStarts(t) ==
    /\ t \in live \ handling
    /\ handling' = handling \cup {t}
    /\ UNCHANGED <<subs, clientClosed, closing, connected, live>>

\* An error is dropped: NATS knows no acknowledgement.
HandlerReturns(t) ==
    /\ t \in handling
    /\ handling' = handling \ {t}
    /\ UNCHANGED <<subs, clientClosed, closing, connected, live>>

\* Close of a client that is not closed takes the lock ...
CloseLocks ==
    /\ ~closing /\ ~clientClosed
    /\ closing' = TRUE
    /\ UNCHANGED <<subs, clientClosed, connected, live, handling>>

\* ... unsubscribes topic after topic, in any order ...
UnsubscribedMutKeep(t) == subs
Unsubscribed(t) == subs \ {t}

CloseUnsubscribes(t) ==
    /\ closing
    /\ connected /\ t \in subs \cap live
    /\ live' = live \ {t}
    /\ subs' = Unsubscribed(t)
    /\ UNCHANGED <<clientClosed, closing, connected, handling>>

\* ... gives up with an error at the first that fails, the flag unset ...
CloseFails ==
    /\ closing
    /\ subs # {}
    /\ closing' = FALSE
    /\ UNCHANGED <<subs, clientClosed, connected, live, handling>>

\* ... and closes the connection when the map is empty.
CloseCloses ==
    /\ closing
    /\ subs = {}
    /\ clientClosed' = TRUE /\ closing' = FALSE
    /\ connected' = FALSE /\ live' = {}
    /\ UNCHANGED <<subs, handling>>

\* The connection is lost for good.
Disconnect == /\ connected
              /\ connected' = FALSE
              /\ live' = {}
              /\ UNCHANGED <<subs, clientClosed, closing, handling>>

=============================================================================
