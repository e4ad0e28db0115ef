---------------------------- MODULE KafkaConsumer ---------------------------
(***************************************************************************)
(* The Kafka client of the examples: Subscribe, Run and the goroutine it   *)
(* starts, ConsumeClaim, Publish and Close, in several processes of one    *)
(* consumer group that share one partition.                                *)
(*                                                                         *)
(* Messages are numbered from 1; an offset is the number of the last       *)
(* message it passes, so that 0 is "no offset".  External, as sarama and   *)
(* the group coordinator do it: the partition belongs to one session at a  *)
(* time; MarkMessage raises the session's mark, which is committed at any  *)
(* time and when the session ends; a session starts after the committed    *)
(* offset, or at the end of the log while there is none (Offsets.Initial   *)
(* keeps its default); Consume returns when its session ends.              *)
(***************************************************************************)
EXTENDS Naturals, FiniteSets

CONSTANTS
    Clients,      \* Kafka objects, one per process
    Nobody,       \* the partition has no owner
    LogLength,    \* bound: messages of the partition
    Malformed,    \* messages that do not decode
    MaxFaults     \* bound: rebalances, failed Consume calls, crashes

ASSUME KafkaAssumption == /\ Nobody \notin Clients
                          /\ LogLength \in Nat
                          /\ Malformed \subseteq 1 .. LogLength
                          /\ MaxFaults \in Nat

VARIABLES
    log,         \* messages written so far
    committed,   \* offset of the consumer group
    owner,       \* the client whose session holds the partition
    client,      \* the state of each client
    attempted,   \* history: messages a handler was called with
    acked,       \* history: messages a handler returned nil for
    jumped,      \* history: messages a session without offset started behind
    faults

vars == <<log, committed, owner, client, attempted, acked, jumped, faults>>

(* run: the goroutine of Run: not started, at the head of its loop, in      *)
(* Consume, in a handler, or ended.  at: the message last taken from the    *)
(* claim; mark: the offset marked in the session.  close: place in Close.   *)
ClientType == [subscribed: BOOLEAN, run: {"none", "loop", "consume", "handler", "ended"},
               at: 0 .. LogLength, mark: 0 .. LogLength, cancelled: BOOLEAN,
               sending: BOOLEAN, close: {"no", "waiting", "returned"}]

Fresh == [subscribed |-> FALSE, run |-> "none", at |-> 0, mark |-> 0,
          cancelled |-> FALSE, sending |-> FALSE, close |-> "no"]

\* The context Consume was called with is done: the one given to Run, not the
\* one Close cancels.
ConsumeContextDoneMutBackground(k) == FALSE
ConsumeContextDone(k) == client[k].cancelled

InSession(k) == owner = k /\ client[k].run \in {"consume", "handler"}
Fault == faults < MaxFaults /\ faults' = faults + 1
Later(a, b) == IF a > b THEN a ELSE b

Set(k, c) == client' = [client EXCEPT ![k] = c]

Init == /\ log = 0 /\ committed = 0 /\ owner = Nobody
        /\ client = [k \in Clients |-> Fresh]
        /\ attempted = {} /\ acked = {} /\ jumped = {}
        /\ faults = 0

-----------------------------------------------------------------------------
(* Publishing.  SendMessage runs under the read lock.                      *)

PublishBegins(k) ==
    /\ client[k].close = "no"
    /\ ~client[k].sending
    /\ log < LogLength
    /\ Set(k, [client[k] EXCEPT !.sending = TRUE])
    /\ UNCHANGED <<log, committed, owner, attempted, acked, jumped, faults>>

\* The broker writes the message, or SendMessage returns an error.
PublishEnds(k) ==
    /\ client[k].sending
    /\ Set(k, [client[k] EXCEPT !.sending = FALSE])
    /\ log' \in {log} \cup ({log + 1} \cap 1 .. LogLength)
    /\ UNCHANGED <<committed, owner, attempted, acked, jumped, faults>>

-----------------------------------------------------------------------------
(* Subscribing and consuming.                                              *)

Subscribe(k) ==
    /\ client[k].close = "no"
    /\ ~client[k].subscribed
    /\ Set(k, [client[k] EXCEPT !.subscribed = TRUE])
    /\ UNCHANGED <<log, committed, owner, attempted, acked, jumped, faults>>

\* Run with a handler registered; without one it returns nil and does nothing.
Run(k) == /\ client[k].subscribed
          /\ client[k].run = "none"
          /\ Set(k, [client[k] EXCEPT !.run = "loop"])
          /\ UNCHANGED <<log, committed, owner, attempted, acked, jumped, faults>>

\* The head of the loop: a done context ends it, else Consume is called.
Iterate(k) ==
    /\ client[k].run = "loop"
    /\ Set(k, [client[k] EXCEPT !.run =
                  IF client[k].close # "no" \/ client[k].cancelled THEN "ended" ELSE "consume"])
    /\ UNCHANGED <<log, committed, owner, attempted, acked, jumped, faults>>

\* Where a session begins.
StartOffsetMutEnd == log
StartOffsetMutNext == IF committed = 0 THEN log ELSE committed + 1
StartOffset == IF committed = 0 THEN log ELSE committed

\* A session begins: the partition is assigned to client k.
Assign(k) ==
    /\ client[k].run = "consume"
    /\ owner = Nobody
    /\ ~ConsumeContextDone(k)
    /\ owner' = k
    /\ Set(k, [client[k] EXCEPT !.at = StartOffset, !.mark = 0])
    /\ jumped' = IF committed = 0 THEN jumped \cup (1 .. log) ELSE jumped
    /\ UNCHANGED <<log, committed, attempted, acked, faults>>

\* What ConsumeClaim does with the next message of the claim: skip it with a
\* mark when it does not decode, else call the handler.
Receive(k) ==
    /\ InSession(k) /\ client[k].run = "consume"
    /\ client[k].at < log
    /\ LET next == client[k].at + 1 IN
       IF next \in Malformed
       THEN /\ Set(k, [client[k] EXCEPT !.at = next, !.mark = next])
            /\ UNCHANGED attempted
       ELSE /\ Set(k, [client[k] EXCEPT !.at = next, !.run = "handler"])
            /\ attempted' = attempted \cup {next}
    /\ UNCHANGED <<log, committed, owner, acked, jumped, faults>>

\* The handler returns.  An error is not marked, and the loop goes on with
\* the next message.  A client that lost the partition leaves the claim.
\* (Messages it has buffered may reach its handlers first; left out: they are
\* delivered to the next owner as well.)
MarkAfterMutNext(k, err) == IF err THEN client[k].mark ELSE client[k].at + 1
MarkAfter(k, err) == IF err THEN client[k].mark ELSE client[k].at

HandlerReturns(k) ==
    /\ client[k].run = "handler"
    /\ \E err \in BOOLEAN :
          /\ Set(k, [client[k] EXCEPT !.run = IF owner = k THEN "consume" ELSE "loop",
                                      !.mark = IF owner = k THEN MarkAfter(k, err) ELSE 0])
          /\ acked' = IF err THEN acked ELSE acked \cup {client[k].at}
    /\ UNCHANGED <<log, committed, owner, attempted, jumped, faults>>

\* The marked offset is committed.
AutoCommit(k) ==
    /\ InSession(k)
    /\ client[k].mark > committed
    /\ committed' = client[k].mark
    /\ UNCHANGED <<log, owner, client, attempted, acked, jumped, faults>>

\* The session ends after the handler returned, for a rebalance or because
\* the context given to Run is cancelled: marks are committed, if the
\* coordinator can be reached, and Consume returns nil.
SessionEnds(k) ==
    /\ InSession(k) /\ client[k].run = "consume"
    /\ \/ ConsumeContextDone(k) /\ UNCHANGED faults
       \/ Fault
    /\ committed' \in {committed, Later(committed, client[k].mark)}
    /\ owner' = Nobody
    /\ Set(k, [client[k] EXCEPT !.run = "loop", !.mark = 0])
    /\ UNCHANGED <<log, attempted, acked, jumped>>

\* A handler outlasts the rebalance: the partition goes to somebody else.
Expel(k) ==
    /\ InSession(k) /\ client[k].run = "handler"
    /\ Fault
    /\ owner' = Nobody
    /\ UNCHANGED <<log, committed, client, attempted, acked, jumped>>

\* Consume returns without a session: the context is cancelled, or joining
\* the group failed, which ends the goroutine for good.
ConsumeReturns(k) ==
    /\ client[k].run = "consume" /\ owner # k
    /\ \/ /\ ConsumeContextDone(k)
          /\ Set(k, [client[k] EXCEPT !.run = "loop"])
          /\ UNCHANGED faults
       \/ /\ Fault
          /\ Set(k, [client[k] EXCEPT !.run = "ended"])
    /\ UNCHANGED <<log, committed, owner, attempted, acked, jumped>>

\* The process dies and a new one takes its place.
Crash(k) ==
    /\ client[k] # Fresh
    /\ Fault
    /\ Set(k, Fresh)
    /\ owner' = IF owner = k THEN Nobody ELSE owner
    /\ UNCHANGED <<log, committed, attempted, acked, jumped>>

-----------------------------------------------------------------------------
(* Shutdown.                                                               *)

\* The application cancels the context it gave to Run.
CancelRun(k) ==
    /\ client[k].run # "none"
    /\ ~client[k].cancelled
    /\ Set(k, [client[k] EXCEPT !.cancelled = TRUE])
    /\ UNCHANGED <<log, committed, owner, attempted, acked, jumped, faults>>

\* Close takes the lock, so no SendMessage is running; it cancels a context
\* that the loop looks at but Consume does not.
LockFreeMutNoLock(k) == TRUE
LockFree(k) == ~client[k].sending

CloseBegins(k) ==
    /\ LockFree(k)
    /\ client[k].close = "no"
    /\ Set(k, [client[k] EXCEPT !.close = "waiting"])
    /\ UNCHANGED <<log, committed, owner, attempted, acked, jumped, faults>>

\* consumerWg.Wait, then the group and the producer are closed.
WaitOver(k) == client[k].run \in {"none", "ended"}

CloseReturns(k) ==
    /\ client[k].close = "waiting"
    /\ WaitOver(k)
    /\ Set(k, [client[k] EXCEPT !.close = "returned"])
    /\ UNCHANGED <<log, committed, owner, attempted, acked, jumped, faults>>

Consume(k) == \/ Iterate(k) \/ Assign(k) \/ Receive(k) \/ HandlerReturns(k)
              \/ (ConsumeContextDone(k) /\ (SessionEnds(k) \/ ConsumeReturns(k)))

Next == \E k \in Clients :
            \/ PublishBegins(k) \/ PublishEnds(k) \/ Subscribe(k) \/ Run(k)
            \/ Iterate(k) \/ Assign(k) \/ Receive(k) \/ HandlerReturns(k)
            \/ AutoCommit(k) \/ SessionEnds(k) \/ Expel(k) \/ ConsumeReturns(k)
            \/ Crash(k) \/ CancelRun(k) \/ CloseBegins(k) \/ CloseReturns(k)

(* Goroutines are scheduled, handlers return, a free partition is assigned  *)
(* and a cancelled context ends the session.  Without a cancellation no     *)
(* rebalance is forced.                                                     *)
Fairness == \A k \in Clients : WF_vars(Consume(k)) /\ WF_vars(CloseReturns(k))

Spec == Init /\ [][Next]_vars
FairSpec == Spec /\ Fairness

-----------------------------------------------------------------------------
(* Properties.                                                             *)

\* Type invariant.
TypeOK == /\ log \in 0 .. LogLength
          /\ committed \in 0 .. log
          /\ owner \in Clients \cup {Nobody}
          /\ client \in [Clients -> ClientType]
          /\ attempted \subseteq 1 .. log
          /\ acked \subseteq attempted
          /\ jumped \subseteq 1 .. log
          /\ faults \in 0 .. MaxFaults

\* The group's offset passes only messages that were given to a handler, do
\* not decode, or were in the log before a session started without an offset:
\* no rebalance, crash or failed commit skips a message (MarkMessage in
\* ConsumeClaim, kafka.go:181-204).
PassedWasAttempted ==
    \A m \in 1 .. committed : m \in attempted \cup Malformed \cup jumped

\* The offset passes only messages a handler returned nil for: a message whose
\* handler failed is not committed and is delivered again (kafka.go:198).
PassedWasHandled ==
    \A m \in 1 .. committed : m \in acked \cup Malformed \cup jumped

\* When Close has returned no message is being sent and none handled: the
\* caller may close the database (Close, kafka.go:122-135).
ClosedIsQuiet ==
    \A k \in Clients : client[k].close = "returned" =>
        /\ ~client[k].sending
        /\ client[k].run \notin {"consume", "handler"}

\* Close returns once the context given to Run is cancelled, also when the
\* goroutine is in Consume or in a handler.  (Without the cancellation it
\* waits for a rebalance.)
CloseTerminates ==
    \A k \in Clients : client[k].close = "waiting" /\ client[k].cancelled
                            ~> client[k].close # "waiting"

\* A message is given to a handler, or jumped, or no client is left whose
\* goroutine runs: it did not start, was stopped, or Consume failed once.
NobodyConsumes == \A k \in Clients : client[k].run \in {"none", "ended"}
EventuallyAttempted ==
    \A m \in 1 .. LogLength :
        log >= m ~> m \in attempted \cup Malformed \cup jumped \/ NobodyConsumes

=============================================================================
