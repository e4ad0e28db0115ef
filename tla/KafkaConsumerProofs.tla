------------------------- MODULE KafkaConsumerProofs ------------------------
(***************************************************************************)
(* Proofs about KafkaConsumer, for every number of clients, length of the  *)
(* log, set of messages that do not decode and number of faults: type      *)
(* correctness, that the group's offset skips no message, and that a       *)
(* client that was closed is quiet.                                        *)
(***************************************************************************)
EXTENDS KafkaConsumer, TLAPS

-----------------------------------------------------------------------------
(* What a step does to the clients: it changes one of them.                *)

LEMMA SetEffect ==
    ASSUME client \in [Clients -> ClientType], NEW k \in Clients, NEW c \in ClientType,
           Set(k, c)
    PROVE  /\ client' \in [Clients -> ClientType]
           /\ client'[k] = c
           /\ \A j \in Clients \ {k} : client'[j] = client[j]
  BY DEF Set

\* Leaving a handler or a session: the goroutine's place and the mark change.
Leave(c, r, m) == [c EXCEPT !.run = r, !.mark = m]

LEMMA LeaveEffect ==
    ASSUME NEW c \in ClientType, NEW r \in {"loop", "consume"}, NEW m \in 0 .. LogLength
    PROVE  /\ Leave(c, r, m) \in ClientType
           /\ Leave(c, r, m).run = r
           /\ Leave(c, r, m).mark = m
           /\ Leave(c, r, m).at = c.at
  BY DEF ClientType, Leave

-----------------------------------------------------------------------------
(* The offset.  The client that owns the partition is in a session; what   *)
(* its session has taken from the claim was attempted, does not decode or  *)
(* was jumped, and its mark is not ahead of it.  So a mark may be          *)
(* committed at any time.                                                  *)

Passed == attempted \cup Malformed \cup jumped

OwnerConsumes == \A k \in Clients : owner = k => client[k].run \in {"consume", "handler"}

SessionCovered ==
    \A k \in Clients : owner = k =>
        /\ client[k].mark <= client[k].at
        /\ client[k].at <= log
        /\ 1 .. client[k].at \subseteq Passed

HandlerWasCalled ==
    \A k \in Clients : client[k].run = "handler" => client[k].at \in attempted

OffsetInv == /\ TypeOK
             /\ OwnerConsumes
             /\ SessionCovered
             /\ HandlerWasCalled
             /\ PassedWasAttempted

\* A step that leaves the partition's state alone and moves client k, in no
\* session before or after it or with the same place in it.
Aside(k) ==
    /\ UNCHANGED <<committed, owner, attempted, acked, jumped>>
    /\ log' \in log .. LogLength
    /\ faults' \in 0 .. MaxFaults
    /\ \E c \in ClientType :
          /\ Set(k, c)
          /\ c.at = client[k].at
          /\ c.mark = client[k].mark
          /\ c.run = "handler" => client[k].run = "handler"
          /\ owner = k => c.run = client[k].run

LEMMA AsideKeepsOffset ==
    ASSUME OffsetInv, NEW k \in Clients, Aside(k)
    PROVE  OffsetInv'
  <1>1. PICK c \in ClientType :
          /\ Set(k, c)
          /\ c.at = client[k].at
          /\ c.mark = client[k].mark
          /\ c.run = "handler" => client[k].run = "handler"
          /\ owner = k => c.run = client[k].run
    BY DEF Aside
  <1>2. /\ client' \in [Clients -> ClientType]
        /\ client'[k] = c
        /\ \A j \in Clients \ {k} : client'[j] = client[j]
    BY <1>1, SetEffect DEF OffsetInv, TypeOK
  <1>3. log \in Nat /\ log' \in Nat /\ log <= log' /\ log' <= LogLength
    BY KafkaAssumption DEF Aside, OffsetInv, TypeOK
  <1>4. TypeOK'
    BY <1>2, <1>3, KafkaAssumption DEF Aside, OffsetInv, TypeOK
  <1>5. OwnerConsumes'
    BY <1>1, <1>2 DEF Aside, OffsetInv, OwnerConsumes
  <1>6. SessionCovered'
    <2>1. Passed' = Passed
      BY DEF Aside, Passed
    <2>2. ASSUME NEW j \in Clients, owner' = j
          PROVE  /\ client'[j].mark <= client'[j].at
                 /\ client'[j].at <= log'
                 /\ 1 .. client'[j].at \subseteq Passed'
      <3>1. client'[j].mark = client[j].mark /\ client'[j].at = client[j].at
        BY <1>1, <1>2
      <3>2. client[j].at \in Nat
        BY KafkaAssumption DEF OffsetInv, TypeOK, ClientType
      <3> QED
        BY <1>3, <2>1, <2>2, <3>1, <3>2 DEF Aside, OffsetInv, SessionCovered
    <2> QED
      BY <2>2 DEF SessionCovered
  <1>7. HandlerWasCalled'
    BY <1>1, <1>2 DEF Aside, OffsetInv, HandlerWasCalled
  <1>8. PassedWasAttempted'
    BY DEF Aside, OffsetInv, PassedWasAttempted
  <1> QED
    BY <1>4, <1>5, <1>6, <1>7, <1>8 DEF OffsetInv

\* Flags of a client that have nothing to do with its session.
SameSession(c, d) ==
    d \in ClientType /\ d.run = c.run /\ d.at = c.at /\ d.mark = c.mark

LEMMA FlagsKeepSession ==
    ASSUME NEW c \in ClientType
    PROVE  /\ \A b \in BOOLEAN : SameSession(c, [c EXCEPT !.subscribed = b])
           /\ \A b \in BOOLEAN : SameSession(c, [c EXCEPT !.cancelled = b])
           /\ \A b \in BOOLEAN : SameSession(c, [c EXCEPT !.sending = b])
           /\ \A p \in {"no", "waiting", "returned"} : SameSession(c, [c EXCEPT !.close = p])
  BY DEF SameSession, ClientType

LEMMA AsideSteps ==
    ASSUME TypeOK, OwnerConsumes, NEW k \in Clients,
           \/ PublishBegins(k) \/ PublishEnds(k) \/ Subscribe(k) \/ Run(k) \/ Iterate(k)
           \/ ConsumeReturns(k) \/ CancelRun(k) \/ CloseBegins(k) \/ CloseReturns(k)
    PROVE  Aside(k)
  <1>0. /\ client[k] \in ClientType /\ log \in log .. LogLength /\ faults \in 0 .. MaxFaults
        /\ log \in Nat /\ faults \in Nat
    BY KafkaAssumption DEF TypeOK
  <1>1. ASSUME NEW d, SameSession(client[k], d), Set(k, d),
               UNCHANGED <<committed, owner, attempted, acked, jumped, faults>>,
               log' \in log .. LogLength
        PROVE  Aside(k)
    BY <1>0, <1>1 DEF SameSession, Aside
  <1>2. CASE PublishBegins(k)
    <2>1. SameSession(client[k], [client[k] EXCEPT !.sending = TRUE])
      BY <1>0, FlagsKeepSession
    <2> QED
      BY <1>0, <1>1, <1>2, <2>1 DEF PublishBegins
  <1>3. CASE PublishEnds(k)
    <2>1. SameSession(client[k], [client[k] EXCEPT !.sending = FALSE])
      BY <1>0, FlagsKeepSession
    <2>2. log' \in log .. LogLength
      BY <1>0, <1>3, KafkaAssumption DEF PublishEnds
    <2> QED
      BY <1>1, <1>3, <2>1, <2>2 DEF PublishEnds
  <1>4. CASE Subscribe(k)
    <2>1. SameSession(client[k], [client[k] EXCEPT !.subscribed = TRUE])
      BY <1>0, FlagsKeepSession
    <2> QED
      BY <1>0, <1>1, <1>4, <2>1 DEF Subscribe
  <1>5. CASE Run(k)
    BY <1>0, <1>5 DEF Run, Aside, ClientType, OwnerConsumes
  <1>6. CASE Iterate(k)
    BY <1>0, <1>6 DEF Iterate, Aside, ClientType, OwnerConsumes
  <1>7. CASE ConsumeReturns(k)
    <2>1. faults' \in 0 .. MaxFaults
      BY <1>0, <1>7, KafkaAssumption DEF ConsumeReturns, Fault
    <2> QED
      BY <1>0, <1>7, <2>1 DEF ConsumeReturns, Aside, ClientType
  <1>8. CASE CancelRun(k)
    <2>1. SameSession(client[k], [client[k] EXCEPT !.cancelled = TRUE])
      BY <1>0, FlagsKeepSession
    <2> QED
      BY <1>0, <1>1, <1>8, <2>1 DEF CancelRun
  <1>9. CASE CloseBegins(k) \/ CloseReturns(k)
    <2>1. /\ SameSession(client[k], [client[k] EXCEPT !.close = "waiting"])
          /\ SameSession(client[k], [client[k] EXCEPT !.close = "returned"])
      BY <1>0, FlagsKeepSession
    <2> QED
      BY <1>0, <1>1, <1>9, <2>1 DEF CloseBegins, CloseReturns
  <1> QED
    BY <1>2, <1>3, <1>4, <1>5, <1>6, <1>7, <1>8, <1>9

\* Who owns the partition, and no one else, holds a session: what a step of
\* the owner k leaves behind is enough.
LEMMA OneSession ==
    ASSUME NEW k \in Clients, OwnerConsumes, owner' \in {k, Nobody},
           \A j \in Clients \ {k} : client'[j] = client[j],
           owner' = k => /\ client'[k].run \in {"consume", "handler"}
                         /\ client'[k].mark <= client'[k].at
                         /\ client'[k].at <= log'
                         /\ 1 .. client'[k].at \subseteq Passed'
    PROVE  OwnerConsumes' /\ SessionCovered'
  BY KafkaAssumption DEF OwnerConsumes, SessionCovered

LEMMA AssignKeepsOffset ==
    ASSUME OffsetInv, NEW k \in Clients, Assign(k)
    PROVE  OffsetInv'
  <1> DEFINE c == [client[k] EXCEPT !.at = StartOffset, !.mark = 0]
  <1>1. /\ log \in Nat /\ committed \in Nat /\ committed <= log /\ log <= LogLength
        /\ client[k] \in ClientType /\ LogLength \in Nat
    BY KafkaAssumption DEF OffsetInv, TypeOK
  <1>2. StartOffset \in 0 .. log /\ StartOffset \in 0 .. LogLength /\ 0 \in 0 .. LogLength
    BY <1>1 DEF StartOffset
  <1>3. /\ c \in ClientType /\ c.run = client[k].run /\ c.at = StartOffset /\ c.mark = 0
    BY <1>2, <1>1 DEF ClientType
  <1> HIDE DEF c
  <1>4. /\ Set(k, c) /\ owner' = k /\ client[k].run = "consume"
        /\ jumped' = IF committed = 0 THEN jumped \cup (1 .. log) ELSE jumped
        /\ UNCHANGED <<log, committed, attempted, acked, faults>>
    BY DEF Assign, c
  <1>5. /\ client' \in [Clients -> ClientType]
        /\ client'[k] = c
        /\ \A j \in Clients \ {k} : client'[j] = client[j]
    BY <1>3, <1>4, SetEffect DEF OffsetInv, TypeOK
  <1>6. 1 .. StartOffset \subseteq Passed'
    BY <1>1, <1>4 DEF StartOffset, Passed, OffsetInv, PassedWasAttempted
  <1>7. TypeOK'
    BY <1>4, <1>5 DEF OffsetInv, TypeOK
  <1>8. OwnerConsumes' /\ SessionCovered'
    <2>1. c.mark <= c.at /\ c.at <= log'
      BY <1>1, <1>2, <1>3, <1>4
    <2> QED
      BY <1>3, <1>4, <1>5, <1>6, <2>1, OneSession DEF OffsetInv
  <1>9. HandlerWasCalled' /\ PassedWasAttempted'
    BY <1>3, <1>4, <1>5 DEF OffsetInv, HandlerWasCalled, PassedWasAttempted
  <1> QED
    BY <1>7, <1>8, <1>9 DEF OffsetInv

\* The place of a session, as numbers.
LEMMA SessionPlace ==
    ASSUME OffsetInv, NEW k \in Clients
    PROVE  /\ log \in Nat /\ log <= LogLength /\ LogLength \in Nat
           /\ committed \in Nat /\ committed <= log
           /\ client[k] \in ClientType
           /\ client[k].at \in Nat /\ client[k].at <= LogLength
           /\ client[k].mark \in Nat /\ client[k].mark <= LogLength
           /\ owner = k => client[k].mark <= client[k].at /\ client[k].at <= log
  BY KafkaAssumption DEF OffsetInv, TypeOK, ClientType, SessionCovered

LEMMA ReceiveKeepsOffset ==
    ASSUME OffsetInv, NEW k \in Clients, Receive(k)
    PROVE  OffsetInv'
  <1> DEFINE next == client[k].at + 1
             c == IF next \in Malformed
                  THEN [client[k] EXCEPT !.at = next, !.mark = next]
                  ELSE [client[k] EXCEPT !.at = next, !.run = "handler"]
  <1>1. /\ owner = k /\ client[k].run = "consume" /\ client[k].at < log
        /\ Set(k, c)
        /\ attempted' = IF next \in Malformed THEN attempted ELSE attempted \cup {next}
        /\ UNCHANGED <<log, committed, owner, acked, jumped, faults>>
    BY DEF Receive, InSession
  <1>2. next \in 1 .. log /\ next \in 0 .. LogLength
    BY <1>1, SessionPlace
  <1>3. /\ c \in ClientType /\ c.at = next
        /\ c.mark \in {next, client[k].mark}
        /\ c.run = IF next \in Malformed THEN "consume" ELSE "handler"
    BY <1>1, <1>2, SessionPlace DEF ClientType
  <1>4. 1 .. next \subseteq Passed'
    <2>1. 1 .. client[k].at \subseteq Passed
      BY <1>1 DEF OffsetInv, SessionCovered
    <2>2. \A m \in 1 .. next : m = next \/ m \in 1 .. client[k].at
      BY SessionPlace
    <2>3. Passed \subseteq Passed' /\ next \in Passed'
      BY <1>1 DEF Passed
    <2> QED
      BY <2>1, <2>2, <2>3
  <1>5. c.mark <= next
    BY <1>1, <1>3, SessionPlace
  <1>6. c.run = "handler" => next \in attempted'
    BY <1>1, <1>3
  <1> HIDE DEF c
  <1>7. /\ client' \in [Clients -> ClientType]
        /\ client'[k] = c
        /\ \A j \in Clients \ {k} : client'[j] = client[j]
    BY <1>1, <1>3, SetEffect DEF OffsetInv, TypeOK
  <1>8. attempted \subseteq attempted' /\ attempted' \subseteq 1 .. log
    BY <1>1, <1>2 DEF OffsetInv, TypeOK
  <1> HIDE DEF next
  <1>9. TypeOK'
    BY <1>1, <1>7, <1>8 DEF OffsetInv, TypeOK
  <1>10. OwnerConsumes' /\ SessionCovered'
    <2>1. next <= log' /\ c.run \in {"consume", "handler"}
      BY <1>1, <1>2, <1>3
    <2> QED
      BY <1>1, <1>3, <1>4, <1>5, <1>7, <2>1, OneSession DEF OffsetInv
  <1>11. HandlerWasCalled' /\ PassedWasAttempted'
    BY <1>1, <1>3, <1>6, <1>7, <1>8 DEF OffsetInv, HandlerWasCalled, PassedWasAttempted
  <1> QED
    BY <1>9, <1>10, <1>11 DEF OffsetInv

LEMMA HandlerReturnsKeepsOffset ==
    ASSUME OffsetInv, NEW k \in Clients, HandlerReturns(k)
    PROVE  OffsetInv'
  <1>1. PICK err \in BOOLEAN :
          /\ Set(k, [client[k] EXCEPT !.run = IF owner = k THEN "consume" ELSE "loop",
                                      !.mark = IF owner = k THEN MarkAfter(k, err) ELSE 0])
          /\ acked' = IF err THEN acked ELSE acked \cup {client[k].at}
    BY DEF HandlerReturns
  <1> DEFINE r == IF owner = k THEN "consume" ELSE "loop"
             m == IF owner = k THEN MarkAfter(k, err) ELSE 0
             c == Leave(client[k], r, m)
  <1>2. m \in 0 .. LogLength /\ (owner = k => m <= client[k].at)
    BY SessionPlace DEF MarkAfter
  <1>3. /\ c \in ClientType /\ c.at = client[k].at /\ c.run # "handler"
        /\ owner = k => c.run = "consume" /\ c.mark <= c.at
    <2>1. client[k] \in ClientType
      BY SessionPlace
    <2>2. m \in 0 .. LogLength
      BY <1>2
    <2>3. r \in {"loop", "consume"}
      OBVIOUS
    <2>4. r # "handler" /\ (owner = k => r = "consume")
      OBVIOUS
    <2> HIDE DEF r, m
    <2>5. c \in ClientType /\ c.run = r /\ c.mark = m /\ c.at = client[k].at
      BY <2>1, <2>2, <2>3, LeaveEffect
    <2> HIDE DEF c
    <2> QED
      BY <1>2, <2>4, <2>5
  <1>4. Set(k, c) /\ client[k].at \in attempted
        /\ UNCHANGED <<log, committed, owner, attempted, jumped, faults>>
    BY <1>1 DEF HandlerReturns, OffsetInv, HandlerWasCalled, Leave
  <1> HIDE DEF c
  <1>5. /\ client' \in [Clients -> ClientType]
        /\ client'[k] = c
        /\ \A j \in Clients \ {k} : client'[j] = client[j]
    BY <1>3, <1>4, SetEffect DEF OffsetInv, TypeOK
  <1>6. TypeOK'
    BY <1>1, <1>4, <1>5 DEF OffsetInv, TypeOK
  <1>7. OwnerConsumes'
    BY <1>3, <1>4, <1>5 DEF OffsetInv, OwnerConsumes
  <1>8. SessionCovered'
    BY <1>3, <1>4, <1>5 DEF OffsetInv, SessionCovered, Passed
  <1>9. HandlerWasCalled' /\ PassedWasAttempted'
    BY <1>3, <1>4, <1>5 DEF OffsetInv, HandlerWasCalled, PassedWasAttempted
  <1> QED
    BY <1>6, <1>7, <1>8, <1>9 DEF OffsetInv

\* A mark that is committed passes only what the session covers.
LEMMA MarkMayBeCommitted ==
    ASSUME OffsetInv, NEW k \in Clients, owner = k
    PROVE  \A m \in 1 .. client[k].mark : m \in Passed
  BY SessionPlace DEF OffsetInv, SessionCovered

LEMMA CommitKeepsOffset ==
    ASSUME OffsetInv, NEW k \in Clients, AutoCommit(k)
    PROVE  OffsetInv'
  <1>1. /\ owner = k /\ committed' = client[k].mark
        /\ UNCHANGED <<log, owner, client, attempted, acked, jumped, faults>>
    BY DEF AutoCommit, InSession
  <1>2. committed' \in 0 .. log
    BY <1>1, SessionPlace
  <1>3. PassedWasAttempted'
    BY <1>1, MarkMayBeCommitted DEF PassedWasAttempted, Passed
  <1>4. TypeOK'
    BY <1>1, <1>2 DEF OffsetInv, TypeOK
  <1> QED
    BY <1>1, <1>3, <1>4 DEF OffsetInv, OwnerConsumes, SessionCovered, Passed, HandlerWasCalled

LEMMA SessionEndKeepsOffset ==
    ASSUME OffsetInv, NEW k \in Clients, SessionEnds(k)
    PROVE  OffsetInv'
  <1> DEFINE c == Leave(client[k], "loop", 0)
  <1>1. /\ owner = k /\ owner' = Nobody /\ Set(k, c)
        /\ committed' \in {committed, Later(committed, client[k].mark)}
        /\ faults' = faults \/ Fault
        /\ UNCHANGED <<log, attempted, acked, jumped>>
    BY DEF SessionEnds, InSession, Leave
  <1>2. c \in ClientType /\ c.run = "loop" /\ c.at = client[k].at
    <2>1. client[k] \in ClientType /\ 0 \in 0 .. LogLength
      BY SessionPlace
    <2> QED
      BY <2>1, LeaveEffect
  <1> HIDE DEF c
  <1>3. /\ client' \in [Clients -> ClientType]
        /\ client'[k] = c
        /\ \A j \in Clients \ {k} : client'[j] = client[j]
    BY <1>1, <1>2, SetEffect DEF OffsetInv, TypeOK
  <1>4. committed' \in {committed, client[k].mark}
    BY <1>1, SessionPlace DEF Later
  <1>5. faults' \in 0 .. MaxFaults
    BY <1>1, KafkaAssumption DEF Fault, OffsetInv, TypeOK
  <1>6. committed' \in 0 .. log
    BY <1>1, <1>4, SessionPlace
  <1>7. PassedWasAttempted'
    BY <1>1, <1>4, MarkMayBeCommitted DEF OffsetInv, PassedWasAttempted, Passed
  <1>8. TypeOK'
    BY <1>1, <1>3, <1>5, <1>6 DEF OffsetInv, TypeOK
  <1>9. OwnerConsumes' /\ SessionCovered'
    BY <1>1, KafkaAssumption DEF OwnerConsumes, SessionCovered
  <1>10. HandlerWasCalled'
    BY <1>1, <1>2, <1>3 DEF OffsetInv, HandlerWasCalled
  <1> QED
    BY <1>7, <1>8, <1>9, <1>10 DEF OffsetInv

LEMMA LeavingKeepsOffset ==
    ASSUME OffsetInv, NEW k \in Clients, Expel(k) \/ Crash(k)
    PROVE  OffsetInv'
  <1>1. /\ Fault /\ UNCHANGED <<log, committed, attempted, acked, jumped>>
        /\ owner' \in {owner, Nobody} /\ owner' # k
        /\ UNCHANGED client \/ Set(k, Fresh)
    BY KafkaAssumption DEF Expel, Crash, InSession
  <1>2. /\ client' \in [Clients -> ClientType]
        /\ \A j \in Clients \ {k} : client'[j] = client[j]
        /\ client'[k] \in {client[k], Fresh}
    <2>1. Fresh \in ClientType
      BY KafkaAssumption DEF Fresh, ClientType
    <2> QED
      BY <1>1, <2>1, SetEffect DEF OffsetInv, TypeOK
  <1>3. faults' \in 0 .. MaxFaults
    BY <1>1, KafkaAssumption DEF Fault, OffsetInv, TypeOK
  <1>4. TypeOK'
    BY <1>1, <1>2, <1>3 DEF OffsetInv, TypeOK
  <1>5. OwnerConsumes' /\ SessionCovered'
    BY <1>1, <1>2, KafkaAssumption DEF OffsetInv, OwnerConsumes, SessionCovered, Passed
  <1>6. HandlerWasCalled' /\ PassedWasAttempted'
    BY <1>1, <1>2 DEF OffsetInv, HandlerWasCalled, PassedWasAttempted, Fresh
  <1> QED
    BY <1>4, <1>5, <1>6 DEF OffsetInv

LEMMA OffsetInvInit == Init => OffsetInv
  <1> SUFFICES ASSUME Init PROVE OffsetInv
    OBVIOUS
  <1>1. Fresh \in ClientType
    BY KafkaAssumption DEF Fresh, ClientType
  <1>2. TypeOK
    BY <1>1, KafkaAssumption DEF Init, TypeOK
  <1> QED
    BY <1>2, KafkaAssumption DEF Init, OffsetInv, OwnerConsumes, SessionCovered,
                                 HandlerWasCalled, PassedWasAttempted, Fresh

LEMMA OffsetInvStep ==
    ASSUME OffsetInv, [Next]_vars
    PROVE  OffsetInv'
  <1>1. CASE UNCHANGED vars
    BY <1>1 DEF vars, OffsetInv, TypeOK, OwnerConsumes, SessionCovered, Passed,
                HandlerWasCalled, PassedWasAttempted
  <1>2. CASE Next
    <2> PICK k \in Clients :
          \/ PublishBegins(k) \/ PublishEnds(k) \/ Subscribe(k) \/ Run(k)
          \/ Iterate(k) \/ Assign(k) \/ Receive(k) \/ HandlerReturns(k)
          \/ AutoCommit(k) \/ SessionEnds(k) \/ Expel(k) \/ ConsumeReturns(k)
          \/ Crash(k) \/ CancelRun(k) \/ CloseBegins(k) \/ CloseReturns(k)
      BY <1>2 DEF Next
    <2>1. CASE \/ PublishBegins(k) \/ PublishEnds(k) \/ Subscribe(k) \/ Run(k) \/ Iterate(k)
               \/ ConsumeReturns(k) \/ CancelRun(k) \/ CloseBegins(k) \/ CloseReturns(k)
      BY <2>1, AsideSteps, AsideKeepsOffset DEF OffsetInv
    <2> QED
      BY <2>1, AssignKeepsOffset, ReceiveKeepsOffset, HandlerReturnsKeepsOffset,
         CommitKeepsOffset, SessionEndKeepsOffset, LeavingKeepsOffset
  <1> QED
    BY <1>1, <1>2

\* Type invariant, for every group of clients and every log.
THEOREM TypeCorrect == Spec => []TypeOK
  <1>1. OffsetInv => TypeOK
    BY DEF OffsetInv
  <1> QED
    BY <1>1, OffsetInvInit, OffsetInvStep, PTL DEF Spec

\* No rebalance, crash, cancellation or failed commit makes the offset of the
\* group pass a message that was not given to a handler, that decodes, and
\* that no session without an offset jumped.
THEOREM NoMessageSkipped == Spec => []PassedWasAttempted
  <1>1. OffsetInv => PassedWasAttempted
    BY DEF OffsetInv
  <1> QED
    BY <1>1, OffsetInvInit, OffsetInvStep, PTL DEF Spec

-----------------------------------------------------------------------------
(* Shutdown.  Once Close has the lock no message is being sent, and none   *)
(* can be; when it has returned the goroutine is not started, at the head  *)
(* of a loop that it leaves, or has ended.                                 *)

\* As a condition on the record of one client.
Quiet(c) ==
    /\ c.close # "no" => ~c.sending
    /\ c.close = "returned" => c.run \notin {"consume", "handler"}

QuietInv == \A k \in Clients : Quiet(client[k])

LEMMA QuietStep ==
    ASSUME TypeOK, QuietInv, [Next]_vars
    PROVE  QuietInv'
  <1>1. CASE UNCHANGED vars
    BY <1>1 DEF vars, QuietInv, TypeOK
  <1>2. CASE Next
    <2> PICK k \in Clients :
          \/ PublishBegins(k) \/ PublishEnds(k) \/ Subscribe(k) \/ Run(k)
          \/ Iterate(k) \/ Assign(k) \/ Receive(k) \/ HandlerReturns(k)
          \/ AutoCommit(k) \/ SessionEnds(k) \/ Expel(k) \/ ConsumeReturns(k)
          \/ Crash(k) \/ CancelRun(k) \/ CloseBegins(k) \/ CloseReturns(k)
      BY <1>2 DEF Next
    <2>0. client \in [Clients -> ClientType] /\ client[k] \in ClientType /\ Quiet(client[k])
      BY DEF QuietInv, TypeOK
    <2>1. ASSUME NEW c, Set(k, c), Quiet(c)
          PROVE  QuietInv'
      BY <2>0, <2>1 DEF Set, QuietInv
    <2>2. CASE AutoCommit(k) \/ Expel(k)
      BY <2>2 DEF QuietInv, AutoCommit, Expel
    <2>3. CASE PublishBegins(k)
      <3>1. Quiet([client[k] EXCEPT !.sending = TRUE])
        BY <2>0, <2>3 DEF PublishBegins, Quiet, ClientType
      <3> QED
        BY <2>1, <2>3, <3>1 DEF PublishBegins
    <2>4. CASE PublishEnds(k)
      <3>1. Quiet([client[k] EXCEPT !.sending = FALSE])
        BY <2>0, <2>4 DEF PublishEnds, Quiet, ClientType
      <3> QED
        BY <2>1, <2>4, <3>1 DEF PublishEnds
    <2>5. CASE Subscribe(k)
      <3>1. Quiet([client[k] EXCEPT !.subscribed = TRUE])
        BY <2>0, <2>5 DEF Subscribe, Quiet, ClientType
      <3> QED
        BY <2>1, <2>5, <3>1 DEF Subscribe
    <2>6. CASE Run(k)
      <3>1. Quiet([client[k] EXCEPT !.run = "loop"])
        BY <2>0, <2>6 DEF Run, Quiet, ClientType
      <3> QED
        BY <2>1, <2>6, <3>1 DEF Run
    <2>7. CASE Iterate(k)
      <3>1. Quiet([client[k] EXCEPT !.run =
                       IF client[k].close # "no" \/ client[k].cancelled THEN "ended" ELSE "consume"])
        BY <2>0, <2>7 DEF Iterate, Quiet, ClientType
      <3> QED
        BY <2>1, <2>7, <3>1 DEF Iterate
    <2>8. CASE Assign(k)
      <3>1. Quiet([client[k] EXCEPT !.at = StartOffset, !.mark = 0])
        BY <2>0, <2>8 DEF Assign, Quiet, ClientType
      <3> QED
        BY <2>1, <2>8, <3>1 DEF Assign
    <2>9. CASE CancelRun(k)
      <3>1. Quiet([client[k] EXCEPT !.cancelled = TRUE])
        BY <2>0, <2>9 DEF CancelRun, Quiet, ClientType
      <3> QED
        BY <2>1, <2>9, <3>1 DEF CancelRun
    <2>10. CASE CloseBegins(k)
      <3>1. Quiet([client[k] EXCEPT !.close = "waiting"])
        BY <2>0, <2>10 DEF CloseBegins, Quiet, ClientType, LockFree
      <3> QED
        BY <2>1, <2>10, <3>1 DEF CloseBegins
    <2>11. CASE CloseReturns(k)
      <3>1. Quiet([client[k] EXCEPT !.close = "returned"])
        BY <2>0, <2>11 DEF CloseReturns, Quiet, ClientType, WaitOver
      <3> QED
        BY <2>1, <2>11, <3>1 DEF CloseReturns
    <2>12. CASE Receive(k)
      <3> DEFINE next == client[k].at + 1
      <3>1. /\ Quiet([client[k] EXCEPT !.at = next, !.mark = next])
            /\ Quiet([client[k] EXCEPT !.at = next, !.run = "handler"])
        BY <2>0, <2>12 DEF Receive, Quiet, ClientType
      <3> QED
        BY <2>1, <2>12, <3>1 DEF Receive
    <2>13. CASE HandlerReturns(k)
      <3>1. ASSUME NEW r, NEW m PROVE Quiet([client[k] EXCEPT !.run = r, !.mark = m])
        BY <2>0, <2>13 DEF HandlerReturns, Quiet, ClientType
      <3> QED
        BY <2>1, <2>13, <3>1 DEF HandlerReturns
    <2>14. CASE SessionEnds(k)
      <3>1. Quiet([client[k] EXCEPT !.run = "loop", !.mark = 0])
        BY <2>0 DEF Quiet, ClientType
      <3> QED
        BY <2>1, <2>14, <3>1 DEF SessionEnds
    <2>15. CASE ConsumeReturns(k)
      <3>1. /\ Quiet([client[k] EXCEPT !.run = "loop"])
            /\ Quiet([client[k] EXCEPT !.run = "ended"])
        BY <2>0 DEF Quiet, ClientType
      <3> QED
        BY <2>1, <2>15, <3>1 DEF ConsumeReturns
    <2>16. CASE Crash(k)
      <3>1. Quiet(Fresh)
        BY DEF Quiet, Fresh
      <3> QED
        BY <2>1, <2>16, <3>1 DEF Crash
    <2> QED
      BY <2>2, <2>3, <2>4, <2>5, <2>6, <2>7, <2>8, <2>9, <2>10, <2>11, <2>12, <2>13, <2>14, <2>15, <2>16
  <1> QED
    BY <1>1, <1>2

\* When Close of a client has returned it sends nothing and no handler of it
\* runs, whatever its goroutine was doing when Close began and whatever the
\* other clients of the group do.
THEOREM ClosedClientIsQuiet == Spec => []ClosedIsQuiet
  <1>1. Init => QuietInv
    <2>1. Quiet(Fresh)
      BY DEF Quiet, Fresh
    <2> QED
      BY <2>1 DEF Init, QuietInv
  <1>2. OffsetInv /\ QuietInv /\ [Next]_vars => QuietInv'
    BY OffsetInvStep, QuietStep DEF OffsetInv
  <1>3. QuietInv => ClosedIsQuiet
    BY DEF QuietInv, Quiet, ClosedIsQuiet
  <1> QED
    BY <1>1, <1>2, <1>3, OffsetInvInit, OffsetInvStep, PTL DEF Spec

=============================================================================
