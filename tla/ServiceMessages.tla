--------------------------- MODULE ServiceMessages --------------------------
(***************************************************************************)
(* The messages one service may be handed, by the broker or by a call of   *)
(* StartSaga.                                                              *)
(***************************************************************************)
EXTENDS SagaStep

CONSTANTS
    Messages,
    Started     \* those that StartSagaWithSteps makes and handles itself

ASSUME MessagesAssumption ==
    /\ Messages \subseteq MessageType
    /\ Started \subseteq Messages
    /\ \A m \in Started : m.type = "execute"
    \* an event of the outbox names the step it comes from
    /\ \A m \in Messages : m.from = NoStep => m \in Started

=============================================================================
