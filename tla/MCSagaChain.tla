----------------------------- MODULE MCSagaChain ----------------------------
(***************************************************************************)
(* The instance of Saga whose routing meets the conditions of SagaRouting. *)
(***************************************************************************)
EXTENDS MCSaga, SagaRouting

ASSUME ChainIsRouted == OnePlace /\ KeysTellApart /\ AlongChain /\ StartWritesEvents

=============================================================================
