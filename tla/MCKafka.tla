------------------------------ MODULE MCKafka ------------------------------
(***************************************************************************)
(* Small instances of KafkaConsumer for TLC.                               *)
(***************************************************************************)
EXTENDS KafkaConsumer

CONSTANTS k1, k2

=============================================================================
