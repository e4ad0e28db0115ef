------------------------------ MODULE MCService -----------------------------
(***************************************************************************)
(* Small instances of Service for TLC.                                     *)
(***************************************************************************)
EXTENDS Service

CONSTANTS s1, s2, c1, t1, t2

=============================================================================
