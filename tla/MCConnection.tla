---------------------------- MODULE MCConnection ----------------------------
(* Instances of Connection for TLC.                                         *)
EXTENDS Connection

CONSTANTS f1, f2
=============================================================================
