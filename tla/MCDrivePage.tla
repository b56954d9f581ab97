----------------------------- MODULE MCDrivePage -----------------------------
(* A file and a folder, for TLC. *)
EXTENDS DrivePage

CONSTANTS x1, y1, d1, d2, t1
=============================================================================
