---------------------------- MODULE MCPartUpload ----------------------------
(* Instances of PartUpload for TLC: parts of two units and chunks of two    *)
(* parts, so that the last part of the file is short.                       *)
EXTENDS PartUpload

CONSTANTS r1, r2
=============================================================================
