---------------------------- MODULE MCUploadBatch ----------------------------
(* A drop for TLC: a folder "t", of a name the user has already, with a file *)
(* in its subfolder and one below that, and a loose file.                    *)
EXTENDS UploadBatch, TLC

CONSTANTS u1, u2, u3

Nested == u1 :> <<"t", "s">> @@ u2 :> <<"t", "s", "r">> @@ u3 :> <<>>
TopExists == {<<"t">>}
Inner == {<<"t", "s">>}
NestedOrder == <<u1, u2, u3>>
=============================================================================
