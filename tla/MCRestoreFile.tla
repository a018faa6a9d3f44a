--------------------------- MODULE MCRestoreFile ---------------------------
(* Model-checking instance of RestoreFile: two datapaths, three backup     *)
(* generations (enough for a base with two deltas below it).              *)
EXTENDS RestoreFile, TLC

CONSTANTS f1, f2

MCFiles == {f1, f2}
=============================================================================
