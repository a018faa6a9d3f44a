--------------------------- MODULE MCRestoreLoop ---------------------------
(* Model-checking instance of RestoreLoop: two top-level names, one of     *)
(* them with two children and the other with one, so that directories    *)
(* nest, siblings follow each other and a sibling tree follows a subtree. *)
EXTENDS RestoreLoop, TLC

MCPaths == {<<1>>, <<1, 1>>, <<1, 2>>, <<2>>, <<2, 1>>}
=============================================================================
