--------------------------- MODULE MCServentPool ---------------------------
(* ServentPool with named peers and channels for model checking. *)
EXTENDS ServentPool
CONSTANTS p1, p2, local, c1, c2
=============================================================================
