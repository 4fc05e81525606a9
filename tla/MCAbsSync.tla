----------------------------- MODULE MCAbsSync ------------------------------
(***************************************************************************)
(* AbsSync for TLC: the items are strings so that they compare with NoItem, *)
(* and the server's answers need no symmetry.                              *)
(***************************************************************************)
EXTENDS AbsSync

MCOne == {"a"}
MCTwo == {"a", "b"}
=============================================================================
