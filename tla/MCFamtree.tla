----------------------------- MODULE MCFamtree -----------------------------
(* A small instance of Famtree for TLC. *)
EXTENDS Famtree

ThreeNames == 1..3
ThreeSexes == {"M", "F", "X"}
=============================================================================
