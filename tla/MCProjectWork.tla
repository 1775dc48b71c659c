----------------------------- MODULE MCProjectWork -----------------------------
(***************************************************************************)
(* ProjectWork for TLC: every job belongs to project p1, the other project *)
(* is there to be archived, so that the last active one is reached.        *)
(***************************************************************************)
EXTENDS ProjectWork

CONSTANT p1

AllInP1 == [j \in Job |-> p1]
===============================================================================
