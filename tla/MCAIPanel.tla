------------------------------- MODULE MCAIPanel ------------------------------
(***************************************************************************)
(* AIPanel for TLC: one run whose answer has two pieces, with one act of   *)
(* the user, or one piece, with two acts.                                  *)
(***************************************************************************)
EXTENDS AIPanel

SomeBudgets == {[pieces |-> 2, acts |-> 1], [pieces |-> 1, acts |-> 2]}
===============================================================================
