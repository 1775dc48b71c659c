------------------------------- MODULE MCUpdate -------------------------------
(***************************************************************************)
(* Update for TLC.  Three versions: the one installed, and two releases of *)
(* which the second replaces the first while it is offered, skipped,       *)
(* downloaded or ready.                                                    *)
(***************************************************************************)
EXTENDS UpdateView
===============================================================================
