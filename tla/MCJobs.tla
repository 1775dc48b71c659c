-------------------------------- MODULE MCJobs --------------------------------
(***************************************************************************)
(* Jobs for TLC: two jobs and one slot, so that one of them has to wait    *)
(* for the slot of the other.                                              *)
(***************************************************************************)
EXTENDS Jobs
===============================================================================
