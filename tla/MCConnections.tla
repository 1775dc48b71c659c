----------------------------- MODULE MCConnections ----------------------------
(***************************************************************************)
(* Connections for TLC: one connection, with every caller of it at once.   *)
(* Two connections share nothing but the mutex, the session and the lock   *)
(* of the database, which is what op stands for.                           *)
(***************************************************************************)
EXTENDS Connections
===============================================================================
