-------------------------------- MODULE MCAIRuns -------------------------------
(***************************************************************************)
(* AIRuns for TLC: two calls of Send for one conversation, that race for   *)
(* it, or one call with text, a stop and a death of the sidecar or a       *)
(* restart of the application, where only its own steps matter.            *)
(***************************************************************************)
EXTENDS AIRuns

CONSTANTS c1, s1, s2

OneConversation == [s \in Send |-> c1]

Race == [sends |-> Send, text |-> 0, stops |-> 0, deaths |-> 0, stalls |-> 0,
         failures |-> 0, closes |-> TRUE, restarts |-> 0]
Alone == [Race EXCEPT !.sends = {s1}, !.text = 1, !.stops = 1, !.failures = 0]
SomeBudgets ==
  {Race, [Race EXCEPT !.failures = 1, !.closes = FALSE],
   [Alone EXCEPT !.deaths = 1],
   [Alone EXCEPT !.stalls = 1, !.text = 0],
   [Alone EXCEPT !.restarts = 1, !.text = 0],
   [Alone EXCEPT !.restarts = 1, !.failures = 1, !.closes = FALSE]}
===============================================================================
