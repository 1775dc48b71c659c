------------------------------- MODULE WorkPool -------------------------------
(***************************************************************************)
(* What the background-job manager promises the rest of the application,   *)
(* with none of its locks, channels and snapshots: a job's task is started *)
(* at most once, only while the pool is open and a slot is free, and the   *)
(* pool reports that it has been joined only when no task is executing.    *)
(* Module Jobs implements it.                                              *)
(***************************************************************************)
EXTENDS Naturals, FiniteSets

CONSTANTS Job,         \* identifiers of the jobs that may ever be submitted
          Concurrency  \* number of tasks that may execute at the same time

VARIABLES started,  \* jobs whose task has been started
          ended,    \* jobs whose task has returned
          open,     \* TRUE until the pool stops starting tasks
          joined    \* TRUE once every started task is known to have returned

poolVars == <<started, ended, open, joined>>

Executing == started \ ended

Init == /\ started = {}
        /\ ended = {}
        /\ open = TRUE
        /\ joined = FALSE

Start(j) == /\ open
            /\ j \notin started
            /\ Cardinality(Executing) < Concurrency
            /\ started' = started \cup {j}
            /\ UNCHANGED <<ended, open, joined>>

End(j) == /\ j \in Executing
          /\ ended' = ended \cup {j}
          /\ UNCHANGED <<started, open, joined>>

Close == /\ open
         /\ open' = FALSE
         /\ UNCHANGED <<started, ended, joined>>

Join == /\ ~open
        /\ Executing = {}
        /\ joined' = TRUE
        /\ UNCHANGED <<started, ended, open>>

Next == \/ \E j \in Job : Start(j) \/ End(j)
        \/ Close
        \/ Join

Spec == Init /\ [][Next]_poolVars
===============================================================================
