--------------------------------- MODULE Jobs ---------------------------------
(***************************************************************************)
(* The background-job manager of internal/jobs/jobs.go.                    *)
(*                                                                         *)
(* Every job has one goroutine (run) that waits for a slot of the          *)
(* semaphore, starts the task and records how it ended; Submit, Cancel and *)
(* Shutdown are called by other goroutines.  A step of this module is one  *)
(* critical section of Manager.mu, or one operation on a channel, a        *)
(* context or the wait group, or one delivery of a snapshot: snapshots are *)
(* copied under the lock and delivered after it is released.               *)
(*                                                                         *)
(* A definition marked "mutant" is a bug the next one could have; it is    *)
(* used by no behaviour of the specification.                              *)
(***************************************************************************)
EXTENDS Naturals, FiniteSets

CONSTANTS Job,         \* identifiers of the jobs that may ever be submitted
          Concurrency  \* capacity of the semaphore

ASSUME JobsAssumption == /\ IsFiniteSet(Job)
                         /\ Concurrency \in Nat \ {0}

VARIABLES
  snap,      \* snap[j]: State and Error of j.snapshot
  pc,        \* pc[j]: where the goroutine of j is
  msg,       \* msg[j]: the copy of the snapshot that goroutine is about to emit
  outcome,   \* outcome[j]: how the task of j returned
  cancelPc,  \* cancelPc[j]: where the call of Cancel that cancelled j is
  view,      \* view[j]: the last snapshot of j the callback received
  ctxDone,   \* jobs whose context is cancelled
  done,      \* jobs whose done channel is closed
  sem,       \* jobs holding a slot of the semaphore
  wg,        \* goroutines the wait group still counts
  parentDone,\* the application context is cancelled
  mgrDone,   \* the manager's context is cancelled
  closed,    \* Shutdown was called
  joined,    \* every goroutine was joined: Manager.done is closed
  shutdown   \* the latest call of Shutdown: "no", "waiting", "nil" or "timeout"

jobVars == <<snap, pc, msg, outcome, cancelPc, view, done, sem, wg>>
mgrVars == <<parentDone, mgrDone, closed, joined, shutdown>>
vars == <<snap, pc, msg, outcome, cancelPc, view, ctxDone, done, sem, wg,
          parentDone, mgrDone, closed, joined, shutdown>>

-------------------------------------------------------------------------------
State == {"none", "queued", "running", "completed", "failed", "cancelled"}
TerminalStates == {"completed", "failed", "cancelled"}
Errors == {"none", "cancelled", "failure"}
Snapshot == [state : State, error : Errors]

Pc == {"none", "submitted", "queued", "acquired", "abandon", "emitCancelled",
       "emitRunning", "task", "emitUpdate", "record", "emitFinal", "finish",
       "leave", "exit", "exited"}
Outcome == {"none", "ok", "contextCancelled", "error"}

Snap(s, e) == [state |-> s, error |-> e]

Terminal(j) == snap[j].state \in TerminalStates
Registered(j) == pc[j] # "none"

\* The task function of j is on the stack of j's goroutine (or about to be
\* called by it): the state is Running under the lock and it has not returned.
InTask(j) == pc[j] \in {"emitRunning", "task", "emitUpdate"}

-------------------------------------------------------------------------------
Init == /\ snap = [j \in Job |-> Snap("none", "none")]
        /\ pc = [j \in Job |-> "none"]
        /\ msg = [j \in Job |-> Snap("none", "none")]
        /\ outcome = [j \in Job |-> "none"]
        /\ cancelPc = [j \in Job |-> "idle"]
        /\ view = [j \in Job |-> Snap("none", "none")]
        /\ ctxDone = {}
        /\ done = {}
        /\ sem = {}
        /\ wg = {}
        /\ parentDone = FALSE
        /\ mgrDone = FALSE
        /\ closed = FALSE
        /\ joined = FALSE
        /\ shutdown = "no"

Goto(j, label) == pc' = [pc EXCEPT ![j] = label]

\* What a cancelled job shows: Cancel, finishCancelled and run all write it.
CancelledSnap == Snap("cancelled", "cancelled")

Accepts == ~closed /\ ~mgrDone

\* Manager.Submit up to the release of the lock; a closed manager, or one whose
\* context is cancelled, rejects the submission and changes nothing.
Submit(j) == /\ pc[j] = "none"
             /\ Accepts
             /\ snap' = [snap EXCEPT ![j] = Snap("queued", "none")]
             /\ msg' = [msg EXCEPT ![j] = Snap("queued", "none")]
             /\ wg' = wg \cup {j}
             /\ Goto(j, "submitted")
             /\ UNCHANGED <<outcome, cancelPc, view, ctxDone, done, sem, mgrVars>>

\* emit: the callback receives the copy taken under the lock.
Emit(j, from, to) == /\ pc[j] = from
                     /\ view' = [view EXCEPT ![j] = msg[j]]
                     /\ Goto(j, to)
                     /\ UNCHANGED <<snap, msg, outcome, cancelPc, ctxDone, done,
                                    sem, wg, mgrVars>>

EmitQueued(j) == Emit(j, "submitted", "queued")       \* then "go m.run"
EmitRunning(j) == Emit(j, "emitRunning", "task")
EmitUpdate(j) == Emit(j, "emitUpdate", "task")
EmitFinal(j) == Emit(j, "emitFinal", "finish")
EmitCancelled(j) == Emit(j, "emitCancelled", "finish")

SlotFree == Cardinality(sem) < Concurrency

\* run: the select between a slot of the semaphore and the job's context.
AcquireSlot(j) == /\ pc[j] = "queued"
                  /\ SlotFree
                  /\ sem' = sem \cup {j}
                  /\ Goto(j, "acquired")
                  /\ UNCHANGED <<snap, msg, outcome, cancelPc, view, ctxDone,
                                 done, wg, mgrVars>>

NeverAbandon(j) == FALSE                                                \* mutant
AbandonWait(j) == /\ pc[j] = "queued"
                  /\ j \in ctxDone
                  /\ Goto(j, "abandon")
                  /\ UNCHANGED <<snap, msg, outcome, cancelPc, view, ctxDone,
                                 done, sem, wg, mgrVars>>

\* run, under the lock: the job is looked at again before it is started.
MayStart(j) == snap[j].state # "cancelled" /\ j \notin ctxDone

StartTask(j) == /\ pc[j] = "acquired"
                /\ MayStart(j)
                /\ snap' = [snap EXCEPT ![j] = Snap("running", snap[j].error)]
                /\ msg' = [msg EXCEPT ![j] = Snap("running", snap[j].error)]
                /\ Goto(j, "emitRunning")
                /\ UNCHANGED <<outcome, cancelPc, view, ctxDone, done, sem, wg,
                               mgrVars>>

AbandonSlot(j) == /\ pc[j] = "acquired"
                  /\ ~MayStart(j)
                  /\ Goto(j, "abandon")
                  /\ UNCHANGED <<snap, msg, outcome, cancelPc, view, ctxDone,
                                 done, sem, wg, mgrVars>>

\* finishCancelled: nothing to do for a job that Cancel already made terminal.
FinishCancelled(j) ==
  /\ pc[j] = "abandon"
  /\ \/ /\ Terminal(j)
        /\ Goto(j, "leave")
        /\ UNCHANGED <<snap, msg>>
     \/ /\ ~Terminal(j)
        /\ snap' = [snap EXCEPT ![j] = CancelledSnap]
        /\ msg' = [msg EXCEPT ![j] = CancelledSnap]
        /\ Goto(j, "emitCancelled")
  /\ UNCHANGED <<outcome, cancelPc, view, ctxDone, done, sem, wg, mgrVars>>

\* reporter.Update from inside the task; a terminal job ignores it.
Update(j) == /\ pc[j] = "task"
             /\ ~Terminal(j)
             /\ msg' = [msg EXCEPT ![j] = snap[j]]
             /\ Goto(j, "emitUpdate")
             /\ UNCHANGED <<snap, outcome, cancelPc, view, ctxDone, done, sem,
                            wg, mgrVars>>

\* The task returns.  context.Canceled is returned only once the context is
\* cancelled; a task may also succeed or fail after that.
TaskReturns(j, result) ==
  /\ pc[j] = "task"
  /\ result = "contextCancelled" => j \in ctxDone
  /\ outcome' = [outcome EXCEPT ![j] = result]
  /\ Goto(j, "record")
  /\ UNCHANGED <<snap, msg, cancelPc, view, ctxDone, done, sem, wg, mgrVars>>

CancelWins(j) == IF j \in ctxDone THEN CancelledSnap                    \* mutant
                 ELSE IF outcome[j] = "ok" THEN Snap("completed", "none")
                 ELSE Snap("failed", "failure")

\* run, under the lock: the outcome becomes the state.  A nil error leaves
\* snapshot.Error as it is.
RecordedSnap(j) ==
  IF outcome[j] = "ok" THEN Snap("completed", snap[j].error)
  ELSE IF outcome[j] = "contextCancelled" \/ j \in ctxDone
    THEN CancelledSnap
    ELSE Snap("failed", "failure")

Record(j) == /\ pc[j] = "record"
             /\ snap' = [snap EXCEPT ![j] = RecordedSnap(j)]
             /\ msg' = [msg EXCEPT ![j] = RecordedSnap(j)]
             /\ Goto(j, "emitFinal")
             /\ UNCHANGED <<outcome, cancelPc, view, ctxDone, done, sem, wg,
                            mgrVars>>

\* job.finish closes done once.
Finish(j) == /\ pc[j] = "finish"
             /\ done' = done \cup {j}
             /\ Goto(j, "leave")
             /\ UNCHANGED <<snap, msg, outcome, cancelPc, view, ctxDone, sem, wg,
                            mgrVars>>

\* The deferred calls of run: give the slot back if one is held, then wg.Done.
ReleaseSlot(j) == /\ pc[j] = "leave"
                  /\ sem' = sem \ {j}
                  /\ Goto(j, "exit")
                  /\ UNCHANGED <<snap, msg, outcome, cancelPc, view, ctxDone,
                                 done, wg, mgrVars>>

ExitUncounted(j) == /\ pc[j] = "exit"                                   \* mutant
                    /\ Goto(j, "exited")
                    /\ UNCHANGED <<snap, msg, outcome, cancelPc, view, ctxDone,
                                   done, sem, wg, mgrVars>>
Exit(j) == /\ pc[j] = "exit"
           /\ wg' = wg \ {j}
           /\ Goto(j, "exited")
           /\ UNCHANGED <<snap, msg, outcome, cancelPc, view, ctxDone, done,
                          sem, mgrVars>>

-------------------------------------------------------------------------------
\* Manager.Cancel: under the lock a registered job that is not terminal becomes
\* Cancelled at once, whatever its goroutine is doing; then the snapshot is
\* emitted and done is closed by the caller's goroutine.
Cancel(j) == /\ Registered(j)
             /\ ~Terminal(j)
             /\ ctxDone' = ctxDone \cup {j}
             /\ snap' = [snap EXCEPT ![j] = CancelledSnap]
             /\ cancelPc' = [cancelPc EXCEPT ![j] = "emit"]
             /\ UNCHANGED <<pc, msg, outcome, view, done, sem, wg, mgrVars>>

CancelEmit(j) == /\ cancelPc[j] = "emit"
                 /\ view' = [view EXCEPT ![j] = CancelledSnap]
                 /\ cancelPc' = [cancelPc EXCEPT ![j] = "finish"]
                 /\ UNCHANGED <<snap, pc, msg, outcome, ctxDone, done, sem, wg,
                                mgrVars>>

CancelFinish(j) == /\ cancelPc[j] = "finish"
                   /\ done' = done \cup {j}
                   /\ cancelPc' = [cancelPc EXCEPT ![j] = "idle"]
                   /\ UNCHANGED <<snap, pc, msg, outcome, view, ctxDone, sem, wg,
                                  mgrVars>>

\* The application context is cancelled (app.shutdown) and the cancellation
\* reaches the manager's context, then each job's, one context at a time and
\* without Manager.mu.
CancelParent == /\ ~parentDone
                /\ parentDone' = TRUE
                /\ UNCHANGED <<jobVars, ctxDone, mgrDone, closed, joined, shutdown>>

PropagateToManager == /\ parentDone
                      /\ ~mgrDone
                      /\ mgrDone' = TRUE
                      /\ UNCHANGED <<jobVars, ctxDone, parentDone, closed, joined,
                                     shutdown>>

PropagateToJob(j) == /\ mgrDone
                     /\ Registered(j)
                     /\ j \notin ctxDone
                     /\ ctxDone' = ctxDone \cup {j}
                     /\ UNCHANGED <<jobVars, mgrVars>>

\* Manager.Shutdown: the first call closes the manager and cancels every job
\* that is not terminal, under the lock; every call then waits for done or for
\* the caller's deadline, and may be repeated.
NotTerminalJobs == {j \in Job : Registered(j) /\ ~Terminal(j)}

Shutdown == /\ shutdown \in {"no", "timeout"}
            /\ \/ /\ closed
                  /\ UNCHANGED <<closed, mgrDone, ctxDone>>
               \/ /\ ~closed
                  /\ closed' = TRUE
                  /\ mgrDone' = TRUE
                  /\ ctxDone' = ctxDone \cup NotTerminalJobs
            /\ shutdown' = "waiting"
            /\ UNCHANGED <<jobVars, parentDone, joined>>

GroupIgnored == TRUE                                                    \* mutant
GroupDone == wg = {}

\* The goroutine Shutdown starts once: wg.Wait, then close(m.done).
JoinAll == /\ closed
           /\ GroupDone
           /\ ~joined
           /\ joined' = TRUE
           /\ UNCHANGED <<jobVars, ctxDone, parentDone, mgrDone, closed, shutdown>>

ShutdownReturns == /\ shutdown = "waiting"
                   /\ joined
                   /\ shutdown' = "nil"
                   /\ UNCHANGED <<jobVars, ctxDone, parentDone, mgrDone, closed,
                                  joined>>

ShutdownExpires == /\ shutdown = "waiting"
                   /\ shutdown' = "timeout"
                   /\ UNCHANGED <<jobVars, ctxDone, parentDone, mgrDone, closed,
                                  joined>>

-------------------------------------------------------------------------------
\* What the goroutine of j does by itself, its task aside.
RunStep(j) == \/ EmitQueued(j) \/ EmitRunning(j) \/ EmitUpdate(j)
              \/ EmitFinal(j) \/ EmitCancelled(j)
              \/ AcquireSlot(j) \/ AbandonWait(j)
              \/ StartTask(j) \/ AbandonSlot(j) \/ FinishCancelled(j)
              \/ Record(j) \/ Finish(j) \/ ReleaseSlot(j) \/ Exit(j)

TaskReturn(j) == \E result \in Outcome \ {"none"} : TaskReturns(j, result)

JobStep(j) == \/ Submit(j)
              \/ RunStep(j)
              \/ Update(j)
              \/ TaskReturn(j)
              \/ Cancel(j) \/ CancelEmit(j) \/ CancelFinish(j)
              \/ PropagateToJob(j)

ManagerStep == \/ CancelParent \/ PropagateToManager
               \/ Shutdown \/ JoinAll \/ ShutdownReturns \/ ShutdownExpires

Next == (\E j \in Job : JobStep(j)) \/ ManagerStep

Spec == Init /\ [][Next]_vars

\* Goroutines that can run are scheduled, a cancelled context reaches its
\* children, and a task whose context is cancelled returns.  Nothing obliges the
\* user to submit or cancel, the application to shut down, or a task whose
\* context is live to return.
Fairness ==
  /\ \A j \in Job : /\ WF_vars(RunStep(j))
                    /\ SF_vars(j \in ctxDone /\ TaskReturn(j))
                    /\ WF_vars(CancelEmit(j) \/ CancelFinish(j))
                    /\ WF_vars(PropagateToJob(j))
  /\ WF_vars(PropagateToManager)
  /\ WF_vars(JoinAll)

FairSpec == Spec /\ Fairness

-------------------------------------------------------------------------------
\* Every variable has the values its Go type can hold here.
TypeOK == /\ snap \in [Job -> Snapshot]
          /\ pc \in [Job -> Pc]
          /\ msg \in [Job -> Snapshot]
          /\ outcome \in [Job -> Outcome]
          /\ cancelPc \in [Job -> {"idle", "emit", "finish"}]
          /\ view \in [Job -> Snapshot]
          /\ ctxDone \in SUBSET Job
          /\ done \in SUBSET Job
          /\ sem \in SUBSET Job
          /\ wg \in SUBSET Job
          /\ parentDone \in BOOLEAN
          /\ mgrDone \in BOOLEAN
          /\ closed \in BOOLEAN
          /\ joined \in BOOLEAN
          /\ shutdown \in {"no", "waiting", "nil", "timeout"}

\* A goroutine between the channel send and the deferred receive holds a slot.
\* From finish on it may have come from either side of the semaphore.
HoldsSlot(j) == pc[j] \in {"acquired", "emitRunning", "task", "emitUpdate",
                          "record", "emitFinal"}

\* No more than Concurrency tasks execute at a time, whatever is submitted,
\* cancelled while it waits for a slot, or shut down.
SlotBound == Cardinality({j \in Job : InTask(j)}) <= Concurrency

\* Once Shutdown returned nil no job has a live goroutine, and none will get
\* one: what the application closes next is used by nobody.
JoinedIsQuiet == joined => \A j \in Job : pc[j] \in {"none", "exited"}

\* Wait returns when done is closed, and then finds a terminal snapshot, also
\* while the goroutine of a job that was cancelled is still in its task.
DoneIsTerminal == \A j \in done : Terminal(j)

\* A job that is Cancelled (while it was queued, or between its registration and
\* the start of its goroutine) never starts afterwards.
CancelledNeverStarts ==
  [][\A j \in Job : snap[j].state = "cancelled" => snap'[j].state # "running"]_vars

\* Shutdown reaches every task: after it no task executes with a live context,
\* whether it was started just before or was about to be.
ShutdownReachesTasks == closed => \A j \in Job : InTask(j) => j \in ctxDone

\* When the goroutine is gone the state says what the task did: Completed for a
\* task that succeeded, even when Cancel came first, and for no other.
FinalStateIsTruthful ==
  \A j \in Job : pc[j] = "exited" =>
    /\ Terminal(j)
    /\ snap[j].state = "completed" <=> outcome[j] = "ok"

\* When neither the goroutine nor a caller of Cancel has anything left to emit,
\* the last snapshot the callback received of a job whose task ran is terminal:
\* no Running snapshot is delivered last.
LastEventIsTerminal ==
  \A j \in Job : pc[j] = "exited" /\ cancelPc[j] = "idle" /\ outcome[j] # "none" =>
    view[j].state \in TerminalStates

\* What a caller is told of the end of a job is what happened, in the snapshot
\* that Wait and Get read and in the events that the callback received.
EndsAreTruthful == FinalStateIsTruthful /\ LastEventIsTerminal

\* A job whose context is cancelled leaves the manager, even if every slot is
\* held by tasks that never return.
CancelledJobLeaves == \A j \in Job : (j \in ctxDone) ~> (pc[j] = "exited" /\ j \in done)

\* After Shutdown was called every goroutine is joined.
ShutdownJoins == closed ~> joined

-------------------------------------------------------------------------------
(***************************************************************************)
(* Jobs implements WorkPool.                                               *)
(***************************************************************************)
Ended == {j \in Job : outcome[j] # "none"}
Started == {j \in Job : InTask(j)} \cup Ended

Pool == INSTANCE WorkPool WITH started <- Started, ended <- Ended,
                               open <- ~closed, joined <- joined

\* The manager is a work pool: tasks start at most once, while it is open and a
\* slot is free, and a join is reported only when none executes.
ImplementsPool == Pool!Spec
===============================================================================
