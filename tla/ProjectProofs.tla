---------------------------- MODULE ProjectProofs ----------------------------
(***************************************************************************)
(* Proofs about Jobs for every set of jobs and every number of slots, and  *)
(* about ProjectWork for every set of jobs and projects.  In the second    *)
(* part the job manager is used as it is: everything the first part shows  *)
(* of it holds there, because a step of ProjectWork is a step of Jobs or   *)
(* leaves it alone.  The third part is about the documents of the project  *)
(* in the webview: for any number of documents and saved queries, and      *)
(* however often they are opened, saved, renamed and deleted, what the     *)
(* webview shows of the queries and of their editors is what the host has. *)
(* The fourth is about its sources: for any number of them, in whatever    *)
(* order events and answers come, what the webview shows is what the host  *)
(* has, and no result is left that no document holds.                      *)
(***************************************************************************)
EXTENDS ProjectWork, Drafts, FiniteSetTheorems, TLAPS

-------------------------------------------------------------------------------
\* Where the goroutine of j is before, and after, the part of run that decides
\* or executes the task.
Waiting == {"submitted", "queued", "acquired", "abandon"}
Closing == {"emitCancelled", "emitFinal", "finish", "leave", "exit", "exited"}

\* The snapshot's state against the program counter: only a goroutine past its
\* last decision has a job that completed or failed.
StateInv ==
  \A j \in Job :
    /\ pc[j] = "none" <=> snap[j].state = "none"
    /\ pc[j] \in Closing => /\ Terminal(j)
                            /\ snap[j].state = "completed" <=> outcome[j] = "ok"
    /\ pc[j] \notin Closing =>
         snap[j].state \in {"none", "queued", "running", "cancelled"}

\* A task has returned exactly when its goroutine is recording the outcome or
\* has recorded it.
OutcomeInv ==
  \A j \in Job : /\ pc[j] \in Waiting \cup {"none"} => outcome[j] = "none"
                 /\ InTask(j) => outcome[j] = "none"
                 /\ pc[j] = "record" => outcome[j] # "none"

\* The slots and the wait group follow the program counters.
SlotInv == \A j \in Job : HoldsSlot(j) => j \in sem
GroupInv == \A j \in Job : j \in wg <=> pc[j] \notin {"none", "exited"}

\* done is closed, and a caller of Cancel is at work, only for terminal jobs.
DoneInv == \A j \in Job : j \in done \/ cancelPc[j] # "idle" => Terminal(j)

\* A cancelled job that may still reach its task has a cancelled context, and so
\* has every such job once the manager is closed.
CancelInv ==
  \A j \in Job : pc[j] \in {"submitted", "queued", "acquired"} \/ InTask(j) =>
    /\ snap[j].state = "cancelled" => j \in ctxDone
    /\ closed => j \in ctxDone

JoinInv == joined => closed /\ wg = {}

\* The last snapshot the goroutine of j emits is terminal, and nothing that is
\* emitted after it, by a caller of Cancel, is not.
ViewInv ==
  \A j \in Job :
    /\ pc[j] \in {"emitFinal", "emitCancelled"} => msg[j].state \in TerminalStates
    /\ pc[j] \in {"finish", "leave", "exit", "exited"} /\ outcome[j] # "none" =>
         view[j].state \in TerminalStates

IInv == /\ TypeOK
        /\ StateInv
        /\ OutcomeInv
        /\ SlotInv
        /\ GroupInv
        /\ DoneInv
        /\ CancelInv
        /\ JoinInv
        /\ ViewInv

SlotCount == Cardinality(sem) <= Concurrency

-------------------------------------------------------------------------------
\* A manager without jobs satisfies the inductive invariant.
LEMMA InitInv == Init => IInv
<1> SUFFICES ASSUME Init PROVE IInv
  OBVIOUS
<1> USE DEF Init, Snap
<1>1. TypeOK
  BY DEF TypeOK, Snapshot, State, Errors, Pc, Outcome
<1>2. StateInv /\ DoneInv
  BY DEF StateInv, DoneInv, Closing, Terminal, TerminalStates
<1>3. OutcomeInv /\ SlotInv /\ GroupInv /\ CancelInv /\ JoinInv /\ ViewInv
  BY DEF OutcomeInv, SlotInv, GroupInv, CancelInv, JoinInv, ViewInv, Waiting,
         InTask, HoldsSlot
<1> QED
  BY <1>1, <1>2, <1>3 DEF IInv

\* The steps of a job keep the inductive invariant.
LEMMA RunStepInv ==
  ASSUME IInv, NEW k \in Job, RunStep(k)
  PROVE  IInv'
<1> USE DEF IInv, TypeOK, StateInv, OutcomeInv, SlotInv, GroupInv, DoneInv,
            CancelInv, JoinInv, ViewInv, Snapshot, State, Errors, Pc, Outcome, Snap,
            Closing, Waiting, Terminal, TerminalStates, InTask, HoldsSlot,
            mgrVars, Goto, CancelledSnap
<1>1. CASE EmitQueued(k)
  BY <1>1 DEF EmitQueued, Emit
<1>2. CASE EmitRunning(k)
  BY <1>2 DEF EmitRunning, Emit
<1>3. CASE EmitUpdate(k)
  BY <1>3 DEF EmitUpdate, Emit
<1>4. CASE EmitFinal(k)
  BY <1>4 DEF EmitFinal, Emit
<1>5. CASE EmitCancelled(k)
  BY <1>5 DEF EmitCancelled, Emit
<1>6. CASE AcquireSlot(k)
  BY <1>6 DEF AcquireSlot
<1>7. CASE AbandonWait(k)
  BY <1>7 DEF AbandonWait
<1>8. CASE StartTask(k)
  <2>1. TypeOK' /\ StateInv' /\ OutcomeInv'
    BY <1>8 DEF StartTask, MayStart
  <2>2. SlotInv' /\ GroupInv' /\ DoneInv'
    BY <1>8 DEF StartTask, MayStart
  <2>3. CancelInv' /\ JoinInv' /\ ViewInv'
    BY <1>8 DEF StartTask, MayStart
  <2> QED
    BY <2>1, <2>2, <2>3
<1>9. CASE AbandonSlot(k)
  BY <1>9 DEF AbandonSlot
<1>10. CASE FinishCancelled(k)
  <2>1. CASE Terminal(k)
    BY <1>10, <2>1 DEF FinishCancelled
  <2>2. CASE ~Terminal(k)
    <3>1. /\ pc[k] = "abandon"
          /\ snap' = [snap EXCEPT ![k] = CancelledSnap]
          /\ msg' = [msg EXCEPT ![k] = CancelledSnap]
          /\ pc' = [pc EXCEPT ![k] = "emitCancelled"]
          /\ UNCHANGED <<outcome, cancelPc, view, ctxDone, done, sem, wg, mgrVars>>
      BY <1>10, <2>2 DEF FinishCancelled
    <3>2. TypeOK'
      BY <3>1
    <3>3. StateInv' /\ DoneInv'
      BY <3>1
    <3>4. OutcomeInv' /\ SlotInv' /\ GroupInv'
      BY <3>1
    <3>5. CancelInv' /\ JoinInv' /\ ViewInv'
      BY <3>1
    <3> QED
      BY <3>2, <3>3, <3>4, <3>5
  <2> QED
    BY <2>1, <2>2
<1>11. CASE Record(k)
  <2>1. TypeOK' /\ StateInv' /\ OutcomeInv'
    BY <1>11 DEF Record, RecordedSnap
  <2>2. SlotInv' /\ GroupInv' /\ DoneInv'
    BY <1>11 DEF Record, RecordedSnap
  <2>3. CancelInv' /\ JoinInv' /\ ViewInv'
    BY <1>11 DEF Record, RecordedSnap
  <2> QED
    BY <2>1, <2>2, <2>3
<1>12. CASE Finish(k)
  BY <1>12 DEF Finish
<1>13. CASE ReleaseSlot(k)
  BY <1>13 DEF ReleaseSlot
<1>14. CASE Exit(k)
  BY <1>14 DEF Exit
<1> QED
  BY <1>1, <1>2, <1>3, <1>4, <1>5, <1>6, <1>7, <1>8, <1>9, <1>10, <1>11, <1>12,
     <1>13, <1>14 DEF RunStep

\* So do submission, the task, cancellation and the propagation of contexts.
LEMMA JobStepInv ==
  ASSUME IInv, NEW k \in Job, JobStep(k)
  PROVE  IInv'
<1> USE DEF IInv, TypeOK, StateInv, OutcomeInv, SlotInv, GroupInv, DoneInv,
            CancelInv, JoinInv, ViewInv, Snapshot, State, Errors, Pc, Outcome, Snap,
            Closing, Waiting, Terminal, TerminalStates, InTask, HoldsSlot,
            mgrVars, jobVars, Goto, CancelledSnap
<1>1. CASE Submit(k)
  BY <1>1 DEF Submit, Accepts
<1>2. CASE RunStep(k)
  BY <1>2, RunStepInv
<1>3. CASE Update(k)
  BY <1>3 DEF Update
<1>4. CASE TaskReturn(k)
  BY <1>4 DEF TaskReturn, TaskReturns
<1>5. CASE Cancel(k)
  BY <1>5 DEF Cancel, Registered
<1>6. CASE CancelEmit(k)
  BY <1>6 DEF CancelEmit
<1>7. CASE CancelFinish(k)
  BY <1>7 DEF CancelFinish
<1>8. CASE PropagateToJob(k)
  BY <1>8 DEF PropagateToJob
<1> QED
  BY <1>1, <1>2, <1>3, <1>4, <1>5, <1>6, <1>7, <1>8 DEF JobStep

\* The steps of the manager keep it: Shutdown is the one that matters, it must
\* leave no job with a live context that could still reach its task.
LEMMA ManagerStepInv ==
  ASSUME IInv, ManagerStep
  PROVE  IInv'
<1> USE DEF IInv, TypeOK, StateInv, OutcomeInv, SlotInv, GroupInv, DoneInv,
            CancelInv, JoinInv, ViewInv, Snapshot, State, Errors, Pc, Outcome, Snap,
            Closing, Waiting, Terminal, TerminalStates, InTask, HoldsSlot,
            mgrVars, jobVars
<1>1. CASE CancelParent
  BY <1>1 DEF CancelParent
<1>2. CASE PropagateToManager
  BY <1>2 DEF PropagateToManager
<1>3. CASE Shutdown
  <2>1. CASE closed
    BY <1>3, <2>1 DEF Shutdown
  <2>2. CASE ~closed
    <3>1. /\ ctxDone' = ctxDone \cup NotTerminalJobs
          /\ UNCHANGED <<jobVars, parentDone, joined>>
          /\ closed' = TRUE /\ mgrDone' = TRUE /\ shutdown' = "waiting"
      BY <1>3, <2>2 DEF Shutdown
    <3>2. TypeOK' /\ StateInv' /\ OutcomeInv' /\ SlotInv' /\ GroupInv' /\ DoneInv'
      BY <3>1 DEF NotTerminalJobs
    <3>3. CancelInv'
      BY <3>1 DEF NotTerminalJobs, Registered
    <3>4. JoinInv' /\ ViewInv'
      BY <3>1
    <3> QED
      BY <3>2, <3>3, <3>4
  <2> QED
    BY <2>1, <2>2
<1>4. CASE JoinAll
  BY <1>4 DEF JoinAll, GroupDone
<1>5. CASE ShutdownReturns
  BY <1>5 DEF ShutdownReturns
<1>6. CASE ShutdownExpires
  BY <1>6 DEF ShutdownExpires
<1> QED
  BY <1>1, <1>2, <1>3, <1>4, <1>5, <1>6 DEF ManagerStep

\* IInv depends on the variables of the specification only.
LEMMA StutterInv ==
  ASSUME IInv, UNCHANGED vars
  PROVE  IInv'
  BY DEF vars, IInv, TypeOK, StateInv, OutcomeInv, SlotInv, GroupInv, DoneInv,
         CancelInv, JoinInv, ViewInv, Terminal, InTask, HoldsSlot

\* IInv holds in every state the manager reaches.
THEOREM Inductive == Spec => []IInv
<1>1. Init => IInv
  BY InitInv
<1>2. IInv /\ [Next]_vars => IInv'
  BY JobStepInv, ManagerStepInv, StutterInv DEF Next
<1> QED
  BY <1>1, <1>2, PTL DEF Spec

-------------------------------------------------------------------------------
\* The variables keep their types.
THEOREM TypeCorrect == Spec => []TypeOK
<1>1. IInv => TypeOK
  BY DEF IInv
<1> QED
  BY <1>1, Inductive, PTL

\* After a join no goroutine of a job is left: it is what lets app.shutdown close
\* the connections and the database next.
THEOREM JoinedQuiet == Spec => []JoinedIsQuiet
<1>1. IInv => JoinedIsQuiet
  BY DEF IInv, JoinInv, GroupInv, JoinedIsQuiet
<1> QED
  BY <1>1, Inductive, PTL

\* Wait returns terminal snapshots only.
THEOREM DoneTerminal == Spec => []DoneIsTerminal
<1>1. IInv => DoneIsTerminal
  BY DEF IInv, TypeOK, DoneInv, DoneIsTerminal
<1> QED
  BY <1>1, Inductive, PTL

\* No task executes with a live context after Shutdown.
THEOREM ShutdownReaches == Spec => []ShutdownReachesTasks
<1>1. IInv => ShutdownReachesTasks
  BY DEF IInv, CancelInv, ShutdownReachesTasks
<1> QED
  BY <1>1, Inductive, PTL

\* A successful task wins over Cancel, and nothing else completes a job.
THEOREM FinalTruthful == Spec => []FinalStateIsTruthful
<1>1. IInv => FinalStateIsTruthful
  BY DEF IInv, StateInv, Closing, FinalStateIsTruthful
<1> QED
  BY <1>1, Inductive, PTL

\* The last event of a job whose task ran is terminal.
THEOREM LastEventTerminal == Spec => []LastEventIsTerminal
<1>1. IInv => LastEventIsTerminal
  BY DEF IInv, ViewInv, LastEventIsTerminal
<1> QED
  BY <1>1, Inductive, PTL

\* The end of a job is told as it was, by its state and by its last event.
THEOREM EndsTruthful == Spec => []EndsAreTruthful
<1>1. FinalStateIsTruthful /\ LastEventIsTerminal => EndsAreTruthful
  BY DEF EndsAreTruthful
<1> QED
  BY <1>1, FinalTruthful, LastEventTerminal, PTL

\* A step of the manager starts no job that is Cancelled.
LEMMA CancelledStep ==
  ASSUME IInv, [Next]_vars, NEW j \in Job, snap[j].state = "cancelled"
  PROVE  snap'[j].state # "running"
<1> USE DEF IInv, TypeOK, Snapshot, State, Snap, CancelledSnap
<1>1. CASE snap' = snap
  BY <1>1
<1>2. ASSUME NEW k \in Job, RunStep(k)
      PROVE  snap'[j].state # "running"
  <2>1. CASE StartTask(k)
    BY <2>1 DEF StartTask, MayStart
  <2>2. CASE FinishCancelled(k)
    BY <2>2 DEF FinishCancelled
  <2>3. CASE Record(k)
    BY <2>3 DEF Record, RecordedSnap
  <2>4. CASE ~StartTask(k) /\ ~FinishCancelled(k) /\ ~Record(k)
    BY <1>1, <1>2, <2>4 DEF RunStep, EmitQueued, EmitRunning, EmitUpdate,
       EmitFinal, EmitCancelled, Emit, AcquireSlot, AbandonWait, AbandonSlot,
       Finish, ReleaseSlot, Exit
  <2> QED
    BY <2>1, <2>2, <2>3, <2>4
<1>3. ASSUME NEW k \in Job, JobStep(k), ~RunStep(k)
      PROVE  snap'[j].state # "running"
  <2>1. CASE Submit(k)
    BY <2>1 DEF Submit
  <2>2. CASE Cancel(k)
    BY <2>2 DEF Cancel
  <2>3. CASE ~Submit(k) /\ ~Cancel(k)
    BY <1>1, <1>3, <2>3 DEF JobStep, Update, TaskReturn, TaskReturns,
       CancelEmit, CancelFinish, PropagateToJob, jobVars
  <2> QED
    BY <2>1, <2>2, <2>3
<1>4. CASE ManagerStep
  BY <1>1, <1>4 DEF ManagerStep, CancelParent, PropagateToManager, Shutdown,
     JoinAll, ShutdownReturns, ShutdownExpires, jobVars
<1>5. CASE UNCHANGED vars
  BY <1>1, <1>5 DEF vars
<1> QED
  BY <1>2, <1>3, <1>4, <1>5 DEF Next

\* A cancelled job never starts.
THEOREM CancelledStaysUnstarted == Spec => CancelledNeverStarts
<1>1. IInv /\ [Next]_vars =>
        [\A j \in Job : snap[j].state = "cancelled" => snap'[j].state # "running"]_vars
  BY CancelledStep
<1> QED
  BY <1>1, Inductive, PTL DEF Spec, CancelledNeverStarts

-------------------------------------------------------------------------------
(***************************************************************************)
(* The bound on executing tasks: the holders of a slot never outnumber the *)
(* slots, and every executing task is one of them.                         *)
(***************************************************************************)
\* A slot is taken only while one is free.
LEMMA SlotCountStep ==
  ASSUME IInv, SlotCount, [Next]_vars
  PROVE  SlotCount'
<1> USE JobsAssumption DEF SlotCount
<1>1. IsFiniteSet(sem) /\ Cardinality(sem) \in Nat
  BY FS_Subset, FS_CardinalityType DEF IInv, TypeOK
<1>2. ASSUME NEW k \in Job, AcquireSlot(k)
      PROVE  SlotCount'
  <2>1. sem' = sem \cup {k} /\ Cardinality(sem) < Concurrency
    BY <1>2 DEF AcquireSlot, SlotFree
  <2>2. Cardinality(sem \cup {k}) = IF k \in sem THEN Cardinality(sem)
                                             ELSE Cardinality(sem) + 1
    BY <1>1, FS_AddElement, Zenon
  <2>3. Cardinality(sem') <= Concurrency
    BY <2>1, <2>2, <1>1
  <2> QED
    BY <2>3
<1>3. ASSUME NEW k \in Job, ReleaseSlot(k)
      PROVE  SlotCount'
  <2>1. sem' = sem \ {k}
    BY <1>3 DEF ReleaseSlot
  <2>2. Cardinality(sem \ {k}) = IF k \in sem THEN Cardinality(sem) - 1
                                           ELSE Cardinality(sem)
    BY <1>1, FS_RemoveElement, Zenon
  <2>3. Cardinality(sem') <= Concurrency
    BY <2>1, <2>2, <1>1
  <2> QED
    BY <2>3
<1>4. CASE sem' = sem
  BY <1>4
<1>5. ASSUME NEW k \in Job, RunStep(k), ~AcquireSlot(k), ~ReleaseSlot(k)
      PROVE  sem' = sem
  BY <1>5 DEF RunStep, EmitQueued, EmitRunning, EmitUpdate, EmitFinal,
              EmitCancelled, Emit, AbandonWait, StartTask, AbandonSlot,
              FinishCancelled, Record, Finish, Exit
<1>6. ASSUME NEW k \in Job, JobStep(k), ~RunStep(k)
      PROVE  sem' = sem
  BY <1>6 DEF JobStep, Submit, Update, TaskReturn, TaskReturns, Cancel,
              CancelEmit, CancelFinish, PropagateToJob, jobVars
<1>7. ASSUME ManagerStep
      PROVE  sem' = sem
  BY <1>7 DEF ManagerStep, CancelParent, PropagateToManager, Shutdown, JoinAll,
              ShutdownReturns, ShutdownExpires, jobVars
<1>8. ASSUME UNCHANGED vars
      PROVE  sem' = sem
  BY <1>8 DEF vars
<1> QED
  BY <1>2, <1>3, <1>4, <1>5, <1>6, <1>7, <1>8 DEF Next

\* The semaphore never holds more than Concurrency jobs.
THEOREM SlotsBounded == Spec => []SlotCount
<1>1. Init => SlotCount
  BY JobsAssumption, FS_EmptySet DEF Init, SlotCount
<1>2. IInv /\ SlotCount /\ [Next]_vars => SlotCount'
  BY SlotCountStep
<1> QED
  BY <1>1, <1>2, Inductive, PTL DEF Spec

\* At most Concurrency tasks execute at a time.
THEOREM TasksBounded == Spec => []SlotBound
<1>1. IInv /\ SlotCount => SlotBound
  <2> SUFFICES ASSUME IInv, SlotCount
               PROVE  SlotBound
    OBVIOUS
  <2> DEFINE T == {j \in Job : InTask(j)}
  <2>1. T \in SUBSET sem
    BY DEF IInv, SlotInv, InTask, HoldsSlot
  <2>2. IsFiniteSet(sem)
    BY JobsAssumption, FS_Subset DEF IInv, TypeOK
  <2>3. Cardinality(T) <= Cardinality(sem)
    BY <2>1, <2>2, FS_Subset
  <2>4. Cardinality(T) \in Nat /\ Cardinality(sem) \in Nat
    BY <2>1, <2>2, FS_Subset, FS_CardinalityType
  <2> QED
    BY <2>3, <2>4, JobsAssumption DEF SlotBound, SlotCount
<1> QED
  BY <1>1, Inductive, SlotsBounded, PTL

-------------------------------------------------------------------------------
(***************************************************************************)
(* Jobs implements WorkPool: starting a task is Start, its return is End,  *)
(* the first Shutdown is Close and the join is Join; every other step      *)
(* changes nothing the pool shows.                                         *)
(***************************************************************************)
\* A job that starts was not started before, the pool is open and has room.
LEMMA StartIsPoolStart ==
  ASSUME IInv, SlotCount, NEW k \in Job, StartTask(k)
  PROVE  Pool!Start(k)
<1>1. pc[k] = "acquired" /\ k \notin ctxDone
  BY DEF StartTask, MayStart
<1>2. ~closed
  BY <1>1 DEF IInv, CancelInv
<1>3. k \notin Started
  BY <1>1 DEF IInv, OutcomeInv, Waiting, Started, Ended, InTask
<1>4. Ended' = Ended
  BY DEF StartTask, Ended
<1>5. Started' = Started \cup {k}
  BY <1>4 DEF StartTask, Goto, Started, InTask, IInv, TypeOK
<1>6. Cardinality(Started \ Ended) < Concurrency
  <2>1. IsFiniteSet(sem) /\ Cardinality(sem) \in Nat
    BY JobsAssumption, FS_Subset, FS_CardinalityType DEF IInv, TypeOK
  <2>2. k \in sem
    BY <1>1 DEF IInv, SlotInv, HoldsSlot
  <2>3. IsFiniteSet(sem \ {k}) /\ Cardinality(sem \ {k}) = Cardinality(sem) - 1
    BY <2>1, <2>2, FS_RemoveElement, Zenon
  <2>4. Started \ Ended \in SUBSET (sem \ {k})
    BY <1>1, <1>3 DEF IInv, SlotInv, HoldsSlot, InTask, Started, Ended
  <2>5. Cardinality(Started \ Ended) <= Cardinality(sem \ {k})
    BY <2>3, <2>4, FS_Subset, Zenon
  <2>6. Cardinality(Started \ Ended) \in Nat
    BY <2>3, <2>4, FS_Subset, FS_CardinalityType
  <2> QED
    BY <2>1, <2>3, <2>5, <2>6, JobsAssumption DEF SlotCount
<1>7. closed' = closed /\ joined' = joined
  BY DEF StartTask, mgrVars
<1>8. Pool!Cardinality(Pool!Executing) < Concurrency
  <2>1. \A S : Pool!Cardinality(S) = Cardinality(S)
    BY Zenon DEF Pool!Cardinality, Cardinality
  <2> QED
    BY <1>6, <2>1 DEF Pool!Executing
<1> QED
  BY <1>2, <1>3, <1>4, <1>5, <1>7, <1>8 DEF Pool!Start

\* A task that returns was executing.
LEMMA ReturnIsPoolEnd ==
  ASSUME IInv, NEW k \in Job, TaskReturn(k)
  PROVE  Pool!End(k)
<1>1. PICK result \in Outcome \ {"none"} : TaskReturns(k, result)
  BY DEF TaskReturn
<1>2. InTask(k) /\ k \notin Ended
  BY <1>1 DEF TaskReturns, InTask, Ended, IInv, OutcomeInv
<1>3. Ended' = Ended \cup {k}
  BY <1>1 DEF TaskReturns, Ended, IInv, TypeOK
<1>4. Started' = Started
  BY <1>1, <1>2, <1>3 DEF TaskReturns, Goto, Started, InTask, IInv, TypeOK
<1>5. closed' = closed /\ joined' = joined
  BY <1>1 DEF TaskReturns, mgrVars
<1> QED
  BY <1>2, <1>3, <1>4, <1>5 DEF Pool!End, Pool!Executing, Started

\* Every other step of a job leaves both sets of the pool alone.
LEMMA OtherStepsAreInvisible ==
  ASSUME IInv, NEW k \in Job, JobStep(k), ~StartTask(k), ~TaskReturn(k)
  PROVE  UNCHANGED <<Started, Ended, closed, joined>>
<1>1. outcome' = outcome /\ closed' = closed /\ joined' = joined
  BY DEF JobStep, RunStep, EmitQueued, EmitRunning, EmitUpdate, EmitFinal,
         EmitCancelled, Emit, AcquireSlot, AbandonWait, AbandonSlot,
         FinishCancelled, Record, Finish, ReleaseSlot, Exit, Submit, Update,
         Cancel, CancelEmit, CancelFinish, PropagateToJob, jobVars, mgrVars
<1>2. \A j \in Job : InTask(j)' <=> InTask(j)
  BY DEF JobStep, RunStep, EmitQueued, EmitRunning, EmitUpdate, EmitFinal,
         EmitCancelled, Emit, AcquireSlot, AbandonWait, AbandonSlot,
         FinishCancelled, Record, Finish, ReleaseSlot, Exit, Submit, Update,
         Cancel, CancelEmit, CancelFinish, PropagateToJob, jobVars, Goto,
         InTask, IInv, TypeOK
<1>3. Ended' = Ended
  BY <1>1 DEF Ended
<1>4. Started' = Started
  BY <1>2, <1>3 DEF Started
<1> QED
  BY <1>1, <1>3, <1>4

\* The first Shutdown closes the pool, JoinAll joins it with nothing executing.
LEMMA ManagerStepRefines ==
  ASSUME IInv, ManagerStep
  PROVE  [Pool!Next]_(Pool!poolVars)
<1>1. Ended' = Ended /\ Started' = Started
  BY DEF ManagerStep, CancelParent, PropagateToManager, Shutdown, JoinAll,
         ShutdownReturns, ShutdownExpires, jobVars, Ended, Started, InTask
<1>2. CASE Shutdown
  BY <1>1, <1>2 DEF Shutdown, Pool!Next, Pool!Close, Pool!poolVars
<1>3. CASE JoinAll
  <2>1. Started \ Ended = {}
    BY <1>3 DEF JoinAll, GroupDone, IInv, GroupInv, Started, Ended, InTask
  <2> QED
    BY <1>1, <1>3, <2>1 DEF JoinAll, Pool!Next, Pool!Join, Pool!Executing
<1>4. CASE CancelParent \/ PropagateToManager \/ ShutdownReturns \/ ShutdownExpires
  BY <1>1, <1>4 DEF CancelParent, PropagateToManager, ShutdownReturns,
                    ShutdownExpires, Pool!poolVars
<1> QED
  BY <1>2, <1>3, <1>4 DEF ManagerStep

\* The manager implements the work pool.
THEOREM Implementation == Spec => ImplementsPool
<1>1. Init => Pool!Init
  BY DEF Init, Pool!Init, Started, Ended, InTask
<1>2. IInv /\ SlotCount /\ [Next]_vars => [Pool!Next]_(Pool!poolVars)
  <2> SUFFICES ASSUME IInv, SlotCount, [Next]_vars
               PROVE  [Pool!Next]_(Pool!poolVars)
    OBVIOUS
  <2>1. ASSUME NEW k \in Job, JobStep(k)
        PROVE  [Pool!Next]_(Pool!poolVars)
    <3>1. CASE StartTask(k)
      BY <3>1, StartIsPoolStart DEF Pool!Next
    <3>2. CASE TaskReturn(k)
      BY <3>2, ReturnIsPoolEnd DEF Pool!Next
    <3>3. CASE ~StartTask(k) /\ ~TaskReturn(k)
      BY <2>1, <3>3, OtherStepsAreInvisible DEF Pool!poolVars
    <3> QED
      BY <3>1, <3>2, <3>3
  <2>2. CASE ManagerStep
    BY <2>2, ManagerStepRefines
  <2>3. CASE UNCHANGED vars
    BY <2>3 DEF vars, Pool!poolVars, Started, Ended, InTask
  <2> QED
    BY <2>1, <2>2, <2>3 DEF Next
<1> QED
  BY <1>1, <1>2, Inductive, SlotsBounded, PTL
     DEF Spec, ImplementsPool, Pool!Spec

-------------------------------------------------------------------------------
(* The composition with the imports, the projects and the shutdown           *)

\* Every behaviour of the composition is one of the job manager.
THEOREM Composition == WorkSpec => Spec
<1>1. WorkInit => Init
  BY DEF WorkInit
<1>2. [WorkNext]_workVars => [Next]_vars
  <2> SUFFICES ASSUME [WorkNext]_workVars
               PROVE  [Next]_vars
    OBVIOUS
  <2>1. ASSUME NEW j \in Job, JobWork(j)
        PROVE  [Next]_vars
    <3>1. CASE ImportReturns(j)
      <4>1. PICK result \in ImportResult(j) : TaskReturns(j, result)
        BY <3>1 DEF ImportReturns
      <4>2. result \in Outcome \ {"none"}
        BY <4>1 DEF ImportResult, Outcome
      <4> QED
        BY <4>1, <4>2 DEF Next, JobStep, TaskReturn
    <3>2. CASE SubmitImport(j)
      BY <3>2 DEF SubmitImport, Next, JobStep
    <3>3. CASE ManagerOnly(j)
      BY <3>3 DEF ManagerOnly, Next, JobStep
    <3>4. CASE UNCHANGED vars
      BY <3>4
    <3> QED
      BY <2>1, <3>1, <3>2, <3>3, <3>4 DEF JobWork, ValidateImport, RejectImport,
         BeginImport, InsertSource, CommitImport, RollbackImport, ReleaseImport
  <2>2. ASSUME NEW p \in Project, ProjectStep(p)
        PROVE  UNCHANGED vars
    BY <2>2 DEF ProjectStep, CheckArchive, BeginArchive, CommitArchive,
       RollbackArchive, AbandonArchive, RestoreProject
  <2>3. CASE AppStep
    BY <2>3 DEF AppStep, StopApp, StopJobs, CloseDatabase, Next, ManagerStep
  <2>4. CASE UNCHANGED workVars
    BY <2>4 DEF workVars
  <2> QED
    BY <2>1, <2>2, <2>3, <2>4 DEF WorkNext
<1> QED
  BY <1>1, <1>2, PTL DEF WorkSpec, Spec

-------------------------------------------------------------------------------
\* The mutation lock is held by the import whose transaction is open, or by the
\* archiving whose transaction is: never by both.
LockInv == /\ \A j \in Job : /\ tx[j] \in {"begun", "inserted"} => token = j
                             /\ token = j => pc[j] = "task"
           /\ \A p \in Project : archivePc[p] = "tx" <=> token = p

\* A row that is inserted and not yet committed belongs to an active project.
InsertInv == \A j \in Job : tx[j] = "inserted" => ProjectOf[j] \notin archived

\* The task's outcome is the transaction's.
ResultInv == \A j \in Job : /\ j \in published <=> tx[j] = "committed"
                            /\ InTask(j) \/ (outcome[j] = "ok" <=> tx[j] = "committed")

\* Shutdown returned nil only after the join.
NilInv == shutdown = "nil" => joined

WInv == /\ WorkTypeOK
        /\ LockInv
        /\ InsertInv
        /\ ResultInv
        /\ NilInv
        /\ OneProjectStaysActive

\* The application starts with active projects, no job and the lock free.
LEMMA InitWInv == WorkInit => WInv
<1> SUFFICES ASSUME WorkInit PROVE WInv
  OBVIOUS
<1> USE ProjectAssumption, FreeAssumption DEF WorkInit, Init
<1>1. WorkTypeOK
  BY InitInv DEF WorkTypeOK, IInv, Free
<1>2. LockInv /\ InsertInv /\ ResultInv /\ NilInv
  BY DEF LockInv, InsertInv, ResultInv, NilInv, InTask, Free
<1>3. OneProjectStaysActive
  BY DEF OneProjectStaysActive
<1> QED
  BY <1>1, <1>2, <1>3 DEF WInv

\* What a step of the manager alone may change of the jobs: the outcome stays,
\* a task goes on, and the job that holds the lock is still in its task.
LEMMA ManagerOnlyFrame ==
  ASSUME TypeOK, NEW k \in Job, ManagerOnly(k)
  PROVE  /\ outcome' = outcome
         /\ UNCHANGED <<projectVars, shutdown, joined>>
         /\ \A j \in Job : InTask(j) => InTask(j)'
         /\ \A j \in Job : pc[j] = "task" /\ token = j => pc'[j] = "task"
<1> USE DEF InTask, TypeOK, Goto, mgrVars, jobVars
<1>1. UNCHANGED projectVars
  BY DEF ManagerOnly
<1>2. CASE RunStep(k)
  BY <1>1, <1>2 DEF RunStep, EmitQueued, EmitRunning, EmitUpdate, EmitFinal,
     EmitCancelled, Emit, AcquireSlot, AbandonWait, StartTask, AbandonSlot,
     FinishCancelled, Record, Finish, ReleaseSlot, Exit
<1>3. CASE token # k /\ Update(k)
  BY <1>1, <1>3 DEF Update
<1>4. CASE Cancel(k) \/ CancelEmit(k) \/ CancelFinish(k) \/ PropagateToJob(k)
  BY <1>1, <1>4 DEF Cancel, CancelEmit, CancelFinish, PropagateToJob
<1> QED
  BY <1>2, <1>3, <1>4 DEF ManagerOnly

\* Every step of an import, or of the manager on its job, keeps the invariant.
LEMMA JobWorkInv ==
  ASSUME WInv, TypeOK', NEW k \in Job, JobWork(k)
  PROVE  WInv'
<1> USE ProjectAssumption, FreeAssumption
    DEF WInv, WorkTypeOK, LockInv, InsertInv, ResultInv, NilInv,
        OneProjectStaysActive
<1>1. CASE ValidateImport(k) \/ RejectImport(k)
  BY <1>1 DEF ValidateImport, RejectImport, vars, InTask
<1>2. CASE SubmitImport(k)
  BY <1>2 DEF SubmitImport, Submit, Goto, InTask, TypeOK, mgrVars
<1>3. CASE BeginImport(k)
  BY <1>3 DEF BeginImport, vars, InTask
<1>4. CASE InsertSource(k)
  BY <1>4 DEF InsertSource, MayInsert, vars, InTask
<1>5. CASE CommitImport(k)
  BY <1>5 DEF CommitImport, vars, InTask
<1>6. CASE RollbackImport(k)
  BY <1>6 DEF RollbackImport, vars, InTask
<1>7. CASE ReleaseImport(k)
  BY <1>7 DEF ReleaseImport, vars, InTask
<1>8. CASE ImportReturns(k)
  <2>1. PICK result \in ImportResult(k) : TaskReturns(k, result)
    BY <1>8 DEF ImportReturns
  <2>2. /\ UNCHANGED <<projectVars, mgrVars>>
        /\ tx[k] \in {"none", "committed", "rolledBack"} /\ token # k
        /\ pc' = [pc EXCEPT ![k] = "record"]
        /\ outcome' = [outcome EXCEPT ![k] = result]
        /\ result = "ok" <=> tx[k] = "committed"
    BY <1>8, <2>1 DEF ImportReturns, TaskReturns, Goto, ImportResult
  <2> QED
    BY <2>2 DEF projectVars, mgrVars, InTask, TypeOK
<1>9. CASE ManagerOnly(k)
  <2>1. /\ outcome' = outcome
        /\ UNCHANGED <<projectVars, shutdown, joined>>
        /\ \A j \in Job : InTask(j) => InTask(j)'
        /\ \A j \in Job : pc[j] = "task" /\ token = j => pc'[j] = "task"
    BY <1>9, ManagerOnlyFrame
  <2> QED
    BY <2>1 DEF projectVars
<1> QED
  BY <1>1, <1>2, <1>3, <1>4, <1>5, <1>6, <1>7, <1>8, <1>9 DEF JobWork

\* Archiving leaves an active project, and meets no inserted row.
LEMMA ProjectStepInv ==
  ASSUME WInv, TypeOK', NEW p \in Project, ProjectStep(p)
  PROVE  WInv'
<1> USE ProjectAssumption, FreeAssumption
    DEF WInv, WorkTypeOK, LockInv, InsertInv, ResultInv, NilInv,
        OneProjectStaysActive, vars, InTask
<1>1. CASE CheckArchive(p) \/ AbandonArchive(p)
  BY <1>1 DEF CheckArchive, AbandonArchive
<1>2. CASE BeginArchive(p)
  BY <1>2 DEF BeginArchive
<1>3. CASE CommitArchive(p)
  <2>1. archived' # Project
    <3>1. SUFFICES ASSUME archived \cup {p} = Project
                   PROVE  FALSE
      BY <1>3 DEF CommitArchive
    <3>2. Project \ archived = {p}
      BY <1>3, <3>1 DEF CommitArchive, MayArchive
    <3>3. Cardinality({p}) = 1
      BY FS_Singleton
    <3> QED
      BY <1>3, <3>2, <3>3 DEF CommitArchive, MayArchive
  <2>2. WorkTypeOK' /\ LockInv' /\ ResultInv' /\ NilInv'
    BY <1>3 DEF CommitArchive
  <2>3. InsertInv'
    BY <1>3 DEF CommitArchive
  <2> QED
    BY <2>1, <2>2, <2>3
<1>4. CASE RollbackArchive(p)
  BY <1>4 DEF RollbackArchive
<1>5. CASE RestoreProject(p)
  BY <1>5 DEF RestoreProject
<1> QED
  BY <1>1, <1>2, <1>3, <1>4, <1>5 DEF ProjectStep

\* The shutdown of the application keeps it.
LEMMA AppStepInv ==
  ASSUME WInv, TypeOK', AppStep
  PROVE  WInv'
<1> USE DEF WInv, WorkTypeOK, LockInv, InsertInv, ResultInv, NilInv,
            OneProjectStaysActive, projectVars, jobVars, InTask
<1>1. CASE StopApp
  BY <1>1 DEF StopApp, CancelParent
<1>2. CASE StopJobs
  BY <1>2 DEF StopJobs, Shutdown
<1>3. CASE CloseDatabase
  BY <1>3 DEF CloseDatabase, vars
<1>4. CASE /\ UNCHANGED projectVars
           /\ PropagateToManager \/ JoinAll \/ ShutdownReturns \/ ShutdownExpires
  BY <1>4 DEF PropagateToManager, JoinAll, ShutdownReturns, ShutdownExpires
<1> QED
  BY <1>1, <1>2, <1>3, <1>4 DEF AppStep

\* WInv, and IInv of the job manager, hold in every reachable state.
THEOREM WorkInductive == WorkSpec => []WInv /\ []IInv
<1>1. WorkSpec => []IInv
  BY Composition, Inductive, PTL
<1>2. WorkInit => WInv
  BY InitWInv
<1>3. WInv /\ IInv' /\ [WorkNext]_workVars => WInv'
  <2> SUFFICES ASSUME WInv, IInv', [WorkNext]_workVars
               PROVE  WInv'
    OBVIOUS
  <2>1. TypeOK'
    BY DEF IInv
  <2>2. CASE UNCHANGED workVars
    BY <2>2 DEF workVars, vars, projectVars, WInv, WorkTypeOK, TypeOK, LockInv,
       InsertInv, ResultInv, NilInv, OneProjectStaysActive, InTask
  <2> QED
    BY <2>1, <2>2, JobWorkInv, ProjectStepInv, AppStepInv DEF WorkNext
<1> QED
  BY <1>1, <1>2, <1>3, PTL DEF WorkSpec

-------------------------------------------------------------------------------
\* Concurrent calls of ArchiveProject never archive the last active project.
THEOREM ProjectRemains == WorkSpec => []OneProjectStaysActive
<1>1. WInv => OneProjectStaysActive
  BY DEF WInv
<1> QED
  BY <1>1, WorkInductive, PTL

\* The source of a job exists exactly when the job ended as Completed.
THEOREM CompletedPublished == WorkSpec => []CompletedIffPublished
<1>1. WInv /\ IInv => CompletedIffPublished
  BY DEF WInv, ResultInv, IInv, StateInv, Closing, InTask, CompletedIffPublished
<1> QED
  BY <1>1, WorkInductive, PTL

\* After a join before the deadline the database is closed under no import.
THEOREM ClosedQuiet == WorkSpec => []ClosedUnderNoImport
<1>1. WInv /\ IInv => ClosedUnderNoImport
  <2> SUFFICES ASSUME WInv, IInv, dbClosed, shutdown = "nil"
               PROVE  token \notin Job /\ \A j \in Job : ~InTask(j)
    BY DEF ClosedUnderNoImport
  <2>1. \A j \in Job : pc[j] \in {"none", "exited"}
    BY DEF WInv, NilInv, IInv, JoinInv, GroupInv
  <2> QED
    BY <2>1 DEF WInv, LockInv, InTask
<1> QED
  BY <1>1, WorkInductive, PTL

\* Imports and the database end in accordance.
THEOREM ImportsSettled == WorkSpec => []ImportsAreSettled
<1>1. CompletedIffPublished /\ ClosedUnderNoImport => ImportsAreSettled
  BY DEF ImportsAreSettled
<1> QED
  BY <1>1, CompletedPublished, ClosedQuiet, PTL

\* Nothing is published into an archived project.
THEOREM NothingPublishedIntoArchived == WorkSpec => NeverPublishedIntoArchived
<1>1. WInv /\ [WorkNext]_workVars =>
        [\A j \in published' \ published : ProjectOf[j] \notin archived]_workVars
  <2> SUFFICES ASSUME WInv, WorkNext, NEW j \in published' \ published
               PROVE  ProjectOf[j] \notin archived
    OBVIOUS
  <2>1. CASE \E k \in Job : CommitImport(k)
    BY <2>1 DEF CommitImport, WInv, InsertInv
  <2>2. CASE published' = published
    BY <2>2
  <2> QED
    BY <2>1, <2>2 DEF WorkNext, JobWork, ProjectStep, AppStep, ValidateImport,
       SubmitImport, RejectImport, BeginImport, InsertSource, RollbackImport,
       ReleaseImport, ImportReturns, ManagerOnly, CheckArchive, BeginArchive,
       CommitArchive, RollbackArchive, AbandonArchive, RestoreProject, StopApp,
       StopJobs, CloseDatabase, projectVars
<1> QED
  BY <1>1, WorkInductive, PTL DEF WorkSpec, NeverPublishedIntoArchived

-------------------------------------------------------------------------------
(* Saved queries and their editors                                           *)

Names == QueryName \cup {"untitled", "none"}
Queries == [there : BOOLEAN, name : Names, sql : Nat]
AskedCalls == [op : {"save", "rename", "delete"}, of : Query \cup {0}, for : Document \cup {0},
               name : Names, sql : Nat]
Replies == [op : {"save", "rename", "delete"}, of : Query \cup {0}, for : Document \cup {0},
            query : Queries]

EditorTypes ==
  /\ text \in [Document -> Nat] /\ captured \in [Document -> Nat \cup {-1}]
  /\ version \in Nat
TitleTypes ==
  /\ title \in [Document -> Names] /\ bound \in [Document -> Query \cup {0}]
  /\ opened \in Nat /\ open \subseteq Document /\ \A d \in open : d <= opened
QueryTypes ==
  /\ stored \in [Query -> Queries] /\ shown \in [Query -> Queries]
  /\ kept \in [Query -> Nat] /\ crossed \subseteq Query
WireTypes == /\ asked \subseteq AskedCalls /\ served \subseteq AskedCalls
             /\ replies \subseteq Replies /\ queue \in Seq(Replies)

(* A query that is spoken of was stored; those that were are the first ones. *)
Known(q) == q # 0 => kept[q] # 0
KeptInv ==
  /\ \E n \in 0 .. MaxQueries : \A q \in Query : kept[q] # 0 <=> q <= n
  /\ \A q \in Query : stored[q].there \/ shown[q].there => kept[q] # 0
  /\ \A d \in Document : Known(bound[d])

(* A save that is on its way is of the query its document is bound to.       *)
Binds(x) == x.op = "save" /\ x.of \in Saved /\ x.for \in open /\ shown[x.of].there =>
              bound[x.for] = x.of
Fits(x) == /\ Known(x.of) /\ x.for <= opened /\ Binds(x)
           /\ x.op # "save" => x.for = 0

(* Until a call is served host and webview have the same of its query, after *)
(* it the answer has what the host has.                                      *)
AskedOK(c) ==
  /\ Fits(c) /\ (c.op # "save" => c.of # 0)
  /\ c.of \in Saved => /\ shown[c.of] = stored[c.of] /\ stored[c.of].there
                       /\ c.op = "rename" => c.sql = stored[c.of].sql
ServedOK(c) ==
  /\ Fits(c) /\ c.of # 0 /\ c.op # "delete"
  /\ c.of \in Saved => stored[c.of].there /\ shown[c.of].there
ReplyOK(r) ==
  /\ Fits(r) /\ (r.query.there => r.of # 0)
  /\ r.of \in Saved =>
       IF ~r.query.there THEN shown[r.of] = stored[r.of]
       ELSE IF r.op = "delete" THEN stored[r.of] = NoQuery ELSE stored[r.of] = r.query
WireInv ==
  /\ \A c \in asked : AskedOK(c)
  /\ \A c \in served : ServedOK(c)
  /\ \A r \in replies : ReplyOK(r)
  /\ \A i \in DOMAIN queue : ReplyOK(queue[i])

(* One thing is on its way at a time for a query that is not crossed, and of *)
(* what saves.                                                               *)
Meet(x, y) == (x.of = y.of /\ x.of \in Saved) \/ (x.op = "save" /\ y.op = "save")
LoneInv ==
  /\ \A c, e \in asked : Meet(c, e) => c = e
  /\ \A c, e \in served : Meet(c, e) => c = e
  /\ \A r, e \in replies : Meet(r, e) => r = e
  /\ \A i, j \in DOMAIN queue : Meet(queue[i], queue[j]) => i = j
  /\ \A c \in asked, e \in served : ~Meet(c, e)
  /\ \A c \in asked \cup served, r \in replies : ~Meet(c, r)
  /\ \A x \in asked \cup served \cup replies, i \in DOMAIN queue : ~Meet(x, queue[i])

(* Unless a call for it was served, a query is shown as the host has it.     *)
Changing(q) == \/ \E c \in served : c.of = q
               \/ \E r \in replies : r.of = q
               \/ \E i \in DOMAIN queue : queue[i].of = q
IdleInv == \A q \in Saved : Changing(q) \/ shown[q] = stored[q]

DraftsInv == /\ EditorTypes /\ TitleTypes /\ QueryTypes /\ WireTypes
             /\ KeptInv /\ WireInv /\ LoneInv /\ IdleInv
             /\ SavedIsKept /\ OneEditor /\ EditorsFollow

-------------------------------------------------------------------------------
(* Documents                                                                 *)

\* What is not about titles and queries does not disturb them, nor does a document
\* that is closed.
LEMMA Closes ==
  ASSUME DraftsInv, EditorTypes', open' \subseteq open,
         UNCHANGED <<title, bound, opened, stored, shown, kept, crossed, asked, served,
                     replies, queue>>
  PROVE  DraftsInv'
<1>1. TitleTypes' /\ QueryTypes' /\ WireTypes'
  BY DEF DraftsInv, TitleTypes, QueryTypes, WireTypes
<1>2. KeptInv'
  BY DEF DraftsInv, KeptInv, Known
<1>3. \A x : Fits(x) => Fits(x)'
  BY DEF Fits, Known, Binds, Saved
<1>4. WireInv'
  BY <1>3 DEF DraftsInv, WireInv, AskedOK, ServedOK, ReplyOK, Saved
<1>5. LoneInv' /\ IdleInv'
  BY DEF DraftsInv, LoneInv, Meet, IdleInv, Changing, Saved
<1>6. SavedIsKept' /\ OneEditor' /\ EditorsFollow'
  BY DEF DraftsInv, SavedIsKept, OneEditor, EditorsFollow, Saved
<1> QED
  BY <1>1, <1>2, <1>4, <1>5, <1>6 DEF DraftsInv

\* No step of Sources opens a document.
LEMMA SourcesClose == SourcesNext => open' \subseteq open
<1> SUFFICES ASSUME SourcesNext PROVE open' \subseteq open
  OBVIOUS
<1>1. CASE ImportPaths \/ SnapshotRelation
  BY <1>1 DEF ImportPaths, SnapshotRelation, Calls
<1>2. ASSUME NEW d \in Document, RunQuery(d) \/ CloseDocument(d)
      PROVE  open' \subseteq open
  BY <1>2 DEF RunQuery, CloseDocument, Calls
<1>3. ASSUME NEW ds \in SUBSET Document, CloseOtherTabs(ds)
      PROVE  open' \subseteq open
  BY <1>3 DEF CloseOtherTabs
<1>4. ASSUME NEW s \in Source, Acts(s)
      PROVE  open' = open
  BY <1>4 DEF Acts, Calls
<1>5. CASE Host
  BY <1>5 DEF Host, shownVars
<1>6. CASE Handle
  BY <1>6 DEF Handle
<1> QED
  BY <1>1, <1>2, <1>3, <1>4, <1>5, <1>6 DEF SourcesNext

\* Where a text is written, formatted or inserted only the texts change.
LEMMA TextsKeep ==
  ASSUME DraftsInv,
         \/ \E d \in Document : Type(d) \/ Format(d) \/ Formatted(d)
         \/ \E d \in open : Writes(d) /\ UNCHANGED <<open, opened, title, bound, captured,
                                                     queryWire, shown, crossed, kept>>
  PROVE  DraftsInv'
<1>1. UNCHANGED <<open, title, bound, opened, stored, shown, kept, crossed, asked, served,
                  replies, queue>>
  BY DEF Type, Format, Formatted, queryWire
<1>2. /\ text \in [Document -> Nat] /\ captured \in [Document -> Nat \cup {-1}]
      /\ version \in Nat /\ version + 1 \in Nat /\ open \subseteq Document
  BY DEF DraftsInv, EditorTypes, TitleTypes
<1>3. ASSUME NEW d \in Document, Writes(d), UNCHANGED captured
      PROVE  EditorTypes'
  BY <1>2, <1>3 DEF Writes, UpdateSQL, EditorTypes
<1>4. ASSUME NEW d \in Document, Type(d) \/ Format(d) \/ Formatted(d)
      PROVE  EditorTypes'
  <2>1. CASE Type(d)
    BY <1>3, <2>1 DEF Type
  <2>2. CASE Format(d)
    BY <1>2, <2>2 DEF Format, EditorTypes
  <2>3. CASE Formatted(d)
    <3>1. captured[d] \in Nat /\ captured' = [captured EXCEPT ![d] = -1] /\ version' = version
      BY <1>2, <2>3 DEF Formatted
    <3>2. text' \in [Document -> Nat]
      BY <1>2, <2>3, <3>1 DEF Formatted, UpdateSQL
    <3> QED
      BY <1>2, <3>1, <3>2 DEF EditorTypes
  <2> QED
    BY <1>4, <2>1, <2>2, <2>3
<1>5. EditorTypes'
  BY <1>2, <1>3, <1>4
<1> QED
  BY <1>1, <1>5, Closes

\* A document that is opened is a new one, of a query no other is open for.
LEMMA OpensKeeps ==
  ASSUME DraftsInv, NEW sql \in Nat, NEW name \in Names,
         NEW q \in Query \cup {0},
         Opens(sql, name, q), q # 0 => shown[q].there /\ shown[q].name = name,
         q # 0 => \A e \in open : bound[e] # q,
         version' \in Nat,
         UNCHANGED <<captured, stored, shown, kept, crossed, asked, served, replies, queue>>
  PROVE  DraftsInv'
<1>1. PICK d \in Document : /\ d = opened + 1 /\ opened' = d /\ open' = open \cup {d}
                            /\ text' = [text EXCEPT ![d] = sql]
                            /\ title' = [title EXCEPT ![d] = name]
                            /\ bound' = [bound EXCEPT ![d] = q]
  BY DEF Opens, UpdateSQL
<1>2. /\ title' \in [Document -> Names] /\ title'[d] = name
      /\ bound' \in [Document -> Query \cup {0}] /\ bound'[d] = q
      /\ \A e \in Document : e # d => title'[e] = title[e] /\ bound'[e] = bound[e]
      /\ opened \in Nat /\ opened' \in Nat /\ opened < d /\ open \subseteq Document
      /\ \A e \in open : e \in Document /\ e <= opened /\ e # d
  BY <1>1 DEF DraftsInv, TitleTypes
<1>3. EditorTypes' /\ TitleTypes'
  BY <1>1, <1>2 DEF DraftsInv, EditorTypes, TitleTypes
<1>4. QueryTypes' /\ WireTypes'
  BY DEF DraftsInv, QueryTypes, WireTypes
<1>5. KeptInv'
  <2>1. Known(q)
    BY DEF DraftsInv, KeptInv, Known
  <2>2. \A e \in Document : Known(bound'[e])
    BY <1>2, <2>1 DEF DraftsInv, KeptInv
  <2> QED
    BY <2>2 DEF DraftsInv, KeptInv, Known
<1>6. \A x : x.for \in Document \cup {0} /\ Fits(x) => Fits(x)'
  <2> SUFFICES ASSUME NEW x, x.for \in Document \cup {0}, Fits(x)
               PROVE  Fits(x)'
    OBVIOUS
  <2>1. x.for <= opened /\ x.for # d /\ x.for <= opened'
    BY <1>1, <1>2 DEF Fits, Document
  <2>2. Binds(x)'
    BY <1>1, <1>2, <2>1 DEF Fits, Binds, Saved
  <2> QED
    BY <2>1, <2>2 DEF Fits, Known
<1>7. WireInv'
  <2>1. /\ \A c \in asked \cup served \cup replies : c.for \in Document \cup {0}
        /\ \A i \in DOMAIN queue : queue[i].for \in Document \cup {0}
    <3>1. /\ asked \subseteq AskedCalls /\ served \subseteq AskedCalls
          /\ replies \subseteq Replies /\ \A i \in DOMAIN queue : queue[i] \in Replies
      BY DEF DraftsInv, WireTypes
    <3> QED
      BY <3>1 DEF AskedCalls, Replies
  <2> QED
    BY <1>6, <2>1 DEF DraftsInv, WireInv, AskedOK, ServedOK, ReplyOK, Saved
<1>8. LoneInv' /\ IdleInv'
  BY DEF DraftsInv, LoneInv, Meet, IdleInv, Changing, Saved
<1>9. SavedIsKept' /\ OneEditor' /\ EditorsFollow'
  <2>1. SavedIsKept'
    BY DEF DraftsInv, SavedIsKept, Saved
  <2>2. OneEditor'
    BY <1>1, <1>2 DEF DraftsInv, OneEditor, Saved, Query
  <2>3. EditorsFollow'
    BY <1>1, <1>2 DEF DraftsInv, EditorsFollow, Saved, Query
  <2> QED
    BY <2>1, <2>2, <2>3
<1> QED
  BY <1>3, <1>4, <1>5, <1>7, <1>8, <1>9 DEF DraftsInv

\* A query is shown in the document it is open in, or opened.
LEMMA LoadKeeps ==
  ASSUME DraftsInv, NEW q \in Query, LoadSavedQuery(q)
  PROVE  DraftsInv'
<1>1. /\ shown[q].there /\ shown[q] \in Queries /\ q # 0 /\ q \in Query \cup {0}
      /\ UNCHANGED <<captured, stored, shown, kept, crossed, asked, served, replies, queue,
                     version>>
  BY DEF DraftsInv, QueryTypes, LoadSavedQuery, queryWire, Query
<1>2. shown[q].name \in Names /\ shown[q].sql \in Nat /\ version' \in Nat
  BY <1>1 DEF Queries, DraftsInv, EditorTypes
<1>3. ASSUME NEW d \in open, bound[d] = q, UpdateSQL(d, shown[q].sql),
             title' = [title EXCEPT ![d] = shown[q].name], UNCHANGED <<open, bound, opened>>
      PROVE  DraftsInv'
  <2>1. /\ d \in Document /\ title' \in [Document -> Names] /\ title'[d] = shown[q].name
        /\ \A e \in Document : e # d => title'[e] = title[e]
        /\ text' \in [Document -> Nat]
    BY <1>2, <1>3 DEF DraftsInv, TitleTypes, EditorTypes, UpdateSQL
  <2>2. EditorTypes' /\ TitleTypes' /\ QueryTypes' /\ WireTypes'
    BY <1>1, <1>3, <2>1 DEF DraftsInv, EditorTypes, TitleTypes, QueryTypes,
                            WireTypes
  <2>3. KeptInv'
    BY <1>1, <1>3 DEF DraftsInv, KeptInv, Known
  <2>4. \A x : Fits(x) => Fits(x)'
    BY <1>1, <1>3 DEF Fits, Known, Binds, Saved
  <2>5. WireInv'
    BY <1>1, <2>4 DEF DraftsInv, WireInv, AskedOK, ServedOK, ReplyOK, Saved
  <2>6. LoneInv' /\ IdleInv'
    BY <1>1 DEF DraftsInv, LoneInv, Meet, IdleInv, Changing, Saved
  <2>7. SavedIsKept' /\ OneEditor'
    BY <1>1, <1>3 DEF DraftsInv, SavedIsKept, OneEditor, Saved
  <2>8. EditorsFollow'
    BY <1>1, <1>3, <2>1 DEF DraftsInv, TitleTypes, EditorsFollow, Saved
  <2> QED
    BY <2>2, <2>3, <2>5, <2>6, <2>7, <2>8 DEF DraftsInv
<1>4. CASE Opens(shown[q].sql, shown[q].name, q) /\ \A d \in open : bound[d] # q
  BY <1>1, <1>2, <1>4, OpensKeeps
<1> QED
  BY <1>3, <1>4 DEF LoadSavedQuery

\* A draft opens a document of its own, without a query.
LEMMA NewKeeps ==
  ASSUME DraftsInv, Draft \/ NewDraft
  PROVE  DraftsInv'
<1>1. CASE NewDraft
  <2>1. /\ Opens(0, "untitled", 0) /\ "untitled" \in Names /\ version' \in Nat
        /\ UNCHANGED <<captured, stored, shown, kept, crossed, asked, served, replies, queue>>
    BY <1>1 DEF NewDraft, Names, DraftsInv, EditorTypes, queryWire
  <2> QED
    BY <2>1, OpensKeeps
<1>2. ASSUME NEW d \in open, Writes(d), UNCHANGED <<open, opened, title, bound>>,
             UNCHANGED <<captured, queryWire, shown, crossed, kept>>
      PROVE  DraftsInv'
  BY <1>2, TextsKeep
<1>3. CASE /\ version' = version + 1 /\ Opens(version', "untitled", 0)
           /\ UNCHANGED <<captured, queryWire, shown, crossed, kept>>
  <2>1. PICK n \in Nat : n = version'
    BY <1>3 DEF DraftsInv, EditorTypes
  <2>2. /\ Opens(n, "untitled", 0) /\ "untitled" \in Names
        /\ UNCHANGED <<captured, stored, shown, kept, crossed, asked, served, replies, queue>>
    BY <1>3, <2>1 DEF Names, queryWire
  <2> QED
    BY <2>1, <2>2, OpensKeeps
<1> QED
  BY <1>1, <1>2, <1>3 DEF Draft, FocusedDocuments

-------------------------------------------------------------------------------
(* Calls                                                                     *)

\* Who asks while something is on its way for the same query crosses it.
LEMMA AsksKeeps ==
  ASSUME DraftsInv, NEW call \in AskedCalls, Asks(call), Known(call.of),
         call.of \in Saved => shown[call.of].there,
         call.op # "save" => call.of # 0 /\ call.for = 0,
         call.op = "rename" => call.sql = shown[call.of].sql,
         call.op = "save" => /\ call.for \in open /\ bound[call.for] = call.of
                             /\ \A other \in Pending : other.op # "save"
  PROVE  DraftsInv'
<1>1. /\ asked' = asked \cup {call} /\ crossed \subseteq crossed' /\ crossed' \subseteq Query
      /\ call.of \notin crossed' => call.of = 0 \/ \A x \in Pending : x.of # call.of
      /\ UNCHANGED <<open, text, title, bound, opened, captured, stored, served, replies, queue,
                     shown, version, kept>>
  BY DEF Asks, editors, AskedCalls, DraftsInv, QueryTypes
<1>2. /\ asked \subseteq Pending /\ served \subseteq Pending /\ replies \subseteq Pending
      /\ \A i \in DOMAIN queue : queue[i] \in Pending
  BY DEF Pending, ToSet
<1>3. /\ Saved' \subseteq Saved /\ Saved \subseteq Query /\ 0 \notin Query
      /\ call.of \in Saved' => \A x \in Pending : x.of # call.of
  BY <1>1 DEF Saved, Query
<1>4. EditorTypes' /\ TitleTypes' /\ QueryTypes' /\ WireTypes'
  BY <1>1 DEF DraftsInv, EditorTypes, TitleTypes, QueryTypes, WireTypes
<1>5. KeptInv'
  BY <1>1 DEF DraftsInv, KeptInv, Known
<1>6. \A x : Fits(x) => Fits(x)'
  BY <1>1, <1>3 DEF Fits, Known, Binds
<1>7. AskedOK(call)'
  <2>1. Fits(call)'
    <3>1. call.for <= opened
      <4>1. CASE call.op = "save"
        BY <4>1 DEF DraftsInv, TitleTypes
      <4>2. CASE call.op # "save"
        BY <4>2 DEF DraftsInv, TitleTypes
      <4> QED
        BY <4>1, <4>2
    <3> QED
      BY <1>1, <3>1 DEF Fits, Known, Binds
  <2>2. call.of \in Saved' => shown[call.of] = stored[call.of] /\ stored[call.of].there
    <3> SUFFICES ASSUME call.of \in Saved'
                 PROVE  shown[call.of] = stored[call.of] /\ stored[call.of].there
      OBVIOUS
    <3>1. ~Changing(call.of)
      BY <1>2, <1>3 DEF Changing
    <3> QED
      BY <1>3, <3>1 DEF DraftsInv, IdleInv
  <2> QED
    BY <1>1, <2>1, <2>2 DEF AskedOK
<1>8. WireInv'
  <2>1. \A c \in asked' : AskedOK(c)'
    BY <1>1, <1>3, <1>6, <1>7 DEF DraftsInv, WireInv, AskedOK
  <2>2. \A c \in served : ServedOK(c)'
    BY <1>1, <1>3, <1>6 DEF DraftsInv, WireInv, ServedOK
  <2>3. \A r : ReplyOK(r) => ReplyOK(r)'
    BY <1>1, <1>3, <1>6 DEF ReplyOK
  <2> QED
    BY <1>1, <2>1, <2>2, <2>3 DEF DraftsInv, WireInv
<1>9. LoneInv'
  <2>1. \A x, y : Meet(x, y)' => Meet(x, y)
    BY <1>3 DEF Meet
  <2>2. \A x \in Pending : ~Meet(x, call)' /\ ~Meet(call, x)'
    BY <1>3 DEF Meet
  <2> QED
    BY <1>1, <1>2, <2>1, <2>2 DEF DraftsInv, LoneInv
<1>10. IdleInv'
  BY <1>1, <1>3 DEF DraftsInv, IdleInv, Changing
<1>11. SavedIsKept' /\ OneEditor' /\ EditorsFollow'
  BY <1>1, <1>3 DEF DraftsInv, SavedIsKept, OneEditor, EditorsFollow
<1> QED
  BY <1>4, <1>5, <1>8, <1>9, <1>10, <1>11 DEF DraftsInv

\* Saving and renaming ask with what is shown.
LEMMA UserAsksKeeps ==
  ASSUME DraftsInv, NEW name \in QueryName,
         \/ \E d \in Document : SaveQuery(d, name)
         \/ \E q \in Query : RenameSavedQuery(q, name)
  PROVE  DraftsInv'
<1>1. ASSUME NEW d \in Document, SaveQuery(d, name)
      PROVE  DraftsInv'
  <2>1. PICK call : call = Asked("save", bound[d], d, name, text[d])
    OBVIOUS
  <2>2. /\ call.op = "save" /\ call.of = bound[d] /\ call.for = d /\ call.name = name
        /\ call.sql = text[d] /\ d \in open /\ Asks(call)
        /\ \A other \in Pending : other.op # "save"
    BY <1>1, <2>1 DEF Asked, SaveQuery, Busy
  <2>3. call \in AskedCalls
    BY <2>1 DEF Asked, AskedCalls, DraftsInv, TitleTypes, EditorTypes, Names
  <2>4. Known(call.of) /\ (call.of \in Saved => shown[call.of].there)
    BY <2>2 DEF DraftsInv, KeptInv, EditorsFollow
  <2> QED
    BY <2>2, <2>3, <2>4, AsksKeeps
<1>2. ASSUME NEW q \in Query, RenameSavedQuery(q, name)
      PROVE  DraftsInv'
  <2>1. PICK call : call = Asked("rename", q, 0, name, shown[q].sql)
    OBVIOUS
  <2>2. /\ call.op = "rename" /\ call.of = q /\ call.for = 0 /\ q # 0
        /\ call.sql = shown[q].sql /\ shown[q].there /\ Asks(call) /\ shown[q] \in Queries
    BY <1>2, <2>1 DEF Asked, RenameSavedQuery, Query, DraftsInv, QueryTypes
  <2>3. call \in AskedCalls
    BY <2>1, <2>2 DEF Asked, AskedCalls, Queries, Names
  <2>4. Known(call.of)
    BY <2>2 DEF DraftsInv, KeptInv, Known
  <2> QED
    BY <2>2, <2>3, <2>4, AsksKeeps
<1> QED
  BY <1>1, <1>2

\* So does deleting.
LEMMA DeleteKeeps ==
  ASSUME DraftsInv, NEW q \in Query, DeleteSavedQuery(q)
  PROVE  DraftsInv'
<1>1. PICK call : call = Asked("delete", q, 0, "none", 0)
  OBVIOUS
<1>2. /\ call.op = "delete" /\ call.of = q /\ call.for = 0 /\ q # 0
      /\ shown[q].there /\ Asks(call)
  BY <1>1 DEF Asked, DeleteSavedQuery, Query
<1>3. call \in AskedCalls
  BY <1>1, <1>2 DEF Asked, AskedCalls, Names
<1>4. Known(call.of)
  BY <1>2 DEF DraftsInv, KeptInv, Known
<1> QED
  BY <1>2, <1>3, <1>4, AsksKeeps

-------------------------------------------------------------------------------
(* The host                                                                  *)

\* What is answered is of the query of its call, or of one that is new.
LEMMA Answered ==
  ASSUME KeptInv, WireInv, LoneInv, NEW call \in asked, asked' = asked \ {call},
         NEW r, r.op = call.op, r.of = call.of \/ (r.of # 0 /\ kept[r.of] = 0),
         replies' = replies \cup {r}, UNCHANGED <<served, queue, crossed>>
  PROVE  LoneInv'
<1>1. \A x, y : Meet(x, y)' <=> Meet(x, y)
  BY DEF Meet, Saved
<1>2. \A x : Known(x.of) /\ (Meet(x, r) \/ Meet(r, x)) => Meet(x, call) /\ Meet(call, x)
  BY DEF Meet, Known
<1>3. /\ \A x \in asked \cup served \cup replies : Known(x.of)
      /\ \A i \in DOMAIN queue : Known(queue[i].of)
  BY DEF WireInv, AskedOK, ServedOK, ReplyOK, Fits
<1>4. \A x \in asked' \cup served \cup replies : ~Meet(x, r) /\ ~Meet(r, x)
  BY <1>2, <1>3 DEF LoneInv
<1>5. \A i \in DOMAIN queue : ~Meet(r, queue[i])
  BY <1>2, <1>3 DEF LoneInv
<1> QED
  BY <1>1, <1>4, <1>5 DEF LoneInv

\* What the host stores of a query disturbs nothing that is said of the others.
LEMMA Others ==
  ASSUME DraftsInv,
         NEW q \in Query, \A p \in Query : p # q => stored'[p] = stored[p],
         NEW call \in asked, call.of = q \/ kept[q] = 0,
         kept' \in [Query -> Nat], \A p \in Query : kept[p] # 0 => kept'[p] # 0,
         \A p \in Query : p # q => kept'[p] = kept[p],
         UNCHANGED <<open, bound, opened, shown, crossed, queue>>
  PROVE  /\ \A x : x.of \in Query \cup {0} /\ Fits(x) => Fits(x)'
         /\ \A c \in asked : c # call => AskedOK(c)'
         /\ \A c \in served : ServedOK(c)'
         /\ \A r \in replies : ReplyOK(r)'
         /\ \A i \in DOMAIN queue : \A r : r = queue[i] => ReplyOK(r)'
<1>1. q # 0 /\ \A p \in Query : p # q => stored'[p] = stored[p]
  BY DEF Query
<1>2. Saved' = Saved /\ Saved \subseteq Query
  BY DEF Saved
<1>3. \A x : x.of \in Query \cup {0} /\ Fits(x) => Fits(x)'
  BY <1>2 DEF Fits, Known, Binds
<1>4. /\ \A x \in asked \cup served \cup replies : x.of \in Query \cup {0}
      /\ \A i \in DOMAIN queue : queue[i].of \in Query \cup {0}
  <2>1. /\ asked \subseteq AskedCalls /\ served \subseteq AskedCalls
        /\ replies \subseteq Replies /\ \A i \in DOMAIN queue : queue[i] \in Replies
    BY DEF DraftsInv, WireTypes
  <2> QED
    BY <2>1 DEF AskedCalls, Replies
<1>5. \A x : Known(x.of) /\ x.of = q => call.of = q
  BY <1>1 DEF Known
<1>6. \A x : call.of = q /\ q \in Saved /\ x.of = q => Meet(call, x)
  BY DEF Meet
<1>7. \A c \in asked : c # call => AskedOK(c)'
  <2> SUFFICES ASSUME NEW c \in asked, c # call PROVE AskedOK(c)'
    OBVIOUS
  <2>1. AskedOK(c) /\ Fits(c)' /\ Known(c.of)
    BY <1>3, <1>4 DEF DraftsInv, WireInv, AskedOK, Fits
  <2>2. c.of \in Saved => c.of # q
    BY <1>5, <1>6, <2>1 DEF DraftsInv, LoneInv
  <2> QED
    BY <1>1, <1>2, <2>1, <2>2 DEF AskedOK
<1>8. \A c \in served : ServedOK(c)'
  <2> SUFFICES ASSUME NEW c \in served PROVE ServedOK(c)'
    OBVIOUS
  <2>1. ServedOK(c) /\ Fits(c)' /\ Known(c.of)
    BY <1>3, <1>4 DEF DraftsInv, WireInv, ServedOK, Fits
  <2>2. c.of \in Saved => c.of # q
    BY <1>5, <1>6, <2>1 DEF DraftsInv, LoneInv
  <2> QED
    BY <1>1, <1>2, <2>1, <2>2 DEF ServedOK
<1>9. \A r : Fits(r)' /\ ReplyOK(r) /\ (r.of \in Saved => r.of # q) => ReplyOK(r)'
  BY <1>1, <1>2 DEF ReplyOK
<1>10. \A r \in replies : ReplyOK(r)'
  <2> SUFFICES ASSUME NEW r \in replies PROVE ReplyOK(r)'
    OBVIOUS
  <2>1. ReplyOK(r) /\ Fits(r)' /\ Known(r.of)
    BY <1>3, <1>4 DEF DraftsInv, WireInv, ReplyOK, Fits
  <2>2. r.of \in Saved => r.of # q
    BY <1>5, <1>6, <2>1 DEF DraftsInv, LoneInv
  <2> QED
    BY <1>9, <2>1, <2>2
<1>11. \A i \in DOMAIN queue : \A r : r = queue[i] => ReplyOK(r)'
  <2> SUFFICES ASSUME NEW i \in DOMAIN queue, NEW r, r = queue[i] PROVE ReplyOK(r)'
    OBVIOUS
  <2>2. ReplyOK(r) /\ Fits(r)' /\ Known(r.of)
    BY <1>3, <1>4 DEF DraftsInv, WireInv, ReplyOK, Fits
  <2>3. r.of \in Saved => r.of # q
    BY <1>5, <1>6, <2>2 DEF DraftsInv, LoneInv
  <2> QED
    BY <1>9, <2>2, <2>3
<1> QED
  BY <1>1, <1>3, <1>7, <1>8, <1>10, <1>11

\* An update waits to be read back, with what is stored at the host.
LEMMA UpdateKeeps ==
  ASSUME DraftsInv, NEW call \in asked,
         NEW q \in Query, Accepted(call, q), call.of = q,
         asked' = asked \ {call}, served' = served \cup {call},
         stored' = [stored EXCEPT ![q] = SavedQuery(call.name, call.sql)],
         kept' = IF call.op = "save" THEN [kept EXCEPT ![q] = call.sql] ELSE kept,
         UNCHANGED <<open, editors, shown, version, crossed, replies, queue>>
  PROVE  DraftsInv'
<1>1. /\ UNCHANGED <<text, title, bound, opened, captured>>
      /\ call \in AskedCalls /\ call.sql \in Nat /\ call.sql # 0 /\ call.op # "delete"
      /\ q # 0 /\ stored[q].there /\ AskedOK(call) /\ Fits(call) /\ kept[q] # 0
      /\ SavedQuery(call.name, call.sql) \in Queries /\ call.of \in Query \cup {0}
  BY DEF editors, DraftsInv, WireTypes, AskedCalls, Accepted, Query, WireInv,
         AskedOK, Fits, Known,
         SavedQuery, Queries
<1>2. /\ kept' \in [Query -> Nat] /\ \A p \in Query : kept[p] # 0 <=> kept'[p] # 0
      /\ \A p \in Query : p # q => kept'[p] = kept[p]
      /\ call.op = "save" => kept'[q] = call.sql
      /\ call.op # "save" => kept'[q] = kept[q]
  BY <1>1 DEF DraftsInv, QueryTypes
<1>3. /\ \A x : x.of \in Query \cup {0} /\ Fits(x) => Fits(x)'
      /\ \A c \in asked : c # call => AskedOK(c)'
      /\ \A c \in served : ServedOK(c)'
      /\ \A r \in replies : ReplyOK(r)'
      /\ \A i \in DOMAIN queue : \A r : r = queue[i] => ReplyOK(r)'
      /\ \A p \in Query : p # q => stored'[p] = stored[p]
      /\ stored' \in [Query -> Queries] /\ stored'[q] = SavedQuery(call.name, call.sql)
  <2>1. /\ stored' \in [Query -> Queries] /\ stored'[q] = SavedQuery(call.name, call.sql)
        /\ \A p \in Query : p # q => stored'[p] = stored[p]
    BY <1>1 DEF DraftsInv, QueryTypes
  <2>2. \A p \in Query : kept[p] # 0 => kept'[p] # 0
    BY <1>2
  <2>3. UNCHANGED <<open, bound, opened, shown, crossed, queue>>
    BY <1>1
  <2>4. /\ \A x : x.of \in Query \cup {0} /\ Fits(x) => Fits(x)'
        /\ \A c \in asked : c # call => AskedOK(c)'
        /\ \A c \in served : ServedOK(c)'
        /\ \A r \in replies : ReplyOK(r)'
        /\ \A i \in DOMAIN queue : \A r : r = queue[i] => ReplyOK(r)'
    BY <1>2, <2>1, <2>2, <2>3, Others
  <2> QED
    BY <2>1, <2>4
<1>4. Saved' = Saved /\ Saved \subseteq Query
  BY DEF Saved
<1>5. EditorTypes' /\ TitleTypes' /\ QueryTypes' /\ WireTypes'
  BY <1>1, <1>2, <1>3 DEF DraftsInv, EditorTypes, TitleTypes, QueryTypes,
                          WireTypes
<1>6. KeptInv'
  <2>1. \E n \in 0 .. MaxQueries : \A p \in Query : kept'[p] # 0 <=> p <= n
    BY <1>2 DEF DraftsInv, KeptInv
  <2>2. \A p \in Query : stored'[p].there \/ shown[p].there => kept'[p] # 0
    BY <1>1, <1>2, <1>3 DEF DraftsInv, KeptInv
  <2>3. \A d \in Document : Known(bound[d])'
    BY <1>1, <1>2 DEF DraftsInv, KeptInv, Known, TitleTypes
  <2> QED
    BY <1>1, <2>1, <2>2, <2>3 DEF KeptInv, Known
<1>7. ServedOK(call)'
  BY <1>1, <1>3, <1>4 DEF ServedOK, AskedOK, SavedQuery
<1>8. WireInv'
  BY <1>3, <1>7 DEF WireInv
<1>9. LoneInv'
  <2>1. \A x, y : Meet(x, y)' <=> Meet(x, y)
    BY <1>4 DEF Meet
  <2>2. \A x, y : Meet(x, y) => Meet(y, x)
    BY DEF Meet
  <2> QED
    BY <2>1, <2>2 DEF DraftsInv, LoneInv
<1>10. IdleInv'
  <2>1. \A p : Changing(p) => Changing(p)'
    BY DEF Changing
  <2>2. Changing(q)'
    BY DEF Changing
  <2> QED
    BY <1>3, <1>4, <2>1, <2>2 DEF DraftsInv, IdleInv
<1>11. SavedIsKept'
  <2>1. q \in Saved => call.sql = kept'[q]
    BY <1>1, <1>2 DEF DraftsInv, SavedIsKept, AskedOK, AskedCalls
  <2> QED
    BY <1>2, <1>3, <1>4, <2>1 DEF DraftsInv, SavedIsKept, SavedQuery
<1>12. OneEditor' /\ EditorsFollow'
  BY <1>1, <1>4 DEF DraftsInv, OneEditor, EditorsFollow
<1> QED
  BY <1>5, <1>6, <1>8, <1>9, <1>10, <1>11, <1>12 DEF DraftsInv

\* A query that is created is the next one.
LEMMA CreateKeeps ==
  ASSUME DraftsInv, NEW call \in asked,
         NEW q \in Query, Accepted(call, q), call.of = 0,
         NEW r, r = Reply(call, q, SavedQuery(call.name, call.sql)),
         asked' = asked \ {call}, replies' = replies \cup {r},
         stored' = [stored EXCEPT ![q] = SavedQuery(call.name, call.sql)],
         kept' = [kept EXCEPT ![q] = call.sql],
         UNCHANGED <<open, editors, shown, version, crossed, served, queue>>
  PROVE  DraftsInv'
<1>1. /\ UNCHANGED <<text, title, bound, opened, captured>>
      /\ call \in AskedCalls /\ call.sql \in Nat /\ call.sql # 0 /\ call.op = "save"
      /\ q # 0 /\ AskedOK(call) /\ Fits(call)
      /\ SavedQuery(call.name, call.sql) \in Queries
  BY DEF editors, DraftsInv, WireTypes, AskedCalls, Accepted, Query, WireInv,
         AskedOK, SavedQuery,
         Queries
<1>2. PICK n \in 0 .. MaxQueries : \A p \in Query : kept[p] # 0 <=> p <= n
  BY DEF DraftsInv, KeptInv
<1>3. q = n + 1 /\ n \in Nat /\ kept[q] = 0
  <2>1. n \in Nat /\ n <= MaxQueries /\ MaxQueries \in Nat
    BY <1>2, DraftsAssumption
  <2>2. {other \in Query : kept[other] # 0} = 1 .. n
    BY <1>2, <2>1 DEF Query
  <2>3. Cardinality(1 .. n) = n
    BY <2>1, FS_Interval
  <2>4. q = n + 1
    BY <1>1, <2>2, <2>3 DEF Accepted
  <2> QED
    BY <1>2, <2>1, <2>4
<1>4. /\ kept' \in [Query -> Nat] /\ kept'[q] = call.sql
      /\ \A p \in Query : p # q => kept'[p] = kept[p]
      /\ \A p \in Query : kept[p] # 0 => kept'[p] # 0
  BY <1>1, <1>3 DEF DraftsInv, QueryTypes
<1>5. /\ stored' \in [Query -> Queries] /\ stored'[q] = SavedQuery(call.name, call.sql)
      /\ \A p \in Query : p # q => stored'[p] = stored[p]
  BY <1>1 DEF DraftsInv, QueryTypes
<1>6. /\ \A x : x.of \in Query \cup {0} /\ Fits(x) => Fits(x)'
      /\ \A c \in asked : c # call => AskedOK(c)'
      /\ \A c \in served : ServedOK(c)'
      /\ \A x \in replies : ReplyOK(x)'
      /\ \A i \in DOMAIN queue : \A x : x = queue[i] => ReplyOK(x)'
  <2>1. UNCHANGED <<open, bound, opened, shown, crossed, queue>>
    BY <1>1
  <2> QED
    BY <1>3, <1>4, <1>5, <2>1, Others
<1>7. Saved' = Saved /\ Saved \subseteq Query
  BY DEF Saved
<1>8. /\ r.op = "save" /\ r.of = q /\ r.for = call.for
      /\ r.query = SavedQuery(call.name, call.sql) /\ r \in Replies
  BY <1>1 DEF Reply, AskedCalls, Replies
<1>9. EditorTypes' /\ TitleTypes' /\ QueryTypes' /\ WireTypes'
  BY <1>1, <1>4, <1>5, <1>8 DEF DraftsInv, EditorTypes, TitleTypes, QueryTypes,
                                WireTypes
<1>10. KeptInv'
  <2>1. \E m \in 0 .. MaxQueries : \A p \in Query : kept'[p] # 0 <=> p <= m
    <3>1. n + 1 \in 0 .. MaxQueries
      BY <1>3, DraftsAssumption DEF Query
    <3>2. \A p \in Query : kept'[p] # 0 <=> p <= n + 1
      <4> SUFFICES ASSUME NEW p \in Query PROVE kept'[p] # 0 <=> p <= n + 1
        OBVIOUS
      <4>1. CASE p = q
        BY <1>1, <1>3, <1>4, <4>1
      <4>2. CASE p # q
        BY <1>2, <1>3, <1>4, <4>2 DEF Query
      <4> QED
        BY <4>1, <4>2
    <3> QED
      BY <3>1, <3>2
  <2>2. \A p \in Query : stored'[p].there \/ shown[p].there => kept'[p] # 0
    BY <1>1, <1>4, <1>5 DEF DraftsInv, KeptInv
  <2>3. \A d \in Document : Known(bound[d])'
    BY <1>1, <1>4 DEF DraftsInv, KeptInv, Known, TitleTypes
  <2> QED
    BY <1>1, <2>1, <2>2, <2>3 DEF KeptInv, Known
<1>11. ReplyOK(r)'
  <2>1. ~shown[q].there
    BY <1>3 DEF DraftsInv, KeptInv
  <2>2. Fits(r)'
    BY <1>1, <1>4, <1>8, <2>1 DEF Fits, Known, Binds
  <2> QED
    BY <1>1, <1>5, <1>8, <2>2 DEF ReplyOK, SavedQuery
<1>12. WireInv'
  BY <1>6, <1>11 DEF WireInv
<1>13. LoneInv'
  <2>1. KeptInv /\ WireInv /\ LoneInv /\ r.op = call.op /\ r.of # 0 /\ kept[r.of] = 0
    BY <1>1, <1>3, <1>8 DEF DraftsInv
  <2> QED
    BY <2>1, Answered
<1>14. IdleInv'
  <2>1. \A p : Changing(p) => Changing(p)'
    BY DEF Changing
  <2>2. Changing(q)'
    BY <1>8 DEF Changing
  <2> QED
    BY <1>5, <1>7, <2>1, <2>2 DEF DraftsInv, IdleInv
<1>15. SavedIsKept'
  BY <1>4, <1>5, <1>7 DEF DraftsInv, SavedIsKept, SavedQuery
<1>16. OneEditor' /\ EditorsFollow'
  BY <1>1, <1>7 DEF DraftsInv, OneEditor, EditorsFollow
<1> QED
  BY <1>9, <1>10, <1>12, <1>13, <1>14, <1>15, <1>16 DEF DraftsInv

\* A query that is deleted is shown until the answer comes.
LEMMA DeletesKeeps ==
  ASSUME DraftsInv, NEW call \in asked,
         NEW q, q = call.of, Deletes(call), asked' = asked \ {call},
         UNCHANGED <<open, editors, shown, version, crossed, queue>>
  PROVE  DraftsInv'
<1>1. /\ UNCHANGED <<text, title, bound, opened, captured, served, kept>>
      /\ call \in AskedCalls /\ call.op = "delete" /\ AskedOK(call) /\ Fits(call)
      /\ q # 0 /\ q \in Query /\ stored[q].there /\ call.for = 0
      /\ stored' = [stored EXCEPT ![q] = NoQuery] /\ NoQuery \in Queries /\ ~NoQuery.there
  BY DEF Deletes, editors, DraftsInv, WireTypes, AskedCalls, WireInv, AskedOK,
         Fits, NoQuery,
         Queries, Names
<1>2. PICK r : r = Reply(call, q, SavedQuery("none", 0))
  OBVIOUS
<1>3. /\ r.op = "delete" /\ r.of = q /\ r.for = 0 /\ r.query = SavedQuery("none", 0)
      /\ r.query.there /\ r \in Replies /\ replies' = replies \cup {r}
  BY <1>1, <1>2 DEF Deletes, Reply, AskedCalls, Replies, SavedQuery, Queries,
                    Names
<1>4. /\ stored' \in [Query -> Queries] /\ stored'[q] = NoQuery
      /\ \A p \in Query : p # q => stored'[p] = stored[p]
  BY <1>1 DEF DraftsInv, QueryTypes
<1>5. /\ kept' \in [Query -> Nat]
      /\ \A p \in Query : p # q => kept'[p] = kept[p]
      /\ \A p \in Query : kept[p] # 0 => kept'[p] # 0
  BY <1>1 DEF DraftsInv, QueryTypes
<1>6. /\ \A x : x.of \in Query \cup {0} /\ Fits(x) => Fits(x)'
      /\ \A c \in asked : c # call => AskedOK(c)'
      /\ \A c \in served : ServedOK(c)'
      /\ \A x \in replies : ReplyOK(x)'
      /\ \A i \in DOMAIN queue : \A x : x = queue[i] => ReplyOK(x)'
  <2>1. UNCHANGED <<open, bound, opened, shown, crossed, queue>>
    BY <1>1
  <2> QED
    BY <1>1, <1>4, <1>5, <2>1, Others
<1>7. Saved' = Saved /\ Saved \subseteq Query
  BY DEF Saved
<1>8. EditorTypes' /\ TitleTypes' /\ QueryTypes' /\ WireTypes'
  BY <1>1, <1>3, <1>4, <1>5 DEF DraftsInv, EditorTypes, TitleTypes, QueryTypes,
                                WireTypes
<1>9. KeptInv'
  BY <1>1, <1>4 DEF DraftsInv, KeptInv, Known
<1>10. ReplyOK(r)'
  <2>1. Fits(r)'
    BY <1>1, <1>3 DEF Fits, Known, Binds
  <2> QED
    BY <1>1, <1>3, <1>4, <2>1 DEF ReplyOK
<1>11. WireInv'
  BY <1>1, <1>3, <1>6, <1>10 DEF WireInv
<1>12. LoneInv'
  <2>1. KeptInv /\ WireInv /\ LoneInv /\ r.op = call.op /\ r.of = call.of
    BY <1>1, <1>3 DEF DraftsInv
  <2> QED
    BY <1>1, <1>3, <2>1, Answered
<1>13. IdleInv'
  <2>1. \A p : Changing(p) => Changing(p)'
    BY <1>1, <1>3 DEF Changing
  <2>2. Changing(q)'
    BY <1>3 DEF Changing
  <2> QED
    BY <1>4, <1>7, <2>1, <2>2 DEF DraftsInv, IdleInv
<1>14. SavedIsKept'
  BY <1>1, <1>4, <1>7 DEF DraftsInv, SavedIsKept
<1>15. OneEditor' /\ EditorsFollow'
  BY <1>1, <1>7 DEF DraftsInv, OneEditor, EditorsFollow
<1> QED
  BY <1>8, <1>9, <1>11, <1>12, <1>13, <1>14, <1>15 DEF DraftsInv

\* Where only what is on its way changes, the rest is as it was.
LEMMA OnlyWire ==
  ASSUME DraftsInv, WireTypes', WireInv', LoneInv', IdleInv',
         UNCHANGED <<open, editors, stored, shown, version, crossed, kept>>
  PROVE  DraftsInv'
<1>1. EditorTypes' /\ TitleTypes' /\ QueryTypes'
  BY DEF editors, DraftsInv, EditorTypes, TitleTypes, QueryTypes
<1>2. KeptInv'
  BY DEF editors, DraftsInv, KeptInv, Known
<1>3. SavedIsKept' /\ OneEditor' /\ EditorsFollow'
  BY DEF editors, DraftsInv, SavedIsKept, OneEditor, EditorsFollow, Saved
<1> QED
  BY <1>1, <1>2, <1>3 DEF DraftsInv

\* What is refused leaves the host and the webview of one mind.
LEMMA RefusesKeeps ==
  ASSUME DraftsInv, NEW call \in asked, Refuses(call), asked' = asked \ {call},
         UNCHANGED <<open, editors, shown, version, crossed, queue>>
  PROVE  DraftsInv'
<1>1. /\ UNCHANGED <<open, bound, opened, stored, served, kept, shown, crossed, queue>>
      /\ call \in AskedCalls /\ AskedOK(call) /\ Fits(call)
      /\ NoQuery \in Queries /\ ~NoQuery.there
  BY DEF Refuses, editors, DraftsInv, WireTypes, AskedCalls, WireInv, AskedOK,
         NoQuery, Queries, Names
<1>2. PICK r : r = Reply(call, call.of, NoQuery)
  OBVIOUS
<1>3. /\ r.op = call.op /\ r.of = call.of /\ r.for = call.for /\ r.query = NoQuery
      /\ ~r.query.there /\ r \in Replies /\ replies' = replies \cup {r}
  BY <1>1, <1>2 DEF Refuses, Reply, AskedCalls, Replies
<1>4. \A x : Fits(x) => Fits(x)'
  BY <1>1 DEF Fits, Known, Binds, Saved
<1>5. WireTypes'
  BY <1>1, <1>3 DEF DraftsInv, WireTypes
<1>6. ReplyOK(r)'
  <2>1. Fits(r)
    BY <1>1, <1>3 DEF Fits, Known, Binds
  <2> QED
    BY <1>1, <1>3, <1>4, <2>1 DEF ReplyOK, AskedOK, Saved
<1>7. WireInv'
  BY <1>1, <1>3, <1>4, <1>6 DEF DraftsInv, WireInv, AskedOK, ServedOK, ReplyOK,
                                Saved
<1>8. LoneInv'
  <2>1. KeptInv /\ WireInv /\ LoneInv
    BY DEF DraftsInv
  <2> QED
    BY <1>1, <1>3, <2>1, Answered
<1>9. IdleInv'
  BY <1>1, <1>3 DEF DraftsInv, IdleInv, Changing, Saved
<1> QED
  BY <1>1, <1>5, <1>7, <1>8, <1>9, OnlyWire DEF Refuses

\* The answer of an update has what is stored.
LEMMA ReadsBackKeeps ==
  ASSUME DraftsInv, NEW call \in served, ReadsBack(call),
         UNCHANGED <<open, editors, shown, version, crossed>>
  PROVE  DraftsInv'
<1>1. /\ UNCHANGED <<open, bound, opened, stored, asked, kept, shown, crossed, queue>>
      /\ call \in AskedCalls /\ ServedOK(call) /\ Fits(call)
      /\ call.of # 0 /\ call.of \in Query /\ call.op # "delete" /\ stored[call.of] \in Queries
      /\ served' = served \ {call}
  BY DEF ReadsBack, editors, DraftsInv, WireTypes, AskedCalls, WireInv,
         ServedOK,
         QueryTypes
<1>2. PICK r : r = Reply(call, call.of, stored[call.of])
  OBVIOUS
<1>3. /\ r.op = call.op /\ r.of = call.of /\ r.for = call.for /\ r.query = stored[call.of]
      /\ r \in Replies /\ replies' = replies \cup {r}
  BY <1>1, <1>2 DEF ReadsBack, Reply, AskedCalls, Replies
<1>4. \A x : Fits(x) => Fits(x)'
  BY <1>1 DEF Fits, Known, Binds, Saved
<1>5. WireTypes'
  BY <1>1, <1>3 DEF DraftsInv, WireTypes
<1>6. ReplyOK(r)'
  <2>1. Fits(r)
    BY <1>1, <1>3 DEF Fits, Known, Binds
  <2> QED
    BY <1>1, <1>3, <1>4, <2>1 DEF ReplyOK, ServedOK, Saved
<1>7. WireInv'
  BY <1>1, <1>3, <1>4, <1>6 DEF DraftsInv, WireInv, AskedOK, ServedOK, ReplyOK,
                                Saved
<1>8. LoneInv'
  <2>1. \A x, y : Meet(x, y)' <=> Meet(x, y)
    BY <1>1 DEF Meet, Saved
  <2>2. \A x : (Meet(x, r) <=> Meet(x, call)) /\ (Meet(r, x) <=> Meet(call, x))
    BY <1>3 DEF Meet
  <2>3. \A x, y : Meet(x, y) => Meet(y, x)
    BY DEF Meet
  <2>4. /\ \A x \in asked \cup served' \cup replies : ~Meet(x, r) /\ ~Meet(r, x)
        /\ \A i \in DOMAIN queue : ~Meet(r, queue[i])
    BY <1>1, <2>2, <2>3 DEF DraftsInv, LoneInv
  <2> QED
    BY <1>1, <1>3, <2>1, <2>4 DEF DraftsInv, LoneInv
<1>9. IdleInv'
  BY <1>1, <1>3 DEF DraftsInv, IdleInv, Changing, Saved
<1> QED
  BY <1>1, <1>5, <1>7, <1>8, <1>9, OnlyWire DEF ReadsBack

\* An answer that is sent is the last to be handled.
LEMMA SendKeeps ==
  ASSUME DraftsInv,
         NEW r \in replies, replies' = replies \ {r}, queue' = Append(queue, r),
         UNCHANGED <<stored, asked, served, kept, open, editors, shown, version, crossed>>
  PROVE  DraftsInv'
<1>1. /\ UNCHANGED <<open, bound, opened, stored, kept, shown, crossed>>
      /\ r \in Replies /\ queue \in Seq(Replies) /\ ReplyOK(r)
  BY DEF editors, DraftsInv, WireTypes, WireInv
<1>2. /\ queue' \in Seq(Replies)
      /\ DOMAIN queue' = DOMAIN queue \cup {Len(queue) + 1} /\ Len(queue) + 1 \notin DOMAIN queue
      /\ queue'[Len(queue) + 1] = r /\ \A i \in DOMAIN queue : queue'[i] = queue[i]
  BY <1>1
<1>3. \A x : Fits(x) => Fits(x)'
  BY <1>1 DEF Fits, Known, Binds, Saved
<1>4. WireTypes'
  BY <1>2 DEF DraftsInv, WireTypes
<1>5. WireInv'
  <2>1. \A x : ReplyOK(x) => ReplyOK(x)'
    BY <1>1, <1>3 DEF ReplyOK, Saved
  <2>2. \A i \in DOMAIN queue' : \A x : x = queue'[i] => ReplyOK(x)'
    BY <1>1, <1>2, <2>1 DEF DraftsInv, WireInv
  <2>3. (\A i \in DOMAIN queue : ReplyOK(queue[i]))'
    BY <2>2
  <2>4. /\ \A c \in asked' : AskedOK(c)'
        /\ \A c \in served' : ServedOK(c)'
        /\ \A x \in replies' : ReplyOK(x)'
    BY <1>1, <1>3, <2>1 DEF DraftsInv, WireInv, AskedOK, ServedOK, Saved
  <2> QED
    BY <2>3, <2>4 DEF WireInv
<1>6. LoneInv'
  <2>1. \A x, y : Meet(x, y)' <=> Meet(x, y)
    BY <1>1 DEF Meet, Saved
  <2>2. \A x, y : Meet(x, y) => Meet(y, x)
    BY DEF Meet
  <2>3. \A x \in replies' : ~Meet(x, r)
    BY DEF DraftsInv, LoneInv
  <2>4. \A c \in asked \cup served : ~Meet(c, r)
    BY DEF DraftsInv, LoneInv
  <2>5. \A i \in DOMAIN queue : ~Meet(r, queue[i]) /\ ~Meet(queue[i], r)
    BY <2>2 DEF DraftsInv, LoneInv
  <2>6. \A i, j \in DOMAIN queue' : Meet(queue'[i], queue'[j]) => i = j
    BY <1>2, <2>5 DEF DraftsInv, LoneInv
  <2>7. \A x \in asked \cup served \cup replies', i \in DOMAIN queue' : ~Meet(x, queue'[i])
    BY <1>2, <2>3, <2>4 DEF DraftsInv, LoneInv
  <2> QED
    BY <2>1, <2>6, <2>7 DEF DraftsInv, LoneInv
<1>7. IdleInv'
  <2>1. \A p : Changing(p) => Changing(p)'
    <3> SUFFICES ASSUME NEW p, Changing(p) PROVE Changing(p)'
      OBVIOUS
    <3>1. CASE \E c \in served : c.of = p
      BY <3>1 DEF Changing
    <3>2. CASE \E x \in replies : x.of = p
      BY <1>2, <3>2 DEF Changing
    <3>3. CASE \E i \in DOMAIN queue : queue[i].of = p
      BY <1>2, <3>3 DEF Changing
    <3> QED
      BY <3>1, <3>2, <3>3 DEF Changing
  <2> QED
    BY <1>1, <2>1 DEF DraftsInv, IdleInv, Saved
<1> QED
  BY <1>4, <1>5, <1>6, <1>7, OnlyWire

\* Every step of the host preserves the invariant.
LEMMA HostKeeps ==
  ASSUME DraftsInv, QueryHost
  PROVE  DraftsInv'
<1>1. ASSUME NEW call \in asked, Stores(call), asked' = asked \ {call}, UNCHANGED queue,
             UNCHANGED <<open, editors, shown, version, crossed>>
      PROVE  DraftsInv'
  <2>1. PICK q \in Query :
          /\ Accepted(call, q)
          /\ stored' = [stored EXCEPT ![q] = SavedQuery(call.name, call.sql)]
          /\ kept' = IF call.op = "save" THEN [kept EXCEPT ![q] = call.sql] ELSE kept
          /\ IF call.of = 0
             THEN replies' = replies \cup {Reply(call, q, stored'[q])} /\ UNCHANGED served
             ELSE served' = served \cup {call} /\ UNCHANGED replies
    BY <1>1 DEF Stores
  <2>2. CASE call.of = 0
    <3>1. call.op = "save" /\ stored'[q] = SavedQuery(call.name, call.sql)
      BY <2>1, <2>2 DEF DraftsInv, WireInv, AskedOK, QueryTypes
    <3>2. PICK r : r = Reply(call, q, SavedQuery(call.name, call.sql))
      OBVIOUS
    <3>3. /\ replies' = replies \cup {r} /\ kept' = [kept EXCEPT ![q] = call.sql]
          /\ UNCHANGED <<open, editors, shown, version, crossed, served, queue>>
      BY <1>1, <2>1, <2>2, <3>1, <3>2
    <3> QED
      BY <1>1, <2>1, <2>2, <3>2, <3>3, CreateKeeps
  <2>3. CASE call.of # 0
    <3>1. /\ call.of = q /\ served' = served \cup {call}
          /\ UNCHANGED <<open, editors, shown, version, crossed, replies, queue>>
      BY <1>1, <2>1, <2>3 DEF Accepted
    <3> QED
      BY <1>1, <2>1, <3>1, UpdateKeeps
  <2> QED
    BY <2>2, <2>3
<1>2. ASSUME NEW call \in asked, Deletes(call) \/ Refuses(call), asked' = asked \ {call},
             UNCHANGED queue, UNCHANGED <<open, editors, shown, version, crossed>>
      PROVE  DraftsInv'
  <2>1. UNCHANGED <<open, editors, shown, version, crossed, queue>>
    BY <1>2
  <2>2. CASE Deletes(call)
    <3>1. PICK q : q = call.of
      OBVIOUS
    <3> QED
      BY <1>2, <2>1, <2>2, <3>1, DeletesKeeps
  <2>3. CASE Refuses(call)
    BY <1>2, <2>1, <2>3, RefusesKeeps
  <2> QED
    BY <1>2, <2>2, <2>3
<1>3. ASSUME NEW call \in served, ReadsBack(call),
             UNCHANGED <<open, editors, shown, version, crossed>>
      PROVE  DraftsInv'
  BY <1>3, ReadsBackKeeps
<1>4. ASSUME NEW r \in replies, replies' = replies \ {r}, queue' = Append(queue, r),
             UNCHANGED <<stored, asked, served, kept>>,
             UNCHANGED <<open, editors, shown, version, crossed>>
      PROVE  DraftsInv'
  <2>1. UNCHANGED <<stored, asked, served, kept, open, editors, shown, version, crossed>>
    BY <1>4
  <2> QED
    BY <1>4, <2>1, SendKeeps
<1> QED
  BY <1>1, <1>2, <1>3, <1>4 DEF QueryHost

-------------------------------------------------------------------------------
(* Answers                                                                   *)

\* What is on its way beside the answer that is handled is of other queries.
LEMMA HeadApart ==
  ASSUME DraftsInv, queue # <<>>, NEW r, r = Head(queue), queue' = Tail(queue),
         UNCHANGED <<asked, served, replies, crossed>>
  PROVE  /\ ReplyOK(r) /\ Fits(r) /\ r \in Replies
         /\ WireTypes' /\ LoneInv'
         /\ \A x \in asked \cup served \cup replies : ~Meet(x, r)
         /\ \A i \in DOMAIN queue' : /\ ~Meet(queue'[i], r)
                                     /\ ReplyOK(queue'[i])
         /\ \A p : p # r.of /\ Changing(p) => Changing(p)'
<1>1. queue \in Seq(Replies)
  BY DEF DraftsInv, WireTypes
<1>2. /\ queue' \in Seq(Replies) /\ r = queue[1] /\ 1 \in DOMAIN queue
      /\ \A i \in DOMAIN queue' : i + 1 \in DOMAIN queue /\ i + 1 # 1 /\ queue'[i] = queue[i + 1]
      /\ \A i \in DOMAIN queue : i # 1 => i - 1 \in DOMAIN queue' /\ queue'[i - 1] = queue[i]
      /\ \A i, j \in DOMAIN queue' : i + 1 = j + 1 => i = j
  BY <1>1
<1>3. ReplyOK(r) /\ r \in Replies /\ \A i \in DOMAIN queue' : ReplyOK(queue'[i])
  BY <1>1, <1>2 DEF DraftsInv, WireInv
<1>4. /\ \A i \in DOMAIN queue' : ~Meet(queue'[i], r)
      /\ \A x \in asked \cup served \cup replies : ~Meet(x, r)
  BY <1>2 DEF DraftsInv, LoneInv
<1>5. LoneInv'
  <2>1. \A x, y : Meet(x, y)' <=> Meet(x, y)
    BY DEF Meet, Saved
  <2>2. \A i, j \in DOMAIN queue' : Meet(queue'[i], queue'[j]) => i = j
    BY <1>2 DEF DraftsInv, LoneInv
  <2>3. \A x \in asked \cup served \cup replies, i \in DOMAIN queue' : ~Meet(x, queue'[i])
    BY <1>2 DEF DraftsInv, LoneInv
  <2> QED
    BY <2>1, <2>2, <2>3 DEF DraftsInv, LoneInv
<1>6. \A p : p # r.of /\ Changing(p) => Changing(p)'
  <2> SUFFICES ASSUME NEW p, p # r.of, Changing(p) PROVE Changing(p)'
    OBVIOUS
  <2>1. CASE (\E c \in served : c.of = p) \/ \E x \in replies : x.of = p
    BY <2>1 DEF Changing
  <2>2. ASSUME NEW i \in DOMAIN queue, queue[i].of = p
        PROVE  Changing(p)'
    <3>1. i - 1 \in DOMAIN queue' /\ queue'[i - 1].of = p
      BY <1>2, <2>2
    <3> QED
      BY <3>1 DEF Changing
  <2> QED
    BY <2>1, <2>2 DEF Changing
<1> QED
  BY <1>2, <1>3, <1>4, <1>5, <1>6 DEF DraftsInv, WireTypes, ReplyOK

\* They stay as they are where only the query of the answer is shown anew.
LEMMA BesideHead ==
  ASSUME DraftsInv, NEW r, ReplyOK(r), r.of # 0,
         \A x : Fits(x) /\ ~Meet(x, r) => Fits(x)',
         \A p \in Query : p # r.of => shown'[p] = shown[p],
         \A x \in asked \cup served \cup replies : ~Meet(x, r),
         \A i \in DOMAIN queue' : ~Meet(queue'[i], r) /\ ReplyOK(queue'[i]),
         UNCHANGED <<asked, served, replies, crossed, stored>>
  PROVE  WireInv'
<1>1. Saved' = Saved /\ Saved \subseteq Query
  BY DEF Saved
<1>2. \A x : ~Meet(x, r) /\ x.of \in Saved => x.of # r.of
  BY DEF Meet
<1>3. \A c \in asked : AskedOK(c)'
  <2> SUFFICES ASSUME NEW c \in asked PROVE AskedOK(c)'
    OBVIOUS
  <2>1. AskedOK(c) /\ Fits(c)' /\ (c.of \in Saved => c.of # r.of)
    BY <1>2 DEF DraftsInv, WireInv, AskedOK
  <2> QED
    BY <1>1, <2>1 DEF AskedOK
<1>4. \A c \in served : ServedOK(c)'
  <2> SUFFICES ASSUME NEW c \in served PROVE ServedOK(c)'
    OBVIOUS
  <2>1. ServedOK(c) /\ Fits(c)' /\ (c.of \in Saved => c.of # r.of)
    BY <1>2 DEF DraftsInv, WireInv, ServedOK
  <2> QED
    BY <1>1, <2>1 DEF ServedOK
<1>5. \A x : ReplyOK(x) /\ ~Meet(x, r) => ReplyOK(x)'
  <2> SUFFICES ASSUME NEW x, ReplyOK(x), ~Meet(x, r) PROVE ReplyOK(x)'
    OBVIOUS
  <2>1. Fits(x)' /\ (x.of \in Saved => x.of # r.of)
    BY <1>2 DEF ReplyOK
  <2> QED
    BY <1>1, <2>1 DEF ReplyOK
<1>6. \A x \in replies : ReplyOK(x)'
  BY <1>5 DEF DraftsInv, WireInv
<1>7. \A i \in DOMAIN queue' : \A x : x = queue'[i] => ReplyOK(x)'
  BY <1>5
<1>8. (\A i \in DOMAIN queue : ReplyOK(queue[i]))'
  BY <1>7
<1> QED
  BY <1>3, <1>4, <1>6, <1>8 DEF WireInv

\* The document of a save takes the query, which no other has.
LEMMA SaveHandledKeeps ==
  ASSUME DraftsInv, queue # <<>>,
         NEW r, r = Head(queue), queue' = Tail(queue), r.query.there,
         SaveHandled(r),
         UNCHANGED <<open, text, opened, captured, stored, asked, served, replies, version,
                     crossed, kept>>
  PROVE  DraftsInv'
<1> DEFINE q == r.of
           binds == r.for \in open
<1>1. /\ ReplyOK(r) /\ Fits(r) /\ r \in Replies
      /\ WireTypes' /\ LoneInv'
      /\ \A x \in asked \cup served \cup replies : ~Meet(x, r)
      /\ \A i \in DOMAIN queue' : ~Meet(queue'[i], r) /\ ReplyOK(queue'[i])
      /\ \A p : p # r.of /\ Changing(p) => Changing(p)'
  <2>1. UNCHANGED <<asked, served, replies, crossed>>
    OBVIOUS
  <2> QED
    BY <2>1, HeadApart
<1>2. /\ q # 0 /\ q \in Query /\ kept[q] # 0 /\ r.query \in Queries /\ r.query.name \in Names
      /\ r.op # "delete" /\ (binds => r.op = "save") /\ 0 \notin Query /\ 0 \notin open
  <2>1. 0 \notin open /\ 0 \notin Query
    BY DEF DraftsInv, TitleTypes, Document, Query
  <2>2. q # 0 /\ q \in Query /\ kept[q] # 0 /\ r.query \in Queries
    BY <1>1 DEF ReplyOK, Fits, Known, Replies
  <2> QED
    BY <1>1, <2>1, <2>2 DEF SaveHandled, Fits, Queries
<1>3. /\ shown' \in [Query -> Queries] /\ shown'[q] = r.query
      /\ \A p \in Query : p # q => shown'[p] = shown[p]
  BY <1>2 DEF DraftsInv, QueryTypes, SaveHandled, UpsertSavedQuery
<1>4. /\ bound' \in [Document -> Query \cup {0}]
      /\ \A d \in Document : IF binds /\ d = r.for THEN bound'[d] = q ELSE bound'[d] = bound[d]
  BY <1>2 DEF DraftsInv, TitleTypes, SaveHandled
<1>5. /\ title' \in [Document -> Names]
      /\ \A d \in Document :
           /\ binds /\ d = r.for => title'[d] = r.query.name
           /\ bound[d] = q /\ shown[q].there => title'[d] = r.query.name
           /\ bound[d] # q /\ ~(binds /\ d = r.for) => title'[d] = title[d]
  BY <1>2 DEF DraftsInv, TitleTypes, SaveHandled, Retitled
<1>6. EditorTypes' /\ TitleTypes' /\ QueryTypes'
  BY <1>3, <1>4, <1>5 DEF DraftsInv, EditorTypes, TitleTypes, QueryTypes
<1>7. KeptInv'
  <2>1. \A p \in Query : stored[p].there \/ shown'[p].there => kept[p] # 0
    BY <1>2, <1>3 DEF DraftsInv, KeptInv
  <2>2. \A d \in Document : bound'[d] # 0 => kept[bound'[d]] # 0
    BY <1>2, <1>4 DEF DraftsInv, KeptInv, Known
  <2> QED
    BY <2>1, <2>2 DEF DraftsInv, KeptInv, Known
<1>8. Saved' = Saved /\ Saved \subseteq Query
  BY DEF Saved
<1>9. \A x : Fits(x) /\ ~Meet(x, r) => Fits(x)'
  <2> SUFFICES ASSUME NEW x, Fits(x), ~Meet(x, r) PROVE Fits(x)'
    OBVIOUS
  <2>1. Binds(x)'
    <3> SUFFICES ASSUME x.op = "save", x.of \in Saved, x.for \in open, shown'[x.of].there
                 PROVE  bound'[x.for] = x.of
      BY <1>8 DEF Binds
    <3>1. r.op # "save" /\ x.of # q
      BY <1>8 DEF Meet
    <3>2. shown[x.of].there /\ bound'[x.for] = bound[x.for]
      BY <1>2, <1>3, <1>4, <1>8, <3>1 DEF DraftsInv, TitleTypes
    <3> QED
      BY <3>2 DEF Fits, Binds
  <2> QED
    BY <2>1 DEF Fits, Known
<1>10. WireInv'
  <2>1. UNCHANGED <<asked, served, replies, crossed, stored>>
    OBVIOUS
  <2> QED
    BY <1>1, <1>2, <1>3, <1>9, <2>1, BesideHead
<1>11. IdleInv'
  <2>1. q \in Saved => shown'[q] = stored[q]
    BY <1>1, <1>2, <1>3 DEF ReplyOK
  <2> QED
    BY <1>1, <1>3, <1>8, <2>1 DEF DraftsInv, IdleInv
<1>12. SavedIsKept'
  BY <1>8 DEF DraftsInv, SavedIsKept
<1>13. OneEditor'
  <2> SUFFICES ASSUME NEW d \in open, NEW e \in open, bound'[d] = bound'[e], bound'[d] \in Saved
               PROVE  d = e
    BY <1>8 DEF OneEditor
  <2>1. d \in Document /\ e \in Document
    BY DEF DraftsInv, TitleTypes
  <2>2. binds /\ q \in Saved => \A f \in open : bound[f] = q => f = r.for
    <3> SUFFICES ASSUME binds, q \in Saved, NEW f \in open, bound[f] = q PROVE f = r.for
      OBVIOUS
    <3>1. shown[q].there
      BY DEF DraftsInv, EditorsFollow
    <3>2. bound[r.for] = q
      BY <1>1, <1>2, <3>1 DEF Fits, Binds
    <3> QED
      BY <3>2 DEF DraftsInv, OneEditor
  <2>3. CASE binds /\ (d = r.for \/ e = r.for)
    BY <1>4, <2>1, <2>2, <2>3
  <2>4. CASE ~(binds /\ (d = r.for \/ e = r.for))
    BY <1>4, <2>1, <2>4 DEF DraftsInv, OneEditor
  <2> QED
    BY <2>3, <2>4
<1>14. EditorsFollow'
  <2> SUFFICES ASSUME NEW d \in open, bound'[d] \in Saved
               PROVE  shown'[bound'[d]].there /\ title'[d] = shown'[bound'[d]].name
    BY <1>8 DEF EditorsFollow
  <2>1. d \in Document
    BY DEF DraftsInv, TitleTypes
  <2>2. CASE binds /\ d = r.for
    BY <1>3, <1>4, <1>5, <2>1, <2>2
  <2>3. CASE ~(binds /\ d = r.for)
    <3>1. bound'[d] = bound[d] /\ shown[bound[d]].there /\ title[d] = shown[bound[d]].name
      BY <1>4, <2>1, <2>3 DEF DraftsInv, EditorsFollow
    <3>2. CASE bound[d] = q
      BY <1>3, <1>5, <2>1, <3>1, <3>2
    <3>3. CASE bound[d] # q
      BY <1>3, <1>5, <1>8, <2>1, <2>3, <3>1, <3>3
    <3> QED
      BY <3>2, <3>3
  <2> QED
    BY <2>2, <2>3
<1> QED
  BY <1>1, <1>6, <1>7, <1>10, <1>11, <1>12, <1>13, <1>14 DEF DraftsInv

\* The documents of a query let go of it when it is deleted.
LEMMA DeleteHandledKeeps ==
  ASSUME DraftsInv, queue # <<>>,
         NEW r, r = Head(queue), queue' = Tail(queue), r.query.there,
         DeleteHandled(r),
         UNCHANGED <<open, text, opened, captured, stored, asked, served, replies, version,
                     crossed, kept>>
  PROVE  DraftsInv'
<1> DEFINE q == r.of
<1>1. /\ ReplyOK(r) /\ Fits(r) /\ r \in Replies
      /\ WireTypes' /\ LoneInv'
      /\ \A x \in asked \cup served \cup replies : ~Meet(x, r)
      /\ \A i \in DOMAIN queue' : ~Meet(queue'[i], r) /\ ReplyOK(queue'[i])
      /\ \A p : p # r.of /\ Changing(p) => Changing(p)'
  <2>1. UNCHANGED <<asked, served, replies, crossed>>
    OBVIOUS
  <2> QED
    BY <2>1, HeadApart
<1>2. /\ q # 0 /\ q \in Query /\ r.op = "delete" /\ title' = title
      /\ 0 \notin Query /\ NoQuery \in Queries /\ ~NoQuery.there
  BY <1>1 DEF ReplyOK, Replies, DeleteHandled, Query, NoQuery, Queries, Names
<1>3. /\ shown' \in [Query -> Queries] /\ shown'[q] = NoQuery
      /\ \A p \in Query : p # q => shown'[p] = shown[p]
  BY <1>2 DEF DraftsInv, QueryTypes, DeleteHandled
<1>4. /\ bound' \in [Document -> Query \cup {0}]
      /\ \A d \in Document : IF bound[d] = q THEN bound'[d] = 0 ELSE bound'[d] = bound[d]
  BY <1>2 DEF DraftsInv, TitleTypes, DeleteHandled, Unbind
<1>5. EditorTypes' /\ TitleTypes' /\ QueryTypes'
  BY <1>2, <1>3, <1>4 DEF DraftsInv, EditorTypes, TitleTypes, QueryTypes
<1>6. KeptInv'
  <2>1. \A p \in Query : stored[p].there \/ shown'[p].there => kept[p] # 0
    BY <1>2, <1>3 DEF DraftsInv, KeptInv
  <2>2. \A d \in Document : bound'[d] # 0 => kept[bound'[d]] # 0
    BY <1>2, <1>4 DEF DraftsInv, KeptInv, Known
  <2> QED
    BY <2>1, <2>2 DEF DraftsInv, KeptInv, Known
<1>7. Saved' = Saved /\ Saved \subseteq Query
  BY DEF Saved
<1>8. \A x : Fits(x) /\ ~Meet(x, r) => Fits(x)'
  <2> SUFFICES ASSUME NEW x, Fits(x), ~Meet(x, r) PROVE Fits(x)'
    OBVIOUS
  <2>1. Binds(x)'
    <3> SUFFICES ASSUME x.op = "save", x.of \in Saved, x.for \in open, shown'[x.of].there
                 PROVE  bound'[x.for] = x.of
      BY <1>7 DEF Binds
    <3>1. x.of # q
      BY <1>2, <1>3
    <3>2. bound[x.for] = x.of
      BY <1>3, <1>7, <3>1 DEF Fits, Binds
    <3> QED
      BY <1>4, <3>1, <3>2 DEF DraftsInv, TitleTypes
  <2> QED
    BY <2>1 DEF Fits, Known
<1>9. WireInv'
  <2>1. UNCHANGED <<asked, served, replies, crossed, stored>>
    OBVIOUS
  <2> QED
    BY <1>1, <1>2, <1>3, <1>8, <2>1, BesideHead
<1>10. IdleInv'
  <2>1. q \in Saved => shown'[q] = stored[q]
    BY <1>1, <1>2, <1>3 DEF ReplyOK
  <2> QED
    BY <1>1, <1>3, <1>7, <2>1 DEF DraftsInv, IdleInv
<1>11. SavedIsKept'
  BY <1>7 DEF DraftsInv, SavedIsKept
<1>12. \A d \in open : bound'[d] \in Saved =>
         d \in Document /\ bound'[d] = bound[d] /\ bound[d] # q
  BY <1>2, <1>4, <1>7 DEF DraftsInv, TitleTypes
<1>13. OneEditor'
  BY <1>7, <1>12 DEF DraftsInv, OneEditor
<1>14. EditorsFollow'
  BY <1>2, <1>3, <1>7, <1>12 DEF DraftsInv, EditorsFollow
<1> QED
  BY <1>1, <1>5, <1>6, <1>9, <1>10, <1>11, <1>13, <1>14 DEF DraftsInv

\* Every answer preserves the invariant.
LEMMA HandleKeeps ==
  ASSUME DraftsInv, HandleReply
  PROVE  DraftsInv'
<1>1. PICK r : r = Head(queue)
  OBVIOUS
<1>2. /\ queue # <<>> /\ queue' = Tail(queue)
      /\ UNCHANGED <<open, text, opened, captured, stored, asked, served, replies, version,
                     crossed, kept>>
      /\ IF ~r.query.there THEN UNCHANGED <<shown, title, bound>>
         ELSE SaveHandled(r) \/ DeleteHandled(r)
  BY <1>1 DEF HandleReply
<1>3. CASE ~r.query.there
  <2>1. /\ ReplyOK(r)
        /\ WireTypes' /\ LoneInv'
        /\ \A i \in DOMAIN queue' : ReplyOK(queue'[i])
        /\ \A p : p # r.of /\ Changing(p) => Changing(p)'
    <3>1. UNCHANGED <<asked, served, replies, crossed>>
      BY <1>2
    <3> QED
      BY <1>1, <1>2, <3>1, HeadApart
  <2>2. UNCHANGED <<open, editors, stored, shown, version, crossed, kept>>
    BY <1>2, <1>3 DEF editors
  <2>3. WireInv'
    <3>1. \A x : Fits(x) => Fits(x)'
      BY <1>2, <1>3 DEF Fits, Known, Binds, Saved
    <3>2. \A x : ReplyOK(x) => ReplyOK(x)'
      BY <1>2, <1>3, <3>1 DEF ReplyOK, Saved
    <3>3. \A i \in DOMAIN queue' : \A x : x = queue'[i] => ReplyOK(x)'
      BY <2>1, <3>2
    <3>4. (\A i \in DOMAIN queue : ReplyOK(queue[i]))'
      BY <3>3
    <3>5. /\ \A c \in asked' : AskedOK(c)'
          /\ \A c \in served' : ServedOK(c)'
          /\ \A x \in replies' : ReplyOK(x)'
      BY <1>2, <1>3, <3>1, <3>2 DEF DraftsInv, WireInv, AskedOK, ServedOK, Saved
    <3> QED
      BY <3>4, <3>5 DEF WireInv
  <2>4. IdleInv'
    <3>1. r.of \in Saved => shown[r.of] = stored[r.of]
      BY <1>3, <2>1 DEF ReplyOK
    <3> QED
      BY <1>2, <1>3, <2>1, <3>1 DEF DraftsInv, IdleInv, Saved
  <2> QED
    BY <2>1, <2>2, <2>3, <2>4, OnlyWire
<1>4. CASE r.query.there /\ SaveHandled(r)
  BY <1>1, <1>2, <1>4, SaveHandledKeeps
<1>5. CASE r.query.there /\ DeleteHandled(r)
  BY <1>1, <1>2, <1>5, DeleteHandledKeeps
<1> QED
  BY <1>2, <1>3, <1>4, <1>5

-------------------------------------------------------------------------------
(* The theorem                                                               *)

\* It holds before anything is opened or saved.
LEMMA DraftsInitially == DocumentsInit => DraftsInv
<1> SUFFICES ASSUME DocumentsInit PROVE DraftsInv
  OBVIOUS
<1>1. /\ open = 1 .. opened /\ opened \in Nat /\ opened <= MaxDocuments /\ MaxDocuments \in Nat
  BY SourcesAssumption DEF DocumentsInit, SourcesInit, DraftsInit
<1>2. /\ text = [d \in Document |-> 0] /\ title = [d \in Document |-> "untitled"]
      /\ bound = [d \in Document |-> 0] /\ captured = [d \in Document |-> -1]
      /\ stored = [q \in Query |-> NoQuery] /\ shown = [q \in Query |-> NoQuery]
      /\ asked = {} /\ served = {} /\ replies = {} /\ queue = <<>>
      /\ version = 0 /\ crossed = {} /\ kept = [q \in Query |-> 0]
  BY DEF DocumentsInit, DraftsInit
<1>3. NoQuery \in Queries /\ ~NoQuery.there
  BY DEF NoQuery, Queries, Names
<1>4. EditorTypes /\ TitleTypes /\ QueryTypes /\ WireTypes
  BY <1>1, <1>2, <1>3 DEF EditorTypes, TitleTypes, QueryTypes, WireTypes, Names,
                          Document
<1>5. KeptInv
  <2>1. \A q \in Query : kept[q] # 0 <=> q <= 0
    BY <1>2 DEF Query
  <2>2. 0 \in 0 .. MaxQueries
    BY DraftsAssumption
  <2> QED
    BY <1>2, <1>3, <2>1, <2>2 DEF KeptInv, Known
<1>6. WireInv /\ LoneInv /\ IdleInv
  BY <1>2 DEF WireInv, LoneInv, IdleInv, Saved
<1>7. SavedIsKept /\ OneEditor /\ EditorsFollow
  <2>1. Saved \subseteq Query /\ 0 \notin Query
    BY DEF Saved, Query
  <2>2. \A d \in open : bound[d] = 0
    BY <1>1, <1>2 DEF Document
  <2> QED
    BY <1>2, <1>3, <2>1, <2>2 DEF SavedIsKept, OneEditor, EditorsFollow
<1> QED
  BY <1>4, <1>5, <1>6, <1>7 DEF DraftsInv

\* Every step preserves it, those of Sources because they only close documents.
LEMMA DraftsKeep == DraftsInv /\ [DocumentsNext]_documentVars => DraftsInv'
<1> SUFFICES ASSUME DraftsInv, [DocumentsNext]_documentVars PROVE DraftsInv'
  OBVIOUS
<1>1. CASE DraftSteps
  <2>1. CASE Draft \/ NewDraft
    BY <2>1, NewKeeps
  <2>2. CASE QueryHost
    BY <2>2, HostKeeps
  <2>3. CASE HandleReply
    BY <2>3, HandleKeeps
  <2>4. CASE \E d \in Document : Type(d) \/ Format(d) \/ Formatted(d)
    BY <2>4, TextsKeep
  <2>5. ASSUME NEW name \in QueryName,
               \/ \E d \in Document : SaveQuery(d, name)
               \/ \E q \in Query : RenameSavedQuery(q, name)
        PROVE  DraftsInv'
    BY <2>5, UserAsksKeeps
  <2>6. ASSUME NEW q \in Query, LoadSavedQuery(q)
        PROVE  DraftsInv'
    BY <2>6, LoadKeeps
  <2>7. ASSUME NEW q \in Query, DeleteSavedQuery(q)
        PROVE  DraftsInv'
    BY <2>7, DeleteKeeps
  <2> QED
    BY <1>1, <2>1, <2>2, <2>3, <2>4, <2>5, <2>6, <2>7 DEF DraftSteps
<1>2. CASE open' \subseteq open /\ UNCHANGED draftVars
  <2>1. /\ EditorTypes'
        /\ UNCHANGED <<title, bound, opened, stored, shown, kept, crossed, asked, served,
                       replies, queue>>
    BY <1>2 DEF draftVars, editors, queryWire, DraftsInv, EditorTypes
  <2> QED
    BY <1>2, <2>1, Closes
<1>3. CASE UNCHANGED documentVars
  BY <1>2, <1>3 DEF documentVars, sourceVars, shownVars
<1>4. CASE SourcesNext /\ UNCHANGED draftVars
  BY <1>2, <1>4, SourcesClose
<1> QED
  BY <1>1, <1>3, <1>4 DEF DocumentsNext, DraftsNext

\* The invariant of the saved queries holds in every state.
THEOREM DraftsInductive == DocumentsSpec => []DraftsInv
<1> QED
  BY DraftsInitially, DraftsKeep, PTL DEF DocumentsSpec

\* The saved queries and the documents they are open in stay of one mind: what
\* is saved last is what is kept, a query has one editor, which has its name,
\* and the webview shows the queries of the host once all calls are answered.
THEOREM QueriesAgreed == DocumentsSpec => []QueriesAgree
<1>1. DraftsInv => QueriesAgree
  BY DEF DraftsInv, QueriesAgree, IdleInv, Changing, NothingAsked
<1> QED
  BY <1>1, DraftsInductive, PTL

-------------------------------------------------------------------------------
(* The sources of the project                                                *)

Ops == {"import", "snapshot", "query", "save", "close", "discard", "remove", "rename",
        "cancel", "failed import", "preview", "job", "ready", "failed", "result"}
JobStates == {"none", "queued", "running"} \cup Final
Statuses == {"absent", "preparing", "ready", "failed", "cancelled"}
CallSet == [op : Ops, of : Source \cup {0}, for : Document \cup Source \cup {0}]
MessageSet == [op : Ops, of : Source \cup {0},
               state : JobStates \cup {"preparing", "ready", "data", "gone"},
               for : Document \cup Source \cup {0}]

HostTypes ==
  /\ table \in [Source -> {"none", "result", "data", "gone"}]
  /\ kind \in [Source -> {"none", "import", "snapshot", "query"}]
  /\ job \in [Source -> JobStates]
ShownTypes ==
  /\ sources \in [Source -> [status : Statuses, ephemeral : BOOLEAN]]
  /\ jobs \in [Source -> JobStates]
  /\ attached \in [Document -> Source \cup {0}] /\ astray \subseteq removed
SentTypes == calls \subseteq CallSet /\ answers \subseteq MessageSet /\ inbox \in Seq(MessageSet)

(* What is on its way to the webview for a source.                           *)
Due(op, s) == \/ \E m \in answers : m.op = op /\ m.of = s
              \/ \E i \in DOMAIN inbox : inbox[i].op = op /\ inbox[i].of = s
FailureDue(s) == \/ Due("failed import", s)
                 \/ \E i \in DOMAIN inbox : /\ inbox[i].op = "failed" /\ inbox[i].of = s
                                            /\ inbox[i].state = "failed"
EndDue(s) == Due("close", s) \/ Due("remove", s) \/ Due("discard", s)

Going(s) == <<s, "going">> \in committed
Done(s) == <<s, "done">> \in committed
Result == Shown("ready", TRUE)
Data == Shown("ready", FALSE)

(* Sources are made in order, and nothing is known of those to come.         *)
Unknown(s) ==
  /\ table[s] = "none" /\ job[s] = "none" /\ ~Going(s) /\ ~Done(s)
  /\ sources[s] = Absent /\ jobs[s] = "none" /\ s \notin removed
  /\ \A op \in Ops : ~Due(op, s)
  /\ \A c \in calls : c.of # s
Numbered == \E n \in 0 .. MaxSources : \A s \in Source : kind[s] # "none" <=> s <= n
MadeInv == /\ Numbered
           /\ \A s \in Source : kind[s] = "none" => Unknown(s)

(* A job commits once, before it ends.                                       *)
HostOK(s) ==
  /\ job[s] \in {"none", "queued"} => ~Going(s) /\ ~Done(s)
  /\ job[s] = "queued" => table[s] = "none"
  /\ Going(s) => table[s] = "none" /\ ~Done(s)
  /\ Done(s) => table[s] \in {"data", "gone"}
  /\ kind[s] = "query" => job[s] = "none" /\ table[s] # "none"
  /\ table[s] = "result" => kind[s] = "query"

(* An import that failed left nothing and will not.                          *)
Dead(s) == kind[s] = "import" /\ table[s] = "none" /\ job[s] # "queued" /\ ~Going(s) /\ ~Done(s)

SentOK(s) ==
  /\ Due("job", s) \/ Due("failed", s) \/ Due("snapshot", s) \/ Due("cancel", s) => job[s] # "none"
  /\ Due("ready", s) => kind[s] # "query" /\ table[s] \in {"data", "gone"}
  /\ Due("preview", s) \/ Due("import", s) \/ Due("failed import", s) => kind[s] = "import"
  /\ kind[s] = "import" /\ FailureDue(s) => Dead(s)
  /\ Due("save", s) => kind[s] = "query" /\ table[s] \in {"data", "gone"}
  /\ Due("rename", s) => table[s] \in {"data", "gone"}
  /\ EndDue(s) => table[s] = "gone"
  /\ Due("result", s) => /\ kind[s] = "query" /\ table[s] = "result" /\ Due("query", s)
                         /\ sources[s] = Absent
  /\ Due("query", s) => /\ kind[s] = "query" /\ s \notin removed
                        /\ Due("result", s) \/ sources[s] = Result
  /\ Due("discard", s) => kind[s] = "query" /\ sources[s] = Result

ShownOK(s) ==
  /\ sources[s].status = "ready" => table[s] # "none"
  /\ sources[s].status = "failed" => Dead(s)
  /\ sources[s].status \in {"failed", "cancelled", "preparing"} => kind[s] = "import"
  /\ sources[s].ephemeral => kind[s] = "query"
  /\ kind[s] = "query" => sources[s] \in {Absent, Result, Data}
  /\ s \in removed \ astray => sources[s] = Absent
  /\ table[s] = "result" => s \notin removed /\ (Due("result", s) \/ sources[s] = Result)
  /\ table[s] = "data" /\ s \notin astray =>
       IF kind[s] = "query" THEN Due("save", s) \/ sources[s] = Data
       ELSE Done(s) \/ Due("ready", s) \/ sources[s].status = "ready"
  /\ table[s] = "gone" /\ s \notin astray => s \in removed \/ EndDue(s)

(* The result of a query comes before its answer, and both before what is    *)
(* done with it; what is discarded is not spoken of again.                   *)
OrderInv ==
  \A i, j \in DOMAIN inbox :
    /\ i < j /\ inbox[i].of = inbox[j].of /\ inbox[i].of # 0 =>
         /\ inbox[j].op # "result"
         /\ inbox[j].op = "query" => inbox[i].op = "result"
    /\ i # j /\ inbox[i].op = "discard" => inbox[j].of # inbox[i].of
AloneInv ==
  \A m \in answers : m.op = "discard" =>
    /\ \A x \in answers : x.of = m.of => x = m
    /\ \A i \in DOMAIN inbox : inbox[i].of # m.of
AloneToo == \A i \in DOMAIN inbox, x \in answers : inbox[i].op = "discard" => x.of # inbox[i].of
QueryIsSent ==
  \A m \in answers : m.op \notin {"query", "result", "job", "preview", "ready", "failed"}

(* A retry names an import, a query a document.                              *)
ForOK(x) == /\ x.op \in {"import", "failed import"} /\ x.for # 0 =>
                 x.for \in Source /\ kind[x.for] = "import" /\ x.for # x.of
            /\ x.op = "query" => x.for \in Document
CallOK(c) ==
  /\ ForOK(c)
  /\ c.op \in {"import", "snapshot", "query"} <=> c.of = 0
  /\ c.op \in {"save", "close", "discard"} => kind[c.of] = "query" /\ ~Due("result", c.of)
  /\ c.op = "discard" => ~Due("query", c.of) /\ \A d \in Document : attached[d] # c.of
  /\ c.op = "cancel" => job[c.of] # "none"
MessageOK(m) ==
  /\ ForOK(m)
  /\ m.of = 0 => m.op = "query"
  /\ m.op = "query" => (m.state = "ready" <=> m.of # 0)
  /\ m.op \in {"import", "snapshot", "cancel", "job"} => m.state \in JobStates \ {"none"}
  /\ m.op \in {"import", "snapshot", "cancel"} => Order(m.state) <= Order(job[m.of])
  /\ m.op = "failed" => m.state \in {"failed", "cancelled"}
WireOK == /\ \A c \in calls : CallOK(c)
          /\ \A m \in answers : MessageOK(m)
          /\ \A i \in DOMAIN inbox : MessageOK(inbox[i])

(* The last event of a job has the state that the host has.                  *)
IsJob(i, s) == inbox[i].op = "job" /\ inbox[i].of = s
JobShown(s) ==
  /\ jobs[s] # "none" => job[s] # "none"
  /\ \A i \in DOMAIN inbox :
       IsJob(i, s) /\ (\A j \in DOMAIN inbox : j > i => ~IsJob(j, s)) => inbox[i].state = job[s]
  /\ (\A i \in DOMAIN inbox : ~IsJob(i, s)) => jobs[s] = job[s] \/ s \in overtaken

(* A result that no document shows is about to be discarded.                 *)
Held(s) ==
  table[s] = "result" =>
    \/ s \in abandoned \/ Due("query", s) \/ \E d \in open : attached[d] = s
    \/ \E c \in calls : c.op = "discard" /\ c.of = s
AttachedOK(d) ==
  attached[d] # 0 =>
    /\ d <= opened /\ kind[attached[d]] = "query"
    /\ ~Due("query", attached[d]) /\ ~Due("discard", attached[d])
    /\ \A e \in Document : attached[e] = attached[d] => e = d
    /\ d \in open => \/ table[attached[d]] \in {"result", "data"}
                     \/ Due("close", attached[d]) \/ Due("remove", attached[d])

StoreInv ==
  /\ HostTypes /\ ShownTypes /\ SentTypes
  /\ MadeInv /\ OrderInv /\ AloneInv /\ AloneToo /\ QueryIsSent /\ WireOK
  /\ \A s \in Source : HostOK(s) /\ SentOK(s) /\ ShownOK(s) /\ JobShown(s) /\ Held(s)
  /\ \A d \in Document : AttachedOK(d)

(* The host sends ms and will send as.                                       *)
Puts(ms, as) == inbox' = inbox \o ms /\ answers' = answers \cup as
New(op, s, ms, as) == \/ \E a \in as : a.op = op /\ a.of = s
                      \/ \E k \in DOMAIN ms : ms[k].op = op /\ ms[k].of = s
NewFailure(s, ms, as) == \/ \E a \in as : a.op = "failed import" /\ a.of = s
                         \/ \E k \in DOMAIN ms :
                              /\ ms[k].of = s
                              /\ \/ ms[k].op = "failed import"
                                 \/ ms[k].op = "failed" /\ ms[k].state = "failed"

\* What is sent is behind what was, and what is on its way is what was and what is sent.
LEMMA PutsFacts ==
  ASSUME inbox \in Seq(MessageSet), NEW ms \in Seq(MessageSet),
         NEW as \in SUBSET MessageSet,
         Puts(ms, as)
  PROVE  /\ inbox' \in Seq(MessageSet) /\ answers' = answers \cup as
         /\ \A i \in DOMAIN inbox : i \in DOMAIN inbox' /\ inbox'[i] = inbox[i]
         /\ \A k \in DOMAIN ms : /\ Len(inbox) + k \in DOMAIN inbox'
                                 /\ inbox'[Len(inbox) + k] = ms[k]
         /\ \A i \in DOMAIN inbox' :
              i \in DOMAIN inbox \/ \E k \in DOMAIN ms : i = Len(inbox) + k /\ inbox'[i] = ms[k]
         /\ \A op, s : Due(op, s)' <=> Due(op, s) \/ New(op, s, ms, as)
         /\ \A s : FailureDue(s)' <=> FailureDue(s) \/ NewFailure(s, ms, as)
<1>0. inbox' = inbox \o ms /\ answers' = answers \cup as
  BY DEF Puts
<1>1. /\ inbox' \in Seq(MessageSet)
      /\ \A i \in DOMAIN inbox : i \in DOMAIN inbox' /\ inbox'[i] = inbox[i]
      /\ \A k \in DOMAIN ms : Len(inbox) + k \in DOMAIN inbox' /\ inbox'[Len(inbox) + k] = ms[k]
      /\ \A i \in DOMAIN inbox' :
           i \in DOMAIN inbox \/ \E k \in DOMAIN ms : i = Len(inbox) + k /\ inbox'[i] = ms[k]
  <2>1. /\ inbox' \in Seq(MessageSet) /\ Len(inbox') = Len(inbox) + Len(ms)
        /\ Len(inbox) \in Nat /\ Len(ms) \in Nat
        /\ DOMAIN inbox = 1 .. Len(inbox) /\ DOMAIN ms = 1 .. Len(ms)
        /\ DOMAIN inbox' = 1 .. Len(inbox')
    BY <1>0
  <2>2. \A i \in 1 .. (Len(inbox) + Len(ms)) :
          inbox'[i] = IF i <= Len(inbox) THEN inbox[i] ELSE ms[i - Len(inbox)]
    BY <1>0
  <2>3. \A i \in DOMAIN inbox' : i \notin DOMAIN inbox =>
          i - Len(inbox) \in DOMAIN ms /\ i = Len(inbox) + (i - Len(inbox))
    BY <2>1
  <2> QED
    BY <2>1, <2>2, <2>3
<1>2. ASSUME NEW op, NEW s
      PROVE  Due(op, s)' <=> Due(op, s) \/ New(op, s, ms, as)
  <2>1. (\E i \in DOMAIN inbox' : inbox'[i].op = op /\ inbox'[i].of = s) <=>
          \/ \E i \in DOMAIN inbox : inbox[i].op = op /\ inbox[i].of = s
          \/ \E k \in DOMAIN ms : ms[k].op = op /\ ms[k].of = s
    <3>1. ASSUME NEW i \in DOMAIN inbox', inbox'[i].op = op, inbox'[i].of = s
          PROVE  \/ \E j \in DOMAIN inbox : inbox[j].op = op /\ inbox[j].of = s
                 \/ \E k \in DOMAIN ms : ms[k].op = op /\ ms[k].of = s
      <4>1. CASE i \in DOMAIN inbox
        BY <1>1, <3>1, <4>1
      <4>2. ASSUME NEW k \in DOMAIN ms, inbox'[i] = ms[k]
            PROVE  \E l \in DOMAIN ms : ms[l].op = op /\ ms[l].of = s
        BY <3>1, <4>2
      <4> QED
        BY <1>1, <4>1, <4>2
    <3>2. ASSUME NEW i \in DOMAIN inbox, inbox[i].op = op, inbox[i].of = s
          PROVE  \E j \in DOMAIN inbox' : inbox'[j].op = op /\ inbox'[j].of = s
      BY <1>1, <3>2
    <3>3. ASSUME NEW k \in DOMAIN ms, ms[k].op = op, ms[k].of = s
          PROVE  \E j \in DOMAIN inbox' : inbox'[j].op = op /\ inbox'[j].of = s
      BY <1>1, <3>3
    <3> QED
      BY <3>1, <3>2, <3>3
  <2>2. (\E m \in answers' : m.op = op /\ m.of = s) <=>
          \/ \E m \in answers : m.op = op /\ m.of = s
          \/ \E a \in as : a.op = op /\ a.of = s
    BY <1>0
  <2> QED
    BY <2>1, <2>2 DEF Due, New
<1>3. ASSUME NEW s
      PROVE  FailureDue(s)' <=> FailureDue(s) \/ NewFailure(s, ms, as)
  <2>1. (\E i \in DOMAIN inbox' : /\ inbox'[i].op = "failed" /\ inbox'[i].of = s
                                  /\ inbox'[i].state = "failed") <=>
          \/ \E i \in DOMAIN inbox : /\ inbox[i].op = "failed" /\ inbox[i].of = s
                                     /\ inbox[i].state = "failed"
          \/ \E k \in DOMAIN ms : /\ ms[k].op = "failed" /\ ms[k].of = s
                                  /\ ms[k].state = "failed"
    <3>1. ASSUME NEW i \in DOMAIN inbox', inbox'[i].op = "failed", inbox'[i].of = s,
                 inbox'[i].state = "failed"
          PROVE  \/ \E j \in DOMAIN inbox : /\ inbox[j].op = "failed" /\ inbox[j].of = s
                                            /\ inbox[j].state = "failed"
                 \/ \E k \in DOMAIN ms : /\ ms[k].op = "failed" /\ ms[k].of = s
                                         /\ ms[k].state = "failed"
      <4>1. CASE i \in DOMAIN inbox
        BY <1>1, <3>1, <4>1
      <4>2. ASSUME NEW k \in DOMAIN ms, inbox'[i] = ms[k]
            PROVE  \E l \in DOMAIN ms : /\ ms[l].op = "failed" /\ ms[l].of = s
                                        /\ ms[l].state = "failed"
        BY <3>1, <4>2
      <4> QED
        BY <1>1, <4>1, <4>2
    <3>2. ASSUME NEW i \in DOMAIN inbox, inbox[i].op = "failed", inbox[i].of = s,
                 inbox[i].state = "failed"
          PROVE  \E j \in DOMAIN inbox' : /\ inbox'[j].op = "failed" /\ inbox'[j].of = s
                                          /\ inbox'[j].state = "failed"
      BY <1>1, <3>2
    <3>3. ASSUME NEW k \in DOMAIN ms, ms[k].op = "failed", ms[k].of = s, ms[k].state = "failed"
          PROVE  \E j \in DOMAIN inbox' : /\ inbox'[j].op = "failed" /\ inbox'[j].of = s
                                          /\ inbox'[j].state = "failed"
      <4>1. PICK j \in DOMAIN inbox' : inbox'[j] = ms[k]
        BY <1>1
      <4> QED
        BY <3>3, <4>1
    <3> QED
      BY <3>1, <3>2, <3>3
  <2>2. Due("failed import", s)' <=>
          \/ Due("failed import", s)
          \/ \E a \in as : a.op = "failed import" /\ a.of = s
          \/ \E k \in DOMAIN ms : ms[k].op = "failed import" /\ ms[k].of = s
    BY <1>2 DEF New
  <2> QED
    BY <2>1, <2>2 DEF FailureDue, NewFailure
<1> QED
  BY <1>0, <1>1, <1>2, <1>3

\* An answer that is sent is still on its way.
LEMMA MoveFacts ==
  ASSUME inbox \in Seq(MessageSet),
         NEW m \in answers, m \in MessageSet, m.op # "failed",
         inbox' = inbox \o <<m>>, answers' = answers \ {m}
  PROVE  /\ inbox' \in Seq(MessageSet) /\ Len(inbox) + 1 \in DOMAIN inbox'
         /\ inbox'[Len(inbox) + 1] = m
         /\ \A i \in DOMAIN inbox : /\ i \in DOMAIN inbox' /\ inbox'[i] = inbox[i]
                                    /\ i < Len(inbox) + 1
         /\ \A i \in DOMAIN inbox' : i \in DOMAIN inbox \/ i = Len(inbox) + 1
         /\ \A op, s : Due(op, s)' <=> Due(op, s)
         /\ \A s : FailureDue(s)' <=> FailureDue(s)
<1>1. /\ inbox' \in Seq(MessageSet) /\ Len(inbox) + 1 \in DOMAIN inbox'
      /\ inbox'[Len(inbox) + 1] = m
      /\ \A i \in DOMAIN inbox : i \in DOMAIN inbox' /\ inbox'[i] = inbox[i] /\ i < Len(inbox) + 1
      /\ \A i \in DOMAIN inbox' : i \in DOMAIN inbox \/ i = Len(inbox) + 1
  OBVIOUS
<1>2. \A op, s : Due(op, s)' <=> Due(op, s)
  BY <1>1 DEF Due
<1>3. \A s : FailureDue(s)' <=> FailureDue(s)
  BY <1>1, <1>2 DEF FailureDue
<1> QED
  BY <1>1, <1>2, <1>3

\* What is on its way after the first message is handled was on its way before, and
\* nothing but that message is missing.
LEMMA PopFacts ==
  ASSUME inbox \in Seq(MessageSet), inbox # <<>>, inbox' = Tail(inbox),
         NEW m, m = Head(inbox),
         UNCHANGED answers
  PROVE  /\ inbox' \in Seq(MessageSet) /\ m \in MessageSet /\ m = inbox[1] /\ 1 \in DOMAIN inbox
         /\ \A i \in DOMAIN inbox' : /\ i + 1 \in DOMAIN inbox /\ i + 1 > 1
                                     /\ inbox'[i] = inbox[i + 1]
         /\ \A i \in DOMAIN inbox : i # 1 => i - 1 \in DOMAIN inbox' /\ inbox'[i - 1] = inbox[i]
         /\ \A i \in DOMAIN inbox : i \in Nat
         /\ \A op, s : Due(op, s)' => Due(op, s)
         /\ \A op, s : Due(op, s) => Due(op, s)' \/ (m.op = op /\ m.of = s)
         /\ Due(m.op, m.of)
         /\ \A s : FailureDue(s)' => FailureDue(s)
         /\ m.op = "failed import" \/ (m.op = "failed" /\ m.state = "failed") => FailureDue(m.of)
<1>1. /\ inbox' \in Seq(MessageSet) /\ m \in MessageSet /\ m = inbox[1] /\ 1 \in DOMAIN inbox
      /\ \A i \in DOMAIN inbox' : i + 1 \in DOMAIN inbox /\ i + 1 > 1 /\ inbox'[i] = inbox[i + 1]
      /\ \A i \in DOMAIN inbox : i # 1 => i - 1 \in DOMAIN inbox' /\ inbox'[i - 1] = inbox[i]
      /\ \A i \in DOMAIN inbox : i \in Nat
  OBVIOUS
<1>2. /\ \A op, s : Due(op, s)' => Due(op, s)
      /\ Due(m.op, m.of)
  BY <1>1 DEF Due
<1>3. ASSUME NEW op, NEW s, Due(op, s)
      PROVE  Due(op, s)' \/ (m.op = op /\ m.of = s)
  <2>1. ASSUME NEW i \in DOMAIN inbox, inbox[i].op = op, inbox[i].of = s
        PROVE  Due(op, s)' \/ (m.op = op /\ m.of = s)
    <3>1. CASE i = 1
      BY <1>1, <2>1, <3>1
    <3>2. CASE i # 1
      <4>1. PICK k \in DOMAIN inbox' : inbox'[k] = inbox[i]
        BY <1>1, <3>2
      <4> QED
        BY <2>1, <4>1 DEF Due
    <3> QED
      BY <3>1, <3>2
  <2> QED
    BY <1>3, <2>1 DEF Due
<1>4. ASSUME NEW s, FailureDue(s)'
      PROVE  FailureDue(s)
  <2>1. Due("failed import", s)' => Due("failed import", s)
    BY <1>2
  <2>2. ASSUME NEW i \in DOMAIN inbox', inbox'[i].op = "failed", inbox'[i].of = s,
               inbox'[i].state = "failed"
        PROVE  FailureDue(s)
    <3>1. i + 1 \in DOMAIN inbox /\ inbox[i + 1] = inbox'[i]
      BY <1>1
    <3> QED
      BY <2>2, <3>1 DEF FailureDue
  <2> QED
    BY <1>4, <2>1, <2>2 DEF FailureDue
<1>5. m.op = "failed import" \/ (m.op = "failed" /\ m.state = "failed") => FailureDue(m.of)
  BY <1>1, <1>2 DEF FailureDue
<1> QED
  BY <1>1, <1>2, <1>3, <1>4, <1>5

\* A source of which nothing is done or told stays as it is.
LEMMA ApartFrom ==
  ASSUME NEW t \in Source, HostOK(t), SentOK(t), ShownOK(t), kind[t] = "none" => Unknown(t),
         table'[t] = table[t], kind'[t] = kind[t], job'[t] = job[t], jobs'[t] = jobs[t],
         sources'[t] = sources[t], Going(t)' <=> Going(t), Done(t)' <=> Done(t),
         t \in removed' <=> t \in removed, t \in astray => t \in astray',
         \A op : Due(op, t)' <=> Due(op, t), FailureDue(t)' <=> FailureDue(t),
         \A c \in calls' : c.of = t => c \in calls \/ kind[t] # "none"
  PROVE  /\ HostOK(t)' /\ SentOK(t)' /\ ShownOK(t)'
         /\ (kind[t] = "none" => Unknown(t))'
<1>1. Dead(t)' <=> Dead(t)
  BY DEF Dead
<1>2. HostOK(t)'
  BY DEF HostOK
<1>3. SentOK(t)'
  BY <1>1 DEF SentOK, EndDue
<1>4. ShownOK(t)'
  BY <1>1 DEF ShownOK, EndDue
<1>5. (kind[t] = "none" => Unknown(t))'
  BY DEF Unknown
<1> QED
  BY <1>2, <1>3, <1>4, <1>5

\* There are four stages of a job.
LEMMA OrderBound == \A x : Order(x) \in 0 .. 3
BY DEF Order

Late(x) == x.op \in {"query", "result"} /\ x.of # 0
InOrder(ms, as) ==
  /\ \A k \in DOMAIN ms : /\ ms[k].op # "discard" /\ ~Due("discard", ms[k].of)
                          /\ Late(ms[k]) => /\ \A i \in DOMAIN inbox : inbox[i].of # ms[k].of
                                            /\ \A c \in calls : c.of # ms[k].of
  /\ \A k, l \in DOMAIN ms : k < l /\ ms[k].of = ms[l].of /\ ms[k].of # 0 =>
                               /\ ms[l].op # "result"
                               /\ ms[l].op = "query" => ms[k].op = "result"
  /\ \A a \in as : /\ a.op \notin {"query", "result", "job", "preview", "ready", "failed"}
                   /\ ~Due("discard", a.of)
                   /\ a.op = "discard" => as = {a} /\ ms = <<>> /\ \A op \in Ops : ~Due(op, a.of)

\* What is sent in order keeps the queue in order.
LEMMA PutsInOrder ==
  ASSUME StoreInv, NEW ms \in Seq(MessageSet),
         NEW as \in SUBSET MessageSet, Puts(ms, as),
         InOrder(ms, as)
  PROVE  OrderInv' /\ AloneInv' /\ AloneToo' /\ QueryIsSent'
<1>1. /\ inbox \in Seq(MessageSet) /\ Len(inbox) \in Nat
      /\ \A i \in DOMAIN inbox : i \in Nat /\ i <= Len(inbox) /\ inbox[i] \in MessageSet
      /\ answers \subseteq MessageSet
      /\ \A k \in DOMAIN ms : k \in Nat /\ k >= 1
      /\ OrderInv /\ AloneInv /\ AloneToo /\ QueryIsSent
  BY DEF StoreInv, SentTypes
<1>2. /\ inbox' \in Seq(MessageSet) /\ answers' = answers \cup as
      /\ \A i \in DOMAIN inbox : i \in DOMAIN inbox' /\ inbox'[i] = inbox[i]
      /\ \A i \in DOMAIN inbox' :
           i \in DOMAIN inbox \/ \E k \in DOMAIN ms : i = Len(inbox) + k /\ inbox'[i] = ms[k]
  BY <1>1, PutsFacts
<1>3. /\ \A k \in DOMAIN ms : ms[k].op # "discard"
      /\ \A k \in DOMAIN ms, i \in DOMAIN inbox : inbox[i].op = "discard" => ms[k].of # inbox[i].of
      /\ \A k \in DOMAIN ms, i \in DOMAIN inbox :
           inbox[i].of = ms[k].of /\ inbox[i].of # 0 => ms[k].op \notin {"query", "result"}
      /\ \A k, l \in DOMAIN ms : k < l /\ ms[k].of = ms[l].of /\ ms[k].of # 0 =>
                                   /\ ms[l].op # "result"
                                   /\ ms[l].op = "query" => ms[k].op = "result"
  BY DEF InOrder, Late, Due
<1>4. OrderInv'
  <2> SUFFICES ASSUME NEW i \in DOMAIN inbox', NEW j \in DOMAIN inbox'
               PROVE  /\ i < j /\ inbox'[i].of = inbox'[j].of /\ inbox'[i].of # 0 =>
                           /\ inbox'[j].op # "result"
                           /\ inbox'[j].op = "query" => inbox'[i].op = "result"
                      /\ i # j /\ inbox'[i].op = "discard" => inbox'[j].of # inbox'[i].of
    BY DEF OrderInv
  <2>1. CASE i \in DOMAIN inbox /\ j \in DOMAIN inbox
    BY <1>1, <1>2, <2>1 DEF OrderInv
  <2>2. ASSUME i \in DOMAIN inbox, NEW l \in DOMAIN ms, j = Len(inbox) + l, inbox'[j] = ms[l]
        PROVE  /\ inbox'[i].of = inbox'[j].of /\ inbox'[i].of # 0 =>
                    inbox'[j].op # "result" /\ inbox'[j].op # "query"
               /\ inbox'[i].op = "discard" => inbox'[j].of # inbox'[i].of
    BY <1>2, <1>3, <2>2
  <2>3. ASSUME NEW k \in DOMAIN ms, i = Len(inbox) + k, inbox'[i] = ms[k], j \in DOMAIN inbox
        PROVE  inbox'[i].op # "discard" /\ ~(i < j)
    BY <1>1, <1>3, <2>3
  <2>4. ASSUME NEW k \in DOMAIN ms, i = Len(inbox) + k, inbox'[i] = ms[k],
               NEW l \in DOMAIN ms, j = Len(inbox) + l, inbox'[j] = ms[l]
        PROVE  /\ inbox'[i].op # "discard"
               /\ i < j /\ inbox'[i].of = inbox'[j].of /\ inbox'[i].of # 0 =>
                    /\ inbox'[j].op # "result"
                    /\ inbox'[j].op = "query" => inbox'[i].op = "result"
    BY <1>1, <1>3, <2>4
  <2> QED
    BY <1>2, <2>1, <2>2, <2>3, <2>4
<1>5. /\ \A a \in as : /\ a.op \notin {"query", "result", "job", "preview", "ready", "failed"}
                       /\ \A m \in answers : m.op = "discard" => a.of # m.of
                       /\ \A i \in DOMAIN inbox : inbox[i].op = "discard" => a.of # inbox[i].of
                       /\ a.op = "discard" =>
                            /\ as = {a} /\ ms = <<>>
                            /\ \A m \in answers : m.of # a.of
                            /\ \A i \in DOMAIN inbox : inbox[i].of # a.of
      /\ \A k \in DOMAIN ms, m \in answers : m.op = "discard" => ms[k].of # m.of
  <2>1. \A m \in MessageSet : m.op \in Ops
    BY DEF MessageSet
  <2>2. ASSUME NEW a \in as, a.op = "discard"
        PROVE  /\ \A m \in answers : m.of # a.of
               /\ \A i \in DOMAIN inbox : inbox[i].of # a.of
    BY <1>1, <2>1, <2>2 DEF InOrder, Due
  <2> QED
    BY <2>2 DEF InOrder, Due
<1>6. AloneInv'
  <2> SUFFICES ASSUME NEW m \in answers', m.op = "discard"
               PROVE  /\ \A x \in answers' : x.of = m.of => x = m
                      /\ \A i \in DOMAIN inbox' : inbox'[i].of # m.of
    BY DEF AloneInv
  <2>1. CASE m \in answers
    <3>1. /\ \A x \in answers : x.of = m.of => x = m
          /\ \A i \in DOMAIN inbox : inbox[i].of # m.of
      BY <1>1, <2>1 DEF AloneInv
    <3>2. \A x \in as : x.of # m.of
      BY <1>5, <2>1
    <3>3. \A k \in DOMAIN ms : ms[k].of # m.of
      BY <1>5, <2>1
    <3>4. ASSUME NEW i \in DOMAIN inbox' PROVE inbox'[i].of # m.of
      <4>1. CASE i \in DOMAIN inbox
        BY <1>2, <3>1, <4>1
      <4>2. ASSUME NEW k \in DOMAIN ms, inbox'[i] = ms[k] PROVE inbox'[i].of # m.of
        BY <3>3, <4>2
      <4> QED
        BY <1>2, <4>1, <4>2
    <3> QED
      BY <1>2, <3>1, <3>2, <3>4
  <2>2. CASE m \in as
    <3>0. as = {m} /\ ms = <<>>
      BY <1>5, <2>2
    <3>1. as = {m} /\ DOMAIN ms = {}
      BY <3>0
    <3> QED
      BY <1>2, <1>5, <2>2, <3>1
  <2> QED
    BY <1>2, <2>1, <2>2
<1>7. AloneToo'
  <2> SUFFICES ASSUME NEW i \in DOMAIN inbox', NEW x \in answers', inbox'[i].op = "discard"
               PROVE  x.of # inbox'[i].of
    BY DEF AloneToo
  <2>1. i \in DOMAIN inbox /\ inbox'[i] = inbox[i]
    BY <1>2, <1>3
  <2>2. CASE x \in answers
    BY <1>1, <2>1, <2>2 DEF AloneToo
  <2>3. CASE x \in as
    BY <1>5, <2>1, <2>3
  <2> QED
    BY <1>2, <2>2, <2>3
<1>8. QueryIsSent'
  BY <1>1, <1>2, <1>5 DEF QueryIsSent
<1> QED
  BY <1>4, <1>6, <1>7, <1>8

\* And it is of jobs and sources that are there.
LEMMA PutsOK ==
  ASSUME StoreInv, NEW ms \in Seq(MessageSet),
         NEW as \in SUBSET MessageSet, Puts(ms, as),
         InOrder(ms, as), calls' \subseteq calls, UNCHANGED attached,
         \A t \in Source : kind[t] # "none" => kind'[t] = kind[t],
         \A t \in Source : /\ Order(job[t]) <= Order(job'[t])
                           /\ job[t] # "none" => job'[t] # "none",
         \A a \in as : MessageOK(a)',
         \A k \in DOMAIN ms : \A m : m = ms[k] => MessageOK(m)'
  PROVE  SentTypes' /\ WireOK'
<1>1. /\ inbox \in Seq(MessageSet) /\ \A i \in DOMAIN inbox : inbox[i] \in MessageSet
      /\ answers \subseteq MessageSet /\ calls \subseteq CallSet
      /\ WireOK
  BY DEF StoreInv, SentTypes
<1>2. /\ inbox' \in Seq(MessageSet) /\ answers' = answers \cup as
      /\ \A i \in DOMAIN inbox : i \in DOMAIN inbox' /\ inbox'[i] = inbox[i]
      /\ \A i \in DOMAIN inbox' :
           i \in DOMAIN inbox \/ \E k \in DOMAIN ms : i = Len(inbox) + k /\ inbox'[i] = ms[k]
      /\ \A op, s : Due(op, s)' <=> Due(op, s) \/ New(op, s, ms, as)
  BY <1>1, PutsFacts
<1>3. SentTypes'
  BY <1>1, <1>2 DEF SentTypes
<1>4. \A m \in MessageSet : MessageOK(m) => MessageOK(m)'
  <2> SUFFICES ASSUME NEW m \in MessageSet, MessageOK(m) PROVE MessageOK(m)'
    OBVIOUS
  <2>1. ForOK(m)'
    BY DEF MessageOK, ForOK
  <2>2. m.op \in {"import", "snapshot", "cancel"} => m.of \in Source
    BY DEF MessageOK, MessageSet
  <2>3. m.of \in Source /\ Order(m.state) <= Order(job[m.of]) =>
          Order(m.state) <= Order(job'[m.of])
    BY OrderBound
  <2> QED
    BY <2>1, <2>2, <2>3 DEF MessageOK
<1>5. \A c \in calls' : CallOK(c)'
  <2> SUFFICES ASSUME NEW c \in calls' PROVE CallOK(c)'
    OBVIOUS
  <2>1. c \in CallSet /\ CallOK(c) /\ c \in calls
    BY <1>1 DEF WireOK
  <2>2. ForOK(c)'
    BY <2>1 DEF CallOK, ForOK
  <2>3. ASSUME NEW op \in {"result", "query"}, c.of # 0
        PROVE  ~New(op, c.of, ms, as)
    BY <2>1, <2>3 DEF New, InOrder, Late
  <2>4. c.of # 0 => /\ Due("result", c.of)' <=> Due("result", c.of)
                    /\ Due("query", c.of)' <=> Due("query", c.of)
    BY <1>2, <2>3
  <2>5. c.of # 0 => c.of \in Source
    BY <2>1 DEF CallSet
  <2> QED
    BY <2>1, <2>2, <2>4, <2>5 DEF CallOK
<1>6. \A m \in answers' : MessageOK(m)'
  BY <1>1, <1>2, <1>4 DEF WireOK
<1>7. \A i \in DOMAIN inbox' : \A m : m = inbox'[i] => MessageOK(m)'
  <2> SUFFICES ASSUME NEW i \in DOMAIN inbox', NEW m, m = inbox'[i] PROVE MessageOK(m)'
    OBVIOUS
  <2>1. CASE i \in DOMAIN inbox
    <3>1. m = inbox[i] /\ m \in MessageSet /\ MessageOK(m)
      BY <1>1, <1>2, <2>1 DEF WireOK
    <3> QED
      BY <1>4, <3>1
  <2>2. ASSUME NEW k \in DOMAIN ms, m = ms[k]
        PROVE  MessageOK(m)'
    BY <2>2
  <2> QED
    BY <1>2, <2>1, <2>2
<1>8. (\A i \in DOMAIN inbox : MessageOK(inbox[i]))'
  BY <1>7
<1> QED
  BY <1>3, <1>5, <1>6, <1>8 DEF WireOK

-------------------------------------------------------------------------------
(* What the user does                                                        *)

\* What a source is shown as has a status and a kind.
LEMMA ShownFields ==
  /\ Absent.ephemeral = FALSE /\ Absent.status = "absent"
  /\ Result.ephemeral = TRUE /\ Result.status = "ready"
  /\ Data.ephemeral = FALSE /\ Data.status = "ready"
BY DEF Absent, Result, Data, Shown

\* What only calls, and only lets go of results, preserves the invariant if the
\* calls are of what is there and what is let go of is kept or discarded.
LEMMA UserKeeps ==
  ASSUME StoreInv, NEW cs \in SUBSET CallSet, calls' = calls \cup cs,
         UNCHANGED <<host, answers, inbox, sources, jobs, astray, removed, overtaken>>,
         attached' \in [Document -> Source \cup {0}],
         \A d \in Document : attached'[d] \in {attached[d], 0},
         \A c \in cs : CallOK(c)' /\ (c.of # 0 => kind[c.of] # "none"),
         \A s \in Source : Held(s)', \A d \in Document : AttachedOK(d)'
  PROVE  StoreInv'
<1>1. /\ \A op, s : Due(op, s)' <=> Due(op, s)
      /\ \A s : FailureDue(s)' <=> FailureDue(s)
      /\ \A s : (Going(s)' <=> Going(s)) /\ (Done(s)' <=> Done(s))
  BY DEF Due, FailureDue, Going, Done, host
<1>2. HostTypes' /\ ShownTypes' /\ SentTypes'
  BY DEF StoreInv, HostTypes, ShownTypes, SentTypes, host
<1>3. OrderInv' /\ AloneInv' /\ AloneToo' /\ QueryIsSent'
  BY DEF StoreInv, OrderInv, AloneInv, AloneToo, QueryIsSent
<1>4. MadeInv'
  <2>1. Numbered'
    BY DEF StoreInv, MadeInv, Numbered, host
  <2>2. ASSUME NEW s \in Source, kind'[s] = "none"
        PROVE  Unknown(s)'
    <3>1. kind[s] = "none" /\ s # 0 /\ Unknown(s)
      BY <2>2 DEF StoreInv, MadeInv, host, Source
    <3> QED
      BY <1>1, <3>1 DEF Unknown, host
  <2> QED
    BY <2>1, <2>2 DEF MadeInv
<1>5. \A x : ForOK(x)' <=> ForOK(x)
  BY DEF ForOK, host
<1>6. WireOK'
  <2>1. \A m : MessageOK(m)' <=> MessageOK(m)
    BY <1>5 DEF MessageOK, host
  <2>2. ASSUME NEW c \in calls
        PROVE  CallOK(c)'
    <3>1. CallOK(c) /\ (c.op = "discard" => c.of # 0)
      BY DEF StoreInv, WireOK, CallOK
    <3> QED
      BY <1>1, <1>5, <3>1 DEF CallOK, host
  <2>3. (\A i \in DOMAIN inbox : MessageOK(inbox[i]))'
    BY <2>1 DEF StoreInv, WireOK
  <2> QED
    BY <2>1, <2>2, <2>3 DEF StoreInv, WireOK
<1>7. ASSUME NEW s \in Source
      PROVE  HostOK(s)' /\ SentOK(s)' /\ ShownOK(s)' /\ JobShown(s)'
  <2>1. HostOK(s) /\ SentOK(s) /\ ShownOK(s) /\ JobShown(s)
    BY DEF StoreInv
  <2>2. Dead(s)' <=> Dead(s)
    BY <1>1 DEF Dead, host
  <2>3. HostOK(s)'
    BY <1>1, <2>1 DEF HostOK, host
  <2>4. SentOK(s)'
    BY <1>1, <2>1, <2>2 DEF SentOK, EndDue, host
  <2>5. ShownOK(s)'
    BY <1>1, <2>1, <2>2 DEF ShownOK, EndDue, host
  <2>6. JobShown(s)'
    BY <2>1 DEF JobShown, IsJob, host
  <2> QED
    BY <2>3, <2>4, <2>5, <2>6
<1> QED
  BY <1>2, <1>3, <1>4, <1>6, <1>7 DEF StoreInv

\* So does a call of something that is there.
LEMMA CallKeeps ==
  ASSUME StoreInv, UNCHANGED opened, NEW c \in CallSet, Calls(c), CallOK(c),
         c.of # 0 => kind[c.of] # "none"
  PROVE  StoreInv'
<1>1. /\ calls' = calls \cup {c}
      /\ UNCHANGED <<host, answers, inbox, sources, jobs, open, attached, astray, removed,
                     overtaken, abandoned>>
  BY DEF Calls, ghosts
<1>2. /\ \A op, s : Due(op, s)' <=> Due(op, s)
  BY <1>1 DEF Due
<1>3. CallOK(c)'
  BY <1>1, <1>2 DEF CallOK, ForOK, host
<1>4. \A s \in Source : Held(s)'
  BY <1>1, <1>2 DEF StoreInv, Held, host
<1>5. \A d \in Document : AttachedOK(d)'
  BY <1>1, <1>2 DEF StoreInv, AttachedOK, host
<1>6. /\ {c} \in SUBSET CallSet
      /\ attached' \in [Document -> Source \cup {0}]
      /\ \A d \in Document : attached'[d] \in {attached[d], 0}
      /\ \A e \in {c} : CallOK(e)' /\ (e.of # 0 => kind[e.of] # "none")
  BY <1>1, <1>3 DEF StoreInv, ShownTypes
<1> QED
  BY <1>1, <1>4, <1>5, <1>6, UserKeeps

\* What the user starts, or asks for by what is shown, preserves the invariant.
LEMMA AsksKeep ==
  ASSUME StoreInv, UNCHANGED opened,
         \/ ImportPaths \/ SnapshotRelation
         \/ \E d \in Document : RunQuery(d)
         \/ \E s \in Source : Acts(s)
  PROVE  StoreInv'
<1>0. /\ \A s \in Source : s # 0 /\ (sources[s].status # "absent" => kind[s] # "none")
      /\ \A d \in Document : TRUE
  BY DEF StoreInv, MadeInv, Unknown, Absent, Source
<1>1. CASE ImportPaths
  <2>1. CASE Calls(Call("import", 0, 0))
    <3>1. Call("import", 0, 0) \in CallSet /\ CallOK(Call("import", 0, 0))
      BY DEF Call, CallSet, Ops, CallOK, ForOK
    <3> QED
      BY <2>1, <3>1, CallKeeps DEF Call
  <2>2. ASSUME NEW s \in Source, sources[s].status \in {"failed", "cancelled"},
               Calls(Call("import", 0, s))
        PROVE  StoreInv'
    <3>1. kind[s] = "import"
      BY <2>2 DEF StoreInv, ShownOK
    <3>2. Call("import", 0, s) \in CallSet /\ CallOK(Call("import", 0, s))
      BY <1>0, <3>1 DEF Call, CallSet, Ops, CallOK, ForOK
    <3> QED
      BY <2>2, <3>2, CallKeeps DEF Call
  <2> QED
    BY <1>1, <2>1, <2>2 DEF ImportPaths
<1>2. CASE SnapshotRelation
  <2>1. Call("snapshot", 0, 0) \in CallSet /\ CallOK(Call("snapshot", 0, 0))
    BY DEF Call, CallSet, Ops, CallOK, ForOK
  <2> QED
    BY <1>2, <2>1, CallKeeps DEF Call, SnapshotRelation
<1>3. ASSUME NEW d \in Document, RunQuery(d)
      PROVE  StoreInv'
  <2>1. Call("query", 0, d) \in CallSet /\ CallOK(Call("query", 0, d))
    BY DEF Call, CallSet, Ops, CallOK, ForOK
  <2> QED
    BY <1>3, <2>1, CallKeeps DEF Call, RunQuery
<1>4. ASSUME NEW s \in Source, Acts(s)
      PROVE  StoreInv'
  <2>0. SentOK(s) /\ ShownOK(s)
    BY DEF StoreInv
  <2>1. ASSUME sources[s].ephemeral, NEW op \in {"save", "close"}, Calls(Call(op, s, 0))
        PROVE  StoreInv'
    <3>1. kind[s] = "query" /\ ~Due("result", s)
      BY <2>0, <2>1, ShownFields DEF ShownOK, SentOK
    <3>2. Call(op, s, 0) \in CallSet /\ CallOK(Call(op, s, 0))
      BY <1>0, <3>1 DEF Call, CallSet, Ops, CallOK, ForOK
    <3> QED
      BY <2>1, <3>1, <3>2, CallKeeps DEF Call
  <2>2. ASSUME sources[s].status # "absent", NEW op \in {"remove", "rename"},
               Calls(Call(op, s, 0))
        PROVE  StoreInv'
    <3>1. Call(op, s, 0) \in CallSet /\ CallOK(Call(op, s, 0))
      BY <1>0 DEF Call, CallSet, Ops, CallOK, ForOK
    <3> QED
      BY <1>0, <2>2, <3>1, CallKeeps DEF Call
  <2>3. ASSUME jobs[s] \in {"queued", "running"}, Calls(Call("cancel", s, 0))
        PROVE  StoreInv'
    <3>1. job[s] # "none" /\ kind[s] # "none"
      BY <2>3 DEF StoreInv, JobShown, MadeInv, Unknown
    <3>2. Call("cancel", s, 0) \in CallSet /\ CallOK(Call("cancel", s, 0))
      BY <1>0, <3>1 DEF Call, CallSet, Ops, CallOK, ForOK
    <3> QED
      BY <2>3, <3>1, <3>2, CallKeeps DEF Call
  <2> QED
    BY <1>4, <2>1, <2>2, <2>3 DEF Acts, Shown
<1> QED
  BY <1>1, <1>2, <1>3, <1>4

\* A result of a document is on its own, and is shown as one.
LEMMA ResultShown ==
  ASSUME StoreInv,
         NEW d \in Document, attached[d] # 0, table[attached[d]] = "result"
  PROVE  sources[attached[d]].ephemeral
<1>1. PICK s \in Source : s = attached[d]
  BY DEF StoreInv, ShownTypes
<1>2. SentOK(s) /\ ShownOK(s) /\ ~Due("query", s)
  BY <1>1 DEF StoreInv, AttachedOK
<1> QED
  BY <1>1, <1>2, ShownFields DEF SentOK, ShownOK

\* It is discarded where the document closes or shows another.
LEMMA DiscardOK ==
  ASSUME StoreInv,
         NEW d \in Document, attached[d] # 0, sources[attached[d]].ephemeral
  PROVE  /\ Call("discard", attached[d], 0) \in CallSet
         /\ kind[attached[d]] = "query" /\ ~Due("result", attached[d])
         /\ ~Due("query", attached[d])
         /\ \A e \in Document \ {d} : attached[e] # attached[d]
<1>1. PICK s \in Source : s = attached[d]
  BY DEF StoreInv, ShownTypes
<1>2. SentOK(s) /\ ShownOK(s) /\ AttachedOK(d)
  BY <1>1 DEF StoreInv
<1>3. ~Due("result", s)
  BY <1>1, <1>2, ShownFields DEF SentOK
<1>4. \A e \in Document : attached[e] = s => e = d
  BY <1>1, <1>2 DEF AttachedOK
<1> QED
  BY <1>1, <1>2, <1>3, <1>4 DEF AttachedOK, Call, CallSet, Ops

\* So does closing a document, whose result is discarded,
LEMMA CloseKeeps ==
  ASSUME StoreInv, UNCHANGED opened, NEW d \in Document, CloseDocument(d)
  PROVE  StoreInv'
<1>1. /\ calls' = calls \cup Discards(attached[d])
      /\ attached' = [attached EXCEPT ![d] = 0] /\ open' = open \ {d}
      /\ UNCHANGED <<host, answers, inbox, sources, jobs, astray, removed, overtaken, abandoned>>
      /\ attached \in [Document -> Source \cup {0}]
  BY DEF CloseDocument, ghosts, StoreInv, ShownTypes
<1>2. /\ \A op, s : Due(op, s)' <=> Due(op, s)
      /\ \A e \in Document : attached'[e] = IF e = d THEN 0 ELSE attached[e]
      /\ attached' \in [Document -> Source \cup {0}]
  BY <1>1 DEF Due
<1>3. ASSUME NEW c \in Discards(attached[d])
      PROVE  c \in CallSet /\ CallOK(c)' /\ (c.of # 0 => kind[c.of] # "none")
  <2>1. /\ attached[d] # 0 /\ sources[attached[d]].ephemeral
        /\ c = Call("discard", attached[d], 0)
    BY <1>3 DEF Discards
  <2>2. /\ c \in CallSet /\ kind[attached[d]] = "query" /\ ~Due("result", attached[d])
        /\ ~Due("query", attached[d])
        /\ \A e \in Document \ {d} : attached[e] # attached[d]
    BY <2>1, DiscardOK
  <2>3. CallOK(c)'
    BY <1>1, <1>2, <2>1, <2>2 DEF CallOK, ForOK, Call, host
  <2> QED
    BY <2>1, <2>2, <2>3 DEF Call
<1>4. ASSUME NEW s \in Source
      PROVE  Held(s)'
  <2>1. Held(s) /\ (table'[s] = table[s]) /\ \A c \in calls : c \in calls'
    BY <1>1 DEF StoreInv, host
  <2>2. ASSUME table[s] = "result", attached[d] = s
        PROVE  \E c \in calls' : c.op = "discard" /\ c.of = s
    <3>1. Call("discard", s, 0) \in calls'
      BY <1>1, <2>2, ResultShown DEF Discards, Source
    <3> QED
      BY <3>1 DEF Call
  <2> QED
    BY <1>1, <1>2, <2>1, <2>2 DEF Held
<1>5. \A e \in Document : AttachedOK(e)'
  BY <1>1, <1>2 DEF StoreInv, AttachedOK, host
<1>6. /\ Discards(attached[d]) \in SUBSET CallSet
      /\ \A e \in Document : attached'[e] \in {attached[e], 0}
  BY <1>2, <1>3
<1> QED
  BY <1>1, <1>2, <1>3, <1>4, <1>5, <1>6, UserKeeps

\* and closing others, whose results are let go of.
LEMMA CloseOthersKeeps ==
  ASSUME StoreInv, UNCHANGED opened,
         NEW ds \in SUBSET Document, CloseOtherTabs(ds)
  PROVE  StoreInv'
<1>1. /\ open' = open \ ds /\ abandoned' = abandoned \cup {attached[d] : d \in ds}
      /\ UNCHANGED <<host, calls, answers, inbox, sources, jobs, attached, astray, removed,
                     overtaken>>
  BY DEF CloseOtherTabs, wire
<1>2. \A op, s : Due(op, s)' <=> Due(op, s)
  BY <1>1 DEF Due
<1>3. \A s \in Source : Held(s)'
  <2> SUFFICES ASSUME NEW s \in Source PROVE Held(s)'
    OBVIOUS
  <2>1. Held(s) /\ \A d \in open : attached[d] = s => d \in open' \/ s \in abandoned'
    BY <1>1 DEF StoreInv
  <2> QED
    BY <1>1, <1>2, <2>1 DEF Held, host
<1>4. \A d \in Document : AttachedOK(d)'
  BY <1>1, <1>2 DEF StoreInv, AttachedOK, host
<1>5. /\ {} \in SUBSET CallSet /\ calls' = calls \cup {}
      /\ attached' \in [Document -> Source \cup {0}]
      /\ \A d \in Document : attached'[d] \in {attached[d], 0}
  BY <1>1 DEF StoreInv, ShownTypes
<1>6. \A c \in {} : CallOK(c)' /\ (c.of # 0 => kind[c.of] # "none")
  OBVIOUS
<1> QED
  BY <1>1, <1>3, <1>4, <1>5, <1>6, UserKeeps

\* What is opened shows nothing yet.
LEMMA OpensApart ==
  ASSUME DraftsInv, DraftSteps
  PROVE  /\ open \subseteq open' /\ opened \in Nat /\ opened' \in Nat /\ opened <= opened'
         /\ \A d \in open' : d \in open \/ d > opened
<1>1. opened \in Nat
  BY DEF DraftsInv, TitleTypes
<1>2. CASE UNCHANGED <<open, opened>>
  BY <1>1, <1>2
<1>3. ASSUME NEW sql, NEW name, NEW q, Opens(sql, name, q)
      PROVE  opened' = opened + 1 /\ open' = open \cup {opened + 1}
  BY <1>3 DEF Opens
<1>4. UNCHANGED <<open, opened>> \/ \E sql, name, q : Opens(sql, name, q)
  BY DEF DraftSteps, Draft, NewDraft, QueryHost, HandleReply, Type, Format,
         Formatted, SaveQuery,
         LoadSavedQuery, DeleteSavedQuery, RenameSavedQuery, Asks, editors
<1> QED
  BY <1>1, <1>2, <1>3, <1>4

\* What the saved queries do to the documents leaves the sources.
LEMMA OpeningKeeps ==
  ASSUME StoreInv, DraftsInv, DraftsNext
  PROVE  StoreInv'
<1>1. /\ open \subseteq open' /\ opened \in Nat /\ opened' \in Nat /\ opened <= opened'
      /\ \A d \in open' : d \in open \/ d > opened
  BY OpensApart DEF DraftsNext
<1>2. UNCHANGED <<host, calls, answers, inbox, sources, jobs, attached, astray, removed,
                  overtaken, abandoned>>
  BY DEF DraftsNext, wire, ghosts
<1>3. \A op, s : Due(op, s)' <=> Due(op, s)
  BY <1>2 DEF Due
<1>4. \A s \in Source : Held(s)'
  BY <1>1, <1>2, <1>3 DEF StoreInv, Held, host
<1>5. ASSUME NEW d \in Document
      PROVE  AttachedOK(d)'
  <2>1. AttachedOK(d) /\ d \in Nat
    BY DEF StoreInv, Document
  <2>2. attached[d] # 0 => d <= opened' /\ (d \in open' => d \in open)
    BY <1>1, <2>1 DEF AttachedOK
  <2> QED
    BY <1>2, <1>3, <2>1, <2>2 DEF AttachedOK, host
<1>6. /\ {} \in SUBSET CallSet /\ calls' = calls \cup {}
      /\ attached' \in [Document -> Source \cup {0}]
      /\ \A d \in Document : attached'[d] \in {attached[d], 0}
  BY <1>2 DEF StoreInv, ShownTypes
<1>7. \A c \in {} : CallOK(c)' /\ (c.of # 0 => kind[c.of] # "none")
  OBVIOUS
<1> QED
  BY <1>2, <1>4, <1>5, <1>6, <1>7, UserKeeps

-------------------------------------------------------------------------------
(* What the host does                                                        *)

\* The host does nothing to t, and says nothing of it.
SameAt(t, ms, as) ==
  /\ table'[t] = table[t] /\ kind'[t] = kind[t] /\ job'[t] = job[t]
  /\ (Going(t)' <=> Going(t)) /\ (Done(t)' <=> Done(t))
  /\ \A op : ~New(op, t, ms, as)
  /\ ~NewFailure(t, ms, as)

\* It tells the state of a job, if it tells of the job at all.
TellsJob(t, ms) ==
  \/ job'[t] = job[t] /\ \A k \in DOMAIN ms : ms[k].op = "job" => ms[k].of # t
  \/ \E k \in DOMAIN ms : /\ ms[k].op = "job" /\ ms[k].of = t /\ ms[k].state = job'[t]
                          /\ job'[t] # "none"
                          /\ \A l \in DOMAIN ms : l > k => ms[l].op # "job"

\* A job is shown as it is if each change of its state is told last.
LEMMA JobTold ==
  ASSUME StoreInv, NEW ms \in Seq(MessageSet),
         NEW as \in SUBSET MessageSet, Puts(ms, as),
         NEW t \in Source, TellsJob(t, ms), job[t] # "none" => job'[t] # "none",
         jobs' = jobs, overtaken' = overtaken
  PROVE  JobShown(t)'
<1>1. /\ inbox \in Seq(MessageSet) /\ Len(inbox) \in Nat /\ JobShown(t)
      /\ \A k \in DOMAIN ms : k \in Nat /\ k >= 1
      /\ \A i \in DOMAIN inbox : i \in Nat /\ i <= Len(inbox)
  BY DEF StoreInv, SentTypes
<1>2. /\ \A i \in DOMAIN inbox : i \in DOMAIN inbox' /\ inbox'[i] = inbox[i]
      /\ \A k \in DOMAIN ms : /\ Len(inbox) + k \in DOMAIN inbox'
                              /\ inbox'[Len(inbox) + k] = ms[k]
      /\ \A i \in DOMAIN inbox' :
           i \in DOMAIN inbox \/ \E k \in DOMAIN ms : i = Len(inbox) + k /\ inbox'[i] = ms[k]
  BY <1>1, PutsFacts
<1>3. jobs'[t] # "none" => job'[t] # "none"
  BY <1>1 DEF JobShown
<1>4. CASE job'[t] = job[t] /\ \A k \in DOMAIN ms : ms[k].op = "job" => ms[k].of # t
  <2>1. \A i \in DOMAIN inbox' : IsJob(i, t)' => i \in DOMAIN inbox /\ IsJob(i, t)
    <3> SUFFICES ASSUME NEW i \in DOMAIN inbox', IsJob(i, t)'
                 PROVE  i \in DOMAIN inbox /\ IsJob(i, t)
      OBVIOUS
    <3>1. CASE i \in DOMAIN inbox
      BY <1>2, <3>1 DEF IsJob
    <3>2. ASSUME NEW k \in DOMAIN ms, inbox'[i] = ms[k] PROVE FALSE
      BY <1>4, <3>2 DEF IsJob
    <3> QED
      BY <1>2, <3>1, <3>2
  <2>2. \A i \in DOMAIN inbox : /\ i \in DOMAIN inbox' /\ inbox'[i] = inbox[i]
                                /\ IsJob(i, t) => IsJob(i, t)'
    BY <1>2 DEF IsJob
  <2>3. \A i \in DOMAIN inbox' :
          IsJob(i, t)' /\ (\A j \in DOMAIN inbox' : j > i => ~IsJob(j, t)') =>
            inbox'[i].state = job'[t]
    BY <1>1, <1>4, <2>1, <2>2 DEF JobShown
  <2>4. (\A i \in DOMAIN inbox' : ~IsJob(i, t)') => jobs'[t] = job'[t] \/ t \in overtaken'
    BY <1>1, <1>4, <2>2 DEF JobShown
  <2> QED
    BY <1>3, <2>3, <2>4 DEF JobShown
<1>5. ASSUME NEW k \in DOMAIN ms, ms[k].op = "job", ms[k].of = t, ms[k].state = job'[t],
             \A l \in DOMAIN ms : l > k => ms[l].op # "job"
      PROVE  JobShown(t)'
  <2>0. PICK n : n = Len(inbox) + k
    OBVIOUS
  <2>1. n \in DOMAIN inbox' /\ inbox'[n] = ms[k] /\ IsJob(n, t)'
    BY <1>2, <1>5, <2>0 DEF IsJob
  <2>2. ASSUME NEW i \in DOMAIN inbox', IsJob(i, t)',
               \A j \in DOMAIN inbox' : j > i => ~IsJob(j, t)'
        PROVE  inbox'[i].state = job'[t]
    <3>1. ~(n > i)
      BY <2>1, <2>2
    <3>2. CASE i \in DOMAIN inbox
      BY <1>1, <2>0, <3>1, <3>2
    <3>3. ASSUME NEW l \in DOMAIN ms, i = Len(inbox) + l, inbox'[i] = ms[l]
          PROVE  inbox'[i].state = job'[t]
      <4>1. l = k \/ l > k
        BY <1>1, <2>0, <3>1, <3>3
      <4>2. ms[l].op = "job"
        BY <2>2, <3>3 DEF IsJob
      <4> QED
        BY <1>5, <3>3, <4>1, <4>2
    <3> QED
      BY <1>2, <3>2, <3>3
  <2> QED
    BY <1>3, <2>1, <2>2 DEF JobShown
<1> QED
  BY <1>4, <1>5 DEF TellsJob

\* A step of the host preserves the invariant if what it does to the sources of S, and
\* what it says of them, is as it should be, and it does nothing to others.
LEMMA HostTells ==
  ASSUME StoreInv, NEW ms \in Seq(MessageSet),
         NEW as \in SUBSET MessageSet, Puts(ms, as),
         InOrder(ms, as), calls' \subseteq calls,
         UNCHANGED <<sources, jobs, open, attached, opened, ghosts>>,
         HostTypes', Numbered',
         \A t \in Source : kind[t] # "none" => kind'[t] = kind[t],
         \A t \in Source : /\ Order(job[t]) <= Order(job'[t])
                           /\ job[t] # "none" => job'[t] # "none",
         \A a \in as : MessageOK(a)',
         \A k \in DOMAIN ms : \A m : m = ms[k] => MessageOK(m)',
         NEW S \in SUBSET Source,
         \A t \in Source \ S : SameAt(t, ms, as),
         \A t \in S : /\ HostOK(t)' /\ SentOK(t)' /\ ShownOK(t)' /\ kind'[t] # "none"
                      /\ TellsJob(t, ms),
         \A t \in S : table'[t] = "result" => table[t] = "result" \/ New("query", t, ms, as),
         \A c \in calls \ calls' : c.op = "discard" => table'[c.of] # "result",
         \A d \in Document : attached[d] \in S =>
           /\ ~New("query", attached[d], ms, as) /\ ~New("discard", attached[d], ms, as)
           /\ table[attached[d]] \in {"result", "data"} =>
                \/ table'[attached[d]] \in {"result", "data"}
                \/ New("close", attached[d], ms, as) \/ New("remove", attached[d], ms, as)
  PROVE  StoreInv'
<1>1. /\ \A op, t : Due(op, t)' <=> Due(op, t) \/ New(op, t, ms, as)
      /\ \A t : FailureDue(t)' <=> FailureDue(t) \/ NewFailure(t, ms, as)
  BY PutsFacts DEF StoreInv, SentTypes
<1>2. UNCHANGED <<astray, removed, overtaken, abandoned>>
  BY DEF ghosts
<1>3. ShownTypes'
  BY <1>2 DEF StoreInv, ShownTypes
<1>4. OrderInv' /\ AloneInv' /\ AloneToo' /\ QueryIsSent'
  BY PutsInOrder
<1>5. SentTypes' /\ WireOK'
  BY PutsOK
<1>6. ASSUME NEW t \in Source
      PROVE  HostOK(t)' /\ SentOK(t)' /\ ShownOK(t)' /\ (kind[t] = "none" => Unknown(t))'
  <2>1. CASE t \in S
    BY <2>1
  <2>2. CASE t \notin S
    <3>1. SameAt(t, ms, as)
      BY <2>2
    <3>2. HostOK(t) /\ SentOK(t) /\ ShownOK(t) /\ (kind[t] = "none" => Unknown(t))
      BY DEF StoreInv, MadeInv
    <3>3. /\ table'[t] = table[t] /\ kind'[t] = kind[t] /\ job'[t] = job[t] /\ jobs'[t] = jobs[t]
          /\ sources'[t] = sources[t] /\ (Going(t)' <=> Going(t)) /\ (Done(t)' <=> Done(t))
          /\ (t \in removed' <=> t \in removed) /\ (t \in astray => t \in astray')
          /\ \A op : Due(op, t)' <=> Due(op, t)
          /\ (FailureDue(t)' <=> FailureDue(t))
          /\ \A c \in calls' : c.of = t => c \in calls \/ kind[t] # "none"
      BY <1>1, <1>2, <3>1 DEF SameAt
    <3> QED
      BY <3>2, <3>3, ApartFrom
  <2> QED
    BY <2>1, <2>2
<1>7. MadeInv'
  BY <1>6 DEF MadeInv
<1>8. ASSUME NEW t \in Source
      PROVE  JobShown(t)'
  <2>1. TellsJob(t, ms)
    <3>1. CASE t \in S
      BY <3>1
    <3>2. CASE t \notin S
      <4>1. job'[t] = job[t] /\ ~New("job", t, ms, as)
        BY <3>2 DEF SameAt
      <4> QED
        BY <4>1 DEF TellsJob, New
    <3> QED
      BY <3>1, <3>2
  <2> QED
    BY <1>2, <2>1, JobTold
<1>9. ASSUME NEW t \in Source
      PROVE  Held(t)'
  <2>1. Held(t)
    BY DEF StoreInv
  <2>2. table'[t] = "result" => table[t] = "result" \/ New("query", t, ms, as)
    BY DEF SameAt
  <2>3. table'[t] = "result" => \A c \in calls : c.op = "discard" /\ c.of = t => c \in calls'
    OBVIOUS
  <2> QED
    BY <1>1, <1>2, <2>1, <2>2, <2>3 DEF Held
<1>10. ASSUME NEW d \in Document
       PROVE  AttachedOK(d)'
  <2>1. CASE attached[d] = 0
    BY <2>1 DEF AttachedOK
  <2>2. ASSUME NEW t \in Source, t = attached[d]
        PROVE  AttachedOK(d)'
    <3>1. AttachedOK(d) /\ t # 0 /\ kind'[t] = "query"
      BY <2>2 DEF StoreInv, AttachedOK, Source
    <3>2. /\ ~New("query", t, ms, as) /\ ~New("discard", t, ms, as)
          /\ \/ table'[t] = table[t] \/ table'[t] \in {"result", "data"}
             \/ New("close", t, ms, as) \/ New("remove", t, ms, as)
             \/ table[t] \notin {"result", "data"}
      <4>1. CASE t \in S
        BY <2>2, <4>1
      <4>2. CASE t \notin S
        BY <4>2 DEF SameAt
      <4> QED
        BY <4>1, <4>2
    <3> QED
      BY <1>1, <2>2, <3>1, <3>2 DEF AttachedOK
  <2> QED
    BY <2>1, <2>2 DEF StoreInv, ShownTypes
<1> QED
  BY <1>3, <1>4, <1>5, <1>6, <1>7, <1>8, <1>9, <1>10 DEF StoreInv

\* What is told of jobs is told in any order.
Events == {"preview", "job", "ready", "failed"}
JobAnswers == {"import", "failed import", "snapshot", "cancel"}

\* A step of one job, which is told of that source alone.
LEMMA JobTells ==
  ASSUME StoreInv, NEW ms \in Seq(MessageSet),
         NEW as \in SUBSET MessageSet, Puts(ms, as),
         NEW s \in Source, kind[s] # "query",
         \A k \in DOMAIN ms : ms[k].of = s /\ ms[k].op \in Events,
         \A a \in as : a.of = s /\ a.op \in JobAnswers,
         calls' \subseteq calls, \A c \in calls \ calls' : c.op # "discard",
         UNCHANGED <<sources, jobs, open, attached, opened, ghosts>>,
         HostTypes', Numbered',
         \A t \in Source \ {s} : /\ table'[t] = table[t] /\ kind'[t] = kind[t] /\ job'[t] = job[t]
                                 /\ (Going(t)' <=> Going(t)) /\ (Done(t)' <=> Done(t)),
         kind'[s] # "none", kind[s] # "none" => kind'[s] = kind[s],
         Order(job[s]) <= Order(job'[s]), job[s] # "none" => job'[s] # "none",
         \A a \in as : MessageOK(a)',
         \A k \in DOMAIN ms : \A m : m = ms[k] => MessageOK(m)',
         HostOK(s)', SentOK(s)', ShownOK(s)', TellsJob(s, ms), table'[s] # "result"
  PROVE  StoreInv'
<1>1. ~Due("discard", s)
  BY DEF StoreInv, SentOK
<1>2. InOrder(ms, as)
  BY <1>1 DEF InOrder, Late, Events, JobAnswers
<1>3. ASSUME NEW t \in Source \ {s}
      PROVE  SameAt(t, ms, as)
  <2>1. /\ \A k \in DOMAIN ms : ms[k].of # t
        /\ \A a \in as : a.of # t
    OBVIOUS
  <2>2. (\A op : ~New(op, t, ms, as)) /\ ~NewFailure(t, ms, as)
    BY <2>1 DEF New, NewFailure
  <2> QED
    BY <2>2 DEF SameAt
<1>4. /\ {s} \in SUBSET Source
      /\ \A t \in Source : kind[t] # "none" => kind'[t] = kind[t]
  OBVIOUS
<1>5. \A t \in Source : /\ Order(job[t]) <= Order(job'[t])
                        /\ job[t] # "none" => job'[t] # "none"
  BY OrderBound
<1>6. \A c \in calls \ calls' : c.op = "discard" => table'[c.of] # "result"
  OBVIOUS
<1>7. \A d \in Document : attached[d] # s
  BY DEF StoreInv, AttachedOK, Source
<1>8. \A t \in {s} : /\ HostOK(t)' /\ SentOK(t)' /\ ShownOK(t)' /\ kind'[t] # "none"
                     /\ TellsJob(t, ms)
  OBVIOUS
<1>9. \A t \in {s} : table'[t] = "result" => table[t] = "result" \/ New("query", t, ms, as)
  OBVIOUS
<1>10. \A d \in Document : attached[d] \in {s} =>
         /\ ~New("query", attached[d], ms, as) /\ ~New("discard", attached[d], ms, as)
         /\ table[attached[d]] \in {"result", "data"} =>
              \/ table'[attached[d]] \in {"result", "data"}
              \/ New("close", attached[d], ms, as) \/ New("remove", attached[d], ms, as)
  BY <1>7
<1> QED
  BY <1>2, <1>3, <1>4, <1>5, <1>6, <1>8, <1>9, <1>10, HostTells

\* The sources that are made are the first ones, and one more is made at a time.
LEMMA NewSource ==
  ASSUME StoreInv, NEW s \in Source, s = Cardinality(Made) + 1
  PROVE  /\ kind[s] = "none" /\ Unknown(s) /\ HostOK(s) /\ SentOK(s) /\ ShownOK(s)
         /\ \A k : k # "none" /\ kind' = [kind EXCEPT ![s] = k] => Numbered'
         /\ \A d \in Document : attached[d] # s
<1>1. PICK n \in 0 .. MaxSources : \A t \in Source : kind[t] # "none" <=> t <= n
  BY DEF StoreInv, MadeInv, Numbered
<1>2. Made = 1 .. n /\ MaxSources \in Nat
  BY <1>1, SourcesAssumption DEF Made, Source
<1>3. Cardinality(Made) = n /\ n \in Nat
  BY <1>2, FS_Interval
<1>4. s = n + 1 /\ n + 1 \in 0 .. MaxSources
  BY <1>2, <1>3 DEF Source
<1>5. kind[s] = "none"
  BY <1>1, <1>4
<1>6. ASSUME NEW k, k # "none", kind' = [kind EXCEPT ![s] = k]
      PROVE  Numbered'
  <2>1. \A t \in Source : kind'[t] # "none" <=> t <= n + 1
    BY <1>1, <1>3, <1>4, <1>6 DEF StoreInv, HostTypes, Source
  <2> QED
    BY <1>4, <2>1 DEF Numbered
<1>7. Unknown(s) /\ HostOK(s) /\ SentOK(s) /\ ShownOK(s)
  BY <1>5 DEF StoreInv, MadeInv
<1>8. \A d \in Document : attached[d] # s
  BY <1>5 DEF StoreInv, AttachedOK, Source
<1> QED
  BY <1>5, <1>6, <1>7, <1>8

Beside == UNCHANGED <<sources, jobs, open, attached, opened, ghosts>>

\* A job that begins or ends goes on.
LEMMA OrderUp == \A x, y : x \in {"none", y} \/ y \in Final => Order(x) <= Order(y)
<1>1. SUFFICES ASSUME NEW x, NEW y, x \in {"none", y} \/ y \in Final
               PROVE  Order(x) <= Order(y)
  OBVIOUS
<1>2. Order("none") = 0 /\ \A z \in Final : Order(z) = 3
  BY DEF Order, Final
<1> QED
  BY <1>1, <1>2, OrderBound

\* Of an answer alone nothing else is told.
LEMMA OneAnswer ==
  ASSUME NEW m
  PROVE  /\ \A op, t : New(op, t, <<>>, {m}) <=> m.op = op /\ m.of = t
         /\ \A t : NewFailure(t, <<>>, {m}) <=> m.op = "failed import" /\ m.of = t
         /\ DOMAIN <<>> = {}
<1>1. DOMAIN <<>> = {}
  OBVIOUS
<1> QED
  BY <1>1 DEF New, NewFailure

\* What a call that is served is answered.
LEMMA Answers ==
  ASSUME StoreInv, NEW c, NEW m \in MessageSet, Answer(c, m)
  PROVE  /\ c \in calls /\ c \in CallSet /\ CallOK(c) /\ calls' = calls \ {c}
         /\ answers' = answers \cup {m}
         /\ inbox' = inbox => Puts(<<>>, {m})
         /\ \A ms : Sends(ms) => Puts(ms, {m})
         /\ <<>> \in Seq(MessageSet) /\ {m} \in SUBSET MessageSet
BY DEF Answer, StoreInv, SentTypes, WireOK, Puts, Sends

\* What starts the job of a new source, or fails to, is told of that source.
LEMMA StartTells ==
  ASSUME StoreInv, Beside, NEW s \in Source, s = Cardinality(Made) + 1,
         NEW ms \in Seq(MessageSet), NEW as \in SUBSET MessageSet, Puts(ms, as),
         \A k \in DOMAIN ms : ms[k].of = s /\ ms[k].op \in Events,
         \A a \in as : a.of = s /\ a.op \in JobAnswers,
         NEW c \in calls, c.op # "discard", calls' = calls \ {c}, HostTypes',
         NEW what \in {"import", "snapshot"}, kind' = [kind EXCEPT ![s] = what],
         UNCHANGED <<table, committed>>,
         \A t \in Source \ {s} : job'[t] = job[t],
         \A a \in as : MessageOK(a)',
         \A k \in DOMAIN ms : \A m : m = ms[k] => MessageOK(m)',
         job'[s] \in {"none", "queued"},
         \A op \in Ops : New(op, s, ms, as) =>
           \/ op \in {"failed import", "import", "preview"} /\ what = "import"
           \/ op \in {"job", "snapshot"} /\ job'[s] = "queued",
         NewFailure(s, ms, as) => job'[s] = "none",
         TellsJob(s, ms)
  PROVE  StoreInv'
<1>0. /\ kind[s] = "none" /\ Unknown(s) /\ Numbered'
  BY NewSource
<1>1. /\ UNCHANGED <<table, committed, sources, jobs, astray, removed>>
      /\ kind'[s] = what /\ \A t \in Source \ {s} : kind'[t] = kind[t]
      /\ table[s] = "none" /\ job[s] = "none" /\ ~Going(s) /\ ~Done(s)
      /\ \A op \in Ops : ~Due(op, s)
      /\ sources[s] = Absent /\ s \notin removed
      /\ \A t : (Going(t)' <=> Going(t)) /\ (Done(t)' <=> Done(t))
  <2>1. UNCHANGED <<table, committed, sources, jobs, astray, removed>>
    BY DEF Beside, ghosts
  <2>2. kind'[s] = what /\ \A t \in Source \ {s} : kind'[t] = kind[t]
    <3>1. kind \in [Source -> {"none", "import", "snapshot", "query"}]
      BY DEF StoreInv, HostTypes
    <3> QED
      BY <3>1
  <2> QED
    BY <1>0, <2>1, <2>2 DEF Unknown, Going, Done
<1>2. ~FailureDue(s)
  <2>1. /\ ~Due("failed import", s) /\ ~Due("failed", s)
    BY <1>1 DEF Ops
  <2> QED
    BY <2>1 DEF FailureDue, Due
<1>3. /\ \A op, t : Due(op, t)' <=> Due(op, t) \/ New(op, t, ms, as)
      /\ \A t : FailureDue(t)' <=> FailureDue(t) \/ NewFailure(t, ms, as)
  BY PutsFacts DEF StoreInv, SentTypes
<1>4. \A op \in Ops : Due(op, s)' =>
        \/ op \in {"failed import", "import", "preview"} /\ what = "import"
        \/ op \in {"job", "snapshot"} /\ job'[s] = "queued"
  BY <1>1, <1>3
<1>5. FailureDue(s)' /\ kind'[s] = "import" => Dead(s)'
  BY <1>1, <1>2, <1>3 DEF Dead
<1>6. HostOK(s)'
  BY <1>1 DEF HostOK
<1>7. SentOK(s)'
  <2>1. /\ ~Due("ready", s)' /\ ~Due("save", s)' /\ ~Due("rename", s)' /\ ~EndDue(s)'
        /\ ~Due("result", s)' /\ ~Due("query", s)' /\ ~Due("discard", s)'
        /\ ~Due("failed", s)' /\ ~Due("cancel", s)'
    BY <1>4 DEF Ops, EndDue
  <2>2. Due("job", s)' \/ Due("snapshot", s)' => job'[s] # "none"
    BY <1>4 DEF Ops
  <2>3. Due("preview", s)' \/ Due("import", s)' \/ Due("failed import", s)' => kind'[s] = "import"
    BY <1>1, <1>4 DEF Ops
  <2> QED
    BY <1>5, <2>1, <2>2, <2>3 DEF SentOK
<1>8. ShownOK(s)'
  BY <1>1, ShownFields DEF ShownOK
<1>9. Order(job[s]) <= Order(job'[s])
  BY <1>1, OrderUp
<1>10. \A e \in calls \ calls' : e.op # "discard"
  OBVIOUS
<1>11. \A t \in Source \ {s} : /\ table'[t] = table[t] /\ kind'[t] = kind[t] /\ job'[t] = job[t]
                               /\ (Going(t)' <=> Going(t)) /\ (Done(t)' <=> Done(t))
  BY <1>1
<1>12. /\ kind'[s] # "none" /\ (kind[s] # "none" => kind'[s] = kind[s])
       /\ kind[s] # "query"
       /\ (job[s] # "none" => job'[s] # "none") /\ table'[s] # "result"
       /\ calls' \subseteq calls
       /\ UNCHANGED <<sources, jobs, open, attached, opened, ghosts>>
  BY <1>0, <1>1 DEF Beside
<1> QED
  BY <1>0, <1>6, <1>7, <1>8, <1>9, <1>10, <1>11, <1>12, JobTells

\* An import that starts is a new source.
LEMMA StartImportKeeps ==
  ASSUME StoreInv, Beside, NEW c \in calls,
         NEW s \in Source, s = Cardinality(Made) + 1,
         StartImport(c, s)
  PROVE  StoreInv'
<1>0. kind[s] = "none" /\ job[s] = "none" /\ kind' = [kind EXCEPT ![s] = "import"]
  BY NewSource DEF StartImport, Unknown
<1>1. /\ UNCHANGED <<table, committed>> /\ s # 0
      /\ kind'[s] = "import" /\ \A t \in Source \ {s} : kind'[t] = kind[t]
  <2>1. kind \in [Source -> {"none", "import", "snapshot", "query"}]
    BY DEF StoreInv, HostTypes
  <2>2. UNCHANGED <<table, committed>>
    BY DEF StartImport
  <2>3. s # 0
    BY DEF Source
  <2> QED
    BY <1>0, <2>1, <2>2, <2>3
<1>2. /\ c.op = "import" /\ c.op # "discard"
      /\ c.for # 0 => c.for \in Source /\ kind[c.for] = "import" /\ c.for # s
      /\ c.for \in Document \cup Source \cup {0}
  BY <1>0 DEF StartImport, StoreInv, SentTypes, WireOK, CallOK, ForOK, CallSet
<1>3. ASSUME NEW m, m = Message("failed import", s, "failed", c.for), Answer(c, m),
             UNCHANGED <<job, inbox>>
      PROVE  StoreInv'
  <2>1. /\ m \in MessageSet /\ m.op = "failed import" /\ m.of = s /\ m.state = "failed"
        /\ m.for = c.for
    BY <1>2, <1>3 DEF Message, MessageSet, Ops, JobStates, Final
  <2>2. /\ Puts(<<>>, {m}) /\ <<>> \in Seq(MessageSet) /\ {m} \in SUBSET MessageSet
        /\ calls' = calls \ {c}
    BY <1>3, <2>1, Answers
  <2>3. /\ \A op, t : New(op, t, <<>>, {m}) <=> (op = "failed import" /\ t = s)
        /\ DOMAIN <<>> = {}
    BY <2>1, OneAnswer
  <2>4. HostTypes'
    BY <1>0, <1>1, <1>3 DEF StoreInv, HostTypes
  <2>5. \A a \in {m} : MessageOK(a)'
    <3>1. ForOK(m)'
      BY <1>1, <1>2, <2>1 DEF ForOK
    <3> QED
      BY <1>1, <2>1, <3>1 DEF MessageOK
  <2>6. TellsJob(s, <<>>)
    BY <1>3, <2>3 DEF TellsJob
  <2>7. /\ \A a \in {m} : a.of = s /\ a.op \in JobAnswers
        /\ job'[s] \in {"none", "queued"} /\ job'[s] = "none"
        /\ \A t \in Source \ {s} : job'[t] = job[t]
    BY <1>0, <1>3, <2>1 DEF JobAnswers
  <2>8. /\ \A op \in Ops : New(op, s, <<>>, {m}) => op = "failed import"
        /\ \A k \in DOMAIN <<>> : <<>>[k].of = s /\ <<>>[k].op \in Events
        /\ \A k \in DOMAIN <<>> : \A e : e = <<>>[k] => MessageOK(e)'
    BY <2>3
  <2> QED
    BY <1>0, <1>1, <1>2, <2>2, <2>4, <2>5, <2>6, <2>7, <2>8, StartTells
<1>4. ASSUME NEW m, m = Message("preview", s, "preparing", 0),
             NEW n, n = Message("job", s, "queued", 0), Sends(<<m, n>>),
             job' = [job EXCEPT ![s] = "queued"],
             NEW x, x = Message("import", s, "queued", c.for), Answer(c, x)
      PROVE  StoreInv'
  <2>1. /\ m \in MessageSet /\ m.op = "preview" /\ m.of = s
        /\ n \in MessageSet /\ n.op = "job" /\ n.of = s /\ n.state = "queued"
        /\ x \in MessageSet /\ x.op = "import" /\ x.of = s /\ x.state = "queued" /\ x.for = c.for
    <3>2. m \in MessageSet /\ m.op = "preview" /\ m.of = s
      BY <1>4 DEF Message, MessageSet, Ops, JobStates, Final
    <3>3. n \in MessageSet /\ n.op = "job" /\ n.of = s /\ n.state = "queued"
      BY <1>4 DEF Message, MessageSet, Ops, JobStates, Final
    <3>4. x \in MessageSet /\ x.op = "import" /\ x.of = s /\ x.state = "queued" /\ x.for = c.for
      BY <1>2, <1>4 DEF Message, MessageSet, Ops, JobStates, Final
    <3> QED
      BY <3>2, <3>3, <3>4
  <2>2. /\ Puts(<<m, n>>, {x}) /\ <<m, n>> \in Seq(MessageSet) /\ {x} \in SUBSET MessageSet
        /\ calls' = calls \ {c}
    <3>1. <<m, n>> \in Seq(MessageSet)
      BY <2>1
    <3> QED
      BY <1>4, <2>1, <3>1, Answers
  <2>3. /\ \A op, t : New(op, t, <<m, n>>, {x}) => op \in {"preview", "job", "import"}
        /\ \A t : ~NewFailure(t, <<m, n>>, {x})
        /\ DOMAIN <<m, n>> = {1, 2} /\ <<m, n>>[1] = m /\ <<m, n>>[2] = n
    <3>1. DOMAIN <<m, n>> = {1, 2} /\ <<m, n>>[1] = m /\ <<m, n>>[2] = n
      OBVIOUS
    <3>2. \A op, t : New(op, t, <<m, n>>, {x}) => op \in {"preview", "job", "import"}
      BY <2>1, <3>1 DEF New
    <3>3. \A t : ~NewFailure(t, <<m, n>>, {x})
      BY <2>1, <3>1 DEF NewFailure
    <3> QED
      BY <3>1, <3>2, <3>3
  <2>4. HostTypes' /\ job'[s] = "queued" /\ \A t \in Source \ {s} : job'[t] = job[t]
    BY <1>0, <1>1, <1>4 DEF StoreInv, HostTypes, JobStates
  <2>5. MessageOK(x)' /\ MessageOK(m)' /\ MessageOK(n)'
    <3>1. ForOK(x)' /\ ForOK(m)' /\ ForOK(n)'
      BY <1>1, <1>2, <2>1 DEF ForOK
    <3> QED
      BY <1>1, <2>1, <2>4, <3>1, OrderBound DEF MessageOK, JobStates
  <2>6. TellsJob(s, <<m, n>>)
    BY <2>1, <2>3, <2>4 DEF TellsJob
  <2>7. /\ \A a \in {x} : a.of = s /\ a.op \in JobAnswers /\ MessageOK(a)'
        /\ \A k \in DOMAIN <<m, n>> : <<m, n>>[k].of = s /\ <<m, n>>[k].op \in Events
        /\ \A k \in DOMAIN <<m, n>> : \A e : e = <<m, n>>[k] => MessageOK(e)'
    BY <2>1, <2>3, <2>5 DEF JobAnswers, Events
  <2>8. \A op \in Ops : New(op, s, <<m, n>>, {x}) =>
          \/ op \in {"failed import", "import", "preview"} /\ "import" = "import"
          \/ op \in {"job", "snapshot"} /\ job'[s] = "queued"
    BY <2>3, <2>4
  <2> QED
    <3>1. /\ job'[s] \in {"none", "queued"}
          /\ NewFailure(s, <<m, n>>, {x}) => job'[s] = "none"
      BY <2>3, <2>4
    <3> QED
      BY <1>0, <1>1, <1>2, <2>2, <2>4, <2>6, <2>7, <2>8, <3>1, StartTells
<1> QED
  BY <1>3, <1>4 DEF StartImport

\* So is a snapshot.
LEMMA StartSnapshotKeeps ==
  ASSUME StoreInv, Beside, NEW c \in calls,
         NEW s \in Source, s = Cardinality(Made) + 1,
         StartSnapshot(c, s)
  PROVE  StoreInv'
<1>0. /\ kind[s] = "none" /\ job[s] = "none" /\ kind' = [kind EXCEPT ![s] = "snapshot"]
      /\ job' = [job EXCEPT ![s] = "queued"]
  BY NewSource DEF StartSnapshot, Unknown
<1>1. UNCHANGED <<table, committed>> /\ s # 0 /\ c.op = "snapshot" /\ c.op # "discard"
  BY DEF StartSnapshot, Source
<1>2. PICK n : n = Message("job", s, "queued", 0)
  OBVIOUS
<1>3. PICK x : x = Message("snapshot", s, "queued", 0)
  OBVIOUS
<1>4. /\ n \in MessageSet /\ n.op = "job" /\ n.of = s /\ n.state = "queued"
      /\ x \in MessageSet /\ x.op = "snapshot" /\ x.of = s /\ x.state = "queued"
  BY <1>2, <1>3 DEF Message, MessageSet, Ops, JobStates, Final
<1>5. /\ Puts(<<n>>, {x}) /\ <<n>> \in Seq(MessageSet) /\ {x} \in SUBSET MessageSet
      /\ calls' = calls \ {c}
  <2>1. <<n>> \in Seq(MessageSet) /\ Sends(<<n>>) /\ Answer(c, x)
    BY <1>2, <1>3, <1>4 DEF StartSnapshot
  <2> QED
    BY <1>4, <2>1, Answers
<1>6. /\ DOMAIN <<n>> = {1} /\ <<n>>[1] = n
      /\ \A op, t : New(op, t, <<n>>, {x}) => op \in {"job", "snapshot"}
      /\ \A t : ~NewFailure(t, <<n>>, {x})
  <2>1. DOMAIN <<n>> = {1} /\ <<n>>[1] = n
    OBVIOUS
  <2>2. \A op, t : New(op, t, <<n>>, {x}) => op \in {"job", "snapshot"}
    BY <1>4, <2>1 DEF New
  <2>3. \A t : ~NewFailure(t, <<n>>, {x})
    BY <1>4, <2>1 DEF NewFailure
  <2> QED
    BY <2>1, <2>2, <2>3
<1>7. /\ HostTypes' /\ job'[s] = "queued" /\ \A t \in Source \ {s} : job'[t] = job[t]
  BY <1>0, <1>1 DEF StoreInv, HostTypes, JobStates
<1>8. MessageOK(x)' /\ MessageOK(n)'
  <2>1. ForOK(x)' /\ ForOK(n)'
    BY <1>4 DEF ForOK
  <2> QED
    BY <1>1, <1>4, <1>7, <2>1, OrderBound DEF MessageOK, JobStates
<1>9. TellsJob(s, <<n>>)
  BY <1>4, <1>6, <1>7 DEF TellsJob
<1>10. /\ \A a \in {x} : a.of = s /\ a.op \in JobAnswers /\ MessageOK(a)'
       /\ \A k \in DOMAIN <<n>> : <<n>>[k].of = s /\ <<n>>[k].op \in Events
       /\ \A k \in DOMAIN <<n>> : \A e : e = <<n>>[k] => MessageOK(e)'
       /\ \A op \in Ops : New(op, s, <<n>>, {x}) =>
            \/ op \in {"failed import", "import", "preview"} /\ "snapshot" = "import"
            \/ op \in {"job", "snapshot"} /\ job'[s] = "queued"
  BY <1>4, <1>6, <1>7, <1>8 DEF JobAnswers, Events
<1> QED
  BY <1>0, <1>1, <1>5, <1>6, <1>7, <1>9, <1>10, StartTells

\* A source that has a job is no result.
LEMMA JobThere ==
  ASSUME StoreInv, NEW s \in Source, job[s] # "none"
  PROVE  /\ kind[s] # "none" /\ kind[s] # "query" /\ table[s] # "result"
         /\ HostOK(s) /\ SentOK(s) /\ ShownOK(s) /\ s # 0
BY DEF StoreInv, MadeInv, Unknown, HostOK, Source

\* What its job does is told, and agrees with what was.
LEMMA JobSent ==
  ASSUME StoreInv, Beside, NEW s \in Source, job[s] # "none", job'[s] # "none",
         NEW ms \in Seq(MessageSet), NEW as \in SUBSET MessageSet, Puts(ms, as),
         kind'[s] = kind[s],
         table'[s] = table[s] \/ (Going(s) /\ Done(s)' /\ table'[s] = "data"),
         \A op \in Ops : New(op, s, ms, as) =>
           op \in {"job", "cancel", "failed"} \/ (op = "ready" /\ table'[s] \in {"data", "gone"}),
         NewFailure(s, ms, as) /\ kind[s] = "import" => Dead(s)',
         Dead(s) => Dead(s)',
         Done(s) => Done(s)' \/ New("ready", s, ms, as)
  PROVE  SentOK(s)' /\ ShownOK(s)'
<1>1. /\ kind[s] # "none" /\ kind[s] # "query" /\ table[s] # "result"
      /\ HostOK(s) /\ SentOK(s) /\ ShownOK(s)
  BY JobThere
<1>2. /\ \A op, t : Due(op, t)' <=> Due(op, t) \/ New(op, t, ms, as)
      /\ \A t : FailureDue(t)' <=> FailureDue(t) \/ NewFailure(t, ms, as)
  BY PutsFacts DEF StoreInv, SentTypes
<1>3. UNCHANGED <<sources, astray, removed>>
  BY DEF Beside, ghosts
<1>4. \A op \in Ops : op \notin {"job", "cancel", "failed", "ready"} => (Due(op, s)' <=> Due(op, s))
  BY <1>2
<1>5. /\ Due("preview", s)' <=> Due("preview", s)
      /\ Due("import", s)' <=> Due("import", s)
      /\ Due("failed import", s)' <=> Due("failed import", s)
      /\ Due("save", s)' <=> Due("save", s)
      /\ Due("rename", s)' <=> Due("rename", s)
      /\ Due("result", s)' <=> Due("result", s)
      /\ Due("query", s)' <=> Due("query", s)
      /\ Due("discard", s)' <=> Due("discard", s)
      /\ EndDue(s)' <=> EndDue(s)
      /\ Due("ready", s)' => Due("ready", s) \/ table'[s] \in {"data", "gone"}
      /\ Due("ready", s) => Due("ready", s)'
  BY <1>2, <1>4 DEF Ops, EndDue
<1>6. table[s] # "none" => table'[s] = table[s]
  BY <1>1 DEF HostOK
<1>7. SentOK(s)'
  <2>1. FailureDue(s)' /\ kind[s] = "import" => Dead(s)'
    BY <1>1, <1>2 DEF SentOK
  <2> QED
    BY <1>1, <1>3, <1>5, <1>6, <2>1 DEF SentOK
<1>8. ShownOK(s)'
  <2>1. table'[s] = "data" /\ s \notin astray =>
          Done(s)' \/ Due("ready", s)' \/ sources[s].status = "ready"
    BY <1>1, <1>2, <1>5, <1>6 DEF ShownOK, Ops
  <2>2. table'[s] # "result"
    BY <1>1
  <2> QED
    BY <1>1, <1>3, <1>5, <1>6, <2>1, <2>2 DEF ShownOK
<1> QED
  BY <1>7, <1>8

\* A step of a job that is told of.
JobMove(s, ms, as) ==
  /\ job[s] # "none" /\ job'[s] # "none"
  /\ ms \in Seq(MessageSet) /\ as \in SUBSET MessageSet /\ Puts(ms, as)
  /\ \A k \in DOMAIN ms : /\ ms[k].of = s /\ ms[k].op \in Events
                          /\ \A m : m = ms[k] => MessageOK(m)'
  /\ \A a \in as : a.of = s /\ a.op \in JobAnswers /\ MessageOK(a)'
  /\ calls' \subseteq calls /\ \A c \in calls \ calls' : c.op # "discard"
  /\ kind' = kind /\ HostTypes'
  /\ \A t \in Source \ {s} : /\ table'[t] = table[t] /\ job'[t] = job[t]
                             /\ (Going(t)' <=> Going(t)) /\ (Done(t)' <=> Done(t))
  /\ Order(job[s]) <= Order(job'[s])
  /\ TellsJob(s, ms) /\ HostOK(s)'
  /\ table'[s] = table[s] \/ (Going(s) /\ Done(s)' /\ table'[s] = "data")
  /\ \A op \in Ops : New(op, s, ms, as) =>
       op \in {"job", "cancel", "failed"} \/ (op = "ready" /\ table'[s] \in {"data", "gone"})
  /\ NewFailure(s, ms, as) /\ kind[s] = "import" => Dead(s)'
  /\ Dead(s) => Dead(s)'
  /\ Done(s) => Done(s)' \/ New("ready", s, ms, as)

\* A step of a job that is there preserves the invariant.
LEMMA JobMoves ==
  ASSUME StoreInv, Beside, NEW s \in Source, NEW ms, NEW as, JobMove(s, ms, as)
  PROVE  StoreInv'
<1>0. /\ ms \in Seq(MessageSet) /\ as \in SUBSET MessageSet /\ Puts(ms, as)
      /\ job[s] # "none" /\ job'[s] # "none"
  BY DEF JobMove
<1>1. /\ kind[s] # "none" /\ kind[s] # "query" /\ table[s] # "result"
  BY <1>0, JobThere
<1>2. HostTypes' /\ Numbered' /\ kind' = kind
  BY DEF StoreInv, MadeInv, Numbered, JobMove
<1>3. SentOK(s)' /\ ShownOK(s)'
  <2>1. /\ kind'[s] = kind[s]
        /\ table'[s] = table[s] \/ (Going(s) /\ Done(s)' /\ table'[s] = "data")
        /\ \A op \in Ops : New(op, s, ms, as) =>
             op \in {"job", "cancel", "failed"} \/ (op = "ready" /\ table'[s] \in {"data", "gone"})
        /\ NewFailure(s, ms, as) /\ kind[s] = "import" => Dead(s)'
        /\ Dead(s) => Dead(s)'
        /\ Done(s) => Done(s)' \/ New("ready", s, ms, as)
    BY DEF JobMove
  <2> QED
    BY <1>0, <2>1, JobSent
<1>4. UNCHANGED <<sources, jobs, open, attached, opened, ghosts>>
  BY DEF Beside
<1>5. /\ \A t \in Source \ {s} : /\ table'[t] = table[t] /\ kind'[t] = kind[t] /\ job'[t] = job[t]
                                 /\ (Going(t)' <=> Going(t)) /\ (Done(t)' <=> Done(t))
      /\ kind'[s] # "none" /\ (kind[s] # "none" => kind'[s] = kind[s])
      /\ (job[s] # "none" => job'[s] # "none") /\ table'[s] # "result"
  BY <1>0, <1>1, <1>2 DEF JobMove
<1>6. /\ \A k \in DOMAIN ms : ms[k].of = s /\ ms[k].op \in Events
      /\ \A k \in DOMAIN ms : \A m : m = ms[k] => MessageOK(m)'
      /\ \A a \in as : a.of = s /\ a.op \in JobAnswers
      /\ \A a \in as : MessageOK(a)'
      /\ calls' \subseteq calls /\ \A c \in calls \ calls' : c.op # "discard"
      /\ Order(job[s]) <= Order(job'[s]) /\ TellsJob(s, ms) /\ HostOK(s)'
  BY DEF JobMove
<1> QED
  BY <1>0, <1>1, <1>2, <1>3, <1>4, <1>5, <1>6, JobTells

\* What the host has of the sources, and the queue.
LEMMA HostFuns ==
  StoreInv => /\ table \in [Source -> {"none", "result", "data", "gone"}]
              /\ kind \in [Source -> {"none", "import", "snapshot", "query"}]
              /\ job \in [Source -> JobStates]
              /\ inbox \in Seq(MessageSet)
              /\ \A s \in Source : s # 0
BY DEF StoreInv, HostTypes, SentTypes, Source

\* A job that is cancelled is told so, unless it ended before.
LEMMA ServeCancelKeeps ==
  ASSUME StoreInv, Beside, NEW c \in calls, ServeCancel(c)
  PROVE  StoreInv'
<1>1. /\ c.op = "cancel" /\ c.op # "discard" /\ c.of # 0 /\ job[c.of] # "none" /\ c.of \in Source
      /\ UNCHANGED <<table, kind, committed>>
  BY DEF ServeCancel, StoreInv, SentTypes, WireOK, CallOK, CallSet
<1>2. PICK s \in Source : s = c.of
  BY <1>1
<1>3. PICK end \in Final : end = IF job[s] \in Final THEN job[s] ELSE "cancelled"
  BY DEF Final
<1>4. PICK x : x = Message("cancel", s, end, 0)
  OBVIOUS
<1>5. PICK n : n = Message("job", s, "cancelled", 0)
  OBVIOUS
<1>6. /\ n \in MessageSet /\ n.op = "job" /\ n.of = s /\ n.state = "cancelled"
      /\ x \in MessageSet /\ x.op = "cancel" /\ x.of = s /\ x.state = end
  BY <1>4, <1>5 DEF Message, MessageSet, Ops, JobStates, Final
<1>7. Answer(c, x) /\ job' = [job EXCEPT ![s] = end]
  BY <1>1, <1>2, <1>3, <1>4, HostFuns DEF ServeCancel
<1>8. /\ HostTypes' /\ job'[s] = end /\ end # "none" /\ end \in JobStates
      /\ \A t \in Source \ {s} : /\ table'[t] = table[t] /\ job'[t] = job[t]
                                 /\ (Going(t)' <=> Going(t)) /\ (Done(t)' <=> Done(t))
  BY <1>1, <1>3, <1>7 DEF StoreInv, HostTypes, JobStates, Final, Going, Done
<1>9. MessageOK(x)' /\ MessageOK(n)'
  <2>1. ForOK(x)' /\ ForOK(n)'
    BY <1>6 DEF ForOK
  <2>2. s # 0 /\ "cancelled" \in JobStates
    BY DEF Source, JobStates, Final
  <2> QED
    BY <1>6, <1>8, <2>1, <2>2, OrderUp DEF MessageOK
<1>10. /\ HostOK(s)' /\ (Dead(s) => Dead(s)')
       /\ Order(job[s]) <= Order(job'[s])
  <2>1. HostOK(s) /\ (Going(s)' <=> Going(s)) /\ (Done(s)' <=> Done(s)) /\ kind[s] # "query"
    BY <1>1, <1>2, JobThere DEF Going, Done
  <2>2. end \notin {"none", "queued"}
    BY <1>3 DEF Final
  <2> QED
    BY <1>1, <1>3, <1>8, <2>1, <2>2, OrderUp DEF HostOK, Dead
<1>11. /\ job[s] # "none" /\ job'[s] # "none"
       /\ calls' = calls \ {c} /\ calls' \subseteq calls
       /\ \A e \in calls \ calls' : e.op # "discard"
       /\ {x} \in SUBSET MessageSet
       /\ \A a \in {x} : a.of = s /\ a.op \in JobAnswers /\ MessageOK(a)'
       /\ kind' = kind /\ table'[s] = table[s] /\ (Done(s) => Done(s)')
  BY <1>1, <1>2, <1>6, <1>7, <1>8, <1>9 DEF Answer, JobAnswers, Done
<1>20. ASSUME NEW ms \in Seq(MessageSet), Puts(ms, {x}), TellsJob(s, ms),
              \A k \in DOMAIN ms : /\ ms[k].of = s /\ ms[k].op \in Events
                                   /\ \A m : m = ms[k] => MessageOK(m)',
              \A op, t : New(op, t, ms, {x}) => op \in {"job", "cancel"},
              \A t : ~NewFailure(t, ms, {x})
       PROVE  StoreInv'
  <2>1. \A op \in Ops : New(op, s, ms, {x}) =>
          op \in {"job", "cancel", "failed"} \/ (op = "ready" /\ table'[s] \in {"data", "gone"})
    BY <1>20
  <2>2. JobMove(s, ms, {x})
    BY <1>8, <1>10, <1>11, <1>20, <2>1 DEF JobMove
  <2> QED
    BY <2>2, JobMoves
<1>12. CASE job[s] \in Final
  <2>0. PICK ms : ms = <<>>
    OBVIOUS
  <2>9. ms \in Seq(MessageSet)
    BY <2>0
  <2>1. Puts(ms, {x})
    BY <1>1, <1>2, <1>6, <1>7, <1>12, <2>0, Answers DEF ServeCancel
  <2>2. /\ \A op, t : New(op, t, ms, {x}) <=> (op = "cancel" /\ t = s)
        /\ \A t : ~NewFailure(t, ms, {x})
        /\ DOMAIN ms = {}
    BY <1>6, <2>0, OneAnswer
  <2>3. TellsJob(s, ms)
    BY <1>3, <1>8, <1>12, <2>2 DEF TellsJob
  <2> QED
    BY <1>20, <2>1, <2>2, <2>3, <2>9
<1>13. CASE job[s] \notin Final
  <2>1. Puts(<<n>>, {x}) /\ <<n>> \in Seq(MessageSet)
    <3>1. Sends(<<n>>)
      BY <1>1, <1>2, <1>5, <1>13 DEF ServeCancel
    <3>2. <<n>> \in Seq(MessageSet)
      BY <1>6
    <3> QED
      BY <1>6, <1>7, <3>1, <3>2, Answers
  <2>2. /\ DOMAIN <<n>> = {1} /\ <<n>>[1] = n
    OBVIOUS
  <2>3. /\ \A op, t : New(op, t, <<n>>, {x}) => op \in {"job", "cancel"}
        /\ \A t : ~NewFailure(t, <<n>>, {x})
    BY <1>6, <2>2 DEF New, NewFailure
  <2>4. TellsJob(s, <<n>>)
    BY <1>3, <1>6, <1>8, <1>13, <2>2 DEF TellsJob
  <2>5. \A k \in DOMAIN <<n>> : /\ <<n>>[k].of = s /\ <<n>>[k].op \in Events
                                 /\ \A m : m = <<n>>[k] => MessageOK(m)'
    BY <1>6, <1>9, <2>2 DEF Events
  <2> QED
    BY <1>20, <2>1, <2>3, <2>4, <2>5
<1> QED
  BY <1>12, <1>13

\* A step of the runner, which serves no call.
LEMMA RunnerMoves ==
  ASSUME StoreInv, NEW s \in Source, NEW ms \in Seq(MessageSet), Puts(ms, {}),
         job[s] # "none", job'[s] # "none",
         \A k \in DOMAIN ms : /\ ms[k].of = s /\ ms[k].op \in {"job", "ready", "failed"}
                              /\ ms[k].op = "ready" => table'[s] \in {"data", "gone"}
                              /\ ms[k].op = "job" => ms[k].state \in JobStates \ {"none"}
                              /\ ms[k].op = "failed" => ms[k].state \in {"failed", "cancelled"}
                              /\ ms[k].op = "failed" /\ kind[s] = "import" => Dead(s)',
         UNCHANGED <<calls, kind>>, HostTypes',
         \A t \in Source \ {s} : /\ table'[t] = table[t] /\ job'[t] = job[t]
                                 /\ (Going(t)' <=> Going(t)) /\ (Done(t)' <=> Done(t)),
         Order(job[s]) <= Order(job'[s]), TellsJob(s, ms), HostOK(s)',
         table'[s] = table[s] \/ (Going(s) /\ Done(s)' /\ table'[s] = "data"),
         Dead(s) => Dead(s)',
         Done(s) => Done(s)' \/ New("ready", s, ms, {})
  PROVE  JobMove(s, ms, {})
<1>1. \A k \in DOMAIN ms : ms[k].op \in Events
  BY DEF Events
<1>2. ASSUME NEW k \in DOMAIN ms, NEW m, m = ms[k]
      PROVE  MessageOK(m)'
  <2>1. /\ m.of = s /\ s # 0 /\ m.op \in {"job", "ready", "failed"}
        /\ m.op = "job" => m.state \in JobStates \ {"none"}
        /\ m.op = "failed" => m.state \in {"failed", "cancelled"}
    BY <1>2 DEF Source
  <2> QED
    BY <2>1 DEF MessageOK, ForOK
<1>3. \A op \in Ops : New(op, s, ms, {}) =>
        op \in {"job", "cancel", "failed"} \/ (op = "ready" /\ table'[s] \in {"data", "gone"})
  BY DEF New
<1>4. NewFailure(s, ms, {}) /\ kind[s] = "import" => Dead(s)'
  BY DEF NewFailure
<1>5. {} \in SUBSET MessageSet /\ calls' \subseteq calls
  OBVIOUS
<1> QED
  BY <1>1, <1>2, <1>3, <1>4, <1>5 DEF JobMove

\* A job that starts is about to commit,
LEMMA JobStartsKeeps ==
  ASSUME StoreInv, Beside, NEW s \in Source, JobStarts(s)
  PROVE  StoreInv'
<1>1. /\ job[s] = "queued" /\ job' = [job EXCEPT ![s] = "running"]
      /\ committed' = committed \cup {<<s, "going">>}
      /\ UNCHANGED <<table, kind, calls, answers>>
  BY DEF JobStarts
<1>2. PICK n : n = Message("job", s, "running", 0)
  OBVIOUS
<1>3. /\ n \in MessageSet /\ n.op = "job" /\ n.of = s /\ n.state = "running"
  BY <1>2 DEF Message, MessageSet, Ops, JobStates, Final
<1>4. Puts(<<n>>, {}) /\ <<n>> \in Seq(MessageSet) /\ DOMAIN <<n>> = {1} /\ <<n>>[1] = n
  BY <1>1, <1>2, <1>3 DEF Puts, JobStarts, Sends
<1>5. /\ HostTypes' /\ job'[s] = "running"
      /\ \A t \in Source \ {s} : /\ table'[t] = table[t] /\ job'[t] = job[t]
                                 /\ (Going(t)' <=> Going(t)) /\ (Done(t)' <=> Done(t))
      /\ Going(s)' /\ (Done(s)' <=> Done(s)) /\ table'[s] = table[s] /\ kind'[s] = kind[s]
  BY <1>1 DEF StoreInv, HostTypes, JobStates, Going, Done
<1>6. HostOK(s) /\ table[s] = "none" /\ ~Done(s) /\ ~Dead(s) /\ kind[s] # "query"
  BY <1>1, JobThere DEF HostOK, Dead
<1>7. HostOK(s)'
  BY <1>5, <1>6 DEF HostOK
<1>8. Order(job[s]) <= Order(job'[s])
  BY <1>1, <1>5 DEF Order, Final
<1>9. TellsJob(s, <<n>>)
  BY <1>3, <1>4, <1>5 DEF TellsJob
<1>10. \A k \in DOMAIN <<n>> :
         /\ <<n>>[k].of = s /\ <<n>>[k].op \in {"job", "ready", "failed"}
         /\ <<n>>[k].op = "ready" => table'[s] \in {"data", "gone"}
         /\ <<n>>[k].op = "job" => <<n>>[k].state \in JobStates \ {"none"}
         /\ <<n>>[k].op = "failed" => <<n>>[k].state \in {"failed", "cancelled"}
         /\ <<n>>[k].op = "failed" /\ kind[s] = "import" => Dead(s)'
  BY <1>3, <1>4 DEF JobStates
<1>11. JobMove(s, <<n>>, {})
  BY <1>1, <1>4, <1>5, <1>6, <1>7, <1>8, <1>9, <1>10, RunnerMoves
<1> QED
  BY <1>11, JobMoves

\* has a table when it does,
LEMMA JobCommitsKeeps ==
  ASSUME StoreInv, Beside, NEW s \in Source, JobCommits(s)
  PROVE  StoreInv'
<1>1. /\ Going(s) /\ committed' = (committed \ {<<s, "going">>}) \cup {<<s, "done">>}
      /\ table' = [table EXCEPT ![s] = "data"]
      /\ UNCHANGED <<kind, job, calls, answers, inbox>>
  BY DEF JobCommits, Going, wire
<1>2. HostOK(s) /\ job[s] \notin {"none", "queued"} /\ table[s] = "none" /\ kind[s] # "query"
  BY <1>1, JobThere DEF StoreInv, HostOK
<1>3. /\ HostTypes' /\ job'[s] = job[s] /\ table'[s] = "data" /\ kind'[s] = kind[s]
      /\ \A t \in Source \ {s} : /\ table'[t] = table[t] /\ job'[t] = job[t]
                                 /\ (Going(t)' <=> Going(t)) /\ (Done(t)' <=> Done(t))
      /\ ~Going(s)' /\ Done(s)'
  BY <1>1 DEF StoreInv, HostTypes, Going, Done
<1>4. PICK ms : ms = <<>>
  OBVIOUS
<1>5. ms \in Seq(MessageSet) /\ Puts(ms, {}) /\ DOMAIN ms = {}
  BY <1>1, <1>4 DEF Puts, StoreInv, SentTypes
<1>6. HostOK(s)' /\ ~Dead(s)
  BY <1>1, <1>2, <1>3 DEF HostOK, Dead
<1>7. Order(job[s]) <= Order(job'[s]) /\ TellsJob(s, ms)
  BY <1>3, <1>5, OrderUp DEF TellsJob
<1>8. JobMove(s, ms, {})
  BY <1>1, <1>2, <1>3, <1>5, <1>6, <1>7, RunnerMoves
<1> QED
  BY <1>8, JobMoves

\* and is told to be ready, or failed, when it ends.
LEMMA JobEndsKeeps ==
  ASSUME StoreInv, Beside, NEW s \in Source, JobEnds(s)
  PROVE  StoreInv'
<1>1. UNCHANGED <<table, kind, calls, answers>>
  BY DEF JobEnds
<1>2. ASSUME NEW end \in Final, NEW m \in MessageSet, NEW n \in MessageSet,
             Going(s) \/ Done(s), job' = [job EXCEPT ![s] = end], Sends(<<m, n>>),
             committed' = committed \ {<<s, "going">>} \/ committed' = committed \ {<<s, "done">>},
             m.of = s, m.op = "ready" \/ (m.op = "failed" /\ m.state \in {"failed", "cancelled"}),
             n.of = s, n.op = "job", n.state = end,
             IF m.op = "ready" THEN Done(s) /\ committed' = committed \ {<<s, "done">>}
                               ELSE Going(s) /\ committed' = committed \ {<<s, "going">>}
      PROVE  StoreInv'
  <2>1. /\ HostOK(s) /\ job[s] \notin {"none", "queued"} /\ kind[s] # "query"
        /\ ~(Going(s) /\ Done(s))
    BY <1>2, JobThere DEF StoreInv, HostOK
  <2>2. /\ HostTypes' /\ job'[s] = end /\ table'[s] = table[s] /\ kind'[s] = kind[s]
        /\ \A t \in Source \ {s} : /\ table'[t] = table[t] /\ job'[t] = job[t]
                                   /\ (Going(t)' <=> Going(t)) /\ (Done(t)' <=> Done(t))
        /\ end \notin {"none", "queued"}
    BY <1>1, <1>2 DEF StoreInv, HostTypes, Going, Done, JobStates, Final
  <2>3. ~Going(s)' /\ ~Done(s)'
    BY <1>2, <2>1 DEF Going, Done
  <2>4. DOMAIN <<m, n>> = {1, 2} /\ <<m, n>>[1] = m /\ <<m, n>>[2] = n
    OBVIOUS
  <2>5. Puts(<<m, n>>, {}) /\ <<m, n>> \in Seq(MessageSet)
    BY <1>1, <1>2 DEF Puts, Sends
  <2>6. HostOK(s)'
    BY <2>1, <2>2, <2>3 DEF HostOK
  <2>7. ~Dead(s) /\ (m.op = "ready" => table[s] \in {"data", "gone"})
        /\ (m.op = "failed" /\ kind[s] = "import" => Dead(s)')
    BY <1>2, <2>1, <2>2, <2>3 DEF HostOK, Dead
  <2>8. Order(job[s]) <= Order(job'[s])
    BY <2>2, OrderUp
  <2>9. TellsJob(s, <<m, n>>)
    BY <1>2, <2>2, <2>4 DEF TellsJob
  <2>10. \A k \in DOMAIN <<m, n>> :
           /\ <<m, n>>[k].of = s /\ <<m, n>>[k].op \in {"job", "ready", "failed"}
           /\ <<m, n>>[k].op = "ready" => table'[s] \in {"data", "gone"}
           /\ <<m, n>>[k].op = "job" => <<m, n>>[k].state \in JobStates \ {"none"}
           /\ <<m, n>>[k].op = "failed" => <<m, n>>[k].state \in {"failed", "cancelled"}
           /\ <<m, n>>[k].op = "failed" /\ kind[s] = "import" => Dead(s)'
    BY <1>2, <2>2, <2>4, <2>7 DEF JobStates
  <2>11. Done(s) => New("ready", s, <<m, n>>, {})
    BY <1>2, <2>1, <2>4 DEF New
  <2>12. job[s] # "none" /\ job'[s] # "none" /\ UNCHANGED <<calls, kind>>
    BY <1>1, <2>1, <2>2
  <2>13. JobMove(s, <<m, n>>, {})
    BY <2>2, <2>5, <2>6, <2>7, <2>8, <2>9, <2>10, <2>11, <2>12, RunnerMoves
  <2> QED
    BY <2>13, JobMoves
<1>3. CASE /\ Done(s) /\ committed' = committed \ {<<s, "done">>}
           /\ job' = [job EXCEPT ![s] = "completed"]
           /\ Sends(<<Message("ready", s, "ready", 0), Message("job", s, "completed", 0)>>)
  <2>1. PICK m : m = Message("ready", s, "ready", 0)
    OBVIOUS
  <2>2. PICK n : n = Message("job", s, "completed", 0)
    OBVIOUS
  <2>3. /\ m \in MessageSet /\ m.of = s /\ m.op = "ready" /\ "completed" \in Final
        /\ n \in MessageSet /\ n.of = s /\ n.op = "job" /\ n.state = "completed"
    BY <2>1, <2>2 DEF Message, MessageSet, Ops, JobStates, Final
  <2> QED
    BY <1>2, <1>3, <2>1, <2>2, <2>3
<1>4. ASSUME NEW end \in {"failed", "cancelled"},
             Going(s), committed' = committed \ {<<s, "going">>},
             job' = [job EXCEPT ![s] = end],
             Sends(<<Message("failed", s, end, 0), Message("job", s, end, 0)>>)
      PROVE  StoreInv'
  <2>1. PICK m : m = Message("failed", s, end, 0)
    OBVIOUS
  <2>2. PICK n : n = Message("job", s, end, 0)
    OBVIOUS
  <2>3. /\ m \in MessageSet /\ m.of = s /\ m.op = "failed" /\ m.state = end /\ end \in Final
        /\ n \in MessageSet /\ n.of = s /\ n.op = "job" /\ n.state = end
    BY <2>1, <2>2 DEF Message, MessageSet, Ops, JobStates, Final
  <2>4. m.op # "ready"
    BY <2>3
  <2> QED
    BY <1>2, <1>4, <2>1, <2>2, <2>3, <2>4
<1> QED
  BY <1>3, <1>4 DEF JobEnds, Going, Done

\* A query makes a source whose result is told before its answer.
LEMMA ServeQueryKeeps ==
  ASSUME StoreInv, Beside, NEW c \in calls,
         NEW s \in Source, s = Cardinality(Made) + 1,
         ServeQuery(c, s)
  PROVE  StoreInv'
<1>0. /\ kind[s] = "none" /\ Unknown(s) /\ HostOK(s)
      /\ \A k : k # "none" /\ kind' = [kind EXCEPT ![s] = k] => Numbered'
      /\ \A d \in Document : attached[d] # s
  BY NewSource
<1>1. /\ c.op = "query" /\ c.op # "discard" /\ c.for \in Document
      /\ calls' = calls \ {c} /\ answers' = answers
      /\ UNCHANGED <<job, committed>> /\ UNCHANGED <<sources, jobs, astray, removed>>
      /\ \A t : (Going(t)' <=> Going(t)) /\ (Done(t)' <=> Done(t))
  BY DEF ServeQuery, StoreInv, WireOK, CallOK, ForOK, Going, Done, Beside,
         ghosts
<1>2. ASSUME NEW m, m = Message("result", s, "ready", 0),
             NEW n, n = Message("query", s, "ready", c.for), Sends(<<m, n>>),
             table' = [table EXCEPT ![s] = "result"], kind' = [kind EXCEPT ![s] = "query"]
      PROVE  StoreInv'
  <2>1. /\ m \in MessageSet /\ m.op = "result" /\ m.of = s
        /\ n \in MessageSet /\ n.op = "query" /\ n.of = s /\ n.state = "ready" /\ n.for = c.for
    BY <1>1, <1>2 DEF Message, MessageSet, Ops
  <2>2. DOMAIN <<m, n>> = {1, 2} /\ <<m, n>>[1] = m /\ <<m, n>>[2] = n
    OBVIOUS
  <2>3. Puts(<<m, n>>, {}) /\ <<m, n>> \in Seq(MessageSet)
    BY <1>1, <1>2, <2>1 DEF Puts, Sends
  <2>4. /\ table[s] = "none" /\ job[s] = "none" /\ ~Going(s) /\ ~Done(s)
        /\ \A op \in Ops : ~Due(op, s)
        /\ sources[s] = Absent /\ s \notin removed /\ \A e \in calls : e.of # s
    BY <1>0 DEF Unknown
  <2>5. /\ kind \in [Source -> {"none", "import", "snapshot", "query"}]
        /\ table \in [Source -> {"none", "result", "data", "gone"}] /\ s # 0
        /\ \A i \in DOMAIN inbox : inbox[i] \in MessageSet
    BY HostFuns
  <2>6. /\ HostTypes' /\ Numbered' /\ table'[s] = "result" /\ kind'[s] = "query"
        /\ \A t \in Source \ {s} : table'[t] = table[t] /\ kind'[t] = kind[t]
    BY <1>0, <1>1, <1>2, <2>5 DEF StoreInv, HostTypes
  <2>7. /\ \A op, t : New(op, t, <<m, n>>, {}) <=> t = s /\ op \in {"result", "query"}
        /\ \A t : ~NewFailure(t, <<m, n>>, {})
    BY <2>1, <2>2 DEF New, NewFailure
  <2>8. InOrder(<<m, n>>, {})
    <3>1. \A i \in DOMAIN inbox : inbox[i].of # s
      BY <2>4, <2>5 DEF Due, MessageSet
    <3>2. ~Due("discard", s)
      BY <2>4 DEF Ops
    <3>3. \A k \in DOMAIN <<m, n>> :
            /\ <<m, n>>[k].op # "discard" /\ ~Due("discard", <<m, n>>[k].of)
            /\ Late(<<m, n>>[k]) => /\ \A i \in DOMAIN inbox : inbox[i].of # <<m, n>>[k].of
                                    /\ \A e \in calls : e.of # <<m, n>>[k].of
      BY <2>1, <2>2, <2>4, <3>1, <3>2
    <3>4. \A k, l \in DOMAIN <<m, n>> : k < l =>
            <<m, n>>[l].op # "result" /\ <<m, n>>[k].op = "result"
      BY <2>1, <2>2
    <3> QED
      BY <3>3, <3>4 DEF InOrder
  <2>9. /\ \A op, t : Due(op, t)' <=> Due(op, t) \/ (t = s /\ op \in {"result", "query"})
        /\ \A t : FailureDue(t)' <=> FailureDue(t)
    <3>1. {} \in SUBSET MessageSet
      OBVIOUS
    <3>2. /\ \A op, t : Due(op, t)' <=> Due(op, t) \/ New(op, t, <<m, n>>, {})
          /\ \A t : FailureDue(t)' <=> FailureDue(t) \/ NewFailure(t, <<m, n>>, {})
      BY <2>3, <3>1, PutsFacts, HostFuns
    <3> QED
      BY <2>7, <3>2
  <2>10. MessageOK(m)' /\ MessageOK(n)'
    BY <1>1, <2>1, <2>5 DEF MessageOK, ForOK
  <2>11. HostOK(s)'
    BY <1>1, <2>4, <2>6 DEF HostOK
  <2>12. SentOK(s)'
    <3>1. \A op \in Ops \ {"result", "query"} : ~Due(op, s)'
      BY <2>4, <2>9
    <3>2. /\ ~Due("job", s)' /\ ~Due("failed", s)' /\ ~Due("snapshot", s)' /\ ~Due("cancel", s)'
          /\ ~Due("ready", s)' /\ ~Due("preview", s)' /\ ~Due("import", s)'
          /\ ~Due("failed import", s)' /\ ~Due("save", s)' /\ ~Due("rename", s)'
          /\ ~EndDue(s)' /\ ~Due("discard", s)'
      BY <3>1 DEF Ops, EndDue
    <3>3. Due("result", s)' /\ Due("query", s)'
      BY <2>9
    <3> QED
      BY <1>1, <2>4, <2>6, <3>2, <3>3 DEF SentOK
  <2>13. ShownOK(s)'
    <3>1. Due("result", s)'
      BY <2>9
    <3> QED
      BY <1>1, <2>4, <2>6, <3>1, ShownFields DEF ShownOK
  <2>14. TellsJob(s, <<m, n>>)
    BY <1>1, <2>1, <2>2 DEF TellsJob
  <2>15. \A t \in Source \ {s} : SameAt(t, <<m, n>>, {})
    BY <1>1, <2>6, <2>7 DEF SameAt
  <2>16. /\ \A t \in Source : kind[t] # "none" => kind'[t] = kind[t]
         /\ \A t \in Source : /\ Order(job[t]) <= Order(job'[t])
                              /\ job[t] # "none" => job'[t] # "none"
    BY <1>0, <1>1, <2>6, OrderUp
  <2>17. /\ {} \in SUBSET MessageSet /\ {s} \in SUBSET Source
         /\ \A a \in {} : MessageOK(a)'
         /\ \A k \in DOMAIN <<m, n>> : \A e : e = <<m, n>>[k] => MessageOK(e)'
         /\ \A t \in {s} : HostOK(t)' /\ SentOK(t)' /\ ShownOK(t)' /\ kind'[t] # "none"
                           /\ TellsJob(t, <<m, n>>)
         /\ \A t \in {s} : table'[t] = "result" =>
              table[t] = "result" \/ New("query", t, <<m, n>>, {})
    BY <2>2, <2>6, <2>7, <2>10, <2>11, <2>12, <2>13, <2>14
  <2>18. /\ calls' \subseteq calls
         /\ \A e \in calls \ calls' : e.op = "discard" => table'[e.of] # "result"
         /\ UNCHANGED <<sources, jobs, open, attached, opened, ghosts>>
    BY <1>1 DEF Beside
  <2>19. \A d \in Document : attached[d] \in {s} =>
           /\ ~New("query", attached[d], <<m, n>>, {}) /\ ~New("discard", attached[d], <<m, n>>, {})
           /\ table[attached[d]] \in {"result", "data"} =>
                \/ table'[attached[d]] \in {"result", "data"}
                \/ New("close", attached[d], <<m, n>>, {})
                \/ New("remove", attached[d], <<m, n>>, {})
    BY <1>0
  <2> QED
    BY <2>3, <2>6, <2>8, <2>15, <2>16, <2>17, <2>18, <2>19, HostTells
<1>3. ASSUME NEW n, n = Message("query", 0, "failed", c.for), Sends(<<n>>),
             UNCHANGED <<table, kind>>
      PROVE  StoreInv'
  <2>1. /\ n \in MessageSet /\ n.op = "query" /\ n.of = 0 /\ n.state = "failed" /\ n.for = c.for
    BY <1>1, <1>3 DEF Message, MessageSet, Ops, JobStates, Final
  <2>2. DOMAIN <<n>> = {1} /\ <<n>>[1] = n
    OBVIOUS
  <2>3. Puts(<<n>>, {}) /\ <<n>> \in Seq(MessageSet)
    BY <1>1, <1>3, <2>1 DEF Puts, Sends
  <2>4. ~Due("discard", 0)
    BY DEF StoreInv, WireOK, MessageOK, Due
  <2>5. InOrder(<<n>>, {})
    BY <2>1, <2>2, <2>4 DEF InOrder, Late
  <2>6. MessageOK(n)'
    BY <1>1, <2>1 DEF MessageOK, ForOK
  <2>7. \A t \in Source : SameAt(t, <<n>>, {})
    <3>1. ASSUME NEW t \in Source
          PROVE  (\A op : ~New(op, t, <<n>>, {})) /\ ~NewFailure(t, <<n>>, {})
      BY <2>1, <2>2, HostFuns DEF New, NewFailure
    <3> QED
      BY <1>1, <1>3, <3>1 DEF SameAt
  <2>8. HostTypes' /\ Numbered'
    BY <1>1, <1>3 DEF StoreInv, HostTypes, MadeInv, Numbered
  <2>9. /\ \A t \in Source : kind[t] # "none" => kind'[t] = kind[t]
        /\ \A t \in Source : /\ Order(job[t]) <= Order(job'[t])
                             /\ job[t] # "none" => job'[t] # "none"
    BY <1>1, <1>3, OrderUp
  <2>10. /\ {} \in SUBSET MessageSet /\ {} \in SUBSET Source
         /\ \A a \in {} : MessageOK(a)'
         /\ \A k \in DOMAIN <<n>> : \A e : e = <<n>>[k] => MessageOK(e)'
         /\ \A t \in {} : HostOK(t)' /\ SentOK(t)' /\ ShownOK(t)' /\ kind'[t] # "none"
                          /\ TellsJob(t, <<n>>)
         /\ \A t \in {} : table'[t] = "result" => table[t] = "result" \/ New("query", t, <<n>>, {})
         /\ \A t \in Source \ {} : SameAt(t, <<n>>, {})
    BY <2>2, <2>6, <2>7
  <2>11. /\ calls' \subseteq calls
         /\ \A e \in calls \ calls' : e.op = "discard" => table'[e.of] # "result"
         /\ UNCHANGED <<sources, jobs, open, attached, opened, ghosts>>
    BY <1>1 DEF Beside
  <2>12. \A d \in Document : attached[d] \in {} =>
           /\ ~New("query", attached[d], <<n>>, {}) /\ ~New("discard", attached[d], <<n>>, {})
           /\ table[attached[d]] \in {"result", "data"} =>
                \/ table'[attached[d]] \in {"result", "data"}
                \/ New("close", attached[d], <<n>>, {}) \/ New("remove", attached[d], <<n>>, {})
    OBVIOUS
  <2> QED
    BY <2>3, <2>5, <2>8, <2>9, <2>10, <2>11, <2>12, HostTells
<1> QED
  BY <1>2, <1>3 DEF ServeQuery

\* What is done to a table is answered, and what ends it ends it once.
LEMMA ServeTableKeeps ==
  ASSUME StoreInv, Beside, NEW c \in calls, ServeTable(c)
  PROVE  StoreInv'
<1>0. /\ c.op \in {"save", "close", "discard", "remove", "rename"} /\ c.of \in Source
      /\ c \in CallSet /\ CallOK(c)
      /\ UNCHANGED <<inbox, kind, job, committed>> /\ UNCHANGED <<sources, jobs, astray, removed>>
      /\ \A t : (Going(t)' <=> Going(t)) /\ (Done(t)' <=> Done(t))
  BY DEF ServeTable, Found, StoreInv, SentTypes, WireOK, CallOK, CallSet, Going,
         Done, Beside, ghosts
<1>1. PICK s \in Source : s = c.of
  BY <1>0
<1>2. PICK ms : ms = <<>>
  OBVIOUS
<1>3. ms \in Seq(MessageSet) /\ DOMAIN ms = {}
  BY <1>2
<1>4. /\ Numbered' /\ s # 0
      /\ \A t \in Source : kind[t] # "none" => kind'[t] = kind[t]
      /\ \A t \in Source : /\ Order(job[t]) <= Order(job'[t])
                           /\ job[t] # "none" => job'[t] # "none"
      /\ UNCHANGED <<sources, jobs, open, attached, opened, ghosts>>
  BY <1>0, OrderUp DEF StoreInv, MadeInv, Numbered, Beside, Source
<1>5. CASE table[s] \notin Found[c.op]
  <2>1. calls' = calls \ {c} /\ UNCHANGED <<table, answers>>
    BY <1>1, <1>5 DEF ServeTable
  <2>2. c.op = "discard" => table[s] # "result"
    BY <1>5 DEF Found
  <2>3. Puts(ms, {}) /\ HostTypes'
    BY <1>0, <1>2, <2>1, HostFuns DEF Puts, StoreInv, HostTypes
  <2>4. InOrder(ms, {})
    BY <1>3 DEF InOrder
  <2>5. /\ {} \in SUBSET MessageSet /\ {} \in SUBSET Source
        /\ \A a \in {} : MessageOK(a)'
        /\ \A k \in DOMAIN ms : \A e : e = ms[k] => MessageOK(e)'
        /\ \A t \in {} : HostOK(t)' /\ SentOK(t)' /\ ShownOK(t)' /\ kind'[t] # "none"
                         /\ TellsJob(t, ms)
        /\ \A t \in {} : table'[t] = "result" => table[t] = "result" \/ New("query", t, ms, {})
    BY <1>3
  <2>6. \A t \in Source \ {} : SameAt(t, ms, {})
    BY <1>0, <1>3, <2>1 DEF SameAt, New, NewFailure
  <2>7. /\ calls' \subseteq calls
        /\ \A e \in calls \ calls' : e.op = "discard" => table'[e.of] # "result"
    BY <1>1, <2>1, <2>2
  <2>8. \A d \in Document : attached[d] \in {} =>
          /\ ~New("query", attached[d], ms, {}) /\ ~New("discard", attached[d], ms, {})
          /\ table[attached[d]] \in {"result", "data"} =>
               \/ table'[attached[d]] \in {"result", "data"}
               \/ New("close", attached[d], ms, {}) \/ New("remove", attached[d], ms, {})
    OBVIOUS
  <2> QED
    BY <1>3, <1>4, <2>3, <2>4, <2>5, <2>6, <2>7, <2>8, HostTells
<1>6. CASE table[s] \in Found[c.op]
  <2>1. PICK to : to = Leaves(c.op, table[s])
    OBVIOUS
  <2>2. PICK m : m = Message(c.op, s, to, 0)
    OBVIOUS
  <2>3. /\ c.op \in {"save", "close", "discard"} => table[s] = "result"
        /\ c.op \in {"remove", "rename"} => table[s] = "data"
        /\ c.op \in {"save", "rename"} => to = "data"
        /\ c.op \in {"close", "discard", "remove"} => to = "gone"
    BY <1>0, <1>6, <2>1 DEF Found, Leaves
  <2>4. m \in MessageSet /\ m.op = c.op /\ m.of = s /\ m.state = to
    BY <1>0, <2>2, <2>3 DEF Message, MessageSet, Ops
  <2>5. table' = [table EXCEPT ![s] = to] /\ Answer(c, m)
    BY <1>1, <1>6, <2>1, <2>2 DEF ServeTable
  <2>6. /\ Puts(ms, {m}) /\ calls' = calls \ {c} /\ {m} \in SUBSET MessageSet
    BY <1>0, <1>2, <2>4, <2>5, Answers
  <2>7. /\ \A op, t : New(op, t, ms, {m}) <=> (op = c.op /\ t = s)
        /\ \A t : ~NewFailure(t, ms, {m})
    <3>1. \A op, t : New(op, t, ms, {m}) <=> (op = m.op /\ t = m.of)
      BY <1>3 DEF New
    <3>2. \A t : NewFailure(t, ms, {m}) => m.op = "failed import"
      BY <1>3 DEF NewFailure
    <3> QED
      BY <1>0, <2>4, <3>1, <3>2
  <2>8. /\ HostTypes' /\ table'[s] = to /\ \A t \in Source \ {s} : table'[t] = table[t]
    BY <1>0, <2>3, <2>5 DEF StoreInv, HostTypes
  <2>9. /\ HostOK(s) /\ SentOK(s) /\ ShownOK(s) /\ (kind[s] = "none" => Unknown(s))
    BY DEF StoreInv, MadeInv
  <2>10. /\ table[s] \in {"result", "data"} /\ kind[s] # "none"
         /\ ~EndDue(s) /\ ~Due("discard", s) /\ ~(kind[s] = "import" /\ FailureDue(s)) /\ ~Dead(s)
         /\ ~Going(s) /\ job[s] # "queued"
         /\ c.op \in {"save", "close", "discard"} => kind[s] = "query" /\ ~Due("result", s)
         /\ c.op = "discard" => ~Due("query", s) /\ \A d \in Document : attached[d] # s
    BY <1>0, <1>1, <2>3, <2>9 DEF HostOK, SentOK, EndDue, Dead, CallOK, Unknown
  <2>11. InOrder(ms, {m})
    <3>1. ASSUME c.op = "discard", NEW op \in Ops, Due(op, s) PROVE FALSE
      <4>1. /\ kind[s] = "query" /\ table[s] = "result" /\ job[s] = "none"
            /\ ~Due("result", s) /\ ~Due("query", s)
        BY <2>3, <2>9, <2>10, <3>1 DEF HostOK
      <4>2. /\ ~Due("job", s) /\ ~Due("failed", s) /\ ~Due("snapshot", s) /\ ~Due("cancel", s)
            /\ ~Due("ready", s) /\ ~Due("preview", s) /\ ~Due("import", s)
            /\ ~Due("failed import", s) /\ ~Due("save", s) /\ ~Due("rename", s)
        BY <2>9, <4>1 DEF SentOK
      <4> QED
        BY <2>10, <3>1, <4>1, <4>2 DEF Ops, EndDue
    <3> QED
      BY <1>0, <1>2, <1>3, <2>4, <2>10, <3>1 DEF InOrder
  <2>12. MessageOK(m)'
    BY <1>0, <1>4, <2>4 DEF MessageOK, ForOK
  <2>13. /\ \A op, t : Due(op, t)' <=> Due(op, t) \/ (op = c.op /\ t = s)
         /\ \A t : FailureDue(t)' <=> FailureDue(t)
    <3>1. /\ \A op, t : Due(op, t)' <=> Due(op, t) \/ New(op, t, ms, {m})
          /\ \A t : FailureDue(t)' <=> FailureDue(t) \/ NewFailure(t, ms, {m})
      BY <1>3, <2>6, PutsFacts, HostFuns
    <3> QED
      BY <2>7, <3>1
  <2>14. HostOK(s)'
    BY <1>0, <2>3, <2>8, <2>9, <2>10 DEF HostOK
  <2>15. SentOK(s)'
    <3>0. /\ Due("ready", s)' <=> Due("ready", s)
          /\ Due("preview", s)' <=> Due("preview", s)
          /\ Due("import", s)' <=> Due("import", s)
          /\ Due("failed import", s)' <=> Due("failed import", s)
          /\ Due("job", s)' <=> Due("job", s)
          /\ Due("failed", s)' <=> Due("failed", s)
          /\ Due("snapshot", s)' <=> Due("snapshot", s)
          /\ Due("cancel", s)' <=> Due("cancel", s)
          /\ Due("result", s)' <=> Due("result", s)
          /\ Due("query", s)' <=> Due("query", s)
      <4>1. \A op : op # c.op => (Due(op, s)' <=> Due(op, s))
        BY <2>13
      <4>2. c.op \notin {"ready", "preview", "import", "failed import", "job", "failed",
                         "snapshot", "cancel", "result", "query"}
        BY <1>0
      <4> QED
        BY <4>1, <4>2
    <3>1. Due("ready", s)' => kind[s] # "query" /\ to \in {"data", "gone"}
      BY <1>0, <2>3, <2>9, <3>0 DEF SentOK
    <3>2. /\ Due("preview", s)' \/ Due("import", s)' \/ Due("failed import", s)' =>
               kind[s] = "import"
          /\ ~(kind[s] = "import" /\ FailureDue(s)')
          /\ Due("job", s)' \/ Due("failed", s)' \/ Due("snapshot", s)' \/ Due("cancel", s)' =>
               job[s] # "none"
      BY <1>0, <2>9, <2>10, <2>13, <3>0 DEF SentOK
    <3>3. Due("save", s)' => kind[s] = "query" /\ to \in {"data", "gone"}
      BY <1>0, <2>3, <2>9, <2>10, <2>13 DEF SentOK
    <3>4. Due("rename", s)' => to \in {"data", "gone"}
      BY <1>0, <2>3, <2>9, <2>13 DEF SentOK
    <3>5. EndDue(s)' => to = "gone"
      BY <1>0, <2>3, <2>10, <2>13 DEF EndDue
    <3>6. /\ ~Due("result", s)' \/ c.op \notin {"save", "close", "discard"}
          /\ Due("result", s)' => table[s] = "result"
      BY <1>0, <2>9, <2>10, <3>0 DEF SentOK
    <3>7. ~Due("result", s)'
      BY <1>0, <2>3, <3>6
    <3>8. Due("query", s)' => kind[s] = "query" /\ s \notin removed /\ sources[s] = Result
      BY <1>0, <2>9, <3>0, <3>7 DEF SentOK
    <3>9. Due("discard", s)' => kind[s] = "query" /\ sources[s] = Result
      <4>1. CASE c.op = "discard"
        BY <2>3, <2>9, <2>10, <4>1 DEF ShownOK
      <4> QED
        BY <2>10, <2>13, <4>1
    <3> QED
      BY <1>0, <2>8, <3>1, <3>2, <3>3, <3>4, <3>5, <3>7, <3>8, <3>9 DEF SentOK
  <2>16. ShownOK(s)'
    <3>1. to = "data" /\ s \notin astray =>
            IF kind[s] = "query" THEN Due("save", s)' \/ sources[s] = Data
            ELSE Done(s)' \/ Due("ready", s)' \/ sources[s].status = "ready"
      BY <1>0, <2>3, <2>9, <2>10, <2>13 DEF ShownOK
    <3>2. to = "gone" => EndDue(s)'
      BY <1>0, <2>3, <2>13 DEF EndDue
    <3>3. to \in {"data", "gone"} /\ sources[s].status # "failed"
      BY <1>0, <2>3, <2>9, <2>10 DEF ShownOK
    <3> QED
      BY <1>0, <2>8, <2>9, <3>1, <3>2, <3>3 DEF ShownOK
  <2>17. TellsJob(s, ms)
    BY <1>0, <1>3 DEF TellsJob
  <2>18. \A t \in Source \ {s} : SameAt(t, ms, {m})
    BY <1>0, <2>7, <2>8 DEF SameAt
  <2>19. /\ {s} \in SUBSET Source
         /\ \A a \in {m} : MessageOK(a)'
         /\ \A k \in DOMAIN ms : \A e : e = ms[k] => MessageOK(e)'
         /\ \A t \in {s} : HostOK(t)' /\ SentOK(t)' /\ ShownOK(t)' /\ kind'[t] # "none"
                           /\ TellsJob(t, ms)
         /\ \A t \in {s} : table'[t] = "result" => table[t] = "result" \/ New("query", t, ms, {m})
    BY <1>0, <1>3, <2>3, <2>8, <2>10, <2>12, <2>14, <2>15, <2>16, <2>17
  <2>20. /\ calls' \subseteq calls
         /\ \A e \in calls \ calls' : e.op = "discard" => table'[e.of] # "result"
    BY <1>1, <2>3, <2>6, <2>8
  <2>21. \A d \in Document : attached[d] \in {s} =>
           /\ ~New("query", attached[d], ms, {m}) /\ ~New("discard", attached[d], ms, {m})
           /\ table[attached[d]] \in {"result", "data"} =>
                \/ table'[attached[d]] \in {"result", "data"}
                \/ New("close", attached[d], ms, {m}) \/ New("remove", attached[d], ms, {m})
    <3> SUFFICES ASSUME NEW d \in Document, attached[d] = s
                 PROVE  /\ ~New("query", s, ms, {m}) /\ ~New("discard", s, ms, {m})
                        /\ \/ table'[s] \in {"result", "data"}
                           \/ New("close", s, ms, {m}) \/ New("remove", s, ms, {m})
      OBVIOUS
    <3>1. c.op # "discard" /\ c.op # "query"
      BY <1>0, <2>10
    <3> QED
      BY <1>0, <2>3, <2>7, <2>8, <3>1
  <2> QED
    BY <1>3, <1>4, <2>6, <2>8, <2>11, <2>18, <2>19, <2>20, <2>21, HostTells
<1> QED
  BY <1>5, <1>6

\* An answer that is sent comes after what was.
LEMMA SendsAnswerKeeps ==
  ASSUME StoreInv, Beside, SendsAnswer
  PROVE  StoreInv'
<1>1. PICK m \in answers : /\ answers' = answers \ {m} /\ inbox' = inbox \o <<m>>
                           /\ UNCHANGED <<host, calls>>
  BY DEF SendsAnswer, Sends
<1>2. /\ m \in MessageSet /\ inbox \in Seq(MessageSet) /\ MessageOK(m)
      /\ m.op \notin {"query", "result", "job", "preview", "ready", "failed"}
      /\ Len(inbox) \in Nat
      /\ OrderInv /\ AloneInv /\ AloneToo /\ QueryIsSent
      /\ \A i \in DOMAIN inbox : i \in Nat /\ inbox[i] \in MessageSet /\ MessageOK(inbox[i])
  BY DEF StoreInv, SentTypes, QueryIsSent, WireOK
<1>3. PICK n : n = Len(inbox) + 1
  OBVIOUS
<1>4. /\ inbox' \in Seq(MessageSet) /\ n \in DOMAIN inbox' /\ inbox'[n] = m
      /\ \A i \in DOMAIN inbox : i \in DOMAIN inbox' /\ inbox'[i] = inbox[i] /\ i < n
      /\ \A i \in DOMAIN inbox' : i \in DOMAIN inbox \/ i = n
      /\ \A op, t : Due(op, t)' <=> Due(op, t)
      /\ \A t : FailureDue(t)' <=> FailureDue(t)
  BY <1>1, <1>2, <1>3, MoveFacts
<1>5. /\ UNCHANGED <<table, kind, job, committed, calls, sources, jobs, open, attached, opened,
                     astray, removed, overtaken, abandoned>>
      /\ \A t : (Going(t)' <=> Going(t)) /\ (Done(t)' <=> Done(t))
  BY <1>1 DEF Beside, ghosts, host, Going, Done
<1>6. HostTypes' /\ ShownTypes' /\ SentTypes'
  BY <1>1, <1>4, <1>5 DEF StoreInv, HostTypes, ShownTypes, SentTypes
<1>7. ASSUME NEW t \in Source
      PROVE  HostOK(t)' /\ SentOK(t)' /\ ShownOK(t)' /\ (kind[t] = "none" => Unknown(t))'
  <2>1. /\ HostOK(t) /\ SentOK(t) /\ ShownOK(t) /\ (kind[t] = "none" => Unknown(t))
        /\ table'[t] = table[t] /\ kind'[t] = kind[t] /\ job'[t] = job[t] /\ jobs'[t] = jobs[t]
        /\ sources'[t] = sources[t] /\ (Going(t)' <=> Going(t)) /\ (Done(t)' <=> Done(t))
        /\ (t \in removed' <=> t \in removed) /\ (t \in astray => t \in astray')
        /\ \A op : Due(op, t)' <=> Due(op, t)
        /\ (FailureDue(t)' <=> FailureDue(t))
        /\ \A c \in calls' : c.of = t => c \in calls \/ kind[t] # "none"
    BY <1>4, <1>5 DEF StoreInv, MadeInv
  <2> QED
    BY <2>1, ApartFrom
<1>8. MadeInv'
  BY <1>5, <1>7 DEF StoreInv, MadeInv, Numbered
<1>9. OrderInv'
  <2> SUFFICES ASSUME NEW i \in DOMAIN inbox', NEW j \in DOMAIN inbox'
               PROVE  /\ i < j /\ inbox'[i].of = inbox'[j].of /\ inbox'[i].of # 0 =>
                           /\ inbox'[j].op # "result"
                           /\ inbox'[j].op = "query" => inbox'[i].op = "result"
                      /\ i # j /\ inbox'[i].op = "discard" => inbox'[j].of # inbox'[i].of
    BY DEF OrderInv
  <2>1. CASE i \in DOMAIN inbox /\ j \in DOMAIN inbox
    BY <1>2, <1>4, <2>1 DEF OrderInv
  <2>2. CASE i \in DOMAIN inbox /\ j = n
    BY <1>2, <1>4, <2>2 DEF AloneToo
  <2>3. CASE i = n /\ j \in DOMAIN inbox
    <3>1. ~(i < j) /\ inbox'[i] = m /\ inbox'[j] = inbox[j]
      BY <1>2, <1>3, <1>4, <2>3
    <3>2. m.op = "discard" => inbox[j].of # m.of
      BY <1>2, <2>3 DEF AloneInv
    <3> QED
      BY <3>1, <3>2
  <2>4. CASE i = n /\ j = n
    BY <1>2, <1>3, <2>4
  <2> QED
    BY <1>4, <2>1, <2>2, <2>3, <2>4
<1>10. AloneInv'
  <2> SUFFICES ASSUME NEW e \in answers', e.op = "discard"
               PROVE  /\ \A x \in answers' : x.of = e.of => x = e
                      /\ \A i \in DOMAIN inbox' : inbox'[i].of # e.of
    BY DEF AloneInv
  <2>1. /\ e \in answers /\ e # m
        /\ \A x \in answers : x.of = e.of => x = e
        /\ \A i \in DOMAIN inbox : inbox[i].of # e.of
    BY <1>1, <1>2 DEF AloneInv
  <2> QED
    BY <1>1, <1>4, <2>1
<1>11. AloneToo' /\ QueryIsSent'
  <2>1. QueryIsSent'
    BY <1>1, <1>2 DEF QueryIsSent
  <2>2. ASSUME NEW i \in DOMAIN inbox', NEW x \in answers', inbox'[i].op = "discard"
        PROVE  x.of # inbox'[i].of
    <3>1. CASE i \in DOMAIN inbox
      BY <1>1, <1>2, <1>4, <2>2, <3>1 DEF AloneToo
    <3>2. CASE i = n
      BY <1>1, <1>2, <1>4, <2>2, <3>2 DEF AloneInv
    <3> QED
      BY <1>4, <3>1, <3>2
  <2> QED
    BY <2>1, <2>2 DEF AloneToo
<1>12. WireOK'
  <2>1. \A x : MessageOK(x)' <=> MessageOK(x)
    BY <1>5 DEF MessageOK, ForOK
  <2>2. \A c \in calls' : CallOK(c)'
    BY <1>4, <1>5 DEF StoreInv, WireOK, CallOK, ForOK
  <2>3. \A i \in DOMAIN inbox' : \A x : x = inbox'[i] => MessageOK(x)'
    BY <1>2, <1>4, <2>1
  <2>4. (\A i \in DOMAIN inbox : MessageOK(inbox[i]))'
    BY <2>3
  <2>5. \A x \in answers' : MessageOK(x)'
    BY <1>1, <2>1 DEF StoreInv, WireOK
  <2> QED
    BY <2>2, <2>4, <2>5 DEF WireOK
<1>13. ASSUME NEW t \in Source
       PROVE  JobShown(t)' /\ Held(t)'
  <2>1. JobShown(t) /\ Held(t)
    BY DEF StoreInv
  <2>2. ~IsJob(n, t)'
    BY <1>2, <1>4 DEF IsJob
  <2>3. \A i \in DOMAIN inbox : IsJob(i, t)' <=> IsJob(i, t)
    BY <1>4 DEF IsJob
  <2>4. JobShown(t)'
    BY <1>4, <1>5, <2>1, <2>2, <2>3 DEF JobShown
  <2> QED
    BY <1>4, <1>5, <2>1, <2>4 DEF Held
<1>14. \A d \in Document : AttachedOK(d)'
  BY <1>4, <1>5 DEF StoreInv, AttachedOK
<1> QED
  BY <1>6, <1>7, <1>8, <1>9, <1>10, <1>11, <1>12, <1>13, <1>14 DEF StoreInv

\* Every step of the host preserves the invariant.
LEMMA HostStoreKeeps ==
  ASSUME StoreInv, Host, UNCHANGED opened
  PROVE  StoreInv'
<1>1. Beside
  BY DEF Host, Beside, shownVars
<1>2. CASE SendsAnswer
  BY <1>1, <1>2, SendsAnswerKeeps
<1>3. ASSUME NEW s \in Source, JobStarts(s) \/ JobCommits(s) \/ JobEnds(s)
      PROVE  StoreInv'
  BY <1>1, <1>3, JobStartsKeeps, JobCommitsKeeps, JobEndsKeeps
<1>4. ASSUME NEW c \in calls, ServeTable(c) \/ ServeCancel(c)
      PROVE  StoreInv'
  BY <1>1, <1>4, ServeTableKeeps, ServeCancelKeeps
<1>5. ASSUME NEW c \in calls, NEW s \in Source, s = Cardinality(Made) + 1,
             StartImport(c, s) \/ StartSnapshot(c, s) \/ ServeQuery(c, s)
      PROVE  StoreInv'
  BY <1>1, <1>5, StartImportKeeps, StartSnapshotKeeps, ServeQueryKeeps
<1> QED
  BY <1>2, <1>3, <1>4, <1>5 DEF Host

-------------------------------------------------------------------------------
(* What the webview handles                                                  *)

\* What comes first is not spoken of again, but for the answer of a query.
LEMMA HeadAlone ==
  ASSUME StoreInv, inbox # <<>>, inbox' = Tail(inbox), UNCHANGED answers,
         NEW m, m = Head(inbox)
  PROVE  /\ OrderInv' /\ AloneInv' /\ AloneToo' /\ QueryIsSent'
         /\ m.of # 0 => /\ ~Due("discard", m.of)' /\ ~Due("result", m.of)'
                        /\ m.op # "result" => ~Due("query", m.of)'
         /\ m.op = "discard" => \A op : ~Due(op, m.of)'
<1>1. inbox \in Seq(MessageSet) /\ OrderInv /\ AloneInv /\ AloneToo /\ QueryIsSent
  BY DEF StoreInv, SentTypes
<1>2. /\ inbox' \in Seq(MessageSet) /\ m = inbox[1] /\ 1 \in DOMAIN inbox
      /\ \A i \in DOMAIN inbox' : i + 1 \in DOMAIN inbox /\ i + 1 > 1 /\ inbox'[i] = inbox[i + 1]
  BY <1>1, PopFacts
<1>3. OrderInv'
  <2> SUFFICES ASSUME NEW i \in DOMAIN inbox', NEW j \in DOMAIN inbox'
               PROVE  /\ i < j /\ inbox'[i].of = inbox'[j].of /\ inbox'[i].of # 0 =>
                           /\ inbox'[j].op # "result"
                           /\ inbox'[j].op = "query" => inbox'[i].op = "result"
                      /\ i # j /\ inbox'[i].op = "discard" => inbox'[j].of # inbox'[i].of
    BY DEF OrderInv
  <2>1. PICK k \in DOMAIN inbox : k = i + 1 /\ inbox'[i] = inbox[k]
    BY <1>2
  <2>2. PICK l \in DOMAIN inbox : l = j + 1 /\ inbox'[j] = inbox[l]
    BY <1>2
  <2>3. i \in Nat /\ j \in Nat
    BY <1>2
  <2>4. (i < j => k < l) /\ (i # j => k # l)
    BY <2>1, <2>2, <2>3
  <2> QED
    BY <1>1, <2>1, <2>2, <2>4 DEF OrderInv
<1>4. AloneInv' /\ AloneToo' /\ QueryIsSent'
  BY <1>1, <1>2 DEF AloneInv, AloneToo, QueryIsSent
<1>5. ASSUME m.of # 0
      PROVE  /\ ~Due("discard", m.of)' /\ ~Due("result", m.of)'
             /\ m.op # "result" => ~Due("query", m.of)'
  <2>1. ASSUME NEW i \in DOMAIN inbox', inbox'[i].of = m.of
        PROVE  /\ inbox'[i].op \notin {"discard", "result"}
               /\ m.op # "result" => inbox'[i].op # "query"
    <3>1. PICK k \in DOMAIN inbox : k > 1 /\ inbox'[i] = inbox[k]
      BY <1>2
    <3>2. 1 < k /\ k # 1
      BY <1>1, <3>1
    <3> QED
      BY <1>1, <1>2, <1>5, <2>1, <3>1, <3>2 DEF OrderInv
  <2>2. ASSUME NEW x \in answers, x.of = m.of
        PROVE  x.op \notin {"discard", "result", "query"}
    BY <1>1, <1>2, <2>2 DEF AloneInv, QueryIsSent
  <2> QED
    BY <2>1, <2>2 DEF Due
<1>6. ASSUME m.op = "discard"
      PROVE  \A op : ~Due(op, m.of)'
  <2>1. ASSUME NEW i \in DOMAIN inbox'
        PROVE  inbox'[i].of # m.of
    <3>1. PICK k \in DOMAIN inbox : k > 1 /\ inbox'[i] = inbox[k]
      BY <1>2
    <3>2. k # 1
      BY <1>1, <3>1
    <3> QED
      BY <1>1, <1>2, <1>6, <3>1, <3>2 DEF OrderInv
  <2>2. \A x \in answers : x.of # m.of
    BY <1>1, <1>2, <1>6 DEF AloneToo
  <2> QED
    BY <2>1, <2>2 DEF Due
<1> QED
  BY <1>3, <1>4, <1>5, <1>6

\* What an event of a job, an answer about it, and anything else leave of its state.
LEMMA JobPops ==
  ASSUME StoreInv, inbox # <<>>, inbox' = Tail(inbox), UNCHANGED <<answers, job>>,
         NEW m, m = Head(inbox), NEW t \in Source, overtaken \subseteq overtaken',
         \/ jobs'[t] = jobs[t] /\ ~(m.op = "job" /\ m.of = t)
         \/ m.op = "job" /\ m.of = t /\ jobs'[t] = m.state
         \/ /\ m.op \in {"import", "snapshot", "cancel"} /\ m.of = t /\ jobs'[t] = m.state
            /\ \/ t \in overtaken'
               \/ Order(m.state) >= Order(jobs[t]) /\ (m.state = jobs[t] \/ jobs[t] \notin Final)
  PROVE  JobShown(t)'
<1>1. /\ inbox \in Seq(MessageSet) /\ JobShown(t) /\ SentOK(t) /\ ShownTypes /\ HostTypes
  BY DEF StoreInv, SentTypes
<1>2. /\ inbox' \in Seq(MessageSet) /\ m = inbox[1] /\ 1 \in DOMAIN inbox
      /\ \A i \in DOMAIN inbox' : i + 1 \in DOMAIN inbox /\ i + 1 > 1 /\ inbox'[i] = inbox[i + 1]
      /\ \A i \in DOMAIN inbox : i # 1 => i - 1 \in DOMAIN inbox' /\ inbox'[i - 1] = inbox[i]
      /\ \A i \in DOMAIN inbox : i \in Nat
      /\ Due(m.op, m.of)
  BY <1>1, PopFacts
<1>3. jobs'[t] # "none" => job'[t] # "none"
  <2>1. CASE jobs'[t] = jobs[t]
    BY <1>1, <2>1 DEF JobShown
  <2>2. CASE m.of = t /\ m.op \in {"job", "snapshot", "cancel"}
    BY <1>1, <1>2, <2>2 DEF SentOK
  <2>3. CASE m.of = t /\ m.op = "import" /\ jobs'[t] = m.state
    <3>1. m.state # "none" /\ Order(m.state) <= Order(job[t])
      BY <1>2, <2>3 DEF StoreInv, WireOK, MessageOK
    <3>2. m.state \in JobStates
      BY <1>2, <2>3 DEF StoreInv, WireOK, MessageOK
    <3>3. job[t] # "none"
      BY <3>1, <3>2 DEF Order, JobStates, Final
    <3> QED
      BY <3>3
  <2> QED
    BY <2>1, <2>2, <2>3
<1>4. ASSUME NEW i \in DOMAIN inbox', IsJob(i, t)', \A j \in DOMAIN inbox' : j > i => ~IsJob(j, t)'
      PROVE  inbox'[i].state = job'[t]
  <2>1. PICK k \in DOMAIN inbox : k = i + 1 /\ inbox'[i] = inbox[k]
    BY <1>2
  <2>2. IsJob(k, t)
    BY <1>4, <2>1 DEF IsJob
  <2>3. ASSUME NEW l \in DOMAIN inbox, l > k, IsJob(l, t)
        PROVE  FALSE
    <3>1. PICK j \in DOMAIN inbox' : j = l - 1 /\ inbox'[j] = inbox[l]
      BY <1>2, <2>1, <2>3
    <3>2. j > i
      BY <1>2, <2>1, <2>3, <3>1
    <3> QED
      BY <1>4, <2>3, <3>1, <3>2 DEF IsJob
  <2> QED
    BY <1>1, <2>1, <2>2, <2>3 DEF JobShown
<1>5. ASSUME \A i \in DOMAIN inbox' : ~IsJob(i, t)'
      PROVE  jobs'[t] = job'[t] \/ t \in overtaken'
  <2>1. \A i \in DOMAIN inbox : i # 1 => ~IsJob(i, t)
    <3> SUFFICES ASSUME NEW i \in DOMAIN inbox, i # 1, IsJob(i, t) PROVE FALSE
      OBVIOUS
    <3>1. PICK j \in DOMAIN inbox' : inbox'[j] = inbox[i]
      BY <1>2
    <3> QED
      BY <1>5, <3>1 DEF IsJob
  <2>2. CASE m.op = "job" /\ m.of = t
    <3>1. IsJob(1, t) /\ \A j \in DOMAIN inbox : j > 1 => ~IsJob(j, t)
      BY <1>2, <2>1, <2>2 DEF IsJob
    <3> QED
      BY <1>1, <1>2, <2>2, <3>1 DEF JobShown
  <2>3. CASE ~(m.op = "job" /\ m.of = t)
    <3>1. jobs[t] = job[t] \/ t \in overtaken
      BY <1>1, <1>2, <2>1, <2>3 DEF JobShown, IsJob
    <3>2. CASE jobs'[t] = jobs[t]
      BY <3>1, <3>2
    <3>3. ASSUME m.op \in {"import", "snapshot", "cancel"}, m.of = t, jobs'[t] = m.state,
                 jobs[t] = job[t], Order(m.state) >= Order(jobs[t]),
                 m.state = jobs[t] \/ jobs[t] \notin Final
          PROVE  jobs'[t] = job'[t]
      <4>1. /\ m.state \in JobStates \ {"none"} /\ Order(m.state) <= Order(job[t])
            /\ job[t] \in JobStates
        BY <1>1, <1>2, <3>3 DEF StoreInv, WireOK, MessageOK, HostTypes
      <4>2. Order(m.state) = Order(job[t])
        BY <3>3, <4>1, OrderBound
      <4>3. m.state = job[t]
        BY <3>3, <4>1, <4>2 DEF Order, JobStates, Final
      <4> QED
        BY <3>3, <4>3
    <3> QED
      BY <2>3, <3>1, <3>2, <3>3
  <2> QED
    BY <2>2, <2>3
<1> QED
  BY <1>3, <1>4, <1>5 DEF JobShown

\* What is handled leaves what it does not speak of, and is not lost for what it does.
\* T are the sources it changes.
Handles(m, T) ==
  /\ inbox # <<>> /\ inbox' = Tail(inbox) /\ m = Head(inbox)
  /\ UNCHANGED <<host, answers, open, abandoned, opened>>
  /\ ShownTypes'
  /\ calls \subseteq calls' /\ calls' \subseteq CallSet /\ overtaken \subseteq overtaken'
  /\ \A c \in calls' \ calls : c.op = "discard" /\ CallOK(c)' /\ kind[c.of] # "none"
  /\ T \subseteq Source /\ (m.of # 0 => m.of \in T)
  /\ \A t \in Source \ T : /\ sources'[t] = sources[t] /\ jobs'[t] = jobs[t]
                           /\ (t \in removed' <=> t \in removed) /\ (t \in astray => t \in astray')
  /\ \A t \in T : SentOK(t)' /\ ShownOK(t)' /\ kind[t] # "none"
  /\ \A t \in Source : JobShown(t)' /\ Held(t)'
  /\ \A d \in Document : AttachedOK(d)'
  /\ \A d \in Document : \/ attached'[d] \in {attached[d], 0}
                         \/ m.op = "query" /\ attached'[d] = m.of

\* So does every handler of which that can be said.
LEMMA HandleTells ==
  ASSUME StoreInv, NEW m, NEW T, Handles(m, T)
  PROVE  StoreInv'
<1>0. /\ inbox # <<>> /\ inbox' = Tail(inbox) /\ m = Head(inbox) /\ UNCHANGED <<host, answers>>
      /\ inbox \in Seq(MessageSet) /\ UNCHANGED <<table, kind, job, committed>>
      /\ \A t : (Going(t)' <=> Going(t)) /\ (Done(t)' <=> Done(t))
  BY DEF Handles, StoreInv, SentTypes, host, Going, Done
<1>1. /\ inbox' \in Seq(MessageSet) /\ m \in MessageSet
      /\ \A i \in DOMAIN inbox' : i + 1 \in DOMAIN inbox /\ inbox'[i] = inbox[i + 1]
      /\ \A op, s : Due(op, s)' => Due(op, s)
      /\ \A op, s : Due(op, s) => Due(op, s)' \/ (m.op = op /\ m.of = s)
      /\ \A s : FailureDue(s)' => FailureDue(s)
  BY <1>0, PopFacts
<1>2. OrderInv' /\ AloneInv' /\ AloneToo' /\ QueryIsSent'
  BY <1>0, HeadAlone
<1>3. HostTypes' /\ ShownTypes' /\ SentTypes'
  BY <1>0, <1>1 DEF StoreInv, HostTypes, SentTypes, Handles
<1>4. ASSUME NEW t \in Source
      PROVE  HostOK(t)' /\ SentOK(t)' /\ ShownOK(t)' /\ (kind[t] = "none" => Unknown(t))'
  <2>1. HostOK(t) /\ SentOK(t) /\ ShownOK(t) /\ (kind[t] = "none" => Unknown(t))
    BY DEF StoreInv, MadeInv
  <2>2. CASE t \in T
    <3>1. SentOK(t)' /\ ShownOK(t)' /\ kind'[t] # "none"
      BY <1>0, <2>2 DEF Handles
    <3>2. HostOK(t)'
      BY <1>0, <2>1 DEF HostOK
    <3> QED
      BY <3>1, <3>2
  <2>3. CASE t \notin T
    <3>1. t # m.of /\ t # 0
      BY <2>3 DEF Handles, Source
    <3>2. /\ table'[t] = table[t] /\ kind'[t] = kind[t] /\ job'[t] = job[t] /\ jobs'[t] = jobs[t]
          /\ sources'[t] = sources[t] /\ (Going(t)' <=> Going(t)) /\ (Done(t)' <=> Done(t))
          /\ (t \in removed' <=> t \in removed) /\ (t \in astray => t \in astray')
      BY <1>0, <2>3 DEF Handles
    <3>3. \A op : Due(op, t)' <=> Due(op, t)
      BY <1>1, <3>1
    <3>4. FailureDue(t)' <=> FailureDue(t)
      <4>1. ASSUME NEW i \in DOMAIN inbox, inbox[i].op = "failed", inbox[i].of = t,
                   inbox[i].state = "failed"
            PROVE  FailureDue(t)'
        <5>1. i # 1
          BY <1>0, <3>1, <4>1
        <5>2. PICK j \in DOMAIN inbox' : inbox'[j] = inbox[i]
          BY <1>0, <5>1, PopFacts
        <5> QED
          BY <4>1, <5>2 DEF FailureDue
      <4>2. Due("failed import", t) => FailureDue(t)'
        BY <3>3 DEF FailureDue
      <4> QED
        BY <1>1, <4>1, <4>2 DEF FailureDue
    <3>5. \A c \in calls' : c.of = t => c \in calls \/ kind[t] # "none"
      BY DEF Handles
    <3> QED
      BY <2>1, <3>2, <3>3, <3>4, <3>5, ApartFrom
  <2> QED
    BY <2>2, <2>3
<1>5. MadeInv'
  BY <1>0, <1>4 DEF StoreInv, MadeInv, Numbered
<1>6. WireOK'
  <2>1. \A x : MessageOK(x)' <=> MessageOK(x)
    BY <1>0 DEF MessageOK, ForOK
  <2>2. ASSUME NEW c \in calls'
        PROVE  CallOK(c)'
    <3>1. CASE c \in calls
      <4>1. CallOK(c)
        BY <3>1 DEF StoreInv, WireOK
      <4>2. ForOK(c)'
        BY <1>0, <4>1 DEF CallOK, ForOK
      <4>3. ASSUME c.op = "discard", NEW d \in Document
            PROVE  attached'[d] # c.of
        <5>1. ~Due("query", c.of) /\ attached[d] # c.of /\ c.of # 0
          BY <4>1, <4>3 DEF CallOK
        <5>2. Due(m.op, m.of)
          BY <1>0, PopFacts
        <5> QED
          BY <5>1, <5>2 DEF Handles
      <4> QED
        BY <1>0, <1>1, <4>1, <4>2, <4>3 DEF CallOK
    <3>2. CASE c \notin calls
      BY <3>2 DEF Handles
    <3> QED
      BY <3>1, <3>2
  <2>3. \A i \in DOMAIN inbox' : \A x : x = inbox'[i] => MessageOK(x)'
    BY <1>1, <2>1 DEF StoreInv, WireOK
  <2>4. (\A i \in DOMAIN inbox : MessageOK(inbox[i]))'
    BY <2>3
  <2>5. \A x \in answers' : MessageOK(x)'
    BY <1>0, <2>1 DEF StoreInv, WireOK
  <2> QED
    BY <2>2, <2>4, <2>5 DEF WireOK
<1> QED
  BY <1>2, <1>3, <1>4, <1>5, <1>6 DEF StoreInv, Handles

ShownSet == [status : Statuses, ephemeral : BOOLEAN]

\* The first message is taken from the queue, and the host does nothing.
Pops(m) == /\ inbox # <<>> /\ inbox' = Tail(inbox) /\ m = Head(inbox)
           /\ UNCHANGED <<host, answers, open, abandoned, opened>>

\* What is known when a message is handled.
LEMMA HeadFacts ==
  ASSUME StoreInv, NEW m, Pops(m)
  PROVE  /\ UNCHANGED <<table, kind, job, committed, answers>>
         /\ \A t : (Going(t)' <=> Going(t)) /\ (Done(t)' <=> Done(t)) /\ (Dead(t)' <=> Dead(t))
         /\ m \in MessageSet /\ MessageOK(m) /\ Due(m.op, m.of)
         /\ \A op, s : Due(op, s)' => Due(op, s)
         /\ \A op, s : Due(op, s) => Due(op, s)' \/ (m.op = op /\ m.of = s)
         /\ \A s : FailureDue(s)' => FailureDue(s)
         /\ m.op = "failed import" \/ (m.op = "failed" /\ m.state = "failed") => FailureDue(m.of)
         /\ m.of # 0 => m.of \in Source /\ kind[m.of] # "none"
<1>1. /\ UNCHANGED <<table, kind, job, committed, answers>>
      /\ \A t : (Going(t)' <=> Going(t)) /\ (Done(t)' <=> Done(t))
      /\ inbox \in Seq(MessageSet) /\ inbox # <<>> /\ inbox' = Tail(inbox) /\ m = Head(inbox)
  BY DEF Pops, StoreInv, SentTypes, host, Going, Done
<1>2. \A t : Dead(t)' <=> Dead(t)
  BY <1>1 DEF Dead
<1>3. /\ m \in MessageSet /\ Due(m.op, m.of) /\ m = inbox[1] /\ 1 \in DOMAIN inbox
      /\ \A op, s : Due(op, s)' => Due(op, s)
      /\ \A op, s : Due(op, s) => Due(op, s)' \/ (m.op = op /\ m.of = s)
      /\ \A s : FailureDue(s)' => FailureDue(s)
      /\ m.op = "failed import" \/ (m.op = "failed" /\ m.state = "failed") => FailureDue(m.of)
  BY <1>1, PopFacts
<1>4. MessageOK(m)
  BY <1>3 DEF StoreInv, WireOK
<1>5. ASSUME m.of # 0
      PROVE  m.of \in Source /\ kind[m.of] # "none"
  <2>1. m.of \in Source /\ m.op \in Ops
    BY <1>3, <1>5 DEF MessageSet
  <2> QED
    BY <1>3, <2>1 DEF StoreInv, MadeInv, Unknown
<1> QED
  BY <1>1, <1>2, <1>3, <1>4, <1>5

\* What is left on its way is still true of the source of what is handled, and of an import.
LEMMA SentAfter ==
  ASSUME StoreInv, NEW m, Pops(m), NEW t \in Source,
         \/ t = m.of /\ m.op # "result"
         \/ t = m.of /\ sources'[t] = Result /\ removed' = removed
         \/ kind[t] = "import"
  PROVE  SentOK(t)'
<1>1. /\ UNCHANGED <<table, kind, job, committed>> /\ (Dead(t)' <=> Dead(t))
      /\ \A op, s : Due(op, s)' => Due(op, s)
      /\ \A op, s : Due(op, s) => Due(op, s)' \/ (m.op = op /\ m.of = s)
      /\ \A s : FailureDue(s)' => FailureDue(s)
  BY HeadFacts
<1>2. SentOK(t) /\ t # 0
  BY DEF StoreInv, Source
<1>3. t = m.of => /\ ~Due("discard", t)' /\ ~Due("result", t)'
                  /\ m.op # "result" => ~Due("query", t)'
  BY <1>2, HeadAlone DEF Pops
<1>4. kind[t] = "import" => ~Due("discard", t)' /\ ~Due("result", t)' /\ ~Due("query", t)'
  BY <1>1, <1>2 DEF SentOK
<1>5. Due("query", t)' => sources'[t] = Result /\ removed' = removed
  BY <1>3, <1>4
<1>6. ~Due("discard", t)' /\ ~Due("result", t)'
  BY <1>3, <1>4
<1> QED
  BY <1>1, <1>2, <1>5, <1>6 DEF SentOK, EndDue

\* F are imports that change with the source of m.
Plain(m, F) ==
  /\ Pops(m) /\ m.of # 0 /\ m.op \notin {"query", "close", "remove"}
  /\ UNCHANGED <<calls, attached>>
  /\ F \subseteq Source /\ \A t \in F : kind[t] = "import"
  /\ sources' \in [Source -> ShownSet] /\ astray' \subseteq removed'
  /\ \A t \in Source \ (F \cup {m.of}) : /\ sources'[t] = sources[t]
                                         /\ t \in removed' <=> t \in removed
                                         /\ t \in astray => t \in astray'
  /\ \/ UNCHANGED <<jobs, overtaken>> /\ m.op # "job"
     \/ m.op = "job" /\ UpsertJob(m.of, m.state) /\ UNCHANGED overtaken
     \/ m.op \in {"import", "snapshot", "cancel"} /\ JobAnswered(m.of, m.state)
  /\ m.op = "result" => sources'[m.of] = Result /\ removed' = removed

\* The jobs are shown as they were, or as the message says.
LEMMA PlainJobs ==
  ASSUME StoreInv, NEW m, NEW F, Plain(m, F)
  PROVE  /\ jobs' \in [Source -> JobStates] /\ overtaken \subseteq overtaken'
         /\ \A t \in Source \ {m.of} : jobs'[t] = jobs[t]
         /\ \A t \in Source : JobShown(t)'
<1>1. Pops(m) /\ jobs \in [Source -> JobStates]
  BY DEF Plain, StoreInv, ShownTypes
<1>2. m \in MessageSet /\ MessageOK(m) /\ m.of \in Source /\ UNCHANGED <<answers, job>>
  BY <1>1, HeadFacts DEF Plain
<1>3. inbox # <<>> /\ inbox' = Tail(inbox) /\ m = Head(inbox)
  BY <1>1 DEF Pops
<1>4. m.op \in {"job", "import", "snapshot", "cancel"} => m.state \in JobStates
  BY <1>2 DEF MessageOK
<1>5. CASE UNCHANGED <<jobs, overtaken>> /\ m.op # "job"
  <2>1. \A t \in Source : JobShown(t)'
    BY <1>2, <1>3, <1>5, JobPops
  <2> QED
    BY <1>1, <1>5, <2>1
<1>6. CASE m.op = "job" /\ UpsertJob(m.of, m.state) /\ UNCHANGED overtaken
  <2>1. jobs' = [jobs EXCEPT ![m.of] = m.state]
    BY <1>6 DEF UpsertJob
  <2>2. jobs'[m.of] = m.state /\ \A t \in Source \ {m.of} : jobs'[t] = jobs[t]
    BY <1>1, <1>2, <2>1
  <2>3. \A t \in Source : JobShown(t)'
    BY <1>2, <1>3, <1>6, <2>2, JobPops
  <2> QED
    BY <1>1, <1>4, <1>6, <2>1, <2>2, <2>3
<1>7. CASE m.op \in {"import", "snapshot", "cancel"} /\ JobAnswered(m.of, m.state)
  <2>1. /\ jobs' = [jobs EXCEPT ![m.of] = m.state]
        /\ overtaken' = IF \/ Order(m.state) < Order(jobs[m.of])
                           \/ m.state # jobs[m.of] /\ jobs[m.of] \in Final
                        THEN overtaken \cup {m.of} ELSE overtaken
    BY <1>7 DEF JobAnswered, UpsertJob
  <2>2. jobs'[m.of] = m.state /\ \A t \in Source \ {m.of} : jobs'[t] = jobs[t]
    BY <1>1, <1>2, <2>1
  <2>3. overtaken \subseteq overtaken'
    BY <2>1
  <2>4. \/ m.of \in overtaken'
        \/ /\ Order(m.state) >= Order(jobs[m.of])
           /\ m.state = jobs[m.of] \/ jobs[m.of] \notin Final
    BY <2>1, OrderBound
  <2>5. ASSUME NEW t \in Source
        PROVE  JobShown(t)'
    <3>1. CASE t = m.of
      BY <1>2, <1>3, <1>7, <2>2, <2>3, <2>4, <3>1, JobPops
    <3>2. CASE t # m.of
      BY <1>2, <1>3, <1>7, <2>2, <2>3, <3>2, JobPops
    <3> QED
      BY <3>1, <3>2
  <2> QED
    BY <1>1, <1>4, <1>7, <2>1, <2>2, <2>3, <2>5
<1> QED
  BY <1>5, <1>6, <1>7 DEF Plain

\* It is enough that what changes is shown as it should be.
LEMMA PlainTells ==
  ASSUME StoreInv, NEW m,
         NEW F, Plain(m, F), \A t \in F \cup {m.of} : ShownOK(t)'
  PROVE  StoreInv'
<1>1. Pops(m) /\ m.of # 0 /\ m.op \notin {"query", "close", "remove"}
  BY DEF Plain
<1>2. /\ UNCHANGED <<table, kind, calls, attached, open, opened, abandoned>>
      /\ \A op, s : Due(op, s)' => Due(op, s)
      /\ \A op, s : Due(op, s) => Due(op, s)' \/ (m.op = op /\ m.of = s)
      /\ m.of \in Source /\ kind[m.of] # "none"
  BY <1>1, HeadFacts DEF Plain, Pops
<1>3. /\ jobs' \in [Source -> JobStates] /\ overtaken \subseteq overtaken'
      /\ \A t \in Source \ {m.of} : jobs'[t] = jobs[t]
      /\ \A t \in Source : JobShown(t)'
  BY PlainJobs
<1>4. ShownTypes'
  BY <1>2, <1>3 DEF Plain, ShownTypes, ShownSet, StoreInv
<1>5. calls' \subseteq CallSet
  BY <1>2 DEF StoreInv, SentTypes
<1>6. ASSUME NEW t \in F \cup {m.of}
      PROVE  SentOK(t)' /\ kind[t] # "none"
  <2>1. t \in Source /\ (t = m.of \/ kind[t] = "import")
    BY <1>2 DEF Plain
  <2>2. \/ t = m.of /\ m.op # "result"
        \/ t = m.of /\ sources'[t] = Result /\ removed' = removed
        \/ kind[t] = "import"
    BY <2>1 DEF Plain
  <2> QED
    BY <1>1, <1>2, <2>1, <2>2, SentAfter
<1>7. \A t \in Source : Held(t)'
  BY <1>1, <1>2 DEF StoreInv, Held
<1>8. \A d \in Document : AttachedOK(d)'
  BY <1>1, <1>2 DEF StoreInv, AttachedOK
<1>9. /\ F \cup {m.of} \subseteq Source /\ m.of \in F \cup {m.of}
      /\ \A t \in Source \ (F \cup {m.of}) : /\ sources'[t] = sources[t] /\ jobs'[t] = jobs[t]
                                             /\ t \in removed' <=> t \in removed
                                             /\ t \in astray => t \in astray'
  BY <1>2, <1>3 DEF Plain
<1>10. Handles(m, F \cup {m.of})
  BY <1>1, <1>2, <1>3, <1>4, <1>5, <1>6, <1>7, <1>8, <1>9 DEF Handles, Pops
<1> QED
  BY <1>10, HandleTells

\* What a source that is shown becomes.
LEMMA MergeFacts ==
  ASSUME NEW old \in ShownSet, NEW new \in ShownSet
  PROVE  /\ Merge(old, new) \in ShownSet /\ Merge(old, new) \in {old, new}
         /\ new.status = "ready" => Merge(old, new) = new
         /\ old.status = "ready" /\ new.status # "ready" => Merge(old, new) = old
BY DEF Merge, ShownSet

\* What upsertSource shows, and that it does not go unnoticed if it was removed.
LEMMA UpsertFacts ==
  ASSUME StoreInv, NEW s \in Source,
         NEW new \in ShownSet, Upsert(s, new), UNCHANGED removed
  PROVE  /\ sources' \in [Source -> ShownSet] /\ sources'[s] \in {sources[s], new}
         /\ new.status = "ready" => sources'[s] = new
         /\ sources[s].status = "ready" /\ new.status # "ready" => sources'[s] = sources[s]
         /\ \A t \in Source \ {s} : sources'[t] = sources[t]
         /\ astray' \subseteq removed' /\ astray \subseteq astray'
         /\ s \in removed => s \in astray'
<1>1. sources \in [Source -> ShownSet] /\ astray \subseteq removed
  BY DEF StoreInv, ShownTypes, ShownSet
<1>2. PICK old \in ShownSet : old = sources[s]
  BY <1>1
<1>3. sources' = [sources EXCEPT ![s] = Merge(old, new)] /\ astray' = astray \cup ({s} \cap removed)
  BY <1>2 DEF Upsert
<1>4. /\ Merge(old, new) \in ShownSet /\ Merge(old, new) \in {old, new}
      /\ new.status = "ready" => Merge(old, new) = new
      /\ old.status = "ready" /\ new.status # "ready" => Merge(old, new) = old
  BY MergeFacts
<1>5. sources' \in [Source -> ShownSet] /\ sources'[s] = Merge(old, new)
  BY <1>1, <1>3, <1>4
<1>6. \A t \in Source \ {s} : sources'[t] = sources[t]
  BY <1>1, <1>3
<1>7. astray' \subseteq removed' /\ astray \subseteq astray' /\ (s \in removed => s \in astray')
  BY <1>1, <1>3
<1> QED
  BY <1>2, <1>4, <1>5, <1>6, <1>7

\* An import that goes on, or ended without a table, may be shown so.
LEMMA ImportShown ==
  ASSUME StoreInv, NEW m, Pops(m), NEW t \in Source, kind[t] = "import",
         NEW new \in ShownSet, new.status # "ready", ~new.ephemeral,
         new.status = "failed" => Dead(t), sources'[t] \in {sources[t], new},
         sources[t].status = "ready" => sources'[t] = sources[t],
         m.op \notin {"ready", "close", "remove", "discard"},
         t \in removed' <=> t \in removed,
         t \in removed' => t \in astray', astray \subseteq astray'
  PROVE  ShownOK(t)'
<1>1. /\ UNCHANGED <<table, kind>> /\ (Dead(t)' <=> Dead(t)) /\ (Done(t)' <=> Done(t))
      /\ \A op, s : Due(op, s) => Due(op, s)' \/ (m.op = op /\ m.of = s)
  BY HeadFacts
<1>2. ShownOK(t) /\ HostOK(t)
  BY DEF StoreInv
<1>3. table[t] # "result"
  BY <1>2 DEF HostOK
<1>4. Due("ready", t) => Due("ready", t)'
  BY <1>1
<1>5. EndDue(t) => EndDue(t)'
  BY <1>1 DEF EndDue
<1> QED
  BY <1>1, <1>2, <1>3, <1>4, <1>5 DEF ShownOK

\* What is not shown otherwise, and has not ended, stays shown as it is.
LEMMA StillShown ==
  ASSUME StoreInv, NEW m, Pops(m), NEW t \in Source, sources'[t] = sources[t],
         t = m.of => m.op \notin {"ready", "result", "save", "close", "remove", "discard"},
         t \in removed' <=> t \in removed, t \in astray' <=> t \in astray
  PROVE  ShownOK(t)'
<1>1. /\ UNCHANGED <<table, kind>> /\ (Dead(t)' <=> Dead(t)) /\ (Done(t)' <=> Done(t))
      /\ \A op, s : Due(op, s) => Due(op, s)' \/ (m.op = op /\ m.of = s)
  BY HeadFacts
<1>2. ShownOK(t)
  BY DEF StoreInv
<1>4. /\ Due("ready", t) => Due("ready", t)'
      /\ Due("save", t) => Due("save", t)'
      /\ Due("result", t) => Due("result", t)'
  BY <1>1
<1>5. EndDue(t) => EndDue(t)'
  BY <1>1 DEF EndDue
<1> QED
  BY <1>1, <1>2, <1>4, <1>5 DEF ShownOK

\* What shows one source by upsertSource, and is not of a document.
LEMMA UpsertTells ==
  ASSUME StoreInv,
         NEW m, Pops(m), m.of # 0, m.op \notin {"query", "close", "remove"},
         NEW new \in ShownSet, Upsert(m.of, new), UNCHANGED <<calls, attached, removed>>,
         \/ UNCHANGED <<jobs, overtaken>> /\ m.op # "job"
         \/ m.op = "job" /\ UpsertJob(m.of, m.state) /\ UNCHANGED overtaken
         \/ m.op \in {"import", "snapshot", "cancel"} /\ JobAnswered(m.of, m.state),
         m.op = "result" => new = Result, ShownOK(m.of)'
  PROVE  StoreInv'
<1>1. m.of \in Source
  BY HeadFacts
<1>2. /\ sources' \in [Source -> ShownSet] /\ (new.status = "ready" => sources'[m.of] = new)
      /\ \A t \in Source \ {m.of} : sources'[t] = sources[t]
      /\ astray' \subseteq removed' /\ astray \subseteq astray'
  BY <1>1, UpsertFacts
<1>3. m.op = "result" => sources'[m.of] = Result /\ removed' = removed
  BY <1>2, ShownFields
<1>4. \A t \in Source \ ({} \cup {m.of}) : /\ sources'[t] = sources[t]
                                           /\ t \in removed' <=> t \in removed
                                           /\ t \in astray => t \in astray'
  BY <1>2
<1>5. {} \subseteq Source /\ \A t \in {} : kind[t] = "import"
  OBVIOUS
<1>6. Plain(m, {})
  BY <1>2, <1>3, <1>4, <1>5 DEF Plain
<1>7. \A t \in {} \cup {m.of} : ShownOK(t)'
  OBVIOUS
<1> QED
  BY <1>6, <1>7, PlainTells

\* What leaves the sources.
LEMMA JobAnswerTells ==
  ASSUME StoreInv, NEW m, Pops(m), m.of # 0,
         m.op \notin {"query", "close", "remove", "ready", "result", "save", "discard"},
         UNCHANGED <<calls, attached, removed, sources, astray>>,
         \/ UNCHANGED <<jobs, overtaken>> /\ m.op # "job"
         \/ m.op = "job" /\ UpsertJob(m.of, m.state) /\ UNCHANGED overtaken
         \/ m.op \in {"import", "snapshot", "cancel"} /\ JobAnswered(m.of, m.state)
  PROVE  StoreInv'
<1>1. m.of \in Source
  BY HeadFacts
<1>2. sources' \in [Source -> ShownSet] /\ astray' \subseteq removed'
  BY DEF StoreInv, ShownTypes, ShownSet
<1>3. {} \subseteq Source /\ \A t \in {} : kind[t] = "import"
  OBVIOUS
<1>4. Plain(m, {})
  BY <1>2, <1>3 DEF Plain
<1>5. ShownOK(m.of)'
  BY <1>1, StillShown
<1>6. \A t \in {} \cup {m.of} : ShownOK(t)'
  BY <1>5
<1> QED
  BY <1>4, <1>6, PlainTells

\* Every status can be shown.
LEMMA ShownKinds ==
  ASSUME NEW status \in Statuses, NEW ephemeral \in BOOLEAN
  PROVE  /\ Shown(status, ephemeral) \in ShownSet /\ Shown(status, ephemeral).status = status
         /\ Shown(status, ephemeral).ephemeral = ephemeral
BY DEF Shown, ShownSet

\* A preview is of an import, and shown unless it ended.
LEMMA PreviewKeeps ==
  ASSUME StoreInv, NEW m, Pops(m), m.op = "preview", OnPreview(m)
  PROVE  StoreInv'
<1>1. m.of # 0 /\ m.of \in Source /\ MessageOK(m) /\ Due("preview", m.of)
  BY HeadFacts DEF MessageOK
<1>2. kind[m.of] = "import"
  BY <1>1 DEF StoreInv, SentOK
<1>3. PICK new \in ShownSet : new = Shown("preparing", FALSE) /\ new.status = "preparing"
                              /\ new.ephemeral = FALSE
  BY ShownKinds DEF Statuses
<1>4. Upsert(m.of, new) /\ UNCHANGED <<calls, jobs, attached, removed, overtaken>>
  BY <1>3 DEF OnPreview
<1>5. /\ sources'[m.of] \in {sources[m.of], new}
      /\ sources[m.of].status = "ready" => sources'[m.of] = sources[m.of]
      /\ astray \subseteq astray' /\ (m.of \in removed => m.of \in astray')
  BY <1>1, <1>3, <1>4, UpsertFacts
<1>6. ShownOK(m.of)'
  BY <1>1, <1>2, <1>3, <1>4, <1>5, ImportShown
<1> QED
  BY <1>1, <1>3, <1>4, <1>6, UpsertTells

\* What is shown as ready exists.
LEMMA ReadyShown ==
  ASSUME StoreInv, NEW m, Pops(m), NEW t \in Source, sources'[t] = Data,
         table[t] \in {"data", "gone"}, m.op \notin {"close", "remove", "discard"},
         t \in removed' <=> t \in removed, t \in removed => t \in astray', astray \subseteq astray'
  PROVE  ShownOK(t)'
<1>1. /\ UNCHANGED <<table, kind>>
      /\ \A op, s : Due(op, s) => Due(op, s)' \/ (m.op = op /\ m.of = s)
  BY HeadFacts
<1>2. ShownOK(t)
  BY DEF StoreInv
<1>5. EndDue(t) => EndDue(t)'
  BY <1>1 DEF EndDue
<1> QED
  BY <1>1, <1>2, <1>5, ShownFields DEF ShownOK

\* A source that is ready, saved or renamed has, or had, a table.
LEMMA ReadyKeeps ==
  ASSUME StoreInv, NEW m, Pops(m),
         \/ m.op = "ready" /\ OnReady(m)
         \/ m.op = "save" /\ SaveAnswered(m)
         \/ m.op = "rename" /\ RenameAnswered(m)
  PROVE  StoreInv'
<1>1. m.of # 0 /\ m.of \in Source /\ MessageOK(m) /\ Due(m.op, m.of)
  BY HeadFacts DEF MessageOK
<1>2. table[m.of] \in {"data", "gone"}
  BY <1>1 DEF StoreInv, SentOK
<1>3. PICK new \in ShownSet : new = Data /\ new.status = "ready"
  BY ShownKinds DEF Statuses, Data
<1>4. Upsert(m.of, new) /\ UNCHANGED <<calls, jobs, attached, removed, overtaken>>
  BY <1>3 DEF OnReady, SaveAnswered, RenameAnswered, Data
<1>5. /\ sources'[m.of] = Data /\ astray \subseteq astray' /\ (m.of \in removed => m.of \in astray')
  BY <1>1, <1>3, <1>4, UpsertFacts
<1>6. ShownOK(m.of)'
  BY <1>1, <1>2, <1>4, <1>5, ReadyShown
<1> QED
  BY <1>1, <1>3, <1>4, <1>6, UpsertTells

\* A result that is told is shown.
LEMMA ResultReadyKeeps ==
  ASSUME StoreInv, NEW m, Pops(m), m.op = "result", OnResultReady(m)
  PROVE  StoreInv'
<1>1. /\ m.of # 0 /\ m.of \in Source /\ MessageOK(m) /\ Due("result", m.of)
      /\ UNCHANGED <<table, kind>>
  BY HeadFacts DEF MessageOK
<1>2. table[m.of] = "result" /\ kind[m.of] = "query" /\ m.of \notin removed
  BY <1>1 DEF StoreInv, SentOK, ShownOK
<1>3. PICK new \in ShownSet : new = Result /\ new.status = "ready"
  BY ShownKinds DEF Statuses, Result
<1>4. Upsert(m.of, new) /\ UNCHANGED <<calls, jobs, attached, removed, overtaken>>
  BY <1>3 DEF OnResultReady, Result
<1>5. sources'[m.of] = Result
  BY <1>1, <1>3, <1>4, UpsertFacts
<1>6. ShownOK(m.of)'
  BY <1>1, <1>2, <1>4, <1>5, ShownFields DEF ShownOK
<1> QED
  BY <1>1, <1>3, <1>4, <1>6, UpsertTells

\* No source is numbered 0.
LEMMA NotNull == \A t \in Source : t # 0
BY SourcesAssumption DEF Source

\* An import that is shown as ended.
LEMMA EndedTells ==
  ASSUME StoreInv,
         NEW m, Pops(m), m.of # 0, m.op \in {"failed", "job", "cancel"},
         NEW state \in {"failed", "cancelled"}, kind[m.of] = "import",
         Upsert(m.of, Shown(state, sources[m.of].ephemeral)), state = "failed" => Dead(m.of),
         UNCHANGED <<calls, attached, removed>>,
         \/ UNCHANGED <<jobs, overtaken>> /\ m.op # "job"
         \/ m.op = "job" /\ UpsertJob(m.of, m.state) /\ UNCHANGED overtaken
         \/ m.op \in {"import", "snapshot", "cancel"} /\ JobAnswered(m.of, m.state)
  PROVE  StoreInv'
<1>1. m.of \in Source
  BY HeadFacts
<1>2. ~sources[m.of].ephemeral /\ sources[m.of].ephemeral \in BOOLEAN
  BY <1>1 DEF StoreInv, ShownOK, ShownTypes
<1>3. PICK new \in ShownSet : new = Shown(state, sources[m.of].ephemeral) /\ new.status = state
                              /\ ~new.ephemeral
  BY <1>2, ShownKinds DEF Statuses
<1>4. Upsert(m.of, new)
  BY <1>3
<1>5. /\ sources'[m.of] \in {sources[m.of], new}
      /\ (sources[m.of].status = "ready" => sources'[m.of] = sources[m.of])
      /\ astray \subseteq astray' /\ (m.of \in removed => m.of \in astray')
  BY <1>1, <1>3, <1>4, UpsertFacts
<1>6. ShownOK(m.of)'
  BY <1>1, <1>3, <1>5, ImportShown
<1> QED
  BY <1>3, <1>4, <1>6, UpsertTells

\* An import that failed left nothing.
LEMMA FailedKeeps ==
  ASSUME StoreInv, NEW m, Pops(m), m.op = "failed", OnFailed(m)
  PROVE  StoreInv'
<1>1. /\ m.of # 0 /\ m.of \in Source /\ m.state \in {"failed", "cancelled"}
      /\ (m.state = "failed" => FailureDue(m.of))
  BY HeadFacts DEF MessageOK
<1>2. UNCHANGED <<calls, jobs, attached, removed, overtaken>>
  BY DEF OnFailed
<1>3. CASE kind[m.of] = "import" /\ Upsert(m.of, Shown(m.state, sources[m.of].ephemeral))
  <2>1. m.state = "failed" => Dead(m.of)
    BY <1>1, <1>3 DEF StoreInv, SentOK
  <2> QED
    BY <1>1, <1>2, <1>3, <2>1, EndedTells
<1>4. CASE UNCHANGED <<sources, astray>>
  BY <1>1, <1>2, <1>4, JobAnswerTells
<1> QED
  BY <1>3, <1>4 DEF OnFailed

\* One that was cancelled is shown so unless it was ready before.
LEMMA CancelledKeeps ==
  ASSUME StoreInv,
         NEW m, Pops(m), m.of # 0, m.op \in {"job", "cancel"}, ShowsCancelled(m),
         UNCHANGED <<calls, attached, removed>>,
         \/ m.op = "job" /\ UpsertJob(m.of, m.state) /\ UNCHANGED overtaken
         \/ m.op \in {"import", "snapshot", "cancel"} /\ JobAnswered(m.of, m.state)
  PROVE  StoreInv'
<1>1. CASE kind[m.of] = "import" /\ Upsert(m.of, Shown("cancelled", sources[m.of].ephemeral))
  BY <1>1, EndedTells
<1>2. CASE UNCHANGED <<sources, astray>>
  BY <1>2, JobAnswerTells
<1> QED
  BY <1>1, <1>2 DEF ShowsCancelled

\* Events of jobs and answers about them preserve the invariant.
LEMMA JobsKeep ==
  ASSUME StoreInv, NEW m, Pops(m),
         \/ m.op = "job" /\ OnJobUpdated(m)
         \/ m.op = "cancel" /\ CancelAnswered(m)
         \/ m.op = "snapshot" /\ SnapshotAnswered(m)
  PROVE  StoreInv'
<1>1. m.of # 0
  BY HeadFacts DEF MessageOK
<1>2. CASE m.op = "job" /\ OnJobUpdated(m)
  BY <1>1, <1>2, CancelledKeeps DEF OnJobUpdated
<1>3. CASE m.op = "cancel" /\ CancelAnswered(m)
  BY <1>1, <1>3, CancelledKeeps DEF CancelAnswered
<1>4. CASE m.op = "snapshot" /\ SnapshotAnswered(m)
  BY <1>1, <1>4, JobAnswerTells DEF SnapshotAnswered
<1> QED
  BY <1>2, <1>3, <1>4

\* An import takes the place of the one it tries again.
LEMMA ImportsKeep ==
  ASSUME StoreInv, NEW m, Pops(m),
         \/ m.op = "import" /\ ImportAnswered(m)
         \/ m.op = "failed import" /\ ImportRefused(m)
  PROVE  StoreInv'
<1>1. /\ m.of # 0 /\ m.of \in Source /\ MessageOK(m) /\ Due(m.op, m.of)
      /\ m.op \in {"import", "failed import"} /\ (m.op = "failed import" => FailureDue(m.of))
      /\ UNCHANGED <<table, kind>>
  BY HeadFacts DEF MessageOK
<1>2. kind[m.of] = "import" /\ (m.op = "failed import" => Dead(m.of))
  BY <1>1 DEF StoreInv, SentOK
<1>3. m.for # 0 => m.for \in Source /\ kind[m.for] = "import" /\ m.for # m.of
  BY <1>1 DEF MessageOK, ForOK
<1>4. PICK status \in {"preparing", "failed"} :
        Replaces(m, status) /\ (status = "failed" => m.op = "failed import")
  BY DEF ImportAnswered, ImportRefused
<1>5. PICK new \in ShownSet : new = Shown(status, FALSE) /\ new.status = status /\ ~new.ephemeral
  BY ShownKinds DEF Statuses
<1>6. /\ sources \in [Source -> ShownSet] /\ astray \subseteq removed /\ Absent \in ShownSet
  BY DEF StoreInv, ShownTypes, ShownSet, Absent, Statuses
<1>7a. PICK without : without = IF m.for = 0 THEN sources ELSE [sources EXCEPT ![m.for] = Absent]
  OBVIOUS
<1>7. /\ without \in [Source -> ShownSet] /\ without[m.of] = sources[m.of]
      /\ \A t \in Source \ {m.for} : without[t] = sources[t]
      /\ (m.for # 0 => without[m.for] = Absent)
  <2>1. CASE m.for = 0
    BY <1>6, <1>7a, <2>1
  <2>2. CASE m.for # 0
    BY <1>1, <1>3, <1>6, <1>7a, <2>2
  <2> QED
    BY <2>1, <2>2
<1>8. PICK old \in ShownSet : old = sources[m.of]
  BY <1>1, <1>6
<1>9. /\ sources' = [without EXCEPT ![m.of] = Merge(without[m.of], new)]
      /\ astray' = astray \cup ({m.of} \cap removed)
                          \cup {s \in {m.for} \ {0} : sources[s].status # "failed"}
      /\ removed' = removed \cup ({m.for} \ {0})
  BY <1>4, <1>5, <1>7a DEF Replaces
<1>10. /\ Merge(old, new) \in ShownSet /\ Merge(old, new) \in {old, new}
       /\ (old.status = "ready" => Merge(old, new) = old)
  BY <1>4, <1>5, MergeFacts
<1>11. /\ sources' \in [Source -> ShownSet] /\ sources'[m.of] \in {sources[m.of], new}
       /\ (sources[m.of].status = "ready" => sources'[m.of] = sources[m.of])
       /\ \A t \in Source \ {m.of} : sources'[t] = without[t]
  BY <1>1, <1>7, <1>8, <1>9, <1>10
<1>12. /\ astray' \subseteq removed' /\ astray \subseteq astray'
       /\ (m.of \in removed' <=> m.of \in removed) /\ (m.of \in removed' => m.of \in astray')
       /\ \A t \in Source \ {m.for} : t \in removed' <=> t \in removed
  BY <1>1, <1>3, <1>6, <1>9
<1>13. ShownOK(m.of)'
  <2>1. new.status # "ready" /\ (new.status = "failed" => Dead(m.of))
    BY <1>2, <1>4, <1>5
  <2> QED
    BY <1>1, <1>2, <1>5, <1>11, <1>12, <2>1, ImportShown
<1>14. ASSUME m.for # 0
       PROVE  ShownOK(m.for)'
  <2>1. PICK t \in Source : t = m.for /\ kind[t] = "import" /\ t # m.of
    BY <1>3, <1>14
  <2>2. sources'[t] = Absent /\ t \in removed'
    BY <1>7, <1>9, <1>11, <1>14, <2>1
  <2>3. t \notin astray' => sources[t].status = "failed"
    BY <1>9, <1>14, <2>1
  <2>4. HostOK(t) /\ ShownOK(t)
    BY DEF StoreInv
  <2>5. table[t] # "result" /\ (t \notin astray' => table[t] # "data")
    BY <2>1, <2>3, <2>4 DEF HostOK, ShownOK, Dead
  <2> QED
    BY <1>1, <2>1, <2>2, <2>5, ShownFields DEF ShownOK
<1>15. \A t \in Source \ (({m.for} \ {0}) \cup {m.of}) :
         /\ sources'[t] = sources[t]
         /\ t \in removed' <=> t \in removed
         /\ t \in astray => t \in astray'
  <2>1. \A t \in Source : t # 0
    BY NotNull
  <2>2. ASSUME NEW t \in Source, t # m.for, t # m.of
        PROVE  /\ sources'[t] = sources[t]
               /\ t \in removed' <=> t \in removed
               /\ t \in astray => t \in astray'
    BY <1>7, <1>11, <1>12, <2>2
  <2>3. \A t \in Source \ (({m.for} \ {0}) \cup {m.of}) : t # m.for /\ t # m.of
    BY <2>1
  <2> QED
    BY <2>2, <2>3
<1>16. /\ ({m.for} \ {0}) \subseteq Source /\ \A t \in {m.for} \ {0} : kind[t] = "import"
  BY <1>3
<1>17. /\ UNCHANGED <<calls, attached>>
       /\ \/ UNCHANGED <<jobs, overtaken>> /\ m.op # "job"
          \/ m.op \in {"import", "snapshot", "cancel"} /\ JobAnswered(m.of, m.state)
  BY DEF ImportAnswered, ImportRefused
<1>18. Plain(m, {m.for} \ {0})
  BY <1>1, <1>11, <1>12, <1>15, <1>16, <1>17 DEF Plain
<1>19. \A t \in ({m.for} \ {0}) \cup {m.of} : ShownOK(t)'
  BY <1>13, <1>14
<1> QED
  BY <1>18, <1>19, PlainTells

\* A result that was discarded is removed.
LEMMA DiscardKeeps ==
  ASSUME StoreInv, NEW m, Pops(m), m.op = "discard", DiscardAnswered(m)
  PROVE  StoreInv'
<1>1. /\ m.of # 0 /\ m.of \in Source /\ Due("discard", m.of) /\ UNCHANGED <<table, kind>>
  BY HeadFacts DEF MessageOK
<1>2. kind[m.of] = "query" /\ sources[m.of] = Result /\ table[m.of] = "gone"
  BY <1>1 DEF StoreInv, SentOK, EndDue
<1>3. RemoveSource(m.of) /\ UNCHANGED <<calls, jobs, attached, overtaken>>
  BY <1>2, ShownFields DEF DiscardAnswered
<1>4. /\ sources \in [Source -> ShownSet] /\ astray \subseteq removed /\ Absent \in ShownSet
  BY DEF StoreInv, ShownTypes, ShownSet, Absent, Statuses
<1>5. /\ sources' \in [Source -> ShownSet] /\ sources'[m.of] = Absent
      /\ \A t \in Source \ {m.of} : sources'[t] = sources[t]
      /\ removed' = removed \cup {m.of} /\ astray' = astray
  BY <1>1, <1>3, <1>4 DEF RemoveSource
<1>6. ShownOK(m.of)'
  BY <1>1, <1>2, <1>5, ShownFields DEF ShownOK
<1>7. \A t \in Source \ ({} \cup {m.of}) : /\ sources'[t] = sources[t]
                                           /\ t \in removed' <=> t \in removed
                                           /\ t \in astray => t \in astray'
  BY <1>5
<1>8. {} \subseteq Source /\ \A t \in {} : kind[t] = "import"
  OBVIOUS
<1>9. Plain(m, {})
  BY <1>1, <1>3, <1>4, <1>5, <1>7, <1>8 DEF Plain
<1>10. \A t \in {} \cup {m.of} : ShownOK(t)'
  BY <1>6
<1> QED
  BY <1>9, <1>10, PlainTells

\* What does not speak of jobs leaves them.
LEMMA JobsStay ==
  ASSUME StoreInv, NEW m, Pops(m), m.op # "job", UNCHANGED <<jobs, overtaken>>
  PROVE  \A t \in Source : JobShown(t)'
<1>1. UNCHANGED <<answers, job>> /\ inbox # <<>> /\ inbox' = Tail(inbox) /\ m = Head(inbox)
  BY HeadFacts DEF Pops
<1> QED
  BY <1>1, JobPops

\* A source that is removed is let go of by its document.
LEMMA RemovalKeeps ==
  ASSUME StoreInv,
         NEW m, Pops(m), m.op \in {"close", "remove"}, RemovalAnswered(m),
         open \subseteq Document
  PROVE  StoreInv'
<1>1. /\ m.of # 0 /\ m.of \in Source /\ kind[m.of] # "none" /\ UNCHANGED <<table, kind>>
      /\ Due(m.op, m.of)
      /\ \A op, s : Due(op, s)' => Due(op, s)
      /\ \A op, s : Due(op, s) => Due(op, s)' \/ (m.op = op /\ m.of = s)
  BY HeadFacts DEF MessageOK
<1>2. table[m.of] = "gone"
  BY <1>1 DEF StoreInv, SentOK, EndDue
<1>3. /\ RemoveSource(m.of) /\ UNCHANGED <<calls, jobs, overtaken, open, opened, abandoned>>
      /\ attached' = [d \in Document |-> IF attached[d] = m.of THEN 0 ELSE attached[d]]
  BY DEF RemovalAnswered, ForgetQueryResultSource, Pops
<1>4. /\ sources \in [Source -> ShownSet] /\ astray \subseteq removed /\ Absent \in ShownSet
      /\ attached \in [Document -> Source \cup {0}] /\ jobs \in [Source -> JobStates]
  BY DEF StoreInv, ShownTypes, ShownSet, Absent, Statuses
<1>5. /\ sources' \in [Source -> ShownSet] /\ sources'[m.of] = Absent
      /\ \A t \in Source \ {m.of} : sources'[t] = sources[t]
      /\ removed' = removed \cup {m.of} /\ astray' = astray
  BY <1>1, <1>3, <1>4 DEF RemoveSource
<1>6. ShownTypes'
  BY <1>3, <1>4, <1>5 DEF ShownTypes, ShownSet
<1>7. SentOK(m.of)' /\ ShownOK(m.of)'
  <2>1. SentOK(m.of)'
    BY <1>1, SentAfter
  <2>2. ShownOK(m.of)'
    BY <1>1, <1>2, <1>5, ShownFields DEF ShownOK
  <2> QED
    BY <2>1, <2>2
<1>8. ASSUME NEW t \in Source
      PROVE  Held(t)'
  <2>1. Held(t)
    BY DEF StoreInv
  <2>2. CASE t = m.of
    BY <1>1, <1>2, <2>2 DEF Held
  <2>3. CASE t # m.of
    <3>1. \A d \in open : d \in Document /\ attached[d] = t => attached'[d] = t
      BY <1>3, <2>3
    <3>2. \A d \in open : attached[d] = t => \E e \in open' : attached'[e] = t
      <4> SUFFICES ASSUME NEW d \in open, attached[d] = t PROVE \E e \in open' : attached'[e] = t
        OBVIOUS
      <4> QED
        BY <1>3, <3>1
    <3>3. Due("query", t) => Due("query", t)'
      BY <1>1
    <3> QED
      BY <1>1, <1>3, <2>1, <3>2, <3>3 DEF Held
  <2> QED
    BY <2>2, <2>3
<1>9. ASSUME NEW d \in Document
      PROVE  AttachedOK(d)'
  <2>1. CASE attached'[d] = 0
    BY <2>1 DEF AttachedOK
  <2>2. CASE attached'[d] # 0
    <3>1. attached'[d] = attached[d] /\ attached[d] # m.of /\ attached[d] # 0
      BY <1>3, <2>2
    <3>2. \A e \in Document : attached'[e] = attached'[d] => attached[e] = attached[d]
      BY <1>3, <3>1
    <3>3. AttachedOK(d)
      BY DEF StoreInv
    <3> QED
      BY <1>1, <1>3, <3>1, <3>2, <3>3 DEF AttachedOK
  <2> QED
    BY <2>1, <2>2
<1>10. \A t \in Source : JobShown(t)'
  BY <1>3, JobsStay
<1>11. /\ {m.of} \subseteq Source /\ m.of \in {m.of} /\ calls' \subseteq CallSet /\ calls' = calls
       /\ \A d \in Document : attached'[d] \in {attached[d], 0}
       /\ overtaken' = overtaken
  BY <1>1, <1>3 DEF StoreInv, SentTypes
<1>12. \A t \in Source \ {m.of} : /\ sources'[t] = sources[t] /\ jobs'[t] = jobs[t]
                                  /\ (t \in removed' <=> t \in removed)
                                  /\ (t \in astray => t \in astray')
  BY <1>3, <1>5
<1>13. \A t \in {m.of} : SentOK(t)' /\ ShownOK(t)' /\ kind[t] # "none"
  BY <1>1, <1>7
<1>14. Handles(m, {m.of})
  BY <1>6, <1>8, <1>9, <1>10, <1>11, <1>12, <1>13 DEF Handles, Pops
<1> QED
  BY <1>14, HandleTells

\* A query that failed only lets its document run another.
LEMMA NoAnswerKeeps ==
  ASSUME StoreInv, NEW m, Pops(m), m.op = "query", m.of = 0, QueryAnswered(m)
  PROVE  StoreInv'
<1>1. /\ m.state # "ready" /\ UNCHANGED <<table, kind>>
      /\ \A op, s : Due(op, s)' => Due(op, s)
      /\ \A op, s : Due(op, s) => Due(op, s)' \/ (m.op = op /\ m.of = s)
  BY HeadFacts DEF MessageOK
<1>2. /\ UNCHANGED <<calls, sources, attached, astray, jobs, removed, overtaken>>
      /\ UNCHANGED <<open, opened, abandoned>>
  BY <1>1 DEF QueryAnswered, Pops
<1>3. \A t \in Source : Due("query", t) => Due("query", t)'
  BY <1>1, NotNull
<1>4. ASSUME NEW t \in Source
      PROVE  Held(t)'
  BY <1>1, <1>2, <1>3 DEF StoreInv, Held
<1>5. ASSUME NEW d \in Document
      PROVE  AttachedOK(d)'
  BY <1>1, <1>2 DEF StoreInv, AttachedOK
<1>6. \A t \in Source : JobShown(t)'
  BY <1>2, JobsStay
<1>7. ShownTypes' /\ calls' \subseteq CallSet
  BY <1>2 DEF StoreInv, ShownTypes, SentTypes
<1>8. Handles(m, {})
  BY <1>2, <1>4, <1>5, <1>6, <1>7 DEF Handles, Pops
<1> QED
  BY <1>8, HandleTells

\* What is known of a result when its query is answered.
LEMMA AnswerFacts ==
  ASSUME StoreInv, NEW m, Pops(m), m.op = "query", m.of # 0
  PROVE  /\ m.of \in Source /\ m.for \in Document /\ m.state = "ready"
         /\ kind[m.of] = "query" /\ m.of \notin removed /\ Due("query", m.of)
         /\ ~Due("result", m.of)' /\ ~Due("discard", m.of)' /\ ~Due("query", m.of)'
         /\ ~Due("discard", m.of)
         /\ table[m.of] # "none" /\ sources[m.of] # Data
         /\ table[m.of] = "data" /\ m.of \notin astray => Due("save", m.of)
         /\ table[m.of] = "gone" => Due("close", m.of)' \/ Due("remove", m.of)'
         /\ \A d \in Document : attached[d] # m.of
<1>1. /\ m.of \in Source /\ MessageOK(m) /\ Due("query", m.of)
      /\ \A op, s : Due(op, s) => Due(op, s)' \/ (m.op = op /\ m.of = s)
  BY HeadFacts
<1>2. ~Due("result", m.of)' /\ ~Due("discard", m.of)' /\ ~Due("query", m.of)'
  BY HeadAlone DEF Pops
<1>3. SentOK(m.of) /\ ShownOK(m.of) /\ HostOK(m.of) /\ m.of \notin removed /\ m.of \notin astray
  BY <1>1 DEF StoreInv, SentOK, ShownTypes
<1>4. ~Due("discard", m.of)
  BY <1>1, <1>2
<1>5. sources[m.of] # Data
  BY <1>1, <1>3, ShownFields DEF SentOK
<1>6. table[m.of] # "none" /\ kind[m.of] = "query"
  BY <1>1, <1>3 DEF SentOK, HostOK
<1>7. table[m.of] = "data" => Due("save", m.of)
  BY <1>3, <1>5, <1>6 DEF ShownOK
<1>8. table[m.of] = "gone" => Due("close", m.of)' \/ Due("remove", m.of)'
  <2>1. table[m.of] = "gone" => Due("close", m.of) \/ Due("remove", m.of)
    BY <1>3, <1>4 DEF ShownOK, EndDue
  <2> QED
    BY <1>1, <2>1
<1>9. \A d \in Document : attached[d] # m.of
  BY <1>1, NotNull DEF StoreInv, AttachedOK
<1>10. m.for \in Document /\ m.state = "ready"
  BY <1>1 DEF MessageOK, ForOK
<1> QED
  BY <1>1, <1>2, <1>3, <1>4, <1>5, <1>6, <1>7, <1>8, <1>9, <1>10

\* A result that is answered is shown as one.
LEMMA AnswerShown ==
  ASSUME StoreInv,
         NEW m, Pops(m), m.op = "query", m.of # 0, sources'[m.of] = Result,
         removed' = removed
  PROVE  SentOK(m.of)' /\ ShownOK(m.of)'
<1>1. /\ m.of \in Source /\ kind[m.of] = "query" /\ m.of \notin removed
      /\ table[m.of] # "none" /\ m.of \notin astray
      /\ (table[m.of] = "data" => Due("save", m.of))
      /\ (table[m.of] = "gone" => Due("close", m.of)' \/ Due("remove", m.of)')
  BY AnswerFacts DEF StoreInv, ShownTypes
<1>2. /\ UNCHANGED <<table, kind>>
      /\ \A op, s : Due(op, s) => Due(op, s)' \/ (m.op = op /\ m.of = s)
  BY HeadFacts
<1>3. SentOK(m.of)'
  BY <1>1, SentAfter
<1>4. Due("save", m.of) => Due("save", m.of)'
  BY <1>2
<1>5. ShownOK(m.of)'
  BY <1>1, <1>2, <1>4, ShownFields DEF ShownOK, EndDue
<1> QED
  BY <1>3, <1>5

\* The document of a query is closed: its result is discarded.
LEMMA ClosedTells ==
  ASSUME StoreInv,
         NEW m, Pops(m), m.op = "query", m.of # 0, sources'[m.of] = Result,
         m.for \notin open, calls' = calls \cup {Call("discard", m.of, 0)},
         UNCHANGED attached
  PROVE  /\ calls \subseteq calls' /\ calls' \subseteq CallSet
         /\ \A c \in calls' \ calls : c.op = "discard" /\ CallOK(c)' /\ kind[c.of] # "none"
         /\ \A t \in Source : Held(t)'
         /\ \A d \in Document : AttachedOK(d)'
<1>1. PICK c : c = Call("discard", m.of, 0)
  OBVIOUS
<1>2. /\ m.of \in Source /\ kind[m.of] = "query"
      /\ ~Due("result", m.of)' /\ ~Due("query", m.of)'
      /\ \A d \in Document : attached[d] # m.of
  BY AnswerFacts
<1>3. /\ UNCHANGED <<table, kind, job, open, opened, abandoned>>
      /\ \A op, s : Due(op, s)' => Due(op, s)
      /\ \A op, s : Due(op, s) => Due(op, s)' \/ (m.op = op /\ m.of = s)
  BY HeadFacts DEF Pops
<1>4. c \in CallSet /\ c.op = "discard" /\ c.of = m.of /\ c.for = 0
  BY <1>1, <1>2 DEF Call, CallSet, Ops
<1>5. CallOK(c)'
  BY <1>2, <1>3, <1>4, NotNull DEF CallOK, ForOK
<1>6. ASSUME NEW t \in Source
      PROVE  Held(t)'
  <2>1. CASE t = m.of
    BY <1>1, <1>4, <2>1 DEF Held
  <2>2. CASE t # m.of
    BY <1>3, <2>2 DEF StoreInv, Held
  <2> QED
    BY <2>1, <2>2
<1>7. \A d \in Document : AttachedOK(d)'
  BY <1>3 DEF StoreInv, AttachedOK
<1>8. calls \subseteq CallSet
  BY DEF StoreInv, SentTypes
<1>9. kind[c.of] # "none"
  BY <1>2, <1>4
<1>10. \A x \in calls' \ calls : x = c
  BY <1>1
<1> QED
  BY <1>1, <1>4, <1>5, <1>6, <1>7, <1>8, <1>9, <1>10

\* It is open, and lets go of the result it showed.
LEMMA OpenTells ==
  ASSUME StoreInv,
         NEW m, Pops(m), m.op = "query", m.of # 0, sources'[m.of] = Result,
         m.for \in open, m.for <= opened, calls' = calls \cup Discards(attached[m.for]),
         attached' = [attached EXCEPT ![m.for] = m.of]
  PROVE  /\ calls \subseteq calls' /\ calls' \subseteq CallSet
         /\ \A c \in calls' \ calls : c.op = "discard" /\ CallOK(c)' /\ kind[c.of] # "none"
         /\ \A t \in Source : Held(t)'
         /\ \A d \in Document : AttachedOK(d)'
         /\ attached' \in [Document -> Source \cup {0}]
         /\ \A d \in Document : attached'[d] \in {attached[d], m.of}
<1>1. /\ attached \in [Document -> Source \cup {0}] /\ calls \subseteq CallSet
      /\ \A d \in Document : AttachedOK(d)
  BY DEF StoreInv, ShownTypes, SentTypes
<1>2. /\ m.of \in Source /\ m.for \in Document /\ kind[m.of] = "query"
      /\ ~Due("result", m.of)' /\ ~Due("query", m.of)' /\ ~Due("discard", m.of)'
      /\ table[m.of] # "none"
      /\ table[m.of] = "gone" => Due("close", m.of)' \/ Due("remove", m.of)'
      /\ \A d \in Document : attached[d] # m.of
  BY AnswerFacts
<1>3. /\ UNCHANGED <<table, kind, job, open, opened, abandoned>>
      /\ \A op, s : Due(op, s)' => Due(op, s)
      /\ \A op, s : Due(op, s) => Due(op, s)' \/ (m.op = op /\ m.of = s)
  BY HeadFacts DEF Pops
<1>4. /\ attached'[m.for] = m.of /\ attached' \in [Document -> Source \cup {0}]
      /\ \A d \in Document \ {m.for} : attached'[d] = attached[d]
  BY <1>1, <1>2
<1>5. PICK a : a = attached[m.for]
  OBVIOUS
<1>6. PICK c : c = Call("discard", a, 0)
  OBVIOUS
<1>7. /\ (a # 0 /\ sources[a].ephemeral => calls' = calls \cup {c})
      /\ (~(a # 0 /\ sources[a].ephemeral) => calls' = calls)
  BY <1>5, <1>6 DEF Discards
<1>8. ASSUME a # 0, sources[a].ephemeral
      PROVE  /\ c \in CallSet /\ c.op = "discard" /\ c.of = a /\ CallOK(c)' /\ kind[a] # "none"
  <2>1. /\ Call("discard", a, 0) \in CallSet
        /\ kind[a] = "query" /\ ~Due("result", a) /\ ~Due("query", a)
        /\ \A e \in Document \ {m.for} : attached[e] # a
    BY <1>2, <1>5, <1>8, DiscardOK
  <2>2. c \in CallSet /\ c.op = "discard" /\ c.of = a /\ c.for = 0
    BY <1>6, <2>1 DEF Call
  <2>3. \A e \in Document : attached'[e] # a
    BY <1>2, <1>4, <1>5, <2>1
  <2>4. ~Due("result", a)' /\ ~Due("query", a)'
    BY <1>3, <2>1
  <2>5. CallOK(c)'
    BY <1>3, <1>8, <2>1, <2>2, <2>3, <2>4 DEF CallOK, ForOK
  <2> QED
    BY <2>1, <2>2, <2>5
<1>9. /\ calls \subseteq calls' /\ calls' \subseteq CallSet
      /\ \A x \in calls' \ calls : x.op = "discard" /\ CallOK(x)' /\ kind[x.of] # "none"
  <2>1. CASE a # 0 /\ sources[a].ephemeral
    <3>1. \A x \in calls' \ calls : x = c
      BY <1>7, <2>1
    <3> QED
      BY <1>1, <1>7, <1>8, <2>1, <3>1
  <2>2. CASE ~(a # 0 /\ sources[a].ephemeral)
    BY <1>1, <1>7, <2>2
  <2> QED
    BY <2>1, <2>2
<1>10. ASSUME NEW t \in Source
       PROVE  Held(t)'
  <2>1. CASE t = m.of
    BY <1>3, <1>4, <2>1 DEF Held
  <2>2. CASE t # m.of /\ t = a
    <3>1. ASSUME table[t] = "result"
          PROVE  \E x \in calls' : x.op = "discard" /\ x.of = t
      <4>1. a # 0 /\ sources[a].ephemeral
        BY <1>2, <1>5, <2>2, <3>1, NotNull, ResultShown
      <4> QED
        BY <1>7, <1>8, <2>2, <4>1
    <3> QED
      BY <1>3, <3>1 DEF Held
  <2>3. CASE t # m.of /\ t # a
    <3>1. Held(t)
      BY DEF StoreInv
    <3>2. \A d \in open : attached[d] = t => d # m.for
      BY <1>5, <2>3
    <3>3. \A d \in open : attached[d] = t => attached'[d] = t
      BY <3>2
    <3>4. (\E d \in open : attached[d] = t) => \E e \in open' : attached'[e] = t
      BY <1>3, <3>3
    <3>5. Due("query", t) => Due("query", t)'
      BY <1>3, <2>3
    <3>6. (\E x \in calls : x.op = "discard" /\ x.of = t) =>
             \E x \in calls' : x.op = "discard" /\ x.of = t
      BY <1>9
    <3> QED
      BY <1>3, <3>1, <3>4, <3>5, <3>6 DEF Held
  <2> QED
    BY <2>1, <2>2, <2>3
<1>11. ASSUME NEW d \in Document
       PROVE  AttachedOK(d)'
  <2>1. CASE d = m.for
    <3>1. \A e \in Document : attached'[e] = m.of => e = d
      BY <1>2, <1>4, <2>1
    <3>2. table[m.of] \in {"none", "result", "data", "gone"}
      BY <1>2 DEF StoreInv, HostTypes
    <3> QED
      BY <1>2, <1>3, <1>4, <2>1, <3>1, <3>2 DEF AttachedOK
  <2>2. CASE d # m.for
    <3>1. attached'[d] = attached[d] /\ attached[d] # m.of /\ AttachedOK(d)
      BY <1>1, <1>2, <1>4, <2>2
    <3>2. \A e \in Document : attached'[e] = attached'[d] => attached[e] = attached[d]
      BY <1>2, <1>4, <3>1
    <3> QED
      BY <1>3, <3>1, <3>2 DEF AttachedOK
  <2> QED
    BY <2>1, <2>2
<1>12. \A d \in Document : attached'[d] \in {attached[d], m.of}
  BY <1>4
<1> QED
  BY <1>4, <1>9, <1>10, <1>11, <1>12

\* The answer of a query preserves the invariant, whether its document is open or not.
LEMMA QueryKeeps ==
  ASSUME StoreInv, NEW m, Pops(m), m.op = "query", m.of # 0, QueryAnswered(m),
         \A d \in open : d <= opened
  PROVE  StoreInv'
<1>1. /\ m.of \in Source /\ m.state = "ready" /\ kind[m.of] # "none"
  BY AnswerFacts
<1>2. /\ Upsert(m.of, Shown("ready", TRUE)) /\ UNCHANGED <<jobs, removed, overtaken>>
      /\ IF m.for \in open
         THEN /\ attached' = [attached EXCEPT ![m.for] = m.of]
              /\ calls' = calls \cup Discards(attached[m.for])
         ELSE /\ calls' = calls \cup {Call("discard", m.of, 0)}
              /\ UNCHANGED attached
  BY <1>1 DEF QueryAnswered
<1>3. PICK new \in ShownSet : new = Shown("ready", TRUE) /\ new.status = "ready"
  BY ShownKinds DEF Statuses
<1>4. /\ sources' \in [Source -> ShownSet] /\ sources'[m.of] = Result
      /\ \A t \in Source \ {m.of} : sources'[t] = sources[t]
      /\ astray' \subseteq removed' /\ astray \subseteq astray'
  BY <1>1, <1>2, <1>3, UpsertFacts DEF Result
<1>5. /\ calls \subseteq calls' /\ calls' \subseteq CallSet
      /\ \A c \in calls' \ calls : c.op = "discard" /\ CallOK(c)' /\ kind[c.of] # "none"
      /\ \A t \in Source : Held(t)'
      /\ \A d \in Document : AttachedOK(d)'
      /\ attached' \in [Document -> Source \cup {0}]
      /\ \A d \in Document : attached'[d] \in {attached[d], m.of}
  <2>1. CASE m.for \in open
    BY <1>2, <1>4, <2>1, OpenTells
  <2>2. CASE m.for \notin open
    <3>1. attached \in [Document -> Source \cup {0}]
      BY DEF StoreInv, ShownTypes
    <3> QED
      BY <1>2, <1>4, <2>2, <3>1, ClosedTells
  <2> QED
    BY <2>1, <2>2
<1>6. SentOK(m.of)' /\ ShownOK(m.of)'
  BY <1>2, <1>4, AnswerShown
<1>7. \A t \in Source : JobShown(t)'
  BY <1>2, JobsStay
<1>8. ShownTypes'
  BY <1>2, <1>4, <1>5 DEF StoreInv, ShownTypes, ShownSet
<1>9. \A t \in Source \ {m.of} : /\ sources'[t] = sources[t] /\ jobs'[t] = jobs[t]
                                 /\ (t \in removed' <=> t \in removed)
                                 /\ (t \in astray => t \in astray')
  BY <1>2, <1>4
<1>10. \A t \in {m.of} : SentOK(t)' /\ ShownOK(t)' /\ kind[t] # "none"
  BY <1>1, <1>6
<1>11. {m.of} \subseteq Source /\ m.of \in {m.of} /\ overtaken' = overtaken
  BY <1>1, <1>2
<1>12. Handles(m, {m.of})
  BY <1>5, <1>7, <1>8, <1>9, <1>10, <1>11 DEF Handles, Pops
<1> QED
  BY <1>12, HandleTells

\* Every handler of the webview preserves the invariant.
LEMMA HandleStoreKeeps ==
  ASSUME StoreInv, DraftsInv, Handle, UNCHANGED opened
  PROVE  StoreInv'
<1>1. PICK m : m = Head(inbox)
  OBVIOUS
<1>2. /\ Pops(m)
      /\ \/ m.op = "preview" /\ OnPreview(m)
         \/ m.op = "ready" /\ OnReady(m)
         \/ m.op = "result" /\ OnResultReady(m)
         \/ m.op = "failed" /\ OnFailed(m)
         \/ m.op = "job" /\ OnJobUpdated(m)
         \/ m.op = "import" /\ ImportAnswered(m)
         \/ m.op = "failed import" /\ ImportRefused(m)
         \/ m.op = "snapshot" /\ SnapshotAnswered(m)
         \/ m.op = "query" /\ QueryAnswered(m)
         \/ m.op = "save" /\ SaveAnswered(m)
         \/ m.op \in {"close", "remove"} /\ RemovalAnswered(m)
         \/ m.op = "discard" /\ DiscardAnswered(m)
         \/ m.op = "rename" /\ RenameAnswered(m)
         \/ m.op = "cancel" /\ CancelAnswered(m)
  BY <1>1 DEF Handle, Pops
<1>3. open \subseteq Document /\ \A d \in open : d <= opened
  BY DEF DraftsInv, TitleTypes
<1>4. CASE m.op = "preview" /\ OnPreview(m)
  BY <1>2, <1>4, PreviewKeeps
<1>5. CASE \/ m.op = "ready" /\ OnReady(m)
           \/ m.op = "save" /\ SaveAnswered(m)
           \/ m.op = "rename" /\ RenameAnswered(m)
  BY <1>2, <1>5, ReadyKeeps
<1>6. CASE m.op = "result" /\ OnResultReady(m)
  BY <1>2, <1>6, ResultReadyKeeps
<1>7. CASE m.op = "failed" /\ OnFailed(m)
  BY <1>2, <1>7, FailedKeeps
<1>8. CASE \/ m.op = "job" /\ OnJobUpdated(m)
           \/ m.op = "cancel" /\ CancelAnswered(m)
           \/ m.op = "snapshot" /\ SnapshotAnswered(m)
  BY <1>2, <1>8, JobsKeep
<1>9. CASE \/ m.op = "import" /\ ImportAnswered(m)
           \/ m.op = "failed import" /\ ImportRefused(m)
  BY <1>2, <1>9, ImportsKeep
<1>10. CASE m.op = "query" /\ QueryAnswered(m)
  <2>1. CASE m.of = 0
    BY <1>2, <1>10, <2>1, NoAnswerKeeps
  <2>2. CASE m.of # 0
    BY <1>2, <1>3, <1>10, <2>2, QueryKeeps
  <2> QED
    BY <2>1, <2>2
<1>11. CASE m.op \in {"close", "remove"} /\ RemovalAnswered(m)
  BY <1>2, <1>3, <1>11, RemovalKeeps
<1>12. CASE m.op = "discard" /\ DiscardAnswered(m)
  BY <1>2, <1>12, DiscardKeeps
<1> QED
  BY <1>2, <1>4, <1>5, <1>6, <1>7, <1>8, <1>9, <1>10, <1>11, <1>12

-------------------------------------------------------------------------------
(* Every step                                                                *)

\* Nothing is made and nothing on its way at first.
LEMMA StoreInitially == DocumentsInit => StoreInv
<1> SUFFICES ASSUME DocumentsInit PROVE StoreInv
  OBVIOUS
<1>1. /\ table = [s \in Source |-> "none"] /\ kind = [s \in Source |-> "none"]
      /\ job = [s \in Source |-> "none"] /\ committed = {}
      /\ calls = {} /\ answers = {} /\ inbox = <<>>
      /\ sources = [s \in Source |-> Absent] /\ jobs = [s \in Source |-> "none"]
      /\ attached = [d \in Document |-> 0]
      /\ astray = {} /\ removed = {} /\ overtaken = {}
  BY DEF DocumentsInit, SourcesInit
<1>2. DOMAIN inbox = {} /\ inbox \in Seq(MessageSet)
  BY <1>1
<1>3. HostTypes /\ SentTypes
  BY <1>1, <1>2 DEF HostTypes, SentTypes, JobStates
<1>4. ShownTypes
  BY <1>1, ShownFields DEF ShownTypes, JobStates, Statuses, Absent
<1>5. /\ \A op, s : ~Due(op, s)
      /\ \A s : ~FailureDue(s) /\ ~EndDue(s) /\ ~Going(s) /\ ~Done(s)
  BY <1>1, <1>2 DEF Due, FailureDue, EndDue, Going, Done
<1>6. ASSUME NEW s \in Source
      PROVE  /\ table[s] = "none" /\ kind[s] = "none" /\ job[s] = "none" /\ jobs[s] = "none"
             /\ sources[s] = Absent
  BY <1>1
<1>7. MadeInv
  <2>1. Numbered
    <3>1. 0 \in 0 .. MaxSources /\ \A s \in Source : ~(s <= 0)
      BY SourcesAssumption DEF Source
    <3> QED
      BY <1>6, <3>1 DEF Numbered
  <2>2. \A s \in Source : Unknown(s)
    BY <1>1, <1>5, <1>6 DEF Unknown
  <2> QED
    BY <2>1, <2>2 DEF MadeInv
<1>8. OrderInv /\ AloneInv /\ AloneToo /\ QueryIsSent /\ WireOK
  BY <1>1, <1>2 DEF OrderInv, AloneInv, AloneToo, QueryIsSent, WireOK
<1>9. ASSUME NEW s \in Source
      PROVE  HostOK(s) /\ SentOK(s) /\ ShownOK(s) /\ JobShown(s) /\ Held(s)
  <2>1. HostOK(s)
    BY <1>5, <1>6, <1>9 DEF HostOK
  <2>2. SentOK(s)
    BY <1>5, <1>6 DEF SentOK
  <2>3. ShownOK(s)
    BY <1>5, <1>6, ShownFields DEF ShownOK
  <2>4. JobShown(s) /\ Held(s)
    BY <1>2, <1>6 DEF JobShown, Held
  <2> QED
    BY <2>1, <2>2, <2>3, <2>4
<1>10. \A d \in Document : AttachedOK(d)
  BY <1>1 DEF AttachedOK
<1> QED
  BY <1>3, <1>4, <1>7, <1>8, <1>9, <1>10 DEF StoreInv

\* Every step of the documents preserves the invariant.
LEMMA StoreKeeps ==
  ASSUME DraftsInv, StoreInv, [DocumentsNext]_documentVars
  PROVE  StoreInv'
<1>1. CASE DraftsNext
  BY <1>1, OpeningKeeps
<1>2. CASE SourcesNext /\ UNCHANGED draftVars
  <2>0. UNCHANGED opened
    BY <1>2 DEF draftVars, editors
  <2>1. CASE ImportPaths \/ SnapshotRelation \/ (\E d \in Document : RunQuery(d))
             \/ (\E s \in Source : Acts(s))
    BY <2>0, <2>1, AsksKeep
  <2>2. ASSUME NEW d \in Document, CloseDocument(d)
        PROVE  StoreInv'
    BY <2>0, <2>2, CloseKeeps
  <2>3. ASSUME NEW ds \in SUBSET Document, CloseOtherTabs(ds)
        PROVE  StoreInv'
    BY <2>0, <2>3, CloseOthersKeeps
  <2>4. CASE Host
    BY <2>0, <2>4, HostStoreKeeps
  <2>5. CASE Handle
    BY <2>0, <2>5, HandleStoreKeeps
  <2> QED
    BY <1>2, <2>1, <2>2, <2>3, <2>4, <2>5 DEF SourcesNext
<1>3. CASE UNCHANGED documentVars
  <2>1. /\ UNCHANGED <<host, calls, answers, inbox, sources, jobs, attached, astray, removed,
                       overtaken>>
        /\ UNCHANGED <<open, opened, abandoned>>
    BY <1>3 DEF documentVars, sourceVars, wire, shownVars, ghosts, draftVars,
                editors
  <2>2. {} \in SUBSET CallSet /\ calls' = calls \cup {}
    BY <2>1
  <2>3. /\ attached' \in [Document -> Source \cup {0}]
        /\ \A d \in Document : attached'[d] \in {attached[d], 0}
    BY <2>1 DEF StoreInv, ShownTypes
  <2>4. \A op, s : Due(op, s)' <=> Due(op, s)
    BY <2>1 DEF Due
  <2>5. \A s \in Source : Held(s)'
    BY <2>1, <2>4 DEF StoreInv, Held, host
  <2>6. \A d \in Document : AttachedOK(d)'
    BY <2>1, <2>4 DEF StoreInv, AttachedOK, host
  <2>7. \A c \in {} : CallOK(c)' /\ (c.of # 0 => kind[c.of] # "none")
    OBVIOUS
  <2> QED
    BY <2>1, <2>2, <2>3, <2>5, <2>6, <2>7, UserKeeps
<1> QED
  BY <1>1, <1>2, <1>3 DEF DocumentsNext

\* The invariant of the sources holds of the composition with the saved queries, which
\* open the documents.
THEOREM StoreInductive == DocumentsSpec => []StoreInv
<1>1. DocumentsSpec => []DraftsInv
  BY DraftsInductive
<1>2. DocumentsInit => StoreInv
  BY StoreInitially
<1>3. DraftsInv /\ StoreInv /\ [DocumentsNext]_documentVars => StoreInv'
  BY StoreKeeps
<1> QED
  BY <1>1, <1>2, <1>3, PTL DEF DocumentsSpec

\* For any number of sources, documents and calls: once all is quiet, the store shows the
\* sources and the jobs as the host has them, in whatever order events and answers came.
THEOREM StoreAgreed == DocumentsSpec => []StoreAgrees
<1>1. StoreInv => StoreAgrees
  <2> SUFFICES ASSUME StoreInv, Quiet PROVE /\ \A s \in Source \ astray :
                                                 /\ (sources[s].status = "ready") =
                                                      (table[s] \in {"result", "data"})
                                                 /\ sources[s].ephemeral = (table[s] = "result")
                                            /\ \A s \in Source \ overtaken : jobs[s] = job[s]
    BY DEF StoreAgrees, SourcesAgree, JobsAgree
  <2>1. /\ DOMAIN inbox = {} /\ \A op, s : ~Due(op, s)
        /\ \A s : ~EndDue(s) /\ ~Going(s) /\ ~Done(s)
    BY DEF Quiet, Due, EndDue, Going, Done
  <2>2. ASSUME NEW s \in Source \ astray
        PROVE  /\ (sources[s].status = "ready") = (table[s] \in {"result", "data"})
               /\ sources[s].ephemeral = (table[s] = "result")
    <3>1. /\ ShownOK(s) /\ HostOK(s) /\ table[s] \in {"none", "result", "data", "gone"}
          /\ sources[s].ephemeral \in BOOLEAN
      BY DEF StoreInv, HostTypes, ShownTypes
    <3>2. CASE table[s] = "none"
      BY <3>1, <3>2, ShownFields DEF ShownOK, HostOK
    <3>3. CASE table[s] = "result"
      BY <2>1, <3>1, <3>3, ShownFields DEF ShownOK
    <3>4. CASE table[s] = "data"
      BY <2>1, <3>1, <3>4, ShownFields DEF ShownOK
    <3>5. CASE table[s] = "gone"
      BY <2>1, <2>2, <3>1, <3>5, ShownFields DEF ShownOK
    <3> QED
      BY <3>1, <3>2, <3>3, <3>4, <3>5
  <2>3. ASSUME NEW s \in Source \ overtaken
        PROVE  jobs[s] = job[s]
    BY <2>1, <2>3 DEF StoreInv, JobShown
  <2> QED
    BY <2>2, <2>3
<1> QED
  BY <1>1, StoreInductive, PTL

\* And each result at the host is attached to an open document, or was let go of by
\* closing others, and what an open document shows exists.
THEOREM ResultsHeld == DocumentsSpec => []ResultsAreHeld
<1>1. DraftsInv /\ StoreInv => ResultsAreHeld
  <2> SUFFICES ASSUME DraftsInv, StoreInv, Quiet
               PROVE  /\ \A s \in Source : table[s] = "result" =>
                           s \in abandoned \/ \E d \in open : attached[d] = s
                      /\ \A d \in open : attached[d] # 0 =>
                           table[attached[d]] \in {"result", "data"}
    BY DEF ResultsAreHeld, ResultIsOwned, AttachedExists
  <2>1. calls = {} /\ \A op, s : ~Due(op, s)
    BY DEF Quiet, Due
  <2>2. ASSUME NEW s \in Source, table[s] = "result"
        PROVE  s \in abandoned \/ \E d \in open : attached[d] = s
    BY <2>1, <2>2 DEF StoreInv, Held
  <2>3. ASSUME NEW d \in open, attached[d] # 0
        PROVE  table[attached[d]] \in {"result", "data"}
    <3>1. d \in Document
      BY <2>3 DEF DraftsInv, TitleTypes
    <3> QED
      BY <2>1, <2>3, <3>1 DEF StoreInv, AttachedOK
  <2> QED
    BY <2>2, <2>3
<1> QED
  BY <1>1, DraftsInductive, StoreInductive, PTL
===============================================================================
