------------------------------ MODULE ProjectWork ------------------------------
(***************************************************************************)
(* Projects, the jobs that import data into them and the application that  *)
(* stops: app.go on top of the job manager (Jobs), with the catalog        *)
(* mutation lock of internal/database and the transactions of              *)
(* internal/importers and internal/workspace.                              *)
(*                                                                         *)
(* A call of the API looks at the application and at the project, then does *)
(* something else (a preview, a wait for the lock) and only then acts: each *)
(* of these is a step.  The task of a job is the import of one source,     *)
(* which materialises it and publishes its row in one transaction.         *)
(***************************************************************************)
EXTENDS Jobs

CONSTANTS Project,    \* identifiers of the projects, all active at first
          ProjectOf   \* the project of each job (Metadata.ProjectID)

ASSUME ProjectAssumption == /\ Project # {}
                            /\ IsFiniteSet(Project)
                            /\ Job \cap Project = {}
                            /\ ProjectOf \in [Job -> Project]

VARIABLES
  archived,   \* projects whose archived_at is set
  archivePc,  \* archivePc[p]: where the call of ArchiveProject for p is
  caller,     \* caller[j]: where the call of ImportPaths that submits j is
  tx,         \* tx[j]: the transaction of the task of j
  published,  \* jobs whose source is in ducs_meta.datasets
  token,      \* who holds the mutation lock: a job, a project being archived
  dbClosed    \* db.Close was called

projectVars == <<archived, archivePc, caller, tx, published, token, dbClosed>>
workVars == <<vars, projectVars>>

Free == "free"

ASSUME FreeAssumption == Free \notin Job \cup Project

-------------------------------------------------------------------------------
WorkInit == /\ Init
            /\ archived = {}
            /\ archivePc = [p \in Project |-> "idle"]
            /\ caller = [j \in Job |-> "idle"]
            /\ tx = [j \in Job |-> "none"]
            /\ published = {}
            /\ token = Free
            /\ dbClosed = FALSE

\* App.ready, once startup succeeded: the application context is live.
Ready == ~parentDone

\* App.validateProject, before the file is previewed.
ValidateImport(j) == /\ caller[j] = "idle"
                     /\ Ready
                     /\ ProjectOf[j] \notin archived
                     /\ caller' = [caller EXCEPT ![j] = "validated"]
                     /\ UNCHANGED <<vars, archived, archivePc, tx, published,
                                    token, dbClosed>>

\* startImport reaches Submit; what was validated may no longer hold.
SubmitImport(j) == /\ caller[j] = "validated"
                   /\ Submit(j)
                   /\ caller' = [caller EXCEPT ![j] = "submitted"]
                   /\ UNCHANGED <<archived, archivePc, tx, published, token,
                                  dbClosed>>

RejectImport(j) == /\ caller[j] = "validated"
                   /\ closed \/ mgrDone
                   /\ caller' = [caller EXCEPT ![j] = "rejected"]
                   /\ UNCHANGED <<vars, archived, archivePc, tx, published,
                                  token, dbClosed>>

-------------------------------------------------------------------------------
\* Materialize: WithMutation takes the lock and a connection, which a closed
\* database refuses.
BeginImport(j) == /\ pc[j] = "task"
                  /\ tx[j] = "none"
                  /\ token = Free
                  /\ ~dbClosed
                  /\ token' = j
                  /\ tx' = [tx EXCEPT ![j] = "begun"]
                  /\ UNCHANGED <<vars, archived, archivePc, caller, published,
                                 dbClosed>>

InsertUnchecked(j) == TRUE                                              \* mutant
MayInsert(j) == ProjectOf[j] \notin archived

\* The staging table is read and renamed; InsertSourceTx then checks the
\* project inside the transaction.
InsertSource(j) == /\ pc[j] = "task"
                   /\ tx[j] = "begun"
                   /\ MayInsert(j)
                   /\ tx' = [tx EXCEPT ![j] = "inserted"]
                   /\ UNCHANGED <<vars, archived, archivePc, caller, published,
                                  token, dbClosed>>

\* tx.Commit publishes the source, whatever Cancel did in the meantime: the
\* context is last looked at before the commit itself.
CommitImport(j) == /\ pc[j] = "task"
                   /\ tx[j] = "inserted"
                   /\ tx' = [tx EXCEPT ![j] = "committed"]
                   /\ published' = published \cup {j}
                   /\ UNCHANGED <<vars, archived, archivePc, caller, token,
                                  dbClosed>>

\* Every error path rolls back: a statement that fails, an archived project,
\* a cancelled context, a failed attempt with no other reader to try.
RollbackImport(j) == /\ pc[j] = "task"
                     /\ tx[j] \in {"begun", "inserted"}
                     /\ tx' = [tx EXCEPT ![j] = "rolledBack"]
                     /\ UNCHANGED <<vars, archived, archivePc, caller, published,
                                    token, dbClosed>>

ReleaseImport(j) == /\ pc[j] = "task"
                    /\ tx[j] \in {"committed", "rolledBack"}
                    /\ token = j
                    /\ token' = Free
                    /\ UNCHANGED <<vars, archived, archivePc, caller, tx,
                                   published, dbClosed>>

\* The task returns nil for a committed import and an error for every other one,
\* the one that never got the lock included.
ErrorSwallowed(j) == {"ok", "contextCancelled", "error"}                \* mutant
ImportResult(j) == IF tx[j] = "committed" THEN {"ok"}
                                          ELSE {"contextCancelled", "error"}

ImportReturns(j) == /\ tx[j] \in {"none", "committed", "rolledBack"}
                    /\ token # j
                    /\ \E result \in ImportResult(j) : TaskReturns(j, result)
                    /\ UNCHANGED projectVars

-------------------------------------------------------------------------------
\* Manager.HasActiveProject: a job that is not terminal.
HasActiveProject(p) == \E j \in NotTerminalJobs : ProjectOf[j] = p

\* App.ArchiveProject first asks the job manager, which answers under its own
\* lock, and then calls the workspace.
CheckArchive(p) == /\ archivePc[p] = "idle"
                   /\ Ready
                   /\ ~HasActiveProject(p)
                   /\ archivePc' = [archivePc EXCEPT ![p] = "checked"]
                   /\ UNCHANGED <<vars, archived, caller, tx, published, token,
                                  dbClosed>>

BeginArchive(p) == /\ archivePc[p] = "checked"
                   /\ token = Free
                   /\ ~dbClosed
                   /\ token' = p
                   /\ archivePc' = [archivePc EXCEPT ![p] = "tx"]
                   /\ UNCHANGED <<vars, archived, caller, tx, published, dbClosed>>

\* In the transaction: the project is still active, and it is not the last one.
MayArchive(p) == /\ p \notin archived
                 /\ Cardinality(Project \ archived) > 1

CommitArchive(p) == /\ archivePc[p] = "tx"
                    /\ MayArchive(p)
                    /\ archived' = archived \cup {p}
                    /\ token' = Free
                    /\ archivePc' = [archivePc EXCEPT ![p] = "idle"]
                    /\ UNCHANGED <<vars, caller, tx, published, dbClosed>>

RollbackArchive(p) == /\ archivePc[p] = "tx"
                      /\ token' = Free
                      /\ archivePc' = [archivePc EXCEPT ![p] = "idle"]
                      /\ UNCHANGED <<vars, archived, caller, tx, published,
                                     dbClosed>>

\* The lock was not obtained: the context ended or the database is closed.
AbandonArchive(p) == /\ archivePc[p] = "checked"
                     /\ parentDone \/ dbClosed
                     /\ archivePc' = [archivePc EXCEPT ![p] = "idle"]
                     /\ UNCHANGED <<vars, archived, caller, tx, published, token,
                                    dbClosed>>

\* RestoreProject is one transaction that asks nothing of the other parts.
RestoreProject(p) == /\ Ready
                     /\ p \in archived
                     /\ token = Free
                     /\ archived' = archived \ {p}
                     /\ UNCHANGED <<vars, archivePc, caller, tx, published, token,
                                    dbClosed>>

-------------------------------------------------------------------------------
\* App.shutdown: cancel the application context, shut the manager down with a
\* deadline whose expiry is ignored, close the database.  It runs once.
StopApp == CancelParent /\ UNCHANGED projectVars

StopJobs == /\ parentDone
            /\ shutdown = "no"
            /\ Shutdown
            /\ UNCHANGED projectVars

CloseDatabase == /\ shutdown \in {"nil", "timeout"}
                 /\ ~dbClosed
                 /\ dbClosed' = TRUE
                 /\ UNCHANGED <<vars, archived, archivePc, caller, tx, published,
                                token>>

\* Steps of the manager that involve neither a project nor the database.
\* A progress report is made before the import takes the lock or after it
\* returned it.
ManagerOnly(j) == /\ \/ RunStep(j)
                     \/ token # j /\ Update(j)
                     \/ Cancel(j) \/ CancelEmit(j) \/ CancelFinish(j)
                     \/ PropagateToJob(j)
                  /\ UNCHANGED projectVars

JobWork(j) == \/ ValidateImport(j) \/ SubmitImport(j) \/ RejectImport(j)
              \/ BeginImport(j) \/ InsertSource(j) \/ CommitImport(j)
              \/ RollbackImport(j) \/ ReleaseImport(j) \/ ImportReturns(j)
              \/ ManagerOnly(j)

ProjectStep(p) == \/ CheckArchive(p) \/ BeginArchive(p) \/ CommitArchive(p)
                  \/ RollbackArchive(p) \/ AbandonArchive(p)
                  \/ RestoreProject(p)

AppStep == \/ StopApp \/ StopJobs \/ CloseDatabase
           \/ /\ PropagateToManager \/ JoinAll \/ ShutdownReturns
                 \/ ShutdownExpires
              /\ UNCHANGED projectVars

WorkNext == \/ \E j \in Job : JobWork(j)
            \/ \E p \in Project : ProjectStep(p)
            \/ AppStep

WorkSpec == WorkInit /\ [][WorkNext]_workVars

-------------------------------------------------------------------------------
WorkTypeOK == /\ TypeOK
              /\ archived \in SUBSET Project
              /\ archivePc \in [Project -> {"idle", "checked", "tx"}]
              /\ caller \in [Job -> {"idle", "validated", "submitted", "rejected"}]
              /\ tx \in [Job -> {"none", "begun", "inserted", "committed",
                                 "rolledBack"}]
              /\ published \in SUBSET Job
              /\ token \in {Free} \cup Job \cup Project
              /\ dbClosed \in BOOLEAN

\* No source appears in an archived project: a project that was archived after
\* the import was validated, or between the insertion and the commit, gets none.
NeverPublishedIntoArchived ==
  [][\A j \in published' \ published : ProjectOf[j] \notin archived]_workVars

\* Calls that archive different projects at the same time leave one active: the
\* count of active projects is read in the transaction that archives.
OneProjectStaysActive == archived # Project

\* The state a job ends with tells whether its source exists, though Cancel,
\* archiving and shutdown may come at any point of the import.
CompletedIffPublished ==
  \A j \in Job : pc[j] = "exited" => (snap[j].state = "completed" <=> j \in published)

\* When the manager was joined before its deadline, the database is closed under
\* no import: none holds the mutation lock or will ask for it.
ClosedUnderNoImport ==
  dbClosed /\ shutdown = "nil" => /\ token \notin Job
                                  /\ \A j \in Job : ~InTask(j)

\* An import and the database end in accordance: a job has completed exactly
\* when its rows are there, and none writes into a database that was closed
\* after a complete join.
ImportsAreSettled == CompletedIffPublished /\ ClosedUnderNoImport

===============================================================================
