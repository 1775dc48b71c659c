# Duc's Table, verified

TLA+ models of Duc's Table (a desktop workbench over DuckDB: a Go host, a React
webview, a Node sidecar for AI providers), the TLC configurations that check
them and the proofs that TLAPS checks. Every definition is translated from the
source under `src/`; `PROJECT.json` names the lines each one stands for. Paths
below are relative to `src/`.

1. [The system](#1-the-system)
2. [Modules and how they correspond to the code](#2-modules-and-how-they-correspond-to-the-code)
3. [What the runs check](#3-what-the-runs-check)
4. [Fairness](#4-fairness)
5. [What is proved](#5-what-is-proved)
6. [Where the code and its documents disagree](#6-where-the-code-and-its-documents-disagree)
7. [What is not modelled](#7-what-is-not-modelled)
8. [Plan](#8-plan)

## 1. The system

| Component | State it keeps | Operations | Runs concurrently with | Correct when |
|---|---|---|---|---|
| Job manager `internal/jobs` | jobs and their snapshots, semaphore, wait group, contexts, `closed` | Submit, run, Update, Cancel, Wait, Shutdown | one goroutine per job, every API call, shutdown | slots are bounded and given back, a state says what the task did, a join means nothing executes, everything cancelled leaves |
| Application `app.go` | the services, the application context | one method per bridge call, `startup`, `shutdown` | the webview calls methods concurrently | checks made before a call still hold when it acts, the database outlives what uses it |
| Workspace database `internal/database` | DuckDB file, pool of 4 connections, mutation lock | Open (migrate, clean up), WithTx, WithMutation, Close | every service | mutations are serial, no lock order can wait on itself, a start repairs what a crash left |
| Projects, sources, sessions, saved queries `internal/workspace` | rows in `ducs_meta` | create, rename, archive, restore, remove; load and save a session (normalised, reconciled) | jobs, webview calls | one project stays active, archived projects get nothing new, a session that loads is valid |
| Importers, query, export, grid | staging and result tables, pages of rows | Materialize, Run, SaveResult, CloseResult, ExportCSV, GetRows | jobs | a source exists exactly when its job completed; no orphan tables |
| Connections `internal/connections`, `internal/federation`, `internal/credentials` | runtime status of each connection, attachments and secrets of the reserved DuckDB connection, relation cache, Keychain | create, update, delete, test, connect, disconnect, catalog reads, snapshots, shutdown | webview calls, auto-connect, AI tools | status, attachment, password and row agree, and nothing survives a deletion |
| AI host `internal/ai` | runs, conversations and messages, approvals and grants, RPC peer, supervised process | Send, Stop, DeleteConversation, events, tool calls, Respond, Close | one goroutine per run and per tool call, the reader of the pipe | one run per conversation, no message streams for nobody, no preview without the user's permission |
| AI sidecar `ai-sidecar` | chats and provider sessions, pending requests, ids of tool calls | chat.start, chat.cancel, disposeSession, login, logout, tool.call, shutdown | event loop; the host, the app-server of Codex, the queries of Claude | a chat has one last event, its own, and it comes last; a cancelled chat ends; a tool call gets its own answer |
| Updates `internal/update`, `app_updates.go` | phase, release, cached bundle, installed bundle on disk | Start, Check, Download, Install, Skip, SetAutoCheck | schedule, network, user | what is installed verified and is newer; the application survives a failed swap |
| Webview stores `frontend/src/stores`, `App.tsx` | sources, jobs, tabs, documents, saved queries, catalogs, conversations, update | event handlers, replies of calls, actions of the user | host events and replies arrive at any time | once all is quiet, what is shown is what the host has; results have an owner |
| Project switches and autosave `project-session-sync.ts`, `App.tsx` | session of each project, queued saves, the switch in progress | edit, timer, flush, open, create, archive, restore | edits go on while calls are on their way | no edit is lost or saved to another project; a switch ends |
| Data grid `components/data-grid` | blocks of rows, view, cache, loading, viewer | getRows, sort, filter, hide, scroll, open a cell, new source | answers of GetRows at any time | what is shown was read for what is asked; loading ends |

How they interact: the webview calls methods of `App` and receives events
(`ducs:*`) emitted through `App.emit` until the application context ends. Long
work goes through the job manager, whose tasks take the database's mutation lock
and commit one transaction. Connections live on one reserved DuckDB connection,
whose lock is taken before the mutation lock. The AI host talks to the sidecar
over a pipe of JSON lines, in both directions; the tools the sidecar calls run in
the host and the one that reads rows, `preview_query`, asks the user first.
`App.shutdown` closes the AI, cancels the application context, shuts the jobs
down with a deadline whose expiry it ignores, shuts the connections down and
closes the database.

What is hard: the host has no single thread. Each service keeps a mutex and
releases it for slow work (a task, a file, a network call, ATTACH, a rename, a
line to the sidecar), so that almost every operation is two critical sections
with something in between; snapshots and events are copied under a lock and
delivered after it; contexts end at any time; and three of the parts (database,
Keychain, bundle on disk) outlive the process that was in the middle of changing
them. `PROJECT.json` lists these places under `hazards`, each at its line.

## 2. Modules and how they correspond to the code

A step of every module is one critical section of a mutex, one transaction, one
operation on a channel or the disk, or one line of a pipe: what the code does
without letting anybody in between. Values are reduced to what the properties
tell apart. Definitions marked `mutant` are plausible bugs, one for each
property; no specification uses them, and each breaks its property when it takes
the place of the definition below it.

**WorkPool** is the abstract promise of the job manager: tasks start at most once,
while the pool is open and a slot is free, and a join is reported only when none
executes.

**Jobs** (`internal/jobs/jobs.go`) implements it. `pc[j]` is where the goroutine
`run` of job `j` is; `snap`, `msg` and `view` are the snapshot under the lock, the
copy about to be emitted and the last one the callback received. Submit, the
select between slot and context, the second look under the lock, Update, Cancel
(in three parts: the critical section, the emission, the closing of `done`),
`finishCancelled`, the deferred releases, Shutdown, its join goroutine and its
deadline are the actions. How a task ends (`nil`, context error, other error) is
free, and a task may run forever.

**ProjectWork** extends Jobs with what `app.go` builds on it: ImportPaths validates
a project, then previews, then submits; the task takes the mutation lock, inserts
after looking at the project inside the transaction, commits or rolls back;
ArchiveProject asks the manager first and archives in a later transaction;
RestoreProject; `shutdown`. `token` is the mutation lock, `tx[j]` the transaction
of the task of `j`, `published` the rows of `ducs_meta.datasets`.

**Approvals** (`internal/ai/approvals.go`, `Tools.preview`). `pending` and `granted`
are the maps, `chan[r]` the channel of one decision. Respond, ClearConversation
and CancelAll pick channels under the lock and send after it, so a decision can
arrive after a second look would have refused it. `first` and `fresh` are history:
the first decision that entered a channel, and the answers that granted a
conversation since it was last cleared.

**AIRuns** (`internal/ai/service.go`, `repository.go`, `supervisor.go`, with
`chat.start` and `chat.cancel` of `ai-sidecar`). Send is its two critical sections
with the transaction between them; the start goroutine, the reader of the pipe,
Stop, DeleteConversation (check, dispose, delete), Close and the once of `finish`
are separate actors. `requests` are lines on their way to the sidecar, which
handles them concurrently; `events[s]` is what it wrote, read in order. The
process of the sidecar dies with its chats, or stops reading (`sidecar` is "full"),
when every line to it waits; a write of a message may fail (`MayFail`), and the code
goes on. `unended` and `gaps` are history: runs whose last status, or a piece of whose
text, was refused. `Restart` ends the application and runs the startup repair of
`internal/database/migrations.go`.

**Update** (`internal/update`). `phase` is `State.Phase`; `check`, `dl` and `inst` are
the activities that run with the lock released and where each is; `cache`,
`target`, `incoming` and `previous` are the bundles on disk, reduced to a version
and whether they verify. Every rename, removal, copy and write may fail, a bundle
may be damaged in the cache, and the process may end between any two steps:
`Restart` keeps only the disk.

**Connections** (`internal/connections/service.go`, `internal/federation`,
`internal/credentials`). `op` is the call that holds `lifecycle`; CreateConnection
does not take it and has its own program counter. `row` and `given` are the saved
configuration and the password given with it, `keychain` what the Keychain holds,
`attached`, `catalog` and `secrets` the session, `runtime` the states under `mu`.
`overwritten` and `astray` are history: connections whose state Create replaced
under a running call, and connections whose password the Keychain, or the end of
the process, left out of step.

**Layout**, **HostSession** and **Workbench** are the session of a project on both
sides of the bridge. Layout is the tree of splits, its sizes in hundredths of a
percent, the precision both sides round to. HostSession is
`internal/workspace/session.go`: `HostNormalize`, `Accepts` and `Reconcile`
translate `NormalizeSession`, `validateSession` and `reconcileSession`, each from
its own code, not from the webview's. Workbench is the webview:
`NormalizeSession` and the operations of `frontend/src/lib/workbench.ts`, called as
the store and the views call them, change the one variable `session`. A step is
one handler of the user interface, which runs alone on the event loop. SQL tabs
and their documents have one identifier, the kinds of data tabs are one, titles,
texts, history and the placeholder of an unreachable relation are left out.

**Sessions** (`frontend/src/lib/project-session-sync.ts`, the flows of `App.tsx`,
`ProjectManagerDialog.tsx`). `session[p]` is what the user sees, `host[p]` what the
host stores, `pending`, `saved` and the timer those of the autosave; `save[s]` is a
call of SaveProjectSession on its way, `flow[f]` a run of switchProject,
createProject, archiveProject or the bootstrap, at the await where it is. A
session is one of three contents, so that an edit can return to a former one.
`excused` is history: the projects for which one of the four known ways to lose an
edit happened, until a save repairs it.

**AIPanel** (`ai-store.ts`, `components/ai`, with the host's side of `AISend`, `AIStop`,
configuration and conversations). Replies of calls and events travel apart; a run
is a call of AISend, its answer a count of pieces and a status. Stop of the host takes
its steps (the context, the wait for the sidecar, the end) with events of the run in
between, and a piece is emitted whether it was stored or not. `late`, `torn` and `mixed`
are history, the known exceptions of the properties.

**Sidecar** (`ai-sidecar/src/server.ts`, both providers, `codex/app-server.ts`). The
chats are turns of one conversation that resume one session. `start[k]` and
`cancel[k]` say at which await startChat and cancelChat are, `requests` and `lines`
are the pipe to and from the app-server, `turn[k]` what the provider does. The
app-server, and the queries of Claude, are external: they answer, refuse, notify
in any order the protocol allows, fail to start and die. `leaving` is a logout or
the end of a session with the chats it waits for. `loose` is history: chats that
were given up with their turn going on.

**ToolCalls** (`claude/tools.ts`, `jsonl-peer.ts`) is what Sidecar sees as one exchange:
the hook announces the id of a call, the handler claims one for its input, the
peer puts the call to the host and hands each answer to who asked; a claim times
out, the chat is stopped, the process is asked to end or its input closes.

**Sources** (`app-store.ts`, the handlers of `App.tsx`, what `app.go`, `query.go`,
`importers.go` and `jobs.go` do for them). `table`, `job` and `committed` are the host;
`calls` are served in any order, `inbox` is the one queue of events and answers.
`sources`, `tabs`, `jobs`, `attached` and `running` are the store. `astray`,
`overtaken` and `abandoned` are history.

**Drafts** extends Sources with the texts of the documents and the saved queries
(`SQLEditorTab.tsx`, `saved_queries.go`): a text is a version, so that an older one that
comes back is noticed. `crossed` names the queries two calls were on their way for.

**Catalog** (`connections/catalog.go`, `ConnectionTree.tsx`, `App.tsx`, `app-store.ts`) is one
connection in one project: the host's lists and columns, the copy of them in the
webview, and the tabs of live relations, restored or opened. Columns go by their
version. A connection that is deleted stays so (`status` is "gone"). `floor` is the
version at the last invalidation, `straddled` the relations read across one, `strays`
those whose tab was opened when the connection was out of the project, `emptied` those
whose columns a refresh took, `absent` those that have not been in the database.

**Grid** (`DataGrid.tsx`, `grid-adapter.ts`) is one grid: the view (order, filter, columns),
blocks and their requests, the cache of blocks, the loading flag and the viewer of
a cell. AG Grid is external. **LiveTab** composes Catalog and Grid: the grid of a
live tab gets the columns the catalog has and is taken away with its connection.

**UpdateView** (`update-store.ts`, `UpdateIndicator.tsx`) extends Update with the state the
webview shows, its revision, the events and the answers.

The `MC*` modules give the constants that a configuration cannot write (functions,
budgets, symmetry sets, the view of Workbench) and put modules next to each other
that one run checks: MCSidecar has Sidecar and ToolCalls, MCSources the uses of
Sources and Drafts, MCLiveTab those of Catalog and Grid.

## 3. What the runs check

| Run | Instance | Distinct states | What it shows |
|---|---|---|---|
| `jobs_manager` | 2 jobs, 1 slot | 124 237 | `EndsAreTruthful`, `ImplementsPool`, `CancelledJobLeaves`, `ShutdownJoins` |
| `project_work` | 1 import, 2 projects | 40 375 | `ImportsAreSettled`, `NeverPublishedIntoArchived` |
| `approvals_decisions` | 2 requests of one conversation, 1 answer | 77 108 | `FirstDecisionStands`, `PreviewIsConsented`, `DenialReleases` |
| `airuns_ends` | 2 sends to one conversation, or 1 with text, stops, deaths, stalls, failed writes and restarts by budget | 560 854 | `RunsAreOwned`, `DeletedIsGone`, `EndIsTruthful`, `StopEnds` |
| `update_releases` | 3 versions, 2 failures, 1 restart, or 3 clicks | 481 969 | `InstallIsSafe`, `ShownIsCurrent`, `SkipHolds`, `ActivityEnds` |
| `connections_life` | 1 connection, 3 configurations, 2 failures, 1 restart | 230 234 | `AttachmentIsTrue`, `CredentialsFollowRow`, `ConnectingEnds` |
| `workbench_session` | 3 tabs, 3 groups, 2 resources | 14 259 | `HostKeepsTheSession`, `OnlyWhatWasAsked` |
| `sessions_autosave` | 2 projects, 3 contents, 2 flows, 2 saves, 2 edits, 1 failure | 381 343 | `QuietIsStored`, `LeftIsStored`, `SwitchEnds` |
| `aipanel_store` | 2 conversations, 2 providers, 1 run of 2 pieces and 1 act, or 1 piece and 2 acts | 553 185 | `PanelAgrees`, `ConsentIsKnown`, `BlockEnds` |
| `sidecar_chats` | 2 turns, 1 item, 1 break; 3 tool calls, 2 inputs | 711 054 | `EndsAreTrue`, `ActiveIsServed`, `ToolsAgree`, `ChatsEnd` |
| `sources_store` | 2 documents, 2 sources, 2 calls at a time, 2 saved queries | 891 582 | `StoreAgrees`, `ResultsAreHeld`, `QueriesAgree` |
| `live_tab` | 1 relation, 2 columns, 2 blocks, 2 requests at a time | 684 434 | `ShownWasAsked`, `LiveIsFresh`, `LiveTabShows`, `LoadingEnds`, `TabsStay` |

Each property is a conjunction of the named parts that stand before it in its
module; a comment there says what the parts are about and what they leave out.
Many of the webview's properties leave something out: where the code itself
breaks the general statement, the exception is a history variable that records
exactly the events that cause it, so that the property says that nothing else
does (section 6 lists these places).

Why the bounds are enough. *Jobs*: contention needs one slot and two jobs, the second of
which is cancelled in every place of `run` while the first holds the slot; jobs meet
only at the semaphore, the wait group and the manager, and the proofs cover every number
of them. *ProjectWork*: the hazards are between one import and the archiving of its
project; a second project is there because the last one cannot be archived. *Approvals*:
a race to one channel needs an answer and a denial, or an answer and a timer, and a
grant that is reused needs two requests; the proofs cover every number. *AIRuns*: two
sends give the race of the two critical sections, one piece of text distinguishes whole
from truncated, one death, one stall of the process (after which it may read again or
not), one write that fails and one restart can each come at any point; the second of any
only repeats a state reached before. The budgets of MCAIRuns take them one or two at a
time: the race with Close or with a failed write, one run with Stop and Close beside
each of the others, and one run with Stop, a restart and a failed write. *Update*: one
installed version and two releases, so that a second replaces the first while it is
offered, skipped, downloaded or ready; two failures let a roll back fail too; the
webview is looked at with three clicks and no failures. *Connections*: every call works
on one connection under one mutex, and connections share nothing but it; three
configurations are a creation and two edits; two failures are a failed step and a failed
compensation. *Workbench*: three tabs are enough for a group of two beside another
group, for a split inside a split and for the bound on groups to refuse a fourth; two
resources are one that goes and one that stays. The view names tabs and groups by their
place, and the two resources are interchangeable. The depth at which both sides cut a
layout is not reached with three groups (in the code it takes eight), nor are the host's
bounds on documents and tabs. *Sessions*: two flows are a switch and what overtakes it,
two saves the overtaking of one by the other, three contents the saved one, an edit, and
the return. *AIPanel*: a run, its reply and its events are in every order with one run;
two conversations are the one shown and another, two providers the one consented to and
another; a piece that is stored and one that is not need two pieces, what the user does
around them two acts, and MCAIPanel does not take both at once. *Sidecar*: a turn that
is left behind and the one it can disturb; one item is a text or a tool call in each
place; a break is the death of the app-server, a connection that fails, or a logout or
the end of a session (explored without items, and after it the host starts and cancels
nothing; the logout comes before the first cancellation). Three tool calls are two equal
ones and a third. *Sources*, *Drafts*: two sources are the one a call made and another,
or a result and the table saved from it; the budgets of MCSources are the ways of using
them, explored one at a time. *Grid*, *Catalog*: two blocks on the screen, one that is
cached or answered and one that is not, and two calls that cross; the budgets of
MCLiveTab likewise: of a grid that is used the catalog rests, and of a catalog that is
used the grid only loads. Deadlock is not checked where the system may stop (every job
gone, the application closed, every call made).

The bounds are the constants with `Max` in their names and the budgets
(`Budgets`, `DraftBudgets`, `GridBudgets`, `CatalogBudgets`, `Clicks`); each is named in the
guard of every action it bounds. `MaxGroups`, `MaxDepth`, `MaxDocuments` and `MaxTabs` of
the session and `MaxCached` of the grid are bounds of the code itself, scaled down.
The other modules are finite because a job, a request and an answer are used once.

## 4. Fairness

- Jobs, `FairSpec`: goroutines run, a cancelled context reaches its children, and a
  task whose context is cancelled returns (strong fairness, for it may go on
  reporting progress: every task passes its context to DuckDB). A task with a live
  context need not return, nobody has to cancel or shut down.
- Approvals, `Running`: the requester, the sender of an answer and the sender of a
  denial run. No timer has to fire and no user has to answer.
- AIRuns, `HostFairness`: the goroutines of the host run, and Stop waits at most its
  five seconds (`service.go:379`) once its line is written. Writing it has no deadline
  (`supervisor.go:185`): it needs room in the pipe. The sidecar owes nothing, neither an
  answer nor to read again; `StopEnds` names what it needs, that the pipe is not full for
  ever (`PipeDrains`), as its hypothesis.
- Update, `Running`: a check ends with `CheckTimeout`, a download with
  `StallTimeout`, and the install is a sequence of calls that return. The
  tools of macOS are trusted to return: `tools.go` gives them no timeout. Of the
  webview nothing is fair: `ShownIsCurrent` speaks of states where all was handled.
- Connections: the call that holds `lifecycle` goes on. ATTACH ends with the connect
  timeout of the configuration, the Keychain answers or fails.
- Sessions: the calls of a flow are answered (bound methods of the host return).
  Nobody has to edit or to switch.
- AIPanel: the event loop handles events, and the calls of AISend are served and
  answered, for they do not wait for the sidecar. A run may never end, and a call of
  Stop may wait.
- Sidecar, `ChatFairness`: an interrupt is answered or times out after half a minute
  (`app-server.ts:128`; the query of Claude is trusted to settle its interrupt). A
  turn need not end, and neither thread/start nor turn/start has a timeout.
  ToolCalls: the ten seconds of a claim pass. The host need not answer.
- Grid: AG Grid asks for what it lacks, the host answers, answers arrive.

Workbench and Sources state no liveness: their user need not do anything.
In none of them is the user, the network or a task fair.

## 5. What is proved

Every theorem holds for every value of the constants that satisfies the module's
named assumptions (`JobsAssumption`: finitely many jobs, at least one slot;
`ProjectAssumption`: finitely many projects, at least one, none of which is a job;
`ApprovalsAssumption`: a request exists and every request has a conversation;
`SidecarAssumption` and `ToolCallsAssumption`: any number of turns, items, breaks and
calls, at least one input;
`ConnectionsAssumption`: a connection exists, and at least one configuration;
`AIRunsAssumption`: any number of sends, each of one conversation;
`UpdateAssumption`, `UpdateViewAssumption` and `SessionsAssumption`: the bounds are
natural numbers, of versions there is one, and `None` is no project, content or
flow; `SourcesAssumption` and `DraftsAssumption`: the bounds are natural numbers, and the
documents open at first are within theirs; `CatalogAssumption`, `GridAssumption` and `LiveTabAssumption`:
a column exists, a screen shows a block, 0 is no cell, the watched relation is one, and the
limits are natural numbers; `AIPanelAssumption`: a conversation is stored at the start, a
provider ends with complete, cancelled or error, the bounds are natural numbers). The bounds on failures, edits, restarts and calls are
constants of the theorems too: they hold however often these happen.

**ProjectProofs.** `Inductive` proves `IInv`, which strengthens the invariants by what
the code relies on without saying it: the program counter of a goroutine
determines which states its snapshot can have (`StateInv`) and whether its task
has returned (`OutcomeInv`), slots and wait group follow the program counter
(`SlotInv`, `GroupInv`), `done` is closed only for terminal jobs (`DoneInv`), a
cancelled job that may still reach its task has a cancelled context (`CancelInv`:
this is why the second look in `run` suffices), and the copy a goroutine carries
is the one its place allows (`ViewInv`). None of the properties is inductive
alone: `FinalStateIsTruthful` speaks of `exited` only and says nothing of the
state one step earlier. From `IInv` follow `TypeCorrect`, `JoinedQuiet`,
`DoneTerminal`, `ShutdownReaches`, `FinalTruthful`, `LastEventTerminal`, with both of
these `EndsTruthful`, and, with a step argument, `CancelledStaysUnstarted`. `SlotsBounded` counts the semaphore with
the finite-set theorems, `TasksBounded` follows, and `Implementation` maps each
step to `Start`, `End`, `Close`, `Join` or a stutter of WorkPool.

Its second part is about ProjectWork: `Composition` shows that every behaviour of the
application is one of the job manager, so all of the above carries over. `WInv` adds that the
lock is held by exactly the open transaction (`LockInv`), that an inserted row
belongs to an active project (`InsertInv`: the transaction that looked still holds
the lock) and that a task's result is its transaction's (`ResultInv`). Then
`NothingPublishedIntoArchived`, `CompletedPublished`, `ClosedQuiet`, with both of these
`ImportsSettled`, and `ProjectRemains`.

Its third part is about the documents of the project in the webview. `QueriesAgree`
speaks of a query that is shown and of moments when nothing is on its way; in between,
`AskedOK`, `ServedOK` and `ReplyOK` say of a call what it is for and what host and webview
have of its query, before it is served, until an update is read back and until its
answer is handled (`IdleInv` is the rest: a query nothing was served for is shown as it
is stored). `LoneInv` is why this suffices: of a query that is not crossed one thing is
on its way at a time, and one save at a time of all. `Binds` says that the document of a
save is bound to its query when the query is shown, so that binding it again takes no
document of another (`OneEditor`); when it is not shown no document is bound to it. `KeptInv`
says that ids are given in order, so that a query that is created is one nobody speaks
of. `QueriesAgreed` follows, for any number of documents, queries and calls. Sources
enters this part by one fact, that its steps only close documents (`SourcesClose`).

Its fourth part is about the sources of the project in the webview. `StoreAgrees` and
`ResultsAreHeld` speak of moments when all is quiet, so `StoreInv` says for each source
what the host has of it (`HostOK`: a job commits once, before it ends), what may be on
its way (`SentOK`), what is shown meanwhile (`ShownOK`: where host and store differ, the
event or the answer that will mend it is on its way, or the source is excused) and that
the last event of a job has the state the host has (`JobShown`). The order of the queue
matters in two places: a result is announced before it is answered and both before it
is saved or closed, and of a source that is discarded nothing else is on its way
(`OrderInv`, `AloneInv`, `AloneToo`). `Held` and `AttachedOK` tie results to documents:
a result that no document shows is not answered yet, or its discard is on its way. That
the host discards a result only once no document shows it (`CallOK`) is what
makes a result of a document that was closed while its query ran safe to drop.
The steps are taken in three groups. What the user does adds calls (`UserKeeps`); a step
of the host changes one source and appends what it tells (`HostTells`); a handler takes
the first message and changes the source it is of, and the import it replaces
(`HandleTells`). `StoreAgreed` and `ResultsHeld` follow, for any number of sources,
documents and calls. Opening documents is a step of Drafts, whose ids are given in order
(`OpensApart`): a new document shows nothing yet.

**ApprovalsProofs.** `IInv` follows a decision from the user to the preview: the
channel holds the first decision sent (`ChannelHoldsFirst`), a first decision that
allows was sent by an answer (`FirstHasAuthor`), and so was every grant
(`GrantHasAuthor`). `FirstDecides`, `PreviewsAreAllowed`, `GrantsAreFresh`, `PreviewsConsented`, `NoLeak`
and `TypeCorrect` are read off it.

Its second part is about AIPanel. `PanelAgrees` speaks of moments when nothing is on its
way. Until then `PiecesOK` and `StatusOK` say of a run that is not torn that what is
shown of its answer and the events on their way together make what is stored: the pieces
that are still to come are those after the last one shown, each once and in order, and
the status is the one shown or that of a last event to come. This is what makes it
harmless that the events of a run arrive before the answer of `send`, and the answer
after the last of them. Torn is a run of which the host emits a piece it did not store
(its context is cancelled, or the write failed), whose last status it could not store,
that it ends itself, or that a load may have met half way: of these nothing is claimed
(section 6). `LifeOK` orders the events about runs: the beginning of a run never follows
its end. `BlockOK` says that one thing keeps a conversation busy: a send on its way, or
a run whose end has not arrived (`Ongoing`); `AnswersOK`, that the host has one live run
per conversation, is why there cannot be two. `Lost` says before the answer of a send
comes what `late` says after: that the end of the run came first. `LoadOK` says that
what a load brings is all there is of the runs it does not tear, from its start until it
is shown; `ConfigOK` follows the one call that carries the configuration. `PanelAgreed`
and `ConsentKnown` are read off them, for any number of conversations, providers, runs,
pieces and acts of the user. That the last event of a provider is one of three statuses
had to be assumed: in the model the kind of an event is all that tells them apart.

**ConnectionsProofs.** The properties speak of moments when no call holds `lifecycle`,
so the invariant must say what holds in the middle of one: `OpInv` ties where a call
is to what it has found and done (the row is there until Delete removed it, the
catalog is detached while its secret is rebuilt), and for each connection `RowInv`,
`CatalogInv`, `StatusInv`, `SecretInv` and `PasswordInv` say how row, session, runtime
state, secret and Keychain follow each other. `AttachmentTrue` and
`CredentialsFollow` are read off it.

**AIRunsProofs.** One run per conversation is among the conjuncts, for most of the
others need it. `RunInv` says who knows a run (its Send, its goroutine, the chat of
the sidecar), `ChatInv` where its lines and events are, `TextInv` how the text that is
stored relates to what the provider said. Every write of a message may fail with its
error ignored, so the conjuncts that speak of what is stored leave out the runs whose
last status (`unended`) or one of whose pieces (`gaps`) was refused. From it follow
`RunsOwned`, `DeletedGone` and `EndTruthful`, for any number of sends, conversations,
failures, deaths and stalls of the sidecar, and restarts.

**UpdateProofs.** `ActivityInv` (the phase names the one activity in flight),
`OfferInv`, `StagingInv` (what lies beside the target is the version that is ready, and
is verified before anything is moved), `BundleInv` (every step of the replacement
leaves a whole application, but after two failures) and `SkipInv` give `InstallSafe`
and, with a step argument, `SkipHeld`. `Composition` shows that the updater with its
webview is the updater, so `UpdateView` inherits them; `EventsInv`, `AnswersInv`,
`ShownInv` and `WatchedInv` compare the revisions of what is on its way with the
revision that is shown, and give `ShownCurrent`.

**SessionsProofs.** `LoadedInv` and `FlowInv` say where the project of each flow is,
`SaveInv` which save is whose, `KeptInv` that, unless an edit may be lost, what is
queued or on its way is what the user sees, at most one save is on its way, and
what the sync holds for saved the host has. `QuietStored` and, with a step argument,
`LeftStored` follow. The attempt to prove `LeftIsStored` showed that it was false in
larger instances than the one that is checked: after two saves overtook each
other the sync takes for saved what the host has not, and the history variable
`excused` was cleared by the next save of that content. It is cleared now only by
what repairs the loss (section 6).

**SidecarProofs.** The properties of the chats speak of what a chat was told and of
moments when nothing is on its way; in between, `ChatInv` says of each turn what is.
`StageInv` ties the place of startChat to the request or line it waits for and to
whether the chat is known; `TurnInv` says that a turn is asked for once, refused or run,
and completed before that is written; `CancelInv` that who cancels has finished the
chat, waits to do so or missed it. `EndInv` says that nothing but what tool calls left
follows an end, and that "completed" is told to a chat whose turn was, or after one
that was given up; `LooseInv` is why: when a chat starts, the former ones are finished,
refused or `loose` (given up before their turn was known, section 6), so the end of
another turn that it can hear of is that of a loose chat. `ServedInv` says what an
active chat will still hear, `WireInv` that only a living app-server has anything on
its way, `LeavingInv` what a logout or a session that is disposed of waits for. `EndsTrue`
and `ActiveServed` follow, for any number of turns, items and deaths of the app-server.

Its second part is about ToolCalls. `MeetInv` describes the rendezvous for any
number of calls: an id is in exactly one of the places where it can be (not
announced, in the queue of its input, claimed), queues hold ids of their input, and
a queue and a waiter of one input never exist together. From it follow `IdsUnique`
and `NobodyWaitsInVain`. `OwnInv` adds that what is pending at the peer, on its way
and answered belongs to the id it was asked for, and gives `AnswersOwn`. `ToldInv`
follows the events of the chat: only claimed ids are told of, and of a call that is
pending the start was told and no result (`Open`). `Grows` is the argument about the
sequence, that results of open calls, each once, keep it right; it covers the answer
of one call and the refusal of all. `ResultsOwn` and, with the three above,
`ToolsAgreed` follow.

**LiveTabProofs.** Its first part is about the grid of a live relation, whatever its catalog does, and
that of a local table. `ViewOK` says that the filter shown is the one that is sent, or
one of alternatives (which are not), `SourceOK` that the datasource is on only while the
grid is mounted and of no version that is not made yet, `BlocksOK` that shown rows are of
the view and not older than their datasource, `RequestsOK` that a block waits only for
what was asked of this datasource for this view, and that what was read is not older
than what it was asked of, `CacheOK` the same of cached rows, `ViewerOK` that the
request the viewer waits for is of the cell it shows. None is inductive without the
others: a block is filled from a request or from the cache, and both are of keys made
earlier. `ShownAsked` follows. The rows of a live relation have no version, so of
them it says that they are of the view, not when they were read. The second copy of a
cached block is removed where it stands (`Without`); a filter over the sequence, which
says the same, takes an operator as its parameter and could not be reasoned about.

Its second part is about the catalog. `LiveIsFresh` speaks of moments when all is quiet;
before that, `CatalogInv` says of every place where columns are (read and not stored,
`ReadingsOK`; stored, `ColumnsOK`; answered, `AnswersOK`; on their way, `InboxOK`; shown,
`TabsOK`) that they are not older than the last invalidation, that they straddle it, or,
of the last two, that an event that tells of it is still to come (`ForgetsAfter`). The
order of the queue is what this rests on: an invalidation appends its event behind
everything that left before (`HostForgets`), and a handler takes the first message, so
what was to be told of an invalidation still is (`HeadIsOK`). `Known` and `MessageOK`
say that the webview speaks only of relations the host knows, so that "missing" means
that the relation has been absent or the connection was deleted: `TabsStayed` is a step
argument from them. The attempt to prove `TabsStay` and `LiveIsFresh` showed that both
were false in larger instances than the one that is checked. For the first the model
was wrong: it let a deleted connection be attached again, and did not tell the two
errors of GetExternalRelation apart. For the second it is the code: a tab may be
opened when its connection is out of the project (`strays`, section 6).

Its third part is about both. `GivenOK` and `MountedOK` say that the grid has what the
catalog gives it and a datasource while it is mounted, `AskedOK` that a block that waits
is being read, `FailedOK` that not every block on the screen failed unless the grid says
so. With the first two parts, `LiveShows` follows.

Only model-checked: all liveness (the prover does not do fairness or ENABLED), and
Workbench, whose layouts are trees that recursive operators walk.

## 6. Where the code and its documents disagree

Met while modelling. The models do what the code does, and the properties are
stated for what it keeps; the cases where it keeps less are named here. Webview
paths are under `frontend/src`, the others under `internal` unless they say more.

*Jobs and projects.* Cancel between the task's success and its recording leaves a
Completed job with `cancelled` as its error (`jobs/jobs.go:180`), and `RunQuery` and
`ExportCSV` report that error although the work was done (`app/app.go:831`, `:951`).
`HasActiveProject`, which "is used to prevent archiving a context out from under its
jobs" (`jobs.go:140`), is asked in a step of its own (`app.go:522`), and a job that was
cancelled counts as inactive while its task still executes.

*Connections and catalog.* CreateConnection writes its runtime state after its row
is visible, without `lifecycle` (`connections/service.go:143`): a Connect in between
loses the name of its secret, and Disconnect leaves the secret in DuckDB
(`docs/security-model.md:51`). GetExternalRelation writes back columns that were read
before a refresh (`connections/catalog.go:195`), and a refresh empties the columns of
a live tab that is open (`App.tsx:682`). An answer that opens a relation after its
connection was taken out of the project opens the tab all the same (`App.tsx:656`), and
no event reaches it then (`App.tsx:776`). When the Keychain item of a deleted
connection cannot be removed, the call ends before the cache is cleared
(`connections/service.go:240`): the relations of a connection that is gone stay in
memory. Answers of connect and disconnect that
arrive late overwrite a newer status (`App.tsx:625`).

*Updates.* When placing an update and rolling it back both fail, the next install
removes `previous` (`update/install.go:78`), the only copy of the application left,
although `docs/security-model.md:85` has the previous bundle deleted only when the new
version starts. A version that was skipped, checked by hand and downloaded is
hidden and dropped by the next automatic check (`update/service.go:333`). The button of
a toast acts on the state it was made for (`UpdateIndicator.tsx:93`).

*AI in the host.* A refused answer with `allow_conversation` has granted the
conversation before it is refused (`ai/approvals.go:77`). A run stopped while text is on
the way drops that text and may still end `complete`, because Stop cancels the context
the repository writes with (`ai/service.go:470`); a Stop during `ProviderStatus` ends it
as `error`. The errors of `FinishMessage` (`:301`, `:499`) and of `AppendMessage`
(`:470`) are ignored: a status that is refused, as in a conflict of the two on one row,
leaves a message streaming that no run owns, until the next start (`unended` in
`RunsAreOwned`), and a piece that is refused is missing from a complete answer (`gaps`
in `EndIsTruthful`). A session that cannot be saved ends the run in an error while its
chat goes on (`:362`). A line to the sidecar is written under a lock and without a
deadline, before its call looks at any context (`ai/supervisor.go:96`, `:185`): a
process that stopped reading with its pipe full holds Stop past its five seconds, and
DeleteConversation and Close with it. Settings are saved before steps that may fail
(`ai/service.go:178`, `:253`), and stay when they do. A sidecar that dies after it
answered `chat.start` leaves the run until the user stops it; a `Send` past its first
critical section registers after Close took its list. The sidecar writes an error
event's text as `message` (`ai-sidecar/src/types.ts:57`) and the host reads `error`
(`ai/types.go:182`).

*AI in the webview.* The run that AISend returns is stored as running even if its
end came first (`stores/ai-store.ts:242`); a piece that could not be stored, as between
Stop's cancellation and the end of its run, is emitted all the same
(`internal/ai/service.go:490`), so that the panel shows text that the next load takes
away, and what the read loop had in hand is emitted after the run is over (`torn` in
`PanelAgrees`); the card of an approval that has ended
stays (`:267`); overlapping calls of the configuration end each other's flag (`:135`).

*AI sidecar* (paths under `ai-sidecar/src`). The turn of a chat that was given up
before its id was known ends the next chat of its thread (`codex/provider.ts:352`); a
chat that is not active yet cannot be cancelled (`:248`), nor does a logout reach it
(`:152`); a dead client is kept (`codex/app-server.ts:188`, `provider.ts:273`). A claim
that timed out stays among the waiters and takes the id of the next equal call
(`claude/tools.ts:99`, `:104`). A provider call that hangs keeps the peer from being
closed (`server.ts:52`).

*Session and projects in the webview.* The host drops what exceeds 60 query documents
or 120 tabs when it stores a session, without an error, and the webview opens any
number (`workspace/session.go:323`). A tab dropped to the right of its place in its own
group lands one place further, for the index counts the tab itself (`TabsBar.tsx:88`,
`lib/workbench.ts:397`). Saves may overtake each other, and a refused save is not
repeated (`lib/project-session-sync.ts:70`, `:72`); after the former the sync may hold
for saved what the host has not, and then neither an edit back to it nor a switch
sends it (`:42`, `:59`); the answer of OpenProject forgets a
save that was pending (`:33`); a session that returns to the saved one before the
autosave fires leaves the save in between pending (`:44`), where its test says it
"keeps only the latest project draft" (`project-session-sync.test.ts:24`).
Creating a project does not cancel a switch under way (`App.tsx:1060`), and two
switches may both pass the flush (`:321`).

*Tabs, drafts and sources in the webview.* Of two lists of jobs or sources, the one
that arrives last wins (`stores/app-store.ts:674`, `:370`); a retry hides the source it
retries (`App.tsx:1003`); "Close others" lets go of results (`app-store.ts:463`,
`App.tsx:1253`), and a stale list closes a newer tab (`app-store.ts:523`). The answer of the
formatter overwrites what was typed meanwhile (`SQLEditorTab.tsx:135`), loading a saved
query overwrites unsaved text (`app-store.ts:611`), renaming one sends the text of an
older state (`App.tsx:373`), and a save may be answered after the query was deleted
(`:915`). Cmd+Shift+"]" never matches on a US layout (`:552`), where the key is "}".

*Grid.* A refreshed snapshot keeps the old datasource (`data-grid/DataGrid.tsx:468`);
hiding all columns while rows load leaves "Loading…" (`:502`); OR conditions of a
filter are not sent (`lib/grid-adapter.ts:84`), and a reset restores the filter of the
mount (`:258`).

## 7. What is not modelled

`PROJECT.json` lists every component with its status. Left out on purpose:

- data no property is about: SQL text, CSV and JSON parsing, quoting, the scanner
  and the redaction of SQL, formatting and layout, migrations' statements, rows of a
  snapshot or of an external relation;
- what only reads, or changes one value no property relates to another: the
  provider's login, models and settings, TestConnection, the update's UI fixture
  and progress, `Reveal`, the query history, models and paths;
- what is not the program's: the providers' own protocols, AG Grid beyond its
  requests for blocks, macOS tools, the driver's pool of connections; rendering,
  build scripts and log files.

Left out for now: the approval cards of the AI panel, older versions of a stored
session, Shutdown of the connections, the locks of `internal/database` (see the plan).

## 8. Plan

Done, in this order: WorkPool, Jobs with its proofs, ProjectWork with its proofs,
Approvals with its proofs, AIRuns with its proofs, Update and UpdateView with theirs,
Connections with its proofs, Workbench, Sessions with its proofs, AIPanel with its proofs, Sidecar and
ToolCalls with theirs, Sources and Drafts with the proofs that store, documents and
queries agree with the host, Catalog, Grid and LiveTab with the
proofs of what a catalog, a grid and a live tab show. Next, most important first:

1. *AIPanel*: the approval cards (`ai-store.ts:264`, `:306`) composed with Approvals.
2. *Database* (`internal/database`, `query`, `importers`): the order of session, mutation
   and pool locks (no cycle), ephemeral results and the startup cleanup.
3. *Snapshots* (`connections/snapshots.go`): a snapshot reads its connection before the
   session's transaction, and the connection may end in between.
4. *Algorithms* (`semver.go`, `ai/sql.go`, paging, `validation.go`): each against a
   reference definition over bounded inputs, in one run.

Every safety property the runs check is a theorem but those of Workbench. Of what is still
to be modelled, the first theorem worth stating is that the panel and Approvals agree on
which request is pending.
