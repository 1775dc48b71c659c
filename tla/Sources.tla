-------------------------------- MODULE Sources --------------------------------
(***************************************************************************)
(* The sources of one open project as the webview shows them: the part of  *)
(* app-store.ts that keeps sources, their tabs and jobs, the handlers of   *)
(* App.tsx that start imports, snapshots and queries, save, rename, discard*)
(* and remove, and the events the host sends meanwhile.  The host's tables *)
(* and jobs are what these handlers see of it (app.go, query.go, jobs.go). *)
(*                                                                         *)
(* Every bound call runs in a goroutine of its own, so the host serves     *)
(* calls in any order.  Events and answers reach the webview through one   *)
(* queue, in the order they were sent; a handler runs to its next await.   *)
(* A job goes by the source it makes.  Names, rows and columns are left    *)
(* out, and errors of the database: a call fails for what it finds.        *)
(***************************************************************************)
EXTENDS Naturals, Sequences, FiniteSets, SequencesExt

CONSTANTS Budgets,       \* bound: how often the user starts what, and changes a source
                         \* how many documents are open at first
          MaxDocuments,  \* bound: SQL documents
          MaxSources,    \* bound: sources ever made
          MaxCalls       \* bound: calls on their way at a time

ASSUME SourcesAssumption ==
  /\ {MaxDocuments, MaxSources, MaxCalls} \subseteq Nat
  /\ Budgets \subseteq [{"document", "import", "snapshot", "query", "act"} -> Nat]
  /\ \A budget \in Budgets : budget["document"] <= MaxDocuments

Source == 1 .. MaxSources
Document == 1 .. MaxDocuments

VARIABLES
  table,     \* host: where the rows of a source are: "none", "result", "data", "gone"
  kind,      \* host: what made the source, "none" if nothing yet
  job,       \* host: state of its job
  committed, \* host: jobs whose task is done but for its last events
  calls,     \* calls of the webview the host has not served
  answers,   \* answers of calls that are served and not sent
  inbox,     \* events and answers the webview has not handled
  sources,   \* sourcesById: status and isEphemeral, "absent" if not there
  tabs,      \* sources with a tab
  jobs,      \* jobsById: the state shown of a job
  open,      \* documents of the session
  attached,  \* queryResultSourceIds: the source a document shows, 0 if none
  running,   \* runningDocuments
  left,      \* what is left of the budget
  astray,    \* ghost: sources that came back after they were removed, or were
             \* replaced by a retry when their import had been cancelled
  removed,   \* ghost: sources that were removed
  overtaken, \* ghost: jobs an answer brought back to an earlier state
  abandoned  \* ghost: results of documents closed by closeOtherTabs

host    == <<table, kind, job, committed>>
wire    == <<calls, answers, inbox>>
shownVars == <<sources, tabs, jobs, open, attached, running>>
ghosts  == <<astray, removed, overtaken, abandoned>>
sourceVars == <<host, wire, shownVars, left, ghosts>>

Final == {"completed", "failed", "cancelled"}
Absent == [status |-> "absent", ephemeral |-> FALSE]
Shown(status, ephemeral) == [status |-> status, ephemeral |-> ephemeral]

SourcesInit ==
  /\ table = [s \in Source |-> "none"] /\ kind = [s \in Source |-> "none"]
  /\ job = [s \in Source |-> "none"] /\ committed = {}
  /\ calls = {} /\ answers = {} /\ inbox = <<>>
  /\ sources = [s \in Source |-> Absent] /\ tabs = {}
  /\ jobs = [s \in Source |-> "none"]
  /\ left \in Budgets
  /\ open = 1 .. left["document"] /\ attached = [d \in Document |-> 0] /\ running = {}
  /\ astray = {} /\ removed = {} /\ overtaken = {} /\ abandoned = {}

(* A query is for a document, a retried import for the source it replaces.   *)
Call(op, s, for) == [op |-> op, of |-> s, for |-> for]
Message(op, s, state, for) == [op |-> op, of |-> s, state |-> state, for |-> for]

------------------------------------------------------------------------------
(* The store                                                                 *)

(* Mutant: the last that came is shown.                                      *)
Overwrites(old, new) == new

(* upsertSource: a source that is settled does not go back to preparing, and *)
(* one that is ready stays so.                                               *)
Merge(old, new) ==
  IF \/ old.status \in {"ready", "failed", "cancelled"} /\ new.status = "preparing"
     \/ old.status = "ready" /\ new.status # "ready"
  THEN old ELSE new

Upsert(s, new) ==
  /\ sources' = [sources EXCEPT ![s] = Merge(@, new)]
  /\ astray' = astray \cup ({s} \cap removed)

RemoveSource(s) ==
  /\ sources' = [sources EXCEPT ![s] = Absent]
  /\ tabs' = tabs \ {s}
  /\ removed' = removed \cup {s}
  /\ UNCHANGED astray

(* upsertJob takes whatever comes.                                           *)
UpsertJob(s, state) == jobs' = [jobs EXCEPT ![s] = state]

Order(state) == CASE state = "none" -> 0 [] state = "queued" -> 1
                  [] state = "running" -> 2 [] OTHER -> 3
JobAnswered(s, state) ==
  /\ UpsertJob(s, state)
  /\ overtaken' = IF Order(state) < Order(jobs[s]) \/ (state # jobs[s] /\ jobs[s] \in Final)
                  THEN overtaken \cup {s} ELSE overtaken

ForgetQueryResultSource(s) ==
  attached' = [d \in Document |-> IF attached[d] = s THEN 0 ELSE attached[d]]

(* discardEphemeralResult asks the host to drop what the store shows as a    *)
(* result; the store lets go of it when the answer comes.                    *)
Discards(s) == IF s # 0 /\ sources[s].ephemeral THEN {Call("discard", s, 0)} ELSE {}

------------------------------------------------------------------------------
(* What the user does                                                        *)

Calls(call) ==
  /\ Cardinality(calls) + Cardinality(answers) < MaxCalls
  /\ calls' = calls \cup {call}
  /\ UNCHANGED <<host, answers, inbox, sources, tabs, jobs, open, attached, ghosts>>

Made == {s \in Source : kind[s] # "none"}
Spends(what) == left[what] > 0 /\ left' = [left EXCEPT ![what] = @ - 1]

(* importPaths, openFiles, chooseSheet; retryImport names the source that    *)
(* the new one takes the place of.                                           *)
ImportPaths ==
  /\ Spends("import") /\ Cardinality(Made) + Cardinality(calls) < MaxSources
  /\ \/ Calls(Call("import", 0, 0))
     \/ \E s \in Source : /\ sources[s].status \in {"failed", "cancelled"}
                          /\ Calls(Call("import", 0, s))
  /\ UNCHANGED running

SnapshotRelation ==
  /\ Spends("snapshot") /\ Cardinality(Made) + Cardinality(calls) < MaxSources
  /\ Calls(Call("snapshot", 0, 0))
  /\ UNCHANGED running

(* runQuery: a document runs one query at a time.                            *)
RunQuery(d) ==
  /\ Spends("query") /\ Cardinality(Made) + Cardinality(calls) < MaxSources
  /\ d \in open /\ d \notin running
  /\ running' = running \cup {d}
  /\ Calls(Call("query", 0, d))

(* saveResult and cancelJob offer themselves by what the store shows; a      *)
(* rename or a removal, which confirmDelete asks for, by the source.         *)
Acts(s) ==
  /\ Spends("act")
  /\ \/ sources[s].ephemeral /\ Calls(Call("save", s, 0))
     \/ sources[s].ephemeral /\ Calls(Call("close", s, 0))
     \/ sources[s].status # "absent" /\ ~sources[s].ephemeral /\ Calls(Call("remove", s, 0))
     \/ sources[s] = Shown("ready", FALSE) /\ Calls(Call("rename", s, 0))
     \/ jobs[s] \in {"queued", "running"} /\ Calls(Call("cancel", s, 0))
  /\ UNCHANGED running

(* Closing the tab of a document takes its result with it.                   *)
CloseDocument(d) ==
  /\ d \in open
  /\ open' = open \ {d}
  /\ attached' = [attached EXCEPT ![d] = 0]
  /\ calls' = calls \cup Discards(attached[d])
  /\ UNCHANGED <<host, answers, inbox, sources, tabs, jobs, running, left, ghosts>>

(* closeOtherTabs only changes the session.                                  *)
CloseOtherTabs(ds) ==
  /\ ds # {} /\ ds \subseteq open
  /\ open' = open \ ds
  /\ abandoned' = abandoned \cup {attached[d] : d \in ds}
  /\ UNCHANGED <<host, wire, sources, tabs, jobs, attached, running, left, astray, removed, overtaken>>

------------------------------------------------------------------------------
(* The host, as App.tsx sees it                                              *)

Sends(messages) == inbox' = inbox \o messages
Answer(c, m) == /\ c \in calls
                /\ calls' = calls \ {c}
                /\ answers' = answers \cup {m}

(* startImport: the file is read for a preview, which fails or is shown      *)
(* before the job is submitted.                                              *)
StartImport(c, s) ==
  /\ c.op = "import"
  /\ kind' = [kind EXCEPT ![s] = "import"]
  /\ \/ /\ Answer(c, Message("failed import", s, "failed", c.for))
        /\ UNCHANGED <<job, inbox>>
     \/ /\ Sends(<<Message("preview", s, "preparing", 0), Message("job", s, "queued", 0)>>)
        /\ job' = [job EXCEPT ![s] = "queued"]
        /\ Answer(c, Message("import", s, "queued", c.for))
  /\ UNCHANGED <<table, committed>>

StartSnapshot(c, s) ==
  /\ c.op = "snapshot"
  /\ kind' = [kind EXCEPT ![s] = "snapshot"]
  /\ job' = [job EXCEPT ![s] = "queued"]
  /\ Sends(<<Message("job", s, "queued", 0)>>)
  /\ Answer(c, Message("snapshot", s, "queued", 0))
  /\ UNCHANGED <<table, committed>>

(* The result is announced, then answered, unless the query fails.           *)
ServeQuery(c, s) ==
  /\ c.op = "query" /\ c \in calls
  /\ calls' = calls \ {c}
  /\ \/ /\ table' = [table EXCEPT ![s] = "result"]
        /\ kind' = [kind EXCEPT ![s] = "query"]
        /\ Sends(<<Message("result", s, "ready", 0), Message("query", s, "ready", c.for)>>)
     \/ /\ Sends(<<Message("query", 0, "failed", c.for)>>)
        /\ UNCHANGED <<table, kind>>
  /\ UNCHANGED <<answers, job, committed>>

(* What a call does to the table of a source, if it finds it as it must be.  *)
Found == [save |-> {"result"}, close |-> {"result"}, discard |-> {"result"},
          remove |-> {"data"}, rename |-> {"data"}]
Leaves(op, t) == CASE op = "save" -> "data" [] op = "rename" -> t [] OTHER -> "gone"

ServeTable(c) ==
  /\ c.op \in DOMAIN Found /\ c \in calls
  /\ IF table[c.of] \in Found[c.op]
     THEN /\ table' = [table EXCEPT ![c.of] = Leaves(c.op, @)]
          /\ Answer(c, Message(c.op, c.of, Leaves(c.op, table[c.of]), 0))
     ELSE /\ calls' = calls \ {c}
          /\ UNCHANGED <<table, answers>>
  /\ UNCHANGED <<inbox, kind, job, committed>>

ServeCancel(c) ==
  /\ c.op = "cancel"
  /\ IF job[c.of] \in Final
     THEN Answer(c, Message("cancel", c.of, job[c.of], 0)) /\ UNCHANGED <<job, inbox>>
     ELSE /\ job' = [job EXCEPT ![c.of] = "cancelled"]
          /\ Sends(<<Message("job", c.of, "cancelled", 0)>>)
          /\ Answer(c, Message("cancel", c.of, "cancelled", 0))
  /\ UNCHANGED <<table, kind, committed>>

JobStarts(s) ==
  /\ job[s] = "queued"
  /\ job' = [job EXCEPT ![s] = "running"]
  /\ committed' = committed \cup {<<s, "going">>}
  /\ Sends(<<Message("job", s, "running", 0)>>)
  /\ UNCHANGED <<table, kind, calls, answers>>

(* A task that was cancelled may still be in time to commit.                 *)
JobCommits(s) ==
  /\ <<s, "going">> \in committed
  /\ committed' = (committed \ {<<s, "going">>}) \cup {<<s, "done">>}
  /\ table' = [table EXCEPT ![s] = "data"]
  /\ UNCHANGED <<kind, job, wire>>

JobEnds(s) ==
  /\ \/ /\ <<s, "done">> \in committed
        /\ committed' = committed \ {<<s, "done">>}
        /\ job' = [job EXCEPT ![s] = "completed"]
        /\ Sends(<<Message("ready", s, "ready", 0), Message("job", s, "completed", 0)>>)
     \/ /\ <<s, "going">> \in committed
        /\ committed' = committed \ {<<s, "going">>}
        /\ LET end == IF job[s] = "cancelled" THEN "cancelled" ELSE "failed" IN
           /\ job' = [job EXCEPT ![s] = end]
           /\ Sends(<<Message("failed", s, end, 0), Message("job", s, end, 0)>>)
  /\ UNCHANGED <<table, kind, calls, answers>>

SendsAnswer ==
  \E m \in answers : /\ answers' = answers \ {m}
                     /\ Sends(<<m>>)
                     /\ UNCHANGED <<host, calls>>

Host ==
  /\ \/ \E c \in calls :
          \/ \E s \in Source : /\ s = Cardinality(Made) + 1
                               /\ \/ StartImport(c, s) \/ StartSnapshot(c, s) \/ ServeQuery(c, s)
          \/ ServeTable(c) \/ ServeCancel(c)
     \/ \E s \in Source : JobStarts(s) \/ JobCommits(s) \/ JobEnds(s)
     \/ SendsAnswer
  /\ UNCHANGED <<shownVars, left, ghosts>>

------------------------------------------------------------------------------
(* Events                                                                    *)

OpensTab(s) == tabs' = tabs \cup {s}

OnPreview(m) ==
  /\ Upsert(m.of, Shown("preparing", FALSE))
  /\ OpensTab(m.of)
  /\ UNCHANGED <<calls, jobs, attached, running, removed, overtaken>>

OnReady(m) ==
  /\ Upsert(m.of, Shown("ready", FALSE))
  /\ UNCHANGED <<calls, tabs, jobs, attached, running, removed, overtaken>>

OnResultReady(m) ==
  /\ Upsert(m.of, Shown("ready", TRUE))
  /\ UNCHANGED <<calls, tabs, jobs, attached, running, removed, overtaken>>

OnFailed(m) ==
  /\ IF kind[m.of] = "import" /\ sources[m.of].status # "absent"
     THEN Upsert(m.of, Shown(m.state, sources[m.of].ephemeral))
     ELSE UNCHANGED <<sources, astray>>
  /\ UNCHANGED <<calls, tabs, jobs, attached, running, removed, overtaken>>

(* A source whose import is cancelled is shown so if it is not ready.        *)
ShowsCancelled(m) ==
  IF kind[m.of] = "import" /\ m.state = "cancelled" /\ sources[m.of].status \notin {"absent", "ready"}
  THEN Upsert(m.of, Shown("cancelled", sources[m.of].ephemeral))
  ELSE UNCHANGED <<sources, astray>>

OnJobUpdated(m) ==
  /\ UpsertJob(m.of, m.state)
  /\ ShowsCancelled(m)
  /\ UNCHANGED <<calls, tabs, attached, running, removed, overtaken>>

------------------------------------------------------------------------------
(* Answers                                                                   *)

(* retryImport removes the source tried before, then handleBatch shows the   *)
(* new one and opens its tab.                                                *)
Replaces(m, status) ==
  LET without == IF m.for = 0 THEN sources ELSE [sources EXCEPT ![m.for] = Absent] IN
  /\ sources' = [without EXCEPT ![m.of] = Merge(@, Shown(status, FALSE))]
  /\ astray' = astray \cup ({m.of} \cap removed)
                      \cup {s \in {m.for} \ {0} : sources[s].status # "failed"}
  /\ removed' = removed \cup ({m.for} \ {0})
  /\ tabs' = (tabs \ {m.for}) \cup {m.of}

ImportAnswered(m) ==
  /\ Replaces(m, "preparing")
  /\ JobAnswered(m.of, m.state)
  /\ UNCHANGED <<calls, attached, running>>

ImportRefused(m) ==
  /\ Replaces(m, "failed")
  /\ UNCHANGED <<calls, jobs, attached, running, overtaken>>

SnapshotAnswered(m) ==
  /\ JobAnswered(m.of, m.state)
  /\ UNCHANGED <<calls, sources, tabs, attached, running, astray, removed>>

(* Mutant: the result of a document that was closed meanwhile is kept.       *)
AttachesAlways(m) ==
  /\ running' = running \ {m.for}
  /\ IF m.state = "ready"
     THEN /\ Upsert(m.of, Shown("ready", TRUE))
          /\ attached' = [attached EXCEPT ![m.for] = m.of]
          /\ calls' = calls \cup (IF attached[m.for] # m.of THEN Discards(attached[m.for]) ELSE {})
     ELSE UNCHANGED <<calls, sources, attached, astray>>
  /\ UNCHANGED <<tabs, jobs, removed, overtaken>>

(* The new result takes the place of the former one; it is discarded if its  *)
(* document was closed meanwhile.                                            *)
QueryAnswered(m) ==
  /\ running' = running \ {m.for}
  /\ IF m.state # "ready"
     THEN UNCHANGED <<calls, sources, attached, astray>>
     ELSE /\ Upsert(m.of, Shown("ready", TRUE))
          /\ IF m.for \in open
             THEN /\ attached' = [attached EXCEPT ![m.for] = m.of]
                  /\ calls' = calls \cup Discards(attached[m.for])
             ELSE /\ calls' = calls \cup {Call("discard", m.of, 0)}
                  /\ UNCHANGED attached
  /\ UNCHANGED <<tabs, jobs, removed, overtaken>>

SaveAnswered(m) ==
  /\ Upsert(m.of, Shown("ready", FALSE))
  /\ UNCHANGED <<calls, tabs, jobs, attached, running, removed, overtaken>>

(* confirmDelete and quickRemoveSource.                                      *)
RemovalAnswered(m) ==
  /\ RemoveSource(m.of)
  /\ ForgetQueryResultSource(m.of)
  /\ UNCHANGED <<calls, jobs, running, overtaken>>

DiscardAnswered(m) ==
  /\ IF sources[m.of].ephemeral
     THEN RemoveSource(m.of) ELSE UNCHANGED <<sources, tabs, removed, astray>>
  /\ UNCHANGED <<calls, jobs, attached, running, overtaken>>

RenameAnswered(m) ==
  /\ Upsert(m.of, Shown("ready", FALSE))
  /\ UNCHANGED <<calls, tabs, jobs, attached, running, removed, overtaken>>

CancelAnswered(m) ==
  /\ JobAnswered(m.of, m.state)
  /\ ShowsCancelled(m)
  /\ UNCHANGED <<calls, tabs, attached, running, removed>>

Handle ==
  /\ inbox # <<>>
  /\ inbox' = Tail(inbox)
  /\ LET m == Head(inbox) IN
     \/ m.op = "preview" /\ OnPreview(m)
     \/ m.op = "ready" /\ OnReady(m)
     \/ m.op = "result" /\ OnResultReady(m)
     \/ m.op = "failed" /\ OnFailed(m)
     \/ m.op = "job" /\ OnJobUpdated(m)
     \/ m.op = "import" /\ ImportAnswered(m)
     \/ m.op = "failed import" /\ ImportRefused(m)
     \/ m.op = "snapshot" /\ SnapshotAnswered(m)
     \/ m.op = "query" /\ QueryAnswered(m)
     \/ m.op = "save" /\ SaveAnswered(m)
     \/ m.op \in {"close", "remove"} /\ RemovalAnswered(m)
     \/ m.op = "discard" /\ DiscardAnswered(m)
     \/ m.op = "rename" /\ RenameAnswered(m)
     \/ m.op = "cancel" /\ CancelAnswered(m)
  /\ UNCHANGED <<host, answers, open, left, abandoned>>

------------------------------------------------------------------------------
SourcesNext ==
  \/ ImportPaths \/ SnapshotRelation
  \/ \E d \in Document : RunQuery(d) \/ CloseDocument(d)
  \/ \E ds \in SUBSET Document : CloseOtherTabs(ds)
  \/ \E s \in Source : Acts(s)
  \/ Host \/ Handle

------------------------------------------------------------------------------
(* Nothing is on its way between the host and the webview.                   *)
Quiet == calls = {} /\ answers = {} /\ inbox = <<>> /\ committed = {}

(* Once all is quiet, the store shows as ready the sources that have a table *)
(* at the host, those that do not persist as results, and no others: in      *)
(* whatever order previews, ends and cancellations of an import met the      *)
(* answer of the call that started it.  Except for a source that was removed *)
(* and came back with an event or an answer older than its removal, and one  *)
(* that was cancelled too late and is hidden by the retry.                   *)
(* (upsertSource, its callers in App.tsx)                                    *)
SourcesAgree ==
  Quiet => \A s \in Source \ astray :
    /\ (sources[s].status = "ready") = (table[s] \in {"result", "data"})
    /\ sources[s].ephemeral = (table[s] = "result")

(* Once all is quiet, a job is shown as the host has it, unless the answer   *)
(* of the call that started or cancelled it was older than an event that was *)
(* handled before: upsertJob takes what comes last.                          *)
JobsAgree == Quiet => \A s \in Source \ overtaken : jobs[s] = job[s]

(* The sources and the jobs of the store are those of the host.              *)
StoreAgrees == SourcesAgree /\ JobsAgree

(* Once all is quiet, every result at the host is attached to a document     *)
(* that is open, whatever was closed, run again or saved while its query ran:*)
(* there is nothing left that only a restart would drop.  Except for the     *)
(* documents closed by "Close others", which lets go of their results.       *)
ResultIsOwned ==
  Quiet => \A s \in Source : table[s] = "result" =>
    s \in abandoned \/ \E d \in open : attached[d] = s

(* Once all is quiet, what an open document shows exists.                    *)
AttachedExists ==
  Quiet => \A d \in open : attached[d] # 0 => table[attached[d]] \in {"result", "data"}

(* Once all is quiet, documents and results are tied to each other.          *)
ResultsAreHeld == ResultIsOwned /\ AttachedExists
================================================================================
