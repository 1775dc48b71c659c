------------------------------- MODULE Sessions --------------------------------
(***************************************************************************)
(* The webview's sessions: the debounced autosave of project-session-sync, *)
(* and the flows of App that flush, open, create and archive projects      *)
(* around it.  Every bridge call is answered in its own time; edits of the *)
(* user and of events go on meanwhile.  A session is a member of a small   *)
(* set of contents, so that an edit can return to a former content.        *)
(***************************************************************************)
EXTENDS Naturals, FiniteSets

CONSTANTS Project,      \* the projects that exist or can be created
          Existing,     \* the sets of projects the host may have at the start
          Content,      \* what a session can hold
          Blank,        \* the content of a new session
          MaxFlows,     \* bound: runs of switchProject, createProject, ...
          MaxSaves,     \* bound: calls of SaveProjectSession on their way at a time
          None,         \* "undefined"
          MaxEdits,     \* bound: edits of sessions
          MaxFailures   \* bound: calls the host fails

ASSUME SessionsAssumption ==
  /\ Existing \subseteq (SUBSET Project) \ {{}}
  /\ Blank \in Content
  /\ None \notin Project \cup Content \cup Nat
  /\ MaxFlows \in Nat /\ MaxSaves \in Nat /\ MaxEdits \in Nat /\ MaxFailures \in Nat

(* Flows, and the saves on their way, take the first free number.            *)
Flow == 1..MaxFlows
Save == 1..MaxSaves

VARIABLES
  session,    \* projectWorkspaces[p].session, None when not loaded
  active,     \* activeProjectId
  switching,  \* switchingProjectId
  shelved,    \* projects whose archivedAt the store knows
  busy,       \* the project dialog waits for its call
  pending,    \* the queued save of a project; its timer runs
  saved,      \* what the sync believes the host has
  save,       \* the calls of SaveProjectSession
  flow,       \* the flows
  host,       \* the host's session of each project, None when there is no such project
  archived,   \* the host's archived projects
  excused,    \* ghost: projects whose last edit the code may have lost
  edits, failures

store == <<session, active, switching, shelved, busy>>
sync  == <<pending, saved, save>>
rest  == <<host, archived, edits, failures>>
vars  == <<store, sync, flow, rest, excused>>

Idle == [kind |-> "none", pc |-> "idle", target |-> None, from |-> None,
         dialog |-> FALSE, fresh |-> FALSE, touched |-> FALSE, answer |-> None]
Done == [Idle EXCEPT !.pc = "done"]
Free == [state |-> "free", project |-> None, content |-> None, by |-> None]

Init ==
  /\ session = [p \in Project |-> None]
  /\ active = None /\ switching = None
  /\ shelved = {} /\ archived = {} /\ busy = FALSE
  /\ pending = [p \in Project |-> None]
  /\ saved = [p \in Project |-> None]
  /\ save = [s \in Save |-> Free]
  /\ flow = [f \in Flow |-> Idle]
  /\ \E e \in Existing : host = [p \in Project |-> IF p \in e THEN Blank ELSE None]
  /\ excused = {}
  /\ edits = 0 /\ failures = 0

Loaded == {p \in Project : session[p] # None}
Bootstrapped == Loaded # {} \/ \E f \in Flow : flow[f].kind = "boot"
Watches(f, p) == flow[f].kind = "switch" /\ flow[f].target = p /\ ~flow[f].fresh
NextFlow(f) == flow[f] = Idle /\ \A g \in 1..(f - 1) : flow[g] # Idle
NextSave(s) == save[s] = Free /\ \A t \in 1..(s - 1) : save[t] # Free
InFlight(p) == {s \in Save : save[s].state # "free" /\ save[s].project = p}

------------------------------------------------------------------------------
(* project-session-sync                                                      *)

(* Mutant: the debounce keeps the first session it was given.                *)
ScheduledFirst(p, c) == IF pending[p] # None \/ c = saved[p] THEN pending[p] ELSE c

(* What scheduleProjectSessionSave leaves queued.                            *)
Scheduled(p, c) == IF c = saved[p] THEN pending[p] ELSE c

(* What a flush finds to send: the latest session unless it is the saved one. *)
Queued(p, latest) == IF latest # None /\ latest # saved[p] THEN latest ELSE pending[p]

(* The session is the saved one while an older save still has to land.       *)
Skips(p, c) == c = saved[p] /\ (pending[p] # None \/ InFlight(p) # {})

(* flushProjectSession sends what is queued, for the flow that awaits it.    *)
Sends(p, c, f) ==
  \E s \in Save :
    /\ NextSave(s)
    /\ save' = [save EXCEPT ![s] = [state |-> "sent", project |-> p, content |-> c, by |-> f]]
    /\ pending' = [pending EXCEPT ![p] = None]
    /\ excused' = IF InFlight(p) # {} THEN excused \cup {p}
                  ELSE IF c = session[p] /\ c # saved[p] THEN excused \ {p} ELSE excused
    /\ UNCHANGED saved

(* The debounce timer of a queued save fires.                                *)
TimerFires(p) ==
  /\ pending[p] # None
  /\ Sends(p, pending[p], None)
  /\ UNCHANGED <<store, flow, rest>>

(* markProjectSessionSaved forgets a queued save with the one it replaces.   *)
MarksSaved(p, c) ==
  /\ saved' = [saved EXCEPT ![p] = c]
  /\ pending' = [pending EXCEPT ![p] = None]

(* An edit of the user in the active project, or of an event in any loaded   *)
(* one; the subscription of App schedules its save at once.                  *)
Edit(p, c) ==
  /\ p \in Loaded /\ c # session[p]
  /\ edits < MaxEdits
  /\ edits' = edits + 1
  /\ session' = [session EXCEPT ![p] = c]
  /\ pending' = [pending EXCEPT ![p] = Scheduled(p, c)]
  /\ excused' = IF Skips(p, c) THEN excused \cup {p} ELSE excused
  /\ flow' = [f \in Flow |-> [flow[f] EXCEPT !.touched = @ \/ Watches(f, p)]]
  /\ UNCHANGED <<active, switching, shelved, busy, saved, save, host, archived, failures>>

(* The host serves a save: it stores the session, or it refuses.             *)
HostStores(s) ==
  /\ save[s].state = "sent"
  /\ LET p == save[s].project IN
     /\ p \notin archived
     /\ host' = [host EXCEPT ![p] = save[s].content]
     /\ save' = [save EXCEPT ![s].state = "stored"]
  /\ UNCHANGED <<store, pending, saved, flow, archived, edits, failures, excused>>

HostRefuses(s) ==
  /\ save[s].state = "sent"
  /\ IF save[s].project \in archived THEN failures' = failures
     ELSE failures < MaxFailures /\ failures' = failures + 1
  /\ save' = [save EXCEPT ![s].state = "refused"]
  /\ excused' = excused \cup {save[s].project}
  /\ UNCHANGED <<store, pending, saved, flow, host, archived, edits>>

(* The reply of a save; a save that failed is not queued again.              *)
SaveReturns(s) ==
  /\ save[s].state \in {"stored", "refused"}
  /\ saved' = IF save[s].state = "stored"
              THEN [saved EXCEPT ![save[s].project] = save[s].content] ELSE saved
  /\ save' = [save EXCEPT ![s] = Free]
  /\ UNCHANGED pending

------------------------------------------------------------------------------
(* The flows of App                                                          *)

(* ProjectManagerDialog waits for one call at a time; it resets itself when  *)
(* the store's projects change, with its call still on its way.              *)
DialogCalls == ~busy /\ busy' = TRUE
DialogResets == busy' = FALSE

Goes(f, pc) == flow' = [flow EXCEPT ![f].pc = pc]
Frees(f) == busy' = (busy /\ ~flow[f].dialog)
Ends(f) == flow' = [flow EXCEPT ![f] = Done]

(* What follows a flush that succeeded.  A switch closes the dialogs, marks  *)
(* the store as switching and asks the host for the workspace.               *)
AfterFlush(f, r) ==
  CASE r.kind = "switch"  -> /\ switching' = r.target
                             /\ flow' = [flow EXCEPT ![f] = [r EXCEPT !.pc = "opening"]]
    [] r.kind = "create"  -> /\ flow' = [flow EXCEPT ![f] = [r EXCEPT !.pc = "creating"]]
                             /\ UNCHANGED switching
    [] r.kind = "archive" -> /\ flow' = [flow EXCEPT ![f] = [r EXCEPT !.pc = "archiving"]]
                             /\ UNCHANGED switching
    [] r.kind = "flush"   -> /\ flow' = [flow EXCEPT ![f] = [r EXCEPT !.pc = "draining"]]
                             /\ UNCHANGED switching

(* Mutant: a flow does not await the save it sends.                          *)
FlushesUnawaited(f, p, r) ==
  LET c == IF p = None THEN None ELSE Queued(p, session[p]) IN
    \/ c # None /\ Sends(p, c, None) /\ AfterFlush(f, r)
    \/ c = None /\ AfterFlush(f, r) /\ UNCHANGED <<sync, excused>>

(* flushStoredProjectSession of a flow: it goes on at once when there is     *)
(* nothing to send.                                                          *)
Flushes(f, p, r) ==
  LET c == IF p = None THEN None ELSE Queued(p, session[p]) IN
    \/ /\ c # None
       /\ Sends(p, c, f)
       /\ flow' = [flow EXCEPT ![f] = [r EXCEPT !.pc = "flushing"]]
       /\ UNCHANGED switching
    \/ /\ c = None
       /\ AfterFlush(f, r)
       /\ UNCHANGED <<sync, excused>>

Start(kind, target, dialog) ==
  [Idle EXCEPT !.kind = kind, !.target = target, !.dialog = dialog,
               !.from  = IF kind = "switch" THEN active ELSE None,
               !.fresh = (kind = "switch" /\ session[target] = None)]

(* switchProject: nothing while the same project is open or a switch is on.  *)
SwitchProject(f, p) ==
  /\ NextFlow(f) /\ Bootstrapped /\ ~busy
  /\ p # active /\ switching = None
  /\ p \notin shelved /\ host[p] # None
  /\ Flushes(f, active, Start("switch", p, FALSE))
  /\ UNCHANGED <<session, active, shelved, busy, rest>>

CreateProject(f, p) ==
  /\ NextFlow(f) /\ Bootstrapped
  /\ host[p] = None
  /\ \A g \in Flow : flow[g].kind = "create" => flow[g].target # p
  /\ Flushes(f, active, Start("create", p, TRUE))
  /\ DialogCalls
  /\ UNCHANGED <<session, active, shelved, rest>>

(* archiveProject flushes the project only when it is the active one.        *)
ArchiveProject(f, p) ==
  /\ NextFlow(f) /\ Bootstrapped
  /\ host[p] # None /\ p \notin shelved
  /\ Flushes(f, IF p = active THEN p ELSE None, Start("archive", p, TRUE))
  /\ DialogCalls
  /\ UNCHANGED <<session, active, shelved, rest>>

(* flushForDialog, the saves of queries and results and the export flush the *)
(* active project; beforeunload does too and goes on to every other.         *)
FlushActive(f) ==
  /\ NextFlow(f) /\ active # None
  /\ Flushes(f, active, Start("flush", None, FALSE))
  /\ UNCHANGED <<session, active, shelved, busy, rest>>

FlushAll(f) ==
  /\ flow[f].pc = "draining"
  /\ \/ \E p \in Project : /\ pending[p] # None
                           /\ Sends(p, pending[p], None)
                           /\ UNCHANGED flow
     \/ Ends(f) /\ UNCHANGED <<sync, excused>>
  /\ UNCHANGED <<store, rest>>

(* A save's reply resumes its flow; a refusal ends the flow with an error.   *)
Returns(s) ==
  /\ SaveReturns(s)
  /\ LET f == save[s].by IN
     IF f = None THEN UNCHANGED <<flow, switching, busy>>
     ELSE IF save[s].state = "refused" THEN Ends(f) /\ Frees(f) /\ UNCHANGED switching
     ELSE AfterFlush(f, flow[f]) /\ UNCHANGED busy
  /\ UNCHANGED <<session, active, shelved, rest, excused>>

(* The host creates the project; the store learns it and asks to open it.    *)
(* The create has no handler for an error after this point.                  *)
ProjectCreated(f) ==
  /\ flow[f].pc = "creating"
  /\ \/ /\ host' = [host EXCEPT ![flow[f].target] = Blank]
        /\ switching' = flow[f].target
        /\ Goes(f, "opening")
        /\ UNCHANGED failures
     \/ /\ failures < MaxFailures /\ failures' = failures + 1
        /\ Ends(f)
        /\ UNCHANGED <<host, switching>>
  /\ DialogResets
  /\ UNCHANGED <<session, active, shelved, sync, archived, edits, excused>>

(* The host archives a project unless it is the last one that is active.     *)
HostArchives(f) ==
  /\ flow[f].pc = "archiving"
  /\ \/ /\ {p \in Project : host[p] # None} \ archived # {flow[f].target}
        /\ archived' = archived \cup {flow[f].target}
        /\ Goes(f, "archived")
        /\ UNCHANGED <<failures, busy>>
     \/ /\ failures < MaxFailures /\ failures' = failures + 1
        /\ Ends(f) /\ Frees(f)
        /\ UNCHANGED archived
  /\ UNCHANGED <<session, active, switching, shelved, sync, host, edits, excused>>

(* The reply of ArchiveProject: when the project is the active one, App      *)
(* switches to another that the store does not know as archived.  There is   *)
(* one, since the host never archives the last: clearActiveProject is not    *)
(* reached.                                                                  *)
ProjectArchived(f) ==
  /\ flow[f].pc = "archived"
  /\ shelved' = shelved \cup {flow[f].target}
  /\ DialogResets
  /\ LET others == {p \in Project : host[p] # None} \ shelved' IN
     \/ /\ active # flow[f].target
        /\ Ends(f)
        /\ UNCHANGED <<active, switching, sync, excused>>
     \/ /\ active = flow[f].target /\ switching # None
        /\ Ends(f)
        /\ UNCHANGED <<active, switching, sync, excused>>
     \/ /\ active = flow[f].target /\ switching = None
        /\ \E p \in others : Flushes(f, active, Start("switch", p, TRUE))
        /\ UNCHANGED active
  /\ UNCHANGED <<session, rest>>

(* restoreProject.                                                           *)
RestoreProject(p) ==
  /\ p \in archived /\ p \in shelved /\ ~busy
  /\ archived' = archived \ {p} /\ shelved' = shelved \ {p}
  /\ UNCHANGED <<session, active, switching, busy, sync, flow, host, edits, failures, excused>>

(* The host reads the session for OpenProject.                               *)
HostOpens(f) ==
  /\ flow[f].pc = "opening"
  /\ \/ /\ flow[f].target \notin archived
        /\ flow' = [flow EXCEPT ![f].pc = "opened", ![f].answer = host[flow[f].target]]
        /\ UNCHANGED failures
     \/ /\ IF flow[f].target \in archived THEN failures' = failures
           ELSE failures < MaxFailures /\ failures' = failures + 1
        /\ Goes(f, "failed")
  /\ UNCHANGED <<store, sync, host, archived, edits, excused>>

(* preserveWorkspaceMutations keeps the store's session when the workspace   *)
(* changed since the switch began and was loaded then; createProject and the *)
(* start of the application take the answer.                                 *)
Opened(f) ==
  LET r == flow[f] IN
  IF r.touched THEN session[r.target] ELSE r.answer

(* commitProjectSwitch refuses a project that another switch replaced.  The  *)
(* store's projects change, on which the project dialog resets itself.       *)
Commits(f) == switching \in {None, flow[f].target}
CommitsSwitch(f, p, n) ==
  /\ session' = [session EXCEPT ![p] = n]
  /\ active' = p /\ switching' = None /\ DialogResets
  /\ flow' = [g \in Flow |-> IF g = f THEN Done
               ELSE [flow[g] EXCEPT !.touched = @ \/ Watches(g, p)]]

(* The answer of OpenProject is marked as saved even when the commit fails;  *)
(* the session the commit stores is scheduled like an edit.                  *)
ProjectOpened(f) ==
  /\ flow[f].pc = "opened"
  /\ LET p == flow[f].target
         c == flow[f].answer
         n == Opened(f) IN
     /\ saved' = [saved EXCEPT ![p] = c]
     /\ pending' = [pending EXCEPT ![p] = IF Commits(f) /\ n # c THEN n ELSE None]
     /\ excused' = IF pending[p] # None \/ InFlight(p) # {} \/ host[p] # c
                   THEN excused \cup {p} ELSE excused
     /\ \/ Commits(f) /\ CommitsSwitch(f, p, n)
        \/ ~Commits(f) /\ Ends(f) /\ Frees(f) /\ UNCHANGED <<session, active, switching>>
  /\ UNCHANGED <<shelved, save, rest>>

(* Mutant: a switch that cannot be opened stays marked.                      *)
NeverCancels(f) == IF flow[f].kind = "boot" THEN None ELSE switching

(* cancelProjectSwitch, which createProject does not call; a start of the    *)
(* application that fails empties the store.                                 *)
CancelsSwitch(f) ==
  CASE flow[f].kind = "switch" /\ switching = flow[f].target -> None
    [] flow[f].kind = "boot" -> None
    [] OTHER -> switching

OpenFailed(f) ==
  /\ flow[f].pc = "failed"
  /\ switching' = CancelsSwitch(f)
  /\ active' = IF flow[f].kind = "boot" THEN None ELSE active
  /\ Ends(f) /\ Frees(f)
  /\ UNCHANGED <<session, shelved, sync, rest, excused>>

StoreBootstraps(p) ==
  /\ session' = [session EXCEPT ![p] = host[p]]
  /\ active' = p /\ switching' = None

(* Bootstrap brings the workspace of the initial project, or only its name,  *)
(* which App then opens like a switch.                                       *)
Bootstrap(f, p) ==
  /\ NextFlow(f) /\ ~Bootstrapped /\ switching = None /\ failures = 0
  /\ host[p] # None
  /\ \/ /\ MarksSaved(p, host[p])
        /\ StoreBootstraps(p)
        /\ UNCHANGED flow
     \/ /\ switching' = p
        /\ flow' = [flow EXCEPT ![f] = [Start("boot", p, FALSE) EXCEPT !.pc = "opening"]]
        /\ UNCHANGED <<session, active, pending, saved>>
  /\ UNCHANGED <<shelved, busy, save, rest, excused>>

------------------------------------------------------------------------------
User(f) == \E p \in Project : \/ SwitchProject(f, p)
                              \/ CreateProject(f, p)
                              \/ ArchiveProject(f, p)
                              \/ Bootstrap(f, p)
           \/ FlushActive(f)
Steps(f) == \/ FlushAll(f) \/ ProjectCreated(f) \/ HostArchives(f) \/ ProjectArchived(f)
            \/ HostOpens(f) \/ ProjectOpened(f) \/ OpenFailed(f)
Host(s) == HostStores(s) \/ HostRefuses(s)

Next ==
  \/ \E f \in Flow : User(f) \/ Steps(f)
  \/ \E p \in Project : TimerFires(p) \/ RestoreProject(p)
  \/ \E p \in Project, c \in Content : Edit(p, c)
  \/ \E s \in Save : Host(s) \/ Returns(s)

Spec == Init /\ [][Next]_vars

(* Calls of a flow are answered; nobody is obliged to edit or to switch.     *)
Fairness == \A f \in Flow : WF_vars(Steps(f))
FairSpec == Spec /\ Fairness

------------------------------------------------------------------------------
(* When nothing is queued or on its way, the host has the session the user   *)
(* sees, except after one of the four ways the code can lose the last edit:  *)
(* a refused save is not retried, two saves of a project overtake each       *)
(* other, an edit back to the saved session leaves an older save alone, and  *)
(* the answer of OpenProject forgets a save.  The next save that goes out    *)
(* alone with the latest session repairs it, unless the sync believed that   *)
(* session saved.  (project-session-sync.ts)                                 *)
QuietIsStored ==
  \A p \in Loaded : pending[p] = None /\ InFlight(p) = {} /\ p \notin excused
                     => host[p] = session[p]

(* A project is left only when its session is stored: as it was flushed, or  *)
(* as it is when there was nothing to flush.                                 *)
LeftIsStored ==
  [][\A f \in Flow :
       LET p == flow'[f].from IN
       /\ flow'[f].kind = "switch" /\ flow'[f].pc = "opening" /\ flow[f].pc # "opening"
       /\ p # None /\ p \notin excused
       => IF flow[f].pc = "flushing"
          THEN \E s \in Save : save[s].by = f /\ host[p] = save[s].content
          ELSE host[p] = session[p]]_vars

(* A switch comes to an end, and with it the block on the next one, whether  *)
(* the host answers, fails or another switch took its place; only a project  *)
(* that was just created and cannot be opened stays "switching" for good.    *)
SwitchEnds ==
  \A f \in Flow, p \in Project :
    (/\ flow[f].kind \in {"switch", "boot"} /\ flow[f].pc = "opening"
     /\ flow[f].target = p /\ switching = p) ~> (switching # p)
================================================================================
