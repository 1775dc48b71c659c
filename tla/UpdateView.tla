------------------------------- MODULE UpdateView -------------------------------
(***************************************************************************)
(* The update control of the status bar over Update: the store that mirrors*)
(* State (update-store.ts), what the control offers for the state it shows *)
(* (update-status.ts, UpdateIndicator.tsx), and the two ways a state takes *)
(* to the webview: the event of emitLocked, in order, and the answer of a  *)
(* bound method, at any time.                                              *)
(*                                                                         *)
(* A click finds the host as it is by then, which refuses what does not    *)
(* fit.  Progress, texts and the release page are left out.                *)
(***************************************************************************)
EXTENDS Update, Sequences, FiniteSets

CONSTANTS Clicks,     \* bound: how often the user clicks, 0: nobody looks
          MaxEvents,  \* bound: events on their way at a time
          MaxAnswers  \* bound: answers on their way at a time

ASSUME UpdateViewAssumption == Clicks \subseteq Nat /\ {MaxEvents, MaxAnswers} \subseteq Nat

VARIABLES
  watched,   \* the webview is there
  revision,  \* State.Revision
  events,    \* states that were emitted and not handled
  answers,   \* states that were returned and not handled
  shown,     \* the state of the store, NoState before the first
  announced, \* milestones there was a toast for, with the state it acts on
  clicks     \* what is left of the clicks

viewVars == <<watched, revision, events, answers, shown, announced, clicks>>

NoState == [revision |-> 0, phase |-> "none", mode |-> "off", available |-> 0,
            skipped |-> 0, auto |-> FALSE]
Visible == <<phase, mode, available, prefs.skipped, prefs.auto>>
State == [revision |-> revision, phase |-> phase, mode |-> mode, available |-> available,
          skipped |-> prefs.skipped, auto |-> prefs.auto]

ViewInit == /\ Init
            /\ clicks \in Clicks
            /\ watched = (clicks # 0)
            /\ revision = 1 /\ events = <<>> /\ answers = {}
            /\ shown = NoState /\ announced = {}

-------------------------------------------------------------------------------
(* The host tells what it does: emitLocked, with the lock held.            *)

Emits == \/ UNCHANGED <<Visible, revision, events>>
         \/ /\ Visible' # Visible
            /\ Len(events) < MaxEvents
            /\ revision' = revision + 1
            /\ events' = Append(events, State')

Hosts == /\ AutoCheck \/ AutoCheckGivesUp \/ CheckEnds \/ DownloadProgress \/ Swap
         /\ Emits
         /\ UNCHANGED <<answers, shown, announced, clicks>>

\* A check and an install return the state they leave before the emission they
\* deferred: with the revision before.
AnsweredBefore == /\ (CheckEnds /\ check.by = "manual") \/ InstallFails
                  /\ Emits
                  /\ Cardinality(answers) < MaxAnswers
                  /\ answers' = answers \cup {[State' EXCEPT !.revision = revision]}
                  /\ UNCHANGED <<shown, announced, clicks>>

\* The other bound methods return State() as it is; UpdateGetState is the one
\* the store calls when it starts.
Answers == /\ Cardinality(answers) < MaxAnswers
           /\ answers' = answers \cup {State}
           /\ UNCHANGED <<vars, revision, events, shown, announced, clicks>>

-------------------------------------------------------------------------------
(* The store                                                               *)

TakesAny(next) == shown' = next                                          \* mutant
Apply(next) == shown' = IF shown = NoState \/ next.revision >= shown.revision THEN next ELSE shown

\* One toast for a version that is available and one for it being ready.
Milestone(state) ==
  IF state.phase = "available" THEN "available"
  ELSE IF state.phase = "ready" /\ state.mode = "installer" THEN "ready" ELSE "none"

Announces(state) ==
  announced' =
    IF /\ state.available # 0 /\ Milestone(state) # "none"
       /\ \A other \in announced : \/ other.available # state.available
                                   \/ Milestone(other) # Milestone(state)
    THEN announced \cup {state} ELSE announced

HandleEvent == /\ events # <<>>
               /\ events' = Tail(events)
               /\ Apply(Head(events)) /\ Announces(shown')
               /\ UNCHANGED <<vars, revision, answers, clicks>>

HandleAnswer == \E state \in answers :
                  /\ answers' = answers \ {state}
                  /\ Apply(state) /\ Announces(shown')
                  /\ UNCHANGED <<vars, revision, events, clicks>>

-------------------------------------------------------------------------------
(* What the user is offered                                                *)

IsUpdateBusy(state) == state.phase \in {"checking", "downloading", "verifying", "installing"}

UpdatePrimaryAction(state) ==
  CASE state.phase = "available" -> IF state.mode = "notify" THEN "open-release" ELSE "download"
    [] state.phase = "ready" -> IF state.mode = "installer" THEN "install" ELSE "reveal"
    [] OTHER -> "none"

\* The button of the control and that of each toast, which acts on the state it
\* was made for.  Unconfirmed, an install is only asked for without jobs.
Primary(state) == \/ UpdatePrimaryAction(state) = "download" /\ Download
                  \/ UpdatePrimaryAction(state) = "install" /\ Install

Menu == \/ shown.available # 0 /\ ~IsUpdateBusy(shown) /\ Skip
        \/ ~IsUpdateBusy(shown) /\ ManualCheck
        \/ SetAutoCheck /\ prefs'.auto # shown.auto

Click == /\ shown.mode # "off" /\ clicks > 0
         /\ clicks' = clicks - 1
         /\ Menu \/ \E state \in announced \cup {shown} : Primary(state)
         /\ Emits
         /\ UNCHANGED <<answers, shown, announced>>

ViewNext == \/ Hosts \/ AnsweredBefore \/ Answers \/ HandleEvent \/ HandleAnswer \/ Click

\* Without a webview the user's calls come at any time, the disk fails and the
\* process ends.
UpdateNext == \/ watched /\ ViewNext /\ Works /\ UNCHANGED watched
              \/ ~watched /\ Next /\ UNCHANGED viewVars

UpdateSpec == /\ ViewInit
              /\ [][UpdateNext]_<<vars, viewVars>>
              /\ Running

-------------------------------------------------------------------------------
(* Once all is quiet, the control shows the state of the service, in        *)
(* whatever order events met the answers of the calls that led to them, and *)
(* it offers what the service takes (apply and the revision, emitLocked).   *)
ShownIsCurrent ==
  events = <<>> /\ answers = {} /\ shown # NoState =>
    /\ shown = State
    /\ UpdatePrimaryAction(shown) = "download" => hasAsset
    /\ UpdatePrimaryAction(shown) = "install" => readyApp # 0
===============================================================================
