-------------------------------- MODULE AIPanel --------------------------------
(***************************************************************************)
(* The webview's side of the AI assistant: ai-store, and the panel that    *)
(* allows its operations.  The answers of calls and the events of the host *)
(* travel apart: an answer may arrive before or after events that left     *)
(* before it.  Events arrive in order.  The host is reduced to what a call *)
(* reads or writes and to what it emits; AIRuns has its steps.             *)
(*                                                                         *)
(* A run is the call of AISend with that number.  Its answer is a list of  *)
(* pieces: text, reasoning or what a tool did.                             *)
(***************************************************************************)
EXTENDS Naturals, Sequences, FiniteSets

CONSTANTS AIConversation, Provider, None,
          First,       \* the conversation stored at the start
          Default,     \* the provider of the stored configuration
          LastEvent,   \* the last events of a provider: "complete", "cancelled", "error"
          MaxRuns,     \* bound: calls of AISend that are accepted
          Budgets      \* bound: what one behaviour may use: the pieces of one answer,
                       \* and what the user does besides sending

ASSUME AIPanelAssumption ==
  /\ First \in AIConversation /\ Default \in Provider /\ None \notin AIConversation
  /\ LastEvent \subseteq {"complete", "cancelled", "error"}
  /\ MaxRuns \in Nat /\ Budgets \subseteq [pieces : Nat, acts : Nat]

Run == 1..MaxRuns

VARIABLES
  config,     \* configByProject: provider and consent
  list,       \* conversationsByProject
  active,     \* activeConversationByProject
  loading,    \* loadingProjects
  sending,    \* sendingByConversation
  running,    \* runsByConversation: the run that is running, 0 if none
  shown,      \* messagesByConversation: what is shown of each answer, or NotShown
  calls,      \* calls on their way
  events,     \* events on their way
  stored,     \* the host's conversations
  gone,       \* those it deleted
  settings,   \* the host's configuration
  answer,     \* the host's answers
  live,       \* the host's runs
  unsaid,     \* pieces a provider may still say of its answer
  late,       \* ghost: conversations told of a run after its end
  torn,       \* ghost: runs a load may have torn, or of which a piece or the end
              \* was not stored or not announced
  mixed,      \* ghost: two calls that carry the configuration overlapped
  acts        \* what the user may still do

panel == <<config, list, active, loading, sending, running, shown>>
host == <<stored, gone, settings, answer, live, unsaid>>
ghosts == <<late, torn, mixed>>
panelVars == <<panel, calls, events, host, ghosts, acts>>

NotShown == [pieces |-> <<>>, status |-> "none"]
NotSent  == [of |-> None, pieces |-> 0, status |-> "none"]

RunsOf(c) == {r \in Run : answer[r].of = c}
IsRunning(c) == c \in sending \/ running[c] # 0
Count(n) == [k \in 1..n |-> k]

Response(cs, set, read) == [stored |-> cs, settings |-> set, read |-> read]
NoAnswer == Response({}, None, {})

(* A call: what it asks, and the host's answer once it has one.              *)
CallOf(op, c) == [op |-> op, of |-> c, provider |-> config.provider, consent |-> FALSE,
                  opening |-> FALSE, state |-> "sent", run |-> 0, answer |-> NoAnswer]

PanelInit ==
  /\ config = [provider |-> Default, consent |-> FALSE]
  /\ list = {} /\ active = None /\ loading = TRUE
  /\ sending = {} /\ running = [c \in AIConversation |-> 0]
  /\ shown = [r \in Run |-> NotShown]
  /\ calls = {CallOf("initialize", None)} /\ events = <<>>
  /\ stored = {First} /\ gone = {}
  /\ settings = [provider |-> Default, consent |-> FALSE]
  /\ answer = [r \in Run |-> NotSent]
  /\ live = {}
  /\ late = {} /\ torn = {} /\ mixed = FALSE
  /\ \E b \in Budgets : acts = b.acts /\ unsaid = [r \in Run |-> b.pieces]

Configures(k) == k.op \in {"initialize", "create", "send"}
Starts(k) ==
  /\ calls' = calls \cup {k}
  /\ mixed' = (mixed \/ (Configures(k) /\ \E l \in calls : Configures(l)))

Answered(k, state, run, a) ==
  calls' = (calls \ {k}) \cup {[k EXCEPT !.state = state, !.run = run, !.answer = a]}

------------------------------------------------------------------------------
(* The panel and the store                                                   *)

Acts == acts > 0 /\ acts' = acts - 1

(* initializeProject, when the panel mounts again; the first is in Init.     *)
InitializeProject ==
  /\ ~loading /\ Acts
  /\ loading' = TRUE
  /\ Starts(CallOf("initialize", None))
  /\ UNCHANGED <<config, list, active, sending, running, shown, events, host, late, torn>>

(* selectConversation asks for the messages; a run that is live, or begins   *)
(* before the messages come, may be torn by them.                            *)
Asks(c, opening, rest) ==
  /\ calls' = rest \cup {[CallOf("load", c) EXCEPT !.opening = opening]}
  /\ torn' = torn \cup {r \in RunsOf(c) : r \in live \/ events # <<>>}

(* The configuration and the list come; the active conversation is kept if   *)
(* it is still listed, and loaded.                                           *)
Initialized(k) ==
  /\ k.op = "initialize" /\ k.state = "done"
  /\ config' = k.answer.settings
  /\ list' = k.answer.stored
  /\ \E c \in (IF k.answer.stored = {} THEN {None}
               ELSE IF active \in k.answer.stored THEN {active} ELSE k.answer.stored) :
       /\ active' = c
       /\ \/ /\ c # None /\ Asks(c, TRUE, calls \ {k})
             /\ UNCHANGED loading
          \/ /\ c = None
             /\ calls' = calls \ {k} /\ loading' = FALSE
             /\ UNCHANGED torn
  /\ UNCHANGED <<sending, running, shown, events, host, late, mixed, acts>>

MayPick == /\ ~loading /\ (active # None => ~IsRunning(active))
           /\ Acts

SelectConversation(c) ==
  /\ MayPick /\ c \in list
  /\ active' = c
  /\ Asks(c, FALSE, calls)
  /\ UNCHANGED <<config, list, loading, sending, running, shown, events, host, late, mixed>>

(* The messages replace what the store has, persistedTools the tools.        *)
Restored(k) ==
  [r \in Run |-> IF answer[r].of # k.of THEN shown[r]
                 ELSE IF \A m \in k.answer.read : m[1] # r THEN NotShown
                 ELSE LET m == CHOOSE m \in k.answer.read : m[1] = r IN
                      [pieces |-> Count(m[2].pieces), status |-> m[2].status]]

Loaded(k) ==
  /\ k.op = "load" /\ k.state \in {"done", "failed"}
  /\ calls' = calls \ {k}
  /\ loading' = (loading /\ ~k.opening)
  /\ shown' = IF k.state = "done" THEN Restored(k) ELSE shown
  /\ UNCHANGED <<config, list, active, sending, running, events, host, ghosts, acts>>

(* createConversation of the picker, which a send without a conversation     *)
(* calls too.                                                                *)
CreateConversation ==
  /\ MayPick
  /\ Starts(CallOf("create", None))
  /\ UNCHANGED <<panel, events, host, late, torn>>

Created(k) ==
  /\ k.op = "create" /\ k.state = "done"
  /\ calls' = calls \ {k}
  /\ list' = list \cup k.answer.stored
  /\ active' \in k.answer.stored
  /\ UNCHANGED <<config, loading, sending, running, shown, events, host, ghosts, acts>>

DeleteConversation ==
  /\ MayPick /\ active # None
  /\ Starts(CallOf("delete", active))
  /\ UNCHANGED <<panel, events, host, late, torn>>

(* The first conversation that remains becomes active, whichever was.        *)
Deleted(k) ==
  /\ k.op = "delete" /\ k.state = "done"
  /\ list' = list \ {k.of}
  /\ shown' = [r \in Run |-> IF answer[r].of = k.of THEN NotShown ELSE shown[r]]
  /\ \/ /\ list' = {} /\ active' = None
        /\ calls' = calls \ {k} /\ UNCHANGED torn
     \/ \E c \in list' : active' = c /\ Asks(c, FALSE, calls \ {k})
  /\ UNCHANGED <<config, loading, sending, running, events, host, late, mixed, acts>>

(* Mutant: a provider inherits the consent given to another.                 *)
KeepsConsent(p) == [config EXCEPT !.provider = p]

(* A provider that is chosen in the composer or in the setup dialog has to   *)
(* be consented to again.                                                    *)
Chosen(p) == [provider |-> p, consent |-> p = config.provider /\ config.consent]
SetConfig(p) ==
  /\ p # config.provider /\ Acts
  /\ config' = Chosen(p)
  /\ UNCHANGED <<list, active, loading, sending, running, shown, calls, events, host, ghosts>>

MaySend == ~loading /\ active # None /\ ~IsRunning(active)

(* The panel asks for consent first when the store has none.                 *)
Send ==
  /\ MaySend
  /\ sending' = sending \cup {active}
  /\ Starts([CallOf("send", active) EXCEPT !.consent = ~config.consent])
  /\ UNCHANGED <<config, list, active, loading, running, shown, events, host, late, torn, acts>>

(* A run of which the end has not reached the panel.                         *)
Over(r) == \E i \in DOMAIN events : events[i].run = r /\ events[i].kind = "over"
Ongoing(r) == r \in live \/ Over(r)

(* The run of the answer is taken as running whatever the events said since, *)
(* and the configuration as it was when the call left.                       *)
SendReturns(k) ==
  /\ k.op = "send" /\ k.state = "done"
  /\ calls' = calls \ {k}
  /\ config' = IF k.consent THEN [provider |-> k.provider, consent |-> TRUE] ELSE config
  /\ running' = [running EXCEPT ![k.of] = k.run]
  /\ shown' = [shown EXCEPT ![k.run] =
                 IF @ = NotShown THEN [@ EXCEPT !.status = "streaming"] ELSE @]
  /\ late' = IF Ongoing(k.run) THEN late ELSE late \cup {k.of}
  /\ UNCHANGED <<list, active, loading, sending, events, host, torn, mixed, acts>>

(* Mutant: a send that failed still blocks.                                  *)
FailsBlocked(k) ==
  /\ k.op = "send" /\ k.state = "failed"
  /\ calls' = calls \ {k}
  /\ UNCHANGED <<panel, events, host, ghosts, acts>>

SendFails(k) ==
  /\ k.op = "send" /\ k.state = "failed"
  /\ calls' = calls \ {k}
  /\ sending' = sending \ {k.of}
  /\ UNCHANGED <<config, list, active, loading, running, shown, events, host, ghosts, acts>>

(* The other calls that fail leave the store as it is.                       *)
Fails(k) ==
  /\ k.state = "failed" /\ k.op \in {"create", "delete"}
  /\ calls' = calls \ {k}
  /\ UNCHANGED <<panel, events, host, ghosts, acts>>

Stop ==
  /\ active # None /\ IsRunning(active) /\ Acts
  /\ Starts([CallOf("stop", active) EXCEPT !.run = running[active]])
  /\ UNCHANGED <<panel, events, host, late, torn>>

------------------------------------------------------------------------------
(* Events                                                                    *)

HandleRuntime(e) ==
  /\ running' = [running EXCEPT ![e.of] = IF e.kind = "running" THEN e.run ELSE 0]
  /\ sending' = IF e.kind = "running" THEN sending \cup {e.of} ELSE sending \ {e.of}
  /\ UNCHANGED shown

(* Mutant: what is said before the store knows the message is lost.          *)
StreamKnown(e) ==
  /\ shown' = IF shown[e.run] = NotShown THEN shown
              ELSE IF e.kind = "piece" THEN [shown EXCEPT ![e.run].pieces = Append(@, e.piece)]
              ELSE [shown EXCEPT ![e.run].status = e.kind]
  /\ UNCHANGED <<running, sending>>

(* A message the store does not know is added.                               *)
HandleStream(e) ==
  /\ LET m == IF shown[e.run] = NotShown THEN [pieces |-> <<>>, status |-> "streaming"]
              ELSE shown[e.run] IN
     shown' = [shown EXCEPT ![e.run] =
                 IF e.kind = "piece" THEN [m EXCEPT !.pieces = Append(@, e.piece)]
                                     ELSE [m EXCEPT !.status = e.kind]]
  /\ UNCHANGED <<running, sending>>

DeliverEvent ==
  /\ events # <<>>
  /\ events' = Tail(events)
  /\ LET e == Head(events) IN
     IF e.kind \in {"running", "over"} THEN HandleRuntime(e) ELSE HandleStream(e)
  /\ UNCHANGED <<config, list, active, loading, calls, host, ghosts, acts>>

------------------------------------------------------------------------------
(* The host                                                                  *)

Event(kind, r, c, n) == [kind |-> kind, run |-> r, of |-> c, piece |-> n]
BusyOn(c) == \E r \in live : answer[r].of = c

HostLists(k) ==
  /\ k.op = "initialize" /\ k.state = "sent"
  /\ Answered(k, "done", 0, Response(stored, settings, {}))
  /\ UNCHANGED <<panel, events, host, ghosts, acts>>

HostReads(k) ==
  /\ k.op = "load" /\ k.state = "sent"
  /\ Answered(k, IF k.of \in stored THEN "done" ELSE "failed", 0,
              Response({}, None, {<<r, answer[r]>> : r \in RunsOf(k.of)}))
  /\ UNCHANGED <<panel, events, host, ghosts, acts>>

(* Creating a conversation first stores its provider, without the consent    *)
(* that was given for another; then the rest may fail.                       *)
Reconfigured(k) == [provider |-> k.provider,
                    consent |-> settings.consent /\ settings.provider = k.provider]
HostCreates(k) ==
  /\ k.op = "create" /\ k.state = "sent"
  /\ \/ \E c \in AIConversation \ (stored \cup gone) :
          /\ stored' = stored \cup {c}
          /\ settings' = Reconfigured(k)
          /\ Answered(k, "done", 0, Response({c}, None, {}))
     \/ /\ settings' \in {settings, Reconfigured(k)}
        /\ Answered(k, "failed", 0, NoAnswer)
        /\ UNCHANGED stored
  /\ UNCHANGED <<panel, events, gone, answer, live, unsaid, ghosts, acts>>

HostDeletes(k) ==
  /\ k.op = "delete" /\ k.state = "sent"
  /\ \/ /\ k.of \in stored /\ ~BusyOn(k.of)
        /\ stored' = stored \ {k.of} /\ gone' = gone \cup {k.of}
        /\ Answered(k, "done", 0, NoAnswer)
     \/ /\ k.of \notin stored \/ BusyOn(k.of)
        /\ Answered(k, "failed", 0, NoAnswer)
        /\ UNCHANGED <<stored, gone>>
  /\ UNCHANGED <<panel, events, settings, answer, live, unsaid, ghosts, acts>>

(* Send of the host: consent belongs to the stored provider, and is stored   *)
(* before the steps that may fail.  A load on its way may have been read     *)
(* before the new answer, or while it grows.                                 *)
Consented(k) == [provider |-> k.provider, consent |-> TRUE]
Consents(k) == k.consent \/ settings = Consented(k)
HostSends(k) ==
  /\ k.op = "send" /\ k.state = "sent"
  /\ \/ /\ k.of \in stored /\ ~BusyOn(k.of) /\ Consents(k)
        /\ settings' = Consented(k)
        /\ \E r \in Run :
             /\ answer[r] = NotSent /\ \A q \in 1..(r - 1) : answer[q] # NotSent
             /\ answer' = [answer EXCEPT ![r] =
                             [of |-> k.of, pieces |-> 0, status |-> "streaming"]]
             /\ live' = live \cup {r}
             /\ events' = Append(events, Event("running", r, k.of, 0))
             /\ Answered(k, "done", r, NoAnswer)
             /\ torn' = IF \E l \in calls : l.op = "load" /\ l.of = k.of
                        THEN torn \cup {r} ELSE torn
     \/ /\ \/ UNCHANGED settings
           \/ k.of \in stored /\ Consents(k) /\ settings' = Consented(k)
        /\ Answered(k, "failed", 0, NoAnswer)
        /\ UNCHANGED <<answer, live, events, torn>>
  /\ UNCHANGED <<panel, stored, gone, unsaid, late, mixed, acts>>

(* Stop cancels the context of a run before it ends the run.                 *)
Cancelled(r) == \E k \in calls : k.op = "stop" /\ k.state = "stopping" /\ k.run = r

(* The provider says a piece: it is stored, unless the context of the run is *)
(* cancelled or the write fails; emitted it is in any case, without a number *)
(* if it is not stored.                                                      *)
HostStreams(r) ==
  /\ r \in live /\ unsaid[r] > 0
  /\ unsaid' = [unsaid EXCEPT ![r] = @ - 1]
  /\ \/ /\ ~Cancelled(r)
        /\ answer' = [answer EXCEPT ![r].pieces = @ + 1]
        /\ events' = Append(events, Event("piece", r, answer[r].of, answer[r].pieces + 1))
        /\ UNCHANGED torn
     \/ /\ events' = Append(events, Event("piece", r, answer[r].of, 0))
        /\ torn' = torn \cup {r}
        /\ UNCHANGED answer
  /\ UNCHANGED <<panel, calls, stored, gone, settings, live, late, mixed, acts>>

(* The once of a run: its status is stored, unless that fails.               *)
HostEnds(r, status) ==
  /\ r \in live
  /\ live' = live \ {r}
  /\ \/ answer' = [answer EXCEPT ![r].status = status]
     \/ UNCHANGED answer

(* A last event of the provider ends the run and is passed on.               *)
ProviderEnds(r) ==
  /\ \E status \in LastEvent :
       /\ HostEnds(r, status)
       /\ events' = events \o <<Event("over", r, answer[r].of, 0),
                                Event(status, r, answer[r].of, 0)>>
  /\ torn' = IF answer' = answer THEN torn \cup {r} ELSE torn
  /\ UNCHANGED <<panel, calls, stored, gone, settings, unsaid, late, mixed, acts>>

(* A run the host ends itself, because it cannot start or is stopped before  *)
(* the provider answers, is announced only as over.  What the read loop had  *)
(* in hand of it then is emitted after that.                                 *)
InHand(r) == {Event("piece", r, answer[r].of, 0)} \cup
             {Event(status, r, answer[r].of, 0) : status \in LastEvent}
EndsSilently(r, status) ==
  /\ HostEnds(r, status)
  /\ LET over == Event("over", r, answer[r].of, 0) IN
     \/ events' = Append(events, over)
     \/ \E e \in InHand(r) : events' = events \o <<over, e>>
  /\ torn' = torn \cup {r}

StartFails(r) ==
  /\ \/ EndsSilently(r, "error")
     \/ Cancelled(r) /\ EndsSilently(r, "cancelled")
  /\ UNCHANGED <<panel, calls, stored, gone, settings, unsaid, late, mixed, acts>>

(* Stop: the context is cancelled, the sidecar told and given time to        *)
(* answer, then the run is ended unless its last event was faster.           *)
HostStops(k) ==
  /\ k.op = "stop" /\ k.state = "sent"
  /\ \/ \E r \in live : /\ answer[r].of = k.of
                        /\ Answered(k, "stopping", r, NoAnswer)
     \/ ~BusyOn(k.of) /\ calls' = calls \ {k}
  /\ UNCHANGED <<panel, events, host, ghosts, acts>>

HostStopped(k) ==
  /\ k.op = "stop" /\ k.state = "stopping"
  /\ calls' = calls \ {k}
  /\ \/ EndsSilently(k.run, "cancelled")
     \/ k.run \notin live /\ UNCHANGED <<answer, live, events, torn>>
  /\ UNCHANGED <<panel, stored, gone, settings, unsaid, late, mixed, acts>>

------------------------------------------------------------------------------
Host(k) == \/ HostLists(k) \/ HostReads(k) \/ HostCreates(k) \/ HostDeletes(k)
           \/ HostSends(k) \/ HostStops(k) \/ HostStopped(k)
Reply(k) == \/ Initialized(k) \/ Loaded(k) \/ Created(k) \/ Deleted(k)
            \/ SendReturns(k) \/ SendFails(k) \/ Fails(k)
User == \/ InitializeProject \/ CreateConversation \/ DeleteConversation \/ Send \/ Stop
        \/ \E c \in AIConversation : SelectConversation(c)
        \/ \E p \in Provider : SetConfig(p)
PanelNext == \/ User \/ DeliverEvent
             \/ \E k \in calls : Host(k) \/ Reply(k)
             \/ \E r \in Run : HostStreams(r) \/ ProviderEnds(r) \/ StartFails(r)

PanelSpec == PanelInit /\ [][PanelNext]_panelVars

(* A call of AISend is answered, it does not wait for the sidecar, and events *)
(* arrive; nobody has to send, a provider may never end, and Stop may wait.  *)
Serves(c) == \E k \in calls : /\ k.op = "send" /\ k.of = c
                              /\ HostSends(k) \/ SendReturns(k) \/ SendFails(k)
PanelFairSpec == /\ PanelSpec /\ WF_panelVars(DeliverEvent)
                 /\ \A c \in AIConversation : WF_panelVars(Serves(c))

------------------------------------------------------------------------------
Quiet == calls = {} /\ events = <<>>

(* Once nothing is on its way, the panel shows of every answer of the active *)
(* conversation what is stored, whichever way answers and events crossed;    *)
(* except of a run that was live, or began, while its conversation was being *)
(* loaded, of one that the host ended itself, whose message streams on the   *)
(* screen until the next load, and of one of which the host emitted a piece  *)
(* or an end it could not store, as after Stop cancelled its context.        *)
ShownIsStored ==
  Quiet /\ active \in stored => \A r \in RunsOf(active) \ torn :
    shown[r] = [pieces |-> Count(answer[r].pieces), status |-> answer[r].status]

(* Once nothing is on its way, the panel of a conversation is blocked if and *)
(* only if the host has a run for it; except that the answer of AISend that  *)
(* comes after the run was over blocks the conversation again.               *)
RunningIsTrue ==
  Quiet => \A c \in stored \ late : IsRunning(c) <=> BusyOn(c)

(* The panel and the host agree on a conversation: its answers and its run.  *)
PanelAgrees == ShownIsStored /\ RunningIsTrue

(* A consent the panel relies on is one the host has: no prompt is refused   *)
(* for a consent the user is not asked for again; unless two calls that      *)
(* carry the configuration overlapped.                                       *)
ConsentIsKnown ==
  Quiet /\ ~mixed /\ config.consent => settings = [provider |-> config.provider, consent |-> TRUE]

(* A conversation whose run is over is not blocked for long.                 *)
BlockEnds ==
  \A c \in AIConversation :
    (IsRunning(c) /\ ~BusyOn(c)) ~> (~IsRunning(c) \/ BusyOn(c) \/ c \in late)
================================================================================
