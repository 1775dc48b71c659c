-------------------------------- MODULE Sidecar --------------------------------
(***************************************************************************)
(* The chats of the AI sidecar process: SidecarServer, the two providers,  *)
(* the connection to the Codex app-server, and the tool calls that go back *)
(* to the host.  JavaScript runs to the next await; a step is what runs    *)
(* between two awaits.  The chats here are turns of one conversation, which*)
(* resume one session (a thread of the app-server, a session of Claude).   *)
(* The host starts the next when it holds the former for ended.            *)
(***************************************************************************)
EXTENDS Naturals, Sequences, FiniteSets

CONSTANTS MaxChats,    \* bound: turns of the conversation
          MaxItems,    \* bound: pieces of text and tool calls, of all turns
          MaxBreaks    \* bound: ends of the app-server, connections that fail, leavings

ASSUME SidecarAssumption == {MaxChats, MaxItems, MaxBreaks} \subseteq Nat

Chat == 1..MaxChats

VARIABLES
  provider,     \* the provider of the conversation
  client,       \* CodexProvider.client: "none", "up", or "dead" but still there
  start,        \* start[k]: where startChat is
  active,       \* the map active
  terminal,     \* chats that are finished
  sessionChat,  \* sessionChats of the session: the chat tool calls belong to, 0 if none
  turnId,       \* the turn a chat believes its own, 0 if none
  aborted,      \* chats whose abort signal fired
  cancel,       \* cancel[k]: where cancelChat is
  leaving,      \* logout or disposeSession, and the chats it waits for
  requests,     \* requests the app-server has not answered
  lines,        \* what the provider wrote and the sidecar did not read
  turn,         \* turn[k]: the turn of chat k at the provider
  items,        \* pieces of text and tool calls so far
  calls,        \* tool calls the host has not answered: <<place in out, chat>>
  out,          \* out[k]: the events of chat k
  loose,        \* ghost: chats given up with their turn going on or to come
  breaks

chats    == <<start, active, terminal, sessionChat, turnId, aborted, cancel, leaving>>
wire     == <<requests, lines>>
external == <<turn, items, breaks>>
vars     == <<provider, client, chats, wire, external, calls, out, loose>>

Init ==
  /\ provider \in {"codex", "claude"}
  /\ client = "none"
  /\ start = [k \in Chat |-> "none"]
  /\ active = {} /\ terminal = {} /\ aborted = {}
  /\ sessionChat = 0
  /\ turnId = [k \in Chat |-> 0]
  /\ cancel = [k \in Chat |-> "none"]
  /\ leaving = [what |-> "no", for |-> {}]
  /\ requests = {} /\ lines = <<>>
  /\ turn = [k \in Chat |-> "none"]
  /\ calls = {}
  /\ out = [k \in Chat |-> <<>>]
  /\ loose = {} /\ items = 0 /\ breaks = 0

End == {"completed", "cancelled", "error"}
Emits(k, kind) == out' = [out EXCEPT ![k] = Append(@, kind)]

Request(k, method) == [of |-> k, method |-> method, turn |-> 0]
Interrupt(k) == [of |-> k, method |-> "interrupt", turn |-> turnId[k]]
Line(k, kind) == [of |-> k, kind |-> kind]

GoesOn(k) == turn'[k] = "running" \/ Request(k, "turn") \in requests

(* finish: the first caller says how the chat ended.                         *)
Finish(ks, kind) ==
  LET new == ks \ terminal IN
  /\ terminal' = terminal \cup new
  /\ active' = active \ new
  /\ out' = [k \in Chat |-> IF k \in new THEN Append(out[k], kind) ELSE out[k]]
  /\ loose' = loose \cup {k \in new : GoesOn(k)}

Finishes == <<terminal, active, out, loose>>

------------------------------------------------------------------------------
(* Codex: chat.start                                                         *)

(* The host starts a chat when the former gave its last event or was         *)
(* stopped: Stop cancels the run first and waits five seconds for the        *)
(* sidecar, so the interrupt may still be on its way.                        *)
Idle(k) == \A j \in 1..(k - 1) : j \in terminal \/ start[j] = "refused" \/ cancel[j] # "none"

StartChat(k) ==
  /\ start[k] = "none" /\ Idle(k) /\ leaving.what \notin {"dispose", "gone"}
  /\ start' = [start EXCEPT ![k] = "connecting"]
  /\ loose' = loose \cup {j \in active : cancel[j] = "interrupting"}
  /\ UNCHANGED <<provider, leaving, client, active, terminal, sessionChat, turnId, aborted, cancel,
                 wire, external, calls, out>>

(* The app-server is spawned and answers initialize, or is closed again.     *)
Opens == client' = "up" /\ UNCHANGED <<start, breaks>>
FailsToOpen ==
  /\ breaks < MaxBreaks /\ breaks' = breaks + 1
  /\ start' = [k \in Chat |-> IF start[k] = "connecting" THEN "refused" ELSE start[k]]
  /\ UNCHANGED client

(* getClient: one connection serves all; a client that died is still used.   *)
Connects ==
  /\ provider = "codex" /\ client = "none"
  /\ \E k \in Chat : start[k] = "connecting"
  /\ Opens \/ FailsToOpen
  /\ UNCHANGED <<provider, leaving, active, terminal, sessionChat, turnId, aborted, cancel, wire,
                 turn, items, calls, out, loose>>

(* thread/start or thread/resume; rawRequest refuses on a closed connection. *)
AsksThread(k) ==
  /\ start[k] = "connecting" /\ client # "none"
  /\ \/ /\ client = "up"
        /\ requests' = requests \cup {Request(k, "thread")}
        /\ start' = [start EXCEPT ![k] = "thread"]
     \/ /\ client = "dead"
        /\ start' = [start EXCEPT ![k] = "refused"]
        /\ UNCHANGED requests
  /\ UNCHANGED <<provider, leaving, client, active, terminal, sessionChat, turnId, aborted, cancel,
                 lines, external, calls, out, loose>>

(* The thread is there: the chat is active from here on, listens to the      *)
(* notifications of its session, owns its tool calls, and asks for the turn. *)
ThreadReady(k) ==
  /\ active' = active \cup {k}
  /\ sessionChat' = k
  /\ Emits(k, "started")
  /\ start' = [start EXCEPT ![k] = "turn"]
  /\ requests' = requests \cup {Request(k, "turn")}
  /\ UNCHANGED <<terminal, turnId, cancel, calls, loose>>

(* The app-server refuses the thread: startChat throws before the chat is    *)
(* active, and the host is told by the answer of chat.start.                 *)
ThreadRefused(k) ==
  /\ start' = [start EXCEPT ![k] = "refused"]
  /\ UNCHANGED <<requests, sessionChat, turnId, cancel, Finishes, calls>>

(* The answer of turn/start tells the turn; nobody waits for it any more     *)
(* when the chat was aborted.                                                *)
TurnAnswered(k) ==
  /\ turnId' = IF start[k] = "turn" THEN [turnId EXCEPT ![k] = k] ELSE turnId
  /\ start' = IF start[k] = "turn" THEN [start EXCEPT ![k] = "returned"] ELSE start
  /\ UNCHANGED <<requests, sessionChat, cancel, Finishes, calls>>

(* Mutant: a refused turn/start is only reported to the host.                *)
RefusalKeeps(k) ==
  /\ start' = IF start[k] = "turn" THEN [start EXCEPT ![k] = "returned"] ELSE start
  /\ UNCHANGED <<requests, sessionChat, turnId, cancel, Finishes, calls>>

(* The app-server refuses the turn.                                          *)
TurnRefused(k) ==
  /\ IF start[k] = "turn" THEN Finish({k}, "error") ELSE UNCHANGED Finishes
  /\ start' = IF start[k] = "turn" THEN [start EXCEPT ![k] = "returned"] ELSE start
  /\ UNCHANGED <<requests, sessionChat, turnId, cancel, calls>>

------------------------------------------------------------------------------
(* Codex: notifications and requests of the app-server                       *)

(* Every chat of the session that is not finished gets a notification.       *)
Listeners == active

TurnStarted(t) ==
  /\ turnId' = [k \in Chat |-> IF k \in Listeners THEN t ELSE turnId[k]]
  /\ UNCHANGED <<requests, start, sessionChat, cancel, Finishes, calls>>

(* A notification with text: the deltas of an item, or the item when it had  *)
(* no deltas.                                                                *)
TextOf(k) == Append(out[k], "text")

TextArrives(t) ==
  /\ out' = [k \in Chat |-> IF k \in Listeners THEN TextOf(k) ELSE out[k]]
  /\ UNCHANGED <<requests, start, sessionChat, turnId, cancel, terminal, active, loose, calls>>

(* Mutant: a turn that was interrupted or failed counts as completed.        *)
AnyStatus(t, status) ==
  /\ Finish(Listeners, "completed")
  /\ UNCHANGED <<requests, start, sessionChat, turnId, cancel, calls>>

(* turn/completed ends the chats that listen, whichever turn it was.         *)
TurnCompleted(t, status) ==
  /\ Finish(Listeners, IF status = "completed" THEN "completed" ELSE "error")
  /\ UNCHANGED <<requests, start, sessionChat, turnId, cancel, calls>>

(* A tool call belongs to the last chat of its session, and is refused when  *)
(* the session was forgotten.                                                *)
ToolAsked ==
  /\ IF sessionChat = 0 THEN UNCHANGED <<out, calls>>
     ELSE /\ Emits(sessionChat, "tool_start")
          /\ calls' = calls \cup {<<Len(out[sessionChat]), sessionChat>>}
  /\ UNCHANGED <<requests, start, sessionChat, turnId, cancel, terminal, active, loose>>

(* Interrupt was answered, failed or timed out.                              *)
InterruptAnswered(k) ==
  /\ cancel[k] = "interrupting"
  /\ cancel' = [cancel EXCEPT ![k] = "done"]
  /\ Finish({k}, "cancelled")
  /\ UNCHANGED <<requests, start, sessionChat, turnId, calls>>

(* handleLine of the app-server's connection.                                *)
Reads ==
  /\ provider = "codex" /\ client = "up" /\ lines # <<>>
  /\ lines' = Tail(lines)
  /\ UNCHANGED <<provider, leaving, client, aborted, external>>
  /\ LET l == Head(lines) IN
     \/ l.kind = "thread" /\ ThreadReady(l.of)
     \/ l.kind = "no_thread" /\ ThreadRefused(l.of)
     \/ l.kind = "turn" /\ TurnAnswered(l.of)
     \/ l.kind = "refused" /\ TurnRefused(l.of)
     \/ l.kind = "turn/started" /\ TurnStarted(l.of)
     \/ l.kind = "text" /\ TextArrives(l.of)
     \/ l.kind \in {"completed", "interrupted"} /\ TurnCompleted(l.of, l.kind)
     \/ l.kind = "tool" /\ ToolAsked
     \/ l.kind = "interrupt" /\ InterruptAnswered(l.of)
     \/ /\ l.kind = "interrupt" /\ cancel[l.of] # "interrupting"
        /\ UNCHANGED <<requests, start, sessionChat, turnId, cancel, Finishes, calls>>

(* Mutant: the interrupt has no timeout, as the other requests of a chat.    *)
WaitsForEver(k) == provider = "codex" /\ FALSE

(* The interrupt waits half a minute.                                        *)
InterruptTimesOut(k) ==
  /\ provider = "codex"
  /\ UNCHANGED <<provider, leaving, client, aborted, lines, external>>
  /\ InterruptAnswered(k)

(* fail: what waits for an answer is refused; a chat whose turn was going on *)
(* is told nothing, and the dead client stays.                               *)
Dies ==
  /\ provider = "codex" /\ client = "up" /\ breaks < MaxBreaks
  /\ breaks' = breaks + 1
  /\ client' = "dead"
  /\ requests' = {} /\ lines' = <<>>
  /\ turn' = [k \in Chat |-> IF turn[k] \in {"none", "completed"} THEN turn[k] ELSE "lost"]
  /\ LET failed == {k \in Chat : start[k] = "turn"}
         cancelled == {k \in Chat : cancel[k] = "interrupting"}
         new == (failed \cup cancelled) \ terminal
         results(k) == IF \E c \in calls : c[2] = k THEN <<"tool_result">> ELSE <<>> IN
     /\ start' = [k \in Chat |-> IF k \in failed THEN "returned"
                                 ELSE IF start[k] = "thread" THEN "refused" ELSE start[k]]
     /\ cancel' = [k \in Chat |-> IF k \in cancelled THEN "done" ELSE cancel[k]]
     /\ terminal' = terminal \cup new /\ active' = active \ new
     /\ out' = [k \in Chat |-> out[k] \o results(k) \o
                  (IF k \notin new THEN <<>>
                   ELSE IF k \in failed THEN <<"error">> ELSE <<"cancelled">>)]
  /\ calls' = {}
  /\ UNCHANGED <<provider, leaving, sessionChat, turnId, aborted, items, loose>>

(* The host answers a tool call.                                             *)
ToolAnswered(c) ==
  /\ c \in calls
  /\ calls' = calls \ {c}
  /\ Emits(c[2], "tool_result")
  /\ UNCHANGED <<provider, client, chats, wire, external, loose>>

------------------------------------------------------------------------------
(* Cancelling, from chat.cancel                                              *)

(* A chat that is not active yet cannot be cancelled.                        *)
CancelMissed(k) ==
  /\ start[k] # "none" /\ cancel[k] = "none"
  /\ k \notin active
  /\ cancel' = [cancel EXCEPT ![k] = "missed"]
  /\ loose' = loose \cup ({k} \ terminal)
  /\ UNCHANGED <<provider, leaving, client, start, active, terminal, sessionChat, turnId, aborted,
                 wire, external, calls, out>>

(* The abort refuses a turn/start that waits, which finishes the chat; the   *)
(* turn is interrupted when its id is known.                                 *)
CancelChats(ks) ==
  LET known == {k \in ks : turnId[k] # 0 /\ client = "up"} IN
  /\ aborted' = aborted \cup ks
  /\ start' = [k \in Chat |-> IF k \in ks /\ start[k] = "turn" THEN "returned" ELSE start[k]]
  /\ UNCHANGED turn
  /\ requests' = requests \cup {Interrupt(k) : k \in known}
  /\ cancel' = [k \in Chat |-> IF k \in known THEN "interrupting"
                               ELSE IF k \in ks THEN "done" ELSE cancel[k]]
  /\ Finish({k \in ks : k \notin known \/ start[k] = "turn"}, "cancelled")
  /\ UNCHANGED <<provider, client, sessionChat, turnId, lines, items, calls>>

CancelChat(k) ==
  /\ provider = "codex" /\ k \in active /\ cancel[k] = "none"
  /\ CancelChats({k}) /\ UNCHANGED <<leaving, breaks>>

------------------------------------------------------------------------------
(* Claude: a query of the SDK, read by consume                               *)

(* After prepare the chat is active at once, and its query runs.             *)
QueryStarts(k) ==
  /\ provider = "claude" /\ start[k] = "connecting"
  /\ start' = [start EXCEPT ![k] = "returned"]
  /\ active' = active \cup {k}
  /\ turn' = [turn EXCEPT ![k] = "running"]
  /\ Emits(k, "started")
  /\ UNCHANGED <<provider, leaving, client, terminal, sessionChat, turnId, aborted, cancel, wire,
                 items, breaks, calls, loose>>

(* A message of the query, as far as it holds text that was not streamed yet.*)
ClaudeText(k) ==
  /\ items < MaxItems
  /\ items' = items + 1
  /\ Emits(k, "text")
  /\ UNCHANGED <<terminal, active, loose, turn>>

(* consume: the loop ends with the query; what follows decides the end.      *)
Consumes(k) ==
  /\ provider = "claude" /\ turn[k] = "running" /\ k \notin terminal
  /\ \/ ClaudeText(k)
     \/ /\ turn' = [turn EXCEPT ![k] = "completed"]
        /\ Finish({k}, "completed")
        /\ UNCHANGED items
     \/ /\ turn' = [turn EXCEPT ![k] = "lost"]
        /\ \/ Finish({k}, "error")
           \/ k \in aborted /\ Finish({k}, "cancelled")
        /\ UNCHANGED items
  /\ UNCHANGED <<provider, leaving, client, start, sessionChat, turnId, aborted, cancel, wire, breaks, calls>>

(* The tool handler calls the host unless the chat is aborted.               *)
ClaudeTool(k) ==
  /\ provider = "claude" /\ turn[k] = "running" /\ k \notin aborted
  /\ items < MaxItems
  /\ items' = items + 1
  /\ calls' = calls \cup {<<Len(out[k]), k>>}
  /\ Emits(k, "tool_start")
  /\ UNCHANGED <<provider, client, chats, wire, turn, breaks, loose>>

(* The abort refuses the tool call that waits, and the query is interrupted. *)
InterruptQueries(ks) ==
  /\ aborted' = aborted \cup ks
  /\ cancel' = [k \in Chat |-> IF k \in ks THEN "interrupting" ELSE cancel[k]]
  /\ calls' = {c \in calls : c[2] \notin ks}
  /\ out' = [k \in Chat |-> IF k \in ks /\ \E c \in calls : c[2] = k
                            THEN Append(out[k], "tool_result") ELSE out[k]]
  /\ UNCHANGED <<provider, client, start, active, terminal, sessionChat, turnId, wire,
                 turn, items, loose>>

ClaudeCancels(k) ==
  /\ provider = "claude" /\ k \in active /\ cancel[k] = "none"
  /\ InterruptQueries({k}) /\ UNCHANGED <<leaving, breaks>>

(* The interrupt settled: the query is closed, and the chat finished.        *)
ClaudeInterrupted(k) ==
  /\ provider = "claude"
  /\ turn' = [turn EXCEPT ![k] = IF @ = "running" THEN "lost" ELSE @]
  /\ InterruptAnswered(k)
  /\ UNCHANGED <<provider, leaving, client, aborted, lines, items, breaks>>

------------------------------------------------------------------------------
(* Leaving a provider or a conversation                                      *)

(* logout cancels every active chat, chat.disposeSession the last of its     *)
(* session or, of Claude, the first it finds.                                *)
LeftBy(what) ==
  IF what = "logout" THEN active
  ELSE IF provider = "codex" THEN active \cap {sessionChat}
  ELSE {k \in active : \A j \in active : k <= j}

(* The host asks to forget the session of a conversation without a run.      *)
Ended == \E k \in 1..(MaxChats + 1) : (k \in Chat => start[k] = "none") /\ Idle(k)

Leave(what) ==
  LET ks == {k \in LeftBy(what) : cancel[k] # "interrupting"} IN
  /\ leaving.what = "no" /\ start[1] # "none"
  /\ breaks < MaxBreaks /\ breaks' = breaks + 1
  /\ what = "dispose" => Ended
  /\ leaving' = [what |-> what, for |-> LeftBy(what)]
  /\ \/ provider = "codex" /\ CancelChats(ks)
     \/ provider = "claude" /\ InterruptQueries(ks)

(* When the chats are cancelled the account or the session goes; what the    *)
(* app-server refuses to delete stays.                                       *)
Left ==
  /\ leaving.what \in {"logout", "dispose"}
  /\ \A k \in leaving.for : cancel[k] # "interrupting"
  /\ leaving' = [leaving EXCEPT !.what = IF @ = "logout" THEN "out" ELSE "gone"]
  /\ \/ UNCHANGED sessionChat
     \/ leaving.what = "dispose" /\ client = "up" /\ sessionChat' = 0
  /\ UNCHANGED <<provider, client, start, active, terminal, turnId, aborted, cancel, wire,
                 external, calls, out, loose>>

------------------------------------------------------------------------------
(* The app-server, as the sidecar sees it: answers and notifications of one  *)
(* request may come in either order.                                         *)

Answers(r, replies) ==
  /\ r \in requests
  /\ requests' = requests \ {r}
  /\ lines' = lines \o replies

ServesThread(k) ==
  /\ \E kind \in {"thread", "no_thread"} :
       Answers(Request(k, "thread"), <<Line(k, kind)>>)
  /\ UNCHANGED turn

ServesTurn(k) ==
  \/ /\ \/ Answers(Request(k, "turn"), <<Line(k, "turn"), Line(k, "turn/started")>>)
        \/ Answers(Request(k, "turn"), <<Line(k, "turn/started"), Line(k, "turn")>>)
     /\ turn' = [turn EXCEPT ![k] = "running"]
  \/ Answers(Request(k, "turn"), <<Line(k, "refused")>>) /\ UNCHANGED turn

(* The turn r.turn is interrupted for the chat r.of.                         *)
ServesInterrupt(r) ==
  LET answer == Line(r.of, "interrupt")
      ended == Line(r.turn, "interrupted") IN
  \/ /\ turn[r.turn] = "running"
     /\ turn' = [turn EXCEPT ![r.turn] = "interrupted"]
     /\ Answers(r, <<answer, ended>>) \/ Answers(r, <<ended, answer>>)
  \/ /\ turn[r.turn] # "running"
     /\ Answers(r, <<answer>>)
     /\ UNCHANGED turn

Serves ==
  /\ client = "up"
  /\ \/ \E k \in Chat : ServesThread(k) \/ ServesTurn(k)
     \/ \E r \in requests : r.method = "interrupt" /\ ServesInterrupt(r)
  /\ UNCHANGED <<provider, client, chats, items, breaks, calls, out, loose>>

TurnGoesOn(t) ==
  /\ provider = "codex" /\ client = "up" /\ turn[t] = "running"
  /\ \/ /\ items < MaxItems
        /\ items' = items + 1
        /\ lines' = Append(lines, Line(t, "text"))
        /\ UNCHANGED turn
     \/ /\ items < MaxItems
        /\ items' = items + 1
        /\ lines' = Append(lines, Line(t, "tool"))
        /\ UNCHANGED turn
     \/ /\ turn' = [turn EXCEPT ![t] = "completed"]
        /\ lines' = Append(lines, Line(t, "completed"))
        /\ UNCHANGED items
  /\ UNCHANGED <<provider, client, chats, requests, breaks, calls, out, loose>>

------------------------------------------------------------------------------
Cancel(k) == CancelMissed(k) \/ CancelChat(k) \/ ClaudeCancels(k)
Interrupted(k) == InterruptTimesOut(k) \/ ClaudeInterrupted(k)
Step(k) == StartChat(k) \/ AsksThread(k) \/ QueryStarts(k)
Next ==
  \/ \E k \in Chat : \/ Step(k) \/ Cancel(k) \/ Interrupted(k)
                     \/ Consumes(k) \/ ClaudeTool(k) \/ TurnGoesOn(k)
  \/ Connects \/ Reads \/ Dies \/ Serves
  \/ Leave("logout") \/ Leave("dispose") \/ Left
  \/ \E c \in calls : ToolAnswered(c)

Spec == Init /\ [][Next]_vars

(* An interrupt is answered or times out.  A turn need not end, and neither  *)
(* thread/start nor turn/start has a timeout.                                *)
ChatFairness == \A k \in Chat : WF_vars(Interrupted(k))
FairSpec == Spec /\ ChatFairness

------------------------------------------------------------------------------
(* A chat has one last event, and after it nothing but what is left of its   *)
(* tool calls: text that was on its way is not passed on, and of the ways a  *)
(* chat can end together only the first is told.  (finish, handleNotification*)
(* and consume of both providers)                                            *)
OneEnd ==
  \A k \in Chat : \A i \in DOMAIN out[k] : out[k][i] \in End =>
    \A j \in (i + 1)..Len(out[k]) : out[k][j] \in {"tool_start", "tool_result"}

(* A chat is told to be completed only when its own turn is.  A chat that    *)
(* was given up with its turn going on (cancelled before it was active or its*)
(* turn id known, or its interrupt got no answer in time) leaves a turn      *)
(* behind that ends the next chat of the session; a turn that was            *)
(* interrupted does not.  (handleNotification does not look at the turn)     *)
CompletedIsOwn ==
  \A k \in Chat : (\E i \in DOMAIN out[k] : out[k][i] = "completed") =>
                    turn[k] = "completed" \/ \E j \in 1..k : j \in loose

(* A logout is over, and a session forgotten, when the chats it found have   *)
(* been told their end.  (cancelAll, disposeSession)                         *)
LeftHaveEnded == leaving.what \in {"out", "gone"} => leaving.for \subseteq terminal

(* What a chat is told of its end is its own end, once, and in time.         *)
EndsAreTrue == OneEnd /\ CompletedIsOwn /\ LeftHaveEnded

(* Once nothing is on its way, a chat that is active has a turn going on:    *)
(* the last event of a turn is never missed, in whatever order answers and   *)
(* notifications came; unless the app-server died, of which chats that only  *)
(* wait for notifications are told nothing.                                  *)
ActiveIsServed ==
  client # "dead" /\ requests = {} /\ lines = <<>> =>
    \A k \in active : \/ turn[k] \in {"running"}
                      \/ cancel[k] = "interrupting"

(* A chat that is cancelled ends, so neither logout nor disposeSession waits *)
(* for ever.                                                                 *)
CancelEnds == \A k \in Chat : (cancel[k] = "interrupting") ~> (k \in terminal)
================================================================================
