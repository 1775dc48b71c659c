--------------------------------- MODULE AIRuns --------------------------------
(***************************************************************************)
(* The runs of the AI assistant: Send, Stop, DeleteConversation and Close  *)
(* of internal/ai/service.go, the goroutine that starts a chat, the read   *)
(* loop that applies the events of the sidecar, the supervisor of the      *)
(* sidecar process and what chat.start and chat.cancel do inside it.       *)
(*                                                                         *)
(* A run s is one call of Send.  A step is one critical section of         *)
(* Service.mu, one statement or transaction of the repository, one line    *)
(* written to or read from the sidecar, or one return from a call to it.   *)
(* The lines the sidecar reads are handled concurrently, what it writes    *)
(* arrives in order.  What a provider says is reduced to pieces of text    *)
(* and one last event.                                                     *)
(***************************************************************************)
EXTENDS Naturals, Sequences, FiniteSets

CONSTANTS Send, Conversation, ConversationOf,
          Budgets   \* bound: what one behaviour may use: the calls of Send, the
                    \* pieces of text of one answer, the runs the user stops, the
                    \* deaths and the stalls of the sidecar process, the writes of
                    \* the database that fail, the ends of the application by
                    \* Close and by a restart

ASSUME AIRunsAssumption ==
  /\ ConversationOf \in [Send -> Conversation]
  /\ Budgets \subseteq [sends : SUBSET Send, text : Nat, stops : Nat,
                        deaths : Nat, stalls : Nat, failures : Nat, closes : BOOLEAN,
                        restarts : Nat]

VARIABLES
  stored,      \* conversations in the database
  msg,         \* msg[s]: status of the assistant's message of s in the database
  text,        \* text[s]: pieces of text in that message
  send,        \* send[s]: where the call of Send is
  registered,  \* runs in runsByID, runsByChat and runByConversation
  fin,         \* fin[s]: where the once of s is
  finAs,       \* finAs[s]: the status that once writes
  ctxDone,     \* runs whose context is cancelled
  start,       \* start[s]: where the goroutine start of s is
  stop,        \* stop[s]: where the call of Stop for s is
  requests,    \* chat.start and chat.cancel lines the sidecar has not handled
  chat,        \* chat[s]: the chat of s in the sidecar
  said,        \* said[s]: pieces of text that chat sent
  events,      \* events[s]: what the sidecar wrote about s and nobody read
  reader,      \* the event the read loop is applying, or NoEvent
  sidecar,     \* the sidecar process and, once "closed", its supervisor
  closed,      \* Service.closed
  closing,     \* runs Close still has to finish
  del,         \* del[c]: where DeleteConversation of c is
  unended,     \* ghost: runs of which the last status could not be stored
  gaps,        \* ghost: runs of which a piece could not be stored
  deaths, stalls, failures, restarts,
  budget       \* the member of Budgets this behaviour uses

runVars == <<send, start, stop, fin, finAs, ctxDone, registered>>
dbVars == <<stored, msg, text>>
chatVars == <<requests, chat, said, events>>
hostVars == <<closed, closing, del>>
ghosts == <<unended, gaps>>
bounds == <<ghosts, deaths, stalls, failures, restarts, budget>>
vars == <<runVars, dbVars, chatVars, reader, sidecar, hostVars, bounds>>

-------------------------------------------------------------------------------
Final == {"complete", "cancelled", "error", "interrupted"}
MsgStatus == {"none", "streaming", "deleted"} \cup Final
SendPc == {"none", "checked", "created", "conflict", "running", "failed"}
StartPc == {"none", "status", "write", "wait", "broken", "save", "done"}
StopPc == {"idle", "cancelled", "written", "finish"}
Sidecar == {"none", "up", "full", "dead", "closed"}
ChatState == {"none", "starting", "active", "completed", "failed", "cancelled", "lost"}
LastEvent == {"completed", "error", "cancelled"}
Event == {"reply", "replyError", "text"} \cup LastEvent
NoEvent == <<>>

\* Service.Close returned and the application context is cancelled.
AppDone == sidecar = "closed"

RunsOf(c) == {s \in Send : ConversationOf[s] = c}
Busy(c) == RunsOf(c) \cap registered # {}

Init == /\ stored = Conversation
        /\ msg = [s \in Send |-> "none"]
        /\ text = [s \in Send |-> 0]
        /\ send = [s \in Send |-> "none"]
        /\ registered = {}
        /\ fin = [s \in Send |-> "no"]
        /\ finAs = [s \in Send |-> "none"]
        /\ ctxDone = {}
        /\ start = [s \in Send |-> "none"]
        /\ stop = [s \in Send |-> "idle"]
        /\ requests = {}
        /\ chat = [s \in Send |-> "none"]
        /\ said = [s \in Send |-> 0]
        /\ events = [s \in Send |-> <<>>]
        /\ reader = NoEvent
        /\ sidecar = "none"
        /\ closed = FALSE
        /\ closing = {}
        /\ del = [c \in Conversation |-> "idle"]
        /\ unended = {}
        /\ gaps = {}
        /\ deaths = 0
        /\ stalls = 0
        /\ failures = 0
        /\ restarts = 0
        /\ budget \in Budgets

-------------------------------------------------------------------------------
\* Send: the conversation is read and, under the lock, the service is open and
\* the conversation has no run.
SendCheck(s) == /\ send[s] = "none"
                /\ s \in budget.sends
                /\ ConversationOf[s] \in stored
                /\ ~closed
                /\ ~Busy(ConversationOf[s])
                /\ send' = [send EXCEPT ![s] = "checked"]
                /\ UNCHANGED <<start, stop, fin, finAs, ctxDone, registered, dbVars,
                               chatVars, reader, sidecar, hostVars, bounds>>

\* The messages of the user and of the assistant are inserted, each by a
\* statement that selects the conversation: nothing is if it was deleted.
SendCreate(s) == /\ send[s] = "checked"
                 /\ IF ConversationOf[s] \in stored /\ ~AppDone
                      THEN /\ msg' = [msg EXCEPT ![s] = "streaming"]
                           /\ send' = [send EXCEPT ![s] = "created"]
                      ELSE /\ send' = [send EXCEPT ![s] = "failed"]
                           /\ UNCHANGED msg
                 /\ UNCHANGED <<stored, text, start, stop, fin, finAs, ctxDone,
                                registered, chatVars, reader, sidecar, hostVars,
                                bounds>>

\* The second critical section looks for a run again, then registers this one
\* and starts its goroutine.
StillFree(s) == ~Busy(ConversationOf[s])

SendRegister(s) == /\ send[s] = "created"
                   /\ StillFree(s)
                   /\ send' = [send EXCEPT ![s] = "running"]
                   /\ registered' = registered \cup {s}
                   /\ start' = [start EXCEPT ![s] = "status"]
                   /\ ctxDone' = IF AppDone THEN ctxDone \cup {s} ELSE ctxDone
                   /\ UNCHANGED <<stop, fin, finAs, dbVars, chatVars, reader,
                                  sidecar, hostVars, bounds>>

SendConflict(s) == /\ send[s] = "created"
                   /\ ~StillFree(s)
                   /\ send' = [send EXCEPT ![s] = "conflict"]
                   /\ UNCHANGED <<start, stop, fin, finAs, ctxDone, registered,
                                  dbVars, chatVars, reader, sidecar, hostVars,
                                  bounds>>

\* FinishMessage is an UPDATE by id: a deleted message stays deleted.  Its error,
\* as in a conflict with a write of the reader to the same row, is ignored.
MayFail == \/ failures < budget.failures /\ failures' = failures + 1
           \/ AppDone /\ UNCHANGED failures

FinishMessage(s, status) ==
  \/ /\ msg' = [msg EXCEPT ![s] = IF @ = "deleted" THEN @ ELSE status]
     /\ UNCHANGED <<unended, failures>>
  \/ /\ MayFail
     /\ unended' = unended \cup {s}
     /\ UNCHANGED msg

ConflictLeavesMessage(s) == /\ send[s] = "conflict"                      \* mutant
                            /\ send' = [send EXCEPT ![s] = "failed"]
                            /\ UNCHANGED <<start, stop, fin, finAs, ctxDone,
                                           registered, dbVars, chatVars, reader,
                                           sidecar, hostVars, bounds>>
SendGivesUp(s) == /\ send[s] = "conflict"
                  /\ IF AppDone THEN UNCHANGED <<msg, unended, failures>>
                                ELSE FinishMessage(s, "cancelled")
                  /\ send' = [send EXCEPT ![s] = "failed"]
                  /\ UNCHANGED <<start, stop, fin, finAs, ctxDone, registered,
                                 stored, text, chatVars, reader, sidecar, hostVars,
                                 gaps, deaths, stalls, restarts, budget>>

-------------------------------------------------------------------------------
\* finish: the once of a run.  The first caller decides the status; a caller has
\* returned when the once is over.
First(s) == fin[s] = "no"

Finish(s, status) ==
  IF First(s)
    THEN /\ fin' = [fin EXCEPT ![s] = "write"]
         /\ finAs' = [finAs EXCEPT ![s] = status]
    ELSE UNCHANGED <<fin, finAs>>

FinishWrite(s) == /\ fin[s] = "write"
                  /\ FinishMessage(s, finAs[s])
                  /\ fin' = [fin EXCEPT ![s] = "unregister"]
                  /\ UNCHANGED <<stored, text, send, start, stop, finAs, ctxDone,
                                 registered, chatVars, reader, sidecar, hostVars,
                                 gaps, deaths, stalls, restarts, budget>>

\* The maps are cleared under the lock, after the context is cancelled; then the
\* run is emitted.
FinishUnregister(s) == /\ fin[s] = "unregister"
                       /\ fin' = [fin EXCEPT ![s] = "done"]
                       /\ ctxDone' = ctxDone \cup {s}
                       /\ registered' = registered \ {s}
                       /\ UNCHANGED <<send, start, stop, finAs, dbVars, chatVars,
                                      reader, sidecar, hostVars, bounds>>

-------------------------------------------------------------------------------
\* The goroutine start.  Each call to the sidecar starts its process if there is
\* none, fails if it is dead, and returns early when the run's context ends: but
\* only once its line is written, which takes as long as the pipe is full.
Alive == sidecar \in {"none", "up"}
Refuses == \/ sidecar \in {"dead", "closed"}
           \/ sidecar = "full" /\ closed /\ closing = {}

StartGoes(s, from, to) == /\ start[s] = from
                          /\ start' = [start EXCEPT ![s] = to]

StartFinishes(s, from, status) == /\ StartGoes(s, from, "done")
                                  /\ Finish(s, status)
                                  /\ UNCHANGED <<send, stop, ctxDone, registered,
                                                 dbVars, chatVars, reader, sidecar,
                                                 hostVars, bounds>>

\* ProviderStatus answers that the provider is authenticated and the session to
\* resume is read, both with the run's context.
StatusOK(s) == /\ s \notin ctxDone
               /\ StartGoes(s, "status", "write")
               /\ Alive
               /\ sidecar' = "up"
               /\ UNCHANGED <<send, stop, fin, finAs, ctxDone, registered, dbVars,
                              chatVars, reader, hostVars, bounds>>

\* Either of them fails, or nobody is logged in; whatever the reason is, also the
\* run's context, the run ends in an error.
StatusFails(s) == StartFinishes(s, "status", "error")

\* chat.start: Call writes the line before it looks at the context.
WriteStart(s) == /\ Alive
                 /\ StartGoes(s, "write", "wait")
                 /\ sidecar' = "up"
                 /\ requests' = requests \cup {<<"start", s>>}
                 /\ UNCHANGED <<send, stop, fin, finAs, ctxDone, registered, dbVars,
                                chat, said, events, reader, hostVars, bounds>>
WriteStartFails(s) == Refuses /\ StartFinishes(s, "write", "error")

\* The reply is taken by the read loop and handed to the waiting call.
TakeReply(s, reply) == /\ reader = NoEvent
                       /\ events[s] # <<>>
                       /\ Head(events[s]) = reply
                       /\ events' = [events EXCEPT ![s] = Tail(@)]

ReplyOK(s) == /\ TakeReply(s, "reply")
              /\ start' = [start EXCEPT ![s] = IF @ = "wait" THEN "save" ELSE @]
              /\ UNCHANGED <<send, stop, fin, finAs, ctxDone, registered, dbVars,
                             requests, chat, said, reader, sidecar, hostVars, bounds>>

ReplyError(s) == /\ TakeReply(s, "replyError")
                 /\ IF start[s] = "wait"
                      THEN /\ start' = [start EXCEPT ![s] = "done"]
                           /\ Finish(s, "error")
                      ELSE UNCHANGED <<start, fin, finAs>>
                 /\ UNCHANGED <<send, stop, ctxDone, registered, dbVars, requests,
                                chat, said, reader, sidecar, hostVars, bounds>>

WaitCancelled(s) == s \in ctxDone /\ StartFinishes(s, "wait", "cancelled")
CallBroken(s) == StartFinishes(s, "broken", "error")

\* SaveProviderSession, with the run's context; it may also fail by itself, as in
\* a conflict with the reader's save of the same session.  The chat goes on.
SessionSaved(s) == /\ s \notin ctxDone
                   /\ StartGoes(s, "save", "done")
                   /\ UNCHANGED <<send, stop, fin, finAs, ctxDone, registered,
                                  dbVars, chatVars, reader, sidecar, hostVars,
                                  bounds>>
SaveFails(s) == StartFinishes(s, "save", "error")

StartStep(s) == StatusOK(s) \/ StatusFails(s) \/ WriteStart(s) \/ WriteStartFails(s)
                \/ WaitCancelled(s) \/ CallBroken(s) \/ SessionSaved(s) \/ SaveFails(s)

-------------------------------------------------------------------------------
\* Stop: the context of the run is cancelled, chat.cancel is called with five
\* seconds to answer, and the run is finished as cancelled.
StopGoes(s, from, to) == stop[s] = from /\ stop' = [stop EXCEPT ![s] = to]

StopRun(s) == /\ s \in registered
              /\ Cardinality({t \in Send : stop[t] # "idle"}) < budget.stops
              /\ StopGoes(s, "idle", "cancelled")
              /\ ctxDone' = ctxDone \cup {s}
              /\ UNCHANGED <<send, start, fin, finAs, registered, dbVars, chatVars,
                             reader, sidecar, hostVars, bounds>>

WriteCancel(s) == /\ StopGoes(s, "cancelled", "written")
                  /\ \/ /\ Alive
                        /\ sidecar' = "up"
                        /\ requests' = requests \cup {<<"cancel", s>>}
                     \/ Refuses /\ UNCHANGED <<sidecar, requests>>
                  /\ UNCHANGED <<send, start, fin, finAs, ctxDone, registered, dbVars,
                                 chat, said, events, reader, hostVars, bounds>>

\* The answer to chat.cancel, its error or the five seconds: all are ignored.
WaitsForSidecar(s) == <<"cancel", s>> \notin requests                    \* mutant
CancelAnswered(s) == TRUE
StopFinish(s) == /\ CancelAnswered(s)
                 /\ StopGoes(s, "written", "finish")
                 /\ Finish(s, "cancelled")
                 /\ UNCHANGED <<send, start, ctxDone, registered, dbVars, chatVars,
                                reader, sidecar, hostVars, bounds>>

-------------------------------------------------------------------------------
\* The sidecar: chat.start first prepares the provider, then makes the chat
\* active, then replies; a chat that is not active yet cannot be cancelled.
Tell(s, e) == events' = [events EXCEPT ![s] = Append(@, e)]

HandleStart(s) == /\ sidecar = "up"
                  /\ <<"start", s>> \in requests
                  /\ requests' = requests \ {<<"start", s>>}
                  /\ chat' = [chat EXCEPT ![s] = "starting"]
                  /\ UNCHANGED <<runVars, dbVars, said, events, reader, sidecar,
                                 hostVars, bounds>>

ChatActive(s) == /\ chat[s] = "starting"
                 /\ chat' = [chat EXCEPT ![s] = "active"]
                 /\ Tell(s, "reply")
                 /\ UNCHANGED <<runVars, dbVars, requests, said, reader, sidecar,
                                hostVars, bounds>>

ChatRefused(s) == /\ chat[s] = "starting"
                  /\ chat' = [chat EXCEPT ![s] = "failed"]
                  /\ Tell(s, "replyError")
                  /\ UNCHANGED <<runVars, dbVars, requests, said, reader, sidecar,
                                 hostVars, bounds>>

Say(s) == /\ chat[s] = "active"
          /\ said[s] < budget.text
          /\ said' = [said EXCEPT ![s] = @ + 1]
          /\ Tell(s, "text")
          /\ UNCHANGED <<runVars, dbVars, requests, chat, reader, sidecar, hostVars,
                         bounds>>

ChatEnds(s, how, e) == /\ chat[s] = "active"
                       /\ chat' = [chat EXCEPT ![s] = how]
                       /\ Tell(s, e)
                       /\ UNCHANGED <<runVars, dbVars, requests, said, reader, sidecar,
                                      hostVars, bounds>>

HandleCancel(s) ==
  /\ sidecar = "up"
  /\ <<"cancel", s>> \in requests
  /\ requests' = requests \ {<<"cancel", s>>}
  /\ IF chat[s] = "active"
       THEN chat' = [chat EXCEPT ![s] = "cancelled"] /\ Tell(s, "cancelled")
       ELSE UNCHANGED <<chat, events>>
  /\ UNCHANGED <<runVars, dbVars, said, reader, sidecar, hostVars, bounds>>

ChatStep(s) == \/ HandleStart(s) \/ ChatActive(s) \/ ChatRefused(s)
               \/ Say(s) \/ ChatEnds(s, "completed", "completed")
               \/ ChatEnds(s, "failed", "error") \/ HandleCancel(s)

\* The process dies: its chats are gone, the calls that wait for it fail, and what
\* it had written may still be read or not.
SidecarDies ==
  /\ sidecar \in {"up", "full"}
  /\ deaths < budget.deaths
  /\ sidecar' = "dead"
  /\ deaths' = deaths + 1
  /\ requests' = {}
  /\ chat' = [s \in Send |-> IF chat[s] \in {"starting", "active"} THEN "lost"
                                                                 ELSE chat[s]]
  /\ events' \in {events, [s \in Send |-> <<>>]}
  /\ start' = [s \in Send |-> IF start[s] = "wait" THEN "broken" ELSE start[s]]
  /\ UNCHANGED <<send, stop, fin, finAs, ctxDone, registered, dbVars, said, reader,
                 hostVars, ghosts, stalls, failures, restarts, budget>>

\* The process stops reading and the pipe to it fills, until it reads again.
SidecarStalls ==
  /\ sidecar = "up"
  /\ stalls < budget.stalls
  /\ sidecar' = "full"
  /\ stalls' = stalls + 1
  /\ UNCHANGED <<runVars, dbVars, chatVars, reader, hostVars, ghosts, deaths, failures,
                 restarts, budget>>

SidecarResumes == /\ sidecar = "full"
                  /\ sidecar' = "up"
                  /\ UNCHANGED <<runVars, dbVars, chatVars, reader, hostVars, bounds>>

\* The supervisor notices, and the next call starts another process.
SidecarReaped == /\ sidecar = "dead"
                 /\ sidecar' = "none"
                 /\ UNCHANGED <<runVars, dbVars, chatVars, reader, hostVars, bounds>>

-------------------------------------------------------------------------------
\* The read loop applies one event at a time, to the run it finds registered.
ReadEvent(s) == /\ reader = NoEvent
                /\ events[s] # <<>>
                /\ Head(events[s]) \in LastEvent \cup {"text"}
                /\ events' = [events EXCEPT ![s] = Tail(@)]
                /\ reader' = IF s \in registered THEN <<s, Head(events[s])>>
                                                ELSE NoEvent
                /\ UNCHANGED <<runVars, dbVars, requests, chat, said, sidecar,
                               hostVars, bounds>>

\* AppendMessage: with the run's context, and only to a streaming message.  Its
\* error is ignored.
AppendOnceStarted(s) == start[s] = "done"                               \* mutant
MayAppend(s) == s \notin ctxDone /\ msg[s] = "streaming"

ApplyText(s) == /\ reader = <<s, "text">>
                /\ \/ /\ text' = [text EXCEPT ![s] = IF MayAppend(s) THEN @ + 1 ELSE @]
                      /\ UNCHANGED <<gaps, failures>>
                   \/ /\ MayAppend(s) /\ MayFail
                      /\ gaps' = gaps \cup {s}
                      /\ UNCHANGED text
                /\ reader' = NoEvent
                /\ UNCHANGED <<runVars, stored, msg, chatVars, sidecar, hostVars,
                               unended, deaths, stalls, restarts, budget>>

StatusOf(e) == IF e = "completed" THEN "complete" ELSE e

ApplyLast(s, e) == /\ reader = <<s, e>>
                   /\ Finish(s, StatusOf(e))
                   /\ reader' = <<s, "finishing">>
                   /\ UNCHANGED <<send, start, stop, ctxDone, registered, dbVars,
                                  chatVars, sidecar, hostVars, bounds>>

ReaderGoesOn(s) == /\ reader = <<s, "finishing">>
                   /\ fin[s] = "done"
                   /\ reader' = NoEvent
                   /\ UNCHANGED <<runVars, dbVars, chatVars, sidecar, hostVars,
                                  bounds>>

ReaderStep(s) == \/ ReplyOK(s) \/ ReplyError(s) \/ ReadEvent(s) \/ ApplyText(s)
                 \/ \E e \in LastEvent : ApplyLast(s, e)
                 \/ ReaderGoesOn(s)

-------------------------------------------------------------------------------
\* DeleteConversation looks for a run, asks the sidecar to dispose of the session
\* of the conversation, which cancels a chat that uses it, and then deletes.  The
\* line waits for room in the pipe.
DelGoes(c, from, to) == del[c] = from /\ del' = [del EXCEPT ![c] = to]

DeleteCheck(c) == /\ c \in stored
                  /\ ~Busy(c)
                  /\ DelGoes(c, "idle", "checked")
                  /\ UNCHANGED <<runVars, dbVars, chatVars, reader, sidecar, closed,
                                 closing, bounds>>

DeleteDispose(c) ==
  /\ DelGoes(c, "checked", "disposed")
  /\ Alive \/ Refuses
  /\ \E S \in SUBSET {s \in RunsOf(c) : chat[s] = "active"} :
       requests' = requests \cup {<<"cancel", s>> : s \in S}
  /\ UNCHANGED <<runVars, dbVars, chat, said, events, reader, sidecar, closed,
                 closing, bounds>>

KeepMessages(c) == {}                                                   \* mutant
MessagesOf(c) == {s \in RunsOf(c) : msg[s] # "none"}

DeleteRows(c) ==
  /\ DelGoes(c, "disposed", "done")
  /\ stored' = stored \ {c}
  /\ msg' = [s \in Send |-> IF s \in MessagesOf(c) THEN "deleted" ELSE msg[s]]
  /\ UNCHANGED <<runVars, text, chatVars, reader, sidecar, closed, closing, bounds>>

\* Close: the runs registered now are finished, then the sidecar is closed, once
\* the line that asks it to shut down is written, and App.shutdown cancels the
\* application context.
CloseBegin == /\ ~closed /\ budget.closes
              /\ closed' = TRUE
              /\ closing' = registered
              /\ UNCHANGED <<runVars, dbVars, chatVars, reader, sidecar, del, bounds>>

CloseFinish(s) == /\ s \in closing
                  /\ fin[s] = "no"
                  /\ Finish(s, "interrupted")
                  /\ UNCHANGED <<send, start, stop, ctxDone, registered, dbVars,
                                 chatVars, reader, sidecar, hostVars, bounds>>

CloseNext(s) == /\ s \in closing
                /\ fin[s] = "done"
                /\ closing' = closing \ {s}
                /\ UNCHANGED <<runVars, dbVars, chatVars, reader, sidecar, closed,
                               del, bounds>>

CloseSidecar ==
  /\ closed
  /\ closing = {}
  /\ ~AppDone /\ sidecar # "full"
  /\ sidecar' = "closed"
  /\ ctxDone' = ctxDone \cup registered
  /\ requests' = {}
  /\ chat' = [s \in Send |-> IF chat[s] \in {"starting", "active"} THEN "lost"
                                                                 ELSE chat[s]]
  /\ start' = [s \in Send |-> IF start[s] = "wait" THEN "broken" ELSE start[s]]
  /\ UNCHANGED <<send, stop, fin, finAs, registered, dbVars, said, events, reader,
                 hostVars, bounds>>

\* The application ends, at any point, and starts again: only the database is
\* left, and CleanupStartup interrupts what was streaming.
Repaired(status) == IF status = "streaming" THEN "interrupted" ELSE status

Restart ==
  /\ restarts < budget.restarts
  /\ restarts' = restarts + 1
  /\ msg' = [s \in Send |-> Repaired(msg[s])]
  /\ send' = [s \in Send |-> IF send[s] \in {"checked", "created", "conflict"}
                               THEN "failed" ELSE send[s]]
  /\ registered' = {}
  /\ fin' = [s \in Send |-> IF send[s] = "running" THEN "done" ELSE fin[s]]
  /\ start' = [s \in Send |-> IF start[s] = "none" THEN "none" ELSE "done"]
  /\ stop' = [s \in Send |-> IF stop[s] = "idle" THEN "idle" ELSE "finish"]
  /\ chat' = [s \in Send |-> IF chat[s] \in {"starting", "active"} THEN "lost"
                                                                 ELSE chat[s]]
  /\ requests' = {}
  /\ events' = [s \in Send |-> <<>>]
  /\ reader' = NoEvent
  /\ sidecar' = "none"
  /\ closed' = FALSE
  /\ closing' = {}
  /\ del' = [c \in Conversation |-> IF c \in stored THEN "idle" ELSE "done"]
  /\ unended' = {}
  /\ UNCHANGED <<stored, text, finAs, ctxDone, said, gaps, deaths, stalls, failures,
                 budget>>

-------------------------------------------------------------------------------
SendStep(s) == \/ SendCheck(s) \/ SendCreate(s) \/ SendRegister(s)
               \/ SendConflict(s) \/ SendGivesUp(s)
StopStep(s) == StopRun(s) \/ WriteCancel(s) \/ StopFinish(s)
FinishStep(s) == FinishWrite(s) \/ FinishUnregister(s)

Next == \/ \E s \in Send : \/ SendStep(s) \/ StartStep(s) \/ StopStep(s)
                           \/ FinishStep(s) \/ ChatStep(s) \/ ReaderStep(s)
                           \/ CloseFinish(s) \/ CloseNext(s)
        \/ \E c \in Conversation : DeleteCheck(c) \/ DeleteDispose(c) \/ DeleteRows(c)
        \/ SidecarDies \/ SidecarReaped \/ SidecarStalls \/ SidecarResumes
        \/ CloseBegin \/ CloseSidecar \/ Restart

Spec == Init /\ [][Next]_vars

\* The goroutines of the application run, and Stop does not wait longer than its
\* five seconds once its line is written.  Nothing makes the process read again.
HostFairness == /\ \A s \in Send : /\ WF_vars(FinishStep(s))
                                   /\ WF_vars(WriteCancel(s) \/ StopFinish(s))
                                   /\ WF_vars(SendRegister(s) \/ SendConflict(s))
                                   /\ WF_vars(CloseFinish(s) \/ CloseNext(s))
                /\ WF_vars(\E s \in Send : ReaderStep(s))
FairSpec == Spec /\ HostFairness

-------------------------------------------------------------------------------
(* Types of the variables, and at most one event in the hands of the reader.  *)
TypeOK ==
  /\ stored \subseteq Conversation
  /\ msg \in [Send -> MsgStatus]
  /\ text \in [Send -> 0 .. budget.text]
  /\ send \in [Send -> SendPc]
  /\ registered \subseteq Send
  /\ fin \in [Send -> {"no", "write", "unregister", "done"}]
  /\ finAs \in [Send -> {"none"} \cup Final]
  /\ ctxDone \subseteq Send
  /\ start \in [Send -> StartPc]
  /\ stop \in [Send -> StopPc]
  /\ requests \subseteq {"start", "cancel"} \X Send
  /\ chat \in [Send -> ChatState]
  /\ said \in [Send -> 0 .. budget.text]
  /\ events \in [Send -> Seq(Event)]
  /\ reader = NoEvent \/ reader \in Send \X (Event \cup {"finishing"})
  /\ sidecar \in Sidecar
  /\ closed \in BOOLEAN
  /\ closing \subseteq Send
  /\ del \in [Conversation -> {"idle", "checked", "disposed", "done"}]
  /\ unended \subseteq Send /\ gaps \subseteq Send
  /\ deaths \in 0 .. budget.deaths
  /\ stalls \in 0 .. budget.stalls
  /\ failures \in 0 .. budget.failures
  /\ restarts \in 0 .. budget.restarts
  /\ budget \in Budgets

(* No answer streams for nobody: while the application is up, a message in the *)
(* state "streaming" has a Send that will decide about it or a run that will   *)
(* finish it, whichever of Send, Stop, Close, the provider and a restart wins; *)
(* except one whose last status the database refused to take, which streams on *)
(* until the next start.                                                       *)
StreamingIsOwned ==
  \A s \in Send : msg[s] = "streaming" =>
    \/ send[s] \in {"created", "conflict"}
    \/ send[s] = "running" /\ fin[s] # "done" /\ s \in registered
    \/ s \in unended
    \/ AppDone

(* Nothing is left of a conversation that was deleted: no message survives it, *)
(* and none is added by a Send that had already read the conversation.         *)
DeletedIsGone ==
  \A s \in Send : ConversationOf[s] \notin stored => msg[s] \in {"none", "deleted"}

(* Two calls of Send that both saw an idle conversation and created their      *)
(* messages do not both run: a conversation has at most one run.               *)
OneRunPerConversation ==
  \A s, t \in registered : ConversationOf[s] = ConversationOf[t] => s = t

(* An answer that streams has its one run, and a run its conversation.         *)
RunsAreOwned == OneRunPerConversation /\ StreamingIsOwned

(* The transcript does not invent an end: a message is complete only if the    *)
(* chat completed, it then holds every piece of text the chat sent unless the  *)
(* run was stopped or closed or the database refused a piece, and it is        *)
(* interrupted only by Close or by a restart.                                  *)
Undisturbed(s) == stop[s] = "idle" /\ ~closed /\ restarts = 0
EndIsTruthful ==
  \A s \in Send :
    /\ msg[s] = "complete" => chat[s] = "completed"
    /\ msg[s] = "complete" /\ Undisturbed(s) /\ s \notin gaps => text[s] = said[s]
    /\ msg[s] = "interrupted" => closed \/ restarts > 0

(* Stop ends: the caller gets its run back once the run's end was written,     *)
(* though the sidecar is dead, never saw the chat or never answers.  What Stop *)
(* waits for without a limit is to write its line: it ends unless the process  *)
(* leaves its pipe full for ever.                                              *)
PipeDrains == []<>(sidecar # "full")
StopEnds ==
  PipeDrains =>
    \A s \in Send : (stop[s] = "cancelled") ~> (stop[s] = "finish" /\ fin[s] = "done")
===============================================================================
