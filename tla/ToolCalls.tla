------------------------------- MODULE ToolCalls -------------------------------
(***************************************************************************)
(* How a tool call of Claude gets from the SDK to the host and back, with  *)
(* several at a time: the rendezvous of claude/tools.ts, where the hook    *)
(* tells the id of a call and the handler runs it, in either order and     *)
(* without a common name but the input; and JsonlPeer, which puts it to the*)
(* host and gives each answer to who asked, until the chat is stopped or   *)
(* the process told to end.  A step is what runs between two events of the *)
(* loop: promises that settle in it run on in it.                          *)
(***************************************************************************)
EXTENDS Naturals, Sequences, FiniteSets, SequencesExt

CONSTANTS MaxCalls,  \* bound: tool calls
          Keys       \* callKey: name and input of a call

ASSUME ToolCallsAssumption == MaxCalls \in Nat /\ Keys # {}

Call == 1..MaxCalls

VARIABLES
  key,       \* key[c]: what call c is for; its tool-use id is c
  hooked,    \* calls the hook has announced
  ids,       \* idsByCall
  waiters,   \* waiters, with those that gave up
  handler,   \* handler[c]: where the handler of c is
  idOf,      \* idOf[c]: the id that the handler of c claimed, 0 if none
  stopped,   \* the signal of the chat
  closed,    \* JsonlPeer.closed
  disposing, \* SidecarServer: "no", "asked" or "disposed"
  pending,   \* JsonlPeer.pending, in the order of the requests: request |-> handler
  sent,      \* requests the host works on: request |-> id of the call
  replies,   \* answers the sidecar did not read: request |-> the call they are of
  told       \* the events of the chat

meeting  == <<key, hooked, ids, waiters>>
peer     == <<closed, disposing, pending, sent, replies>>
toolVars == <<meeting, handler, idOf, stopped, peer, told>>

ToolInit ==
  /\ key \in [Call -> Keys]
  /\ hooked = {}
  /\ ids = [k \in Keys |-> <<>>] /\ waiters = [k \in Keys |-> <<>>]
  /\ handler = [c \in Call |-> "none"]
  /\ idOf = [c \in Call |-> 0]
  /\ stopped = FALSE /\ closed = FALSE /\ disposing = "no"
  /\ pending = <<>> /\ sent = {} /\ replies = {}
  /\ told = <<>>

Started(id) == [kind |-> "tool_start", id |-> id, of |-> 0]
Result(id, of) == [kind |-> "tool_result", id |-> id, of |-> of]
Failed(id) == Result(id, 0)

\* JsonlPeer.write: nothing is written once the peer is closed.
Tells(events) == told' = IF closed THEN told ELSE told \o events

\* What is told when all requests are refused, in the order they were made.
Failures == [i \in DOMAIN pending |-> Failed(idOf[pending[i].handler])]

-------------------------------------------------------------------------------
(* The handler has its id: tool_start, then the request, which a closed peer *)
(* refuses.                                                                  *)
Runs(c, id) ==
  /\ idOf' = [idOf EXCEPT ![c] = id]
  /\ Tells(<<Started(id)>>)
  /\ \/ /\ ~closed
        /\ handler' = [handler EXCEPT ![c] = "asking"]
        /\ pending' = Append(pending, [request |-> c, handler |-> c])
        /\ sent' = sent \cup {[request |-> c, id |-> id]}
     \/ /\ closed
        /\ handler' = [handler EXCEPT ![c] = "done"]
        /\ UNCHANGED <<pending, sent>>

NobodyRuns == UNCHANGED <<handler, idOf, pending, sent, told>>

\* The id goes to the first that waits, though it may
\* have given up, or is kept.
Announce(c) ==
  LET k == key[c] IN
  /\ \/ /\ waiters[k] # <<>>
        /\ waiters' = [waiters EXCEPT ![k] = Tail(@)]
        /\ LET w == Head(waiters[k]) IN
           \/ handler[w] = "claiming" /\ Runs(w, c)
           \/ handler[w] # "claiming" /\ NobodyRuns
        /\ UNCHANGED ids
     \/ /\ waiters[k] = <<>>
        /\ ids' = [ids EXCEPT ![k] = Append(@, c)]
        /\ NobodyRuns /\ UNCHANGED waiters

\* The hook, for a tool that is one of the host's.
Hook(c) ==
  /\ c \notin hooked
  /\ hooked' = hooked \cup {c}
  /\ Announce(c)
  /\ UNCHANGED <<key, stopped, closed, disposing, replies>>

\* The handler of a tool, to its first wait: claim.
Handle(c) ==
  LET k == key[c] IN
  /\ handler[c] = "none"
  /\ \/ /\ stopped
        /\ handler' = [handler EXCEPT ![c] = "refused"]
        /\ UNCHANGED <<ids, waiters, idOf, pending, sent, told>>
     \/ /\ ~stopped /\ ids[k] # <<>>
        /\ ids' = [ids EXCEPT ![k] = Tail(@)]
        /\ Runs(c, Head(ids[k]))
        /\ UNCHANGED waiters
     \/ /\ ~stopped /\ ids[k] = <<>>
        /\ waiters' = [waiters EXCEPT ![k] = Append(@, c)]
        /\ handler' = [handler EXCEPT ![c] = "claiming"]
        /\ UNCHANGED <<ids, idOf, pending, sent, told>>
  /\ UNCHANGED <<key, hooked, stopped, closed, disposing, replies>>

\* Ten seconds without an id.
ClaimTimesOut(c) ==
  /\ handler[c] = "claiming"
  /\ handler' = [handler EXCEPT ![c] = "refused"]
  /\ UNCHANGED <<meeting, idOf, stopped, peer, told>>

-------------------------------------------------------------------------------
(* The host                                                                  *)

\* The tools run on goroutines: answers come in any order, also when nobody
\* waits for them any more.
HostAnswers ==
  /\ \E s \in sent : /\ sent' = sent \ {s}
                     /\ replies' = replies \cup {[request |-> s.request, of |-> s.id]}
  /\ UNCHANGED <<meeting, handler, idOf, stopped, closed, disposing, pending, told>>

AnyPending(reply) == DOMAIN pending                                      \* mutant
Asked(reply) == {i \in DOMAIN pending : pending[i].request = reply.request}

\* handleLine, for an answer.
HandleLine ==
  /\ ~closed
  /\ \E reply \in replies :
       /\ replies' = replies \ {reply}
       /\ \/ \E i \in Asked(reply) :
               /\ pending' = RemoveAt(pending, i)
               /\ handler' = [handler EXCEPT ![pending[i].handler] = "done"]
               /\ Tells(<<Result(idOf[pending[i].handler], reply.of)>>)
          \/ Asked(reply) = {} /\ UNCHANGED <<pending, handler, told>>
  /\ UNCHANGED <<meeting, idOf, stopped, closed, disposing, sent>>

-------------------------------------------------------------------------------
(* The ends                                                                  *)

\* The signal fires once: what waits for an id or an answer is refused.
Aborts ==
  /\ stopped' = TRUE
  /\ handler' = [c \in Call |-> IF handler[c] = "claiming" THEN "refused"
                                ELSE IF handler[c] = "asking" THEN "done" ELSE handler[c]]
  /\ pending' = <<>>
  /\ Tells(Failures)
  /\ UNCHANGED <<meeting, idOf, closed, sent, replies>>

StopChat == ~stopped /\ Aborts /\ UNCHANGED disposing

\* The host asks the process to end, and is answered before it does.
Shutdown ==
  /\ ~closed /\ disposing = "no"
  /\ disposing' = "asked"
  /\ UNCHANGED <<meeting, handler, idOf, stopped, closed, pending, sent, replies, told>>

Dispose ==
  /\ disposing = "asked"
  /\ disposing' = "disposed"
  /\ \/ ~stopped /\ Aborts
     \/ stopped /\ UNCHANGED <<meeting, handler, idOf, stopped, closed, pending, sent, replies,
                               told>>

RefusesAll ==
  /\ closed' = TRUE
  /\ pending' = <<>>
  /\ handler' = [c \in Call |-> IF handler[c] = "asking" THEN "done" ELSE handler[c]]

\* The input ended or broke, or the providers are disposed of: close.  What it
\* refuses is told to nobody.
Close ==
  /\ ~closed
  /\ RefusesAll
  /\ UNCHANGED <<meeting, idOf, stopped, disposing, sent, replies, told>>

ToolNext ==
  \/ \E c \in Call : Hook(c) \/ Handle(c) \/ ClaimTimesOut(c)
  \/ HostAnswers \/ HandleLine \/ StopChat \/ Shutdown \/ Dispose \/ Close

ToolSpec == ToolInit /\ [][ToolNext]_toolVars

\* The ten seconds pass.  The host need not answer, nor anybody stop a chat.
ToolFairness == \A c \in Call : WF_toolVars(ClaimTimesOut(c))

-------------------------------------------------------------------------------
(* Each id is used once, for a call with its input: the host sees no id twice *)
(* and the chat no second tool_start of it (announce and claim).              *)
IdsAreUnique ==
  \A c, d \in Call : idOf[c] # 0 => /\ key[idOf[c]] = key[c]
                                    /\ c # d => idOf[d] # idOf[c]

(* Nobody waits for an id that is there, in whatever order hook and handler   *)
(* came (announce and claim).                                                 *)
NoneWaitsInVain == \A c \in Call : handler[c] = "claiming" => ids[key[c]] = <<>>

(* What the chat is told a call returned is what the host answered to that    *)
(* call, in whatever order calls were answered and whoever gave up meanwhile; *)
(* it is told once, after the start.  (handleLine, request and its abort)     *)
ResultsAreTheirOwn ==
  \A i \in DOMAIN told : told[i].kind = "tool_result" =>
    /\ told[i].of \in {0, told[i].id}
    /\ \E j \in 1..(i - 1) : told[j] = Started(told[i].id)
    /\ \A j \in 1..(i - 1) : told[j].kind = "tool_result" => told[j].id # told[i].id

ToolsAgree == IdsAreUnique /\ NoneWaitsInVain /\ ResultsAreTheirOwn

(* Once the chat is stopped or the host gone, no call waits (abort and close).*)
CallsEnd == stopped \/ closed ~> \A c \in Call : handler[c] \notin {"claiming", "asking"}
===============================================================================
