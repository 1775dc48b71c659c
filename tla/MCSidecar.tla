------------------------------- MODULE MCSidecar -------------------------------
(***************************************************************************)
(* Sidecar and ToolCalls for TLC: two turns of a conversation, with a text *)
(* or a tool call, or with a logout before anything is cancelled or the end*)
(* of the session, after which the host starts and cancels none; or three  *)
(* tool calls of one chat.  Sidecar sees a tool call as one exchange with  *)
(* the host; ToolCalls is what is between.                                 *)
(***************************************************************************)
EXTENDS Sidecar, ToolCalls

VARIABLE part  \* "chats" or "tools"

MCInit == /\ Init /\ ToolInit
          /\ part \in {"chats", "tools"}
          /\ part = "tools" => provider = "claude" /\ key[1] = CHOOSE k \in Keys : TRUE
          /\ part = "chats" => key = [c \in Call |-> CHOOSE k \in Keys : TRUE]

MCNext == \/ /\ part = "chats" /\ Next /\ UNCHANGED <<toolVars, part>>
             /\ leaving'.what # "no" => items' = 0
             /\ leaving.what = "no" /\ leaving'.what = "logout" =>
                  \A k \in Chat : cancel[k] = "none"
             /\ leaving.what # "no" =>
                  \A k \in Chat : /\ cancel[k] = "none" => cancel'[k] = "none"
                                  /\ start[k] = "none" => start'[k] = "none"
          \/ part = "tools" /\ ToolNext /\ UNCHANGED <<vars, part>>

MCSpec == /\ MCInit /\ [][MCNext]_<<vars, toolVars, part>>
          /\ ChatFairness /\ ToolFairness

\* A chat that is cancelled ends (CancelEnds), and so do the tool calls of a chat
\* that is cancelled or whose host is gone (CallsEnd).
ChatsEnd == CancelEnds /\ CallsEnd
===============================================================================
