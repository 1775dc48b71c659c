------------------------------- MODULE Approvals -------------------------------
(***************************************************************************)
(* The approvals a preview of data waits for: ApprovalManager of           *)
(* internal/ai/approvals.go and its one requester, Tools.preview.          *)
(*                                                                         *)
(* A request r is one call of Request, with an identifier of its own; its  *)
(* scope is the conversation ConversationOf[r], for a conversation belongs *)
(* to one project and preview_query is the only tool that asks.  An answer *)
(* a is one call of Respond.  A step is one critical section of the        *)
(* manager's mutex or one operation on a decision channel, which holds one *)
(* decision: Respond, ClearConversation and CancelAll pick the channels    *)
(* under the lock and send after they release it.                          *)
(***************************************************************************)
EXTENDS Naturals, FiniteSets

CONSTANTS Request, Conversation, ConversationOf, Answer

ASSUME ApprovalsAssumption == /\ Request # {}
                              /\ ConversationOf \in [Request -> Conversation]

VARIABLES
  pc,       \* pc[r]: where the call of Request for r is
  result,   \* result[r]: what that call returns
  chan,     \* chan[r]: the decision in the channel of r, or "empty"
  pending,  \* requests in the pending map
  granted,  \* conversations with a grant
  expired,  \* requests whose context is done: timeout, Stop or Close
  denials,  \* requests a host call is about to send a denial to
  call,     \* call[a]: the call of Respond a
  first,    \* first[r]: the first decision that entered the channel of r
  fresh     \* fresh[c]: answers that granted c since c was last cleared

vars == <<pc, result, chan, pending, granted, expired, denials, call, first, fresh>>

-------------------------------------------------------------------------------
Decision == {"allow_once", "allow_conversation", "deny"}
Pc == {"none", "registered", "waiting", "leaving", "returned"}
Result == {"none", "granted", "allowed", "denied", "expired"}
Call == [pc : {"idle", "found", "returned"}, req : Request, decision : Decision,
         error : {"none", "notFound", "answered"}]

Idle == [pc |-> "idle", req |-> CHOOSE r \in Request : TRUE,
         decision |-> "deny", error |-> "none"]

Scope(c) == {r \in Request : ConversationOf[r] = c}

Init == /\ pc = [r \in Request |-> "none"]
        /\ result = [r \in Request |-> "none"]
        /\ chan = [r \in Request |-> "empty"]
        /\ pending = {}
        /\ granted = {}
        /\ expired = {}
        /\ denials = {}
        /\ call = [a \in Answer |-> Idle]
        /\ first = [r \in Request |-> "none"]
        /\ fresh = [c \in Conversation |-> {}]

\* Request, under the lock: a granted scope answers for the user.
Granted(r) == ConversationOf[r] \in granted

UseGrant(r) == /\ pc[r] = "none"
               /\ Granted(r)
               /\ pc' = [pc EXCEPT ![r] = "returned"]
               /\ result' = [result EXCEPT ![r] = "granted"]
               /\ UNCHANGED <<chan, pending, granted, expired, denials, call, first, fresh>>

Register(r) == /\ pc[r] = "none"
               /\ ~Granted(r)
               /\ pc' = [pc EXCEPT ![r] = "registered"]
               /\ pending' = pending \cup {r}
               /\ UNCHANGED <<result, chan, granted, expired, denials, call, first, fresh>>

\* emit: from here on the user sees the request and may answer it.
EmitRequest(r) == /\ pc[r] = "registered"
                  /\ pc' = [pc EXCEPT ![r] = "waiting"]
                  /\ UNCHANGED <<result, chan, pending, granted, expired, denials,
                                 call, first, fresh>>

\* The context of preview ends: approvalTimeout, or the run is stopped.
Expire(r) == /\ pc[r] \in {"registered", "waiting"}
             /\ r \notin expired
             /\ expired' = expired \cup {r}
             /\ UNCHANGED <<pc, result, chan, pending, granted, denials, call,
                            first, fresh>>

Leave(r, how) == /\ pc[r] = "waiting"
                 /\ pc' = [pc EXCEPT ![r] = "leaving"]
                 /\ result' = [result EXCEPT ![r] = how]

\* The select of Request: whichever of the two is ready.
TakeExpiry(r) == /\ r \in expired
                 /\ Leave(r, "expired")
                 /\ UNCHANGED <<chan, pending, granted, expired, denials, call,
                                first, fresh>>

Meaning(d) == IF d = "deny" THEN "denied" ELSE "allowed"

TakeDecision(r) == /\ chan[r] # "empty"
                   /\ Leave(r, Meaning(chan[r]))
                   /\ chan' = [chan EXCEPT ![r] = "empty"]
                   /\ UNCHANGED <<pending, granted, expired, denials, call, first,
                                  fresh>>

\* The deferred delete of Request.
Return(r) == /\ pc[r] = "leaving"
             /\ pc' = [pc EXCEPT ![r] = "returned"]
             /\ pending' = pending \ {r}
             /\ UNCHANGED <<result, chan, granted, expired, denials, call, first,
                            fresh>>

-------------------------------------------------------------------------------
Shown(r) == /\ pc[r] \in {"waiting", "leaving", "returned"}
            /\ result[r] # "granted"

\* Respond, under the lock: the request is looked up and, for
\* allow_conversation, its scope is granted at once.
Looked(a, r, d, p, e) ==
  call' = [call EXCEPT ![a] = [pc |-> p, req |-> r, decision |-> d, error |-> e]]

GrantScope(a, r, d) ==
  IF d = "allow_conversation"
    THEN /\ granted' = granted \cup {ConversationOf[r]}
         /\ fresh' = [fresh EXCEPT ![ConversationOf[r]] = @ \cup {a}]
    ELSE UNCHANGED <<granted, fresh>>

Respond(a, r, d) == /\ call[a].pc = "idle"
                    /\ Shown(r)
                    /\ r \in pending
                    /\ Looked(a, r, d, "found", "none")
                    /\ GrantScope(a, r, d)
                    /\ UNCHANGED <<pc, result, chan, pending, expired, denials, first>>

RespondNotFound(a, r, d) ==
  /\ call[a].pc = "idle"
  /\ Shown(r)
  /\ r \notin pending
  /\ Looked(a, r, d, "returned", "notFound")
  /\ UNCHANGED <<pc, result, chan, pending, granted, expired, denials, first, fresh>>

\* A send that does not wait: a channel that already holds a decision keeps it.
Overwrite(r, d) == /\ chan' = [chan EXCEPT ![r] = d]                    \* mutant
                   /\ first' = [first EXCEPT ![r] = IF @ = "none" THEN d ELSE @]
TrySend(r, d) ==
  IF chan[r] = "empty"
    THEN /\ chan' = [chan EXCEPT ![r] = d]
         /\ first' = [first EXCEPT ![r] = IF @ = "none" THEN d ELSE @]
    ELSE UNCHANGED <<chan, first>>

\* Respond, after the lock: the send, or "already answered".
Deliver(a) ==
  LET r == call[a].req
      error == IF chan[r] = "empty" THEN "none" ELSE "answered"
  IN  /\ call[a].pc = "found"
      /\ TrySend(r, call[a].decision)
      /\ Looked(a, r, call[a].decision, "returned", error)
      /\ UNCHANGED <<pc, result, pending, granted, expired, denials, fresh>>

\* ClearConversation, called when a conversation was deleted.
KeepGrant(c) == {}                                                      \* mutant
ClearedScopes(c) == {c}

ClearConversation(c) ==
  /\ granted' = granted \ ClearedScopes(c)
  /\ denials' = denials \cup (pending \cap Scope(c))
  /\ fresh' = [fresh EXCEPT ![c] = {}]
  /\ UNCHANGED <<pc, result, chan, pending, expired, call, first>>

\* CancelAll, called by Service.Close.
CancelAll == /\ pending' = {}
             /\ granted' = {}
             /\ denials' = denials \cup pending
             /\ fresh' = [c \in Conversation |-> {}]
             /\ UNCHANGED <<pc, result, chan, expired, call, first>>

\* The denials both send once the lock is free.
DenialLost(r) == /\ r \in denials                                       \* mutant
                 /\ denials' = denials \ {r}
                 /\ UNCHANGED <<pc, result, chan, pending, granted, expired,
                                call, first, fresh>>
SendDenial(r) == /\ r \in denials
                 /\ denials' = denials \ {r}
                 /\ TrySend(r, "deny")
                 /\ UNCHANGED <<pc, result, pending, granted, expired, call, fresh>>

-------------------------------------------------------------------------------
RequestStep(r) == UseGrant(r) \/ Register(r) \/ EmitRequest(r) \/ TakeExpiry(r)
                  \/ TakeDecision(r) \/ Return(r)

Next == \/ \E r \in Request : RequestStep(r) \/ Expire(r) \/ SendDenial(r)
        \/ \E a \in Answer, r \in Request, d \in Decision :
              Respond(a, r, d) \/ RespondNotFound(a, r, d)
        \/ \E a \in Answer : Deliver(a)
        \/ \E c \in Conversation : ClearConversation(c)
        \/ CancelAll

Spec == Init /\ [][Next]_vars

\* Goroutines that can run do run.  Nobody has to answer, to delete a conversation
\* or to close the application, and no timer has to fire.
Running == /\ \A r \in Request : /\ WF_vars(EmitRequest(r))
                                 /\ WF_vars(TakeExpiry(r) \/ TakeDecision(r))
                                 /\ WF_vars(Return(r))
                                 /\ WF_vars(SendDenial(r))
           /\ \A a \in Answer : WF_vars(Deliver(a))

FairSpec == Spec /\ Running

-------------------------------------------------------------------------------
(* Types of the variables.  Every pc, result and decision is one the code    *)
(* has, and only requests that were registered are pending.                  *)
TypeOK == /\ pc \in [Request -> Pc]
          /\ result \in [Request -> Result]
          /\ chan \in [Request -> Decision \cup {"empty"}]
          /\ pending \subseteq Request
          /\ granted \subseteq Conversation
          /\ expired \subseteq Request
          /\ denials \subseteq Request
          /\ call \in [Answer -> Call]
          /\ first \in [Request -> Decision \cup {"none"}]
          /\ fresh \in [Conversation -> SUBSET Answer]

Allows(d) == d \in {"allow_once", "allow_conversation"}

(* No preview runs unless the user allowed it: a request that is allowed was *)
(* answered with a permission, and one that used a grant belongs to a        *)
(* conversation the user granted as a whole, on a request of that same       *)
(* conversation (docs/security-model.md: "A query preview requires a         *)
(* separate approval").  A timeout or a denial by the host never allows.     *)
AllowedByUser ==
  \A r \in Request :
    /\ result[r] = "allowed" =>
         \E a \in Answer : /\ call[a].pc = "returned"
                           /\ call[a].req = r
                           /\ call[a].error = "none"
                           /\ Allows(call[a].decision)
    /\ result[r] = "granted" =>
         \E a \in Answer : /\ call[a].pc # "idle"
                           /\ call[a].error # "notFound"
                           /\ call[a].decision = "allow_conversation"
                           /\ ConversationOf[call[a].req] = ConversationOf[r]

(* The first decision sent for a request is the one it obeys, whoever sent    *)
(* it and however many follow: a denial by the user, by ClearConversation or  *)
(* by CancelAll that was first is never overruled by a later permission.      *)
FirstDecisionStands ==
  \A r \in Request : result[r] \in {"allowed", "denied"} =>
                       /\ first[r] # "none"
                       /\ result[r] = Meaning(first[r])

(* A grant rests on an answer given after the conversation was last cleared:  *)
(* neither an answer that was looked up before ClearConversation or CancelAll *)
(* nor one that is still being delivered brings a revoked grant back.         *)
GrantIsFresh == \A c \in granted : fresh[c] # {}

(* What lets a preview run is the consent of the user, for this request or    *)
(* for its conversation, and a consent still in force.                        *)
PreviewIsConsented == AllowedByUser /\ GrantIsFresh

(* The pending map does not leak: a call of Request that has returned left    *)
(* no entry behind, whatever map CancelAll put in place meanwhile.            *)
NoEntryLeaks == \A r \in Request : pc[r] \in {"none", "returned"} => r \notin pending

(* A denied request returns without waiting for its timeout: once             *)
(* ClearConversation or CancelAll has picked it, its caller is released.      *)
DenialReleases == \A r \in Request : (r \in denials) ~> (pc[r] = "returned")

===============================================================================
