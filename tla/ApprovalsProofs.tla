---------------------------- MODULE ApprovalsProofs ----------------------------
(***************************************************************************)
(* Proofs of the safety properties of Approvals, for every set of          *)
(* requests, conversations and answers.                                    *)
(*                                                                         *)
(* What a request returns was decided steps earlier, by a decision that    *)
(* went through its channel or by a grant another request obtained.  The   *)
(* invariant therefore follows the decision: what is in a channel nobody   *)
(* read is the first decision sent (ChannelHoldsFirst), a first decision   *)
(* that allows came from an answer that was acknowledged (FirstHasAuthor)  *)
(* and a grant has such an author too (GrantHasAuthor).                    *)
(*                                                                         *)
(* The second part proves AIPanel, the panel in which the requests are     *)
(* answered: what it shows of an answer, what it holds busy and the        *)
(* consent it sends, for any number of conversations, runs and pieces.     *)
(***************************************************************************)
EXTENDS Approvals, AIPanel, TLAPS

Permits(a, r) == /\ call[a].pc = "returned"
                 /\ call[a].req = r
                 /\ call[a].error = "none"
                 /\ Allows(call[a].decision)

Grants(a, c) == /\ call[a].pc # "idle"
                /\ call[a].error # "notFound"
                /\ call[a].decision = "allow_conversation"
                /\ ConversationOf[call[a].req] = c

FoundIsClean == \A a \in Answer : call[a].pc = "found" => call[a].error = "none"

ResultWhenLeft == \A r \in Request :
                    result[r] = "none" <=> pc[r] \in {"none", "registered", "waiting"}

ChannelHoldsFirst == \A r \in Request :
                       result[r] = "none" => \/ chan[r] = "empty" /\ first[r] = "none"
                                             \/ chan[r] # "empty" /\ first[r] = chan[r]

FirstHasAuthor == \A r \in Request :
                    Allows(first[r]) => \E a \in Answer : Permits(a, r)

GrantHasAuthor == /\ \A c \in Conversation : \A a \in fresh[c] : Grants(a, c)
                  /\ \A r \in Request :
                       result[r] = "granted" =>
                         \E a \in Answer : Grants(a, ConversationOf[r])

IInv == /\ TypeOK
        /\ NoEntryLeaks
        /\ FoundIsClean
        /\ ResultWhenLeft
        /\ ChannelHoldsFirst
        /\ FirstDecisionStands
        /\ FirstHasAuthor
        /\ GrantIsFresh
        /\ GrantHasAuthor

-------------------------------------------------------------------------------
\* Before the first request nothing is pending, granted or answered.
LEMMA InitInv == Init => IInv
<1> SUFFICES ASSUME Init PROVE IInv
  OBVIOUS
<1> USE DEF Init
<1>1. TypeOK
  BY ApprovalsAssumption DEF TypeOK, Pc, Result, Decision, Idle, Call
<1>2. NoEntryLeaks /\ ResultWhenLeft /\ ChannelHoldsFirst
  BY DEF NoEntryLeaks, ResultWhenLeft, ChannelHoldsFirst
<1>3. FoundIsClean /\ FirstDecisionStands
  BY DEF FoundIsClean, FirstDecisionStands, Idle
<1>4. FirstHasAuthor /\ GrantIsFresh /\ GrantHasAuthor
  BY DEF FirstHasAuthor, GrantIsFresh, GrantHasAuthor, Allows
<1> QED
  BY <1>1, <1>2, <1>3, <1>4 DEF IInv

\* The channel of a request takes a decision without waiting, and once.
LEMMA TrySendStep ==
  ASSUME NEW r \in Request, NEW d \in Decision, TypeOK, ChannelHoldsFirst,
         FirstDecisionStands, TrySend(r, d), UNCHANGED <<pc, result>>
  PROVE  /\ chan' \in [Request -> Decision \cup {"empty"}]
         /\ first' \in [Request -> Decision \cup {"none"}]
         /\ ChannelHoldsFirst'
         /\ FirstDecisionStands'
<1>1. CASE chan[r] = "empty"
  <2> USE <1>1 DEF TrySend, TypeOK, Decision
  <2>1. /\ chan' \in [Request -> Decision \cup {"empty"}]
        /\ first' \in [Request -> Decision \cup {"none"}]
    OBVIOUS
  <2>2. ChannelHoldsFirst'
    BY DEF ChannelHoldsFirst
  <2>3. FirstDecisionStands'
    BY DEF FirstDecisionStands, Meaning
  <2> QED
    BY <2>1, <2>2, <2>3
<1>2. CASE chan[r] # "empty"
  <2>1. UNCHANGED <<chan, first>>
    BY <1>2 DEF TrySend
  <2> QED
    BY <2>1 DEF TypeOK, ChannelHoldsFirst, FirstDecisionStands, Meaning
<1> QED
  BY <1>1, <1>2

\* Answers are not taken back: whoever permitted a request, or granted a
\* conversation, still has done so after every step of an answer.
LEMMA AuthorsStay ==
  ASSUME NEW b \in Answer, NEW r \in Request, NEW d \in Decision,
         NEW p \in {"found", "returned"}, NEW e \in {"none", "notFound", "answered"},
         TypeOK, Looked(b, r, d, p, e),
         \/ call[b].pc = "idle"
         \/ /\ call[b].pc = "found"
            /\ call[b].req = r
            /\ call[b].decision = d
            /\ e # "notFound"
  PROVE  /\ call' \in [Answer -> Call]
         /\ \A a \in Answer, q \in Request : Permits(a, q) => Permits(a, q)'
         /\ \A a \in Answer, c \in Conversation : Grants(a, c) => Grants(a, c)'
<1> USE DEF TypeOK, Looked
<1>1. call' \in [Answer -> Call]
  BY DEF Call
<1>2. \A a \in Answer : a # b => call'[a] = call[a]
  OBVIOUS
<1>3. call'[b] = [pc |-> p, req |-> r, decision |-> d, error |-> e]
  OBVIOUS
<1>4. ASSUME NEW a \in Answer, NEW q \in Request, Permits(a, q)
      PROVE  Permits(a, q)'
  BY <1>2, <1>3, <1>4 DEF Permits
<1>5. ASSUME NEW a \in Answer, NEW c \in Conversation, Grants(a, c)
      PROVE  Grants(a, c)'
  BY <1>2, <1>3, <1>5 DEF Grants
<1> QED
  BY <1>1, <1>4, <1>5

-------------------------------------------------------------------------------
\* No step of a goroutine that waits for a decision breaks the invariant.
LEMMA RequestInv ==
  ASSUME IInv, NEW r \in Request, RequestStep(r) \/ Expire(r)
  PROVE  IInv'
<1> USE DEF IInv, TypeOK
<1>1. CASE UseGrant(r)
  <2> USE <1>1 DEF UseGrant
  <2>1. TypeOK'
    BY DEF Pc, Result
  <2>2. NoEntryLeaks' /\ ResultWhenLeft' /\ ChannelHoldsFirst'
    BY DEF NoEntryLeaks, ResultWhenLeft, ChannelHoldsFirst
  <2>3. FoundIsClean' /\ FirstDecisionStands' /\ GrantIsFresh'
    BY DEF FoundIsClean, FirstDecisionStands, Meaning, GrantIsFresh
  <2>4. FirstHasAuthor'
    BY DEF FirstHasAuthor, Permits
  <2>5. PICK a \in fresh[ConversationOf[r]] : Grants(a, ConversationOf[r])
    BY ApprovalsAssumption DEF Granted, GrantIsFresh, GrantHasAuthor
  <2>6. GrantHasAuthor'
    <3>1. \A b \in Answer, c \in Conversation : Grants(b, c)' <=> Grants(b, c)
      BY DEF Grants
    <3>2. \A c \in Conversation : \A b \in fresh'[c] : Grants(b, c)'
      BY <3>1 DEF GrantHasAuthor
    <3>3. \A q \in Request : q # r => result'[q] = result[q]
      OBVIOUS
    <3>4. a \in Answer /\ Grants(a, ConversationOf[r])'
      BY <2>5, <3>1, ApprovalsAssumption
    <3> QED
      BY <3>1, <3>2, <3>3, <3>4, ApprovalsAssumption DEF GrantHasAuthor
  <2> QED
    BY <2>1, <2>2, <2>3, <2>4, <2>6
<1>2. CASE Register(r) \/ EmitRequest(r) \/ Expire(r)
  <2> USE <1>2 DEF Register, EmitRequest, Expire
  <2>1. TypeOK'
    BY DEF Pc
  <2>2. NoEntryLeaks' /\ ResultWhenLeft'
    BY DEF NoEntryLeaks, ResultWhenLeft
  <2>3. ChannelHoldsFirst' /\ FoundIsClean'
    BY DEF ChannelHoldsFirst, FoundIsClean
  <2>4. FirstDecisionStands' /\ GrantIsFresh'
    BY DEF FirstDecisionStands, Meaning, GrantIsFresh
  <2>5. FirstHasAuthor' /\ GrantHasAuthor'
    BY DEF FirstHasAuthor, Permits, GrantHasAuthor, Grants
  <2> QED
    BY <2>1, <2>2, <2>3, <2>4, <2>5
<1>3. CASE TakeExpiry(r) \/ TakeDecision(r) \/ Return(r)
  <2> USE <1>3 DEF TakeExpiry, TakeDecision, Leave, Return, Meaning
  <2>1. TypeOK'
    BY DEF Pc, Result
  <2>2. NoEntryLeaks' /\ ResultWhenLeft'
    BY DEF NoEntryLeaks, ResultWhenLeft
  <2>3. ChannelHoldsFirst' /\ FoundIsClean'
    BY DEF ChannelHoldsFirst, ResultWhenLeft, FoundIsClean
  <2>4. FirstDecisionStands'
    <3>1. CASE TakeDecision(r)
      <4>1. chan[r] # "empty" /\ first[r] = chan[r]
        BY <3>1 DEF ChannelHoldsFirst, ResultWhenLeft
      <4>2. first[r] # "none"
        BY <4>1 DEF Decision
      <4>3. result' = [result EXCEPT ![r] = Meaning(first[r])] /\ first' = first
        BY <3>1, <4>1
      <4> QED
        BY <4>2, <4>3 DEF FirstDecisionStands
    <3>2. CASE TakeExpiry(r) \/ Return(r)
      BY <3>2 DEF FirstDecisionStands
    <3> QED
      BY <3>1, <3>2
  <2>5. GrantIsFresh'
    BY DEF GrantIsFresh
  <2>6. FirstHasAuthor' /\ GrantHasAuthor'
    BY DEF FirstHasAuthor, Permits, GrantHasAuthor, Grants
  <2> QED
    BY <2>1, <2>2, <2>3, <2>4, <2>5, <2>6
<1> QED
  BY <1>1, <1>2, <1>3 DEF RequestStep

\* Looking up a request, and granting its conversation, keeps the invariant.
LEMMA RespondInv ==
  ASSUME IInv, NEW a \in Answer, NEW r \in Request, NEW d \in Decision,
         Respond(a, r, d) \/ RespondNotFound(a, r, d)
  PROVE  IInv'
<1> DEFINE c == ConversationOf[r]
<1> USE DEF IInv
<1>1. /\ call' \in [Answer -> Call]
      /\ \A b \in Answer, q \in Request : Permits(b, q) => Permits(b, q)'
      /\ \A b \in Answer, k \in Conversation : Grants(b, k) => Grants(b, k)'
  BY AuthorsStay DEF Respond, RespondNotFound
<1>2. UNCHANGED <<pc, result, chan, pending, expired, denials, first>>
  BY DEF Respond, RespondNotFound
<1>3. FoundIsClean' /\ FirstDecisionStands' /\ FirstHasAuthor'
  <2>1. FoundIsClean'
    BY <1>1 DEF FoundIsClean, Respond, RespondNotFound, Looked, TypeOK
  <2>2. FirstDecisionStands' /\ FirstHasAuthor'
    BY <1>1, <1>2 DEF FirstDecisionStands, FirstHasAuthor
  <2> QED
    BY <2>1, <2>2
<1>4. NoEntryLeaks' /\ ResultWhenLeft' /\ ChannelHoldsFirst'
  BY <1>2 DEF NoEntryLeaks, ResultWhenLeft, ChannelHoldsFirst
<1>5. CASE UNCHANGED <<granted, fresh>>
  <2>1. TypeOK' /\ GrantIsFresh'
    BY <1>1, <1>2, <1>5 DEF TypeOK, GrantIsFresh
  <2>2. GrantHasAuthor'
    BY <1>1, <1>2, <1>5, ApprovalsAssumption DEF GrantHasAuthor, TypeOK
  <2> QED
    BY <1>3, <1>4, <2>1, <2>2
<1>6. CASE /\ d = "allow_conversation"
           /\ Respond(a, r, d)
           /\ granted' = granted \cup {c}
           /\ fresh' = [fresh EXCEPT ![c] = @ \cup {a}]
  <2>1. c \in Conversation
    BY ApprovalsAssumption
  <2>2. Grants(a, c)'
    BY <1>6 DEF Respond, Looked, Grants, TypeOK
  <2>3. TypeOK' /\ GrantIsFresh'
    BY <1>1, <1>2, <1>6, <2>1 DEF TypeOK, GrantIsFresh
  <2>4. \A k \in Conversation : \A b \in fresh'[k] : Grants(b, k)'
    BY <1>1, <1>6, <2>1, <2>2 DEF TypeOK, GrantHasAuthor
  <2>5. GrantHasAuthor'
    BY <1>1, <1>2, <2>4, ApprovalsAssumption DEF GrantHasAuthor
  <2> QED
    BY <1>3, <1>4, <2>3, <2>5
<1> QED
  BY <1>5, <1>6 DEF Respond, RespondNotFound, GrantScope

\* Sending the decision keeps it: an answer that is acknowledged is the author of
\* a first decision.
LEMMA DeliverInv ==
  ASSUME IInv, NEW a \in Answer, Deliver(a)
  PROVE  IInv'
<1> USE DEF IInv
<1>1. PICK r \in Request, d \in Decision, e \in {"none", "answered"} :
         /\ call[a].req = r
         /\ call[a].decision = d
         /\ e = IF chan[r] = "empty" THEN "none" ELSE "answered"
  BY DEF TypeOK, Call
<1>2. /\ call[a].pc = "found"
      /\ TrySend(r, d)
      /\ Looked(a, r, d, "returned", e)
      /\ UNCHANGED <<pc, result, pending, granted, expired, denials, fresh>>
  BY <1>1 DEF Deliver
<1>3. /\ call' \in [Answer -> Call]
      /\ \A b \in Answer, q \in Request : Permits(b, q) => Permits(b, q)'
      /\ \A b \in Answer, k \in Conversation : Grants(b, k) => Grants(b, k)'
  BY <1>1, <1>2, AuthorsStay, Zenon
<1>4. /\ chan' \in [Request -> Decision \cup {"empty"}]
      /\ first' \in [Request -> Decision \cup {"none"}]
      /\ ChannelHoldsFirst'
      /\ FirstDecisionStands'
  BY <1>2, TrySendStep
<1>5. TypeOK' /\ NoEntryLeaks' /\ ResultWhenLeft' /\ GrantIsFresh'
  BY <1>2, <1>3, <1>4 DEF TypeOK, NoEntryLeaks, ResultWhenLeft, GrantIsFresh
<1>6. FoundIsClean'
  BY <1>2 DEF FoundIsClean, Looked, TypeOK
<1>7. GrantHasAuthor'
  BY <1>2, <1>3, ApprovalsAssumption DEF GrantHasAuthor, TypeOK
<1>8. FirstHasAuthor'
  <2>1. CASE chan[r] = "empty"
    <3>1. e = "none"
      BY <1>1, <2>1
    <3>2. call'[a] = [pc |-> "returned", req |-> r, decision |-> d, error |-> "none"]
      BY <1>2, <3>1 DEF Looked, TypeOK
    <3>3. Allows(d) => Permits(a, r)'
      BY <3>2 DEF Permits
    <3>4. \A q \in Request : first'[q] = first[q] \/ (q = r /\ first'[q] = d)
      BY <1>2, <2>1 DEF TrySend, TypeOK
    <3> QED
      BY <1>3, <3>3, <3>4 DEF FirstHasAuthor
  <2>2. CASE chan[r] # "empty"
    BY <1>2, <1>3, <2>2 DEF TrySend, FirstHasAuthor
  <2> QED
    BY <2>1, <2>2
<1> QED
  BY <1>4, <1>5, <1>6, <1>7, <1>8

\* Revoking grants and denying what is pending keeps the invariant.
LEMMA HostInv ==
  ASSUME IInv,
         \/ \E r \in Request : SendDenial(r)
         \/ \E c \in Conversation : ClearConversation(c)
         \/ CancelAll
  PROVE  IInv'
<1> USE DEF IInv
<1>1. ASSUME NEW r \in Request, SendDenial(r)
      PROVE  IInv'
  <2> USE <1>1 DEF SendDenial
  <2>1. /\ chan' \in [Request -> Decision \cup {"empty"}]
        /\ first' \in [Request -> Decision \cup {"none"}]
        /\ ChannelHoldsFirst'
        /\ FirstDecisionStands'
    BY TrySendStep DEF Decision
  <2>2. TypeOK' /\ NoEntryLeaks' /\ ResultWhenLeft'
    BY <2>1 DEF TypeOK, NoEntryLeaks, ResultWhenLeft
  <2>3. FoundIsClean' /\ GrantIsFresh'
    BY DEF FoundIsClean, GrantIsFresh
  <2>4. GrantHasAuthor'
    BY DEF GrantHasAuthor, Grants
  <2>5. FirstHasAuthor'
    BY DEF FirstHasAuthor, Permits, TrySend, Allows, TypeOK
  <2> QED
    BY <2>1, <2>2, <2>3, <2>4, <2>5
<1>2. CASE CancelAll \/ \E c \in Conversation : ClearConversation(c)
  <2> USE <1>2 DEF CancelAll, ClearConversation, ClearedScopes
  <2>1. TypeOK'
    BY DEF TypeOK
  <2>2. NoEntryLeaks' /\ ResultWhenLeft' /\ ChannelHoldsFirst'
    BY DEF NoEntryLeaks, ResultWhenLeft, ChannelHoldsFirst
  <2>3. FoundIsClean' /\ FirstDecisionStands' /\ FirstHasAuthor'
    BY DEF FoundIsClean, FirstDecisionStands, FirstHasAuthor, Permits
  <2>4. GrantIsFresh'
    BY DEF GrantIsFresh, TypeOK
  <2>5. GrantHasAuthor'
    BY DEF GrantHasAuthor, Grants, TypeOK
  <2> QED
    BY <2>1, <2>2, <2>3, <2>4, <2>5
<1> QED
  BY <1>1, <1>2

\* The inductive invariant holds in every reachable state.
THEOREM Inductive == Spec => []IInv
<1>1. ASSUME IInv, [Next]_vars
      PROVE  IInv'
  <2>1. CASE UNCHANGED vars
    BY <1>1, <2>1 DEF vars, IInv, TypeOK, NoEntryLeaks, FoundIsClean,
       ResultWhenLeft, ChannelHoldsFirst, FirstDecisionStands, FirstHasAuthor,
       GrantIsFresh, GrantHasAuthor, Permits, Grants
  <2>2. CASE Next
    BY <1>1, <2>2, RequestInv, RespondInv, DeliverInv, HostInv DEF Next
  <2> QED
    BY <1>1, <2>1, <2>2
<1> QED
  BY <1>1, InitInv, PTL DEF Spec

-------------------------------------------------------------------------------
(* The variables keep their types, whatever calls are made.                  *)
THEOREM TypeCorrect == Spec => []TypeOK
<1>1. IInv => TypeOK
  BY DEF IInv
<1> QED
  BY <1>1, Inductive, PTL

(* No preview runs unless the user allowed it: every permission has an       *)
(* acknowledged answer, and every grant an answer of its own conversation,   *)
(* behind it.                                                                *)
THEOREM PreviewsAreAllowed == Spec => []AllowedByUser
<1>1. IInv => AllowedByUser
  <2> SUFFICES ASSUME IInv, NEW r \in Request
               PROVE  /\ result[r] = "allowed" => \E a \in Answer : Permits(a, r)
                      /\ result[r] = "granted" =>
                           \E a \in Answer : Grants(a, ConversationOf[r])
    BY DEF AllowedByUser, Permits, Grants
  <2>1. ASSUME result[r] = "allowed"
        PROVE  \E a \in Answer : Permits(a, r)
    <3>1. first[r] \in Decision /\ first[r] # "deny"
      BY <2>1 DEF IInv, TypeOK, FirstDecisionStands, Meaning
    <3> QED
      BY <3>1 DEF IInv, FirstHasAuthor, Allows, Decision
  <2> QED
    BY <2>1 DEF IInv, GrantHasAuthor
<1> QED
  BY <1>1, Inductive, PTL

(* The first decision sent for a request is the one it obeys.                *)
THEOREM FirstDecides == Spec => []FirstDecisionStands
<1>1. IInv => FirstDecisionStands
  BY DEF IInv
<1> QED
  BY <1>1, Inductive, PTL

(* A grant rests on an answer given after its conversation was last cleared. *)
THEOREM GrantsAreFresh == Spec => []GrantIsFresh
<1>1. IInv => GrantIsFresh
  BY DEF IInv
<1> QED
  BY <1>1, Inductive, PTL

(* What lets a preview run is a consent of the user that is in force.        *)
THEOREM PreviewsConsented == Spec => []PreviewIsConsented
<1>1. AllowedByUser /\ GrantIsFresh => PreviewIsConsented
  BY DEF PreviewIsConsented
<1> QED
  BY <1>1, PreviewsAreAllowed, GrantsAreFresh, PTL

(* A request that has returned left no entry in the pending map.             *)
THEOREM NoLeak == Spec => []NoEntryLeaks
<1>1. IInv => NoEntryLeaks
  BY DEF IInv
<1> QED
  BY <1>1, Inductive, PTL

-------------------------------------------------------------------------------
(* The panel of the assistant                                                *)

Final == {"complete", "cancelled", "error"}
Statuses == Final \cup {"none", "streaming"}
Configs == [provider : Provider, consent : BOOLEAN]
(* What is shown of an answer, and what is stored of it.                     *)
Messages == [pieces : Seq(Nat), status : Statuses]
Answers == [of : AIConversation \cup {None}, pieces : Nat, status : Statuses]
(* What a call brings back.                                                  *)
Responses == [stored : SUBSET AIConversation, settings : Configs \cup {None},
              read : SUBSET (Run \X Answers)]
Ops == {"initialize", "load", "create", "delete", "send", "stop"}
Calls == [op : Ops, of : AIConversation \cup {None}, provider : Provider, consent : BOOLEAN,
          opening : BOOLEAN, state : {"sent", "done", "failed", "stopping"}, run : Run \cup {0},
          answer : Responses]
Events == [kind : {"running", "over", "piece"} \cup Final, run : Run, of : AIConversation,
           piece : Nat]

(* Where every variable lives; a send that was answered has a run.           *)
PanelTypes ==
  /\ config \in Configs
  /\ list \subseteq AIConversation /\ active \in AIConversation \cup {None}
  /\ loading \in BOOLEAN
  /\ sending \subseteq AIConversation /\ running \in [AIConversation -> Run \cup {0}]
  /\ shown \in [Run -> Messages]
HostTypes ==
  /\ stored \subseteq AIConversation /\ gone \subseteq AIConversation
  /\ settings \in Configs
  /\ answer \in [Run -> Answers]
  /\ live \subseteq Run /\ unsaid \in [Run -> Nat]
CallTypes ==
  /\ calls \subseteq Calls
  /\ \A k \in calls :
       /\ k.op \in {"load", "delete", "send", "stop"} => k.of \in AIConversation
       /\ k.op = "initialize" /\ k.state = "done" => k.answer.settings \in Configs
       /\ k.op = "send" /\ k.state = "done" => k.run \in Run /\ answer[k.run].of = k.of
       /\ k.op = "delete" /\ k.state = "done" => k.of \in gone
EventTypes ==
  /\ events \in Seq(Events)
  /\ \A i \in DOMAIN events : answer[events[i].run].of = events[i].of
GhostTypes ==
  /\ late \subseteq AIConversation /\ torn \subseteq Run /\ mixed \in BOOLEAN /\ acts \in Nat
Types == PanelTypes /\ HostTypes /\ CallTypes /\ EventTypes /\ GhostTypes

(* A run that is live is the only one of its conversation, which is stored.  *)
AnswersOK ==
  /\ stored \cap gone = {}
  /\ \A r \in Run : answer[r] # NotSent =>
       /\ answer[r].of \in stored \cup gone
       /\ answer[r].status \in Final \cup {"streaming"}
  /\ \A r \in live : answer[r].of \in stored /\ answer[r].status = "streaming"
  /\ \A r, q \in live : answer[r].of = answer[q].of => r = q

(* Unless two calls that carry the configuration overlapped, a consent of the*)
(* panel is the host's, and the call on its way brings no other.             *)
ConfigOK == ~mixed =>
  /\ config.consent => settings = [provider |-> config.provider, consent |-> TRUE]
  /\ \A k, l \in calls : Configures(k) /\ Configures(l) => k = l
  /\ \A k \in calls : Configures(k) =>
       /\ k.op = "initialize" /\ k.state = "done" => k.answer.settings = settings
       /\ k.op = "send" /\ k.state = "done" /\ k.consent =>
            settings = [provider |-> k.provider, consent |-> TRUE]
       /\ k.state = "sent" /\ config.consent /\ k.op # "initialize" =>
            k.provider = config.provider

(* A run is announced before its end is, once.                               *)
LifeOK ==
  /\ \A i \in DOMAIN events : events[i].kind = "running" => Ongoing(events[i].run)
  /\ \A i \in DOMAIN events : events[i].kind = "over" => events[i].run \notin live
  /\ \A i, j \in DOMAIN events : events[i].run = events[j].run =>
       /\ events[i].kind = "over" /\ events[j].kind = "over" => i = j
       /\ events[i].kind = "running" /\ events[j].kind = "over" => i < j

(* A conversation is blocked by the one send on its way or by the one run of *)
(* which the end has not arrived.  Lost are those whose run was over for the *)
(* panel before the answer of its send came, and will be blocked by it.      *)
Sends(c) == {k \in calls : k.op = "send" /\ k.of = c}
Lost(c) == c \in late \/ \E k \in Sends(c) : k.state = "done" /\ ~Ongoing(k.run)
OngoingOf(c) == {r \in RunsOf(c) : Ongoing(r)}
BlockOK(c) ==
  /\ \A k, l \in Sends(c) : k = l
  /\ Sends(c) # {} => c \in sending
  /\ \A k \in Sends(c) : k.state # "done" => OngoingOf(c) = {}
  /\ \A r, q \in OngoingOf(c) : r = q
  /\ OngoingOf(c) # {} => c \in sending
  /\ running[c] # 0 => running[c] \in OngoingOf(c)
  /\ c \in sending => Sends(c) # {} \/ OngoingOf(c) # {}
BlocksOK == \A c \in AIConversation : Lost(c) \/ BlockOK(c)

(* What is shown of an answer and the events on their way make what is       *)
(* stored: the pieces that follow the last one shown, each once and in order,*)
(* and the last event of the provider.                                       *)
Piece(e, r) == e.run = r /\ e.kind = "piece"
Last(e, r) == e.run = r /\ e.kind \in Final
PiecesOK(r) ==
  LET n == Len(shown[r].pieces) IN
  /\ shown[r].pieces = Count(n) /\ n <= answer[r].pieces
  /\ \A i \in DOMAIN events : Piece(events[i], r) =>
       n < events[i].piece /\ events[i].piece <= answer[r].pieces
  /\ \A m \in (n + 1)..answer[r].pieces : \E i \in DOMAIN events :
       Piece(events[i], r) /\ events[i].piece = m
  /\ \A i, j \in DOMAIN events :
       i < j /\ Piece(events[i], r) /\ Piece(events[j], r) => events[i].piece < events[j].piece
StatusOK(r) ==
  /\ shown[r].status = "none" => shown[r] = NotShown
  /\ \/ answer[r].status = IF shown[r] = NotShown THEN "streaming" ELSE shown[r].status
     \/ \E i \in DOMAIN events : Last(events[i], r)
  /\ \A i \in DOMAIN events : Last(events[i], r) =>
       events[i].kind = answer[r].status /\ r \notin live
  /\ shown[r] = NotShown =>
       \/ \E i \in DOMAIN events : Piece(events[i], r) \/ Last(events[i], r)
       \/ \E k \in calls : k.op = "send" /\ k.state = "done" /\ k.run = r

(* This holds of every run that is not torn.                                 *)
Unsent(r) == answer[r].of = None => shown[r] = NotShown
ShownOK == \A r \in Run :
  Unsent(r) /\ (answer[r].of \in stored /\ r \notin torn => PiecesOK(r) /\ StatusOK(r))

(* What a load brings back of a run that it does not tear is all there is.   *)
LoadOK(k, r) ==
  /\ r \notin live
  /\ \A i \in DOMAIN events : ~(Piece(events[i], r) \/ Last(events[i], r))
  /\ k.state = "done" =>
       /\ \E m \in k.answer.read : m[1] = r
       /\ \A m \in k.answer.read : m[1] = r => m[2] = answer[r]
LoadsOK == \A k \in calls : k.op = "load" => \A r \in RunsOf(k.of) \ torn : LoadOK(k, r)

PanelInv == Types /\ AnswersOK /\ ConfigOK /\ LifeOK /\ BlocksOK /\ ShownOK /\ LoadsOK

-------------------------------------------------------------------------------
(* An element is appended to a sequence.                                     *)
LEMMA Appended ==
  ASSUME NEW S, NEW s \in Seq(S), NEW t, NEW e \in S, t = Append(s, e)
  PROVE  /\ t \in Seq(S) /\ DOMAIN s = 1..Len(s) /\ DOMAIN t = 1..(Len(s) + 1) /\ Len(s) \in Nat
         /\ \A i \in DOMAIN s : i \in DOMAIN t /\ t[i] = s[i]
         /\ t[Len(s) + 1] = e
         /\ \A i \in DOMAIN t : i \in DOMAIN s \/ i = Len(s) + 1
  OBVIOUS

(* Two elements are appended.                                                *)
LEMMA AppendedTwo ==
  ASSUME NEW S, NEW s \in Seq(S), NEW t, NEW e \in S, NEW f \in S, t = s \o <<e, f>>
  PROVE  /\ t \in Seq(S) /\ DOMAIN s = 1..Len(s) /\ DOMAIN t = 1..(Len(s) + 2) /\ Len(s) \in Nat
         /\ \A i \in DOMAIN s : i \in DOMAIN t /\ t[i] = s[i]
         /\ t[Len(s) + 1] = e /\ t[Len(s) + 2] = f
         /\ \A i \in DOMAIN t : i \in DOMAIN s \/ i = Len(s) + 1 \/ i = Len(s) + 2
  <1>1. <<e, f>> \in Seq(S) /\ Len(<<e, f>>) = 2 /\ <<e, f>>[1] = e /\ <<e, f>>[2] = f
    OBVIOUS
  <1>2. t \in Seq(S) /\ Len(t) = Len(s) + 2
    BY <1>1
  <1>3. \A i \in 1..Len(s) : t[i] = s[i]
    BY <1>1
  <1>4. t[Len(s) + 1] = e /\ t[Len(s) + 2] = f
    BY <1>1
  <1>5. DOMAIN s = 1..Len(s) /\ DOMAIN t = 1..(Len(s) + 2) /\ Len(s) \in Nat
    BY <1>2
  <1> QED
    BY <1>2, <1>3, <1>4, <1>5

(* The first element is taken from a sequence.                               *)
LEMMA Tailed ==
  ASSUME NEW S, NEW s \in Seq(S), s # <<>>, NEW t, t = Tail(s)
  PROVE  /\ t \in Seq(S) /\ Head(s) = s[1] /\ 1 \in DOMAIN s /\ Head(s) \in S
         /\ DOMAIN s = 1..Len(s) /\ Len(s) \in Nat /\ DOMAIN t = 1..(Len(s) - 1)
         /\ \A i \in DOMAIN t : i + 1 \in DOMAIN s /\ t[i] = s[i + 1]
         /\ \A i \in DOMAIN s : i = 1 \/ (i - 1 \in DOMAIN t /\ t[i - 1] = s[i])
  OBVIOUS

(* The first n pieces.                                                       *)
LEMMA Counted ==
  ASSUME NEW n \in Nat
  PROVE  /\ Count(n) \in Seq(Nat) /\ Len(Count(n)) = n
         /\ Append(Count(n), n + 1) = Count(n + 1)
         /\ (Count(n) = <<>> <=> n = 0)
  <1>1. Count(n) \in Seq(Nat) /\ Len(Count(n)) = n
    BY DEF Count
  <1>2. Count(n + 1) \in Seq(Nat) /\ Len(Count(n + 1)) = n + 1
    BY DEF Count
  <1>3. \A i \in 1..(n + 1) : Append(Count(n), n + 1)[i] = Count(n + 1)[i]
    BY <1>1 DEF Count
  <1>4. Append(Count(n), n + 1) = Count(n + 1)
    BY <1>1, <1>2, <1>3
  <1> QED
    BY <1>1, <1>4

-------------------------------------------------------------------------------
(* An event on its way is of a run that was sent.                            *)
LEMMA EventAt ==
  ASSUME EventTypes, NEW i \in DOMAIN events
  PROVE  /\ events[i] \in Events /\ events[i].run \in Run /\ events[i].of \in AIConversation
         /\ answer[events[i].run].of = events[i].of
  <1>1. events[i] \in Events
    BY DEF EventTypes
  <1> QED
    BY <1>1 DEF EventTypes, Events

(* What a step leaves alone keeps its part of the invariant.                 *)
LEMMA LifeFrame == ASSUME LifeOK, UNCHANGED <<events, live>> PROVE LifeOK'
  BY DEF LifeOK, Ongoing, Over

(* The same of the answers of the host.                                      *)
LEMMA AnswersFrame == ASSUME AnswersOK, UNCHANGED <<stored, gone, answer, live>> PROVE AnswersOK'
  BY DEF AnswersOK

(* The same of the events.                                                   *)
LEMMA EventsFrame == ASSUME EventTypes, UNCHANGED <<events, answer>> PROVE EventTypes'
  BY DEF EventTypes

(* A run goes on or is over by the host and the events only.                 *)
LEMMA OngoingFrame ==
  ASSUME UNCHANGED <<events, live>>
  PROVE  \A r \in Run : Ongoing(r)' <=> Ongoing(r)
  BY DEF Ongoing, Over

(* No send leaves, is answered or returns.                                   *)
KeepsSends == \A k : k.op = "send" => (k \in calls' <=> k \in calls)

(* Without a send that leaves, is answered or returns, and with the same     *)
(* runs going on, what blocks a conversation is the same.                    *)
LEMMA BlocksFrame ==
  ASSUME BlocksOK, CallTypes, late \subseteq late', UNCHANGED <<sending, running>>,
         \A r \in Run : (Ongoing(r)' <=> Ongoing(r)) /\ answer'[r].of = answer[r].of,
         KeepsSends
  PROVE  BlocksOK'
  <1> SUFFICES ASSUME NEW c \in AIConversation, ~Lost(c)' PROVE BlockOK(c)'
    BY DEF BlocksOK
  <1>1. Sends(c)' = Sends(c)
    BY DEF Sends, KeepsSends
  <1>2. OngoingOf(c)' = OngoingOf(c)
    BY DEF OngoingOf, RunsOf
  <1>3. ~Lost(c)
    <2>1. ASSUME NEW k \in Sends(c), k.state = "done", ~Ongoing(k.run) PROVE FALSE
      <3>1. k.run \in Run
        BY <2>1 DEF CallTypes, Sends
      <3>2. ~Ongoing(k.run)'
        BY <2>1, <3>1
      <3> QED
        BY <1>1, <2>1, <3>2 DEF Lost
    <2> QED
      BY <2>1 DEF Lost
  <1>4. BlockOK(c)
    BY <1>3 DEF BlocksOK
  <1> QED
    BY <1>1, <1>2, <1>4 DEF BlockOK

(* The stream events of r stay where they are.                               *)
StreamStays(r) ==
  /\ \A i \in DOMAIN events : i \in DOMAIN events' /\ events'[i] = events[i]
  /\ \A i \in DOMAIN events' : Piece(events'[i], r) \/ Last(events'[i], r) =>
       i \in DOMAIN events /\ events'[i] = events[i]
KeepsDone(r) == \A k \in calls : k.op = "send" /\ k.state = "done" /\ k.run = r => k \in calls'

(* What is shown of a run stays right while its own events stay.             *)
LEMMA RunFrame ==
  ASSUME NEW r \in Run, PiecesOK(r), StatusOK(r), shown'[r] = shown[r], answer'[r] = answer[r],
         r \in live' => r \in live, StreamStays(r), KeepsDone(r)
  PROVE  PiecesOK(r)' /\ StatusOK(r)'
  <1>1. PiecesOK(r)'
    BY DEF PiecesOK, StreamStays, Piece
  <1>2. StatusOK(r)'
    BY DEF StatusOK, StreamStays, Piece, Last, KeepsDone
  <1> QED
    BY <1>1, <1>2

(* Events that are unchanged stay.                                           *)
LEMMA StreamSame == ASSUME UNCHANGED events, NEW r PROVE StreamStays(r)
  BY DEF StreamStays

(* A step that shows nothing and says nothing of an answer keeps what is     *)
(* shown.                                                                    *)
LEMMA ShownFrame ==
  ASSUME ShownOK, torn \subseteq torn', UNCHANGED <<events, shown, answer, live>>,
         \A r \in Run : answer[r].of \in stored' => answer[r].of \in stored,
         \A r \in Run : KeepsDone(r)
  PROVE  ShownOK'
  <1> SUFFICES ASSUME NEW r \in Run, answer[r].of \in stored', r \notin torn'
               PROVE  PiecesOK(r)' /\ StatusOK(r)'
    BY DEF ShownOK, Unsent
  <1>1. PiecesOK(r) /\ StatusOK(r)
    BY DEF ShownOK
  <1> QED
    BY <1>1, StreamSame, RunFrame

(* Loads that are on their way stay what they were.                          *)
LEMMA LoadsFrame ==
  ASSUME LoadsOK, torn \subseteq torn', UNCHANGED <<events, answer, live>>,
         \A k \in calls' : k.op = "load" => k \in calls
  PROVE  LoadsOK'
  BY DEF LoadsOK, LoadOK, RunsOf, Piece, Last

-------------------------------------------------------------------------------
(* Calls that leave                                                          *)

(* A call that is sent, and what every such call has.                        *)
IsNew(k) ==
  /\ k \in Calls /\ k.state = "sent"
  /\ k.op \in {"load", "delete", "send", "stop"} => k.of \in AIConversation
  /\ k.provider = config.provider

(* What is sent carries the provider of the panel.                           *)
LEMMA NewCall ==
  ASSUME config \in Configs, NEW op \in Ops, NEW c \in AIConversation \cup {None},
         op \in {"load", "delete", "send", "stop"} => c \in AIConversation
  PROVE  IsNew(CallOf(op, c)) /\ CallOf(op, c).op = op /\ CallOf(op, c).of = c
  <1>1. NoAnswer \in Responses
    BY DEF NoAnswer, Response, Responses
  <1> QED
    BY <1>1 DEF CallOf, Calls, Configs, IsNew

(* The same with the flag of a load.                                         *)
LEMMA NewLoad ==
  ASSUME NEW k, IsNew(k), NEW x \in BOOLEAN
  PROVE  /\ IsNew([k EXCEPT !.opening = x])
         /\ [k EXCEPT !.opening = x].op = k.op /\ [k EXCEPT !.opening = x].of = k.of
         /\ [k EXCEPT !.opening = x].state = "sent"
  BY DEF IsNew, Calls

(* The same with the consent of a send.                                      *)
LEMMA NewSend ==
  ASSUME NEW k, IsNew(k), NEW x \in BOOLEAN
  PROVE  /\ IsNew([k EXCEPT !.consent = x])
         /\ [k EXCEPT !.consent = x].op = k.op /\ [k EXCEPT !.consent = x].of = k.of
         /\ [k EXCEPT !.consent = x].state = "sent"
  BY DEF IsNew, Calls

(* The same with the run of a stop.                                          *)
LEMMA NewStop ==
  ASSUME NEW k, IsNew(k), NEW x \in Run \cup {0}
  PROVE  /\ IsNew([k EXCEPT !.run = x])
         /\ [k EXCEPT !.run = x].op = k.op /\ [k EXCEPT !.run = x].of = k.of
         /\ [k EXCEPT !.run = x].state = "sent"
  BY DEF IsNew, Calls

(* A call that leaves keeps the types of the calls.                          *)
LEMMA NewCallTypes ==
  ASSUME CallTypes, NEW k, IsNew(k), UNCHANGED <<stored, gone, answer>>,
         calls' \subseteq calls \cup {k}
  PROVE  CallTypes'
  BY DEF CallTypes, IsNew

(* A call that leaves carries the configuration, or overlaps another.        *)
LEMMA NewCallConfig ==
  ASSUME ConfigOK, NEW k, IsNew(k), Starts(k), UNCHANGED <<config, settings>>
  PROVE  ConfigOK'
  BY DEF ConfigOK, IsNew, Starts, Configures

(* The configuration is as true with fewer calls.                            *)
LEMMA FewerCallsConfig ==
  ASSUME ConfigOK, UNCHANGED <<config, settings, mixed>>,
         \A k \in calls' : Configures(k) => k \in calls
  PROVE  ConfigOK'
  BY DEF ConfigOK, Configures

(* A call that leaves takes no answer away.                                  *)
LEMMA StartsKeepsDone ==
  ASSUME NEW r, calls \subseteq calls'
  PROVE  KeepsDone(r)
  BY DEF KeepsDone

(* A load that is sent: what it may tear is torn.                            *)
LEMMA AsksLoads ==
  ASSUME Types, LoadsOK, NEW c \in AIConversation, NEW b \in BOOLEAN, NEW rest,
         rest \subseteq calls, Asks(c, b, rest), UNCHANGED <<events, answer, live>>
  PROVE  LoadsOK'
  <1> DEFINE new == [CallOf("load", c) EXCEPT !.opening = b]
  <1>1. new.op = "load" /\ new.of = c /\ new.state = "sent"
    <2>1. IsNew(CallOf("load", c)) /\ CallOf("load", c).op = "load" /\ CallOf("load", c).of = c
      BY NewCall DEF Types, PanelTypes, Ops
    <2> QED
      BY <2>1, NewLoad
  <1>2. /\ calls' = rest \cup {new}
        /\ torn' = torn \cup {r \in RunsOf(c) : r \in live \/ events # <<>>}
    BY DEF Asks
  <1> SUFFICES ASSUME NEW k \in calls', k.op = "load", NEW r \in (RunsOf(k.of) \ torn)'
               PROVE  LoadOK(k, r)'
    BY DEF LoadsOK
  <1>3. r \in RunsOf(k.of) \ torn
    BY <1>2 DEF RunsOf
  <1>4. CASE k \in calls
    BY <1>3, <1>4 DEF LoadsOK, LoadOK, Piece, Last
  <1>5. CASE k = new
    <2>1. r \notin live /\ events = <<>>
      BY <1>1, <1>2, <1>3, <1>5
    <2>2. k.state # "done"
      BY <1>1, <1>5
    <2> QED
      BY <2>1, <2>2 DEF LoadOK
  <1> QED
    BY <1>2, <1>4, <1>5

(* A load keeps the types, and adds no other call.                           *)
LEMMA AsksTypes ==
  ASSUME Types, NEW c \in AIConversation, NEW b \in BOOLEAN, NEW rest,
         rest \subseteq calls, Asks(c, b, rest), UNCHANGED <<stored, gone, answer>>
  PROVE  /\ CallTypes' /\ torn' \subseteq Run /\ torn \subseteq torn'
         /\ \A k \in calls' : k.op # "load" => k \in calls
         /\ rest \subseteq calls'
  <1> DEFINE new == [CallOf("load", c) EXCEPT !.opening = b]
  <1>1. IsNew(new) /\ new.op = "load"
    <2>1. IsNew(CallOf("load", c)) /\ CallOf("load", c).op = "load"
      BY NewCall DEF Types, PanelTypes, Ops
    <2> QED
      BY <2>1, NewLoad
  <1>2. /\ calls' = rest \cup {new}
        /\ torn' = torn \cup {r \in RunsOf(c) : r \in live \/ events # <<>>}
    BY DEF Asks
  <1>3. CallTypes'
    BY <1>1, <1>2, NewCallTypes DEF Types
  <1> QED
    BY <1>1, <1>2, <1>3 DEF RunsOf, Types, GhostTypes

-------------------------------------------------------------------------------
(* What the user does                                                        *)

(* A call of the user that is neither a send nor a load.                     *)
LEMMA StartsKeeps ==
  ASSUME PanelInv, NEW k, IsNew(k), k.op # "send", k.op # "load", Starts(k),
         UNCHANGED <<config, list, active, sending, running, shown, events, host, late, torn>>,
         loading' \in BOOLEAN, acts' \in Nat
  PROVE  PanelInv'
  <1> USE DEF PanelInv
  <1>1. calls' = calls \cup {k} /\ mixed' \in BOOLEAN
    BY DEF Starts, Types, GhostTypes
  <1>2. Types'
    <2>1. CallTypes'
      BY <1>1, NewCallTypes DEF host, Types
    <2>2. EventTypes'
      BY EventsFrame DEF host, Types
    <2>3. PanelTypes'
      BY DEF Types, PanelTypes
    <2>4. HostTypes'
      BY DEF Types, HostTypes, host
    <2>5. GhostTypes'
      BY <1>1 DEF Types, GhostTypes
    <2> QED
      BY <2>1, <2>2, <2>3, <2>4, <2>5 DEF Types
  <1>3. AnswersOK'
    BY AnswersFrame DEF host
  <1>4. ConfigOK'
    BY NewCallConfig DEF host
  <1>5. LifeOK'
    BY LifeFrame DEF host
  <1>6. BlocksOK'
    <2>1. KeepsSends
      BY <1>1 DEF KeepsSends
    <2> QED
      BY <2>1, BlocksFrame, OngoingFrame DEF host, Types
  <1>7. ShownOK'
    BY <1>1, ShownFrame, StartsKeepsDone DEF host
  <1>8. LoadsOK'
    BY <1>1, LoadsFrame DEF host
  <1> QED
    BY <1>2, <1>3, <1>4, <1>5, <1>6, <1>7, <1>8

(* initializeProject keeps the invariant.                                    *)
LEMMA InitializeKeeps == ASSUME PanelInv, InitializeProject PROVE PanelInv'
  <1>1. IsNew(CallOf("initialize", None)) /\ CallOf("initialize", None).op = "initialize"
    BY NewCall DEF PanelInv, Types, PanelTypes, Ops
  <1> QED
    BY <1>1, StartsKeeps DEF InitializeProject, Acts, PanelInv, Types, GhostTypes

(* createConversation keeps the invariant.                                   *)
LEMMA CreateKeeps == ASSUME PanelInv, CreateConversation PROVE PanelInv'
  <1>1. IsNew(CallOf("create", None)) /\ CallOf("create", None).op = "create"
    BY NewCall DEF PanelInv, Types, PanelTypes, Ops
  <1>2. loading' \in BOOLEAN /\ acts' \in Nat
    BY DEF CreateConversation, MayPick, Acts, panel, PanelInv, Types, PanelTypes, GhostTypes
  <1> QED
    BY <1>1, <1>2, StartsKeeps DEF CreateConversation, panel

(* deleteConversation keeps the invariant.                                   *)
LEMMA DeleteKeeps == ASSUME PanelInv, DeleteConversation PROVE PanelInv'
  <1>1. active \in AIConversation
    BY DEF DeleteConversation, PanelInv, Types, PanelTypes
  <1>2. IsNew(CallOf("delete", active)) /\ CallOf("delete", active).op = "delete"
    BY <1>1, NewCall DEF PanelInv, Types, PanelTypes, Ops
  <1>3. loading' \in BOOLEAN /\ acts' \in Nat
    BY DEF DeleteConversation, MayPick, Acts, panel, PanelInv, Types, PanelTypes, GhostTypes
  <1> QED
    BY <1>2, <1>3, StartsKeeps DEF DeleteConversation, panel

(* stop keeps the invariant.                                                 *)
LEMMA StopKeeps == ASSUME PanelInv, Stop PROVE PanelInv'
  <1> DEFINE new == [CallOf("stop", active) EXCEPT !.run = running[active]]
  <1>1. active \in AIConversation
    BY DEF Stop, PanelInv, Types, PanelTypes
  <1>2. IsNew(new) /\ new.op = "stop"
    <2>1. IsNew(CallOf("stop", active)) /\ CallOf("stop", active).op = "stop"
      BY <1>1, NewCall DEF PanelInv, Types, PanelTypes, Ops
    <2>2. running[active] \in Run \cup {0}
      BY <1>1 DEF PanelInv, Types, PanelTypes
    <2> QED
      BY <2>1, <2>2, NewStop
  <1>3. loading' \in BOOLEAN /\ acts' \in Nat
    BY DEF Stop, Acts, panel, PanelInv, Types, PanelTypes, GhostTypes
  <1> QED
    BY <1>2, <1>3, StartsKeeps DEF Stop, panel

(* selectConversation keeps the invariant.                                   *)
LEMMA SelectKeeps ==
  ASSUME PanelInv, NEW c \in AIConversation, SelectConversation(c) PROVE PanelInv'
  <1> USE DEF PanelInv
  <1> USE DEF SelectConversation
  <1>1. /\ CallTypes' /\ torn' \subseteq Run /\ torn \subseteq torn'
        /\ \A k \in calls' : k.op # "load" => k \in calls
        /\ calls \subseteq calls'
    BY AsksTypes DEF host
  <1>2. Types'
    <2>1. EventTypes'
      BY EventsFrame DEF host, Types
    <2>2. PanelTypes'
      BY DEF Types, PanelTypes
    <2>3. HostTypes'
      BY DEF Types, HostTypes, host
    <2>4. GhostTypes'
      BY <1>1 DEF Types, GhostTypes, MayPick, Acts
    <2> QED
      BY <1>1, <2>1, <2>2, <2>3, <2>4 DEF Types
  <1>3. AnswersOK'
    BY AnswersFrame DEF host
  <1>4. ConfigOK'
    BY <1>1, FewerCallsConfig DEF host, Configures
  <1>5. LifeOK'
    BY LifeFrame DEF host
  <1>6. BlocksOK'
    <2>1. KeepsSends
      BY <1>1 DEF KeepsSends
    <2> QED
      BY <2>1, BlocksFrame, OngoingFrame DEF host, Types
  <1>7. ShownOK'
    BY <1>1, ShownFrame, StartsKeepsDone DEF host
  <1>8. LoadsOK'
    BY AsksLoads DEF host
  <1> QED
    BY <1>2, <1>3, <1>4, <1>5, <1>6, <1>7, <1>8

(* setConfig keeps the invariant: a provider that is chosen has no consent.  *)
LEMMA SetConfigKeeps ==
  ASSUME PanelInv, NEW p \in Provider, SetConfig(p) PROVE PanelInv'
  <1> USE DEF PanelInv
  <1> USE DEF SetConfig
  <1>1. config' \in Configs /\ ~config'.consent
    BY DEF Types, PanelTypes, Configs, Chosen
  <1>2. Types'
    <2>1. EventTypes'
      BY EventsFrame DEF host, Types
    <2>2. PanelTypes'
      BY <1>1 DEF Types, PanelTypes
    <2>3. HostTypes'
      BY DEF Types, HostTypes, host
    <2>4. GhostTypes'
      BY DEF Types, GhostTypes, Acts, ghosts
    <2>5. CallTypes'
      BY DEF Types, CallTypes, host
    <2> QED
      BY <2>1, <2>2, <2>3, <2>4, <2>5 DEF Types
  <1>3. AnswersOK'
    BY AnswersFrame DEF host
  <1>4. ConfigOK'
    BY <1>1 DEF ConfigOK, host, ghosts
  <1>5. LifeOK'
    BY LifeFrame DEF host
  <1>6. BlocksOK'
    <2>1. KeepsSends
      BY DEF KeepsSends
    <2> QED
      BY <2>1, BlocksFrame, OngoingFrame DEF host, Types, ghosts
  <1>7. ShownOK'
    BY ShownFrame, StartsKeepsDone DEF host, ghosts
  <1>8. LoadsOK'
    BY LoadsFrame DEF host, ghosts
  <1> QED
    BY <1>2, <1>3, <1>4, <1>5, <1>6, <1>7, <1>8

(* send keeps the invariant: a conversation that is not blocked has no run   *)
(* and no other send.                                                        *)
LEMMA SendKeeps == ASSUME PanelInv, Send PROVE PanelInv'
  <1> USE DEF PanelInv
  <1> DEFINE new == [CallOf("send", active) EXCEPT !.consent = ~config.consent]
  <1>1. active \in AIConversation /\ active \notin sending /\ running[active] = 0
    BY DEF Send, MaySend, IsRunning, Types, PanelTypes
  <1>2. IsNew(new) /\ new.op = "send" /\ new.of = active /\ new.state = "sent"
    <2>1. IsNew(CallOf("send", active)) /\ CallOf("send", active).op = "send"
          /\ CallOf("send", active).of = active
      BY <1>1, NewCall DEF Types, PanelTypes, Ops
    <2>2. (~config.consent) \in BOOLEAN
      OBVIOUS
    <2> QED
      BY <2>1, <2>2, NewSend
  <1>3. calls' = calls \cup {new} /\ mixed' \in BOOLEAN /\ sending' = sending \cup {active}
    BY DEF Send, Starts, Types, GhostTypes
  <1>4. /\ Starts(new)
        /\ UNCHANGED <<config, list, active, loading, running, shown, events, late, torn, acts>>
        /\ UNCHANGED <<stored, gone, settings, answer, live, unsaid>>
    BY DEF Send, host
  <1> HIDE DEF new
  <1>5. Types'
    <2>1. CallTypes'
      BY <1>2, <1>3, <1>4, NewCallTypes DEF Types
    <2>2. EventTypes'
      BY <1>4, EventsFrame DEF Types
    <2>3. PanelTypes'
      BY <1>1, <1>3, <1>4 DEF Types, PanelTypes
    <2>4. HostTypes'
      BY <1>4 DEF Types, HostTypes
    <2>5. GhostTypes'
      BY <1>3, <1>4 DEF Types, GhostTypes
    <2> QED
      BY <2>1, <2>2, <2>3, <2>4, <2>5 DEF Types
  <1>6. AnswersOK'
    BY <1>4, AnswersFrame
  <1>7. ConfigOK'
    BY <1>2, <1>4, NewCallConfig
  <1>8. LifeOK'
    BY <1>4, LifeFrame
  <1>9. BlocksOK'
    <2> SUFFICES ASSUME NEW c \in AIConversation, ~Lost(c)' PROVE BlockOK(c)'
      BY DEF BlocksOK
    <2>1. \A r : Ongoing(r)' <=> Ongoing(r)
      BY <1>4 DEF Ongoing, Over
    <2>2. ~Lost(c)
      BY <1>3, <1>4, <2>1 DEF Lost, Sends
    <2>3. BlockOK(c)
      BY <2>2 DEF BlocksOK
    <2>4. OngoingOf(c)' = OngoingOf(c)
      BY <1>4, <2>1 DEF OngoingOf, RunsOf
    <2>5. CASE c # active
      <3>1. Sends(c)' = Sends(c)
        BY <1>2, <1>3, <2>5 DEF Sends
      <3> QED
        BY <1>3, <1>4, <2>3, <2>4, <2>5, <3>1 DEF BlockOK
    <2>6. CASE c = active
      <3>1. Sends(c) = {} /\ OngoingOf(c) = {}
        BY <1>1, <2>3, <2>6 DEF BlockOK
      <3>2. Sends(c)' = {new}
        BY <1>2, <1>3, <2>6, <3>1 DEF Sends
      <3> QED
        BY <1>1, <1>2, <1>3, <1>4, <2>4, <2>6, <3>1, <3>2 DEF BlockOK
    <2> QED
      BY <2>5, <2>6
  <1>10. ShownOK'
    BY <1>3, <1>4, ShownFrame, StartsKeepsDone
  <1>11. LoadsOK'
    BY <1>2, <1>3, <1>4, LoadsFrame
  <1> QED
    BY <1>5, <1>6, <1>7, <1>8, <1>9, <1>10, <1>11

-------------------------------------------------------------------------------
(* Answers                                                                   *)

(* An answer that is taken; the messages of a conversation may be asked for. *)
Takes(k) ==
  \/ calls' = calls \ {k} /\ torn' = torn
  \/ \E c \in AIConversation, b \in BOOLEAN : Asks(c, b, calls \ {k})

(* What taking an answer keeps, whichever it is.                             *)
LEMMA TakesKeeps ==
  ASSUME PanelInv, NEW k \in calls, Takes(k), UNCHANGED <<events, host>>
  PROVE  /\ CallTypes' /\ EventTypes' /\ HostTypes' /\ torn' \subseteq Run /\ torn \subseteq torn'
         /\ \A l : l \in calls' /\ l.op # "load" => l \in calls
         /\ calls \ {k} \subseteq calls'
         /\ k.op # "load" => k \notin calls'
         /\ AnswersOK' /\ LifeOK' /\ LoadsOK'
  <1> USE DEF PanelInv
  <1>1. HostTypes' /\ EventTypes' /\ AnswersOK' /\ LifeOK'
    BY EventsFrame, AnswersFrame, LifeFrame DEF Types, HostTypes, host
  <1>2. CASE calls' = calls \ {k} /\ torn' = torn
    <2>1. CallTypes'
      BY <1>2 DEF Types, CallTypes, host
    <2>2. LoadsOK'
      BY <1>2, LoadsFrame DEF host
    <2> QED
      BY <1>1, <1>2, <2>1, <2>2 DEF Types, GhostTypes
  <1>3. CASE \E c \in AIConversation, b \in BOOLEAN : Asks(c, b, calls \ {k})
    <2>1. PICK c \in AIConversation, b \in BOOLEAN : Asks(c, b, calls \ {k})
      BY <1>3
    <2>2. /\ CallTypes' /\ torn' \subseteq Run /\ torn \subseteq torn'
          /\ \A l \in calls' : l.op # "load" => l \in calls
          /\ calls \ {k} \subseteq calls'
      BY <2>1, AsksTypes DEF host
    <2>3. LoadsOK'
      BY <2>1, AsksLoads DEF host
    <2>4. k.op # "load" => k \notin calls'
      <3>1. CallOf("load", c).op = "load"
        BY NewCall DEF Types, PanelTypes, Ops
      <3>2. [CallOf("load", c) EXCEPT !.opening = b].op = "load"
        BY <3>1 DEF CallOf
      <3> QED
        BY <2>1, <3>2 DEF Asks
    <2> QED
      BY <1>1, <2>2, <2>3, <2>4
  <1> QED
    BY <1>2, <1>3 DEF Takes

(* The configuration that comes is the one the host has.                     *)
LEMMA InitializedKeeps == ASSUME PanelInv, NEW k \in calls, Initialized(k) PROVE PanelInv'
  <1> USE DEF PanelInv
  <1>1. /\ k.op = "initialize" /\ k.state = "done"
        /\ config' = k.answer.settings /\ list' = k.answer.stored
        /\ UNCHANGED <<sending, running, shown, events, host, late, mixed, acts>>
    BY DEF Initialized
  <1>2. k \in Calls /\ config' \in Configs /\ k.answer.stored \subseteq AIConversation
    BY <1>1 DEF Types, CallTypes, Calls, Responses
  <1>3. Takes(k) /\ active' \in AIConversation \cup {None} /\ loading' \in BOOLEAN
    <2>1. PICK c \in (IF k.answer.stored = {} THEN {None}
                      ELSE IF active \in k.answer.stored THEN {active} ELSE k.answer.stored) :
            /\ active' = c
            /\ \/ /\ c # None /\ Asks(c, TRUE, calls \ {k})
                  /\ UNCHANGED loading
               \/ /\ c = None
                  /\ calls' = calls \ {k} /\ loading' = FALSE
                  /\ UNCHANGED torn
      BY DEF Initialized
    <2>2. c \in AIConversation \cup {None}
      BY <1>2, <2>1
    <2> QED
      BY <2>1, <2>2 DEF Takes, Types, PanelTypes
  <1>4. /\ CallTypes' /\ EventTypes' /\ HostTypes' /\ torn' \subseteq Run /\ torn \subseteq torn'
        /\ \A l : l \in calls' /\ l.op # "load" => l \in calls
        /\ calls \ {k} \subseteq calls'
        /\ k.op # "load" => k \notin calls'
        /\ AnswersOK' /\ LifeOK' /\ LoadsOK'
    BY <1>1, <1>3, TakesKeeps
  <1>5. PanelTypes' /\ GhostTypes'
    BY <1>1, <1>2, <1>3, <1>4 DEF Types, PanelTypes, GhostTypes
  <1>6. ConfigOK'
    <2> SUFFICES ASSUME ~mixed PROVE ConfigOK'
      BY <1>1 DEF ConfigOK
    <2>1. config' = settings /\ settings' = settings
      BY <1>1 DEF ConfigOK, Configures, host
    <2>2. \A l \in calls' : ~Configures(l)
      BY <1>1, <1>4 DEF ConfigOK, Configures
    <2>3. config'.consent => settings = [provider |-> config'.provider, consent |-> TRUE]
      BY <1>2, <2>1 DEF Configs
    <2> QED
      BY <1>1, <2>1, <2>2, <2>3 DEF ConfigOK
  <1>7. BlocksOK'
    <2>1. KeepsSends
      BY <1>1, <1>4 DEF KeepsSends
    <2> QED
      BY <1>1, <2>1, BlocksFrame, OngoingFrame DEF host, Types
  <1>8. ShownOK'
    <2>1. \A r \in Run : KeepsDone(r)
      BY <1>1, <1>4 DEF KeepsDone
    <2> QED
      BY <1>1, <1>4, <2>1, ShownFrame DEF host
  <1> QED
    BY <1>4, <1>5, <1>6, <1>7, <1>8 DEF Types

(* A call that failed keeps the invariant.                                   *)
LEMMA FailsKeeps == ASSUME PanelInv, NEW k \in calls, Fails(k) PROVE PanelInv'
  <1> USE DEF PanelInv
  <1>1. /\ k.op \in {"create", "delete"} /\ calls' = calls \ {k}
        /\ UNCHANGED <<panel, events, host, ghosts, acts>>
    BY DEF Fails
  <1>2. /\ CallTypes' /\ EventTypes' /\ HostTypes' /\ AnswersOK' /\ LifeOK' /\ LoadsOK'
    BY <1>1, TakesKeeps DEF Takes, ghosts
  <1>3. PanelTypes' /\ GhostTypes'
    BY <1>1 DEF Types, PanelTypes, GhostTypes, panel, ghosts
  <1>4. ConfigOK'
    BY <1>1, FewerCallsConfig DEF panel, host, ghosts
  <1>5. BlocksOK'
    <2>1. KeepsSends
      BY <1>1 DEF KeepsSends
    <2> QED
      BY <1>1, <2>1, BlocksFrame, OngoingFrame DEF host, Types, panel, ghosts
  <1>6. ShownOK'
    <2>1. \A r \in Run : KeepsDone(r)
      BY <1>1 DEF KeepsDone
    <2> QED
      BY <1>1, <2>1, ShownFrame DEF host, panel, ghosts
  <1> QED
    BY <1>2, <1>3, <1>4, <1>5, <1>6 DEF Types

(* A created conversation keeps the invariant.                               *)
LEMMA CreatedKeeps == ASSUME PanelInv, NEW k \in calls, Created(k) PROVE PanelInv'
  <1> USE DEF PanelInv
  <1>1. /\ k.op = "create" /\ k.state = "done" /\ calls' = calls \ {k}
        /\ list' = list \cup k.answer.stored /\ active' \in k.answer.stored
        /\ UNCHANGED <<config, loading, sending, running, shown, events, host, ghosts, acts>>
    BY DEF Created
  <1>2. k.answer.stored \subseteq AIConversation
    BY DEF Types, CallTypes, Calls, Responses
  <1>3. /\ CallTypes' /\ EventTypes' /\ HostTypes' /\ AnswersOK' /\ LifeOK' /\ LoadsOK'
    BY <1>1, TakesKeeps DEF Takes, ghosts
  <1>4. PanelTypes' /\ GhostTypes'
    BY <1>1, <1>2 DEF Types, PanelTypes, GhostTypes, ghosts
  <1>5. ConfigOK'
    BY <1>1, FewerCallsConfig DEF host, ghosts
  <1>6. BlocksOK'
    <2>1. KeepsSends
      BY <1>1 DEF KeepsSends
    <2> QED
      BY <1>1, <2>1, BlocksFrame, OngoingFrame DEF host, Types, ghosts
  <1>7. ShownOK'
    <2>1. \A r \in Run : KeepsDone(r)
      BY <1>1 DEF KeepsDone
    <2> QED
      BY <1>1, <2>1, ShownFrame DEF host, ghosts
  <1> QED
    BY <1>3, <1>4, <1>5, <1>6, <1>7 DEF Types

(* A deleted conversation is not stored, so nothing has to be shown of it.   *)
LEMMA DeletedKeeps == ASSUME PanelInv, NEW k \in calls, Deleted(k) PROVE PanelInv'
  <1> USE DEF PanelInv
  <1>1. /\ k.op = "delete" /\ k.state = "done" /\ list' = list \ {k.of}
        /\ shown' = [r \in Run |-> IF answer[r].of = k.of THEN NotShown ELSE shown[r]]
        /\ UNCHANGED <<config, loading, sending, running, events, host, late, mixed, acts>>
    BY DEF Deleted
  <1>2. list' \subseteq AIConversation
    BY <1>1 DEF Types, PanelTypes
  <1>3. Takes(k) /\ active' \in AIConversation \cup {None}
    <2>1. CASE active' = None /\ calls' = calls \ {k} /\ UNCHANGED torn
      BY <2>1 DEF Takes
    <2>2. CASE \E c \in list' : active' = c /\ Asks(c, FALSE, calls \ {k})
      BY <1>2, <2>2 DEF Takes
    <2> QED
      BY <2>1, <2>2 DEF Deleted
  <1>4. /\ CallTypes' /\ EventTypes' /\ HostTypes' /\ torn' \subseteq Run /\ torn \subseteq torn'
        /\ \A l : l \in calls' /\ l.op # "load" => l \in calls
        /\ calls \ {k} \subseteq calls'
        /\ AnswersOK' /\ LifeOK' /\ LoadsOK'
    BY <1>1, <1>3, TakesKeeps
  <1>5. PanelTypes' /\ GhostTypes'
    <2>1. NotShown \in Messages
      BY DEF NotShown, Messages, Statuses
    <2>2. shown' \in [Run -> Messages]
      BY <1>1, <2>1 DEF Types, PanelTypes
    <2> QED
      BY <1>1, <1>2, <1>3, <1>4, <2>2 DEF Types, PanelTypes, GhostTypes
  <1>6. ConfigOK'
    BY <1>1, <1>4, FewerCallsConfig DEF host, Configures
  <1>7. BlocksOK'
    <2>1. KeepsSends
      BY <1>1, <1>4 DEF KeepsSends
    <2> QED
      BY <1>1, <2>1, BlocksFrame, OngoingFrame DEF host, Types
  <1>8. ShownOK'
    <2>6. \A r \in Run : Unsent(r)'
      BY <1>1 DEF ShownOK, Unsent, host
    <2> SUFFICES ASSUME NEW r \in Run, answer'[r].of \in stored', r \notin torn'
                 PROVE  PiecesOK(r)' /\ StatusOK(r)'
      BY <2>6 DEF ShownOK
    <2>1. answer' = answer /\ stored' = stored /\ live' = live
      BY <1>1 DEF host
    <2>2. k.of \in gone
      BY <1>1 DEF Types, CallTypes
    <2>3. shown'[r] = shown[r]
      BY <1>1, <2>1, <2>2 DEF AnswersOK
    <2>4. PiecesOK(r) /\ StatusOK(r)
      BY <1>4, <2>1 DEF ShownOK
    <2>5. KeepsDone(r) /\ StreamStays(r)
      BY <1>1, <1>4, StreamSame DEF KeepsDone
    <2> QED
      BY <2>1, <2>3, <2>4, <2>5, RunFrame
  <1> QED
    BY <1>4, <1>5, <1>6, <1>7, <1>8 DEF Types

(* The messages of a conversation are all there is of the runs that no load  *)
(* tears.                                                                    *)
LEMMA LoadedKeeps == ASSUME PanelInv, NEW k \in calls, Loaded(k) PROVE PanelInv'
  <1> USE DEF PanelInv
  <1>1. /\ k.op = "load" /\ k.state \in {"done", "failed"} /\ calls' = calls \ {k}
        /\ loading' = (loading /\ ~k.opening)
        /\ shown' = IF k.state = "done" THEN Restored(k) ELSE shown
        /\ UNCHANGED <<config, list, active, sending, running, events, host, ghosts, acts>>
    BY DEF Loaded
  <1>2. /\ CallTypes' /\ EventTypes' /\ HostTypes' /\ AnswersOK' /\ LifeOK' /\ LoadsOK'
    BY <1>1, TakesKeeps DEF Takes, ghosts
  <1>3. \A r \in Run : \/ shown'[r] = shown[r] \/ shown'[r] = NotShown
                       \/ \E m \in k.answer.read :
                            /\ m[1] = r
                            /\ shown'[r] = [pieces |-> Count(m[2].pieces), status |-> m[2].status]
    BY <1>1 DEF Restored
  <1>4. PanelTypes' /\ GhostTypes'
    <2>1. NotShown \in Messages
      BY DEF NotShown, Messages, Statuses
    <2>2. ASSUME NEW r \in Run PROVE shown'[r] \in Messages
      <3>1. \A m \in k.answer.read : m[2] \in Answers
        BY DEF Types, CallTypes, Calls, Responses
      <3>2. \A m \in k.answer.read :
              [pieces |-> Count(m[2].pieces), status |-> m[2].status] \in Messages
        BY <3>1, Counted DEF Messages, Answers
      <3> QED
        BY <1>3, <2>1, <3>2 DEF Types, PanelTypes
    <2>3. shown' \in [Run -> Messages]
      BY <1>1, <2>2 DEF Restored, Types, PanelTypes
    <2> QED
      BY <1>1, <2>3 DEF Types, PanelTypes, GhostTypes, ghosts
  <1>5. ConfigOK'
    BY <1>1, FewerCallsConfig DEF host, ghosts
  <1>6. BlocksOK'
    <2>1. KeepsSends
      BY <1>1 DEF KeepsSends
    <2> QED
      BY <1>1, <2>1, BlocksFrame, OngoingFrame DEF host, Types, ghosts
  <1>7. ShownOK'
    <2>5. \A r \in Run : Unsent(r)'
      <3>1. k.of # None
        BY <1>1, AIPanelAssumption DEF Types, CallTypes
      <3> QED
        BY <1>1, <3>1 DEF Restored, ShownOK, Unsent, host
    <2> SUFFICES ASSUME NEW r \in Run, answer'[r].of \in stored', r \notin torn'
                 PROVE  PiecesOK(r)' /\ StatusOK(r)'
      BY <2>5 DEF ShownOK
    <2>1. answer' = answer /\ stored' = stored /\ live' = live /\ events' = events /\ torn' = torn
      BY <1>1 DEF host, ghosts
    <2>2. PiecesOK(r) /\ StatusOK(r)
      BY <2>1 DEF ShownOK
    <2>3. CASE shown'[r] = shown[r]
      <3>1. KeepsDone(r) /\ StreamStays(r)
        BY <1>1, <2>1, StreamSame DEF KeepsDone
      <3> QED
        BY <2>1, <2>2, <2>3, <3>1, RunFrame
    <2>4. CASE shown'[r] # shown[r]
      <3>1. k.state = "done" /\ answer[r].of = k.of
        BY <1>1, <2>4 DEF Restored
      <3>2. LoadOK(k, r)
        BY <1>1, <2>1, <3>1 DEF LoadsOK, RunsOf
      <3>3. shown'[r] = [pieces |-> Count(answer[r].pieces), status |-> answer[r].status]
        BY <1>1, <3>1, <3>2 DEF Restored, LoadOK
      <3>4. answer[r].pieces \in Nat /\ answer[r].status \in Final \cup {"streaming"}
        <4>1. answer[r] # NotSent
          BY <2>1, AIPanelAssumption DEF NotSent, Types, HostTypes
        <4> QED
          BY <4>1 DEF Types, HostTypes, Answers, AnswersOK
      <3>5. shown'[r] # NotShown /\ shown'[r].status # "none"
            /\ Len(shown'[r].pieces) = answer[r].pieces
        <4>1. shown'[r].status = answer[r].status /\ shown'[r].pieces = Count(answer[r].pieces)
          BY <3>3
        <4>2. Len(Count(answer[r].pieces)) = answer[r].pieces
          BY <3>4, Counted
        <4>3. answer[r].status # "none"
          BY <3>4 DEF Final
        <4> QED
          BY <4>1, <4>2, <4>3 DEF NotShown
      <3>6. PiecesOK(r)'
        BY <2>1, <3>2, <3>3, <3>4, <3>5 DEF PiecesOK, LoadOK
      <3>7. StatusOK(r)'
        BY <2>1, <3>2, <3>3, <3>5 DEF StatusOK, LoadOK
      <3> QED
        BY <3>6, <3>7
    <2> QED
      BY <2>3, <2>4
  <1> QED
    BY <1>2, <1>4, <1>5, <1>6, <1>7 DEF Types

(* The answer of a send blocks its conversation: by a run of which the end   *)
(* will come, or the conversation was lost.                                  *)
LEMMA SendReturnsKeeps == ASSUME PanelInv, NEW k \in calls, SendReturns(k) PROVE PanelInv'
  <1> USE DEF PanelInv
  <1>1. /\ k.op = "send" /\ k.state = "done" /\ calls' = calls \ {k}
        /\ config' = IF k.consent THEN [provider |-> k.provider, consent |-> TRUE] ELSE config
        /\ running' = [running EXCEPT ![k.of] = k.run]
        /\ shown' = [shown EXCEPT ![k.run] =
                       IF @ = NotShown THEN [@ EXCEPT !.status = "streaming"] ELSE @]
        /\ late' = IF Ongoing(k.run) THEN late ELSE late \cup {k.of}
        /\ UNCHANGED <<list, active, loading, sending, events, host, torn, mixed, acts>>
    BY DEF SendReturns
  <1>2. k \in Calls /\ k.of \in AIConversation /\ k.run \in Run /\ answer[k.run].of = k.of
    BY <1>1 DEF Types, CallTypes
  <1>3. /\ CallTypes' /\ EventTypes' /\ HostTypes' /\ AnswersOK' /\ LifeOK' /\ LoadsOK'
    BY <1>1, TakesKeeps DEF Takes
  <1>4. shown'[k.run] = IF shown[k.run] = NotShown THEN [pieces |-> <<>>, status |-> "streaming"]
                        ELSE shown[k.run]
    BY <1>1, <1>2 DEF Types, PanelTypes, NotShown
  <1>5. PanelTypes' /\ GhostTypes'
    <2>1. [pieces |-> <<>>, status |-> "streaming"] \in Messages
      BY DEF Messages, Statuses
    <2>2. shown' \in [Run -> Messages]
      BY <1>1, <1>2, <1>4, <2>1 DEF Types, PanelTypes
    <2>3. config' \in Configs
      BY <1>1, <1>2 DEF Types, PanelTypes, Configs, Calls
    <2>4. running' \in [AIConversation -> Run \cup {0}]
      BY <1>1, <1>2 DEF Types, PanelTypes
    <2> QED
      BY <1>1, <1>2, <2>2, <2>3, <2>4 DEF Types, PanelTypes, GhostTypes
  <1>6. ConfigOK'
    <2> SUFFICES ASSUME ~mixed PROVE ConfigOK'
      BY <1>1 DEF ConfigOK
    <2>1. \A l \in calls' : ~Configures(l)
      BY <1>1 DEF ConfigOK, Configures
    <2>2. config'.consent => settings = [provider |-> config'.provider, consent |-> TRUE]
      BY <1>1 DEF ConfigOK, Configures
    <2> QED
      BY <1>1, <2>1, <2>2 DEF ConfigOK, host
  <1>7. BlocksOK'
    <2> SUFFICES ASSUME NEW c \in AIConversation, ~Lost(c)' PROVE BlockOK(c)'
      BY DEF BlocksOK
    <2>1. \A r : Ongoing(r)' <=> Ongoing(r)
      BY <1>1 DEF Ongoing, Over, host
    <2>2. ~Lost(c)
      <3>1. c \notin late
        BY <1>1 DEF Lost
      <3>2. ASSUME NEW l \in Sends(c), l.state = "done", ~Ongoing(l.run) PROVE FALSE
        <4>1. CASE l = k
          BY <1>1, <3>2, <4>1 DEF Lost, Sends
        <4>2. CASE l # k
          BY <1>1, <2>1, <3>2, <4>2 DEF Lost, Sends
        <4> QED
          BY <4>1, <4>2
      <3> QED
        BY <3>1, <3>2 DEF Lost
    <2>3. BlockOK(c)
      BY <2>2 DEF BlocksOK
    <2>4. OngoingOf(c)' = OngoingOf(c)
      BY <1>1, <2>1 DEF OngoingOf, RunsOf, host
    <2>5. CASE c # k.of
      <3>1. Sends(c)' = Sends(c)
        BY <1>1, <2>5 DEF Sends
      <3>2. running'[c] = running[c] /\ sending' = sending
        BY <1>1, <1>2, <2>5 DEF Types, PanelTypes
      <3> QED
        BY <2>3, <2>4, <3>1, <3>2 DEF BlockOK
    <2>6. CASE c = k.of
      <3>1. k \in Sends(c) /\ c \in sending
        BY <1>1, <2>3, <2>6 DEF Sends, BlockOK
      <3>2. Sends(c)' = {}
        BY <1>1, <2>3, <3>1 DEF Sends, BlockOK
      <3>3. k.run \in OngoingOf(c)
        BY <1>1, <1>2, <2>2, <2>6, <3>1 DEF OngoingOf, RunsOf, Lost
      <3>4. running'[c] = k.run /\ sending' = sending
        BY <1>1, <1>2, <2>6 DEF Types, PanelTypes
      <3> QED
        BY <2>3, <2>4, <3>1, <3>2, <3>3, <3>4 DEF BlockOK
    <2> QED
      BY <2>5, <2>6
  <1>8. ShownOK'
    <2>6. \A r \in Run : Unsent(r)'
      <3>1. k.of # None
        BY <1>2, AIPanelAssumption
      <3> QED
        BY <1>1, <1>2, <3>1 DEF Types, PanelTypes, ShownOK, Unsent, host
    <2> SUFFICES ASSUME NEW r \in Run, answer'[r].of \in stored', r \notin torn'
                 PROVE  PiecesOK(r)' /\ StatusOK(r)'
      BY <2>6 DEF ShownOK
    <2>1. answer' = answer /\ stored' = stored /\ live' = live /\ events' = events /\ torn' = torn
      BY <1>1 DEF host
    <2>2. PiecesOK(r) /\ StatusOK(r)
      BY <2>1 DEF ShownOK
    <2>3. CASE r = k.run /\ shown[r] = NotShown
      <3>1. shown'[r] = [pieces |-> <<>>, status |-> "streaming"]
        BY <1>4, <2>3
      <3>2. shown'[r].pieces = shown[r].pieces /\ shown'[r].status = "streaming"
        BY <2>3, <3>1 DEF NotShown
      <3>3. shown'[r] # NotShown
        BY <3>2 DEF NotShown
      <3>4. PiecesOK(r)'
        BY <2>1, <2>2, <3>2 DEF PiecesOK
      <3>5. StatusOK(r)'
        BY <2>1, <2>2, <2>3, <3>2, <3>3 DEF StatusOK
      <3> QED
        BY <3>4, <3>5
    <2>4. CASE r = k.run /\ shown[r] # NotShown
      <3>1. shown'[r] = shown[r]
        BY <1>4, <2>4
      <3>2. PiecesOK(r)'
        BY <2>1, <2>2, <3>1 DEF PiecesOK
      <3>3. StatusOK(r)'
        BY <2>1, <2>2, <2>4, <3>1 DEF StatusOK
      <3> QED
        BY <3>2, <3>3
    <2>5. CASE r # k.run
      <3>1. shown'[r] = shown[r]
        BY <1>1, <1>2, <2>5 DEF Types, PanelTypes
      <3>2. KeepsDone(r) /\ StreamStays(r)
        BY <1>1, <2>1, <2>5, StreamSame DEF KeepsDone
      <3> QED
        BY <2>1, <2>2, <3>1, <3>2, RunFrame
    <2> QED
      BY <2>3, <2>4, <2>5
  <1> QED
    BY <1>3, <1>5, <1>6, <1>7, <1>8 DEF Types

(* A send that failed releases its conversation, which has no run.           *)
LEMMA SendFailsKeeps == ASSUME PanelInv, NEW k \in calls, SendFails(k) PROVE PanelInv'
  <1> USE DEF PanelInv
  <1>1. /\ k.op = "send" /\ k.state = "failed" /\ calls' = calls \ {k}
        /\ sending' = sending \ {k.of}
        /\ UNCHANGED <<config, list, active, loading, running, shown, events, host, ghosts, acts>>
    BY DEF SendFails
  <1>2. k.of \in AIConversation
    BY <1>1 DEF Types, CallTypes
  <1>3. /\ CallTypes' /\ EventTypes' /\ HostTypes' /\ AnswersOK' /\ LifeOK' /\ LoadsOK'
    BY <1>1, TakesKeeps DEF Takes, ghosts
  <1>4. PanelTypes' /\ GhostTypes'
    BY <1>1 DEF Types, PanelTypes, GhostTypes, ghosts
  <1>5. ConfigOK'
    BY <1>1, FewerCallsConfig DEF host, ghosts
  <1>6. BlocksOK'
    <2> SUFFICES ASSUME NEW c \in AIConversation, ~Lost(c)' PROVE BlockOK(c)'
      BY DEF BlocksOK
    <2>1. \A r : Ongoing(r)' <=> Ongoing(r)
      BY <1>1 DEF Ongoing, Over, host
    <2>2. ~Lost(c)
      BY <1>1, <2>1 DEF Lost, Sends, ghosts
    <2>3. BlockOK(c)
      BY <2>2 DEF BlocksOK
    <2>4. OngoingOf(c)' = OngoingOf(c)
      BY <1>1, <2>1 DEF OngoingOf, RunsOf, host
    <2>5. CASE c # k.of
      <3>1. Sends(c)' = Sends(c) /\ (c \in sending' <=> c \in sending)
        BY <1>1, <2>5 DEF Sends
      <3> QED
        BY <1>1, <2>3, <2>4, <3>1 DEF BlockOK
    <2>6. CASE c = k.of
      <3>1. k \in Sends(c) /\ OngoingOf(c) = {}
        BY <1>1, <2>3, <2>6 DEF Sends, BlockOK
      <3>2. Sends(c)' = {}
        BY <1>1, <2>3, <3>1 DEF Sends, BlockOK
      <3> QED
        BY <1>1, <2>3, <2>4, <2>6, <3>1, <3>2 DEF BlockOK
    <2> QED
      BY <2>5, <2>6
  <1>7. ShownOK'
    <2>1. \A r \in Run : KeepsDone(r)
      BY <1>1 DEF KeepsDone
    <2> QED
      BY <1>1, <2>1, ShownFrame DEF host, ghosts
  <1> QED
    BY <1>3, <1>4, <1>5, <1>6, <1>7 DEF Types

-------------------------------------------------------------------------------
(* The host answers                                                          *)

(* The answer of the host to a call that is not a send.                      *)
LEMMA AnsweredKeeps ==
  ASSUME PanelInv, NEW k \in calls, k.op # "send",
         NEW state \in {"done", "failed", "stopping"}, NEW r \in Run \cup {0},
         NEW a \in Responses, Answered(k, state, r, a),
         UNCHANGED <<panel, events, answer, live, ghosts, acts>>
  PROVE  /\ PanelTypes' /\ EventTypes' /\ GhostTypes' /\ LifeOK' /\ BlocksOK'
         /\ \E l \in Calls : /\ calls' = (calls \ {k}) \cup {l}
                             /\ l.op = k.op /\ l.of = k.of /\ l.provider = k.provider
                             /\ l.state = state /\ l.answer = a
         /\ \A q \in Run : KeepsDone(q)
  <1> USE DEF PanelInv
  <1> DEFINE new == [k EXCEPT !.state = state, !.run = r, !.answer = a]
  <1>1. calls' = (calls \ {k}) \cup {new}
    BY DEF Answered
  <1>2. /\ new \in Calls /\ new.op = k.op /\ new.of = k.of /\ new.state = state /\ new.answer = a
        /\ new.provider = k.provider
    BY DEF Types, CallTypes, Calls
  <1> HIDE DEF new
  <1>3. PanelTypes' /\ GhostTypes'
    BY DEF Types, PanelTypes, GhostTypes, panel, ghosts
  <1>4. EventTypes' /\ LifeOK'
    BY EventsFrame, LifeFrame DEF Types
  <1>5. BlocksOK'
    <2>1. KeepsSends
      BY <1>1, <1>2 DEF KeepsSends
    <2> QED
      BY <2>1, BlocksFrame, OngoingFrame DEF Types, panel, ghosts
  <1>6. \A q \in Run : KeepsDone(q)
    BY <1>1 DEF KeepsDone
  <1> QED
    BY <1>1, <1>2, <1>3, <1>4, <1>5, <1>6

(* HostLists keeps the invariant.                                            *)
LEMMA ListsKeeps == ASSUME PanelInv, NEW k \in calls, HostLists(k) PROVE PanelInv'
  <1> USE DEF PanelInv
  <1> DEFINE a == Response(stored, settings, {})
  <1>1. /\ k.op = "initialize" /\ k.state = "sent" /\ Answered(k, "done", 0, a)
        /\ UNCHANGED <<panel, events, host, ghosts, acts>>
    BY DEF HostLists
  <1>2. a \in Responses /\ a.settings = settings /\ settings \in Configs
    BY DEF Response, Responses, Types, HostTypes
  <1> HIDE DEF a
  <1>3. /\ PanelTypes' /\ EventTypes' /\ GhostTypes' /\ LifeOK' /\ BlocksOK'
        /\ \E l \in Calls : /\ calls' = (calls \ {k}) \cup {l}
                            /\ l.op = k.op /\ l.of = k.of /\ l.provider = k.provider
                            /\ l.state = "done" /\ l.answer = a
        /\ \A r \in Run : KeepsDone(r)
    BY <1>1, <1>2, AnsweredKeeps DEF host
  <1> PICK new \in Calls : /\ calls' = (calls \ {k}) \cup {new}
                           /\ new.op = k.op /\ new.of = k.of /\ new.provider = k.provider
                           /\ new.state = "done" /\ new.answer = a
    BY <1>3
  <1>4. UNCHANGED <<config, shown, stored, gone, settings, answer, live, unsaid, torn, mixed>>
    BY <1>1 DEF panel, host, ghosts
  <1>5. HostTypes' /\ AnswersOK'
    BY <1>4, AnswersFrame DEF Types, HostTypes
  <1>6. CallTypes'
    BY <1>1, <1>2, <1>3, <1>4 DEF Types, CallTypes
  <1>7. ConfigOK'
    <2> SUFFICES ASSUME ~mixed PROVE ConfigOK'
      BY <1>4 DEF ConfigOK
    <2>1. \A l \in calls' : Configures(l) => l = new
      BY <1>1 DEF ConfigOK, Configures
    <2> QED
      BY <1>1, <1>2, <1>4, <2>1 DEF ConfigOK
  <1>8. ShownOK' /\ LoadsOK'
    BY <1>1, <1>3, <1>4, ShownFrame, LoadsFrame
  <1> QED
    BY <1>3, <1>5, <1>6, <1>7, <1>8 DEF Types

(* HostReads keeps the invariant.                                            *)
LEMMA ReadsKeeps == ASSUME PanelInv, NEW k \in calls, HostReads(k) PROVE PanelInv'
  <1> USE DEF PanelInv
  <1> DEFINE a == Response({}, None, {<<r, answer[r]>> : r \in RunsOf(k.of)})
             state == IF k.of \in stored THEN "done" ELSE "failed"
  <1>1. /\ k.op = "load" /\ k.state = "sent" /\ Answered(k, state, 0, a)
        /\ UNCHANGED <<panel, events, host, ghosts, acts>>
    BY DEF HostReads
  <1>2. a \in Responses /\ a.read = {<<r, answer[r]>> : r \in RunsOf(k.of)}
    BY DEF Response, Responses, Types, HostTypes, RunsOf
  <1>3. state \in {"done", "failed"}
    OBVIOUS
  <1> HIDE DEF a, state
  <1>4. /\ PanelTypes' /\ EventTypes' /\ GhostTypes' /\ LifeOK' /\ BlocksOK'
        /\ \E l \in Calls : /\ calls' = (calls \ {k}) \cup {l}
                            /\ l.op = k.op /\ l.of = k.of /\ l.provider = k.provider
                            /\ l.state = state /\ l.answer = a
        /\ \A r \in Run : KeepsDone(r)
    BY <1>1, <1>2, <1>3, AnsweredKeeps DEF host
  <1> PICK new \in Calls : /\ calls' = (calls \ {k}) \cup {new}
                           /\ new.op = k.op /\ new.of = k.of /\ new.provider = k.provider
                           /\ new.state = state /\ new.answer = a
    BY <1>4
  <1>5. UNCHANGED <<config, shown, stored, gone, settings, answer, live, unsaid, torn, mixed,
                 events>>
    BY <1>1 DEF panel, host, ghosts
  <1>6. HostTypes' /\ AnswersOK'
    BY <1>5, AnswersFrame DEF Types, HostTypes
  <1>7. CallTypes'
    BY <1>1, <1>3, <1>4, <1>5 DEF Types, CallTypes
  <1>8. ConfigOK'
    BY <1>1, <1>5, FewerCallsConfig DEF Configures
  <1>9. ShownOK'
    BY <1>4, <1>5, ShownFrame
  <1>10. LoadsOK'
    <2> SUFFICES ASSUME NEW l \in calls', l.op = "load", NEW r \in (RunsOf(l.of) \ torn)'
                 PROVE  LoadOK(l, r)'
      BY DEF LoadsOK
    <2>1. r \in RunsOf(l.of) \ torn
      BY <1>5 DEF RunsOf
    <2>2. CASE l \in calls
      BY <1>5, <2>1, <2>2 DEF LoadsOK, LoadOK, Piece, Last
    <2>3. CASE l = new
      <3>1. LoadOK(k, r)
        BY <1>1, <2>1, <2>3 DEF LoadsOK
      <3>2. <<r, answer[r]>> \in a.read
        BY <1>2, <2>1, <2>3
      <3>3. \A m \in a.read : m[2] = answer[m[1]]
        BY <1>2
      <3> QED
        BY <1>5, <2>3, <3>1, <3>2, <3>3 DEF LoadOK
    <2> QED
      BY <2>2, <2>3
  <1> QED
    BY <1>4, <1>6, <1>7, <1>8, <1>9, <1>10 DEF Types

(* HostCreates keeps the invariant, failing or not: a consent that is the    *)
(* panel's was given to the provider that is stored.                         *)
LEMMA HostCreatesKeeps == ASSUME PanelInv, NEW k \in calls, HostCreates(k) PROVE PanelInv'
  <1> USE DEF PanelInv
  <1>1. /\ k.op = "create" /\ k.state = "sent"
        /\ UNCHANGED <<panel, events, gone, answer, live, unsaid, ghosts, acts>>
    BY DEF HostCreates
  <1>2. UNCHANGED <<config, shown, late, torn, mixed>>
    BY <1>1 DEF panel, ghosts
  <1>3. PICK state \in {"done", "failed"}, a \in Responses :
          /\ Answered(k, state, 0, a)
          /\ \/ UNCHANGED stored
             \/ \E c \in AIConversation \ (stored \cup gone) : stored' = stored \cup {c}
          /\ settings' \in {settings, Reconfigured(k)}
    <2>1. /\ NoAnswer \in Responses
          /\ \A c \in AIConversation : Response({c}, None, {}) \in Responses
      BY DEF NoAnswer, Response, Responses
    <2>2. CASE \E c \in AIConversation \ (stored \cup gone) :
                  /\ stored' = stored \cup {c}
                  /\ settings' = Reconfigured(k)
                  /\ Answered(k, "done", 0, Response({c}, None, {}))
      BY <2>1, <2>2
    <2>3. CASE /\ settings' \in {settings, Reconfigured(k)}
               /\ Answered(k, "failed", 0, NoAnswer)
               /\ UNCHANGED stored
      BY <2>1, <2>3
    <2> QED
      BY <2>2, <2>3 DEF HostCreates
  <1>4. /\ PanelTypes' /\ EventTypes' /\ GhostTypes' /\ LifeOK' /\ BlocksOK'
        /\ \E l \in Calls : /\ calls' = (calls \ {k}) \cup {l}
                            /\ l.op = k.op /\ l.of = k.of /\ l.provider = k.provider
                            /\ l.state = state /\ l.answer = a
        /\ \A r \in Run : KeepsDone(r)
    BY <1>1, <1>3, AnsweredKeeps
  <1> PICK new \in Calls : /\ calls' = (calls \ {k}) \cup {new}
                           /\ new.op = k.op /\ new.of = k.of /\ new.provider = k.provider
                           /\ new.state = state /\ new.answer = a
    BY <1>4
  <1>5. /\ stored \subseteq stored' /\ stored' \subseteq AIConversation /\ stored' \cap gone = {}
        /\ \A r \in Run : answer[r].of \in stored' => answer[r].of \in stored
    <2>1. CASE UNCHANGED stored
      BY <2>1 DEF Types, HostTypes, AnswersOK
    <2>2. CASE \E c \in AIConversation \ (stored \cup gone) : stored' = stored \cup {c}
      <3>1. PICK c \in AIConversation \ (stored \cup gone) : stored' = stored \cup {c}
        BY <2>2
      <3>2. \A r \in Run : answer[r].of # c
        BY AIPanelAssumption DEF AnswersOK, NotSent
      <3> QED
        BY <3>1, <3>2 DEF Types, HostTypes, AnswersOK
    <2> QED
      BY <1>3, <2>1, <2>2
  <1>6. settings' \in Configs /\ (~mixed /\ config.consent => settings' = settings)
    <2>1. CASE UNCHANGED settings
      BY <2>1 DEF Types, HostTypes
    <2>2. CASE settings' = Reconfigured(k)
      <3>1. k.provider \in Provider
        BY DEF Types, CallTypes, Calls
      <3>2. ~mixed /\ config.consent =>
              settings = [provider |-> k.provider, consent |-> TRUE]
        BY <1>1 DEF ConfigOK, Configures
      <3>3. settings' \in Configs
        BY <2>2, <3>1 DEF Configs, Reconfigured
      <3>4. ASSUME ~mixed, config.consent PROVE settings' = settings
        <4>1. settings = [provider |-> k.provider, consent |-> TRUE]
          BY <3>2, <3>4
        <4>2. (settings.consent /\ settings.provider = k.provider) = TRUE
          BY <4>1
        <4> QED
          BY <2>2, <4>1, <4>2 DEF Reconfigured
      <3> QED
        BY <3>3, <3>4
    <2> QED
      BY <1>3, <2>1, <2>2
  <1>7. HostTypes' /\ AnswersOK'
    BY <1>1, <1>5, <1>6 DEF Types, HostTypes, AnswersOK
  <1>8. CallTypes'
    BY <1>1, <1>5 DEF Types, CallTypes
  <1>9. ConfigOK'
    <2> SUFFICES ASSUME ~mixed PROVE ConfigOK'
      BY <1>2 DEF ConfigOK
    <2>1. \A l \in calls' : Configures(l) => l = new
      BY <1>1 DEF ConfigOK, Configures
    <2>2. config'.consent => settings' = [provider |-> config'.provider, consent |-> TRUE]
      BY <1>2, <1>6 DEF ConfigOK
    <2> QED
      BY <1>1, <1>3, <2>1, <2>2 DEF ConfigOK
  <1>10. ShownOK' /\ LoadsOK'
    BY <1>1, <1>2, <1>4, <1>5, ShownFrame, LoadsFrame
  <1> QED
    BY <1>4, <1>7, <1>8, <1>9, <1>10 DEF Types

(* HostDeletes keeps the invariant: a run that is live keeps its             *)
(* conversation.                                                             *)
LEMMA HostDeletesKeeps == ASSUME PanelInv, NEW k \in calls, HostDeletes(k) PROVE PanelInv'
  <1> USE DEF PanelInv
  <1>1. /\ k.op = "delete" /\ k.state = "sent"
        /\ UNCHANGED <<panel, events, settings, answer, live, unsaid, ghosts, acts>>
    BY DEF HostDeletes
  <1>2. UNCHANGED <<config, shown, late, torn, mixed>>
    BY <1>1 DEF panel, ghosts
  <1>3. NoAnswer \in Responses
    BY DEF NoAnswer, Response, Responses
  <1>4. PICK state \in {"done", "failed"} :
          /\ Answered(k, state, 0, NoAnswer)
          /\ \/ /\ ~BusyOn(k.of)
                /\ stored' = stored \ {k.of} /\ gone' = gone \cup {k.of}
             \/ state = "failed" /\ UNCHANGED <<stored, gone>>
    BY DEF HostDeletes
  <1>5. /\ PanelTypes' /\ EventTypes' /\ GhostTypes' /\ LifeOK' /\ BlocksOK'
        /\ \E l \in Calls : /\ calls' = (calls \ {k}) \cup {l}
                            /\ l.op = k.op /\ l.of = k.of /\ l.provider = k.provider
                            /\ l.state = state /\ l.answer = NoAnswer
        /\ \A r \in Run : KeepsDone(r)
    BY <1>1, <1>3, <1>4, AnsweredKeeps
  <1> PICK new \in Calls : /\ calls' = (calls \ {k}) \cup {new}
                           /\ new.op = k.op /\ new.of = k.of /\ new.provider = k.provider
                           /\ new.state = state /\ new.answer = NoAnswer
    BY <1>5
  <1>6. k.of \in AIConversation
    BY <1>1 DEF Types, CallTypes
  <1>7. HostTypes'
    BY <1>1, <1>4, <1>6 DEF Types, HostTypes
  <1>8. AnswersOK'
    BY <1>1, <1>4 DEF AnswersOK, BusyOn
  <1>9. CallTypes'
    BY <1>1, <1>4, <1>6 DEF Types, CallTypes
  <1>10. ConfigOK'
    BY <1>1, <1>2, FewerCallsConfig DEF Configures
  <1>11. ShownOK' /\ LoadsOK'
    BY <1>1, <1>2, <1>4, <1>5, ShownFrame, LoadsFrame
  <1> QED
    BY <1>5, <1>7, <1>8, <1>9, <1>10, <1>11 DEF Types

-------------------------------------------------------------------------------
(* Runs                                                                      *)

(* An event of a live run.                                                   *)
LEMMA EventOf ==
  ASSUME Types, AnswersOK, NEW r \in live, NEW n \in Nat,
         NEW kind \in {"running", "over", "piece"} \cup Final
  PROVE  /\ r \in Run /\ answer[r].of \in AIConversation /\ answer[r].of \in stored
         /\ Event(kind, r, answer[r].of, n) \in Events
         /\ Event(kind, r, answer[r].of, n).run = r /\ Event(kind, r, answer[r].of, n).kind = kind
         /\ Event(kind, r, answer[r].of, n).of = answer[r].of
         /\ Event(kind, r, answer[r].of, n).piece = n
  BY DEF Types, HostTypes, AnswersOK, Event, Events

(* A run ends and its end is announced; of what follows nothing matters here *)
(* but that it does not announce another beginning or end.                   *)
LEMMA EndedLife ==
  ASSUME PanelInv, NEW r \in live, live' = live \ {r}, NEW n \in Nat, n = Len(events),
         \A i \in DOMAIN events : i \in DOMAIN events' /\ events'[i] = events[i],
         n + 1 \in DOMAIN events', events'[n + 1].run = r, events'[n + 1].kind = "over",
         \A i \in DOMAIN events' : \/ i \in DOMAIN events \/ i = n + 1
                                   \/ events'[i].kind \notin {"running", "over"},
         DOMAIN events = 1..n
  PROVE  /\ LifeOK' /\ \A q \in Run : Ongoing(q)' <=> Ongoing(q)
  <1> USE DEF PanelInv
  <1>1. \A q \in Run : Ongoing(q)' <=> Ongoing(q)
    BY DEF Ongoing, Over
  <1>2. \A i \in DOMAIN events : ~(events[i].run = r /\ events[i].kind = "over")
    BY DEF LifeOK
  <1>3. ASSUME NEW i \in DOMAIN events', events'[i].kind = "running", NEW q, q = events'[i].run
        PROVE  Ongoing(q)'
    <2>1. i \in DOMAIN events /\ events'[i] = events[i]
      BY <1>3
    <2>2. Ongoing(events[i].run)
      BY <1>3, <2>1 DEF LifeOK
    <2>3. q \in Run /\ Ongoing(q)
      BY <1>3, <2>1, <2>2, EventAt DEF Types
    <2> QED
      BY <1>1, <2>3
  <1>4. \A i \in DOMAIN events' : events'[i].kind = "over" => events'[i].run \notin live'
    BY DEF LifeOK
  <1>5. \A i, j \in DOMAIN events' : events'[i].run = events'[j].run =>
          /\ events'[i].kind = "over" /\ events'[j].kind = "over" => i = j
          /\ events'[i].kind = "running" /\ events'[j].kind = "over" => i < j
    <2> SUFFICES ASSUME NEW i \in DOMAIN events', NEW j \in DOMAIN events',
                        events'[i].run = events'[j].run, events'[j].kind = "over"
                 PROVE  /\ events'[i].kind = "over" => i = j
                        /\ events'[i].kind = "running" => i < j
      OBVIOUS
    <2>1. CASE j \in DOMAIN events
      BY <1>2, <2>1 DEF LifeOK
    <2>2. CASE j = n + 1
      BY <1>2, <2>2
    <2> QED
      BY <2>1, <2>2
  <1> QED
    BY <1>1, <1>3, <1>4, <1>5 DEF LifeOK, Ongoing, Over

(* Events of r follow those on their way.                                    *)
Grows(r) ==
  /\ events' \in Seq(Events)
  /\ \A i \in DOMAIN events : i \in DOMAIN events' /\ events'[i] = events[i]
  /\ \A i \in DOMAIN events' :
       i \in DOMAIN events \/ (events'[i].run = r /\ events'[i].of = answer[r].of)

(* A step that tears a live run, and tells only of it, keeps the invariant:  *)
(* of what is torn nothing is claimed.                                       *)
LEMMA TornKeeps ==
  ASSUME PanelInv, NEW r \in live, Grows(r), torn' = torn \cup {r},
         answer' \in [Run -> Answers], \A q \in Run : answer'[q].of = answer[q].of,
         \A q \in Run : q # r => answer'[q] = answer[q],
         \/ live' = live /\ answer'[r].status = answer[r].status
         \/ live' = live \ {r} /\ answer'[r].status \in Final \cup {"streaming"},
         LifeOK', \A q \in Run : Ongoing(q)' <=> Ongoing(q), unsaid' \in [Run -> Nat],
         calls' \subseteq calls, \A k \in calls : k.op # "stop" => k \in calls',
         UNCHANGED <<panel, stored, gone, settings, late, mixed, acts>>
  PROVE  PanelInv'
  <1> USE DEF PanelInv
  <1>1. r \in Run /\ answer[r].of \in stored /\ answer[r].of \in AIConversation
    BY DEF Types, HostTypes, AnswersOK
  <1>2. live' \subseteq live
    OBVIOUS
  <1>3. UNCHANGED <<config, list, active, loading, sending, running, shown>>
    BY DEF panel
  <1>4. Types'
    <2>1. EventTypes'
      <3>1. ASSUME NEW i \in DOMAIN events' PROVE answer'[events'[i].run].of = events'[i].of
        BY <1>1, EventAt DEF Types, Grows
      <3> QED
        BY <3>1 DEF EventTypes, Grows
    <2>2. PanelTypes'
      BY <1>3 DEF Types, PanelTypes
    <2>3. HostTypes'
      BY <1>2 DEF Types, HostTypes
    <2>4. GhostTypes'
      BY <1>1 DEF Types, GhostTypes
    <2>5. CallTypes'
      BY DEF Types, CallTypes
    <2> QED
      BY <2>1, <2>2, <2>3, <2>4, <2>5 DEF Types
  <1>5. AnswersOK'
    <2>1. answer[r] # NotSent
      BY <1>1, AIPanelAssumption DEF NotSent
    <2>2. \A q \in Run : answer'[q] # NotSent => answer[q] # NotSent
      BY <2>1
    <2>3. /\ stored \cap gone = {} /\ live \subseteq Run
          /\ \A q \in Run : answer[q] # NotSent =>
               /\ answer[q].of \in stored \cup gone
               /\ answer[q].status \in Final \cup {"streaming"}
          /\ \A q \in live : answer[q].of \in stored /\ answer[q].status = "streaming"
          /\ \A q, p \in live : answer[q].of = answer[p].of => q = p
      BY DEF AnswersOK, Types, HostTypes
    <2>4. answer'[r].status \in Final \cup {"streaming"}
      BY <2>3
    <2>5. \A q \in live' : answer'[q].status = answer[q].status
      BY <1>2, <2>3
    <2> QED
      BY <1>2, <2>2, <2>3, <2>4, <2>5 DEF AnswersOK
  <1>6. ConfigOK'
    BY <1>3, FewerCallsConfig DEF Configures
  <1>7. BlocksOK'
    <2>1. KeepsSends
      BY DEF KeepsSends
    <2> QED
      BY <1>3, <2>1, BlocksFrame DEF Types
  <1>8. ShownOK'
    <2>1. \A q \in Run : Unsent(q)'
      BY <1>3 DEF ShownOK, Unsent
    <2> SUFFICES ASSUME NEW q \in Run, answer'[q].of \in stored', q \notin torn'
                 PROVE  PiecesOK(q)' /\ StatusOK(q)'
      BY <2>1 DEF ShownOK
    <2>2. q # r /\ q \notin torn /\ answer'[q] = answer[q]
      OBVIOUS
    <2>3. PiecesOK(q) /\ StatusOK(q)
      BY <2>2 DEF ShownOK
    <2>4. StreamStays(q) /\ KeepsDone(q)
      BY <2>2 DEF Grows, StreamStays, KeepsDone, Piece, Last
    <2> QED
      BY <1>2, <1>3, <2>2, <2>3, <2>4, RunFrame
  <1>9. LoadsOK'
    <2> SUFFICES ASSUME NEW k \in calls', k.op = "load", NEW q \in (RunsOf(k.of) \ torn)'
                 PROVE  LoadOK(k, q)'
      BY DEF LoadsOK
    <2>1. q \in RunsOf(k.of) \ torn /\ q # r /\ q \in Run
      BY DEF RunsOf
    <2>2. LoadOK(k, q)
      BY <2>1 DEF LoadsOK
    <2>3. \A i \in DOMAIN events' : ~(Piece(events'[i], q) \/ Last(events'[i], q))
      BY <2>1, <2>2 DEF Grows, LoadOK, Piece, Last
    <2> QED
      BY <1>2, <2>1, <2>2, <2>3 DEF LoadOK
  <1> QED
    BY <1>4, <1>5, <1>6, <1>7, <1>8, <1>9

(* The status of an answer is stored, or it is not.                          *)
LEMMA StatusStored ==
  ASSUME Types, NEW r \in Run, NEW status \in Final,
         answer' = [answer EXCEPT ![r].status = status] \/ UNCHANGED answer
  PROVE  /\ answer' \in [Run -> Answers]
         /\ \A q \in Run : answer'[q].of = answer[q].of /\ (q # r => answer'[q] = answer[q])
         /\ answer'[r].pieces = answer[r].pieces
         /\ answer'[r].status = IF answer' = answer THEN answer[r].status ELSE status
  BY DEF Types, HostTypes, Answers, Statuses

(* A run that the host ends itself: its end is announced, what is shown of   *)
(* it is torn.                                                               *)
LEMMA SilentKeeps ==
  ASSUME PanelInv, NEW r \in live, NEW status \in {"error", "cancelled"}, EndsSilently(r, status),
         calls' \subseteq calls, \A k \in calls : k.op # "stop" => k \in calls',
         UNCHANGED <<panel, stored, gone, settings, unsaid, late, mixed, acts>>
  PROVE  PanelInv'
  <1> USE DEF PanelInv
  <1> DEFINE e == Event("over", r, answer[r].of, 0)
             n == Len(events)
  <1>1. /\ live' = live \ {r} /\ torn' = torn \cup {r}
        /\ answer' = [answer EXCEPT ![r].status = status] \/ UNCHANGED answer
        /\ events' = Append(events, e) \/ \E f \in InHand(r) : events' = events \o <<e, f>>
    BY DEF EndsSilently, HostEnds
  <1>2. /\ r \in Run /\ answer[r].of \in AIConversation /\ answer[r].of \in stored /\ e \in Events
        /\ e.run = r /\ e.kind = "over" /\ e.of = answer[r].of
    BY EventOf
  <1>3. ASSUME NEW f \in InHand(r)
        PROVE  /\ f \in Events /\ f.run = r /\ f.of = answer[r].of
               /\ f.kind \notin {"running", "over"}
    <2>1. \A status_1 \in LastEvent : status_1 \in Final
      BY AIPanelAssumption DEF Final
    <2>2. PICK kind \in {"piece"} \cup Final : f = Event(kind, r, answer[r].of, 0)
      BY <2>1 DEF InHand
    <2>3. kind \notin {"running", "over"}
      BY DEF Final
    <2> QED
      BY <2>2, <2>3, EventOf
  <1> HIDE DEF e
  <1>4. /\ answer' \in [Run -> Answers]
        /\ \A q \in Run : answer'[q].of = answer[q].of /\ (q # r => answer'[q] = answer[q])
        /\ answer'[r].status \in Final \cup {"streaming"}
    <2>1. status \in Final /\ answer[r].status = "streaming"
      BY DEF Final, AnswersOK
    <2> QED
      BY <1>1, <1>2, <2>1, StatusStored
  <1>5. /\ events' \in Seq(Events) /\ DOMAIN events = 1..n /\ n + 1 \in DOMAIN events'
        /\ n \in Nat
        /\ \A i \in DOMAIN events : i \in DOMAIN events' /\ events'[i] = events[i]
        /\ events'[n + 1] = e
        /\ \A i \in DOMAIN events' :
             \/ i \in DOMAIN events \/ i = n + 1
             \/ /\ events'[i].run = r /\ events'[i].of = answer[r].of
                /\ events'[i].kind \notin {"running", "over"}
    <2>1. events \in Seq(Events)
      BY DEF Types, EventTypes
    <2>2. CASE events' = Append(events, e)
      <3>1. /\ events' \in Seq(Events) /\ DOMAIN events = 1..n /\ DOMAIN events' = 1..(n + 1)
            /\ n \in Nat
            /\ \A i \in DOMAIN events : i \in DOMAIN events' /\ events'[i] = events[i]
            /\ events'[n + 1] = e
            /\ \A i \in DOMAIN events' : i \in DOMAIN events \/ i = n + 1
        BY <1>2, <2>1, <2>2, Appended
      <3> QED
        BY <3>1
    <2>3. CASE \E f \in InHand(r) : events' = events \o <<e, f>>
      <3>1. PICK f \in InHand(r) : events' = events \o <<e, f>>
        BY <2>3
      <3>2. /\ f \in Events /\ f.run = r /\ f.of = answer[r].of
            /\ f.kind \notin {"running", "over"}
        BY <1>3
      <3>3. /\ events' \in Seq(Events) /\ DOMAIN events = 1..n /\ DOMAIN events' = 1..(n + 2)
            /\ n \in Nat
            /\ \A i \in DOMAIN events : i \in DOMAIN events' /\ events'[i] = events[i]
            /\ events'[n + 1] = e /\ events'[n + 2] = f
            /\ \A i \in DOMAIN events' : i \in DOMAIN events \/ i = n + 1 \/ i = n + 2
        BY <1>2, <2>1, <3>1, <3>2, AppendedTwo
      <3> HIDE DEF n
      <3> QED
        BY <3>2, <3>3
    <2> QED
      BY <1>1, <2>2, <2>3
  <1> HIDE DEF n
  <1>6. LifeOK' /\ \A q \in Run : Ongoing(q)' <=> Ongoing(q)
    <2>1. n = Len(events)
      BY DEF n
    <2> QED
      BY <1>1, <1>2, <1>5, <2>1, EndedLife
  <1>7. Grows(r)
    BY <1>2, <1>5 DEF Grows
  <1>8. unsaid' \in [Run -> Nat]
    BY DEF Types, HostTypes
  <1> QED
    BY <1>1, <1>4, <1>6, <1>7, <1>8, TornKeeps

(* StartFails keeps the invariant.                                           *)
LEMMA StartFailsKeeps == ASSUME PanelInv, NEW r \in Run, StartFails(r) PROVE PanelInv'
  <1>1. r \in live
    BY DEF StartFails, EndsSilently, HostEnds
  <1>2. PICK status \in {"error", "cancelled"} : EndsSilently(r, status)
    BY DEF StartFails
  <1> QED
    BY <1>1, <1>2, SilentKeeps DEF StartFails

(* A stop that comes back changes nothing else.                              *)
LEMMA StopTaken ==
  ASSUME PanelInv, NEW k \in calls, k.op = "stop", calls' = calls \ {k},
         UNCHANGED <<panel, stored, gone, settings, answer, live, unsaid>>,
         UNCHANGED <<events, late, torn, mixed, acts>>
  PROVE  PanelInv'
  <1> USE DEF PanelInv
  <1>1. /\ CallTypes' /\ EventTypes' /\ HostTypes' /\ AnswersOK' /\ LifeOK' /\ LoadsOK'
    BY TakesKeeps DEF Takes, host
  <1>2. PanelTypes' /\ GhostTypes'
    BY DEF Types, PanelTypes, GhostTypes, panel
  <1>3. ConfigOK'
    BY FewerCallsConfig DEF panel
  <1>4. KeepsSends /\ \A r \in Run : KeepsDone(r)
    BY DEF KeepsSends, KeepsDone
  <1>5. BlocksOK'
    BY <1>4, BlocksFrame, OngoingFrame DEF Types, panel
  <1>6. ShownOK'
    BY <1>4, ShownFrame DEF panel
  <1> QED
    BY <1>1, <1>2, <1>3, <1>5, <1>6 DEF Types

(* HostStops keeps the invariant: the run goes on while Stop waits for the   *)
(* sidecar.                                                                  *)
LEMMA HostStopsKeeps == ASSUME PanelInv, NEW k \in calls, HostStops(k) PROVE PanelInv'
  <1> USE DEF PanelInv
  <1>1. k.op = "stop" /\ UNCHANGED <<panel, events, host, ghosts, acts>>
    BY DEF HostStops
  <1>2. UNCHANGED <<config, shown, stored, gone, settings, answer, live, unsaid, torn, mixed>>
    BY <1>1 DEF panel, host, ghosts
  <1>3. ASSUME NEW r \in live, Answered(k, "stopping", r, NoAnswer) PROVE PanelInv'
    <2>1. NoAnswer \in Responses /\ r \in Run
      BY DEF NoAnswer, Response, Responses, Types, HostTypes
    <2>2. /\ PanelTypes' /\ EventTypes' /\ GhostTypes' /\ LifeOK' /\ BlocksOK'
          /\ \E l \in Calls : /\ calls' = (calls \ {k}) \cup {l}
                              /\ l.op = k.op /\ l.of = k.of /\ l.provider = k.provider
                              /\ l.state = "stopping" /\ l.answer = NoAnswer
          /\ \A q \in Run : KeepsDone(q)
      BY <1>1, <1>2, <1>3, <2>1, AnsweredKeeps
    <2> PICK new \in Calls : /\ calls' = (calls \ {k}) \cup {new}
                             /\ new.op = k.op /\ new.of = k.of /\ new.state = "stopping"
      BY <2>2
    <2>3. HostTypes' /\ AnswersOK'
      BY <1>2, AnswersFrame DEF Types, HostTypes
    <2>4. CallTypes'
      BY <1>1, <1>2 DEF Types, CallTypes
    <2>5. ConfigOK'
      BY <1>1, <1>2, FewerCallsConfig DEF Configures
    <2>6. ShownOK' /\ LoadsOK'
      BY <1>1, <1>2, <2>2, ShownFrame, LoadsFrame
    <2> QED
      BY <2>2, <2>3, <2>4, <2>5, <2>6 DEF Types
  <1>4. CASE calls' = calls \ {k}
    BY <1>1, <1>4, StopTaken DEF host, ghosts
  <1> QED
    BY <1>3, <1>4 DEF HostStops

(* HostStopped keeps the invariant.                                          *)
LEMMA HostStoppedKeeps == ASSUME PanelInv, NEW k \in calls, HostStopped(k) PROVE PanelInv'
  <1>1. /\ k.op = "stop" /\ calls' = calls \ {k}
        /\ UNCHANGED <<panel, stored, gone, settings, unsaid, late, mixed, acts>>
    BY DEF HostStopped
  <1>2. CASE EndsSilently(k.run, "cancelled")
    <2>1. k.run \in live
      BY <1>2 DEF EndsSilently, HostEnds
    <2> QED
      BY <1>1, <1>2, <2>1, SilentKeeps
  <1>3. CASE UNCHANGED <<answer, live, events, torn>>
    BY <1>1, <1>3, StopTaken
  <1> QED
    BY <1>2, <1>3 DEF HostStopped

(* A piece announces neither the beginning nor the end of a run.             *)
LEMMA SaidLife ==
  ASSUME PanelInv, NEW r \in live, NEW n \in Nat, DOMAIN events = 1..n, UNCHANGED live,
         NEW e, e.run = r, e.kind = "piece",
         \A i \in DOMAIN events : i \in DOMAIN events' /\ events'[i] = events[i],
         events'[n + 1] = e, \A i \in DOMAIN events' : i \in DOMAIN events \/ i = n + 1
  PROVE  LifeOK' /\ \A q \in Run : Ongoing(q)' <=> Ongoing(q)
  <1> USE DEF PanelInv
  <1>1. \A q \in Run : Ongoing(q)' <=> Ongoing(q)
    BY DEF Ongoing, Over
  <1>2. ASSUME NEW i \in DOMAIN events', events'[i].kind \in {"running", "over"}
        PROVE  i \in DOMAIN events /\ events'[i] = events[i]
    BY <1>2
  <1>3. ASSUME NEW i \in DOMAIN events', events'[i].kind = "running", NEW q, q = events'[i].run
        PROVE  Ongoing(q)'
    <2>1. Ongoing(events[i].run)
      BY <1>2, <1>3 DEF LifeOK
    <2>2. q \in Run /\ Ongoing(q)
      BY <1>2, <1>3, <2>1, EventAt DEF Types
    <2> QED
      BY <1>1, <2>2
  <1>4. \A i \in DOMAIN events' : events'[i].kind = "over" => events'[i].run \notin live'
    BY <1>2 DEF LifeOK
  <1>5. \A i, j \in DOMAIN events' : events'[i].run = events'[j].run =>
          /\ events'[i].kind = "over" /\ events'[j].kind = "over" => i = j
          /\ events'[i].kind = "running" /\ events'[j].kind = "over" => i < j
    BY <1>2 DEF LifeOK
  <1> QED
    BY <1>1, <1>3, <1>4, <1>5 DEF LifeOK, Ongoing, Over

(* A piece that is not stored tears its run.                                 *)
LEMMA LostPieceKeeps ==
  ASSUME PanelInv, NEW r \in live, unsaid' \in [Run -> Nat],
         events' = Append(events, Event("piece", r, answer[r].of, 0)),
         torn' = torn \cup {r}, UNCHANGED <<answer, panel, calls, stored, gone, settings, live>>,
         UNCHANGED <<late, mixed, acts>>
  PROVE  PanelInv'
  <1> USE DEF PanelInv
  <1> DEFINE e == Event("piece", r, answer[r].of, 0)
             n == Len(events)
  <1>1. /\ r \in Run /\ e \in Events /\ e.run = r /\ e.kind = "piece" /\ e.of = answer[r].of
    BY EventOf
  <1>2. events' = Append(events, e)
    OBVIOUS
  <1> HIDE DEF e
  <1>3. /\ events' \in Seq(Events) /\ DOMAIN events = 1..n /\ DOMAIN events' = 1..(n + 1)
        /\ n \in Nat
        /\ \A i \in DOMAIN events : i \in DOMAIN events' /\ events'[i] = events[i]
        /\ events'[n + 1] = e
        /\ \A i \in DOMAIN events' : i \in DOMAIN events \/ i = n + 1
    BY <1>1, <1>2, Appended DEF Types, EventTypes
  <1> HIDE DEF n
  <1>4. LifeOK' /\ \A q \in Run : Ongoing(q)' <=> Ongoing(q)
    BY <1>1, <1>3, SaidLife
  <1>5. Grows(r)
    BY <1>1, <1>3 DEF Grows
  <1>6. answer' \in [Run -> Answers]
    BY DEF Types, HostTypes
  <1> QED
    BY <1>4, <1>5, <1>6, TornKeeps

(* A piece that is stored is on its way, with its number.                    *)
LEMMA StoredPieceKeeps ==
  ASSUME PanelInv, NEW r \in live, r \in Run, unsaid' \in [Run -> Nat],
         answer' = [answer EXCEPT ![r].pieces = @ + 1],
         events' = Append(events, Event("piece", r, answer[r].of, answer[r].pieces + 1)),
         UNCHANGED <<panel, calls, stored, gone, settings, live, ghosts, acts>>
  PROVE  PanelInv'
  <1> USE DEF PanelInv
  <1> DEFINE e == Event("piece", r, answer[r].of, answer[r].pieces + 1)
             n == Len(events)
  <1>1. /\ r \in live /\ answer' = [answer EXCEPT ![r].pieces = @ + 1]
        /\ events' = Append(events, e)
        /\ UNCHANGED <<panel, calls, stored, gone, settings, live, ghosts, acts>>
    OBVIOUS
  <1>2. answer[r].pieces \in Nat
    BY DEF Types, HostTypes, Answers
  <1>3. /\ answer[r].of \in AIConversation /\ answer[r].of \in stored /\ e \in Events
        /\ e.run = r /\ e.kind = "piece" /\ e.of = answer[r].of /\ e.piece = answer[r].pieces + 1
    BY <1>1, <1>2 DEF Types, HostTypes, AnswersOK, Event, Events
  <1>4. UNCHANGED <<config, list, active, loading, sending, running, shown, late, torn, mixed>>
    BY <1>1 DEF panel, ghosts
  <1> HIDE DEF e
  <1>5. /\ answer' \in [Run -> Answers]
        /\ \A q \in Run : answer'[q].of = answer[q].of /\ (q # r => answer'[q] = answer[q])
        /\ answer'[r].status = answer[r].status /\ answer'[r].pieces = answer[r].pieces + 1
    <2>1. answer[r] \in Answers /\ answer \in [Run -> Answers]
      BY DEF Types, HostTypes
    <2>2. answer'[r] = [answer[r] EXCEPT !.pieces = @ + 1]
      BY <1>1, <2>1
    <2>3. answer[r].pieces + 1 \in Nat
      BY <1>2
    <2>4. answer'[r] \in Answers /\ answer'[r].of = answer[r].of
          /\ answer'[r].status = answer[r].status /\ answer'[r].pieces = answer[r].pieces + 1
      BY <2>1, <2>2, <2>3 DEF Answers
    <2>5. \A q \in Run : q # r => answer'[q] = answer[q]
      BY <1>1, <2>1
    <2>6. answer' \in [Run -> Answers]
      BY <1>1, <2>1, <2>4
    <2> QED
      BY <2>4, <2>5, <2>6
  <1>6. /\ events' \in Seq(Events) /\ DOMAIN events = 1..n /\ DOMAIN events' = 1..(n + 1)
        /\ n \in Nat
        /\ \A i \in DOMAIN events : i \in DOMAIN events' /\ events'[i] = events[i]
        /\ events'[n + 1] = e
        /\ \A i \in DOMAIN events' : i \in DOMAIN events \/ i = n + 1
    BY <1>1, <1>3, Appended DEF Types, EventTypes
  <1> HIDE DEF n
  <1>7. LifeOK' /\ \A q \in Run : Ongoing(q)' <=> Ongoing(q)
    BY <1>1, <1>3, <1>6, SaidLife
  <1>8. Types'
    <2>1. EventTypes'
      <3>1. ASSUME NEW i \in DOMAIN events' PROVE answer'[events'[i].run].of = events'[i].of
        BY <1>3, <1>5, <1>6, EventAt DEF Types
      <3> QED
        BY <1>6, <3>1 DEF EventTypes
    <2>2. PanelTypes'
      BY <1>4 DEF Types, PanelTypes
    <2>3. HostTypes'
      BY <1>1, <1>5 DEF Types, HostTypes
    <2>4. GhostTypes'
      BY <1>1, <1>4 DEF Types, GhostTypes
    <2>5. CallTypes'
      BY <1>1, <1>5 DEF Types, CallTypes
    <2> QED
      BY <2>1, <2>2, <2>3, <2>4, <2>5 DEF Types
  <1>9. AnswersOK'
    <2>1. answer[r] # NotSent
      BY <1>3, AIPanelAssumption DEF NotSent
    <2>2. \A q \in Run : answer'[q] # NotSent => answer[q] # NotSent
      BY <1>5, <2>1
    <2>3. \A q \in Run : answer'[q].status = answer[q].status
      BY <1>5
    <2> QED
      BY <1>1, <1>5, <2>2, <2>3 DEF AnswersOK, Types, HostTypes
  <1>10. ConfigOK'
    BY <1>1, <1>4, FewerCallsConfig
  <1>11. BlocksOK'
    <2>1. KeepsSends
      BY <1>1 DEF KeepsSends
    <2> QED
      BY <1>4, <1>5, <1>7, <2>1, BlocksFrame DEF Types
  <1>12. ShownOK'
    <2>1. \A q \in Run : Unsent(q)'
      BY <1>4, <1>5 DEF ShownOK, Unsent
    <2> SUFFICES ASSUME NEW q \in Run, answer'[q].of \in stored', q \notin torn'
                 PROVE  PiecesOK(q)' /\ StatusOK(q)'
      BY <2>1 DEF ShownOK
    <2>2. PiecesOK(q) /\ StatusOK(q)
      BY <1>1, <1>4, <1>5 DEF ShownOK
    <2>3. CASE q # r
      <3>1. StreamStays(q) /\ KeepsDone(q)
        BY <1>1, <1>3, <1>6, <2>3 DEF StreamStays, KeepsDone, Piece, Last
      <3> QED
        BY <1>1, <1>4, <1>5, <2>2, <2>3, <3>1, RunFrame
    <2>4. CASE q = r
      <3> DEFINE m == Len(shown[r].pieces)
      <3>1. m \in Nat /\ m <= answer[r].pieces /\ shown[r].pieces = Count(m)
        BY <2>2, <2>4 DEF PiecesOK, Types, PanelTypes, Messages
      <3> HIDE DEF m
      <3>2. \A i \in DOMAIN events : Piece(events[i], r) => /\ events[i].piece \in Nat
                                                            /\ m < events[i].piece
                                                            /\ events[i].piece <= answer[r].pieces
        BY <2>2, <2>4, EventAt DEF PiecesOK, m, Types, Events
      <3>3. Piece(e, r)
        BY <1>3 DEF Piece
      <3>4. \A i \in DOMAIN events' : Piece(events'[i], r) =>
              m < events'[i].piece /\ events'[i].piece <= answer'[r].pieces
        BY <1>2, <1>3, <1>5, <1>6, <3>1, <3>2
      <3>5. ASSUME NEW x \in (m + 1)..answer'[r].pieces
            PROVE  \E i \in DOMAIN events' : Piece(events'[i], r) /\ events'[i].piece = x
        <4>1. CASE x = answer[r].pieces + 1
          <5>1. n + 1 \in DOMAIN events'
            BY <1>6
          <5> QED
            BY <1>3, <1>6, <3>3, <4>1, <5>1
        <4>2. CASE x # answer[r].pieces + 1
          <5>1. x \in (m + 1)..answer[r].pieces
            <6>1. x \in (m + 1)..(answer[r].pieces + 1)
              BY <1>5
            <6>2. \A a, b, y \in Nat : y \in (b + 1)..(a + 1) /\ y # a + 1 => y \in (b + 1)..a
              OBVIOUS
            <6>3. m \in Nat /\ x \in Nat
              BY <3>1, <6>1
            <6> QED
              BY <1>2, <4>2, <6>1, <6>2, <6>3
          <5>2. PICK i \in DOMAIN events : Piece(events[i], r) /\ events[i].piece = x
            BY <2>2, <2>4, <5>1 DEF PiecesOK, m
          <5> QED
            BY <1>6, <5>2
        <4> QED
          BY <4>1, <4>2
      <3>6. ASSUME NEW i \in DOMAIN events', NEW j \in DOMAIN events', i < j,
                   Piece(events'[i], r), Piece(events'[j], r)
            PROVE  events'[i].piece < events'[j].piece
        <4>1. i \in DOMAIN events /\ events'[i] = events[i]
          BY <1>6, <3>6
        <4>2. CASE j \in DOMAIN events
          BY <1>6, <2>2, <2>4, <3>6, <4>1, <4>2 DEF PiecesOK
        <4>3. CASE j = n + 1
          BY <1>2, <1>3, <1>6, <3>2, <3>6, <4>1, <4>3
        <4> QED
          BY <1>6, <4>2, <4>3
      <3>7. PiecesOK(r)'
        <4>1. m' = m /\ shown' = shown
          BY <1>4 DEF m
        <4>2. m <= answer'[r].pieces
          BY <1>2, <1>5, <3>1
        <4> QED
          BY <3>1, <3>4, <3>5, <3>6, <4>1, <4>2 DEF PiecesOK, m
      <3>8. \A i \in DOMAIN events' : ~Last(events'[i], r)
        BY <1>1, <1>3, <1>6, <2>2, <2>4 DEF StatusOK, Last, Final
      <3>9. answer[r].status = IF shown[r] = NotShown THEN "streaming" ELSE shown[r].status
        BY <1>1, <2>2, <2>4 DEF StatusOK
      <3>10. \E i \in DOMAIN events' : Piece(events'[i], r)
        BY <1>6, <3>3
      <3>11. StatusOK(r)'
        BY <1>4, <1>5, <2>2, <2>4, <3>8, <3>9, <3>10 DEF StatusOK
      <3> QED
        BY <2>4, <3>7, <3>11
    <2> QED
      BY <2>3, <2>4
  <1>13. LoadsOK'
    <2> SUFFICES ASSUME NEW k \in calls', k.op = "load", NEW q \in (RunsOf(k.of) \ torn)'
                 PROVE  LoadOK(k, q)'
      BY DEF LoadsOK
    <2>1. q \in RunsOf(k.of) \ torn /\ q \in Run /\ k \in calls
      BY <1>1, <1>4, <1>5 DEF RunsOf
    <2>2. LoadOK(k, q) /\ q # r
      BY <1>1, <2>1 DEF LoadsOK, LoadOK
    <2>3. \A i \in DOMAIN events' : ~(Piece(events'[i], q) \/ Last(events'[i], q))
      BY <1>3, <1>6, <2>2 DEF LoadOK, Piece, Last
    <2> QED
      BY <1>1, <1>5, <2>1, <2>2, <2>3 DEF LoadOK
  <1> QED
    BY <1>7, <1>8, <1>9, <1>10, <1>11, <1>12, <1>13

(* HostStreams keeps the invariant, whether the piece is stored or not.      *)
LEMMA StreamsKeeps == ASSUME PanelInv, NEW r \in Run, HostStreams(r) PROVE PanelInv'
  <1>1. r \in live /\ unsaid' \in [Run -> Nat]
    <2>1. unsaid \in [Run -> Nat] /\ unsaid[r] - 1 \in Nat
      BY DEF HostStreams, PanelInv, Types, HostTypes
    <2> QED
      BY <2>1 DEF HostStreams
  <1>2. CASE /\ answer' = [answer EXCEPT ![r].pieces = @ + 1]
             /\ events' = Append(events, Event("piece", r, answer[r].of, answer[r].pieces + 1))
             /\ UNCHANGED torn
    BY <1>1, <1>2, StoredPieceKeeps DEF HostStreams, ghosts
  <1>3. CASE /\ events' = Append(events, Event("piece", r, answer[r].of, 0))
             /\ torn' = torn \cup {r}
             /\ UNCHANGED answer
    BY <1>1, <1>3, LostPieceKeeps DEF HostStreams
  <1> QED
    BY <1>2, <1>3 DEF HostStreams

(* ProviderEnds keeps the invariant: a last event that is stored is on its   *)
(* way, after the end of the run.                                            *)
LEMMA ProviderEndsKeeps == ASSUME PanelInv, NEW r \in Run, ProviderEnds(r) PROVE PanelInv'
  <1> USE DEF PanelInv
  <1> DEFINE e == Event("over", r, answer[r].of, 0)
             n == Len(events)
  <1>1. PICK status \in LastEvent :
          /\ r \in live /\ live' = live \ {r}
          /\ answer' = [answer EXCEPT ![r].status = status] \/ UNCHANGED answer
          /\ events' = events \o <<e, Event(status, r, answer[r].of, 0)>>
          /\ torn' = IF answer' = answer THEN torn \cup {r} ELSE torn
          /\ UNCHANGED <<panel, calls, stored, gone, settings, unsaid, late, mixed, acts>>
    BY DEF ProviderEnds, HostEnds
  <1> DEFINE f == Event(status, r, answer[r].of, 0)
  <1>2. status \in Final
    BY AIPanelAssumption DEF Final
  <1>3. /\ answer[r].of \in AIConversation /\ answer[r].of \in stored
        /\ e \in Events /\ e.run = r /\ e.kind = "over" /\ e.of = answer[r].of
        /\ f \in Events /\ f.run = r /\ f.kind = status /\ f.of = answer[r].of
    BY <1>1, <1>2 DEF Types, HostTypes, AnswersOK, Event, Events
  <1>4. UNCHANGED <<config, list, active, loading, sending, running, shown>>
    BY <1>1 DEF panel
  <1> HIDE DEF e, f
  <1>5. /\ answer' \in [Run -> Answers]
        /\ \A q \in Run : answer'[q].of = answer[q].of /\ (q # r => answer'[q] = answer[q])
        /\ answer'[r].status = (IF answer' = answer THEN answer[r].status ELSE status)
        /\ answer'[r].pieces = answer[r].pieces
    BY <1>1, <1>2, StatusStored
  <1>6. /\ events' \in Seq(Events) /\ DOMAIN events = 1..n /\ DOMAIN events' = 1..(n + 2)
        /\ n \in Nat
        /\ \A i \in DOMAIN events : i \in DOMAIN events' /\ events'[i] = events[i]
        /\ events'[n + 1] = e /\ events'[n + 2] = f
        /\ \A i \in DOMAIN events' : i \in DOMAIN events \/ i = n + 1 \/ i = n + 2
    <2>1. events' = events \o <<e, f>>
      BY <1>1 DEF f
    <2> QED
      BY <1>3, <2>1, AppendedTwo DEF Types, EventTypes
  <1> HIDE DEF n
  <1>7. LifeOK' /\ \A q \in Run : Ongoing(q)' <=> Ongoing(q)
    <2>1. n = Len(events)
      BY DEF n
    <2>2. \A i \in DOMAIN events' : \/ i \in DOMAIN events \/ i = n + 1
                                    \/ events'[i].kind \notin {"running", "over"}
      BY <1>2, <1>3, <1>6 DEF Final
    <2>3. n + 1 \in DOMAIN events' /\ events'[n + 1].run = r /\ events'[n + 1].kind = "over"
      BY <1>3, <1>6
    <2>4. r \in live /\ live' = live \ {r} /\ n \in Nat /\ DOMAIN events = 1..n
          /\ \A i \in DOMAIN events : i \in DOMAIN events' /\ events'[i] = events[i]
      BY <1>1, <1>6
    <2> QED
      BY <2>1, <2>2, <2>3, <2>4, EndedLife
  <1>8. ASSUME answer' = answer PROVE PanelInv'
    <2>1. torn' = torn \cup {r} /\ answer'[r].status = answer[r].status
      BY <1>1, <1>8
    <2>2. answer'[r].status \in Final \cup {"streaming"}
      BY <1>1, <2>1 DEF AnswersOK
    <2>3. Grows(r)
      BY <1>3, <1>6 DEF Grows
    <2>4. unsaid' \in [Run -> Nat]
      BY <1>1 DEF Types, HostTypes
    <2> QED
      BY <1>1, <1>5, <1>7, <2>1, <2>2, <2>3, <2>4, TornKeeps
  <1> SUFFICES ASSUME answer' # answer PROVE PanelInv'
    BY <1>8
  <1>9. answer'[r].status = status /\ torn' = torn
    BY <1>1, <1>5
  <1>10. Types'
    <2>1. EventTypes'
      <3>1. ASSUME NEW i \in DOMAIN events' PROVE answer'[events'[i].run].of = events'[i].of
        BY <1>3, <1>5, <1>6, EventAt DEF Types
      <3> QED
        BY <1>6, <3>1 DEF EventTypes
    <2>2. PanelTypes'
      BY <1>4 DEF Types, PanelTypes
    <2>3. HostTypes'
      BY <1>1, <1>5 DEF Types, HostTypes
    <2>4. GhostTypes'
      BY <1>1, <1>9 DEF Types, GhostTypes
    <2>5. CallTypes'
      BY <1>1, <1>5 DEF Types, CallTypes
    <2> QED
      BY <2>1, <2>2, <2>3, <2>4, <2>5 DEF Types
  <1>11. AnswersOK'
    <2>1. answer[r] # NotSent
      BY <1>3, AIPanelAssumption DEF NotSent
    <2>2. \A q \in Run : answer'[q] # NotSent => answer[q] # NotSent
      BY <1>5, <2>1
    <2> QED
      BY <1>1, <1>2, <1>5, <1>9, <2>2 DEF AnswersOK, Types, HostTypes
  <1>12. ConfigOK'
    BY <1>1, <1>4, FewerCallsConfig
  <1>13. BlocksOK'
    <2>1. KeepsSends
      BY <1>1 DEF KeepsSends
    <2> QED
      BY <1>1, <1>4, <1>5, <1>7, <2>1, BlocksFrame DEF Types
  <1>14. ShownOK'
    <2>1. \A q \in Run : Unsent(q)'
      BY <1>4, <1>5 DEF ShownOK, Unsent
    <2> SUFFICES ASSUME NEW q \in Run, answer'[q].of \in stored', q \notin torn'
                 PROVE  PiecesOK(q)' /\ StatusOK(q)'
      BY <2>1 DEF ShownOK
    <2>2. PiecesOK(q) /\ StatusOK(q)
      BY <1>1, <1>5, <1>9 DEF ShownOK
    <2>3. CASE q # r
      <3>1. StreamStays(q) /\ KeepsDone(q)
        BY <1>1, <1>3, <1>6, <2>3 DEF StreamStays, KeepsDone, Piece, Last
      <3> QED
        BY <1>1, <1>4, <1>5, <2>2, <2>3, <3>1, RunFrame
    <2>4. CASE q = r
      <3>1. \A i \in DOMAIN events' : Piece(events'[i], r) =>
              i \in DOMAIN events /\ events'[i] = events[i]
        BY <1>2, <1>3, <1>6 DEF Piece, Final
      <3>2. PiecesOK(r)'
        BY <1>4, <1>5, <1>6, <2>2, <2>4, <3>1 DEF PiecesOK
      <3>3. \A i \in DOMAIN events : ~Last(events[i], r)
        BY <1>1, <2>2, <2>4 DEF StatusOK
      <3>4. \A i \in DOMAIN events' : Last(events'[i], r) => events'[i].kind = status
        BY <1>3, <1>6, <3>3 DEF Last, Final
      <3>5. \E i \in DOMAIN events' : Last(events'[i], r)
        <4>1. n + 2 \in DOMAIN events'
          BY <1>6
        <4> QED
          BY <1>2, <1>3, <1>6, <4>1 DEF Last
      <3>6. StatusOK(r)'
        BY <1>1, <1>4, <1>9, <2>2, <2>4, <3>4, <3>5 DEF StatusOK
      <3> QED
        BY <2>4, <3>2, <3>6
    <2> QED
      BY <2>3, <2>4
  <1>15. LoadsOK'
    <2> SUFFICES ASSUME NEW k \in calls', k.op = "load", NEW q \in (RunsOf(k.of) \ torn)'
                 PROVE  LoadOK(k, q)'
      BY DEF LoadsOK
    <2>1. q \in RunsOf(k.of) \ torn /\ q \in Run /\ k \in calls
      BY <1>1, <1>5, <1>9 DEF RunsOf
    <2>2. LoadOK(k, q) /\ q # r
      BY <1>1, <2>1 DEF LoadsOK, LoadOK
    <2>3. \A i \in DOMAIN events' : ~(Piece(events'[i], q) \/ Last(events'[i], q))
      BY <1>3, <1>6, <2>2 DEF LoadOK, Piece, Last
    <2> QED
      BY <1>1, <1>5, <2>1, <2>2, <2>3 DEF LoadOK
  <1> QED
    BY <1>7, <1>10, <1>11, <1>12, <1>13, <1>14, <1>15

(* HostSends keeps the invariant: the run it starts is the only one of its   *)
(* conversation, a load on its way tears it, and the settings it stores      *)
(* before it fails are those of the panel.                                   *)
LEMMA HostSendsKeeps == ASSUME PanelInv, NEW k \in calls, HostSends(k) PROVE PanelInv'
  <1> USE DEF PanelInv
  <1>1. /\ k.op = "send" /\ k.state = "sent"
        /\ UNCHANGED <<panel, stored, gone, unsaid, late, mixed, acts>>
    BY DEF HostSends
  <1>2. UNCHANGED <<config, list, active, loading, sending, running, shown>>
    BY <1>1 DEF panel
  <1>3. k \in Calls /\ k.of \in AIConversation /\ k.of # None
    BY <1>1, AIPanelAssumption DEF Types, CallTypes
  <1>4. NoAnswer \in Responses
    BY DEF NoAnswer, Response, Responses
  <1>5. CASE /\ Answered(k, "failed", 0, NoAnswer)
             /\ settings' \in {settings, Consented(k)}
             /\ UNCHANGED <<answer, live, events, torn>>
    <2> DEFINE new == [k EXCEPT !.state = "failed", !.run = 0, !.answer = NoAnswer]
    <2>1. calls' = (calls \ {k}) \cup {new}
      BY <1>5 DEF Answered
    <2>2. new \in Calls /\ new.op = "send" /\ new.of = k.of /\ new.state = "failed"
      BY <1>1, <1>3, <1>4 DEF Calls
    <2> HIDE DEF new
    <2>3. PanelTypes' /\ HostTypes' /\ GhostTypes' /\ EventTypes' /\ LifeOK' /\ AnswersOK'
      <3>1. settings' \in Configs
        <4>1. settings \in Configs
          BY DEF Types, HostTypes
        <4>2. Consented(k) \in Configs
          BY <1>3 DEF Consented, Configs, Calls
        <4> QED
          BY <1>5, <4>1, <4>2
      <3> QED
        BY <1>1, <1>2, <1>5, <3>1, EventsFrame, LifeFrame, AnswersFrame
           DEF Types, PanelTypes, HostTypes, GhostTypes
    <2>4. CallTypes'
      BY <1>1, <1>3, <1>5, <2>1, <2>2 DEF Types, CallTypes
    <2>5. ConfigOK'
      <3> SUFFICES ASSUME ~mixed PROVE ConfigOK'
        BY <1>1 DEF ConfigOK
      <3>1. \A l \in calls' : Configures(l) => l = new
        BY <1>1, <2>1 DEF ConfigOK, Configures
      <3>2. config.consent => k.provider = config.provider
        BY <1>1 DEF ConfigOK, Configures
      <3>3. config.consent => settings' = [provider |-> config.provider, consent |-> TRUE]
        BY <1>5, <3>2 DEF ConfigOK, Consented
      <3> QED
        BY <1>2, <2>2, <3>1, <3>3 DEF ConfigOK
    <2>6. BlocksOK'
      <3> SUFFICES ASSUME NEW c \in AIConversation, ~Lost(c)' PROVE BlockOK(c)'
        BY DEF BlocksOK
      <3>1. \A r : Ongoing(r)' <=> Ongoing(r)
        BY <1>5 DEF Ongoing, Over
      <3>2. ~Lost(c)
        BY <1>1, <2>1, <3>1 DEF Lost, Sends
      <3>3. BlockOK(c)
        BY <3>2 DEF BlocksOK
      <3>4. OngoingOf(c)' = OngoingOf(c)
        BY <1>5, <3>1 DEF OngoingOf, RunsOf
      <3>5. CASE c # k.of
        <4>1. Sends(c)' = Sends(c)
          BY <2>1, <2>2, <3>5 DEF Sends
        <4> QED
          BY <1>2, <3>3, <3>4, <4>1 DEF BlockOK
      <3>6. CASE c = k.of
        <4>1. k \in Sends(c) /\ OngoingOf(c) = {} /\ c \in sending
          BY <1>1, <3>3, <3>6 DEF Sends, BlockOK
        <4>2. Sends(c)' = {new}
          BY <2>1, <2>2, <3>3, <3>6, <4>1 DEF Sends, BlockOK
        <4> QED
          BY <1>2, <3>3, <3>4, <4>1, <4>2 DEF BlockOK
      <3> QED
        BY <3>5, <3>6
    <2>7. ShownOK' /\ LoadsOK'
      <3>1. \A r \in Run : KeepsDone(r)
        BY <1>1, <2>1 DEF KeepsDone
      <3> QED
        BY <1>1, <1>2, <1>5, <2>1, <2>2, <3>1, ShownFrame, LoadsFrame
    <2> QED
      BY <2>3, <2>4, <2>5, <2>6, <2>7 DEF Types
  <1>6. ASSUME NEW r \in Run, ~BusyOn(k.of), k.of \in stored,
               settings' = Consented(k), answer[r] = NotSent,
               answer' = [answer EXCEPT ![r] =
                            [of |-> k.of, pieces |-> 0, status |-> "streaming"]],
               live' = live \cup {r}, events' = Append(events, Event("running", r, k.of, 0)),
               Answered(k, "done", r, NoAnswer),
               torn' = IF \E l \in calls : l.op = "load" /\ l.of = k.of
                       THEN torn \cup {r} ELSE torn
        PROVE  PanelInv'
    <2> DEFINE new == [k EXCEPT !.state = "done", !.run = r, !.answer = NoAnswer]
               e == Event("running", r, k.of, 0)
               n == Len(events)
    <2>1. calls' = (calls \ {k}) \cup {new}
      BY <1>6 DEF Answered
    <2>2. /\ new \in Calls /\ new.op = "send" /\ new.of = k.of /\ new.state = "done"
          /\ new.run = r /\ new.provider = k.provider
      BY <1>1, <1>3, <1>4 DEF Calls
    <2>3. e \in Events /\ e.run = r /\ e.kind = "running" /\ e.of = k.of
      BY <1>3 DEF Event, Events
    <2>4. /\ events' \in Seq(Events) /\ DOMAIN events = 1..n /\ DOMAIN events' = 1..(n + 1)
          /\ n \in Nat
          /\ \A i \in DOMAIN events : i \in DOMAIN events' /\ events'[i] = events[i]
          /\ events'[n + 1] = e
          /\ \A i \in DOMAIN events' : i \in DOMAIN events \/ i = n + 1
      BY <1>6, <2>3, Appended DEF Types, EventTypes
    <2> HIDE DEF new, e, n
    <2>5. /\ answer' \in [Run -> Answers] /\ answer'[r].of = k.of /\ answer'[r].pieces = 0
          /\ answer'[r].status = "streaming" /\ \A q \in Run : q # r => answer'[q] = answer[q]
      <3>1. [of |-> k.of, pieces |-> 0, status |-> "streaming"] \in Answers
        BY <1>3 DEF Answers, Statuses
      <3> QED
        BY <1>6, <3>1 DEF Types, HostTypes
    <2>6. answer[r].of = None /\ answer[r].of # k.of
      BY <1>3, <1>6 DEF NotSent
    <2>7. r \notin live
      BY <1>6, <2>6, AIPanelAssumption DEF AnswersOK, Types, HostTypes
    <2>8. \A i \in DOMAIN events : events[i].run # r
      BY <2>6, AIPanelAssumption, EventAt DEF Types
    <2>9. Ongoing(r)' /\ ~Ongoing(r)
      BY <1>6, <2>7, <2>8 DEF Ongoing, Over
    <2>10. \A q \in Run : q # r => (Ongoing(q)' <=> Ongoing(q))
      BY <1>6, <2>3, <2>4 DEF Ongoing, Over
    <2>11. \A l \in calls : l.op = "send" /\ l.state = "done" => l.run \in Run /\ l.run # r
      BY <2>6, AIPanelAssumption DEF Types, CallTypes
    <2>12. Types'
      <3>1. EventTypes'
        <4>1. ASSUME NEW i \in DOMAIN events' PROVE answer'[events'[i].run].of = events'[i].of
          BY <2>3, <2>4, <2>5, <2>8, EventAt DEF Types
        <4> QED
          BY <2>4, <4>1 DEF EventTypes
      <3>2. PanelTypes'
        BY <1>2 DEF Types, PanelTypes
      <3>3. HostTypes'
        <4>1. settings' \in Configs
          BY <1>3, <1>6 DEF Configs, Calls, Consented
        <4> QED
          BY <1>1, <1>6, <2>5, <4>1 DEF Types, HostTypes
      <3>4. GhostTypes'
        BY <1>1, <1>6 DEF Types, GhostTypes
      <3>5. CallTypes'
        <4>1. \A l \in calls : l.op = "send" /\ l.state = "done" =>
                l.run \in Run /\ answer'[l.run].of = l.of
          BY <2>5, <2>11 DEF Types, CallTypes
        <4> QED
          BY <1>1, <1>3, <2>1, <2>2, <2>5, <4>1 DEF Types, CallTypes
      <3> QED
        BY <3>1, <3>2, <3>3, <3>4, <3>5 DEF Types
    <2>13. AnswersOK'
      <3>1. \A q \in live : answer'[q] = answer[q] /\ answer[q].of # k.of
        BY <1>6, <2>5, <2>7 DEF BusyOn, Types, HostTypes
      <3>2. ASSUME NEW q \in live', NEW p \in live', answer'[q].of = answer'[p].of PROVE q = p
        BY <1>6, <2>5, <3>1, <3>2 DEF AnswersOK
      <3>3. \A q \in live' : answer'[q].of \in stored' /\ answer'[q].status = "streaming"
        BY <1>1, <1>6, <2>5, <3>1 DEF AnswersOK
      <3>4. \A q \in Run : answer'[q] # NotSent =>
              answer'[q].of \in stored \cup gone /\ answer'[q].status \in Final \cup {"streaming"}
        BY <1>6, <2>5 DEF AnswersOK
      <3> QED
        BY <1>1, <3>2, <3>3, <3>4 DEF AnswersOK
    <2>14. ConfigOK'
      <3> SUFFICES ASSUME ~mixed PROVE ConfigOK'
        BY <1>1 DEF ConfigOK
      <3>1. \A l \in calls' : Configures(l) => l = new
        BY <1>1, <2>1 DEF ConfigOK, Configures
      <3>2. config.consent => k.provider = config.provider
        BY <1>1 DEF ConfigOK, Configures
      <3> QED
        BY <1>2, <1>6, <2>2, <3>1, <3>2 DEF ConfigOK, Consented
    <2>15. LifeOK'
      <3>1. ASSUME NEW i \in DOMAIN events', events'[i].kind = "running",
                   NEW q, q = events'[i].run
            PROVE  Ongoing(q)'
        <4>1. CASE i \in DOMAIN events
          <5>1. events'[i] = events[i] /\ q \in Run /\ q # r
            BY <2>4, <2>8, <3>1, <4>1, EventAt DEF Types
          <5>2. Ongoing(q)
            BY <3>1, <4>1, <5>1 DEF LifeOK
          <5> QED
            BY <2>10, <5>1, <5>2
        <4>2. CASE i = n + 1
          BY <2>3, <2>4, <2>9, <3>1, <4>2
        <4> QED
          BY <2>4, <4>1, <4>2
      <3>2. ASSUME NEW i \in DOMAIN events', events'[i].kind = "over"
            PROVE  i \in DOMAIN events /\ events'[i] = events[i] /\ events'[i].run # r
        BY <2>3, <2>4, <2>8, <3>2
      <3>3. \A i \in DOMAIN events' : events'[i].kind = "over" => events'[i].run \notin live'
        BY <1>6, <3>2 DEF LifeOK
      <3>4. ASSUME NEW i \in DOMAIN events', NEW j \in DOMAIN events',
                   events'[i].run = events'[j].run, events'[j].kind = "over"
            PROVE  /\ events'[i].kind = "over" => i = j
                   /\ events'[i].kind = "running" => i < j
        <4>1. j \in DOMAIN events /\ events'[j] = events[j] /\ events'[j].run # r
          BY <3>2, <3>4
        <4>2. i \in DOMAIN events /\ events'[i] = events[i]
          BY <2>3, <2>4, <3>4, <4>1
        <4> QED
          BY <3>4, <4>1, <4>2 DEF LifeOK
      <3> QED
        BY <3>1, <3>3, <3>4 DEF LifeOK, Ongoing, Over
    <2>16. BlocksOK'
      <3> SUFFICES ASSUME NEW c \in AIConversation, ~Lost(c)' PROVE BlockOK(c)'
        BY DEF BlocksOK
      <3>1. ~Lost(c)
        <4>1. c \notin late
          BY <1>1 DEF Lost
        <4>2. ASSUME NEW l \in Sends(c), l.state = "done", ~Ongoing(l.run) PROVE FALSE
          <5>1. l \in calls' /\ l.run \in Run /\ l.run # r
            BY <1>1, <2>1, <2>11, <4>2 DEF Sends
          <5>2. ~Ongoing(l.run)'
            BY <2>10, <4>2, <5>1
          <5> QED
            BY <4>2, <5>1, <5>2 DEF Lost, Sends
        <4> QED
          BY <4>1, <4>2 DEF Lost
      <3>2. BlockOK(c)
        BY <3>1 DEF BlocksOK
      <3>3. CASE c # k.of
        <4>1. Sends(c)' = Sends(c)
          BY <2>1, <2>2, <3>3 DEF Sends
        <4>2. OngoingOf(c)' = OngoingOf(c)
          BY <2>5, <2>6, <2>10, <3>3, AIPanelAssumption DEF OngoingOf, RunsOf
        <4> QED
          BY <1>2, <3>2, <4>1, <4>2 DEF BlockOK
      <3>4. CASE c = k.of
        <4>1. k \in Sends(c) /\ OngoingOf(c) = {} /\ c \in sending
          BY <1>1, <3>2, <3>4 DEF Sends, BlockOK
        <4>2. Sends(c)' = {new}
          BY <2>1, <2>2, <3>2, <3>4, <4>1 DEF Sends, BlockOK
        <4>3. OngoingOf(c)' = {r}
          BY <2>5, <2>9, <2>10, <3>4, <4>1 DEF OngoingOf, RunsOf
        <4>4. running[c] = 0
          BY <3>2, <4>1 DEF BlockOK
        <4> QED
          BY <1>2, <2>2, <4>1, <4>2, <4>3, <4>4 DEF BlockOK
      <3> QED
        BY <3>3, <3>4
    <2>17. ShownOK'
      <3>1. \A q \in Run : Unsent(q)'
        BY <1>2, <1>3, <2>5 DEF ShownOK, Unsent
      <3> SUFFICES ASSUME NEW q \in Run, answer'[q].of \in stored', q \notin torn'
                   PROVE  PiecesOK(q)' /\ StatusOK(q)'
        BY <3>1 DEF ShownOK
      <3>2. CASE q # r
        <4>1. PiecesOK(q) /\ StatusOK(q)
          BY <1>1, <1>6, <2>5, <3>2 DEF ShownOK
        <4>2. StreamStays(q) /\ KeepsDone(q)
          BY <1>1, <2>1, <2>3, <2>4, <3>2 DEF StreamStays, KeepsDone, Piece, Last
        <4> QED
          BY <1>2, <1>6, <2>5, <3>2, <4>1, <4>2, RunFrame
      <3>3. CASE q = r
        <4>1. shown'[r] = NotShown
          BY <1>2, <2>6 DEF ShownOK, Unsent
        <4>2. \A i \in DOMAIN events' : ~Piece(events'[i], r) /\ ~Last(events'[i], r)
          BY <2>3, <2>4, <2>8 DEF Piece, Last, Final
        <4>3. Len(shown'[r].pieces) = 0 /\ shown'[r].pieces = Count(0)
          BY <4>1, Counted DEF NotShown
        <4>4. PiecesOK(r)'
          BY <2>5, <4>2, <4>3 DEF PiecesOK
        <4>5. new \in calls'
          BY <2>1
        <4>6. StatusOK(r)'
          BY <2>2, <2>5, <4>1, <4>2, <4>5 DEF StatusOK
        <4> QED
          BY <3>3, <4>4, <4>6
      <3> QED
        BY <3>2, <3>3
    <2>18. LoadsOK'
      <3> SUFFICES ASSUME NEW l \in calls', l.op = "load", NEW q \in (RunsOf(l.of) \ torn)'
                   PROVE  LoadOK(l, q)'
        BY DEF LoadsOK
      <3>1. l \in calls
        BY <2>1, <2>2
      <3>2. q \in Run /\ q # r /\ q \notin torn
        BY <1>6, <2>5, <3>1 DEF RunsOf
      <3>3. q \in RunsOf(l.of) \ torn
        BY <2>5, <3>2 DEF RunsOf
      <3>4. LoadOK(l, q)
        BY <3>1, <3>3 DEF LoadsOK
      <3>5. \A i \in DOMAIN events' : ~(Piece(events'[i], q) \/ Last(events'[i], q))
        BY <2>3, <2>4, <3>2, <3>4 DEF LoadOK, Piece, Last
      <3> QED
        BY <1>6, <2>5, <3>2, <3>4, <3>5 DEF LoadOK
    <2> QED
      BY <2>12, <2>13, <2>14, <2>15, <2>16, <2>17, <2>18
  <1> QED
    BY <1>5, <1>6 DEF HostSends

-------------------------------------------------------------------------------
(* Events that arrive                                                        *)

(* The first event is taken; the others stay in their order.                 *)
Shifts ==
  /\ events' \in Seq(Events)
  /\ 1 \in DOMAIN events
  /\ \A i \in DOMAIN events' : i \in Nat /\ i + 1 \in DOMAIN events /\ events'[i] = events[i + 1]
  /\ \A i \in DOMAIN events :
       i \in Nat /\ (i = 1 \/ (i - 1 \in DOMAIN events' /\ events'[i - 1] = events[i]))

(* Taking the first event shifts the others.                                 *)
LEMMA TakesFirst ==
  ASSUME Types, events # <<>>, events' = Tail(events)
  PROVE  Shifts /\ Head(events) = events[1] /\ events[1] \in Events
  BY Tailed DEF Types, EventTypes, Shifts

(* The events that stay are of runs that were sent.                          *)
LEMMA ShiftedEvents ==
  ASSUME Types, Shifts, UNCHANGED answer
  PROVE  EventTypes'
  <1>1. ASSUME NEW i \in DOMAIN events' PROVE answer[events'[i].run].of = events'[i].of
    BY EventAt DEF Types, Shifts
  <1> QED
    BY <1>1 DEF EventTypes, Shifts

(* After the end of a run the panel has nothing to learn of it; of the others*)
(* it has what it had.                                                       *)
LEMMA ShiftedLife ==
  ASSUME PanelInv, Shifts, UNCHANGED live
  PROVE  /\ LifeOK'
         /\ \A q \in Run : ~(events[1].kind = "over" /\ events[1].run = q) =>
              (Ongoing(q)' <=> Ongoing(q))
         /\ \A q : q = events[1].run /\ events[1].kind = "over" => ~Ongoing(q)'
         /\ \A q \in Run : Ongoing(q)' => Ongoing(q)
  <1> USE DEF PanelInv
  <1>1. \A q \in Run : ~(events[1].kind = "over" /\ events[1].run = q) =>
          (Ongoing(q)' <=> Ongoing(q))
    <2> SUFFICES ASSUME NEW q \in Run, ~(events[1].kind = "over" /\ events[1].run = q)
                 PROVE  Over(q)' <=> Over(q)
      BY DEF Ongoing
    <2>1. ASSUME Over(q)' PROVE Over(q)
      BY <2>1 DEF Over, Shifts
    <2>2. ASSUME Over(q) PROVE Over(q)'
      <3>1. PICK i \in DOMAIN events : events[i].run = q /\ events[i].kind = "over"
        BY <2>2 DEF Over
      <3>2. i # 1
        BY <3>1
      <3>3. i - 1 \in DOMAIN events' /\ events'[i - 1] = events[i]
        BY <3>2 DEF Shifts
      <3> QED
        BY <3>1, <3>3 DEF Over
    <2> QED
      BY <2>1, <2>2
  <1>2. ASSUME events[1].kind = "over", NEW q, q = events[1].run PROVE ~Ongoing(q)'
    <2>1. q \notin live
      BY <1>2 DEF LifeOK, Shifts
    <2>2. ASSUME NEW i \in DOMAIN events', events'[i].run = q, events'[i].kind = "over"
          PROVE  FALSE
      <3>1. /\ i \in Nat /\ i + 1 \in DOMAIN events /\ events[i + 1] = events'[i]
            /\ 1 \in DOMAIN events
        BY DEF Shifts
      <3>2. 1 = i + 1
        BY <1>2, <2>2, <3>1 DEF LifeOK
      <3>3. i = 0
        BY <3>1, <3>2
      <3>4. i # 0
        BY DEF Shifts
      <3> QED
        BY <3>3, <3>4
    <2> QED
      BY <2>1, <2>2 DEF Ongoing, Over
  <1>3. \A q \in Run : Ongoing(q)' => Ongoing(q)
    BY DEF Ongoing, Over, Shifts
  <1>4. ASSUME NEW i \in DOMAIN events', events'[i].kind = "running", NEW q, q = events'[i].run
        PROVE  Ongoing(q)'
    <2>1. /\ i + 1 \in DOMAIN events /\ events[i + 1] = events'[i]
          /\ 1 \in DOMAIN events /\ i \in Nat
      BY DEF Shifts
    <2>2. Ongoing(events[i + 1].run)
      BY <1>4, <2>1 DEF LifeOK
    <2>3. Ongoing(q) /\ q \in Run
      BY <1>4, <2>1, <2>2, EventAt DEF Types
    <2>4. ~(events[1].kind = "over" /\ events[1].run = q)
      <3> SUFFICES ASSUME events[1].kind = "over", events[1].run = q PROVE FALSE
        OBVIOUS
      <3>1. i + 1 < 1
        BY <1>4, <2>1 DEF LifeOK
      <3> QED
        BY <2>1, <3>1
    <2> QED
      BY <1>1, <2>3, <2>4
  <1>5. \A i \in DOMAIN events' : events'[i].kind = "over" => events'[i].run \notin live'
    BY DEF LifeOK, Shifts
  <1>6. ASSUME NEW i \in DOMAIN events', NEW j \in DOMAIN events',
               events'[i].run = events'[j].run, events'[j].kind = "over"
        PROVE  /\ events'[i].kind = "over" => i = j
               /\ events'[i].kind = "running" => i < j
    <2>1. /\ i \in Nat /\ i + 1 \in DOMAIN events /\ events'[i] = events[i + 1]
          /\ j \in Nat /\ j + 1 \in DOMAIN events /\ events'[j] = events[j + 1]
      BY DEF Shifts
    <2>2. events[i + 1].run = events[j + 1].run /\ events[j + 1].kind = "over"
      BY <1>6, <2>1
    <2>3. /\ events[i + 1].kind = "over" => i + 1 = j + 1
          /\ events[i + 1].kind = "running" => i + 1 < j + 1
      BY <2>1, <2>2 DEF LifeOK
    <2> QED
      BY <2>1, <2>3
  <1>7. LifeOK'
    BY <1>4, <1>5, <1>6 DEF LifeOK, Ongoing, Over
  <1> QED
    BY <1>1, <1>2, <1>3, <1>7

(* What is shown of a run is as right when the first event is none of its    *)
(* answer.                                                                   *)
LEMMA ShiftedRun ==
  ASSUME Types, NEW q \in Run, Shifts, PiecesOK(q), StatusOK(q),
         UNCHANGED <<answer, live, calls>>, shown'[q] = shown[q],
         ~Piece(events[1], q), ~Last(events[1], q)
  PROVE  PiecesOK(q)' /\ StatusOK(q)'
  <1>1. \A i \in DOMAIN events : Piece(events[i], q) \/ Last(events[i], q) =>
          i \in Nat /\ i - 1 \in DOMAIN events' /\ events'[i - 1] = events[i]
    BY DEF Shifts
  <1>2. PiecesOK(q)'
    <2> DEFINE n == Len(shown[q].pieces)
    <2>1. n' = n
      OBVIOUS
    <2>2. shown'[q].pieces = Count(n) /\ n <= answer'[q].pieces
      BY DEF PiecesOK
    <2>3. \A i \in DOMAIN events' : Piece(events'[i], q) =>
            n < events'[i].piece /\ events'[i].piece <= answer'[q].pieces
      BY DEF PiecesOK, Shifts
    <2>4. ASSUME NEW m \in (n + 1)..answer'[q].pieces
          PROVE  \E i \in DOMAIN events' : Piece(events'[i], q) /\ events'[i].piece = m
      <3>1. PICK i \in DOMAIN events : Piece(events[i], q) /\ events[i].piece = m
        BY DEF PiecesOK
      <3> QED
        BY <1>1, <3>1
    <2>5. ASSUME NEW i \in DOMAIN events', NEW j \in DOMAIN events', i < j,
                 Piece(events'[i], q), Piece(events'[j], q)
          PROVE  events'[i].piece < events'[j].piece
      <3>1. /\ i \in Nat /\ i + 1 \in DOMAIN events /\ events'[i] = events[i + 1]
            /\ j \in Nat /\ j + 1 \in DOMAIN events /\ events'[j] = events[j + 1]
        BY DEF Shifts
      <3>2. i + 1 < j + 1 /\ Piece(events[i + 1], q) /\ Piece(events[j + 1], q)
        BY <2>5, <3>1
      <3> QED
        BY <3>1, <3>2 DEF PiecesOK
    <2> QED
      BY <2>1, <2>2, <2>3, <2>4, <2>5 DEF PiecesOK
  <1>3. StatusOK(q)'
    <2>1. \A i \in DOMAIN events' : Last(events'[i], q) =>
            events'[i].kind = answer[q].status /\ q \notin live
      BY DEF StatusOK, Shifts
    <2>2. (\E i \in DOMAIN events : Last(events[i], q)) =>
            \E i \in DOMAIN events' : Last(events'[i], q)
      BY <1>1
    <2>3. (\E i \in DOMAIN events : Piece(events[i], q) \/ Last(events[i], q)) =>
            \E i \in DOMAIN events' : Piece(events'[i], q) \/ Last(events'[i], q)
      BY <1>1
    <2> QED
      BY <2>1, <2>2, <2>3 DEF StatusOK
  <1> QED
    BY <1>2, <1>3

(* What a delivery of either kind keeps.                                     *)
LEMMA DeliveredFrame ==
  ASSUME PanelInv, events # <<>>, events' = Tail(events),
         UNCHANGED <<config, list, active, loading, calls, host, ghosts, acts>>
  PROVE  /\ Shifts /\ Head(events) = events[1] /\ events[1] \in Events
         /\ answer[events[1].run].of = events[1].of
         /\ HostTypes' /\ CallTypes' /\ EventTypes' /\ GhostTypes'
         /\ AnswersOK' /\ ConfigOK' /\ LoadsOK'
  <1> USE DEF PanelInv
  <1>1. Shifts /\ Head(events) = events[1] /\ events[1] \in Events
    BY TakesFirst
  <1>2. answer[events[1].run].of = events[1].of
    BY <1>1 DEF Types, EventTypes, Shifts
  <1>3. UNCHANGED <<stored, gone, settings, answer, live, unsaid, late, torn, mixed>>
    BY DEF host, ghosts
  <1>4. HostTypes' /\ CallTypes' /\ GhostTypes' /\ AnswersOK'
    BY <1>3, AnswersFrame DEF Types, HostTypes, CallTypes, GhostTypes
  <1>5. EventTypes'
    BY <1>1, <1>3, ShiftedEvents
  <1>6. ConfigOK'
    BY <1>3, FewerCallsConfig
  <1>7. LoadsOK'
    <2> SUFFICES ASSUME NEW l \in calls', l.op = "load", NEW q \in (RunsOf(l.of) \ torn)'
                 PROVE  LoadOK(l, q)'
      BY DEF LoadsOK
    <2>1. LoadOK(l, q)
      BY <1>3 DEF LoadsOK, RunsOf
    <2>2. \A i \in DOMAIN events' : ~(Piece(events'[i], q) \/ Last(events'[i], q))
      BY <1>1, <2>1 DEF LoadOK, Shifts
    <2> QED
      BY <1>3, <2>1, <2>2 DEF LoadOK
  <1> QED
    BY <1>1, <1>2, <1>4, <1>5, <1>6, <1>7

(* An event of a run: its beginning blocks what is blocked, its end releases *)
(* the conversation for good.                                                *)
LEMMA RuntimeKeeps ==
  ASSUME PanelInv, events # <<>>, events' = Tail(events),
         UNCHANGED <<config, list, active, loading, calls, host, ghosts, acts>>,
         Head(events).kind \in {"running", "over"}, HandleRuntime(Head(events))
  PROVE  PanelInv'
  <1> USE DEF PanelInv
  <1> DEFINE e == events[1]
  <1>1. /\ Shifts /\ Head(events) = e /\ e \in Events /\ answer[e.run].of = e.of
        /\ HostTypes' /\ CallTypes' /\ EventTypes' /\ GhostTypes'
        /\ AnswersOK' /\ ConfigOK' /\ LoadsOK'
    BY DeliveredFrame
  <1>2. UNCHANGED <<stored, gone, settings, answer, live, unsaid, late, torn, mixed>>
    BY DEF host, ghosts
  <1>3. /\ LifeOK'
        /\ \A q \in Run : ~(e.kind = "over" /\ e.run = q) => (Ongoing(q)' <=> Ongoing(q))
        /\ \A q : q = e.run /\ e.kind = "over" => ~Ongoing(q)'
        /\ \A q \in Run : Ongoing(q)' => Ongoing(q)
    BY <1>1, <1>2, ShiftedLife
  <1>4. e.run \in Run /\ e.of \in AIConversation /\ 1 \in DOMAIN events
    BY <1>1 DEF Events, Shifts
  <1>5. /\ e.kind \in {"running", "over"}
        /\ running' = [running EXCEPT ![e.of] = IF e.kind = "running" THEN e.run ELSE 0]
        /\ sending' = IF e.kind = "running" THEN sending \cup {e.of} ELSE sending \ {e.of}
        /\ shown' = shown
    BY <1>1 DEF HandleRuntime
  <1>6. Ongoing(e.run)
    BY <1>4, <1>5 DEF LifeOK, Ongoing, Over
  <1> HIDE DEF e
  <1>7. PanelTypes'
    <2>1. running' \in [AIConversation -> Run \cup {0}]
      BY <1>4, <1>5 DEF Types, PanelTypes
    <2> QED
      BY <1>4, <1>5, <2>1 DEF Types, PanelTypes
  <1>8. BlocksOK'
    <2> SUFFICES ASSUME NEW c \in AIConversation, ~Lost(c)' PROVE BlockOK(c)'
      BY DEF BlocksOK
    <2>1. Sends(c)' = Sends(c)
      BY DEF Sends
    <2>2. ~Lost(c)
      <3>1. c \notin late
        BY <1>2 DEF Lost
      <3>2. ASSUME NEW l \in Sends(c), l.state = "done", ~Ongoing(l.run) PROVE FALSE
        <4>1. l.run \in Run
          BY <3>2 DEF Types, CallTypes, Sends
        <4>2. ~Ongoing(l.run)'
          BY <1>3, <3>2, <4>1
        <4> QED
          BY <2>1, <3>2, <4>2 DEF Lost
      <3> QED
        BY <3>1, <3>2 DEF Lost
    <2>3. BlockOK(c)
      BY <2>2 DEF BlocksOK
    <2>4. CASE c # e.of
      <3>1. OngoingOf(c)' = OngoingOf(c)
        BY <1>1, <1>2, <1>3, <2>4 DEF OngoingOf, RunsOf
      <3>2. running'[c] = running[c] /\ (c \in sending' <=> c \in sending)
        BY <1>4, <1>5, <2>4 DEF Types, PanelTypes
      <3> QED
        BY <2>1, <2>3, <3>1, <3>2 DEF BlockOK
    <2>5. CASE c = e.of /\ e.kind = "running"
      <3>1. OngoingOf(c)' = OngoingOf(c) /\ e.run \in OngoingOf(c)
        BY <1>1, <1>2, <1>3, <1>4, <1>6, <2>5 DEF OngoingOf, RunsOf
      <3>2. running'[c] = e.run /\ sending' = sending
        BY <1>4, <1>5, <2>3, <2>5, <3>1 DEF Types, PanelTypes, BlockOK
      <3> QED
        BY <2>1, <2>3, <3>1, <3>2 DEF BlockOK
    <2>6. CASE c = e.of /\ e.kind = "over"
      <3>1. e.run \in OngoingOf(c)
        BY <1>1, <1>4, <1>6, <2>6 DEF OngoingOf, RunsOf
      <3>2. OngoingOf(c)' = {}
        BY <1>2, <1>3, <2>3, <2>6, <3>1 DEF OngoingOf, RunsOf, BlockOK
      <3>3. Sends(c) = {}
        <4> SUFFICES ASSUME NEW l \in Sends(c) PROVE FALSE
          OBVIOUS
        <4>1. l.state = "done"
          BY <2>3, <3>1 DEF BlockOK
        <4>2. l.run \in Run /\ answer[l.run].of = c
          BY <4>1 DEF Types, CallTypes, Sends
        <4>3. Ongoing(l.run)'
          BY <2>1, <4>1 DEF Lost
        <4>4. l.run \in OngoingOf(c)'
          BY <1>2, <4>2, <4>3 DEF OngoingOf, RunsOf
        <4> QED
          BY <3>2, <4>4
      <3>4. running'[c] = 0 /\ c \notin sending'
        BY <1>4, <1>5, <2>6 DEF Types, PanelTypes
      <3> QED
        BY <2>1, <3>2, <3>3, <3>4 DEF BlockOK
    <2> QED
      BY <1>5, <2>4, <2>5, <2>6
  <1>9. ShownOK'
    <2>1. \A q \in Run : Unsent(q)'
      BY <1>2, <1>5 DEF ShownOK, Unsent
    <2> SUFFICES ASSUME NEW q \in Run, answer'[q].of \in stored', q \notin torn'
                 PROVE  PiecesOK(q)' /\ StatusOK(q)'
      BY <2>1 DEF ShownOK
    <2>2. PiecesOK(q) /\ StatusOK(q)
      BY <1>2 DEF ShownOK
    <2>3. ~Piece(e, q) /\ ~Last(e, q)
      BY <1>5 DEF Piece, Last, Final
    <2> QED
      BY <1>1, <1>2, <1>5, <2>2, <2>3, ShiftedRun DEF e
  <1> QED
    BY <1>1, <1>3, <1>7, <1>8, <1>9 DEF Types

(* An event of an answer: it is the next piece, or says how the answer       *)
(* ended.                                                                    *)
LEMMA StreamKeeps ==
  ASSUME PanelInv, events # <<>>, events' = Tail(events),
         UNCHANGED <<config, list, active, loading, calls, host, ghosts, acts>>,
         NEW e, e = Head(events), e.kind \notin {"running", "over"}, HandleStream(e),
         NEW r, r = e.run
  PROVE  PanelInv'
  <1> USE DEF PanelInv
  <1> DEFINE m == IF shown[r] = NotShown THEN [pieces |-> <<>>, status |-> "streaming"]
                  ELSE shown[r]
  <1>1. /\ Shifts /\ events[1] = e /\ e \in Events /\ answer[r].of = e.of
        /\ HostTypes' /\ CallTypes' /\ EventTypes' /\ GhostTypes'
        /\ AnswersOK' /\ ConfigOK' /\ LoadsOK'
    BY DeliveredFrame
  <1>2. UNCHANGED <<stored, gone, settings, answer, live, unsaid, late, torn, mixed>>
    BY DEF host, ghosts
  <1>3. /\ r \in Run /\ e.of \in AIConversation /\ e.of # None /\ 1 \in DOMAIN events
        /\ e.kind \in Final \cup {"piece"} /\ e.piece \in Nat
    BY <1>1, AIPanelAssumption DEF Events, Shifts
  <1>4. /\ shown' = [shown EXCEPT ![r] =
             IF e.kind = "piece" THEN [m EXCEPT !.pieces = Append(@, e.piece)]
             ELSE [m EXCEPT !.status = e.kind]]
        /\ UNCHANGED <<running, sending>>
    BY <1>1 DEF HandleStream
  <1>5. /\ m \in Messages /\ m.pieces = shown[r].pieces
        /\ m.status = IF shown[r] = NotShown THEN "streaming" ELSE shown[r].status
    <2>1. [pieces |-> <<>>, status |-> "streaming"] \in Messages
      BY DEF Messages, Statuses
    <2> QED
      BY <1>3, <2>1 DEF NotShown, Types, PanelTypes
  <1> HIDE DEF m
  <1>6. shown'[r] = IF e.kind = "piece" THEN [m EXCEPT !.pieces = Append(@, e.piece)]
                    ELSE [m EXCEPT !.status = e.kind]
    BY <1>3, <1>4 DEF Types, PanelTypes
  <1>7. /\ shown'[r] \in Messages
        /\ shown'[r].pieces = IF e.kind = "piece" THEN Append(shown[r].pieces, e.piece)
                              ELSE shown[r].pieces
        /\ shown'[r].status = IF e.kind = "piece" THEN m.status ELSE e.kind
    <2>1. CASE e.kind = "piece"
      <3>1. Append(m.pieces, e.piece) \in Seq(Nat)
        BY <1>3, <1>5 DEF Messages
      <3> QED
        BY <1>5, <1>6, <2>1, <3>1 DEF Messages
    <2>2. CASE e.kind # "piece"
      BY <1>3, <1>5, <1>6, <2>2 DEF Messages, Statuses
    <2> QED
      BY <2>1, <2>2
  <1>8. /\ LifeOK'
        /\ \A q \in Run : Ongoing(q)' <=> Ongoing(q)
    <2>1. e.kind # "over"
      BY <1>1
    <2> QED
      BY <1>1, <1>2, <2>1, ShiftedLife
  <1>9. PanelTypes'
    <2>1. shown' \in [Run -> Messages]
      BY <1>3, <1>4, <1>6, <1>7 DEF Types, PanelTypes
    <2> QED
      BY <1>4, <2>1 DEF Types, PanelTypes
  <1>10. BlocksOK'
    <2>1. KeepsSends
      BY DEF KeepsSends
    <2> QED
      BY <1>2, <1>4, <1>8, <2>1, BlocksFrame DEF Types
  <1>11. ShownOK'
    <2>1. \A q \in Run : q # r => shown'[q] = shown[q]
      BY <1>4 DEF Types, PanelTypes
    <2>2. \A q \in Run : Unsent(q)'
      BY <1>1, <1>2, <1>3, <2>1 DEF ShownOK, Unsent
    <2> SUFFICES ASSUME NEW q \in Run, answer'[q].of \in stored', q \notin torn'
                 PROVE  PiecesOK(q)' /\ StatusOK(q)'
      BY <2>2 DEF ShownOK
    <2>3. PiecesOK(q) /\ StatusOK(q)
      BY <1>2 DEF ShownOK
    <2>4. CASE q # r
      <3>1. ~Piece(e, q) /\ ~Last(e, q)
        BY <2>4 DEF Piece, Last
      <3> QED
        BY <1>1, <1>2, <2>1, <2>3, <2>4, <3>1, ShiftedRun
    <2>5. CASE q = r
      <3> DEFINE n == Len(shown[r].pieces)
      <3>1. /\ n \in Nat /\ shown[r].pieces = Count(n)
            /\ n <= answer[r].pieces /\ answer[r].pieces \in Nat
        BY <1>3, <2>3, <2>5 DEF PiecesOK, Types, PanelTypes, HostTypes, Messages, Answers
      <3>2. /\ \A i \in DOMAIN events : Piece(events[i], r) =>
                 n < events[i].piece /\ events[i].piece <= answer[r].pieces
            /\ \A x \in (n + 1)..answer[r].pieces : \E i \in DOMAIN events :
                 Piece(events[i], r) /\ events[i].piece = x
            /\ \A i, j \in DOMAIN events :
                 i < j /\ Piece(events[i], r) /\ Piece(events[j], r) =>
                   events[i].piece < events[j].piece
        BY <2>3, <2>5 DEF PiecesOK
      <3> HIDE DEF n
      <3>3. shown'[r].status # "none" /\ shown'[r] # NotShown
        BY <1>3, <1>5, <1>7, <2>3, <2>5 DEF StatusOK, NotShown, Final
      <3>4. CASE e.kind = "piece"
        <4>1. Piece(e, r)
          BY <3>4 DEF Piece
        <4>2. e.piece = n + 1
          <5>1. n < e.piece /\ e.piece <= answer[r].pieces
            BY <1>3, <3>2, <4>1
          <5>2. PICK i \in DOMAIN events : Piece(events[i], r) /\ events[i].piece = n + 1
            BY <1>3, <3>1, <3>2, <5>1
          <5>3. i \in Nat /\ (i = 1 \/ i > 1)
            BY <1>1 DEF Shifts
          <5>4. CASE i > 1
            BY <1>3, <3>1, <3>2, <4>1, <5>1, <5>2, <5>4
          <5> QED
            BY <5>2, <5>3, <5>4
        <4>3. shown'[r].pieces = Count(n + 1) /\ Len(shown'[r].pieces) = n + 1
          BY <1>7, <3>1, <3>4, <4>2, Counted
        <4>4. n + 1 <= answer[r].pieces
          BY <1>3, <3>2, <4>1, <4>2
        <4>5. ASSUME NEW i \in DOMAIN events', Piece(events'[i], r)
              PROVE  n + 1 < events'[i].piece /\ events'[i].piece <= answer[r].pieces
          <5>1. /\ i \in Nat /\ i + 1 \in DOMAIN events /\ events'[i] = events[i + 1]
                /\ i # 0
            BY <1>1 DEF Shifts
          <5>2. 1 < i + 1
            BY <5>1
          <5> QED
            BY <1>3, <3>2, <4>1, <4>2, <4>5, <5>1, <5>2
        <4>6. ASSUME NEW x \in ((n + 1) + 1)..answer[r].pieces
              PROVE  \E i \in DOMAIN events' : Piece(events'[i], r) /\ events'[i].piece = x
          <5>1. x \in (n + 1)..answer[r].pieces /\ x # n + 1
            BY <3>1
          <5>2. PICK i \in DOMAIN events : Piece(events[i], r) /\ events[i].piece = x
            BY <3>2, <5>1
          <5>3. i # 1
            BY <4>2, <5>1, <5>2
          <5> QED
            BY <1>1, <5>2, <5>3 DEF Shifts
        <4>7. ASSUME NEW i \in DOMAIN events', NEW j \in DOMAIN events', i < j,
                     Piece(events'[i], r), Piece(events'[j], r)
              PROVE  events'[i].piece < events'[j].piece
          <5>1. /\ i \in Nat /\ i + 1 \in DOMAIN events /\ events'[i] = events[i + 1]
                /\ j \in Nat /\ j + 1 \in DOMAIN events /\ events'[j] = events[j + 1]
            BY <1>1 DEF Shifts
          <5>2. i + 1 < j + 1
            BY <4>7, <5>1
          <5> QED
            BY <3>2, <4>7, <5>1, <5>2
        <4>8. PiecesOK(r)'
          BY <1>2, <4>3, <4>4, <4>5, <4>6, <4>7 DEF PiecesOK
        <4>9. ~Last(e, r)
          BY <3>4 DEF Last, Final
        <4>10. (\E i \in DOMAIN events : Last(events[i], r)) =>
                 \E i \in DOMAIN events' : Last(events'[i], r)
          BY <1>1, <4>9 DEF Shifts
        <4>11. \A i \in DOMAIN events' : Last(events'[i], r) =>
                 events'[i].kind = answer[r].status /\ r \notin live
          BY <1>1, <2>3, <2>5 DEF StatusOK, Shifts
        <4>12. StatusOK(r)'
          BY <1>2, <1>5, <1>7, <2>3, <2>5, <3>3, <3>4, <4>10, <4>11 DEF StatusOK
        <4> QED
          BY <2>5, <4>8, <4>12
      <3>5. CASE e.kind # "piece"
        <4>1. Last(e, r) /\ ~Piece(e, r)
          BY <1>3, <3>5 DEF Last, Piece
        <4>2. e.kind = answer[r].status /\ r \notin live
          BY <1>3, <2>3, <2>5, <4>1 DEF StatusOK
        <4>3. shown'[r].pieces = shown[r].pieces /\ shown'[r].status = answer[r].status
          BY <1>7, <3>5, <4>2
        <4>4. \A i \in DOMAIN events : Piece(events[i], r) =>
                i \in Nat /\ i - 1 \in DOMAIN events' /\ events'[i - 1] = events[i]
          BY <1>1, <4>1 DEF Shifts
        <4>5. \A i \in DOMAIN events' : Piece(events'[i], r) =>
                n < events'[i].piece /\ events'[i].piece <= answer[r].pieces
          BY <1>1, <3>2 DEF Shifts
        <4>6. \A x \in (n + 1)..answer[r].pieces : \E i \in DOMAIN events' :
                Piece(events'[i], r) /\ events'[i].piece = x
          BY <3>2, <4>4
        <4>7. ASSUME NEW i \in DOMAIN events', NEW j \in DOMAIN events', i < j,
                     Piece(events'[i], r), Piece(events'[j], r)
              PROVE  events'[i].piece < events'[j].piece
          <5>1. /\ i \in Nat /\ i + 1 \in DOMAIN events /\ events'[i] = events[i + 1]
                /\ j \in Nat /\ j + 1 \in DOMAIN events /\ events'[j] = events[j + 1]
            BY <1>1 DEF Shifts
          <5>2. i + 1 < j + 1
            BY <4>7, <5>1
          <5> QED
            BY <3>2, <4>7, <5>1, <5>2
        <4>8. PiecesOK(r)'
          BY <1>2, <3>1, <4>3, <4>5, <4>6, <4>7 DEF PiecesOK, n
        <4>9. \A i \in DOMAIN events' : Last(events'[i], r) => events'[i].kind = answer[r].status
          BY <1>1, <2>3, <2>5 DEF StatusOK, Shifts
        <4>10. StatusOK(r)'
          BY <1>2, <3>3, <4>2, <4>3, <4>9 DEF StatusOK
        <4> QED
          BY <2>5, <4>8, <4>10
      <3> QED
        BY <3>4, <3>5
    <2> QED
      BY <2>4, <2>5
  <1> QED
    BY <1>1, <1>8, <1>9, <1>10, <1>11 DEF Types

(* Deliver keeps the invariant.                                              *)
LEMMA DeliverKeeps == ASSUME PanelInv, DeliverEvent PROVE PanelInv'
  BY RuntimeKeeps, StreamKeeps DEF DeliverEvent

-------------------------------------------------------------------------------
(* Everything                                                                *)

(* The panel mounts with one conversation stored and the list on its way.    *)
LEMMA PanelInitInv == ASSUME PanelInit PROVE PanelInv
  <1> USE DEF PanelInit
  <1>1. config \in Configs /\ settings = config
    BY AIPanelAssumption DEF Configs
  <1>2. IsNew(CallOf("initialize", None)) /\ CallOf("initialize", None).op = "initialize"
    BY <1>1, NewCall DEF Ops
  <1>3. CallTypes
    BY <1>2 DEF CallTypes, IsNew
  <1>4. \A r \in Run : answer[r] = NotSent /\ answer[r].of = None
    BY DEF NotSent
  <1>5. NotSent \in Answers /\ NotShown \in Messages
    BY DEF NotSent, NotShown, Answers, Messages, Statuses
  <1>6. Types
    <2>1. PanelTypes
      BY <1>1, <1>5 DEF PanelTypes
    <2>2. HostTypes
      <3>1. unsaid \in [Run -> Nat]
        BY AIPanelAssumption
      <3> QED
        BY <1>1, <1>5, <3>1, AIPanelAssumption DEF HostTypes
    <2>3. EventTypes
      BY DEF EventTypes
    <2>4. GhostTypes
      BY AIPanelAssumption DEF GhostTypes
    <2> QED
      BY <1>3, <2>1, <2>2, <2>3, <2>4 DEF Types
  <1>7. AnswersOK
    BY <1>4 DEF AnswersOK
  <1>8. ConfigOK
    BY <1>2 DEF ConfigOK, IsNew
  <1>9. LifeOK
    BY DEF LifeOK
  <1>10. BlocksOK
    <2> SUFFICES ASSUME NEW c \in AIConversation PROVE BlockOK(c)
      BY DEF BlocksOK
    <2>1. Sends(c) = {}
      BY <1>2 DEF Sends
    <2>2. OngoingOf(c) = {}
      BY DEF OngoingOf, Ongoing, Over
    <2> QED
      BY <2>1, <2>2 DEF BlockOK
  <1>11. ShownOK
    <2>1. \A r \in Run : answer[r].of \notin stored
      BY <1>4, AIPanelAssumption
    <2> QED
      BY <2>1 DEF ShownOK, Unsent
  <1>12. LoadsOK
    BY <1>2 DEF LoadsOK
  <1> QED
    BY <1>6, <1>7, <1>8, <1>9, <1>10, <1>11, <1>12 DEF PanelInv

(* Nothing happens.                                                          *)
LEMMA StutterKeeps == ASSUME PanelInv, UNCHANGED panelVars PROVE PanelInv'
  <1> USE DEF PanelInv, panelVars, panel, host, ghosts
  <1>1. EventTypes' /\ AnswersOK' /\ LifeOK'
    BY EventsFrame, AnswersFrame, LifeFrame DEF Types
  <1>2. PanelTypes' /\ HostTypes' /\ GhostTypes' /\ CallTypes'
    BY DEF Types, PanelTypes, HostTypes, GhostTypes, CallTypes
  <1>3. ConfigOK'
    BY FewerCallsConfig
  <1>4. KeepsSends /\ \A r \in Run : KeepsDone(r)
    BY DEF KeepsSends, KeepsDone
  <1>5. BlocksOK' /\ ShownOK' /\ LoadsOK'
    BY <1>4, BlocksFrame, OngoingFrame, ShownFrame, LoadsFrame DEF Types
  <1> QED
    BY <1>1, <1>2, <1>3, <1>5 DEF Types

(* Every step keeps the invariant.                                           *)
LEMMA PanelStep == ASSUME PanelInv, PanelNext PROVE PanelInv'
  <1>1. CASE User
    BY <1>1, InitializeKeeps, CreateKeeps, DeleteKeeps, SendKeeps, StopKeeps, SelectKeeps,
       SetConfigKeeps DEF User
  <1>2. CASE DeliverEvent
    BY <1>2, DeliverKeeps
  <1>3. ASSUME NEW k \in calls, Host(k) PROVE PanelInv'
    BY <1>3, ListsKeeps, ReadsKeeps, HostCreatesKeeps, HostDeletesKeeps, HostSendsKeeps,
       HostStopsKeeps, HostStoppedKeeps DEF Host
  <1>4. ASSUME NEW k \in calls, Reply(k) PROVE PanelInv'
    BY <1>4, InitializedKeeps, LoadedKeeps, CreatedKeeps, DeletedKeeps, SendReturnsKeeps,
       SendFailsKeeps, FailsKeeps DEF Reply
  <1>5. ASSUME NEW r \in Run, HostStreams(r) \/ ProviderEnds(r) \/ StartFails(r) PROVE PanelInv'
    BY <1>5, StreamsKeeps, ProviderEndsKeeps, StartFailsKeeps
  <1> QED
    BY <1>1, <1>2, <1>3, <1>4, <1>5 DEF PanelNext

(* The inductive invariant of the panel: the calls on their way, the runs of *)
(* which the end has not arrived, and what shown pieces and events make      *)
(* together, for any number of conversations, providers, runs, pieces and    *)
(* acts of the user (ai-store.ts). Nothing is claimed of what is shown of a  *)
(* run that is torn: by a load, or because the host emitted what it did not  *)
(* store (service.go:470, :490).                                             *)
THEOREM PanelInductive == PanelSpec => []PanelInv
  <1>1. PanelInit => PanelInv
    BY PanelInitInv
  <1>2. PanelInv /\ [PanelNext]_panelVars => PanelInv'
    BY PanelStep, StutterKeeps
  <1> QED
    BY <1>1, <1>2, PTL DEF PanelSpec

(* With nothing on its way the invariant is the agreement.                   *)
LEMMA AgreesWhenQuiet == ASSUME PanelInv PROVE PanelAgrees
  <1> USE DEF PanelInv
  <1>1. ASSUME Quiet, active \in stored, NEW r \in RunsOf(active) \ torn
        PROVE  shown[r] = [pieces |-> Count(answer[r].pieces), status |-> answer[r].status]
    <2>1. events = <<>> /\ calls = {} /\ r \in Run /\ PiecesOK(r) /\ StatusOK(r)
      BY <1>1 DEF Quiet, RunsOf, ShownOK
    <2>2. shown[r] \in Messages /\ answer[r].pieces \in Nat
      BY <2>1 DEF Types, PanelTypes, HostTypes, Answers
    <2>3. Len(shown[r].pieces) \in Nat
      BY <2>2 DEF Messages
    <2>4. Len(shown[r].pieces) = answer[r].pieces
      <3> SUFFICES ASSUME Len(shown[r].pieces) < answer[r].pieces PROVE FALSE
        BY <2>1, <2>2, <2>3 DEF PiecesOK
      <3>1. answer[r].pieces \in (Len(shown[r].pieces) + 1)..answer[r].pieces
        BY <2>2, <2>3
      <3> QED
        BY <2>1, <3>1 DEF PiecesOK
    <2>5. shown[r].pieces = Count(answer[r].pieces)
      BY <2>1, <2>4 DEF PiecesOK
    <2>6. shown[r].status = answer[r].status
      BY <2>1 DEF StatusOK
    <2> QED
      BY <2>2, <2>5, <2>6 DEF Messages
  <1>2. ASSUME Quiet, NEW c \in stored \ late PROVE IsRunning(c) <=> BusyOn(c)
    <2>1. c \in AIConversation /\ Sends(c) = {} /\ \A r : Ongoing(r) <=> r \in live
      BY <1>2 DEF Quiet, Sends, Ongoing, Over, Types, HostTypes
    <2>2. BlockOK(c)
      BY <1>2, <2>1 DEF BlocksOK, Lost
    <2>3. OngoingOf(c) # {} <=> BusyOn(c)
      BY <2>1 DEF OngoingOf, RunsOf, BusyOn, Types, HostTypes
    <2>4. IsRunning(c) <=> OngoingOf(c) # {}
      BY <2>1, <2>2 DEF BlockOK, IsRunning
    <2> QED
      BY <2>3, <2>4
  <1> QED
    BY <1>1, <1>2 DEF PanelAgrees, ShownIsStored, RunningIsTrue

(* Once nothing is on its way the panel shows what is stored of an answer,   *)
(* unless a load tore it or the host emitted a piece or an end it did not    *)
(* store, and a conversation is blocked if and only if the host has a run    *)
(* for it, in whatever order answers and events come (handleStream,          *)
(* handleRuntime and send of ai-store.ts).                                   *)
THEOREM PanelAgreed == PanelSpec => []PanelAgrees
  BY PanelInductive, AgreesWhenQuiet, PTL

(* A consent the panel relies on is one the host has, unless calls that      *)
(* carry the configuration overlap (setConfig, send and initializeProject of *)
(* ai-store.ts).                                                             *)
THEOREM ConsentKnown == PanelSpec => []ConsentIsKnown
  <1>1. PanelInv => ConsentIsKnown
    BY DEF PanelInv, ConfigOK, ConsentIsKnown
  <1> QED
    BY <1>1, PanelInductive, PTL
===============================================================================
