---------------------------- MODULE AIRunsProofs ----------------------------
(***************************************************************************)
(* For any number of sends, conversations, pieces of text, stops, deaths   *)
(* and stalls of the sidecar, writes of the database that fail and         *)
(* restarts: an answer that streams has its one run, nothing is left of a  *)
(* deleted conversation, and how an answer ended is true.                  *)
(***************************************************************************)
EXTENDS AIRuns, TLAPS

Ended == {"completed", "failed", "cancelled"}
Deciding == {"created", "conflict"}

(* What Send, the once of a run and the maps know of each other: a run is     *)
(* registered until its once is over, and its message streams until the once  *)
(* has written, or for longer if that failed.                                *)
RunInv(s) ==
  /\ s \in registered <=> send[s] = "running" /\ fin[s] # "done"
  /\ send[s] # "running" => fin[s] = "no" /\ start[s] = "none" /\ stop[s] = "idle"
  /\ send[s] \in {"none", "checked"} => msg[s] = "none"
  /\ send[s] \in Deciding => msg[s] \in {"streaming", "deleted"}
  /\ send[s] = "running" =>
       IF fin[s] \in {"no", "write"} THEN msg[s] \in {"streaming", "deleted"}
                                     ELSE \/ msg[s] \in Final \cup {"deleted"}
                                          \/ msg[s] = "streaming" /\ s \in unended
  /\ send[s] = "failed" => msg[s] # "streaming" \/ AppDone \/ s \in unended
  /\ fin[s] = "write" => finAs[s] \in Final
  /\ reader # NoEvent /\ reader[1] = s => send[s] = "running"
  /\ s \in closing => send[s] = "running" /\ closed
  /\ ConversationOf[s] \notin stored => msg[s] \in {"none", "deleted"}
  /\ s \in ctxDone => fin[s] # "no" \/ ~Undisturbed(s)
  /\ finAs[s] = "interrupted" \/ msg[s] = "interrupted" => closed \/ restarts > 0

(* The queue of a chat has a reply first and a last event last.               *)
Ordered(q) == \A i \in DOMAIN q : /\ q[i] \in {"reply", "replyError"} => i = 1
                                  /\ q[i] \in LastEvent => i = Len(q)

(* A chat is started once; what it wrote is a reply, pieces of text and one   *)
(* last event, in that order, and the reader takes them in that order.        *)
ChatInv(s) ==
  /\ start[s] \in {"none", "status", "write"} =>
       <<"start", s>> \notin requests /\ chat[s] = "none"
  /\ <<"start", s>> \in requests => chat[s] = "none"
  /\ chat[s] = "none" => said[s] = 0
  /\ chat[s] \in {"none", "starting"} => events[s] = <<>>
  /\ Ordered(events[s])
  /\ \A i \in DOMAIN events[s] :
       /\ events[s][i] \in LastEvent => chat[s] \in Ended
       /\ events[s][i] = "completed" => chat[s] = "completed"
  /\ reader # NoEvent /\ reader[1] = s =>
       /\ reader[2] \in LastEvent \cup {"text", "finishing"}
       /\ chat[s] \notin {"none", "starting"}
       /\ reader[2] # "text" => events[s] = <<>> /\ chat[s] \in Ended
       /\ reader[2] = "completed" => chat[s] = "completed"
  /\ finAs[s] = "complete" =>
       chat[s] = "completed" /\ events[s] = <<>> /\ reader # <<s, "text">>
  /\ msg[s] = "complete" => finAs[s] = "complete"

(* How many pieces of text are on their way to the message.                  *)
TextsIn(q) == IF q = <<>> THEN 0
              ELSE Len(q) - (IF q[1] \in {"reply", "replyError"} THEN 1 ELSE 0)
                          - (IF q[Len(q)] \in LastEvent THEN 1 ELSE 0)
InHand(s) == IF reader = <<s, "text">> THEN 1 ELSE 0

(* The last event of the chat has not been read, and was not lost.            *)
Coming(s) == \/ chat[s] \in {"none", "starting", "active"}
             \/ events[s] # <<>> /\ events[s][Len(events[s])] \in LastEvent

(* Text is neither made up nor, while nobody disturbs the run and the         *)
(* database takes every piece, lost.                                         *)
Kept(s) == Undisturbed(s) /\ msg[s] # "deleted" /\ s \notin gaps
TextInv(s) ==
  /\ text[s] + TextsIn(events[s]) + InHand(s) <= said[s]
  /\ Kept(s) /\ fin[s] = "no" /\ Coming(s) =>
       text[s] + TextsIn(events[s]) + InHand(s) = said[s]
  /\ Kept(s) /\ fin[s] = "no" /\ reader \in {<<s, e>> : e \in LastEvent} =>
       text[s] = said[s]
  /\ Kept(s) /\ finAs[s] = "complete" => text[s] = said[s]

IInv == /\ TypeOK /\ OneRunPerConversation
        /\ AppDone => closed
        /\ \A s \in Send : RunInv(s) /\ ChatInv(s) /\ TextInv(s)

-------------------------------------------------------------------------------
(* What a step does to the once of a run, to a message and to the queue.      *)

LEMMA Parts ==
  ASSUME IInv
  PROVE  /\ TypeOK /\ OneRunPerConversation /\ (AppDone => closed)
         /\ \A t \in Send : RunInv(t)
         /\ \A t \in Send : ChatInv(t)
         /\ \A t \in Send : TextInv(t)
BY DEF IInv

LEMMA Finishes ==
  ASSUME TypeOK, NEW s \in Send, NEW status \in Final, Finish(s, status)
  PROVE  /\ fin' \in [Send -> {"no", "write", "unregister", "done"}]
         /\ finAs' \in [Send -> {"none"} \cup Final]
         /\ fin[s] = "no" => fin'[s] = "write" /\ finAs'[s] = status
         /\ fin[s] # "no" => fin'[s] = fin[s] /\ finAs'[s] = finAs[s]
         /\ \A t \in Send : t # s => fin'[t] = fin[t] /\ finAs'[t] = finAs[t]
<1>1. CASE First(s)
  <2>1. fin' = [fin EXCEPT ![s] = "write"] /\ finAs' = [finAs EXCEPT ![s] = status]
    BY <1>1 DEF Finish
  <2>2. finAs' \in [Send -> {"none"} \cup Final]
    BY <2>1 DEF TypeOK
  <2> QED
    BY <1>1, <2>1, <2>2 DEF First, TypeOK
<1>2. CASE ~First(s)
  BY <1>2 DEF Finish, First, TypeOK
<1> QED
  BY <1>1, <1>2

LEMMA Writes ==
  ASSUME TypeOK, NEW s \in Send, NEW status \in Final, FinishMessage(s, status)
  PROVE  /\ msg' \in [Send -> MsgStatus]
         /\ msg[s] = "deleted" => msg'[s] = "deleted"
         /\ msg[s] # "deleted" => \/ msg'[s] = status
                                  \/ msg'[s] = msg[s] /\ s \in unended'
         /\ \A t \in Send : t # s => msg'[t] = msg[t]
         /\ unended \subseteq unended' /\ unended' \subseteq Send
         /\ failures' \in 0 .. budget.failures
<1>1. CASE /\ msg' = [msg EXCEPT ![s] = IF @ = "deleted" THEN @ ELSE status]
           /\ UNCHANGED <<unended, failures>>
  <2>1. msg' \in [Send -> MsgStatus] /\ (\A t \in Send : t # s => msg'[t] = msg[t])
    BY <1>1 DEF TypeOK, MsgStatus
  <2>2. msg'[s] = IF msg[s] = "deleted" THEN "deleted" ELSE status
    BY <1>1 DEF TypeOK
  <2>3. unended' = unended /\ failures' = failures
    BY <1>1
  <2> QED
    BY <2>1, <2>2, <2>3 DEF TypeOK
<1>2. CASE MayFail /\ unended' = unended \cup {s} /\ UNCHANGED msg
  <2>1. failures' \in 0 .. budget.failures
    BY <1>2, AIRunsAssumption DEF MayFail, TypeOK
  <2> QED
    BY <1>2, <2>1 DEF TypeOK
<1> QED
  BY <1>1, <1>2 DEF FinishMessage

USE DEF Final, MsgStatus, SendPc, StartPc, StopPc, Sidecar, ChatState, LastEvent,
        Event, NoEvent, AppDone, Deciding, Ended, runVars, dbVars, chatVars,
        hostVars, ghosts, bounds

LEMMA Empty ==
  ASSUME NEW q \in Seq(Event)
  PROVE  Len(q) = 0 <=> q = <<>>
OBVIOUS

LEMMA QueueGrows ==
  ASSUME NEW q \in Seq(Event), NEW r \in Seq(Event), NEW e \in Event,
         Len(r) = Len(q) + 1, r[Len(r)] = e, \A i \in DOMAIN q : r[i] = q[i],
         \A i \in DOMAIN r : i \in DOMAIN q \/ i = Len(r),
         \A i \in DOMAIN q : q[i] \notin LastEvent,
         q # <<>> => e \notin {"reply", "replyError"}, Ordered(q)
  PROVE  /\ Ordered(r)
         /\ TextsIn(r) = TextsIn(q) + (IF e = "text" THEN 1 ELSE 0)
<1>1. CASE q = <<>>
  <2>1. Len(q) = 0 /\ Len(r) = 1 /\ r # <<>> /\ r[1] = e
    BY <1>1, Empty
  <2>2. TextsIn(q) = 0
    BY <1>1 DEF TextsIn
  <2>3. TextsIn(r) = IF e = "text" THEN 1 ELSE 0
    BY <2>1 DEF TextsIn
  <2>4. Ordered(r)
    BY <2>1 DEF Ordered
  <2> QED
    BY <2>2, <2>3, <2>4
<1>2. CASE q # <<>>
  <2>1. r # <<>> /\ r[1] = q[1] /\ Len(q) \in Nat \ {0}
    BY <1>2, Empty
  <2>2. q[Len(q)] \notin LastEvent /\ (e = "text" <=> e \notin LastEvent)
    BY <1>2, <2>1
  <2> DEFINE replied == IF q[1] \in {"reply", "replyError"} THEN 1 ELSE 0
             last == IF e \in LastEvent THEN 1 ELSE 0
  <2>3. TextsIn(q) = Len(q) - replied
    BY <1>2, <2>1, <2>2 DEF TextsIn
  <2>4. TextsIn(r) = Len(q) + 1 - replied - last
    BY <2>1 DEF TextsIn
  <2>5. replied \in Nat /\ last = 1 - (IF e = "text" THEN 1 ELSE 0)
    BY <2>2
  <2>6. Ordered(r)
    BY <1>2, <2>1 DEF Ordered
  <2> HIDE DEF replied, last
  <2> QED
    BY <2>1, <2>3, <2>4, <2>5, <2>6
<1> QED
  BY <1>1, <1>2

LEMMA QueueShrinks ==
  ASSUME NEW q \in Seq(Event), NEW r \in Seq(Event), q # <<>>, Ordered(q),
         Len(r) = Len(q) - 1,
         \A i \in DOMAIN r : i + 1 \in DOMAIN q /\ r[i] = q[i + 1]
  PROVE  /\ Ordered(r)
         /\ TextsIn(r) = TextsIn(q) - (IF q[1] = "text" THEN 1 ELSE 0)
         /\ q[1] \in LastEvent => r = <<>>
         /\ q[Len(q)] = IF r = <<>> THEN q[1] ELSE r[Len(r)]
<1>1. Len(q) \in Nat \ {0} /\ q[1] \in Event /\ 1 \in DOMAIN q
  BY Empty
<1>2. Len(r) \in Nat /\ (Len(r) = 0 <=> r = <<>>) /\ DOMAIN r = 1 .. Len(r)
  BY Empty
<1>3. CASE r = <<>>
  <2>1. Len(q) = 1 /\ Ordered(r) /\ TextsIn(r) = 0
    BY <1>1, <1>2, <1>3 DEF Ordered, TextsIn
  <2>2. TextsIn(q) = IF q[1] = "text" THEN 1 ELSE 0
    BY <1>1, <2>1 DEF TextsIn
  <2> QED
    BY <1>3, <2>1, <2>2
<1>4. CASE r # <<>>
  <2>1. Len(r) \in Nat \ {0} /\ r[1] = q[2] /\ r[Len(r)] = q[Len(q)]
    BY <1>1, <1>2, <1>4
  <2>2. r[1] \notin {"reply", "replyError"} /\ q[1] \notin LastEvent
    BY <1>1, <1>2, <2>1 DEF Ordered
  <2>3. Ordered(r)
    BY <1>1, <1>2, <2>1 DEF Ordered
  <2>4. TextsIn(r) = TextsIn(q) - (IF q[1] = "text" THEN 1 ELSE 0)
    BY <1>1, <1>4, <2>1, <2>2 DEF TextsIn
  <2> QED
    BY <1>4, <2>1, <2>2, <2>3, <2>4
<1> QED
  BY <1>3, <1>4

LEMMA TextsCounted ==
  ASSUME NEW q \in Seq(Event), Ordered(q)
  PROVE  TextsIn(q) \in Nat /\ TextsIn(<<>>) = 0
<1>1. Len(q) \in Nat /\ (Len(q) = 0 <=> q = <<>>)
  BY Empty
<1>2. q # <<>> /\ q[1] \in {"reply", "replyError"} /\ q[Len(q)] \in LastEvent =>
        Len(q) # 1
  BY <1>1
<1> QED
  BY <1>1, <1>2 DEF TextsIn

(* What the sidecar writes of a chat, and the read loop takes.                *)

LEMMA Told ==
  ASSUME IInv, NEW s \in Send, NEW e \in Event, Tell(s, e),
         chat[s] = IF e \in {"reply", "replyError"} THEN "starting" ELSE "active"
  PROVE  /\ events' \in [Send -> Seq(Event)]
         /\ events'[s] # <<>> /\ Len(events'[s]) \in Nat
         /\ events'[s][Len(events'[s])] = e
         /\ \A i \in DOMAIN events'[s] :
           events'[s][i] \in LastEvent => events'[s][i] = e
         /\ Ordered(events'[s])
         /\ TextsIn(events[s]) \in Nat
         /\ TextsIn(events'[s]) = TextsIn(events[s]) + (IF e = "text" THEN 1 ELSE 0)
         /\ \A t \in Send : t # s => events'[t] = events[t]
<1> DEFINE q == events[s]
           r == Append(q, e)
<1>1. q \in Seq(Event) /\ Ordered(q)
      /\ (\A i \in DOMAIN q : q[i] \notin LastEvent)
      /\ (q # <<>> => e \notin {"reply", "replyError"})
  BY Parts DEF TypeOK, ChatInv
<1>2. events' \in [Send -> Seq(Event)] /\ events'[s] = r
      /\ \A t \in Send : t # s => events'[t] = events[t]
  BY <1>1, Parts DEF Tell, TypeOK
<1> HIDE DEF q
<1>3. /\ r \in Seq(Event) /\ r # <<>> /\ Len(r) = Len(q) + 1 /\ Len(r) \in Nat
      /\ r[Len(r)] = e
      /\ \A i \in DOMAIN q : r[i] = q[i]
      /\ \A i \in DOMAIN r : i \in DOMAIN q \/ i = Len(r)
  BY <1>1
<1> HIDE DEF r
<1>4. Ordered(r) /\ TextsIn(r) = TextsIn(q) + (IF e = "text" THEN 1 ELSE 0)
  BY <1>1, <1>3, QueueGrows
<1>5. \A i \in DOMAIN r : r[i] \in LastEvent => r[i] = e
  BY <1>1, <1>3
<1>6. TextsIn(q) \in Nat
  BY <1>1, TextsCounted
<1> QED
  BY <1>2, <1>3, <1>4, <1>5, <1>6 DEF q

LEMMA Taken ==
  ASSUME IInv, NEW s \in Send, events[s] # <<>>,
         events' = [events EXCEPT ![s] = Tail(@)]
  PROVE  /\ events' \in [Send -> Seq(Event)]
         /\ Head(events[s]) = events[s][1] /\ events[s][1] \in Event
         /\ 1 \in DOMAIN events[s] /\ Len(events'[s]) \in Nat
         /\ \A i \in DOMAIN events'[s] : i + 1 \in DOMAIN events[s]
                                         /\ events'[s][i] = events[s][i + 1]
         /\ Ordered(events'[s])
         /\ TextsIn(events'[s]) =
           TextsIn(events[s]) - (IF events[s][1] = "text" THEN 1 ELSE 0)
         /\ events[s][1] \in LastEvent => events'[s] = <<>>
         /\ events[s][Len(events[s])] =
              IF events'[s] = <<>> THEN events[s][1] ELSE events'[s][Len(events'[s])]
         /\ TextsIn(events[s]) \in Nat
         /\ \A t \in Send : t # s => events'[t] = events[t]
<1>1. events[s] \in Seq(Event) /\ Ordered(events[s])
  BY Parts DEF TypeOK, ChatInv
<1>2. Len(events[s]) \in Nat \ {0} /\ Head(events[s]) = events[s][1]
  BY <1>1
<1>3. /\ Tail(events[s]) \in Seq(Event)
      /\ Len(Tail(events[s])) = Len(events[s]) - 1
      /\ \A i \in 1 .. Len(events[s]) - 1 : Tail(events[s])[i] = events[s][i + 1]
  BY <1>1
<1>4. events' \in [Send -> Seq(Event)] /\ events'[s] = Tail(events[s])
      /\ \A t \in Send : t # s => events'[t] = events[t]
  BY <1>1, <1>3, Parts DEF TypeOK
<1>5. /\ events[s][1] \in Event /\ 1 \in DOMAIN events[s] /\ Len(events'[s]) \in Nat
      /\ \A i \in DOMAIN events'[s] : i + 1 \in DOMAIN events[s]
                                      /\ events'[s][i] = events[s][i + 1]
  BY <1>1, <1>2, <1>3, <1>4
<1>6. events'[s] \in Seq(Event) /\ Len(events'[s]) = Len(events[s]) - 1
  BY <1>3, <1>4
<1>7. /\ Ordered(events'[s])
      /\ TextsIn(events'[s]) =
           TextsIn(events[s]) - (IF events[s][1] = "text" THEN 1 ELSE 0)
      /\ events[s][1] \in LastEvent => events'[s] = <<>>
      /\ events[s][Len(events[s])] =
           IF events'[s] = <<>> THEN events[s][1] ELSE events'[s][Len(events'[s])]
  BY <1>1, <1>5, <1>6, QueueShrinks
<1> QED
  BY <1>1, <1>2, <1>4, <1>5, <1>7, TextsCounted

LEMMA SendCheckStep ==
  ASSUME IInv, NEW s \in Send, SendCheck(s)
  PROVE  IInv'
<1>1. TypeOK'
  BY Parts, AIRunsAssumption DEF TypeOK, SendCheck
<1>2. OneRunPerConversation' /\ (AppDone => closed)'
  BY Parts DEF TypeOK, OneRunPerConversation, RunInv, SendCheck
<1>3. ASSUME NEW t \in Send PROVE (RunInv(t) /\ ChatInv(t) /\ TextInv(t))'
  <2>1. RunInv(t)'
    BY Parts DEF TypeOK, RunInv, Undisturbed, SendCheck
  <2>2. ChatInv(t)'
    BY Parts DEF TypeOK, RunInv, ChatInv, SendCheck
  <2>3. TextInv(t)'
    BY Parts DEF TypeOK, RunInv, ChatInv, TextInv, Kept, Coming, InHand,
                 Undisturbed, SendCheck
  <2> QED
    BY <2>1, <2>2, <2>3
<1> QED
  BY <1>1, <1>2, <1>3 DEF IInv

LEMMA SendCreateStep ==
  ASSUME IInv, NEW s \in Send, SendCreate(s)
  PROVE  IInv'
<1>1. /\ send[s] = "checked"
      /\ send' \in [Send -> SendPc]
      /\ msg' \in [Send -> MsgStatus]
      /\ \/ send'[s] = "created" /\ msg'[s] = "streaming" /\ ConversationOf[s] \in stored
         \/ send'[s] = "failed" /\ msg'[s] = msg[s]
      /\ \A t \in Send : t # s => send'[t] = send[t] /\ msg'[t] = msg[t]
  <2>1. CASE ConversationOf[s] \in stored /\ ~AppDone
    <3>1. msg' = [msg EXCEPT ![s] = "streaming"] /\ send' = [send EXCEPT ![s] = "created"]
      BY <2>1 DEF SendCreate
    <3>2. msg' \in [Send -> MsgStatus]
      BY <3>1, Parts DEF TypeOK
    <3>3. send' \in [Send -> SendPc]
      BY <3>1, Parts DEF TypeOK
    <3> QED
      BY <2>1, <3>1, <3>2, <3>3, Parts DEF SendCreate, TypeOK
  <2>2. CASE ~(ConversationOf[s] \in stored /\ ~AppDone)
    <3>1. msg' = msg /\ send' = [send EXCEPT ![s] = "failed"]
      BY <2>2 DEF SendCreate
    <3>2. send' \in [Send -> SendPc]
      BY <3>1, Parts DEF TypeOK
    <3>3. msg' \in [Send -> MsgStatus]
      BY <3>1, Parts DEF TypeOK
    <3> QED
      BY <2>2, <3>1, <3>2, <3>3, Parts DEF SendCreate, TypeOK
  <2> QED
    BY <2>1, <2>2
<1>2. UNCHANGED <<stored, text, registered, fin, finAs, ctxDone, start, stop,
                  requests, chat, said, events, reader, sidecar, closed, closing,
                  del, unended, gaps, deaths, stalls, failures, restarts, budget>>
  BY DEF SendCreate
<1>3. TypeOK'
  BY <1>1, <1>2, Parts, AIRunsAssumption DEF TypeOK
<1>4. OneRunPerConversation' /\ (AppDone => closed)'
  BY <1>1, <1>2, Parts DEF TypeOK, OneRunPerConversation, RunInv
<1>5. ASSUME NEW t \in Send PROVE (RunInv(t) /\ ChatInv(t) /\ TextInv(t))'
  <2> /\ TypeOK /\ RunInv(t) /\ ChatInv(t) /\ TextInv(t)
      /\ RunInv(s) /\ ChatInv(s) /\ TextInv(s)
    BY Parts
  <2>1. RunInv(t)'
    BY <1>1, <1>2 DEF TypeOK, RunInv, Undisturbed
  <2>2. ChatInv(t)'
    BY <1>1, <1>2 DEF TypeOK, RunInv, ChatInv
  <2>3. TextInv(t)'
    BY <1>1, <1>2 DEF TypeOK, RunInv, ChatInv, TextInv, Kept, Coming, InHand,
                      Undisturbed
  <2> QED
    BY <2>1, <2>2, <2>3
<1> QED
  BY <1>3, <1>4, <1>5 DEF IInv

LEMMA SendRegisterStep ==
  ASSUME IInv, NEW s \in Send, SendRegister(s)
  PROVE  IInv'
<1>1. TypeOK'
  BY Parts DEF TypeOK, SendRegister, StillFree, Busy, RunsOf
<1>2. OneRunPerConversation' /\ (AppDone => closed)'
  BY Parts DEF TypeOK, OneRunPerConversation, RunInv, SendRegister, StillFree,
               Busy, RunsOf
<1>3. ASSUME NEW t \in Send PROVE (RunInv(t) /\ ChatInv(t) /\ TextInv(t))'
  <2>1. RunInv(t)'
    BY Parts DEF TypeOK, RunInv, Undisturbed, SendRegister, StillFree, Busy,
                 RunsOf
  <2>2. ChatInv(t)'
    BY Parts DEF TypeOK, RunInv, ChatInv, SendRegister, StillFree, Busy, RunsOf
  <2>3. TextInv(t)'
    BY Parts DEF TypeOK, RunInv, ChatInv, TextInv, Kept, Coming, InHand,
                 Undisturbed, SendRegister, StillFree, Busy, RunsOf
  <2> QED
    BY <2>1, <2>2, <2>3
<1> QED
  BY <1>1, <1>2, <1>3 DEF IInv

LEMMA SendConflictStep ==
  ASSUME IInv, NEW s \in Send, SendConflict(s)
  PROVE  IInv'
<1>1. TypeOK'
  BY Parts, AIRunsAssumption DEF TypeOK, SendConflict
<1>2. OneRunPerConversation' /\ (AppDone => closed)'
  BY Parts DEF TypeOK, OneRunPerConversation, RunInv, SendConflict
<1>3. ASSUME NEW t \in Send PROVE (RunInv(t) /\ ChatInv(t) /\ TextInv(t))'
  <2>1. RunInv(t)'
    BY Parts DEF TypeOK, RunInv, Undisturbed, SendConflict
  <2>2. ChatInv(t)'
    BY Parts DEF TypeOK, RunInv, ChatInv, SendConflict
  <2>3. TextInv(t)'
    BY Parts DEF TypeOK, RunInv, ChatInv, TextInv, Kept, Coming, InHand,
                 Undisturbed, SendConflict
  <2> QED
    BY <2>1, <2>2, <2>3
<1> QED
  BY <1>1, <1>2, <1>3 DEF IInv

LEMMA SendGivesUpStep ==
  ASSUME IInv, NEW s \in Send, SendGivesUp(s)
  PROVE  IInv'
<1>1. /\ send[s] = "conflict"
      /\ send' \in [Send -> SendPc]
      /\ send'[s] = "failed"
      /\ \A t \in Send : t # s => send'[t] = send[t]
      /\ \/ AppDone /\ UNCHANGED <<msg, unended, failures>>
         \/ FinishMessage(s, "cancelled")
  BY Parts DEF SendGivesUp, TypeOK
<1>2. /\ msg' \in [Send -> MsgStatus]
      /\ \/ msg'[s] = msg[s] /\ (AppDone \/ s \in unended')
         \/ msg'[s] = IF msg[s] = "deleted" THEN "deleted" ELSE "cancelled"
      /\ \A t \in Send : t # s => msg'[t] = msg[t]
      /\ unended \subseteq unended' /\ unended' \subseteq Send
      /\ failures' \in 0 .. budget.failures
  <2>1. CASE AppDone /\ UNCHANGED <<msg, unended, failures>>
    BY <2>1, Parts DEF TypeOK
  <2>2. CASE FinishMessage(s, "cancelled")
    BY <2>2, Parts, Writes
  <2> QED
    BY <1>1, <2>1, <2>2
<1>3. UNCHANGED <<stored, text, registered, fin, finAs, ctxDone, start, stop,
                  requests, chat, said, events, reader, sidecar, closed, closing,
                  del, gaps, deaths, stalls, restarts, budget>>
  BY DEF SendGivesUp
<1>4. TypeOK'
  BY <1>1, <1>2, <1>3, Parts, AIRunsAssumption DEF TypeOK
<1>5. OneRunPerConversation' /\ (AppDone => closed)'
  BY <1>1, <1>2, <1>3, Parts DEF TypeOK, OneRunPerConversation, RunInv
<1>6. ASSUME NEW t \in Send PROVE (RunInv(t) /\ ChatInv(t) /\ TextInv(t))'
  <2> /\ TypeOK /\ RunInv(t) /\ ChatInv(t) /\ TextInv(t)
      /\ RunInv(s) /\ ChatInv(s) /\ TextInv(s)
    BY Parts
  <2>1. RunInv(t)'
    BY <1>1, <1>2, <1>3 DEF TypeOK, RunInv, Undisturbed
  <2>2. ChatInv(t)'
    BY <1>1, <1>2, <1>3 DEF TypeOK, RunInv, ChatInv
  <2>3. TextInv(t)'
    BY <1>1, <1>2, <1>3 DEF TypeOK, RunInv, ChatInv, TextInv, Kept, Coming,
                            InHand, Undisturbed
  <2> QED
    BY <2>1, <2>2, <2>3
<1> QED
  BY <1>4, <1>5, <1>6 DEF IInv

LEMMA FinishWriteStep ==
  ASSUME IInv, NEW s \in Send, FinishWrite(s)
  PROVE  IInv'
<1>1. /\ fin[s] = "write" /\ finAs[s] \in Final
      /\ FinishMessage(s, finAs[s])
      /\ fin' \in [Send -> {"no", "write", "unregister", "done"}]
      /\ fin'[s] = "unregister"
      /\ \A t \in Send : t # s => fin'[t] = fin[t]
  BY Parts DEF FinishWrite, TypeOK, RunInv
<1>2. /\ msg' \in [Send -> MsgStatus]
      /\ msg[s] = "deleted" => msg'[s] = "deleted"
      /\ msg[s] # "deleted" => \/ msg'[s] = finAs[s]
                               \/ msg'[s] = msg[s] /\ s \in unended'
      /\ \A t \in Send : t # s => msg'[t] = msg[t]
      /\ unended \subseteq unended' /\ unended' \subseteq Send
      /\ failures' \in 0 .. budget.failures
  BY <1>1, Parts, Writes
<1>3. UNCHANGED <<stored, text, send, registered, finAs, ctxDone, start, stop,
                  requests, chat, said, events, reader, sidecar, closed, closing,
                  del, gaps, deaths, stalls, restarts, budget>>
  BY DEF FinishWrite
<1>4. TypeOK'
  BY <1>1, <1>2, <1>3, Parts, AIRunsAssumption DEF TypeOK
<1>5. OneRunPerConversation' /\ (AppDone => closed)'
  BY <1>1, <1>2, <1>3, Parts DEF TypeOK, OneRunPerConversation, RunInv
<1>6. ASSUME NEW t \in Send PROVE (RunInv(t) /\ ChatInv(t) /\ TextInv(t))'
  <2> /\ TypeOK /\ RunInv(t) /\ ChatInv(t) /\ TextInv(t)
      /\ RunInv(s) /\ ChatInv(s) /\ TextInv(s)
    BY Parts
  <2>1. RunInv(t)'
    BY <1>1, <1>2, <1>3 DEF TypeOK, RunInv, Undisturbed
  <2>2. ChatInv(t)'
    BY <1>1, <1>2, <1>3 DEF TypeOK, RunInv, ChatInv
  <2>3. TextInv(t)'
    BY <1>1, <1>2, <1>3 DEF TypeOK, RunInv, ChatInv, TextInv, Kept, Coming,
                            InHand, Undisturbed
  <2> QED
    BY <2>1, <2>2, <2>3
<1> QED
  BY <1>4, <1>5, <1>6 DEF IInv

LEMMA FinishUnregisterStep ==
  ASSUME IInv, NEW s \in Send, FinishUnregister(s)
  PROVE  IInv'
<1>1. /\ fin[s] = "unregister"
      /\ fin' \in [Send -> {"no", "write", "unregister", "done"}]
      /\ fin'[s] = "done"
      /\ \A t \in Send : t # s => fin'[t] = fin[t]
      /\ ctxDone' = ctxDone \cup {s}
      /\ registered' = registered \ {s}
  BY Parts DEF FinishUnregister, TypeOK
<1>2. UNCHANGED <<stored, msg, text, send, finAs, start, stop, requests, chat, said,
                  events, reader, sidecar, closed, closing, del, unended, gaps,
                  deaths, stalls, failures, restarts, budget>>
  BY DEF FinishUnregister
<1>3. TypeOK'
  BY <1>1, <1>2, Parts, AIRunsAssumption DEF TypeOK
<1>4. OneRunPerConversation' /\ (AppDone => closed)'
  BY <1>1, <1>2, Parts DEF TypeOK, OneRunPerConversation, RunInv
<1>5. ASSUME NEW t \in Send PROVE (RunInv(t) /\ ChatInv(t) /\ TextInv(t))'
  <2> /\ TypeOK /\ RunInv(t) /\ ChatInv(t) /\ TextInv(t)
      /\ RunInv(s) /\ ChatInv(s) /\ TextInv(s)
    BY Parts
  <2>1. RunInv(t)'
    BY <1>1, <1>2 DEF TypeOK, RunInv, Undisturbed
  <2>2. ChatInv(t)'
    BY <1>1, <1>2 DEF TypeOK, RunInv, ChatInv
  <2>3. TextInv(t)'
    BY <1>1, <1>2 DEF TypeOK, RunInv, ChatInv, TextInv, Kept, Coming, InHand,
                      Undisturbed
  <2> QED
    BY <2>1, <2>2, <2>3
<1> QED
  BY <1>3, <1>4, <1>5 DEF IInv

LEMMA StatusOKStep ==
  ASSUME IInv, NEW s \in Send, StatusOK(s)
  PROVE  IInv'
<1>1. /\ start[s] = "status"
      /\ start' \in [Send -> StartPc]
      /\ start'[s] = "write"
      /\ \A t \in Send : t # s => start'[t] = start[t]
      /\ sidecar' = "up" /\ sidecar # "closed"
  BY Parts DEF StatusOK, StartGoes, Alive, TypeOK
<1>2. UNCHANGED <<stored, msg, text, send, registered, fin, finAs, ctxDone, stop,
                  requests, chat, said, events, reader, closed, closing, del,
                  unended, gaps, deaths, stalls, failures, restarts, budget>>
  BY DEF StatusOK, StartGoes
<1>3. TypeOK'
  BY <1>1, <1>2, Parts, AIRunsAssumption DEF TypeOK
<1>4. OneRunPerConversation' /\ (AppDone => closed)'
  BY <1>1, <1>2, Parts DEF TypeOK, OneRunPerConversation, RunInv
<1>5. ASSUME NEW t \in Send PROVE (RunInv(t) /\ ChatInv(t) /\ TextInv(t))'
  <2> /\ TypeOK /\ RunInv(t) /\ ChatInv(t) /\ TextInv(t)
      /\ RunInv(s) /\ ChatInv(s) /\ TextInv(s)
    BY Parts
  <2>1. RunInv(t)'
    BY <1>1, <1>2 DEF TypeOK, RunInv, Undisturbed
  <2>2. ChatInv(t)'
    BY <1>1, <1>2 DEF TypeOK, RunInv, ChatInv
  <2>3. TextInv(t)'
    BY <1>1, <1>2 DEF TypeOK, RunInv, ChatInv, TextInv, Kept, Coming, InHand,
                      Undisturbed
  <2> QED
    BY <2>1, <2>2, <2>3
<1> QED
  BY <1>3, <1>4, <1>5 DEF IInv

LEMMA StartFinishesStep ==
  ASSUME IInv, NEW s \in Send, NEW from \in StartPc \ {"none"},
         NEW status \in {"error", "cancelled"},
         StartFinishes(s, from, status)
  PROVE  IInv'
<1>1. /\ start[s] # "none"
      /\ start' \in [Send -> StartPc]
      /\ start'[s] = "done"
      /\ \A t \in Send : t # s => start'[t] = start[t]
  BY Parts DEF StartFinishes, StartGoes, TypeOK
<1>2. /\ fin' \in [Send -> {"no", "write", "unregister", "done"}]
      /\ finAs' \in [Send -> {"none"} \cup Final]
      /\ fin[s] = "no" => fin'[s] = "write" /\ finAs'[s] = status
      /\ fin[s] # "no" => fin'[s] = fin[s] /\ finAs'[s] = finAs[s]
      /\ \A t \in Send : t # s => fin'[t] = fin[t] /\ finAs'[t] = finAs[t]
  <2>1. Finish(s, status)
    BY <1>1 DEF StartFinishes
  <2> QED
    BY <2>1, Parts, Finishes
<1>3. UNCHANGED <<stored, msg, text, send, registered, ctxDone, stop, requests,
                  chat, said, events, reader, sidecar, closed, closing, del,
                  unended, gaps, deaths, stalls, failures, restarts, budget>>
  BY DEF StartFinishes
<1>4. TypeOK'
  BY <1>1, <1>2, <1>3, Parts, AIRunsAssumption DEF TypeOK
<1>5. OneRunPerConversation' /\ (AppDone => closed)'
  BY <1>1, <1>2, <1>3, Parts DEF TypeOK, OneRunPerConversation, RunInv
<1>6. ASSUME NEW t \in Send PROVE (RunInv(t) /\ ChatInv(t) /\ TextInv(t))'
  <2> /\ TypeOK /\ RunInv(t) /\ ChatInv(t) /\ TextInv(t)
      /\ RunInv(s) /\ ChatInv(s) /\ TextInv(s)
    BY Parts
  <2>1. RunInv(t)'
    BY <1>1, <1>2, <1>3 DEF TypeOK, RunInv, Undisturbed
  <2>2. ChatInv(t)'
    BY <1>1, <1>2, <1>3 DEF TypeOK, RunInv, ChatInv
  <2>3. TextInv(t)'
    BY <1>1, <1>2, <1>3 DEF TypeOK, RunInv, ChatInv, TextInv, Kept, Coming,
                            InHand, Undisturbed
  <2> QED
    BY <2>1, <2>2, <2>3
<1> QED
  BY <1>4, <1>5, <1>6 DEF IInv

LEMMA StatusFailsStep ==
  ASSUME IInv, NEW s \in Send, StatusFails(s)
  PROVE  IInv'
<1>1. StartFinishes(s, "status", "error")
  BY DEF StatusFails
<1> QED
  BY <1>1, StartFinishesStep

LEMMA WriteStartStep ==
  ASSUME IInv, NEW s \in Send, WriteStart(s)
  PROVE  IInv'
<1>1. /\ start[s] = "write"
      /\ start' \in [Send -> StartPc]
      /\ start'[s] = "wait"
      /\ \A t \in Send : t # s => start'[t] = start[t]
      /\ sidecar' = "up" /\ sidecar # "closed"
      /\ requests' = requests \cup {<<"start", s>>}
  BY Parts DEF WriteStart, StartGoes, Alive, TypeOK
<1>2. UNCHANGED <<stored, msg, text, send, registered, fin, finAs, ctxDone, stop,
                  chat, said, events, reader, closed, closing, del, unended, gaps,
                  deaths, stalls, failures, restarts, budget>>
  BY DEF WriteStart, StartGoes
<1>3. TypeOK'
  BY <1>1, <1>2, Parts, AIRunsAssumption DEF TypeOK
<1>4. OneRunPerConversation' /\ (AppDone => closed)'
  BY <1>1, <1>2, Parts DEF TypeOK, OneRunPerConversation, RunInv
<1>5. ASSUME NEW t \in Send PROVE (RunInv(t) /\ ChatInv(t) /\ TextInv(t))'
  <2> /\ TypeOK /\ RunInv(t) /\ ChatInv(t) /\ TextInv(t)
      /\ RunInv(s) /\ ChatInv(s) /\ TextInv(s)
    BY Parts
  <2>1. RunInv(t)'
    BY <1>1, <1>2 DEF TypeOK, RunInv, Undisturbed
  <2>2. ChatInv(t)'
    BY <1>1, <1>2 DEF TypeOK, RunInv, ChatInv
  <2>3. TextInv(t)'
    BY <1>1, <1>2 DEF TypeOK, RunInv, ChatInv, TextInv, Kept, Coming, InHand,
                      Undisturbed
  <2> QED
    BY <2>1, <2>2, <2>3
<1> QED
  BY <1>3, <1>4, <1>5 DEF IInv

LEMMA WriteStartFailsStep ==
  ASSUME IInv, NEW s \in Send, WriteStartFails(s)
  PROVE  IInv'
<1>1. StartFinishes(s, "write", "error")
  BY DEF WriteStartFails
<1> QED
  BY <1>1, StartFinishesStep

LEMMA WaitCancelledStep ==
  ASSUME IInv, NEW s \in Send, WaitCancelled(s)
  PROVE  IInv'
<1>1. StartFinishes(s, "wait", "cancelled")
  BY DEF WaitCancelled
<1> QED
  BY <1>1, StartFinishesStep

LEMMA CallBrokenStep ==
  ASSUME IInv, NEW s \in Send, CallBroken(s)
  PROVE  IInv'
<1>1. StartFinishes(s, "broken", "error")
  BY DEF CallBroken
<1> QED
  BY <1>1, StartFinishesStep

LEMMA SessionSavedStep ==
  ASSUME IInv, NEW s \in Send, SessionSaved(s)
  PROVE  IInv'
<1>1. TypeOK'
  BY Parts, AIRunsAssumption DEF TypeOK, SessionSaved, StartGoes
<1>2. OneRunPerConversation' /\ (AppDone => closed)'
  BY Parts DEF TypeOK, OneRunPerConversation, RunInv, SessionSaved, StartGoes
<1>3. ASSUME NEW t \in Send PROVE (RunInv(t) /\ ChatInv(t) /\ TextInv(t))'
  <2>1. RunInv(t)'
    BY Parts DEF TypeOK, RunInv, Undisturbed, SessionSaved, StartGoes
  <2>2. ChatInv(t)'
    BY Parts DEF TypeOK, RunInv, ChatInv, SessionSaved, StartGoes
  <2>3. TextInv(t)'
    BY Parts DEF TypeOK, RunInv, ChatInv, TextInv, Kept, Coming, InHand,
                 Undisturbed, SessionSaved, StartGoes
  <2> QED
    BY <2>1, <2>2, <2>3
<1> QED
  BY <1>1, <1>2, <1>3 DEF IInv

LEMMA SaveFailsStep ==
  ASSUME IInv, NEW s \in Send, SaveFails(s)
  PROVE  IInv'
<1>1. StartFinishes(s, "save", "error")
  BY DEF SaveFails
<1> QED
  BY <1>1, StartFinishesStep

LEMMA StopRunStep ==
  ASSUME IInv, NEW s \in Send, StopRun(s)
  PROVE  IInv'
<1>1. TypeOK'
  BY Parts, AIRunsAssumption DEF TypeOK, StopRun, StopGoes
<1>2. OneRunPerConversation' /\ (AppDone => closed)'
  BY Parts DEF TypeOK, OneRunPerConversation, RunInv, StopRun, StopGoes
<1>3. ASSUME NEW t \in Send PROVE (RunInv(t) /\ ChatInv(t) /\ TextInv(t))'
  <2>1. RunInv(t)'
    BY Parts DEF TypeOK, RunInv, Undisturbed, StopRun, StopGoes
  <2>2. ChatInv(t)'
    BY Parts DEF TypeOK, RunInv, ChatInv, StopRun, StopGoes
  <2>3. TextInv(t)'
    BY Parts DEF TypeOK, RunInv, ChatInv, TextInv, Kept, Coming, InHand,
                 Undisturbed, StopRun, StopGoes
  <2> QED
    BY <2>1, <2>2, <2>3
<1> QED
  BY <1>1, <1>2, <1>3 DEF IInv

LEMMA WriteCancelStep ==
  ASSUME IInv, NEW s \in Send, WriteCancel(s)
  PROVE  IInv'
<1>1. /\ stop[s] = "cancelled"
      /\ stop' \in [Send -> StopPc]
      /\ stop'[s] = "written"
      /\ \A t \in Send : t # s => stop'[t] = stop[t]
      /\ sidecar' \in Sidecar /\ (sidecar' = "closed" <=> sidecar = "closed")
      /\ requests' \in {requests, requests \cup {<<"cancel", s>>}}
  BY Parts DEF WriteCancel, StopGoes, Alive, Refuses, TypeOK
<1>2. UNCHANGED <<stored, msg, text, send, registered, fin, finAs, ctxDone, start,
                  chat, said, events, reader, closed, closing, del, unended, gaps,
                  deaths, stalls, failures, restarts, budget>>
  BY DEF WriteCancel, StopGoes
<1>3. TypeOK'
  BY <1>1, <1>2, Parts DEF TypeOK
<1>4. OneRunPerConversation' /\ (AppDone => closed)'
  BY <1>1, <1>2, Parts DEF TypeOK, OneRunPerConversation, RunInv
<1>5. ASSUME NEW t \in Send PROVE (RunInv(t) /\ ChatInv(t) /\ TextInv(t))'
  <2> /\ TypeOK /\ RunInv(t) /\ ChatInv(t) /\ TextInv(t)
      /\ RunInv(s) /\ ChatInv(s) /\ TextInv(s)
    BY Parts
  <2>1. RunInv(t)'
    BY <1>1, <1>2 DEF TypeOK, RunInv, Undisturbed
  <2>2. ChatInv(t)'
    BY <1>1, <1>2 DEF TypeOK, RunInv, ChatInv
  <2>3. TextInv(t)'
    BY <1>1, <1>2 DEF TypeOK, RunInv, ChatInv, TextInv, Kept, Coming, InHand,
                      Undisturbed
  <2> QED
    BY <2>1, <2>2, <2>3
<1> QED
  BY <1>3, <1>4, <1>5 DEF IInv

LEMMA StopFinishStep ==
  ASSUME IInv, NEW s \in Send, StopFinish(s)
  PROVE  IInv'
<1>1. /\ stop[s] = "written"
      /\ stop' \in [Send -> StopPc]
      /\ stop'[s] = "finish"
      /\ \A t \in Send : t # s => stop'[t] = stop[t]
  BY Parts DEF StopFinish, StopGoes, TypeOK
<1>2. /\ fin' \in [Send -> {"no", "write", "unregister", "done"}]
      /\ finAs' \in [Send -> {"none"} \cup Final]
      /\ fin[s] = "no" => fin'[s] = "write" /\ finAs'[s] = "cancelled"
      /\ fin[s] # "no" => fin'[s] = fin[s] /\ finAs'[s] = finAs[s]
      /\ \A t \in Send : t # s => fin'[t] = fin[t] /\ finAs'[t] = finAs[t]
  <2>1. Finish(s, "cancelled")
    BY <1>1 DEF StopFinish
  <2> QED
    BY <2>1, Parts, Finishes
<1>3. UNCHANGED <<stored, msg, text, send, registered, ctxDone, start, requests,
                  chat, said, events, reader, sidecar, closed, closing, del,
                  unended, gaps, deaths, stalls, failures, restarts, budget>>
  BY DEF StopFinish
<1>4. TypeOK'
  BY <1>1, <1>2, <1>3, Parts, AIRunsAssumption DEF TypeOK
<1>5. OneRunPerConversation' /\ (AppDone => closed)'
  BY <1>1, <1>2, <1>3, Parts DEF TypeOK, OneRunPerConversation, RunInv
<1>6. ASSUME NEW t \in Send PROVE (RunInv(t) /\ ChatInv(t) /\ TextInv(t))'
  <2> /\ TypeOK /\ RunInv(t) /\ ChatInv(t) /\ TextInv(t)
      /\ RunInv(s) /\ ChatInv(s) /\ TextInv(s)
    BY Parts
  <2>1. RunInv(t)'
    BY <1>1, <1>2, <1>3 DEF TypeOK, RunInv, Undisturbed
  <2>2. ChatInv(t)'
    BY <1>1, <1>2, <1>3 DEF TypeOK, RunInv, ChatInv
  <2>3. TextInv(t)'
    BY <1>1, <1>2, <1>3 DEF TypeOK, RunInv, ChatInv, TextInv, Kept, Coming,
                            InHand, Undisturbed
  <2> QED
    BY <2>1, <2>2, <2>3
<1> QED
  BY <1>4, <1>5, <1>6 DEF IInv

LEMMA HandleStartStep ==
  ASSUME IInv, NEW s \in Send, HandleStart(s)
  PROVE  IInv'
<1>1. TypeOK'
  BY Parts, AIRunsAssumption DEF TypeOK, HandleStart
<1>2. OneRunPerConversation' /\ (AppDone => closed)'
  BY Parts DEF TypeOK, OneRunPerConversation, RunInv, HandleStart
<1>3. ASSUME NEW t \in Send PROVE (RunInv(t) /\ ChatInv(t) /\ TextInv(t))'
  <2>1. RunInv(t)'
    BY Parts DEF TypeOK, RunInv, Undisturbed, HandleStart
  <2>2. ChatInv(t)'
    BY Parts DEF TypeOK, RunInv, ChatInv, HandleStart
  <2>3. TextInv(t)'
    BY Parts DEF TypeOK, RunInv, ChatInv, TextInv, Kept, Coming, InHand,
                 Undisturbed, HandleStart
  <2> QED
    BY <2>1, <2>2, <2>3
<1> QED
  BY <1>1, <1>2, <1>3 DEF IInv

LEMMA ChatActiveStep ==
  ASSUME IInv, NEW s \in Send, ChatActive(s)
  PROVE  IInv'
<1>1. /\ chat[s] = "starting"
      /\ chat' \in [Send -> ChatState]
      /\ chat'[s] = "active"
      /\ \A t \in Send : t # s => chat'[t] = chat[t]
  BY Parts DEF ChatActive, TypeOK
<1>2. /\ events' \in [Send -> Seq(Event)]
      /\ events'[s] # <<>> /\ Len(events'[s]) \in Nat
      /\ events'[s][Len(events'[s])] = "reply"
      /\ \A i \in DOMAIN events'[s] :
           events'[s][i] \in LastEvent => events'[s][i] = "reply"
      /\ Ordered(events'[s])
      /\ TextsIn(events[s]) \in Nat
      /\ TextsIn(events'[s]) = TextsIn(events[s]) + 0
      /\ \A t \in Send : t # s => events'[t] = events[t]
  <2>1. Tell(s, "reply")
    BY DEF ChatActive
  <2> QED
    BY <1>1, <2>1, Told
<1>3. UNCHANGED <<stored, msg, text, send, registered, fin, finAs, ctxDone, start,
                  stop, requests, said, reader, sidecar, closed, closing, del,
                  unended, gaps, deaths, stalls, failures, restarts, budget>>
  BY DEF ChatActive
<1>4. TypeOK'
  BY <1>1, <1>2, <1>3, Parts, AIRunsAssumption DEF TypeOK
<1>5. OneRunPerConversation' /\ (AppDone => closed)'
  BY <1>1, <1>2, <1>3, Parts DEF TypeOK, OneRunPerConversation, RunInv
<1>6. ASSUME NEW t \in Send PROVE (RunInv(t) /\ ChatInv(t) /\ TextInv(t))'
  <2> /\ TypeOK /\ RunInv(t) /\ ChatInv(t) /\ TextInv(t)
      /\ RunInv(s) /\ ChatInv(s) /\ TextInv(s)
    BY Parts
  <2>1. RunInv(t)'
    BY <1>1, <1>2, <1>3 DEF TypeOK, RunInv, Undisturbed
  <2>2. ChatInv(t)'
    <3>1. CASE t = s
      BY <1>1, <1>2, <1>3, <3>1 DEF TypeOK, RunInv, ChatInv
    <3>2. CASE t # s
      <4>1. chat'[t] = chat[t] /\ events'[t] = events[t]
        BY <1>1, <1>2, <1>3, <3>2
      <4> QED
        BY <4>1, <1>3, <3>2 DEF TypeOK, RunInv, ChatInv
    <3> QED
      BY <3>1, <3>2
  <2>3. TextInv(t)'
    <3>1. CASE t = s
      BY <1>1, <1>2, <1>3, <3>1 DEF TypeOK, RunInv, ChatInv, TextInv, Kept,
                                    Coming, InHand, Undisturbed
    <3>2. CASE t # s
      <4>1. chat'[t] = chat[t] /\ events'[t] = events[t]
        BY <1>1, <1>2, <1>3, <3>2
      <4> QED
        BY <4>1, <1>3, <3>2 DEF TypeOK, RunInv, ChatInv, TextInv, Kept, Coming,
                                InHand, Undisturbed
    <3> QED
      BY <3>1, <3>2
  <2> QED
    BY <2>1, <2>2, <2>3
<1> QED
  BY <1>4, <1>5, <1>6 DEF IInv

LEMMA ChatRefusedStep ==
  ASSUME IInv, NEW s \in Send, ChatRefused(s)
  PROVE  IInv'
<1>1. /\ chat[s] = "starting"
      /\ chat' \in [Send -> ChatState]
      /\ chat'[s] = "failed"
      /\ \A t \in Send : t # s => chat'[t] = chat[t]
  BY Parts DEF ChatRefused, TypeOK
<1>2. /\ events' \in [Send -> Seq(Event)]
      /\ events'[s] # <<>> /\ Len(events'[s]) \in Nat
      /\ events'[s][Len(events'[s])] = "replyError"
      /\ \A i \in DOMAIN events'[s] :
           events'[s][i] \in LastEvent => events'[s][i] = "replyError"
      /\ Ordered(events'[s])
      /\ TextsIn(events[s]) \in Nat
      /\ TextsIn(events'[s]) = TextsIn(events[s]) + 0
      /\ \A t \in Send : t # s => events'[t] = events[t]
  <2>1. Tell(s, "replyError")
    BY DEF ChatRefused
  <2> QED
    BY <1>1, <2>1, Told
<1>3. UNCHANGED <<stored, msg, text, send, registered, fin, finAs, ctxDone, start,
                  stop, requests, said, reader, sidecar, closed, closing, del,
                  unended, gaps, deaths, stalls, failures, restarts, budget>>
  BY DEF ChatRefused
<1>4. TypeOK'
  BY <1>1, <1>2, <1>3, Parts, AIRunsAssumption DEF TypeOK
<1>5. OneRunPerConversation' /\ (AppDone => closed)'
  BY <1>1, <1>2, <1>3, Parts DEF TypeOK, OneRunPerConversation, RunInv
<1>6. ASSUME NEW t \in Send PROVE (RunInv(t) /\ ChatInv(t) /\ TextInv(t))'
  <2> /\ TypeOK /\ RunInv(t) /\ ChatInv(t) /\ TextInv(t)
      /\ RunInv(s) /\ ChatInv(s) /\ TextInv(s)
    BY Parts
  <2>1. RunInv(t)'
    BY <1>1, <1>2, <1>3 DEF TypeOK, RunInv, Undisturbed
  <2>2. ChatInv(t)'
    <3>1. CASE t = s
      BY <1>1, <1>2, <1>3, <3>1 DEF TypeOK, RunInv, ChatInv
    <3>2. CASE t # s
      <4>1. chat'[t] = chat[t] /\ events'[t] = events[t]
        BY <1>1, <1>2, <1>3, <3>2
      <4> QED
        BY <4>1, <1>3, <3>2 DEF TypeOK, RunInv, ChatInv
    <3> QED
      BY <3>1, <3>2
  <2>3. TextInv(t)'
    <3>1. CASE t = s
      BY <1>1, <1>2, <1>3, <3>1 DEF TypeOK, RunInv, ChatInv, TextInv, Kept,
                                    Coming, InHand, Undisturbed
    <3>2. CASE t # s
      <4>1. chat'[t] = chat[t] /\ events'[t] = events[t]
        BY <1>1, <1>2, <1>3, <3>2
      <4> QED
        BY <4>1, <1>3, <3>2 DEF TypeOK, RunInv, ChatInv, TextInv, Kept, Coming,
                                InHand, Undisturbed
    <3> QED
      BY <3>1, <3>2
  <2> QED
    BY <2>1, <2>2, <2>3
<1> QED
  BY <1>4, <1>5, <1>6 DEF IInv

LEMMA SayStep ==
  ASSUME IInv, NEW s \in Send, Say(s)
  PROVE  IInv'
<1>1. /\ chat[s] = "active"
      /\ said[s] \in Nat /\ said[s] < budget.text /\ budget.text \in Nat
      /\ said' = [said EXCEPT ![s] = @ + 1]
  BY Parts, AIRunsAssumption DEF Say, TypeOK
<1>2. /\ said' \in [Send -> 0 .. budget.text]
      /\ said'[s] = said[s] + 1
      /\ \A t \in Send : t # s => said'[t] = said[t]
  BY <1>1, Parts DEF TypeOK
<1>3. /\ events' \in [Send -> Seq(Event)]
      /\ events'[s] # <<>> /\ Len(events'[s]) \in Nat
      /\ events'[s][Len(events'[s])] = "text"
      /\ \A i \in DOMAIN events'[s] :
           events'[s][i] \in LastEvent => events'[s][i] = "text"
      /\ Ordered(events'[s])
      /\ TextsIn(events[s]) \in Nat
      /\ TextsIn(events'[s]) = TextsIn(events[s]) + 1
      /\ \A t \in Send : t # s => events'[t] = events[t]
  <2>1. Tell(s, "text")
    BY DEF Say
  <2> QED
    BY <1>1, <2>1, Told
<1>4. UNCHANGED <<stored, msg, text, send, registered, fin, finAs, ctxDone, start,
                  stop, requests, chat, reader, sidecar, closed, closing, del,
                  unended, gaps, deaths, stalls, failures, restarts, budget>>
  BY DEF Say
<1>5. TypeOK'
  BY <1>1, <1>2, <1>3, <1>4, Parts, AIRunsAssumption DEF TypeOK
<1>6. OneRunPerConversation' /\ (AppDone => closed)'
  BY <1>1, <1>2, <1>3, <1>4, Parts DEF TypeOK, OneRunPerConversation, RunInv
<1>7. ASSUME NEW t \in Send PROVE (RunInv(t) /\ ChatInv(t) /\ TextInv(t))'
  <2> /\ TypeOK /\ RunInv(t) /\ ChatInv(t) /\ TextInv(t)
      /\ RunInv(s) /\ ChatInv(s) /\ TextInv(s)
    BY Parts
  <2>1. RunInv(t)'
    BY <1>1, <1>2, <1>3, <1>4 DEF TypeOK, RunInv, Undisturbed
  <2>2. ChatInv(t)'
    <3>1. CASE t = s
      BY <1>1, <1>2, <1>3, <1>4, <3>1 DEF TypeOK, RunInv, ChatInv
    <3>2. CASE t # s
      <4>1. said'[t] = said[t] /\ events'[t] = events[t]
        BY <1>1, <1>2, <1>3, <1>4, <3>2
      <4> QED
        BY <4>1, <1>4, <3>2 DEF TypeOK, RunInv, ChatInv
    <3> QED
      BY <3>1, <3>2
  <2>3. TextInv(t)'
    <3>1. CASE t = s
      <4>1. text[s] \in Nat /\ InHand(s) \in Nat /\ InHand(s)' = InHand(s)
        BY <1>1, <1>4 DEF TypeOK, InHand
      <4>2. text[s] + TextsIn(events'[s]) + InHand(s) =
              text[s] + TextsIn(events[s]) + InHand(s) + 1
        BY <1>3, <4>1
      <4>3. finAs[s] # "complete" /\ reader \notin {<<s, e>> : e \in LastEvent}
        BY <1>1 DEF ChatInv
      <4>4. Coming(s) /\ (Kept(s)' <=> Kept(s)) /\ said'[s] = said[s] + 1
        BY <1>1, <1>2, <1>4 DEF Coming, Kept, Undisturbed
      <4>7. text[s] + TextsIn(events[s]) + InHand(s) <= said[s]
        BY DEF TextInv
      <4>5. text[s] + TextsIn(events'[s]) + InHand(s)' <= said'[s]
        BY <1>1, <1>3, <4>1, <4>2, <4>4, <4>7
      <4>6. Kept(s)' /\ fin[s] = "no" =>
              text[s] + TextsIn(events'[s]) + InHand(s)' = said'[s]
        BY <1>1, <4>1, <4>2, <4>4 DEF TextInv
      <4> QED
        BY <1>4, <3>1, <4>3, <4>5, <4>6 DEF TextInv
    <3>2. CASE t # s
      <4>1. said'[t] = said[t] /\ events'[t] = events[t]
        BY <1>2, <1>3, <3>2
      <4> QED
        BY <1>4, <4>1, <3>2 DEF TypeOK, RunInv, ChatInv, TextInv, Kept, Coming,
                                InHand, Undisturbed
    <3> QED
      BY <3>1, <3>2
  <2> QED
    BY <2>1, <2>2, <2>3
<1> QED
  BY <1>5, <1>6, <1>7 DEF IInv

LEMMA ChatEndsStep ==
  ASSUME IInv, NEW s \in Send, NEW how \in Ended,
         NEW e \in LastEvent, ChatEnds(s, how, e),
         (how = "completed" <=> e = "completed")
  PROVE  IInv'
<1>1. /\ chat[s] = "active"
      /\ chat' \in [Send -> ChatState]
      /\ chat'[s] = how
      /\ \A t \in Send : t # s => chat'[t] = chat[t]
  BY Parts DEF ChatEnds, TypeOK
<1>2. /\ events' \in [Send -> Seq(Event)]
      /\ events'[s] # <<>> /\ Len(events'[s]) \in Nat
      /\ events'[s][Len(events'[s])] = e
      /\ \A i \in DOMAIN events'[s] :
           events'[s][i] \in LastEvent => events'[s][i] = e
      /\ Ordered(events'[s])
      /\ TextsIn(events[s]) \in Nat
      /\ TextsIn(events'[s]) = TextsIn(events[s]) + 0
      /\ \A t \in Send : t # s => events'[t] = events[t]
  <2>1. Tell(s, e)
    BY DEF ChatEnds
  <2> QED
    BY <1>1, <2>1, Told
<1>3. UNCHANGED <<stored, msg, text, send, registered, fin, finAs, ctxDone, start,
                  stop, requests, said, reader, sidecar, closed, closing, del,
                  unended, gaps, deaths, stalls, failures, restarts, budget>>
  BY DEF ChatEnds
<1>4. TypeOK'
  BY <1>1, <1>2, <1>3, Parts, AIRunsAssumption DEF TypeOK
<1>5. OneRunPerConversation' /\ (AppDone => closed)'
  BY <1>1, <1>2, <1>3, Parts DEF TypeOK, OneRunPerConversation, RunInv
<1>6. ASSUME NEW t \in Send PROVE (RunInv(t) /\ ChatInv(t) /\ TextInv(t))'
  <2> /\ TypeOK /\ RunInv(t) /\ ChatInv(t) /\ TextInv(t)
      /\ RunInv(s) /\ ChatInv(s) /\ TextInv(s)
    BY Parts
  <2>1. RunInv(t)'
    BY <1>1, <1>2, <1>3 DEF TypeOK, RunInv, Undisturbed
  <2>2. ChatInv(t)'
    <3>1. CASE t = s
      BY <1>1, <1>2, <1>3, <3>1 DEF TypeOK, RunInv, ChatInv
    <3>2. CASE t # s
      <4>1. chat'[t] = chat[t] /\ events'[t] = events[t]
        BY <1>1, <1>2, <1>3, <3>2
      <4> QED
        BY <4>1, <1>3, <3>2 DEF TypeOK, RunInv, ChatInv
    <3> QED
      BY <3>1, <3>2
  <2>3. TextInv(t)'
    <3>1. CASE t = s
      BY <1>1, <1>2, <1>3, <3>1 DEF TypeOK, RunInv, ChatInv, TextInv, Kept,
                                    Coming, InHand, Undisturbed
    <3>2. CASE t # s
      <4>1. chat'[t] = chat[t] /\ events'[t] = events[t]
        BY <1>1, <1>2, <1>3, <3>2
      <4> QED
        BY <4>1, <1>3, <3>2 DEF TypeOK, RunInv, ChatInv, TextInv, Kept, Coming,
                                InHand, Undisturbed
    <3> QED
      BY <3>1, <3>2
  <2> QED
    BY <2>1, <2>2, <2>3
<1> QED
  BY <1>4, <1>5, <1>6 DEF IInv

LEMMA HandleCancelActiveStep ==
  ASSUME IInv, NEW s \in Send, HandleCancel(s), chat[s] = "active"
  PROVE  IInv'
<1>1. /\ requests' \subseteq requests
      /\ chat' \in [Send -> ChatState]
      /\ chat'[s] = "cancelled"
      /\ \A t \in Send : t # s => chat'[t] = chat[t]
  <2>1. chat' = [chat EXCEPT ![s] = "cancelled"]
    BY DEF HandleCancel
  <2> QED
    BY <2>1, Parts DEF HandleCancel, TypeOK
<1>2. /\ events' \in [Send -> Seq(Event)]
      /\ events'[s] # <<>> /\ Len(events'[s]) \in Nat
      /\ events'[s][Len(events'[s])] = "cancelled"
      /\ \A i \in DOMAIN events'[s] :
           events'[s][i] \in LastEvent => events'[s][i] = "cancelled"
      /\ Ordered(events'[s])
      /\ TextsIn(events[s]) \in Nat
      /\ TextsIn(events'[s]) = TextsIn(events[s]) + 0
      /\ \A t \in Send : t # s => events'[t] = events[t]
  <2>1. Tell(s, "cancelled")
    BY DEF HandleCancel
  <2> QED
    BY <1>1, <2>1, Told
<1>3. UNCHANGED <<stored, msg, text, send, registered, fin, finAs, ctxDone, start,
                  stop, said, reader, sidecar, closed, closing, del, unended, gaps,
                  deaths, stalls, failures, restarts, budget>>
  BY DEF HandleCancel
<1>4. TypeOK'
  BY <1>1, <1>2, <1>3, Parts, AIRunsAssumption DEF TypeOK
<1>5. OneRunPerConversation' /\ (AppDone => closed)'
  BY <1>1, <1>2, <1>3, Parts DEF TypeOK, OneRunPerConversation, RunInv
<1>6. ASSUME NEW t \in Send PROVE (RunInv(t) /\ ChatInv(t) /\ TextInv(t))'
  <2> /\ TypeOK /\ RunInv(t) /\ ChatInv(t) /\ TextInv(t)
      /\ RunInv(s) /\ ChatInv(s) /\ TextInv(s)
    BY Parts
  <2>1. RunInv(t)'
    BY <1>1, <1>2, <1>3 DEF TypeOK, RunInv, Undisturbed
  <2>2. ChatInv(t)'
    <3>1. CASE t = s
      BY <1>1, <1>2, <1>3, <3>1 DEF TypeOK, RunInv, ChatInv
    <3>2. CASE t # s
      <4>1. chat'[t] = chat[t] /\ events'[t] = events[t]
        BY <1>1, <1>2, <1>3, <3>2
      <4> QED
        BY <1>1, <4>1, <1>3, <3>2 DEF TypeOK, RunInv, ChatInv
    <3> QED
      BY <3>1, <3>2
  <2>3. TextInv(t)'
    <3>1. CASE t = s
      BY <1>1, <1>2, <1>3, <3>1 DEF TypeOK, RunInv, ChatInv, TextInv, Kept,
                                    Coming, InHand, Undisturbed
    <3>2. CASE t # s
      <4>1. chat'[t] = chat[t] /\ events'[t] = events[t]
        BY <1>1, <1>2, <1>3, <3>2
      <4> QED
        BY <1>1, <4>1, <1>3, <3>2 DEF TypeOK, RunInv, ChatInv, TextInv, Kept,
                                      Coming, InHand, Undisturbed
    <3> QED
      BY <3>1, <3>2
  <2> QED
    BY <2>1, <2>2, <2>3
<1> QED
  BY <1>4, <1>5, <1>6 DEF IInv

LEMMA HandleCancelLateStep ==
  ASSUME IInv, NEW s \in Send, HandleCancel(s), chat[s] # "active"
  PROVE  IInv'
<1>1. /\ requests' \subseteq requests
  BY DEF HandleCancel
<1>2. UNCHANGED <<stored, msg, text, send, registered, fin, finAs, ctxDone, start,
                  stop, chat, said, events, reader, sidecar, closed, closing, del,
                  unended, gaps, deaths, stalls, failures, restarts, budget>>
  BY DEF HandleCancel
<1>3. TypeOK'
  BY <1>1, <1>2, Parts, AIRunsAssumption DEF TypeOK
<1>4. OneRunPerConversation' /\ (AppDone => closed)'
  BY <1>1, <1>2, Parts DEF TypeOK, OneRunPerConversation, RunInv
<1>5. ASSUME NEW t \in Send PROVE (RunInv(t) /\ ChatInv(t) /\ TextInv(t))'
  <2> /\ TypeOK /\ RunInv(t) /\ ChatInv(t) /\ TextInv(t)
      /\ RunInv(s) /\ ChatInv(s) /\ TextInv(s)
    BY Parts
  <2>1. RunInv(t)'
    BY <1>1, <1>2 DEF TypeOK, RunInv, Undisturbed
  <2>2. ChatInv(t)'
    BY <1>1, <1>2 DEF TypeOK, RunInv, ChatInv
  <2>3. TextInv(t)'
    BY <1>1, <1>2 DEF TypeOK, RunInv, ChatInv, TextInv, Kept, Coming, InHand,
                      Undisturbed
  <2> QED
    BY <2>1, <2>2, <2>3
<1> QED
  BY <1>3, <1>4, <1>5 DEF IInv

LEMMA HandleCancelStep ==
  ASSUME IInv, NEW s \in Send, HandleCancel(s)
  PROVE  IInv'
BY HandleCancelActiveStep, HandleCancelLateStep

LEMMA ReplyOKStep ==
  ASSUME IInv, NEW s \in Send, ReplyOK(s)
  PROVE  IInv'
<1>1. /\ events[s] # <<>> /\ events[s][1] = "reply" /\ reader = NoEvent
      /\ start' \in [Send -> StartPc]
      /\ start'[s] = IF start[s] = "wait" THEN "save" ELSE start[s]
      /\ \A t \in Send : t # s => start'[t] = start[t]
  <2>1. events[s] # <<>> /\ events' = [events EXCEPT ![s] = Tail(@)]
    BY DEF ReplyOK, TakeReply
  <2> QED
    BY <2>1, Parts, Taken DEF ReplyOK, TakeReply, TypeOK
<1>2. /\ events' \in [Send -> Seq(Event)]
      /\ events[s][1] \in Event /\ 1 \in DOMAIN events[s] /\ Len(events'[s]) \in Nat
      /\ \A i \in DOMAIN events'[s] : i + 1 \in DOMAIN events[s]
                                      /\ events'[s][i] = events[s][i + 1]
      /\ Ordered(events'[s])
      /\ TextsIn(events'[s]) = TextsIn(events[s]) - 0
      /\ events[s][1] \in LastEvent => events'[s] = <<>>
      /\ events[s][Len(events[s])] =
           IF events'[s] = <<>> THEN events[s][1] ELSE events'[s][Len(events'[s])]
      /\ TextsIn(events[s]) \in Nat
      /\ \A t \in Send : t # s => events'[t] = events[t]
  <2>1. events[s] # <<>> /\ events' = [events EXCEPT ![s] = Tail(@)]
    BY DEF ReplyOK, TakeReply
  <2> QED
    BY <1>1, <2>1, Taken
<1>3. UNCHANGED <<stored, msg, text, send, registered, fin, finAs, ctxDone, stop,
                  requests, chat, said, reader, sidecar, closed, closing, del,
                  unended, gaps, deaths, stalls, failures, restarts, budget>>
  BY DEF ReplyOK, TakeReply
<1>4. TypeOK'
  BY <1>1, <1>2, <1>3, Parts, AIRunsAssumption DEF TypeOK
<1>5. OneRunPerConversation' /\ (AppDone => closed)'
  BY <1>1, <1>2, <1>3, Parts DEF TypeOK, OneRunPerConversation, RunInv
<1>6. ASSUME NEW t \in Send PROVE (RunInv(t) /\ ChatInv(t) /\ TextInv(t))'
  <2> /\ TypeOK /\ RunInv(t) /\ ChatInv(t) /\ TextInv(t)
      /\ RunInv(s) /\ ChatInv(s) /\ TextInv(s)
    BY Parts
  <2>1. RunInv(t)'
    BY <1>1, <1>2, <1>3 DEF TypeOK, RunInv, Undisturbed
  <2>2. ChatInv(t)'
    <3>1. CASE t = s
      BY <1>1, <1>2, <1>3, <3>1 DEF TypeOK, RunInv, ChatInv
    <3>2. CASE t # s
      <4>1. events'[t] = events[t] /\ start'[t] = start[t]
        BY <1>1, <1>2, <1>3, <3>2
      <4> QED
        BY <1>1, <4>1, <1>3, <3>2 DEF TypeOK, RunInv, ChatInv
    <3> QED
      BY <3>1, <3>2
  <2>3. TextInv(t)'
    <3>1. CASE t = s
      BY <1>1, <1>2, <1>3, <3>1 DEF TypeOK, RunInv, ChatInv, TextInv, Kept,
                                    Coming, InHand, Undisturbed
    <3>2. CASE t # s
      <4>1. events'[t] = events[t] /\ start'[t] = start[t]
        BY <1>1, <1>2, <1>3, <3>2
      <4> QED
        BY <1>1, <4>1, <1>3, <3>2 DEF TypeOK, RunInv, ChatInv, TextInv, Kept,
                                      Coming, InHand, Undisturbed
    <3> QED
      BY <3>1, <3>2
  <2> QED
    BY <2>1, <2>2, <2>3
<1> QED
  BY <1>4, <1>5, <1>6 DEF IInv

LEMMA ReplyErrorWaitingStep ==
  ASSUME IInv, NEW s \in Send, ReplyError(s), start[s] = "wait"
  PROVE  IInv'
<1>1. /\ events[s] # <<>> /\ events[s][1] = "replyError" /\ reader = NoEvent
      /\ start' \in [Send -> StartPc]
      /\ start'[s] = "done"
      /\ \A t \in Send : t # s => start'[t] = start[t]
  <2>1. events[s] # <<>> /\ events' = [events EXCEPT ![s] = Tail(@)]
          /\ start' = [start EXCEPT ![s] = "done"]
    BY DEF ReplyError, TakeReply
  <2>2. events[s][1] = "replyError" /\ reader = NoEvent
    BY <2>1, Taken DEF ReplyError, TakeReply
  <2> QED
    BY <2>1, <2>2, Parts DEF TypeOK
<1>2. /\ events' \in [Send -> Seq(Event)]
      /\ events[s][1] \in Event /\ 1 \in DOMAIN events[s] /\ Len(events'[s]) \in Nat
      /\ \A i \in DOMAIN events'[s] : i + 1 \in DOMAIN events[s]
                                      /\ events'[s][i] = events[s][i + 1]
      /\ Ordered(events'[s])
      /\ TextsIn(events'[s]) = TextsIn(events[s]) - 0
      /\ events[s][1] \in LastEvent => events'[s] = <<>>
      /\ events[s][Len(events[s])] =
           IF events'[s] = <<>> THEN events[s][1] ELSE events'[s][Len(events'[s])]
      /\ TextsIn(events[s]) \in Nat
      /\ \A t \in Send : t # s => events'[t] = events[t]
  <2>1. events[s] # <<>> /\ events' = [events EXCEPT ![s] = Tail(@)]
    BY DEF ReplyError, TakeReply
  <2> QED
    BY <1>1, <2>1, Taken
<1>3. /\ fin' \in [Send -> {"no", "write", "unregister", "done"}]
      /\ finAs' \in [Send -> {"none"} \cup Final]
      /\ fin[s] = "no" => fin'[s] = "write" /\ finAs'[s] = "error"
      /\ fin[s] # "no" => fin'[s] = fin[s] /\ finAs'[s] = finAs[s]
      /\ \A t \in Send : t # s => fin'[t] = fin[t] /\ finAs'[t] = finAs[t]
  <2>1. Finish(s, "error")
    BY <1>1 DEF ReplyError
  <2> QED
    BY <2>1, Parts, Finishes
<1>4. UNCHANGED <<stored, msg, text, send, registered, ctxDone, stop, requests,
                  chat, said, reader, sidecar, closed, closing, del, unended, gaps,
                  deaths, stalls, failures, restarts, budget>>
  BY DEF ReplyError
<1>5. TypeOK'
  BY <1>1, <1>2, <1>3, <1>4, Parts, AIRunsAssumption DEF TypeOK
<1>6. OneRunPerConversation' /\ (AppDone => closed)'
  BY <1>1, <1>2, <1>3, <1>4, Parts DEF TypeOK, OneRunPerConversation, RunInv
<1>7. ASSUME NEW t \in Send PROVE (RunInv(t) /\ ChatInv(t) /\ TextInv(t))'
  <2> /\ TypeOK /\ RunInv(t) /\ ChatInv(t) /\ TextInv(t)
      /\ RunInv(s) /\ ChatInv(s) /\ TextInv(s)
    BY Parts
  <2>1. RunInv(t)'
    BY <1>1, <1>2, <1>3, <1>4 DEF TypeOK, RunInv, Undisturbed
  <2>2. ChatInv(t)'
    <3>1. CASE t = s
      BY <1>1, <1>2, <1>3, <1>4, <3>1 DEF TypeOK, RunInv, ChatInv
    <3>2. CASE t # s
      <4>1. /\ events'[t] = events[t] /\ start'[t] = start[t]
            /\ fin'[t] = fin[t] /\ finAs'[t] = finAs[t]
        BY <1>1, <1>2, <1>3, <1>4, <3>2
      <4> QED
        BY <1>1, <4>1, <1>4, <3>2 DEF TypeOK, RunInv, ChatInv
    <3> QED
      BY <3>1, <3>2
  <2>3. TextInv(t)'
    <3>1. CASE t = s
      BY <1>1, <1>2, <1>3, <1>4, <3>1 DEF TypeOK, RunInv, ChatInv, TextInv, Kept,
                                          Coming, InHand, Undisturbed
    <3>2. CASE t # s
      <4>1. /\ events'[t] = events[t] /\ start'[t] = start[t]
            /\ fin'[t] = fin[t] /\ finAs'[t] = finAs[t]
        BY <1>1, <1>2, <1>3, <1>4, <3>2
      <4> QED
        BY <1>1, <4>1, <1>4, <3>2 DEF TypeOK, RunInv, ChatInv, TextInv, Kept,
                                      Coming, InHand, Undisturbed
    <3> QED
      BY <3>1, <3>2
  <2> QED
    BY <2>1, <2>2, <2>3
<1> QED
  BY <1>5, <1>6, <1>7 DEF IInv

LEMMA ReplyErrorLateStep ==
  ASSUME IInv, NEW s \in Send, ReplyError(s), start[s] # "wait"
  PROVE  IInv'
<1>1. /\ events[s] # <<>> /\ events[s][1] = "replyError" /\ reader = NoEvent
  <2>1. events[s] # <<>> /\ events' = [events EXCEPT ![s] = Tail(@)]
    BY DEF ReplyError, TakeReply
  <2> QED
    BY <2>1, Parts, Taken DEF ReplyError, TakeReply
<1>2. /\ events' \in [Send -> Seq(Event)]
      /\ events[s][1] \in Event /\ 1 \in DOMAIN events[s] /\ Len(events'[s]) \in Nat
      /\ \A i \in DOMAIN events'[s] : i + 1 \in DOMAIN events[s]
                                      /\ events'[s][i] = events[s][i + 1]
      /\ Ordered(events'[s])
      /\ TextsIn(events'[s]) = TextsIn(events[s]) - 0
      /\ events[s][1] \in LastEvent => events'[s] = <<>>
      /\ events[s][Len(events[s])] =
           IF events'[s] = <<>> THEN events[s][1] ELSE events'[s][Len(events'[s])]
      /\ TextsIn(events[s]) \in Nat
      /\ \A t \in Send : t # s => events'[t] = events[t]
  <2>1. events[s] # <<>> /\ events' = [events EXCEPT ![s] = Tail(@)]
    BY DEF ReplyError, TakeReply
  <2> QED
    BY <1>1, <2>1, Taken
<1>3. UNCHANGED <<stored, msg, text, send, registered, fin, finAs, ctxDone, start,
                  stop, requests, chat, said, reader, sidecar, closed, closing, del,
                  unended, gaps, deaths, stalls, failures, restarts, budget>>
  BY DEF ReplyError
<1>4. TypeOK'
  BY <1>1, <1>2, <1>3, Parts, AIRunsAssumption DEF TypeOK
<1>5. OneRunPerConversation' /\ (AppDone => closed)'
  BY <1>1, <1>2, <1>3, Parts DEF TypeOK, OneRunPerConversation, RunInv
<1>6. ASSUME NEW t \in Send PROVE (RunInv(t) /\ ChatInv(t) /\ TextInv(t))'
  <2> /\ TypeOK /\ RunInv(t) /\ ChatInv(t) /\ TextInv(t)
      /\ RunInv(s) /\ ChatInv(s) /\ TextInv(s)
    BY Parts
  <2>1. RunInv(t)'
    BY <1>1, <1>2, <1>3 DEF TypeOK, RunInv, Undisturbed
  <2>2. ChatInv(t)'
    <3>1. CASE t = s
      BY <1>1, <1>2, <1>3, <3>1 DEF TypeOK, RunInv, ChatInv
    <3>2. CASE t # s
      <4>1. events'[t] = events[t]
        BY <1>1, <1>2, <1>3, <3>2
      <4> QED
        BY <1>1, <4>1, <1>3, <3>2 DEF TypeOK, RunInv, ChatInv
    <3> QED
      BY <3>1, <3>2
  <2>3. TextInv(t)'
    <3>1. CASE t = s
      BY <1>1, <1>2, <1>3, <3>1 DEF TypeOK, RunInv, ChatInv, TextInv, Kept,
                                    Coming, InHand, Undisturbed
    <3>2. CASE t # s
      <4>1. events'[t] = events[t]
        BY <1>1, <1>2, <1>3, <3>2
      <4> QED
        BY <1>1, <4>1, <1>3, <3>2 DEF TypeOK, RunInv, ChatInv, TextInv, Kept,
                                      Coming, InHand, Undisturbed
    <3> QED
      BY <3>1, <3>2
  <2> QED
    BY <2>1, <2>2, <2>3
<1> QED
  BY <1>4, <1>5, <1>6 DEF IInv

LEMMA ReplyErrorStep ==
  ASSUME IInv, NEW s \in Send, ReplyError(s)
  PROVE  IInv'
BY ReplyErrorWaitingStep, ReplyErrorLateStep

LEMMA ReadEventStep ==
  ASSUME IInv, NEW s \in Send, ReadEvent(s)
  PROVE  IInv'
<1>1. /\ events[s] # <<>> /\ events[s][1] \in LastEvent \cup {"text"} /\ reader = NoEvent
      /\ reader' = IF s \in registered THEN <<s, events[s][1]>> ELSE NoEvent
  <2>1. events[s] # <<>> /\ events' = [events EXCEPT ![s] = Tail(@)]
    BY DEF ReadEvent
  <2> QED
    BY <2>1, Parts, Taken DEF ReadEvent
<1>2. /\ events' \in [Send -> Seq(Event)]
      /\ events[s][1] \in Event /\ 1 \in DOMAIN events[s] /\ Len(events'[s]) \in Nat
      /\ \A i \in DOMAIN events'[s] : i + 1 \in DOMAIN events[s]
                                      /\ events'[s][i] = events[s][i + 1]
      /\ Ordered(events'[s])
      /\ TextsIn(events'[s]) =
           TextsIn(events[s]) - (IF events[s][1] = "text" THEN 1 ELSE 0)
      /\ events[s][1] \in LastEvent => events'[s] = <<>>
      /\ events[s][Len(events[s])] =
           IF events'[s] = <<>> THEN events[s][1] ELSE events'[s][Len(events'[s])]
      /\ TextsIn(events[s]) \in Nat
      /\ \A t \in Send : t # s => events'[t] = events[t]
  <2>1. events[s] # <<>> /\ events' = [events EXCEPT ![s] = Tail(@)]
    BY DEF ReadEvent
  <2> QED
    BY <1>1, <2>1, Taken
<1>3. UNCHANGED <<stored, msg, text, send, registered, fin, finAs, ctxDone, start,
                  stop, requests, chat, said, sidecar, closed, closing, del,
                  unended, gaps, deaths, stalls, failures, restarts, budget>>
  BY DEF ReadEvent
<1>4. TypeOK'
  BY <1>1, <1>2, <1>3, Parts, AIRunsAssumption DEF TypeOK
<1>5. OneRunPerConversation' /\ (AppDone => closed)'
  BY <1>1, <1>2, <1>3, Parts DEF TypeOK, OneRunPerConversation, RunInv
<1>6. ASSUME NEW t \in Send PROVE (RunInv(t) /\ ChatInv(t) /\ TextInv(t))'
  <2> /\ TypeOK /\ RunInv(t) /\ ChatInv(t) /\ TextInv(t)
      /\ RunInv(s) /\ ChatInv(s) /\ TextInv(s)
    BY Parts
  <2>1. RunInv(t)'
    BY <1>1, <1>2, <1>3 DEF TypeOK, RunInv, Undisturbed
  <2>2. ChatInv(t)'
    <3>1. CASE t = s
      BY <1>1, <1>2, <1>3, <3>1 DEF TypeOK, RunInv, ChatInv
    <3>2. CASE t # s
      <4>1. events'[t] = events[t]
        BY <1>1, <1>2, <1>3, <3>2
      <4> QED
        BY <1>1, <4>1, <1>3, <3>2 DEF TypeOK, RunInv, ChatInv
    <3> QED
      BY <3>1, <3>2
  <2>3. TextInv(t)'
    <3>1. CASE t = s /\ s \in registered
      <4>1. reader' = <<s, events[s][1]>> /\ InHand(s) = 0
        BY <1>1, <3>1 DEF InHand
      <4>2. InHand(s)' = IF events[s][1] = "text" THEN 1 ELSE 0
        BY <4>1 DEF InHand
      <4>3. text[s] \in Nat /\ said[s] \in Nat
        BY AIRunsAssumption DEF TypeOK
      <4>4. text[s] + TextsIn(events'[s]) + InHand(s)' =
              text[s] + TextsIn(events[s]) + InHand(s)
        BY <1>1, <1>2, <4>1, <4>2, <4>3
      <4>5. Coming(s)' => Coming(s)
        BY <1>1, <1>2, <1>3 DEF Coming
      <4>6. events[s][1] \in LastEvent =>
              Coming(s) /\ TextsIn(events'[s]) = 0 /\ InHand(s)' = 0
        BY <1>1, <1>2, <4>2, TextsCounted DEF Coming, ChatInv
      <4>7. finAs[s] # "complete"
        BY <1>1 DEF ChatInv
      <4> QED
        BY <1>1, <1>3, <3>1, <4>1, <4>2, <4>3, <4>4, <4>5, <4>6, <4>7
           DEF TextInv, Kept, Undisturbed
    <3>3. CASE t = s /\ s \notin registered
      <4>1. reader' = NoEvent /\ InHand(s) = 0 /\ InHand(s)' = 0
        BY <1>1, <3>3 DEF InHand
      <4>2. fin[s] # "no"
        BY <1>1, <3>3 DEF RunInv, ChatInv
      <4>3. /\ text[s] \in Nat /\ said[s] \in Nat
        BY AIRunsAssumption DEF TypeOK
      <4>4. TextsIn(events'[s]) <= TextsIn(events[s])
        <5>1. CASE events[s][1] = "text"
          BY <1>2, <5>1
        <5>2. CASE events[s][1] # "text"
          BY <1>2, <5>2
        <5> QED
          BY <5>1, <5>2
      <4> QED
        BY <1>1, <1>2, <1>3, <3>3, <4>1, <4>2, <4>3, <4>4
           DEF TextInv, Kept, Undisturbed
    <3>2. CASE t # s
      <4>1. events'[t] = events[t]
        BY <1>2, <3>2
      <4> QED
        BY <1>1, <1>3, <4>1, <3>2 DEF TypeOK, RunInv, ChatInv, TextInv, Kept,
                                      Coming, InHand, Undisturbed
    <3> QED
      BY <3>1, <3>2, <3>3
  <2> QED
    BY <2>1, <2>2, <2>3
<1> QED
  BY <1>4, <1>5, <1>6 DEF IInv

LEMMA ApplyTextStep ==
  ASSUME IInv, NEW s \in Send, ApplyText(s)
  PROVE  IInv'
<1>1. /\ reader = <<s, "text">> /\ reader' = NoEvent
      /\ text[s] \in Nat /\ said[s] \in Nat /\ TextsIn(events[s]) \in Nat
      /\ said[s] <= budget.text /\ budget.text \in Nat
      /\ text[s] + TextsIn(events[s]) + 1 <= said[s]
  <2>1. reader = <<s, "text">> /\ reader' = NoEvent
    BY DEF ApplyText
  <2>2. text[s] \in Nat /\ said[s] \in Nat /\ said[s] <= budget.text /\ budget.text \in Nat
    BY Parts, AIRunsAssumption DEF TypeOK
  <2>3. events[s] \in Seq(Event) /\ Ordered(events[s])
    BY Parts DEF TypeOK, ChatInv
  <2>4. TextsIn(events[s]) \in Nat
    BY <2>3, TextsCounted
  <2>5. InHand(s) = 1 /\ text[s] + TextsIn(events[s]) + InHand(s) <= said[s]
    BY <2>1, Parts DEF InHand, TextInv
  <2> QED
    BY <2>1, <2>2, <2>4, <2>5
<1>2. /\ text' \in [Send -> 0 .. budget.text]
      /\ \/ text'[s] = IF MayAppend(s) THEN text[s] + 1 ELSE text[s]
         \/ text'[s] = text[s] /\ s \in gaps'
      /\ \A t \in Send : t # s => text'[t] = text[t] /\ (t \in gaps' <=> t \in gaps)
      /\ gaps \subseteq gaps' /\ gaps' \subseteq Send
      /\ failures' \in 0 .. budget.failures
  <2>1. CASE /\ text' = [text EXCEPT ![s] = IF MayAppend(s) THEN @ + 1 ELSE @]
             /\ UNCHANGED <<gaps, failures>>
    BY <1>1, <2>1, Parts DEF TypeOK
  <2>2. CASE MayFail /\ gaps' = gaps \cup {s} /\ UNCHANGED text
    <3>1. failures' \in 0 .. budget.failures
      BY <2>2, Parts, AIRunsAssumption DEF MayFail, TypeOK
    <3> QED
      BY <2>2, <3>1, Parts DEF TypeOK
  <2> QED
    BY <2>1, <2>2 DEF ApplyText
<1>3. UNCHANGED <<stored, msg, send, registered, fin, finAs, ctxDone, start, stop,
                  requests, chat, said, events, sidecar, closed, closing, del,
                  unended, deaths, stalls, restarts, budget>>
  BY DEF ApplyText
<1>4. TypeOK'
  BY <1>1, <1>2, <1>3, Parts, AIRunsAssumption DEF TypeOK
<1>5. OneRunPerConversation' /\ (AppDone => closed)'
  BY <1>1, <1>2, <1>3, Parts DEF TypeOK, OneRunPerConversation, RunInv
<1>6. ASSUME NEW t \in Send PROVE (RunInv(t) /\ ChatInv(t) /\ TextInv(t))'
  <2> /\ TypeOK /\ RunInv(t) /\ ChatInv(t) /\ TextInv(t)
      /\ RunInv(s) /\ ChatInv(s) /\ TextInv(s)
    BY Parts
  <2>1. RunInv(t)'
    BY <1>1, <1>2, <1>3 DEF TypeOK, RunInv, Undisturbed
  <2>2. ChatInv(t)'
    BY <1>1, <1>2, <1>3 DEF TypeOK, RunInv, ChatInv
  <2>3. TextInv(t)'
    <3>1. CASE t = s
      <4>1. InHand(s) = 1 /\ InHand(s)' = 0
        BY <1>1 DEF InHand
      <4>2. finAs[s] # "complete"
        BY <1>1 DEF ChatInv
      <4>3. Kept(s) /\ fin[s] = "no" => MayAppend(s)
        BY <1>1 DEF Kept, MayAppend, RunInv
      <4> QED
        BY <1>1, <1>2, <1>3, <3>1, <4>1, <4>2, <4>3
           DEF TextInv, Kept, Coming, Undisturbed
    <3>2. CASE t # s
      <4>1. text'[t] = text[t] /\ (t \in gaps' <=> t \in gaps)
        BY <1>2, <3>2
      <4> QED
        BY <1>1, <1>3, <4>1, <3>2 DEF TypeOK, RunInv, ChatInv, TextInv, Kept,
                                      Coming, InHand, Undisturbed
    <3> QED
      BY <3>1, <3>2
  <2> QED
    BY <2>1, <2>2, <2>3
<1> QED
  BY <1>4, <1>5, <1>6 DEF IInv

LEMMA ApplyLastStep ==
  ASSUME IInv, NEW s \in Send, NEW e \in LastEvent, ApplyLast(s, e)
  PROVE  IInv'
<1>1. /\ reader = <<s, e>>
      /\ reader' = <<s, "finishing">>
  BY DEF ApplyLast
<1>2. /\ fin' \in [Send -> {"no", "write", "unregister", "done"}]
      /\ finAs' \in [Send -> {"none"} \cup Final]
      /\ fin[s] = "no" =>
           fin'[s] = "write" /\ finAs'[s] = (IF e = "completed" THEN "complete" ELSE e)
      /\ fin[s] # "no" => fin'[s] = fin[s] /\ finAs'[s] = finAs[s]
      /\ \A t \in Send : t # s => fin'[t] = fin[t] /\ finAs'[t] = finAs[t]
  <2>1. Finish(s, IF e = "completed" THEN "complete" ELSE e)
    BY DEF ApplyLast, StatusOf
  <2>2. (IF e = "completed" THEN "complete" ELSE e) \in Final
    OBVIOUS
  <2> QED
    BY <2>1, <2>2, Parts, Finishes
<1>3. UNCHANGED <<stored, msg, text, send, registered, ctxDone, start, stop,
                  requests, chat, said, events, sidecar, closed, closing, del,
                  unended, gaps, deaths, stalls, failures, restarts, budget>>
  BY DEF ApplyLast
<1>4. TypeOK'
  BY <1>1, <1>2, <1>3, Parts, AIRunsAssumption DEF TypeOK
<1>5. OneRunPerConversation' /\ (AppDone => closed)'
  BY <1>1, <1>2, <1>3, Parts DEF TypeOK, OneRunPerConversation, RunInv
<1>6. ASSUME NEW t \in Send PROVE (RunInv(t) /\ ChatInv(t) /\ TextInv(t))'
  <2> /\ TypeOK /\ RunInv(t) /\ ChatInv(t) /\ TextInv(t)
      /\ RunInv(s) /\ ChatInv(s) /\ TextInv(s)
    BY Parts
  <2>1. RunInv(t)'
    BY <1>1, <1>2, <1>3 DEF TypeOK, RunInv, Undisturbed
  <2>2. ChatInv(t)'
    BY <1>1, <1>2, <1>3 DEF TypeOK, RunInv, ChatInv
  <2>3. TextInv(t)'
    BY <1>1, <1>2, <1>3 DEF TypeOK, RunInv, ChatInv, TextInv, Kept, Coming,
                            InHand, Undisturbed
  <2> QED
    BY <2>1, <2>2, <2>3
<1> QED
  BY <1>4, <1>5, <1>6 DEF IInv

LEMMA ReaderGoesOnStep ==
  ASSUME IInv, NEW s \in Send, ReaderGoesOn(s)
  PROVE  IInv'
<1>1. TypeOK'
  BY Parts, AIRunsAssumption DEF TypeOK, ReaderGoesOn
<1>2. OneRunPerConversation' /\ (AppDone => closed)'
  BY Parts DEF TypeOK, OneRunPerConversation, RunInv, ReaderGoesOn
<1>3. ASSUME NEW t \in Send PROVE (RunInv(t) /\ ChatInv(t) /\ TextInv(t))'
  <2>1. RunInv(t)'
    BY Parts DEF TypeOK, RunInv, Undisturbed, ReaderGoesOn
  <2>2. ChatInv(t)'
    BY Parts DEF TypeOK, RunInv, ChatInv, ReaderGoesOn
  <2>3. TextInv(t)'
    BY Parts DEF TypeOK, RunInv, ChatInv, TextInv, Kept, Coming, InHand,
                 Undisturbed, ReaderGoesOn
  <2> QED
    BY <2>1, <2>2, <2>3
<1> QED
  BY <1>1, <1>2, <1>3 DEF IInv

LEMMA CloseFinishStep ==
  ASSUME IInv, NEW s \in Send, CloseFinish(s)
  PROVE  IInv'
<1>1. /\ s \in closing /\ closed /\ fin[s] = "no"
  BY Parts DEF CloseFinish, RunInv
<1>2. /\ fin' \in [Send -> {"no", "write", "unregister", "done"}]
      /\ finAs' \in [Send -> {"none"} \cup Final]
      /\ fin[s] = "no" => fin'[s] = "write" /\ finAs'[s] = "interrupted"
      /\ fin[s] # "no" => fin'[s] = fin[s] /\ finAs'[s] = finAs[s]
      /\ \A t \in Send : t # s => fin'[t] = fin[t] /\ finAs'[t] = finAs[t]
  <2>1. Finish(s, "interrupted")
    BY <1>1 DEF CloseFinish
  <2> QED
    BY <2>1, Parts, Finishes
<1>3. UNCHANGED <<stored, msg, text, send, registered, ctxDone, start, stop,
                  requests, chat, said, events, reader, sidecar, closed, closing,
                  del, unended, gaps, deaths, stalls, failures, restarts, budget>>
  BY DEF CloseFinish
<1>4. TypeOK'
  BY <1>1, <1>2, <1>3, Parts, AIRunsAssumption DEF TypeOK
<1>5. OneRunPerConversation' /\ (AppDone => closed)'
  BY <1>1, <1>2, <1>3, Parts DEF TypeOK, OneRunPerConversation, RunInv
<1>6. ASSUME NEW t \in Send PROVE (RunInv(t) /\ ChatInv(t) /\ TextInv(t))'
  <2> /\ TypeOK /\ RunInv(t) /\ ChatInv(t) /\ TextInv(t)
      /\ RunInv(s) /\ ChatInv(s) /\ TextInv(s)
    BY Parts
  <2>1. RunInv(t)'
    <3>1. CASE t = s
      BY <1>1, <1>2, <1>3, <3>1 DEF TypeOK, RunInv, Undisturbed
    <3>2. CASE t # s
      <4>1. fin'[t] = fin[t] /\ finAs'[t] = finAs[t]
        BY <1>2, <3>2
      <4> QED
        BY <4>1, <1>3 DEF RunInv, Undisturbed
    <3> QED
      BY <3>1, <3>2
  <2>2. ChatInv(t)'
    <3>1. /\ finAs'[t] \in {finAs[t], "interrupted"}
          /\ msg[t] = "complete" => finAs'[t] = finAs[t]
      BY <1>1, <1>2 DEF RunInv
    <3> QED
      BY <3>1, <1>3 DEF ChatInv
  <2>3. TextInv(t)'
    BY <1>1, <1>2, <1>3 DEF TypeOK, RunInv, ChatInv, TextInv, Kept, Coming,
                            InHand, Undisturbed
  <2> QED
    BY <2>1, <2>2, <2>3
<1> QED
  BY <1>4, <1>5, <1>6 DEF IInv

LEMMA CloseNextStep ==
  ASSUME IInv, NEW s \in Send, CloseNext(s)
  PROVE  IInv'
<1>1. TypeOK'
  BY Parts, AIRunsAssumption DEF TypeOK, CloseNext
<1>2. OneRunPerConversation' /\ (AppDone => closed)'
  BY Parts DEF TypeOK, OneRunPerConversation, RunInv, CloseNext
<1>3. ASSUME NEW t \in Send PROVE (RunInv(t) /\ ChatInv(t) /\ TextInv(t))'
  <2>1. RunInv(t)'
    BY Parts DEF TypeOK, RunInv, Undisturbed, CloseNext
  <2>2. ChatInv(t)'
    BY Parts DEF TypeOK, RunInv, ChatInv, CloseNext
  <2>3. TextInv(t)'
    BY Parts DEF TypeOK, RunInv, ChatInv, TextInv, Kept, Coming, InHand,
                 Undisturbed, CloseNext
  <2> QED
    BY <2>1, <2>2, <2>3
<1> QED
  BY <1>1, <1>2, <1>3 DEF IInv

LEMMA DeleteCheckStep ==
  ASSUME IInv, NEW c \in Conversation, DeleteCheck(c)
  PROVE  IInv'
<1>1. TypeOK'
  BY Parts, AIRunsAssumption DEF TypeOK, DeleteCheck, DelGoes
<1>2. OneRunPerConversation' /\ (AppDone => closed)'
  BY Parts DEF TypeOK, OneRunPerConversation, RunInv, DeleteCheck, DelGoes
<1>3. ASSUME NEW t \in Send PROVE (RunInv(t) /\ ChatInv(t) /\ TextInv(t))'
  <2>1. RunInv(t)'
    BY Parts DEF TypeOK, RunInv, Undisturbed, DeleteCheck, DelGoes
  <2>2. ChatInv(t)'
    BY Parts DEF TypeOK, RunInv, ChatInv, DeleteCheck, DelGoes
  <2>3. TextInv(t)'
    BY Parts DEF TypeOK, RunInv, ChatInv, TextInv, Kept, Coming, InHand,
                 Undisturbed, DeleteCheck, DelGoes
  <2> QED
    BY <2>1, <2>2, <2>3
<1> QED
  BY <1>1, <1>2, <1>3 DEF IInv

LEMMA DeleteDisposeStep ==
  ASSUME IInv, NEW c \in Conversation, DeleteDispose(c)
  PROVE  IInv'
<1>1. TypeOK'
  BY Parts, AIRunsAssumption DEF TypeOK, DeleteDispose, DelGoes, RunsOf
<1>2. OneRunPerConversation' /\ (AppDone => closed)'
  BY Parts DEF TypeOK, OneRunPerConversation, RunInv, DeleteDispose, DelGoes,
               RunsOf
<1>3. ASSUME NEW t \in Send PROVE (RunInv(t) /\ ChatInv(t) /\ TextInv(t))'
  <2>1. RunInv(t)'
    BY Parts DEF TypeOK, RunInv, Undisturbed, DeleteDispose, DelGoes, RunsOf
  <2>2. ChatInv(t)'
    BY Parts DEF TypeOK, RunInv, ChatInv, DeleteDispose, DelGoes, RunsOf
  <2>3. TextInv(t)'
    BY Parts DEF TypeOK, RunInv, ChatInv, TextInv, Kept, Coming, InHand,
                 Undisturbed, DeleteDispose, DelGoes, RunsOf
  <2> QED
    BY <2>1, <2>2, <2>3
<1> QED
  BY <1>1, <1>2, <1>3 DEF IInv

LEMMA DeleteRowsStep ==
  ASSUME IInv, NEW c \in Conversation, DeleteRows(c)
  PROVE  IInv'
<1>1. TypeOK'
  BY Parts, AIRunsAssumption DEF TypeOK, DeleteRows, DelGoes, MessagesOf, RunsOf
<1>2. OneRunPerConversation' /\ (AppDone => closed)'
  BY Parts DEF TypeOK, OneRunPerConversation, RunInv, DeleteRows, DelGoes,
               MessagesOf, RunsOf
<1>3. ASSUME NEW t \in Send PROVE (RunInv(t) /\ ChatInv(t) /\ TextInv(t))'
  <2>1. RunInv(t)'
    BY Parts DEF TypeOK, RunInv, Undisturbed, DeleteRows, DelGoes, MessagesOf,
                 RunsOf
  <2>2. ChatInv(t)'
    BY Parts DEF TypeOK, RunInv, ChatInv, DeleteRows, DelGoes, MessagesOf,
                 RunsOf
  <2>3. TextInv(t)'
    BY Parts DEF TypeOK, RunInv, ChatInv, TextInv, Kept, Coming, InHand,
                 Undisturbed, DeleteRows, DelGoes, MessagesOf, RunsOf
  <2> QED
    BY <2>1, <2>2, <2>3
<1> QED
  BY <1>1, <1>2, <1>3 DEF IInv

LEMMA SidecarDiesStep ==
  ASSUME IInv, SidecarDies
  PROVE  IInv'
<1>1. /\ sidecar' = "dead" /\ sidecar # "closed" /\ requests' = {}
      /\ deaths' \in 0 .. budget.deaths
      /\ UNCHANGED <<stored, msg, text, send, registered, fin, finAs, ctxDone, stop,
                     said, reader, closed, closing, del, unended, gaps, stalls, failures,
                     restarts, budget>>
  BY Parts, AIRunsAssumption DEF SidecarDies, TypeOK
<1>2. /\ chat' \in [Send -> ChatState]
      /\ \A t \in Send : chat'[t] = IF chat[t] \in {"starting", "active"} THEN "lost"
                                                                        ELSE chat[t]
  BY Parts DEF SidecarDies, TypeOK
<1>3. /\ start' \in [Send -> StartPc]
      /\ \A t \in Send : start'[t] = IF start[t] = "wait" THEN "broken" ELSE start[t]
  BY Parts DEF SidecarDies, TypeOK
<1>4. /\ events' \in [Send -> Seq(Event)]
      /\ \A t \in Send : events'[t] \in {events[t], <<>>}
  <2>1. CASE events' = events
    BY <2>1, Parts DEF TypeOK
  <2>2. CASE events' = [t \in Send |-> <<>>]
    BY <2>2
  <2> QED
    BY <2>1, <2>2 DEF SidecarDies
<1>5. TypeOK'
  BY <1>1, <1>2, <1>3, <1>4, Parts DEF TypeOK
<1>6. OneRunPerConversation' /\ (AppDone => closed)'
  BY <1>1, Parts DEF OneRunPerConversation
<1>7. ASSUME NEW t \in Send PROVE (RunInv(t) /\ ChatInv(t) /\ TextInv(t))'
  <2> TypeOK /\ RunInv(t) /\ ChatInv(t) /\ TextInv(t)
    BY Parts
  <2>1. RunInv(t)'
    BY <1>1, <1>3 DEF RunInv, Undisturbed
  <2>2. ChatInv(t)'
    BY <1>1, <1>2, <1>3, <1>4 DEF ChatInv, Ordered
  <2>3. TextInv(t)'
    <3>1. /\ text[t] \in Nat /\ said[t] \in Nat /\ InHand(t) \in Nat
          /\ TextsIn(events[t]) \in Nat /\ TextsIn(<<>>) = 0
      BY AIRunsAssumption, TextsCounted DEF TypeOK, ChatInv, InHand
    <3>2. Coming(t)' => Coming(t) /\ events'[t] = events[t]
      BY <1>2, <1>4 DEF Coming, ChatInv
    <3>3. TextsIn(events'[t]) \in {TextsIn(events[t]), 0} /\ InHand(t)' = InHand(t)
      BY <1>1, <1>4, <3>1 DEF InHand
    <3> QED
      BY <1>1, <3>1, <3>2, <3>3 DEF TextInv, Kept, Undisturbed
  <2> QED
    BY <2>1, <2>2, <2>3
<1> QED
  BY <1>5, <1>6, <1>7 DEF IInv


LEMMA SidecarReapedStep ==
  ASSUME IInv, SidecarReaped
  PROVE  IInv'
<1>1. TypeOK'
  BY Parts, AIRunsAssumption DEF TypeOK, SidecarReaped
<1>2. OneRunPerConversation' /\ (AppDone => closed)'
  BY Parts DEF TypeOK, OneRunPerConversation, RunInv, SidecarReaped
<1>3. ASSUME NEW t \in Send PROVE (RunInv(t) /\ ChatInv(t) /\ TextInv(t))'
  <2>1. RunInv(t)'
    BY Parts DEF TypeOK, RunInv, Undisturbed, SidecarReaped
  <2>2. ChatInv(t)'
    BY Parts DEF TypeOK, RunInv, ChatInv, SidecarReaped
  <2>3. TextInv(t)'
    BY Parts DEF TypeOK, RunInv, ChatInv, TextInv, Kept, Coming, InHand,
                 Undisturbed, SidecarReaped
  <2> QED
    BY <2>1, <2>2, <2>3
<1> QED
  BY <1>1, <1>2, <1>3 DEF IInv

LEMMA SidecarStallsStep ==
  ASSUME IInv, SidecarStalls
  PROVE  IInv'
<1>1. TypeOK'
  BY Parts, AIRunsAssumption DEF TypeOK, SidecarStalls
<1>2. OneRunPerConversation' /\ (AppDone => closed)'
  BY Parts DEF TypeOK, OneRunPerConversation, RunInv, SidecarStalls
<1>3. ASSUME NEW t \in Send PROVE (RunInv(t) /\ ChatInv(t) /\ TextInv(t))'
  <2>1. RunInv(t)'
    BY Parts DEF TypeOK, RunInv, Undisturbed, SidecarStalls
  <2>2. ChatInv(t)'
    BY Parts DEF TypeOK, RunInv, ChatInv, SidecarStalls
  <2>3. TextInv(t)'
    BY Parts DEF TypeOK, RunInv, ChatInv, TextInv, Kept, Coming, InHand,
                 Undisturbed, SidecarStalls
  <2> QED
    BY <2>1, <2>2, <2>3
<1> QED
  BY <1>1, <1>2, <1>3 DEF IInv

LEMMA SidecarResumesStep ==
  ASSUME IInv, SidecarResumes
  PROVE  IInv'
<1>1. TypeOK'
  BY Parts, AIRunsAssumption DEF TypeOK, SidecarResumes
<1>2. OneRunPerConversation' /\ (AppDone => closed)'
  BY Parts DEF TypeOK, OneRunPerConversation, RunInv, SidecarResumes
<1>3. ASSUME NEW t \in Send PROVE (RunInv(t) /\ ChatInv(t) /\ TextInv(t))'
  <2>1. RunInv(t)'
    BY Parts DEF TypeOK, RunInv, Undisturbed, SidecarResumes
  <2>2. ChatInv(t)'
    BY Parts DEF TypeOK, RunInv, ChatInv, SidecarResumes
  <2>3. TextInv(t)'
    BY Parts DEF TypeOK, RunInv, ChatInv, TextInv, Kept, Coming, InHand,
                 Undisturbed, SidecarResumes
  <2> QED
    BY <2>1, <2>2, <2>3
<1> QED
  BY <1>1, <1>2, <1>3 DEF IInv

LEMMA CloseBeginStep ==
  ASSUME IInv, CloseBegin
  PROVE  IInv'
<1>1. TypeOK'
  BY Parts, AIRunsAssumption DEF TypeOK, CloseBegin
<1>2. OneRunPerConversation' /\ (AppDone => closed)'
  BY Parts DEF TypeOK, OneRunPerConversation, RunInv, CloseBegin
<1>3. ASSUME NEW t \in Send PROVE (RunInv(t) /\ ChatInv(t) /\ TextInv(t))'
  <2>1. RunInv(t)'
    BY Parts DEF TypeOK, RunInv, Undisturbed, CloseBegin
  <2>2. ChatInv(t)'
    BY Parts DEF TypeOK, RunInv, ChatInv, CloseBegin
  <2>3. TextInv(t)'
    BY Parts DEF TypeOK, RunInv, ChatInv, TextInv, Kept, Coming, InHand,
                 Undisturbed, CloseBegin
  <2> QED
    BY <2>1, <2>2, <2>3
<1> QED
  BY <1>1, <1>2, <1>3 DEF IInv

LEMMA CloseSidecarStep ==
  ASSUME IInv, CloseSidecar
  PROVE  IInv'
<1>1. /\ sidecar' = "closed" /\ closed /\ closing = {} /\ requests' = {}
      /\ ctxDone' = ctxDone \cup registered
      /\ UNCHANGED <<stored, msg, text, send, registered, fin, finAs, stop, said,
                     events, reader, closed, closing, del, unended, gaps, deaths,
                     stalls, failures, restarts, budget>>
  BY DEF CloseSidecar
<1>2. /\ chat' \in [Send -> ChatState]
      /\ \A t \in Send : chat'[t] = IF chat[t] \in {"starting", "active"} THEN "lost"
                                                                        ELSE chat[t]
  BY Parts DEF CloseSidecar, TypeOK
<1>3. /\ start' \in [Send -> StartPc]
      /\ \A t \in Send : start'[t] = IF start[t] = "wait" THEN "broken" ELSE start[t]
  BY Parts DEF CloseSidecar, TypeOK
<1>4. TypeOK'
  BY <1>1, <1>2, <1>3, Parts DEF TypeOK
<1>5. OneRunPerConversation' /\ (AppDone => closed)'
  BY <1>1, Parts DEF OneRunPerConversation
<1>6. ASSUME NEW t \in Send PROVE (RunInv(t) /\ ChatInv(t) /\ TextInv(t))'
  <2> TypeOK /\ RunInv(t) /\ ChatInv(t) /\ TextInv(t)
    BY Parts
  <2>1. RunInv(t)'
    BY <1>1, <1>3 DEF RunInv, Undisturbed
  <2>2. ChatInv(t)'
    BY <1>1, <1>2, <1>3 DEF ChatInv
  <2>3. TextInv(t)'
    BY <1>1, <1>2 DEF TextInv, Kept, Coming, InHand, Undisturbed
  <2> QED
    BY <2>1, <2>2, <2>3
<1> QED
  BY <1>4, <1>5, <1>6 DEF IInv


LEMMA RestartStep ==
  ASSUME IInv, Restart
  PROVE  IInv'
<1>1. /\ registered' = {} /\ requests' = {} /\ reader' = NoEvent /\ sidecar' = "none"
      /\ closed' = FALSE /\ closing' = {} /\ restarts' > 0
      /\ restarts' \in 0 .. budget.restarts
      /\ unended' = {}
      /\ UNCHANGED <<stored, text, finAs, ctxDone, said, gaps, deaths, stalls, failures,
                     budget>>
  BY Parts, AIRunsAssumption DEF Restart, TypeOK
<1>2. /\ msg' \in [Send -> MsgStatus]
      /\ \A t \in Send : msg'[t] = IF msg[t] = "streaming" THEN "interrupted" ELSE msg[t]
  BY Parts DEF Restart, Repaired, TypeOK
<1>3. /\ send' \in [Send -> SendPc]
      /\ \A t \in Send : send'[t] = IF send[t] \in {"checked", "created", "conflict"}
                                      THEN "failed" ELSE send[t]
  BY Parts DEF Restart, TypeOK
<1>4. /\ fin' \in [Send -> {"no", "write", "unregister", "done"}]
      /\ \A t \in Send : fin'[t] = IF send[t] = "running" THEN "done" ELSE fin[t]
  BY Parts DEF Restart, TypeOK
<1>5. /\ start' \in [Send -> StartPc]
      /\ \A t \in Send : start'[t] = IF start[t] = "none" THEN "none" ELSE "done"
  BY Parts DEF Restart, TypeOK
<1>6. /\ stop' \in [Send -> StopPc]
      /\ \A t \in Send : stop'[t] = IF stop[t] = "idle" THEN "idle" ELSE "finish"
  BY Parts DEF Restart, TypeOK
<1>7. /\ chat' \in [Send -> ChatState]
      /\ \A t \in Send : chat'[t] = IF chat[t] \in {"starting", "active"} THEN "lost"
                                                                        ELSE chat[t]
  BY Parts DEF Restart, TypeOK
<1>8. /\ events' \in [Send -> Seq(Event)]
      /\ \A t \in Send : events'[t] = <<>>
  BY DEF Restart
<1>9. del' \in [Conversation -> {"idle", "checked", "disposed", "done"}]
  BY Parts DEF Restart, TypeOK
<1>10. TypeOK'
  BY <1>1, <1>2, <1>3, <1>4, <1>5, <1>6, <1>7, <1>8, <1>9, Parts DEF TypeOK
<1>11. OneRunPerConversation' /\ (AppDone => closed)'
  BY <1>1 DEF OneRunPerConversation
<1>12. ASSUME NEW t \in Send PROVE (RunInv(t) /\ ChatInv(t) /\ TextInv(t))'
  <2> TypeOK /\ RunInv(t) /\ ChatInv(t) /\ TextInv(t)
    BY Parts
  <2>1. RunInv(t)'
    BY <1>1, <1>2, <1>3, <1>4, <1>5, <1>6 DEF TypeOK, RunInv, Undisturbed
  <2>2. ChatInv(t)'
    BY <1>1, <1>2, <1>5, <1>7, <1>8 DEF TypeOK, ChatInv, Ordered
  <2>3. TextInv(t)'
    <3>1. /\ text[t] \in Nat /\ said[t] \in Nat /\ InHand(t) \in Nat
          /\ TextsIn(events[t]) \in Nat /\ TextsIn(<<>>) = 0
      BY AIRunsAssumption, TextsCounted DEF TypeOK, ChatInv, InHand
    <3>2. TextsIn(events'[t]) = 0 /\ InHand(t)' = 0 /\ ~Kept(t)'
      BY <1>1, <1>8, <3>1 DEF InHand, Kept, Undisturbed, TypeOK
    <3> QED
      BY <1>1, <3>1, <3>2 DEF TextInv
  <2> QED
    BY <2>1, <2>2, <2>3
<1> QED
  BY <1>10, <1>11, <1>12 DEF IInv


-------------------------------------------------------------------------------
LEMMA Initially == Init => IInv
<1> SUFFICES ASSUME Init PROVE IInv
  OBVIOUS
<1>1. TypeOK
  <2>1. budget.text \in Nat /\ budget.deaths \in Nat /\ budget.restarts \in Nat
        /\ budget.stalls \in Nat /\ budget.failures \in Nat
    BY AIRunsAssumption DEF Init
  <2>2. text \in [Send -> 0 .. budget.text] /\ said \in [Send -> 0 .. budget.text]
    BY <2>1 DEF Init
  <2>3. events \in [Send -> Seq(Event)]
    BY DEF Init
  <2>4. /\ deaths \in 0 .. budget.deaths /\ restarts \in 0 .. budget.restarts
        /\ stalls \in 0 .. budget.stalls /\ failures \in 0 .. budget.failures
    BY <2>1 DEF Init
  <2>5. /\ msg \in [Send -> MsgStatus] /\ send \in [Send -> SendPc]
        /\ fin \in [Send -> {"no", "write", "unregister", "done"}]
        /\ finAs \in [Send -> {"none"} \cup Final]
        /\ start \in [Send -> StartPc] /\ stop \in [Send -> StopPc]
        /\ chat \in [Send -> ChatState]
        /\ del \in [Conversation -> {"idle", "checked", "disposed", "done"}]
    BY DEF Init
  <2> QED
    BY <2>2, <2>3, <2>4, <2>5 DEF Init, TypeOK
<1>2. OneRunPerConversation /\ ~AppDone
  BY DEF Init, OneRunPerConversation
<1>3. ASSUME NEW t \in Send PROVE RunInv(t) /\ ChatInv(t) /\ TextInv(t)
  <2>1. RunInv(t)
    BY DEF Init, RunInv
  <2>2. ChatInv(t)
    BY DEF Init, ChatInv, Ordered
  <2>3. TextsIn(<<>>) = 0
    BY DEF TextsIn
  <2>4. TextInv(t)
    BY <2>3 DEF Init, TextInv, InHand
  <2> QED
    BY <2>1, <2>2, <2>4
<1> QED
  BY <1>1, <1>2, <1>3 DEF IInv

LEMMA Stutters == ASSUME IInv, UNCHANGED vars PROVE IInv'
<1>1. TypeOK' /\ OneRunPerConversation' /\ (AppDone => closed)'
  BY Parts DEF vars, TypeOK, OneRunPerConversation
<1>2. ASSUME NEW t \in Send PROVE (RunInv(t) /\ ChatInv(t) /\ TextInv(t))'
  BY Parts DEF vars, RunInv, ChatInv, TextInv, Kept, Coming, InHand, Undisturbed
<1> QED
  BY <1>1, <1>2 DEF IInv

(* Every step of every actor keeps the invariant.                            *)
THEOREM Inductive == Spec => []IInv
<1>1. ASSUME IInv, [Next]_vars PROVE IInv'
  <2>1. ASSUME NEW s \in Send, SendStep(s) \/ StopStep(s) \/ FinishStep(s) PROVE IInv'
    BY <1>1, <2>1, SendCheckStep, SendCreateStep, SendRegisterStep,
       SendConflictStep,
       SendGivesUpStep, StopRunStep, WriteCancelStep, StopFinishStep,
       FinishWriteStep, FinishUnregisterStep DEF SendStep, StopStep, FinishStep
  <2>2. ASSUME NEW s \in Send, StartStep(s) PROVE IInv'
    BY <1>1, <2>2, StatusOKStep, StatusFailsStep, WriteStartStep,
       WriteStartFailsStep,
       WaitCancelledStep, CallBrokenStep, SessionSavedStep, SaveFailsStep DEF StartStep
  <2>3. ASSUME NEW s \in Send, ChatStep(s) PROVE IInv'
    <3>1. ASSUME ChatEnds(s, "completed", "completed") PROVE IInv'
      BY <1>1, <3>1, ChatEndsStep
    <3>2. ASSUME ChatEnds(s, "failed", "error") PROVE IInv'
      BY <1>1, <3>2, ChatEndsStep
    <3> QED
      BY <1>1, <2>3, <3>1, <3>2, HandleStartStep, ChatActiveStep,
         ChatRefusedStep,
         SayStep, HandleCancelStep DEF ChatStep
  <2>4. ASSUME NEW s \in Send, ReaderStep(s) PROVE IInv'
    BY <1>1, <2>4, ReplyOKStep, ReplyErrorStep, ReadEventStep, ApplyTextStep,
       ApplyLastStep, ReaderGoesOnStep DEF ReaderStep
  <2>5. ASSUME NEW s \in Send, CloseFinish(s) \/ CloseNext(s) PROVE IInv'
    BY <1>1, <2>5, CloseFinishStep, CloseNextStep
  <2>6. ASSUME NEW c \in Conversation,
               DeleteCheck(c) \/ DeleteDispose(c) \/ DeleteRows(c)
        PROVE  IInv'
    BY <1>1, <2>6, DeleteCheckStep, DeleteDisposeStep, DeleteRowsStep
  <2>7. CASE \/ SidecarDies \/ SidecarReaped \/ SidecarStalls \/ SidecarResumes
             \/ CloseBegin \/ CloseSidecar \/ Restart
    BY <1>1, <2>7, SidecarDiesStep, SidecarReapedStep, SidecarStallsStep,
       SidecarResumesStep, CloseBeginStep, CloseSidecarStep, RestartStep
  <2> QED
    BY <1>1, <2>1, <2>2, <2>3, <2>4, <2>5, <2>6, <2>7, Stutters DEF Next
<1> QED
  BY <1>1, Initially, PTL DEF Spec

(* The variables keep their types; no message holds more text than the chat  *)
(* may say.                                                                  *)
THEOREM TypeCorrect == Spec => []TypeOK
<1>1. IInv => TypeOK
  BY DEF IInv
<1> QED
  BY <1>1, Inductive, PTL

(* An answer that streams has its one run, and a conversation at most one:   *)
(* the second critical section of Send looks again, and finish writes the    *)
(* status before it clears the maps.                                         *)
THEOREM RunsOwned == Spec => []RunsAreOwned
<1>1. IInv => RunsAreOwned
  <2> SUFFICES ASSUME IInv, NEW s \in Send, msg[s] = "streaming"
               PROVE  \/ send[s] \in {"created", "conflict"}
                      \/ send[s] = "running" /\ fin[s] # "done" /\ s \in registered
                      \/ s \in unended
                      \/ AppDone
    BY Parts DEF RunsAreOwned, StreamingIsOwned
  <2>1. RunInv(s) /\ send[s] \in SendPc /\ fin[s] \in {"no", "write", "unregister", "done"}
    BY Parts DEF TypeOK
  <2>2. CASE send[s] = "running"
    BY <2>1, <2>2 DEF RunInv
  <2>3. CASE send[s] # "running"
    BY <2>1, <2>3 DEF RunInv
  <2> QED
    BY <2>2, <2>3
<1> QED
  BY <1>1, Inductive, PTL

(* Nothing is left of a deleted conversation: the messages of Send are       *)
(* inserted by statements that look at the conversation, and finish updates. *)
THEOREM DeletedGone == Spec => []DeletedIsGone
<1>1. IInv => DeletedIsGone
  BY Parts DEF DeletedIsGone, RunInv
<1> QED
  BY <1>1, Inductive, PTL

(* How an answer ended is true: complete only after the chat completed, and  *)
(* then whole unless somebody stopped or closed it; interrupted only by      *)
(* Close or a restart.                                                       *)
THEOREM EndTruthful == Spec => []EndIsTruthful
<1>1. IInv => EndIsTruthful
  <2> SUFFICES ASSUME IInv, NEW s \in Send
               PROVE  /\ msg[s] = "complete" => chat[s] = "completed"
                      /\ msg[s] = "complete" /\ Undisturbed(s) /\ s \notin gaps =>
                           text[s] = said[s]
                      /\ msg[s] = "interrupted" => closed \/ restarts > 0
    BY DEF EndIsTruthful
  <2>1. /\ msg[s] = "complete" => finAs[s] = "complete" /\ chat[s] = "completed"
        /\ msg[s] = "interrupted" => closed \/ restarts > 0
    BY Parts DEF RunInv, ChatInv
  <2>2. msg[s] = "complete" /\ Undisturbed(s) /\ s \notin gaps => text[s] = said[s]
    BY <2>1, Parts DEF TextInv, Kept
  <2> QED
    BY <2>1, <2>2
<1> QED
  BY <1>1, Inductive, PTL
===============================================================================
