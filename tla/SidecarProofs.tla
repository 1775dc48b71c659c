---------------------------- MODULE SidecarProofs ----------------------------
(***************************************************************************)
(* For any number of turns of a conversation, pieces of text, tool calls   *)
(* and ends of the app-server: what a chat is told of its end is its own   *)
(* end, once, and a chat that is active is still to hear of its turn.      *)
(*                                                                         *)
(* And for any number of tool calls and any inputs: ids and handlers meet  *)
(* one to one whatever the order of hooks and handlers, nobody waits for an*)
(* id that is there, an answer of the host goes to the call it is of, and  *)
(* the chat is told of it once, after the start of that call.              *)
(***************************************************************************)
EXTENDS Sidecar, ToolCalls, TLAPS


Starts == {"none", "connecting", "thread", "turn", "returned", "refused"}
Cancels == {"none", "missed", "interrupting", "done"}
Turns == {"none", "running", "completed", "interrupted", "lost"}
ToolEvents == {"tool_start", "tool_result"}
Events == {"started", "text"} \cup ToolEvents \cup End
Kinds == {"thread", "no_thread", "turn", "refused", "turn/started", "text", "tool",
          "completed", "interrupted", "interrupt"}
Requests == [of : Chat, method : {"thread", "turn", "interrupt"}, turn : Chat \cup {0}]
Lines == [of : Chat, kind : Kinds]
Leavings == [what : {"no", "logout", "dispose", "out", "gone"}, for : SUBSET Chat]

ChatsOK == /\ start \in [Chat -> Starts] /\ turnId \in [Chat -> Chat \cup {0}]
           /\ cancel \in [Chat -> Cancels] /\ leaving \in Leavings
SetsOK == /\ active \subseteq Chat /\ terminal \subseteq Chat
          /\ aborted \subseteq Chat /\ loose \subseteq Chat
WireOK == requests \subseteq Requests /\ lines \in Seq(Lines)
RestOK == /\ provider \in {"codex", "claude"} /\ client \in {"none", "up", "dead"}
          /\ sessionChat \in Chat \cup {0} /\ calls \subseteq Nat \X Chat
          /\ items \in Nat /\ breaks \in Nat
TurnOK == turn \in [Chat -> Turns]
OutOK == out \in [Chat -> Seq(Events)]
TypeOK == ChatsOK /\ SetsOK /\ WireOK /\ RestOK /\ TurnOK /\ OutOK

(* What the events of a chat say: whether it was told an end, that it was    *)
(* completed, and that nothing follows the end but what tool calls left.     *)
Told(s, kinds) == \E i \in DOMAIN s : s[i] \in kinds
EndsOnce(s) ==
  \A i \in DOMAIN s : s[i] \in End => \A j \in (i + 1)..Len(s) : s[j] \in ToolEvents

(* What the sidecar has still to read.  Late: it reads that turn t completed  *)
(* after the thread of chat k is ready.                                      *)
Has(s, k, kind) == \E i \in DOMAIN s : s[i] = Line(k, kind)
Once(s, k) == \A i, j \in DOMAIN s : s[i] = Line(k, "thread") /\ s[j] = Line(k, "thread") => i = j
Late(s, t, k) ==
  \E i, j \in DOMAIN s : i < j /\ s[i] = Line(k, "thread") /\ s[j] = Line(t, "completed")
On(k, kind) == Has(lines, k, kind)
Wants(k, method) == Request(k, method) \in requests

(* Only a living app-server of Codex has anything on its way.                *)
WireInv ==
  /\ client # "up" => requests = {} /\ lines = <<>>
  /\ client # "none" => provider = "codex"
  /\ \A r \in requests : r.method = "interrupt" => r.turn \in Chat

(* Where startChat is tells what it waits for and whether the chat is known. *)
Begun == {"turn", "returned"}
StageInv(k) ==
  /\ Wants(k, "thread") \/ On(k, "thread") => start[k] = "thread"
  /\ ~(Wants(k, "thread") /\ On(k, "thread"))
  /\ Once(lines, k)
  /\ On(k, "no_thread") =>
       start[k] \in {"thread", "refused"} /\ ~Wants(k, "thread") /\ ~On(k, "thread")
  /\ start[k] \in {"thread", "turn"} => client = "up"
  /\ k \in active \cup terminal => start[k] \in Begun
  /\ k \in active => k \notin terminal

(* A turn is asked for once, refused or run, and completed before that is    *)
(* written.  Who waits for a refusal is there to hear of it.                 *)
TurnInv(k) ==
  /\ Wants(k, "turn") \/ On(k, "refused") => turn[k] = "none" /\ start[k] \in Begun
  /\ ~(Wants(k, "turn") /\ On(k, "refused"))
  /\ turn[k] # "none" => start[k] \in Begun
  /\ k \in active /\ (Wants(k, "turn") \/ On(k, "refused")) => start[k] = "turn"
  /\ On(k, "turn") => turn[k] # "none"
  /\ On(k, "completed") => turn[k] = "completed"

(* Cancelling finishes a chat or waits to do so; one that was missed is loose. *)
CancelInv(k) ==
  /\ cancel[k] = "interrupting" => k \in active \cup terminal
  /\ cancel[k] = "done" => k \in terminal
  /\ cancel[k] = "missed" => k \in loose \cup terminal

(* An end is told when the chat is finished.  That it completed is told to a *)
(* chat whose turn did, or with or after one that was given up.              *)
AfterLoose(k) == \E j \in 1..k : j \in loose
EndInv(k) ==
  /\ Told(out[k], End) => k \in terminal
  /\ EndsOnce(out[k])
  /\ Told(out[k], {"completed"}) => turn[k] = "completed" \/ AfterLoose(k)

(* Of a chat that is finished and not loose no turn goes on or is to come,    *)
(* and when a chat starts the former are finished, refused or loose.  So the *)
(* end of a former turn that a chat hears of is one of a loose chat.         *)
LooseInv(k) ==
  /\ k \in terminal \ loose => turn[k] # "running" /\ ~Wants(k, "turn")
  /\ start[k] # "none" => \A t \in 1..(k - 1) : t \in loose \cup terminal \/ start[t] = "refused"
  /\ \A t \in 1..(k - 1) : (k \in active /\ On(t, "completed")) \/ Late(lines, t, k) => t \in loose

(* A chat that is active will hear of its turn, or the app-server is dead.   *)
ServedInv(k) == k \in active =>
  \/ turn[k] = "running" \/ cancel[k] = "interrupting" \/ client = "dead"
  \/ turn[k] = "none" /\ (Wants(k, "turn") \/ On(k, "refused"))
  \/ turn[k] = "completed" /\ On(k, "completed")
  \/ turn[k] = "interrupted" /\ On(k, "interrupted")

(* Who leaves waits for the chats it found until they are finished.          *)
LeavingInv ==
  \A k \in leaving.for : \/ k \in terminal
                         \/ cancel[k] = "interrupting" /\ leaving.what \in {"logout", "dispose"}

ChatInv(k) == /\ StageInv(k) /\ TurnInv(k) /\ CancelInv(k)
              /\ EndInv(k) /\ LooseInv(k) /\ ServedInv(k)
IInv == TypeOK /\ WireInv /\ LeavingInv /\ \A k \in Chat : ChatInv(k)

------------------------------------------------------------------------------
(* Events that are told, lines that are written and read, requests.          *)

\* One more event keeps an end the last, if it is of a tool or none came before.
LEMMA OneMore ==
  ASSUME NEW s \in Seq(Events), NEW e \in Events
  PROVE  /\ Append(s, e) \in Seq(Events)
         /\ \A kinds : Told(Append(s, e), kinds) <=> Told(s, kinds) \/ e \in kinds
         /\ EndsOnce(s) /\ (e \in ToolEvents \/ ~Told(s, End)) => EndsOnce(Append(s, e))
<1>1. /\ Append(s, e) \in Seq(Events) /\ Len(s) \in Nat /\ DOMAIN s = 1..Len(s)
      /\ Len(Append(s, e)) = Len(s) + 1 /\ DOMAIN Append(s, e) = 1..(Len(s) + 1)
      /\ \A i \in 1..Len(s) : Append(s, e)[i] = s[i]
      /\ Append(s, e)[Len(s) + 1] = e
  OBVIOUS
<1>2. \A i \in 1..(Len(s) + 1) : i = Len(s) + 1 \/ i \in 1..Len(s)
  BY <1>1
<1>3. \A i \in 1..Len(s) : i \in 1..(Len(s) + 1)
  BY <1>1
<1>4. Len(s) + 1 \in 1..(Len(s) + 1)
  BY <1>1
<1>5. \A kinds : Told(Append(s, e), kinds) <=> Told(s, kinds) \/ e \in kinds
  BY <1>1, <1>2, <1>3, <1>4 DEF Told
<1>6. ASSUME EndsOnce(s), e \in ToolEvents \/ ~Told(s, End),
             NEW i \in DOMAIN Append(s, e), Append(s, e)[i] \in End,
             NEW j \in (i + 1)..Len(Append(s, e))
      PROVE  Append(s, e)[j] \in ToolEvents
  <2>1. i \in Nat /\ j \in Nat /\ i < j /\ j <= Len(s) + 1
    BY <1>1
  <2>2. i \in 1..Len(s) /\ s[i] \in End
    BY <1>1, <1>6, <2>1
  <2>3. e \in ToolEvents
    BY <1>1, <1>6, <2>2 DEF Told
  <2>4. CASE j = Len(s) + 1
    BY <1>1, <2>3, <2>4
  <2>5. CASE j # Len(s) + 1
    <3>1. j \in (i + 1)..Len(s) /\ j \in 1..Len(s)
      BY <1>1, <2>1, <2>5
    <3> QED
      BY <1>1, <1>6, <2>2, <3>1 DEF EndsOnce
  <2> QED
    BY <2>4, <2>5
<1> QED
  BY <1>1, <1>5, <1>6 DEF EndsOnce

LEMMA Same == \A k, j, x, y : Line(k, x) = Line(j, y) <=> k = j /\ x = y
  BY DEF Line

LEMMA Writes ==
  ASSUME NEW s \in Seq(Lines), NEW l \in Lines
  PROVE  /\ Append(s, l) \in Seq(Lines)
         /\ \A k, x : Has(Append(s, l), k, x) <=> Has(s, k, x) \/ l = Line(k, x)
         /\ \A k : Once(s, k) /\ ~(l = Line(k, "thread") /\ Has(s, k, "thread"))
                     => Once(Append(s, l), k)
         /\ \A t, k : Late(Append(s, l), t, k) =>
                        Late(s, t, k) \/ (l = Line(t, "completed") /\ Has(s, k, "thread"))
<1>1. /\ Append(s, l) \in Seq(Lines) /\ Len(s) \in Nat /\ DOMAIN s = 1..Len(s)
      /\ DOMAIN Append(s, l) = 1..(Len(s) + 1)
      /\ \A i \in 1..Len(s) : Append(s, l)[i] = s[i]
      /\ Append(s, l)[Len(s) + 1] = l
  OBVIOUS
<1>2. \A i \in 1..(Len(s) + 1) : i = Len(s) + 1 \/ i \in 1..Len(s)
  BY <1>1
<1>3. /\ \A i \in 1..Len(s) : i \in 1..(Len(s) + 1) /\ i # Len(s) + 1
      /\ Len(s) + 1 \in 1..(Len(s) + 1)
  BY <1>1
<1>4. \A k, x : Has(Append(s, l), k, x) <=> Has(s, k, x) \/ l = Line(k, x)
  BY <1>1, <1>2, <1>3 DEF Has
<1>5. \A k : Once(s, k) /\ ~(l = Line(k, "thread") /\ Has(s, k, "thread"))
               => Once(Append(s, l), k)
  BY <1>1, <1>2, <1>3 DEF Has, Once
<1>6. ASSUME NEW t, NEW k, Late(Append(s, l), t, k)
      PROVE  Late(s, t, k) \/ (l = Line(t, "completed") /\ Has(s, k, "thread"))
  <2>1. PICK i \in DOMAIN Append(s, l), j \in DOMAIN Append(s, l) :
          /\ i < j /\ Append(s, l)[i] = Line(k, "thread")
          /\ Append(s, l)[j] = Line(t, "completed")
    BY <1>6 DEF Late
  <2>2. i \in 1..Len(s) /\ s[i] = Line(k, "thread")
    BY <1>1, <2>1
  <2>3. CASE j = Len(s) + 1
    BY <1>1, <2>1, <2>2, <2>3 DEF Has
  <2>4. CASE j \in 1..Len(s)
    BY <1>1, <2>1, <2>2, <2>4 DEF Late
  <2> QED
    BY <1>1, <1>2, <2>1, <2>3, <2>4
<1> QED
  BY <1>1, <1>4, <1>5, <1>6

LEMMA Takes ==
  ASSUME NEW s \in Seq(Lines), s # <<>>
  PROVE  /\ Tail(s) \in Seq(Lines) /\ Head(s) \in Lines
         /\ \A k, x : Has(s, k, x) <=> Has(Tail(s), k, x) \/ Head(s) = Line(k, x)
         /\ \A k : Once(s, k) =>
              /\ Once(Tail(s), k)
              /\ ~(Head(s) = Line(k, "thread") /\ Has(Tail(s), k, "thread"))
         /\ \A t, k : \/ Late(Tail(s), t, k)
                      \/ Head(s) = Line(k, "thread") /\ Has(Tail(s), t, "completed")
                      => Late(s, t, k)
<1>1. /\ Tail(s) \in Seq(Lines) /\ Head(s) = s[1] /\ s[1] \in Lines
      /\ Len(s) \in Nat \ {0} /\ DOMAIN s = 1..Len(s) /\ DOMAIN Tail(s) = 1..(Len(s) - 1)
      /\ \A i \in 1..(Len(s) - 1) : Tail(s)[i] = s[i + 1]
  OBVIOUS
<1>2. /\ \A i \in 1..(Len(s) - 1) : i + 1 \in 1..Len(s) /\ i + 1 # 1 /\ 1 < i + 1
      /\ 1 \in 1..Len(s)
      /\ \A i, j \in 1..(Len(s) - 1) : (i < j <=> i + 1 < j + 1) /\ (i = j <=> i + 1 = j + 1)
  BY <1>1
<1>3. \A i \in 1..Len(s) : i = 1 \/ \E j \in 1..(Len(s) - 1) : i = j + 1
  <2> SUFFICES ASSUME NEW i \in 1..Len(s), i # 1
               PROVE  i - 1 \in 1..(Len(s) - 1) /\ i = (i - 1) + 1
    OBVIOUS
  <2> QED
    BY <1>1
<1>4. ASSUME NEW k, NEW x
      PROVE  Has(s, k, x) <=> Has(Tail(s), k, x) \/ Head(s) = Line(k, x)
  <2>1. ASSUME NEW i \in DOMAIN s, s[i] = Line(k, x)
        PROVE  Has(Tail(s), k, x) \/ Head(s) = Line(k, x)
    <3>1. CASE i = 1
      BY <1>1, <2>1, <3>1
    <3>2. ASSUME NEW j \in 1..(Len(s) - 1), i = j + 1
          PROVE  Has(Tail(s), k, x)
      BY <1>1, <2>1, <3>2 DEF Has
    <3> QED
      BY <1>1, <1>3, <3>1, <3>2
  <2>2. Has(Tail(s), k, x) \/ Head(s) = Line(k, x) => Has(s, k, x)
    BY <1>1, <1>2 DEF Has
  <2> QED
    BY <2>1, <2>2 DEF Has
<1>5. \A k : Once(s, k) => /\ Once(Tail(s), k)
                           /\ ~(Head(s) = Line(k, "thread") /\ Has(Tail(s), k, "thread"))
  BY <1>1, <1>2 DEF Has, Once
<1>6. \A t, k : Late(Tail(s), t, k) => Late(s, t, k)
  BY <1>1, <1>2 DEF Late
<1>7. \A t, k : Head(s) = Line(k, "thread") /\ Has(Tail(s), t, "completed") => Late(s, t, k)
  BY <1>1, <1>2 DEF Late, Has
<1> QED
  BY <1>1, <1>4, <1>5, <1>6, <1>7

\* Nothing is on an empty wire.
LEMMA Quiet == /\ \A k, x : ~Has(<<>>, k, x)
               /\ \A k : Once(<<>>, k)
               /\ \A t, k : ~Late(<<>>, t, k)
               /\ <<>> \in Seq(Lines)
  BY DEF Has, Once, Late

LEMMA Apart ==
  /\ \A k, j, x, y : Request(k, x) = Request(j, y) <=> k = j /\ x = y
  /\ \A k, j, x : x # "interrupt" => Request(k, x) # Interrupt(j)
  /\ \A k : Request(k, "thread").method = "thread" /\ Request(k, "turn").method = "turn"
  /\ \A k : Interrupt(k).turn = turnId[k] /\ Interrupt(k).of = k
  BY DEF Request, Interrupt

LEMMA Before == \A k \in Chat : \A t \in 1..(k - 1) : t \in Chat /\ t # k
  BY SidecarAssumption DEF Chat

LEMMA Parts ==
  ASSUME IInv
  PROVE  /\ ChatsOK /\ SetsOK /\ WireOK /\ RestOK /\ TurnOK /\ OutOK /\ WireInv /\ LeavingInv
         /\ \A k \in Chat : StageInv(k) /\ TurnInv(k) /\ CancelInv(k)
         /\ \A k \in Chat : EndInv(k) /\ LooseInv(k) /\ ServedInv(k)
  BY DEF IInv, TypeOK, ChatInv

------------------------------------------------------------------------------
(* startChat                                                                 *)

LEMMA StartChatKeeps ==
  ASSUME IInv, NEW k \in Chat, StartChat(k)
  PROVE  IInv'
<1>1. /\ start[k] = "none" /\ Idle(k) /\ start' = [start EXCEPT ![k] = "connecting"]
      /\ loose' = loose \cup {j \in active : cancel[j] = "interrupting"}
      /\ UNCHANGED <<provider, leaving, client, active, terminal, sessionChat, turnId, aborted,
                     cancel, requests, lines, turn, items, breaks, calls, out>>
  BY DEF StartChat, wire, external
<1>2. TypeOK' /\ WireInv' /\ LeavingInv'
  BY <1>1, Parts DEF TypeOK, ChatsOK, SetsOK, WireOK, RestOK, TurnOK, OutOK,
                     WireInv, LeavingInv, Starts
<1>3. /\ k \notin active \cup terminal /\ turn[k] = "none" /\ start'[k] = "connecting"
      /\ ~Wants(k, "turn") /\ ~On(k, "refused") /\ ~Wants(k, "thread") /\ ~On(k, "thread")
      /\ \A j \in Chat : j # k => start'[j] = start[j]
  BY <1>1, Parts DEF StageInv, TurnInv, ChatsOK, Begun
<1>4. \A j \in Chat : StageInv(j)' /\ TurnInv(j)' /\ CancelInv(j)'
  BY <1>1, <1>3, Parts DEF StageInv, TurnInv, CancelInv, On, Wants
<1>5. \A j \in Chat : EndInv(j)' /\ ServedInv(j)'
  BY <1>1, Parts DEF EndInv, AfterLoose, ServedInv, On, Wants
<1>6. \A t \in 1..(k - 1) : t \in loose' \cup terminal \/ start[t] = "refused"
  <2> SUFFICES ASSUME NEW t \in 1..(k - 1), t \notin terminal, start[t] # "refused"
               PROVE  t \in loose'
    OBVIOUS
  <2>1. t \in Chat /\ cancel[t] # "none"
    BY <1>1, Before DEF Idle
  <2> QED
    BY <1>1, <2>1, Parts DEF ChatsOK, Cancels, CancelInv
<1>7. \A j \in Chat : LooseInv(j)'
  <2> SUFFICES ASSUME NEW j \in Chat
               PROVE  LooseInv(j)'
    OBVIOUS
  <2>1. \A t \in 1..(j - 1) : t \in Chat
    BY Before
  <2>2. j \in terminal' \ loose' => turn'[j] # "running" /\ ~Wants(j, "turn")'
    BY <1>1, Parts DEF LooseInv, Wants
  <2>3. start'[j] # "none" =>
          \A t \in 1..(j - 1) : t \in loose' \cup terminal' \/ start'[t] = "refused"
    BY <1>1, <1>3, <1>6, <2>1, Parts DEF LooseInv
  <2>4. \A t \in 1..(j - 1) :
          (j \in active' /\ On(t, "completed")') \/ Late(lines', t, j) => t \in loose'
    BY <1>1, Parts DEF LooseInv, On
  <2> QED
    BY <2>2, <2>3, <2>4 DEF LooseInv
<1> QED
  BY <1>2, <1>4, <1>5, <1>7 DEF IInv, ChatInv

(* Chats that wait to ask are refused, or the client is there.               *)
LEMMA ConnectsKeeps ==
  ASSUME IInv, Connects
  PROVE  IInv'
<1>1. /\ provider = "codex" /\ client = "none" /\ requests = {} /\ lines = <<>>
      /\ UNCHANGED <<provider, leaving, active, terminal, sessionChat, turnId, aborted,
                     cancel, requests, lines, turn, items, calls, out, loose>>
  BY Parts DEF Connects, wire, WireInv
<1>2. /\ client' \in {"none", "up"} /\ breaks' \in Nat /\ start' \in [Chat -> Starts]
      /\ \A k \in Chat : \/ start'[k] = start[k]
                         \/ start[k] = "connecting" /\ start'[k] = "refused"
  <2>1. start \in [Chat -> Starts] /\ breaks \in Nat /\ "refused" \in Starts
    BY Parts DEF ChatsOK, RestOK, Starts
  <2>2. CASE Opens
    BY <1>1, <2>1, <2>2 DEF Opens
  <2>3. CASE FailsToOpen
    BY <1>1, <2>1, <2>3 DEF FailsToOpen
  <2> QED
    BY <2>2, <2>3 DEF Connects
<1>3. TypeOK' /\ WireInv' /\ LeavingInv'
  BY <1>1, <1>2, Parts DEF TypeOK, ChatsOK, SetsOK, WireOK, RestOK, TurnOK,
                           OutOK,
                     WireInv, LeavingInv
<1>4. \A k \in Chat : /\ start[k] \notin {"thread", "turn"}
                      /\ start[k] \in Begun => start'[k] = start[k]
                      /\ start'[k] \in Begun \cup {"thread", "none"} => start'[k] = start[k]
  BY <1>1, <1>2, Parts DEF StageInv, Begun
<1>5. \A k \in Chat : StageInv(k)' /\ TurnInv(k)' /\ CancelInv(k)'
  BY <1>1, <1>2, <1>4, Parts DEF StageInv, TurnInv, CancelInv, On, Wants, Begun
<1>6. \A k \in Chat : EndInv(k)' /\ ServedInv(k)'
  BY <1>1, Parts DEF EndInv, AfterLoose, ServedInv, On, Wants
<1>7. \A k \in Chat : LooseInv(k)'
  <2> SUFFICES ASSUME NEW k \in Chat
               PROVE  LooseInv(k)'
    OBVIOUS
  <2>1. \A t \in 1..(k - 1) : t \in Chat
    BY Before
  <2> QED
    BY <1>1, <1>2, <1>4, <2>1, Parts DEF LooseInv, On, Wants
<1> QED
  BY <1>3, <1>5, <1>6, <1>7 DEF IInv, ChatInv

LEMMA AsksThreadKeeps ==
  ASSUME IInv, NEW k \in Chat, AsksThread(k)
  PROVE  IInv'
<1>1. /\ start[k] = "connecting" /\ client # "none"
      /\ UNCHANGED <<provider, leaving, client, active, terminal, sessionChat, turnId, aborted,
                     cancel, lines, turn, items, breaks, calls, out, loose>>
  BY DEF AsksThread, external
<1>2. /\ start' \in [Chat -> Starts] /\ requests' \subseteq Requests
      /\ \A j \in Chat : j # k => start'[j] = start[j]
      /\ \/ /\ start'[k] = "thread" /\ client = "up"
            /\ requests' = requests \cup {Request(k, "thread")}
         \/ start'[k] = "refused" /\ requests' = requests
  <2>1. /\ start \in [Chat -> Starts] /\ {"thread", "refused"} \subseteq Starts
        /\ requests \subseteq Requests /\ Request(k, "thread") \in Requests
    BY Parts DEF ChatsOK, WireOK, Starts, Requests, Request
  <2> QED
    BY <2>1 DEF AsksThread
<1>3. TypeOK' /\ WireInv' /\ LeavingInv'
  BY <1>1, <1>2, Parts, Apart DEF TypeOK, ChatsOK, SetsOK, WireOK, RestOK,
                                  TurnOK, OutOK,
                     WireInv, LeavingInv
<1>4. /\ k \notin active \cup terminal /\ turn[k] = "none"
      /\ ~Wants(k, "turn") /\ ~On(k, "refused") /\ ~Wants(k, "thread") /\ ~On(k, "thread")
  BY <1>1, Parts DEF StageInv, TurnInv, ChatsOK, Begun
<1>5. /\ \A j \in Chat : Wants(j, "turn")' <=> Wants(j, "turn")
      /\ \A j \in Chat : Wants(j, "thread")' =>
                           Wants(j, "thread") \/ (j = k /\ start'[k] = "thread")
  <2>1. CASE requests' = requests
    BY <2>1 DEF Wants
  <2>2. CASE requests' = requests \cup {Request(k, "thread")} /\ start'[k] = "thread"
    BY <2>2, Apart DEF Wants
  <2> QED
    BY <1>2, <2>1, <2>2
<1>6. \A j \in Chat : StageInv(j)' /\ TurnInv(j)' /\ CancelInv(j)'
  BY <1>1, <1>2, <1>4, <1>5, Parts DEF StageInv, TurnInv, CancelInv, On
<1>7. \A j \in Chat : EndInv(j)' /\ ServedInv(j)'
  BY <1>1, <1>5, Parts DEF EndInv, AfterLoose, ServedInv, On
<1>8. \A j \in Chat : LooseInv(j)'
  <2> SUFFICES ASSUME NEW j \in Chat
               PROVE  LooseInv(j)'
    OBVIOUS
  <2>1. \A t \in 1..(j - 1) : t \in Chat
    BY Before
  <2> QED
    BY <1>1, <1>2, <1>5, <2>1, Parts DEF LooseInv, On
<1> QED
  BY <1>3, <1>6, <1>7, <1>8 DEF IInv, ChatInv

LEMMA CancelMissedKeeps ==
  ASSUME IInv, NEW k \in Chat, CancelMissed(k)
  PROVE  IInv'
<1>1. /\ start[k] # "none" /\ cancel[k] = "none" /\ k \notin active
      /\ cancel' = [cancel EXCEPT ![k] = "missed"] /\ loose' = loose \cup ({k} \ terminal)
      /\ UNCHANGED <<provider, leaving, client, start, active, terminal, sessionChat, turnId,
                     aborted, requests, lines, turn, items, breaks, calls, out>>
  BY DEF CancelMissed, wire, external
<1>2. cancel' \in [Chat -> Cancels] /\ cancel'[k] = "missed"
      /\ \A j \in Chat : j # k => cancel'[j] = cancel[j]
  BY <1>1, Parts DEF ChatsOK, Cancels
<1>3. TypeOK' /\ WireInv'
  BY <1>1, <1>2, Parts DEF TypeOK, ChatsOK, SetsOK, WireOK, RestOK, TurnOK,
                           OutOK, WireInv
<1>4. LeavingInv'
  BY <1>1, <1>2, Parts DEF LeavingInv, ChatsOK, Leavings
<1>5. \A j \in Chat : StageInv(j)' /\ TurnInv(j)' /\ CancelInv(j)'
  BY <1>1, <1>2, Parts DEF StageInv, TurnInv, CancelInv, On, Wants
<1>6. \A j \in Chat : EndInv(j)' /\ ServedInv(j)' /\ LooseInv(j)'
  BY <1>1, <1>2, Parts DEF EndInv, AfterLoose, ServedInv, LooseInv, On, Wants
<1> QED
  BY <1>3, <1>4, <1>5, <1>6 DEF IInv, ChatInv

LEMMA QueryStartsKeeps ==
  ASSUME IInv, NEW k \in Chat, QueryStarts(k)
  PROVE  IInv'
<1>1. /\ provider = "claude" /\ start[k] = "connecting"
      /\ start' = [start EXCEPT ![k] = "returned"] /\ active' = active \cup {k}
      /\ turn' = [turn EXCEPT ![k] = "running"]
      /\ out' = [out EXCEPT ![k] = Append(out[k], "started")]
      /\ UNCHANGED <<provider, leaving, client, terminal, sessionChat, turnId, aborted, cancel,
                     requests, lines, items, breaks, calls, loose>>
  BY DEF QueryStarts, Emits, wire
<1>2. /\ requests = {} /\ lines = <<>>
      /\ k \notin active \cup terminal
      /\ \A j \in Chat : ~On(j, "completed") /\ ~On(j, "no_thread") /\ ~Wants(j, "turn")
  <2>1. requests = {} /\ lines = <<>>
    BY <1>1, Parts DEF WireInv, RestOK
  <2>2. k \notin active \cup terminal
    BY <1>1, Parts DEF StageInv, Begun
  <2> QED
    BY <2>1, <2>2, Quiet DEF On, Wants
<1>3. /\ start' \in [Chat -> Starts] /\ turn' \in [Chat -> Turns]
      /\ out' \in [Chat -> Seq(Events)]
      /\ start'[k] = "returned" /\ turn'[k] = "running"
      /\ \A j \in Chat : j # k => start'[j] = start[j] /\ turn'[j] = turn[j] /\ out'[j] = out[j]
      /\ out[k] \in Seq(Events) /\ out'[k] = Append(out[k], "started") /\ "started" \in Events
  BY <1>1, Parts, OneMore DEF ChatsOK, TurnOK, OutOK, Starts, Turns, Events
<1>4. TypeOK' /\ WireInv' /\ LeavingInv'
  BY <1>1, <1>3, Parts DEF TypeOK, ChatsOK, SetsOK, WireOK, RestOK, TurnOK,
                           OutOK,
                           WireInv, LeavingInv
<1>5. \A j \in Chat : StageInv(j)' /\ TurnInv(j)' /\ CancelInv(j)'
  BY <1>1, <1>2, <1>3, Parts, Quiet DEF StageInv, TurnInv, CancelInv, On, Wants,
                                        Begun
<1>6. \A j \in Chat : EndInv(j)'
  <2>1. EndInv(k)'
    <3>1. ~Told(out[k], End) /\ EndsOnce(out[k])
      BY <1>2, Parts DEF EndInv
    <3>2. ~Told(out[k], {"completed"})
      BY <3>1 DEF Told, End
    <3>3. /\ ~Told(out'[k], End) /\ ~Told(out'[k], {"completed"}) /\ EndsOnce(out'[k])
      BY <1>3, <3>1, <3>2, OneMore DEF End
    <3> QED
      BY <3>3 DEF EndInv
  <2> QED
    BY <1>1, <1>3, <2>1, Parts DEF EndInv, AfterLoose
<1>7. \A j \in Chat : ServedInv(j)'
  BY <1>1, <1>2, <1>3, Parts, Quiet DEF ServedInv, On, Wants
<1>8. \A j \in Chat : LooseInv(j)'
  <2> SUFFICES ASSUME NEW j \in Chat
               PROVE  LooseInv(j)'
    OBVIOUS
  <2>1. \A t \in 1..(j - 1) : t \in Chat
    BY Before
  <2> QED
    BY <1>1, <1>2, <1>3, <2>1, Parts, Quiet DEF LooseInv, On, Wants
<1> QED
  BY <1>4, <1>5, <1>6, <1>7, <1>8 DEF IInv, ChatInv

------------------------------------------------------------------------------
(* finish, and what the sidecar reads                                        *)

(* Who is finished is told one end, unless it was told one before; who is    *)
(* finished with a turn going on is loose.                                   *)
LEMMA Finishing ==
  ASSUME IInv, NEW ks,
         NEW kind, ks \subseteq Chat, kind \in End, Finish(ks, kind)
  PROVE  /\ terminal' = terminal \cup ks /\ terminal' \subseteq Chat
         /\ active' = active \ ks
         /\ loose' \subseteq Chat /\ loose \subseteq loose'
         /\ \A k \in Chat : k \in terminal' \ loose' => k \in terminal \ loose \/ ~GoesOn(k)
         /\ out' \in [Chat -> Seq(Events)]
         /\ \A k \in Chat : /\ Told(out'[k], End) => k \in terminal'
                            /\ EndsOnce(out'[k])
                            /\ Told(out'[k], {"completed"}) =>
                                 \/ Told(out[k], {"completed"})
                                 \/ kind = "completed" /\ k \in ks \ terminal
<1>1. /\ terminal' = terminal \cup ks /\ terminal' \subseteq Chat /\ active' = active \ ks
  BY Parts DEF Finish, SetsOK, StageInv
<1>2. loose' \subseteq Chat /\ loose \subseteq loose'
  BY Parts DEF Finish, SetsOK
<1>3. \A k \in Chat : k \in terminal' \ loose' => k \in terminal \ loose \/ ~GoesOn(k)
  BY DEF Finish
<1>4. /\ out \in [Chat -> Seq(Events)] /\ kind \in Events
      /\ out' = [k \in Chat |-> IF k \in ks \ terminal THEN Append(out[k], kind) ELSE out[k]]
  BY Parts DEF Finish, OutOK, Events
<1>5. ASSUME NEW k \in Chat
      PROVE  /\ out'[k] \in Seq(Events)
             /\ Told(out'[k], End) => k \in terminal'
             /\ EndsOnce(out'[k])
             /\ Told(out'[k], {"completed"}) =>
                  \/ Told(out[k], {"completed"})
                  \/ kind = "completed" /\ k \in ks \ terminal
  <2>1. (Told(out[k], End) => k \in terminal) /\ EndsOnce(out[k]) /\ out[k] \in Seq(Events)
    BY <1>4, Parts DEF EndInv
  <2>2. CASE k \in ks \ terminal
    <3>1. out'[k] = Append(out[k], kind)
      BY <1>4, <2>2
    <3>2. ~Told(out[k], End)
      BY <2>1, <2>2
    <3>3. /\ Append(out[k], kind) \in Seq(Events) /\ EndsOnce(Append(out[k], kind))
          /\ Told(Append(out[k], kind), {"completed"}) =>
               Told(out[k], {"completed"}) \/ kind \in {"completed"}
      BY <1>4, <2>1, <3>2, OneMore
    <3> QED
      BY <1>1, <2>2, <3>1, <3>3
  <2>3. CASE k \notin ks \ terminal
    BY <1>1, <1>4, <2>1, <2>3
  <2> QED
    BY <2>2, <2>3
<1>6. out' \in [Chat -> Seq(Events)]
  BY <1>4, <1>5
<1> QED
  BY <1>1, <1>2, <1>3, <1>5, <1>6

\* One event more that is no end, of a chat that is not finished or of a tool.
LEMMA EventTold ==
  ASSUME IInv, NEW k \in Chat,
         NEW e \in Events \ End, e \in ToolEvents \/ k \notin terminal
  PROVE  /\ Append(out[k], e) \in Seq(Events)
         /\ Told(Append(out[k], e), End) => k \in terminal
         /\ EndsOnce(Append(out[k], e))
         /\ Told(Append(out[k], e), {"completed"}) => Told(out[k], {"completed"})
<1>1. (Told(out[k], End) => k \in terminal) /\ EndsOnce(out[k]) /\ out[k] \in Seq(Events)
  BY Parts DEF EndInv, OutOK
<1>2. /\ Append(out[k], e) \in Seq(Events)
      /\ Told(Append(out[k], e), End) <=> Told(out[k], End) \/ e \in End
      /\ Told(Append(out[k], e), {"completed"}) <=> Told(out[k], {"completed"}) \/ e \in {"completed"}
      /\ EndsOnce(out[k]) /\ (e \in ToolEvents \/ ~Told(out[k], End)) => EndsOnce(Append(out[k], e))
  BY <1>1, OneMore
<1> QED
  BY <1>1, <1>2 DEF End

Reading ==
  /\ client = "up" /\ lines # <<>> /\ lines' = Tail(lines)
  /\ UNCHANGED <<provider, leaving, client, aborted, turn, items, breaks>>

LEMMA LineRead ==
  ASSUME IInv, Reading
  PROVE  /\ lines' \in Seq(Lines)
         /\ Head(lines).of \in Chat /\ Head(lines) = Line(Head(lines).of, Head(lines).kind)
         /\ \A k, x : On(k, x) <=> On(k, x)' \/ (k = Head(lines).of /\ x = Head(lines).kind)
         /\ \A k \in Chat : /\ Once(lines', k)
                            /\ ~(Head(lines) = Line(k, "thread") /\ On(k, "thread")')
         /\ \A t, k : \/ Late(lines', t, k)
                      \/ Head(lines) = Line(k, "thread") /\ On(t, "completed")'
                      => Late(lines, t, k)
<1>1. lines \in Seq(Lines) /\ lines # <<>> /\ lines' = Tail(lines)
  BY Parts DEF WireOK, Reading
<1>2. /\ Head(lines) \in Lines /\ lines' \in Seq(Lines)
      /\ \A k, x : On(k, x) <=> On(k, x)' \/ Head(lines) = Line(k, x)
      /\ \A k : Once(lines, k) => /\ Once(lines', k)
                                  /\ ~(Head(lines) = Line(k, "thread") /\ On(k, "thread")')
      /\ \A t, k : \/ Late(lines', t, k)
                   \/ Head(lines) = Line(k, "thread") /\ On(t, "completed")'
                   => Late(lines, t, k)
  BY <1>1, Takes DEF On
<1>3. Head(lines).of \in Chat /\ Head(lines) = Line(Head(lines).of, Head(lines).kind)
  BY <1>2 DEF Lines, Line
<1>4. \A k, x : Head(lines) = Line(k, x) <=> k = Head(lines).of /\ x = Head(lines).kind
  BY <1>3, Same
<1> QED
  BY <1>2, <1>3, <1>4, Parts DEF StageInv

(* An answer or notification that ends nothing: what is still to come of the *)
(* turns stays on the wire.                                                  *)
LEMMA ReadsOnKeeps ==
  ASSUME IInv, Reading,
         Head(lines).kind \in {"no_thread", "turn", "turn/started", "text", "tool", "interrupt"},
         UNCHANGED <<requests, sessionChat, cancel, active, terminal, loose>>,
         start' \in [Chat -> Starts], turnId' \in [Chat -> Chat \cup {0}],
         out' \in [Chat -> Seq(Events)], calls' \subseteq Nat \X Chat,
         \A k \in Chat : \/ start'[k] = start[k]
                         \/ /\ start[k] = "turn" /\ start'[k] = "returned"
                            /\ ~Wants(k, "turn") /\ ~On(k, "refused")
                         \/ /\ start[k] = "thread" /\ start'[k] = "refused"
                            /\ ~Wants(k, "thread") /\ ~On(k, "thread"),
         \A k \in Chat : /\ Told(out'[k], End) => k \in terminal
                         /\ EndsOnce(out'[k])
                         /\ Told(out'[k], {"completed"}) => Told(out[k], {"completed"})
  PROVE  IInv'
<1>1. /\ lines' \in Seq(Lines)
      /\ \A k \in Chat : Once(lines', k)
      /\ \A t, k : Late(lines', t, k) => Late(lines, t, k)
      /\ \A k : \A x \in {"thread", "refused", "completed", "interrupted"} : On(k, x) <=> On(k, x)'
      /\ \A k : \A x \in {"turn", "no_thread"} : On(k, x)' => On(k, x)
  BY LineRead
<1>2. TypeOK' /\ WireInv' /\ LeavingInv'
  BY <1>1, Parts DEF Reading, TypeOK, ChatsOK, SetsOK, WireOK, RestOK, TurnOK,
                     OutOK,
                     WireInv, LeavingInv
<1>3. \A k \in Chat : StageInv(k)' /\ TurnInv(k)' /\ CancelInv(k)'
  BY <1>1, Parts DEF Reading, StageInv, TurnInv, CancelInv, Wants, Begun
<1>4. \A k \in Chat : EndInv(k)' /\ ServedInv(k)'
  BY <1>1, Parts DEF Reading, EndInv, AfterLoose, ServedInv, Wants
<1>5. \A k \in Chat : LooseInv(k)'
  <2> SUFFICES ASSUME NEW k \in Chat
               PROVE  LooseInv(k)'
    OBVIOUS
  <2> QED
    BY <1>1, Before, Parts DEF Reading, LooseInv, Wants
<1> QED
  BY <1>2, <1>3, <1>4, <1>5 DEF IInv, ChatInv

(* The thread is ready: nothing was asked or told of the chat before, and    *)
(* what is still read of former turns is of loose chats.                     *)
LEMMA ThreadReadyKeeps ==
  ASSUME IInv,
         NEW k \in Chat, Reading, Head(lines) = Line(k, "thread"), ThreadReady(k)
  PROVE  IInv'
<1>1. /\ active' = active \cup {k} /\ sessionChat' = k
      /\ out' = [out EXCEPT ![k] = Append(out[k], "started")]
      /\ start' = [start EXCEPT ![k] = "turn"] /\ requests' = requests \cup {Request(k, "turn")}
      /\ UNCHANGED <<terminal, turnId, cancel, calls, loose>>
      /\ client = "up" /\ provider = "codex"
      /\ UNCHANGED <<provider, leaving, client, aborted, turn, items, breaks>>
  BY Parts DEF ThreadReady, Emits, Reading, WireInv
<1>2. /\ lines' \in Seq(Lines) /\ On(k, "thread")
      /\ \A j \in Chat : Once(lines', j)
      /\ \A j, x : On(j, x)' => On(j, x)
      /\ \A j, x : On(j, x) /\ x # "thread" => On(j, x)'
      /\ \A j \in Chat : On(j, "thread") /\ j # k => On(j, "thread")'
      /\ ~On(k, "thread")'
      /\ \A t, j : Late(lines', t, j) => Late(lines, t, j)
      /\ \A t : On(t, "completed")' => Late(lines, t, k)
  <2>1. Head(lines).of = k /\ Head(lines).kind = "thread"
    BY DEF Line
  <2> QED
    BY <2>1, LineRead
<1>3. /\ start[k] = "thread" /\ k \notin active \cup terminal /\ turn[k] = "none"
      /\ ~Wants(k, "turn") /\ ~On(k, "refused") /\ ~Wants(k, "thread")
  BY <1>2, Parts DEF StageInv, TurnInv, TurnOK, Begun
<1>4. /\ start' \in [Chat -> Starts] /\ start'[k] = "turn"
      /\ \A j \in Chat : j # k => start'[j] = start[j]
      /\ requests' \subseteq Requests
      /\ \A j : Wants(j, "turn")' <=> Wants(j, "turn") \/ j = k
      /\ \A j : Wants(j, "thread")' <=> Wants(j, "thread")
  <2>1. start \in [Chat -> Starts] /\ "turn" \in Starts /\ Request(k, "turn") \in Requests
    BY Parts DEF ChatsOK, Starts, Requests, Request
  <2>2. requests \subseteq Requests
    BY Parts DEF WireOK
  <2> QED
    BY <1>1, <2>1, <2>2, Apart DEF Wants
<1>5. /\ out' \in [Chat -> Seq(Events)]
      /\ \A j \in Chat : /\ Told(out'[j], End) => j \in terminal
                         /\ EndsOnce(out'[j])
                         /\ Told(out'[j], {"completed"}) => Told(out[j], {"completed"})
  <2>1. /\ out[k] \in Seq(Events) /\ "started" \in Events \ End
        /\ out \in [Chat -> Seq(Events)]
    BY Parts DEF OutOK, Events, End, ToolEvents
  <2>2. /\ Append(out[k], "started") \in Seq(Events)
        /\ Told(Append(out[k], "started"), End) => k \in terminal
        /\ EndsOnce(Append(out[k], "started"))
        /\ Told(Append(out[k], "started"), {"completed"}) => Told(out[k], {"completed"})
    BY <1>3, <2>1, EventTold
  <2> QED
    BY <1>1, <2>1, <2>2, Parts DEF EndInv
<1>6. TypeOK' /\ WireInv' /\ LeavingInv'
  BY <1>1, <1>2, <1>4, <1>5, Parts, Apart
     DEF TypeOK, ChatsOK, SetsOK, WireOK, RestOK, TurnOK, OutOK,
                     WireInv, LeavingInv
<1>7. \A j \in Chat : StageInv(j)' /\ TurnInv(j)' /\ CancelInv(j)'
  BY <1>1, <1>2, <1>3, <1>4, Parts DEF StageInv, TurnInv, CancelInv, Begun
<1>8. \A j \in Chat : EndInv(j)' /\ ServedInv(j)'
  BY <1>1, <1>2, <1>3, <1>4, <1>5, Parts DEF EndInv, AfterLoose, ServedInv
<1>9. \A j \in Chat : LooseInv(j)'
  <2> SUFFICES ASSUME NEW j \in Chat
               PROVE  LooseInv(j)'
    OBVIOUS
  <2> QED
    BY <1>1, <1>2, <1>3, <1>4, Before, Parts DEF LooseInv
<1> QED
  BY <1>6, <1>7, <1>8, <1>9 DEF IInv, ChatInv

LEMMA TurnRefusedKeeps ==
  ASSUME IInv,
         NEW k \in Chat, Reading, Head(lines) = Line(k, "refused"), TurnRefused(k)
  PROVE  IInv'
<1>1. /\ lines' \in Seq(Lines) /\ On(k, "refused")
      /\ \A j \in Chat : Once(lines', j)
      /\ \A j, x : On(j, x)' => On(j, x)
      /\ \A j, x : On(j, x) /\ (j # k \/ x # "refused") => On(j, x)'
      /\ \A t, j : Late(lines', t, j) => Late(lines, t, j)
  <2>1. Head(lines).of = k /\ Head(lines).kind = "refused"
    BY DEF Line
  <2> QED
    BY <2>1, LineRead
<1>2. /\ turn[k] = "none" /\ ~Wants(k, "turn") /\ (k \in active => start[k] = "turn")
      /\ start[k] \in Begun
  BY <1>1, Parts DEF TurnInv
<1>3. /\ start' \in [Chat -> Starts]
      /\ \A j \in Chat : \/ start'[j] = start[j]
                        \/ (j = k /\ start[k] = "turn" /\ start'[k] = "returned")
      /\ UNCHANGED <<requests, sessionChat, turnId, cancel, calls>>
      /\ client = "up" /\ UNCHANGED <<provider, leaving, client, aborted, turn, items, breaks>>
  BY Parts DEF TurnRefused, Reading, ChatsOK, Starts
<1>4. /\ terminal' \subseteq Chat /\ loose' \subseteq Chat /\ loose \subseteq loose'
      /\ terminal \subseteq terminal' /\ terminal' \subseteq terminal \cup {k}
      /\ active' = active \ terminal' /\ k \notin active'
      /\ \A j \in Chat : j \in terminal' \ loose' => j \in terminal \ loose \/ ~GoesOn(j)
      /\ out' \in [Chat -> Seq(Events)]
      /\ \A j \in Chat : /\ Told(out'[j], End) => j \in terminal'
                         /\ EndsOnce(out'[j])
                         /\ Told(out'[j], {"completed"}) => Told(out[j], {"completed"})
  <2>1. \A j \in active : j \notin terminal
    BY Parts DEF StageInv, SetsOK
  <2>2. CASE Finish({k}, "error")
    <3>1. {k} \subseteq Chat /\ "error" \in End /\ "error" # "completed"
      BY DEF End
    <3>2. /\ terminal' = terminal \cup {k} /\ terminal' \subseteq Chat
          /\ active' = active \ {k}
          /\ loose' \subseteq Chat /\ loose \subseteq loose'
          /\ \A j \in Chat : j \in terminal' \ loose' => j \in terminal \ loose \/ ~GoesOn(j)
          /\ out' \in [Chat -> Seq(Events)]
          /\ \A j \in Chat : /\ Told(out'[j], End) => j \in terminal'
                             /\ EndsOnce(out'[j])
                             /\ Told(out'[j], {"completed"}) =>
                                  \/ Told(out[j], {"completed"})
                                  \/ "error" = "completed" /\ j \in {k} \ terminal
      BY <2>2, <3>1, Finishing
    <3> QED
      BY <2>1, <3>1, <3>2
  <2>3. CASE UNCHANGED Finishes /\ start[k] # "turn"
    BY <1>2, <2>1, <2>3, Parts DEF Finishes, EndInv, OutOK, SetsOK
  <2> QED
    BY <2>2, <2>3 DEF TurnRefused
<1>5. TypeOK' /\ WireInv' /\ LeavingInv'
  BY <1>1, <1>3, <1>4, Parts DEF TypeOK, ChatsOK, SetsOK, WireOK, RestOK, TurnOK,
                                 OutOK,
                     WireInv, LeavingInv
<1>6. \A j \in Chat : StageInv(j)' /\ TurnInv(j)' /\ CancelInv(j)'
  BY <1>1, <1>2, <1>3, <1>4, Parts DEF StageInv, TurnInv, CancelInv, Wants,
                                       Begun
<1>7. \A j \in Chat : EndInv(j)'
  BY <1>3, <1>4, Parts DEF EndInv, AfterLoose
<1>8. \A j \in Chat : ServedInv(j)'
  BY <1>1, <1>3, <1>4, Parts DEF ServedInv, Wants
<1>9. \A j \in Chat : LooseInv(j)'
  <2> SUFFICES ASSUME NEW j \in Chat
               PROVE  LooseInv(j)'
    OBVIOUS
  <2> QED
    BY <1>1, <1>2, <1>3, <1>4, Before, Parts DEF LooseInv, Wants, GoesOn, Begun
<1> QED
  BY <1>5, <1>6, <1>7, <1>8, <1>9 DEF IInv, ChatInv

(* The end of a turn ends all that listen: of former turns only loose chats   *)
(* have it, and who has started before is loose when it is not finished.     *)
LEMMA TurnCompletedKeeps ==
  ASSUME IInv, NEW t \in Chat, NEW status \in {"completed", "interrupted"},
         Reading, Head(lines) = Line(t, status), TurnCompleted(t, status)
  PROVE  IInv'
<1>1. /\ lines' \in Seq(Lines) /\ On(t, status)
      /\ \A j \in Chat : Once(lines', j)
      /\ \A j, x : On(j, x)' => On(j, x)
      /\ \A i, j : Late(lines', i, j) => Late(lines, i, j)
  BY LineRead DEF Line
<1>2. /\ UNCHANGED <<requests, start, sessionChat, turnId, cancel, calls>>
      /\ client = "up" /\ UNCHANGED <<provider, leaving, client, aborted, turn, items, breaks>>
  BY DEF TurnCompleted, Reading
<1>3. PICK ks, kind : /\ ks = active /\ ks \subseteq Chat /\ kind \in End
                      /\ Finish(ks, kind)
                      /\ kind = "completed" => status = "completed"
  BY Parts DEF TurnCompleted, Listeners, End, SetsOK
<1>4. /\ terminal' = terminal \cup active /\ terminal' \subseteq Chat /\ active' = {}
      /\ loose' \subseteq Chat /\ loose \subseteq loose'
      /\ \A j \in Chat : j \in terminal' \ loose' => j \in terminal \ loose \/ ~GoesOn(j)
      /\ out' \in [Chat -> Seq(Events)]
      /\ \A j \in Chat : /\ Told(out'[j], End) => j \in terminal'
                         /\ EndsOnce(out'[j])
                         /\ Told(out'[j], {"completed"}) =>
                              \/ Told(out[j], {"completed"})
                              \/ kind = "completed" /\ j \in active \ terminal
  <2>1. /\ terminal' = terminal \cup ks /\ terminal' \subseteq Chat
        /\ active' = active \ ks
        /\ loose' \subseteq Chat /\ loose \subseteq loose'
        /\ \A j \in Chat : j \in terminal' \ loose' => j \in terminal \ loose \/ ~GoesOn(j)
        /\ out' \in [Chat -> Seq(Events)]
        /\ \A j \in Chat : /\ Told(out'[j], End) => j \in terminal'
                           /\ EndsOnce(out'[j])
                           /\ Told(out'[j], {"completed"}) =>
                                \/ Told(out[j], {"completed"})
                                \/ kind = "completed" /\ j \in ks \ terminal
    BY <1>3, Finishing
  <2> QED
    BY <1>3, <2>1
<1>5. TypeOK' /\ WireInv' /\ LeavingInv'
  BY <1>1, <1>2, <1>4, Parts DEF TypeOK, ChatsOK, SetsOK, WireOK, RestOK, TurnOK,
                                 OutOK,
                     WireInv, LeavingInv
<1>6. \A j \in Chat : StageInv(j)' /\ TurnInv(j)' /\ CancelInv(j)' /\ ServedInv(j)'
  BY <1>1, <1>2, <1>4, Parts DEF StageInv, TurnInv, CancelInv, ServedInv, Wants
<1>7. ASSUME NEW j \in Chat, status = "completed", j \in active \ terminal
      PROVE  turn[j] = "completed" \/ AfterLoose(j)
  <2>1. turn[t] = "completed" /\ start[t] \in Begun
    BY <1>1, <1>7, Parts DEF TurnInv
  <2>2. CASE j = t
    BY <2>1, <2>2
  <2>3. CASE t \in 1..(j - 1)
    <3>1. t \in loose
      BY <1>1, <1>7, <2>3, Parts DEF LooseInv
    <3>2. t \in 1..j
      BY <2>3
    <3> QED
      BY <3>1, <3>2 DEF AfterLoose
  <2>4. CASE j \in 1..(t - 1)
    <3>1. start[j] \in Begun
      BY <1>7, Parts DEF StageInv
    <3>2. j \in loose
      BY <1>7, <2>1, <2>4, <3>1, Parts DEF LooseInv, Begun
    <3>3. j \in 1..j
      BY <2>4
    <3> QED
      BY <3>2, <3>3 DEF AfterLoose
  <2> QED
    BY <2>2, <2>3, <2>4, SidecarAssumption DEF Chat
<1>8. \A j \in Chat : EndInv(j)'
  <2> SUFFICES ASSUME NEW j \in Chat
               PROVE  EndInv(j)'
    OBVIOUS
  <2>1. AfterLoose(j) => AfterLoose(j)'
    BY <1>4 DEF AfterLoose
  <2>2. Told(out'[j], {"completed"}) => turn[j] = "completed" \/ AfterLoose(j)
    BY <1>3, <1>4, <1>7, Parts DEF EndInv
  <2> QED
    BY <1>2, <1>4, <2>1, <2>2 DEF EndInv
<1>9. \A j \in Chat : LooseInv(j)'
  <2> SUFFICES ASSUME NEW j \in Chat
               PROVE  LooseInv(j)'
    OBVIOUS
  <2> QED
    BY <1>1, <1>2, <1>4, Before, Parts DEF LooseInv, Wants, GoesOn
<1> QED
  BY <1>5, <1>6, <1>8, <1>9 DEF IInv, ChatInv

------------------------------------------------------------------------------
(* cancelChat, logout and disposeSession                                     *)

\* An interrupt settled: the chat is finished, and loose if its turn goes on.
LEMMA InterruptEnds ==
  ASSUME IInv, NEW k \in Chat, InterruptAnswered(k),
         UNCHANGED <<provider, leaving, client, aborted, items, breaks>>,
         turn' \in [Chat -> Turns], \A j \in Chat : j # k => turn'[j] = turn[j],
         turn'[k] = turn[k] \/ (turn[k] = "running" /\ turn'[k] = "lost"),
         lines' \in Seq(Lines), client # "up" => lines' = <<>>,
         \A j \in Chat : Once(lines', j),
         \A t, j : Late(lines', t, j) => Late(lines, t, j),
         \A j : \A x \in {"thread", "refused", "completed", "interrupted"} : On(j, x) <=> On(j, x)',
         \A j : On(j, "turn")' => On(j, "turn"),
         \A j : On(j, "no_thread")' => On(j, "no_thread")
  PROVE  IInv'
<1>1. /\ UNCHANGED <<requests, start, sessionChat, turnId, calls>>
      /\ cancel' = [cancel EXCEPT ![k] = "done"] /\ cancel[k] = "interrupting"
  BY DEF InterruptAnswered
<1>2. cancel' \in [Chat -> Cancels] /\ cancel'[k] = "done"
      /\ \A j \in Chat : j # k => cancel'[j] = cancel[j]
  BY <1>1, Parts DEF ChatsOK, Cancels
<1>3. /\ terminal' = terminal \cup {k} /\ terminal' \subseteq Chat /\ active' = active \ {k}
      /\ loose' \subseteq Chat /\ loose \subseteq loose'
      /\ \A j \in Chat : j \in terminal' \ loose' => j \in terminal \ loose \/ ~GoesOn(j)
      /\ out' \in [Chat -> Seq(Events)]
      /\ \A j \in Chat : /\ Told(out'[j], End) => j \in terminal'
                         /\ EndsOnce(out'[j])
                         /\ Told(out'[j], {"completed"}) =>
                              \/ Told(out[j], {"completed"})
                              \/ "cancelled" = "completed" /\ j \in {k} \ terminal
  <2>1. PICK ks, kind : ks = {k} /\ kind = "cancelled"
    OBVIOUS
  <2>2. ks \subseteq Chat /\ kind \in End /\ Finish(ks, kind)
    BY <2>1 DEF InterruptAnswered, End
  <2> QED
    BY <2>1, <2>2, Finishing
<1>4. TypeOK' /\ WireInv'
  BY <1>1, <1>2, <1>3, Parts DEF TypeOK, ChatsOK, SetsOK, WireOK, RestOK, TurnOK,
                                 OutOK, WireInv
<1>5. LeavingInv'
  BY <1>2, <1>3, Parts DEF LeavingInv, ChatsOK, Leavings
<1>6. \A j \in Chat : StageInv(j)' /\ TurnInv(j)' /\ CancelInv(j)'
  <2> SUFFICES ASSUME NEW j \in Chat
               PROVE  StageInv(j)' /\ TurnInv(j)' /\ CancelInv(j)'
    OBVIOUS
  <2>1. StageInv(j)'
    <3>1. /\ On(j, "thread")' <=> On(j, "thread")
          /\ On(j, "no_thread")' => On(j, "no_thread")
          /\ Wants(j, "thread")' <=> Wants(j, "thread")
      BY <1>1 DEF Wants
    <3>2. StageInv(j) /\ (cancel[k] = "interrupting" => k \in active \cup terminal)
      BY Parts DEF CancelInv
    <3> QED
      BY <1>1, <1>3, <3>1, <3>2 DEF StageInv, Begun
  <2>2. TurnInv(j)'
    BY <1>1, <1>3, Parts DEF TurnInv, Wants, Begun
  <2>3. CancelInv(j)'
    BY <1>1, <1>2, <1>3, Parts DEF CancelInv
  <2> QED
    BY <2>1, <2>2, <2>3
<1>7. \A j \in Chat : EndInv(j)'
  BY <1>3, Parts DEF EndInv, AfterLoose
<1>8. \A j \in Chat : ServedInv(j)'
  BY <1>1, <1>2, <1>3, Parts DEF ServedInv, Wants
<1>9. \A j \in Chat : LooseInv(j)'
  <2> SUFFICES ASSUME NEW j \in Chat
               PROVE  LooseInv(j)'
    OBVIOUS
  <2> QED
    BY <1>1, <1>3, Before, Parts DEF LooseInv, Wants, GoesOn
<1> QED
  BY <1>4, <1>5, <1>6, <1>7, <1>8, <1>9 DEF IInv, ChatInv

LEMMA InterruptedKeeps ==
  ASSUME IInv, NEW k \in Chat, Interrupted(k)
  PROVE  IInv'
<1>1. /\ InterruptAnswered(k) /\ lines' = lines
      /\ UNCHANGED <<provider, leaving, client, aborted, items, breaks>>
      /\ turn' = turn \/ turn' = [turn EXCEPT ![k] = IF @ = "running" THEN "lost" ELSE @]
  BY DEF Interrupted, InterruptTimesOut, ClaudeInterrupted, external
<1>2. /\ turn' \in [Chat -> Turns] /\ \A j \in Chat : j # k => turn'[j] = turn[j]
      /\ turn'[k] = turn[k] \/ (turn[k] = "running" /\ turn'[k] = "lost")
  BY <1>1, Parts DEF TurnOK, Turns
<1>3. /\ lines' \in Seq(Lines) /\ (client # "up" => lines' = <<>>)
      /\ \A j \in Chat : Once(lines', j)
      /\ \A t, j : Late(lines', t, j) => Late(lines, t, j)
      /\ \A j, x : On(j, x) <=> On(j, x)'
  BY <1>1, Parts DEF WireOK, WireInv, StageInv, On
<1> QED
  BY <1>1, <1>2, <1>3, InterruptEnds

(* Codex: a chat whose turn is known is interrupted, and finished when that   *)
(* settles; the others, and who waits for turn/start, are finished at once.  *)
LEMMA CancelChatsKeeps ==
  ASSUME IInv, NEW ks, ks \subseteq active, CancelChats(ks),
         leaving' \in Leavings, breaks' \in Nat
  PROVE  /\ LeavingInv' => IInv'
         /\ terminal \subseteq terminal'
         /\ \A j \in Chat : \/ cancel'[j] = "interrupting" \/ j \in terminal'
                            \/ j \notin ks /\ cancel[j] # "interrupting"
<1> DEFINE known == {k \in ks : turnId[k] # 0 /\ client = "up"}
           ended == {k \in ks : k \notin known \/ start[k] = "turn"}
<1>1. /\ aborted' = aborted \cup ks
      /\ start' = [k \in Chat |-> IF k \in ks /\ start[k] = "turn" THEN "returned" ELSE start[k]]
      /\ requests' = requests \cup {Interrupt(k) : k \in known}
      /\ cancel' = [k \in Chat |-> IF k \in known THEN "interrupting"
                                   ELSE IF k \in ks THEN "done" ELSE cancel[k]]
      /\ UNCHANGED <<turn, provider, client, sessionChat, turnId, lines, items, calls>>
      /\ Finish(ended, "cancelled")
  BY DEF CancelChats
<1>2. /\ ks \subseteq Chat /\ ended \subseteq ks /\ known \subseteq ks
      /\ \A k \in ks : k \notin known => k \in ended
      /\ \A k \in ks : start[k] = "turn" => k \in ended
      /\ \A k \in known : turnId[k] \in Chat /\ client = "up"
      /\ client # "up" => known = {}
  BY Parts DEF SetsOK, ChatsOK
<1>3. PICK e : e = ended
  OBVIOUS
<1> HIDE DEF ended, known
<1>4. /\ terminal' = terminal \cup e /\ terminal' \subseteq Chat /\ active' = active \ e
      /\ loose' \subseteq Chat /\ loose \subseteq loose'
      /\ \A j \in Chat : j \in terminal' \ loose' => j \in terminal \ loose \/ ~GoesOn(j)
      /\ out' \in [Chat -> Seq(Events)]
      /\ \A j \in Chat : /\ Told(out'[j], End) => j \in terminal'
                         /\ EndsOnce(out'[j])
                         /\ Told(out'[j], {"completed"}) =>
                              \/ Told(out[j], {"completed"})
                              \/ "cancelled" = "completed" /\ j \in e \ terminal
  <2>1. e \subseteq Chat /\ "cancelled" \in End /\ Finish(e, "cancelled")
    BY <1>1, <1>2, <1>3 DEF End
  <2> QED
    BY <2>1, Finishing
<1>5. /\ start' \in [Chat -> Starts] /\ cancel' \in [Chat -> Cancels] /\ aborted' \subseteq Chat
      /\ \A k \in Chat : \/ start'[k] = start[k]
                         \/ k \in e /\ start[k] = "turn" /\ start'[k] = "returned"
      /\ \A k \in Chat : \/ k \notin ks /\ cancel'[k] = cancel[k]
                         \/ k \in ks /\ cancel'[k] = "interrupting"
                         \/ k \in ks /\ k \in e /\ cancel'[k] = "done"
  <2>1. start \in [Chat -> Starts] /\ cancel \in [Chat -> Cancels] /\ aborted \subseteq Chat
    BY Parts DEF ChatsOK, SetsOK
  <2>2. "returned" \in Starts /\ "interrupting" \in Cancels /\ "done" \in Cancels
    BY DEF Starts, Cancels
  <2>3. \A k \in Chat : \/ start'[k] = start[k]
                        \/ k \in e /\ start[k] = "turn" /\ start'[k] = "returned"
    BY <1>1, <1>2, <1>3
  <2>4. \A k \in Chat : \/ k \notin ks /\ cancel'[k] = cancel[k]
                        \/ k \in ks /\ cancel'[k] = "interrupting"
                        \/ k \in ks /\ k \in e /\ cancel'[k] = "done"
    BY <1>1, <1>2, <1>3
  <2> QED
    BY <1>1, <1>2, <2>1, <2>2, <2>3, <2>4
<1>6. /\ requests' \subseteq Requests
      /\ \A k : \A x \in {"thread", "turn"} : Wants(k, x)' <=> Wants(k, x)
      /\ \A r \in requests' : r.method = "interrupt" => r.turn \in Chat
      /\ client # "up" => requests' = requests
  <2>1. ASSUME NEW k \in known
        PROVE  Interrupt(k) \in Requests /\ Interrupt(k).turn \in Chat
    <3>1. k \in Chat /\ turnId[k] \in Chat \cup {0} /\ turnId[k] \in Chat
      BY <1>2
    <3> QED
      BY <3>1 DEF Interrupt, Requests
  <2>2. requests \subseteq Requests /\ \A r \in requests : r.method = "interrupt" => r.turn \in Chat
    BY Parts DEF WireOK, WireInv
  <2>3. \A k : \A x \in {"thread", "turn"} : Wants(k, x)' <=> Wants(k, x)
    BY <1>1, Apart DEF Wants
  <2> QED
    BY <1>1, <1>2, <2>1, <2>2, <2>3
<1>7. TypeOK' /\ WireInv'
  BY <1>1, <1>4, <1>5, <1>6, Parts DEF TypeOK, ChatsOK, SetsOK, WireOK, RestOK,
                                       TurnOK, OutOK, WireInv
<1>8. e \subseteq ks /\ \A k \in ks : k \in active \/ k \in terminal
  BY <1>2, <1>3
<1>9. \A j \in Chat : StageInv(j)' /\ TurnInv(j)' /\ CancelInv(j)'
  BY <1>1, <1>2, <1>4, <1>5, <1>6, <1>8, Parts
     DEF StageInv, TurnInv, CancelInv, On, Begun
<1>10. \A j \in Chat : EndInv(j)'
  BY <1>1, <1>4, Parts DEF EndInv, AfterLoose
<1>11. \A j \in Chat : ServedInv(j)'
  BY <1>1, <1>4, <1>5, <1>6, Parts DEF ServedInv, On
<1>12. \A j \in Chat : LooseInv(j)'
  <2> SUFFICES ASSUME NEW j \in Chat
               PROVE  LooseInv(j)'
    OBVIOUS
  <2>1. \A t \in 1..(j - 1) : t \in Chat
    BY Before
  <2>2. j \in terminal' \ loose' => turn'[j] # "running" /\ ~Wants(j, "turn")'
    BY <1>1, <1>4, <1>6, Parts DEF LooseInv, GoesOn, Wants
  <2> QED
    BY <1>1, <1>4, <1>5, <2>1, <2>2, Parts DEF LooseInv, On
<1> QED
  BY <1>4, <1>5, <1>7, <1>9, <1>10, <1>11, <1>12 DEF IInv, ChatInv

(* Claude: the queries are interrupted, and the tool call that waits ends.   *)
LEMMA InterruptQueriesKeeps ==
  ASSUME IInv, NEW ks, ks \subseteq active, InterruptQueries(ks),
         leaving' \in Leavings, breaks' \in Nat
  PROVE  /\ LeavingInv' => IInv'
         /\ terminal \subseteq terminal'
         /\ \A j \in Chat : \/ cancel'[j] = "interrupting" \/ j \in terminal'
                            \/ j \notin ks /\ cancel[j] # "interrupting"
<1>1. /\ aborted' = aborted \cup ks /\ ks \subseteq Chat
      /\ cancel' = [k \in Chat |-> IF k \in ks THEN "interrupting" ELSE cancel[k]]
      /\ calls' \subseteq calls
      /\ UNCHANGED <<provider, client, start, active, terminal, sessionChat, turnId, requests, lines,
                     turn, items, loose>>
  BY Parts DEF InterruptQueries, SetsOK, wire
<1>2. /\ cancel' \in [Chat -> Cancels]
      /\ \A k \in Chat : IF k \in ks THEN cancel'[k] = "interrupting" ELSE cancel'[k] = cancel[k]
  BY <1>1, Parts DEF ChatsOK, Cancels
<1>3. /\ out' \in [Chat -> Seq(Events)]
      /\ \A j \in Chat : /\ Told(out'[j], End) => j \in terminal
                         /\ EndsOnce(out'[j])
                         /\ Told(out'[j], {"completed"}) => Told(out[j], {"completed"})
  <2>1. PICK tr : tr = "tool_result" /\ tr \in Events \ End /\ tr \in ToolEvents
    BY DEF Events, End, ToolEvents
  <2>2. out \in [Chat -> Seq(Events)]
        /\ out' = [k \in Chat |-> IF k \in ks /\ \E c \in calls : c[2] = k
                                  THEN Append(out[k], tr) ELSE out[k]]
    BY <2>1, Parts DEF OutOK, InterruptQueries
  <2>3. ASSUME NEW j \in Chat
        PROVE  /\ out'[j] \in Seq(Events)
               /\ Told(out'[j], End) => j \in terminal
               /\ EndsOnce(out'[j])
               /\ Told(out'[j], {"completed"}) => Told(out[j], {"completed"})
    <3>1. /\ Append(out[j], tr) \in Seq(Events)
          /\ Told(Append(out[j], tr), End) => j \in terminal
          /\ EndsOnce(Append(out[j], tr))
          /\ Told(Append(out[j], tr), {"completed"}) => Told(out[j], {"completed"})
      BY <2>1, EventTold
    <3>2. out'[j] = Append(out[j], tr) \/ out'[j] = out[j]
      BY <2>2
    <3> QED
      BY <2>2, <3>1, <3>2, Parts DEF EndInv
  <2> QED
    BY <2>2, <2>3
<1>4. TypeOK' /\ WireInv'
  BY <1>1, <1>2, <1>3, Parts DEF TypeOK, ChatsOK, SetsOK, WireOK, RestOK, TurnOK,
                                 OutOK, WireInv
<1>5. \A j \in Chat : StageInv(j)' /\ TurnInv(j)' /\ CancelInv(j)'
  BY <1>1, <1>2, Parts DEF StageInv, TurnInv, CancelInv, On, Wants
<1>6. \A j \in Chat : EndInv(j)' /\ ServedInv(j)' /\ LooseInv(j)'
  BY <1>1, <1>2, <1>3, Parts DEF EndInv, AfterLoose, ServedInv, LooseInv, On,
                                 Wants
<1> QED
  BY <1>1, <1>2, <1>4, <1>5, <1>6 DEF IInv, ChatInv

LEMMA CancelKeeps ==
  ASSUME IInv, NEW k \in Chat, Cancel(k)
  PROVE  IInv'
<1>1. CASE CancelMissed(k)
  BY <1>1, CancelMissedKeeps
<1>2. CASE CancelChat(k) \/ ClaudeCancels(k)
  <2>1. PICK ks : ks = {k}
    OBVIOUS
  <2>2. /\ ks \subseteq active
        /\ CancelChats(ks) \/ InterruptQueries(ks)
        /\ leaving' = leaving /\ leaving' \in Leavings /\ breaks' \in Nat
    BY <1>2, <2>1, Parts DEF CancelChat, ClaudeCancels, ChatsOK, RestOK
  <2>3. /\ LeavingInv' => IInv'
        /\ terminal \subseteq terminal'
        /\ \A j \in Chat : \/ cancel'[j] = "interrupting" \/ j \in terminal'
                           \/ j \notin ks /\ cancel[j] # "interrupting"
    BY <2>2, CancelChatsKeeps, InterruptQueriesKeeps
  <2>4. LeavingInv'
    BY <2>2, <2>3, Parts DEF LeavingInv, ChatsOK, Leavings
  <2> QED
    BY <2>3, <2>4
<1> QED
  BY <1>1, <1>2 DEF Cancel

(* logout and disposeSession cancel the chats they find, those that are       *)
(* interrupted already excepted, and wait for all.                           *)
LEMMA LeaveKeeps ==
  ASSUME IInv, NEW what, what \in {"logout", "dispose"}, Leave(what)
  PROVE  IInv'
<1>1. PICK ks : ks = {k \in LeftBy(what) : cancel[k] # "interrupting"}
  OBVIOUS
<1>2. LeftBy(what) \subseteq active
  BY DEF LeftBy
<1>3. /\ ks \subseteq active
      /\ CancelChats(ks) \/ InterruptQueries(ks)
      /\ leaving' = [what |-> what, for |-> LeftBy(what)]
      /\ leaving' \in Leavings /\ breaks' \in Nat
  BY <1>1, <1>2, Parts DEF Leave, Leavings, SetsOK, RestOK
<1>4. /\ LeavingInv' => IInv'
      /\ terminal \subseteq terminal'
      /\ \A j \in Chat : \/ cancel'[j] = "interrupting" \/ j \in terminal'
                         \/ j \notin ks /\ cancel[j] # "interrupting"
  BY <1>3, CancelChatsKeeps, InterruptQueriesKeeps
<1>5. LeavingInv'
  BY <1>1, <1>2, <1>3, <1>4, Parts DEF LeavingInv, SetsOK
<1> QED
  BY <1>4, <1>5

LEMMA LeftKeeps ==
  ASSUME IInv, Left
  PROVE  IInv'
<1>1. /\ leaving.what \in {"logout", "dispose"} /\ leaving' \in Leavings
      /\ leaving'.for = leaving.for
      /\ \A k \in leaving.for : cancel[k] # "interrupting"
      /\ sessionChat' \in {sessionChat, 0}
      /\ UNCHANGED <<provider, client, start, active, terminal, turnId, aborted, cancel, requests,
                     lines, turn, items, breaks, calls, out, loose>>
  BY Parts DEF Left, Leavings, ChatsOK, wire, external
<1>2. TypeOK' /\ WireInv'
  BY <1>1, Parts DEF TypeOK, ChatsOK, SetsOK, WireOK, RestOK, TurnOK, OutOK,
                     WireInv
<1>3. LeavingInv'
  BY <1>1, Parts DEF LeavingInv
<1>4. \A j \in Chat : StageInv(j)' /\ TurnInv(j)' /\ CancelInv(j)'
  BY <1>1, Parts DEF StageInv, TurnInv, CancelInv, On, Wants
<1>5. \A j \in Chat : EndInv(j)' /\ ServedInv(j)' /\ LooseInv(j)'
  BY <1>1, Parts DEF EndInv, AfterLoose, ServedInv, LooseInv, On, Wants
<1> QED
  BY <1>2, <1>3, <1>4, <1>5 DEF IInv, ChatInv

------------------------------------------------------------------------------
(* Notifications, the host's answers, and the queries of Claude              *)

LEMMA ReadsKeeps ==
  ASSUME IInv, Reads
  PROVE  IInv'
<1>1. /\ Reading /\ UNCHANGED <<provider, leaving, client, aborted, turn, items, breaks>>
      /\ client = "up"
  BY DEF Reads, Reading, external
<1>2. PICK l : l = Head(lines)
  OBVIOUS
<1>3. /\ l.of \in Chat /\ l = Line(l.of, l.kind) /\ On(l.of, l.kind)
      /\ lines' \in Seq(Lines) /\ \A j \in Chat : Once(lines', j)
      /\ \A t, j : Late(lines', t, j) => Late(lines, t, j)
      /\ \A j, x : On(j, x) <=> On(j, x)' \/ (j = l.of /\ x = l.kind)
  BY <1>1, <1>2, LineRead
<1>4. CASE l.kind = "thread" /\ ThreadReady(l.of)
  BY <1>1, <1>2, <1>3, <1>4, ThreadReadyKeeps
<1>5. CASE l.kind = "refused" /\ TurnRefused(l.of)
  BY <1>1, <1>2, <1>3, <1>5, TurnRefusedKeeps
<1>6. CASE l.kind \in {"completed", "interrupted"} /\ TurnCompleted(l.of, l.kind)
  <2>1. PICK status \in {"completed", "interrupted"} : status = l.kind
    BY <1>6
  <2>2. Head(lines) = Line(l.of, status) /\ TurnCompleted(l.of, status)
    BY <1>2, <1>3, <1>6, <2>1
  <2> QED
    BY <1>1, <1>3, <2>2, TurnCompletedKeeps
<1>7. CASE l.kind = "interrupt" /\ InterruptAnswered(l.of)
  <2>1. PICK k \in Chat : k = l.of
    BY <1>3
  <2>2. /\ InterruptAnswered(k) /\ turn' \in [Chat -> Turns] /\ turn' = turn
        /\ \A j : \A x \in {"thread", "refused", "completed", "interrupted"} :
                    On(j, x) <=> On(j, x)'
        /\ \A j : On(j, "turn")' => On(j, "turn")
        /\ \A j : On(j, "no_thread")' => On(j, "no_thread")
    BY <1>1, <1>3, <1>7, <2>1, Parts DEF TurnOK
  <2> QED
    BY <1>1, <1>3, <2>2, InterruptEnds
<1> DEFINE Kept ==
      /\ UNCHANGED <<requests, sessionChat, cancel, active, terminal, loose>>
      /\ start' \in [Chat -> Starts] /\ turnId' \in [Chat -> Chat \cup {0}]
      /\ out' \in [Chat -> Seq(Events)] /\ calls' \subseteq Nat \X Chat
      /\ \A k \in Chat : \/ start'[k] = start[k]
                         \/ /\ start[k] = "turn" /\ start'[k] = "returned"
                            /\ ~Wants(k, "turn") /\ ~On(k, "refused")
                         \/ /\ start[k] = "thread" /\ start'[k] = "refused"
                            /\ ~Wants(k, "thread") /\ ~On(k, "thread")
      /\ \A k \in Chat : /\ Told(out'[k], End) => k \in terminal
                         /\ EndsOnce(out'[k])
                         /\ Told(out'[k], {"completed"}) => Told(out[k], {"completed"})
<1>8. ASSUME l.kind \in {"no_thread", "turn", "turn/started", "text", "tool", "interrupt"}, Kept
      PROVE  IInv'
  BY <1>1, <1>2, <1>8, ReadsOnKeeps
<1>9. /\ start \in [Chat -> Starts] /\ turnId \in [Chat -> Chat \cup {0}]
      /\ out \in [Chat -> Seq(Events)] /\ calls \subseteq Nat \X Chat
      /\ sessionChat \in Chat \cup {0} /\ "returned" \in Starts
      /\ \A k \in Chat : /\ Told(out[k], End) => k \in terminal
                         /\ EndsOnce(out[k])
  BY Parts DEF ChatsOK, OutOK, RestOK, EndInv, Starts
<1>10. CASE l.kind = "turn" /\ TurnAnswered(l.of)
  <2>1. ~Wants(l.of, "turn") /\ ~On(l.of, "refused")
    BY <1>3, <1>10, Parts DEF TurnInv
  <2>2. Kept
    BY <1>3, <1>9, <1>10, <2>1 DEF TurnAnswered, Finishes
  <2> QED
    BY <1>8, <1>10, <2>2
<1>11. CASE l.kind = "turn/started" /\ TurnStarted(l.of)
  <2>1. Kept
    BY <1>3, <1>9, <1>11 DEF TurnStarted, Finishes
  <2> QED
    BY <1>8, <1>11, <2>1
<1>12. CASE l.kind = "text" /\ TextArrives(l.of)
  <2>1. PICK e : e = "text" /\ e \in Events \ End
    BY DEF Events, End, ToolEvents
  <2>2. /\ UNCHANGED <<requests, start, sessionChat, turnId, cancel, terminal, active, loose, calls>>
        /\ out' = [k \in Chat |-> IF k \in active THEN Append(out[k], e) ELSE out[k]]
    BY <1>12, <2>1 DEF TextArrives, Listeners, TextOf
  <2>3. \A k \in Chat : k \in active =>
          /\ Append(out[k], e) \in Seq(Events)
          /\ Told(Append(out[k], e), End) => k \in terminal
          /\ EndsOnce(Append(out[k], e))
          /\ Told(Append(out[k], e), {"completed"}) => Told(out[k], {"completed"})
    BY <2>1, EventTold, Parts DEF StageInv
  <2>4. Kept
    BY <1>9, <2>2, <2>3
  <2> QED
    BY <1>8, <1>12, <2>4
<1>13. CASE l.kind = "tool" /\ ToolAsked
  <2>1. PICK e : e = "tool_start" /\ e \in Events \ End /\ e \in ToolEvents
    BY DEF Events, End, ToolEvents
  <2>2. CASE sessionChat = 0
    <3>1. Kept
      BY <1>9, <1>13, <2>2 DEF ToolAsked
    <3> QED
      BY <1>8, <1>13, <3>1
  <2>3. CASE sessionChat # 0
    <3>1. PICK k \in Chat : k = sessionChat
      BY <1>9, <2>3
    <3>2. /\ UNCHANGED <<requests, start, sessionChat, turnId, cancel, terminal, active, loose>>
          /\ out' = [out EXCEPT ![k] = Append(out[k], e)]
          /\ calls' = calls \cup {<<Len(out[k]), k>>} /\ Len(out[k]) \in Nat
      BY <1>9, <1>13, <2>1, <2>3, <3>1 DEF ToolAsked, Emits
    <3>3. /\ Append(out[k], e) \in Seq(Events)
          /\ Told(Append(out[k], e), End) => k \in terminal
          /\ EndsOnce(Append(out[k], e))
          /\ Told(Append(out[k], e), {"completed"}) => Told(out[k], {"completed"})
      BY <2>1, EventTold
    <3>4. Kept
      BY <1>9, <3>2, <3>3
    <3> QED
      BY <1>8, <1>13, <3>4
  <2> QED
    BY <2>2, <2>3
<1>14. CASE /\ l.kind = "interrupt"
            /\ UNCHANGED <<requests, start, sessionChat, turnId, cancel, Finishes, calls>>
  <2>1. Kept
    BY <1>9, <1>14 DEF Finishes
  <2> QED
    BY <1>8, <1>14, <2>1
<1>15. CASE l.kind = "no_thread" /\ ThreadRefused(l.of)
  <2>1. /\ start[l.of] \in {"thread", "refused"} /\ "refused" \in Starts
        /\ ~Wants(l.of, "thread") /\ ~On(l.of, "thread")
    BY <1>3, <1>15, Parts DEF StageInv, Starts
  <2>2. Kept
    BY <1>3, <1>9, <1>15, <2>1 DEF ThreadRefused, Finishes
  <2> QED
    BY <1>8, <1>15, <2>2
<1> QED
  BY <1>2, <1>4, <1>5, <1>6, <1>7, <1>10, <1>11, <1>12, <1>13, <1>14, <1>15 DEF Reads

\* An event of a tool changes no end.
LEMMA ToolKeeps ==
  ASSUME IInv, NEW k \in Chat, NEW e, e \in ToolEvents,
         out' = [out EXCEPT ![k] = Append(out[k], e)],
         calls' \subseteq Nat \X Chat, items' \in Nat,
         UNCHANGED <<provider, client, chats, wire, turn, breaks, loose>>
  PROVE  IInv'
<1> USE DEF chats, wire
<1>1. e \in Events \ End
  BY DEF ToolEvents, Events, End
<1>2. /\ out \in [Chat -> Seq(Events)]
      /\ Append(out[k], e) \in Seq(Events)
      /\ Told(Append(out[k], e), End) => k \in terminal
      /\ EndsOnce(Append(out[k], e))
      /\ Told(Append(out[k], e), {"completed"}) => Told(out[k], {"completed"})
  BY <1>1, EventTold, Parts DEF OutOK
<1>3. TypeOK' /\ WireInv' /\ LeavingInv'
  BY <1>2, Parts DEF TypeOK, ChatsOK, SetsOK, WireOK, RestOK, TurnOK, OutOK,
                     WireInv, LeavingInv
<1>4. \A j \in Chat : StageInv(j)' /\ TurnInv(j)' /\ CancelInv(j)'
  BY Parts DEF StageInv, TurnInv, CancelInv, On, Wants
<1>5. \A j \in Chat : EndInv(j)'
  BY <1>2, Parts DEF EndInv, AfterLoose
<1>6. \A j \in Chat : ServedInv(j)' /\ LooseInv(j)'
  BY Parts DEF ServedInv, LooseInv, On, Wants
<1> QED
  BY <1>3, <1>4, <1>5, <1>6 DEF IInv, ChatInv

LEMMA ToolAnsweredKeeps ==
  ASSUME IInv, NEW c \in calls, ToolAnswered(c)
  PROVE  IInv'
<1>0. PICK k \in Chat : k = c[2]
  BY Parts DEF RestOK
<1>1. PICK e : e = "tool_result" /\ e \in ToolEvents
  BY DEF ToolEvents
<1>2. /\ out' = [out EXCEPT ![k] = Append(out[k], e)] /\ calls' \subseteq Nat \X Chat
      /\ items' \in Nat /\ UNCHANGED <<provider, client, chats, wire, turn, breaks, loose>>
  BY <1>0, <1>1, Parts DEF ToolAnswered, Emits, external, RestOK
<1> QED
  BY <1>1, <1>2, ToolKeeps

LEMMA ClaudeToolKeeps ==
  ASSUME IInv, NEW k \in Chat, ClaudeTool(k)
  PROVE  IInv'
<1>1. PICK e : e = "tool_start" /\ e \in ToolEvents
  BY DEF ToolEvents
<1>2. out[k] \in Seq(Events) /\ Len(out[k]) \in Nat
  BY Parts DEF OutOK
<1>3. /\ out' = [out EXCEPT ![k] = Append(out[k], e)] /\ calls' \subseteq Nat \X Chat
      /\ items' \in Nat /\ UNCHANGED <<provider, client, chats, wire, turn, breaks, loose>>
  BY <1>1, <1>2, Parts DEF ClaudeTool, Emits, RestOK
<1> QED
  BY <1>1, <1>3, ToolKeeps

(* consume: text of a chat that is not finished, or its end.                 *)
LEMMA ConsumesKeeps ==
  ASSUME IInv, NEW k \in Chat, Consumes(k)
  PROVE  IInv'
<1>1. /\ provider = "claude" /\ turn[k] = "running" /\ k \notin terminal
      /\ UNCHANGED <<provider, leaving, client, start, sessionChat, turnId, aborted, cancel,
                     requests, lines, breaks, calls>>
  BY DEF Consumes, wire
<1>2. /\ requests = {} /\ lines = <<>> /\ start[k] \in Begun
      /\ \A j, x : ~On(j, x) /\ ~Wants(j, x)
  BY <1>1, Parts, Quiet DEF WireInv, RestOK, TurnInv, On, Wants
<1>3. CASE ClaudeText(k)
  <2>1. PICK e : e = "text" /\ e \in Events \ End
    BY DEF Events, End, ToolEvents
  <2>2. /\ items' \in Nat /\ out' = [out EXCEPT ![k] = Append(out[k], e)]
        /\ UNCHANGED <<terminal, active, loose, turn>>
    BY <1>3, <2>1, Parts DEF ClaudeText, Emits, RestOK
  <2>3. /\ out \in [Chat -> Seq(Events)]
        /\ Append(out[k], e) \in Seq(Events)
        /\ Told(Append(out[k], e), End) => k \in terminal
        /\ EndsOnce(Append(out[k], e))
        /\ Told(Append(out[k], e), {"completed"}) => Told(out[k], {"completed"})
    BY <1>1, <2>1, EventTold, Parts DEF OutOK
  <2>4. TypeOK' /\ WireInv' /\ LeavingInv'
    BY <1>1, <2>2, <2>3, Parts DEF TypeOK, ChatsOK, SetsOK, WireOK, RestOK,
                                   TurnOK, OutOK,
                                   WireInv, LeavingInv
  <2>5. \A j \in Chat : StageInv(j)' /\ TurnInv(j)' /\ CancelInv(j)'
    BY <1>1, <2>2, Parts DEF StageInv, TurnInv, CancelInv, On, Wants
  <2>6. \A j \in Chat : EndInv(j)'
    BY <2>2, <2>3, Parts DEF EndInv, AfterLoose
  <2>7. \A j \in Chat : ServedInv(j)' /\ LooseInv(j)'
    BY <1>1, <2>2, Parts DEF ServedInv, LooseInv, On, Wants
  <2> QED
    BY <2>4, <2>5, <2>6, <2>7 DEF IInv, ChatInv
<1>4. ASSUME NEW kind, kind \in End, Finish({k}, kind), NEW now, now \in {"completed", "lost"},
             turn' = [turn EXCEPT ![k] = now], kind = "completed" => now = "completed",
             UNCHANGED items
      PROVE  IInv'
  <2>1. PICK ks : ks = {k}
    OBVIOUS
  <2>2. /\ terminal' = terminal \cup ks /\ terminal' \subseteq Chat /\ active' = active \ ks
        /\ loose' \subseteq Chat /\ loose \subseteq loose'
        /\ \A j \in Chat : j \in terminal' \ loose' => j \in terminal \ loose \/ ~GoesOn(j)
        /\ out' \in [Chat -> Seq(Events)]
        /\ \A j \in Chat : /\ Told(out'[j], End) => j \in terminal'
                           /\ EndsOnce(out'[j])
                           /\ Told(out'[j], {"completed"}) =>
                                \/ Told(out[j], {"completed"})
                                \/ kind = "completed" /\ j \in ks \ terminal
    <3>1. ks \subseteq Chat /\ Finish(ks, kind)
      BY <1>4, <2>1
    <3> QED
      BY <1>4, <3>1, Finishing
  <2>3. /\ turn' \in [Chat -> Turns] /\ turn'[k] = now /\ now \notin {"none", "running"}
        /\ \A j \in Chat : j # k => turn'[j] = turn[j]
    BY <1>4, Parts DEF TurnOK, Turns
  <2>4. TypeOK' /\ WireInv' /\ LeavingInv'
    BY <1>1, <1>4, <2>2, <2>3, Parts DEF TypeOK, ChatsOK, SetsOK, WireOK, RestOK,
                                         TurnOK,
                                         OutOK, WireInv, LeavingInv
  <2>5. \A j \in Chat : StageInv(j)' /\ TurnInv(j)' /\ CancelInv(j)'
    BY <1>1, <1>2, <2>1, <2>2, <2>3, Parts
       DEF StageInv, TurnInv, CancelInv, On, Wants
  <2>6. \A j \in Chat : EndInv(j)'
    <3> SUFFICES ASSUME NEW j \in Chat
                 PROVE  EndInv(j)'
      OBVIOUS
    <3>1. AfterLoose(j) => AfterLoose(j)'
      BY <2>2 DEF AfterLoose
    <3>2. Told(out'[j], {"completed"}) => turn'[j] = "completed" \/ AfterLoose(j)
      BY <1>1, <1>4, <2>1, <2>2, <2>3, Parts DEF EndInv
    <3> QED
      BY <2>2, <3>1, <3>2 DEF EndInv
  <2>7. \A j \in Chat : ServedInv(j)'
    BY <1>1, <2>1, <2>2, <2>3, Parts DEF ServedInv, On, Wants
  <2>8. \A j \in Chat : LooseInv(j)'
    <3> SUFFICES ASSUME NEW j \in Chat
                 PROVE  LooseInv(j)'
      OBVIOUS
    <3> QED
      BY <1>1, <1>2, <2>1, <2>2, <2>3, Before, Parts DEF LooseInv, On, Wants
  <2> QED
    BY <2>4, <2>5, <2>6, <2>7, <2>8 DEF IInv, ChatInv
<1>5. ASSUME NEW kind, NEW now, Finish({k}, kind),
             turn' = [turn EXCEPT ![k] = now], UNCHANGED items,
             \/ kind = "completed" /\ now = "completed"
             \/ kind \in {"error", "cancelled"} /\ now = "lost"
      PROVE  IInv'
  BY <1>4, <1>5 DEF End
<1> QED
  BY <1>3, <1>5 DEF Consumes

------------------------------------------------------------------------------
(* The app-server: its end, its answers, and the turns that go on            *)

\* What is told when the app-server ends: the result of a tool, and an end.
LEMMA LastTold ==
  ASSUME NEW s \in Seq(Events), EndsOnce(s),
         NEW a \in {<<>>, <<"tool_result">>}, NEW b \in {<<>>, <<"error">>, <<"cancelled">>},
         b # <<>> => ~Told(s, End)
  PROVE  /\ s \o a \o b \in Seq(Events) /\ EndsOnce(s \o a \o b)
         /\ Told(s \o a \o b, End) => Told(s, End) \/ b # <<>>
         /\ Told(s \o a \o b, {"completed"}) => Told(s, {"completed"})
<1>1. /\ "tool_result" \in Events \ End /\ "tool_result" \in ToolEvents
      /\ \A e \in {"error", "cancelled"} : e \in Events /\ e \in End /\ e # "completed"
      /\ "tool_result" # "completed"
  BY DEF Events, End, ToolEvents
<1>2. \A z \in Seq(Events) : \A e \in Events : z \o <<>> = z /\ z \o <<e>> = Append(z, e)
  OBVIOUS
<1>3. PICK m : m = s \o a
  OBVIOUS
<1>4. /\ m \in Seq(Events) /\ EndsOnce(m)
      /\ Told(m, End) <=> Told(s, End)
      /\ Told(m, {"completed"}) <=> Told(s, {"completed"})
  <2>1. CASE a = <<>>
    BY <1>2, <1>3, <2>1
  <2>2. CASE a = <<"tool_result">>
    <3>1. PICK e : e = "tool_result" /\ e \in Events /\ e \notin End /\ e \in ToolEvents
                   /\ e # "completed"
      BY <1>1
    <3>2. m = Append(s, e)
      BY <1>2, <1>3, <2>2, <3>1
    <3>3. /\ Append(s, e) \in Seq(Events)
          /\ Told(Append(s, e), End) <=> Told(s, End) \/ e \in End
          /\ Told(Append(s, e), {"completed"}) <=> Told(s, {"completed"}) \/ e \in {"completed"}
          /\ EndsOnce(s) /\ (e \in ToolEvents \/ ~Told(s, End)) => EndsOnce(Append(s, e))
      BY <3>1, OneMore
    <3> QED
      BY <3>1, <3>2, <3>3
  <2> QED
    BY <2>1, <2>2
<1>5. CASE b = <<>>
  BY <1>2, <1>3, <1>4, <1>5
<1>6. CASE b # <<>>
  <2>1. PICK e : b = <<e>> /\ e \in Events /\ e \in End /\ e # "completed"
    BY <1>1, <1>6
  <2>2. /\ Append(m, e) \in Seq(Events)
        /\ Told(Append(m, e), {"completed"}) <=> Told(m, {"completed"}) \/ e \in {"completed"}
        /\ EndsOnce(m) /\ (e \in ToolEvents \/ ~Told(m, End)) => EndsOnce(Append(m, e))
    BY <1>4, <2>1, OneMore
  <2>3. s \o a \o b = Append(m, e)
    BY <1>2, <1>3, <1>4, <2>1
  <2> QED
    BY <1>4, <1>6, <2>1, <2>2, <2>3
<1> QED
  BY <1>5, <1>6

(* fail: who waits for turn/start or for an interrupt is finished, and the   *)
(* others are told nothing.                                                  *)
LEMMA DiesKeeps ==
  ASSUME IInv, Dies
  PROVE  IInv'
<1> DEFINE failed == {k \in Chat : start[k] = "turn"}
           cancelled == {k \in Chat : cancel[k] = "interrupting"}
           new == (failed \cup cancelled) \ terminal
           results(k) == IF \E c \in calls : c[2] = k THEN <<"tool_result">> ELSE <<>>
           end(k) == IF k \notin new THEN <<>>
                     ELSE IF k \in failed THEN <<"error">> ELSE <<"cancelled">>
<1>1. /\ provider = "codex" /\ client' = "dead" /\ requests' = {} /\ lines' = <<>>
      /\ breaks' \in Nat /\ calls' = {}
      /\ UNCHANGED <<provider, leaving, sessionChat, turnId, aborted, items, loose>>
      /\ terminal' = terminal \cup new /\ active' = active \ new
  BY Parts DEF Dies, RestOK
<1>2. /\ turn' = [k \in Chat |-> IF turn[k] \in {"none", "completed"} THEN turn[k] ELSE "lost"]
      /\ start' = [k \in Chat |-> IF k \in failed THEN "returned"
                                  ELSE IF start[k] = "thread" THEN "refused" ELSE start[k]]
      /\ cancel' = [k \in Chat |-> IF k \in cancelled THEN "done" ELSE cancel[k]]
      /\ out' = [k \in Chat |-> out[k] \o results(k) \o end(k)]
  BY DEF Dies
<1>3. /\ turn' \in [Chat -> Turns] /\ start' \in [Chat -> Starts] /\ cancel' \in [Chat -> Cancels]
      /\ \A k \in Chat :
           /\ turn'[k] = "none" <=> turn[k] = "none"
           /\ turn[k] = "completed" => turn'[k] = "completed"
           /\ turn'[k] # "running"
           /\ start'[k] \notin {"thread", "turn"}
           /\ start'[k] = "none" <=> start[k] = "none"
           /\ start[k] \in Begun => start'[k] \in Begun
           /\ start[k] = "refused" => start'[k] = "refused"
           /\ cancel'[k] = cancel[k] \/ (cancel[k] = "interrupting" /\ cancel'[k] = "done")
           /\ cancel'[k] # "interrupting"
  BY <1>2, Parts DEF TurnOK, Turns, ChatsOK, Starts, Cancels, Begun
<1>4. /\ new \subseteq Chat /\ \A k \in new : k \notin terminal /\ start[k] \in Begun
      /\ \A k \in Chat : cancel[k] = "interrupting" => k \in terminal'
  BY <1>1, Parts DEF Begun, CancelInv, StageInv
<1>5. ASSUME NEW k \in Chat
      PROVE  /\ out'[k] \in Seq(Events) /\ EndsOnce(out'[k])
             /\ Told(out'[k], End) => k \in terminal'
             /\ Told(out'[k], {"completed"}) => Told(out[k], {"completed"})
  <2>1. /\ out[k] \in Seq(Events) /\ EndsOnce(out[k]) /\ (Told(out[k], End) => k \in terminal)
    BY Parts DEF OutOK, EndInv
  <2>2. PICK a \in {<<>>, <<"tool_result">>} : a = results(k)
    OBVIOUS
  <2>3. PICK b \in {<<>>, <<"error">>, <<"cancelled">>} : b = end(k)
    OBVIOUS
  <2>4. b # <<>> => k \in new
    BY <2>3
  <2>5. b # <<>> => ~Told(out[k], End)
    BY <1>4, <2>1, <2>4
  <2>6. /\ out[k] \o a \o b \in Seq(Events) /\ EndsOnce(out[k] \o a \o b)
        /\ Told(out[k] \o a \o b, End) => Told(out[k], End) \/ b # <<>>
        /\ Told(out[k] \o a \o b, {"completed"}) => Told(out[k], {"completed"})
    BY <2>1, <2>5, LastTold
  <2>7. out'[k] = out[k] \o a \o b
    BY <1>2, <2>2, <2>3
  <2> QED
    BY <1>1, <2>1, <2>4, <2>6, <2>7
<1>6. out' \in [Chat -> Seq(Events)]
  BY <1>2, <1>5
<1> HIDE DEF new, failed, cancelled, results, end
<1>7. TypeOK' /\ WireInv'
  BY <1>1, <1>3, <1>4, <1>6, Parts, Quiet
     DEF TypeOK, ChatsOK, SetsOK, WireOK, RestOK, TurnOK,
                                               OutOK, WireInv
<1>8. LeavingInv'
  BY <1>1, <1>3, <1>4, Parts DEF LeavingInv, ChatsOK, Leavings
<1>9. \A k \in Chat : StageInv(k)' /\ TurnInv(k)' /\ CancelInv(k)' /\ ServedInv(k)'
  <2>1. \A k, x : ~On(k, x)' /\ ~Wants(k, x)'
    BY <1>1, Quiet DEF On, Wants
  <2>2. \A k \in Chat : StageInv(k)'
    BY <1>1, <1>3, <1>4, <2>1, Parts, Quiet DEF StageInv
  <2>3. \A k \in Chat : TurnInv(k)' /\ CancelInv(k)' /\ ServedInv(k)'
    BY <1>1, <1>3, <1>4, <2>1, Parts DEF TurnInv, CancelInv, ServedInv
  <2> QED
    BY <2>2, <2>3
<1>10. \A k \in Chat : EndInv(k)'
  BY <1>1, <1>3, <1>5, Parts DEF EndInv, AfterLoose
<1>11. \A k \in Chat : LooseInv(k)'
  <2> SUFFICES ASSUME NEW k \in Chat
               PROVE  LooseInv(k)'
    OBVIOUS
  <2> QED
    BY <1>1, <1>3, Before, Parts, Quiet DEF LooseInv, On, Wants
<1> QED
  BY <1>7, <1>8, <1>9, <1>10, <1>11 DEF IInv, ChatInv

(* Of no thread is written: who waits for one waits on.                      *)
LEMMA NoThreadWritten ==
  ASSUME IInv, requests' \subseteq requests, UNCHANGED <<client, chats>>,
         \A k \in Chat : Once(lines', k),
         \A k : On(k, "thread")' => On(k, "thread"),
         \A k : On(k, "no_thread")' => On(k, "no_thread")
  PROVE  \A k \in Chat : StageInv(k)'
<1>1. UNCHANGED <<start, active, terminal>> /\ \A k, x : Wants(k, x)' => Wants(k, x)
  BY DEF chats, Wants
<1> QED
  BY <1>1, Parts DEF StageInv

(* Requests are answered and turns go on: a turn runs when it was asked for, *)
(* and of its end is written when it ends.                                   *)
LEMMA WritesKeep ==
  ASSUME IInv, client = "up", requests' \subseteq requests, items' \in Nat,
         UNCHANGED <<provider, client, chats, breaks, calls, out, loose>>,
         lines' \in Seq(Lines), turn' \in [Chat -> Turns],
         \A k, x : On(k, x) => On(k, x)',
         \A k \in Chat : StageInv(k)',
         \A k \in Chat : \A t \in 1..(k - 1) :
           \/ Late(lines', t, k) => Late(lines, t, k)
           \/ t \in loose,
         \A k \in Chat : \A t \in 1..(k - 1) :
           k \in active /\ On(t, "completed")' => On(t, "completed") \/ t \in loose,
         \A k \in Chat :
           /\ On(k, "refused")' => On(k, "refused") \/ (Wants(k, "turn") /\ ~Wants(k, "turn")')
           /\ On(k, "turn")' => turn'[k] # "none"
           /\ On(k, "completed")' => turn'[k] = "completed"
           /\ \/ turn'[k] = turn[k] /\ (Wants(k, "turn") => Wants(k, "turn")' \/ On(k, "refused")')
              \/ /\ Wants(k, "turn") /\ ~Wants(k, "turn")' /\ turn'[k] = "running"
                 /\ ~On(k, "refused")'
              \/ turn[k] = "running" /\ turn'[k] = "interrupted" /\ On(k, "interrupted")'
              \/ turn[k] = "running" /\ turn'[k] = "completed" /\ On(k, "completed")'
  PROVE  IInv'
<1>1. UNCHANGED <<start, active, terminal, sessionChat, turnId, aborted, cancel, leaving>>
  BY DEF chats
<1>2. TypeOK' /\ WireInv' /\ LeavingInv'
  BY <1>1, Parts DEF TypeOK, ChatsOK, SetsOK, WireOK, RestOK, TurnOK, OutOK,
                     WireInv, LeavingInv
<1>3. \A k, x : Wants(k, x)' => Wants(k, x)
  BY DEF Wants
<1>4. \A k \in Chat : CancelInv(k)'
  BY <1>1, Parts DEF CancelInv
<1>5. \A k \in Chat : TurnInv(k)'
  <2> SUFFICES ASSUME NEW k \in Chat
               PROVE  TurnInv(k)'
    OBVIOUS
  <2> QED
    BY <1>1, <1>3, Parts DEF TurnInv
<1>6. \A k \in Chat : EndInv(k)'
  <2> SUFFICES ASSUME NEW k \in Chat
               PROVE  EndInv(k)'
    OBVIOUS
  <2>1. turn[k] = "completed" => turn'[k] = "completed"
    BY Parts DEF TurnInv
  <2> QED
    BY <1>1, <2>1, Parts DEF EndInv, AfterLoose
<1>7. \A k \in Chat : ServedInv(k)'
  <2> SUFFICES ASSUME NEW k \in Chat
               PROVE  ServedInv(k)'
    OBVIOUS
  <2> QED
    BY <1>1, Parts DEF ServedInv
<1>8. \A k \in Chat : LooseInv(k)'
  <2> SUFFICES ASSUME NEW k \in Chat
               PROVE  LooseInv(k)'
    OBVIOUS
  <2> QED
    BY <1>1, <1>3, Parts DEF LooseInv
<1> QED
  BY <1>2, <1>4, <1>5, <1>6, <1>7, <1>8 DEF IInv, ChatInv

LEMMA ServesKeeps ==
  ASSUME IInv, Serves
  PROVE  IInv'
<1>1. /\ client = "up" /\ items' \in Nat
      /\ UNCHANGED <<provider, client, chats, breaks, calls, out, loose>>
  BY Parts DEF Serves, RestOK
<1>2. /\ lines \in Seq(Lines) /\ requests \subseteq Requests /\ turn \in [Chat -> Turns]
      /\ \A k \in Chat : Once(lines, k)
      /\ \A k \in Chat : \A x \in Kinds : Line(k, x) \in Lines
  BY Parts DEF WireOK, TurnOK, StageInv, Lines, Line
<1>3. ASSUME NEW k \in Chat, ServesThread(k)
      PROVE  IInv'
  <2>1. PICK x \in {"thread", "no_thread"}, l \in Lines :
              l = Line(k, x) /\ Answers(Request(k, "thread"), <<l>>)
    BY <1>2, <1>3 DEF ServesThread, Kinds
  <2>2. /\ Request(k, "thread") \in requests /\ requests' = requests \ {Request(k, "thread")}
        /\ lines' = Append(lines, l) /\ turn' = turn
    BY <1>2, <1>3, <2>1 DEF ServesThread, Answers
  <2>3. /\ lines' \in Seq(Lines)
        /\ \A j, y : On(j, y)' <=> On(j, y) \/ (j = k /\ y = x)
        /\ \A j \in Chat : Once(lines, j) /\ ~(j = k /\ On(k, "thread")) => Once(lines', j)
        /\ \A t, j : Late(lines', t, j) => Late(lines, t, j)
    BY <1>2, <2>1, <2>2, Writes, Same DEF On
  <2>4. /\ ~On(k, "thread") /\ ~On(k, "no_thread") /\ Wants(k, "thread")
        /\ ~Wants(k, "thread")' /\ \A j : Wants(j, "turn")' <=> Wants(j, "turn")
    BY <2>2, Parts, Apart DEF StageInv, Wants
  <2>5. \A j \in Chat : (On(j, "turn") => turn[j] # "none")
                         /\ (On(j, "completed") => turn[j] = "completed")
    BY Parts DEF TurnInv
  <2>6. \A j \in Chat : StageInv(j)'
    <3> SUFFICES ASSUME NEW j \in Chat
                 PROVE  StageInv(j)'
      OBVIOUS
    <3>1. \A y : Wants(j, y)' => Wants(j, y)
      BY <2>2 DEF Wants
    <3>2. Once(lines', j) /\ start[k] = "thread"
      BY <1>2, <2>3, <2>4, Parts DEF StageInv
    <3> QED
      BY <1>1, <2>1, <2>3, <2>4, <3>1, <3>2, Parts DEF StageInv, chats
  <2> QED
    BY <1>1, <1>2, <2>2, <2>3, <2>4, <2>5, <2>6, WritesKeep
<1>4. ASSUME NEW k \in Chat, ServesTurn(k)
      PROVE  IInv'
  <2>1. /\ Request(k, "turn") \in requests /\ requests' = requests \ {Request(k, "turn")}
    BY <1>4 DEF ServesTurn, Answers
  <2>2. /\ Wants(k, "turn") /\ ~Wants(k, "turn")' /\ \A j : Wants(j, "thread")' <=> Wants(j, "thread")
        /\ \A j : j # k => (Wants(j, "turn")' <=> Wants(j, "turn"))
    BY <2>1, Apart DEF Wants
  <2>3. /\ turn[k] = "none" /\ ~On(k, "turn") /\ ~On(k, "completed") /\ ~On(k, "refused")
        /\ \A j \in Chat : (On(j, "turn") => turn[j] # "none")
                            /\ (On(j, "completed") => turn[j] = "completed")
    BY <2>2, Parts DEF TurnInv
  <2>4. CASE lines' = lines \o <<Line(k, "refused")>> /\ turn' = turn
    <3>1. PICK l \in Lines : l = Line(k, "refused")
      BY <1>2 DEF Kinds
    <3>2. lines' = Append(lines, l)
      BY <1>2, <2>4, <3>1
    <3>3. /\ lines' \in Seq(Lines)
          /\ \A j, x : On(j, x)' <=> On(j, x) \/ (j = k /\ x = "refused")
          /\ \A j \in Chat : Once(lines, j) => Once(lines', j)
          /\ \A t, j : Late(lines', t, j) => Late(lines, t, j)
      BY <1>2, <3>1, <3>2, Writes, Same DEF On
    <3>4. \A j \in Chat : StageInv(j)'
      BY <1>1, <1>2, <2>1, <3>3, NoThreadWritten
    <3> QED
      BY <1>1, <1>2, <2>1, <2>2, <2>3, <2>4, <3>3, <3>4, WritesKeep
  <2>5. ASSUME NEW a, NEW b, a \in {"turn", "turn/started"}, b \in {"turn", "turn/started"},
               lines' = lines \o <<Line(k, a), Line(k, b)>>,
               turn' = [turn EXCEPT ![k] = "running"]
        PROVE  IInv'
    <3>1. PICK l \in Lines, m \in Lines : l = Line(k, a) /\ m = Line(k, b)
      BY <1>2, <2>5 DEF Kinds
    <3>2. PICK s : s = Append(lines, l)
      OBVIOUS
    <3>3. lines' = Append(s, m) /\ s \in Seq(Lines)
      BY <1>2, <2>5, <3>1, <3>2
    <3>4. /\ \A j, x : Has(s, j, x) <=> On(j, x) \/ (j = k /\ x = a)
          /\ \A j \in Chat : Once(lines, j) => Once(s, j)
          /\ \A t, j : Late(s, t, j) => Late(lines, t, j)
      BY <1>2, <2>5, <3>1, <3>2, Writes, Same DEF On
    <3>5. /\ lines' \in Seq(Lines)
          /\ \A j, x : On(j, x)' <=> Has(s, j, x) \/ (j = k /\ x = b)
          /\ \A j \in Chat : Once(s, j) => Once(lines', j)
          /\ \A t, j : Late(lines', t, j) => Late(s, t, j)
      <4>1. /\ \A j : m # Line(j, "thread") /\ m # Line(j, "completed")
            /\ \A j, x : m = Line(j, x) <=> j = k /\ x = b
        BY <2>5, <3>1, Same
      <4> QED
        BY <3>3, <4>1, Writes DEF On
    <3>6. /\ turn' \in [Chat -> Turns] /\ turn'[k] = "running"
          /\ \A j \in Chat : j # k => turn'[j] = turn[j]
      BY <1>2, <2>5 DEF Turns
    <3>7. /\ \A j, x : On(j, x) => On(j, x)'
          /\ \A j, x : x \notin {"turn", "turn/started"} => (On(j, x)' <=> On(j, x))
          /\ \A j : j # k => (On(j, "turn")' <=> On(j, "turn"))
          /\ \A j \in Chat : Once(lines', j)
          /\ \A t, j : Late(lines', t, j) => Late(lines, t, j)
      BY <1>2, <2>5, <3>4, <3>5
    <3>8. \A j \in Chat : StageInv(j)'
      BY <1>1, <2>1, <3>7, NoThreadWritten
    <3> QED
      BY <1>1, <1>2, <2>1, <2>2, <2>3, <3>5, <3>6, <3>7, <3>8, WritesKeep
  <2> QED
    BY <1>4, <2>4, <2>5 DEF ServesTurn, Answers
<1>5. ASSUME NEW r \in requests, r.method = "interrupt", ServesInterrupt(r)
      PROVE  IInv'
  <2>1. r.of \in Chat /\ r.turn \in Chat
    BY <1>2, <1>5, Parts DEF Requests, WireInv
  <2>2. requests' = requests \ {r} /\ \A j, x : x # "interrupt" => (Wants(j, x)' <=> Wants(j, x))
    BY <1>5 DEF ServesInterrupt, Answers, Wants, Request
  <2>3. \A j \in Chat : (On(j, "turn") => turn[j] # "none")
                         /\ (On(j, "completed") => turn[j] = "completed")
    BY Parts DEF TurnInv
  <2>4. CASE lines' = lines \o <<Line(r.of, "interrupt")>> /\ turn' = turn
    <3>1. PICK l \in Lines : l = Line(r.of, "interrupt")
      BY <1>2, <2>1 DEF Kinds
    <3>2. lines' = Append(lines, l)
      BY <1>2, <2>4, <3>1
    <3>3. /\ lines' \in Seq(Lines)
          /\ \A j, x : On(j, x)' <=> On(j, x) \/ (j = r.of /\ x = "interrupt")
          /\ \A j \in Chat : Once(lines, j) => Once(lines', j)
          /\ \A t, j : Late(lines', t, j) => Late(lines, t, j)
      BY <1>2, <3>1, <3>2, Writes, Same DEF On
    <3>4. \A j \in Chat : StageInv(j)'
      BY <1>1, <1>2, <2>2, <3>3, NoThreadWritten
    <3> QED
      BY <1>1, <1>2, <2>2, <2>3, <2>4, <3>3, <3>4, WritesKeep
  <2>5. ASSUME NEW l \in Lines, NEW m \in Lines, lines' = lines \o <<l, m>>,
               turn[r.turn] = "running", turn' = [turn EXCEPT ![r.turn] = "interrupted"],
               \/ l = Line(r.of, "interrupt") /\ m = Line(r.turn, "interrupted")
               \/ m = Line(r.of, "interrupt") /\ l = Line(r.turn, "interrupted")
        PROVE  IInv'
    <3>1. PICK s : s = Append(lines, l)
      OBVIOUS
    <3>2. lines' = Append(s, m) /\ s \in Seq(Lines)
      BY <1>2, <2>5, <3>1
    <3>3. /\ \A j : l # Line(j, "thread") /\ m # Line(j, "thread")
          /\ \A j : l # Line(j, "completed") /\ m # Line(j, "completed")
          /\ \A j : l # Line(j, "turn") /\ m # Line(j, "turn")
          /\ \A j : l # Line(j, "refused") /\ m # Line(j, "refused")
      BY <2>5, Same
    <3>4. /\ \A j, x : Has(s, j, x) <=> On(j, x) \/ l = Line(j, x)
          /\ \A j \in Chat : Once(lines, j) => Once(s, j)
          /\ \A t, j : Late(s, t, j) => Late(lines, t, j)
      BY <1>2, <3>1, <3>3, Writes DEF On
    <3>5. /\ lines' \in Seq(Lines)
          /\ \A j, x : On(j, x)' <=> Has(s, j, x) \/ m = Line(j, x)
          /\ \A j \in Chat : Once(s, j) => Once(lines', j)
          /\ \A t, j : Late(lines', t, j) => Late(s, t, j)
      BY <3>2, <3>3, Writes DEF On
    <3>6. /\ turn' \in [Chat -> Turns] /\ turn'[r.turn] = "interrupted"
          /\ \A j \in Chat : j # r.turn => turn'[j] = turn[j]
      BY <1>2, <2>1, <2>5 DEF Turns
    <3>7. /\ \A j, x : On(j, x) => On(j, x)'
          /\ \A j : \A x \in {"thread", "completed", "turn", "refused"} : On(j, x)' <=> On(j, x)
          /\ On(r.turn, "interrupted")'
          /\ \A j \in Chat : Once(lines', j)
          /\ \A t, j : Late(lines', t, j) => Late(lines, t, j)
      BY <1>2, <2>5, <3>3, <3>4, <3>5
    <3>8. \A j \in Chat :
            /\ On(j, "turn")' => turn'[j] # "none"
            /\ On(j, "completed")' => turn'[j] = "completed"
      BY <2>3, <2>5, <3>6, <3>7
    <3>9. \A j \in Chat : StageInv(j)'
      <4>1. \A j : l # Line(j, "no_thread") /\ m # Line(j, "no_thread")
        BY <2>5, Same
      <4>2. \A j : On(j, "no_thread")' => On(j, "no_thread")
        BY <3>4, <3>5, <4>1
      <4> QED
        BY <1>1, <2>2, <3>7, <4>2, NoThreadWritten
    <3> QED
      BY <1>1, <1>2, <2>2, <2>5, <3>5, <3>6, <3>7, <3>8, <3>9, WritesKeep
  <2>6. Line(r.of, "interrupt") \in Lines /\ Line(r.turn, "interrupted") \in Lines
    BY <1>2, <2>1 DEF Kinds
  <2> QED
    BY <1>5, <2>4, <2>5, <2>6 DEF ServesInterrupt, Answers
<1> QED
  BY <1>3, <1>4, <1>5 DEF Serves

(* A turn goes on, or completes: a chat that listens, or whose thread is     *)
(* ready, while a former turn was running, came after one given up.          *)
LEMMA TurnGoesOnKeeps ==
  ASSUME IInv, NEW t \in Chat, TurnGoesOn(t)
  PROVE  IInv'
<1>1. /\ client = "up" /\ turn[t] = "running" /\ items' \in Nat /\ requests' = requests
      /\ UNCHANGED <<provider, client, chats, breaks, calls, out, loose>>
  BY Parts DEF TurnGoesOn, RestOK
<1>2. /\ lines \in Seq(Lines) /\ turn \in [Chat -> Turns]
      /\ \A k \in Chat : Once(lines, k)
      /\ \A x \in Kinds : Line(t, x) \in Lines
  BY Parts DEF WireOK, TurnOK, StageInv, Lines, Line
<1>3. PICK x, l : /\ l \in Lines /\ l = Line(t, x) /\ lines' = Append(lines, l)
                   /\ \/ x \in {"text", "tool"} /\ turn' = turn
                      \/ x = "completed" /\ turn' = [turn EXCEPT ![t] = "completed"]
  BY <1>2 DEF TurnGoesOn, Kinds
<1>4. /\ lines' \in Seq(Lines)
      /\ \A j, y : On(j, y)' <=> On(j, y) \/ (j = t /\ y = x)
      /\ \A j \in Chat : Once(lines, j) => Once(lines', j)
      /\ \A u, j : Late(lines', u, j) => Late(lines, u, j)
                     \/ (u = t /\ x = "completed" /\ On(j, "thread"))
  BY <1>2, <1>3, Writes, Same DEF On
<1>5. ASSUME NEW k \in Chat, t \in 1..(k - 1), k \in active \/ On(k, "thread")
      PROVE  t \in loose
  <2>1. start[k] # "none"
    BY <1>5, Parts DEF StageInv, Begun
  <2>2. start[t] \in Begun
    BY <1>1, Parts DEF TurnInv
  <2>3. t \in loose \cup terminal
    BY <1>5, <2>1, <2>2, Parts DEF LooseInv, Begun
  <2> QED
    BY <1>1, <2>3, Parts DEF LooseInv
<1>6. /\ turn' \in [Chat -> Turns] /\ \A j \in Chat : j # t => turn'[j] = turn[j]
      /\ turn'[t] = turn[t] \/ (turn'[t] = "completed" /\ On(t, "completed")')
      /\ x = "completed" => turn'[t] = "completed"
  BY <1>2, <1>3, <1>4 DEF Turns
<1>7. \A j \in Chat :
        /\ On(j, "turn")' => turn'[j] # "none"
        /\ On(j, "completed")' => turn'[j] = "completed"
  <2>1. \A j \in Chat : (On(j, "turn") => turn[j] # "none")
                         /\ (On(j, "completed") => turn[j] = "completed")
    BY Parts DEF TurnInv
  <2> QED
    BY <1>1, <1>3, <1>4, <1>6, <2>1
<1>8. \A j \in Chat : \A u \in 1..(j - 1) :
        /\ (Late(lines', u, j) => Late(lines, u, j)) \/ u \in loose
        /\ j \in active /\ On(u, "completed")' => On(u, "completed") \/ u \in loose
  BY <1>4, <1>5
<1>9. /\ \A j : Wants(j, "turn")' <=> Wants(j, "turn")
      /\ \A j \in Chat : /\ On(j, "thread")' => On(j, "thread")
                         /\ On(j, "no_thread")' => On(j, "no_thread")
                         /\ On(j, "refused")' => On(j, "refused")
                         /\ Once(lines', j)
      /\ \A j, y : On(j, y) => On(j, y)'
  BY <1>1, <1>2, <1>3, <1>4 DEF Wants
<1>10. \A j \in Chat : StageInv(j)'
  <2>1. \A j : \A y \in {"thread", "no_thread"} : On(j, y)' => On(j, y)
    BY <1>3, <1>4
  <2>2. requests' \subseteq requests
    BY <1>1
  <2> QED
    BY <1>1, <1>9, <2>1, <2>2, NoThreadWritten
<1> QED
  BY <1>1, <1>4, <1>6, <1>7, <1>8, <1>9, <1>10, WritesKeep

------------------------------------------------------------------------------
(* The invariant                                                             *)

LEMMA Initially == Init => IInv
<1> SUFFICES ASSUME Init PROVE IInv
  OBVIOUS
<1>1. /\ requests = {} /\ lines = <<>> /\ active = {} /\ terminal = {} /\ loose = {}
      /\ \A k \in Chat : /\ start[k] = "none" /\ turn[k] = "none" /\ cancel[k] = "none"
                         /\ out[k] = <<>>
      /\ client = "none" /\ leaving.for = {}
  BY DEF Init
<1>2. TypeOK
  BY Quiet DEF Init, TypeOK, ChatsOK, SetsOK, WireOK, RestOK, TurnOK, OutOK,
               Starts, Cancels,
               Turns, Leavings
<1>3. WireInv /\ LeavingInv
  BY <1>1 DEF WireInv, LeavingInv
<1>4. \A k \in Chat : StageInv(k) /\ TurnInv(k) /\ CancelInv(k) /\ ServedInv(k) /\ LooseInv(k)
  BY <1>1, Quiet DEF StageInv, TurnInv, CancelInv, ServedInv, LooseInv, On,
                     Wants
<1>5. \A k \in Chat : EndInv(k)
  BY <1>1 DEF EndInv, Told, EndsOnce
<1> QED
  BY <1>2, <1>3, <1>4, <1>5 DEF IInv, ChatInv

LEMMA Stutters ==
  ASSUME IInv, UNCHANGED vars
  PROVE  IInv'
<1>1. UNCHANGED <<provider, client, start, active, terminal, sessionChat, turnId, aborted, cancel,
                  leaving, requests, lines, turn, items, breaks, calls, out, loose>>
  BY DEF vars, chats, wire, external
<1>2. TypeOK' /\ WireInv' /\ LeavingInv'
  BY <1>1, Parts DEF TypeOK, ChatsOK, SetsOK, WireOK, RestOK, TurnOK, OutOK,
                     WireInv, LeavingInv
<1>3. \A k \in Chat : StageInv(k)' /\ TurnInv(k)' /\ CancelInv(k)'
  BY <1>1, Parts DEF StageInv, TurnInv, CancelInv, On, Wants
<1>4. \A k \in Chat : EndInv(k)' /\ LooseInv(k)' /\ ServedInv(k)'
  BY <1>1, Parts DEF EndInv, LooseInv, ServedInv, AfterLoose, On, Wants
<1> QED
  BY <1>2, <1>3, <1>4 DEF IInv, ChatInv

LEMMA Keeps == IInv /\ [Next]_vars => IInv'
<1> SUFFICES ASSUME IInv, [Next]_vars PROVE IInv'
  OBVIOUS
<1>1. CASE UNCHANGED vars
  BY <1>1, Stutters
<1>2. ASSUME NEW k \in Chat, Step(k) \/ Cancel(k) \/ Interrupted(k)
      PROVE  IInv'
  BY <1>2, StartChatKeeps, AsksThreadKeeps, QueryStartsKeeps, CancelKeeps, InterruptedKeeps
     DEF Step
<1>3. ASSUME NEW k \in Chat, Consumes(k) \/ ClaudeTool(k) \/ TurnGoesOn(k)
      PROVE  IInv'
  BY <1>3, ConsumesKeeps, ClaudeToolKeeps, TurnGoesOnKeeps
<1>4. CASE Connects \/ Reads \/ Dies \/ Serves
  BY <1>4, ConnectsKeeps, ReadsKeeps, DiesKeeps, ServesKeeps
<1>5. CASE Leave("logout") \/ Leave("dispose") \/ Left
  <2>1. PICK a, b : a = "logout" /\ b = "dispose"
    OBVIOUS
  <2> QED
    BY <1>5, <2>1, LeaveKeeps, LeftKeeps
<1>6. ASSUME NEW c \in calls, ToolAnswered(c)
      PROVE  IInv'
  BY <1>6, ToolAnsweredKeeps
<1> QED
  BY <1>1, <1>2, <1>3, <1>4, <1>5, <1>6 DEF Next

(* Every state the sidecar reaches satisfies the invariant.                  *)
THEOREM Inductive == Spec => []IInv
<1>1. Init => IInv
  BY Initially
<1>2. IInv /\ [Next]_vars => IInv'
  BY Keeps
<1> QED
  BY <1>1, <1>2, PTL DEF Spec

(* The state of the sidecar and of what it reads keeps its types.            *)
THEOREM TypeCorrect == Spec => []TypeOK
<1>1. IInv => TypeOK
  BY DEF IInv
<1> QED
  BY <1>1, Inductive, PTL

(* For any number of turns: what a chat is told of its end is said once and  *)
(* last, it is its own end unless a turn was given up before, and a logout   *)
(* or a forgotten session has waited for it.  (finish, handleNotification,   *)
(* cancelAll and disposeSession of both providers)                           *)
THEOREM EndsTrue == Spec => []EndsAreTrue
<1>1. ASSUME IInv PROVE EndsAreTrue
  <2>1. OneEnd
    BY <1>1, Parts DEF EndInv, EndsOnce, OneEnd, ToolEvents
  <2>2. CompletedIsOwn
    BY <1>1, Parts DEF EndInv, Told, AfterLoose, CompletedIsOwn
  <2>3. LeftHaveEnded
    BY <1>1, Parts DEF LeavingInv, LeftHaveEnded
  <2> QED
    BY <2>1, <2>2, <2>3 DEF EndsAreTrue
<1> QED
  BY <1>1, Inductive, PTL

(* In whatever order answers and notifications come, a chat that is active   *)
(* when nothing is on its way has a turn that goes on, or is being cancelled.*)
(* (startChat, handleNotification, cancelChat)                               *)
THEOREM ActiveServed == Spec => []ActiveIsServed
<1>1. ASSUME IInv PROVE ActiveIsServed
  <2> SUFFICES ASSUME client # "dead", requests = {}, lines = <<>>, NEW k \in active
               PROVE  turn[k] \in {"running"} \/ cancel[k] = "interrupting"
    BY DEF ActiveIsServed
  <2>1. ServedInv(k) /\ k \in active
    BY <1>1, Parts DEF SetsOK
  <2>2. \A x : ~On(k, x) /\ ~Wants(k, x)
    BY Quiet DEF On, Wants
  <2> QED
    BY <2>1, <2>2 DEF ServedInv
<1> QED
  BY <1>1, Inductive, PTL

------------------------------------------------------------------------------
(* The tool calls                                                            *)

Handler == {"none", "claiming", "asking", "done", "refused"}

Types ==
  /\ key \in [Call -> Keys]
  /\ hooked \subseteq Call
  /\ ids \in [Keys -> Seq(Call)]
  /\ waiters \in [Keys -> Seq(Call)]
  /\ handler \in [Call -> Handler]
  /\ idOf \in [Call -> Call \cup {0}]

(* The ids that are kept are of calls with that input, each kept once and    *)
(* claimed by nobody.                                                        *)
Kept ==
  \A k \in Keys : \A i \in DOMAIN ids[k] :
    /\ key[ids[k][i]] = k
    /\ ids[k][i] \in hooked
    /\ \A c \in Call : idOf[c] # ids[k][i]
    /\ \A j \in DOMAIN ids[k] : ids[k][i] = ids[k][j] => i = j

(* Who waits, or waited, is a handler with that input that has begun.        *)
Waiting ==
  \A k \in Keys : \A i \in DOMAIN waiters[k] : key[waiters[k][i]] = k

(* For an input there are ids or waiters, never both.                        *)
OneSide == \A k \in Keys : ids[k] = <<>> \/ waiters[k] = <<>>

(* A handler that claims is among the waiters.                               *)
ClaimsInLine ==
  \A c \in Call : handler[c] = "claiming" =>
    \E i \in DOMAIN waiters[key[c]] : waiters[key[c]][i] = c

(* A claimed id was announced, for that input, and belongs to one handler,   *)
(* which will claim no other.                                                *)
Claimed ==
  \A c \in Call : idOf[c] # 0 =>
    /\ idOf[c] \in hooked
    /\ key[idOf[c]] = key[c]
    /\ handler[c] \notin {"none", "claiming"}
    /\ \A d \in Call : c # d => idOf[d] # idOf[c]

MeetInv == /\ Types /\ Kept /\ Waiting
           /\ OneSide /\ ClaimsInLine /\ Claimed

(* A handler that asks has claimed an id, and asks once.  Requests, and       *)
(* answers on their way, carry the id their handler claimed.                 *)
Ask == [request : Call, handler : Call]
OwnInv ==
  /\ pending \in Seq(Ask)
  /\ \A i \in DOMAIN pending :
       /\ pending[i].handler = pending[i].request
       /\ idOf[pending[i].handler] # 0
       /\ \A j \in DOMAIN pending : pending[i].handler = pending[j].handler => i = j
  /\ \A s \in sent : s.request \in Call /\ s.id # 0 /\ s.id = idOf[s.request]
  /\ \A r \in replies : r.request \in Call /\ r.of # 0 /\ r.of = idOf[r.request]

(* An answer that a handler gets is the answer to the id it claimed.         *)
AnswersAreTheirOwn ==
  \A reply \in replies : \A i \in Asked(reply) : reply.of = idOf[pending[i].handler]

(* The chat was told of claimed ids only.  What a request will tell has been  *)
(* announced, and nothing was told of it yet.                                *)
Event == [kind : {"tool_start", "tool_result"}, id : Call, of : Call \cup {0}]
ResultOf(id) == \E j \in DOMAIN told : told[j].kind = "tool_result" /\ told[j].id = id
StartOf(id) == \E j \in DOMAIN told : told[j] = Started(id)
Open(i) == LET id == idOf[pending[i].handler] IN StartOf(id) /\ ~ResultOf(id)
ToldInv ==
  /\ told \in Seq(Event)
  /\ \A i \in DOMAIN told : \E c \in Call : idOf[c] = told[i].id
  /\ closed => pending = <<>>
  /\ \A i \in DOMAIN pending : Open(i)
  /\ ResultsAreTheirOwn

------------------------------------------------------------------------------
(* A sequence is the empty one or has a head among its elements, and its     *)
(* tail holds the rest.                                                      *)
LEMMA HeadAndTail ==
  ASSUME NEW S, NEW s \in Seq(S), s # <<>>
  PROVE  /\ 1 \in DOMAIN s /\ Head(s) = s[1] /\ Head(s) \in S
         /\ Tail(s) \in Seq(S)
         /\ \A i \in DOMAIN Tail(s) : i + 1 \in DOMAIN s /\ Tail(s)[i] = s[i + 1]
         /\ \A i \in DOMAIN s : i # 1 => i - 1 \in DOMAIN Tail(s) /\ Tail(s)[i - 1] = s[i]
  OBVIOUS

LEMMA Appended ==
  ASSUME NEW S, NEW s \in Seq(S), NEW e \in S
  PROVE  /\ Append(s, e) \in Seq(S)
         /\ Append(s, e) # <<>>
         /\ Len(s) + 1 \in DOMAIN Append(s, e) /\ Append(s, e)[Len(s) + 1] = e
         /\ \A i \in DOMAIN s : i \in DOMAIN Append(s, e) /\ Append(s, e)[i] = s[i]
         /\ \A i \in DOMAIN Append(s, e) : i = Len(s) + 1 \/ i \in DOMAIN s
  OBVIOUS

\* Appended, for a sequence.
LEMMA Joined ==
  ASSUME NEW S, NEW s \in Seq(S), NEW t \in Seq(S)
  PROVE  /\ s \o t \in Seq(S) /\ Len(s \o t) = Len(s) + Len(t)
         /\ \A i \in DOMAIN s : i \in DOMAIN (s \o t) /\ (s \o t)[i] = s[i]
         /\ \A i \in DOMAIN t : /\ Len(s) + i \in DOMAIN (s \o t)
                               /\ (s \o t)[Len(s) + i] = t[i]
         /\ \A n \in DOMAIN (s \o t) : n \notin DOMAIN s => n - Len(s) \in DOMAIN t
  OBVIOUS

\* What is left when one element is taken out.
LEMMA Removed ==
  ASSUME NEW S, NEW s \in Seq(S), NEW i \in DOMAIN s
  PROVE  /\ RemoveAt(s, i) \in Seq(S)
         /\ \A j \in DOMAIN RemoveAt(s, i) :
              \E k \in DOMAIN s \ {i} : /\ RemoveAt(s, i)[j] = s[k]
                                       /\ k = IF j < i THEN j ELSE j + 1
<1>1. /\ i \in Nat /\ 1 <= i /\ i <= Len(s) /\ Len(s) \in Nat
      /\ DOMAIN s = 1..Len(s)
  OBVIOUS
<1>2. /\ SubSeq(s, 1, i - 1) \in Seq(S) /\ Len(SubSeq(s, 1, i - 1)) = i - 1
      /\ \A j \in 1..(i - 1) : SubSeq(s, 1, i - 1)[j] = s[j]
  BY <1>1
<1>3. /\ SubSeq(s, i + 1, Len(s)) \in Seq(S)
      /\ Len(SubSeq(s, i + 1, Len(s))) = Len(s) - i
      /\ \A j \in 1..(Len(s) - i) : SubSeq(s, i + 1, Len(s))[j] = s[j + i]
  BY <1>1
<1>4. /\ RemoveAt(s, i) \in Seq(S) /\ Len(RemoveAt(s, i)) = Len(s) - 1
      /\ \A j \in 1..(Len(s) - 1) : RemoveAt(s, i)[j] = s[IF j < i THEN j ELSE j + 1]
  <2> DEFINE l == SubSeq(s, 1, i - 1)
             r == SubSeq(s, i + 1, Len(s))
  <2>1. RemoveAt(s, i) = l \o r
    BY DEF RemoveAt
  <2>2. /\ l \in Seq(S) /\ Len(l) = i - 1 /\ \A j \in 1..(i - 1) : l[j] = s[j]
        /\ r \in Seq(S) /\ Len(r) = Len(s) - i
        /\ \A j \in 1..(Len(s) - i) : r[j] = s[j + i]
        /\ DOMAIN l = 1..(i - 1) /\ DOMAIN r = 1..(Len(s) - i)
    BY <1>1, <1>2, <1>3
  <2> HIDE DEF l, r
  <2>3. /\ l \o r \in Seq(S) /\ Len(l \o r) = Len(s) - 1
        /\ \A j \in 1..(i - 1) : (l \o r)[j] = l[j]
        /\ \A j \in 1..(Len(s) - i) : (l \o r)[Len(l) + j] = r[j]
    <3>1. /\ l \o r \in Seq(S) /\ Len(l \o r) = Len(l) + Len(r)
          /\ \A j \in DOMAIN l : (l \o r)[j] = l[j]
          /\ \A j \in DOMAIN r : (l \o r)[Len(l) + j] = r[j]
      <4>1. l \in Seq(S) /\ r \in Seq(S)
        BY <2>2
      <4> QED
        BY <4>1, Joined
    <3>2. (i - 1) + (Len(s) - i) = Len(s) - 1
      BY <1>1
    <3> QED
      BY <2>2, <3>1, <3>2
  <2>4. ASSUME NEW j \in 1..(Len(s) - 1)
        PROVE  RemoveAt(s, i)[j] = s[IF j < i THEN j ELSE j + 1]
    <3>1. CASE j < i
      <4>1. j \in 1..(i - 1)
        BY <1>1, <3>1
      <4> QED
        BY <2>1, <2>2, <2>3, <3>1, <4>1
    <3>2. CASE ~(j < i)
      <4>1. PICK n \in 1..(Len(s) - i) : Len(l) + n = j /\ n + i = j + 1
        <5>1. j - i + 1 \in 1..(Len(s) - i)
          BY <1>1, <3>2
        <5>2. Len(l) + (j - i + 1) = j /\ (j - i + 1) + i = j + 1
          BY <1>1, <2>2
        <5> QED
          BY <5>1, <5>2
      <4>2. (l \o r)[j] = r[n] /\ r[n] = s[j + 1]
        BY <2>2, <2>3, <4>1
      <4> QED
        BY <2>1, <3>2, <4>2
    <3> QED
      BY <3>1, <3>2
  <2> QED
    BY <2>1, <2>3, <2>4
<1>5. \A j \in DOMAIN RemoveAt(s, i) : j \in 1..(Len(s) - 1)
  BY <1>1, <1>4
<1> QED
  BY <1>1, <1>4, <1>5

------------------------------------------------------------------------------
(* A handler runs with an id that was announced for its input and that no    *)
(* other has: it leaves the claim, and the rest stays as it is.              *)
LEMMA RunsClaims ==
  ASSUME MeetInv, NEW c \in Call, NEW id \in Call, Runs(c, id),
         handler[c] \in {"none", "claiming"},
         key' = key, hooked' \subseteq Call, hooked \subseteq hooked',
         id \in hooked', key[id] = key[c], \A d \in Call : idOf[d] # id
  PROVE  /\ idOf' \in [Call -> Call \cup {0}] /\ handler' \in [Call -> Handler]
         /\ Claimed'
         /\ idOf'[c] = id /\ \A d \in Call : d # c => idOf'[d] = idOf[d]
         /\ \A d \in Call : handler'[d] = "claiming" => d # c /\ handler[d] = "claiming"
<1>1. handler' \in [Call -> Handler] /\ handler'[c] \notin {"none", "claiming"}
  BY DEF Runs, MeetInv, Types, Handler
<1>2. \A d \in Call : d # c => handler'[d] = handler[d]
  BY DEF Runs, MeetInv, Types
<1>3. idOf' \in [Call -> Call \cup {0}] /\ idOf'[c] = id
  BY DEF Runs, MeetInv, Types
<1>4. \A d \in Call : d # c => idOf'[d] = idOf[d]
  BY DEF Runs, MeetInv, Types
<1>5. Claimed'
  BY <1>1, <1>2, <1>3, <1>4 DEF MeetInv, Claimed
<1> QED
  BY <1>1, <1>2, <1>3, <1>4, <1>5

(* The hook: its id goes to the first in line, or is kept.                   *)
LEMMA HookMeets ==
  ASSUME MeetInv, NEW c \in Call, Hook(c)
  PROVE  MeetInv'
<1> DEFINE k == key[c]
           w == Head(waiters[k])
<1>1. /\ key' = key /\ hooked' = hooked \cup {c} /\ hooked' \subseteq Call /\ c \notin hooked
      /\ k \in Keys
  BY DEF Hook, MeetInv, Types
<1>2. \A d \in Call : idOf[d] # c
  BY <1>1 DEF MeetInv, Claimed, Types, Call
<1>3. CASE waiters[k] # <<>> /\ handler[w] = "claiming"
  <2>1. /\ Runs(w, c) /\ ids' = ids
        /\ waiters' = [waiters EXCEPT ![k] = Tail(waiters[k])]
    BY <1>1, <1>3 DEF Hook, Announce, NobodyRuns
  <2>2. w \in Call /\ key[w] = k
    BY <1>1, <1>3, HeadAndTail DEF MeetInv, Types, Waiting
  <2>3. /\ idOf' \in [Call -> Call \cup {0}] /\ handler' \in [Call -> Handler] /\ Claimed'
        /\ idOf'[w] = c /\ \A d \in Call : d # w => idOf'[d] = idOf[d]
        /\ \A d \in Call : handler'[d] = "claiming" => d # w /\ handler[d] = "claiming"
    BY <1>1, <1>2, <1>3, <2>1, <2>2, RunsClaims
  <2>4. waiters' \in [Keys -> Seq(Call)] /\ waiters'[k] = Tail(waiters[k])
        /\ \A l \in Keys : l # k => waiters'[l] = waiters[l]
    BY <1>1, <1>3, <2>1, HeadAndTail DEF MeetInv, Types
  <2>5. Types'
    BY <1>1, <2>1, <2>3, <2>4 DEF MeetInv, Types
  <2>6. Kept'
    BY <1>1, <2>1, <2>3 DEF MeetInv, Kept, Types
  <2>7. Waiting'
    <3> SUFFICES ASSUME NEW l \in Keys, NEW i \in DOMAIN waiters'[l]
                 PROVE  key[waiters'[l][i]] = l
      BY <1>1 DEF Waiting
    <3>1. CASE l # k
      BY <3>1, <2>4 DEF MeetInv, Waiting
    <3>2. CASE l = k
      BY <3>2, <2>4, <1>1, <1>3, HeadAndTail DEF MeetInv, Waiting, Types
    <3> QED
      BY <3>1, <3>2
  <2>8. OneSide'
    <3>1. ids[k] = <<>>
      BY <1>1, <1>3 DEF MeetInv, OneSide
    <3> QED
      BY <3>1, <2>1, <2>4 DEF MeetInv, OneSide
  <2>9. ClaimsInLine'
    <3> SUFFICES ASSUME NEW d \in Call, handler'[d] = "claiming"
                 PROVE  \E i \in DOMAIN waiters'[key[d]] : waiters'[key[d]][i] = d
      BY <1>1 DEF ClaimsInLine
    <3>1. PICK i \in DOMAIN waiters[key[d]] : waiters[key[d]][i] = d
      BY <2>3 DEF MeetInv, ClaimsInLine
    <3>2. key[d] \in Keys /\ d # w
      BY <2>3 DEF MeetInv, Types
    <3>3. CASE key[d] # k
      BY <3>1, <3>2, <3>3, <2>4
    <3>4. CASE key[d] = k
      <4>1. i # 1
        BY <3>1, <3>2, <3>4, <1>1, <1>3, HeadAndTail DEF MeetInv, Types
      <4>2. i - 1 \in DOMAIN Tail(waiters[k]) /\ Tail(waiters[k])[i - 1] = d
        BY <4>1, <3>1, <3>4, <1>1, <1>3, HeadAndTail DEF MeetInv, Types
      <4> QED
        BY <4>2, <3>4, <2>4
    <3> QED
      BY <3>3, <3>4
  <2> QED
    BY <2>3, <2>5, <2>6, <2>7, <2>8, <2>9 DEF MeetInv
<1>4. CASE waiters[k] # <<>> /\ handler[w] # "claiming"
  <2>1. /\ handler' = handler /\ idOf' = idOf /\ ids' = ids
        /\ waiters' = [waiters EXCEPT ![k] = Tail(waiters[k])]
    BY <1>1, <1>4 DEF Hook, Announce, NobodyRuns
  <2>2. waiters' \in [Keys -> Seq(Call)] /\ waiters'[k] = Tail(waiters[k])
        /\ \A l \in Keys : l # k => waiters'[l] = waiters[l]
    BY <1>1, <1>4, <2>1, HeadAndTail DEF MeetInv, Types
  <2>3. Types' /\ Kept' /\ Claimed'
    BY <1>1, <2>1, <2>2 DEF MeetInv, Types, Kept, Claimed
  <2>4. Waiting'
    <3> SUFFICES ASSUME NEW l \in Keys, NEW i \in DOMAIN waiters'[l]
                 PROVE  key[waiters'[l][i]] = l
      BY <1>1 DEF Waiting
    <3>1. CASE l # k
      BY <3>1, <2>2 DEF MeetInv, Waiting
    <3>2. CASE l = k
      BY <3>2, <2>2, <1>1, <1>4, HeadAndTail DEF MeetInv, Waiting, Types
    <3> QED
      BY <3>1, <3>2
  <2>5. OneSide'
    <3>1. ids[k] = <<>>
      BY <1>1, <1>4 DEF MeetInv, OneSide
    <3> QED
      BY <3>1, <2>1, <2>2 DEF MeetInv, OneSide
  <2>6. ClaimsInLine'
    <3> SUFFICES ASSUME NEW d \in Call, handler[d] = "claiming"
                 PROVE  \E i \in DOMAIN waiters'[key[d]] : waiters'[key[d]][i] = d
      BY <1>1, <2>1 DEF ClaimsInLine
    <3>1. PICK i \in DOMAIN waiters[key[d]] : waiters[key[d]][i] = d
      BY DEF MeetInv, ClaimsInLine
    <3>2. key[d] \in Keys /\ d # w
      BY <1>4 DEF MeetInv, Types
    <3>3. CASE key[d] # k
      BY <3>1, <3>2, <3>3, <2>2
    <3>4. CASE key[d] = k
      <4>1. i # 1
        BY <3>1, <3>2, <3>4, <1>1, <1>4, HeadAndTail DEF MeetInv, Types
      <4>2. i - 1 \in DOMAIN Tail(waiters[k]) /\ Tail(waiters[k])[i - 1] = d
        BY <4>1, <3>1, <3>4, <1>1, <1>4, HeadAndTail DEF MeetInv, Types
      <4> QED
        BY <4>2, <3>4, <2>2
    <3> QED
      BY <3>3, <3>4
  <2> QED
    BY <2>3, <2>4, <2>5, <2>6 DEF MeetInv
<1>5. CASE waiters[k] = <<>>
  <2>1. /\ handler' = handler /\ idOf' = idOf /\ waiters' = waiters
        /\ ids' = [ids EXCEPT ![k] = Append(ids[k], c)]
    BY <1>1, <1>5 DEF Hook, Announce, NobodyRuns
  <2>2. ids' \in [Keys -> Seq(Call)] /\ ids'[k] = Append(ids[k], c)
        /\ \A l \in Keys : l # k => ids'[l] = ids[l]
    BY <1>1, <2>1 DEF MeetInv, Types
  <2>3. Types' /\ Claimed' /\ Waiting' /\ ClaimsInLine'
    BY <1>1, <2>1, <2>2 DEF MeetInv, Types, Claimed, Waiting, ClaimsInLine
  <2>4. OneSide'
    BY <1>5, <2>1, <2>2 DEF MeetInv, OneSide
  <2>5. Kept'
    <3> SUFFICES ASSUME NEW l \in Keys, NEW i \in DOMAIN ids'[l]
                 PROVE  /\ key[ids'[l][i]] = l /\ ids'[l][i] \in hooked'
                        /\ \A d \in Call : idOf[d] # ids'[l][i]
                        /\ \A j \in DOMAIN ids'[l] : ids'[l][i] = ids'[l][j] => i = j
      BY <1>1, <2>1 DEF Kept
    <3>1. CASE l # k
      BY <3>1, <2>2, <1>1 DEF MeetInv, Kept
    <3>2. CASE l = k
      <4>1. ids[k] \in Seq(Call)
        BY <1>1 DEF MeetInv, Types
      <4>2. \A j \in DOMAIN ids[k] : ids[k][j] # c
        BY <1>1 DEF MeetInv, Kept
      <4>3. /\ \A j \in DOMAIN ids'[k] : j = Len(ids[k]) + 1 \/ j \in DOMAIN ids[k]
            /\ ids'[k][Len(ids[k]) + 1] = c
            /\ \A j \in DOMAIN ids[k] : ids'[k][j] = ids[k][j]
        BY <4>1, <2>2, Appended
      <4>4. CASE i = Len(ids[k]) + 1
        BY <4>2, <4>3, <4>4, <3>2, <1>1, <1>2
      <4>5. CASE i \in DOMAIN ids[k]
        BY <4>2, <4>3, <4>5, <3>2, <1>1 DEF MeetInv, Kept
      <4> QED
        BY <3>2, <4>3, <4>4, <4>5
    <3> QED
      BY <3>1, <3>2
  <2> QED
    BY <2>3, <2>4, <2>5 DEF MeetInv
<1> QED
  BY <1>3, <1>4, <1>5

(* The handler of a tool: it takes the first id that is kept, or waits.      *)
LEMMA HandleMeets ==
  ASSUME MeetInv, NEW c \in Call, Handle(c)
  PROVE  MeetInv'
<1> DEFINE k == key[c]
           id == Head(ids[k])
<1>1. /\ key' = key /\ hooked' = hooked /\ hooked \subseteq Call
      /\ handler[c] = "none" /\ k \in Keys /\ ids[k] \in Seq(Call) /\ waiters[k] \in Seq(Call)
  BY DEF Handle, MeetInv, Types
<1>2. CASE stopped
  <2>1. /\ ids' = ids /\ waiters' = waiters /\ idOf' = idOf
        /\ handler' = [handler EXCEPT ![c] = "refused"]
    BY <1>2 DEF Handle
  <2>2. Types' /\ Kept' /\ Waiting' /\ OneSide'
    BY <1>1, <2>1 DEF MeetInv, Types, Handler, Kept, Waiting, OneSide
  <2>3. ClaimsInLine' /\ Claimed'
    BY <1>1, <2>1 DEF MeetInv, Types, ClaimsInLine, Claimed
  <2> QED
    BY <2>2, <2>3 DEF MeetInv
<1>3. CASE ~stopped /\ ids[k] # <<>>
  <2>1. /\ Runs(c, id) /\ waiters' = waiters
        /\ ids' = [ids EXCEPT ![k] = Tail(ids[k])]
    BY <1>3 DEF Handle
  <2>2. /\ 1 \in DOMAIN ids[k] /\ id = ids[k][1] /\ id \in Call
        /\ Tail(ids[k]) \in Seq(Call)
        /\ \A i \in DOMAIN Tail(ids[k]) : /\ i + 1 \in DOMAIN ids[k] /\ i + 1 # 1
                                          /\ Tail(ids[k])[i] = ids[k][i + 1]
    BY <1>1, <1>3, HeadAndTail
  <2>3. id \in hooked /\ key[id] = k /\ \A d \in Call : idOf[d] # id
    BY <1>1, <2>2 DEF MeetInv, Kept
  <2>4. /\ idOf' \in [Call -> Call \cup {0}] /\ handler' \in [Call -> Handler] /\ Claimed'
        /\ idOf'[c] = id /\ \A d \in Call : d # c => idOf'[d] = idOf[d]
        /\ \A d \in Call : handler'[d] = "claiming" => d # c /\ handler[d] = "claiming"
    BY <1>1, <2>1, <2>2, <2>3, RunsClaims
  <2>5. ids' \in [Keys -> Seq(Call)] /\ ids'[k] = Tail(ids[k])
        /\ \A l \in Keys : l # k => ids'[l] = ids[l]
    BY <1>1, <2>1, <2>2 DEF MeetInv, Types
  <2>6. Types' /\ Waiting' /\ ClaimsInLine'
    BY <1>1, <2>1, <2>4, <2>5 DEF MeetInv, Types, Waiting, ClaimsInLine
  <2>7. OneSide'
    <3>1. waiters[k] = <<>>
      BY <1>1, <1>3 DEF MeetInv, OneSide
    <3> QED
      BY <3>1, <2>1, <2>5 DEF MeetInv, OneSide
  <2>8. Kept'
    <3> SUFFICES ASSUME NEW l \in Keys, NEW i \in DOMAIN ids'[l]
                 PROVE  /\ key[ids'[l][i]] = l /\ ids'[l][i] \in hooked
                        /\ \A d \in Call : idOf'[d] # ids'[l][i]
                        /\ \A j \in DOMAIN ids'[l] : ids'[l][i] = ids'[l][j] => i = j
      BY <1>1 DEF Kept
    <3>1. CASE l # k
      <4>1. i \in DOMAIN ids[l] /\ ids'[l] = ids[l] /\ ids[l][i] # id
        BY <3>1, <2>3, <2>5 DEF MeetInv, Kept
      <4> QED
        BY <4>1, <2>4 DEF MeetInv, Kept
    <3>2. CASE l = k
      <4>1. /\ i + 1 \in DOMAIN ids[k] /\ ids'[l][i] = ids[k][i + 1] /\ ids[k][i + 1] # id
            /\ i \in Nat
        <5>1. i \in DOMAIN Tail(ids[k]) /\ ids'[l][i] = Tail(ids[k])[i] /\ i \in Nat
          BY <3>2, <2>2, <2>5
        <5>2. i + 1 \in DOMAIN ids[k] /\ i + 1 # 1 /\ Tail(ids[k])[i] = ids[k][i + 1]
          BY <5>1, <2>2
        <5>3. ids[k][i + 1] # ids[k][1]
          BY <1>1, <5>2, <2>2 DEF MeetInv, Kept
        <5> QED
          BY <5>1, <5>2, <5>3, <2>2
      <4>2. /\ key[ids[k][i + 1]] = k /\ ids[k][i + 1] \in hooked
            /\ \A d \in Call : idOf[d] # ids[k][i + 1]
        BY <1>1, <4>1 DEF MeetInv, Kept
      <4>3. ASSUME NEW j \in DOMAIN ids'[l], ids'[l][i] = ids'[l][j]
            PROVE  i = j
        <5>1. j \in DOMAIN Tail(ids[k]) /\ ids'[l][j] = Tail(ids[k])[j] /\ j \in Nat
          BY <3>2, <2>2, <2>5
        <5>2. j + 1 \in DOMAIN ids[k] /\ ids[k][j + 1] = ids[k][i + 1]
          BY <5>1, <4>1, <4>3, <2>2
        <5>3. i + 1 = j + 1
          BY <1>1, <5>2, <4>1 DEF MeetInv, Kept
        <5> QED
          BY <5>3, <5>1, <4>1
      <4> QED
        BY <3>2, <4>1, <4>2, <4>3, <2>4
    <3> QED
      BY <3>1, <3>2
  <2> QED
    BY <2>4, <2>6, <2>7, <2>8 DEF MeetInv
<1>4. CASE ~stopped /\ ids[k] = <<>>
  <2>1. /\ ids' = ids /\ idOf' = idOf
        /\ waiters' = [waiters EXCEPT ![k] = Append(waiters[k], c)]
        /\ handler' = [handler EXCEPT ![c] = "claiming"]
    BY <1>4 DEF Handle
  <2>2. waiters' \in [Keys -> Seq(Call)] /\ waiters'[k] = Append(waiters[k], c)
        /\ \A l \in Keys : l # k => waiters'[l] = waiters[l]
    BY <1>1, <2>1 DEF MeetInv, Types
  <2>3. Types' /\ Kept' /\ OneSide'
    BY <1>1, <1>4, <2>1, <2>2 DEF MeetInv, Types, Handler, Kept, OneSide
  <2>4. Claimed'
    BY <1>1, <2>1 DEF MeetInv, Types, Claimed
  <2>5. /\ Len(waiters[k]) + 1 \in DOMAIN waiters'[k] /\ waiters'[k][Len(waiters[k]) + 1] = c
        /\ \A i \in DOMAIN waiters[k] :
             i \in DOMAIN waiters'[k] /\ waiters'[k][i] = waiters[k][i]
        /\ \A i \in DOMAIN waiters'[k] : i = Len(waiters[k]) + 1 \/ i \in DOMAIN waiters[k]
    BY <1>1, <2>2, Appended
  <2>6. Waiting'
    <3> SUFFICES ASSUME NEW l \in Keys, NEW i \in DOMAIN waiters'[l]
                 PROVE  key[waiters'[l][i]] = l
      BY <1>1 DEF Waiting
    <3>1. CASE l # k
      BY <3>1, <2>2 DEF MeetInv, Waiting
    <3>2. CASE l = k
      BY <3>2, <2>5, <1>1 DEF MeetInv, Waiting
    <3> QED
      BY <3>1, <3>2
  <2>7. ClaimsInLine'
    <3> SUFFICES ASSUME NEW d \in Call, handler'[d] = "claiming"
                 PROVE  \E i \in DOMAIN waiters'[key[d]] : waiters'[key[d]][i] = d
      BY <1>1 DEF ClaimsInLine
    <3>1. CASE d = c
      BY <3>1, <2>5
    <3>2. CASE d # c
      <4>1. handler[d] = "claiming" /\ key[d] \in Keys
        BY <3>2, <2>1 DEF MeetInv, Types
      <4>2. PICK i \in DOMAIN waiters[key[d]] : waiters[key[d]][i] = d
        BY <4>1 DEF MeetInv, ClaimsInLine
      <4> QED
        BY <4>1, <4>2, <2>2, <2>5
    <3> QED
      BY <3>1, <3>2
  <2> QED
    BY <2>3, <2>4, <2>6, <2>7 DEF MeetInv
<1> QED
  BY <1>2, <1>3, <1>4 DEF Handle

(* A handler that ends, or is refused, disturbs nobody who meets.            *)
LEMMA EndsMeet ==
  ASSUME MeetInv, UNCHANGED <<meeting, idOf>>,
         handler' \in [Call -> Handler],
         \A c \in Call : handler'[c] \in {handler[c], "done", "refused"}
  PROVE  MeetInv'
<1> USE DEF meeting
<1>1. Types' /\ Kept' /\ Waiting' /\ OneSide'
  BY DEF MeetInv, Types, Kept, Waiting, OneSide
<1>2. ClaimsInLine' /\ Claimed'
  BY DEF MeetInv, ClaimsInLine, Claimed
<1> QED
  BY <1>1, <1>2 DEF MeetInv

LEMMA OthersMeet ==
  ASSUME MeetInv, UNCHANGED <<meeting, idOf>>,
         \/ UNCHANGED handler
         \/ \E c \in Call : ClaimTimesOut(c)
         \/ HandleLine \/ Aborts \/ RefusesAll
  PROVE  MeetInv'
<1>1. /\ handler' \in [Call -> Handler]
      /\ \A c \in Call : handler'[c] \in {handler[c], "done", "refused"}
  <2>1. handler \in [Call -> Handler]
    BY DEF MeetInv, Types
  <2>2. CASE UNCHANGED handler
    BY <2>1, <2>2
  <2>3. CASE \E c \in Call : ClaimTimesOut(c)
    BY <2>1, <2>3 DEF ClaimTimesOut, Handler
  <2>4. CASE HandleLine
    BY <2>1, <2>4 DEF HandleLine, Handler
  <2>5. CASE Aborts
    BY <2>1, <2>5 DEF Aborts, Handler
  <2>6. CASE RefusesAll
    BY <2>1, <2>6 DEF RefusesAll, Handler
  <2> QED
    BY <2>2, <2>3, <2>4, <2>5, <2>6
<1> QED
  BY <1>1, EndsMeet

------------------------------------------------------------------------------
LEMMA MeetInit == ToolInit => MeetInv
  BY DEF ToolInit, MeetInv, Types, Handler, Kept, Waiting, OneSide, ClaimsInLine,
         Claimed

LEMMA MeetStep == MeetInv /\ [ToolNext]_toolVars => MeetInv'
<1> SUFFICES ASSUME MeetInv, [ToolNext]_toolVars
             PROVE  MeetInv'
  OBVIOUS
<1>1. CASE \E c \in Call : Hook(c) \/ Handle(c)
  BY <1>1, HookMeets, HandleMeets
<1>2. CASE \E c \in Call : ClaimTimesOut(c)
  BY <1>2, OthersMeet DEF ClaimTimesOut
<1>3. CASE HostAnswers \/ HandleLine \/ Shutdown
  BY <1>3, OthersMeet DEF HostAnswers, HandleLine, Shutdown
<1>4. CASE StopChat \/ Dispose \/ Close
  <2>1. \/ Aborts
        \/ RefusesAll /\ UNCHANGED <<meeting, idOf>>
        \/ UNCHANGED <<meeting, idOf, handler>>
    BY <1>4 DEF StopChat, Dispose, Close
  <2> QED
    BY <2>1, OthersMeet DEF Aborts
<1>5. CASE UNCHANGED toolVars
  BY <1>5, OthersMeet DEF toolVars
<1> QED
  BY <1>1, <1>2, <1>3, <1>4, <1>5 DEF ToolNext

THEOREM Meeting == ToolSpec => []MeetInv
  BY MeetInit, MeetStep, PTL DEF ToolSpec

(* An id is used once, by a call with its input.                             *)
THEOREM IdsUnique == ToolSpec => []IdsAreUnique
<1>1. MeetInv => IdsAreUnique
  BY DEF MeetInv, Claimed, IdsAreUnique
<1> QED
  BY <1>1, Meeting, PTL

(* Nobody waits for an id that is there.                                     *)
THEOREM NobodyWaitsInVain == ToolSpec => []NoneWaitsInVain
<1>1. MeetInv => NoneWaitsInVain
  <2> SUFFICES ASSUME MeetInv, NEW c \in Call, handler[c] = "claiming"
               PROVE  ids[key[c]] = <<>>
    BY DEF NoneWaitsInVain
  <2>1. key[c] \in Keys /\ waiters[key[c]] \in Seq(Call)
    BY DEF MeetInv, Types
  <2>2. PICK i \in DOMAIN waiters[key[c]] : waiters[key[c]][i] = c
    BY DEF MeetInv, ClaimsInLine
  <2>3. waiters[key[c]] # <<>>
    BY <2>1, <2>2
  <2> QED
    BY <2>1, <2>3 DEF MeetInv, OneSide
<1> QED
  BY <1>1, Meeting, PTL

------------------------------------------------------------------------------
(* A claim adds a request with its own id, and changes no id that a request  *)
(* or an answer carries.                                                     *)
LEMMA RunsOwn ==
  ASSUME MeetInv, OwnInv, NEW c \in Call, NEW id \in Call, Runs(c, id),
         handler[c] \in {"none", "claiming"}, UNCHANGED replies
  PROVE  /\ OwnInv'
         /\ idOf[c] = 0 /\ idOf'[c] = id
         /\ \A d \in Call : d # c => idOf'[d] = idOf[d]
<1>1. idOf[c] = 0
  BY DEF MeetInv, Claimed
<1>2. id # 0 /\ idOf'[c] = id /\ \A d \in Call : d # c => idOf'[d] = idOf[d]
  BY DEF Runs, MeetInv, Types, Call
<1>3. \A i \in DOMAIN pending : pending[i].handler \in Call \ {c}
  <2>1. \A i \in DOMAIN pending : pending[i] \in Ask /\ idOf[pending[i].handler] # 0
    BY DEF OwnInv
  <2> QED
    BY <1>1, <2>1 DEF Ask
<1>4. /\ pending' \in Seq(Ask)
      /\ \A i \in DOMAIN pending' :
           /\ pending'[i].handler = pending'[i].request
           /\ idOf'[pending'[i].handler] # 0
           /\ \A j \in DOMAIN pending' : pending'[i].handler = pending'[j].handler => i = j
  <2>1. CASE UNCHANGED pending
    BY <1>2, <1>3, <2>1 DEF OwnInv
  <2>2. CASE pending' = Append(pending, [request |-> c, handler |-> c])
    <3> DEFINE new == [request |-> c, handler |-> c]
    <3>1. new \in Ask /\ new.handler = c /\ new.request = c
      BY DEF Ask
    <3> HIDE DEF new
    <3>2. pending \in Seq(Ask) /\ pending' = Append(pending, new)
      BY <2>2 DEF OwnInv, new
    <3>3. /\ pending' \in Seq(Ask) /\ pending'[Len(pending) + 1] = new
          /\ \A i \in DOMAIN pending : pending'[i] = pending[i]
          /\ \A i \in DOMAIN pending' : i = Len(pending) + 1 \/ i \in DOMAIN pending
      BY <3>1, <3>2, Appended
    <3> QED
      BY <1>2, <1>3, <3>1, <3>3 DEF OwnInv
  <2> QED
    BY <2>1, <2>2 DEF Runs
<1>5. \A s \in sent' : s.request \in Call /\ s.id # 0 /\ s.id = idOf'[s.request]
  BY <1>1, <1>2 DEF Runs, OwnInv
<1>6. \A r \in replies' : r.request \in Call /\ r.of # 0 /\ r.of = idOf'[r.request]
  BY <1>1, <1>2 DEF OwnInv
<1> QED
  BY <1>1, <1>2, <1>4, <1>5, <1>6 DEF OwnInv

\* A hook or a handler that gets no id asks nothing.
LEMMA Claims ==
  ASSUME MeetInv, NEW c \in Call, Hook(c) \/ Handle(c)
  PROVE  /\ UNCHANGED <<replies, closed>>
         /\ \/ \E d \in Call, id \in Call : /\ Runs(d, id) /\ handler[d] \in {"none", "claiming"}
                                            /\ \A e \in Call : idOf[e] # id
            \/ UNCHANGED <<idOf, pending, sent, told>>
<1>1. CASE Hook(c)
  <2>1. key[c] \in Keys /\ waiters[key[c]] \in Seq(Call) /\ \A e \in Call : idOf[e] # c
    BY <1>1 DEF MeetInv, Types, Hook, Claimed, Call
  <2>2. CASE waiters[key[c]] # <<>> /\ handler[Head(waiters[key[c]])] = "claiming"
    <3>1. Head(waiters[key[c]]) \in Call
      BY <2>1, <2>2, HeadAndTail
    <3>2. Runs(Head(waiters[key[c]]), c)
      BY <1>1, <2>2 DEF Hook, Announce, NobodyRuns
    <3> QED
      BY <1>1, <2>1, <2>2, <3>1, <3>2 DEF Hook
  <2>3. CASE ~(waiters[key[c]] # <<>> /\ handler[Head(waiters[key[c]])] = "claiming")
    BY <1>1, <2>3 DEF Hook, Announce, NobodyRuns
  <2> QED
    BY <2>2, <2>3
<1>2. CASE Handle(c)
  <2>1. key[c] \in Keys /\ ids[key[c]] \in Seq(Call) /\ handler[c] = "none"
    BY <1>2 DEF MeetInv, Types, Handle
  <2>2. CASE ~stopped /\ ids[key[c]] # <<>>
    <3>1. /\ Head(ids[key[c]]) = ids[key[c]][1] /\ 1 \in DOMAIN ids[key[c]]
          /\ Head(ids[key[c]]) \in Call
      BY <2>1, <2>2, HeadAndTail
    <3>2. Runs(c, Head(ids[key[c]])) /\ \A e \in Call : idOf[e] # Head(ids[key[c]])
      BY <1>2, <2>1, <2>2, <3>1 DEF Handle, MeetInv, Kept
    <3> QED
      BY <1>2, <2>1, <3>1, <3>2 DEF Handle
  <2>3. CASE stopped \/ ids[key[c]] = <<>>
    BY <1>2, <2>1, <2>3 DEF Handle
  <2> QED
    BY <2>2, <2>3
<1> QED
  BY <1>1, <1>2

\* An answer that somebody asked for is his; the request goes, the others stay.
LEMMA Answered ==
  ASSUME OwnInv, NEW reply \in replies, NEW i \in Asked(reply),
         pending' = RemoveAt(pending, i)
  PROVE  /\ pending[i].handler \in Call /\ reply.of = idOf[pending[i].handler]
         /\ pending' \in Seq(Ask)
         /\ \A j \in DOMAIN pending' :
              \E k \in DOMAIN pending \ {i} : /\ pending'[j] = pending[k]
                                              /\ k = IF j < i THEN j ELSE j + 1
<1>1. i \in DOMAIN pending /\ pending \in Seq(Ask) /\ pending[i] \in Ask
  BY DEF Asked, OwnInv
<1>2. pending[i].handler \in Call /\ reply.of = idOf[pending[i].handler]
  BY <1>1 DEF Asked, OwnInv, Ask
<1> QED
  BY <1>1, <1>2, Removed

LEMMA OwnStep == MeetInv /\ OwnInv /\ [ToolNext]_toolVars => OwnInv'
<1> SUFFICES ASSUME MeetInv, OwnInv, [ToolNext]_toolVars
             PROVE  OwnInv'
  OBVIOUS
<1>1. ASSUME NEW c \in Call, Hook(c) \/ Handle(c)
      PROVE  OwnInv'
  <2>1. CASE UNCHANGED <<idOf, pending, sent, told>>
    BY <1>1, <2>1, Claims DEF OwnInv
  <2> QED
    BY <1>1, <2>1, Claims, RunsOwn
<1>2. CASE HostAnswers
  BY <1>2 DEF HostAnswers, OwnInv
<1>3. CASE HandleLine
  <2>1. /\ UNCHANGED <<idOf, sent>> /\ replies' \subseteq replies
    BY <1>3 DEF HandleLine
  <2>2. CASE UNCHANGED pending
    BY <2>1, <2>2 DEF OwnInv
  <2>3. ASSUME NEW reply \in replies, NEW i \in Asked(reply), pending' = RemoveAt(pending, i)
        PROVE  OwnInv'
    <3>1. /\ pending' \in Seq(Ask)
          /\ \A j \in DOMAIN pending' :
               \E k \in DOMAIN pending \ {i} : /\ pending'[j] = pending[k]
                                               /\ k = IF j < i THEN j ELSE j + 1
      BY <2>3, Answered
    <3>2. /\ DOMAIN pending' \subseteq Nat /\ i \in Nat
      BY <2>3, <3>1 DEF OwnInv, Asked
    <3>3. \A j, k \in DOMAIN pending' : pending'[j].handler = pending'[k].handler => j = k
      BY <3>1, <3>2 DEF OwnInv
    <3> QED
      BY <2>1, <3>1, <3>3 DEF OwnInv
  <2> QED
    BY <1>3, <2>2, <2>3 DEF HandleLine
<1>4. CASE \E c \in Call : ClaimTimesOut(c)
  BY <1>4 DEF ClaimTimesOut, OwnInv, peer
<1>5. CASE StopChat \/ Dispose \/ Close \/ Shutdown
  <2>1. /\ UNCHANGED <<idOf, sent, replies>>
        /\ pending' = pending \/ pending' = <<>>
    BY <1>5 DEF StopChat, Dispose, Close, Shutdown, Aborts, RefusesAll
  <2>2. CASE pending' = pending
    BY <2>1, <2>2 DEF OwnInv
  <2>3. CASE pending' = <<>>
    <3>1. pending' \in Seq(Ask) /\ DOMAIN pending' = {}
      BY <2>3
    <3> QED
      BY <2>1, <3>1 DEF OwnInv
  <2> QED
    BY <2>1, <2>2, <2>3
<1>6. CASE UNCHANGED toolVars
  BY <1>6 DEF toolVars, peer, OwnInv
<1> QED
  BY <1>1, <1>2, <1>3, <1>4, <1>5, <1>6 DEF ToolNext

LEMMA OwnInit == ToolInit => OwnInv
  BY DEF ToolInit, OwnInv

(* What a handler gets for its call is what the host answered to that call,  *)
(* in whatever order calls are announced, claimed, answered and given up.    *)
THEOREM AnswersOwn == ToolSpec => []AnswersAreTheirOwn
<1>1. OwnInv => AnswersAreTheirOwn
  BY DEF OwnInv, AnswersAreTheirOwn, Asked
<1> QED
  BY <1>1, OwnInit, OwnStep, Meeting, PTL DEF ToolSpec

------------------------------------------------------------------------------
(* The chat is told more: results of ids that were announced and of which     *)
(* nothing was told, each once.                                              *)
LEMMA Grows ==
  ASSUME told \in Seq(Event), ResultsAreTheirOwn,
         NEW f \in Seq(Event), told' = told \o f,
         \A m \in DOMAIN f : f[m].kind = "tool_result" =>
           /\ f[m].of \in {0, f[m].id} /\ StartOf(f[m].id) /\ ~ResultOf(f[m].id)
           /\ \A k \in 1..(m - 1) : f[k].id # f[m].id
  PROVE  told' \in Seq(Event) /\ ResultsAreTheirOwn'
<1>1. /\ told' \in Seq(Event) /\ Len(told) \in Nat /\ DOMAIN told = 1..Len(told)
      /\ \A i \in DOMAIN told : i \in DOMAIN told' /\ told'[i] = told[i]
      /\ \A i \in DOMAIN f : told'[Len(told) + i] = f[i]
      /\ \A n \in DOMAIN told' : n \notin DOMAIN told => n - Len(told) \in DOMAIN f
      /\ DOMAIN told' \subseteq Nat \ {0} /\ DOMAIN f = 1..Len(f) /\ Len(f) \in Nat
  BY Joined
<1>2. ASSUME NEW n \in DOMAIN told', told'[n].kind = "tool_result"
      PROVE  /\ told'[n].of \in {0, told'[n].id}
             /\ \E j \in 1..(n - 1) : told'[j] = Started(told'[n].id)
             /\ \A j \in 1..(n - 1) :
                  told'[j].kind = "tool_result" => told'[j].id # told'[n].id
  <2>1. CASE n \in DOMAIN told
    <3>1. \A j \in 1..(n - 1) : j \in DOMAIN told /\ told'[j] = told[j]
      BY <1>1, <2>1
    <3> QED
      BY <1>1, <1>2, <2>1, <3>1 DEF ResultsAreTheirOwn
  <2>2. CASE n \notin DOMAIN told
    <3>1. PICK m \in DOMAIN f : m = n - Len(told) /\ told'[n] = f[m] /\ n = Len(told) + m
      BY <1>1, <2>2
    <3>2. StartOf(f[m].id) /\ ~ResultOf(f[m].id) /\ f[m].of \in {0, f[m].id}
      BY <1>2, <3>1
    <3>3. ASSUME NEW j \in 1..(n - 1), told'[j].kind = "tool_result"
          PROVE  told'[j].id # f[m].id
      <4>1. CASE j \in DOMAIN told
        BY <1>1, <3>2, <3>3, <4>1 DEF ResultOf
      <4>2. CASE j \notin DOMAIN told
        <5>1. j - Len(told) \in 1..(m - 1) /\ told'[j] = f[j - Len(told)]
          BY <1>1, <3>1, <4>2
        <5> QED
          BY <1>2, <3>1, <5>1
      <4> QED
        BY <4>1, <4>2
    <3>4. \E j \in 1..(n - 1) : told'[j] = Started(f[m].id)
      <4>1. PICK j \in DOMAIN told : told[j] = Started(f[m].id)
        BY <3>2 DEF StartOf
      <4>2. j \in 1..(n - 1) /\ told'[j] = told[j]
        BY <1>1, <3>1
      <4> QED
        BY <4>1, <4>2
    <3> QED
      BY <3>1, <3>2, <3>3, <3>4
  <2> QED
    BY <2>1, <2>2
<1> QED
  BY <1>1, <1>2 DEF ResultsAreTheirOwn
\* What is told of a claimed id stays so, and a start or a result once told is.
LEMMA ToldStays ==
  ASSUME told \in Seq(Event), NEW f \in Seq(Event), told' = told \o f,
         NEW id \in Call
  PROVE  /\ StartOf(id) => StartOf(id)'
         /\ ResultOf(id)' => \/ ResultOf(id)
                             \/ \E m \in DOMAIN f : f[m].kind = "tool_result" /\ f[m].id = id
         /\ \A m \in DOMAIN f : f[m] = Started(id) => StartOf(id)'
<1>1. /\ Len(told) \in Nat
      /\ \A i \in DOMAIN told : i \in DOMAIN told' /\ told'[i] = told[i]
      /\ \A i \in DOMAIN f : Len(told) + i \in DOMAIN told' /\ told'[Len(told) + i] = f[i]
      /\ \A n \in DOMAIN told' : n \notin DOMAIN told => n - Len(told) \in DOMAIN f
      /\ DOMAIN told' \subseteq Nat
  BY Joined
<1>2. StartOf(id) => StartOf(id)'
  BY <1>1 DEF StartOf
<1>3. \A m \in DOMAIN f : f[m] = Started(id) => StartOf(id)'
  BY <1>1 DEF StartOf
<1>4. ASSUME NEW n \in DOMAIN told', told'[n].kind = "tool_result", told'[n].id = id
      PROVE  \/ ResultOf(id)
             \/ \E m \in DOMAIN f : f[m].kind = "tool_result" /\ f[m].id = id
  <2>1. CASE n \in DOMAIN told
    BY <1>1, <1>4, <2>1 DEF ResultOf
  <2>2. CASE n \notin DOMAIN told
    <3>1. PICK m \in DOMAIN f : m = n - Len(told) /\ n = Len(told) + m
      BY <1>1, <2>2
    <3> QED
      BY <1>1, <1>4, <3>1
  <2> QED
    BY <2>1, <2>2
<1> QED
  BY <1>2, <1>3, <1>4 DEF ResultOf

(* One handler is told of: a start of an id that nobody claimed before.       *)
LEMMA RunsTold ==
  ASSUME MeetInv, OwnInv, ToldInv, NEW c \in Call, NEW id \in Call, Runs(c, id),
         handler[c] \in {"none", "claiming"}, \A d \in Call : idOf[d] # id,
         UNCHANGED <<replies, closed>>
  PROVE  ToldInv'
<1>1. /\ idOf[c] = 0 /\ idOf'[c] = id /\ OwnInv'
      /\ \A d \in Call : d # c => idOf'[d] = idOf[d]
  BY RunsOwn
<1>2. PICK f \in Seq(Event) : /\ told' = told \o f
                              /\ closed => f = <<>>
                              /\ ~closed => f = <<Started(id)>>
  <2>1. told \in Seq(Event) /\ told \o <<>> = told
    BY DEF ToldInv
  <2>2. Started(id) \in Event
    BY DEF Started, Event
  <2>3. told' = IF closed THEN told ELSE told \o <<Started(id)>>
    BY DEF Runs, Tells
  <2>4. CASE closed
    <3>1. PICK f : f = <<>>
      OBVIOUS
    <3>2. f \in Seq(Event)
      BY <3>1
    <3>3. told' = told \o f
      BY <2>1, <2>3, <2>4, <3>1
    <3> QED
      BY <2>4, <3>1, <3>2, <3>3
  <2>5. CASE ~closed
    <3>1. PICK f : f = <<Started(id)>>
      OBVIOUS
    <3>2. f \in Seq(Event)
      BY <2>2, <3>1
    <3> QED
      BY <2>3, <2>5, <3>1, <3>2
  <2> QED
    BY <2>4, <2>5
<1>3. \A m \in DOMAIN f : /\ m = 1 /\ f[m] = Started(id)
                          /\ f[m].kind # "tool_result" /\ f[m].id = id
  BY <1>2 DEF Started
<1>4. told' \in Seq(Event) /\ ResultsAreTheirOwn'
  BY <1>2, <1>3, Grows DEF ToldInv
<1>5. \A i \in DOMAIN told : told[i].id # id
  BY DEF ToldInv
<1>6. ~ResultOf(id)
  BY <1>5 DEF ResultOf
<1>7. \A i \in DOMAIN told' : \E d \in Call : idOf'[d] = told'[i].id
  <2> SUFFICES ASSUME NEW i \in DOMAIN told'
               PROVE  \E d \in Call : idOf'[d] = told'[i].id
    OBVIOUS
  <2>1. \/ i \in DOMAIN told /\ told'[i] = told[i]
        \/ \E m \in DOMAIN f : told'[i] = f[m]
    <3>1. /\ told \in Seq(Event) /\ Len(told) \in Nat /\ i \in Nat
          /\ \A n \in DOMAIN told : told'[n] = told[n]
          /\ \A n \in DOMAIN f : told'[Len(told) + n] = f[n]
          /\ i \notin DOMAIN told => i - Len(told) \in DOMAIN f
      BY <1>2, Joined DEF ToldInv
    <3>2. i \notin DOMAIN told => i = Len(told) + (i - Len(told))
      BY <3>1
    <3> QED
      BY <3>1, <3>2
  <2>2. CASE i \in DOMAIN told /\ told'[i] = told[i]
    <3>1. PICK d \in Call : idOf[d] = told[i].id
      BY <2>2 DEF ToldInv
    <3>2. told[i].id \in Call
      <4>1. told \in Seq(Event) /\ i \in DOMAIN told
        BY <2>2 DEF ToldInv
      <4>2. told[i] \in Event
        BY <4>1
      <4> QED
        BY <4>2 DEF Event
    <3>3. d # c
      BY <1>1, <3>1, <3>2 DEF Call
    <3> QED
      BY <1>1, <2>2, <3>1, <3>3
  <2>3. CASE \E m \in DOMAIN f : told'[i] = f[m]
    BY <1>1, <1>3, <2>3
  <2> QED
    BY <2>1, <2>2, <2>3
<1>8. closed' => pending' = <<>>
  BY DEF Runs, ToldInv
<1>9. ASSUME NEW i \in DOMAIN pending'
      PROVE  Open(i)'
  <2>1. \/ i \in DOMAIN pending /\ pending'[i] = pending[i]
        \/ ~closed /\ pending'[i].handler = c
    <3>1. CASE UNCHANGED pending
      BY <1>9, <3>1
    <3>2. CASE ~closed /\ pending' = Append(pending, [request |-> c, handler |-> c])
      BY <1>9, <3>2 DEF OwnInv
    <3> QED
      BY <3>1, <3>2 DEF Runs
  <2>2. CASE i \in DOMAIN pending /\ pending'[i] = pending[i]
    <3>1. PICK e \in Call : e = idOf[pending[i].handler] /\ StartOf(e) /\ ~ResultOf(e)
      <4>1. pending[i] \in Ask /\ idOf[pending[i].handler] # 0
        BY <2>2 DEF OwnInv
      <4>2. idOf[pending[i].handler] \in Call
        BY <4>1 DEF Ask, MeetInv, Types
      <4> QED
        BY <2>2, <4>2 DEF ToldInv, Open
    <3>2. idOf'[pending'[i].handler] = e
      <4>1. pending[i].handler \in Call /\ pending[i].handler # c
        <5>1. /\ pending \in Seq(Ask) /\ i \in DOMAIN pending
              /\ idOf[pending[i].handler] # 0
          BY <2>2 DEF OwnInv
        <5>2. pending[i] \in Ask
          BY <5>1
        <5> QED
          BY <1>1, <5>1, <5>2 DEF Ask
      <4> QED
        BY <1>1, <2>2, <3>1, <4>1
    <3>3. StartOf(e)' /\ ~ResultOf(e)'
      BY <1>2, <1>3, <3>1, ToldStays DEF ToldInv
    <3> QED
      BY <3>2, <3>3 DEF Open
  <2>3. CASE ~closed /\ pending'[i].handler = c
    <3>1. f[1] = Started(id) /\ 1 \in DOMAIN f
      BY <1>2, <2>3
    <3>2. StartOf(id)' /\ ~ResultOf(id)'
      BY <1>2, <1>3, <1>6, <3>1, ToldStays DEF ToldInv
    <3> QED
      BY <1>1, <2>3, <3>2 DEF Open
  <2> QED
    BY <2>1, <2>2, <2>3
<1> QED
  BY <1>4, <1>7, <1>8, <1>9 DEF ToldInv

(* What is told are results of requests that go, each of its own: the others  *)
(* stay open.                                                                *)
LEMMA ResultsTold ==
  ASSUME MeetInv, OwnInv, ToldInv, NEW f \in Seq(Event), told' = told \o f,
         UNCHANGED idOf,
         \A m \in DOMAIN f :
           \E i \in DOMAIN pending :
             /\ f[m].kind = "tool_result" /\ f[m].id = idOf[pending[i].handler]
             /\ f[m].of \in {0, f[m].id}
             /\ \A k \in 1..(m - 1) : f[k].id # f[m].id
             /\ \A j \in DOMAIN pending' : pending'[j].handler # pending[i].handler,
         \A j \in DOMAIN pending' : \E k \in DOMAIN pending : pending'[j] = pending[k],
         closed' => pending' = <<>>
  PROVE  ToldInv'
<1>1. \A i \in DOMAIN pending :
         /\ pending[i].handler \in Call /\ idOf[pending[i].handler] \in Call
         /\ StartOf(idOf[pending[i].handler]) /\ ~ResultOf(idOf[pending[i].handler])
  <2> SUFFICES ASSUME NEW i \in DOMAIN pending
               PROVE  /\ pending[i].handler \in Call /\ idOf[pending[i].handler] \in Call
                      /\ Open(i)
    BY DEF Open
  <2>1. pending[i] \in Ask /\ idOf[pending[i].handler] # 0
    BY DEF OwnInv
  <2> QED
    BY <2>1 DEF Ask, MeetInv, Types, ToldInv
<1>2. told' \in Seq(Event) /\ ResultsAreTheirOwn'
  <2>1. \A m \in DOMAIN f : /\ f[m].of \in {0, f[m].id}
                            /\ StartOf(f[m].id) /\ ~ResultOf(f[m].id)
                            /\ \A k \in 1..(m - 1) : f[k].id # f[m].id
    BY <1>1
  <2> QED
    BY <2>1, Grows DEF ToldInv
<1>3. \A i \in DOMAIN told' : \E d \in Call : idOf'[d] = told'[i].id
  <2> SUFFICES ASSUME NEW i \in DOMAIN told'
               PROVE  \E d \in Call : idOf[d] = told'[i].id
    OBVIOUS
  <2>1. /\ told \in Seq(Event) /\ Len(told) \in Nat /\ i \in Nat
        /\ \A n \in DOMAIN told : told'[n] = told[n]
        /\ \A n \in DOMAIN f : told'[Len(told) + n] = f[n]
        /\ i \notin DOMAIN told => i - Len(told) \in DOMAIN f
    BY Joined DEF ToldInv
  <2>2. i \notin DOMAIN told => i = Len(told) + (i - Len(told))
    BY <2>1
  <2>3. CASE i \in DOMAIN told
    BY <2>1, <2>3 DEF ToldInv
  <2>4. CASE i \notin DOMAIN told
    <3>1. PICK m \in DOMAIN f : told'[i] = f[m]
      BY <2>1, <2>2, <2>4
    <3> QED
      BY <1>1, <3>1
  <2> QED
    BY <2>3, <2>4
<1>4. ASSUME NEW j \in DOMAIN pending'
      PROVE  Open(j)'
  <2>1. PICK k \in DOMAIN pending : pending'[j] = pending[k]
    OBVIOUS
  <2>2. PICK e \in Call : /\ e = idOf[pending[k].handler] /\ StartOf(e) /\ ~ResultOf(e)
    BY <1>1
  <2>3. \A m \in DOMAIN f : f[m].id # e
    <3> SUFFICES ASSUME NEW m \in DOMAIN f, f[m].id = e
                 PROVE  FALSE
      OBVIOUS
    <3>1. PICK i \in DOMAIN pending : /\ f[m].id = idOf[pending[i].handler]
                                      /\ pending'[j].handler # pending[i].handler
      OBVIOUS
    <3>2. /\ pending[i].handler \in Call /\ pending[k].handler \in Call
          /\ pending[i].handler # pending[k].handler /\ e # 0
      BY <1>1, <2>1, <3>1 DEF Call
    <3> QED
      BY <2>2, <3>1, <3>2 DEF MeetInv, Claimed
  <2>4. StartOf(e)' /\ ~ResultOf(e)'
    <3>1. told \in Seq(Event) /\ f \in Seq(Event) /\ told' = told \o f /\ e \in Call
      BY DEF ToldInv
    <3>2. /\ StartOf(e) => StartOf(e)'
          /\ ResultOf(e)' => \/ ResultOf(e)
                              \/ \E m \in DOMAIN f : f[m].kind = "tool_result" /\ f[m].id = e
      BY <3>1, ToldStays
    <3> QED
      BY <2>2, <2>3, <3>2
  <2> QED
    BY <2>1, <2>2, <2>4 DEF Open
<1> QED
  BY <1>2, <1>3, <1>4 DEF ToldInv

\* Nothing is told and no request made.
LEMMA NothingTold ==
  ASSUME ToldInv, UNCHANGED <<told, idOf>>, pending' = pending \/ pending' = <<>>,
         closed' => pending' = <<>>
  PROVE  ToldInv'
<1>1. CASE pending' = pending
  BY <1>1 DEF ToldInv, Open, StartOf, ResultOf, ResultsAreTheirOwn
<1>2. CASE pending' = <<>>
  <2>1. DOMAIN pending' = {}
    BY <1>2
  <2> QED
    BY <2>1 DEF ToldInv, ResultsAreTheirOwn
<1> QED
  BY <1>1, <1>2

(* All requests are refused, each told once.                                 *)
LEMMA AbortsTold ==
  ASSUME MeetInv, OwnInv, ToldInv, Aborts
  PROVE  ToldInv'
<1>1. pending' = <<>> /\ UNCHANGED <<idOf, closed>> /\ Tells(Failures) /\ DOMAIN pending' = {}
  BY DEF Aborts
<1>2. CASE closed
  BY <1>1, <1>2, NothingTold DEF Tells
<1>3. CASE ~closed
  <2>1. /\ pending \in Seq(Ask) /\ DOMAIN pending = 1..Len(pending) /\ Len(pending) \in Nat
        /\ \A i \in DOMAIN pending : /\ pending[i].handler \in Call
                                     /\ idOf[pending[i].handler] \in Call
                                     /\ idOf[pending[i].handler] # 0
    <3>1. \A i \in DOMAIN pending : pending[i] \in Ask /\ idOf[pending[i].handler] # 0
      BY DEF OwnInv
    <3> QED
      BY <3>1 DEF OwnInv, Ask, MeetInv, Types
  <2>2. PICK f : f = Failures
    OBVIOUS
  <2>3. /\ DOMAIN f = DOMAIN pending
        /\ \A i \in DOMAIN f : /\ f[i] = Failed(idOf[pending[i].handler]) /\ f[i] \in Event
                               /\ f[i].kind = "tool_result" /\ f[i].of = 0
                               /\ f[i].id = idOf[pending[i].handler]
    BY <2>1, <2>2 DEF Failures, Failed, Result, Event
  <2>4. f \in Seq(Event)
    <3>1. f = [i \in 1..Len(pending) |-> f[i]]
      BY <2>1, <2>2 DEF Failures
    <3> QED
      BY <2>1, <2>3, <3>1
  <2>5. ASSUME NEW m \in DOMAIN f, NEW k \in 1..(m - 1)
        PROVE  f[k].id # f[m].id
    <3>1. k \in DOMAIN pending /\ m \in DOMAIN pending /\ k # m
      BY <2>1, <2>3
    <3>2. pending[k].handler # pending[m].handler
      BY <3>1 DEF OwnInv
    <3> QED
      BY <2>1, <2>3, <3>1, <3>2 DEF MeetInv, Claimed
  <2>6. told' = told \o f
    BY <1>1, <1>3, <2>2 DEF Tells
  <2> QED
    BY <1>1, <2>3, <2>4, <2>5, <2>6, ResultsTold
<1> QED
  BY <1>2, <1>3

LEMMA ToldStep == MeetInv /\ OwnInv /\ ToldInv /\ [ToolNext]_toolVars => ToldInv'
<1> SUFFICES ASSUME MeetInv, OwnInv, ToldInv, [ToolNext]_toolVars
             PROVE  ToldInv'
  OBVIOUS
<1>1. ASSUME NEW c \in Call, Hook(c) \/ Handle(c)
      PROVE  ToldInv'
  <2>1. CASE UNCHANGED <<idOf, pending, sent, told>>
    <3>1. UNCHANGED closed
      BY <1>1, Claims
    <3> QED
      BY <2>1, <3>1, NothingTold DEF ToldInv
  <2> QED
    BY <1>1, <2>1, Claims, RunsTold
<1>2. CASE HostAnswers
  BY <1>2, NothingTold DEF HostAnswers, ToldInv
<1>3. CASE HandleLine
  <2>1. UNCHANGED <<idOf, closed>> /\ ~closed
    BY <1>3 DEF HandleLine
  <2>2. CASE UNCHANGED <<pending, told>>
    BY <2>1, <2>2, NothingTold
  <2>3. ASSUME NEW reply \in replies, NEW i \in Asked(reply), pending' = RemoveAt(pending, i),
               Tells(<<Result(idOf[pending[i].handler], reply.of)>>)
        PROVE  ToldInv'
    <3>1. /\ i \in DOMAIN pending /\ pending \in Seq(Ask)
          /\ reply.of = idOf[pending[i].handler]
          /\ \A j \in DOMAIN pending' :
               \E k \in DOMAIN pending \ {i} : pending'[j] = pending[k]
      BY <2>3, Answered DEF OwnInv, Asked
    <3>2. idOf[pending[i].handler] \in Call
      <4>1. pending[i] \in Ask /\ idOf[pending[i].handler] # 0
        BY <3>1 DEF OwnInv
      <4> QED
        BY <4>1 DEF Ask, MeetInv, Types
    <3>3. PICK id \in Call : id = idOf[pending[i].handler]
      BY <3>2
    <3>4. PICK f : f = <<Result(id, id)>>
      OBVIOUS
    <3>5. /\ f \in Seq(Event) /\ told' = told \o f
          /\ \A m \in DOMAIN f : /\ m = 1 /\ f[m].kind = "tool_result"
                                 /\ f[m].id = id /\ f[m].of = id
      <4>1. Result(id, id) \in Event
        BY DEF Result, Event
      <4> QED
        BY <2>1, <2>3, <3>1, <3>3, <3>4, <4>1 DEF Tells, Result
    <3>6. \A j \in DOMAIN pending' : pending'[j].handler # pending[i].handler
      BY <3>1 DEF OwnInv
    <3>7. ASSUME NEW m \in DOMAIN f
          PROVE  /\ i \in DOMAIN pending /\ f[m].kind = "tool_result"
                 /\ f[m].id = idOf[pending[i].handler] /\ f[m].of \in {0, f[m].id}
                 /\ \A k \in 1..(m - 1) : f[k].id # f[m].id
                 /\ \A j \in DOMAIN pending' : pending'[j].handler # pending[i].handler
      <4>1. m = 1 /\ f[m].kind = "tool_result" /\ f[m].id = id /\ f[m].of = id
        BY <3>5
      <4>2. 1..(m - 1) = {}
        BY <4>1
      <4> QED
        BY <3>1, <3>3, <3>6, <4>1, <4>2
    <3>8. \A j \in DOMAIN pending' : \E k \in DOMAIN pending : pending'[j] = pending[k]
      BY <3>1
    <3> QED
      BY <2>1, <3>5, <3>7, <3>8, ResultsTold
  <2> QED
    BY <1>3, <2>2, <2>3 DEF HandleLine
<1>4. CASE \E c \in Call : ClaimTimesOut(c)
  BY <1>4, NothingTold DEF ClaimTimesOut, peer, ToldInv
<1>5. CASE StopChat \/ Dispose
  <2>1. CASE Aborts
    BY <2>1, AbortsTold
  <2>2. CASE UNCHANGED <<told, idOf, pending, closed>>
    BY <2>2, NothingTold DEF ToldInv
  <2> QED
    BY <1>5, <2>1, <2>2 DEF StopChat, Dispose
<1>6. CASE Close \/ Shutdown
  BY <1>6, NothingTold DEF Close, RefusesAll, Shutdown, ToldInv
<1>7. CASE UNCHANGED toolVars
  BY <1>7, NothingTold DEF toolVars, peer, ToldInv
<1> QED
  BY <1>1, <1>2, <1>3, <1>4, <1>5, <1>6, <1>7 DEF ToolNext

LEMMA ToldInit == ToolInit => ToldInv
<1> SUFFICES ASSUME ToolInit
             PROVE  ToldInv
  OBVIOUS
<1>1. told = <<>> /\ pending = <<>> /\ ~closed /\ told \in Seq(Event)
  BY DEF ToolInit
<1>2. DOMAIN told = {} /\ DOMAIN pending = {}
  BY <1>1
<1> QED
  BY <1>1, <1>2 DEF ToldInv, ResultsAreTheirOwn

(* The chat is told of a call once what it returned, after its start, and    *)
(* what it is told is what the host answered to that call, also when calls   *)
(* are given up, the chat stops or the host goes.                            *)
THEOREM ResultsOwn == ToolSpec => []ResultsAreTheirOwn
<1>1. ToldInv => ResultsAreTheirOwn
  BY DEF ToldInv
<1> QED
  BY <1>1, OwnInit, OwnStep, ToldInit, ToldStep, Meeting, PTL DEF ToolSpec

(* The tools agree with the host and the chat: ids, waiters and results.     *)
THEOREM ToolsAgreed == ToolSpec => []ToolsAgree
  BY IdsUnique, NobodyWaitsInVain, ResultsOwn, PTL DEF ToolsAgree
==============================================================================
