---------------------------- MODULE SessionsProofs ----------------------------
(***************************************************************************)
(* For any number of projects, contents, flows, saves on their way, edits  *)
(* and failures: once nothing is queued or on its way the host has the     *)
(* session the user sees, unless the code may have lost the last edit, and *)
(* a project is left only when its session is stored.                      *)
(***************************************************************************)
EXTENDS Sessions, TLAPS

MaybeProject == Project \cup {None}
MaybeContent == Content \cup {None}
Calls == [state : {"free", "sent", "stored", "refused"}, project : MaybeProject,
          content : MaybeContent, by : Flow \cup {None}]
Kinds == {"none", "switch", "create", "archive", "flush", "boot"}
Pcs == {"idle", "flushing", "draining", "creating", "archiving", "archived", "opening",
        "opened", "failed", "done"}
Flows == [kind : Kinds, pc : Pcs, target : MaybeProject, from : MaybeProject,
          dialog : BOOLEAN, fresh : BOOLEAN, touched : BOOLEAN, answer : MaybeContent]

StoreOK == /\ session \in [Project -> MaybeContent]
           /\ active \in MaybeProject /\ switching \in MaybeProject
           /\ shelved \subseteq Project /\ busy \in BOOLEAN
SyncOK == /\ pending \in [Project -> MaybeContent] /\ saved \in [Project -> MaybeContent]
          /\ save \in [Save -> Calls]
HostOK == /\ host \in [Project -> MaybeContent]
          /\ archived \subseteq Project /\ excused \subseteq Project
          /\ edits \in 0..MaxEdits /\ failures \in 0..MaxFailures
FlowOK == flow \in [Flow -> Flows]
TypeOK == StoreOK /\ SyncOK /\ HostOK /\ FlowOK

(* Only a loaded project is open, queued or on its way, and it exists.       *)
LoadedInv ==
  /\ active \in Loaded \cup {None}
  /\ \A p \in Project : /\ pending[p] # None => p \in Loaded
                        /\ p \in Loaded => host[p] # None

(* A save on its way has a content and, if a flow awaits it, is the only one  *)
(* of that flow and of the project the flow leaves.                          *)
SaveInv(s) ==
  /\ save[s].state = "free" => save[s] = Free
  /\ save[s].state # "free" => save[s].project \in Loaded /\ save[s].content # None
  /\ save[s].state = "refused" => save[s].project \in excused
  /\ \A f \in Flow : save[s].by = f =>
       /\ flow[f].pc = "flushing"
       /\ flow[f].kind = "switch" => save[s].project = flow[f].from
       /\ \A t \in Save : save[t].by = f => s = t

(* Where a flow is tells whether its project is there.                       *)
FlowInv(f) ==
  /\ flow[f].pc \in {"idle", "done"} => flow[f].kind = "none"
  /\ flow[f].pc = "flushing" => flow[f].kind \in {"switch", "create", "archive", "flush"}
  /\ flow[f].pc = "creating" => flow[f].kind = "create"
  /\ flow[f].pc \in {"archiving", "archived"} => flow[f].kind = "archive"
  /\ flow[f].pc \in {"opening", "opened", "failed"} => flow[f].kind \in {"switch", "boot", "create"}
  /\ flow[f].kind = "create" =>
       /\ flow[f].pc \in {"flushing", "creating", "opening", "opened", "failed"}
       /\ \A g \in Flow : flow[g].kind = "create" /\ flow[g].target = flow[f].target => f = g
  /\ flow[f].kind \in {"switch", "boot", "create", "archive"} =>
       /\ flow[f].target \in Project
       /\ host[flow[f].target] = None <=>
            flow[f].kind = "create" /\ flow[f].pc \in {"flushing", "creating"}
  /\ flow[f].from # None => flow[f].from \in Loaded
  /\ flow[f].pc = "opened" => flow[f].answer # None
  /\ flow[f].touched => flow[f].target \in Loaded

(* Unless the last edit may be lost, what is queued or on its way is what the *)
(* user sees, at most one save is on its way, and the sync believes right.   *)
KeptInv(p) == p \in Loaded \ excused =>
  /\ pending[p] \in {None, session[p]}
  /\ \A s, t \in InFlight(p) : s = t
  /\ InFlight(p) = {} => /\ saved[p] = host[p]
                         /\ pending[p] = None => host[p] = session[p]
  /\ \A s \in InFlight(p) : /\ save[s].state = "stored" => host[p] = save[s].content
                            /\ pending[p] = None => save[s].content = session[p]
                            /\ saved[p] = session[p] => /\ save[s].content = session[p]
                                                        /\ host[p] = session[p]

IInv == /\ TypeOK /\ LoadedInv
        /\ \A s \in Save : SaveInv(s)
        /\ \A f \in Flow : FlowInv(f)
        /\ \A p \in Project : KeptInv(p)

LEMMA Parts ==
  ASSUME IInv
  PROVE  /\ StoreOK /\ SyncOK /\ HostOK /\ FlowOK /\ LoadedInv
         /\ \A s \in Save : SaveInv(s)
         /\ \A f \in Flow : FlowInv(f)
         /\ \A p \in Project : KeptInv(p)
BY DEF IInv, TypeOK

\* What None is not.
LEMMA Nothing ==
  /\ None \notin Project /\ None \notin Content /\ None \notin Flow
  /\ Flow \subseteq Nat /\ Save \subseteq Nat
BY SessionsAssumption DEF Flow, Save

LEMMA LoadedSame == ASSUME UNCHANGED session PROVE Loaded' = Loaded
BY DEF Loaded

USE DEF MaybeProject, MaybeContent, Kinds, Pcs, store, sync, rest

-------------------------------------------------------------------------------
(* What a step does to the saves: a save goes out, one changes, none does.   *)

LEMMA KeptSame ==
  ASSUME UNCHANGED <<session, pending, saved, save, host>>, excused \subseteq excused',
         NEW p, KeptInv(p)
  PROVE  KeptInv(p)'
BY DEF KeptInv, Loaded, InFlight

\* Saves stay true while a flow goes on that awaits none.
LEMMA SavesSame ==
  ASSUME UNCHANGED save, Loaded \subseteq Loaded', excused \subseteq excused',
         \A f \in Flow : flow[f].pc = "flushing" =>
           /\ flow'[f].pc = "flushing" /\ flow'[f].kind = flow[f].kind
           /\ flow'[f].from = flow[f].from,
         NEW s \in Save, SaveInv(s)
  PROVE  SaveInv(s)'
<1>1. /\ save'[s].state = "free" => save'[s] = Free
      /\ save'[s].state # "free" => save'[s].project \in Loaded' /\ save'[s].content # None
      /\ save'[s].state = "refused" => save'[s].project \in excused'
  BY DEF SaveInv
<1>2. ASSUME NEW f \in Flow, save'[s].by = f
      PROVE  /\ flow'[f].pc = "flushing"
             /\ flow'[f].kind = "switch" => save'[s].project = flow'[f].from
             /\ \A t \in Save : save'[t].by = f => s = t
  BY <1>2 DEF SaveInv
<1> QED
  BY DEF SaveInv

LEMMA Sent ==
  ASSUME NEW p \in Project, NEW c \in Content, NEW by \in Flow \cup {None},
         NEW new,
         new = [state |-> "sent", project |-> p, content |-> c, by |-> by]
  PROVE  /\ new \in Calls /\ new.state = "sent" /\ new.project = p
         /\ new.content = c /\ new.by = by
BY DEF Calls

LEMMA Sending ==
  ASSUME IInv, UNCHANGED <<session, host>>, NEW p \in Loaded, NEW c \in Content,
         NEW by \in Flow \cup {None}, Sends(p, c, by), p \notin excused => c = session[p]
  PROVE  /\ SyncOK' /\ excused' \subseteq Project
         /\ \A q \in Project : KeptInv(q)' /\ (pending'[q] # None => q \in Loaded)
         /\ excused \ {p} \subseteq excused'
         /\ \E s \in Save : /\ save[s] = Free
                            /\ save'[s].state = "sent" /\ save'[s].project = p
                            /\ save'[s].content = c /\ save'[s].by = by
                            /\ \A t \in Save : t # s => save'[t] = save[t]
         /\ \A t \in Save : save[t].state = "refused" => save[t].project \in excused'
<1>0. p \in Project
  BY DEF Loaded
<1>1. PICK s \in Save :
        /\ save[s] = Free
        /\ save' = [save EXCEPT ![s] = [state |-> "sent", project |-> p, content |-> c,
                                        by |-> by]]
  BY DEF Sends, NextSave
<1>2. /\ pending' = [pending EXCEPT ![p] = None] /\ saved' = saved
      /\ excused' = IF InFlight(p) # {} THEN excused \cup {p}
                    ELSE IF c = session[p] /\ c # saved[p] THEN excused \ {p} ELSE excused
  BY DEF Sends
<1>3. /\ save' \in [Save -> Calls] /\ save[s].state = "free"
      /\ save'[s].state = "sent" /\ save'[s].project = p /\ save'[s].content = c
      /\ save'[s].by = by /\ \A t \in Save : t # s => save'[t] = save[t]
  <2> DEFINE new == [state |-> "sent", project |-> p, content |-> c, by |-> by]
  <2>1. /\ new \in Calls /\ new.state = "sent" /\ new.project = p
        /\ new.content = c /\ new.by = by
    BY <1>0, Sent
  <2>2. save' = [save EXCEPT ![s] = new]
    BY <1>1
  <2> HIDE DEF new
  <2>3. save \in [Save -> Calls]
    BY Parts DEF SyncOK
  <2>4. save[s].state = "free"
    BY <1>1 DEF Free
  <2> QED
    BY <2>1, <2>2, <2>3, <2>4
<1>11. /\ InFlight(p)' = InFlight(p) \cup {s}
       /\ \A q \in Project : q # p => InFlight(q)' = InFlight(q)
  BY <1>3 DEF InFlight
<1>4. /\ pending' \in [Project -> MaybeContent] /\ pending'[p] = None
      /\ \A q \in Project : q # p => pending'[q] = pending[q]
  BY <1>0, <1>2, Parts DEF SyncOK
<1>5. SyncOK' /\ excused' \subseteq Project
  BY <1>2, <1>3, <1>4, Parts DEF SyncOK, HostOK
<1>6. Loaded' = Loaded
  BY LoadedSame
<1>7. ASSUME NEW q \in Project, q # p PROVE KeptInv(q)'
  <2>1. /\ q \in excused' <=> q \in excused
        /\ InFlight(q)' = InFlight(q) /\ pending'[q] = pending[q]
    BY <1>2, <1>7, <1>11
  <2>2. \A t \in InFlight(q) : save'[t] = save[t]
    BY <1>3 DEF InFlight
  <2> QED
    BY <1>2, <1>6, <2>1, <2>2, Parts DEF KeptInv
<1>8. KeptInv(p)'
  <2>1. SUFFICES ASSUME p \notin excused' PROVE KeptInv(p)'
    BY DEF KeptInv
  <2>2. InFlight(p) = {}
    BY <1>2, <2>1
  <2>3. c = session[p] /\ (saved[p] = session[p] => host[p] = session[p])
    <3>1. CASE p \in excused
      BY <1>2, <2>1, <3>1
    <3>2. CASE p \notin excused
      BY <1>0, <3>2, Parts DEF KeptInv
    <3> QED
      BY <3>1, <3>2
  <2>4. InFlight(p)' = {s}
    BY <1>11, <2>2
  <2> QED
    BY <1>2, <1>3, <1>4, <2>3, <2>4 DEF KeptInv
<1>9. \A q \in Project : pending'[q] # None => q \in Loaded
  BY <1>4, Parts DEF LoadedInv
<1>10. ASSUME NEW t \in Save, save[t].state = "refused" PROVE save[t].project \in excused'
  <2>1. save[t].project \in excused /\ save[t].project \in Loaded
    BY <1>10, Parts DEF SaveInv
  <2>2. CASE save[t].project = p
    <3>1. t \in InFlight(p)
      BY <1>10, <2>2 DEF InFlight
    <3> QED
      BY <1>2, <2>2, <3>1
  <2> QED
    BY <1>2, <2>1, <2>2
<1> QED
  BY <1>1, <1>2, <1>3, <1>5, <1>7, <1>8, <1>9, <1>10

\* A save goes out that a flow awaits, or nobody.
LEMMA SavesSend ==
  ASSUME IInv, UNCHANGED session, NEW s \in Save, NEW p \in Loaded,
         NEW c \in Content,
         NEW by \in Flow \cup {None},
         save'[s].state = "sent", save'[s].project = p, save'[s].content = c,
         save'[s].by = by, save[s] = Free, \A t \in Save : t # s => save'[t] = save[t],
         \A t \in Save : save[t].state = "refused" => save[t].project \in excused',
         \A g \in Flow : g # by => flow'[g] = flow[g],
         by # None => /\ flow[by].pc # "flushing" /\ flow'[by].pc = "flushing"
                      /\ flow'[by].kind = "switch" => flow'[by].from = p
  PROVE  \A t \in Save : SaveInv(t)'
<1>1. Loaded' = Loaded
  BY LoadedSame
<1>2. ASSUME NEW t \in Save, NEW g \in Flow, save[t].by = g PROVE g # by
  BY <1>2, Parts, Nothing DEF SaveInv
<1>3. save[s].by = None
  BY DEF Free
<1>4. ASSUME NEW t \in Save, t # s PROVE SaveInv(t)'
  <2>1. /\ save'[t].state = "free" => save'[t] = Free
        /\ save'[t].state # "free" => save'[t].project \in Loaded /\ save'[t].content # None
        /\ save'[t].state = "refused" => save'[t].project \in excused'
    BY <1>4, Parts DEF SaveInv
  <2>2. ASSUME NEW g \in Flow, save'[t].by = g
        PROVE  /\ flow'[g].pc = "flushing"
               /\ flow'[g].kind = "switch" => save'[t].project = flow'[g].from
               /\ \A u \in Save : save'[u].by = g => t = u
    <3>1. save[t].by = g /\ g # by /\ flow'[g] = flow[g]
      BY <1>2, <1>4, <2>2
    <3>2. /\ flow[g].pc = "flushing"
          /\ flow[g].kind = "switch" => save[t].project = flow[g].from
          /\ \A u \in Save : save[u].by = g => t = u
      BY <3>1, Parts DEF SaveInv
    <3> QED
      BY <1>4, <3>1, <3>2
  <2> QED
    BY <1>1, <2>1, <2>2 DEF SaveInv
<1>5. SaveInv(s)'
  <2>1. ASSUME NEW g \in Flow, save'[s].by = g
        PROVE  /\ flow'[g].pc = "flushing"
               /\ flow'[g].kind = "switch" => save'[s].project = flow'[g].from
               /\ \A u \in Save : save'[u].by = g => s = u
    <3>1. by = g /\ by # None
      BY <2>1, Nothing
    <3> QED
      BY <1>2, <3>1
  <2> QED
    BY <1>1, <2>1, Nothing DEF SaveInv
<1> QED
  BY <1>4, <1>5

-------------------------------------------------------------------------------
(* What a step does to the flows: one ends, goes on, starts; none does.      *)

Flushers == {"switch", "create", "archive", "flush"}
AfterPc(kind) == IF kind = "switch" THEN "opening" ELSE IF kind = "create" THEN "creating"
                 ELSE IF kind = "archive" THEN "archiving" ELSE "draining"
Like(q, r) == /\ q.kind = r.kind /\ q.target = r.target /\ q.from = r.from
              /\ q.touched = r.touched /\ q.answer = r.answer /\ q.dialog = r.dialog
              /\ q.fresh = r.fresh

LEMMA FlowStays ==
  ASSUME NEW g \in Flow, FlowInv(g), Loaded \subseteq Loaded',
         flow[g].kind \in {"switch", "boot", "create", "archive"} =>
           (host'[flow[g].target] = None <=> host[flow[g].target] = None),
         /\ flow'[g].kind = flow[g].kind /\ flow'[g].pc = flow[g].pc
         /\ flow'[g].target = flow[g].target /\ flow'[g].from = flow[g].from
         /\ flow'[g].answer = flow[g].answer,
         flow'[g].touched => flow[g].touched \/ flow[g].target \in Loaded',
         \A h \in Flow :
           /\ flow[g].kind = "create" /\ flow'[h].kind = "create"
           /\ flow'[h].target = flow[g].target
           => flow[h].kind = "create" /\ flow[h].target = flow[g].target
  PROVE  FlowInv(g)'
BY DEF FlowInv

\* A flow goes on: another place, and perhaps an answer.
LEMMA Moved ==
  ASSUME NEW r \in Flows, NEW pc \in Pcs, NEW q, q = [r EXCEPT !.pc = pc]
  PROVE  q \in Flows /\ q.pc = pc /\ Like(q, r)
BY DEF Flows, Like

LEMMA Dones ==
  /\ Done \in Flows /\ Idle \in Flows
  /\ \A r \in {Done, Idle} : /\ r.kind = "none" /\ r.from = None /\ r.target = None
                             /\ r.touched = FALSE /\ r.answer = None
                             /\ r.pc = IF r = Done THEN "done" ELSE "idle"
<1>1. Idle \in Flows
  BY DEF Idle, Flows
<1>2. Done \in Flows /\ Done.pc = "done" /\ Like(Done, Idle)
  BY <1>1, Moved DEF Done
<1>3. Idle.pc = "idle"
  BY DEF Idle
<1> QED
  BY <1>1, <1>2, <1>3 DEF Idle, Like

\* One flow changes, to something that is true of it.
LEMMA FlowMoves ==
  ASSUME FlowOK, \A g \in Flow : FlowInv(g), Loaded \subseteq Loaded',
         \A q \in Project : host'[q] = None <=> host[q] = None,
         NEW f \in Flow, NEW new \in Flows, flow' = [flow EXCEPT ![f] = new],
         flow'[f].kind = "create" =>
           \A g \in Flow : flow[g].kind = "create" /\ flow[g].target = flow'[f].target
                             => f = g,
         FlowInv(f)'
  PROVE  FlowOK' /\ \A g \in Flow : FlowInv(g)'
<1>1. FlowOK' /\ flow'[f] = new /\ \A g \in Flow : g # f => flow'[g] = flow[g]
  BY DEF FlowOK
<1>2. ASSUME NEW g \in Flow, g # f PROVE FlowInv(g)'
  <2>1. FlowInv(g) /\ flow'[g] = flow[g]
    BY <1>2
  <2>2. flow'[g].touched => flow[g].touched \/ flow[g].target \in Loaded'
    BY <2>1
  <2>3. \A h \in Flow :
          /\ flow[g].kind = "create" /\ flow'[h].kind = "create"
          /\ flow'[h].target = flow[g].target
          => flow[h].kind = "create" /\ flow[h].target = flow[g].target
    OBVIOUS
  <2> QED
    <3>1. flow[g].kind \in {"switch", "boot", "create", "archive"} =>
            (host'[flow[g].target] = None <=> host[flow[g].target] = None)
      BY DEF FlowInv
    <3> QED
      BY <3>1, FlowStays
<1> QED
  BY <1>1, <1>2

LEMMA FlowsSame ==
  ASSUME FlowOK, \A g \in Flow : FlowInv(g), Loaded \subseteq Loaded',
         \A q \in Project : host'[q] = None <=> host[q] = None, UNCHANGED flow
  PROVE  FlowOK' /\ (\A g \in Flow : FlowInv(g)') /\ \A g \in Flow : flow'[g] = flow[g]
<1>1. ASSUME NEW g \in Flow PROVE FlowInv(g)'
  <2>1. flow[g].kind \in {"switch", "boot", "create", "archive"} =>
          (host'[flow[g].target] = None <=> host[flow[g].target] = None)
    BY DEF FlowInv
  <2> QED
    BY <2>1, FlowStays
<1> QED
  BY <1>1 DEF FlowOK

LEMMA FlowEnds ==
  ASSUME FlowOK, \A g \in Flow : FlowInv(g), Loaded \subseteq Loaded',
         \A q \in Project : host'[q] = None <=> host[q] = None,
         NEW f \in Flow, Ends(f)
  PROVE  FlowOK' /\ (\A g \in Flow : FlowInv(g)') /\ flow'[f] = Done
         /\ \A g \in Flow : g # f => flow'[g] = flow[g]
<1>1. flow' = [flow EXCEPT ![f] = Done] /\ flow'[f] = Done
      /\ \A g \in Flow : g # f => flow'[g] = flow[g]
  BY DEF Ends, FlowOK
<1>2. FlowInv(f)'
  BY <1>1, Dones DEF FlowInv
<1> QED
  BY <1>1, <1>2, Dones, FlowMoves

LEMMA Touched ==
  ASSUME NEW r \in Flows, NEW b \in BOOLEAN,
         NEW q, q = [r EXCEPT !.touched = @ \/ b]
  PROVE  /\ q \in Flows /\ q.kind = r.kind /\ q.pc = r.pc /\ q.target = r.target
         /\ q.from = r.from /\ q.answer = r.answer /\ q.touched = (r.touched \/ b)
BY DEF Flows

LEMMA After ==
  ASSUME FlowOK, StoreOK, NEW f \in Flow, NEW r \in Flows, r.kind \in Flushers,
         AfterFlush(f, r)
  PROVE  /\ switching' \in MaybeProject
         /\ \E new \in Flows : /\ flow' = [flow EXCEPT ![f] = new] /\ flow'[f] = new
                               /\ Like(new, r) /\ new.pc = AfterPc(r.kind)
<1>1. PICK pc \in {"opening", "creating", "archiving", "draining"} :
        flow' = [flow EXCEPT ![f] = [r EXCEPT !.pc = pc]] /\ pc = AfterPc(r.kind)
  BY DEF AfterFlush, AfterPc, Flushers
<1>2. switching' \in MaybeProject
  BY DEF AfterFlush, StoreOK, Flows, Flushers
<1> DEFINE new == [r EXCEPT !.pc = pc]
<1>3. new \in Flows /\ new.pc = pc /\ Like(new, r)
  BY Moved
<1>4. flow' = [flow EXCEPT ![f] = new]
  BY <1>1
<1> HIDE DEF new
<1>5. flow'[f] = new
  BY <1>4 DEF FlowOK
<1> QED
  BY <1>1, <1>2, <1>3, <1>5

-------------------------------------------------------------------------------
(* A flow flushes the project it leaves, for its next step.                  *)

\* What LeftIsStored says of a flow.
Left(f) ==
  LET p == flow'[f].from IN
  /\ flow'[f].kind = "switch" /\ flow'[f].pc = "opening" /\ flow[f].pc # "opening"
  /\ p # None /\ p \notin excused
  => IF flow[f].pc = "flushing"
     THEN \E s \in Save : save[s].by = f /\ host[p] = save[s].content
     ELSE host[p] = session[p]

LEMMA Stays == ASSUME NEW g, flow'[g].pc = "opening" =>
                        flow[g].pc = "opening" \/ flow'[g].kind # "switch"
               PROVE  Left(g)
BY DEF Left

LEMMA QueuedIsSeen ==
  ASSUME IInv, NEW p \in Loaded
  PROVE  /\ Queued(p, session[p]) \in MaybeContent
         /\ p \notin excused => Queued(p, session[p]) \in {None, session[p]}
         /\ Queued(p, session[p]) = None => pending[p] = None /\ saved[p] = session[p]
<1>1. p \in Project /\ session[p] \in Content
  BY Parts DEF Loaded, StoreOK
<1>2. pending[p] \in MaybeContent /\ (p \notin excused => pending[p] \in {None, session[p]})
  BY <1>1, Parts DEF SyncOK, KeptInv
<1> QED
  BY <1>1, <1>2, Nothing DEF Queued

LEMMA FlushSends ==
  ASSUME IInv, UNCHANGED <<session, host>>, NEW f \in Flow, NEW p \in Loaded,
         NEW r \in Flows, r.kind = "switch" => r.from = p, flow[f].pc # "flushing",
         Queued(p, session[p]) # None, Sends(p, Queued(p, session[p]), f),
         flow' = [flow EXCEPT ![f] = [r EXCEPT !.pc = "flushing"]]
  PROVE  /\ SyncOK' /\ excused' \subseteq Project
         /\ \A q \in Project : KeptInv(q)' /\ (pending'[q] # None => q \in Loaded)
         /\ \A s \in Save : SaveInv(s)'
         /\ \E new \in Flows : /\ flow' = [flow EXCEPT ![f] = new] /\ flow'[f] = new
                               /\ Like(new, r) /\ new.pc = "flushing"
<1> DEFINE new == [r EXCEPT !.pc = "flushing"]
           c == Queued(p, session[p])
<1>1. new \in Flows /\ new.pc = "flushing" /\ Like(new, r)
  BY Moved
<1>2. flow' = [flow EXCEPT ![f] = new]
  OBVIOUS
<1> HIDE DEF new
<1>3. flow'[f] = new /\ \A g \in Flow : g # f => flow'[g] = flow[g]
  BY <1>2, Parts DEF FlowOK
<1>4. c \in Content /\ (p \notin excused => c = session[p])
  BY QueuedIsSeen
<1> HIDE DEF c
<1>5. Sends(p, c, f)
  BY DEF c
<1>6. /\ SyncOK' /\ excused' \subseteq Project
      /\ \A q \in Project : KeptInv(q)' /\ (pending'[q] # None => q \in Loaded)
      /\ \A t \in Save : save[t].state = "refused" => save[t].project \in excused'
  BY <1>4, <1>5, Sending
<1>7. PICK s \in Save : /\ save[s] = Free
                        /\ save'[s].state = "sent" /\ save'[s].project = p
                        /\ save'[s].content = c /\ save'[s].by = f
                        /\ \A t \in Save : t # s => save'[t] = save[t]
  BY <1>4, <1>5, Sending
<1>8. flow'[f].pc = "flushing" /\ (flow'[f].kind = "switch" => flow'[f].from = p)
  BY <1>1, <1>3
<1>9. \A t \in Save : SaveInv(t)'
  BY <1>4, <1>6, <1>7, <1>8, SavesSend
<1> QED
  BY <1>1, <1>3, <1>6, <1>9

LEMMA FlushSkips ==
  ASSUME IInv, UNCHANGED <<session, host, sync, excused>>, NEW f \in Flow,
         NEW r \in Flows,
         r.kind \in Flushers, flow[f].pc # "flushing", AfterFlush(f, r)
  PROVE  /\ SyncOK' /\ excused' \subseteq Project
         /\ \A q \in Project : KeptInv(q)' /\ (pending'[q] # None => q \in Loaded)
         /\ \A s \in Save : SaveInv(s)'
<1>1. \A g \in Flow : g # f => flow'[g] = flow[g]
  BY Parts, After DEF FlowOK
<1>2. SyncOK' /\ excused' \subseteq Project
  BY Parts DEF SyncOK, HostOK
<1>3. \A q \in Project : KeptInv(q)' /\ (pending'[q] # None => q \in Loaded)
  BY Parts, KeptSame DEF LoadedInv
<1>4. \A s \in Save : SaveInv(s)'
  BY <1>1, Parts, LoadedSame, SavesSame
<1> QED
  BY <1>2, <1>3, <1>4

LEMMA Begins ==
  ASSUME IInv, UNCHANGED <<session, host>>,
         NEW f \in Flow, flow[f].pc # "flushing",
         NEW r \in Flows, r.kind \in Flushers, NEW p \in Loaded \cup {None}, Flushes(f, p, r),
         r.kind = "switch" => p = active,
         r.from = (IF r.kind = "switch" THEN active ELSE None),
         r.touched = FALSE, r.answer = None,
         r.kind # "flush" =>
           r.target \in Project /\ (host[r.target] = None <=> r.kind = "create"),
         r.kind = "create" =>
           \A g \in Flow : flow[g].kind = "create" => flow[g].target # r.target
  PROVE  /\ SyncOK' /\ excused' \subseteq Project /\ switching' \in MaybeProject
         /\ \A q \in Project : KeptInv(q)' /\ (pending'[q] # None => q \in Loaded)
         /\ \A s \in Save : SaveInv(s)'
         /\ FlowOK' /\ \A g \in Flow : FlowInv(g)'
         /\ \A g \in Flow : g # f => flow'[g] = flow[g]
         /\ \A g \in Flow : Left(g)
<1> DEFINE c == IF p = None THEN None ELSE Queued(p, session[p])
<1>2. \/ /\ c # None /\ Sends(p, c, f) /\ UNCHANGED switching
         /\ flow' = [flow EXCEPT ![f] = [r EXCEPT !.pc = "flushing"]]
      \/ c = None /\ AfterFlush(f, r) /\ UNCHANGED <<sync, excused>>
  BY DEF Flushes
<1>3. ASSUME c # None, Sends(p, c, f), UNCHANGED switching,
             flow' = [flow EXCEPT ![f] = [r EXCEPT !.pc = "flushing"]]
      PROVE  /\ SyncOK' /\ excused' \subseteq Project /\ switching' \in MaybeProject
             /\ \A q \in Project : KeptInv(q)' /\ (pending'[q] # None => q \in Loaded)
             /\ \A s \in Save : SaveInv(s)'
             /\ \E new \in Flows : /\ flow' = [flow EXCEPT ![f] = new] /\ flow'[f] = new
                                   /\ Like(new, r) /\ new.pc = "flushing"
  <2>1. p \in Loaded /\ c = Queued(p, session[p]) /\ (r.kind = "switch" => r.from = p)
    BY <1>3
  <2>2. switching' \in MaybeProject
    BY <1>3, Parts DEF StoreOK
  <2> HIDE DEF c
  <2> QED
    BY <1>3, <2>1, <2>2, FlushSends
<1>4. ASSUME c = None, AfterFlush(f, r), UNCHANGED <<sync, excused>>
      PROVE  /\ SyncOK' /\ excused' \subseteq Project /\ switching' \in MaybeProject
             /\ \A q \in Project : KeptInv(q)' /\ (pending'[q] # None => q \in Loaded)
             /\ \A s \in Save : SaveInv(s)'
             /\ \E new \in Flows : /\ flow' = [flow EXCEPT ![f] = new] /\ flow'[f] = new
                                   /\ Like(new, r) /\ new.pc = AfterPc(r.kind)
  BY <1>4, Parts, After, FlushSkips
<1>5. PICK new \in Flows : /\ flow' = [flow EXCEPT ![f] = new] /\ flow'[f] = new
                           /\ Like(new, r) /\ new.pc \in {"flushing", AfterPc(r.kind)}
                           /\ new.pc = "flushing" \/ (c = None /\ UNCHANGED <<sync, excused>>)
  BY <1>2, <1>3, <1>4
<1>6. \A g \in Flow : g # f => flow'[g] = flow[g]
  BY <1>5
<1>7. /\ new.kind = r.kind /\ new.target = r.target /\ new.touched = FALSE
      /\ new.from = r.from
  BY <1>5 DEF Like
<1>8. ASSUME r.kind = "create", NEW g \in Flow, flow'[g].kind = "create", flow'[g].target = r.target
      PROVE  f = g
  BY <1>6, <1>8
<1>9. FlowInv(f)'
  <2>1. r.kind = "switch" => active \in Loaded \cup {None}
    OBVIOUS
  <2> QED
    BY <1>5, <1>7, LoadedSame DEF FlowInv, AfterPc, Flushers
<1>10. FlowOK' /\ \A g \in Flow : FlowInv(g)'
  <2>1. flow'[f].kind = "create" =>
          \A g \in Flow : flow[g].kind = "create" /\ flow[g].target = flow'[f].target => f = g
    BY <1>5, <1>7
  <2> QED
    BY <1>5, <1>9, <2>1, Parts, LoadedSame, FlowMoves
<1>11. c = None /\ p # None => pending[p] = None /\ saved[p] = session[p]
  BY QueuedIsSeen
<1>12. Left(f)
  <2>1. SUFFICES ASSUME flow'[f].kind = "switch", flow'[f].pc = "opening", active # None,
                        active \notin excused
                 PROVE  host[active] = session[active]
    BY <1>5, <1>7 DEF Left
  <2>2. c = None /\ p = active /\ p \in Loaded /\ p \in Project
    BY <1>5, <1>7, <2>1 DEF Loaded
  <2>3. pending[p] = None /\ saved[p] = session[p]
    BY <1>11, <2>1, <2>2
  <2>4. KeptInv(p)
    BY <2>2, Parts
  <2> QED
    BY <2>1, <2>2, <2>3, <2>4 DEF KeptInv
<1>13. \A g \in Flow : g # f => Left(g)
  BY <1>6, Stays
<1> QED
  BY <1>2, <1>3, <1>4, <1>6, <1>10, <1>12, <1>13

-------------------------------------------------------------------------------
(* Every step preserves the invariant, and leaves only what is stored.       *)

Step == IInv' /\ \A f \in Flow : Left(f)

LEMMA Whole ==
  ASSUME StoreOK', SyncOK', HostOK', FlowOK', LoadedInv', \A s \in Save : SaveInv(s)',
         \A f \in Flow : FlowInv(f)', \A p \in Project : KeptInv(p)'
  PROVE  IInv'
BY DEF IInv, TypeOK

\* A flow that begins with a flush.
LEMMA Beginning ==
  ASSUME IInv, UNCHANGED <<session, active, rest>>, shelved' \subseteq Project,
         busy' \in BOOLEAN, NEW f \in Flow, flow[f].pc # "flushing",
         NEW r \in Flows, r.kind \in Flushers, NEW p \in Loaded \cup {None}, Flushes(f, p, r),
         r.kind = "switch" => p = active,
         r.from = (IF r.kind = "switch" THEN active ELSE None),
         r.touched = FALSE, r.answer = None,
         r.kind # "flush" =>
           r.target \in Project /\ (host[r.target] = None <=> r.kind = "create"),
         r.kind = "create" =>
           \A g \in Flow : flow[g].kind = "create" => flow[g].target # r.target
  PROVE  Step
<1>1. /\ SyncOK' /\ excused' \subseteq Project /\ switching' \in MaybeProject
      /\ \A q \in Project : KeptInv(q)' /\ (pending'[q] # None => q \in Loaded)
      /\ \A s \in Save : SaveInv(s)'
      /\ FlowOK' /\ \A g \in Flow : FlowInv(g)'
      /\ \A g \in Flow : Left(g)
  <2>1. UNCHANGED <<session, host>>
    OBVIOUS
  <2> QED
    BY Begins
<1>2. StoreOK' /\ HostOK'
  BY <1>1, Parts DEF StoreOK, HostOK
<1>3. LoadedInv'
  BY <1>1, LoadedSame, Parts DEF LoadedInv
<1> QED
  BY <1>1, <1>2, <1>3, Whole DEF Step

LEMMA SwitchKeeps ==
  ASSUME IInv, NEW f \in Flow, NEW p \in Project, SwitchProject(f, p) PROVE Step
<1>0. PICK r : r = Start("switch", p, FALSE)
  OBVIOUS
<1>1. /\ r \in Flows /\ r.kind = "switch" /\ r.target = p /\ r.from = active
      /\ r.touched = FALSE /\ r.answer = None
  BY <1>0, Parts DEF Start, Idle, Flows, StoreOK
<1>2. flow[f].pc # "flushing" /\ host[p] # None /\ Flushes(f, active, r)
  BY <1>0, Dones DEF SwitchProject, NextFlow
<1>3. UNCHANGED <<session, active, rest>> /\ shelved' \subseteq Project /\ busy' \in BOOLEAN
  BY Parts DEF SwitchProject, StoreOK
<1>4. active \in Loaded \cup {None}
  BY Parts DEF LoadedInv
<1> QED
  BY <1>1, <1>2, <1>3, <1>4, Beginning DEF Flushers

LEMMA CreateKeeps ==
  ASSUME IInv, NEW f \in Flow, NEW p \in Project, CreateProject(f, p) PROVE Step
<1>0. PICK r : r = Start("create", p, TRUE)
  OBVIOUS
<1>1. /\ r \in Flows /\ r.kind = "create" /\ r.target = p /\ r.from = None
      /\ r.touched = FALSE /\ r.answer = None
  BY <1>0 DEF Start, Idle, Flows
<1>2. /\ flow[f].pc # "flushing" /\ host[p] = None /\ Flushes(f, active, r)
      /\ \A g \in Flow : flow[g].kind = "create" => flow[g].target # p
  BY <1>0, Dones DEF CreateProject, NextFlow
<1>3. UNCHANGED <<session, active, rest>> /\ shelved' \subseteq Project /\ busy' \in BOOLEAN
  BY Parts DEF CreateProject, DialogCalls, StoreOK
<1>4. active \in Loaded \cup {None}
  BY Parts DEF LoadedInv
<1> QED
  BY <1>1, <1>2, <1>3, <1>4, Beginning DEF Flushers

LEMMA ArchiveKeeps ==
  ASSUME IInv, NEW f \in Flow,
         NEW p \in Project, ArchiveProject(f, p) PROVE Step
<1>0. PICK r : r = Start("archive", p, TRUE)
  OBVIOUS
<1> DEFINE q == IF p = active THEN p ELSE None
<1>1. /\ r \in Flows /\ r.kind = "archive" /\ r.target = p /\ r.from = None
      /\ r.touched = FALSE /\ r.answer = None
  BY <1>0 DEF Start, Idle, Flows
<1>2. flow[f].pc # "flushing" /\ host[p] # None /\ Flushes(f, q, r)
  BY <1>0, Dones DEF ArchiveProject, NextFlow
<1>3. UNCHANGED <<session, active, rest>> /\ shelved' \subseteq Project /\ busy' \in BOOLEAN
  BY Parts DEF ArchiveProject, DialogCalls, StoreOK
<1>4. q \in Loaded \cup {None}
  BY Parts DEF LoadedInv
<1> HIDE DEF q
<1> QED
  BY <1>1, <1>2, <1>3, <1>4, Beginning DEF Flushers

LEMMA FlushKeeps == ASSUME IInv, NEW f \in Flow, FlushActive(f) PROVE Step
<1>0. PICK r : r = Start("flush", None, FALSE)
  OBVIOUS
<1>1. /\ r \in Flows /\ r.kind = "flush" /\ r.from = None
      /\ r.touched = FALSE /\ r.answer = None
  BY <1>0 DEF Start, Idle, Flows
<1>2. flow[f].pc # "flushing" /\ Flushes(f, active, r)
  BY <1>0, Dones DEF FlushActive, NextFlow
<1>3. UNCHANGED <<session, active, rest>> /\ shelved' \subseteq Project /\ busy' \in BOOLEAN
  BY Parts DEF FlushActive, StoreOK
<1>4. active \in Loaded \cup {None}
  BY Parts DEF LoadedInv
<1> QED
  BY <1>1, <1>2, <1>3, <1>4, Beginning DEF Flushers

\* A flow that ends: nothing of the sessions changes.
LEMMA Ending ==
  ASSUME IInv, UNCHANGED <<session, sync, host>>,
         NEW f \in Flow, flow[f].pc # "flushing",
         Ends(f), StoreOK', HostOK', excused \subseteq excused',
         active' \in Loaded \cup {None}
  PROVE  Step
<1>1. /\ FlowOK' /\ (\A g \in Flow : FlowInv(g)') /\ flow'[f] = Done
      /\ \A g \in Flow : g # f => flow'[g] = flow[g]
  BY Parts, LoadedSame, FlowEnds
<1>2. SyncOK' /\ LoadedInv'
  BY Parts, LoadedSame DEF SyncOK, LoadedInv
<1>3. \A s \in Save : SaveInv(s)'
  BY <1>1, Parts, LoadedSame, SavesSame
<1>4. \A p \in Project : KeptInv(p)'
  BY Parts, KeptSame
<1>5. \A g \in Flow : Left(g)
  BY <1>1, Dones, Stays
<1> QED
  BY <1>1, <1>2, <1>3, <1>4, <1>5, Whole DEF Step

LEMMA ArchivedKeeps == ASSUME IInv, NEW f \in Flow, ProjectArchived(f) PROVE Step
<1>1. /\ flow[f].pc = "archived" /\ shelved' = shelved \cup {flow[f].target}
      /\ busy' = FALSE /\ UNCHANGED <<session, active, rest>>
  BY DEF ProjectArchived, DialogResets
<1>2. flow[f].target \in MaybeProject /\ flow[f].kind = "archive"
  BY <1>1, Parts DEF FlowInv
<1>3. flow[f].target \in Project
  BY <1>2, Parts DEF FlowInv
<1>4. shelved' \subseteq Project /\ busy' \in BOOLEAN
  BY <1>1, <1>3, Parts DEF StoreOK
<1>5. active \in Loaded \cup {None}
  BY Parts DEF LoadedInv
<1>6. ASSUME Ends(f), UNCHANGED <<switching, sync, excused>> PROVE Step
  <2>1. StoreOK' /\ HostOK'
    BY <1>1, <1>4, <1>6, Parts DEF StoreOK, HostOK
  <2> QED
    BY <1>1, <1>5, <1>6, <2>1, Ending
<1>7. ASSUME NEW p \in Project, host[p] # None, Flushes(f, active, Start("switch", p, TRUE))
      PROVE  Step
  <2>0. PICK r : r = Start("switch", p, TRUE)
    OBVIOUS
  <2>1. /\ r \in Flows /\ r.kind = "switch" /\ r.target = p /\ r.from = active
        /\ r.touched = FALSE /\ r.answer = None
    BY <2>0, Parts DEF Start, Idle, Flows, StoreOK
  <2>2. Flushes(f, active, r)
    BY <1>7, <2>0
  <2> QED
    BY <1>1, <1>4, <1>5, <1>7, <2>1, <2>2, Beginning DEF Flushers
<1> QED
  BY <1>6, <1>7 DEF ProjectArchived

\* A queued save goes out that no flow awaits.
LEMMA SendsAlone ==
  ASSUME IInv, UNCHANGED <<store, flow, rest>>,
         NEW p \in Project, pending[p] # None,
         Sends(p, pending[p], None)
  PROVE  Step
<1>1. p \in Loaded /\ pending[p] \in Content
  BY Parts DEF LoadedInv, SyncOK
<1>2. p \notin excused => pending[p] = session[p]
  BY <1>1, Parts DEF KeptInv
<1> DEFINE c == pending[p]
<1> HIDE DEF c
<1>3. c \in Content /\ Sends(p, c, None) /\ (p \notin excused => c = session[p])
  BY <1>1, <1>2 DEF c
<1>4. /\ SyncOK' /\ excused' \subseteq Project
      /\ \A q \in Project : KeptInv(q)' /\ (pending'[q] # None => q \in Loaded)
      /\ \A t \in Save : save[t].state = "refused" => save[t].project \in excused'
  BY <1>1, <1>3, Sending
<1>5. PICK s \in Save : /\ save[s] = Free
                        /\ save'[s].state = "sent" /\ save'[s].project = p
                        /\ save'[s].content = c /\ save'[s].by = None
                        /\ \A t \in Save : t # s => save'[t] = save[t]
  BY <1>1, <1>3, Sending
<1>6. \A t \in Save : SaveInv(t)'
  BY <1>1, <1>3, <1>4, <1>5, SavesSend
<1>7. FlowOK' /\ (\A g \in Flow : FlowInv(g)') /\ \A g \in Flow : Left(g)
  BY Parts, LoadedSame, FlowsSame, Stays
<1>8. StoreOK' /\ HostOK' /\ LoadedInv'
  BY <1>4, Parts, LoadedSame DEF StoreOK, HostOK, LoadedInv
<1> QED
  BY <1>4, <1>6, <1>7, <1>8, Whole DEF Step

LEMMA TimerKeeps == ASSUME IInv, NEW p \in Project, TimerFires(p) PROVE Step
BY SendsAlone DEF TimerFires

LEMMA FlushAllKeeps == ASSUME IInv, NEW f \in Flow, FlushAll(f) PROVE Step
<1>1. ASSUME Ends(f), UNCHANGED <<sync, excused>>, UNCHANGED <<store, rest>>,
             flow[f].pc = "draining"
      PROVE  Step
  <2>1. StoreOK' /\ HostOK' /\ active' \in Loaded \cup {None}
    BY <1>1, Parts DEF StoreOK, HostOK, LoadedInv
  <2>2. UNCHANGED <<session, sync, host>> /\ flow[f].pc # "flushing"
    BY <1>1
  <2> QED
    BY <1>1, <2>1, Ending
<1> QED
  BY <1>1, SendsAlone DEF FlushAll

LEMMA FailedKeeps == ASSUME IInv, NEW f \in Flow, OpenFailed(f) PROVE Step
<1>1. /\ flow[f].pc = "failed" /\ Ends(f) /\ UNCHANGED <<session, shelved, sync, rest, excused>>
      /\ active' \in {active, None} /\ busy' \in BOOLEAN
  BY DEF OpenFailed, Frees
<1>2. switching' \in MaybeProject
  BY Parts DEF OpenFailed, CancelsSwitch, StoreOK
<1>3. StoreOK' /\ HostOK' /\ active' \in Loaded \cup {None}
  BY <1>1, <1>2, Parts DEF StoreOK, HostOK, LoadedInv
<1>4. UNCHANGED <<session, sync, host>> /\ flow[f].pc # "flushing"
  BY <1>1
<1> QED
  BY <1>1, <1>3, Ending

LEMMA RestoreKeeps == ASSUME IInv, NEW p \in Project, RestoreProject(p) PROVE Step
<1>1. UNCHANGED <<session, active, switching, busy, sync, flow, host, edits, failures, excused>>
      /\ archived' \subseteq Project /\ shelved' \subseteq Project
  BY Parts DEF RestoreProject, StoreOK, HostOK
<1>2. StoreOK' /\ HostOK' /\ SyncOK' /\ LoadedInv'
  BY <1>1, Parts, LoadedSame DEF StoreOK, HostOK, SyncOK, LoadedInv
<1>3. FlowOK' /\ (\A g \in Flow : FlowInv(g)') /\ \A g \in Flow : Left(g)
  BY <1>1, Parts, LoadedSame, FlowsSame, Stays
<1>4. \A s \in Save : SaveInv(s)'
  BY <1>1, Parts, LoadedSame, SavesSame
<1>5. \A q \in Project : KeptInv(q)'
  BY <1>1, Parts, KeptSame
<1> QED
  BY <1>2, <1>3, <1>4, <1>5, Whole DEF Step

\* A flow goes on: its record changes, and what the sessions hold does not.
LEMMA GoingOn ==
  ASSUME IInv, UNCHANGED <<session, sync, excused>>, NEW f \in Flow,
         flow[f].pc \notin {"flushing", "idle"},
         NEW new \in Flows, flow' = [flow EXCEPT ![f] = new],
         new.pc # "opening", new.kind = flow[f].kind, new.target = flow[f].target,
         StoreOK', HostOK', active' = active, UNCHANGED host, FlowInv(f)'
  PROVE  Step
<1>1. flow'[f] = new /\ \A g \in Flow : g # f => flow'[g] = flow[g]
  BY Parts DEF FlowOK
<1>2. flow'[f].kind = "create" =>
        \A g \in Flow : flow[g].kind = "create" /\ flow[g].target = flow'[f].target => f = g
  BY DEF FlowInv
<1>3. FlowOK' /\ \A g \in Flow : FlowInv(g)'
  BY <1>2, Parts, LoadedSame, FlowMoves
<1>4. SyncOK' /\ LoadedInv'
  BY Parts, LoadedSame DEF SyncOK, LoadedInv
<1>5. \A s \in Save : SaveInv(s)'
  BY Parts, LoadedSame, SavesSame
<1>6. \A p \in Project : KeptInv(p)'
  BY Parts, KeptSame
<1>7. \A g \in Flow : Left(g)
  BY Stays
<1> QED
  BY <1>3, <1>4, <1>5, <1>6, <1>7, Whole DEF Step

LEMMA ArchivesKeeps == ASSUME IInv, NEW f \in Flow, HostArchives(f) PROVE Step
<1>1. /\ flow[f].pc = "archiving" /\ flow[f] \in Flows
      /\ UNCHANGED <<session, active, switching, shelved, sync, host, edits, excused>>
  BY Parts DEF HostArchives, FlowOK
<1>2. flow[f].kind = "archive" /\ flow[f].target \in Project
  BY <1>1, Parts DEF FlowInv
<1>3. ASSUME archived' = archived \cup {flow[f].target}, Goes(f, "archived"),
             UNCHANGED <<failures, busy>>
      PROVE  Step
  <2> DEFINE new == [flow[f] EXCEPT !.pc = "archived"]
  <2>1. new \in Flows /\ new.pc = "archived" /\ Like(new, flow[f])
    BY <1>1, Moved
  <2>2. flow' = [flow EXCEPT ![f] = new]
    BY <1>3 DEF Goes
  <2> HIDE DEF new
  <2>3. flow'[f] = new
    BY <2>2, Parts DEF FlowOK
  <2>4. FlowInv(f)'
    <3>1. FlowInv(f)
      BY Parts
    <3> QED
      BY <1>1, <2>1, <2>3, <3>1, LoadedSame DEF FlowInv, Like
  <2>5. StoreOK' /\ HostOK'
    BY <1>1, <1>2, <1>3, Parts DEF StoreOK, HostOK
  <2> QED
    BY <1>1, <2>1, <2>2, <2>4, <2>5, GoingOn DEF Like
<1>4. ASSUME Ends(f), Frees(f), UNCHANGED archived, failures < MaxFailures,
             failures' = failures + 1
      PROVE  Step
  <2>1. StoreOK'
    BY <1>1, <1>4, Parts DEF StoreOK, Frees
  <2>2. HostOK'
    BY <1>1, <1>4, Parts, SessionsAssumption DEF HostOK
  <2>3. active' \in Loaded \cup {None} /\ flow[f].pc # "flushing"
    BY <1>1, Parts DEF LoadedInv
  <2> QED
    BY <1>1, <1>4, <2>1, <2>2, <2>3, Ending
<1> QED
  BY <1>3, <1>4 DEF HostArchives

LEMMA OpensKeeps == ASSUME IInv, NEW f \in Flow, HostOpens(f) PROVE Step
<1>1. /\ flow[f].pc = "opening" /\ flow[f] \in Flows
      /\ UNCHANGED <<store, sync, host, archived, edits, excused>>
  BY Parts DEF HostOpens, FlowOK
<1>2. flow[f].target \in Project /\ host[flow[f].target] \in Content
  BY <1>1, Parts DEF FlowInv, HostOK
<1>3. StoreOK' /\ HostOK'
  BY Parts, SessionsAssumption DEF StoreOK, HostOK, HostOpens
<1>4. PICK new \in Flows :
        /\ flow' = [flow EXCEPT ![f] = new] /\ new.pc \in {"opened", "failed"}
        /\ new.kind = flow[f].kind /\ new.target = flow[f].target
        /\ new.from = flow[f].from /\ new.touched = flow[f].touched
        /\ new.pc = "opened" => new.answer # None
  <2>1. ASSUME flow' = [flow EXCEPT ![f].pc = "opened", ![f].answer = host[flow[f].target]]
        PROVE  \E new \in Flows :
                 /\ flow' = [flow EXCEPT ![f] = new] /\ new.pc \in {"opened", "failed"}
                 /\ new.kind = flow[f].kind /\ new.target = flow[f].target
                 /\ new.from = flow[f].from /\ new.touched = flow[f].touched
                 /\ new.pc = "opened" => new.answer # None
    <3> DEFINE new == [flow[f] EXCEPT !.pc = "opened", !.answer = host[flow[f].target]]
    <3>1. flow' = [flow EXCEPT ![f] = new]
      BY <2>1
    <3>2. new \in Flows
      BY <1>1, <1>2 DEF Flows
    <3>3. /\ new.pc = "opened" /\ new.answer # None
          /\ new.kind = flow[f].kind /\ new.target = flow[f].target
          /\ new.from = flow[f].from /\ new.touched = flow[f].touched
      BY <1>2, Nothing
    <3> QED
      BY <3>1, <3>2, <3>3
  <2>2. ASSUME Goes(f, "failed")
        PROVE  \E new \in Flows :
                 /\ flow' = [flow EXCEPT ![f] = new] /\ new.pc \in {"opened", "failed"}
                 /\ new.kind = flow[f].kind /\ new.target = flow[f].target
                 /\ new.from = flow[f].from /\ new.touched = flow[f].touched
                 /\ new.pc = "opened" => new.answer # None
    <3> DEFINE new == [flow[f] EXCEPT !.pc = "failed"]
    <3>1. flow' = [flow EXCEPT ![f] = new]
      BY <2>2 DEF Goes
    <3>2. new \in Flows /\ new.pc = "failed" /\ Like(new, flow[f])
      BY <1>1, Moved
    <3> QED
      BY <3>1, <3>2 DEF Like
  <2> QED
    BY <2>1, <2>2 DEF HostOpens
<1>5. flow'[f] = new
  BY <1>4, Parts DEF FlowOK
<1>6. FlowInv(f)'
  <2>1. FlowInv(f)
    BY Parts
  <2> QED
    BY <1>1, <1>4, <2>1, LoadedSame DEF FlowInv
<1> QED
  BY <1>1, <1>3, <1>4, <1>6, GoingOn

\* The host serves a save: its state and its project's session change.
LEMMA StoresKeeps == ASSUME IInv, NEW s \in Save, HostStores(s) PROVE Step
<1> DEFINE p == save[s].project
<1>1. /\ save[s] \in Calls /\ save[s].state = "sent" /\ p \in Loaded /\ p \in Project
      /\ save[s].content \in Content
  BY Parts DEF HostStores, SaveInv, SyncOK, Loaded, Calls
<1>2. /\ host' = [host EXCEPT ![p] = save[s].content]
      /\ save' = [save EXCEPT ![s].state = "stored"]
      /\ UNCHANGED <<store, pending, saved, flow, archived, edits, failures, excused>>
  BY DEF HostStores
<1>3. /\ save' \in [Save -> Calls] /\ save'[s].state = "stored" /\ save'[s].project = p
      /\ save'[s].content = save[s].content /\ save'[s].by = save[s].by
      /\ \A t \in Save : t # s => save'[t] = save[t]
  BY <1>2, Parts DEF SyncOK, Calls
<1> HIDE DEF p
<1>4. /\ host' \in [Project -> MaybeContent] /\ host'[p] = save[s].content
      /\ \A q \in Project : q # p => host'[q] = host[q]
  BY <1>1, <1>2, Parts DEF HostOK
<1>5. host[p] # None
  BY <1>1, Parts DEF LoadedInv
<1>6. \A q \in Project : host'[q] = None <=> host[q] = None
  BY <1>1, <1>4, <1>5, Nothing
<1>7. StoreOK' /\ SyncOK' /\ HostOK' /\ LoadedInv'
  BY <1>2, <1>3, <1>4, <1>6, Parts, LoadedSame
     DEF StoreOK, SyncOK, HostOK, LoadedInv
<1>8. FlowOK' /\ (\A g \in Flow : FlowInv(g)') /\ \A g \in Flow : Left(g)
  BY <1>2, <1>6, Parts, LoadedSame, FlowsSame, Stays
<1>9. ASSUME NEW t \in Save PROVE SaveInv(t)'
  <2>1. /\ save'[t].project = save[t].project /\ save'[t].content = save[t].content
        /\ \A u \in Save : save'[u].by = save[u].by
        /\ save'[t].state = "free" => save[t].state = "free" /\ save'[t] = save[t]
        /\ save'[t].state # "free" => save[t].state # "free"
        /\ save'[t].state = "refused" => save[t].state = "refused"
    BY <1>1, <1>3 DEF p
  <2>2. SaveInv(t) /\ Loaded' = Loaded
    BY <1>2, Parts, LoadedSame
  <2> QED
    BY <1>2, <2>1, <2>2 DEF SaveInv
<1>10. ASSUME NEW q \in Project PROVE KeptInv(q)'
  <2>1. InFlight(q)' = InFlight(q) /\ (q = p => s \in InFlight(q)) /\ Loaded' = Loaded
    BY <1>1, <1>2, LoadedSame DEF InFlight, p
  <2>2. KeptInv(q)
    BY Parts
  <2>3. CASE q = p
    BY <1>2, <1>4, <2>1, <2>2, <2>3 DEF KeptInv
  <2>4. CASE q # p
    <3>1. \A t \in InFlight(q) : save'[t] = save[t]
      BY <1>3, <2>4 DEF InFlight, p
    <3>2. host'[q] = host[q]
      BY <1>4, <2>4
    <3> QED
      BY <1>2, <2>1, <2>2, <3>1, <3>2 DEF KeptInv
  <2> QED
    BY <2>3, <2>4
<1> QED
  BY <1>7, <1>8, <1>9, <1>10, Whole DEF Step

LEMMA RefusesKeeps == ASSUME IInv, NEW s \in Save, HostRefuses(s) PROVE Step
<1> DEFINE p == save[s].project
<1>1. /\ save[s] \in Calls /\ save[s].state = "sent" /\ p \in Loaded /\ p \in Project
  BY Parts DEF HostRefuses, SaveInv, SyncOK, Loaded
<1>2. /\ excused' = excused \cup {p}
      /\ save' = [save EXCEPT ![s].state = "refused"]
      /\ UNCHANGED <<store, pending, saved, flow, host, archived, edits>>
      /\ failures' \in 0..MaxFailures
  BY Parts, SessionsAssumption DEF HostRefuses, HostOK
<1>3. /\ save' \in [Save -> Calls] /\ save'[s].state = "refused" /\ save'[s].project = p
      /\ save'[s].content = save[s].content /\ save'[s].by = save[s].by
      /\ \A t \in Save : t # s => save'[t] = save[t]
  BY <1>2, Parts DEF SyncOK, Calls
<1> HIDE DEF p
<1>4. StoreOK' /\ SyncOK' /\ HostOK' /\ LoadedInv'
  BY <1>1, <1>2, <1>3, Parts, LoadedSame DEF StoreOK, SyncOK, HostOK, LoadedInv
<1>5. FlowOK' /\ (\A g \in Flow : FlowInv(g)') /\ \A g \in Flow : Left(g)
  BY <1>2, Parts, LoadedSame, FlowsSame, Stays
<1>6. ASSUME NEW t \in Save PROVE SaveInv(t)'
  <2>1. /\ save'[t].project = save[t].project /\ save'[t].content = save[t].content
        /\ \A u \in Save : save'[u].by = save[u].by
        /\ save'[t].state = "free" => save[t].state = "free" /\ save'[t] = save[t]
        /\ save'[t].state # "free" => save[t].state # "free"
        /\ save'[t].state = "refused" => save[t].state = "refused" \/ save[t].project = p
    BY <1>1, <1>3 DEF p
  <2>2. SaveInv(t) /\ Loaded' = Loaded
    BY <1>2, Parts, LoadedSame
  <2> QED
    BY <1>2, <2>1, <2>2 DEF SaveInv
<1>7. ASSUME NEW q \in Project PROVE KeptInv(q)'
  <2>1. SUFFICES ASSUME q # p PROVE KeptInv(q)'
    BY <1>2 DEF KeptInv
  <2>2. InFlight(q)' = InFlight(q) /\ Loaded' = Loaded
    BY <1>1, <1>2, LoadedSame DEF InFlight
  <2>3. \A t \in InFlight(q) : save'[t] = save[t]
    BY <1>3, <2>1 DEF InFlight, p
  <2>4. KeptInv(q)
    BY Parts
  <2> QED
    BY <1>2, <2>2, <2>4 DEF KeptInv
<1> QED
  BY <1>4, <1>5, <1>6, <1>7, Whole DEF Step

\* A save comes back, and its flow goes on or ends.
LEMMA ReturnFlows ==
  ASSUME IInv, NEW s \in Save, Returns(s)
  PROVE  /\ switching' \in MaybeProject /\ busy' \in BOOLEAN
         /\ FlowOK' /\ (\A g \in Flow : FlowInv(g)') /\ \A g \in Flow : Left(g)
         /\ \A g \in Flow : g # save[s].by => flow'[g] = flow[g]
<1>0. PICK f : f = save[s].by
  OBVIOUS
<1>1. /\ save[s].state \in {"stored", "refused"} /\ f \in Flow \cup {None}
      /\ UNCHANGED <<session, active, shelved, rest, excused>> /\ SaveInv(s)
  BY <1>0, Parts DEF Returns, SaveReturns, SyncOK, Calls
<1>2. CASE f = None
  <2>1. UNCHANGED <<flow, switching, busy>>
    BY <1>0, <1>2 DEF Returns
  <2> QED
    BY <1>1, <2>1, Parts, LoadedSame, FlowsSame, Stays DEF StoreOK
<1>3. CASE f # None /\ save[s].state = "refused"
  <2>1. Ends(f) /\ Frees(f) /\ UNCHANGED switching /\ f \in Flow
    BY <1>0, <1>1, <1>3 DEF Returns
  <2>2. /\ FlowOK' /\ (\A g \in Flow : FlowInv(g)') /\ flow'[f] = Done
        /\ \A g \in Flow : g # f => flow'[g] = flow[g]
    BY <1>1, <2>1, Parts, LoadedSame, FlowEnds
  <2>3. \A g \in Flow : Left(g)
    BY <2>2, Dones, Stays
  <2> QED
    BY <1>0, <2>1, <2>2, <2>3, Parts DEF StoreOK, Frees
<1>4. CASE f # None /\ save[s].state = "stored"
  <2>1. AfterFlush(f, flow[f]) /\ UNCHANGED busy /\ f \in Flow /\ flow[f] \in Flows
    BY <1>0, <1>1, <1>4, Parts DEF Returns, FlowOK
  <2>2. /\ flow[f].pc = "flushing" /\ flow[f].kind \in Flushers
        /\ flow[f].kind = "switch" => save[s].project = flow[f].from
    BY <1>0, <2>1, Parts DEF SaveInv, FlowInv, Flushers
  <2>3. PICK new \in Flows : /\ flow' = [flow EXCEPT ![f] = new] /\ flow'[f] = new
                             /\ Like(new, flow[f]) /\ new.pc = AfterPc(flow[f].kind)
    BY <2>1, <2>2, Parts, After
  <2>4. FlowInv(f)'
    <3>1. FlowInv(f)
      BY <2>1, Parts
    <3>2. \A g \in Flow : g # f => flow'[g] = flow[g]
      BY <2>3
    <3>3. /\ flow'[f].kind = flow[f].kind /\ flow'[f].target = flow[f].target
          /\ flow'[f].from = flow[f].from /\ flow'[f].touched = flow[f].touched
          /\ flow'[f].pc = AfterPc(flow[f].kind)
      BY <2>3 DEF Like
    <3>4. Loaded' = Loaded /\ host' = host
      BY <1>1, LoadedSame
    <3>5. \A g \in Flow : flow[f].kind = "create" /\ flow'[g].kind = "create"
                         /\ flow'[g].target = flow[f].target => f = g
      BY <3>1, <3>2 DEF FlowInv
    <3> QED
      BY <2>2, <3>1, <3>3, <3>4, <3>5 DEF FlowInv, AfterPc
  <2>5. flow'[f].kind = "create" =>
          \A g \in Flow : flow[g].kind = "create" /\ flow[g].target = flow'[f].target => f = g
    BY <2>1, <2>3, Parts DEF FlowInv, Like
  <2>6. FlowOK' /\ \A g \in Flow : FlowInv(g)'
    <3>1. FlowOK /\ (\A g \in Flow : FlowInv(g)) /\ Loaded' = Loaded /\ host' = host
      BY <1>1, Parts, LoadedSame
    <3> QED
      BY <2>1, <2>3, <2>4, <2>5, <3>1, FlowMoves
  <2>7. \A g \in Flow : g # f => flow'[g] = flow[g]
    BY <2>3
  <2>8. Left(f)
    <3>1. SUFFICES ASSUME flow'[f].kind = "switch", flow'[f].from \notin excused
                   PROVE  save[s].by = f /\ host[flow'[f].from] = save[s].content
      BY <2>2 DEF Left
    <3> DEFINE p == save[s].project
    <3>2. flow'[f].from = p /\ p \in Loaded /\ p \in Project /\ s \in InFlight(p)
      BY <1>1, <2>2, <2>3, <3>1 DEF SaveInv, Like, InFlight, Loaded
    <3>3. KeptInv(p)
      BY <3>2, Parts
    <3> HIDE DEF p
    <3> QED
      BY <1>0, <1>4, <3>1, <3>2, <3>3 DEF KeptInv
  <2>9. switching' \in MaybeProject /\ busy' \in BOOLEAN
    BY <2>1, <2>2, Parts, After DEF StoreOK
  <2> QED
    BY <1>0, <2>6, <2>7, <2>8, <2>9, Stays
<1> QED
  BY <1>1, <1>2, <1>3, <1>4

LEMMA ReturnsKeeps == ASSUME IInv, NEW s \in Save, Returns(s) PROVE Step
<1> DEFINE p == save[s].project
           f == save[s].by
<1>1. /\ save[s] \in Calls /\ save[s].state \in {"stored", "refused"}
      /\ p \in Loaded /\ p \in Project /\ save[s].content \in Content
  BY Parts DEF Returns, SaveReturns, SaveInv, SyncOK, Loaded, Calls
<1>2. /\ saved' = IF save[s].state = "stored" THEN [saved EXCEPT ![p] = save[s].content]
                  ELSE saved
      /\ save' = [save EXCEPT ![s] = Free]
      /\ UNCHANGED <<session, active, shelved, rest, excused, pending>>
  BY DEF Returns, SaveReturns
<1>3. /\ save' \in [Save -> Calls] /\ save'[s] = Free
      /\ \A t \in Save : t # s => save'[t] = save[t]
  BY <1>2, Parts DEF SyncOK, Calls, Free
<1>4. /\ saved' \in [Project -> MaybeContent]
      /\ save[s].state = "stored" => saved'[p] = save[s].content
      /\ \A q \in Project : q # p => saved'[q] = saved[q]
  BY <1>1, <1>2, Parts DEF SyncOK
<1>5. /\ switching' \in MaybeProject /\ busy' \in BOOLEAN
      /\ FlowOK' /\ (\A g \in Flow : FlowInv(g)') /\ \A g \in Flow : Left(g)
      /\ \A g \in Flow : g # f => flow'[g] = flow[g]
  BY ReturnFlows
<1> HIDE DEF p, f
<1>6. StoreOK' /\ SyncOK' /\ HostOK' /\ LoadedInv'
  BY <1>2, <1>3, <1>4, <1>5, Parts, LoadedSame
     DEF StoreOK, SyncOK, HostOK, LoadedInv
<1>7. ASSUME NEW t \in Save PROVE SaveInv(t)'
  <2>1. CASE t = s
    BY <1>3, <2>1, Nothing DEF SaveInv, Free
  <2>2. CASE t # s
    <3>1. save'[t] = save[t] /\ SaveInv(t) /\ Loaded' = Loaded
      BY <1>2, <2>2, Parts, LoadedSame
    <3>2. ASSUME NEW g \in Flow, save'[t].by = g
          PROVE  /\ flow'[g].pc = "flushing"
                 /\ flow'[g].kind = "switch" => save'[t].project = flow'[g].from
                 /\ \A u \in Save : save'[u].by = g => t = u
      <4>1. save[t].by = g /\ g # f
        BY <2>2, <3>1, <3>2 DEF SaveInv, f
      <4>2. \A u \in Save : save'[u].by = g => save[u].by = g
        BY <1>3, Nothing DEF Free
      <4> QED
        BY <1>5, <3>1, <4>1, <4>2 DEF SaveInv
    <3> QED
      BY <1>2, <3>1, <3>2 DEF SaveInv
  <2> QED
    BY <2>1, <2>2
<1>8. ASSUME NEW q \in Project PROVE KeptInv(q)'
  <2>1. Loaded' = Loaded /\ KeptInv(q)
    BY <1>2, Parts, LoadedSame
  <2>2. CASE q # p
    <3>1. InFlight(q)' = InFlight(q) /\ \A t \in InFlight(q) : save'[t] = save[t]
      BY <1>3, <2>2 DEF InFlight, p, Free
    <3> QED
      BY <1>2, <2>1, <2>2, <3>1 DEF KeptInv
  <2>3. CASE q = p
    <3>1. SUFFICES ASSUME q \notin excused' PROVE KeptInv(q)'
      BY DEF KeptInv
    <3>2. q \notin excused /\ s \in InFlight(q) /\ save[s].state = "stored"
      BY <1>1, <1>2, <2>3, <3>1, Parts DEF InFlight, p, SaveInv
    <3>3. InFlight(q)' = {}
      <4>1. \A t \in InFlight(q) : t = s
        BY <1>1, <2>1, <2>3, <3>2 DEF KeptInv
      <4> QED
        BY <1>3, <4>1 DEF InFlight, Free
    <3>4. saved'[q] = host[q] /\ (pending[q] = None => host[q] = session[q])
      BY <1>1, <1>4, <2>1, <2>3, <3>2 DEF KeptInv
    <3>5. UNCHANGED <<session, pending, host>>
      BY <1>2
    <3> QED
      BY <2>1, <3>2, <3>3, <3>4, <3>5 DEF KeptInv
  <2> QED
    BY <2>2, <2>3
<1> QED
  BY <1>5, <1>6, <1>7, <1>8, Whole DEF Step

LEMMA CreatedKeeps == ASSUME IInv, NEW f \in Flow, ProjectCreated(f) PROVE Step
<1>1. /\ flow[f].pc = "creating" /\ flow[f].kind = "create" /\ flow[f] \in Flows
      /\ busy' = FALSE /\ UNCHANGED <<session, active, shelved, sync, archived, edits, excused>>
  BY Parts DEF ProjectCreated, DialogResets, FlowInv, FlowOK
<1>2. flow[f].target \in Project /\ host[flow[f].target] = None
  BY <1>1, Parts DEF FlowInv
<1>3. PICK p \in Project : p = flow[f].target /\ host[p] = None
  BY <1>2
<1>4. p \notin Loaded
  BY <1>3, Parts DEF LoadedInv
<1>5. ASSUME host' = [host EXCEPT ![p] = Blank], switching' = p, Goes(f, "opening"),
             UNCHANGED failures
      PROVE  Step
  <2>1. /\ host' \in [Project -> MaybeContent] /\ host'[p] = Blank /\ Blank # None
        /\ \A q \in Project : q # p => host'[q] = host[q]
    BY <1>5, Parts, SessionsAssumption DEF HostOK
  <2> DEFINE new == [flow[f] EXCEPT !.pc = "opening"]
  <2>2. new \in Flows /\ new.pc = "opening" /\ Like(new, flow[f])
    BY <1>1, Moved
  <2>3. flow' = [flow EXCEPT ![f] = new]
    BY <1>5 DEF Goes
  <2> HIDE DEF new
  <2>4. FlowOK' /\ flow'[f] = new /\ \A g \in Flow : g # f => flow'[g] = flow[g]
    BY <2>2, <2>3, Parts DEF FlowOK
  <2>5. /\ flow'[f].kind = "create" /\ flow'[f].target = p /\ flow'[f].pc = "opening"
        /\ flow'[f].from = flow[f].from /\ flow'[f].touched = flow[f].touched
    BY <1>1, <1>3, <2>2, <2>4 DEF Like
  <2>6. FlowInv(f)'
    <3>1. FlowInv(f) /\ Loaded' = Loaded
      BY <1>1, Parts, LoadedSame
    <3>2. \A g \in Flow : flow'[g].kind = "create" /\ flow'[g].target = p => f = g
      BY <1>1, <1>3, <2>4, <3>1 DEF FlowInv
    <3> QED
      BY <1>3, <2>1, <2>5, <3>1, <3>2 DEF FlowInv
  <2>7. ASSUME NEW g \in Flow, g # f PROVE FlowInv(g)'
    <3>1. FlowInv(g) /\ Loaded' = Loaded /\ flow'[g] = flow[g]
      BY <1>1, <2>4, <2>7, Parts, LoadedSame
    <3>2. \A h \in Flow :
            /\ flow[g].kind = "create" /\ flow'[h].kind = "create"
            /\ flow'[h].target = flow[g].target
            => flow[h].kind = "create" /\ flow[h].target = flow[g].target
      BY <1>1, <1>3, <2>4, <2>5
    <3>3. flow[g].kind \in {"switch", "boot", "create", "archive"} =>
            flow[g].target \in Project /\ flow[g].target # p
      BY <1>1, <1>3, <2>7, Parts DEF FlowInv
    <3> QED
      BY <2>1, <3>1, <3>2, <3>3, FlowStays
  <2>8. StoreOK' /\ SyncOK' /\ HostOK' /\ LoadedInv'
    BY <1>1, <1>5, <2>1, Parts, LoadedSame
       DEF StoreOK, SyncOK, HostOK, LoadedInv
  <2>9. \A s \in Save : SaveInv(s)'
    BY <1>1, <2>4, Parts, LoadedSame, SavesSame
  <2>10. ASSUME NEW q \in Project PROVE KeptInv(q)'
    <3>1. Loaded' = Loaded /\ InFlight(q)' = InFlight(q) /\ KeptInv(q)
      BY <1>1, Parts, LoadedSame DEF InFlight
    <3>2. q \in Loaded => host'[q] = host[q]
      BY <1>4, <2>1
    <3> QED
      BY <1>1, <3>1, <3>2 DEF KeptInv
  <2>11. \A g \in Flow : Left(g)
    BY <2>4, <2>5, Stays
  <2> QED
    BY <2>4, <2>6, <2>7, <2>8, <2>9, <2>10, <2>11, Whole DEF Step
<1>6. ASSUME failures < MaxFailures, failures' = failures + 1, Ends(f),
             UNCHANGED <<host, switching>>
      PROVE  Step
  <2>1. StoreOK' /\ active' \in Loaded \cup {None}
    BY <1>1, <1>6, Parts DEF StoreOK, LoadedInv
  <2>2. HostOK'
    BY <1>1, <1>6, Parts, SessionsAssumption DEF HostOK
  <2>3. UNCHANGED <<session, sync, host>> /\ flow[f].pc # "flushing"
    BY <1>1, <1>6
  <2> QED
    BY <1>1, <1>6, <2>1, <2>2, Ending
<1> QED
  BY <1>3, <1>5, <1>6 DEF ProjectCreated

LEMMA BootstrapKeeps ==
  ASSUME IInv, NEW f \in Flow, NEW p \in Project, Bootstrap(f, p) PROVE Step
<1>1. /\ flow[f].pc # "flushing" /\ Loaded = {} /\ host[p] # None
      /\ UNCHANGED <<shelved, busy, save, rest, excused>>
  <2>1. flow[f] = Idle /\ ~Bootstrapped /\ host[p] # None
        /\ UNCHANGED <<shelved, busy, save, rest, excused>>
    BY DEF Bootstrap, NextFlow
  <2>2. Loaded = {}
    BY <2>1 DEF Bootstrapped
  <2> QED
    BY <2>1, <2>2, Dones
<1>2. host[p] \in Content
  BY <1>1, Parts DEF HostOK
<1>3. \A s \in Save : save[s] = Free
  BY <1>1, Parts DEF SaveInv
<1>4. ASSUME MarksSaved(p, host[p]), StoreBootstraps(p), UNCHANGED flow PROVE Step
  <2>1. /\ session' \in [Project -> MaybeContent] /\ session'[p] = host[p]
        /\ \A q \in Project : q # p => session'[q] = session[q]
    BY <1>2, <1>4, Parts DEF StoreBootstraps, StoreOK
  <2>2. /\ saved' \in [Project -> MaybeContent] /\ saved'[p] = host[p]
        /\ pending' \in [Project -> MaybeContent] /\ pending'[p] = None
        /\ \A q \in Project : q # p => pending'[q] = pending[q]
    BY <1>2, <1>4, Parts DEF MarksSaved, SyncOK
  <2>3. Loaded' = {p}
    BY <1>1, <2>1 DEF Loaded
  <2>4. StoreOK' /\ SyncOK' /\ HostOK'
    BY <1>1, <1>4, <2>2, Parts DEF StoreBootstraps, StoreOK, SyncOK, HostOK
  <2>5. LoadedInv'
    BY <1>1, <1>4, <2>2, <2>3, Parts DEF StoreBootstraps, LoadedInv
  <2>6. FlowOK' /\ (\A g \in Flow : FlowInv(g)') /\ \A g \in Flow : Left(g)
    BY <1>1, <1>4, Parts, FlowsSame, Stays
  <2>7. \A s \in Save : SaveInv(s)'
    BY <1>1, <1>4, Parts, SavesSame
  <2>8. ASSUME NEW q \in Project PROVE KeptInv(q)'
    <3>1. InFlight(q)' = {}
      BY <1>1, <1>3 DEF InFlight, Free
    <3> QED
      BY <1>1, <2>1, <2>2, <2>3, <3>1 DEF KeptInv
  <2> QED
    BY <2>4, <2>5, <2>6, <2>7, <2>8, Whole DEF Step
<1>5. ASSUME switching' = p,
             flow' = [flow EXCEPT ![f] = [Start("boot", p, FALSE) EXCEPT !.pc = "opening"]],
             UNCHANGED <<session, active, pending, saved>>
      PROVE  Step
  <2>0. PICK r : r = Start("boot", p, FALSE)
    OBVIOUS
  <2>1. /\ r \in Flows /\ r.kind = "boot" /\ r.target = p /\ r.from = None
        /\ r.touched = FALSE
    BY <2>0 DEF Start, Idle, Flows
  <2> DEFINE new == [r EXCEPT !.pc = "opening"]
  <2>2. new \in Flows /\ new.pc = "opening" /\ Like(new, r)
    BY <2>1, Moved
  <2>3. flow' = [flow EXCEPT ![f] = new]
    BY <1>5, <2>0
  <2> HIDE DEF new
  <2>4. flow'[f] = new /\ \A g \in Flow : g # f => flow'[g] = flow[g]
    BY <2>3, Parts DEF FlowOK
  <2>5. /\ flow'[f].kind = "boot" /\ flow'[f].target = p /\ flow'[f].pc = "opening"
        /\ flow'[f].from = None /\ flow'[f].touched = FALSE
    BY <2>1, <2>2, <2>4 DEF Like
  <2>6. FlowInv(f)'
    BY <1>1, <2>5 DEF FlowInv
  <2>7. FlowOK' /\ \A g \in Flow : FlowInv(g)'
    BY <1>1, <2>2, <2>3, <2>5, <2>6, Parts, FlowMoves
  <2>8. StoreOK' /\ SyncOK' /\ HostOK' /\ LoadedInv'
    BY <1>1, <1>5, Parts, LoadedSame DEF StoreOK, SyncOK, HostOK, LoadedInv
  <2>9. \A s \in Save : SaveInv(s)'
    BY <1>1, <2>4, Parts, SavesSame
  <2>10. \A q \in Project : KeptInv(q)'
    BY <1>1, <1>5, Parts, KeptSame
  <2>11. \A g \in Flow : Left(g)
    BY <2>4, <2>5, Stays
  <2> QED
    BY <2>7, <2>8, <2>9, <2>10, <2>11, Whole DEF Step
<1> QED
  BY <1>4, <1>5 DEF Bootstrap

\* The flows learn that the session of a project changed.
LEMMA TouchedFlows ==
  ASSUME IInv,
         NEW p \in Loaded', p \in Project, Loaded \subseteq Loaded', UNCHANGED host,
         NEW f, \A g \in Flow : flow'[g] =
           IF g = f THEN Done ELSE [flow[g] EXCEPT !.touched = @ \/ Watches(g, p)],
         flow' \in [Flow -> Flows], f \in Flow => flow[f].pc # "flushing"
  PROVE  /\ \A g \in Flow : FlowInv(g)' /\ Left(g)
         /\ \A g \in Flow : flow[g].pc = "flushing" =>
              /\ flow'[g].pc = "flushing" /\ flow'[g].kind = flow[g].kind
              /\ flow'[g].from = flow[g].from
<1>1. ASSUME NEW g \in Flow, g # f
      PROVE  /\ flow'[g].kind = flow[g].kind /\ flow'[g].pc = flow[g].pc
             /\ flow'[g].target = flow[g].target /\ flow'[g].from = flow[g].from
             /\ flow'[g].answer = flow[g].answer
             /\ flow'[g].touched => flow[g].touched \/ flow[g].target \in Loaded'
  <2> DEFINE b == Watches(g, p)
             new == [flow[g] EXCEPT !.touched = @ \/ b]
  <2>1. b \in BOOLEAN /\ (b => flow[g].target = p)
    BY DEF Watches
  <2>2. flow[g] \in Flows /\ flow'[g] = new
    BY <1>1, Parts DEF FlowOK
  <2> HIDE DEF b
  <2>3. /\ new.kind = flow[g].kind /\ new.pc = flow[g].pc /\ new.target = flow[g].target
        /\ new.from = flow[g].from /\ new.answer = flow[g].answer
        /\ new.touched = (flow[g].touched \/ b)
    OBVIOUS
  <2> HIDE DEF new
  <2> QED
    BY <2>1, <2>2, <2>3
<1>2. ASSUME NEW g \in Flow, g = f
      PROVE  /\ flow'[g].kind = "none" /\ flow'[g].pc = "done" /\ flow'[g].from = None
             /\ flow'[g].touched = FALSE
  BY <1>2, Dones
<1>3. ASSUME NEW g \in Flow PROVE FlowInv(g)'
  <2>1. CASE g = f
    BY <1>2, <2>1 DEF FlowInv
  <2>2. CASE g # f
    <3>1. FlowInv(g)
      BY Parts
    <3>2. \A h \in Flow :
            /\ flow[g].kind = "create" /\ flow'[h].kind = "create"
            /\ flow'[h].target = flow[g].target
            => flow[h].kind = "create" /\ flow[h].target = flow[g].target
      BY <1>1, <1>2
    <3> QED
      BY <1>1, <2>2, <3>1, <3>2, FlowStays
  <2> QED
    BY <2>1, <2>2
<1>4. ASSUME NEW g \in Flow PROVE Left(g)
  BY <1>1, <1>2, Stays
<1> QED
  BY <1>1, <1>3, <1>4

LEMMA EditKeeps ==
  ASSUME IInv, NEW p \in Project, NEW c \in Content, Edit(p, c) PROVE Step
<1>1. /\ p \in Loaded /\ edits < MaxEdits /\ edits' = edits + 1
      /\ session' = [session EXCEPT ![p] = c]
      /\ pending' = [pending EXCEPT ![p] = Scheduled(p, c)]
      /\ excused' = IF Skips(p, c) THEN excused \cup {p} ELSE excused
      /\ flow' = [f \in Flow |-> [flow[f] EXCEPT !.touched = @ \/ Watches(f, p)]]
      /\ UNCHANGED <<active, switching, shelved, busy, saved, save, host, archived, failures>>
  BY DEF Edit
<1>2. /\ session' \in [Project -> MaybeContent] /\ session'[p] = c
      /\ \A q \in Project : q # p => session'[q] = session[q]
  BY <1>1, Parts DEF StoreOK
<1>3. Loaded' = Loaded
  BY <1>1, Nothing DEF Loaded
<1>4. /\ pending' \in [Project -> MaybeContent] /\ pending'[p] = Scheduled(p, c)
      /\ \A q \in Project : q # p => pending'[q] = pending[q]
  BY <1>1, Parts DEF SyncOK, Scheduled
<1>5. ASSUME NEW g \in Flow
      PROVE [flow[g] EXCEPT !.touched = @ \/ Watches(g, p)] \in Flows
  <2> DEFINE b == Watches(g, p)
  <2>1. b \in BOOLEAN /\ flow[g] \in Flows
    BY Parts DEF Watches, FlowOK
  <2> HIDE DEF b
  <2>2. [flow[g] EXCEPT !.touched = @ \/ b] \in Flows
    BY <2>1, Touched
  <2> QED
    BY <2>2 DEF b
<1>6. /\ flow' \in [Flow -> Flows] /\ None \notin Flow
      /\ \A g \in Flow : flow'[g] =
           IF g = None THEN Done ELSE [flow[g] EXCEPT !.touched = @ \/ Watches(g, p)]
  BY <1>1, <1>5, Nothing
<1>7. /\ \A g \in Flow : FlowInv(g)' /\ Left(g)
      /\ \A g \in Flow : flow[g].pc = "flushing" =>
           /\ flow'[g].pc = "flushing" /\ flow'[g].kind = flow[g].kind
           /\ flow'[g].from = flow[g].from
  <2>1. p \in Loaded' /\ Loaded \subseteq Loaded' /\ UNCHANGED host
    BY <1>1, <1>3
  <2> QED
    BY <1>6, <2>1, TouchedFlows
<1>8. \A s \in Save : SaveInv(s)'
  BY <1>1, <1>3, <1>7, Parts, SavesSame
<1>9. StoreOK' /\ SyncOK' /\ HostOK' /\ FlowOK'
  BY <1>1, <1>4, <1>6, Parts, SessionsAssumption
     DEF StoreOK, SyncOK, HostOK, FlowOK
<1>10. LoadedInv'
  BY <1>1, <1>3, Parts DEF LoadedInv
<1>11. ASSUME NEW q \in Project PROVE KeptInv(q)'
  <2>1. KeptInv(q) /\ InFlight(q)' = InFlight(q)
    BY <1>1, Parts DEF InFlight
  <2>2. CASE q # p
    BY <1>1, <1>3, <2>1, <2>2 DEF KeptInv
  <2>3. CASE q = p
    <3>1. SUFFICES ASSUME q \notin excused' PROVE KeptInv(q)'
      BY DEF KeptInv
    <3>2. q \notin excused /\ ~Skips(q, c)
      BY <1>1, <2>3, <3>1
    <3>3. CASE c = saved[q]
      <4>1. pending'[q] = None /\ pending[q] = None /\ InFlight(q) = {}
        BY <1>4, <3>2, <3>3 DEF Skips, Scheduled
      <4> QED
        BY <1>1, <2>1, <2>3, <3>3, <4>1 DEF KeptInv
    <3>4. CASE c # saved[q]
      <4>1. pending'[q] = c
        BY <1>4, <2>3, <3>4 DEF Scheduled
      <4> QED
        BY <1>1, <1>2, <2>1, <2>3, <3>4, <4>1, Nothing DEF KeptInv
    <3> QED
      BY <3>3, <3>4
  <2> QED
    BY <2>2, <2>3
<1> QED
  BY <1>7, <1>8, <1>9, <1>10, <1>11, Whole DEF Step

LEMMA OpenedKeeps == ASSUME IInv, NEW f \in Flow, ProjectOpened(f) PROVE Step
<1>1. flow[f].pc = "opened" /\ flow[f] \in Flows /\ FlowInv(f)
  BY Parts DEF ProjectOpened, FlowOK
<1>2. PICK p \in Project, c \in Content : p = flow[f].target /\ c = flow[f].answer
  BY <1>1 DEF FlowInv, Flows
<1>3. PICK n \in Content : n = Opened(f)
  <2>1. flow[f].touched => session[p] \in Content
    BY <1>2, Parts DEF FlowInv, Loaded, StoreOK
  <2>2. Opened(f) \in Content
    BY <1>2, <2>1 DEF Opened
  <2> QED
    BY <2>2
<1>4. /\ saved' = [saved EXCEPT ![p] = c]
      /\ pending' = [pending EXCEPT ![p] = IF Commits(f) /\ n # c THEN n ELSE None]
      /\ excused' = IF pending[p] # None \/ InFlight(p) # {} \/ host[p] # c
                    THEN excused \cup {p} ELSE excused
      /\ \/ Commits(f) /\ CommitsSwitch(f, p, n)
         \/ ~Commits(f) /\ Ends(f) /\ Frees(f) /\ UNCHANGED <<session, active, switching>>
      /\ UNCHANGED <<shelved, save, rest>>
  BY <1>2, <1>3 DEF ProjectOpened
<1>5. host[p] # None
  BY <1>1, <1>2 DEF FlowInv
<1>6. /\ saved' \in [Project -> MaybeContent] /\ saved'[p] = c
      /\ \A q \in Project : q # p => saved'[q] = saved[q]
  BY <1>4, Parts DEF SyncOK
<1>7. /\ pending' \in [Project -> MaybeContent]
      /\ pending'[p] = IF Commits(f) /\ n # c THEN n ELSE None
      /\ \A q \in Project : q # p => pending'[q] = pending[q]
  BY <1>4, Parts DEF SyncOK
<1>8. SyncOK' /\ HostOK'
  BY <1>4, Parts DEF SyncOK, HostOK
<1>9. p \notin excused' =>
        p \notin excused /\ pending[p] = None /\ InFlight(p) = {} /\ host[p] = c
  BY <1>4
<1>10. \A q \in Project : InFlight(q)' = InFlight(q)
  BY <1>4 DEF InFlight
<1>11. ASSUME Commits(f), CommitsSwitch(f, p, n) PROVE Step
  <2>1. /\ session' \in [Project -> MaybeContent] /\ session'[p] = n
        /\ \A q \in Project : q # p => session'[q] = session[q]
    BY <1>11, Parts DEF CommitsSwitch, StoreOK
  <2>2. Loaded' = Loaded \cup {p}
    BY <2>1, Nothing DEF Loaded
  <2>3. active' = p /\ switching' = None /\ busy' = FALSE
    BY <1>11 DEF CommitsSwitch, DialogResets
  <2>4. StoreOK' /\ LoadedInv'
    BY <1>4, <1>5, <1>7, <2>1, <2>2, <2>3, Parts DEF StoreOK, LoadedInv
  <2>5. ASSUME NEW g \in Flow
        PROVE [flow[g] EXCEPT !.touched = @ \/ Watches(g, p)] \in Flows
    <3> DEFINE b == Watches(g, p)
    <3>1. b \in BOOLEAN /\ flow[g] \in Flows
      BY Parts DEF Watches, FlowOK
    <3> HIDE DEF b
    <3>2. [flow[g] EXCEPT !.touched = @ \/ b] \in Flows
      BY <3>1, Touched
    <3> QED
      BY <3>2 DEF b
  <2>6. /\ flow' \in [Flow -> Flows]
        /\ \A g \in Flow : flow'[g] =
             IF g = f THEN Done ELSE [flow[g] EXCEPT !.touched = @ \/ Watches(g, p)]
    BY <1>11, <2>5, Dones DEF CommitsSwitch
  <2>7. /\ \A g \in Flow : FlowInv(g)' /\ Left(g)
        /\ \A g \in Flow : flow[g].pc = "flushing" =>
             /\ flow'[g].pc = "flushing" /\ flow'[g].kind = flow[g].kind
             /\ flow'[g].from = flow[g].from
    <3>1. p \in Loaded' /\ Loaded \subseteq Loaded' /\ UNCHANGED host
      BY <1>4, <2>2
    <3> QED
      BY <1>1, <2>6, <3>1, TouchedFlows
  <2>8. \A s \in Save : SaveInv(s)'
    BY <1>4, <2>2, <2>7, Parts, SavesSame
  <2>9. ASSUME NEW q \in Project PROVE KeptInv(q)'
    <3>1. KeptInv(q)
      BY Parts
    <3>2. CASE q # p
      <4>1. /\ session'[q] = session[q] /\ pending'[q] = pending[q] /\ saved'[q] = saved[q]
            /\ q \in Loaded' <=> q \in Loaded
            /\ q \in excused' <=> q \in excused
        BY <1>4, <2>1, <2>2, <3>2
      <4> QED
        BY <1>4, <1>10, <3>1, <4>1 DEF KeptInv
    <3>3. CASE q = p
      BY <1>4, <1>6, <1>7, <1>10, <1>11, <2>1, <3>3, Nothing DEF KeptInv
    <3> QED
      BY <3>2, <3>3
  <2> QED
    BY <1>8, <2>4, <2>6, <2>7, <2>8, <2>9, Whole DEF Step, FlowOK
<1>12. ASSUME ~Commits(f), Ends(f), Frees(f), UNCHANGED <<session, active, switching>>
       PROVE  Step
  <2>1. Loaded' = Loaded /\ UNCHANGED host
    BY <1>4, <1>12, LoadedSame
  <2>2. /\ FlowOK' /\ (\A g \in Flow : FlowInv(g)') /\ flow'[f] = Done
        /\ \A g \in Flow : g # f => flow'[g] = flow[g]
    BY <1>12, <2>1, Parts, FlowEnds
  <2>3. StoreOK' /\ LoadedInv'
    BY <1>4, <1>12, <2>1, Parts DEF StoreOK, LoadedInv, Frees
  <2>4. \A s \in Save : SaveInv(s)'
    BY <1>1, <1>4, <2>1, <2>2, Parts, SavesSame
  <2>5. \A g \in Flow : Left(g)
    BY <2>2, Dones, Stays
  <2>6. ASSUME NEW q \in Project PROVE KeptInv(q)'
    <3>1. KeptInv(q)
      BY Parts
    <3>2. CASE q # p
      <4>1. /\ pending'[q] = pending[q] /\ saved'[q] = saved[q]
            /\ q \in excused' <=> q \in excused
        BY <1>4, <3>2
      <4> QED
        BY <1>4, <1>10, <1>12, <2>1, <3>1 DEF KeptInv
    <3>3. CASE q = p
      BY <1>6, <1>7, <1>9, <1>10, <1>12, <2>1, <3>1, <3>3 DEF KeptInv
    <3> QED
      BY <3>2, <3>3
  <2> QED
    BY <1>8, <2>2, <2>3, <2>4, <2>5, <2>6, Whole DEF Step
<1> QED
  BY <1>4, <1>11, <1>12

LEMMA Stutters == ASSUME IInv, UNCHANGED vars PROVE Step
<1>1. UNCHANGED <<session, active, switching, shelved, busy, sync, flow, rest, excused>>
  BY DEF vars
<1>2. StoreOK' /\ HostOK' /\ SyncOK' /\ LoadedInv'
  BY <1>1, Parts, LoadedSame DEF StoreOK, HostOK, SyncOK, LoadedInv
<1>3. FlowOK' /\ (\A g \in Flow : FlowInv(g)') /\ \A g \in Flow : Left(g)
  BY <1>1, Parts, LoadedSame, FlowsSame, Stays
<1>4. \A s \in Save : SaveInv(s)'
  BY <1>1, Parts, LoadedSame, SavesSame
<1>5. \A q \in Project : KeptInv(q)'
  BY <1>1, Parts, KeptSame
<1> QED
  BY <1>2, <1>3, <1>4, <1>5, Whole DEF Step

LEMMA Initially == Init => IInv
<1> SUFFICES ASSUME Init PROVE IInv
  OBVIOUS
<1>1. /\ \A s \in Save : save[s] = Free
      /\ \A f \in Flow : flow[f] = Idle
      /\ \A p \in Project : session[p] = None /\ pending[p] = None
      /\ active = None /\ switching = None
  BY DEF Init
<1>2. StoreOK /\ SyncOK
  BY DEF Init, StoreOK, SyncOK, Calls, Free
<1>3. HostOK /\ FlowOK
  BY SessionsAssumption, Dones DEF Init, HostOK, FlowOK
<1>4. Loaded = {}
  BY <1>1 DEF Loaded
<1>5. LoadedInv /\ \A p \in Project : KeptInv(p)
  BY <1>1, <1>4 DEF LoadedInv, KeptInv
<1>6. \A s \in Save : SaveInv(s)
  BY <1>1, Nothing DEF SaveInv, Free
<1>7. \A f \in Flow : FlowInv(f)
  BY <1>1 DEF FlowInv, Idle
<1> QED
  BY <1>2, <1>3, <1>5, <1>6, <1>7 DEF IInv, TypeOK

LEMMA Kept == ASSUME IInv, [Next]_vars PROVE Step
<1>1. ASSUME NEW f \in Flow, User(f) \/ Steps(f) PROVE Step
  BY <1>1, SwitchKeeps, CreateKeeps, ArchiveKeeps, BootstrapKeeps, FlushKeeps,
     FlushAllKeeps,
     CreatedKeeps, ArchivesKeeps, ArchivedKeeps, OpensKeeps, OpenedKeeps, FailedKeeps
     DEF User, Steps
<1>2. ASSUME NEW p \in Project, TimerFires(p) \/ RestoreProject(p) PROVE Step
  BY <1>2, TimerKeeps, RestoreKeeps
<1>3. ASSUME NEW s \in Save, Host(s) \/ Returns(s) PROVE Step
  BY <1>3, StoresKeeps, RefusesKeeps, ReturnsKeeps DEF Host
<1> QED
  BY <1>1, <1>2, <1>3, EditKeeps, Stutters DEF Next

(* The invariant holds in every state a run of the webview reaches.          *)
THEOREM Inductive == Spec => []IInv
<1>1. IInv /\ [Next]_vars => IInv'
  BY Kept DEF Step
<1> QED
  BY <1>1, Initially, PTL DEF Spec

(* Every variable keeps its type: among others, a call of SaveProjectSession *)
(* always carries a project and a session.                                   *)
THEOREM TypeCorrect == Spec => []TypeOK
<1>1. IInv => TypeOK
  BY DEF IInv
<1> QED
  BY <1>1, Inductive, PTL

(* However the replies, the edits and the flows of App interleave: once      *)
(* nothing of a project is queued or on its way, the host has the session    *)
(* the user sees, unless one of the four losses struck the last edit.        *)
THEOREM QuietStored == Spec => []QuietIsStored
<1>1. IInv => QuietIsStored
  <2>1. SUFFICES ASSUME IInv, NEW p \in Loaded, pending[p] = None, InFlight(p) = {},
                        p \notin excused
                 PROVE  host[p] = session[p]
    BY DEF QuietIsStored
  <2>2. KeptInv(p)
    BY <2>1, Parts DEF Loaded
  <2> QED
    BY <2>1, <2>2 DEF KeptInv
<1> QED
  BY <1>1, Inductive, PTL

(* switchProject, and the switch that follows an archive, leave a project    *)
(* only once the host has its session.                                       *)
THEOREM LeftStored == Spec => LeftIsStored
<1>1. IInv /\ [Next]_vars => \A f \in Flow : Left(f)
  BY Kept DEF Step
<1>2. (\A f \in Flow : Left(f)) <=>
        \A f \in Flow :
          LET p == flow'[f].from IN
          /\ flow'[f].kind = "switch" /\ flow'[f].pc = "opening" /\ flow[f].pc # "opening"
          /\ p # None /\ p \notin excused
          => IF flow[f].pc = "flushing"
             THEN \E s \in Save : save[s].by = f /\ host[p] = save[s].content
             ELSE host[p] = session[p]
  BY DEF Left
<1> QED
  BY <1>1, <1>2, Inductive, PTL DEF LeftIsStored, Spec
===============================================================================
