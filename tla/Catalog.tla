--------------------------------- MODULE Catalog ---------------------------------
(***************************************************************************)
(* One external connection in one open project: the catalog the host keeps *)
(* of it (catalog.go), the copy of it in the webview with the tabs of live *)
(* relations (App.tsx, app-store.ts), and the calls and events between the *)
(* two.  There is one schema.  What connecting does is in Connections.     *)
(*                                                                         *)
(* Calls are served in any order; answers and events arrive in the order   *)
(* they were sent; a handler runs to its next await.  Calls alike that are *)
(* on their way together count as one.  The columns of a relation go by    *)
(* their version, 0 if none are known.  The effect that asks for the       *)
(* relation of the active tab when the catalog lacks it is left out: no tab*)
(* of a restored or running session lacks it.                              *)
(***************************************************************************)
EXTENDS Naturals, Sequences, FiniteSets, SequencesExt

CONSTANTS Relation,
          CatalogBudgets  \* bound: how often the user acts, with how many calls on their
                          \* way, how often the external database changes and reading
                          \* it fails

ASSUME CatalogAssumption ==
  CatalogBudgets \subseteq [{"act", "calls", "change", "failure"} -> Nat]

VARIABLES
  there,     \* the relations of the external database
  version,   \* of their columns
  linked,    \* host: the connection is attached to the project
  status,    \* host: of the connection, "gone" once it is deleted
  known,     \* host: s.relations
  columns,   \* host: their columns
  reading,   \* host: calls that have read columns and not stored them
  serving,   \* host: the call that connects, {} if none
  calls, answers, inbox,
  member,    \* connectionIds of the workspace has the connection
  shownStatus,
  schemas,   \* schemasByConnection has the connection
  listed,    \* relationsBySchema has the schema
  catalog,   \* relationsById
  shown,     \* their columns
  tabs,      \* of each relation: "none", "external", "placeholder"
  left,      \* what is left of the budget
  floor,     \* ghost: the version of the columns when they were last forgotten
  straddled, \* ghost: relations that were being read or answered for then
  strays,    \* ghost: relations whose tab was opened when the workspace had no connection
  emptied,   \* ghost: relations whose columns were dropped under their tab
  absent     \* ghost: relations that have been absent

hostSide  == <<linked, status, known, columns, reading, serving>>
wire      == <<calls, answers, inbox>>
workspace == <<member, shownStatus, schemas, listed, catalog, shown, tabs>>
ghosts    == <<floor, straddled, strays, emptied, absent>>
catalogVars == <<there, version, hostSide, wire, workspace, left, ghosts>>

Call(op, r) == [op |-> op, of |-> r]
Nothing == "nothing"
Message(op, r, outcome, n) == [op |-> op, of |-> r, outcome |-> outcome, columns |-> n, list |-> {}]
Event(op, outcome) == Message(op, Nothing, outcome, 0)
Spends(what) == left[what] > 0 /\ left' = [left EXCEPT ![what] = @ - 1]

Zero == [r \in Relation |-> 0]
Open == {r \in Relation : tabs[r] # "none"}

RestoredColumns(found, isUp) == [r \in Relation |-> IF isUp /\ r \in found THEN 1 ELSE 0]

(* A session restored with tabs finds their relations again, with their      *)
(* columns if the connection is up already; it may be on its way up.         *)
CatalogInit(isLinked, found, isUp, isAuto, budget) ==
  /\ there = Relation /\ version = [r \in Relation |-> 1]
  /\ linked = isLinked /\ status = IF isUp THEN "connected" ELSE "disconnected"
  /\ known = found /\ columns = RestoredColumns(found, isUp)
  /\ reading = {} /\ serving = {}
  /\ calls = IF isAuto THEN {Call("auto connect", Nothing)} ELSE {}
  /\ answers = {} /\ inbox = <<>>
  /\ member = isLinked /\ shownStatus = status
  /\ schemas = FALSE /\ listed = (found # {})
  /\ catalog = found /\ shown = columns
  /\ tabs = [r \in Relation |-> IF r \notin found THEN "none"
                               ELSE IF isUp THEN "external" ELSE "placeholder"]
  /\ left = budget
  /\ floor = Zero /\ straddled = {} /\ strays = {} /\ emptied = {} /\ absent = {}

------------------------------------------------------------------------------
(* What the user does                                                        *)

Calls(call) ==
  /\ Cardinality(calls) + Cardinality(answers) + Cardinality(reading) < left["calls"]
  /\ calls' = calls \cup {call}

(* A schema that was listed is not asked for again.                          *)
LoadRelations == schemas /\ ~listed /\ Calls(Call("list", Nothing))

(* Connections and schemas are loaded as they are expanded, or all of them   *)
(* when the user looks for a table.                                          *)
Expands == LoadRelations \/ (~schemas /\ Calls(Call("schemas", Nothing)))

Chooses ==
  IF shownStatus # "connected" THEN Calls(Call("connect", Nothing))
  ELSE \E op \in {"disconnect", "reconnect", "refresh"} : Calls(Call(op, Nothing))

Opens == schemas /\ listed /\ \E r \in catalog : Calls(Call("open", r))

(* To take the connection out of the project, or to delete it everywhere.    *)
Leaves == \E op \in {"detach", "delete"} : Calls(Call(op, Nothing))

Attaches == shownStatus # "none" /\ Calls(Call("attach", Nothing))

Acts ==
  /\ Spends("act")
  /\ \/ member /\ (Chooses \/ Leaves)
     \/ member /\ shownStatus = "connected" /\ (Expands \/ Opens)
     \/ ~member /\ Attaches
  /\ UNCHANGED <<there, version, hostSide, answers, inbox, workspace, ghosts>>

CloseTab(r) ==
  /\ Spends("act") /\ tabs[r] # "none"
  /\ tabs' = [tabs EXCEPT ![r] = "none"]
  /\ UNCHANGED <<there, version, hostSide, wire, member, shownStatus, schemas, listed>>
  /\ UNCHANGED <<catalog, shown, ghosts>>

(* The external database: a relation is dropped, made again or altered.      *)
Changes(r) ==
  /\ Spends("change")
  /\ version' = [version EXCEPT ![r] = @ + 1]
  /\ there' \in {there \ {r}, there \cup {r}}
  /\ absent' = absent \cup (Relation \ there')
  /\ UNCHANGED <<hostSide, wire, workspace, floor, straddled, strays, emptied>>

------------------------------------------------------------------------------
(* The host                                                                  *)

Sends(messages) == inbox' = inbox \o messages
Answer(c, m) == calls' = calls \ {c} /\ answers' = answers \cup {m}
Answers(c, outcome) == Answer(c, Message(c.op, c.of, outcome, 0))
Fails == Spends("failure")
Connected == linked /\ status = "connected"

(* Mutant: only the relations the webview is told of lose their columns.     *)
KeepsColumns ==
  /\ UNCHANGED columns
  /\ floor' = [r \in Relation |-> version[r]]
  /\ straddled' = straddled \cup {q.of : q \in reading} \cup {m.of : m \in answers}

(* invalidateLocked                                                          *)
Invalidate ==
  /\ columns' = Zero
  /\ floor' = [r \in Relation |-> version[r]]
  /\ straddled' = straddled \cup {q.of : q \in reading} \cup {m.of : m \in answers}
Forgets == UNCHANGED <<columns, floor, straddled>>

(* Connect: the lifecycle lock keeps other calls that connect, disconnect or *)
(* delete waiting.                                                           *)
ConnectStarts(c) ==
  /\ c.op \in {"connect", "auto connect"} /\ serving = {}
  /\ IF linked /\ status # "connected"
     THEN /\ status' = "connecting" /\ serving' = {c}
          /\ Sends(<<Event("updated", "connecting")>>)
          /\ calls' = calls \ {c} /\ UNCHANGED answers
     ELSE /\ IF c.op = "connect" THEN Answers(c, IF linked THEN "ok" ELSE "failed")
                                 ELSE calls' = calls \ {c} /\ UNCHANGED answers
          /\ UNCHANGED <<status, serving, inbox>>
  /\ Forgets /\ UNCHANGED <<linked, known, reading, left>>

ConnectEnds(c) ==
  /\ c \in serving
  /\ serving' = {}
  /\ \/ status' = "connected" /\ UNCHANGED left
     \/ status' = "error" /\ Fails
  /\ Sends(<<Event("updated", status')>>)
  /\ answers' = answers \cup (IF c.op # "connect" THEN {} ELSE
       {Message("connect", Nothing, IF status' = "connected" THEN "ok" ELSE "failed", 0)})
  /\ Forgets /\ UNCHANGED <<linked, known, reading, calls>>

(* disconnectLocked, for Disconnect and DeleteConnection: a DETACH that fails*)
(* leaves the connection in error, with the columns that are known of it.    *)
Detaches ==
  IF status = "disconnected" THEN Forgets /\ UNCHANGED inbox
  ELSE Invalidate /\ Sends(<<Event("updated", "disconnected")>>)
DetachFails ==
  /\ status # "disconnected" /\ Fails
  /\ status' = "error" /\ Sends(<<Event("updated", "error")>>)
  /\ Forgets

(* Disconnect, first of all when the user reconnects.                        *)
ServeDisconnect(c) ==
  /\ c.op \in {"disconnect", "reconnect"} /\ serving = {}
  /\ \/ linked /\ Detaches /\ status' = "disconnected" /\ Answers(c, "ok") /\ UNCHANGED left
     \/ linked /\ DetachFails /\ Answers(c, "failed")
     \/ ~linked /\ Forgets /\ Answers(c, "failed") /\ UNCHANGED <<status, inbox, left>>
  /\ UNCHANGED <<linked, known, reading, serving>>

ServeRefresh(c) ==
  /\ c.op = "refresh"
  /\ \/ /\ Connected /\ Answers(c, "ok")
        /\ Invalidate /\ Sends(<<Event("invalidated", "ok")>>) /\ UNCHANGED left
     \/ /\ Answers(c, "failed") /\ IF Connected THEN Fails ELSE UNCHANGED left
        /\ Forgets /\ UNCHANGED inbox
  /\ UNCHANGED <<linked, status, known, reading, serving>>

ServeSchemas(c) ==
  /\ c.op \in {"schemas", "schemas first"}
  /\ \/ Connected /\ Answers(c, "ok") /\ UNCHANGED left
     \/ Answers(c, "failed") /\ IF Connected THEN Fails ELSE UNCHANGED left
  /\ Forgets /\ UNCHANGED <<linked, status, known, reading, serving, inbox>>

(* ListRelations stores what it lists, without columns.                      *)
ServeList(c) ==
  /\ c.op = "list"
  /\ \/ /\ Connected /\ UNCHANGED left
        /\ known' = known \cup there
        /\ columns' = [r \in Relation |-> IF r \in there THEN 0 ELSE columns[r]]
        /\ Answer(c, [Message("list", Nothing, "ok", 0) EXCEPT !.list = there])
     \/ /\ Answers(c, "failed") /\ IF Connected THEN Fails ELSE UNCHANGED left
        /\ UNCHANGED <<known, columns>>
  /\ UNCHANGED <<linked, status, reading, serving, inbox, floor, straddled>>

(* GetExternalRelation: columns that are not known are read, then stored.    *)
ServeGet(c) ==
  /\ c.op \in {"open", "validate"}
  /\ \/ /\ c.of \notin known \/ ~linked
        /\ Answers(c, IF c.of \notin known THEN "missing" ELSE "detached")
        /\ UNCHANGED <<reading, left>>
     \/ /\ c.of \in known /\ linked /\ ~Connected
        /\ Answers(c, "failed") /\ UNCHANGED <<reading, left>>
     \/ /\ c.of \in known /\ Connected /\ columns[c.of] # 0
        /\ Answer(c, Message(c.op, c.of, "ok", columns[c.of])) /\ UNCHANGED <<reading, left>>
     \/ /\ c.of \in known /\ Connected /\ columns[c.of] = 0
        /\ \/ c.of \in there /\ calls' = calls \ {c}
              /\ reading' = reading \cup {[op |-> c.op, of |-> c.of, columns |-> version[c.of]]}
              /\ UNCHANGED <<answers, left>>
           \/ c.of \notin there /\ Answers(c, "missing") /\ UNCHANGED <<reading, left>>
           \/ Fails /\ Answers(c, "failed") /\ UNCHANGED reading
  /\ Forgets /\ UNCHANGED <<linked, status, known, serving, inbox>>

StoreColumns(q) ==
  /\ reading' = reading \ {q}
  /\ known' = known \cup {q.of}
  /\ columns' = [columns EXCEPT ![q.of] = q.columns]
  /\ answers' = answers \cup {Message(q.op, q.of, "ok", q.columns)}
  /\ UNCHANGED <<linked, status, serving, calls, inbox, left, floor, straddled>>

(* AttachConnection refuses a connection that was deleted, and may have one  *)
(* that was not connected by a job.                                          *)
ServeAttach(c) ==
  /\ c.op = "attach"
  /\ \/ /\ status # "gone"
        /\ linked' = TRUE
        /\ \E auto \in {{}, {Call("auto connect", Nothing)}} : calls' = (calls \ {c}) \cup auto
        /\ answers' = answers \cup {Message("attach", Nothing, "ok", 0)}
     \/ status = "gone" /\ Answers(c, "failed") /\ UNCHANGED linked
  /\ Forgets /\ UNCHANGED <<status, known, reading, serving, inbox, left>>

ServeDetach(c) ==
  /\ c.op = "detach"
  /\ linked' = FALSE /\ Answers(c, "ok")
  /\ Forgets /\ UNCHANGED <<status, known, reading, serving, inbox, left>>

(* DeleteConnection: the row stays when the connection cannot be detached, or*)
(* the Keychain not asked, or the row not removed; when the item of the      *)
(* Keychain cannot be deleted after it, only the relations stay.             *)
ServeDelete(c) ==
  /\ c.op = "delete" /\ serving = {}
  /\ \/ /\ status # "gone" /\ Answers(c, "ok") /\ UNCHANGED left
        /\ linked' = FALSE /\ status' = "gone" /\ known' = {}
        /\ Invalidate
        /\ Sends((IF status = "disconnected" THEN <<>> ELSE <<Event("updated", "disconnected")>>)
                   \o <<Event("updated", "disconnected")>>)
     \/ /\ status # "gone" /\ DetachFails /\ Answers(c, "failed")
        /\ UNCHANGED <<linked, known>>
     \/ /\ status # "gone" /\ Detaches /\ Fails /\ Answers(c, "failed")
        /\ \/ status' = "disconnected" /\ UNCHANGED linked
           \/ status' = "gone" /\ linked' = FALSE
        /\ UNCHANGED known
     \/ /\ status = "gone" /\ Answers(c, "failed")
        /\ Forgets /\ UNCHANGED <<linked, status, known, inbox, left>>
  /\ UNCHANGED <<reading, serving>>

SendsAnswer ==
  /\ \E m \in answers : answers' = answers \ {m} /\ Sends(<<m>>)
  /\ Forgets /\ UNCHANGED <<linked, status, known, reading, serving, calls, left>>

Host ==
  /\ \/ \E c \in calls : \/ ConnectStarts(c) \/ ServeDisconnect(c) \/ ServeRefresh(c)
                         \/ ServeSchemas(c) \/ ServeList(c) \/ ServeGet(c)
                         \/ ServeAttach(c) \/ ServeDetach(c) \/ ServeDelete(c)
     \/ \E c \in serving : ConnectEnds(c)
     \/ \E q \in reading : StoreColumns(q)
     \/ SendsAnswer
  /\ UNCHANGED <<there, version, workspace, strays, emptied, absent>>

------------------------------------------------------------------------------
(* The webview                                                               *)

Validates == {Call("validate", r) : r \in Open}
MarkPlaceholders(rs) ==
  tabs' = [r \in Relation |-> IF r \in rs /\ tabs[r] # "none" THEN "placeholder" ELSE tabs[r]]

(* Mutant: the tabs are not looked at again when the connection is back.     *)
MarksOnly(m) ==
  /\ shownStatus' = m.outcome
  /\ IF member /\ m.outcome \in {"disconnected", "error"}
     THEN MarkPlaceholders(Relation) ELSE tabs' = [r \in Relation |->
       IF tabs[r] = "placeholder" /\ m.outcome = "connected" THEN "external" ELSE tabs[r]]
  /\ UNCHANGED <<calls, member, schemas, listed, catalog, shown, emptied>>

OnUpdated(m) ==
  /\ shownStatus' = m.outcome
  /\ IF member /\ m.outcome = "connected" THEN calls' = calls \cup Validates ELSE UNCHANGED calls
  /\ IF member /\ m.outcome \in {"disconnected", "error"}
     THEN MarkPlaceholders(Relation) ELSE UNCHANGED tabs
  /\ UNCHANGED <<member, schemas, listed, catalog, shown, emptied>>

(* invalidateCatalog, on the event and again on the answer that follows it.  *)
InvalidateCatalog ==
  /\ schemas' = FALSE /\ listed' = FALSE /\ shown' = Zero
  /\ emptied' = emptied \cup Open
  /\ UNCHANGED <<member, shownStatus, catalog, tabs>>

OnInvalidated(m) == InvalidateCatalog /\ UNCHANGED calls

ConnectAnswered(m) ==
  /\ IF m.outcome = "ok" THEN /\ shownStatus' = "connected"
                              /\ calls' = calls \cup {Call("schemas first", Nothing)}
                         ELSE UNCHANGED <<shownStatus, calls>>
  /\ UNCHANGED <<member, schemas, listed, catalog, shown, tabs, emptied>>

(* connectDatabase goes on to the tabs whether the schemas came or not.      *)
SchemasAnswered(m) ==
  /\ schemas' = (schemas \/ m.outcome = "ok")
  /\ calls' = calls \cup (IF m.op = "schemas first" THEN Validates ELSE {})
  /\ UNCHANGED <<member, shownStatus, listed, catalog, shown, tabs, emptied>>

DisconnectAnswered(m) ==
  /\ IF m.outcome = "ok" THEN shownStatus' = "disconnected" /\ MarkPlaceholders(Relation)
                         ELSE UNCHANGED <<shownStatus, tabs>>
  /\ UNCHANGED <<calls, member, schemas, listed, catalog, shown, emptied>>

ReconnectAnswered(m) ==
  /\ calls' = calls \cup {Call("connect", Nothing)}
  /\ UNCHANGED <<workspace, emptied>>

RefreshAnswered(m) ==
  IF m.outcome = "ok"
  THEN InvalidateCatalog /\ calls' = calls \cup {Call("schemas", Nothing)}
  ELSE UNCHANGED <<calls, workspace, emptied>>

(* setExternalRelations closes the tabs of what is not listed, and takes     *)
(* what is listed as it came.                                                *)
ListAnswered(m) ==
  /\ IF m.outcome # "ok" THEN UNCHANGED <<listed, catalog, shown, tabs, emptied>>
     ELSE /\ listed' = TRUE /\ catalog' = m.list /\ shown' = Zero
          /\ tabs' = [r \in Relation |-> IF r \in m.list THEN tabs[r] ELSE "none"]
          /\ emptied' = emptied \cup Open
  /\ UNCHANGED <<calls, member, shownStatus, schemas>>

(* upsertExternalRelation                                                    *)
Upsert(m) ==
  /\ catalog' = catalog \cup {m.of}
  /\ shown' = [shown EXCEPT ![m.of] = m.columns]
  /\ emptied' = emptied \ {m.of}

OpenAnswered(m) ==
  /\ IF m.outcome = "ok" THEN Upsert(m) /\ tabs' = [tabs EXCEPT ![m.of] = "external"]
                         ELSE UNCHANGED <<catalog, shown, emptied, tabs>>
  /\ UNCHANGED <<calls, member, shownStatus, schemas, listed>>

(* Mutant: whatever goes wrong closes the tab.                               *)
ClosesTab(m) ==
  /\ IF m.outcome = "ok"
     THEN /\ Upsert(m)
          /\ tabs' = [tabs EXCEPT ![m.of] = IF @ = "none" THEN @ ELSE "external"]
     ELSE /\ tabs' = [tabs EXCEPT ![m.of] = "none"]
          /\ UNCHANGED <<catalog, shown, emptied>>
  /\ UNCHANGED <<calls, member, shownStatus, schemas, listed>>

(* validateExternalTabs closes a tab only if its relation is gone.           *)
ValidateAnswered(m) ==
  /\ IF m.outcome = "ok"
     THEN /\ Upsert(m)
          /\ tabs' = [tabs EXCEPT ![m.of] = IF @ = "none" THEN @ ELSE "external"]
     ELSE /\ IF m.outcome \in {"missing", "detached"}
             THEN tabs' = [tabs EXCEPT ![m.of] = "none"]
             ELSE MarkPlaceholders({m.of})
          /\ UNCHANGED <<catalog, shown, emptied>>
  /\ UNCHANGED <<calls, member, shownStatus, schemas, listed>>

AttachAnswered(m) ==
  /\ member' = (member \/ m.outcome = "ok")
  /\ UNCHANGED <<calls, shownStatus, schemas, listed, catalog, shown, tabs, emptied>>

(* detachConnection; removeConnectionEverywhere forgets the connection too.  *)
RemoveConnection(m) ==
  IF m.outcome # "ok" THEN UNCHANGED <<calls, workspace, emptied>>
  ELSE /\ member' = FALSE /\ schemas' = FALSE /\ listed' = FALSE
       /\ catalog' = {} /\ shown' = Zero /\ tabs' = [r \in Relation |-> "none"]
       /\ IF m.op = "delete" THEN shownStatus' = "none" ELSE UNCHANGED shownStatus
       /\ UNCHANGED <<calls, emptied>>

Handle ==
  /\ inbox # <<>>
  /\ inbox' = Tail(inbox)
  /\ LET m == Head(inbox) IN
     \/ m.op = "updated" /\ OnUpdated(m)
     \/ m.op = "invalidated" /\ OnInvalidated(m)
     \/ m.op = "connect" /\ ConnectAnswered(m)
     \/ m.op \in {"schemas", "schemas first"} /\ SchemasAnswered(m)
     \/ m.op = "disconnect" /\ DisconnectAnswered(m)
     \/ m.op = "reconnect" /\ ReconnectAnswered(m)
     \/ m.op = "refresh" /\ RefreshAnswered(m)
     \/ m.op = "list" /\ ListAnswered(m)
     \/ m.op = "open" /\ OpenAnswered(m)
     \/ m.op = "validate" /\ ValidateAnswered(m)
     \/ m.op = "attach" /\ AttachAnswered(m)
     \/ m.op \in {"detach", "delete"} /\ RemoveConnection(m)
  /\ strays' = IF ~member /\ Head(inbox).op = "open" /\ Head(inbox).outcome = "ok"
               THEN strays \cup {Head(inbox).of} ELSE strays
  /\ UNCHANGED <<there, version, hostSide, answers, left, floor, straddled, absent>>

CatalogNext == Acts \/ (\E r \in Relation : CloseTab(r) \/ Changes(r)) \/ Host \/ Handle

------------------------------------------------------------------------------
Quiet == calls = {} /\ answers = {} /\ inbox = <<>> /\ reading = {} /\ serving = {}

Live(r) == tabs[r] = "external" /\ shownStatus = "connected"

(* Columns the host has, and once all is quiet those of a live tab, are not  *)
(* older than the last refresh of the catalog or the last disconnection that *)
(* succeeded, whatever was listed, opened and validated around it: unless the*)
(* relation was being read when that came, as columns read before are stored *)
(* and answered after it; or its tab was opened by an answer that came when  *)
(* the connection was out of the project, whose events then pass the tab by. *)
(* (GetExternalRelation, RefreshCatalog, Disconnect, openExternalRelation)   *)
LiveIsFresh ==
  \A r \in Relation \ straddled :
    /\ columns[r] # 0 => columns[r] >= floor[r]
    /\ Quiet /\ Live(r) /\ r \notin strays /\ shown[r] # 0 => shown[r] >= floor[r]

(* The host said that the connection is not one of the project's.            *)
ToldDetached == inbox # <<>> /\ Head(inbox).outcome = "detached"

(* A tab closes by itself only if its relation has been absent from the      *)
(* database, or its connection was deleted or taken from the project: not    *)
(* because the database could not be reached or read when the tab was        *)
(* validated.  (validateExternalTabs, setExternalRelations)                  *)
TabsStay ==
  [][\A r \in Open : tabs'[r] = "none" /\ left' = left =>
       r \in absent \/ status = "gone" \/ ~member' \/ ToldDetached]_catalogVars
================================================================================
