--------------------------------- MODULE Drafts ---------------------------------
(***************************************************************************)
(* The texts of the SQL documents of an open project and its saved queries:*)
(* the editor (SQLEditorTab.tsx), the draft and query operations of        *)
(* app-store.ts, the handlers of App.tsx that save, rename and delete, and *)
(* the host's saved queries (saved_queries.go).  A document runs its text  *)
(* in Sources.                                                             *)
(*                                                                         *)
(* A text is its version: each time something is written it is a new one,  *)
(* 0 is the empty text.  The host serves calls in any order, and answers   *)
(* reach the webview in the order they were sent.                          *)
(***************************************************************************)
EXTENDS Sources

CONSTANTS QueryName,    \* names given to saved queries
          MaxQueries,   \* bound: saved queries ever made
          DraftBudgets  \* bound: how often the user writes, formats, opens and saves

ASSUME DraftsAssumption ==
  /\ MaxQueries \in Nat
  /\ DraftBudgets \subseteq [{"write", "format", "open", "save", "manage"} -> Nat]

Query == 1 .. MaxQueries

VARIABLES
  text,     \* sql of a document
  title,    \* its title, "untitled" or that of a query
  bound,    \* its savedQueryId, 0 if none
  opened,   \* documents ever opened
  captured, \* the text the formatter was given, -1 if it is not at work
  stored,   \* host: the saved queries
  shown,    \* savedQueriesById
  asked,    \* calls the host has not served
  served,   \* calls that are served; an update then reads the query back
  replies,  \* what is answered and not sent
  queue,    \* answers the webview has not handled
  version,  \* texts written
  spare,    \* what is left of the budget
  crossed,  \* ghost: queries that two calls were on their way for at a time
  kept      \* ghost: the text last saved in a query from a document

editors == <<text, title, bound, opened, captured>>
queryWire == <<stored, asked, served, replies, queue>>
draftVars == <<editors, queryWire, shown, version, spare, crossed, kept>>

NoQuery == [there |-> FALSE, name |-> "none", sql |-> 0]
SavedQuery(name, sql) == [there |-> TRUE, name |-> name, sql |-> sql]

DraftsInit ==
  /\ text = [d \in Document |-> 0] /\ title = [d \in Document |-> "untitled"]
  /\ bound = [d \in Document |-> 0] /\ opened = left["document"]
  /\ captured = [d \in Document |-> -1]
  /\ stored = [q \in Query |-> NoQuery] /\ shown = stored
  /\ asked = {} /\ served = {} /\ replies = {} /\ queue = <<>>
  /\ version = 0 /\ spare \in DraftBudgets
  /\ crossed = {} /\ kept = [q \in Query |-> 0]

Uses(what) == spare[what] > 0 /\ spare' = [spare EXCEPT ![what] = @ - 1]

------------------------------------------------------------------------------
(* Documents                                                                 *)

\* updateDocument of workbench.ts
UpdateSQL(d, sql) == text' = [text EXCEPT ![d] = sql]
Writes(d) == /\ version' = version + 1
             /\ UpdateSQL(d, version')

\* onChange of the editor, which a run locks
Type(d) ==
  /\ Uses("write") /\ d \in open \ running
  /\ Writes(d)
  /\ UNCHANGED <<open, title, bound, opened, captured, queryWire, shown, crossed, kept>>

(* Opens(sql, name, q): openOrSplitSQLTab makes a document of its own.       *)
Opens(sql, name, q) ==
  LET d == opened + 1 IN
  /\ d \in Document
  /\ opened' = d /\ open' = open \cup {d}
  /\ UpdateSQL(d, sql)
  /\ title' = [title EXCEPT ![d] = name]
  /\ bound' = [bound EXCEPT ![d] = q]

\* focusedDocumentId: the user can bring any document to the front, and one of
\* them is found if there is any.
FocusedDocuments == open

(* setDraft and insertIntoDraft, from the AI panel and the sidebar, whether  *)
(* the document runs or not.                                                 *)
Draft ==
  /\ Uses("write")
  /\ \/ \E d \in FocusedDocuments : Writes(d) /\ UNCHANGED <<open, opened, title, bound>>
     \/ /\ FocusedDocuments = {}
        /\ version' = version + 1
        /\ Opens(version', "untitled", 0)
  /\ UNCHANGED <<captured, queryWire, shown, crossed, kept>>

NewDraft ==
  /\ Uses("open")
  /\ Opens(0, "untitled", 0)
  /\ UNCHANGED <<captured, queryWire, shown, version, crossed, kept>>

(* loadSavedQuery shows the query in the document it is open in, whose text  *)
(* is the one that is saved from then on.                                    *)
LoadSavedQuery(q) ==
  /\ Uses("open") /\ shown[q].there
  /\ \/ \E d \in open :
          /\ bound[d] = q /\ \A other \in open : bound[other] = q => d <= other
          /\ UpdateSQL(d, shown[q].sql)
          /\ title' = [title EXCEPT ![d] = shown[q].name]
          /\ UNCHANGED <<open, bound, opened>>
     \/ /\ \A d \in open : bound[d] # q
        /\ Opens(shown[q].sql, shown[q].name, q)
  /\ UNCHANGED <<captured, queryWire, shown, version, crossed, kept>>

(* onFormat gives the text of now to the formatter, which is loaded when it  *)
(* is first used; what is typed meanwhile goes when the answer comes.        *)
Format(d) ==
  /\ Uses("format") /\ d \in open /\ text[d] # 0 /\ captured[d] = -1
  /\ captured' = [captured EXCEPT ![d] = text[d]]
  /\ UNCHANGED <<open, text, title, bound, opened, queryWire, shown, version, crossed, kept>>

Formatted(d) ==
  /\ captured[d] # -1
  /\ captured' = [captured EXCEPT ![d] = -1]
  /\ \/ UNCHANGED text                                   \* nothing to format, or refused
     \/ d \in open /\ UpdateSQL(d, captured[d])
  /\ UNCHANGED <<open, title, bound, opened, queryWire, shown, version, spare, crossed, kept>>

------------------------------------------------------------------------------
(* Calls                                                                     *)

Asked(op, q, d, name, sql) == [op |-> op, of |-> q, for |-> d, name |-> name, sql |-> sql]
Pending == asked \cup served \cup replies \cup ToSet(queue)

Asks(call) ==
  /\ asked' = asked \cup {call}
  /\ crossed' = crossed \cup {q \in {call.of} \ {0} : \E other \in Pending : other.of = q}
  /\ UNCHANGED <<open, editors, stored, served, replies, queue, shown, version, kept>>

\* saveQueryBusy, and renaming of the row of a query
Busy(op, q) == \E call \in Pending : call.op = op /\ (op = "save" \/ call.of = q)

\* saveQuery, for the document the dialog was opened for
SaveQuery(d, name) ==
  /\ Uses("save") /\ d \in open /\ ~Busy("save", 0)
  /\ Asks(Asked("save", bound[d], d, name, text[d]))

\* commitRename and renameSavedQuery: with the text that is shown
RenameSavedQuery(q, name) ==
  /\ Uses("manage") /\ shown[q].there /\ name # shown[q].name /\ ~Busy("rename", q)
  /\ Asks(Asked("rename", q, 0, name, shown[q].sql))

DeleteSavedQuery(q) ==
  /\ Uses("manage") /\ shown[q].there /\ ~Busy("delete", q)
  /\ Asks(Asked("delete", q, 0, "none", 0))

------------------------------------------------------------------------------
(* The host                                                                  *)

NameAvailable(name, except) ==
  \A q \in Query \ {except} : stored[q].there => stored[q].name # name

Reply(call, q, query) == [op |-> call.op, of |-> q, for |-> call.for, query |-> query]

(* CreateSavedQuery and UpdateSavedQuery, each a transaction.                *)
Accepted(call, q) ==
  /\ call.op # "delete" /\ call.sql # 0 /\ NameAvailable(call.name, q)
  /\ IF call.of = 0 THEN q = Cardinality({other \in Query : kept[other] # 0}) + 1
                    ELSE q = call.of /\ stored[q].there

Stores(call) ==
  \E q \in Query :
    /\ Accepted(call, q)
    /\ stored' = [stored EXCEPT ![q] = SavedQuery(call.name, call.sql)]
    /\ kept' = IF call.op = "save" THEN [kept EXCEPT ![q] = call.sql] ELSE kept
    /\ IF call.of = 0
       THEN replies' = replies \cup {Reply(call, q, stored'[q])} /\ UNCHANGED served
       ELSE served' = served \cup {call} /\ UNCHANGED replies

Deletes(call) ==
  /\ call.op = "delete" /\ stored[call.of].there
  /\ stored' = [stored EXCEPT ![call.of] = NoQuery]
  /\ replies' = replies \cup {Reply(call, call.of, SavedQuery("none", 0))}
  /\ UNCHANGED <<served, kept>>

Refuses(call) ==
  /\ IF call.op = "delete" THEN ~stored[call.of].there ELSE \A q \in Query : ~Accepted(call, q)
  /\ replies' = replies \cup {Reply(call, call.of, NoQuery)}
  /\ UNCHANGED <<stored, served, kept>>

(* GetSavedQuery, after the transaction of an update.                        *)
ReadsBack(call) ==
  /\ call \in served
  /\ served' = served \ {call}
  /\ replies' = replies \cup {Reply(call, call.of, stored[call.of])}
  /\ UNCHANGED <<stored, asked, queue, kept>>

QueryHost ==
  /\ \/ \E call \in asked : /\ Stores(call) \/ Deletes(call) \/ Refuses(call)
                            /\ asked' = asked \ {call}
                            /\ UNCHANGED queue
     \/ \E call \in served : ReadsBack(call)
     \/ \E reply \in replies : /\ replies' = replies \ {reply}
                               /\ queue' = Append(queue, reply)
                               /\ UNCHANGED <<stored, asked, served, kept>>
  /\ UNCHANGED <<open, editors, shown, version, spare, crossed>>

------------------------------------------------------------------------------
(* Answers                                                                   *)

Retitled(q, name) == [d \in Document |-> IF q # 0 /\ bound[d] = q THEN name ELSE title[d]]

(* Mutant: the name of a query that is known is taken, and its text is not.  *)
KeepsText(reply) ==
  shown' = [shown EXCEPT ![reply.of] =
              IF @.there THEN SavedQuery(reply.query.name, @.sql) ELSE reply.query]

UpsertSavedQuery(reply) == shown' = [shown EXCEPT ![reply.of] = reply.query]

(* upsertSavedQuery retitles the documents of a query, then bindSavedQuery   *)
(* binds the one that was saved.                                             *)
SaveHandled(reply) ==
  /\ reply.op # "delete"
  /\ UpsertSavedQuery(reply)
  /\ LET titles == IF shown[reply.of].there THEN Retitled(reply.of, reply.query.name) ELSE title
         binds == reply.for \in open
     IN  /\ title' = [d \in Document |-> IF binds /\ d = reply.for THEN reply.query.name ELSE titles[d]]
         /\ bound' = [d \in Document |-> IF binds /\ d = reply.for THEN reply.of ELSE bound[d]]

(* Mutant: a document keeps the query that is gone.                          *)
KeepsBinding(reply) == UNCHANGED bound

Unbind(reply) == bound' = [d \in Document |-> IF bound[d] = reply.of THEN 0 ELSE bound[d]]

\* removeSavedQuery
DeleteHandled(reply) ==
  /\ reply.op = "delete"
  /\ shown' = [shown EXCEPT ![reply.of] = NoQuery]
  /\ Unbind(reply)
  /\ UNCHANGED title

HandleReply ==
  /\ queue # <<>>
  /\ queue' = Tail(queue)
  /\ LET reply == Head(queue) IN
     IF ~reply.query.there THEN UNCHANGED <<shown, title, bound>>
     ELSE SaveHandled(reply) \/ DeleteHandled(reply)
  /\ UNCHANGED <<open, text, opened, captured, stored, asked, served, replies, version, spare,
                 crossed, kept>>

------------------------------------------------------------------------------
DraftSteps ==
  \/ Draft \/ NewDraft \/ QueryHost \/ HandleReply
  \/ \E d \in Document :
       Type(d) \/ Format(d) \/ Formatted(d) \/ \E name \in QueryName : SaveQuery(d, name)
  \/ \E q \in Query :
       \/ LoadSavedQuery(q) \/ DeleteSavedQuery(q)
       \/ \E name \in QueryName : RenameSavedQuery(q, name)

DraftsNext == /\ DraftSteps
              /\ UNCHANGED <<host, wire, sources, tabs, jobs, attached, running, left, ghosts>>

documentVars == <<sourceVars, draftVars>>
DocumentsInit == SourcesInit /\ DraftsInit
DocumentsNext == DraftsNext \/ (SourcesNext /\ UNCHANGED draftVars)
DocumentsSpec == DocumentsInit /\ [][DocumentsNext]_documentVars

------------------------------------------------------------------------------
Saved == Query \ crossed
NothingAsked == asked = {} /\ served = {} /\ replies = {} /\ queue = <<>>

(* What was saved last from a document is what its query has: renaming it    *)
(* does not bring an older text back.                                        *)
SavedIsKept == \A q \in Saved : stored[q].there => stored[q].sql = kept[q]

(* Each query is edited in one document, which has its name, and which lets  *)
(* go of it when it is deleted.                                              *)
OneEditor == \A d, e \in open : bound[d] = bound[e] /\ bound[d] \in Saved => d = e
EditorsFollow ==
  \A d \in open : bound[d] \in Saved => shown[bound[d]].there /\ title[d] = shown[bound[d]].name

(* The saved queries and the documents they are open in stay of one mind:    *)
(* the webview shows the queries the host has once all calls are answered,   *)
(* and what is saved is not undone, whatever was opened, closed, renamed and *)
(* deleted meanwhile.  Except for a query that two calls were on their way   *)
(* for at a time: a rename brings back the text that was shown when it was   *)
(* asked for, and a save that is answered after a deletion shows the query   *)
(* again.  (upsertSavedQuery, removeSavedQuery, loadSavedQuery)              *)
QueriesAgree ==
  /\ SavedIsKept /\ OneEditor /\ EditorsFollow
  /\ NothingAsked => \A q \in Saved : shown[q] = stored[q]
================================================================================
