---------------------------------- MODULE Grid ----------------------------------
(***************************************************************************)
(* A data grid (DataGrid.tsx): what it asks of the host, what it shows and *)
(* what it says of its loading, while the user sorts, filters and hides    *)
(* columns, and while the source it was given changes under it.            *)
(*                                                                         *)
(* AG Grid is external and modelled by what DataGrid relies on: it asks its*)
(* datasource for the blocks it has not got, a few at a time, forgets them *)
(* when it is purged or its order or filter changes, and takes an answer   *)
(* only if it still waits for it.  Rows are the version of the table they  *)
(* were read from and the view they were read for.                         *)
(***************************************************************************)
EXTENDS Naturals, Sequences, FiniteSets, SequencesExt

CONSTANTS Column, Block, Cell,
          OnScreen,    \* the blocks on the screen, for a live relation and for others
          Sort,        \* orders of the rows, "none" among them
          MaxCached,   \* LOCAL_ROW_BLOCK_CACHE_SIZE
          MaxRequests, \* bound: requests on their way
          GridBudgets  \* bound: how often the user changes the layout, scrolls or opens a
                       \* cell, the table is replaced and a read fails

ASSUME GridAssumption ==
  /\ {MaxCached, MaxRequests} \subseteq Nat /\ MaxCached > 0
  /\ OnScreen \in [BOOLEAN -> (SUBSET Block) \ {{}}]
  /\ GridBudgets \subseteq [{"layout", "scroll", "cell", "table", "failure"} -> Nat]
  /\ "none" \in Sort /\ IsFiniteSet(Column) /\ Column # {}
  /\ 0 \notin Cell

(* One condition on a column, two of which both hold, or two alternatives.   *)
Filter == {"none", "one", "both", "either"}

VARIABLES
  external,    \* whether the rows are those of a live relation
  given,       \* the source: status, schema, version, empty
  table,       \* version of the rows at the host
  served,      \* whether the host can read them
  restored,    \* restoredView: the conditions the component was mounted with
  view,        \* viewRef: sort, filter, visible
  model,       \* the filter AG Grid shows
  datasource,  \* of the mounted grid: on, and the version it was made for
  blocks,      \* the blocks AG Grid holds
  requests,    \* calls of GetRows on their way
  rowsLoading, loadError,
  cache,       \* localRowBlockCache, the oldest first
  viewer,      \* the cell viewer
  cells,       \* calls of GetCellValue on their way
  gridLeft     \* what is left of the budget

props    == <<external, given, table, served>>
looks    == <<restored, view, model>>
rows     == <<datasource, blocks, requests, rowsLoading, loadError, cache>>
cellVars == <<viewer, cells>>
gridVars == <<props, looks, rows, cellVars, gridLeft>>

NoView == [sort |-> "none", filter |-> 0, visible |-> {}]
Absent == [state |-> "absent", version |-> 0, view |-> NoView]
Closed == [cell |-> 0, value |-> 0, loading |-> FALSE, failed |-> FALSE, request |-> 0]

Uses(what) == gridLeft[what] > 0 /\ gridLeft' = [gridLeft EXCEPT ![what] = @ - 1]

Ready(g) == g.status = "ready"
ShouldLoad(g) == Ready(g) /\ ~g.empty
GridMounted(g, visible) == /\ g.status \in {"preparing", "ready"}
                           /\ g.schema # 0 /\ ~g.empty /\ visible # {}

NewDatasource(g, visible) == [on |-> Ready(g) /\ GridMounted(g, visible), version |-> g.version]

(* The conditions sent for a filter, none for alternatives, and the filter   *)
(* that is made of the conditions again.                                     *)
AdaptFilterModel == [none |-> 0, one |-> 1, both |-> 2, either |-> 0]
RestoreFilterModel == [n \in 0 .. 2 |-> CASE n = 0 -> "none" [] n = 1 -> "one" [] OTHER -> "both"]

GridInit(isExternal, g) ==
  /\ external = isExternal /\ given = g
  /\ table = g.version /\ served = TRUE
  /\ restored = 0 /\ model = "none"
  /\ view = [sort |-> "none", filter |-> 0, visible |-> Column]
  /\ datasource = NewDatasource(g, Column)
  /\ blocks = [b \in Block |-> Absent] /\ requests = {}
  /\ rowsLoading = ShouldLoad(g) /\ loadError = FALSE
  /\ cache = <<>> /\ viewer = Closed /\ cells = {} /\ gridLeft \in GridBudgets

------------------------------------------------------------------------------
(* What becomes of the requests and blocks                                   *)

Turned(from, to) == {IF q.for \in from THEN [q EXCEPT !.for = to] ELSE q : q \in requests}

(* purgeInfiniteCache, and what AG Grid does on a new order or filter.       *)
Purges ==
  /\ blocks' = [b \in Block |-> Absent]
  /\ requests' = Turned({"block"}, "nothing")
  /\ UNCHANGED datasource

(* AG Grid destroys its datasource as it goes, and is given one as it comes. *)
Replaces(d) ==
  /\ datasource' = d
  /\ blocks' = [b \in Block |-> Absent]
  /\ requests' = Turned({"block", "nothing"}, "destroyed")

Pending(qs) == {q \in qs : q.for # "destroyed"}

------------------------------------------------------------------------------
(* Rows                                                                      *)

CacheKey(version, b, v) == [version |-> version, block |-> b, view |-> v]
Cached(key) == {i \in DOMAIN cache : cache[i].key = key}

(* cacheRowBlock: the newest is last, the oldest goes.                       *)
Without(key) == IF Cached(key) = {} THEN {cache} ELSE {RemoveAt(cache, i) : i \in Cached(key)}
CacheRowBlock(key, version) ==
  \E kept \in Without(key) :
    LET now == Append(kept, [key |-> key, rows |-> version]) IN
    cache' = IF Len(now) > MaxCached THEN Tail(now) ELSE now

Shown(v, version) == [state |-> "shown", version |-> version, view |-> v]
Unused == CHOOSE n \in 1 .. MaxRequests :
            /\ \A q \in requests : q.id # n
            /\ \A m \in 1 .. n - 1 : \E q \in requests : q.id = m

(* getRows: what the cache has is shown at once.                             *)
GetRows(b) ==
  /\ datasource.on /\ b \in OnScreen[external] /\ blocks[b].state = "absent"
  /\ Cardinality({c \in Block : blocks[c].state = "asked"}) < (IF external THEN 1 ELSE 2)
  /\ Cardinality(requests) < MaxRequests
  /\ loadError' = FALSE
  /\ LET key == CacheKey(datasource.version, b, view) IN
     \/ /\ ~external /\ Cached(key) # {}
        /\ \E i \in Cached(key) : blocks' = [blocks EXCEPT ![b] = Shown(view, cache[i].rows)]
        /\ rowsLoading' = FALSE
        /\ UNCHANGED requests
     \/ /\ external \/ Cached(key) = {}
        /\ blocks' = [blocks EXCEPT ![b].state = "asked"]
        /\ requests' = requests \cup {[id |-> Unused, for |-> "block", key |-> key,
                                       state |-> "sent", rows |-> 0]}
        /\ rowsLoading' = TRUE
  /\ UNCHANGED <<props, looks, datasource, cache, cellVars, gridLeft>>

(* The host answers with what the table has by then.                         *)
Serve(q) ==
  /\ q \in requests /\ q.state = "sent"
  /\ \/ /\ served
        /\ requests' = (requests \ {q}) \cup {[q EXCEPT !.state = "served", !.rows = table]}
        /\ UNCHANGED gridLeft
     \/ /\ IF served THEN Uses("failure") ELSE UNCHANGED gridLeft
        /\ requests' = (requests \ {q}) \cup {[q EXCEPT !.state = "failed"]}
  /\ UNCHANGED <<props, looks, datasource, blocks, rowsLoading, loadError, cache, cellVars>>

Accepts(q, block) ==
  blocks' = IF q.for = "block" THEN [blocks EXCEPT ![q.key.block] = block] ELSE blocks

(* Mutant: only rows that are shown count as loaded.                         *)
CountsShown(q) ==
  /\ q \in requests /\ q.state # "sent"
  /\ requests' = requests \ {q}
  /\ IF q.for = "destroyed" THEN UNCHANGED <<blocks, rowsLoading, loadError, cache>>
     ELSE /\ IF q.state = "served"
             THEN /\ Accepts(q, Shown(q.key.view, q.rows))
                  /\ IF external THEN UNCHANGED cache ELSE CacheRowBlock(q.key, q.rows)
                  /\ rowsLoading' = (Pending(requests') # {})
                  /\ UNCHANGED loadError
             ELSE /\ Accepts(q, [Absent EXCEPT !.state = "failed"])
                  /\ loadError' = TRUE
                  /\ UNCHANGED <<cache, rowsLoading>>
  /\ UNCHANGED <<props, looks, datasource, cellVars, gridLeft>>

(* A destroyed datasource does nothing any more.                             *)
Deliver(q) ==
  /\ q \in requests /\ q.state # "sent"
  /\ requests' = requests \ {q}
  /\ IF q.for = "destroyed" THEN UNCHANGED <<blocks, rowsLoading, loadError, cache>>
     ELSE /\ IF q.state = "served"
             THEN /\ Accepts(q, Shown(q.key.view, q.rows))
                  /\ IF external THEN UNCHANGED cache ELSE CacheRowBlock(q.key, q.rows)
                  /\ UNCHANGED loadError
             ELSE /\ Accepts(q, [Absent EXCEPT !.state = "failed"])
                  /\ loadError' = TRUE
                  /\ UNCHANGED cache
          /\ rowsLoading' = (Pending(requests') # {})
  /\ UNCHANGED <<props, looks, datasource, cellVars, gridLeft>>

------------------------------------------------------------------------------
(* What the user does                                                        *)

SortChanged(s) ==
  /\ Uses("layout") /\ datasource.on /\ viewer.cell = 0 /\ s # view.sort
  /\ view' = [view EXCEPT !.sort = s]
  /\ Purges
  /\ UNCHANGED <<props, restored, model, rowsLoading, loadError, cache, cellVars>>

FilterChanged(f) ==
  /\ Uses("layout") /\ datasource.on /\ viewer.cell = 0 /\ f # model
  /\ model' = f
  /\ view' = [view EXCEPT !.filter = AdaptFilterModel[f]]
  /\ Purges
  /\ UNCHANGED <<props, restored, rowsLoading, loadError, cache, cellVars>>

(* A grid that is mounted anew shows the filter its component began with.    *)
MountsAgain(v) ==
  /\ Replaces(NewDatasource(given, v.visible))
  /\ model' = RestoreFilterModel[restored]
  /\ view' = [v EXCEPT !.filter = restored]

(* Mutant: the rows are not asked for again with the columns shown.          *)
KeepsBlocks(v) ==
  /\ CASE GridMounted(given, view.visible) /\ v.visible # {} ->
            view' = v /\ UNCHANGED <<model, blocks, requests, datasource>>
       [] GridMounted(given, view.visible) /\ v.visible = {} ->
            Replaces(NewDatasource(given, {})) /\ view' = v /\ UNCHANGED model
       [] ~GridMounted(given, view.visible) /\ GridMounted(given, v.visible) -> MountsAgain(v)
       [] OTHER -> view' = v /\ UNCHANGED <<model, datasource, blocks, requests>>
  /\ UNCHANGED <<props, restored, rowsLoading, loadError, cache, cellVars>>

(* setVisibility: hiding all columns takes the grid away.                    *)
SetVisibility(v) ==
  /\ CASE GridMounted(given, view.visible) /\ v.visible # {} ->
            Purges /\ view' = v /\ UNCHANGED model
       [] GridMounted(given, view.visible) /\ v.visible = {} ->
            Replaces(NewDatasource(given, {})) /\ view' = v /\ UNCHANGED model
       [] ~GridMounted(given, view.visible) /\ GridMounted(given, v.visible) -> MountsAgain(v)
       [] OTHER -> view' = v /\ UNCHANGED <<model, datasource, blocks, requests>>
  /\ UNCHANGED <<props, restored, rowsLoading, loadError, cache, cellVars>>

ShowColumns(visible) ==
  /\ Uses("layout") /\ given.schema # 0 /\ viewer.cell = 0 /\ visible # view.visible
  /\ SetVisibility([view EXCEPT !.visible = visible])

Reset ==
  /\ Uses("layout") /\ given.schema # 0 /\ viewer.cell = 0
  /\ SetVisibility([view EXCEPT !.visible = Column, !.sort = "none"])

(* AG Grid keeps a few blocks; one scrolled away is asked for again.         *)
Scroll(b) ==
  /\ Uses("scroll") /\ blocks[b].state \in {"shown", "failed"}
  /\ blocks' = [blocks EXCEPT ![b] = Absent]
  /\ UNCHANGED <<props, looks, datasource, requests, rowsLoading, loadError, cache, cellVars>>

Retry ==
  /\ loadError /\ viewer.cell = 0
  /\ loadError' = FALSE
  /\ rowsLoading' = TRUE
  /\ IF datasource.on THEN Purges ELSE UNCHANGED <<datasource, blocks, requests>>
  /\ UNCHANGED <<props, looks, cache, cellVars, gridLeft>>

------------------------------------------------------------------------------
(* The cell viewer                                                           *)

(* A preview has its values whole; of other rows the host is asked.          *)
OpenCell(c) ==
  /\ Uses("cell") /\ viewer.cell = 0
  /\ \/ /\ GridMounted(given, view.visible) /\ ~Ready(given)
        /\ viewer' = [viewer EXCEPT !.cell = c, !.value = c, !.loading = FALSE, !.failed = FALSE]
        /\ UNCHANGED cells
     \/ /\ \E b \in Block : blocks[b].state = "shown"
        /\ viewer' = [cell |-> c, value |-> c, loading |-> TRUE, failed |-> FALSE,
                      request |-> viewer.request + 1]
        /\ cells' = cells \cup {[id |-> viewer'.request, cell |-> c]}
  /\ UNCHANGED <<props, looks, rows>>

CloseViewer ==
  /\ viewer.cell # 0
  /\ viewer' = [viewer EXCEPT !.cell = 0, !.loading = FALSE, !.failed = FALSE, !.request = @ + 1]
  /\ UNCHANGED <<props, looks, rows, cells, gridLeft>>

(* The answer for a cell that is no longer open is left alone.               *)
DeliverCell(q) ==
  /\ q \in cells
  /\ cells' = cells \ {q}
  /\ IF viewer.request # q.id THEN UNCHANGED viewer
     ELSE viewer' \in {[viewer EXCEPT !.value = q.cell, !.loading = FALSE],
                       [viewer EXCEPT !.failed = TRUE, !.loading = FALSE]}
  /\ UNCHANGED <<props, looks, rows, gridLeft>>

------------------------------------------------------------------------------
(* The source changes under the grid                                         *)

(* A component mounted anew has the view of the one before: the layout is    *)
(* loaded from where it was saved.  Answers to the one before change nothing.*)
Mounts(g) ==
  /\ restored' = view.filter /\ model' = RestoreFilterModel[view.filter]
  /\ datasource' = NewDatasource(g, view.visible)
  /\ blocks' = [b \in Block |-> Absent] /\ requests' = {}
  /\ rowsLoading' = ShouldLoad(g) /\ loadError' = FALSE
  /\ viewer' = Closed /\ cells' = {}
  /\ UNCHANGED <<view, cache>>

(* A new status or schema mounts the component anew.  Otherwise the grid     *)
(* stays as long as there are rows, and its datasource with it.              *)
Receives(g) ==
  /\ given' = g
  /\ IF g.status # given.status \/ g.schema # given.schema THEN Mounts(g)
     ELSE /\ IF g.empty = given.empty THEN UNCHANGED <<datasource, blocks, requests, model, view, rowsLoading>>
             ELSE /\ rowsLoading' = ShouldLoad(g)
                  /\ Replaces(NewDatasource(g, view.visible))
                  /\ IF ~GridMounted(g, view.visible) THEN UNCHANGED <<model, view>>
                     ELSE model' = RestoreFilterModel[restored] /\ view' = [view EXCEPT !.filter = restored]
          /\ UNCHANGED <<restored, loadError, cache, cellVars>>

(* An import ends, a snapshot is refreshed: the table is replaced, and the   *)
(* grid is told by an event.                                                 *)
TableChanges ==
  /\ ~external /\ table = given.version /\ Uses("table")
  /\ table' = table + 1
  /\ UNCHANGED <<external, given, served, looks, rows, cellVars>>

SourceChanges ==
  /\ ~external /\ table # given.version
  /\ \E schema \in {given.schema, given.schema + 1}, empty \in BOOLEAN :
       Receives([status |-> "ready", schema |-> schema, version |-> table, empty |-> empty])
  /\ UNCHANGED <<external, table, served, gridLeft>>

GridNext ==
  \/ \E b \in Block : GetRows(b) \/ Scroll(b)
  \/ \E q \in requests : Serve(q) \/ Deliver(q)
  \/ \E s \in Sort : SortChanged(s)
  \/ \E f \in Filter : FilterChanged(f)
  \/ \E visible \in SUBSET Column : ShowColumns(visible)
  \/ Reset \/ Retry
  \/ \E c \in Cell : OpenCell(c)
  \/ CloseViewer
  \/ \E q \in cells : DeliverCell(q)
  \/ TableChanges \/ SourceChanges

(* AG Grid asks for what it lacks, the host answers, answers arrive.         *)
GridFairness ==
  /\ \A b \in Block : WF_gridVars(GetRows(b))
  /\ \A n \in 1 .. MaxRequests : WF_gridVars(\E q \in requests : q.id = n /\ (Serve(q) \/ Deliver(q)))

------------------------------------------------------------------------------
(* The rows a grid shows were read for the order, the filter and the columns *)
(* it shows, whatever was changed while they were read or cached; and of a   *)
(* local source they are those of the table as it is, unless the table was   *)
(* replaced under a grid that stays mounted: its datasource is the one made  *)
(* for the table before, and nothing purges it.  Alternatives of a filter    *)
(* are not sent.  (getRows, rowBlockCacheKey, persistColumns)                *)
ShownIsOfView ==
  \A b \in Block : blocks[b].state = "shown" =>
    /\ blocks[b].view = view
    /\ model = RestoreFilterModel[view.filter] \/ model = "either"
    /\ external \/ blocks[b].version = table \/ datasource.version # table

(* The viewer shows the value of the cell that was opened last, whichever    *)
(* answers arrive and in whatever order.  (cellRequestRef)                   *)
ViewerIsTrue == viewer.cell # 0 => viewer.value = viewer.cell

(* What the grid and its viewer show was read for what they show.            *)
ShownWasAsked == ShownIsOfView /\ ViewerIsTrue

(* A grid that says it loads ends doing so, unless it is taken away: one     *)
(* whose columns are all hidden while it loads says so for ever.             *)
(* (pendingRequests, rowsLoading)                                            *)
LoadingEnds == (datasource.on /\ rowsLoading) ~> (~rowsLoading \/ ~datasource.on)
================================================================================
