---------------------------- MODULE LiveTabProofs ----------------------------
(***************************************************************************)
(* For any columns, blocks, cells, orders and limits, and however often the*)
(* layout, the table or the connection changes: what a grid and its viewer *)
(* show was read for what they show.  For any relations, and however calls,*)
(* answers and events of their connection interleave: columns are not older*)
(* than the last invalidation, no tab closes because the database was not  *)
(* reached, and a live tab shows rows or says why it does not.             *)
(***************************************************************************)
EXTENDS LiveTab, TLAPS

Views == [sort : Sort, filter : 0..2, visible : SUBSET Column]
Keys == [version : Nat, block : Block, view : Views]
Blocks == [state : {"absent", "asked", "shown", "failed"}, version : Nat, view : Views]
Entries == {c \in [key : Keys, rows : Nat] : c.key.version <= c.rows /\ c.rows <= table}
Viewers == [cell : Cell \cup {0}, value : Cell \cup {0}, loading : BOOLEAN, failed : BOOLEAN,
            request : Nat]

(* The filter shown is the one that is sent, but for alternatives.           *)
ViewOK ==
  /\ view \in Views /\ restored \in 0..2
  /\ model = RestoreFilterModel[view.filter] \/ model = "either"

(* Of a local table nobody has a version that is not made yet.  AG Grid has a *)
(* datasource that is on only while it is mounted.                           *)
SourceOK ==
  /\ table \in Nat /\ given.version \in Nat /\ datasource.version \in Nat
  /\ external \/ (given.version <= table /\ datasource.version <= table)
  /\ datasource.on => GridMounted(given, view.visible)

(* What is shown is of the view, and not older than the datasource.          *)
BlockOK(b) == blocks[b].state = "shown" =>
  /\ blocks[b].view = view /\ datasource.on
  /\ external \/ (datasource.version <= blocks[b].version /\ blocks[b].version <= table)
BlocksOK == blocks \in [Block -> Blocks] /\ \A b \in Block : BlockOK(b)

(* Rows that were read are not older than what they were asked of.  A block  *)
(* waits only for what was asked of the datasource for the view.             *)
Read(q) ==
  /\ q \in [id : {q.id}, for : {"block", "nothing", "destroyed"}, key : Keys,
            state : {"sent", "served", "failed"}, rows : Nat]
  /\ external \/ (/\ q.key.version <= table
                  /\ q.state = "served" => q.key.version <= q.rows /\ q.rows <= table)
Waits(q) == q.for = "block" =>
  q.key.view = view /\ datasource.on /\ q.key.version = datasource.version
RequestsOK == \A q \in requests : Read(q) /\ Waits(q)

CacheOK == cache \in Seq(Entries)

(* The request the viewer waits for is of the cell it shows.                 *)
ViewerOK ==
  /\ viewer \in Viewers /\ ViewerIsTrue
  /\ \A q \in cells : /\ q \in [id : Nat, cell : Cell] /\ q.id <= viewer.request
                      /\ q.id = viewer.request => viewer.cell # 0 /\ q.cell = viewer.cell

IInv == ViewOK /\ SourceOK /\ BlocksOK /\ RequestsOK /\ CacheOK /\ ViewerOK

------------------------------------------------------------------------------
(* Rows                                                                      *)

LEMMA Filters ==
  /\ \A f \in Filter : /\ AdaptFilterModel[f] \in 0..2
                       /\ f = RestoreFilterModel[AdaptFilterModel[f]] \/ f = "either"
  /\ NoView \in Views /\ Absent \in Blocks /\ Absent.state = "absent"
  /\ Closed \in Viewers /\ Closed.cell = 0
<1>1. /\ \A f \in Filter : f = "none" \/ f = "one" \/ f = "both" \/ f = "either"
      /\ AdaptFilterModel["none"] = 0 /\ AdaptFilterModel["one"] = 1
      /\ AdaptFilterModel["both"] = 2 /\ AdaptFilterModel["either"] = 0
      /\ RestoreFilterModel[0] = "none" /\ RestoreFilterModel[1] = "one"
      /\ RestoreFilterModel[2] = "both"
  BY DEF Filter, AdaptFilterModel, RestoreFilterModel
<1>2. NoView \in Views
  BY GridAssumption DEF NoView, Views
<1>3. Absent \in Blocks /\ Absent.state = "absent" /\ Closed \in Viewers /\ Closed.cell = 0
  BY <1>2 DEF Absent, Blocks, Closed, Viewers
<1> QED
  BY <1>1, <1>2, <1>3

\* All blocks are gone, and what was asked for them counts for nothing.
Cleared == /\ blocks' = [b \in Block |-> Absent]
           /\ \A q \in requests' : Read(q)' /\ q.for # "block"

LEMMA Clears ==
  ASSUME RequestsOK, UNCHANGED <<external, table>>,
         blocks' = [b \in Block |-> Absent],
         NEW from, NEW to, "block" \in from, to \in {"nothing", "destroyed"},
         requests' = Turned(from, to)
  PROVE  Cleared
<1> SUFFICES ASSUME NEW q \in requests'
             PROVE  Read(q)' /\ q.for # "block"
  BY DEF Cleared
<1>1. PICK p \in requests : q = IF p.for \in from THEN [p EXCEPT !.for = to] ELSE p
  BY DEF Turned
<1>2. Read(p)
  BY DEF RequestsOK
<1>3. CASE p.for \in from
  <2>1. q = [p EXCEPT !.for = to]
    BY <1>1, <1>3
  <2>2. /\ q.id = p.id /\ q.for = to /\ q.key = p.key
        /\ q.state = p.state /\ q.rows = p.rows
        /\ q \in [id : {q.id}, for : {"block", "nothing", "destroyed"}, key : Keys,
                  state : {"sent", "served", "failed"}, rows : Nat]
    BY <1>2, <2>1 DEF Read
  <2> QED
    BY <1>2, <2>2 DEF Read
<1>4. CASE p.for \notin from
  BY <1>1, <1>2, <1>4 DEF Read
<1> QED
  BY <1>3, <1>4

LEMMA ClearedKeeps ==
  ASSUME Cleared
  PROVE  BlocksOK' /\ RequestsOK'
BY Filters DEF Cleared, BlocksOK, BlockOK, RequestsOK, Waits

\* Rows and requests stay, and so does what they were asked for.
LEMMA RowsStay ==
  ASSUME BlocksOK, RequestsOK,
         UNCHANGED <<external, table, datasource, blocks, requests, view>>
  PROVE  BlocksOK' /\ RequestsOK'
BY DEF BlocksOK, BlockOK, RequestsOK, Read, Waits

LEMMA ViewerStays ==
  ASSUME ViewerOK, UNCHANGED cellVars
  PROVE  ViewerOK'
BY DEF ViewerOK, ViewerIsTrue, cellVars

LEMMA CacheStays ==
  ASSUME CacheOK, UNCHANGED <<table, cache>>
  PROVE  CacheOK'
BY DEF CacheOK, Entries

LEMMA GetRowsKeeps ==
  ASSUME IInv, NEW b \in Block, GetRows(b)
  PROVE  IInv'
<1>1. /\ datasource.on
      /\ UNCHANGED <<external, given, table, restored, view, model, datasource, cache>>
      /\ UNCHANGED cellVars
  BY DEF GetRows, props, looks
<1>2. ViewOK' /\ SourceOK' /\ CacheOK' /\ ViewerOK'
  BY <1>1, ViewerStays, CacheStays DEF IInv, ViewOK, SourceOK
<1> DEFINE key == CacheKey(datasource.version, b, view)
<1>3. /\ key \in Keys /\ key.version = datasource.version /\ key.view = view
  BY DEF CacheKey, Keys, IInv, ViewOK, SourceOK
<1>4. ASSUME ~external, NEW i \in Cached(key),
             blocks' = [blocks EXCEPT ![b] = Shown(view, cache[i].rows)],
             UNCHANGED requests
      PROVE  BlocksOK' /\ RequestsOK'
  <2>1. cache[i] \in Entries /\ cache[i].key = key
    BY <1>4 DEF Cached, IInv, CacheOK
  <2>2. Shown(view, cache[i].rows) \in Blocks
    BY <2>1 DEF Shown, Blocks, Entries, IInv, ViewOK
  <2> HIDE DEF key
  <2>3. /\ blocks' \in [Block -> Blocks] /\ \A c \in Block : c # b => blocks'[c] = blocks[c]
        /\ blocks'[b] = Shown(view, cache[i].rows)
    BY <1>4, <2>2 DEF IInv, BlocksOK
  <2>4. BlockOK(b)'
    <3>1. /\ blocks'[b].view = view /\ blocks'[b].version = cache[i].rows
          /\ datasource.version <= cache[i].rows /\ cache[i].rows <= table
      BY <1>3, <2>1, <2>3 DEF Shown, Entries
    <3> QED
      BY <1>1, <3>1 DEF BlockOK
  <2>5. \A c \in Block : BlockOK(c)'
    BY <1>1, <2>3, <2>4 DEF BlockOK, IInv, BlocksOK
  <2> QED
    BY <1>1, <1>4, <2>3, <2>5 DEF IInv, BlocksOK, RequestsOK, Read, Waits
<1>5. ASSUME blocks' = [blocks EXCEPT ![b].state = "asked"], NEW n,
             requests' = requests \cup {[id |-> n, for |-> "block", key |-> key,
                                         state |-> "sent", rows |-> 0]}
      PROVE  BlocksOK' /\ RequestsOK'
  <2>1. PICK q : q = [id |-> n, for |-> "block", key |-> key, state |-> "sent", rows |-> 0]
    OBVIOUS
  <2> HIDE DEF key
  <2>2. Read(q)' /\ Waits(q)'
    BY <1>1, <1>3, <2>1 DEF Read, Waits, IInv, SourceOK
  <2>3. RequestsOK'
    BY <1>1, <1>5, <2>1, <2>2 DEF IInv, RequestsOK, Read, Waits
  <2>4. /\ blocks' \in [Block -> Blocks] /\ \A c \in Block : c # b => blocks'[c] = blocks[c]
        /\ blocks'[b].state = "asked"
    BY <1>5 DEF IInv, BlocksOK, Blocks
  <2>5. \A c \in Block : BlockOK(c)
    BY DEF IInv, BlocksOK
  <2>6. \A c \in Block : BlockOK(c)'
    BY <1>1, <2>4, <2>5 DEF BlockOK
  <2> QED
    BY <2>3, <2>4, <2>6 DEF BlocksOK
<1>6. BlocksOK' /\ RequestsOK'
  BY <1>4, <1>5 DEF GetRows
<1> QED
  BY <1>2, <1>6 DEF IInv

\* One request is answered: the others stay.
LEMMA ServeKeeps ==
  ASSUME IInv, NEW q \in requests, Serve(q)
  PROVE  IInv'
<1>1. /\ UNCHANGED <<external, given, table, restored, view, model, datasource, blocks, cache>>
      /\ UNCHANGED cellVars
  BY DEF Serve, props, looks
<1>2. ViewOK' /\ SourceOK' /\ CacheOK' /\ ViewerOK' /\ BlocksOK'
  BY <1>1, ViewerStays, CacheStays DEF IInv, ViewOK, SourceOK, BlocksOK, BlockOK
<1>3. Read(q) /\ Waits(q) /\ q.state = "sent" /\ table \in Nat
  BY DEF IInv, RequestsOK, Serve, SourceOK
<1>4. PICK p : /\ requests' = (requests \ {q}) \cup {p}
               /\ \/ p = [q EXCEPT !.state = "served", !.rows = table]
                  \/ p = [q EXCEPT !.state = "failed"]
  BY DEF Serve
<1>5. Read(p)' /\ Waits(p)'
  <2>1. CASE p = [q EXCEPT !.state = "served", !.rows = table]
    <3>1. /\ p.id = q.id /\ p.for = q.for /\ p.key = q.key /\ p.state = "served" /\ p.rows = table
          /\ p \in [id : {p.id}, for : {"block", "nothing", "destroyed"}, key : Keys,
                    state : {"sent", "served", "failed"}, rows : Nat]
      BY <1>3, <2>1 DEF Read
    <3> QED
      BY <1>1, <1>3, <3>1 DEF Read, Waits
  <2>2. CASE p = [q EXCEPT !.state = "failed"]
    <3>1. /\ p.id = q.id /\ p.for = q.for /\ p.key = q.key /\ p.state = "failed" /\ p.rows = q.rows
          /\ p \in [id : {p.id}, for : {"block", "nothing", "destroyed"}, key : Keys,
                    state : {"sent", "served", "failed"}, rows : Nat]
      BY <1>3, <2>2 DEF Read
    <3> QED
      BY <1>1, <1>3, <3>1 DEF Read, Waits
  <2> QED
    BY <1>4, <2>1, <2>2
<1>6. RequestsOK'
  BY <1>1, <1>4, <1>5 DEF IInv, RequestsOK, Read, Waits
<1> QED
  BY <1>2, <1>6 DEF IInv

LEMMA Lessened ==
  ASSUME NEW S, NEW s \in Seq(S), NEW i \in DOMAIN s
  PROVE  RemoveAt(s, i) \in Seq(S)
BY DEF RemoveAt

(* cacheRowBlock keeps what it had, and one entry more.                      *)
LEMMA CacheRowBlockKeeps ==
  ASSUME CacheOK, NEW key, NEW n, CacheRowBlock(key, n), UNCHANGED table,
         [key |-> key, rows |-> n] \in Entries
  PROVE  CacheOK'
<1>1. PICK kept, now : /\ kept \in Without(key) /\ now = Append(kept, [key |-> key, rows |-> n])
                       /\ cache' = IF Len(now) > MaxCached THEN Tail(now) ELSE now
  BY DEF CacheRowBlock
<1>2. kept \in Seq(Entries)
  <2>1. CASE Cached(key) = {}
    BY <1>1, <2>1 DEF Without, CacheOK
  <2>2. CASE Cached(key) # {}
    <3>1. PICK i \in Cached(key) : kept = RemoveAt(cache, i)
      BY <1>1, <2>2 DEF Without
    <3>2. i \in DOMAIN cache /\ cache \in Seq(Entries)
      BY DEF Cached, CacheOK
    <3> QED
      BY <3>1, <3>2, Lessened
  <2> QED
    BY <2>1, <2>2
<1>3. now \in Seq(Entries) /\ now # <<>> /\ Tail(now) \in Seq(Entries)
  BY <1>1, <1>2
<1>4. cache' \in Seq(Entries)
  BY <1>1, <1>3
<1> QED
  BY <1>4 DEF CacheOK, Entries

LEMMA DeliverKeeps ==
  ASSUME IInv, NEW q \in requests, Deliver(q)
  PROVE  IInv'
<1>1. /\ UNCHANGED <<external, given, table, restored, view, model, datasource>>
      /\ UNCHANGED cellVars /\ requests' = requests \ {q} /\ q.state # "sent"
  BY DEF Deliver, props, looks
<1>2. ViewOK' /\ SourceOK' /\ ViewerOK'
  BY <1>1, ViewerStays DEF IInv, ViewOK, SourceOK
<1>3. RequestsOK'
  BY <1>1 DEF IInv, RequestsOK, Read, Waits
<1>4. Read(q) /\ Waits(q)
  BY DEF IInv, RequestsOK
<1>5. CacheOK'
  <2>1. CASE UNCHANGED cache
    BY <1>1, <2>1, CacheStays DEF IInv
  <2>2. CASE ~external /\ q.state = "served" /\ CacheRowBlock(q.key, q.rows)
    <3>1. PICK k, n : k = q.key /\ n = q.rows
      OBVIOUS
    <3>2. [key |-> k, rows |-> n] \in Entries
      BY <1>4, <2>2, <3>1 DEF Read, Entries
    <3> QED
      BY <1>1, <2>2, <3>1, <3>2, CacheRowBlockKeeps DEF IInv
  <2> QED
    BY <2>1, <2>2 DEF Deliver
<1>6. BlocksOK'
  <2>1. CASE UNCHANGED blocks
    BY <1>1, <2>1 DEF IInv, BlocksOK, BlockOK
  <2>2. ASSUME NEW x \in Blocks, q.for = "block", blocks' = [blocks EXCEPT ![q.key.block] = x],
               x.state = "shown" => x.view = q.key.view /\ x.version = q.rows /\ q.state = "served"
        PROVE  BlocksOK'
    <3>1. PICK b \in Block : b = q.key.block
      BY <1>4 DEF Read, Keys
    <3>2. /\ blocks' \in [Block -> Blocks] /\ blocks'[b] = x
          /\ \A c \in Block : c # b => blocks'[c] = blocks[c]
      BY <2>2, <3>1 DEF IInv, BlocksOK
    <3>3. BlockOK(b)'
      BY <1>1, <1>4, <2>2, <3>2 DEF BlockOK, Read, Waits
    <3> QED
      BY <1>1, <3>2, <3>3 DEF IInv, BlocksOK, BlockOK
  <2>3. /\ Shown(q.key.view, q.rows) \in Blocks /\ Shown(q.key.view, q.rows).view = q.key.view
        /\ Shown(q.key.view, q.rows).version = q.rows
    BY <1>4 DEF Shown, Blocks, Read, Keys
  <2>4. PICK x : x = [Absent EXCEPT !.state = "failed"]
    OBVIOUS
  <2>5. x \in Blocks /\ x.state = "failed"
    BY <2>4, Filters DEF Blocks
  <2>6. Deliver(q) => \/ UNCHANGED blocks
                      \/ q.for = "block" /\ q.state = "served"
                         /\ blocks' = [blocks EXCEPT ![q.key.block] = Shown(q.key.view, q.rows)]
                      \/ q.for = "block" /\ blocks' = [blocks EXCEPT ![q.key.block] = x]
    BY <2>4 DEF Deliver, Accepts
  <2> QED
    BY <2>1, <2>2, <2>3, <2>5, <2>6
<1> QED
  BY <1>2, <1>3, <1>5, <1>6 DEF IInv

------------------------------------------------------------------------------
(* What the user does                                                        *)

\* The view changes and what was read for another is gone.
LEMMA Anew ==
  ASSUME IInv, Cleared, view' \in Views,
         model' = RestoreFilterModel[view'.filter] \/ model' = "either",
         datasource'.version \in {datasource.version, given.version},
         datasource'.on => GridMounted(given, view'.visible),
         UNCHANGED <<props, restored, cache, cellVars>>
  PROVE  IInv'
<1>1. ViewOK' /\ SourceOK' /\ CacheOK' /\ ViewerOK'
  BY ViewerStays, CacheStays DEF IInv, ViewOK, SourceOK, props
<1> QED
  BY <1>1, ClearedKeeps DEF IInv

LEMMA SortChangedKeeps ==
  ASSUME IInv, NEW s \in Sort, SortChanged(s)
  PROVE  IInv'
<1>1. /\ view' = [view EXCEPT !.sort = s] /\ datasource.on /\ Purges
      /\ UNCHANGED <<props, restored, model, cache, cellVars>>
  BY DEF SortChanged
<1>2. /\ view' \in Views /\ view'.filter = view.filter /\ view'.visible = view.visible
  BY <1>1 DEF IInv, ViewOK, Views
<1>3. Cleared
  BY <1>1, Clears DEF IInv, Purges, props
<1> QED
  BY <1>1, <1>2, <1>3, Anew DEF IInv, ViewOK, SourceOK, Purges

LEMMA FilterChangedKeeps ==
  ASSUME IInv, NEW f \in Filter, FilterChanged(f)
  PROVE  IInv'
<1>1. /\ view' = [view EXCEPT !.filter = AdaptFilterModel[f]] /\ model' = f
      /\ datasource.on /\ Purges /\ UNCHANGED <<props, restored, cache, cellVars>>
  BY DEF FilterChanged
<1>2. /\ view' \in Views /\ view'.filter = AdaptFilterModel[f] /\ view'.visible = view.visible
  BY <1>1, Filters DEF IInv, ViewOK, Views
<1>3. Cleared
  BY <1>1, Clears DEF IInv, Purges, props
<1> QED
  BY <1>1, <1>2, <1>3, Filters, Anew DEF IInv, SourceOK, Purges

(* setVisibility: the grid is purged, taken away, or mounted anew; or there   *)
(* is none before and after, and it shows nothing.                           *)
LEMMA SetVisibilityKeeps ==
  ASSUME IInv, NEW v \in Views, v.filter = view.filter, SetVisibility(v)
  PROVE  IInv'
<1>1. UNCHANGED <<props, restored, cache, cellVars>>
  BY DEF SetVisibility
<1>2. ASSUME NEW from, NEW to, "block" \in from, to \in {"nothing", "destroyed"},
             blocks' = [b \in Block |-> Absent], requests' = Turned(from, to)
      PROVE  Cleared
  BY <1>1, <1>2, Clears DEF IInv, props
<1>3. CASE /\ Purges /\ view' = v /\ UNCHANGED model
           /\ GridMounted(given, view.visible) /\ v.visible # {}
  <2>1. Cleared
    BY <1>2, <1>3 DEF Purges
  <2> QED
    BY <1>1, <1>3, <2>1, Anew DEF IInv, ViewOK, GridMounted, Purges
<1>4. CASE Replaces(NewDatasource(given, {})) /\ view' = v /\ UNCHANGED model
  <2>1. Cleared
    BY <1>2, <1>4 DEF Replaces
  <2>2. ~datasource'.on /\ datasource'.version = given.version
    BY <1>4 DEF Replaces, NewDatasource, GridMounted
  <2> QED
    BY <1>1, <1>4, <2>1, <2>2, Anew DEF IInv, ViewOK
<1>5. CASE MountsAgain(v)
  <2>1. Cleared
    BY <1>2, <1>5 DEF Replaces, MountsAgain
  <2>2. /\ datasource'.on => GridMounted(given, v.visible)
        /\ datasource'.version = given.version
    BY <1>5 DEF MountsAgain, Replaces, NewDatasource
  <2>3. /\ view' = [v EXCEPT !.filter = restored] /\ model' = RestoreFilterModel[restored]
        /\ view' \in Views /\ view'.filter = restored /\ view'.visible = v.visible
    BY <1>5 DEF MountsAgain, IInv, ViewOK, Views
  <2> QED
    BY <1>1, <2>1, <2>2, <2>3, Anew
<1>6. CASE /\ ~GridMounted(given, view.visible)
           /\ view' = v /\ UNCHANGED <<model, datasource, blocks, requests>>
  <2>1. /\ ~datasource.on
        /\ \A b \in Block : blocks[b].state # "shown"
        /\ \A q \in requests : q.for # "block"
    BY <1>6 DEF IInv, SourceOK, BlocksOK, BlockOK, RequestsOK, Waits
  <2>2. BlocksOK' /\ RequestsOK'
    BY <1>1, <1>6, <2>1 DEF IInv, BlocksOK, BlockOK, RequestsOK, Read, Waits,
                            props
  <2>3. ViewOK' /\ SourceOK' /\ CacheOK' /\ ViewerOK'
    BY <1>1, <1>6, <2>1, ViewerStays, CacheStays
       DEF IInv, ViewOK, SourceOK, props
  <2> QED
    BY <2>2, <2>3 DEF IInv
<1> QED
  BY <1>3, <1>4, <1>5, <1>6 DEF SetVisibility

LEMMA LayoutKeeps ==
  ASSUME IInv, (\E visible \in SUBSET Column : ShowColumns(visible)) \/ Reset
  PROVE  IInv'
<1>1. PICK v : SetVisibility(v) /\ v \in Views /\ v.filter = view.filter
  <2>1. /\ \A visible \in SUBSET Column :
             /\ [view EXCEPT !.visible = visible] \in Views
             /\ [view EXCEPT !.visible = visible].filter = view.filter
        /\ [view EXCEPT !.visible = Column, !.sort = "none"] \in Views
        /\ [view EXCEPT !.visible = Column, !.sort = "none"].filter = view.filter
    BY GridAssumption DEF IInv, ViewOK, Views
  <2> QED
    BY <2>1 DEF ShowColumns, Reset
<1> QED
  BY <1>1, SetVisibilityKeeps

LEMMA ScrollKeeps ==
  ASSUME IInv, NEW b \in Block, Scroll(b)
  PROVE  IInv'
<1>1. /\ blocks' = [blocks EXCEPT ![b] = Absent]
      /\ UNCHANGED <<external, given, table, restored, view, model, datasource, requests, cache>>
      /\ UNCHANGED cellVars
  BY DEF Scroll, props, looks
<1>2. /\ blocks' \in [Block -> Blocks] /\ blocks'[b] = Absent
      /\ \A c \in Block : c # b => blocks'[c] = blocks[c]
  BY <1>1, Filters DEF IInv, BlocksOK
<1>3. BlocksOK'
  BY <1>1, <1>2, Filters DEF IInv, BlocksOK, BlockOK
<1>4. ViewOK' /\ SourceOK' /\ CacheOK' /\ ViewerOK' /\ RequestsOK'
  BY <1>1, ViewerStays, CacheStays DEF IInv, ViewOK, SourceOK, RequestsOK, Read,
                                       Waits
<1> QED
  BY <1>3, <1>4 DEF IInv

LEMMA RetryKeeps ==
  ASSUME IInv, Retry
  PROVE  IInv'
<1>1. UNCHANGED <<props, looks, cache, cellVars>>
  BY DEF Retry
<1>2. ViewOK' /\ CacheOK' /\ ViewerOK'
  BY <1>1, ViewerStays, CacheStays DEF IInv, ViewOK, looks, props
<1>3. CASE Purges
  <2>1. Cleared
    BY <1>1, <1>3, Clears DEF IInv, Purges, props
  <2>2. SourceOK'
    BY <1>1, <1>3 DEF IInv, SourceOK, Purges, props, looks
  <2> QED
    BY <1>2, <2>1, <2>2, ClearedKeeps DEF IInv
<1>4. CASE UNCHANGED <<datasource, blocks, requests>>
  <2>1. SourceOK'
    BY <1>1, <1>4 DEF IInv, SourceOK, props, looks
  <2> QED
    BY <1>1, <1>2, <1>4, <2>1, RowsStay DEF IInv, props, looks
<1> QED
  BY <1>3, <1>4 DEF Retry

------------------------------------------------------------------------------
(* The cell viewer                                                           *)

(* Of what the viewer asked before it was closed or opened again, nothing is  *)
(* taken.                                                                    *)
LEMMA ViewerKeeps ==
  ASSUME IInv,
         (\E c \in Cell : OpenCell(c)) \/ CloseViewer \/ (\E q \in cells : DeliverCell(q))
  PROVE  IInv'
<1>1. UNCHANGED <<props, looks, rows>>
  BY DEF OpenCell, CloseViewer, DeliverCell
<1>2. /\ viewer \in Viewers /\ viewer.request \in Nat /\ ViewerIsTrue
      /\ \A q \in cells : /\ q \in [id : Nat, cell : Cell] /\ q.id <= viewer.request
                          /\ q.id = viewer.request => viewer.cell # 0 /\ q.cell = viewer.cell
  BY DEF IInv, ViewerOK, Viewers
<1>3. ASSUME NEW c \in Cell, OpenCell(c)
      PROVE  ViewerOK'
  <2>1. viewer.cell = 0 /\ c # 0
    BY <1>3, GridAssumption DEF OpenCell
  <2>2. CASE /\ viewer' = [viewer EXCEPT !.cell = c, !.value = c, !.loading = FALSE,
                                         !.failed = FALSE]
             /\ UNCHANGED cells
    <3>1. /\ viewer' \in Viewers /\ viewer'.cell = c /\ viewer'.value = c
          /\ viewer'.request = viewer.request
      BY <1>2, <2>2 DEF Viewers
    <3> QED
      BY <1>2, <2>1, <2>2, <3>1 DEF ViewerOK, ViewerIsTrue
  <2>3. CASE /\ viewer' = [cell |-> c, value |-> c, loading |-> TRUE, failed |-> FALSE,
                           request |-> viewer.request + 1]
             /\ cells' = cells \cup {[id |-> viewer'.request, cell |-> c]}
    <3>1. /\ viewer' \in Viewers /\ viewer'.cell = c /\ viewer'.value = c
          /\ viewer'.request = viewer.request + 1
      BY <1>2, <2>3 DEF Viewers
    <3>2. ASSUME NEW q \in cells'
          PROVE  /\ q \in [id : Nat, cell : Cell] /\ q.id <= viewer'.request
                 /\ q.id = viewer'.request => q.cell = c
      <4>1. CASE q \in cells
        BY <1>2, <3>1, <4>1
      <4>2. CASE q = [id |-> viewer'.request, cell |-> c]
        BY <1>2, <3>1, <4>2
      <4> QED
        BY <2>3, <3>2, <4>1, <4>2
    <3> QED
      BY <2>1, <3>1, <3>2 DEF ViewerOK, ViewerIsTrue
  <2> QED
    BY <1>3, <2>2, <2>3 DEF OpenCell
<1>4. ASSUME CloseViewer PROVE ViewerOK'
  <2>1. /\ cells' = cells /\ viewer.request + 1 \in Nat /\ 0 \in Cell \cup {0}
        /\ viewer' = [viewer EXCEPT !.cell = 0, !.loading = FALSE, !.failed = FALSE,
                                   !.request = @ + 1]
    BY <1>2, <1>4 DEF CloseViewer
  <2>2. viewer' \in Viewers
    BY <1>2, <2>1 DEF Viewers
  <2>3. viewer'.cell = 0 /\ viewer'.request = viewer.request + 1
    BY <1>2, <2>1 DEF Viewers
  <2>4. ASSUME NEW q \in cells
        PROVE  /\ q \in [id : Nat, cell : Cell] /\ q.id <= viewer'.request
               /\ q.id # viewer'.request
    BY <1>2, <2>3
  <2>5. ViewerIsTrue'
    BY <2>3 DEF ViewerIsTrue
  <2> QED
    BY <2>1, <2>2, <2>4, <2>5 DEF ViewerOK
<1>5. ASSUME NEW q \in cells, DeliverCell(q)
      PROVE  ViewerOK'
  <2>1. cells' = cells \ {q}
    BY <1>5 DEF DeliverCell
  <2>2. CASE UNCHANGED viewer
    BY <1>2, <2>1, <2>2 DEF ViewerOK, ViewerIsTrue
  <2>3. CASE /\ viewer.request = q.id
             /\ viewer' \in {[viewer EXCEPT !.value = q.cell, !.loading = FALSE],
                             [viewer EXCEPT !.failed = TRUE, !.loading = FALSE]}
    <3>1. /\ viewer' \in Viewers /\ viewer'.cell = viewer.cell
          /\ viewer'.value \in {viewer.value, q.cell} /\ viewer'.request = viewer.request
      BY <1>2, <2>3 DEF Viewers
    <3>2. q.cell = viewer.cell
      BY <1>2, <2>3
    <3> QED
      BY <1>2, <2>1, <3>1, <3>2 DEF ViewerOK, ViewerIsTrue
  <2> QED
    BY <1>5, <2>2, <2>3 DEF DeliverCell
<1>6. ViewOK' /\ SourceOK' /\ CacheOK' /\ BlocksOK' /\ RequestsOK'
  BY <1>1, RowsStay, CacheStays DEF IInv, ViewOK, SourceOK, props, looks, rows
<1> QED
  BY <1>3, <1>4, <1>5, <1>6 DEF IInv

------------------------------------------------------------------------------
(* The source                                                                *)

(* A new status or schema mounts the component anew; a source that becomes   *)
(* empty, or is no longer, takes the datasource away or makes it new; else   *)
(* the grid stays as it is, and with it the version it was made for.         *)
LEMMA ReceivesKeeps ==
  ASSUME IInv,
         NEW g, g.version \in Nat, external \/ g.version <= table, Receives(g),
         UNCHANGED <<external, table>>
  PROVE  IInv'
<1>1. /\ given' = g /\ UNCHANGED cache
  BY DEF Receives, Mounts
<1>2. CacheOK'
  BY <1>1, CacheStays DEF IInv
<1>3. CASE Mounts(g)
  <2>1. /\ view' = view /\ restored' = view.filter /\ model' = RestoreFilterModel[view.filter]
        /\ datasource' = NewDatasource(g, view.visible)
        /\ blocks' = [b \in Block |-> Absent] /\ requests' = {} /\ viewer' = Closed /\ cells' = {}
    BY <1>3 DEF Mounts
  <2>2. ViewOK'
    BY <2>1 DEF IInv, ViewOK, Views
  <2>3. /\ datasource'.on => GridMounted(g, view.visible)
        /\ datasource'.version = g.version
    BY <2>1 DEF NewDatasource
  <2>4. SourceOK'
    BY <1>1, <2>1, <2>3 DEF IInv, SourceOK
  <2>5. Cleared
    BY <2>1 DEF Cleared
  <2>6. ViewerOK'
    BY <2>1, Filters DEF ViewerOK, ViewerIsTrue
  <2> QED
    BY <1>2, <2>2, <2>4, <2>5, <2>6, ClearedKeeps DEF IInv
<1>4. CASE /\ g.status = given.status /\ g.schema = given.schema /\ g.empty = given.empty
           /\ UNCHANGED <<datasource, blocks, requests, model, view, restored, cellVars>>
  <2>1. SourceOK'
    BY <1>1, <1>4 DEF IInv, SourceOK, GridMounted
  <2>2. ViewOK'
    BY <1>4 DEF IInv, ViewOK
  <2> QED
    BY <1>2, <1>4, <2>1, <2>2, RowsStay, ViewerStays DEF IInv
<1>5. CASE /\ Replaces(NewDatasource(g, view.visible)) /\ UNCHANGED <<restored, cellVars>>
           /\ IF ~GridMounted(g, view.visible) THEN UNCHANGED <<model, view>>
              ELSE model' = RestoreFilterModel[restored] /\ view' = [view EXCEPT !.filter = restored]
  <2>1. /\ view' \in Views /\ view'.visible = view.visible
        /\ model' = RestoreFilterModel[view'.filter] \/ model' = "either"
    BY <1>5 DEF IInv, ViewOK, Views
  <2>2. ViewOK'
    BY <1>5, <2>1 DEF IInv, ViewOK
  <2>3. /\ datasource'.on => GridMounted(g, view.visible)
        /\ datasource'.version = g.version
    BY <1>5 DEF NewDatasource, Replaces
  <2>4. SourceOK'
    BY <1>1, <2>1, <2>3 DEF IInv, SourceOK
  <2>5. Cleared
    BY <1>5, Clears DEF IInv, Replaces
  <2> QED
    BY <1>2, <1>5, <2>2, <2>4, <2>5, ClearedKeeps, ViewerStays DEF IInv
<1> QED
  BY <1>3, <1>4, <1>5 DEF Receives

LEMMA TableChangesKeeps ==
  ASSUME IInv, TableChanges
  PROVE  IInv'
<1>1. /\ ~external /\ table' = table + 1 /\ table \in Nat
      /\ UNCHANGED <<external, given, restored, view, model, datasource, blocks, requests, cache>>
      /\ UNCHANGED cellVars
  BY DEF TableChanges, looks, rows, IInv, SourceOK
<1>2. ViewOK' /\ SourceOK' /\ ViewerOK'
  BY <1>1, ViewerStays DEF IInv, ViewOK, SourceOK
<1>3. BlocksOK'
  BY <1>1 DEF IInv, BlocksOK, BlockOK, Blocks, SourceOK
<1>4. ASSUME NEW q \in requests
      PROVE  Read(q)' /\ Waits(q)'
  <2>1. Read(q) /\ Waits(q)
    BY DEF IInv, RequestsOK
  <2>2. q.key.version \in Nat /\ q.rows \in Nat
    BY <2>1 DEF Read, Keys
  <2> QED
    BY <1>1, <2>1, <2>2 DEF Read, Waits
<1>5. RequestsOK'
  BY <1>1, <1>4 DEF RequestsOK
<1>6. CacheOK'
  <2>1. Entries \subseteq Entries'
    BY <1>1 DEF Entries
  <2> QED
    BY <1>1, <2>1 DEF IInv, CacheOK
<1> QED
  BY <1>2, <1>3, <1>5, <1>6 DEF IInv

LEMMA SourceChangesKeeps ==
  ASSUME IInv, SourceChanges
  PROVE  IInv'
<1>1. PICK g : Receives(g) /\ g.version = table
  BY DEF SourceChanges
<1> QED
  BY <1>1, ReceivesKeeps DEF SourceChanges, IInv, SourceOK

LEMMA CatalogKeeps ==
  ASSUME IInv, CatalogSteps
  PROVE  IInv'
<1>1. external /\ UNCHANGED <<external, table>>
  BY DEF CatalogSteps
<1>2. CASE UNCHANGED <<given, looks, rows, cellVars>>
  BY <1>1, <1>2, RowsStay, CacheStays, ViewerStays
     DEF IInv, ViewOK, SourceOK, looks, rows
<1>3. CASE Receives(GridSource')
  <2>1. PICK g : g = GridSource'
    OBVIOUS
  <2>2. g.version \in Nat
    BY <2>1 DEF GridSource
  <2> QED
    BY <1>1, <1>3, <2>1, <2>2, ReceivesKeeps
<1> QED
  BY <1>2, <1>3 DEF CatalogSteps

------------------------------------------------------------------------------
LEMMA Initially == Init => IInv
<1> SUFFICES ASSUME Init PROVE IInv
  OBVIOUS
<1>1. PICK g : /\ g.version = 1
               /\ restored = 0 /\ model = "none" /\ given = g /\ table = 1
               /\ view = [sort |-> "none", filter |-> 0, visible |-> Column]
               /\ datasource = NewDatasource(g, Column)
               /\ blocks = [b \in Block |-> Absent] /\ requests = {}
               /\ cache = <<>> /\ viewer = Closed /\ cells = {}
  <2>1. CASE GridInit(TRUE, GridSource)
    <3>1. PICK g : g = GridSource
      OBVIOUS
    <3>2. g.version = 1
      BY <3>1 DEF GridSource
    <3> QED
      BY <2>1, <3>1, <3>2 DEF GridInit
  <2>2. CASE \E status0 \in {"preparing", "ready"} : GridInit(FALSE, Local(status0))
    <3>1. PICK status0 \in {"preparing", "ready"} : GridInit(FALSE, Local(status0))
      BY <2>2
    <3>2. PICK g : g = Local(status0)
      OBVIOUS
    <3>3. g.version = 1
      BY <3>2 DEF Local
    <3> QED
      BY <3>1, <3>2, <3>3 DEF GridInit
  <2> QED
    BY <2>1, <2>2 DEF Init
<1>2. /\ view \in Views /\ view.filter = 0 /\ view.visible = Column
      /\ RestoreFilterModel[0] = "none"
  BY <1>1, GridAssumption DEF Views, RestoreFilterModel
<1>3. ViewOK
  BY <1>1, <1>2 DEF ViewOK
<1>4. SourceOK
  <2>1. datasource.version = 1 /\ (datasource.on => GridMounted(g, Column))
    BY <1>1 DEF NewDatasource
  <2>2. /\ view.visible = Column /\ given = g /\ table = 1 /\ given.version = 1
        /\ 1 \in Nat /\ 1 <= 1
    BY <1>1
  <2> QED
    BY <2>1, <2>2 DEF SourceOK
<1>5. BlocksOK /\ RequestsOK /\ CacheOK
  BY <1>1, Filters DEF BlocksOK, BlockOK, RequestsOK, CacheOK
<1>6. ViewerOK
  BY <1>1, Filters DEF ViewerOK, ViewerIsTrue
<1> QED
  BY <1>3, <1>4, <1>5, <1>6 DEF IInv

LEMMA GridKeeps ==
  ASSUME IInv, GridNext
  PROVE  IInv'
<1>1. CASE \E b \in Block : GetRows(b) \/ Scroll(b)
  BY <1>1, GetRowsKeeps, ScrollKeeps
<1>2. CASE \E q \in requests : Serve(q) \/ Deliver(q)
  BY <1>2, ServeKeeps, DeliverKeeps
<1>3. CASE (\E s \in Sort : SortChanged(s)) \/ (\E f \in Filter : FilterChanged(f))
  BY <1>3, SortChangedKeeps, FilterChangedKeeps
<1>4. CASE (\E visible \in SUBSET Column : ShowColumns(visible)) \/ Reset \/ Retry
  BY <1>4, LayoutKeeps, RetryKeeps
<1>5. CASE (\E c \in Cell : OpenCell(c)) \/ CloseViewer \/ (\E q \in cells : DeliverCell(q))
  BY <1>5, ViewerKeeps
<1>6. CASE TableChanges \/ SourceChanges
  BY <1>6, TableChangesKeeps, SourceChangesKeeps
<1> QED
  BY <1>1, <1>2, <1>3, <1>4, <1>5, <1>6 DEF GridNext

LEMMA Keeps == IInv /\ [Next]_vars => IInv'
<1> SUFFICES ASSUME IInv, [Next]_vars PROVE IInv'
  OBVIOUS
<1>1. CASE Next
  BY <1>1, GridKeeps, CatalogKeeps DEF Next, GridSteps
<1>2. CASE UNCHANGED vars
  <2>1. UNCHANGED <<external, given, table, looks, rows, cellVars>>
    BY <1>2 DEF vars, gridVars, props
  <2> QED
    BY <2>1, RowsStay, CacheStays, ViewerStays
       DEF IInv, ViewOK, SourceOK, looks, rows
<1> QED
  BY <1>1, <1>2

(* Every state of a grid satisfies the invariant, of whatever source it is.  *)
THEOREM Inductive == Spec => []IInv
<1> QED
  BY Initially, Keeps, PTL DEF Spec

(* Whatever is sorted, filtered, hidden, purged, cached or opened, and       *)
(* whatever becomes of the source meanwhile: the rows on the screen were     *)
(* read for the view, of the table as it is unless it was replaced under a   *)
(* grid that stays, and the viewer has the value of its cell.  (getRows,     *)
(* rowBlockCacheKey, persistColumns, cellRequestRef)                         *)
THEOREM ShownAsked == Spec => []ShownWasAsked
<1>1. ASSUME IInv PROVE ShownWasAsked
  <2>1. ASSUME NEW b \in Block, blocks[b].state = "shown"
        PROVE  external \/ blocks[b].version = table \/ datasource.version # table
    BY <1>1, <2>1 DEF IInv, BlocksOK, BlockOK, Blocks, SourceOK
  <2>2. ShownIsOfView
    BY <1>1, <2>1 DEF IInv, BlocksOK, BlockOK, ViewOK, ShownIsOfView
  <2> QED
    BY <1>1, <2>2 DEF IInv, ViewerOK, ShownWasAsked
<1> QED
  BY <1>1, Inductive, PTL

------------------------------------------------------------------------------
(* The catalog: columns, the calls and messages that carry them, and tabs    *)

Ops == {"updated", "invalidated", "auto connect", "connect", "disconnect", "reconnect",
        "refresh", "schemas", "schemas first", "list", "open", "validate", "attach", "detach", "delete"}
Outcomes == {"ok", "failed", "missing", "detached",
             "connecting", "connected", "error", "disconnected"}
CatalogCalls == [op : Ops, of : Relation \cup {Nothing}]
Messages == [op : Ops, of : Relation \cup {Nothing}, outcome : Outcomes, columns : Nat,
             list : SUBSET Relation]

CatalogTypes ==
  /\ there \subseteq Relation /\ version \in [Relation -> Nat \ {0}]
  /\ known \subseteq Relation /\ columns \in [Relation -> Nat]
  /\ shown \in [Relation -> Nat] /\ catalog \subseteq Relation
  /\ tabs \in [Relation -> {"none", "external", "placeholder"}]
  /\ floor \in [Relation -> Nat]
  /\ left \in [{"act", "calls", "change", "failure"} -> Nat]
  /\ inbox \in Seq(Messages)

(* A connection that was deleted is in no project and is not being connected;*)
(* a relation that is not there has been absent.                             *)
GoneOK == /\ status = "gone" => ~linked /\ serving = {}
          /\ Relation \ there \subseteq absent

(* Of a connection that exists, the host knows what the webview may ask for. *)
Known(r) == status = "gone" \/ r \in known
OfRelation(k) == k.op \in {"open", "validate"}
CallOK(c) == c \in CatalogCalls /\ (OfRelation(c) => c.of \in Relation /\ Known(c.of))
CallsOK == \A c \in calls : CallOK(c)

(* Columns, unless they straddle an invalidation, are not older than it.     *)
NotOlder(r, n) == r \in straddled \/ n >= floor[r]
ReadingOK(q) ==
  /\ OfRelation(q) /\ q.op \in Ops /\ q.of \in Relation /\ Known(q.of)
  /\ q.columns \in Nat \ {0} /\ NotOlder(q.of, q.columns)
ReadingsOK == \A q \in reading : ReadingOK(q)
ColumnsOK == \A r \in Relation : columns[r] = 0 \/ NotOlder(r, columns[r])

Brings(m) == OfRelation(m) /\ m.outcome = "ok"
Fresh(m) == Brings(m) => NotOlder(m.of, m.columns)
MessageOK(m) ==
  /\ m \in Messages
  /\ OfRelation(m) => m.of \in Relation /\ Known(m.of)
  /\ Brings(m) => m.columns # 0
  /\ \A r \in m.list : Known(r)
  /\ m.outcome = "missing" => status = "gone" \/ m.of \in absent
  /\ m.op = "list" /\ m.outcome = "ok" => Relation \ m.list \subseteq absent
AnswersOK == \A m \in answers : MessageOK(m) /\ Fresh(m)

(* What left before an invalidation is followed by an event that tells of it.*)
Forgetting(m) == m.op = "invalidated" \/ (m.op = "updated" /\ m.outcome = "disconnected")
ForgetsAfter(i) == \E j \in DOMAIN inbox : j > i /\ Forgetting(inbox[j])
InboxOK == \A i \in DOMAIN inbox : MessageOK(inbox[i]) /\ (Fresh(inbox[i]) \/ ForgetsAfter(i))

(* A live tab has columns, unless they were dropped under it, and they are   *)
(* not older than an invalidation it was told of.                            *)
ShownOK(r) == tabs[r] = "external" =>
  /\ shown[r] = 0 => r \in emptied
  /\ shown[r] = 0 \/ r \in strays \/ NotOlder(r, shown[r]) \/ ForgetsAfter(0)
TabsOK == /\ Open \subseteq catalog /\ \A r \in catalog : Known(r)
          /\ ~member => Open \subseteq strays
          /\ \A r \in Relation : ShownOK(r)

(* No invalidation is of a later version than there is.                     *)
FloorOK == \A r \in Relation : floor[r] <= version[r]

CatalogInv == /\ CatalogTypes /\ FloorOK /\ GoneOK /\ CallsOK /\ ReadingsOK /\ ColumnsOK
              /\ AnswersOK /\ InboxOK /\ TabsOK

\* What the host may do to what is known: a deleted connection has nothing.
Learns == status' = "gone" \/ (status # "gone" /\ known \subseteq known')

\* What the host knows it goes on knowing until the connection is deleted.
LEMMA KnownStays ==
  ASSUME Learns, absent \subseteq absent'
  PROVE  /\ \A r : Known(r) => Known(r)'
         /\ \A m : MessageOK(m) => MessageOK(m)'
         /\ \A c : CallOK(c) => CallOK(c)'
<1>1. \A r : Known(r) => Known(r)'
  BY DEF Known, Learns
<1>2. \A m : status = "gone" \/ m.of \in absent => status' = "gone" \/ m.of \in absent'
  BY DEF Learns
<1>3. \A m : MessageOK(m) => MessageOK(m)'
  <2> SUFFICES ASSUME NEW m, MessageOK(m) PROVE MessageOK(m)'
    OBVIOUS
  <2>1. Brings(m)' <=> Brings(m)
    BY DEF Brings, OfRelation
  <2> QED
    BY <1>1, <1>2, <2>1 DEF MessageOK, OfRelation, Learns
<1>4. \A c : CallOK(c) => CallOK(c)'
  BY <1>1 DEF CallOK, OfRelation
<1> QED
  BY <1>1, <1>3, <1>4

\* A message that is of no relation is in order.
LEMMA PlainMessage ==
  ASSUME NEW m \in Messages, ~OfRelation(m), m.list = {}, m.op # "list",
         m.outcome # "missing"
  PROVE  MessageOK(m) /\ Fresh(m) /\ MessageOK(m)' /\ Fresh(m)'
BY DEF MessageOK, Fresh, Brings, OfRelation

\* The fields of messages and calls.
LEMMA MessageFields ==
  /\ \A op \in Ops, r \in Relation \cup {Nothing}, outcome \in Outcomes, n \in Nat :
       /\ Message(op, r, outcome, n) \in Messages
       /\ Message(op, r, outcome, n).op = op /\ Message(op, r, outcome, n).of = r
       /\ Message(op, r, outcome, n).outcome = outcome
       /\ Message(op, r, outcome, n).columns = n /\ Message(op, r, outcome, n).list = {}
  /\ \A op, outcome : Event(op, outcome) = Message(op, Nothing, outcome, 0)
  /\ \A op, r : Call(op, r).op = op /\ Call(op, r).of = r
  /\ \A op \in Ops, r \in Relation \cup {Nothing} : Call(op, r) \in CatalogCalls
BY DEF Message, Messages, Event, Call, CatalogCalls

\* An answer that says only whether a call succeeded is in order.
LEMMA PlainAnswer ==
  ASSUME NEW op \in Ops \ {"open", "validate", "list"}, NEW r \in Relation \cup {Nothing},
         NEW outcome \in Outcomes \ {"missing"}
  PROVE  /\ MessageOK(Message(op, r, outcome, 0)) /\ Fresh(Message(op, r, outcome, 0))
         /\ MessageOK(Message(op, r, outcome, 0))' /\ Fresh(Message(op, r, outcome, 0))'
<1> DEFINE m == Message(op, r, outcome, 0)
<1>1. /\ m \in Messages /\ m.op = op /\ m.outcome = outcome /\ m.list = {}
  BY MessageFields
<1> HIDE DEF m
<1>2. ~OfRelation(m)
  BY <1>1 DEF OfRelation
<1>3. MessageOK(m) /\ Fresh(m) /\ MessageOK(m)' /\ Fresh(m)'
  BY <1>1, <1>2, PlainMessage
<1> QED
  BY <1>3 DEF m

\* So is an event.
LEMMA PlainEvent ==
  ASSUME NEW op \in {"updated", "invalidated"}, NEW outcome \in Outcomes \ {"missing"},
         NEW m, m = Event(op, outcome)
  PROVE  m \in Messages /\ m.op = op /\ m.outcome = outcome /\ MessageOK(m)' /\ Fresh(m)'
<1>1. op \in Ops \ {"open", "validate", "list"} /\ Nothing \in Relation \cup {Nothing}
  BY DEF Ops
<1>2. m = Message(op, Nothing, outcome, 0)
  BY MessageFields
<1>3. m \in Messages /\ m.op = op /\ m.outcome = outcome /\ m.list = {}
  BY <1>1, <1>2, MessageFields
<1>4. ~OfRelation(m)
  BY <1>1, <1>3 DEF OfRelation
<1> QED
  BY <1>1, <1>3, <1>4, PlainMessage

\* The inbox grows at its end.
Received(new) == inbox' = inbox \o new

\* What was in the inbox stays where it was, and what is new follows it.
LEMMA ReceivedAt ==
  ASSUME inbox \in Seq(Messages), NEW new \in Seq(Messages), Received(new)
  PROVE  /\ inbox' \in Seq(Messages)
         /\ \A i \in DOMAIN inbox' : \/ i \in DOMAIN inbox /\ inbox'[i] = inbox[i]
                                     \/ i > Len(inbox) /\ \E j \in DOMAIN new : inbox'[i] = new[j]
         /\ \A i \in DOMAIN inbox : i \in DOMAIN inbox' /\ inbox'[i] = inbox[i]
         /\ \A j \in DOMAIN new : /\ Len(inbox) + j \in DOMAIN inbox'
                                  /\ inbox'[Len(inbox) + j] = new[j]
         /\ \A i : ForgetsAfter(i) => ForgetsAfter(i)'
<1>1. inbox' \in Seq(Messages) /\ Len(inbox') = Len(inbox) + Len(new)
  BY DEF Received
<1>2. \A i \in 1..Len(inbox') :
        inbox'[i] = IF i <= Len(inbox) THEN inbox[i] ELSE new[i - Len(inbox)]
  BY DEF Received
<1>3. DOMAIN inbox' = 1..Len(inbox') /\ DOMAIN inbox = 1..Len(inbox) /\ DOMAIN new = 1..Len(new)
      /\ Len(inbox) \in Nat /\ Len(new) \in Nat
  BY <1>1
<1>4. ASSUME NEW i \in DOMAIN inbox'
      PROVE  \/ i \in DOMAIN inbox /\ inbox'[i] = inbox[i]
             \/ i > Len(inbox) /\ \E j \in DOMAIN new : inbox'[i] = new[j]
  <2>1. CASE i <= Len(inbox)
    BY <1>2, <1>3, <2>1
  <2>2. CASE ~(i <= Len(inbox))
    <3>1. i - Len(inbox) \in DOMAIN new /\ inbox'[i] = new[i - Len(inbox)] /\ i > Len(inbox)
      BY <1>1, <1>2, <1>3, <2>2
    <3> QED
      BY <3>1
  <2> QED
    BY <2>1, <2>2
<1>5. \A i \in DOMAIN inbox : i \in DOMAIN inbox' /\ inbox'[i] = inbox[i]
  BY <1>1, <1>2, <1>3
<1>6. \A j \in DOMAIN new : Len(inbox) + j \in DOMAIN inbox' /\ inbox'[Len(inbox) + j] = new[j]
  BY <1>1, <1>2, <1>3
<1>7. \A i : ForgetsAfter(i) => ForgetsAfter(i)'
  BY <1>5 DEF ForgetsAfter, Forgetting
<1> QED
  BY <1>1, <1>4, <1>5, <1>6, <1>7

\* A message alone.
LEMMA OneMessage ==
  ASSUME NEW m \in Messages
  PROVE  <<m>> \in Seq(Messages) /\ DOMAIN <<m>> = {1} /\ <<m>>[1] = m
OBVIOUS

------------------------------------------------------------------------------
(* Steps of the host                                                         *)

\* The columns stay, or what is stored is not older than it should be.
KeepsFresh == /\ UNCHANGED <<floor, straddled>>
              /\ columns' \in [Relation -> Nat]
              /\ \A r \in Relation : columns'[r] = columns[r] \/ columns'[r] = 0
                                     \/ NotOlder(r, columns'[r])

\* What is new on the way is in order, whether the columns are forgotten or not.
HostFrame ==
  /\ UNCHANGED <<there, version, workspace, strays, emptied, absent>>
  /\ Learns /\ known' \subseteq Relation
  /\ status' = "gone" => ~linked' /\ serving' = {}
  /\ left' \in [{"act", "calls", "change", "failure"} -> Nat]
  /\ \A c \in calls' : c \in calls \/ CallOK(c)'

\* A step of the host that forgets no columns.
LEMMA HostKeeps ==
  ASSUME CatalogInv, HostFrame, KeepsFresh, NEW new \in Seq(Messages), Received(new),
         \A j \in DOMAIN new : MessageOK(new[j])' /\ Fresh(new[j])',
         \A q \in reading' : q \in reading \/ ReadingOK(q)',
         \A m \in answers' : m \in answers \/ (MessageOK(m)' /\ Fresh(m)')
  PROVE  CatalogInv'
<1>1. /\ CatalogTypes /\ FloorOK /\ GoneOK /\ CallsOK /\ ReadingsOK /\ ColumnsOK
      /\ AnswersOK /\ InboxOK /\ TabsOK
  BY DEF CatalogInv
<1>2. /\ UNCHANGED <<there, version, strays, emptied, absent, member, catalog, shown, tabs>>
      /\ UNCHANGED <<floor, straddled>>
      /\ Learns /\ inbox \in Seq(Messages)
  BY <1>1 DEF HostFrame, KeepsFresh, workspace, CatalogTypes
<1>3. /\ \A r : Known(r) => Known(r)'
      /\ \A m : MessageOK(m) => MessageOK(m)'
      /\ \A c : CallOK(c) => CallOK(c)'
  BY <1>2, KnownStays
<1>4. /\ \A r, n : NotOlder(r, n) => NotOlder(r, n)'
      /\ \A m : Fresh(m) => Fresh(m)'
  <2>1. \A r, n : NotOlder(r, n) => NotOlder(r, n)'
    BY <1>2 DEF NotOlder
  <2> QED
    BY <2>1 DEF Fresh, Brings, OfRelation
<1>5. /\ inbox' \in Seq(Messages)
      /\ \A i \in DOMAIN inbox' : \/ i \in DOMAIN inbox /\ inbox'[i] = inbox[i]
                                  \/ i > Len(inbox) /\ \E j \in DOMAIN new : inbox'[i] = new[j]
      /\ \A i : ForgetsAfter(i) => ForgetsAfter(i)'
  BY <1>2, ReceivedAt
<1>6. CatalogTypes' /\ FloorOK'
  BY <1>1, <1>2, <1>5 DEF CatalogTypes, FloorOK, HostFrame, KeepsFresh
<1>7. GoneOK' /\ CallsOK'
  BY <1>1, <1>2, <1>3 DEF GoneOK, CallsOK, HostFrame
<1>8. ReadingsOK'
  <2> SUFFICES ASSUME NEW q \in reading', q \in reading PROVE ReadingOK(q)'
    BY DEF ReadingsOK
  <2>1. ReadingOK(q)
    BY <1>1 DEF ReadingsOK
  <2> QED
    BY <2>1, <1>3, <1>4 DEF ReadingOK, OfRelation
<1>9. ColumnsOK'
  BY <1>1, <1>4 DEF ColumnsOK, KeepsFresh
<1>10. AnswersOK'
  BY <1>1, <1>3, <1>4 DEF AnswersOK
<1>11. InboxOK'
  <2> SUFFICES ASSUME NEW i \in DOMAIN inbox', NEW m, m = inbox'[i]
               PROVE  MessageOK(m)' /\ (Fresh(m)' \/ ForgetsAfter(i)')
    BY DEF InboxOK
  <2>1. ASSUME i \in DOMAIN inbox, inbox'[i] = inbox[i]
        PROVE  MessageOK(m)' /\ (Fresh(m)' \/ ForgetsAfter(i)')
    <3>1. MessageOK(inbox[i]) /\ (Fresh(inbox[i]) \/ ForgetsAfter(i))
      BY <1>1, <2>1 DEF InboxOK
    <3> QED
      BY <2>1, <3>1, <1>3, <1>4, <1>5
  <2>2. ASSUME NEW j \in DOMAIN new, inbox'[i] = new[j]
        PROVE  MessageOK(m)' /\ Fresh(m)'
    BY <2>2
  <2> QED
    BY <1>5, <2>1, <2>2
<1>12. TabsOK'
  BY <1>1, <1>2, <1>3, <1>4, <1>5 DEF TabsOK, ShownOK, Open
<1> QED
  BY <1>6, <1>7, <1>8, <1>9, <1>10, <1>11, <1>12 DEF CatalogInv

\* A step that forgets them all, and sends an event that tells of it.
LEMMA HostForgets ==
  ASSUME CatalogInv, HostFrame, Invalidate, NEW new \in Seq(Messages), Received(new),
         \A j \in DOMAIN new : MessageOK(new[j])' /\ Forgetting(new[j]), 1 \in DOMAIN new,
         UNCHANGED reading,
         \A m \in answers' : m \in answers \/ (MessageOK(m)' /\ ~OfRelation(m))
  PROVE  CatalogInv'
<1>1. /\ CatalogTypes /\ FloorOK /\ GoneOK /\ CallsOK /\ ReadingsOK /\ ColumnsOK
      /\ AnswersOK /\ InboxOK /\ TabsOK
  BY DEF CatalogInv
<1>2. /\ UNCHANGED <<there, version, strays, emptied, absent, member, catalog, shown, tabs>>
      /\ Learns /\ inbox \in Seq(Messages)
      /\ columns' = Zero /\ floor' = [r \in Relation |-> version[r]]
      /\ straddled' = straddled \cup {q.of : q \in reading} \cup {m.of : m \in answers}
  BY <1>1 DEF HostFrame, Invalidate, workspace, CatalogTypes
<1>3. /\ \A r : Known(r) => Known(r)'
      /\ \A m : MessageOK(m) => MessageOK(m)'
      /\ \A c : CallOK(c) => CallOK(c)'
  BY <1>2, KnownStays
<1>4. /\ inbox' \in Seq(Messages)
      /\ \A i \in DOMAIN inbox' : \/ i \in DOMAIN inbox /\ inbox'[i] = inbox[i]
                                  \/ i > Len(inbox) /\ \E j \in DOMAIN new : inbox'[i] = new[j]
      /\ \A j \in DOMAIN new : /\ Len(inbox) + j \in DOMAIN inbox'
                               /\ inbox'[Len(inbox) + j] = new[j]
  BY <1>2, ReceivedAt
<1>5. \A i \in 0..Len(inbox) : ForgetsAfter(i)'
  <2>1. Len(inbox) + 1 \in DOMAIN inbox' /\ Forgetting(inbox'[Len(inbox) + 1])
    BY <1>4
  <2>2. Len(inbox) \in Nat
    BY <1>2
  <2> QED
    BY <2>1, <2>2 DEF ForgetsAfter, Forgetting
<1>6. CatalogTypes' /\ FloorOK'
  <2>1. columns' \in [Relation -> Nat]
    BY <1>2 DEF Zero
  <2>2. floor' \in [Relation -> Nat] /\ FloorOK'
    BY <1>1, <1>2 DEF CatalogTypes, FloorOK
  <2> QED
    BY <1>1, <1>2, <1>4, <2>1, <2>2 DEF CatalogTypes, HostFrame
<1>7. GoneOK' /\ CallsOK'
  BY <1>1, <1>2, <1>3 DEF GoneOK, CallsOK, HostFrame
<1>8. ReadingsOK'
  <2> SUFFICES ASSUME NEW q \in reading PROVE ReadingOK(q)'
    BY DEF ReadingsOK
  <2>1. ReadingOK(q)
    BY <1>1 DEF ReadingsOK
  <2>2. NotOlder(q.of, q.columns)'
    BY <1>2 DEF NotOlder
  <2> QED
    BY <2>1, <2>2, <1>3 DEF ReadingOK, OfRelation
<1>9. ColumnsOK'
  BY <1>2 DEF ColumnsOK, Zero
<1>10. AnswersOK'
  <2> SUFFICES ASSUME NEW m \in answers' PROVE MessageOK(m)' /\ Fresh(m)'
    BY DEF AnswersOK
  <2>1. CASE m \in answers
    <3>1. NotOlder(m.of, m.columns)'
      BY <1>2, <2>1 DEF NotOlder
    <3> QED
      BY <1>1, <1>3, <2>1, <3>1 DEF AnswersOK, Fresh
  <2>2. CASE m \notin answers
    <3>1. MessageOK(m)' /\ ~OfRelation(m)
      BY <2>2
    <3> QED
      BY <3>1 DEF Fresh, Brings, OfRelation
  <2> QED
    BY <2>1, <2>2
<1>11. InboxOK'
  <2> SUFFICES ASSUME NEW i \in DOMAIN inbox', NEW m, m = inbox'[i]
               PROVE  MessageOK(m)' /\ (Fresh(m)' \/ ForgetsAfter(i)')
    BY DEF InboxOK
  <2>1. ASSUME i \in DOMAIN inbox, inbox'[i] = inbox[i]
        PROVE  MessageOK(m)' /\ (Fresh(m)' \/ ForgetsAfter(i)')
    <3>1. MessageOK(inbox[i])
      BY <1>1, <2>1 DEF InboxOK
    <3>2. i \in 0..Len(inbox)
      BY <1>2, <2>1
    <3> QED
      BY <2>1, <3>1, <3>2, <1>3, <1>5
  <2>2. ASSUME NEW j \in DOMAIN new, inbox'[i] = new[j]
        PROVE  MessageOK(m)' /\ Fresh(m)'
    <3>1. MessageOK(new[j])' /\ Forgetting(new[j])
      BY <2>2
    <3>2. \A k : Forgetting(k) => Fresh(k)'
      BY DEF Forgetting, Fresh, Brings, OfRelation
    <3> QED
      BY <2>2, <3>1, <3>2
  <2> QED
    BY <1>4, <2>1, <2>2
<1>12. TabsOK'
  <2>1. ForgetsAfter(0)'
    BY <1>2, <1>5
  <2> QED
    BY <1>1, <1>2, <1>3, <2>1 DEF TabsOK, ShownOK, Open
<1> QED
  BY <1>6, <1>7, <1>8, <1>9, <1>10, <1>11, <1>12 DEF CatalogInv

\* A step that sends nothing.
LEMMA HostSilent ==
  ASSUME CatalogInv, HostFrame, KeepsFresh, UNCHANGED inbox,
         \A q \in reading' : q \in reading \/ ReadingOK(q)',
         \A m \in answers' : m \in answers \/ (MessageOK(m)' /\ Fresh(m)')
  PROVE  CatalogInv'
<1>1. <<>> \in Seq(Messages) /\ DOMAIN <<>> = {}
  OBVIOUS
<1>2. Received(<<>>)
  BY DEF Received, CatalogInv, CatalogTypes
<1> QED
  BY <1>1, <1>2, HostKeeps

\* Columns that stay are as new as they were.
LEMMA ForgetsKeeps ==
  ASSUME CatalogInv, Forgets
  PROVE  KeepsFresh
BY DEF CatalogInv, CatalogTypes, Forgets, KeepsFresh

\* What a step of the host leaves alone.
HostRest == UNCHANGED <<there, version, workspace, strays, emptied, absent>>

\* A failure is taken from the budget.
LEMMA Spent ==
  ASSUME CatalogInv, UNCHANGED left \/ Fails
  PROVE  left' \in [{"act", "calls", "change", "failure"} -> Nat]
BY DEF CatalogInv, CatalogTypes, Fails, Spends

\* Connect, up to the call of the driver.
LEMMA ConnectStartsKeeps ==
  ASSUME CatalogInv, NEW c \in calls, ConnectStarts(c), HostRest
  PROVE  CatalogInv'
<1>1. /\ Forgets /\ UNCHANGED <<linked, known, reading, left>>
      /\ c.op \in {"connect", "auto connect"} /\ calls' = calls \ {c}
  BY DEF ConnectStarts, Answers, Answer
<1>2. /\ GoneOK /\ known \subseteq Relation
  BY DEF CatalogInv, CatalogTypes
<1>3. CallOK(c) /\ c.op \in Ops /\ c.of \in Relation \cup {Nothing}
  BY DEF CatalogInv, CallsOK, CallOK, CatalogCalls
<1>4. KeepsFresh /\ left' \in [{"act", "calls", "change", "failure"} -> Nat]
  BY <1>1, ForgetsKeeps, Spent
<1>5. CASE linked /\ status # "connected"
  <2>1. /\ status' = "connecting" /\ serving' = {c} /\ UNCHANGED answers
        /\ Received(<<Event("updated", "connecting")>>)
    BY <1>5 DEF ConnectStarts, Sends, Received
  <2>2. HostFrame
    BY <1>1, <1>2, <1>4, <1>5, <2>1 DEF HostFrame, HostRest, Learns, GoneOK
  <2>3. PICK m : m = Event("updated", "connecting")
    OBVIOUS
  <2>5. m \in Messages /\ MessageOK(m)' /\ Fresh(m)'
    BY <2>3, PlainEvent DEF Outcomes
  <2>4. /\ <<m>> \in Seq(Messages) /\ Received(<<m>>)
        /\ \A j \in DOMAIN <<m>> : MessageOK(<<m>>[j])' /\ Fresh(<<m>>[j])'
    BY <2>1, <2>3, <2>5, OneMessage
  <2> QED
    BY <1>1, <1>4, <2>1, <2>2, <2>4, HostKeeps
<1>6. CASE ~(linked /\ status # "connected")
  <2>1. /\ UNCHANGED <<status, serving, inbox>>
        /\ \/ UNCHANGED answers
           \/ \E outcome \in {"ok", "failed"} :
                answers' = answers \cup {Message(c.op, c.of, outcome, 0)}
    BY <1>6 DEF ConnectStarts, Answers, Answer
  <2>2. HostFrame
    BY <1>1, <1>2, <1>4, <2>1 DEF HostFrame, HostRest, Learns, GoneOK
  <2>3. \A outcome \in {"ok", "failed"} : /\ MessageOK(Message(c.op, c.of, outcome, 0))'
                                          /\ Fresh(Message(c.op, c.of, outcome, 0))'
    BY <1>1, <1>3, PlainAnswer DEF Ops, Outcomes
  <2>4. \A m \in answers' : m \in answers \/ (MessageOK(m)' /\ Fresh(m)')
    BY <2>1, <2>3
  <2> QED
    BY <1>1, <1>4, <2>1, <2>2, <2>4, HostSilent
<1> QED
  BY <1>5, <1>6

\* Connect, from its return.
LEMMA ConnectEndsKeeps ==
  ASSUME CatalogInv, NEW c \in serving, ConnectEnds(c), HostRest
  PROVE  CatalogInv'
<1>1. /\ Forgets /\ UNCHANGED <<linked, known, reading, calls>> /\ serving' = {}
      /\ status' \in {"connected", "error"} /\ (UNCHANGED left \/ Fails)
      /\ Received(<<Event("updated", status')>>)
      /\ \A m \in answers' : m \in answers \/ \E outcome \in {"ok", "failed"} :
           m = Message("connect", Nothing, outcome, 0)
  BY DEF ConnectEnds, Sends, Received
<1>2. GoneOK /\ known \subseteq Relation
  BY DEF CatalogInv, CatalogTypes
<1>3. KeepsFresh /\ left' \in [{"act", "calls", "change", "failure"} -> Nat]
  BY <1>1, ForgetsKeeps, Spent
<1>4. status # "gone"
  BY <1>2 DEF GoneOK
<1>5. HostFrame
  BY <1>1, <1>2, <1>3, <1>4 DEF HostFrame, HostRest, Learns
<1>6. PICK o \in {"connected", "error"} : status' = o
  BY <1>1
<1>7. PICK m : m = Event("updated", o)
  OBVIOUS
<1>8. \A outcome \in {"ok", "failed"} : /\ MessageOK(Message("connect", Nothing, outcome, 0))'
                                        /\ Fresh(Message("connect", Nothing, outcome, 0))'
  BY PlainAnswer DEF Ops, Outcomes
<1>9. \A k \in answers' : k \in answers \/ (MessageOK(k)' /\ Fresh(k)')
  BY <1>1, <1>8
<1>10. Received(<<m>>)
  BY <1>1, <1>6, <1>7
<1>11. m \in Messages /\ MessageOK(m)' /\ Fresh(m)'
  BY <1>7, PlainEvent DEF Outcomes
<1>12. /\ <<m>> \in Seq(Messages)
       /\ \A j \in DOMAIN <<m>> : MessageOK(<<m>>[j])' /\ Fresh(<<m>>[j])'
  BY <1>11, OneMessage
<1> QED
  BY <1>1, <1>3, <1>5, <1>9, <1>10, <1>12, HostKeeps

\* What the answers to a disconnection or a deletion are: no columns.
Told == \A m \in answers' : m \in answers \/ (MessageOK(m)' /\ Fresh(m)' /\ ~OfRelation(m))

\* The columns are forgotten, and it is told, unless it was disconnected.
LEMMA DetachesKeeps ==
  ASSUME CatalogInv, HostFrame, Detaches, UNCHANGED reading, Told
  PROVE  CatalogInv'
<1>1. CASE status = "disconnected"
  <2>1. Forgets /\ UNCHANGED inbox
    BY <1>1 DEF Detaches
  <2> QED
    BY <2>1, ForgetsKeeps, HostSilent DEF Told
<1>2. CASE status # "disconnected"
  <2>1. Invalidate /\ Received(<<Event("updated", "disconnected")>>)
    BY <1>2 DEF Detaches, Sends, Received
  <2>2. PICK m : m = Event("updated", "disconnected")
    OBVIOUS
  <2>3. m \in Messages /\ MessageOK(m)' /\ Forgetting(m) /\ Received(<<m>>)
    BY <2>1, <2>2, PlainEvent DEF Outcomes, Forgetting
  <2>4. /\ <<m>> \in Seq(Messages) /\ 1 \in DOMAIN <<m>>
        /\ \A j \in DOMAIN <<m>> : MessageOK(<<m>>[j])' /\ Forgetting(<<m>>[j])
    BY <2>3, OneMessage
  <2>5. \A k \in answers' : k \in answers \/ (MessageOK(k)' /\ ~OfRelation(k))
    BY DEF Told
  <2> QED
    BY <2>1, <2>3, <2>4, <2>5, HostForgets
<1> QED
  BY <1>1, <1>2

\* A DETACH that fails is told, and forgets nothing.
LEMMA DetachFailsKeeps ==
  ASSUME CatalogInv, HostFrame, DetachFails, UNCHANGED reading, Told
  PROVE  CatalogInv'
<1>1. Forgets /\ Received(<<Event("updated", "error")>>)
  BY DEF DetachFails, Sends, Received
<1>2. PICK m : m = Event("updated", "error")
  OBVIOUS
<1>3. m \in Messages /\ MessageOK(m)' /\ Fresh(m)' /\ Received(<<m>>)
  BY <1>1, <1>2, PlainEvent DEF Outcomes
<1>4. /\ <<m>> \in Seq(Messages)
      /\ \A j \in DOMAIN <<m>> : MessageOK(<<m>>[j])' /\ Fresh(<<m>>[j])'
  BY <1>3, OneMessage
<1>5. \A k \in answers' : k \in answers \/ (MessageOK(k)' /\ Fresh(k)')
  BY DEF Told
<1> QED
  BY <1>1, <1>3, <1>4, <1>5, ForgetsKeeps, HostKeeps

\* Disconnect forgets the columns unless it was disconnected, or DETACH fails.
LEMMA DisconnectKeeps ==
  ASSUME CatalogInv, NEW c \in calls, ServeDisconnect(c), HostRest
  PROVE  CatalogInv'
<1>1. /\ UNCHANGED <<linked, known, reading, serving>> /\ calls' = calls \ {c}
      /\ (UNCHANGED left \/ Fails)
      /\ c.op \in {"disconnect", "reconnect"} /\ serving = {}
      /\ \E outcome \in {"ok", "failed"} :
           answers' = answers \cup {Message(c.op, c.of, outcome, 0)}
  BY DEF ServeDisconnect, DetachFails, Answers, Answer
<1>2. GoneOK /\ known \subseteq Relation /\ CallOK(c)
      /\ c.of \in Relation \cup {Nothing}
      /\ left' \in [{"act", "calls", "change", "failure"} -> Nat]
  BY <1>1, Spent DEF CatalogInv, CatalogTypes, CallsOK, CallOK, CatalogCalls
<1>3. /\ \A outcome \in {"ok", "failed"} : /\ MessageOK(Message(c.op, c.of, outcome, 0))'
                                           /\ Fresh(Message(c.op, c.of, outcome, 0))'
      /\ \A outcome \in {"ok", "failed"} : ~OfRelation(Message(c.op, c.of, outcome, 0))
  <2>1. c.op \in Ops \ {"open", "validate", "list"}
    BY <1>1 DEF Ops
  <2>2. \A outcome \in {"ok", "failed"} : Message(c.op, c.of, outcome, 0).op = c.op
    BY <1>2, <2>1, MessageFields DEF Outcomes
  <2> QED
    BY <1>1, <1>2, <2>1, <2>2, PlainAnswer DEF OfRelation, Outcomes
<1>4. Told
  BY <1>1, <1>3 DEF Told
<1>5. CASE linked
  <2>1. \/ Detaches /\ status' = "disconnected"
        \/ DetachFails /\ status' = "error"
    BY <1>5 DEF ServeDisconnect, DetachFails
  <2>2. HostFrame
    BY <1>1, <1>2, <1>5, <2>1 DEF HostFrame, HostRest, Learns, GoneOK
  <2> QED
    BY <1>1, <1>4, <2>1, <2>2, DetachesKeeps, DetachFailsKeeps
<1>6. CASE ~linked
  <2>1. UNCHANGED <<status, inbox>> /\ Forgets
    BY <1>6 DEF ServeDisconnect
  <2>2. HostFrame
    BY <1>1, <1>2, <2>1 DEF HostFrame, HostRest, Learns, GoneOK
  <2> QED
    BY <1>1, <1>4, <2>1, <2>2, ForgetsKeeps, HostSilent DEF Told
<1> QED
  BY <1>5, <1>6

\* RefreshCatalog forgets the columns if it succeeds.
LEMMA RefreshKeeps ==
  ASSUME CatalogInv, NEW c \in calls, ServeRefresh(c), HostRest
  PROVE  CatalogInv'
<1>1. /\ UNCHANGED <<linked, status, known, reading, serving>> /\ calls' = calls \ {c}
      /\ c.op = "refresh" /\ (UNCHANGED left \/ Fails)
      /\ \E outcome \in {"ok", "failed"} :
           answers' = answers \cup {Message(c.op, c.of, outcome, 0)}
  BY DEF ServeRefresh, Answers, Answer
<1>2. GoneOK /\ known \subseteq Relation /\ CallOK(c)
      /\ c.of \in Relation \cup {Nothing}
      /\ left' \in [{"act", "calls", "change", "failure"} -> Nat]
  BY <1>1, Spent DEF CatalogInv, CatalogTypes, CallsOK, CallOK, CatalogCalls
<1>3. /\ \A outcome \in {"ok", "failed"} : /\ MessageOK(Message(c.op, c.of, outcome, 0))'
                                           /\ Fresh(Message(c.op, c.of, outcome, 0))'
      /\ \A outcome \in {"ok", "failed"} : ~OfRelation(Message(c.op, c.of, outcome, 0))
  <2>1. c.op \in Ops \ {"open", "validate", "list"}
    BY <1>1 DEF Ops
  <2>2. \A outcome \in {"ok", "failed"} : Message(c.op, c.of, outcome, 0).op = c.op
    BY <1>2, <2>1, MessageFields DEF Outcomes
  <2> QED
    BY <1>1, <1>2, <2>1, <2>2, PlainAnswer DEF OfRelation, Outcomes
<1>4. HostFrame
  BY <1>1, <1>2 DEF HostFrame, HostRest, Learns, GoneOK
<1>5. ASSUME Invalidate, Received(<<Event("invalidated", "ok")>>)
      PROVE  CatalogInv'
  <2>1. PICK m : m = Event("invalidated", "ok")
    OBVIOUS
  <2>3. m \in Messages /\ MessageOK(m)' /\ Forgetting(m) /\ Received(<<m>>)
    BY <1>5, <2>1, PlainEvent DEF Outcomes, Forgetting
  <2>4. /\ <<m>> \in Seq(Messages) /\ 1 \in DOMAIN <<m>>
        /\ \A j \in DOMAIN <<m>> : MessageOK(<<m>>[j])' /\ Forgetting(<<m>>[j])
    BY <2>3, OneMessage
  <2>5. \A k \in answers' : k \in answers \/ (MessageOK(k)' /\ ~OfRelation(k))
    BY <1>1, <1>3
  <2> QED
    BY <1>1, <1>4, <1>5, <2>3, <2>4, <2>5, HostForgets
<1>6. ASSUME Forgets, UNCHANGED inbox
      PROVE  CatalogInv'
  <2>1. \A m \in answers' : m \in answers \/ (MessageOK(m)' /\ Fresh(m)')
    BY <1>1, <1>3
  <2> QED
    BY <1>1, <1>4, <1>6, <2>1, ForgetsKeeps, HostSilent
<1>7. (Invalidate /\ Received(<<Event("invalidated", "ok")>>)) \/ (Forgets /\ UNCHANGED inbox)
  BY DEF ServeRefresh, Sends, Received
<1> QED
  BY <1>5, <1>6, <1>7

\* ListSchemas
LEMMA SchemasKeeps ==
  ASSUME CatalogInv, NEW c \in calls, ServeSchemas(c), HostRest
  PROVE  CatalogInv'
<1>1. /\ Forgets /\ UNCHANGED <<linked, status, known, reading, serving, inbox>>
      /\ calls' = calls \ {c} /\ c.op \in {"schemas", "schemas first"}
      /\ (UNCHANGED left \/ Fails)
      /\ \E outcome \in {"ok", "failed"} :
           answers' = answers \cup {Message(c.op, c.of, outcome, 0)}
  BY DEF ServeSchemas, Answers, Answer
<1>2. GoneOK /\ known \subseteq Relation /\ CallOK(c)
      /\ c.of \in Relation \cup {Nothing}
      /\ left' \in [{"act", "calls", "change", "failure"} -> Nat]
  BY <1>1, Spent DEF CatalogInv, CatalogTypes, CallsOK, CallOK, CatalogCalls
<1>3. \A outcome \in {"ok", "failed"} : /\ MessageOK(Message(c.op, c.of, outcome, 0))'
                                        /\ Fresh(Message(c.op, c.of, outcome, 0))'
  BY <1>1, <1>2, PlainAnswer DEF Ops, Outcomes
<1>4. HostFrame
  BY <1>1, <1>2 DEF HostFrame, HostRest, Learns, GoneOK
<1>5. \A m \in answers' : m \in answers \/ (MessageOK(m)' /\ Fresh(m)')
  BY <1>1, <1>3
<1> QED
  BY <1>1, <1>4, <1>5, ForgetsKeeps, HostSilent

\* ListRelations stores what it lists without columns.
LEMMA ListKeeps ==
  ASSUME CatalogInv, NEW c \in calls, ServeList(c), HostRest
  PROVE  CatalogInv'
<1>1. /\ UNCHANGED <<linked, status, reading, serving, inbox, floor, straddled>>
      /\ calls' = calls \ {c} /\ c.op = "list" /\ (UNCHANGED left \/ Fails)
      /\ known' \in {known, known \cup there}
      /\ columns' = columns \/ columns' = [r \in Relation |-> IF r \in there THEN 0 ELSE columns[r]]
  BY DEF ServeList, Answers, Answer
<1>2. /\ GoneOK /\ known \subseteq Relation /\ there \subseteq Relation /\ CallOK(c)
      /\ c.of \in Relation \cup {Nothing} /\ columns \in [Relation -> Nat]
      /\ left' \in [{"act", "calls", "change", "failure"} -> Nat]
  BY <1>1, Spent DEF CatalogInv, CatalogTypes, CallsOK, CallOK, CatalogCalls
<1>3. KeepsFresh
  BY <1>1, <1>2 DEF KeepsFresh
<1>4. ASSUME linked, known' = known \cup there,
             answers' = answers \cup {[Message("list", Nothing, "ok", 0) EXCEPT !.list = there]}
      PROVE  CatalogInv'
  <2>1. HostFrame
    BY <1>1, <1>2, <1>4 DEF HostFrame, HostRest, Learns, GoneOK
  <2>5. PICK m : m = [Message("list", Nothing, "ok", 0) EXCEPT !.list = there]
    OBVIOUS
  <2>2. /\ m \in Messages /\ m.op = "list" /\ m.outcome = "ok" /\ m.list = there
    BY <1>2, <2>5 DEF Message, Messages, Ops, Outcomes
  <2>3. MessageOK(m)' /\ Fresh(m)'
    <3>1. \A r \in m.list : Known(r)'
      BY <1>4, <2>2 DEF Known
    <3>2. Relation \ m.list \subseteq absent'
      BY <1>2, <2>2 DEF GoneOK, HostRest
    <3> QED
      BY <2>2, <3>1, <3>2 DEF MessageOK, Fresh, Brings, OfRelation
  <2>4. \A k \in answers' : k \in answers \/ (MessageOK(k)' /\ Fresh(k)')
    BY <1>4, <2>3, <2>5
  <2> QED
    BY <1>1, <1>3, <2>1, <2>4, HostSilent
<1>5. ASSUME known' = known, answers' = answers \cup {Message(c.op, c.of, "failed", 0)}
      PROVE  CatalogInv'
  <2>1. HostFrame
    BY <1>1, <1>2, <1>5 DEF HostFrame, HostRest, Learns, GoneOK
  <2> DEFINE m == Message(c.op, c.of, "failed", 0)
  <2>2. /\ m \in Messages /\ m.op = "list" /\ m.outcome = "failed" /\ m.list = {}
    BY <1>1, <1>2 DEF Message, Messages, Ops, Outcomes
  <2> HIDE DEF m
  <2>3. MessageOK(m)' /\ Fresh(m)'
    BY <2>2 DEF MessageOK, Fresh, Brings, OfRelation
  <2>4. \A k \in answers' : k \in answers \/ (MessageOK(k)' /\ Fresh(k)')
    BY <1>5, <2>3 DEF m
  <2> QED
    BY <1>1, <1>3, <2>1, <2>4, HostSilent
<1>6. \/ /\ linked /\ known' = known \cup there
         /\ answers' = answers \cup {[Message("list", Nothing, "ok", 0) EXCEPT !.list = there]}
      \/ known' = known /\ answers' = answers \cup {Message(c.op, c.of, "failed", 0)}
  BY DEF ServeList, Answers, Answer, Connected
<1> QED
  BY <1>4, <1>5, <1>6

\* GetExternalRelation answers, or begins to read columns of now.
LEMMA GetKeeps ==
  ASSUME CatalogInv, NEW c \in calls, ServeGet(c), HostRest
  PROVE  CatalogInv'
<1>1. /\ Forgets /\ UNCHANGED <<linked, status, known, serving, inbox>>
      /\ calls' = calls \ {c} /\ OfRelation(c) /\ (UNCHANGED left \/ Fails)
  BY DEF ServeGet, Answers, Answer, OfRelation
<1>2. /\ GoneOK /\ known \subseteq Relation /\ CallOK(c) /\ c.op \in Ops
      /\ c.of \in Relation /\ Known(c.of) /\ ColumnsOK
      /\ columns \in [Relation -> Nat] /\ version \in [Relation -> Nat \ {0}]
      /\ floor \in [Relation -> Nat]
      /\ left' \in [{"act", "calls", "change", "failure"} -> Nat]
  BY <1>1, Spent DEF CatalogInv, CatalogTypes, CallsOK, CallOK, CatalogCalls
<1>3. HostFrame
  BY <1>1, <1>2 DEF HostFrame, HostRest, Learns, GoneOK
<1>4. Known(c.of)' /\ UNCHANGED <<floor, straddled, absent>>
  BY <1>1, <1>2 DEF Known, Forgets, HostRest
<1>5. ASSUME NEW outcome \in {"missing", "detached", "failed"},
             outcome = "missing" => status = "gone" \/ c.of \in absent,
             answers' = answers \cup {Message(c.op, c.of, outcome, 0)}, UNCHANGED reading
      PROVE  CatalogInv'
  <2>1. PICK m : m = Message(c.op, c.of, outcome, 0)
    OBVIOUS
  <2>2. m \in Messages /\ m.op = c.op /\ m.of = c.of /\ m.outcome = outcome /\ m.list = {}
    <3>1. outcome \in Outcomes /\ c.of \in Relation \cup {Nothing} /\ 0 \in Nat
      BY <1>2 DEF Outcomes
    <3> QED
      BY <1>2, <2>1, <3>1, MessageFields
  <2>3. m.outcome = "missing" => status' = "gone" \/ m.of \in absent'
    BY <1>1, <1>4, <1>5, <2>2
  <2>4. ~Brings(m) /\ OfRelation(m) /\ m.outcome # "ok"
    BY <1>1, <2>2 DEF Brings, OfRelation
  <2>5. MessageOK(m)' /\ Fresh(m)'
    BY <1>2, <1>4, <2>2, <2>3, <2>4 DEF MessageOK, Fresh, Brings, OfRelation
  <2>6. \A k \in answers' : k \in answers \/ (MessageOK(k)' /\ Fresh(k)')
    BY <1>5, <2>1, <2>5
  <2> QED
    BY <1>1, <1>3, <1>5, <2>6, ForgetsKeeps, HostSilent
<1>6. ASSUME columns[c.of] # 0,
             answers' = answers \cup {Message(c.op, c.of, "ok", columns[c.of])}, UNCHANGED reading
      PROVE  CatalogInv'
  <2>1. PICK m : m = Message(c.op, c.of, "ok", columns[c.of])
    OBVIOUS
  <2>2. /\ m \in Messages /\ m.op = c.op /\ m.of = c.of /\ m.outcome = "ok" /\ m.list = {}
        /\ m.columns = columns[c.of]
    <3>1. columns[c.of] \in Nat /\ c.of \in Relation \cup {Nothing} /\ "ok" \in Outcomes
      BY <1>2 DEF Outcomes
    <3> QED
      BY <1>2, <2>1, <3>1, MessageFields
  <2>3. NotOlder(m.of, m.columns)'
    BY <1>2, <1>4, <1>6, <2>2 DEF ColumnsOK, NotOlder
  <2>4. Brings(m) /\ OfRelation(m)
    BY <1>1, <2>2 DEF Brings, OfRelation
  <2>5. MessageOK(m)' /\ Fresh(m)'
    BY <1>2, <1>4, <1>6, <2>2, <2>3, <2>4 DEF MessageOK, Fresh, Brings, OfRelation
  <2>6. \A k \in answers' : k \in answers \/ (MessageOK(k)' /\ Fresh(k)')
    BY <1>6, <2>1, <2>5
  <2> QED
    BY <1>1, <1>3, <1>6, <2>6, ForgetsKeeps, HostSilent
<1>7. ASSUME reading' = reading \cup {[op |-> c.op, of |-> c.of, columns |-> version[c.of]]},
             UNCHANGED answers
      PROVE  CatalogInv'
  <2>1. PICK q : q = [op |-> c.op, of |-> c.of, columns |-> version[c.of]]
    OBVIOUS
  <2>2. /\ q.op = c.op /\ q.of = c.of /\ q.columns = version[c.of] /\ q.columns \in Nat \ {0}
    BY <1>2, <2>1
  <2>3. NotOlder(q.of, q.columns)'
    BY <1>2, <1>4, <2>2 DEF NotOlder, CatalogInv, FloorOK
  <2>4. ReadingOK(q)'
    BY <1>1, <1>2, <1>4, <2>2, <2>3 DEF ReadingOK, OfRelation
  <2>5. \A k \in reading' : k \in reading \/ ReadingOK(k)'
    BY <1>7, <2>1, <2>4
  <2> QED
    BY <1>1, <1>3, <1>7, <2>5, ForgetsKeeps, HostSilent
<1>8. \/ \E outcome \in {"missing", "detached", "failed"} :
           /\ outcome = "missing" => status = "gone" \/ c.of \in absent
           /\ answers' = answers \cup {Message(c.op, c.of, outcome, 0)} /\ UNCHANGED reading
      \/ /\ columns[c.of] # 0 /\ UNCHANGED reading
         /\ answers' = answers \cup {Message(c.op, c.of, "ok", columns[c.of])}
      \/ /\ reading' = reading \cup {[op |-> c.op, of |-> c.of, columns |-> version[c.of]]}
         /\ UNCHANGED answers
  <2>1. c.of \notin known => status = "gone"
    BY <1>2 DEF Known
  <2>2. c.of \notin there => c.of \in absent
    BY <1>2 DEF GoneOK
  <2> QED
    BY <2>1, <2>2 DEF ServeGet, Answers, Answer
<1> QED
  BY <1>5, <1>6, <1>7, <1>8

\* What was read before an invalidation straddles it when it is stored.
LEMMA StoreColumnsKeeps ==
  ASSUME CatalogInv, NEW q \in reading, StoreColumns(q), HostRest
  PROVE  CatalogInv'
<1>1. /\ UNCHANGED <<linked, status, serving, calls, inbox, left, floor, straddled>>
      /\ reading' = reading \ {q} /\ known' = known \cup {q.of}
      /\ columns' = [columns EXCEPT ![q.of] = q.columns]
      /\ answers' = answers \cup {Message(q.op, q.of, "ok", q.columns)}
  BY DEF StoreColumns
<1>2. /\ GoneOK /\ known \subseteq Relation /\ ReadingOK(q)
      /\ columns \in [Relation -> Nat]
      /\ left \in [{"act", "calls", "change", "failure"} -> Nat]
  BY DEF CatalogInv, CatalogTypes, ReadingsOK
<1>3. /\ OfRelation(q) /\ q.op \in Ops /\ q.of \in Relation
      /\ q.columns \in Nat \ {0} /\ NotOlder(q.of, q.columns)
  BY <1>2 DEF ReadingOK
<1>4. HostFrame
  BY <1>1, <1>2, <1>3 DEF HostFrame, HostRest, Learns, GoneOK
<1>5. KeepsFresh
  BY <1>1, <1>2, <1>3 DEF KeepsFresh
<1>6. PICK m : m = Message(q.op, q.of, "ok", q.columns)
  OBVIOUS
<1>7. /\ m \in Messages /\ m.op = q.op /\ m.of = q.of /\ m.outcome = "ok" /\ m.list = {}
      /\ m.columns = q.columns
  BY <1>3, <1>6, MessageFields DEF Outcomes
<1>8. NotOlder(m.of, m.columns)' /\ Known(m.of)'
  BY <1>1, <1>3, <1>7 DEF NotOlder, Known
<1>9. MessageOK(m)' /\ Fresh(m)'
  BY <1>3, <1>7, <1>8 DEF MessageOK, Fresh, Brings, OfRelation
<1>10. \A k \in answers' : k \in answers \/ (MessageOK(k)' /\ Fresh(k)')
  BY <1>1, <1>6, <1>9
<1> QED
  BY <1>1, <1>4, <1>5, <1>10, HostSilent

\* AttachConnection and DetachConnection
LEMMA AttachKeeps ==
  ASSUME CatalogInv, NEW c \in calls, ServeAttach(c) \/ ServeDetach(c), HostRest
  PROVE  CatalogInv'
<1>1. /\ Forgets /\ UNCHANGED <<status, known, reading, serving, inbox, left>>
      /\ c.op \in {"attach", "detach"} /\ (status = "gone" => linked' \in {linked, FALSE})
      /\ \A k \in calls' : k \in calls \/ k = Call("auto connect", Nothing)
      /\ \A m \in answers' : m \in answers \/ \E outcome \in {"ok", "failed"} :
           m = Message("attach", Nothing, outcome, 0) \/ m = Message(c.op, c.of, outcome, 0)
  BY DEF ServeAttach, ServeDetach, Answers, Answer
<1>2. GoneOK /\ known \subseteq Relation /\ CallOK(c)
      /\ c.of \in Relation \cup {Nothing}
      /\ left \in [{"act", "calls", "change", "failure"} -> Nat]
  BY DEF CatalogInv, CatalogTypes, CallsOK, CallOK, CatalogCalls
<1>3. CallOK(Call("auto connect", Nothing))'
  BY MessageFields DEF CallOK, OfRelation, Ops, Call, CatalogCalls
<1>4. HostFrame
  <2>1. status' = "gone" => ~linked' /\ serving' = {}
    BY <1>1, <1>2 DEF GoneOK
  <2>2. \A k \in calls' : k \in calls \/ CallOK(k)'
    BY <1>1, <1>3
  <2> QED
    BY <1>1, <1>2, <2>1, <2>2 DEF HostFrame, HostRest, Learns
<1>5. \A outcome \in {"ok", "failed"} :
        /\ MessageOK(Message(c.op, c.of, outcome, 0))' /\ Fresh(Message(c.op, c.of, outcome, 0))'
        /\ MessageOK(Message("attach", Nothing, outcome, 0))'
        /\ Fresh(Message("attach", Nothing, outcome, 0))'
  BY <1>1, <1>2, PlainAnswer DEF Ops, Outcomes
<1>6. \A m \in answers' : m \in answers \/ (MessageOK(m)' /\ Fresh(m)')
  BY <1>1, <1>5
<1> QED
  BY <1>1, <1>4, <1>6, ForgetsKeeps, HostSilent

\* DeleteConnection forgets everything and tells of it once or twice, or fails
\* before or after it disconnected.
LEMMA DeleteKeeps ==
  ASSUME CatalogInv, NEW c \in calls, ServeDelete(c), HostRest
  PROVE  CatalogInv'
<1>1. /\ UNCHANGED <<reading, serving>> /\ calls' = calls \ {c}
      /\ (UNCHANGED left \/ Fails)
      /\ c.op = "delete" /\ serving = {}
      /\ \E outcome \in {"ok", "failed"} :
           answers' = answers \cup {Message(c.op, c.of, outcome, 0)}
  BY DEF ServeDelete, DetachFails, Answers, Answer
<1>2. GoneOK /\ known \subseteq Relation /\ CallOK(c)
      /\ c.of \in Relation \cup {Nothing}
      /\ left' \in [{"act", "calls", "change", "failure"} -> Nat]
  BY <1>1, Spent DEF CatalogInv, CatalogTypes, CallsOK, CallOK, CatalogCalls
<1>3. /\ \A outcome \in {"ok", "failed"} : /\ MessageOK(Message(c.op, c.of, outcome, 0))'
                                           /\ Fresh(Message(c.op, c.of, outcome, 0))'
      /\ \A outcome \in {"ok", "failed"} : ~OfRelation(Message(c.op, c.of, outcome, 0))
  <2>1. c.op \in Ops \ {"open", "validate", "list"}
    BY <1>1 DEF Ops
  <2>2. \A outcome \in {"ok", "failed"} : Message(c.op, c.of, outcome, 0).op = c.op
    BY <1>2, <2>1, MessageFields DEF Outcomes
  <2> QED
    BY <1>1, <1>2, <2>1, <2>2, PlainAnswer DEF OfRelation, Outcomes
<1>4. ASSUME linked' = FALSE, status' = "gone", known' = {}, Invalidate,
             Received((IF status = "disconnected" THEN <<>> ELSE <<Event("updated", "disconnected")>>)
                        \o <<Event("updated", "disconnected")>>)
      PROVE  CatalogInv'
  <2>1. /\ linked' = FALSE /\ status' = "gone" /\ known' = {} /\ Invalidate
        /\ Received((IF status = "disconnected" THEN <<>> ELSE <<Event("updated", "disconnected")>>)
                       \o <<Event("updated", "disconnected")>>)
    BY <1>4
  <2>2. HostFrame
    BY <1>1, <1>2, <2>1 DEF HostFrame, HostRest, Learns
  <2>3. PICK m : m = Event("updated", "disconnected")
    OBVIOUS
  <2>4. m \in Messages /\ MessageOK(m)' /\ Forgetting(m)
    BY <2>3, PlainEvent DEF Outcomes, Forgetting
  <2>5. PICK old : /\ old \in Seq(Messages) /\ Received(old \o <<m>>)
                   /\ \A j \in DOMAIN old : old[j] = m
    <3>1. CASE status = "disconnected"
      <4>1. Received(<<>> \o <<m>>)
        BY <2>1, <2>3, <3>1
      <4>2. <<>> \in Seq(Messages) /\ \A j \in DOMAIN <<>> : <<>>[j] = m
        OBVIOUS
      <4> QED
        BY <4>1, <4>2
    <3>2. CASE status # "disconnected"
      <4>1. Received(<<m>> \o <<m>>)
        BY <2>1, <2>3, <3>2
      <4>2. <<m>> \in Seq(Messages) /\ \A j \in DOMAIN <<m>> : <<m>>[j] = m
        BY <2>4, OneMessage
      <4> QED
        BY <4>1, <4>2
    <3> QED
      BY <3>1, <3>2
  <2> DEFINE new == old \o <<m>>
  <2>6. /\ new \in Seq(Messages) /\ 1 \in DOMAIN new
        /\ \A j \in DOMAIN new : new[j] = m
    <3>1. <<m>> \in Seq(Messages) /\ Len(<<m>>) = 1 /\ <<m>>[1] = m
      BY <2>4
    <3>2. new \in Seq(Messages) /\ Len(new) = Len(old) + 1 /\ Len(old) \in Nat
      BY <2>5, <3>1
    <3>3. \A j \in 1..Len(new) : new[j] = IF j <= Len(old) THEN old[j] ELSE <<m>>[j - Len(old)]
      BY <2>5, <3>1
    <3>4. DOMAIN new = 1..Len(new) /\ DOMAIN old = 1..Len(old)
      BY <2>5, <3>2
    <3> HIDE DEF new
    <3>5. ASSUME NEW j \in DOMAIN new PROVE new[j] = m
      <4>1. CASE j <= Len(old)
        BY <2>5, <3>2, <3>3, <3>4, <4>1
      <4>2. CASE ~(j <= Len(old))
        <5>1. j - Len(old) = 1
          BY <3>2, <3>4, <4>2
        <5> QED
          BY <3>1, <3>3, <3>4, <4>2, <5>1
      <4> QED
        BY <4>1, <4>2
    <3> QED
      BY <3>2, <3>4, <3>5
  <2>9. Received(new)
    BY <2>5
  <2> HIDE DEF new
  <2>7. \A k \in answers' : k \in answers \/ (MessageOK(k)' /\ ~OfRelation(k))
    BY <1>1, <1>3
  <2>8. \A j \in DOMAIN new : MessageOK(new[j])' /\ Forgetting(new[j])
    BY <2>4, <2>6
  <2> QED
    BY <1>1, <2>1, <2>2, <2>6, <2>7, <2>8, <2>9, HostForgets
<1>5. Told
  BY <1>1, <1>3 DEF Told
<1>6. CASE status # "gone"
  <2>1. ASSUME DetachFails, UNCHANGED <<linked, known>>
        PROVE  CatalogInv'
    <3>1. status' = "error"
      BY <2>1 DEF DetachFails
    <3>2. HostFrame
      BY <1>1, <1>2, <1>6, <2>1, <3>1 DEF HostFrame, HostRest, Learns
    <3> QED
      BY <1>1, <1>5, <2>1, <3>2, DetachFailsKeeps
  <2>2. ASSUME Detaches, UNCHANGED known,
               \/ status' = "disconnected" /\ UNCHANGED linked
               \/ status' = "gone" /\ linked' = FALSE
        PROVE  CatalogInv'
    <3>1. HostFrame
      BY <1>1, <1>2, <1>6, <2>2 DEF HostFrame, HostRest, Learns
    <3> QED
      BY <1>1, <1>5, <2>2, <3>1, DetachesKeeps
  <2> QED
    BY <1>4, <1>6, <2>1, <2>2 DEF ServeDelete, Sends, Received
<1>7. CASE status = "gone"
  <2>1. UNCHANGED <<linked, status, known, inbox>> /\ Forgets
    BY <1>7 DEF ServeDelete
  <2>2. HostFrame
    BY <1>1, <1>2, <2>1 DEF HostFrame, HostRest, Learns, GoneOK
  <2> QED
    BY <1>1, <1>5, <2>1, <2>2, ForgetsKeeps, HostSilent DEF Told
<1> QED
  BY <1>6, <1>7

\* An answer leaves in the order it was sent.
LEMMA SendsKeeps ==
  ASSUME CatalogInv, SendsAnswer, HostRest
  PROVE  CatalogInv'
<1>1. PICK m \in answers : answers' = answers \ {m} /\ Received(<<m>>)
  BY DEF SendsAnswer, Sends, Received
<1>2. /\ Forgets /\ UNCHANGED <<linked, status, known, reading, serving, calls, left>>
  BY DEF SendsAnswer
<1>3. /\ GoneOK /\ known \subseteq Relation /\ MessageOK(m) /\ Fresh(m)
      /\ left \in [{"act", "calls", "change", "failure"} -> Nat]
  BY DEF CatalogInv, CatalogTypes, AnswersOK
<1>4. HostFrame
  BY <1>2, <1>3 DEF HostFrame, HostRest, Learns, GoneOK
<1>5. MessageOK(m)' /\ m \in Messages
  BY <1>2, <1>3, KnownStays DEF HostRest, Learns, MessageOK
<1>6. Fresh(m)'
  BY <1>2, <1>3 DEF Fresh, NotOlder, Forgets, Brings, OfRelation
<1>7. /\ <<m>> \in Seq(Messages)
      /\ \A j \in DOMAIN <<m>> : MessageOK(<<m>>[j])' /\ Fresh(<<m>>[j])'
  BY <1>5, <1>6, OneMessage
<1>8. \A q \in reading' : q \in reading
  BY <1>2
<1>9. \A k \in answers' : k \in answers
  BY <1>1
<1> QED
  BY <1>1, <1>2, <1>4, <1>7, <1>8, <1>9, ForgetsKeeps, HostKeeps

\* All of them together.
LEMMA HostSteps ==
  ASSUME CatalogInv, Host
  PROVE  CatalogInv'
<1>1. HostRest
  BY DEF Host, HostRest
<1>2. \/ \E c \in calls : \/ ConnectStarts(c) \/ ServeDisconnect(c) \/ ServeRefresh(c)
                          \/ ServeSchemas(c) \/ ServeList(c) \/ ServeGet(c)
                          \/ ServeAttach(c) \/ ServeDetach(c) \/ ServeDelete(c)
      \/ \E c \in serving : ConnectEnds(c)
      \/ \E q \in reading : StoreColumns(q)
      \/ SendsAnswer
  BY DEF Host
<1> QED
  BY <1>1, <1>2, ConnectStartsKeeps, ConnectEndsKeeps, DisconnectKeeps, RefreshKeeps, SchemasKeeps,
     ListKeeps, GetKeeps, StoreColumnsKeeps, AttachKeeps, DeleteKeeps, SendsKeeps

------------------------------------------------------------------------------
(* Steps of the user and of the external database                            *)

\* The webview asks for a relation that its catalog has.
LEMMA ActsKeeps ==
  ASSUME CatalogInv, Acts
  PROVE  CatalogInv'
<1>1. /\ UNCHANGED <<there, version, hostSide, answers, inbox, workspace, ghosts>>
      /\ Spends("act")
      /\ \E c : /\ calls' = calls \cup {c}
                /\ \/ \E op \in Ops \ {"open", "validate"} : c = Call(op, Nothing)
                   \/ \E r \in catalog : c = Call("open", r)
  BY DEF Acts, Chooses, Leaves, Expands, Opens, Attaches, LoadRelations, Calls, Ops
<1>2. /\ UNCHANGED <<linked, status, known, columns, reading, serving>>
      /\ UNCHANGED <<floor, straddled, absent>>
      /\ UNCHANGED <<there, version, workspace, strays, emptied, absent>>
  BY <1>1 DEF hostSide, ghosts
<1>3. /\ GoneOK /\ known \subseteq Relation /\ catalog \subseteq Relation
      /\ (\A r \in catalog : Known(r))
      /\ left \in [{"act", "calls", "change", "failure"} -> Nat]
  BY DEF CatalogInv, CatalogTypes, TabsOK
<1>4. left' \in [{"act", "calls", "change", "failure"} -> Nat]
  BY <1>1, <1>3 DEF Spends
<1>5. \A c \in calls' : c \in calls \/ CallOK(c)'
  <2> SUFFICES ASSUME NEW c \in calls', c \notin calls PROVE CallOK(c)'
    OBVIOUS
  <2>1. CASE \E op \in Ops \ {"open", "validate"} : c = Call(op, Nothing)
    <3>1. PICK op \in Ops \ {"open", "validate"} : c = Call(op, Nothing)
      BY <2>1
    <3>2. c \in CatalogCalls /\ c.op = op
      BY <3>1, MessageFields
    <3> QED
      BY <3>2 DEF CallOK, OfRelation
  <2>2. CASE \E r \in catalog : c = Call("open", r)
    <3>1. PICK r \in catalog : c = Call("open", r)
      BY <2>2
    <3>2. c \in CatalogCalls /\ c.op = "open" /\ c.of = r
      <4>1. "open" \in Ops /\ r \in Relation \cup {Nothing}
        BY <1>3 DEF Ops
      <4> QED
        BY <3>1, <4>1, MessageFields
    <3>3. Known(r)' /\ r \in Relation
      BY <1>2, <1>3 DEF Known
    <3> QED
      BY <3>2, <3>3 DEF CallOK, OfRelation
  <2> QED
    BY <1>1, <2>1, <2>2
<1>6. HostFrame
  BY <1>2, <1>3, <1>4, <1>5 DEF HostFrame, Learns, GoneOK
<1>7. KeepsFresh
  BY <1>2, ForgetsKeeps DEF Forgets
<1> QED
  BY <1>1, <1>2, <1>6, <1>7, HostSilent

\* A tab that is closed shows nothing.
LEMMA ClosesKeeps ==
  ASSUME CatalogInv, NEW r \in Relation, CloseTab(r)
  PROVE  CatalogInv'
<1>1. /\ UNCHANGED <<there, version, hostSide, wire, member, catalog, shown, ghosts>>
      /\ tabs' = [tabs EXCEPT ![r] = "none"] /\ Spends("act")
  BY DEF CloseTab
<1>2. UNCHANGED <<there, version, linked, status, known, columns, reading, serving, calls, answers,
                  inbox, member, catalog, shown, floor, straddled, strays, emptied, absent>>
  BY <1>1 DEF hostSide, wire, ghosts
<1>3. /\ CatalogTypes /\ FloorOK /\ GoneOK /\ CallsOK /\ ReadingsOK /\ ColumnsOK
      /\ AnswersOK /\ InboxOK /\ TabsOK
  BY DEF CatalogInv
<1>4. CatalogTypes'
  <2>1. left' \in [{"act", "calls", "change", "failure"} -> Nat]
    BY <1>1, <1>3 DEF CatalogTypes, Spends
  <2>2. tabs' \in [Relation -> {"none", "external", "placeholder"}]
    BY <1>1, <1>3 DEF CatalogTypes
  <2> QED
    BY <1>2, <1>3, <2>1, <2>2 DEF CatalogTypes
<1>5. FloorOK' /\ GoneOK' /\ ColumnsOK'
  BY <1>2, <1>3 DEF FloorOK, GoneOK, ColumnsOK, NotOlder
<1>6. /\ \A k : Known(k)' <=> Known(k)
      /\ \A m : MessageOK(m)' <=> MessageOK(m)
      /\ \A m : Fresh(m)' <=> Fresh(m)
      /\ \A i : ForgetsAfter(i)' <=> ForgetsAfter(i)
      /\ \A c : CallOK(c)' <=> CallOK(c)
      /\ \A q : ReadingOK(q)' <=> ReadingOK(q)
      /\ \A k, n : NotOlder(k, n)' <=> NotOlder(k, n)
  BY <1>2 DEF Known, MessageOK, Fresh, ForgetsAfter, CallOK, ReadingOK, NotOlder, Brings, OfRelation,
              Forgetting
<1>7. CallsOK' /\ ReadingsOK' /\ AnswersOK' /\ InboxOK'
  BY <1>2, <1>3, <1>6 DEF CallsOK, ReadingsOK, AnswersOK, InboxOK
<1>8. TabsOK'
  <2>1. \A k \in Relation : tabs'[k] # "none" => tabs'[k] = tabs[k]
    BY <1>1, <1>3 DEF CatalogTypes
  <2>2. Open' \subseteq Open
    BY <2>1 DEF Open
  <2>3. \A k \in Relation : ShownOK(k)'
    BY <1>2, <1>3, <1>6, <2>1 DEF TabsOK, ShownOK
  <2> QED
    BY <1>2, <1>3, <1>6, <2>2, <2>3 DEF TabsOK
<1> QED
  BY <1>4, <1>5, <1>7, <1>8 DEF CatalogInv

\* Columns change, and nothing the host has is newer than they are.
LEMMA ChangesKeeps ==
  ASSUME CatalogInv, NEW r \in Relation, Changes(r)
  PROVE  CatalogInv'
<1>1. /\ UNCHANGED <<hostSide, wire, workspace, floor, straddled, strays, emptied>>
      /\ version' = [version EXCEPT ![r] = @ + 1] /\ there' \in {there \ {r}, there \cup {r}}
      /\ absent' = absent \cup (Relation \ there') /\ Spends("change")
  BY DEF Changes
<1>2. UNCHANGED <<linked, status, known, columns, reading, serving, calls, answers,
                  inbox, member, catalog, shown, tabs, floor, straddled, strays, emptied>>
  BY <1>1 DEF hostSide, wire, workspace
<1>3. /\ CatalogTypes /\ FloorOK /\ GoneOK /\ CallsOK /\ ReadingsOK /\ ColumnsOK
      /\ AnswersOK /\ InboxOK /\ TabsOK
  BY DEF CatalogInv
<1>4. CatalogTypes'
  <2>1. version' \in [Relation -> Nat \ {0}]
    BY <1>1, <1>3 DEF CatalogTypes
  <2>2. left' \in [{"act", "calls", "change", "failure"} -> Nat]
    BY <1>1, <1>3 DEF CatalogTypes, Spends
  <2>3. there' \subseteq Relation
    BY <1>1, <1>3 DEF CatalogTypes
  <2> QED
    BY <1>2, <1>3, <2>1, <2>2, <2>3 DEF CatalogTypes
<1>5. FloorOK' /\ GoneOK' /\ ColumnsOK'
  <2>1. \A k \in Relation : version[k] \in Nat /\ floor[k] \in Nat /\ version'[k] \in Nat
                            /\ version[k] <= version'[k]
    BY <1>1, <1>3 DEF CatalogTypes
  <2>2. FloorOK'
    BY <1>2, <1>3, <2>1 DEF FloorOK
  <2> QED
    BY <1>1, <1>2, <1>3, <2>2 DEF GoneOK, ColumnsOK, NotOlder
<1>6. Learns /\ absent \subseteq absent'
  BY <1>1, <1>2 DEF Learns
<1>7. /\ \A k : Known(k) => Known(k)'
      /\ \A m : MessageOK(m) => MessageOK(m)'
      /\ \A c : CallOK(c) => CallOK(c)'
  BY <1>6, KnownStays
<1>8. /\ \A m : Fresh(m)' <=> Fresh(m)
      /\ \A i : ForgetsAfter(i)' <=> ForgetsAfter(i)
      /\ \A k, n : NotOlder(k, n)' <=> NotOlder(k, n)
  BY <1>2 DEF Fresh, ForgetsAfter, NotOlder, Brings, OfRelation, Forgetting
<1>9. \A q : ReadingOK(q) => ReadingOK(q)'
  BY <1>7, <1>8 DEF ReadingOK, OfRelation
<1>10. CallsOK' /\ ReadingsOK' /\ AnswersOK' /\ InboxOK'
  BY <1>2, <1>3, <1>7, <1>8, <1>9 DEF CallsOK, ReadingsOK, AnswersOK, InboxOK
<1>11. TabsOK'
  BY <1>2, <1>3, <1>7, <1>8 DEF TabsOK, ShownOK, Open
<1> QED
  BY <1>4, <1>5, <1>10, <1>11 DEF CatalogInv

------------------------------------------------------------------------------
(* Steps of the webview                                                      *)

\* What is true of the message that is handled, and of those after it.
HeadOK(m) == /\ MessageOK(m) /\ (Fresh(m) \/ ForgetsAfter(0)')
             /\ (ForgetsAfter(0) => Forgetting(m) \/ ForgetsAfter(0)')
HandleRest(m) ==
  /\ inbox # <<>> /\ m = Head(inbox) /\ inbox' = Tail(inbox)
  /\ UNCHANGED <<there, version, hostSide, answers, left, floor, straddled, absent>>
  /\ strays' = IF ~member /\ m.op = "open" /\ m.outcome = "ok" THEN strays \cup {m.of} ELSE strays

\* One message is taken, and those after it are one closer.
LEMMA HeadIsOK ==
  ASSUME CatalogInv, NEW m, HandleRest(m)
  PROVE  /\ HeadOK(m) /\ inbox' \in Seq(Messages)
         /\ \A i \in DOMAIN inbox' : /\ i + 1 \in DOMAIN inbox /\ inbox'[i] = inbox[i + 1]
                                     /\ ForgetsAfter(i + 1) => ForgetsAfter(i)'
<1>1. /\ inbox \in Seq(Messages) /\ inbox # <<>> /\ inbox' = Tail(inbox) /\ m = Head(inbox)
      /\ InboxOK
  BY DEF CatalogInv, CatalogTypes, HandleRest
<1>2. /\ inbox' \in Seq(Messages) /\ Len(inbox) \in Nat /\ Len(inbox') = Len(inbox) - 1
      /\ DOMAIN inbox = 1..Len(inbox) /\ DOMAIN inbox' = 1..Len(inbox')
      /\ 1 \in DOMAIN inbox /\ m = inbox[1]
  BY <1>1
<1>3. \A i \in DOMAIN inbox' : i + 1 \in DOMAIN inbox /\ inbox'[i] = inbox[i + 1]
  BY <1>1, <1>2
<1>4. ASSUME NEW i \in Nat, ForgetsAfter(i + 1) PROVE ForgetsAfter(i)'
  <2>1. PICK j \in DOMAIN inbox : j > i + 1 /\ Forgetting(inbox[j])
    BY <1>4 DEF ForgetsAfter
  <2>2. j \in Nat /\ j - 1 \in DOMAIN inbox' /\ j - 1 > i /\ (j - 1) + 1 = j
    BY <1>2, <2>1
  <2>3. inbox'[j - 1] = inbox[j]
    BY <1>3, <2>2
  <2> QED
    BY <2>1, <2>2, <2>3 DEF ForgetsAfter, Forgetting
<1>5. MessageOK(m) /\ (Fresh(m) \/ ForgetsAfter(1))
  BY <1>1, <1>2 DEF InboxOK
<1>6. ForgetsAfter(1) => ForgetsAfter(0)'
  BY <1>4
<1>7. ForgetsAfter(0) => Forgetting(m) \/ ForgetsAfter(1)
  <2> SUFFICES ASSUME NEW j \in DOMAIN inbox, Forgetting(inbox[j]), ~Forgetting(m)
               PROVE  ForgetsAfter(1)
    BY DEF ForgetsAfter
  <2>1. j # 1 /\ j \in 1..Len(inbox)
    BY <1>2
  <2>2. j > 1
    BY <1>2, <2>1
  <2> QED
    BY <2>2 DEF ForgetsAfter
<1>8. \A i \in DOMAIN inbox' : ForgetsAfter(i + 1) => ForgetsAfter(i)'
  BY <1>2, <1>4
<1> QED
  BY <1>2, <1>3, <1>5, <1>6, <1>7, <1>8 DEF HeadOK

\* What a handler makes of the workspace.
ShowsOK == /\ shown' \in [Relation -> Nat] /\ catalog' \subseteq Relation
           /\ tabs' \in [Relation -> {"none", "external", "placeholder"}]
           /\ Open' \subseteq catalog' /\ (\A r \in catalog' : Known(r))
           /\ ~member' => Open' \subseteq strays'
           /\ \A r \in Relation : ShownOK(r)'
           /\ \A c \in calls' : c \in calls \/ CallOK(c)

\* A handler that leaves the workspace in order leaves everything so.
LEMMA Handled ==
  ASSUME CatalogInv, NEW m, HandleRest(m), ShowsOK
  PROVE  CatalogInv'
<1>1. UNCHANGED <<there, version, linked, status, known, columns, reading, serving, answers, left,
                  floor, straddled, absent>>
  BY DEF HandleRest, hostSide
<1>2. /\ CatalogTypes /\ FloorOK /\ GoneOK /\ CallsOK /\ ReadingsOK /\ ColumnsOK
      /\ AnswersOK /\ InboxOK
  BY DEF CatalogInv
<1>3. /\ inbox' \in Seq(Messages)
      /\ \A i \in DOMAIN inbox' : /\ i + 1 \in DOMAIN inbox /\ inbox'[i] = inbox[i + 1]
                                  /\ ForgetsAfter(i + 1) => ForgetsAfter(i)'
  BY HeadIsOK
<1>10. /\ shown' \in [Relation -> Nat] /\ catalog' \subseteq Relation
       /\ tabs' \in [Relation -> {"none", "external", "placeholder"}]
       /\ Open' \subseteq catalog' /\ (\A r \in catalog' : Known(r))
       /\ ~member' => Open' \subseteq strays'
       /\ \A r \in Relation : ShownOK(r)'
       /\ \A c \in calls' : c \in calls \/ CallOK(c)
  BY DEF ShowsOK
<1>4. CatalogTypes'
  BY <1>1, <1>2, <1>3, <1>10 DEF CatalogTypes
<1>5. FloorOK' /\ GoneOK' /\ ColumnsOK'
  BY <1>1, <1>2 DEF FloorOK, GoneOK, ColumnsOK, NotOlder
<1>6. /\ \A k : Known(k)' <=> Known(k)
      /\ \A k : MessageOK(k)' <=> MessageOK(k)
      /\ \A k : Fresh(k)' <=> Fresh(k)
      /\ \A c : CallOK(c)' <=> CallOK(c)
      /\ \A q : ReadingOK(q)' <=> ReadingOK(q)
  BY <1>1 DEF Known, MessageOK, Fresh, CallOK, ReadingOK, NotOlder, Brings, OfRelation
<1>7. CallsOK' /\ ReadingsOK' /\ AnswersOK'
  BY <1>1, <1>2, <1>6, <1>10 DEF CallsOK, ReadingsOK, AnswersOK
<1>8. InboxOK'
  <2> SUFFICES ASSUME NEW i \in DOMAIN inbox', NEW k, k = inbox'[i]
               PROVE  MessageOK(k)' /\ (Fresh(k)' \/ ForgetsAfter(i)')
    BY DEF InboxOK
  <2>1. i + 1 \in DOMAIN inbox /\ k = inbox[i + 1] /\ (ForgetsAfter(i + 1) => ForgetsAfter(i)')
    BY <1>3
  <2> QED
    BY <1>2, <1>6, <2>1 DEF InboxOK
<1>9. TabsOK'
  BY <1>6, <1>10 DEF TabsOK
<1> QED
  BY <1>4, <1>5, <1>7, <1>8, <1>9 DEF CatalogInv

\* A tab that stays as it was is told of no invalidation it has not obeyed.
TabStays(r) == tabs'[r] = "external" =>
  tabs[r] = "external" /\ shown'[r] = shown[r] /\ (r \in emptied => r \in emptied')

\* It goes on showing columns that are as new as before.
LEMMA TabKept ==
  ASSUME CatalogInv, NEW m, HandleRest(m), HeadOK(m), NEW r \in Relation, TabStays(r),
         ~Forgetting(m) \/ r \in strays
  PROVE  ShownOK(r)'
<1>1. ShownOK(r)
  BY DEF CatalogInv, TabsOK
<1>2. UNCHANGED <<floor, straddled>> /\ strays \subseteq strays'
  BY DEF HandleRest
<1>3. ForgetsAfter(0) => Forgetting(m) \/ ForgetsAfter(0)'
  BY DEF HeadOK
<1>4. \A n : NotOlder(r, n) => NotOlder(r, n)'
  BY <1>2 DEF NotOlder
<1> QED
  BY <1>1, <1>2, <1>3, <1>4 DEF ShownOK, TabStays

\* What the invariant says that the handlers use.
LEMMA ShownNow ==
  ASSUME CatalogInv
  PROVE  /\ shown \in [Relation -> Nat] /\ catalog \subseteq Relation
         /\ tabs \in [Relation -> {"none", "external", "placeholder"}]
         /\ Open \subseteq catalog /\ Open \subseteq Relation /\ (\A r \in catalog : Known(r))
         /\ ~member => Open \subseteq strays
BY DEF CatalogInv, CatalogTypes, TabsOK, Open

\* validateExternalTabs asks only for relations of the catalog.
LEMMA ValidatesOK ==
  ASSUME CatalogInv
  PROVE  \A c \in Validates : CallOK(c)
<1>1. \A r \in Open : r \in Relation /\ Known(r)
  BY ShownNow
<1> SUFFICES ASSUME NEW r \in Open PROVE CallOK(Call("validate", r))
  BY DEF Validates
<1>2. "validate" \in Ops /\ r \in Relation \cup {Nothing}
  BY <1>1 DEF Ops
<1> QED
  BY <1>1, <1>2, MessageFields DEF CallOK

\* A call that is of no relation is in order.
LEMMA PlainCall ==
  ASSUME NEW op \in Ops \ {"open", "validate"}
  PROVE  CallOK(Call(op, Nothing))
<1>1. Call(op, Nothing) \in CatalogCalls /\ Call(op, Nothing).op = op
  BY MessageFields
<1> QED
  BY <1>1 DEF CallOK, OfRelation

\* A tab that is not live shows nothing.
LEMMA NoTabsShown ==
  ASSUME NEW r, tabs'[r] # "external"
  PROVE  ShownOK(r)'
BY DEF ShownOK

\* A live tab may have lost its columns.
LEMMA BlankShown ==
  ASSUME NEW r, shown'[r] = 0, tabs'[r] = "external" => r \in emptied'
  PROVE  ShownOK(r)'
BY DEF ShownOK

\* A handler that leaves catalog and tabs alone.
LEMMA TabsAlone ==
  ASSUME CatalogInv, NEW m, HandleRest(m), UNCHANGED <<catalog, shown, tabs, emptied>>,
         ~member' => ~member, ~Forgetting(m) \/ ~member,
         \A c \in calls' : c \in calls \/ CallOK(c)
  PROVE  ShowsOK
<1>1. strays \subseteq strays' /\ HeadOK(m)
  BY HeadIsOK DEF HandleRest
<1>2. Open' = Open
  BY DEF Open
<1>3. ASSUME NEW r \in Relation PROVE ShownOK(r)'
  <2>1. CASE tabs[r] = "external"
    <3>1. r \in Open
      BY <2>1 DEF Open
    <3>2. ~Forgetting(m) \/ r \in strays
      BY <3>1, ShownNow
    <3>3. TabStays(r)
      BY DEF TabStays
    <3> QED
      BY <1>1, <3>2, <3>3, TabKept
  <2>2. CASE tabs[r] # "external"
    BY <2>2, NoTabsShown
  <2> QED
    BY <2>1, <2>2
<1> QED
  BY <1>1, <1>2, <1>3, ShownNow DEF ShowsOK

\* A handler that makes placeholders of all tabs.
LEMMA PlaceholdersShown ==
  ASSUME CatalogInv, NEW m, HandleRest(m), MarkPlaceholders(Relation),
         UNCHANGED <<catalog, shown, member>>,
         \A c \in calls' : c \in calls \/ CallOK(c)
  PROVE  ShowsOK
<1>1. strays \subseteq strays'
  BY DEF HandleRest
<1>2. /\ tabs' \in [Relation -> {"none", "external", "placeholder"}]
      /\ \A r \in Relation : tabs'[r] # "external" /\ (tabs'[r] # "none" => tabs[r] # "none")
  BY ShownNow DEF MarkPlaceholders
<1>3. Open' \subseteq Open
  BY <1>2 DEF Open
<1>4. \A r \in Relation : ShownOK(r)'
  BY <1>2, NoTabsShown
<1> QED
  BY <1>1, <1>2, <1>3, <1>4, ShownNow DEF ShowsOK

\* connection:updated
LEMMA UpdatedShows ==
  ASSUME CatalogInv, NEW m, HandleRest(m), m.op = "updated", OnUpdated(m)
  PROVE  ShowsOK
<1>1. UNCHANGED <<member, schemas, listed, catalog, shown, emptied>>
  BY DEF OnUpdated
<1>2. \A c \in calls' : c \in calls \/ CallOK(c)
  BY ValidatesOK DEF OnUpdated
<1>3. CASE member /\ m.outcome \in {"disconnected", "error"}
  BY <1>1, <1>2, <1>3, PlaceholdersShown DEF OnUpdated
<1>4. CASE ~(member /\ m.outcome \in {"disconnected", "error"})
  <2>1. UNCHANGED tabs /\ (~Forgetting(m) \/ ~member)
    BY <1>4 DEF OnUpdated, Forgetting
  <2> QED
    BY <1>1, <1>2, <2>1, TabsAlone
<1> QED
  BY <1>3, <1>4

\* invalidateCatalog takes the columns of every tab.
LEMMA InvalidatedShows ==
  ASSUME CatalogInv, NEW m, HandleRest(m), InvalidateCatalog,
         \A c \in calls' : c \in calls \/ CallOK(c)
  PROVE  ShowsOK
<1>1. /\ shown' = Zero /\ emptied' = emptied \cup Open /\ UNCHANGED <<member, catalog, tabs>>
      /\ strays \subseteq strays'
  BY DEF InvalidateCatalog, HandleRest
<1>2. Open' = Open
  BY <1>1 DEF Open
<1>3. \A r \in Relation : ShownOK(r)'
  BY <1>1, BlankShown DEF Zero, Open
<1> QED
  BY <1>1, <1>2, <1>3, ShownNow DEF ShowsOK, Zero

\* setExternalRelations
LEMMA ListShows ==
  ASSUME CatalogInv, NEW m, HandleRest(m), m.op = "list", ListAnswered(m)
  PROVE  ShowsOK
<1>1. UNCHANGED <<calls, member>>
  BY DEF ListAnswered
<1>2. CASE m.outcome # "ok"
  <2>1. UNCHANGED <<catalog, shown, tabs, emptied>> /\ ~Forgetting(m)
    BY <1>2 DEF ListAnswered, Forgetting
  <2> QED
    BY <1>1, <2>1, TabsAlone
<1>3. CASE m.outcome = "ok"
  <2>1. /\ catalog' = m.list /\ shown' = Zero /\ emptied' = emptied \cup Open
        /\ tabs' = [r \in Relation |-> IF r \in m.list THEN tabs[r] ELSE "none"]
    BY <1>3 DEF ListAnswered
  <2>2. m \in Messages /\ \A r \in m.list : Known(r)
    BY HeadIsOK DEF HeadOK, MessageOK
  <2>3. m.list \subseteq Relation
    BY <2>2 DEF Messages
  <2>4. /\ tabs' \in [Relation -> {"none", "external", "placeholder"}]
        /\ \A r \in Relation : tabs'[r] # "none" => r \in m.list /\ tabs'[r] = tabs[r]
    BY <2>1, ShownNow
  <2>5. Open' \subseteq m.list /\ Open' \subseteq Open
    BY <2>4 DEF Open
  <2>6. \A r \in Relation : ShownOK(r)'
    BY <2>1, <2>4, BlankShown DEF Zero, Open
  <2>7. strays \subseteq strays'
    BY DEF HandleRest
  <2> QED
    BY <1>1, <2>1, <2>2, <2>3, <2>4, <2>5, <2>6, <2>7, ShownNow DEF ShowsOK, Zero
<1> QED
  BY <1>2, <1>3

\* An answer that brings columns: to the tab it opens, or to one that is open.
LEMMA UpsertShows ==
  ASSUME CatalogInv, NEW m, HandleRest(m), OfRelation(m), m.outcome = "ok", Upsert(m),
         NEW tab \in {"none", "external", "placeholder"}, tabs' = [tabs EXCEPT ![m.of] = tab],
         m.op = "open" \/ tab = "none" \/ tabs[m.of] # "none", UNCHANGED <<calls, member>>
  PROVE  ShowsOK
<1>1. /\ catalog' = catalog \cup {m.of} /\ shown' = [shown EXCEPT ![m.of] = m.columns]
      /\ emptied' = emptied \ {m.of}
  BY DEF Upsert
<1>2. HeadOK(m) /\ m \in Messages /\ m.of \in Relation /\ Known(m.of) /\ m.columns \in Nat \ {0}
  BY HeadIsOK DEF HeadOK, MessageOK, Brings, Messages
<1>3. NotOlder(m.of, m.columns)' \/ ForgetsAfter(0)'
  <2>1. NotOlder(m.of, m.columns) \/ ForgetsAfter(0)'
    BY <1>2 DEF HeadOK, Fresh, Brings
  <2> QED
    BY <2>1 DEF NotOlder, HandleRest
<1>4. /\ tabs' \in [Relation -> {"none", "external", "placeholder"}]
      /\ shown' \in [Relation -> Nat] /\ catalog' \subseteq Relation
      /\ shown'[m.of] = m.columns
      /\ \A r \in Relation \ {m.of} : tabs'[r] = tabs[r] /\ shown'[r] = shown[r]
  BY <1>1, <1>2, ShownNow
<1>5. Open' \subseteq Open \cup {m.of}
  BY <1>4 DEF Open
<1>6. ~member' => Open' \subseteq strays'
  <2>1. strays \subseteq strays' /\ (~member /\ m.op = "open" => m.of \in strays')
    BY DEF HandleRest
  <2>2. CASE m.op = "open"
    BY <1>5, <2>1, <2>2, ShownNow
  <2>3. CASE tab = "none" \/ tabs[m.of] # "none"
    <3>1. m.of \in Open' => m.of \in Open
      BY <1>2, <2>3, ShownNow DEF Open
    <3> QED
      BY <1>5, <2>1, <3>1, ShownNow
  <2> QED
    BY <2>2, <2>3
<1>7. ASSUME NEW r \in Relation PROVE ShownOK(r)'
  <2>1. CASE r = m.of
    BY <1>2, <1>3, <1>4, <2>1 DEF ShownOK
  <2>2. CASE r # m.of
    <3>1. TabStays(r)
      BY <1>1, <1>4, <2>2 DEF TabStays
    <3>2. ~Forgetting(m)
      BY DEF Forgetting, OfRelation
    <3> QED
      BY <1>2, <3>1, <3>2, TabKept
  <2> QED
    BY <2>1, <2>2
<1> QED
  BY <1>1, <1>2, <1>4, <1>5, <1>6, <1>7, ShownNow DEF ShowsOK

\* openExternalRelation
LEMMA OpenShows ==
  ASSUME CatalogInv, NEW m, HandleRest(m), m.op = "open", OpenAnswered(m)
  PROVE  ShowsOK
<1>1. UNCHANGED <<calls, member>> /\ ~Forgetting(m) /\ OfRelation(m)
  BY DEF OpenAnswered, Forgetting, OfRelation
<1>2. CASE m.outcome = "ok"
  <2>1. Upsert(m) /\ tabs' = [tabs EXCEPT ![m.of] = "external"]
    BY <1>2 DEF OpenAnswered
  <2> QED
    BY <1>1, <1>2, <2>1, UpsertShows
<1>3. CASE m.outcome # "ok"
  <2>1. UNCHANGED <<catalog, shown, tabs, emptied>>
    BY <1>3 DEF OpenAnswered
  <2> QED
    BY <1>1, <2>1, TabsAlone
<1> QED
  BY <1>2, <1>3

\* validateExternalTabs
LEMMA ValidateShows ==
  ASSUME CatalogInv, NEW m, HandleRest(m), m.op = "validate", ValidateAnswered(m)
  PROVE  ShowsOK
<1>1. UNCHANGED <<calls, member>> /\ ~Forgetting(m) /\ OfRelation(m)
  BY DEF ValidateAnswered, Forgetting, OfRelation
<1>2. HeadOK(m) /\ m.of \in Relation
  BY <1>1, HeadIsOK DEF HeadOK, MessageOK
<1>3. CASE m.outcome = "ok"
  <2>1. PICK tab : tab = IF tabs[m.of] = "none" THEN tabs[m.of] ELSE "external"
    OBVIOUS
  <2>2. Upsert(m) /\ tabs' = [tabs EXCEPT ![m.of] = tab]
    BY <1>2, <1>3, <2>1, ShownNow DEF ValidateAnswered
  <2> QED
    BY <1>1, <1>3, <2>1, <2>2, UpsertShows
<1>4. CASE m.outcome # "ok"
  <2>1. /\ UNCHANGED <<catalog, shown, emptied>>
        /\ tabs' \in [Relation -> {"none", "external", "placeholder"}]
        /\ \A r \in Relation : tabs'[r] = tabs[r] \/ (tabs'[r] # "external" /\ r = m.of)
        /\ \A r \in Relation : tabs'[r] # "none" => tabs[r] # "none"
    <3>1. CASE m.outcome \in {"missing", "detached"}
      BY <1>2, <1>4, <3>1, ShownNow DEF ValidateAnswered
    <3>2. CASE m.outcome \notin {"missing", "detached"}
      <4>1. MarkPlaceholders({m.of}) /\ UNCHANGED <<catalog, shown, emptied>>
        BY <1>4, <3>2 DEF ValidateAnswered
      <4> QED
        BY <1>2, <4>1, ShownNow DEF MarkPlaceholders
    <3> QED
      BY <3>1, <3>2
  <2>2. Open' \subseteq Open /\ strays \subseteq strays'
    BY <2>1 DEF Open, HandleRest
  <2>3. ASSUME NEW r \in Relation PROVE ShownOK(r)'
    <3>1. CASE tabs'[r] = "external"
      <4>1. TabStays(r)
        BY <2>1, <3>1 DEF TabStays
      <4> QED
        BY <1>1, <1>2, <4>1, TabKept
    <3>2. CASE tabs'[r] # "external"
      BY <3>2, NoTabsShown
    <3> QED
      BY <3>1, <3>2
  <2> QED
    BY <1>1, <2>1, <2>2, <2>3, ShownNow DEF ShowsOK
<1> QED
  BY <1>3, <1>4

\* detachConnection and removeConnectionEverywhere
LEMMA RemoveShows ==
  ASSUME CatalogInv, NEW m, HandleRest(m), m.op \in {"detach", "delete"}, RemoveConnection(m)
  PROVE  ShowsOK
<1>1. UNCHANGED <<calls, emptied>> /\ ~Forgetting(m)
  BY DEF RemoveConnection, Forgetting, workspace
<1>2. CASE m.outcome # "ok"
  <2>1. UNCHANGED <<catalog, shown, tabs, member>>
    BY <1>2 DEF RemoveConnection, workspace
  <2> QED
    BY <1>1, <2>1, TabsAlone
<1>3. CASE m.outcome = "ok"
  <2>1. catalog' = {} /\ shown' = Zero /\ tabs' = [r \in Relation |-> "none"]
    BY <1>3 DEF RemoveConnection
  <2>2. Open' = {} /\ \A r \in Relation : tabs'[r] # "external"
    BY <2>1 DEF Open
  <2>3. \A r \in Relation : ShownOK(r)'
    BY <2>2, NoTabsShown
  <2> QED
    BY <1>1, <2>1, <2>2, <2>3 DEF ShowsOK, Zero
<1> QED
  BY <1>2, <1>3

\* The handlers of the webview.
Handler(m) ==
  \/ m.op = "updated" /\ OnUpdated(m)
  \/ m.op = "invalidated" /\ OnInvalidated(m)
  \/ m.op = "connect" /\ ConnectAnswered(m)
  \/ m.op \in {"schemas", "schemas first"} /\ SchemasAnswered(m)
  \/ m.op = "disconnect" /\ DisconnectAnswered(m)
  \/ m.op = "reconnect" /\ ReconnectAnswered(m)
  \/ m.op = "refresh" /\ RefreshAnswered(m)
  \/ m.op = "list" /\ ListAnswered(m)
  \/ m.op = "open" /\ OpenAnswered(m)
  \/ m.op = "validate" /\ ValidateAnswered(m)
  \/ m.op = "attach" /\ AttachAnswered(m)
  \/ m.op \in {"detach", "delete"} /\ RemoveConnection(m)

\* All of them together.
LEMMA HandleKeeps ==
  ASSUME CatalogInv, Handle
  PROVE  CatalogInv'
<1>1. PICK m : m = Head(inbox) /\ Handler(m)
  BY Zenon DEF Handle, Handler
<1>2. HandleRest(m)
  BY <1>1 DEF Handle, HandleRest
<1>3. Handler(m)
  BY <1>1
<1> SUFFICES ShowsOK
  BY <1>2, Handled
<1>4. /\ CallOK(Call("schemas first", Nothing)) /\ CallOK(Call("connect", Nothing))
      /\ CallOK(Call("schemas", Nothing))
  BY PlainCall DEF Ops
<1>5. CASE m.op = "updated" /\ OnUpdated(m)
  BY <1>2, <1>5, UpdatedShows
<1>6. CASE m.op = "invalidated" /\ OnInvalidated(m)
  BY <1>2, <1>6, InvalidatedShows DEF OnInvalidated
<1>7. CASE m.op = "connect" /\ ConnectAnswered(m)
  <2>1. /\ UNCHANGED <<member, catalog, shown, tabs, emptied>> /\ ~Forgetting(m)
        /\ \A c \in calls' : c \in calls \/ CallOK(c)
    BY <1>4, <1>7 DEF ConnectAnswered, Forgetting
  <2> QED
    BY <1>2, <2>1, TabsAlone
<1>8. CASE m.op \in {"schemas", "schemas first"} /\ SchemasAnswered(m)
  <2>1. /\ UNCHANGED <<member, catalog, shown, tabs, emptied>> /\ ~Forgetting(m)
        /\ \A c \in calls' : c \in calls \/ CallOK(c)
    BY <1>8, ValidatesOK DEF SchemasAnswered, Forgetting
  <2> QED
    BY <1>2, <2>1, TabsAlone
<1>9. CASE m.op = "disconnect" /\ DisconnectAnswered(m)
  <2>1. UNCHANGED <<calls, member, catalog, shown, emptied>> /\ ~Forgetting(m)
    BY <1>9 DEF DisconnectAnswered, Forgetting
  <2>2. MarkPlaceholders(Relation) \/ UNCHANGED tabs
    BY <1>9 DEF DisconnectAnswered
  <2> QED
    BY <1>2, <2>1, <2>2, TabsAlone, PlaceholdersShown
<1>10. CASE m.op = "reconnect" /\ ReconnectAnswered(m)
  <2>1. /\ UNCHANGED <<member, catalog, shown, tabs, emptied>> /\ ~Forgetting(m)
        /\ \A c \in calls' : c \in calls \/ CallOK(c)
    BY <1>4, <1>10 DEF ReconnectAnswered, Forgetting, workspace
  <2> QED
    BY <1>2, <2>1, TabsAlone
<1>11. CASE m.op = "refresh" /\ RefreshAnswered(m)
  <2>1. CASE m.outcome = "ok"
    <3>1. InvalidateCatalog /\ \A c \in calls' : c \in calls \/ CallOK(c)
      BY <1>4, <1>11, <2>1 DEF RefreshAnswered
    <3> QED
      BY <1>2, <3>1, InvalidatedShows
  <2>2. CASE m.outcome # "ok"
    <3>1. UNCHANGED <<calls, member, catalog, shown, tabs, emptied>> /\ ~Forgetting(m)
      BY <1>11, <2>2 DEF RefreshAnswered, Forgetting, workspace
    <3> QED
      BY <1>2, <3>1, TabsAlone
  <2> QED
    BY <2>1, <2>2
<1>12. CASE m.op = "list" /\ ListAnswered(m)
  BY <1>2, <1>12, ListShows
<1>13. CASE m.op = "open" /\ OpenAnswered(m)
  BY <1>2, <1>13, OpenShows
<1>14. CASE m.op = "validate" /\ ValidateAnswered(m)
  BY <1>2, <1>14, ValidateShows
<1>15. CASE m.op = "attach" /\ AttachAnswered(m)
  <2>1. /\ UNCHANGED <<calls, catalog, shown, tabs, emptied>>
        /\ ~Forgetting(m) /\ (~member' => ~member)
    BY <1>15 DEF AttachAnswered, Forgetting
  <2> QED
    BY <1>2, <2>1, TabsAlone
<1>16. CASE m.op \in {"detach", "delete"} /\ RemoveConnection(m)
  BY <1>2, <1>16, RemoveShows
<1> QED
  BY <1>3, <1>5, <1>6, <1>7, <1>8, <1>9, <1>10, <1>11, <1>12, <1>13, <1>14,
     <1>15, <1>16 DEF Handler

\* Whatever happens to the catalog.
LEMMA CatalogStep ==
  ASSUME CatalogInv, CatalogNext
  PROVE  CatalogInv'
BY ActsKeeps, ClosesKeeps, ChangesKeeps, HostSteps, HandleKeeps DEF CatalogNext

------------------------------------------------------------------------------
\* A session restored with or without tabs.
LEMMA CatalogInitially ==
  ASSUME NEW isLinked \in BOOLEAN, NEW isUp \in BOOLEAN, NEW isAuto \in BOOLEAN,
         NEW found \in SUBSET Relation, NEW budget \in CatalogBudgets,
         isUp \/ isAuto \/ found # {} => isLinked,
         CatalogInit(isLinked, found, isUp, isAuto, budget)
  PROVE  CatalogInv
<1>0. inbox = <<>> /\ version = [r \in Relation |-> 1]
  BY DEF CatalogInit
<1>1. /\ there = Relation /\ version = [r \in Relation |-> 1]
      /\ linked = isLinked /\ status \in {"connected", "disconnected"}
      /\ known = found /\ columns = RestoredColumns(found, isUp) /\ reading = {} /\ serving = {}
      /\ \A c \in calls : c = Call("auto connect", Nothing)
      /\ answers = {} /\ inbox = <<>> /\ member = isLinked /\ catalog = found /\ shown = columns
      /\ tabs = [r \in Relation |-> IF r \notin found THEN "none"
                               ELSE IF isUp THEN "external" ELSE "placeholder"]
      /\ left = budget
      /\ floor = Zero /\ straddled = {} /\ strays = {} /\ emptied = {} /\ absent = {}
  BY DEF CatalogInit
<1>2. /\ columns \in [Relation -> Nat] /\ floor \in [Relation -> Nat]
      /\ \A r \in Relation : floor[r] = 0 /\ version[r] = 1
      /\ tabs \in [Relation -> {"none", "external", "placeholder"}]
      /\ \A r \in Relation : tabs[r] = "external" => shown[r] = 1
      /\ Open = found
  BY <1>1 DEF RestoredColumns, Zero, Open
<1>3. CatalogTypes
  <2>1. left \in [{"act", "calls", "change", "failure"} -> Nat]
    BY <1>1, CatalogAssumption
  <2>2. version \in [Relation -> Nat \ {0}]
    BY <1>0
  <2>3. inbox \in Seq(Messages)
    BY <1>0
  <2> QED
    BY <1>1, <1>2, <2>1, <2>2, <2>3 DEF CatalogTypes
<1>4. FloorOK /\ GoneOK /\ ReadingsOK /\ AnswersOK /\ InboxOK
  <2>1. DOMAIN inbox = {}
    BY <1>0
  <2>2. \A r \in Relation : floor[r] <= version[r]
    BY <1>2
  <2>3. FloorOK /\ GoneOK
    BY <1>1, <2>2 DEF FloorOK, GoneOK
  <2> QED
    BY <1>1, <2>1, <2>3 DEF ReadingsOK, AnswersOK, InboxOK
<1>5. CallsOK
  BY <1>1, PlainCall DEF CallsOK, Ops
<1>6. \A r \in Relation : \A n \in Nat : NotOlder(r, n)
  BY <1>2 DEF NotOlder
<1>7. ColumnsOK
  BY <1>2, <1>6 DEF ColumnsOK
<1>8. TabsOK
  <2>1. \A r \in Relation : ShownOK(r)
    BY <1>2, <1>6 DEF ShownOK
  <2> QED
    BY <1>1, <1>2, <2>1 DEF TabsOK, Known
<1> QED
  BY <1>3, <1>4, <1>5, <1>7, <1>8 DEF CatalogInv

\* With nothing on its way, no tab waits to be told of an invalidation.
LEMMA FreshNow == CatalogInv => LiveIsFresh
<1> SUFFICES ASSUME CatalogInv, NEW r \in Relation \ straddled
             PROVE  /\ columns[r] # 0 => columns[r] >= floor[r]
                    /\ Quiet /\ Live(r) /\ r \notin strays /\ shown[r] # 0 => shown[r] >= floor[r]
  BY DEF LiveIsFresh
<1>1. columns[r] = 0 \/ columns[r] >= floor[r]
  BY DEF CatalogInv, ColumnsOK, NotOlder
<1>2. ASSUME Quiet, Live(r), r \notin strays, shown[r] # 0
      PROVE  shown[r] >= floor[r]
  <2>1. ~ForgetsAfter(0)
    BY <1>2 DEF Quiet, ForgetsAfter
  <2>2. ShownOK(r) /\ tabs[r] = "external"
    BY <1>2 DEF CatalogInv, TabsOK, Live
  <2> QED
    BY <1>2, <2>1, <2>2 DEF ShownOK, NotOlder
<1> QED
  BY <1>1, <1>2

\* What closes a tab.
LEMMA ClosedBecause ==
  ASSUME CatalogInv, CatalogNext, NEW r \in Open, tabs'[r] = "none", left' = left
  PROVE  r \in absent \/ status = "gone" \/ ~member' \/ ToldDetached
<1>1. /\ r \in Relation /\ tabs[r] # "none"
      /\ left \in [{"act", "calls", "change", "failure"} -> Nat]
      /\ tabs \in [Relation -> {"none", "external", "placeholder"}]
  BY DEF Open, CatalogInv, CatalogTypes
<1>2. tabs' # tabs
  BY <1>1
<1>3. ~Acts /\ ~Host
  BY <1>2 DEF Acts, Host, workspace
<1>4. ASSUME NEW k \in Relation, CloseTab(k) \/ Changes(k) PROVE FALSE
  <2>1. ~Changes(k)
    BY <1>2 DEF Changes, workspace
  <2>2. left["act"] \in Nat /\ left' = [left EXCEPT !["act"] = @ - 1] /\ left["act"] > 0
    BY <1>1, <1>4, <2>1 DEF CloseTab, Spends
  <2>3. left'["act"] = left["act"] - 1
    BY <1>1, <2>2
  <2> QED
    BY <2>2, <2>3
<1>5. Handle
  BY <1>3, <1>4 DEF CatalogNext
<1>6. PICK m : m = Head(inbox) /\ Handler(m)
  BY <1>5, Zenon DEF Handle, Handler
<1>7. HandleRest(m)
  BY <1>5, <1>6 DEF Handle, HandleRest
<1>8. MessageOK(m)
  BY <1>7, HeadIsOK DEF HeadOK
<1>9. CASE m.op = "list" /\ ListAnswered(m)
  <2>1. m.outcome = "ok" /\ r \notin m.list
    BY <1>1, <1>2, <1>9 DEF ListAnswered
  <2> QED
    BY <1>1, <1>8, <1>9, <2>1 DEF MessageOK
<1>10. CASE m.op = "validate" /\ ValidateAnswered(m)
  <2>1. m.of \in Relation
    BY <1>8, <1>10 DEF MessageOK, OfRelation
  <2>2. CASE m.outcome = "ok"
    <3>1. tabs' = [tabs EXCEPT ![m.of] = IF @ = "none" THEN @ ELSE "external"]
      BY <1>10, <2>2 DEF ValidateAnswered
    <3> QED
      BY <1>1, <2>1, <3>1
  <2>3. CASE m.outcome = "detached"
    BY <1>6, <1>7, <2>3 DEF ToldDetached, HandleRest
  <2>4. CASE m.outcome = "missing"
    <3>1. tabs' = [tabs EXCEPT ![m.of] = "none"]
      BY <1>10, <2>4 DEF ValidateAnswered
    <3>2. r = m.of
      BY <1>1, <2>1, <3>1
    <3> QED
      BY <1>8, <2>4, <3>2 DEF MessageOK
  <2>5. CASE m.outcome \notin {"ok", "missing", "detached"}
    <3>1. MarkPlaceholders({m.of})
      BY <1>10, <2>5 DEF ValidateAnswered
    <3> QED
      BY <1>1, <3>1 DEF MarkPlaceholders
  <2> QED
    BY <2>2, <2>3, <2>4, <2>5
<1>11. CASE m.op = "open" /\ OpenAnswered(m)
  <2>1. tabs' = [tabs EXCEPT ![m.of] = "external"]
    BY <1>2, <1>11 DEF OpenAnswered
  <2> QED
    BY <1>1, <2>1
<1>12. CASE m.op \in {"detach", "delete"} /\ RemoveConnection(m)
  BY <1>2, <1>12 DEF RemoveConnection, workspace
<1>13. CASE (m.op = "updated" /\ OnUpdated(m)) \/ (m.op = "disconnect" /\ DisconnectAnswered(m))
  <2>1. MarkPlaceholders(Relation)
    BY <1>2, <1>13 DEF OnUpdated, DisconnectAnswered
  <2> QED
    BY <1>1, <2>1 DEF MarkPlaceholders
<1> QED
  BY <1>2, <1>6, <1>9, <1>10, <1>11, <1>12, <1>13
     DEF Handler, OnInvalidated, InvalidateCatalog, ConnectAnswered, SchemasAnswered,
         ReconnectAnswered, RefreshAnswered, AttachAnswered, workspace

\* The catalog rests while the grid is used.
LEMMA CatalogRests ==
  ASSUME CatalogInv, UNCHANGED catalogVars
  PROVE  CatalogInv'
<1>1. UNCHANGED <<there, version, linked, status, known, columns, reading, serving, calls, answers,
                  inbox, member, catalog, shown, tabs, left, floor, straddled, strays, emptied,
                  absent>>
  BY DEF catalogVars, hostSide, wire, workspace, ghosts
<1>2. /\ CatalogTypes /\ FloorOK /\ GoneOK /\ CallsOK /\ ReadingsOK /\ ColumnsOK
      /\ AnswersOK /\ InboxOK /\ TabsOK
  BY DEF CatalogInv
<1>3. CatalogTypes' /\ FloorOK' /\ GoneOK' /\ ColumnsOK'
  BY <1>1, <1>2 DEF CatalogTypes, FloorOK, GoneOK, ColumnsOK, NotOlder
<1>4. /\ \A k : Known(k)' <=> Known(k)
      /\ \A m : MessageOK(m)' <=> MessageOK(m)
      /\ \A m : Fresh(m)' <=> Fresh(m)
      /\ \A i : ForgetsAfter(i)' <=> ForgetsAfter(i)
      /\ \A c : CallOK(c)' <=> CallOK(c)
      /\ \A q : ReadingOK(q)' <=> ReadingOK(q)
      /\ \A k, n : NotOlder(k, n)' <=> NotOlder(k, n)
  BY <1>1 DEF Known, MessageOK, Fresh, ForgetsAfter, CallOK, ReadingOK, NotOlder, Brings, OfRelation,
              Forgetting
<1>5. CallsOK' /\ ReadingsOK' /\ AnswersOK' /\ InboxOK'
  BY <1>1, <1>2, <1>4 DEF CallsOK, ReadingsOK, AnswersOK, InboxOK
<1>6. TabsOK'
  BY <1>1, <1>2, <1>4 DEF TabsOK, ShownOK, Open
<1> QED
  BY <1>3, <1>5, <1>6 DEF CatalogInv

\* Whatever happens to the catalog or the grid.
LEMMA CatalogHolds == CatalogInv /\ [Next]_vars => CatalogInv'
BY CatalogStep, CatalogRests DEF Next, CatalogSteps, GridSteps, vars

(* Every state of the catalog, of its copy in the webview and of the calls,  *)
(* answers and events between them satisfies the invariant.                  *)
THEOREM CatalogInductive == Spec => []CatalogInv
<1>1. Init => CatalogInv
  BY CatalogInitially DEF Init
<1> QED
  BY <1>1, CatalogHolds, PTL DEF Spec

(* Whatever is listed, opened, refreshed, disconnected, attached or deleted, *)
(* in whatever order it is served and answered: columns that the host has,   *)
(* and those of a live tab once all is quiet, are not older than the last    *)
(* invalidation, but for what straddled it and for tabs opened when the      *)
(* connection was out of the project.  (GetExternalRelation, RefreshCatalog, *)
(* invalidateLocked, upsertExternalRelation)                                 *)
THEOREM LiveFresh == Spec => []LiveIsFresh
BY CatalogInductive, FreshNow, PTL

(* No tab closes by itself because the database was not reached or read: its *)
(* relation has been absent, or its connection was deleted or taken away.    *)
(* (validateExternalTabs, setExternalRelations)                              *)
THEOREM TabsStayed == Spec => TabsStay
<1>1. ASSUME CatalogInv, [Next]_vars
      PROVE  [\A r \in Open : tabs'[r] = "none" /\ left' = left =>
                r \in absent \/ status = "gone" \/ ~member' \/ ToldDetached]_catalogVars
  <2>1. CatalogNext \/ UNCHANGED catalogVars
    BY <1>1 DEF Next, CatalogSteps, GridSteps, vars
  <2> QED
    BY <1>1, <2>1, ClosedBecause
<1> QED
  BY <1>1, CatalogInductive, PTL DEF Spec, TabsStay

------------------------------------------------------------------------------
(* What a live tab shows                                                     *)

(* The grid has what the catalog gives it, and a datasource while it is      *)
(* mounted and ready.  A block that waits is being read; and unless the grid *)
(* says that loading failed, there is a block of which it did not.           *)
GivenOK == external \in BOOLEAN /\ (external => given = GridSource)
MountedOK == datasource.on <=> (Ready(given) /\ GridMounted(given, view.visible))
AskedOK == \A b \in Block : blocks[b].state = "asked" =>
  \E q \in requests : q.for = "block" /\ q.key.block = b
FailedOK == datasource.on /\ ~loadError =>
  \E b \in OnScreen[external] : blocks[b].state # "failed"
ShowsInv == GivenOK /\ MountedOK /\ AskedOK /\ FailedOK

\* A datasource is on if the grid it is made for is mounted and ready.
LEMMA OnNew ==
  ASSUME NEW g, NEW visible
  PROVE  NewDatasource(g, visible).on <=> (Ready(g) /\ GridMounted(g, visible))
BY DEF NewDatasource

\* Some block is on the screen.
LEMMA ScreenFull ==
  ASSUME external \in BOOLEAN
  PROVE  OnScreen[external] # {} /\ OnScreen[external] \subseteq Block
<1>1. OnScreen[external] \in (SUBSET Block) \ {{}}
  BY GridAssumption, Zenon
<1> QED
  BY <1>1

\* All blocks are to be asked for again.
LEMMA AllAbsent ==
  ASSUME external \in BOOLEAN, UNCHANGED external, blocks' = [b \in Block |-> Absent]
  PROVE  AskedOK' /\ FailedOK'
<1>1. \A b \in Block : blocks'[b].state = "absent"
  BY Filters
<1> QED
  BY <1>1, ScreenFull DEF AskedOK, FailedOK

\* A grid that is told nothing has what the catalog has.
LEMMA SourceSame ==
  ASSUME ShowsInv, UNCHANGED <<external, given>>, UNCHANGED catalogVars \/ ~external
  PROVE  GivenOK'
BY DEF ShowsInv, GivenOK, GridSource, catalogVars, workspace

\* Blocks that stay are still being read.
LEMMA RowsSame ==
  ASSUME ShowsInv, UNCHANGED <<external, datasource, blocks, loadError>>,
         \A q \in requests : q.for = "block" =>
           \E p \in requests' : p.for = "block" /\ p.key.block = q.key.block
  PROVE  AskedOK' /\ FailedOK'
BY DEF ShowsInv, AskedOK, FailedOK

\* getRows: the block is shown or asked for.
LEMMA GetRowsShows ==
  ASSUME IInv, ShowsInv, NEW b \in Block, GetRows(b)
  PROVE  AskedOK' /\ FailedOK'
<1>1. /\ b \in OnScreen[external] /\ UNCHANGED <<external, datasource>>
      /\ blocks \in [Block -> Blocks]
  BY DEF GetRows, props, IInv, BlocksOK
<1>2. CASE UNCHANGED requests /\ \E n : blocks' = [blocks EXCEPT ![b] = Shown(view, n)]
  <2>1. PICK n : blocks' = [blocks EXCEPT ![b] = Shown(view, n)]
    BY <1>2
  <2>2. blocks'[b].state = "shown" /\ \A c \in Block : c # b => blocks'[c] = blocks[c]
    BY <1>1, <2>1 DEF Shown
  <2> QED
    BY <1>1, <1>2, <2>2 DEF ShowsInv, AskedOK, FailedOK
<1>3. CASE /\ blocks' = [blocks EXCEPT ![b].state = "asked"]
           /\ requests' = requests \cup {[id |-> Unused, for |-> "block",
                key |-> CacheKey(datasource.version, b, view), state |-> "sent", rows |-> 0]}
  <2>1. PICK q : q = [id |-> Unused, for |-> "block",
                      key |-> CacheKey(datasource.version, b, view), state |-> "sent", rows |-> 0]
    OBVIOUS
  <2>2. q.for = "block" /\ q.key.block = b /\ q \in requests'
    BY <1>3, <2>1 DEF CacheKey
  <2>3. blocks'[b].state = "asked" /\ \A c \in Block : c # b => blocks'[c] = blocks[c]
    BY <1>1, <1>3 DEF Blocks
  <2>4. AskedOK'
    BY <1>3, <2>2, <2>3 DEF ShowsInv, AskedOK
  <2> QED
    BY <1>1, <2>3, <2>4 DEF FailedOK
<1> QED
  BY <1>2, <1>3 DEF GetRows

\* A block that failed says so.
LEMMA DeliverShows ==
  ASSUME IInv, ShowsInv, NEW q \in requests, Deliver(q)
  PROVE  AskedOK' /\ FailedOK'
<1>1. /\ UNCHANGED <<external, datasource>> /\ requests' = requests \ {q}
      /\ blocks \in [Block -> Blocks]
  BY DEF Deliver, props, IInv, BlocksOK
<1>2. CASE q.for # "block"
  <2>1. UNCHANGED blocks /\ (loadError' = TRUE \/ UNCHANGED loadError)
    BY <1>2 DEF Deliver, Accepts
  <2> QED
    BY <1>1, <1>2, <2>1 DEF ShowsInv, AskedOK, FailedOK
<1>3. CASE q.for = "block"
  <2>1. PICK b : b = q.key.block
    OBVIOUS
  <2>2. b \in Block
    BY <2>1 DEF IInv, RequestsOK, Read, Keys
  <2>3. PICK x : /\ blocks' = [blocks EXCEPT ![b] = x]
                 /\ \/ x.state = "shown" /\ UNCHANGED loadError
                    \/ x.state = "failed" /\ loadError' = TRUE
    <3>1. Shown(q.key.view, q.rows).state = "shown"
          /\ [Absent EXCEPT !.state = "failed"].state = "failed"
      BY DEF Shown, Absent
    <3> QED
      BY <1>3, <2>1, <3>1 DEF Deliver, Accepts
  <2>4. blocks'[b] = x /\ \A c \in Block : c # b => blocks'[c] = blocks[c]
    BY <1>1, <2>2, <2>3
  <2>5. AskedOK'
    BY <1>1, <2>1, <2>3, <2>4 DEF ShowsInv, AskedOK
  <2>6. FailedOK'
    <3>1. CASE loadError' = TRUE
      BY <3>1 DEF FailedOK
    <3>2. CASE x.state = "shown" /\ UNCHANGED loadError
      <4>1. \A c \in Block : blocks'[c].state = "failed" => blocks[c].state = "failed"
        BY <2>4, <3>2
      <4>2. OnScreen[external] \subseteq Block
        BY ScreenFull DEF ShowsInv, GivenOK
      <4> QED
        BY <1>1, <3>2, <4>1, <4>2 DEF ShowsInv, FailedOK
    <3> QED
      BY <2>3, <3>1, <3>2
  <2> QED
    BY <2>5, <2>6
<1> QED
  BY <1>2, <1>3

\* A block that is scrolled away is asked for again.
LEMMA ScrollShows ==
  ASSUME IInv, ShowsInv, NEW b \in Block, Scroll(b)
  PROVE  AskedOK' /\ FailedOK'
<1>1. /\ UNCHANGED <<external, datasource, requests, loadError>> /\ blocks \in [Block -> Blocks]
      /\ blocks' = [blocks EXCEPT ![b] = Absent]
  BY DEF Scroll, props, IInv, BlocksOK
<1>2. blocks'[b].state = "absent" /\ \A c \in Block : c # b => blocks'[c] = blocks[c]
  BY <1>1, Filters
<1>3. AskedOK'
  BY <1>1, <1>2 DEF ShowsInv, AskedOK
<1>4. FailedOK'
  <2>1. \A c \in Block : blocks'[c].state = "failed" => blocks[c].state = "failed"
    BY <1>2
  <2>2. OnScreen[external] \subseteq Block
    BY ScreenFull DEF ShowsInv, GivenOK
  <2> QED
    BY <1>1, <2>1, <2>2 DEF ShowsInv, FailedOK
<1> QED
  BY <1>3, <1>4

\* setVisibility purges the grid, takes it away or mounts it anew.
LEMMA VisibilityShows ==
  ASSUME IInv, ShowsInv, NEW v \in Views, SetVisibility(v)
  PROVE  MountedOK' /\ AskedOK' /\ FailedOK'
<1>1. UNCHANGED <<external, given, loadError>> /\ external \in BOOLEAN
  BY DEF SetVisibility, props, ShowsInv, GivenOK
<1>2. CASE /\ Purges /\ view' = v
           /\ GridMounted(given, view.visible) /\ v.visible # {}
  <2>1. AskedOK' /\ FailedOK'
    BY <1>1, <1>2, AllAbsent DEF Purges
  <2>2. MountedOK'
    BY <1>1, <1>2 DEF Purges, ShowsInv, MountedOK, GridMounted
  <2> QED
    BY <2>1, <2>2
<1>3. CASE Replaces(NewDatasource(given, {})) /\ view' = v /\ v.visible = {}
  <2>1. AskedOK' /\ FailedOK'
    BY <1>1, <1>3, AllAbsent DEF Replaces
  <2>2. datasource'.on <=> (Ready(given) /\ GridMounted(given, {}))
    BY <1>3, OnNew DEF Replaces
  <2>3. MountedOK'
    BY <1>1, <1>3, <2>2 DEF MountedOK, Ready, GridMounted
  <2> QED
    BY <2>1, <2>3
<1>4. CASE MountsAgain(v)
  <2>1. AskedOK' /\ FailedOK'
    BY <1>1, <1>4, AllAbsent DEF Replaces, MountsAgain
  <2>2. view'.visible = v.visible
    BY <1>4 DEF MountsAgain, Views
  <2>3. datasource'.on <=> (Ready(given) /\ GridMounted(given, v.visible))
    BY <1>4, OnNew DEF Replaces, MountsAgain
  <2>4. MountedOK'
    BY <1>1, <2>2, <2>3 DEF MountedOK, Ready, GridMounted
  <2> QED
    BY <2>1, <2>4
<1>5. CASE /\ ~GridMounted(given, view.visible) /\ ~GridMounted(given, v.visible)
           /\ view' = v /\ UNCHANGED <<model, datasource, blocks, requests>>
  <2>1. AskedOK' /\ FailedOK'
    BY <1>1, <1>5, RowsSame
  <2>2. MountedOK'
    BY <1>1, <1>5 DEF ShowsInv, MountedOK, GridMounted
  <2> QED
    BY <2>1, <2>2
<1>6. \/ /\ Purges /\ view' = v
         /\ GridMounted(given, view.visible) /\ v.visible # {}
      \/ Replaces(NewDatasource(given, {})) /\ view' = v /\ v.visible = {}
      \/ MountsAgain(v)
      \/ /\ ~GridMounted(given, view.visible) /\ ~GridMounted(given, v.visible)
         /\ view' = v /\ UNCHANGED <<model, datasource, blocks, requests>>
  BY DEF SetVisibility
<1> QED
  BY <1>2, <1>3, <1>4, <1>5, <1>6

\* A new source mounts the grid anew, or leaves it as it is.
LEMMA ReceivesShows ==
  ASSUME IInv, ShowsInv, NEW g, Receives(g), UNCHANGED external
  PROVE  MountedOK' /\ AskedOK' /\ FailedOK' /\ given' = g
<1>1. given' = g /\ external \in BOOLEAN /\ view \in Views
  BY DEF Receives, ShowsInv, GivenOK, IInv, ViewOK
<1>2. ASSUME datasource' = NewDatasource(g, view.visible), view'.visible = view.visible,
             blocks' = [b \in Block |-> Absent]
      PROVE  MountedOK' /\ AskedOK' /\ FailedOK'
  <2>1. datasource'.on <=> (Ready(g) /\ GridMounted(g, view.visible))
    BY <1>2, OnNew
  <2>2. MountedOK'
    BY <1>1, <1>2, <2>1 DEF MountedOK, Ready, GridMounted
  <2> QED
    BY <1>1, <1>2, <2>2, AllAbsent
<1>3. CASE Mounts(g)
  BY <1>1, <1>2, <1>3 DEF Mounts
<1>4. CASE /\ g.status = given.status /\ g.schema = given.schema /\ g.empty = given.empty
           /\ UNCHANGED <<datasource, blocks, requests, model, view, loadError>>
  <2>1. AskedOK' /\ FailedOK'
    BY <1>4, RowsSame
  <2>2. MountedOK'
    BY <1>1, <1>4 DEF ShowsInv, MountedOK, Ready, GridMounted
  <2> QED
    BY <1>1, <2>1, <2>2
<1>5. CASE /\ Replaces(NewDatasource(g, view.visible))
           /\ IF ~GridMounted(g, view.visible) THEN UNCHANGED <<model, view>>
              ELSE /\ model' = RestoreFilterModel[restored]
                   /\ view' = [view EXCEPT !.filter = restored]
  <2>1. view'.visible = view.visible
    BY <1>1, <1>5 DEF Views
  <2> QED
    BY <1>1, <1>2, <1>5, <2>1 DEF Replaces
<1> QED
  BY <1>1, <1>3, <1>4, <1>5 DEF Receives

\* Whatever the user does with a grid.
LEMMA GridShows ==
  ASSUME IInv, ShowsInv, GridNext
  PROVE  /\ MountedOK' /\ AskedOK' /\ FailedOK'
         /\ UNCHANGED external /\ (external => UNCHANGED given)
<1>1. ShowsInv /\ external \in BOOLEAN /\ MountedOK /\ view \in Views
  BY DEF ShowsInv, GivenOK, IInv, ViewOK
<1>2. CASE \E b \in Block : GetRows(b) \/ Scroll(b)
  <2>1. UNCHANGED <<external, given, view, datasource>>
    BY <1>2 DEF GetRows, Scroll, props, looks
  <2> QED
    BY <1>1, <1>2, <2>1, GetRowsShows, ScrollShows DEF MountedOK
<1>3. ASSUME NEW q \in requests, Serve(q)
      PROVE  MountedOK' /\ AskedOK' /\ FailedOK' /\ UNCHANGED <<external, given>>
  <2>1. UNCHANGED <<external, given, view, datasource, blocks, loadError>>
    BY <1>3 DEF Serve, props, looks
  <2>2. PICK p : requests' = (requests \ {q}) \cup {p} /\ p.for = q.for /\ p.key = q.key
    <3>1. Read(q)
      BY DEF IInv, RequestsOK
    <3>2. \A n : /\ [q EXCEPT !.state = "served", !.rows = n].for = q.for
                 /\ [q EXCEPT !.state = "served", !.rows = n].key = q.key
                 /\ [q EXCEPT !.state = "failed"].for = q.for
                 /\ [q EXCEPT !.state = "failed"].key = q.key
      BY <3>1 DEF Read
    <3> QED
      BY <1>3, <3>2 DEF Serve
  <2>3. AskedOK' /\ FailedOK'
    BY <1>1, <2>1, <2>2, RowsSame
  <2> QED
    BY <1>1, <2>1, <2>3 DEF MountedOK
<1>4. ASSUME NEW q \in requests, Deliver(q)
      PROVE  MountedOK' /\ AskedOK' /\ FailedOK' /\ UNCHANGED <<external, given>>
  <2>1. UNCHANGED <<external, given, view, datasource>>
    BY <1>4 DEF Deliver, props, looks
  <2> QED
    BY <1>1, <1>4, <2>1, DeliverShows DEF MountedOK
<1>5. CASE (\E s \in Sort : SortChanged(s)) \/ (\E f \in Filter : FilterChanged(f))
  <2>1. UNCHANGED <<external, given, datasource>> /\ blocks' = [b \in Block |-> Absent]
        /\ view'.visible = view.visible
    BY <1>1, <1>5 DEF SortChanged, FilterChanged, Purges, props, Views
  <2> QED
    BY <1>1, <2>1, AllAbsent DEF MountedOK
<1>6. CASE (\E visible \in SUBSET Column : ShowColumns(visible)) \/ Reset
  <2>1. PICK v \in Views : SetVisibility(v)
    <3>1. /\ \A visible \in SUBSET Column : [view EXCEPT !.visible = visible] \in Views
          /\ [view EXCEPT !.visible = Column, !.sort = "none"] \in Views
      BY <1>1, GridAssumption DEF Views
    <3> QED
      BY <1>6, <3>1 DEF ShowColumns, Reset
  <2>2. UNCHANGED <<external, given>>
    BY <2>1 DEF SetVisibility, props
  <2> QED
    BY <2>1, <2>2, VisibilityShows
<1>7. CASE Retry
  <2>1. UNCHANGED <<external, given, view>>
    BY <1>7 DEF Retry, props, looks
  <2>2. CASE Purges
    <3>1. UNCHANGED datasource /\ blocks' = [b \in Block |-> Absent]
      BY <2>2 DEF Purges
    <3> QED
      BY <1>1, <2>1, <3>1, AllAbsent DEF MountedOK
  <2>3. CASE ~datasource.on /\ UNCHANGED <<datasource, blocks, requests>>
    <3>1. AskedOK' /\ FailedOK'
      BY <2>3 DEF ShowsInv, AskedOK, FailedOK
    <3> QED
      BY <1>1, <2>1, <2>3, <3>1 DEF MountedOK
  <2> QED
    BY <1>7, <2>2, <2>3 DEF Retry
<1>8. CASE \/ (\E c \in Cell : OpenCell(c)) \/ CloseViewer \/ (\E q \in cells : DeliverCell(q))
           \/ TableChanges
  <2>1. UNCHANGED <<external, given, view, datasource, blocks, requests, loadError>>
    BY <1>8 DEF OpenCell, CloseViewer, DeliverCell, TableChanges, props, looks, rows
  <2>2. AskedOK' /\ FailedOK'
    BY <1>1, <2>1, RowsSame
  <2> QED
    BY <1>1, <2>1, <2>2 DEF MountedOK
<1>9. CASE SourceChanges
  BY <1>1, <1>9, ReceivesShows DEF SourceChanges
<1> QED
  BY <1>2, <1>3, <1>4, <1>5, <1>6, <1>7, <1>8, <1>9 DEF GridNext

\* Whatever happens to the catalog or the grid.
LEMMA ShowsHolds == IInv /\ ShowsInv /\ [Next]_vars => ShowsInv'
<1> SUFFICES ASSUME IInv, ShowsInv, [Next]_vars PROVE ShowsInv'
  OBVIOUS
<1>1. CASE GridSteps
  <2>1. /\ MountedOK' /\ AskedOK' /\ FailedOK'
        /\ UNCHANGED external /\ (external => UNCHANGED given)
    BY <1>1, GridShows DEF GridSteps
  <2>2. GivenOK'
    BY <1>1, <2>1 DEF GridSteps, ShowsInv, GivenOK, GridSource, catalogVars, workspace
  <2> QED
    BY <2>1, <2>2 DEF ShowsInv
<1>2. CASE CatalogSteps
  <2>1. UNCHANGED external /\ external
    BY <1>2 DEF CatalogSteps
  <2>2. PICK g : g = GridSource'
    OBVIOUS
  <2>3. CASE Receives(GridSource')
    <3>1. Receives(g)
      BY <2>2, <2>3
    <3>2. MountedOK' /\ AskedOK' /\ FailedOK' /\ given' = g
      BY <2>1, <3>1, ReceivesShows
    <3>3. GivenOK'
      BY <2>1, <2>2, <3>2 DEF GivenOK, ShowsInv
    <3> QED
      BY <3>2, <3>3 DEF ShowsInv
  <2>4. CASE GridSource' = given /\ UNCHANGED <<given, looks, rows, cellVars>>
    <3>1. GivenOK'
      BY <2>1, <2>4 DEF GivenOK, ShowsInv
    <3>2. UNCHANGED <<datasource, blocks, loadError, requests, view, given>>
      BY <2>4 DEF looks, rows
    <3>3. AskedOK' /\ FailedOK'
      BY <2>1, <3>2, RowsSame
    <3> QED
      BY <3>1, <3>2, <3>3 DEF ShowsInv, MountedOK
  <2> QED
    BY <1>2, <2>3, <2>4 DEF CatalogSteps
<1>3. CASE UNCHANGED vars
  <2>1. /\ UNCHANGED <<external, given, datasource, blocks, loadError, requests, view>>
        /\ UNCHANGED catalogVars
    BY <1>3 DEF vars, gridVars, props, looks, rows
  <2>2. AskedOK' /\ FailedOK' /\ GivenOK'
    BY <2>1, RowsSame, SourceSame
  <2> QED
    BY <2>1, <2>2 DEF ShowsInv, MountedOK
<1> QED
  BY <1>1, <1>2, <1>3 DEF Next

\* A grid that is mounted has asked for nothing.
LEMMA ShowsInitially == Init => ShowsInv
<1> SUFFICES ASSUME Init PROVE ShowsInv
  OBVIOUS
<1>1. PICK g : /\ given = g /\ (external => g = GridSource) /\ external \in BOOLEAN
               /\ view.visible = Column /\ datasource = NewDatasource(g, Column)
               /\ blocks = [b \in Block |-> Absent]
  <2>1. CASE GridInit(TRUE, GridSource)
    <3>1. PICK g : g = GridSource
      OBVIOUS
    <3> QED
      BY <2>1, <3>1 DEF GridInit
  <2>2. CASE \E status0 \in {"preparing", "ready"} : GridInit(FALSE, Local(status0))
    <3>1. PICK status0 \in {"preparing", "ready"} : GridInit(FALSE, Local(status0))
      BY <2>2
    <3>2. PICK g : g = Local(status0)
      OBVIOUS
    <3> QED
      BY <3>1, <3>2 DEF GridInit
  <2> QED
    BY <2>1, <2>2 DEF Init
<1>2. datasource.on <=> (Ready(g) /\ GridMounted(g, Column))
  BY <1>1, OnNew
<1>3. \A b \in Block : blocks[b].state = "absent"
  BY <1>1, Filters
<1>4. GivenOK /\ MountedOK
  BY <1>1, <1>2 DEF GivenOK, MountedOK, Ready, GridMounted
<1>5. AskedOK /\ FailedOK
  BY <1>1, <1>3, ScreenFull DEF AskedOK, FailedOK
<1> QED
  BY <1>4, <1>5 DEF ShowsInv

(* Once all is quiet a live tab shows rows or says why it does not, however  *)
(* its connection came and went, whatever was listed and validated, and      *)
(* however its grid was used, unless a refresh or a list took its columns.   *)
(* (relationGridSource, upsertExternalRelation, DataGrid)                    *)
THEOREM LiveShows == Spec => []LiveTabShows
<1>1. Spec => []ShowsInv
  BY ShowsInitially, ShowsHolds, Inductive, PTL DEF Spec
<1>2. ASSUME IInv, CatalogInv, ShowsInv, Quiet, GridQuiet, external, Live(Watched),
             Watched \notin emptied, ~loadError, view.visible # {}
      PROVE  \E b \in Block : blocks[b].state = "shown"
  <2>1. Watched \in Relation /\ tabs[Watched] = "external" /\ shownStatus = "connected"
    BY <1>2, LiveTabAssumption DEF Live
  <2>2. Watched \in catalog /\ shown[Watched] # 0
    BY <1>2, <2>1 DEF CatalogInv, TabsOK, ShownOK, Open
  <2>3. /\ given.status = "ready" /\ given.schema = shown[Watched] /\ given.empty = FALSE
    BY <1>2, <2>1, <2>2 DEF ShowsInv, GivenOK, GridSource
  <2>4. datasource.on
    BY <1>2, <2>2, <2>3 DEF ShowsInv, MountedOK, Ready, GridMounted
  <2>5. PICK b \in OnScreen[external] : blocks[b].state # "failed"
    BY <1>2, <2>4 DEF ShowsInv, FailedOK
  <2>6. b \in Block /\ blocks[b] \in Blocks
    BY <1>2, ScreenFull DEF ShowsInv, GivenOK, IInv, BlocksOK
  <2>7. blocks[b].state # "absent" /\ blocks[b].state # "asked"
    BY <1>2, <2>4, <2>6 DEF GridQuiet, ShowsInv, AskedOK
  <2> QED
    BY <2>5, <2>6, <2>7 DEF Blocks
<1>3. IInv /\ CatalogInv /\ ShowsInv => LiveTabShows
  BY <1>2 DEF LiveTabShows
<1> QED
  BY <1>1, <1>3, Inductive, CatalogInductive, PTL
==============================================================================
