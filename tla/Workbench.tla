-------------------------------- MODULE Workbench ------------------------------
(***************************************************************************)
(* The workbench of one project: the session the store keeps               *)
(* (frontend/src/stores/app-store.ts), changed by the operations of        *)
(* frontend/src/lib/workbench.ts as the views of App.tsx call them.  The   *)
(* identifiers are drawn at random in the code and never used twice: here  *)
(* a new one is the least that no tab or group has, and a document, which  *)
(* lives and dies with its tab, goes by the identifier of the tab.         *)
(*                                                                         *)
(* A tab shows a query (sql) or the data of a resource, a local table or a *)
(* relation; that a relation out of reach is shown as a placeholder is     *)
(* left out, with the texts, titles, saved queries and history.            *)
(***************************************************************************)
EXTENDS HostSession

CONSTANTS Resource,    \* tables of the project, relations of its connections
          Directions,  \* of the splits the user asks for
          MaxOpen      \* bound: tabs open at a time

ASSUME WorkbenchAssumption ==
  /\ Directions \subseteq {"horizontal", "vertical"}
  /\ MaxOpen \in Nat \ {0}
  /\ MaxOpen <= MaxTabs /\ MaxOpen <= MaxDocuments

VARIABLE session

vars == <<session>>

-------------------------------------------------------------------------------
Least(S) == CHOOSE i \in S : \A j \in S : i <= j
Fresh(used) == Least((1 .. 1 + Cardinality(used)) \ used)

Tab(id, kind, ref) == [id |-> id, kind |-> kind, ref |-> ref]
Group(id, tabIds, active) == [id |-> id, tabIds |-> tabIds, activeTabId |-> active]
Without(ids, id) == SelectSeq(ids, LAMBDA other : other # id)

FindTab(s, id) == CHOOSE tab \in ToSet(s.tabs) : tab.id = id
FindGroup(s, id) == CHOOSE group \in ToSet(s.groups) : group.id = id
Owns(group, id) == id \in ToSet(group.tabIds)
GroupOfTab(s, id) == CHOOSE group \in ToSet(s.groups) : Owns(group, id)
EditGroup(s, id, Edit(_)) ==
  [i \in DOMAIN s.groups |-> IF s.groups[i].id = id THEN Edit(s.groups[i]) ELSE s.groups[i]]

CreateSession == [documents |-> <<>>, tabs |-> <<>>, groups |-> <<Group(1, <<>>, 0)>>,
                  layout |-> Leaf(1, Full), activeGroupId |-> 1]

-------------------------------------------------------------------------------
\* normalizeSizes
NormalizeSizes(children) ==
  LET n == Len(children)
      positive == \A i \in 1 .. n : children[i].size > 0
  IN  Shares(children,
             [i \in 1 .. n |-> IF positive THEN Percent(children[i].size,
                                                        SizeOf(children, 1 .. n))
                                           ELSE Percent(1, n)])

(* collectGroups: a split that one child is left of is that child; a leaf is *)
(* kept for a valid group not seen before.                                   *)
RECURSIVE CollectGroups(_, _, _, _)
CollectGroups(node, seen, valid, depth) ==
  IF depth > MaxDepth THEN [node |-> NoNode, seen |-> seen]
  ELSE IF node.kind = "group" THEN
    IF node.groupId \in valid \ seen
      THEN [node |-> Leaf(node.groupId, node.size), seen |-> seen \cup {node.groupId}]
      ELSE [node |-> NoNode, seen |-> seen]
  ELSE
    LET Visit(acc, child) ==
          LET found == CollectGroups(child, acc.seen, valid, depth + 1)
          IN  [children |-> SelectSeq(Append(acc.children, found.node),
                                      LAMBDA c : c # NoNode),
               seen |-> found.seen]
        all == FoldLeft(Visit, [children |-> <<>>, seen |-> seen], node.children)
        left == Len(all.children)
    IN  [node |-> CASE left = 0 -> NoNode
                    [] left = 1 -> Sized(all.children[1], node.size)
                    [] OTHER -> Split(node.direction, node.size,
                                      NormalizeSizes(all.children)),
         seen |-> all.seen]

ShowGroup(layout, id) ==
  IF layout.kind = "split"
    THEN [layout EXCEPT !.children = NormalizeSizes(Append(@, Leaf(id, 0)))]
    ELSE Split("vertical", 0, NormalizeSizes(<<layout, Leaf(id, 0)>>))

NormalizeLayout(layout, groups) ==
  LET found == CollectGroups(layout, {}, IdsOf(groups), 0)
      shown == IF found.node = NoNode THEN {groups[1].id} ELSE found.seen
      Show(tree, group) == IF group.id \in shown THEN tree ELSE ShowGroup(tree, group.id)
      root == IF found.node = NoNode THEN Leaf(groups[1].id, 0) ELSE found.node
  IN  Sized(FoldLeft(Show, root, groups), Full)

(* The tabs normalizeSession keeps: each identifier once, each document once *)
NormalizeTabs(tabs, documents) ==
  LET Keep(acc, tab) == /\ tab.id \notin IdsOf(acc)
                        /\ tab.kind = "sql" =>
                             tab.ref \in ToSet(documents) \ UsedDocuments(acc)
  IN  FoldLeft(LAMBDA acc, tab : IF Keep(acc, tab) THEN Append(acc, tab) ELSE acc,
               <<>>, tabs)

(* The groups it keeps, each tab in one of them, the tabs of none in the first *)
AdoptOrphans(groups, tabs) ==
  LET orphans == SelectSeq([i \in DOMAIN tabs |-> tabs[i].id],
                           LAMBDA id : id \notin AssignedTabs(groups))
  IN  [groups EXCEPT ![1].tabIds = @ \o orphans]

NormalizeGroups(groups, tabs) ==
  LET Free(acc, id) == id \in IdsOf(tabs) \ AssignedTabs(acc)
      Keep(acc, group) ==
        IF group.id \in IdsOf(acc) \/ Len(acc) >= MaxGroups THEN acc
        ELSE Append(acc, [group EXCEPT !.tabIds = SelectSeq(@, LAMBDA id : Free(acc, id))])
  IN  AdoptOrphans(FoldLeft(Keep, <<>>, groups), tabs)

CollapseEmpty(groups) ==
  LET populated == SelectSeq(groups, LAMBDA group : group.tabIds # <<>>)
  IN  IF populated = <<>> THEN <<groups[1]>> ELSE populated

Activated(group) ==
  [group EXCEPT !.activeTabId = IF Owns(group, @) THEN @
                                ELSE IF group.tabIds = <<>> THEN 0 ELSE Last(group.tabIds)]

Arranged(s, tabs, groups) ==
  [documents |-> SelectSeq(s.documents, LAMBDA d : d \in UsedDocuments(tabs)),
   tabs |-> tabs,
   groups |-> groups,
   layout |-> NormalizeLayout(s.layout, groups),
   activeGroupId |-> IF s.activeGroupId \in IdsOf(groups) THEN s.activeGroupId
                                                          ELSE groups[1].id]

WithTabs(s, tabs) ==
  LET kept == CollapseEmpty(NormalizeGroups(s.groups, tabs))
  IN  Arranged(s, tabs, [i \in DOMAIN kept |-> Activated(kept[i])])

NormalizeSession(s) == WithTabs(s, NormalizeTabs(s.tabs, s.documents))

-------------------------------------------------------------------------------
\* openTab of workbench.ts: a new tab at the end of group g, active and focused.
OpenTab(s, tab, g) ==
  NormalizeSession(
    [s EXCEPT !.tabs = Append(@, tab),
              !.groups = EditGroup(s, g, LAMBDA group :
                           Group(g, Append(group.tabIds, tab.id), tab.id)),
              !.activeGroupId = g])

\* selectTab
Select(s, id) ==
  LET g == GroupOfTab(s, id).id
  IN  [s EXCEPT !.groups = EditGroup(s, g, LAMBDA group :
                             [group EXCEPT !.activeTabId = id]),
                !.activeGroupId = g]

\* closeTab: the neighbour on the left becomes active.
Close(s, id) ==
  LET Drop(group) ==
        LET left == Without(group.tabIds, id)
            i == SelectInSeq(group.tabIds, LAMBDA other : other = id)
            next == IF left = <<>> THEN 0 ELSE left[IF i > 1 THEN i - 1 ELSE 1]
        IN  Group(group.id, left, IF group.activeTabId = id THEN next
                                                            ELSE group.activeTabId)
  IN  NormalizeSession(
        [s EXCEPT !.tabs = SelectSeq(@, LAMBDA tab : tab.id # id),
                  !.groups = EditGroup(s, GroupOfTab(s, id).id, Drop)])

\* closeTabs, and closeOtherTabs of the store
CloseAll(s, ids) == FoldLeft(Close, s, ids)

\* moveTab to position i of group g
PutOver(ids, i, id) == IF i <= Len(ids) THEN [ids EXCEPT ![i] = id]     \* mutant
                                        ELSE Append(ids, id)
PutAt(ids, i, id) == InsertAt(ids, i, id)

Move(s, id, g, i) ==
  LET Leave(group) ==
        LET left == Without(group.tabIds, id)
        IN  IF ~Owns(group, id) THEN group
            ELSE Group(group.id, left,
                       IF group.activeTabId # id THEN group.activeTabId
                       ELSE IF left = <<>> THEN 0 ELSE Last(left))
      Enter(group) ==
        LET others == Without(group.tabIds, id)
            at == IF i > Len(others) THEN Len(others) ELSE i
        IN  Group(g, PutAt(others, at + 1, id), id)
  IN  NormalizeSession(
        [s EXCEPT !.groups = [k \in DOMAIN @ |-> IF @[k].id = g THEN Enter(@[k])
                                                                ELSE Leave(@[k])],
                  !.activeGroupId = g])

RECURSIVE ReplaceLeaf(_, _, _)
ReplaceLeaf(node, g, replacement) ==
  IF node.kind = "group"
    THEN IF node.groupId = g THEN Sized(replacement, node.size) ELSE node
    ELSE [node EXCEPT !.children = [i \in DOMAIN @ |-> ReplaceLeaf(@[i], g, replacement)]]

SplitLayout(s, g, created, direction) ==
  ReplaceLeaf(s.layout, g,
              Split(direction, 0, NormalizeSizes(<<Leaf(g, Full \div 2),
                                                   Leaf(created, Full \div 2)>>)))

\* splitGroup: the tab goes to the new group, or a copy of it if it is alone.
SplitGroup(s, g, direction, id) ==
  LET created == Fresh(IdsOf(s.groups))
      source == FindGroup(s, g)
      tab == FindTab(s, id)
      alone == Len(source.tabIds) < 2
      copy == Tab(Fresh(IdsOf(s.tabs)), tab.kind, tab.ref)
      Handed(group) ==
        LET left == Without(group.tabIds, id)
        IN  Group(g, left, IF group.activeTabId = id THEN Last(left) ELSE group.activeTabId)
      staged == [s EXCEPT !.layout = SplitLayout(s, g, created, direction),
                          !.activeGroupId = created]
  IN  IF Len(s.groups) >= MaxGroups \/ (alone /\ tab.kind = "sql") THEN s
      ELSE IF alone
        THEN NormalizeSession(
               [staged EXCEPT !.tabs = Append(@, copy),
                              !.groups = Append(@, Group(created, <<copy.id>>, copy.id))])
        ELSE NormalizeSession(
               [staged EXCEPT !.groups = Append(EditGroup(s, g, Handed),
                                                Group(created, <<id>>, id))])

\* splitWithNewTab
SplitWithNewTab(s, g, direction, tab) ==
  LET created == Fresh(IdsOf(s.groups))
      staged == [s EXCEPT !.groups = Append(@, Group(created, <<>>, 0)),
                          !.layout = SplitLayout(s, g, created, direction),
                          !.activeGroupId = created]
  IN  IF Len(s.groups) >= MaxGroups THEN OpenTab(s, tab, g)
                                    ELSE OpenTab(staged, tab, created)

\* stageSQLDocument: a new document, and the tab that will show it.
WithDocument(s) == [s EXCEPT !.documents = Append(@, Fresh(IdsOf(s.tabs)))]
QueryTab(s) == Tab(Fresh(IdsOf(s.tabs)), "sql", Fresh(IdsOf(s.tabs)))

(* openOrSplitSQLTab: with the other queries if there are any, below what is *)
(* shown otherwise.                                                          *)
HoldsQuery(s, group) == \E id \in ToSet(group.tabIds) : FindTab(s, id).kind = "sql"

OpenOrSplit(s) ==
  LET holder == SelectInSeq(s.groups, LAMBDA group : HoldsQuery(s, group))
      current == FindGroup(s, s.activeGroupId)
  IN  CASE holder # 0 -> OpenTab(WithDocument(s), QueryTab(s), s.groups[holder].id)
        [] holder = 0 /\ (current.tabIds = <<>> \/ Len(s.groups) >= MaxGroups) ->
             OpenTab(WithDocument(s), QueryTab(s), current.id)
        [] OTHER -> SplitWithNewTab(WithDocument(s), current.id, "vertical", QueryTab(s))

\* splitGroup of the store: where the tab cannot be split off, a query is begun.
SplitOrQuery(s, g, direction, id) ==
  LET split == SplitGroup(s, g, direction, id)
  IN  IF split # s THEN split
      ELSE IF FindTab(s, id).kind = "sql"
        THEN SplitWithNewTab(WithDocument(s), g, direction, QueryTab(s))
        ELSE s

\* resizeSplit, of the split the path leads to
RECURSIVE Resize(_, _, _)
Resize(node, path, sizes) ==
  IF path = <<>>
    THEN [node EXCEPT !.children =
            NormalizeSizes([i \in DOMAIN @ |-> Sized(@[i], sizes[i])])]
    ELSE [node EXCEPT !.children[Head(path)] = Resize(@, Tail(path), sizes)]

RECURSIVE NodeAt(_, _)
NodeAt(node, path) ==
  IF path = <<>> THEN node
  ELSE IF Head(path) \in DOMAIN node.children THEN NodeAt(node.children[Head(path)], Tail(path))
  ELSE NoNode
-------------------------------------------------------------------------------
Tabs == IdsOf(session.tabs)
GroupIds == IdsOf(session.groups)
Room == Len(session.tabs) < MaxOpen
TabsOf(refs) == SelectSeq(session.tabs, LAMBDA tab : tab.kind = "data" /\ tab.ref \in refs)

Init == session = CreateSession

\* openTab and openExternalTab of the store: a resource that has a tab is shown there.
OpenResource(r) ==
  LET open == SelectInSeq(session.tabs, LAMBDA tab : tab.kind = "data" /\ tab.ref = r)
  IN  IF open = 0
        THEN /\ Room
             /\ session' = OpenTab(session, Tab(Fresh(Tabs), "data", r), session.activeGroupId)
        ELSE session' = Select(session, session.tabs[open].id)

\* openSQLTab of the store, with and without a group
OpenQuery(g) == /\ Room
                /\ session' = OpenTab(WithDocument(session), QueryTab(session), g)

OpenAnyQuery == /\ Room
                /\ session' = OpenOrSplit(session)

SelectTab(id) == session' = Select(session, id)
FocusGroup(g) == session' = [session EXCEPT !.activeGroupId = g]

CloseTab(id) == session' = Close(session, id)
CloseOthers(g, id) ==
  /\ Len(FindGroup(session, g).tabIds) > 1
  /\ session' = CloseAll(session, Without(FindGroup(session, g).tabIds, id))

\* A key on the tab of a strip that has the focus, the active one (tabIndex), selects
\* the tab it leads to; Delete is CloseTab.
KeyTarget(n, i, key) == CASE key = "ArrowRight" -> (i % n) + 1
                          [] key = "ArrowLeft" -> ((i + n - 2) % n) + 1
                          [] key = "Home" -> 1
                          [] key = "End" -> n

PressKey(g, id, key) ==
  LET ids == FindGroup(session, g).tabIds
      i == SelectInSeq(ids, LAMBDA other : other = id)
  IN  SelectTab(ids[KeyTarget(Len(ids), i, key)])

\* removeSource, detachConnection, setExternalRelations
CloseResource(r) ==
  session' = CloseAll(session, LET tabs == TabsOf({r}) IN [i \in DOMAIN tabs |-> tabs[i].id])

SplitOff(g, direction, id) ==
  /\ session' = SplitOrQuery(session, g, direction, id)
  /\ Len(session'.tabs) <= MaxOpen

DropTab(id, g, i) == session' = Move(session, id, g, i)

\* On a strip the place is before or after the tab under the pointer, by the strip
\* as it is drawn, with the tab that is dragged; or it is the end.  After a tab is
\* before the next one or at the end, and the end is where a drop on the content goes:
\* Next drops before tabs only.
DropIndex(group, over, after) ==
  LET i == SelectInSeq(group.tabIds, LAMBDA other : other = over)
  IN  IF over = 0 THEN Len(group.tabIds) ELSE IF after THEN i ELSE i - 1

DropOnStrip(id, g, over, after) ==
  DropTab(id, g, DropIndex(FindGroup(session, g), over, after))

\* onDropSplit: to the end of the group under the pointer, then split off there.
DropSplit(id, g, direction) ==
  LET end == Len(FindGroup(session, g).tabIds)
  IN  /\ session' = SplitOrQuery(Move(session, id, g, end), g, direction, id)
      /\ Len(session'.tabs) <= MaxOpen

\* On the content of a group the right and the lower edge split it, the right one
\* in a corner, and the rest takes the tab.
EdgeFor(right, bottom) == IF right THEN "horizontal" ELSE IF bottom THEN "vertical" ELSE "none"

DropOnContent(id, g, right, bottom) ==
  LET edge == EdgeFor(right, bottom)
  IN  \/ edge = "none" /\ DropTab(id, g, Len(FindGroup(session, g).tabIds))
      \/ edge \in Directions /\ DropSplit(id, g, edge)

\* The shortcuts act on the group that has the focus and on its active tab.
Focused == FindGroup(session, session.activeGroupId)

ShortcutClose == Focused.activeTabId # 0 /\ CloseTab(Focused.activeTabId)
ShortcutSplit(direction) == /\ Focused.activeTabId # 0
                            /\ SplitOff(Focused.id, direction, Focused.activeTabId)
ShortcutFocus(n) == /\ n <= Len(ListGroupIds(session.layout))
                    /\ FocusGroup(ListGroupIds(session.layout)[n])
ShortcutCycle(key) == Len(Focused.tabIds) > 1 /\ PressKey(Focused.id, Focused.activeTabId, key)

Shortcut == \/ OpenQuery(session.activeGroupId)
            \/ ShortcutClose
            \/ \E direction \in Directions : ShortcutSplit(direction)
            \/ \E n \in 1 .. MaxGroups : ShortcutFocus(n)
            \/ \E key \in {"ArrowLeft", "ArrowRight"} : ShortcutCycle(key)

\* setLayoutSizes: the handle of a split in two is moved to a third or the middle.
DragHandle(path, first) ==
  /\ Len(NodeAt(session.layout, path).children) = 2
  /\ session' = [session EXCEPT !.layout = Resize(@, path, <<first, Full - first>>)]

Closing == \/ \E id \in Tabs : CloseTab(id)
           \/ \E g \in GroupIds : \E id \in ToSet(FindGroup(session, g).tabIds) :
                CloseOthers(g, id)
           \/ \E r \in Resource : CloseResource(r)

Next == \/ \E r \in Resource : OpenResource(r)
        \/ OpenAnyQuery
        \/ \E g \in GroupIds : OpenQuery(g) \/ FocusGroup(g)
        \/ \E id \in Tabs : SelectTab(id)
        \/ Closing
        \/ \E g \in GroupIds, direction \in Directions :
             \E id \in ToSet(FindGroup(session, g).tabIds) : SplitOff(g, direction, id)
        \/ \E g \in GroupIds, id \in Tabs :
             \E over \in ToSet(FindGroup(session, g).tabIds) : DropOnStrip(id, g, over, FALSE)
        \/ \E g \in GroupIds, id \in Tabs, right, bottom \in BOOLEAN :
             /\ right => bottom
             /\ DropOnContent(id, g, right, bottom)
        \/ \E g \in GroupIds, key \in {"ArrowLeft", "Home", "End"} :
             LET id == FindGroup(session, g).activeTabId
             IN  id # 0 /\ PressKey(g, id, key)
        \/ Shortcut
        \/ \E path \in {<<>>, <<1>>, <<2>>}, first \in {Full \div 3} :
             DragHandle(path, first)

Spec == Init /\ [][Next]_vars

-------------------------------------------------------------------------------
Left(ids, gone) == SelectSeq(ids, LAMBDA id : id \notin gone)

Keeps(stored, gone, left) ==
  /\ Accepts(stored)
  /\ NormalizeSession(stored) = stored
  /\ stored.documents = session.documents
  /\ IdsOf(stored.tabs) = Tabs \ gone
  /\ left # <<>> =>
       /\ [i \in DOMAIN stored.groups |-> stored.groups[i].tabIds]
            = [i \in DOMAIN left |-> Left(left[i].tabIds, gone)]
       /\ ListGroupIds(stored.layout)
            = SelectSeq(ListGroupIds(session.layout), LAMBDA g : g \in IdsOf(left))

KeepsAs(stored, present, gone) ==
  /\ Keeps(stored, gone,
           SelectSeq(session.groups, LAMBDA g : ~(ToSet(g.tabIds) \subseteq gone)))
  /\ Reconcile(stored, present) = stored
  /\ present = Resource => stored = session

(* The host keeps the session the user arranged: its validator accepts what  *)
(* it stores (workbench.ts:81-85), stored or loaded once more it does not    *)
(* change, and the bridge shows it as it is.  With every source and every    *)
(* connection there it is the very session; when some went meanwhile it has  *)
(* every other tab in the group and in the order the user gave it, no draft  *)
(* is lost and the groups keep their reading order (reconcileSession).       *)
HostKeepsTheSession ==
  \A lost \in SUBSET Resource :
    KeepsAs(Saved(session, Resource \ lost), Resource \ lost, IdsOf(TabsOf(lost)))

(* A step does what was asked and no more, whatever normalizeSession prunes  *)
(* and the bound on groups cuts: the tabs that go are the ones closed, and   *)
(* drafts go with their tab only; at most one tab changes its group; a tab   *)
(* that is opened is the one in front in the group that has the focus; and a *)
(* tab dropped before or after another stands there, unless it was dragged   *)
(* to the right in its own strip: there it goes one place further, since its *)
(* old place was counted.  (normalizeSession, moveTab, TabsBar)              *)
Gone == Tabs \ IdsOf(session'.tabs)
Opened == IdsOf(session'.tabs) \ Tabs
Moved == {id \in Tabs \cap IdsOf(session'.tabs) :
            GroupOfTab(session, id).id # GroupOfTab(session', id).id}

Closed(ids) == \/ \E id \in ids : ids = {id} /\ CloseTab(id)
               \/ \E g \in GroupIds : \E id \in ToSet(FindGroup(session, g).tabIds) :
                    /\ ids = ToSet(FindGroup(session, g).tabIds) \ {id}
                    /\ CloseOthers(g, id)
               \/ \E r \in Resource : /\ ids = IdsOf(TabsOf({r}))
                                                  /\ CloseResource(r)

Place(s, g, id) == SelectInSeq(FindGroup(s, g).tabIds, LAMBDA other : other = id)
Rightward(id, g, over) == Place(session, g, id) \in 1 .. Place(session, g, over)

Landed(id, g, over, after) ==
  Place(session', g, id) = Place(session', g, over) + (IF after THEN 1 ELSE -1)

LandsWhereDropped(id, g, over, after) ==
  \/ Rightward(id, g, over) \/ Landed(id, g, over, after)
  \/ ~DropOnStrip(id, g, over, after)

OnlyWhatWasAsked ==
  [][/\ Gone # {} => Closed(Gone)
     /\ ToSet(session.documents) \ Gone \subseteq ToSet(session'.documents)
     /\ Cardinality(Moved) <= 1
     /\ LET g == session'.activeGroupId
            id == FindGroup(session', g).activeTabId
        IN  id \in Tabs /\ g \in GroupIds =>
              \A over \in ToSet(FindGroup(session, g).tabIds) \ {id}, after \in BOOLEAN :
                LandsWhereDropped(id, g, over, after)
     /\ \A id \in Opened :
          id = FindGroup(session', session'.activeGroupId).activeTabId]_vars
================================================================================
