------------------------------- MODULE HostSession -----------------------------
(***************************************************************************)
(* What the host does to a session it is given to store or reads back:     *)
(* NormalizeSession, validateSession and reconcileSession of               *)
(* internal/workspace/session.go.  A session holds its documents, tabs,    *)
(* groups and layout; history, titles and result numbers are left out.     *)
(* The kinds local, external and placeholder, whose identity is a source   *)
(* or a relation, are one kind, data; ref is the document of a SQL tab and *)
(* that source or relation of any other.                                   *)
(***************************************************************************)
EXTENDS Layout

CONSTANTS MaxDocuments,  \* maxSessionDocuments: 60
          MaxTabs        \* maxSessionTabs: 120

ASSUME HostAssumption == MaxDocuments \in Nat \ {0} /\ MaxTabs \in Nat \ {0}

IdsOf(seq) == {seq[i].id : i \in DOMAIN seq}
UsedDocuments(tabs) == {t.ref : t \in {u \in ToSet(tabs) : u.kind = "sql"}}
AssignedTabs(groups) == UNION {ToSet(groups[i].tabIds) : i \in DOMAIN groups}

\* normalizeSizes
HostSizes(children) ==
  LET n == Len(children)
      total == SizeOf(children, 1 .. n)
      positive == \A i \in 1 .. n : children[i].size > 0
  IN  Shares(children, [i \in 1 .. n |-> IF positive /\ total > 0
                                           THEN Percent(children[i].size, total)
                                           ELSE Percent(1, n)])

(* normalizeLayoutNode: the node that is left, and the groups seen so far. *)
RECURSIVE HostLayoutNode(_, _, _, _)
HostLayoutNode(node, groupIds, seen, depth) ==
  LET VisitChild(acc, child) ==
        LET result == HostLayoutNode(child, groupIds, acc.seen, depth + 1)
        IN  [children |-> IF result.node = NoNode THEN acc.children
                          ELSE Append(acc.children, result.node),
             seen |-> result.seen]
      visited == FoldLeft(VisitChild, [children |-> <<>>, seen |-> seen], node.children)
      placed == node.groupId \in groupIds \ seen
  IN  CASE depth > MaxDepth -> [node |-> NoNode, seen |-> seen]
        [] depth <= MaxDepth /\ node.kind = "split" ->
             [node |-> CASE visited.children = <<>> -> NoNode
                         [] Len(visited.children) = 1 ->
                              Sized(visited.children[1], node.size)
                         [] OTHER -> Split(node.direction, node.size,
                                           HostSizes(visited.children)),
              seen |-> visited.seen]
        [] OTHER -> IF placed THEN [node |-> Leaf(node.groupId, node.size),
                                    seen |-> seen \cup {node.groupId}]
                    ELSE [node |-> NoNode, seen |-> seen]

(* normalizeLayoutTree: every group the tree does not show is added to it. *)
HostLayout(layout, groups) ==
  LET pruned == HostLayoutNode(layout, IdsOf(groups), {}, 0)
      root == IF pruned.node = NoNode THEN Leaf(groups[1].id, Full) ELSE pruned.node
      seen == IF pruned.node = NoNode THEN pruned.seen \cup {groups[1].id} ELSE pruned.seen
      AddLeaf(tree, group) ==
        IF group.id \in seen THEN tree
        ELSE IF tree.kind = "split"
          THEN [tree EXCEPT !.children = HostSizes(Append(@, Leaf(group.id, 0)))]
          ELSE Split("vertical", 0, HostSizes(<<tree, Leaf(group.id, 0)>>))
  IN  Sized(FoldLeft(AddLeaf, root, groups), Full)

-------------------------------------------------------------------------------
(* NormalizeSession, step by step: what it keeps of the documents, of the    *)
(* tabs and of the groups.  A SQL tab marks its document as used before the  *)
(* bound on tabs can drop it.                                                *)
HostDocuments(documents) ==
  LET Accept(acc, d) == IF d \in ToSet(acc) THEN acc ELSE Append(acc, d)
      distinct == FoldLeft(Accept, <<>>, documents)
  IN  SubSeq(distinct, 1, IF Len(distinct) > MaxDocuments THEN MaxDocuments
                                                          ELSE Len(distinct))

HostTabs(tabs, documents) ==
  LET Valid(acc, tab) == /\ tab.id \notin IdsOf(acc.tabs)
                         /\ tab.kind = "sql" => tab.ref \in ToSet(documents) \ acc.used
      Accept(acc, tab) ==
        IF ~Valid(acc, tab) THEN acc
        ELSE [tabs |-> IF Len(acc.tabs) >= MaxTabs THEN acc.tabs ELSE Append(acc.tabs, tab),
              used |-> IF tab.kind = "sql" THEN acc.used \cup {tab.ref} ELSE acc.used]
  IN  FoldLeft(Accept, [tabs |-> <<>>, used |-> {}], tabs)

HostGroups(groups, tabs) ==
  LET AcceptTab(acc, id) == IF id \in IdsOf(tabs) \ (acc.assigned \cup ToSet(acc.ids))
                              THEN [acc EXCEPT !.ids = Append(@, id)] ELSE acc
      TabIds(group, assigned) ==
        FoldLeft(AcceptTab, [ids |-> <<>>, assigned |-> assigned], group.tabIds).ids
      Accept(acc, group) ==
        IF group.id \in IdsOf(acc) \/ Len(acc) >= MaxGroups THEN acc
        ELSE Append(acc, [group EXCEPT !.tabIds = TabIds(group, AssignedTabs(acc))])
      accepted == FoldLeft(Accept, <<>>, groups)
      named == IF accepted = <<>> THEN <<[id |-> 1, tabIds |-> <<>>, activeTabId |-> 0]>>
                                  ELSE accepted
      orphans == SelectSeq([i \in DOMAIN tabs |-> tabs[i].id],
                           LAMBDA id : id \notin AssignedTabs(named))
  IN  [named EXCEPT ![1].tabIds = @ \o orphans]

(* Empty groups collapse unless none would be left; an active tab that its   *)
(* group lost is replaced by the last one.                                   *)
HostCollapse(groups) ==
  LET populated == SelectSeq(groups, LAMBDA group : group.tabIds # <<>>)
      kept == IF populated = <<>> THEN <<[groups[1] EXCEPT !.tabIds = <<>>, !.activeTabId = 0]>>
                                  ELSE populated
      Active(group) == IF group.activeTabId \in ToSet(group.tabIds) THEN group.activeTabId
                       ELSE IF group.tabIds = <<>> THEN 0 ELSE Last(group.tabIds)
  IN  [i \in DOMAIN kept |-> [kept[i] EXCEPT !.activeTabId = Active(kept[i])]]

HostArranged(s, documents, taken, groups) ==
  [documents |-> SelectSeq(documents, LAMBDA d : d \in taken.used),
   tabs |-> taken.tabs,
   groups |-> groups,
   layout |-> HostLayout(s.layout, groups),
   activeGroupId |-> IF s.activeGroupId \in IdsOf(groups) THEN s.activeGroupId
                                                          ELSE groups[1].id]

HostTaken(s, documents, taken) ==
  HostArranged(s, documents, taken, HostCollapse(HostGroups(s.groups, taken.tabs)))

HostCounted(s, documents) == HostTaken(s, documents, HostTabs(s.tabs, documents))

HostNormalize(s) == HostCounted(s, HostDocuments(s.documents))

-------------------------------------------------------------------------------
(* validateLayout: its nodes are well formed down to MaxDepth.               *)
RECURSIVE ValidNode(_, _, _)
ValidNode(node, groupIds, depth) ==
  /\ depth <= MaxDepth
  /\ node.kind \in {"group", "split"}
  /\ node.kind = "group" => node.groupId \in groupIds /\ node.children = <<>>
  /\ node.kind = "split" =>
       /\ node.direction \in {"horizontal", "vertical"}
       /\ Len(node.children) >= 2
       /\ \A i \in DOMAIN node.children : ValidNode(node.children[i], groupIds, depth + 1)

ValidLayout(layout, groupIds) ==
  /\ ValidNode(layout, groupIds, 0)
  /\ IsInjective(ListGroupIds(layout))
  /\ ToSet(ListGroupIds(layout)) = groupIds

DistinctIds(seq) == Cardinality(IdsOf(seq)) = Len(seq)

ValidTab(tab, documents) ==
  /\ tab.kind \in {"data", "sql"}
  /\ tab.kind = "sql" => tab.ref \in ToSet(documents)

(* validateSession *)
Accepts(s) ==
  /\ Len(s.documents) <= MaxDocuments
  /\ Len(s.tabs) <= MaxTabs
  /\ Len(s.groups) \in 1 .. MaxGroups
  /\ IsInjective(s.documents) /\ DistinctIds(s.tabs) /\ DistinctIds(s.groups)
  /\ \A tab \in ToSet(s.tabs) : ValidTab(tab, s.documents)
  /\ IsInjective(FlattenSeq([i \in DOMAIN s.groups |-> s.groups[i].tabIds]))
  /\ AssignedTabs(s.groups) = IdsOf(s.tabs)
  /\ \A group \in ToSet(s.groups) :
       group.activeTabId \in ToSet(group.tabIds) \cup {0}
  /\ s.activeGroupId \in IdsOf(s.groups)
  /\ ValidLayout(s.layout, IdsOf(s.groups))

(* reconcileSession: tabs of a source or of a connection the project no      *)
(* longer has go, and what is left is normalized again.                      *)
Filtered(s, present) ==                                                  \* mutant
  [s EXCEPT !.tabs = SelectSeq(@, LAMBDA tab : tab.kind = "data" => tab.ref \in present)]
Reconcile(s, present) ==
  HostNormalize([s EXCEPT !.tabs =
    SelectSeq(@, LAMBDA tab : tab.kind = "data" => tab.ref \in present)])

(* SaveSession, of a session it does not refuse.                             *)
Saved(s, present) == Reconcile(HostNormalize(s), present)
================================================================================
