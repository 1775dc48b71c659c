------------------------------- MODULE MCWorkbench -----------------------------
(***************************************************************************)
(* Workbench for TLC.  Three groups show a split inside a split, and the   *)
(* bound on groups.  Identifiers are only compared, so two sessions that   *)
(* differ in nothing but the choice of them are one state: a tab or a      *)
(* group counts by its place.                                              *)
(***************************************************************************)
EXTENDS Workbench, TLC

Symmetry == Permutations(Resource)

PlaceOf(seq, id) == SelectInSeq(seq, LAMBDA item : item.id = id)
TabPlace(id) == PlaceOf(session.tabs, id)
GroupPlace(id) == PlaceOf(session.groups, id)

RECURSIVE Placed(_)
Placed(node) ==
  [node EXCEPT !.groupId = GroupPlace(@),
               !.children = [i \in DOMAIN @ |-> Placed(@[i])]]

View ==
  [documents |-> [i \in DOMAIN session.documents |-> TabPlace(session.documents[i])],
   tabs |-> [i \in DOMAIN session.tabs |->
               LET tab == session.tabs[i]
               IN  Tab(i, tab.kind, IF tab.kind = "sql" THEN i ELSE tab.ref)],
   groups |-> [i \in DOMAIN session.groups |->
                 LET group == session.groups[i]
                 IN  Group(i, [k \in DOMAIN group.tabIds |-> TabPlace(group.tabIds[k])],
                           TabPlace(group.activeTabId))],
   layout |-> Placed(session.layout),
   activeGroupId |-> GroupPlace(session.activeGroupId)]
================================================================================
