------------------------------- MODULE MCSources -------------------------------
(***************************************************************************)
(* The instance of Sources and Drafts that is checked: each budget is a way*)
(* to use the sources of a project, or its documents and queries, too large*)
(* to be explored all at once.                                             *)
(***************************************************************************)
EXTENDS Drafts

Budget(documents, imports, snapshots, queries, acts) ==
  [document |-> documents, import |-> imports, snapshot |-> snapshots,
   query |-> queries, act |-> acts]

SomeBudgets == {Budget(0, 2, 0, 0, 1), Budget(0, 1, 0, 0, 2), Budget(0, 0, 1, 0, 2),
                Budget(2, 0, 0, 2, 2), Budget(1, 1, 0, 1, 1)}

DraftBudget(writes, formats, opens, saves, manages) ==
  [write |-> writes, format |-> formats, open |-> opens, save |-> saves, manage |-> manages]

Untouched == DraftBudget(0, 0, 0, 0, 0)
DraftUses == {DraftBudget(2, 0, 1, 2, 2), DraftBudget(1, 0, 2, 1, 3), DraftBudget(2, 1, 1, 1, 0)}
SomeDraftBudgets == DraftUses \cup {Untouched}
NoSources == Budget(0, 0, 0, 0, 0)
AnyBudgets == SomeBudgets \cup {NoSources}

MCInit == DocumentsInit /\ ((left = NoSources) # (spare = Untouched))
MCSpec == MCInit /\ [][DocumentsNext]_documentVars
================================================================================
