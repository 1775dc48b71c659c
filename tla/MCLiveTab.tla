-------------------------------- MODULE MCLiveTab --------------------------------
(***************************************************************************)
(* The instance that is checked: the grid of a table that is imported or   *)
(* refreshed, or that of a live relation whose connection comes and goes.  *)
(* Each budget is a way to use them, too large to be explored all at once. *)
(***************************************************************************)
EXTENDS LiveTab

GridBudget(layout, scroll, cell, tables, failures) ==
  [layout |-> layout, scroll |-> scroll, cell |-> cell, table |-> tables, failure |-> failures]

GridUses == {GridBudget(2, 0, 0, 0, 0), GridBudget(1, 1, 0, 0, 0), GridBudget(1, 0, 0, 1, 0),
             GridBudget(0, 1, 0, 1, 0), GridBudget(1, 0, 0, 0, 1), GridBudget(0, 0, 0, 1, 1),
             GridBudget(0, 0, 2, 0, 0), GridBudget(0, 0, 1, 1, 0)}
Still == GridBudget(0, 0, 0, 0, 0)
SomeGridBudgets == GridUses \cup {Still}

CatalogBudget(acts, overlap, changes, failures) ==
  [act |-> acts, calls |-> overlap, change |-> changes, failure |-> failures]
CatalogUses == {CatalogBudget(2, 2, 0, 0), CatalogBudget(2, 1, 0, 1), CatalogBudget(1, 2, 1, 0)}
Unused0 == CatalogBudget(0, 0, 0, 0)
SomeCatalogBudgets == CatalogUses \cup {Unused0}

(* A live relation shows one block at a time here.                          *)
SomeOnScreen == [isExternal \in BOOLEAN |-> IF isExternal THEN {1} ELSE {1, 2}]

(* Of a grid that is used the catalog rests, and of a catalog that is used   *)
(* the grid only loads.                                                      *)
SomeInit ==
  /\ Init
  /\ \/ /\ left = Unused0 /\ gridLeft \in GridUses
        /\ IF external THEN Watched \in known /\ status = "connected" ELSE ~linked
     \/ /\ left \in CatalogUses /\ gridLeft = Still /\ external
        /\ linked /\ known = {} => status = "connected"

SomeSpec == SomeInit /\ [][Next]_vars /\ GridFairness
================================================================================
