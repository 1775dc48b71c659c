--------------------------------- MODULE LiveTab ---------------------------------
(***************************************************************************)
(* The grid of a live tab: it is given the columns the catalog has, and is *)
(* taken away while the connection is shown as not connected; the host     *)
(* reads its rows while it is connected.                                   *)
(***************************************************************************)
EXTENDS Catalog, Grid

CONSTANT Watched \* the relation whose grid is looked at

ASSUME LiveTabAssumption == Watched \in Relation

vars == <<catalogVars, gridVars>>

(* renderTabContent and relationGridSource                                   *)
GridSource ==
  [status |-> IF tabs[Watched] # "none" /\ Watched \in catalog /\ shownStatus = "connected"
              THEN "ready" ELSE "none",
   schema |-> shown[Watched], version |-> 1, empty |-> FALSE]

Readable == Connected /\ Watched \in there

CatalogSteps ==
  /\ external /\ CatalogNext
  /\ served' = Readable'
  /\ IF GridSource' = given THEN UNCHANGED <<given, looks, rows, cellVars>> ELSE Receives(GridSource')
  /\ UNCHANGED <<external, table, gridLeft>>

GridSteps == GridNext /\ UNCHANGED catalogVars

Next == CatalogSteps \/ GridSteps

(* The grid is that of the live relation, with the catalog as a session began*)
(* with it, or that of a local table, of which the catalog says nothing.     *)
Local(status0) == [status |-> status0, schema |-> 1, version |-> 1, empty |-> FALSE]

Init ==
  /\ \E isLinked, isUp, isAuto \in BOOLEAN, found \in SUBSET Relation, budget \in CatalogBudgets :
       /\ isUp \/ isAuto \/ found # {} => isLinked
       /\ ~(isUp /\ isAuto)
       /\ CatalogInit(isLinked, found, isUp, isAuto, budget)
  /\ \/ GridInit(TRUE, GridSource)
     \/ \E status0 \in {"preparing", "ready"} : GridInit(FALSE, Local(status0))

Spec == Init /\ [][Next]_vars

(* Once all is quiet, a live tab shows rows or says why it does not, whatever*)
(* was connected, listed and validated since it was opened or restored:      *)
(* unless a refresh or a list took the columns of its relation, which nothing*)
(* asks for again.  (upsertExternalRelation, validateExternalTabs, DataGrid) *)
GridQuiet == requests = {} /\ \A b \in OnScreen[external] : blocks[b].state = "absent" => ~datasource.on
LiveTabShows ==
  Quiet /\ GridQuiet /\ external /\ Live(Watched) /\ Watched \notin emptied =>
    loadError \/ view.visible = {} \/ \E b \in Block : blocks[b].state = "shown"
================================================================================
