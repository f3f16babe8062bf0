----------------------------- MODULE Receivables -----------------------------
(***************************************************************************)
(* The receivables of one browser tab (src/frontend/components/budget/     *)
(* ReceivablesAgingView.tsx): its filters, their copy in sessionStorage    *)
(* (lib/receivables-filters.ts) and the login page, which forgets it.      *)
(* Rows stand for what the filters tell apart: a row is the set of its     *)
(* traits.                                                                 *)
(***************************************************************************)
EXTENDS Naturals, FiniteSets

CONSTANTS
    Debts,      \* the rows of the page: subsets of the traits
    None

VARIABLES
    ui,         \* the mounted view: filters, restored; or where the tab is
    world       \* sessionStorage of the tab, and history

vars == <<ui, world>>

Scopes == {"all", "insurance", "current"}
Defaults == [period |-> FALSE, individual |-> FALSE, scope |-> "all"]
Filters == [period : BOOLEAN, individual : BOOLEAN, scope : Scopes]

Closed == ui = None /\ world = None
Init == Closed

(* The tab is opened: somewhere else, nothing remembered.                  *)
Open == /\ Closed /\ ui' = [at |-> "elsewhere"]
        /\ world' = [stored |-> None, chosen |-> Defaults, unsaved |-> FALSE]
Close == ui # None /\ ui' = None /\ world' = None

(* The first render, as the server made it: the defaults.                  *)
Visit == /\ ui # None /\ ui.at = "elsewhere"
         /\ ui' = [at |-> "mounted", filters |-> Defaults, restored |-> FALSE]
         /\ UNCHANGED world

(* readReceivablesFilters.                                                 *)
Saved == IF world.stored = None THEN Defaults ELSE world.stored

(* writeReceivablesFilters: the write may be refused (quota, private mode) *)
(* and is then forgotten.                                                  *)
Write(filters, past) ==
    \/ world' = [past EXCEPT !.stored = filters]
    \/ world' = [past EXCEPT !.unsaved = TRUE]

(* History: the user's own choice.                                         *)
Choice(filters) == [world EXCEPT !.chosen = filters, !.unsaved = FALSE]

(* Mutant of MountEffects: the persist effect does not wait for the saved  *)
(* filters to be read.                                                     *)
MountEffectsEager ==
    /\ ui # None /\ ui.at = "mounted"
    /\ ui' = [at |-> "rendering", filters |-> Saved, restored |-> TRUE]
    /\ Write(ui.filters, world)

(* The effects of the first render: the saved filters are read and set for *)
(* the render to come; the persist effect returns, restored being false.   *)
MountEffects ==
    /\ ui # None /\ ui.at = "mounted"
    /\ ui' = [at |-> "rendering", filters |-> Saved, restored |-> TRUE]
    /\ UNCHANGED world

(* The effects of that render: the filters are written.                    *)
Restored == /\ ui # None /\ ui.at = "rendering"
            /\ ui' = [ui EXCEPT !.at = "view"] /\ Write(ui.filters, world)

(* An input of the toolbar; the persist effect follows.                    *)
SetFilter(filters) ==
    /\ ui # None /\ ui.at = "view" /\ filters # ui.filters
    /\ ui' = [ui EXCEPT !.filters = filters] /\ Write(filters, Choice(filters))

(* resetFilters: forgotten, and written again as the defaults.             *)
ResetFilters ==
    /\ ui # None /\ ui.at = "view"
    /\ ui' = [ui EXCEPT !.filters = Defaults]
    /\ \/ world' = [Choice(Defaults) EXCEPT !.stored = None]
       \/ ui.filters # Defaults /\ world' = [Choice(Defaults) EXCEPT !.stored = Defaults]

(* matchesRepairScope and the other filters of filteredRows.               *)
Matches(row, filters) ==
    /\ filters.period => "inPeriod" \in row
    /\ filters.individual => "individual" \in row
    /\ CASE filters.scope = "insurance" -> "insurance" \in row
         [] filters.scope = "current" -> row \intersect {"insurance", "warranty"} = {}
         [] OTHER -> "warranty" \notin row

Leave == ui # None /\ ui.at # "elsewhere" /\ ui' = [at |-> "elsewhere"] /\ UNCHANGED world

(* A row opens its card, from where one comes back.                        *)
OpenCard(row) == /\ ui # None /\ ui.at = "view" /\ Matches(row, ui.filters) /\ Leave

(* ClearSessionFilters, mounted on the login page.                         *)
Login == /\ ui # None /\ ui' = [at |-> "elsewhere"]
         /\ world' = [stored |-> None, chosen |-> Defaults, unsaved |-> FALSE]

Answer == MountEffects \/ Restored
Work ==
    \/ Visit \/ \E filters \in Filters : SetFilter(filters)
    \/ ResetFilters \/ Leave \/ \E row \in Debts : OpenCard(row)
    \/ Login \/ Answer
Next == Open \/ Close \/ Work
Spec == Init /\ [][Next]_vars /\ WF_vars(Answer)

-----------------------------------------------------------------------------
(* The filters last chosen are there whenever the page is back on screen,  *)
(* however soon it was left again, until they are reset or the user comes  *)
(* by the login page; unless a write was refused.                          *)
FiltersRemembered ==
    (ui # None /\ ui.at = "view" /\ ~world.unsaved) => ui.filters = world.chosen
=============================================================================
