----------------------------- MODULE OrdersTable -----------------------------
(***************************************************************************)
(* The filters of the work-order list (src/frontend/components/            *)
(* WorkOrdersTable.tsx): seeded from a link or restored from               *)
(* sessionStorage when the list is mounted, written back at every change,  *)
(* and the way from a row to its card and back to that row.                *)
(* An order is the set of filters it passes.                               *)
(***************************************************************************)
EXTENDS Naturals, FiniteSets

CONSTANTS
    Orders,  \* the orders of the list, each a subset of Filters
    None

VARIABLES
    ui,      \* the mounted list: its link, filters, loading, scroll position
    world    \* sessionStorage (filters, row opened last), the card's way back, history

vars == <<ui, world>>

(* text stands for the search box, the column boxes and the date ranges;   *)
(* phone and conversion are one-off narrowings that are not remembered.    *)
Remembered == {"text", "status", "docTypes", "individual"}
Filters == Remembered \union {"phone", "conversion"}

(* Where the list may be opened from: the menu, a status chip, Cockpit's   *)
(* unpaid lamp, a phone, a conversion donut, Cockpit's receivables bar.    *)
Links == {"menu", "status", "lamp", "phone", "conversion", "receivables"}

HasUrlFilters(link) == link \in {"status", "lamp", "phone", "conversion"}

Seeds(link) ==
    CASE link = "status" -> {"status", "docTypes"}
      [] link = "lamp" -> {"status", "individual", "docTypes"}
      [] link = "phone" -> {"phone"}
      [] link = "conversion" -> {"conversion", "docTypes"}
      [] OTHER -> {}

(* The useState initialisers.  The page passes individual = false when the *)
(* link lacks it, so that checkbox is never restored.                      *)
InitialFilters(link, stored) ==
    IF HasUrlFilters(link) \/ stored = None THEN Seeds(link)
    ELSE (stored \ {"individual"}) \union Seeds(link)

(* filteredRows: nothing while the orders of a donut are being fetched or  *)
(* when that fetch failed.                                                 *)
Rows(page) ==
    {o \in Orders : /\ page.filters \subseteq o
                    /\ "conversion" \in page.filters => page.ids = "loaded"}

(* Mutant of ScrollEffect: the once-flag is set before the early return.   *)
ScrollEffectEager(page, opened) ==
    IF page.scrolled THEN page
    ELSE [page EXCEPT !.scrolled = TRUE,
                      !.at = IF ~page.loading /\ opened \in Rows(page) THEN opened ELSE None]

(* The scroll effect: once per mount, when there are rows to scroll in.    *)
ScrollEffect(page, opened) ==
    IF page.scrolled \/ page.loading \/ Rows(page) = {} THEN page
    ELSE [page EXCEPT !.scrolled = TRUE, !.at = IF opened \in Rows(page) THEN opened ELSE None]

(* The persist effect follows every change of a filter, the mount included; *)
(* where sessionStorage is refused nothing is ever read back from it.      *)
PersistEffect(page) ==
    IF world.storage THEN page.filters \intersect Remembered ELSE None

Render(page, w) ==
    /\ ui' = ScrollEffect(page, w.opened)
    /\ world' = [w EXCEPT !.stored = PersistEffect(page)]

-----------------------------------------------------------------------------
Closed == ui = None /\ world = None
Init == Closed
Open == /\ Closed /\ ui' = None
        /\ \E storage \in BOOLEAN :
             world' = [storage |-> storage, stored |-> None, opened |-> None, from |-> None,
                       reshaped |-> FALSE]
Close == world # None /\ ui' = None /\ world' = None

Mounted(link, back) ==
    [link |-> link, filters |-> InitialFilters(link, world.stored), loading |-> TRUE,
     ids |-> IF link = "conversion" THEN "pending" ELSE "unused",
     scrolled |-> FALSE, at |-> None, touched |-> FALSE, back |-> back]

(* From the menu, a link elsewhere, or past the card that is open.         *)
Visit(link) ==
    world # None /\ ui = None /\ Render(Mounted(link, FALSE), [world EXCEPT !.from = None])

(* All the pages have come, from the cache or the server.                  *)
LoadEnds == ui # None /\ ui.loading /\ Render([ui EXCEPT !.loading = FALSE], world)

(* loadError takes the list's place: from there one can only leave.        *)
LoadFails == ui # None /\ ui.loading /\ ui' = None /\ UNCHANGED world

(* The menu's link from a linked list: the component stays, and its        *)
(* filters; its props go, and with them the chip of a donut and the answer *)
(* that is due.  Without the receivables' scope the list is loaded anew.   *)
ToMenu ==
    /\ ui # None /\ ui.link # "menu"
    /\ \E loading \in IF ui.link = "receivables" THEN BOOLEAN ELSE {ui.loading} :
         Render([ui EXCEPT !.link = "menu", !.loading = loading,
                           !.ids = IF @ = "pending" THEN "failed" ELSE @], world)

IdsAnswered ==
    /\ ui # None /\ ui.ids = "pending"
    /\ \E answer \in {"loaded", "failed"} : Render([ui EXCEPT !.ids = answer], world)

Toggle(f) ==
    /\ ui # None /\ f \in Remembered
    /\ Render([ui EXCEPT !.filters = IF f \in @ THEN @ \ {f} ELSE @ \union {f},
                         !.touched = TRUE], world)

(* The × of the chips of a phone and of a conversion donut.                *)
ClearChip(f) ==
    /\ ui # None /\ f \in ui.filters \ Remembered
    /\ f = "conversion" => ui.link = "conversion"
    /\ Render([ui EXCEPT !.filters = @ \ {f}, !.touched = TRUE], world)

(* resetFilters: the stored copy is removed, and written again (empty) by  *)
(* the persist effect that follows.                                        *)
ResetFilters ==
    /\ ui # None
    /\ Render([ui EXCEPT !.filters = {}, !.touched = TRUE], [world EXCEPT !.stored = None])

(* openRow: the card gets the list's own query string as the way back.     *)
OpenRow(o) ==
    /\ ui # None /\ o \in Rows(ui)
    /\ ui' = None
    /\ world' = [world EXCEPT !.opened = IF world.storage THEN o ELSE None, !.from = ui.link,
                              !.reshaped = ui.touched /\ HasUrlFilters(ui.link)]

(* The card's link back to the list (from is None off the card).           *)
GoBack == /\ world # None /\ ui = None /\ world.from # None
          /\ Render(Mounted(world.from, TRUE), [world EXCEPT !.from = None])

(* Any other way out of the list; what was opened stays remembered.        *)
Leave == ui # None /\ ui' = None /\ UNCHANGED world

Answer == LoadEnds \/ LoadFails \/ IdsAnswered
Work == \/ \E link \in Links : Visit(link)
        \/ ToMenu \/ Answer \/ \E f \in Remembered : Toggle(f)
        \/ \E f \in Filters \ Remembered : ClearChip(f)
        \/ ResetFilters \/ \E o \in Orders : OpenRow(o)
        \/ GoBack \/ Leave
Next == Open \/ Close \/ Work
Spec == Init /\ [][Next]_vars /\ WF_vars(Answer)

-----------------------------------------------------------------------------
(* Back from a card the list is on the row that was opened ("can return to *)
(* this exact filtered/scoped view"), unless the user had reshaped a       *)
(* linked view, whose filters the link then sets again, or the orders of   *)
(* the donut could not be fetched, or sessionStorage is refused.           *)
BackOnRow ==
    (ui # None /\ ui.back /\ world.storage /\ ~ui.touched /\ ~ui.loading
        /\ ui.ids \in {"unused", "loaded"} /\ ~world.reshaped) => ui.at = world.opened
=============================================================================
