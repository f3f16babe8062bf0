------------------------------- MODULE Cockpit -------------------------------
(***************************************************************************)
(* The cockpit of one user (src/frontend/components/cockpit) and the month *)
(* it shares with the dashboard (lib/period-override.ts): the controls,    *)
(* the snapshot and its requests, and the drum of the departments, which   *)
(* reports where it came to rest by a timer.  Month 0 is the current one.  *)
(***************************************************************************)
EXTENDS Naturals, FiniteSets

CONSTANTS
    Shops,      \* the rows of the drum
    Whole,      \* the row of the whole company
    Months,     \* months other than the current one that one may pick
    MaxOlder,   \* overtaken requests under way at once (a bound)
    None

VARIABLES
    ui,         \* where the user is, and that page
    world       \* localStorage, and history

vars == <<ui, world>>

(* What a snapshot is asked for by.                                        *)
Controls == [shop: Shops \cup {Whole}, nzp: BOOLEAN, month: Months \cup {0}]

Elsewhere == [at |-> "elsewhere"]
Closed == ui = None /\ world = None
Init == Closed
Open == /\ Closed /\ ui' = Elsewhere
        /\ world' = [month |-> 0, nzp |-> FALSE, stale |-> FALSE]
Close == ui # None /\ ui' = None /\ world' = None

At(page) == ui # None /\ ui.at = page

-----------------------------------------------------------------------------
(* load: the request of a filter counts until the next one is sent.        *)
Load(cockpit, filter) ==
    [cockpit EXCEPT !.filter = filter, !.newest = filter, !.failed = FALSE,
        !.older = IF cockpit.newest = None THEN @ ELSE @ \union {cockpit.newest}]

CanAsk == ui.newest = None \/ Cardinality(ui.older) < MaxOlder

Plain == [shop |-> Whole, nzp |-> FALSE, month |-> 0]
Fresh == [at |-> "cockpit", filter |-> Plain, snapshot |-> Plain, newest |-> None,
          older |-> {}, failed |-> FALSE, drum |-> Whole, timer |-> None]

(* The page comes with the snapshot of the plain filter; the mount effect  *)
(* restores the month and the toggle and asks again when either is set.    *)
VisitCockpit ==
    /\ ui # None /\ ui.at # "cockpit"
    /\ ui' = LET saved == [shop |-> Whole, nzp |-> world.nzp, month |-> world.month]
             IN  IF saved = Plain THEN Fresh ELSE Load(Fresh, saved)
    /\ world' = [world EXCEPT !.stale = FALSE]

(* Mutant of Answered: whichever answer comes is shown.                    *)
AnsweredAny ==
    /\ At("cockpit")
    /\ \E filter \in ui.older \union ({ui.newest} \ {None}) :
         ui' = [ui EXCEPT !.snapshot = filter,
                          !.newest = IF filter \in ui.older THEN @ ELSE None]
    /\ UNCHANGED world

(* The answer of the newest request is shown.                              *)
Answered == /\ At("cockpit") /\ ui.newest # None
            /\ ui' = [ui EXCEPT !.snapshot = ui.newest, !.newest = None]
            /\ UNCHANGED world

Failed == /\ At("cockpit") /\ ui.newest # None
          /\ ui' = [ui EXCEPT !.newest = None, !.failed = TRUE] /\ UNCHANGED world

(* An answer, or a failure, of a request overtaken is dropped.             *)
Dropped == /\ At("cockpit") /\ \E filter \in ui.older : ui' = [ui EXCEPT !.older = @ \ {filter}]
           /\ UNCHANGED world

Refresh == /\ At("cockpit") /\ CanAsk
           /\ ui' = Load(ui, ui.filter) /\ world' = [world EXCEPT !.stale = FALSE]

ToggleNzp ==
    /\ At("cockpit") /\ CanAsk /\ ui' = Load(ui, [ui.filter EXCEPT !.nzp = ~@])
    /\ world' = [world EXCEPT !.nzp = ~ui.filter.nzp, !.stale = FALSE]

(* Mutant of PickMonth: the month stays on this page.                      *)
PickMonthHere(month) ==
    /\ At("cockpit") /\ CanAsk /\ ui' = Load(ui, [ui.filter EXCEPT !.month = month])
    /\ world' = [world EXCEPT !.stale = FALSE]

(* The picker; the current month is the same as the reset lamp.            *)
PickMonth(month) ==
    /\ At("cockpit") /\ CanAsk /\ ui' = Load(ui, [ui.filter EXCEPT !.month = month])
    /\ world' = [world EXCEPT !.month = month, !.stale = FALSE]

-----------------------------------------------------------------------------
(* The drum.  The wheel, a click on a row and the end of a drag report the *)
(* row at once; the scrolling they cause sets the timer, for the handlers  *)
(* of the render they lead to.                                             *)
Turn(shop) ==
    /\ At("cockpit") /\ CanAsk /\ shop # ui.drum
    /\ LET filter == [ui.filter EXCEPT !.shop = shop]
           turned == IF shop = ui.filter.shop THEN ui ELSE Load(ui, filter)
       IN  ui' = [turned EXCEPT !.drum = shop, !.timer = filter]
    /\ world' = IF shop = ui.filter.shop THEN world ELSE [world EXCEPT !.stale = FALSE]

(* Scrolled by a finger: only the timer will report it, with the handlers  *)
(* of this render.                                                         *)
Scroll(shop) ==
    /\ At("cockpit") /\ shop # ui.drum
    /\ ui' = [ui EXCEPT !.drum = shop, !.timer = ui.filter] /\ UNCHANGED world

(* settleScroll, 120 ms later: it compares with the row selected at that   *)
(* render, and asks with the toggle and the month of that render.          *)
Settle ==
    /\ At("cockpit") /\ CanAsk /\ ui.timer # None
    /\ IF ui.drum = ui.timer.shop
       THEN ui' = [ui EXCEPT !.timer = None] /\ UNCHANGED world
       ELSE LET asked == [ui.timer EXCEPT !.shop = ui.drum]
                shown == [ui.filter EXCEPT !.shop = ui.drum]
            IN  /\ ui' = [Load(ui, asked) EXCEPT !.filter = shown, !.timer = None]
                /\ world' = [world EXCEPT !.stale = asked # shown]

-----------------------------------------------------------------------------
(* The dashboard.  The menu reads the month at the click; any other way    *)
(* there is made up for by DashboardPeriodSync as it mounts.               *)
VisitDashboard ==
    /\ ui # None /\ ui.at # "dashboard"
    /\ ui' = [at |-> "dashboard", month |-> world.month, own |-> FALSE] /\ UNCHANGED world

(* DashboardFilters: a period of one's own, which forgets the month.       *)
Submit == /\ At("dashboard") /\ ui' = [ui EXCEPT !.own = TRUE]
          /\ world' = [world EXCEPT !.month = 0]

ResetPeriod ==
    /\ At("dashboard") /\ (ui.own \/ ui.month # 0)
    /\ ui' = [ui EXCEPT !.month = 0, !.own = FALSE] /\ world' = [world EXCEPT !.month = 0]

Leave == ui # None /\ ui.at # "elsewhere" /\ ui' = Elsewhere /\ UNCHANGED world

Answer == Answered \/ Failed \/ Dropped \/ Settle
Work ==
    \/ VisitCockpit \/ Refresh \/ ToggleNzp
    \/ \E month \in Months \union {0} : PickMonth(month)
    \/ \E shop \in Shops : Turn(shop) \/ Scroll(shop)
    \/ VisitDashboard \/ Submit \/ ResetPeriod \/ Leave \/ Answer
Next == Open \/ Close \/ Work
Spec == Init /\ [][Next]_vars /\ WF_vars(Answer)

-----------------------------------------------------------------------------
(* Once the drum rests and nothing is under way the snapshot on the dials  *)
(* is that of the controls, whatever was asked meanwhile ("a slow response *)
(* for a filter the operator already changed away from must never          *)
(* overwrite newer data"); unless the drum settled with the handlers of an *)
(* older render, or the last request failed.                               *)
DialsMatchControls ==
    (At("cockpit") /\ ui.newest = None /\ ui.timer = None /\ ~ui.failed /\ ~world.stale)
        => ui.snapshot = ui.filter /\ ui.drum = ui.filter.shop

(* The month picked in the cockpit is the one the dashboard opens on and   *)
(* the cockpit comes back to, until either page gives it up.               *)
OneMonth ==
    /\ At("cockpit") => ui.filter.month = world.month
    /\ At("dashboard") /\ ~ui.own => ui.month = world.month
=============================================================================
