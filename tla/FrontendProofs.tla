--------------------------- MODULE FrontendProofs ---------------------------
(***************************************************************************)
(* Proofs about the pages of the web application, for any constants: what  *)
(* holds of a page whenever it is the one that is open.                    *)
(***************************************************************************)
EXTENDS Frontend, BodyStagesProofs, TLAPS

(* A page is open after a step because it has been opened, has worked, or  *)
(* was open and nothing happened.                                          *)
LEMMA Visits ==
    ASSUME [UsePage]_all
    PROVE  /\ page' = "orders" => \/ Table!Open
                                  \/ page = "orders" /\ (Table!Work \/ UNCHANGED <<ui, world>>)
           /\ page' = "board" => \/ Board!Open
                                 \/ page = "board" /\ (Board!Work \/ UNCHANGED <<ui, world>>)
           /\ page' = "dialog" => \/ Dialog!Open
                                  \/ page = "dialog" /\ (Dialog!Work \/ UNCHANGED <<ui, world>>)
           /\ page' = "cash" => \/ Desk!Open
                                \/ page = "cash" /\ (Desk!Work \/ UNCHANGED <<ui, world>>)
           /\ page' = "session" => \/ Session!Open
                                   \/ page = "session" /\ (Session!Work \/ UNCHANGED <<ui, world>>)
           /\ page' = "settings" => \/ Settings!Open
                                    \/ page = "settings" /\ (Settings!Work \/ UNCHANGED <<ui, world>>)
           /\ page' = "finance" => \/ Finance!Open
                                   \/ page = "finance" /\ (Finance!Work \/ UNCHANGED <<ui, world>>)
           /\ page' = "aging" => \/ Aging!Open
                                 \/ page = "aging" /\ (Aging!Work \/ UNCHANGED <<ui, world>>)
           /\ page' = "cockpit" => \/ Dials!Open
                                   \/ page = "cockpit" /\ (Dials!Work \/ UNCHANGED <<ui, world>>)
           /\ page' = "calls" => \/ Calls!Open
                                 \/ page = "calls" /\ (Calls!Work \/ UNCHANGED <<ui, world>>)
  <1>1. OpenPage \/ ClosePage \/ OnPage \/ UNCHANGED <<page, ui, world>>
    BY DEF UsePage, all
  <1>2. CASE OpenPage
    BY <1>2 DEF OpenPage
  <1>3. CASE ClosePage
    BY <1>3 DEF ClosePage
  <1>4. CASE OnPage
    BY <1>4 DEF OnPage
  <1>5. CASE UNCHANGED <<page, ui, world>>
    BY <1>5
  <1> QED
    BY <1>1, <1>2, <1>3, <1>4, <1>5

-----------------------------------------------------------------------------
(* Receivables                                                             *)

Memory == [stored: Aging!Filters \cup {None}, chosen: Aging!Filters, unsaved: BOOLEAN]
Mounted == [at: {"mounted", "rendering", "view"}, filters: Aging!Filters, restored: BOOLEAN]

(* What is stored is what was chosen last, unless a write was refused, and *)
(* so is what has been read back.                                          *)
AgingInv ==
    /\ world \in Memory
    /\ ui = [at |-> "elsewhere"] \/ ui \in Mounted
    /\ world.unsaved = FALSE =>
          /\ Aging!Saved = world.chosen
          /\ ui.at \in {"rendering", "view"} => ui.filters = world.chosen

AgingOk == page = "aging" => AgingInv

LEMMA DefaultFilters == Aging!Defaults \in Aging!Filters
  BY DEF Aging!Defaults, Aging!Filters, Aging!Scopes

LEMMA AgingOpen == ASSUME Aging!Open PROVE AgingInv'
  BY DefaultFilters DEF AgingInv, Memory, Aging!Open, Aging!Saved

(* A write that is not refused has stored the filters.                     *)
LEMMA AgingWrite ==
    ASSUME NEW past \in Memory, NEW filters \in Aging!Filters, Aging!Write(filters, past)
    PROVE  /\ world' \in Memory /\ world'.chosen = past.chosen
           /\ world'.unsaved = FALSE => world'.stored = filters /\ past.unsaved = FALSE
  BY DEF Aging!Write, Memory

LEMMA AgingWork == ASSUME AgingInv, Aging!Work PROVE AgingInv'
  <1> DEFINE stored == Aging!Saved
  <1>0. /\ world \in Memory /\ stored \in Aging!Filters /\ Aging!Defaults \in Aging!Filters
        /\ world.unsaved = FALSE => stored = world.chosen
        /\ world' = world => Aging!Saved' = stored
    BY DefaultFilters DEF AgingInv, Memory, Aging!Saved
  <1>1. CASE Aging!Visit
    BY <1>0, <1>1 DEF AgingInv, Mounted, Aging!Visit
  <1>2. ASSUME NEW filters \in Aging!Filters, Aging!SetFilter(filters) PROVE AgingInv'
    <2>1. PICK past \in Memory : past.chosen = filters /\ Aging!Write(filters, past)
      BY <1>0, <1>2 DEF Aging!SetFilter, Aging!Choice, Memory
    <2>2. ui \in Mounted /\ ui' = [ui EXCEPT !.filters = filters]
      BY <1>2 DEF Aging!SetFilter, AgingInv
    <2> QED
      BY <2>1, <2>2, AgingWrite, NoneAssumption DEF AgingInv, Mounted, Aging!Saved
  <1>3. CASE Aging!ResetFilters
    <2>1. /\ world' \in Memory /\ world'.chosen = Aging!Defaults
          /\ world'.stored \in {None, Aging!Defaults}
      BY <1>0, <1>3 DEF Aging!ResetFilters, Aging!Choice, Memory
    <2>2. ui \in Mounted /\ ui' = [ui EXCEPT !.filters = Aging!Defaults]
      BY <1>3 DEF Aging!ResetFilters, AgingInv
    <2> QED
      BY <1>0, <2>1, <2>2 DEF AgingInv, Mounted, Aging!Saved
  <1>4. CASE Aging!Leave
    BY <1>0, <1>4 DEF Aging!Leave, AgingInv
  <1>5. CASE Aging!Login
    BY <1>0, <1>5 DEF Aging!Login, AgingInv, Memory, Aging!Saved
  <1>6. CASE Aging!MountEffects
    BY <1>0, <1>6 DEF Aging!MountEffects, AgingInv, Mounted
  <1>7. CASE Aging!Restored
    <2>1. ui \in Mounted /\ ui' = [ui EXCEPT !.at = "view"] /\ Aging!Write(ui.filters, world)
      BY <1>7 DEF Aging!Restored, AgingInv
    <2>2. ui.filters \in Aging!Filters
      BY <2>1 DEF Mounted
    <2>3. world.unsaved = FALSE => ui.filters = world.chosen
      BY <1>7 DEF Aging!Restored, AgingInv
    <2> QED
      BY <1>0, <2>1, <2>2, <2>3, AgingWrite, NoneAssumption DEF AgingInv, Mounted, Aging!Saved
  <1> QED
    BY <1>1, <1>2, <1>3, <1>4, <1>5, <1>6, <1>7 DEF Aging!Work, Aging!Answer, Aging!OpenCard

(* Receivables: the filters last chosen are there on every return to the   *)
(* page, for any rows, unless a write was refused.                         *)
THEOREM FiltersStay == FrontendSpec => []FiltersRemembered
  <1>1. StartPage => AgingOk
    BY DEF StartPage, AgingOk
  <1>2. AgingOk /\ [UsePage]_all => AgingOk'
    BY Visits, AgingOpen, AgingWork DEF AgingOk, AgingInv, Aging!Saved, Aging!Defaults
  <1>3. AgingOk => FiltersRemembered
    BY DEF AgingOk, AgingInv, Memory, FiltersRemembered, Aging!FiltersRemembered
  <1> QED
    BY <1>1, <1>2, <1>3, PTL DEF FrontendSpec

-----------------------------------------------------------------------------
(* Cockpit                                                                 *)

Dashed == [at: {"dashboard"}, month: Months \cup {0}, own: BOOLEAN]
Cockpits == [at: {"cockpit"}, filter: Dials!Controls, snapshot: Dials!Controls,
             newest: Dials!Controls \cup {None}, older: SUBSET Dials!Controls, failed: BOOLEAN,
             drum: Shops \cup {Whole}, timer: Dials!Controls \cup {None}]

(* The newest request is that of the controls, and so is the snapshot once *)
(* it is answered; the timer compares with the department of the controls. *)
DialsInv ==
    /\ world \in [month: Months \cup {0}, nzp: BOOLEAN, stale: BOOLEAN]
    /\ ui = Dials!Elsewhere \/ ui \in Dashed \/ ui \in Cockpits
    /\ ui \in Dashed /\ ui.own = FALSE => ui.month = world.month
    /\ ui \in Cockpits =>
          /\ ui.filter.month = world.month
          /\ world.stale = FALSE /\ ui.newest # None => ui.newest = ui.filter
          /\ world.stale = FALSE /\ ui.newest = None /\ ui.failed = FALSE =>
                ui.snapshot = ui.filter
          /\ ui.timer = None => ui.drum = ui.filter.shop
          /\ ui.timer # None => ui.timer.shop = ui.filter.shop

DialsOk == page = "cockpit" => DialsInv

LEMMA DialsOpen == ASSUME Dials!Open PROVE DialsInv'
  BY DEF DialsInv, Dials!Open, Dials!Elsewhere, Dashed, Cockpits

(* A request for what is, or is about to be, on the controls.              *)
LEMMA DialsLoad ==
    ASSUME NEW cockpit \in Cockpits, NEW filter \in Dials!Controls
    PROVE  /\ Dials!Load(cockpit, filter) \in Cockpits
           /\ Dials!Load(cockpit, filter).filter = filter
           /\ Dials!Load(cockpit, filter).newest = filter
           /\ Dials!Load(cockpit, filter).drum = cockpit.drum
           /\ Dials!Load(cockpit, filter).timer = cockpit.timer
  BY DEF Dials!Load, Cockpits

LEMMA DialsWork == ASSUME DialsInv, Dials!Work PROVE DialsInv'
  <1>0. /\ world \in [month: Months \cup {0}, nzp: BOOLEAN, stale: BOOLEAN]
        /\ Dials!At("cockpit") => ui \in Cockpits
        /\ Dials!At("dashboard") => ui \in Dashed
        /\ Dials!Elsewhere \notin Dashed /\ Dials!Elsewhere \notin Cockpits
        /\ \A x \in Cockpits : x \notin Dashed
    BY DEF DialsInv, Dials!At, Dials!Elsewhere, Dashed, Cockpits
  <1>1. CASE Dials!VisitCockpit
    <2> DEFINE kept == [shop |-> Whole, nzp |-> world.nzp, month |-> world.month]
    <2>1. /\ Dials!Fresh \in Cockpits /\ Dials!Fresh.timer = None /\ Dials!Fresh.drum = Whole
          /\ Dials!Fresh.filter = Dials!Plain /\ Dials!Fresh.snapshot = Dials!Plain
          /\ Dials!Fresh.newest = None
      BY DEF Dials!Fresh, Dials!Plain, Cockpits, Dials!Controls
    <2>2. kept \in Dials!Controls /\ kept.shop = Whole /\ kept.month = world.month
      BY <1>0 DEF Dials!Controls
    <2>3. /\ ui' = IF kept = Dials!Plain THEN Dials!Fresh ELSE Dials!Load(Dials!Fresh, kept)
          /\ world' = [world EXCEPT !.stale = FALSE]
      BY <1>1 DEF Dials!VisitCockpit
    <2>4. world' \in [month: Months \cup {0}, nzp: BOOLEAN, stale: BOOLEAN]
          /\ world'.month = world.month
      BY <1>0, <2>3
    <2> HIDE DEF kept
    <2> QED
      BY <1>0, <2>1, <2>2, <2>3, <2>4, DialsLoad, NoneAssumption DEF DialsInv
  <1>2. ASSUME Dials!At("cockpit"), NEW filter \in Dials!Controls, ui' = Dials!Load(ui, filter),
               filter.shop = ui.filter.shop,
               world' \in [month: Months \cup {0}, nzp: BOOLEAN, stale: BOOLEAN],
               world'.stale = FALSE, world'.month = filter.month
        PROVE  DialsInv'
    BY <1>0, <1>2, DialsLoad, NoneAssumption DEF DialsInv
  <1>3. CASE Dials!Refresh
    <2>1. ui.filter \in Dials!Controls /\ ui.filter.month = world.month
      BY <1>0, <1>3 DEF Dials!Refresh, DialsInv, Cockpits
    <2> QED
      BY <1>0, <1>2, <1>3, <2>1 DEF Dials!Refresh
  <1>4. CASE Dials!ToggleNzp
    <2>1. ui.filter \in Dials!Controls /\ ui.filter.month = world.month
      BY <1>0, <1>4 DEF Dials!ToggleNzp, DialsInv, Cockpits
    <2>2. PICK filter : filter = [ui.filter EXCEPT !.nzp = ~@]
      OBVIOUS
    <2>5. /\ filter \in Dials!Controls
          /\ filter.shop = ui.filter.shop /\ filter.month = ui.filter.month
      BY <2>1, <2>2 DEF Dials!Controls
    <2>3. /\ ui' = Dials!Load(ui, filter) /\ Dials!At("cockpit")
          /\ world' = [world EXCEPT !.nzp = ~ui.filter.nzp, !.stale = FALSE]
      BY <1>4, <2>2 DEF Dials!ToggleNzp
    <2>4. /\ world' \in [month: Months \cup {0}, nzp: BOOLEAN, stale: BOOLEAN]
          /\ world'.stale = FALSE /\ world'.month = world.month
      BY <1>0, <2>3
    <2> QED
      BY <1>2, <2>1, <2>3, <2>4, <2>5
  <1>5. ASSUME NEW month \in Months \cup {0}, Dials!PickMonth(month) PROVE DialsInv'
    <2>1. ui.filter \in Dials!Controls /\ Dials!At("cockpit")
      BY <1>0, <1>5 DEF Dials!PickMonth, Cockpits
    <2>2. PICK filter : filter = [ui.filter EXCEPT !.month = month]
      OBVIOUS
    <2>4. filter \in Dials!Controls /\ filter.shop = ui.filter.shop /\ filter.month = month
      BY <2>1, <2>2 DEF Dials!Controls
    <2>3. /\ ui' = Dials!Load(ui, filter)
          /\ world' = [world EXCEPT !.month = month, !.stale = FALSE]
      BY <1>5, <2>2 DEF Dials!PickMonth
    <2> QED
      BY <1>0, <1>2, <2>1, <2>3, <2>4
  <1>6. ASSUME NEW shop \in Shops, Dials!Turn(shop) PROVE DialsInv'
    <2>1. ui.filter \in Dials!Controls /\ ui \in Cockpits
      BY <1>0, <1>6 DEF Dials!Turn, Cockpits
    <2>2. PICK filter : filter = [ui.filter EXCEPT !.shop = shop]
      OBVIOUS
    <2>3. /\ filter \in Dials!Controls /\ filter.shop = shop /\ filter.month = ui.filter.month
          /\ (shop = ui.filter.shop => filter = ui.filter)
      BY <2>1, <2>2 DEF Dials!Controls
    <2>4. PICK turned : turned = IF shop = ui.filter.shop THEN ui ELSE Dials!Load(ui, filter)
      OBVIOUS
    <2>5. ui' = [turned EXCEPT !.drum = shop, !.timer = filter]
      BY <1>6, <2>2, <2>4 DEF Dials!Turn
    <2>6. /\ turned \in Cockpits /\ turned.filter = filter
          /\ (shop # ui.filter.shop => turned.newest = filter)
      BY <2>1, <2>3, <2>4, DialsLoad
    <2>7. /\ ui' \in Cockpits /\ ui'.filter = filter /\ ui'.timer = filter
          /\ ui'.newest = turned.newest /\ ui'.snapshot = turned.snapshot
          /\ ui'.failed = turned.failed
      BY <2>3, <2>5, <2>6 DEF Cockpits
    <2>8. /\ world' = IF shop = ui.filter.shop THEN world ELSE [world EXCEPT !.stale = FALSE]
          /\ world' \in [month: Months \cup {0}, nzp: BOOLEAN, stale: BOOLEAN]
          /\ world'.month = world.month
      BY <1>0, <1>6 DEF Dials!Turn
    <2>9. CASE shop = ui.filter.shop
      BY <1>0, <2>1, <2>3, <2>4, <2>7, <2>8, <2>9, NoneAssumption DEF DialsInv
    <2>10. CASE shop # ui.filter.shop
      BY <1>0, <2>1, <2>3, <2>6, <2>7, <2>8, <2>10, NoneAssumption DEF DialsInv
    <2> QED
      BY <2>9, <2>10
  <1>7. ASSUME NEW shop \in Shops, Dials!Scroll(shop) PROVE DialsInv'
    BY <1>0, <1>7, NoneAssumption DEF Dials!Scroll, DialsInv, Cockpits, Dials!Controls
  <1>8. CASE Dials!Settle
    <2>1. /\ ui \in Cockpits /\ ui.timer \in Dials!Controls /\ ui.filter \in Dials!Controls
          /\ ui.drum \in Shops \cup {Whole} /\ ui.timer.shop = ui.filter.shop
      BY <1>0, <1>8 DEF Dials!Settle, DialsInv, Cockpits
    <2>2. CASE ui.drum = ui.timer.shop
      <3>1. ui' = [ui EXCEPT !.timer = None] /\ world' = world
        BY <1>8, <2>2 DEF Dials!Settle
      <3> QED
        BY <1>0, <2>1, <2>2, <3>1 DEF DialsInv, Cockpits
    <2>3. CASE ui.drum # ui.timer.shop
      <3>1. PICK asked, shown : /\ asked = [ui.timer EXCEPT !.shop = ui.drum]
                                /\ shown = [ui.filter EXCEPT !.shop = ui.drum]
        OBVIOUS
      <3>2. /\ asked \in Dials!Controls /\ shown \in Dials!Controls
            /\ shown.shop = ui.drum /\ shown.month = ui.filter.month
        BY <2>1, <3>1 DEF Dials!Controls
      <3>3. PICK loaded : loaded = Dials!Load(ui, asked)
        OBVIOUS
      <3>4. /\ ui' = [loaded EXCEPT !.filter = shown, !.timer = None]
            /\ world' = [world EXCEPT !.stale = asked # shown]
        BY <1>8, <2>3, <3>1, <3>3 DEF Dials!Settle
      <3>5. loaded \in Cockpits /\ loaded.newest = asked /\ loaded.drum = ui.drum
        BY <2>1, <3>2, <3>3, DialsLoad
      <3>6. /\ ui' \in Cockpits /\ ui'.filter = shown /\ ui'.timer = None
            /\ ui'.newest = asked /\ ui'.drum = ui.drum
        BY <3>2, <3>4, <3>5 DEF Cockpits
      <3>7. /\ world' \in [month: Months \cup {0}, nzp: BOOLEAN, stale: BOOLEAN]
            /\ world'.month = world.month /\ (world'.stale = FALSE => asked = shown)
        BY <1>0, <3>4
      <3> QED
        BY <1>0, <2>1, <3>2, <3>6, <3>7, NoneAssumption DEF DialsInv
    <2> QED
      BY <2>2, <2>3
  <1>9. CASE Dials!VisitDashboard
    BY <1>0, <1>9 DEF Dials!VisitDashboard, DialsInv, Cockpits, Dashed
  <1>10. CASE Dials!Submit \/ Dials!ResetPeriod
    BY <1>0, <1>10 DEF Dials!Submit, Dials!ResetPeriod, DialsInv, Cockpits, Dashed
  <1>11. CASE Dials!Leave
    BY <1>0, <1>11 DEF Dials!Leave, DialsInv
  <1>12. CASE Dials!Answered
    BY <1>0, <1>12 DEF Dials!Answered, DialsInv, Cockpits
  <1>13. CASE Dials!Failed
    BY <1>0, <1>13 DEF Dials!Failed, DialsInv, Cockpits
  <1>14. CASE Dials!Dropped
    BY <1>0, <1>14 DEF Dials!Dropped, DialsInv, Cockpits
  <1> QED
    BY <1>1, <1>3, <1>4, <1>5, <1>6, <1>7, <1>8, <1>9, <1>10, <1>11, <1>12, <1>13, <1>14
       DEF Dials!Work, Dials!Answer

LEMMA DialsAlways == FrontendSpec => []DialsOk
  <1>1. StartPage => DialsOk
    BY DEF StartPage, DialsOk
  <1>2. DialsOk /\ [UsePage]_all => DialsOk'
    BY Visits, DialsOpen, DialsWork DEF DialsOk, DialsInv
  <1> QED
    BY <1>1, <1>2, PTL DEF FrontendSpec

(* Cockpit: once the drum rests and nothing is under way the dials show    *)
(* the snapshot of the controls, for any departments and months.           *)
THEOREM DialsFollow == FrontendSpec => []DialsMatchControls
  <1>1. DialsOk => DialsMatchControls
    BY DEF DialsOk, DialsInv, DialsMatchControls, Dials!DialsMatchControls, Dials!At,
           Dials!Elsewhere, Dashed, Cockpits
  <1> QED
    BY <1>1, DialsAlways, PTL

(* Cockpit: the month picked is the one both pages open on.                *)
THEOREM MonthShared == FrontendSpec => []OneMonth
  <1>1. DialsOk => OneMonth
    BY DEF DialsOk, DialsInv, OneMonth, Dials!OneMonth, Dials!At, Dials!Elsewhere, Dashed, Cockpits
  <1> QED
    BY <1>1, DialsAlways, PTL

-----------------------------------------------------------------------------
(* Finance pages                                                           *)

Reports == [year: Years, file: Files \cup {None}]
Dialogs == [year: Years, file: Files \cup {None}, report: Reports \cup {None},
            sent: Reports \cup {None}, busy: BOOLEAN, done: BOOLEAN]
Tables == [tab: {"budgets", "expenses"}, year: Years \cup {Current},
           data: Years \cup {Current, None}, load: Years \cup {Current, None},
           failed: BOOLEAN, dialog: Dialogs \cup {None}]
Writes == [year: Years \cup {Current}, saved: BOOLEAN]
Sendings == [writes: SUBSET Writes, check: {None}, import: Years \cup {None}, overrun: BOOLEAN]

(* A load under way is that of the year on show.                           *)
FinanceInv ==
    /\ ui \in Tables /\ world \in Sendings
    /\ ui.load # None => ui.load = ui.year
    /\ ui.load = None /\ ui.failed = FALSE /\ world.overrun = FALSE => ui.data = ui.year

FinanceOk == page = "finance" => FinanceInv

LEMMA FreshTable ==
    ASSUME NEW tab \in {"budgets", "expenses"}, ui' = Finance!Mounted(tab), world' = Finance!Idle
    PROVE  FinanceInv'
  BY NoneAssumption DEF FinanceInv, Tables, Sendings, Finance!Mounted, Finance!Idle

(* What only the import dialog changes of the page.                        *)
LEMMA DialogStep ==
    ASSUME FinanceInv, NEW dialog \in Dialogs \cup {None}, ui' = [ui EXCEPT !.dialog = dialog],
           world' \in Sendings, world'.overrun = world.overrun
    PROVE  FinanceInv'
  BY DEF FinanceInv, Tables

LEMMA YearStep ==
    ASSUME NEW table \in Tables, NEW year \in Years, ui' = Finance!LoadYear(table, year),
           world' \in Sendings
    PROVE  FinanceInv'
  BY NoneAssumption DEF FinanceInv, Tables, Finance!LoadYear

LEMMA LoaderTable ==
    ASSUME FinanceInv, NEW done \in BOOLEAN
    PROVE  \E dialog \in Dialogs \cup {None} : Finance!Loader(done) = [ui EXCEPT !.dialog = dialog]
  <1>1. CASE ui.dialog # None /\ ui.dialog.busy /\ ui.dialog.sent = None
    <2>1. PICK dialog : dialog = [ui.dialog EXCEPT !.busy = FALSE, !.done = done]
      OBVIOUS
    <2>2. dialog \in Dialogs
      BY <1>1, <2>1 DEF FinanceInv, Tables, Dialogs
    <2>3. Finance!Loader(done) = [ui EXCEPT !.dialog = dialog]
      BY <1>1, <2>1 DEF Finance!Loader, FinanceInv, Tables, Dialogs
    <2> QED
      BY <2>2, <2>3
  <1>2. CASE ~(ui.dialog # None /\ ui.dialog.busy /\ ui.dialog.sent = None)
    <2>1. Finance!Loader(done) = [ui EXCEPT !.dialog = ui.dialog]
      BY <1>2 DEF Finance!Loader, FinanceInv, Tables
    <2> QED
      BY <2>1 DEF FinanceInv, Tables
  <1> QED
    BY <1>1, <1>2

LEMMA FinanceWork == ASSUME FinanceInv, Finance!Work PROVE FinanceInv'
  <1>0. ui \in Tables /\ world \in Sendings
    BY DEF FinanceInv
  <1>1. ASSUME NEW tab \in {"budgets", "expenses"}, Finance!SelectTab(tab) PROVE FinanceInv'
    BY <1>1, FreshTable DEF Finance!SelectTab
  <1>2. ASSUME NEW year \in Years, Finance!ChangeYear(year) PROVE FinanceInv'
    BY <1>0, <1>2, YearStep DEF Finance!ChangeYear
  <1>3. ASSUME NEW year \in Years, NEW file \in Files \cup {None}, Finance!Choose(year, file)
        PROVE  FinanceInv'
    <2>1. PICK dialog : dialog = [ui.dialog EXCEPT !.year = year, !.file = file, !.report = None]
      OBVIOUS
    <2>2. dialog \in Dialogs
      BY <1>0, <1>3, <2>1 DEF Finance!Choose, Tables, Dialogs
    <2>3. ui' = [ui EXCEPT !.dialog = dialog]
      BY <1>0, <1>3, <2>1 DEF Finance!Choose, Tables, Dialogs
    <2> QED
      BY <1>0, <1>3, <2>2, <2>3, DialogStep DEF Finance!Choose
  <1>4. CASE Finance!Commit
    <2>1. PICK w : w = [year |-> ui.year, saved |-> FALSE]
      OBVIOUS
    <2>2. w \in Writes
      BY <1>0, <2>1 DEF Tables, Writes
    <2>3. world' = [world EXCEPT !.writes = @ \union {w}] /\ ui' = ui
      BY <1>4, <2>1 DEF Finance!Commit
    <2>4. world' \in Sendings /\ world'.overrun = world.overrun
      BY <1>0, <2>2, <2>3 DEF Sendings
    <2> QED
      BY <2>3, <2>4 DEF FinanceInv
  <1>5. CASE Finance!OpenImport
    BY <1>0, <1>5, DialogStep DEF Finance!OpenImport, Dialogs
  <1>6. CASE Finance!Check
    <2>1. PICK sent : sent = [year |-> ui.dialog.year, file |-> ui.dialog.file]
      OBVIOUS
    <2>2. PICK dialog : dialog = [ui.dialog EXCEPT !.report = None, !.busy = TRUE, !.sent = sent]
      OBVIOUS
    <2>3. ui.dialog \in Dialogs
      BY <1>0, <1>6 DEF Finance!Check, Tables
    <2>4. dialog \in Dialogs
      BY <2>1, <2>2, <2>3 DEF Dialogs, Reports
    <2>5. ui' = [ui EXCEPT !.dialog = dialog]
      BY <1>0, <1>6, <2>1, <2>2, <2>3 DEF Finance!Check, Tables, Dialogs
    <2> QED
      BY <1>0, <1>6, <2>4, <2>5, DialogStep DEF Finance!Check
  <1>7. CASE Finance!Import
    <2>1. PICK dialog : dialog = [ui.dialog EXCEPT !.busy = TRUE]
      OBVIOUS
    <2>2. ui.dialog \in Dialogs
      BY <1>0, <1>7 DEF Finance!Import, Tables
    <2>3. dialog \in Dialogs
      BY <2>1, <2>2 DEF Dialogs
    <2>4. ui' = [ui EXCEPT !.dialog = dialog]
      BY <1>0, <1>7, <2>1, <2>2 DEF Finance!Import, Tables, Dialogs
    <2>5. world' \in Sendings /\ world'.overrun = world.overrun
      BY <1>0, <1>7, <2>2 DEF Finance!Import, Sendings, Dialogs
    <2> QED
      BY <2>3, <2>4, <2>5, DialogStep
  <1>8. CASE Finance!CloseImport
    BY <1>0, <1>8, DialogStep DEF Finance!CloseImport
  <1>9. CASE Finance!YearLoaded \/ Finance!YearFailed
    BY <1>0, <1>9 DEF Finance!YearLoaded, Finance!YearFailed, FinanceInv, Tables, Sendings
  <1>10. CASE Finance!Checked \/ Finance!CheckFails
    <2>1. ui.dialog \in Dialogs /\ Finance!Checking
      BY <1>0, <1>10 DEF Finance!Checked, Finance!CheckFails, Finance!Checking, Tables
    <2>2. PICK report : /\ report \in {ui.dialog.report, ui.dialog.sent}
                        /\ ui' = [ui EXCEPT !.dialog.report = report, !.dialog.sent = None,
                                            !.dialog.busy = FALSE]
      <3>1. CASE Finance!Checked
        BY <3>1 DEF Finance!Checked
      <3>2. CASE Finance!CheckFails
        <4>1. ui' = [ui EXCEPT !.dialog.report = ui.dialog.report, !.dialog.sent = None,
                               !.dialog.busy = FALSE]
          BY <1>0, <2>1, <3>2 DEF Finance!CheckFails, Tables, Dialogs
        <4> QED
          BY <4>1
      <3> QED
        BY <1>10, <3>1, <3>2
    <2>3. PICK dialog : dialog = [ui.dialog EXCEPT !.report = report, !.sent = None, !.busy = FALSE]
      OBVIOUS
    <2>4. dialog \in Dialogs
      BY <2>1, <2>2, <2>3 DEF Dialogs
    <2>5. ui' = [ui EXCEPT !.dialog = dialog]
      BY <1>0, <2>1, <2>2, <2>3 DEF Tables, Dialogs
    <2> QED
      BY <1>0, <1>10, <2>4, <2>5, DialogStep DEF Finance!Checked, Finance!CheckFails
  <1>11. CASE Finance!Imported
    <2>1. PICK dialog \in Dialogs \cup {None} : Finance!Loader(TRUE) = [ui EXCEPT !.dialog = dialog]
      BY LoaderTable
    <2>2. Finance!Loader(TRUE) \in Tables
      BY <1>0, <2>1 DEF Tables
    <2>3. world.import \in Years /\ world' \in Sendings
      BY <1>0, <1>11 DEF Finance!Imported, Sendings
    <2> QED
      BY <1>11, <2>2, <2>3, YearStep DEF Finance!Imported
  <1>12. CASE Finance!ImportFails
    <2>1. PICK dialog \in Dialogs \cup {None} : Finance!Loader(FALSE) = [ui EXCEPT !.dialog = dialog]
      BY LoaderTable
    <2>2. world' \in Sendings /\ world'.overrun = world.overrun
      BY <1>0, <1>12 DEF Finance!ImportFails, Sendings
    <2> QED
      BY <1>12, <2>1, <2>2, DialogStep DEF Finance!ImportFails
  <1>13. ASSUME NEW w \in world.writes, Finance!Saved(w) \/ Finance!WriteFails(w)
         PROVE  FinanceInv'
    <2>1. w \in Writes /\ world.writes \in SUBSET Writes
      BY <1>0 DEF Sendings
    <2>2. PICK writes : writes \in SUBSET Writes /\ world' = [world EXCEPT !.writes = writes]
      <3>1. [w EXCEPT !.saved = TRUE] \in Writes
        BY <2>1 DEF Writes
      <3>2. CASE Finance!WriteFails(w)
        BY <2>1, <3>2 DEF Finance!WriteFails
      <3>3. CASE Finance!Saved(w)
        BY <2>1, <3>1, <3>3 DEF Finance!Saved
      <3> QED
        BY <1>13, <3>2, <3>3
    <2>3. world' \in Sendings /\ world'.overrun = world.overrun /\ ui' = ui
      BY <1>0, <1>13, <2>2 DEF Finance!Saved, Finance!WriteFails, Sendings
    <2> QED
      BY <2>3 DEF FinanceInv
  <1>14. ASSUME NEW w \in world.writes, Finance!ReRead(w) PROVE FinanceInv'
    BY <1>0, <1>14 DEF Finance!ReRead, FinanceInv, Tables, Sendings, Writes
  <1> QED
    BY <1>1, <1>2, <1>3, <1>4, <1>5, <1>6, <1>7, <1>8, <1>9, <1>10, <1>11, <1>12, <1>13, <1>14
       DEF Finance!Work, Finance!Answer

(* Finance pages: once a year is loaded the cells are those of the year    *)
(* above them, for any years and files and any number of writes under way. *)
THEOREM EditsKept == FrontendSpec => []EditsGoWhereShown
  <1>1. StartPage => FinanceOk
    BY DEF StartPage, FinanceOk
  <1>2. FinanceOk /\ [UsePage]_all => FinanceOk'
    BY Visits, FreshTable, FinanceWork DEF FinanceOk, FinanceInv, Finance!Open
  <1>3. FinanceOk => EditsGoWhereShown
    BY DEF FinanceOk, FinanceInv, Tables, Sendings, EditsGoWhereShown, Finance!EditsGoWhereShown
  <1> QED
    BY <1>1, <1>2, <1>3, PTL DEF FrontendSpec

-----------------------------------------------------------------------------
(* The dialog of a planner record                                          *)

Forms == SUBSET (Fields \cup {"order"})
RecordForms == [key: Dialog!Slots, open: BOOLEAN, form: Forms, lookup: Forms \cup {None},
             confirming: BOOLEAN, error: BOOLEAN]
Typed == [saves: Int, typed: SUBSET Fields, raced: SUBSET Fields]

(* What was typed is in the form, and in the form a lookup was given.      *)
DialogInv ==
    /\ ui \in RecordForms /\ world \in Typed
    /\ world.typed \ world.raced \subseteq ui.form
    /\ ui.lookup # None => world.typed \ world.raced \subseteq ui.lookup

DialogOk == page = "dialog" => DialogInv

LEMMA DialogFresh ==
    ASSUME NEW slot \in Dialog!Slots, world' \in Typed, world'.typed = {},
           \/ ui' = Dialog!Mounted(slot)
           \/ ui' = [Dialog!Mounted(slot) EXCEPT !.open = FALSE]
    PROVE  DialogInv'
  <1>1. PICK mounted : mounted = Dialog!Mounted(slot)
    OBVIOUS
  <1>2. mounted \in RecordForms /\ mounted.lookup = None
    BY <1>1 DEF RecordForms, Forms, Dialog!Mounted
  <1>3. ui' = mounted \/ ui' = [mounted EXCEPT !.open = FALSE]
    BY <1>1
  <1>4. ui' \in RecordForms /\ ui'.lookup = None
    BY <1>2, <1>3 DEF RecordForms
  <1> QED
    BY <1>4 DEF DialogInv

LEMMA DialogWork == ASSUME DialogInv, Dialog!Work PROVE DialogInv'
  <1>0. ui \in RecordForms /\ world \in Typed /\ "new" \in Dialog!Slots
    BY DEF DialogInv, Dialog!Slots
  <1>1. ASSUME NEW slot \in Dialog!Slots, Dialog!OpenRecord(slot) PROVE DialogInv'
    <2>1. CASE slot = ui.key
      BY <1>0, <1>1, <2>1 DEF Dialog!OpenRecord, DialogInv, RecordForms
    <2>2. CASE slot # ui.key
      <3>1. ui' = Dialog!Mounted(slot)
        BY <1>1, <2>2 DEF Dialog!OpenRecord
      <3>2. world' \in Typed /\ world'.typed = {}
        BY <1>0, <1>1, <2>2 DEF Dialog!OpenRecord, Typed
      <3> QED
        BY <3>1, <3>2, DialogFresh
    <2> QED
      BY <2>1, <2>2
  <1>2. CASE Dialog!CloseDialog \/ Dialog!AskDelete \/ Dialog!CancelDelete
    BY <1>0, <1>2 DEF Dialog!CloseDialog, Dialog!AskDelete, Dialog!CancelDelete, DialogInv, RecordForms
  <1>3. ASSUME NEW field \in Fields, Dialog!TypeField(field) PROVE DialogInv'
    <2>1. ui' = [ui EXCEPT !.form = @ \union {field}]
      BY <1>3 DEF Dialog!TypeField, Dialog!Type
    <2>2. ui' \in RecordForms /\ ui'.form = ui.form \cup {field} /\ ui'.lookup = ui.lookup
      BY <1>0, <2>1 DEF RecordForms, Forms
    <2>3. /\ world' \in Typed /\ world'.typed = world.typed \cup {field}
          /\ world'.raced = IF ui.lookup # None THEN world.raced \cup {field} ELSE world.raced
      BY <1>0, <1>3 DEF Dialog!TypeField, Typed
    <2> QED
      BY <2>2, <2>3 DEF DialogInv
  <1>4. CASE Dialog!ChooseOrder
    <2>1. ui' \in RecordForms /\ ui'.form = ui.form \cup {"order"} /\ ui'.lookup = ui.lookup
      BY <1>0, <1>4 DEF Dialog!ChooseOrder, Dialog!ApplyWorkOrder, RecordForms, Forms
    <2> QED
      BY <1>4, <2>1 DEF Dialog!ChooseOrder, DialogInv
  <1>5. CASE Dialog!LookupByPlate
    <2>1. ui' \in RecordForms /\ ui'.form = ui.form /\ ui'.lookup = ui.form
      BY <1>0, <1>5 DEF Dialog!LookupByPlate, RecordForms
    <2> QED
      BY <1>5, <2>1 DEF Dialog!LookupByPlate, DialogInv
  <1>6. CASE Dialog!LookupAnswered
    <2>1. /\ ui' \in RecordForms /\ ui'.lookup = None /\ world' = world
          /\ ui'.form = ui.form \/ ui'.form = ui.lookup \cup {"order"}
      BY <1>0, <1>6 DEF Dialog!LookupAnswered, Dialog!ApplyWorkOrder, RecordForms, Forms
    <2> QED
      BY <1>6, <2>1 DEF Dialog!LookupAnswered, DialogInv
  <1>7. CASE Dialog!Save
    BY <1>0, <1>7 DEF Dialog!Save, DialogInv, Typed
  <1>8. CASE Dialog!Saved
    <2>1. world' = [world EXCEPT !.saves = @ - 1, !.typed = {}, !.raced = {}]
      BY <1>8 DEF Dialog!Saved
    <2>2. world.saves - 1 \in Int
      BY <1>0 DEF Typed
    <2>3. world' \in Typed /\ world'.typed = {}
      BY <1>0, <2>1, <2>2 DEF Typed
    <2> QED
      BY <1>0, <1>8, <2>3, DialogFresh DEF Dialog!Saved
  <1>9. CASE Dialog!SaveRefused
    <2>1. /\ ui' = [ui EXCEPT !.error = TRUE] /\ world' = [world EXCEPT !.saves = @ - 1]
      BY <1>9 DEF Dialog!SaveRefused
    <2>2. world.saves - 1 \in Int
      BY <1>0 DEF Typed
    <2>3. world' \in Typed /\ world'.typed = world.typed /\ world'.raced = world.raced
      BY <1>0, <2>1, <2>2 DEF Typed
    <2>4. ui' \in RecordForms /\ ui'.form = ui.form /\ ui'.lookup = ui.lookup
      BY <1>0, <2>1 DEF RecordForms
    <2> QED
      BY <2>3, <2>4 DEF DialogInv
  <1>10. CASE Dialog!ConfirmDelete
    <2>1. CASE /\ ui' = [Dialog!Mounted("new") EXCEPT !.open = FALSE]
               /\ world' = [world EXCEPT !.typed = {}, !.raced = {}]
      <3>1. world' \in Typed /\ world'.typed = {}
        BY <1>0, <2>1 DEF Typed
      <3> QED
        BY <1>0, <2>1, <3>1, DialogFresh
    <2>2. CASE ui' = [ui EXCEPT !.confirming = FALSE, !.error = TRUE] /\ UNCHANGED world
      BY <1>0, <2>2 DEF DialogInv, RecordForms
    <2> QED
      BY <1>10, <2>1, <2>2 DEF Dialog!ConfirmDelete
  <1> QED
    BY <1>1, <1>2, <1>3, <1>4, <1>5, <1>6, <1>7, <1>8, <1>9, <1>10 DEF Dialog!Work, Dialog!Answer

(* The planner's dialog: what was typed stays in the form, for any fields, *)
(* records and number of saves, but for what a plate lookup raced with.    *)
THEOREM TypingStays == FrontendSpec => []TypingKept
  <1>1. StartPage => DialogOk
    BY DEF StartPage, DialogOk
  <1>2. ASSUME Dialog!Open PROVE DialogInv'
    <2>1. PICK slot \in Dialog!Slots : ui' = Dialog!Mounted(slot)
      BY <1>2 DEF Dialog!Open
    <2>2. world' \in Typed /\ world'.typed = {}
      BY <1>2 DEF Dialog!Open, Typed
    <2> QED
      BY <2>1, <2>2, DialogFresh
  <1>3. DialogOk /\ [UsePage]_all => DialogOk'
    BY <1>2, Visits, DialogWork DEF DialogOk, DialogInv
  <1>4. DialogOk => TypingKept
    BY DEF DialogOk, DialogInv, TypingKept, Dialog!TypingKept
  <1> QED
    BY <1>1, <1>3, <1>4, PTL DEF FrontendSpec

-----------------------------------------------------------------------------
(* The work-order list                                                     *)

Lists == [link: Table!Links, filters: SUBSET Table!Filters, loading: BOOLEAN,
          ids: {"unused", "pending", "loaded", "failed"}, scrolled: BOOLEAN,
          at: Traits \cup {None}, touched: BOOLEAN, back: BOOLEAN]
Tabs == [storage: BOOLEAN, stored: {None} \cup SUBSET Table!Remembered,
         opened: Traits \cup {None}, from: Table!Links \cup {None}, reshaped: BOOLEAN]

(* The filters of a linked list are the link's until the user changes      *)
(* them; the order opened last passes those of the list come back to, and  *)
(* the list has scrolled to it.                                            *)
Linked(p) ==
    /\ Table!HasUrlFilters(p.link) /\ p.touched = FALSE => p.filters = Table!Seeds(p.link)
    /\ "conversion" \in p.filters => p.ids # "unused"
Returned(p, w) ==
    p.back = TRUE /\ w.storage = TRUE /\ p.touched = FALSE /\ w.reshaped = FALSE =>
        w.opened \in Traits /\ p.filters \subseteq w.opened
            /\ (p.scrolled = TRUE => p.at = w.opened)

TableInv ==
    /\ world \in Tabs /\ (ui = None \/ ui \in Lists)
    /\ ui # None =>
          /\ world.from = None /\ Linked(ui) /\ Returned(ui, world)
          /\ world.storage = TRUE => world.stored = ui.filters \cap Table!Remembered
          /\ ui.scrolled = FALSE => ui.loading = TRUE \/ Table!Rows(ui) = {}
    /\ world.from # None /\ world.storage = TRUE /\ world.reshaped = FALSE =>
          world.opened \in Traits
              /\ Table!InitialFilters(world.from, world.stored) \subseteq world.opened

TableOk == page = "orders" => TableInv

LEMMA SeedFilters ==
    ASSUME NEW link \in Table!Links
    PROVE  /\ Table!Seeds(link) \in SUBSET Table!Filters
           /\ ("conversion" \in Table!Seeds(link) <=> link = "conversion")
           /\ (~Table!HasUrlFilters(link) => Table!Seeds(link) = {})
  BY DEF Table!Links, Table!Seeds, Table!Filters, Table!Remembered, Table!HasUrlFilters

(* A list that is rendered keeps its filters, and scrolls when it can.     *)
LEMMA Rendered ==
    ASSUME NEW p \in Lists, NEW w \in Tabs, world \in Tabs, Table!Render(p, w),
           w.from = None, w.storage = world.storage, Linked(p), Returned(p, w)
    PROVE  TableInv'
  <1>1. PICK q : q = Table!ScrollEffect(p, w.opened)
    OBVIOUS
  <1>2. /\ q \in Lists /\ q.filters = p.filters /\ q.link = p.link /\ q.ids = p.ids
        /\ q.loading = p.loading /\ q.touched = p.touched /\ q.back = p.back
        /\ \/ q = p /\ (p.scrolled = TRUE \/ p.loading = TRUE \/ Table!Rows(p) = {})
           \/ /\ q.scrolled = TRUE /\ Table!Rows(p) # {}
              /\ q.at = IF w.opened \in Table!Rows(p) THEN w.opened ELSE None
    <2>1. Table!Rows(p) \subseteq Traits
      BY DEF Table!Rows
    <2> QED
      BY <1>1, <2>1 DEF Table!ScrollEffect, Lists
  <1>3. Linked(q)
    BY <1>2 DEF Linked
  <1>4. Returned(q, w)
    <2> SUFFICES ASSUME p.back = TRUE, w.storage = TRUE, p.touched = FALSE, w.reshaped = FALSE,
                        Table!Rows(p) # {}, w.opened \in Traits, p.filters \subseteq w.opened
                 PROVE  w.opened \in Table!Rows(p)
      BY <1>2 DEF Returned
    <2> QED
      BY DEF Table!Rows
  <1>5. ui' = q /\ Table!Rows(q) = Table!Rows(p)
    BY <1>1, <1>2 DEF Table!Render, Table!Rows
  <1>6. /\ world' = [w EXCEPT !.stored = Table!PersistEffect(p)]
        /\ Table!PersistEffect(p) = IF w.storage = TRUE THEN p.filters \cap Table!Remembered ELSE None
    BY DEF Table!Render, Table!PersistEffect, Tabs
  <1>7. /\ world' \in Tabs /\ world'.from = None /\ world'.storage = w.storage
        /\ world'.opened = w.opened /\ world'.reshaped = w.reshaped
        /\ world'.storage = TRUE => world'.stored = q.filters \cap Table!Remembered
    BY <1>2, <1>6 DEF Tabs
  <1>8. Returned(ui, world)' /\ Linked(ui)'
    <2>1. Linked(ui)'
      BY <1>3, <1>5 DEF Linked
    <2>2. Returned(ui, world)'
      BY <1>4, <1>5, <1>7 DEF Returned
    <2> QED
      BY <2>1, <2>2
  <1>9. Table!Rows(ui)' = Table!Rows(q)
    BY <1>5 DEF Table!Rows
  <1>10. q.scrolled = FALSE => q.loading = TRUE \/ Table!Rows(q) = {}
    BY <1>2, <1>5
  <1> QED
    BY <1>2, <1>5, <1>7, <1>8, <1>9, <1>10 DEF TableInv

LEMMA TableWork == ASSUME TableInv, Table!Work PROVE TableInv'
  <1>0. /\ world \in Tabs /\ (ui # None => ui \in Lists)
        /\ ui # None => Linked(ui) /\ Returned(ui, world) /\ world.from = None
    BY DEF TableInv
  <1>1. ASSUME ui = None, NEW link \in Table!Links, NEW back \in BOOLEAN,
               Table!Render(Table!Mounted(link, back), [world EXCEPT !.from = None]),
               back = TRUE => link = world.from /\ world.from # None
        PROVE  TableInv'
    <2>1. PICK p, w : p = Table!Mounted(link, back) /\ w = [world EXCEPT !.from = None]
      OBVIOUS
    <2>2. /\ w \in Tabs /\ w.from = None /\ w.storage = world.storage /\ w.stored = world.stored
          /\ w.opened = world.opened /\ w.reshaped = world.reshaped
      BY <1>0, <2>1 DEF Tabs
    <2>3. PICK filters : filters = Table!InitialFilters(link, world.stored)
      OBVIOUS
    <2>4. /\ filters \in SUBSET Table!Filters
          /\ Table!HasUrlFilters(link) => filters = Table!Seeds(link)
          /\ "conversion" \in filters => link = "conversion"
      <3>1. CASE Table!HasUrlFilters(link) \/ world.stored = None
        BY <2>3, <3>1, SeedFilters DEF Table!InitialFilters
      <3>2. CASE ~(Table!HasUrlFilters(link) \/ world.stored = None)
        <4>1. /\ world.stored \in SUBSET Table!Remembered /\ Table!Seeds(link) = {}
              /\ filters = (world.stored \ {"individual"}) \union Table!Seeds(link)
          BY <1>0, <2>3, <3>2, SeedFilters DEF Table!InitialFilters, Tabs
        <4>2. "conversion" \notin Table!Remembered
          BY DEF Table!Remembered
        <4>3. filters \in SUBSET Table!Remembered /\ "conversion" \notin filters
          BY <4>1, <4>2
        <4> QED
          BY <3>2, <4>3 DEF Table!Filters
      <3> QED
        BY <3>1, <3>2
    <2>5. /\ p \in Lists /\ p.link = link /\ p.filters = filters /\ p.back = back
          /\ p.scrolled = FALSE /\ (link = "conversion" => p.ids = "pending")
      BY <2>1, <2>3, <2>4 DEF Table!Mounted, Lists
    <2>6. Linked(p)
      BY <2>4, <2>5 DEF Linked
    <2>7. Returned(p, w)
      <3>1. CASE back = TRUE /\ world.storage = TRUE /\ world.reshaped = FALSE
        <4>1. link = world.from /\ world.from # None
          BY <1>1, <3>1
        <4> QED
          BY <2>2, <2>3, <2>5, <3>1, <4>1 DEF TableInv, Returned
      <3>2. CASE ~(back = TRUE /\ world.storage = TRUE /\ world.reshaped = FALSE)
        BY <2>2, <2>5, <3>2 DEF Returned
      <3> QED
        BY <3>1, <3>2
    <2>8. Table!Render(p, w)
      BY <1>1, <2>1
    <2> QED
      BY <1>0, <2>2, <2>5, <2>6, <2>7, <2>8, Rendered
  <1>2. ASSUME NEW link \in Table!Links, Table!Visit(link) PROVE TableInv'
    BY <1>1, <1>2 DEF Table!Visit
  <1>3. CASE Table!GoBack
    <2>1. /\ ui = None /\ world.from # None
          /\ Table!Render(Table!Mounted(world.from, TRUE), [world EXCEPT !.from = None])
      BY <1>3 DEF Table!GoBack
    <2>2. world.from \in Table!Links
      BY <1>0, <2>1 DEF Tabs
    <2> QED
      BY <1>1, <2>1, <2>2
  <1>4. CASE Table!LoadEnds
    <2>1. PICK p : p = [ui EXCEPT !.loading = FALSE]
      OBVIOUS
    <2>2. ui # None /\ ui \in Lists /\ Table!Render(p, world)
      BY <1>0, <1>4, <2>1 DEF Table!LoadEnds
    <2>3. /\ p \in Lists /\ p.link = ui.link /\ p.touched = ui.touched /\ p.filters = ui.filters
          /\ p.ids = ui.ids /\ p.back = ui.back /\ p.scrolled = ui.scrolled /\ p.at = ui.at
      BY <2>1, <2>2 DEF Lists
    <2>4. Linked(p) /\ Returned(p, world)
      BY <1>0, <2>2, <2>3 DEF Linked, Returned
    <2> QED
      BY <1>0, <2>2, <2>3, <2>4, Rendered
  <1>5. CASE Table!ToMenu
    <2>1. PICK busy \in BOOLEAN :
             Table!Render([ui EXCEPT !.link = "menu", !.loading = busy,
                                     !.ids = IF @ = "pending" THEN "failed" ELSE @], world)
      BY <1>0, <1>5 DEF Table!ToMenu, Lists
    <2>2. PICK p : p = [ui EXCEPT !.link = "menu", !.loading = busy,
                                  !.ids = IF @ = "pending" THEN "failed" ELSE @]
      OBVIOUS
    <2>3. ui # None /\ ui \in Lists /\ Table!Render(p, world)
      BY <1>0, <1>5, <2>1, <2>2 DEF Table!ToMenu
    <2>4. /\ p \in Lists /\ p.link = "menu" /\ p.touched = ui.touched /\ p.filters = ui.filters
          /\ p.back = ui.back /\ p.scrolled = ui.scrolled /\ p.at = ui.at
          /\ p.ids = "unused" => ui.ids = "unused"
      BY <2>2, <2>3 DEF Lists, Table!Links
    <2>5. Linked(p) /\ Returned(p, world)
      BY <1>0, <2>3, <2>4 DEF Linked, Returned, Table!HasUrlFilters
    <2> QED
      BY <1>0, <2>3, <2>4, <2>5, Rendered
  <1>6. CASE Table!IdsAnswered
    <2>1. PICK answer \in {"loaded", "failed"} : Table!Render([ui EXCEPT !.ids = answer], world)
      BY <1>6 DEF Table!IdsAnswered
    <2>2. PICK p : p = [ui EXCEPT !.ids = answer]
      OBVIOUS
    <2>3. ui # None /\ ui \in Lists /\ Table!Render(p, world)
      BY <1>0, <1>6, <2>1, <2>2 DEF Table!IdsAnswered
    <2>4. /\ p \in Lists /\ p.link = ui.link /\ p.touched = ui.touched /\ p.filters = ui.filters
          /\ p.ids = answer /\ p.back = ui.back /\ p.scrolled = ui.scrolled /\ p.at = ui.at
      BY <2>2, <2>3 DEF Lists
    <2>5. Linked(p) /\ Returned(p, world)
      BY <1>0, <2>3, <2>4 DEF Linked, Returned
    <2> QED
      BY <1>0, <2>3, <2>4, <2>5, Rendered
  <1>7. ASSUME ui # None, NEW filters \in SUBSET Table!Filters, NEW w \in Tabs,
               w.from = None, w.storage = world.storage,
               "conversion" \in filters => "conversion" \in ui.filters,
               Table!Render([ui EXCEPT !.filters = filters, !.touched = TRUE], w)
        PROVE  TableInv'
    <2>1. PICK p : p = [ui EXCEPT !.filters = filters, !.touched = TRUE]
      OBVIOUS
    <2>2. p \in Lists /\ p.touched = TRUE /\ p.filters = filters /\ p.ids = ui.ids
      BY <1>0, <1>7, <2>1 DEF Lists
    <2>3. Linked(p) /\ Returned(p, w)
      BY <1>0, <1>7, <2>2 DEF Linked, Returned
    <2> QED
      BY <1>0, <1>7, <2>1, <2>2, <2>3, Rendered
  <1>8. ASSUME NEW f \in Table!Remembered, Table!Toggle(f) PROVE TableInv'
    <2>1. PICK filters : filters = IF f \in ui.filters THEN ui.filters \ {f} ELSE ui.filters \union {f}
      OBVIOUS
    <2>2. ui # None /\ ui \in Lists /\ ui.filters \in SUBSET Table!Filters
      BY <1>0, <1>8 DEF Table!Toggle, Lists
    <2>3. Table!Render([ui EXCEPT !.filters = filters, !.touched = TRUE], world)
      BY <1>8, <2>1, <2>2 DEF Table!Toggle, Lists
    <2>4. f # "conversion" /\ f \in Table!Filters
      BY DEF Table!Remembered, Table!Filters
    <2>5. /\ filters \in SUBSET Table!Filters
          /\ "conversion" \in filters => "conversion" \in ui.filters
      BY <2>1, <2>2, <2>4
    <2> QED
      BY <1>0, <1>7, <2>2, <2>3, <2>5
  <1>9. ASSUME NEW f \in Table!Filters \ Table!Remembered, Table!ClearChip(f) PROVE TableInv'
    <2>1. ui # None /\ ui \in Lists /\ ui.filters \in SUBSET Table!Filters
      BY <1>0, <1>9 DEF Table!ClearChip, Lists
    <2>2. Table!Render([ui EXCEPT !.filters = ui.filters \ {f}, !.touched = TRUE], world)
      BY <1>9, <2>1 DEF Table!ClearChip, Lists
    <2> QED
      BY <1>0, <1>7, <2>1, <2>2
  <1>10. CASE Table!ResetFilters
    <2>1. PICK w : w = [world EXCEPT !.stored = None]
      OBVIOUS
    <2>2. w \in Tabs /\ w.from = world.from /\ w.storage = world.storage
      BY <1>0, <2>1 DEF Tabs
    <2>3. ui # None /\ ui \in Lists /\ Table!Render([ui EXCEPT !.filters = {}, !.touched = TRUE], w)
      BY <1>0, <1>10, <2>1 DEF Table!ResetFilters
    <2> QED
      BY <1>0, <1>7, <2>2, <2>3
  <1>11. ASSUME NEW o \in Traits, Table!OpenRow(o) PROVE TableInv'
    <2>1. /\ ui # None /\ ui \in Lists /\ o \in Table!Rows(ui) /\ ui' = None
          /\ world' = [world EXCEPT !.opened = IF world.storage THEN o ELSE None, !.from = ui.link,
                                    !.reshaped = ui.touched /\ Table!HasUrlFilters(ui.link)]
      BY <1>0, <1>11 DEF Table!OpenRow
    <2>2. ui.link \in Table!Links /\ ui.filters \subseteq o
      BY <2>1 DEF Lists, Table!Rows
    <2>3. /\ world' \in Tabs /\ world'.from = ui.link /\ world'.storage = world.storage
          /\ world'.stored = world.stored
          /\ world.storage = TRUE => world'.opened = o
          /\ world'.reshaped = FALSE => ui.touched = FALSE \/ ~Table!HasUrlFilters(ui.link)
      BY <1>0, <2>1, <2>2 DEF Tabs, Lists, Table!HasUrlFilters
    <2>4. ASSUME world'.storage = TRUE, world'.reshaped = FALSE
          PROVE  Table!InitialFilters(ui.link, world.stored) \subseteq o
      <3>1. world.stored = ui.filters \cap Table!Remembered
        BY <2>1, <2>3, <2>4 DEF TableInv
      <3>2. CASE Table!HasUrlFilters(ui.link)
        BY <1>0, <2>1, <2>2, <2>3, <2>4, <3>2 DEF Linked, Table!InitialFilters
      <3>3. CASE ~Table!HasUrlFilters(ui.link)
        <4>1. Table!Seeds(ui.link) = {}
          BY <2>2, <3>3, SeedFilters
        <4> QED
          BY <2>2, <3>1, <3>3, <4>1 DEF Table!InitialFilters
      <3> QED
        BY <3>2, <3>3
    <2> QED
      BY <2>1, <2>3, <2>4 DEF TableInv
  <1>12. CASE Table!LoadFails \/ Table!Leave
    BY <1>0, <1>12 DEF Table!LoadFails, Table!Leave, TableInv
  <1> QED
    BY <1>2, <1>3, <1>4, <1>5, <1>6, <1>8, <1>9, <1>10, <1>11, <1>12 DEF Table!Work, Table!Answer

LEMMA TableOpens == ASSUME Table!Open PROVE TableInv'
  <1>1. PICK storage \in BOOLEAN :
           world' = [storage |-> storage, stored |-> None, opened |-> None, from |-> None,
                     reshaped |-> FALSE]
    BY DEF Table!Open
  <1>2. world' \in Tabs /\ world'.from = None /\ ui' = None
    BY <1>1 DEF Table!Open, Tabs
  <1> QED
    BY <1>2 DEF TableInv

(* Back from a card, the list is on the row it was left by.                *)
THEOREM BackThere == FrontendSpec => []BackOnRow
  <1>1. StartPage => TableOk
    BY DEF StartPage, TableOk
  <1>2. TableOk /\ [UsePage]_all => TableOk'
    <2> SUFFICES ASSUME TableOk, [UsePage]_all, page' = "orders" PROVE TableInv'
      BY DEF TableOk
    <2>1. CASE Table!Open
      BY <2>1, TableOpens
    <2>2. CASE page = "orders" /\ Table!Work
      BY <2>2, TableWork DEF TableOk
    <2>3. CASE page = "orders" /\ UNCHANGED <<ui, world>>
      BY <2>3 DEF TableOk, TableInv, Linked, Returned, Table!Rows
    <2> QED
      BY <2>1, <2>2, <2>3, Visits
  <1>3. TableOk => BackOnRow
    <2> SUFFICES ASSUME TableInv, ui # None, ui.back = TRUE, world.storage = TRUE,
                        ui.touched = FALSE, ui.loading = FALSE,
                        ui.ids \in {"unused", "loaded"}, world.reshaped = FALSE
                 PROVE  ui.at = world.opened
      BY DEF TableOk, BackOnRow, Table!BackOnRow, TableInv, Lists, Tabs
    <2>1. world.opened \in Traits /\ ui.filters \subseteq world.opened /\ Linked(ui)
          /\ (ui.scrolled = TRUE => ui.at = world.opened) /\ ui \in Lists
      BY DEF TableInv, Returned
    <2>2. world.opened \in Table!Rows(ui)
      BY <2>1 DEF Table!Rows, Linked
    <2>3. ui.scrolled = TRUE
      BY <2>1, <2>2 DEF TableInv, Lists
    <2> QED
      BY <2>1, <2>3
  <1> QED
    BY <1>1, <1>2, <1>3, PTL DEF FrontendSpec

-----------------------------------------------------------------------------
(* The cash page                                                           *)

Views == [desk: Desks, day: Days \cup {Today}]
Books == [view: Views, late: BOOLEAN]
Desktops == [view: Views, book: Views \cup {None}, late: BOOLEAN, asks: Seq(Books),
             dialog: [entry: Views \cup {None}] \cup {None}, others: SUBSET Days]
Errands == [search: BOOLEAN, save: [day: Days \cup {Today}, view: Views] \cup {None},
            openedFor: Views \cup {None}, jumped: BOOLEAN]

(* The book asked for last is that of the view, unless it is marked late;  *)
(* so is the one that has come once none is awaited.                       *)
Asked(p) ==
    IF Len(p.asks) = 0 THEN p.late = TRUE \/ p.book \in {p.view, None}
    ELSE p.asks[Len(p.asks)].late = TRUE \/ p.asks[Len(p.asks)].view = p.view

(* The dialog writes where it was opened.                                  *)
Aimed(p, w) ==
    p.dialog # None /\ w.jumped = FALSE => Desk!Target(p.dialog, p.view) = w.openedFor

DeskInv == ui \in Desktops /\ world \in Errands /\ Asked(ui) /\ Aimed(ui, world)
DeskOk == page = "cash" => DeskInv

(* What remains of the requests when one of them is answered.              *)
LEMMA BooksRemain ==
    ASSUME NEW asks \in Seq(Books), NEW i \in 1..Len(asks)
    PROVE  /\ Desk!Remaining(asks, i) \in Seq(Books)
           /\ Len(Desk!Remaining(asks, i)) = Len(asks) - 1
           /\ Len(asks) > 1 =>
                 IF i = Len(asks) THEN Desk!Remaining(asks, i)[Len(asks) - 1].late = TRUE
                 ELSE Desk!Remaining(asks, i)[Len(asks) - 1] = asks[Len(asks)]
  <1> DEFINE kept(k) == IF k < i THEN [asks[k] EXCEPT !.late = TRUE] ELSE asks[k + 1]
  <1> DEFINE rest == Desk!Remaining(asks, i)
  <1>0. Len(asks) \in Nat /\ Len(asks) > 0 /\ i \in Nat /\ i > 0 /\ i <= Len(asks)
    OBVIOUS
  <1>1. rest = [k \in 1..(Len(asks) - 1) |-> kept(k)]
    BY DEF Desk!Remaining
  <1>2. \A k \in 1..(Len(asks) - 1) :
           /\ kept(k) \in Books
           /\ IF k < i THEN kept(k).late = TRUE ELSE kept(k) = asks[k + 1]
    <2> TAKE k \in 1..(Len(asks) - 1)
    <2>1. PICK a \in Books : a = asks[k]
      BY <1>0
    <2>2. [a EXCEPT !.late = TRUE] \in Books /\ [a EXCEPT !.late = TRUE].late = TRUE
      BY DEF Books
    <2>3. asks[k + 1] \in Books
      BY <1>0
    <2>4. kept(k) = IF k < i THEN [a EXCEPT !.late = TRUE] ELSE asks[k + 1]
      BY <2>1
    <2> HIDE DEF kept
    <2> QED
      BY <1>0, <2>2, <2>3, <2>4
  <1> HIDE DEF kept, rest
  <1>3. \A k \in 1..(Len(asks) - 1) : kept(k) \in Books
    BY <1>2
  <1>4. rest \in Seq(Books) /\ Len(rest) = Len(asks) - 1
    BY <1>0, <1>1, <1>3
  <1>5. ASSUME Len(asks) > 1
        PROVE  IF i = Len(asks) THEN rest[Len(asks) - 1].late = TRUE
               ELSE rest[Len(asks) - 1] = asks[Len(asks)]
    <2>1. PICK k : k = Len(asks) - 1
      OBVIOUS
    <2>2. k \in 1..(Len(asks) - 1) /\ k + 1 = Len(asks) /\ (k < i <=> i = Len(asks))
      BY <1>0, <1>5, <2>1
    <2>3. rest[k] = kept(k)
      BY <1>1, <2>2
    <2>4. IF k < i THEN kept(k).late = TRUE ELSE kept(k) = asks[k + 1]
      BY <1>2, <2>2
    <2> QED
      BY <2>1, <2>2, <2>3, <2>4
  <1> QED
    BY <1>4, <1>5 DEF rest

(* A book more is asked for.                                               *)
LEMMA BookAsked ==
    ASSUME NEW p \in Desktops, NEW ask \in Books
    PROVE  LET q == [p EXCEPT !.asks = Append(@, ask)]
           IN  /\ q \in Desktops /\ q.view = p.view /\ q.dialog = p.dialog
               /\ (ask.late = TRUE \/ ask.view = p.view) => Asked(q)
  <1>0. PICK asks \in Seq(Books) : asks = Append(p.asks, ask)
    <2>1. p.asks \in Seq(Books)
      BY DEF Desktops
    <2>2. Append(p.asks, ask) \in Seq(Books)
      BY <2>1
    <2> QED
      BY <2>2
  <1>1. PICK q : q = [p EXCEPT !.asks = asks]
    OBVIOUS
  <1>2. q.asks = asks /\ q \in Desktops /\ q.view = p.view /\ q.dialog = p.dialog
    BY <1>1 DEF Desktops
  <1>3. Len(q.asks) > 0 /\ q.asks[Len(q.asks)] = ask
    <2>1. p.asks \in Seq(Books)
      BY DEF Desktops
    <2> QED
      BY <1>0, <1>2, <2>1
  <1>4. (ask.late = TRUE \/ ask.view = p.view) => Asked(q)
    BY <1>2, <1>3 DEF Asked
  <1> QED
    BY <1>0, <1>1, <1>2, <1>4

LEMMA ViewShown ==
    ASSUME NEW p \in Desktops, NEW v \in Views, Asked(p)
    PROVE  /\ Desk!Show(v, p) \in Desktops /\ Asked(Desk!Show(v, p))
           /\ Desk!Show(v, p).view = v /\ Desk!Show(v, p).dialog = p.dialog
  <1>1. PICK q : q = [p EXCEPT !.view = v]
    OBVIOUS
  <1>2. q \in Desktops /\ q.view = v /\ q.dialog = p.dialog
    BY <1>1 DEF Desktops
  <1>3. PICK ask : ask = Desk!Ask(v, FALSE)
    OBVIOUS
  <1>4. ask \in Books /\ ask.view = v
    BY <1>3 DEF Desk!Ask, Books
  <1>5. CASE v = p.view
    BY <1>5 DEF Desk!Show
  <1>6. CASE v # p.view
    <2>1. Desk!Show(v, p) = [q EXCEPT !.asks = Append(@, ask)]
      BY <1>1, <1>2, <1>3, <1>6 DEF Desk!Show, Desk!Load
    <2> QED
      BY <1>2, <1>4, <2>1, BookAsked
  <1> QED
    BY <1>5, <1>6

LEMMA DeskWork == ASSUME DeskInv, Desk!Work PROVE DeskInv'
  <1>0. ui \in Desktops /\ world \in Errands /\ Asked(ui) /\ Aimed(ui, world) /\ ui.view \in Views
    BY DEF DeskInv, Desktops
  <1>1. ASSUME NEW p \in Desktops, NEW v \in Views, Asked(p), p.dialog = None,
               ui' = Desk!Show(v, p), UNCHANGED world
        PROVE  DeskInv'
    <2>1. PICK q \in Desktops : q = Desk!Show(v, p) /\ Asked(q) /\ q.dialog = None
      BY <1>1, ViewShown
    <2>2. Aimed(q, world)
      BY <2>1 DEF Aimed
    <2> QED
      BY <1>0, <1>1, <2>1, <2>2 DEF DeskInv
  <1>2. ASSUME NEW others \in SUBSET Days
        PROVE  LET p == [ui EXCEPT !.others = others]
               IN  /\ p \in Desktops /\ Asked(p) /\ p.dialog = ui.dialog /\ p.view = ui.view
                   /\ Aimed(p, world)
    BY <1>0 DEF Desktops, Asked, Aimed
  <1>3. \A day \in Days : Desk!View(ui.view.desk, day) \in Views
    BY <1>0 DEF Views, Desk!View
  <1>4. ASSUME NEW desk \in Desks, Desk!SelectDesk(desk) PROVE DeskInv'
    <2>1. PICK p \in Desktops : p = [ui EXCEPT !.others = {}] /\ Asked(p) /\ p.dialog = ui.dialog
      BY <1>2
    <2>2. Desk!View(desk, ui.view.day) \in Views
      BY <1>0 DEF Views, Desk!View
    <2> QED
      BY <1>1, <1>4, <2>1, <2>2 DEF Desk!SelectDesk, Desk!Free
  <1>5. ASSUME NEW day \in Days, Desk!SelectDay(day) PROVE DeskInv'
    BY <1>0, <1>1, <1>3, <1>5 DEF Desk!SelectDay, Desk!Free
  <1>6. ASSUME NEW day \in Days, Desk!NextHit(day) PROVE DeskInv'
    <2>1. ui.others \ {day} \in SUBSET Days
      BY <1>0 DEF Desktops
    <2>2. PICK p \in Desktops : p = [ui EXCEPT !.others = ui.others \ {day}] /\ Asked(p) /\ p.dialog = ui.dialog
      BY <1>2, <2>1
    <2>3. ui.dialog = None /\ ui' = Desk!Show(Desk!View(ui.view.desk, day), p) /\ UNCHANGED world
      BY <1>0, <1>6, <2>2 DEF Desk!NextHit, Desk!Free, Desktops
    <2> QED
      BY <1>1, <1>3, <2>2, <2>3
  <1>7. ASSUME NEW i \in 1..MaxAsks, Desk!BookAnswered(i) PROVE DeskInv'
    <2>1. i \in 1..Len(ui.asks) /\ world' = world
          /\ \E book \in Views \cup {None} :
                /\ book \in {ui.asks[i].view, None}
                /\ ui' = [ui EXCEPT !.book = book, !.late = ui.asks[i].late,
                                    !.asks = Desk!Remaining(ui.asks, i)]
      <3>1. ui.asks \in Seq(Books) /\ i \in 1..Len(ui.asks)
        BY <1>0, <1>7 DEF Desktops, Desk!BookAnswered
      <3>2. ui.asks[i].view \in Views /\ world' = world
        <4>1. ui.asks[i] \in Books
          BY <3>1
        <4>2. world' = world
          BY <1>7 DEF Desk!BookAnswered
        <4> QED
          BY <4>1, <4>2 DEF Books
      <3> DEFINE arrived(book) == ui' = [ui EXCEPT !.book = book, !.late = ui.asks[i].late,
                                                   !.asks = Desk!Remaining(ui.asks, i)]
      <3>3. arrived(ui.asks[i].view) \/ arrived(None)
        BY <1>7 DEF Desk!BookAnswered, Desk!Arrive
      <3> HIDE DEF arrived
      <3>4. \E book \in Views \cup {None} : book \in {ui.asks[i].view, None} /\ arrived(book)
        BY <3>2, <3>3
      <3> QED
        BY <3>1, <3>2, <3>4 DEF arrived
    <2>2. PICK book \in Views \cup {None} :
             /\ book \in {ui.asks[i].view, None}
             /\ ui' = [ui EXCEPT !.book = book, !.late = ui.asks[i].late,
                                 !.asks = Desk!Remaining(ui.asks, i)]
      BY <2>1
    <2>3. ui.asks \in Seq(Books) /\ ui.asks[i] \in Books
      BY <1>0, <2>1 DEF Desktops
    <2>4. PICK asks \in Seq(Books) :
             /\ asks = Desk!Remaining(ui.asks, i) /\ Len(asks) = Len(ui.asks) - 1
             /\ Len(ui.asks) > 1 => IF i = Len(ui.asks) THEN asks[Len(ui.asks) - 1].late = TRUE
                                    ELSE asks[Len(ui.asks) - 1] = ui.asks[Len(ui.asks)]
      BY <2>1, <2>3, BooksRemain
    <2>5. PICK over \in BOOLEAN : over = ui.asks[i].late
      BY <2>3 DEF Books
    <2>6. /\ ui' \in Desktops /\ ui'.view = ui.view /\ ui'.book = book /\ ui'.asks = asks
          /\ ui'.late = over /\ ui'.dialog = ui.dialog
      BY <1>0, <2>2, <2>4, <2>5 DEF Desktops
    <2>7. Asked(ui)'
      <3>0. PICK n \in Nat : n = Len(ui.asks) /\ i \in 1..n /\ Len(asks) = n - 1
        BY <2>1, <2>3, <2>4
      <3> n > 0
        BY <3>0
      <3>1. CASE n = 1
        <4>1. i = n /\ Len(asks) = 0
          BY <3>0, <3>1
        <4>2. ui.asks[i].late = TRUE \/ ui.asks[i].view = ui.view
          BY <1>0, <3>0, <3>1, <4>1 DEF Asked
        <4>3. ui'.late = TRUE \/ ui'.book \in {ui'.view, None}
          BY <2>2, <2>5, <2>6, <4>2
        <4> QED
          BY <2>6, <4>1, <4>3 DEF Asked
      <3>2. CASE n # 1
        <4>1. n > 1 /\ n # 0 /\ n - 1 # 0
          BY <3>2
        <4>2. ui.asks[n].late = TRUE \/ ui.asks[n].view = ui.view
          BY <1>0, <3>0, <4>1 DEF Asked
        <4>3. asks[n - 1].late = TRUE \/ asks[n - 1].view = ui.view
          BY <2>4, <3>0, <4>1, <4>2
        <4> QED
          BY <2>6, <3>0, <4>1, <4>3 DEF Asked
      <3> QED
        BY <3>1, <3>2
    <2>8. Aimed(ui, world)'
      BY <1>0, <2>1, <2>6 DEF Aimed
    <2> QED
      BY <1>0, <2>1, <2>6, <2>7, <2>8 DEF DeskInv
  <1>8. CASE Desk!RunSearch
    BY <1>0, <1>8 DEF DeskInv, Desk!RunSearch, Errands, Aimed
  <1>9. CASE Desk!SearchAnswered
    <2>1. CASE Desk!NotFound
      <3>1. ui' = [ui EXCEPT !.others = {}] /\ world' = [world EXCEPT !.search = FALSE]
        BY <2>1 DEF Desk!NotFound
      <3>2. world' \in Errands /\ world'.jumped = world.jumped /\ world'.openedFor = world.openedFor
        BY <1>0, <3>1 DEF Errands
      <3>3. PICK p \in Desktops : /\ p = [ui EXCEPT !.others = {}] /\ Asked(p)
                                  /\ p.dialog = ui.dialog /\ p.view = ui.view
        BY <1>2
      <3>4. ui' \in Desktops /\ Asked(ui)' /\ Aimed(ui, world)'
        BY <1>0, <3>1, <3>2, <3>3 DEF Aimed, Asked
      <3> QED
        BY <3>2, <3>4 DEF DeskInv
    <2>2. ASSUME NEW first \in Days, NEW others \in SUBSET (Days \ {first}), Desk!Found(first, others)
          PROVE  DeskInv'
      <3>1. PICK p \in Desktops : p = [ui EXCEPT !.others = others] /\ Asked(p) /\ p.dialog = ui.dialog
        BY <1>2
      <3>2. PICK v \in Views : v = Desk!View(ui.view.desk, first)
        BY <1>3
      <3>3. ui' = Desk!Show(v, p)
        BY <2>2, <3>1, <3>2 DEF Desk!Found
      <3>4. ui' \in Desktops /\ Asked(ui)' /\ ui'.dialog = ui.dialog
        BY <3>1, <3>3, ViewShown DEF Asked
      <3>5. world' \in Errands /\ (ui.dialog # None => world'.jumped = TRUE)
        BY <1>0, <2>2 DEF Desk!Found, Errands
      <3>6. Aimed(ui, world)'
        BY <3>4, <3>5 DEF Aimed
      <3> QED
        BY <3>4, <3>5, <3>6 DEF DeskInv
    <2> QED
      BY <1>9, <2>1, <2>2 DEF Desk!SearchAnswered
  <1>10. ASSUME NEW dialog \in [entry: Views \cup {None}], NEW v \in Views,
                Desk!Target(dialog, ui.view) = v, ui' = [ui EXCEPT !.dialog = dialog],
                world' = [world EXCEPT !.openedFor = v, !.jumped = FALSE]
         PROVE  DeskInv'
    <2>1. ui' \in Desktops /\ ui'.view = ui.view /\ ui'.dialog = dialog
          /\ ui'.asks = ui.asks /\ ui'.late = ui.late /\ ui'.book = ui.book
      BY <1>0, <1>10 DEF Desktops
    <2>2. world' \in Errands /\ world'.openedFor = v
      BY <1>0, <1>10 DEF Errands
    <2>3. Asked(ui)' /\ Aimed(ui, world)'
      BY <1>0, <1>10, <2>1, <2>2 DEF Asked, Aimed
    <2> QED
      BY <2>1, <2>2, <2>3 DEF DeskInv
  <1>11. CASE Desk!OpenNew
    <2>1. PICK dialog : dialog = [entry |-> None]
      OBVIOUS
    <2>2. dialog \in [entry: Views \cup {None}] /\ dialog.entry = None
      BY <2>1
    <2>3. Desk!Target(dialog, ui.view) = ui.view
      BY <1>0, <2>2 DEF Desk!Target, Desk!DateOf, Desk!View, Views
    <2> QED
      BY <1>0, <1>10, <1>11, <2>1, <2>2, <2>3 DEF Desk!OpenNew
  <1>12. CASE Desk!OpenEntry
    <2>1. PICK dialog : dialog = [entry |-> ui.book]
      OBVIOUS
    <2>2. ui.book # None /\ ui.book \in Views
      BY <1>0, <1>12 DEF Desk!OpenEntry, Desktops
    <2>3. dialog \in [entry: Views \cup {None}] /\ dialog.entry = ui.book
      BY <2>1, <2>2
    <2>4. Desk!Target(dialog, ui.view) = ui.book
      BY <2>2, <2>3 DEF Desk!Target
    <2> QED
      BY <1>10, <1>12, <2>1, <2>2, <2>3, <2>4 DEF Desk!OpenEntry
  <1>13. CASE Desk!CloseDialog
    BY <1>0, <1>13 DEF Desk!CloseDialog, DeskInv, Desktops, Errands, Asked, Aimed
  <1>14. CASE Desk!Save
    <2>1. PICK v : v = Desk!Target(ui.dialog, ui.view)
      OBVIOUS
    <2>2. ui' = ui /\ world' = [world EXCEPT !.save = [day |-> v.day, view |-> ui.view]]
      BY <1>14, <2>1 DEF Desk!Save
    <2>3. v \in Views
      <3>1. ui.dialog \in [entry: Views \cup {None}]
        BY <1>0, <1>14 DEF Desk!Save, Desktops
      <3> QED
        BY <1>0, <2>1, <3>1 DEF Desk!Target, Desk!DateOf, Desk!View, Views
    <2>4. /\ world' \in Errands /\ world'.openedFor = world.openedFor
          /\ world'.jumped = world.jumped
      <3>1. v.day \in Days \cup {Today}
        BY <2>3 DEF Views
      <3> QED
        BY <1>0, <2>2, <3>1 DEF Errands
    <2>5. Asked(ui)' /\ Aimed(ui, world)'
      BY <1>0, <2>2, <2>4 DEF Asked, Aimed
    <2> QED
      BY <1>0, <2>2, <2>4, <2>5 DEF DeskInv
  <1>15. CASE Desk!Saved
    <2>1. PICK ask : ask = Desk!Ask(world.save.view, world.save.view # ui.view)
      OBVIOUS
    <2>2. ui' = [[ui EXCEPT !.asks = Append(@, ask)] EXCEPT !.dialog = None]
      BY <1>0, <1>15, <2>1 DEF Desk!Saved, Desktops
    <2>3. ask \in Books /\ (ask.late = TRUE \/ ask.view = ui.view)
      <3>1. world.save \in [day: Days \cup {Today}, view: Views]
        BY <1>0, <1>15 DEF Desk!Saved, Errands
      <3> QED
        BY <2>1, <3>1 DEF Desk!Ask, Books
    <2>4. PICK q \in Desktops : q = [ui EXCEPT !.asks = Append(@, ask)] /\ Asked(q)
      BY <1>0, <2>3, BookAsked
    <2>5. ui' \in Desktops /\ ui'.dialog = None /\ Asked(ui)'
      BY <2>2, <2>4 DEF Desktops, Asked
    <2>6. world' \in Errands
      BY <1>0, <1>15 DEF Desk!Saved, Errands
    <2> QED
      BY <2>5, <2>6 DEF DeskInv, Aimed
  <1>16. CASE Desk!SaveRefused
    BY <1>0, <1>16 DEF Desk!SaveRefused, DeskInv, Errands, Asked, Aimed
  <1> QED
    BY <1>4, <1>5, <1>6, <1>7, <1>8, <1>9, <1>11, <1>12, <1>13, <1>14, <1>15, <1>16
    DEF Desk!Work, Desk!Answer

LEMMA DeskOpens == ASSUME Desk!Open PROVE DeskInv'
  <1>1. PICK desk \in Desks :
           ui' = Desk!Load([view |-> Desk!View(desk, Today), book |-> None, late |-> FALSE,
                            asks |-> <<>>, dialog |-> None, others |-> {}])
    BY DEF Desk!Open
  <1>2. PICK v \in Views : v = Desk!View(desk, Today)
    BY DEF Views, Desk!View
  <1>3. PICK p : p = [view |-> v, book |-> None, late |-> FALSE, asks |-> <<>>,
                      dialog |-> None, others |-> {}]
    OBVIOUS
  <1>4. p \in Desktops /\ p.view = v /\ p.dialog = None
    <2>1. <<>> \in Seq(Books)
      OBVIOUS
    <2> QED
      BY <1>3, <2>1 DEF Desktops
  <1>0. PICK ask : ask = Desk!Ask(v, FALSE)
    OBVIOUS
  <1>5. ask \in Books /\ ask.view = v
    BY <1>0 DEF Books, Desk!Ask
  <1>6. PICK q \in Desktops : q = [p EXCEPT !.asks = Append(@, ask)] /\ Asked(q) /\ q.dialog = None
    BY <1>4, <1>5, BookAsked
  <1>7. ui' = q
    <2>1. ui' = Desk!Load(p)
      BY <1>1, <1>2, <1>3
    <2> QED
      BY <1>0, <1>4, <1>6, <2>1 DEF Desk!Load
  <1>8. world' \in Errands
    BY DEF Desk!Open, Errands
  <1> QED
    BY <1>6, <1>7, <1>8 DEF DeskInv, Aimed

LEMMA DeskAlways == FrontendSpec => []DeskOk
  <1>1. StartPage => DeskOk
    BY DEF StartPage, DeskOk
  <1>2. DeskOk /\ [UsePage]_all => DeskOk'
    <2> SUFFICES ASSUME DeskOk, [UsePage]_all, page' = "cash" PROVE DeskInv'
      BY DEF DeskOk
    <2>1. CASE Desk!Open
      BY <2>1, DeskOpens
    <2>2. CASE page = "cash" /\ Desk!Work
      BY <2>2, DeskWork DEF DeskOk
    <2>3. CASE page = "cash" /\ UNCHANGED <<ui, world>>
      BY <2>3 DEF DeskOk, DeskInv, Asked, Aimed
    <2> QED
      BY <2>1, <2>2, <2>3, Visits
  <1> QED
    BY <1>1, <1>2, PTL DEF FrontendSpec

(* However the requests overlapped: once they are answered the book is the *)
(* one of the desk and the day on show, or the page says it is not.        *)
THEOREM BooksSettle == FrontendSpec => []BookSettled
  <1>1. DeskOk => BookSettled
    <2> SUFFICES ASSUME DeskInv, ui.asks = <<>>, ~ui.late PROVE ui.book \in {ui.view, None}
      BY DEF DeskOk, BookSettled, Desk!BookSettled
    <2>1. Len(ui.asks) = 0
      OBVIOUS
    <2> QED
      BY <2>1 DEF DeskInv, Asked
  <1> QED
    BY <1>1, DeskAlways, PTL

(* A jump of the search is the only thing that moves a dialog's target.    *)
THEOREM TargetsStay == FrontendSpec => []WrittenWhereOpened
  <1>1. DeskOk => WrittenWhereOpened
    BY DEF DeskOk, DeskInv, Aimed, Errands, WrittenWhereOpened, Desk!WrittenWhereOpened
  <1> QED
    BY <1>1, DeskAlways, PTL

-----------------------------------------------------------------------------
(* The planner's day board                                                 *)

DragKinds == {"move", "resize-start", "resize-end"}
(* The jobs that lie within the hours of the day.                          *)
Fits(j) == Hours[1] <= j.start /\ j.start < j.end /\ j.end <= Hours[2]
Placed == {j \in Board!Jobs : Fits(j)}

DayAsks == [day: Days, overtaken: BOOLEAN]
DayBoards == [day: Days, job: Placed \cup {None}, asks: Seq(DayAsks),
              drag: [kind: DragKinds, job: Placed] \cup {None}, failed: BOOLEAN, late: BOOLEAN]
Puts == [job: Placed \cup {None}, by: {"drag", "dialog"}]
Servers == [job: Placed \cup {None}, put: Puts \cup {None}, edits: Nat, unseen: BOOLEAN]

(* The list asked for last is that of the day, unless it has been          *)
(* overtaken; once none is awaited the job is the server's, unless a drag  *)
(* has been put down and the write is under way.                           *)
OnTheDay(p, w) ==
    IF Len(p.asks) = 0
    THEN p.late = FALSE /\ p.failed = FALSE /\ w.unseen = FALSE
            /\ (w.put = None \/ w.put.by = "dialog") =>
         p.job = IF w.job # None /\ w.job.day = p.day THEN w.job ELSE None
    ELSE p.asks[Len(p.asks)].overtaken = TRUE \/ p.asks[Len(p.asks)].day = p.day

BoardInv == ui \in DayBoards /\ world \in Servers /\ OnTheDay(ui, world)
BoardOk == page = "board" => BoardInv

(* What remains of the requests when one of them is answered.              *)
LEMMA ListsRemain ==
    ASSUME NEW asks \in Seq(DayAsks), NEW i \in 1..Len(asks)
    PROVE  /\ Board!Remaining(asks, i) \in Seq(DayAsks)
           /\ Len(Board!Remaining(asks, i)) = Len(asks) - 1
           /\ Len(asks) > 1 =>
                 IF i = Len(asks) THEN Board!Remaining(asks, i)[Len(asks) - 1].overtaken = TRUE
                 ELSE Board!Remaining(asks, i)[Len(asks) - 1] = asks[Len(asks)]
  <1> DEFINE kept(k) == IF k < i THEN [asks[k] EXCEPT !.overtaken = TRUE] ELSE asks[k + 1]
  <1> DEFINE rest == Board!Remaining(asks, i)
  <1>0. Len(asks) \in Nat /\ Len(asks) > 0 /\ i \in Nat /\ i > 0 /\ i <= Len(asks)
    OBVIOUS
  <1>1. rest = [k \in 1..(Len(asks) - 1) |-> kept(k)]
    BY DEF Board!Remaining
  <1>2. \A k \in 1..(Len(asks) - 1) :
           /\ kept(k) \in DayAsks
           /\ IF k < i THEN kept(k).overtaken = TRUE ELSE kept(k) = asks[k + 1]
    <2> TAKE k \in 1..(Len(asks) - 1)
    <2>1. PICK a \in DayAsks : a = asks[k]
      BY <1>0
    <2>2. [a EXCEPT !.overtaken = TRUE] \in DayAsks /\ [a EXCEPT !.overtaken = TRUE].overtaken = TRUE
      BY DEF DayAsks
    <2>3. asks[k + 1] \in DayAsks
      BY <1>0
    <2>4. kept(k) = IF k < i THEN [a EXCEPT !.overtaken = TRUE] ELSE asks[k + 1]
      BY <2>1
    <2> HIDE DEF kept
    <2> QED
      BY <1>0, <2>2, <2>3, <2>4
  <1> HIDE DEF kept, rest
  <1>3. \A k \in 1..(Len(asks) - 1) : kept(k) \in DayAsks
    BY <1>2
  <1>4. rest \in Seq(DayAsks) /\ Len(rest) = Len(asks) - 1
    BY <1>0, <1>1, <1>3
  <1>5. ASSUME Len(asks) > 1
        PROVE  IF i = Len(asks) THEN rest[Len(asks) - 1].overtaken = TRUE
               ELSE rest[Len(asks) - 1] = asks[Len(asks)]
    <2>1. PICK k : k = Len(asks) - 1
      OBVIOUS
    <2>2. k \in 1..(Len(asks) - 1) /\ k + 1 = Len(asks) /\ (k < i <=> i = Len(asks))
      BY <1>0, <1>5, <2>1
    <2>3. rest[k] = kept(k)
      BY <1>1, <2>2
    <2>4. IF k < i THEN kept(k).overtaken = TRUE ELSE kept(k) = asks[k + 1]
      BY <1>2, <2>2
    <2> QED
      BY <2>1, <2>2, <2>3, <2>4
  <1> QED
    BY <1>4, <1>5 DEF rest

(* Wherever a job is dropped, it lies within the hours.                    *)
LEMMA DropFits ==
    ASSUME NEW grip \in [kind: DragKinds, job: Placed], NEW slot \in Int
    PROVE  Board!Drop(grip, slot) \in Placed
  <1>0. grip.job \in Board!Jobs
    BY DEF Placed
  <1>1. PICK job : job = grip.job
    OBVIOUS
  <1>2. job \in Board!Jobs /\ Fits(job) /\ grip.kind \in DragKinds /\ Hours[1] \in Nat /\ Hours[2] \in Nat
    BY <1>1, FirstJobAssumption DEF Placed
  <1>4. job.start \in Nat /\ job.end \in Nat /\ Hours[1] <= job.start /\ job.start < job.end
        /\ job.end <= Hours[2]
    BY <1>2 DEF Board!Jobs, Fits
  <1>5. CASE grip.kind = "move"
    <2>1. PICK length \in Int : length = job.end - job.start
      BY <1>4
    <2>2. PICK start \in Int : start = Board!AtLeast(Hours[1], Board!AtMost(slot, Hours[2] - length))
      BY <1>2, <2>1 DEF Board!AtLeast, Board!AtMost
    <2>3. Hours[1] <= start /\ start + length <= Hours[2] /\ length > 0
      BY <1>2, <1>4, <2>1, <2>2 DEF Board!AtLeast, Board!AtMost
    <2>4. Board!Drop(grip, slot) = [job EXCEPT !.start = start, !.end = start + length]
      BY <1>0, <1>1, <1>5, <2>1, <2>2 DEF Board!Drop, Board!Jobs
    <2>5. PICK end \in Nat : end = start + length
      BY <1>2, <2>3
    <2> start \in Nat
      BY <1>2, <2>3
    <2>6. Board!Drop(grip, slot) \in Board!Jobs /\ Board!Drop(grip, slot).start = start
          /\ Board!Drop(grip, slot).end = end
      BY <1>2, <2>4, <2>5 DEF Board!Jobs
    <2> QED
      BY <2>3, <2>5, <2>6 DEF Placed, Fits
  <1>6. CASE grip.kind = "resize-start"
    <2>1. PICK start \in Int : start = Board!AtLeast(Hours[1], Board!AtMost(slot, job.end - 1))
      BY <1>2, <1>4 DEF Board!AtLeast, Board!AtMost
    <2>2. Hours[1] <= start /\ start < job.end /\ start \in Nat
      BY <1>2, <1>4, <2>1 DEF Board!AtLeast, Board!AtMost
    <2>3. Board!Drop(grip, slot) = [job EXCEPT !.start = start]
      BY <1>0, <1>1, <1>6, <2>1 DEF Board!Drop, Board!Jobs
    <2>4. Board!Drop(grip, slot) \in Board!Jobs /\ Board!Drop(grip, slot).start = start
          /\ Board!Drop(grip, slot).end = job.end
      BY <1>2, <2>2, <2>3 DEF Board!Jobs
    <2> QED
      BY <1>4, <2>2, <2>4 DEF Placed, Fits
  <1>7. CASE grip.kind = "resize-end"
    <2>1. PICK end \in Int : end = Board!AtMost(Hours[2], Board!AtLeast(slot, job.start + 1))
      BY <1>2, <1>4 DEF Board!AtLeast, Board!AtMost
    <2>2. job.start < end /\ end <= Hours[2] /\ end \in Nat
      BY <1>2, <1>4, <2>1 DEF Board!AtLeast, Board!AtMost
    <2>3. Board!Drop(grip, slot) = [job EXCEPT !.end = end]
      BY <1>0, <1>1, <1>7, <2>1 DEF Board!Drop, Board!Jobs
    <2>4. Board!Drop(grip, slot) \in Board!Jobs /\ Board!Drop(grip, slot).start = job.start
          /\ Board!Drop(grip, slot).end = end
      BY <1>2, <2>2, <2>3 DEF Board!Jobs
    <2> QED
      BY <1>4, <2>2, <2>4 DEF Placed, Fits
  <1> QED
    BY <1>2, <1>5, <1>6, <1>7 DEF DragKinds

LEMMA ListAsked ==
    ASSUME NEW p \in DayBoards, NEW w
    PROVE  Board!Reload(p) \in DayBoards /\ OnTheDay(Board!Reload(p), w)
  <1>1. PICK ask : ask = Board!Ask(p.day)
    OBVIOUS
  <1>2. ask \in DayAsks /\ ask.day = p.day
    BY <1>1 DEF Board!Ask, DayAsks, DayBoards
  <1>3. PICK asks \in Seq(DayAsks) : asks = Append(p.asks, ask) /\ Len(asks) > 0 /\ asks[Len(asks)] = ask
    <2>1. p.asks \in Seq(DayAsks)
      BY DEF DayBoards
    <2>2. Append(p.asks, ask) \in Seq(DayAsks)
      BY <1>2, <2>1
    <2>3. PICK asks \in Seq(DayAsks) : asks = Append(p.asks, ask)
      BY <2>2
    <2>4. Len(asks) > 0 /\ asks[Len(asks)] = ask
      BY <2>1, <2>3
    <2> QED
      BY <2>3, <2>4
  <1>4. PICK q : q = [p EXCEPT !.asks = asks]
    OBVIOUS
  <1>5. q \in DayBoards /\ q.asks = asks /\ q.day = p.day
    BY <1>4 DEF DayBoards
  <1>6. Board!Reload(p) = q
    BY <1>1, <1>3, <1>4 DEF Board!Reload
  <1> QED
    BY <1>2, <1>3, <1>5, <1>6 DEF OnTheDay

LEMMA BoardFresh ==
    ASSUME NEW day \in Days, NEW w
    PROVE  Board!Mounted(day) \in DayBoards /\ OnTheDay(Board!Mounted(day), w)
  <1>1. PICK ask : ask = Board!Ask(day)
    OBVIOUS
  <1>2. ask \in DayAsks /\ ask.day = day
    BY <1>1 DEF Board!Ask, DayAsks
  <1>3. PICK asks \in Seq(DayAsks) : asks = <<ask>> /\ Len(asks) = 1 /\ asks[1] = ask
    <2>1. <<ask>> \in Seq(DayAsks) /\ Len(<<ask>>) = 1 /\ <<ask>>[1] = ask
      BY <1>2
    <2> QED
      BY <2>1
  <1>4. PICK q : q = Board!Mounted(day)
    OBVIOUS
  <1>5. q \in DayBoards /\ q.asks = asks /\ q.day = day
    BY <1>1, <1>3, <1>4 DEF Board!Mounted, DayBoards
  <1> QED
    BY <1>2, <1>3, <1>4, <1>5 DEF OnTheDay

LEMMA BoardOpens == ASSUME Board!Open PROVE BoardInv'
  <1>1. PICK day \in Days : ui' = Board!Mounted(day)
    BY DEF Board!Open
  <1>2. FirstJob \in Placed
    BY FirstJobAssumption DEF Placed, Board!Jobs, Fits
  <1>3. world' \in Servers
    BY <1>2 DEF Board!Open, Servers
  <1>4. ui' \in DayBoards /\ OnTheDay(ui, world)'
    BY <1>1, BoardFresh DEF OnTheDay
  <1> QED
    BY <1>3, <1>4 DEF BoardInv

LEMMA BoardWork == ASSUME BoardInv, Board!Work PROVE BoardInv'
  <1>0. ui \in DayBoards /\ world \in Servers /\ OnTheDay(ui, world) /\ ui.day \in Days
    BY DEF BoardInv, DayBoards
  <1>1. ASSUME NEW day \in Days, Board!ChangeDay(day) PROVE BoardInv'
    <2>1. PICK p : p = [ui EXCEPT !.day = day]
      OBVIOUS
    <2>2. p \in DayBoards /\ ui' = Board!Reload(p)
      BY <1>0, <1>1, <2>1 DEF Board!ChangeDay, DayBoards
    <2>3. world' \in Servers
      BY <1>0, <1>1 DEF Board!ChangeDay, Servers
    <2>4. ui' \in DayBoards /\ OnTheDay(ui, world)'
      BY <2>2, ListAsked DEF OnTheDay
    <2> QED
      BY <2>3, <2>4 DEF BoardInv
  <1>2. ASSUME NEW day \in Days, Board!Elsewhere(day) PROVE BoardInv'
    <2>1. world.job \in Placed /\ ui' = ui
      BY <1>0, <1>2 DEF Board!Elsewhere, Servers
    <2>2. PICK j : j = [world.job EXCEPT !.day = day, !.note = @ + 1]
      OBVIOUS
    <2>3. j \in Placed
      <3>1. world.job \in Board!Jobs /\ world.job.note + 1 \in Nat
        BY <2>1 DEF Placed, Board!Jobs
      <3>2. j \in Board!Jobs /\ j.start = world.job.start /\ j.end = world.job.end
        BY <2>2, <3>1 DEF Board!Jobs
      <3> QED
        BY <2>1, <3>2 DEF Placed, Fits
    <2>4. PICK edits \in Nat : edits = world.edits + 1
      BY <1>0 DEF Servers
    <2>5. world' = [world EXCEPT !.job = j, !.edits = edits, !.unseen = TRUE]
      BY <1>0, <1>2, <2>1, <2>2, <2>4 DEF Board!Elsewhere, Servers, Placed, Board!Jobs
    <2>6. world' \in Servers /\ world'.unseen = TRUE
      BY <1>0, <2>3, <2>5 DEF Servers
    <2> QED
      BY <1>0, <2>1, <2>6 DEF BoardInv, OnTheDay
  <1>3. ASSUME NEW kind \in DragKinds, Board!StartDrag(kind) PROVE BoardInv'
    <2>1. ui.job \in Placed /\ world' = world
      BY <1>0, <1>3 DEF Board!StartDrag, DayBoards
    <2>2. PICK grip \in [kind: DragKinds, job: Placed] : grip = [kind |-> kind, job |-> ui.job]
      BY <2>1
    <2>3. ui' = [ui EXCEPT !.drag = grip]
      BY <1>3, <2>2 DEF Board!StartDrag
    <2>4. /\ ui' \in DayBoards /\ ui'.day = ui.day /\ ui'.job = ui.job /\ ui'.asks = ui.asks
          /\ ui'.late = ui.late /\ ui'.failed = ui.failed
      BY <1>0, <2>3 DEF DayBoards
    <2> QED
      BY <1>0, <2>1, <2>4 DEF BoardInv, OnTheDay
  <1>4. ASSUME NEW slot \in Int, Board!FinishDrag(slot) PROVE BoardInv'
    <2>1. ui.drag \in [kind: DragKinds, job: Placed] /\ world.put = None
      BY <1>0, <1>4 DEF Board!FinishDrag, DayBoards
    <2>2. PICK job \in Placed : job = Board!Drop(ui.drag, slot)
      BY <2>1, DropFits
    <2>3. CASE ui' = [ui EXCEPT !.drag = None] /\ UNCHANGED world
      <3>1. /\ ui' \in DayBoards /\ ui'.day = ui.day /\ ui'.job = ui.job /\ ui'.asks = ui.asks
            /\ ui'.late = ui.late /\ ui'.failed = ui.failed
        BY <1>0, <2>3 DEF DayBoards
      <3> QED
        BY <1>0, <2>3, <3>1 DEF BoardInv, OnTheDay
    <2>4. CASE /\ ui' = [ui EXCEPT !.drag = None, !.job = IF @ = None THEN None
                                     ELSE [@ EXCEPT !.start = job.start, !.end = job.end]]
               /\ world' = [world EXCEPT !.put = [job |-> job, by |-> "drag"]]
      <3>1. PICK shown \in Placed \cup {None} :
               shown = IF ui.job = None THEN None
                       ELSE [ui.job EXCEPT !.start = job.start, !.end = job.end]
        <4>1. CASE ui.job # None
          <5>1. ui.job \in Board!Jobs /\ job \in Board!Jobs /\ Fits(job)
            BY <1>0, <4>1 DEF DayBoards, Placed
          <5>2. PICK j : j = [ui.job EXCEPT !.start = job.start, !.end = job.end]
            OBVIOUS
          <5>3. j \in Board!Jobs /\ j.start = job.start /\ j.end = job.end
            BY <5>1, <5>2 DEF Board!Jobs
          <5>4. j \in Placed
            BY <5>1, <5>3 DEF Placed, Fits
          <5> QED
            BY <4>1, <5>2, <5>4
        <4> QED
          BY <4>1
      <3>2. ui' = [ui EXCEPT !.drag = None, !.job = shown]
        BY <1>0, <2>4, <3>1 DEF DayBoards
      <3>3. ui' \in DayBoards /\ ui'.day = ui.day /\ ui'.asks = ui.asks
        BY <1>0, <3>2 DEF DayBoards
      <3>4. PICK put \in Puts : put = [job |-> job, by |-> "drag"] /\ put.by = "drag"
        <4>1. PICK put : put = [job |-> job, by |-> "drag"]
          OBVIOUS
        <4>2. put \in Puts /\ put.by = "drag"
          BY <4>1 DEF Puts
        <4> QED
          BY <4>1, <4>2
      <3>5. world' \in Servers /\ world'.put = put
        BY <1>0, <2>4, <3>4 DEF Servers
      <3>6. put # None
        BY <3>4, NoneAssumption DEF Puts, Placed, Board!Writes
      <3> QED
        BY <1>0, <3>3, <3>4, <3>5, <3>6 DEF BoardInv, OnTheDay
    <2> QED
      BY <1>4, <2>2, <2>3, <2>4 DEF Board!FinishDrag
  <1>5. CASE Board!DialogWrite
    <2>1. /\ ui.job \in Placed /\ world.put = None /\ ui' = ui
          /\ \E end \in (ui.job.start + 1)..Hours[2] :
                world' = [world EXCEPT !.put = [job |-> [ui.job EXCEPT !.end = end], by |-> "dialog"]]
      BY <1>0, <1>5 DEF Board!DialogWrite, DayBoards
    <2>2. PICK end \in (ui.job.start + 1)..Hours[2] :
             world' = [world EXCEPT !.put = [job |-> [ui.job EXCEPT !.end = end], by |-> "dialog"]]
      BY <2>1
    <2>3. ui.job \in Board!Jobs /\ Fits(ui.job) /\ Hours[2] \in Nat
      BY <2>1, FirstJobAssumption DEF Placed
    <2>4. end \in Nat /\ ui.job.start < end /\ end <= Hours[2]
      BY <2>3 DEF Board!Jobs
    <2>5. PICK j : j = [ui.job EXCEPT !.end = end]
      OBVIOUS
    <2>6. j \in Board!Jobs /\ j.start = ui.job.start /\ j.end = end
      BY <2>3, <2>4, <2>5 DEF Board!Jobs
    <2>7. j \in Placed
      BY <2>3, <2>4, <2>6 DEF Placed, Fits
    <2>8. PICK put \in Puts : put = [job |-> j, by |-> "dialog"] /\ put.by = "dialog"
      <3>1. PICK put : put = [job |-> j, by |-> "dialog"]
        OBVIOUS
      <3>2. put \in Puts /\ put.by = "dialog"
        BY <2>7, <3>1 DEF Puts
      <3> QED
        BY <3>1, <3>2
    <2>9. world' = [world EXCEPT !.put = put]
      BY <2>2, <2>5, <2>8
    <2>10. /\ world' \in Servers /\ world'.unseen = world.unseen /\ world'.job = world.job
           /\ world'.put = put
      BY <1>0, <2>9 DEF Servers
    <2> QED
      BY <1>0, <2>1, <2>10 DEF BoardInv, OnTheDay
  <1>6. CASE Board!DialogDelete
    <2>1. PICK put \in Puts : put = [job |-> None, by |-> "dialog"] /\ put.by = "dialog"
      <3>1. PICK put : put = [job |-> None, by |-> "dialog"]
        OBVIOUS
      <3>2. put \in Puts /\ put.by = "dialog"
        BY <3>1 DEF Puts
      <3> QED
        BY <3>1, <3>2
    <2>2. world' = [world EXCEPT !.put = put] /\ ui' = ui /\ world.put = None
      BY <1>6, <2>1 DEF Board!DialogDelete
    <2>3. /\ world' \in Servers /\ world'.unseen = world.unseen /\ world'.job = world.job
          /\ world'.put = put
      BY <1>0, <2>2 DEF Servers
    <2> QED
      BY <1>0, <2>2, <2>3 DEF BoardInv, OnTheDay
  <1>7. ASSUME NEW i \in 1..MaxAsks, Board!ListAnswered(i) \/ Board!ListFailed(i) PROVE BoardInv'
    <2>1. PICK before \in Seq(DayAsks) : before = ui.asks
      BY <1>0 DEF DayBoards
    <2>2. i \in 1..Len(before) /\ world' = world
      BY <1>7, <2>1 DEF Board!ListAnswered, Board!ListFailed
    <2>3. before[i] \in DayAsks
      BY <2>2
    <2>4. PICK asks \in Seq(DayAsks) :
             /\ asks = Board!Remaining(before, i) /\ Len(asks) = Len(before) - 1
             /\ Len(before) > 1 => IF i = Len(before) THEN asks[Len(before) - 1].overtaken = TRUE
                                   ELSE asks[Len(before) - 1] = before[Len(before)]
      BY <2>2, ListsRemain
    <2>5. PICK over \in BOOLEAN, day \in Days : over = before[i].overtaken /\ day = before[i].day
      BY <2>3 DEF DayAsks
    <2>6. PICK job \in Placed \cup {None} : job = Board!JobsFor(day)
      BY <1>0 DEF Board!JobsFor, Servers
    <2>7. PICK shown \in Placed \cup {None}, failed \in BOOLEAN :
             /\ Board!Shown(i, shown, failed)
             /\ failed = FALSE => shown = job
      BY <1>7, <2>1, <2>5, <2>6 DEF Board!ListAnswered, Board!ListFailed
    <2>8. ui' = [ui EXCEPT !.job = shown, !.failed = failed, !.late = over, !.asks = asks]
      BY <1>0, <2>1, <2>4, <2>5, <2>7 DEF Board!Shown, DayBoards
    <2>9. /\ ui' \in DayBoards /\ ui'.day = ui.day /\ ui'.asks = asks /\ ui'.late = over
          /\ ui'.job = shown /\ ui'.failed = failed
      BY <1>0, <2>8 DEF DayBoards
    <2>10. PICK n \in Nat : n = Len(before) /\ i \in 1..n /\ Len(asks) = n - 1
      BY <2>2, <2>4
    <2> n > 0
      BY <2>10
    <2>11. before[n].overtaken = TRUE \/ before[n].day = ui.day
      <3>1. n # 0
        OBVIOUS
      <3> QED
        BY <1>0, <2>1, <2>10, <3>1 DEF OnTheDay
    <2>12. CASE n = 1
      <3>1. i = n /\ Len(asks) = 0
        BY <2>10, <2>12
      <3>2. over = FALSE => day = ui.day
        BY <2>5, <2>11, <3>1
      <3>3. over = FALSE /\ failed = FALSE => shown = Board!JobsFor(ui.day)
        BY <2>6, <2>7, <3>2
      <3> QED
        BY <1>0, <2>2, <2>9, <3>1, <3>3 DEF BoardInv, OnTheDay, Board!JobsFor
    <2>13. CASE n # 1
      <3>1. n > 1 /\ n - 1 # 0
        BY <2>13
      <3>2. asks[n - 1].overtaken = TRUE \/ asks[n - 1].day = ui.day
        BY <2>4, <2>10, <2>11, <3>1
      <3> QED
        BY <1>0, <2>2, <2>9, <2>10, <3>1, <3>2 DEF BoardInv, OnTheDay
    <2> QED
      BY <2>12, <2>13
  <1>8. CASE Board!Written
    <2>1. world.put \in Puts /\ ui' = Board!Mounted(ui.day)
      BY <1>0, <1>8 DEF Board!Written, Servers
    <2>2. world.put.job \in Placed \cup {None}
      BY <2>1 DEF Puts
    <2>3. world' \in Servers
      BY <1>0, <1>8, <2>2 DEF Board!Written, Servers
    <2>4. ui' \in DayBoards /\ OnTheDay(ui, world)'
      BY <1>0, <2>1, BoardFresh DEF OnTheDay
    <2> QED
      BY <2>3, <2>4 DEF BoardInv
  <1>9. CASE Board!Refused
    <2>1. world.put \in Puts
      BY <1>0, <1>9 DEF Board!Refused, Servers
    <2>2. CASE world.put.by = "drag"
      <3>1. world' \in Servers /\ ui' = Board!Reload(ui)
        BY <1>0, <1>9, <2>2 DEF Board!Refused, Servers
      <3>2. ui' \in DayBoards /\ OnTheDay(ui, world)'
        BY <1>0, <3>1, ListAsked DEF OnTheDay
      <3> QED
        BY <3>1, <3>2 DEF BoardInv
    <2>3. CASE world.put.by = "dialog"
      <3>1. ui' = ui /\ world' = [world EXCEPT !.put = None, !.unseen = world.unseen]
        BY <1>9, <2>3 DEF Board!Refused
      <3>2. world' \in Servers /\ world'.job = world.job /\ world'.unseen = world.unseen
        BY <1>0, <3>1 DEF Servers
      <3> QED
        BY <1>0, <2>3, <3>1, <3>2 DEF BoardInv, OnTheDay
    <2> QED
      BY <2>1, <2>2, <2>3 DEF Puts
  <1>10. \A slot \in (Hours[1] - 1)..(Hours[2] + 1) : slot \in Int
    BY FirstJobAssumption
  <1> QED
    BY <1>1, <1>2, <1>3, <1>4, <1>5, <1>6, <1>7, <1>8, <1>9, <1>10
    DEF Board!Work, Board!Answer, DragKinds

LEMMA BoardAlways == FrontendSpec => []BoardOk
  <1>1. StartPage => BoardOk
    BY DEF StartPage, BoardOk
  <1>2. BoardOk /\ [UsePage]_all => BoardOk'
    <2> SUFFICES ASSUME BoardOk, [UsePage]_all, page' = "board" PROVE BoardInv'
      BY DEF BoardOk
    <2>1. CASE Board!Open
      BY <2>1, BoardOpens
    <2>2. CASE page = "board" /\ Board!Work
      BY <2>2, BoardWork DEF BoardOk
    <2>3. CASE page = "board" /\ UNCHANGED <<ui, world>>
      BY <2>3 DEF BoardOk, BoardInv, OnTheDay
    <2> QED
      BY <2>1, <2>2, <2>3, Visits
  <1> QED
    BY <1>1, <1>2, PTL DEF FrontendSpec

(* Wherever jobs are dragged, the server gets none outside the hours.      *)
THEOREM HoursHold == FrontendSpec => []WithinHours
  <1>1. BoardOk => WithinHours
    BY DEF BoardOk, BoardInv, Servers, Placed, Fits, WithinHours, Board!WithinHours
  <1> QED
    BY <1>1, BoardAlways, PTL

(* Once all is answered the board shows the day as the server has it.      *)
THEOREM BoardSettles == FrontendSpec => []BoardSettled
  <1>1. BoardOk => BoardSettled
    <2> SUFFICES ASSUME BoardInv, ui.asks = <<>>, world.put = None, ~ui.late, ~ui.failed,
                        ~world.unseen
                 PROVE  ui.job = Board!JobsFor(ui.day)
      BY DEF BoardOk, BoardSettled, Board!BoardSettled
    <2>1. Len(ui.asks) = 0
      OBVIOUS
    <2>2. ui.late = FALSE /\ ui.failed = FALSE /\ world.unseen = FALSE
      BY DEF BoardInv, DayBoards, Servers
    <2> QED
      BY <2>1, <2>2 DEF BoardInv, OnTheDay, Board!JobsFor
  <1> QED
    BY <1>1, BoardAlways, PTL

-----------------------------------------------------------------------------
(* The page of incoming leads                                              *)

Lines == UNION {LinesOf[p] : p \in Periods \cup {FirstOne}}
Sources == [line: Lines, period: Periods \cup {FirstOne}]
Panels == [of: Sources, state: {"loading", "ready", "error"},
           events: Sources \cup {None}, older: Sources \cup {None}]
RateAsks == [narrowed: BOOLEAN, overtaken: BOOLEAN]
Rates == [narrowed: BOOLEAN, asks: Seq(RateAsks), loading: BOOLEAN,
          shown: [narrowed: BOOLEAN] \cup {None}, failed: BOOLEAN]
CallPages == [tab: {"calls", "conversion", "leads"}, summary: Periods \cup {FirstOne},
              load: Periods \cup {None}, line: Lines \cup {None}, panel: Panels \cup {None},
              history: {"none", "asked", "asked again", "shown"},
              conversion: Rates \cup {None},
              lead: [id: Leads, state: {"loading", "ready", "error"}] \cup {None}]

(* The calls below a row are asked for, and shown, for that row.           *)
RowCalls(p) ==
    p.panel # None =>
        /\ p.panel.of = [line |-> p.line, period |-> p.summary]
        /\ p.panel.state = "ready" => p.panel.events = p.panel.of

(* The rates asked for last, or shown when none are awaited, are narrowed  *)
(* as the chip says.                                                       *)
Narrowed(c, behind) ==
    IF Len(c.asks) = 0
    THEN behind = FALSE /\ c.failed = FALSE => c.shown.narrowed = c.narrowed
    ELSE c.asks[Len(c.asks)].overtaken = TRUE \/ c.asks[Len(c.asks)].narrowed = c.narrowed

CallsInv ==
    /\ ui \in CallPages /\ world \in [late: BOOLEAN] /\ RowCalls(ui)
    /\ ui.tab = "conversion" => ui.conversion \in Rates
    /\ ui.conversion # None => Narrowed(ui.conversion, world.late)
CallsOk == page = "calls" => CallsInv

(* What remains of the requests when one of them is answered.              *)
LEMMA RatesRemain ==
    ASSUME NEW asks \in Seq(RateAsks), NEW i \in 1..Len(asks)
    PROVE  /\ Calls!Remaining(asks, i) \in Seq(RateAsks)
           /\ Len(Calls!Remaining(asks, i)) = Len(asks) - 1
           /\ Len(asks) > 1 =>
                 IF i = Len(asks) THEN Calls!Remaining(asks, i)[Len(asks) - 1].overtaken = TRUE
                 ELSE Calls!Remaining(asks, i)[Len(asks) - 1] = asks[Len(asks)]
  <1> DEFINE kept(k) == IF k < i THEN [asks[k] EXCEPT !.overtaken = TRUE] ELSE asks[k + 1]
  <1> DEFINE rest == Calls!Remaining(asks, i)
  <1>0. Len(asks) \in Nat /\ Len(asks) > 0 /\ i \in Nat /\ i > 0 /\ i <= Len(asks)
    OBVIOUS
  <1>1. rest = [k \in 1..(Len(asks) - 1) |-> kept(k)]
    BY DEF Calls!Remaining
  <1>2. \A k \in 1..(Len(asks) - 1) :
           /\ kept(k) \in RateAsks
           /\ IF k < i THEN kept(k).overtaken = TRUE ELSE kept(k) = asks[k + 1]
    <2> TAKE k \in 1..(Len(asks) - 1)
    <2>1. PICK a \in RateAsks : a = asks[k]
      BY <1>0
    <2>2. [a EXCEPT !.overtaken = TRUE] \in RateAsks /\ [a EXCEPT !.overtaken = TRUE].overtaken = TRUE
      BY DEF RateAsks
    <2>3. asks[k + 1] \in RateAsks
      BY <1>0
    <2>4. kept(k) = IF k < i THEN [a EXCEPT !.overtaken = TRUE] ELSE asks[k + 1]
      BY <2>1
    <2> HIDE DEF kept
    <2> QED
      BY <1>0, <2>2, <2>3, <2>4
  <1> HIDE DEF kept, rest
  <1>3. \A k \in 1..(Len(asks) - 1) : kept(k) \in RateAsks
    BY <1>2
  <1>4. rest \in Seq(RateAsks) /\ Len(rest) = Len(asks) - 1
    BY <1>0, <1>1, <1>3
  <1>5. ASSUME Len(asks) > 1
        PROVE  IF i = Len(asks) THEN rest[Len(asks) - 1].overtaken = TRUE
               ELSE rest[Len(asks) - 1] = asks[Len(asks)]
    <2>1. PICK k : k = Len(asks) - 1
      OBVIOUS
    <2>2. k \in 1..(Len(asks) - 1) /\ k + 1 = Len(asks) /\ (k < i <=> i = Len(asks))
      BY <1>0, <1>5, <2>1
    <2>3. rest[k] = kept(k)
      BY <1>1, <2>2
    <2>4. IF k < i THEN kept(k).overtaken = TRUE ELSE kept(k) = asks[k + 1]
      BY <1>2, <2>2
    <2> QED
      BY <2>1, <2>2, <2>3, <2>4
  <1> QED
    BY <1>4, <1>5 DEF rest

(* A request more for the rates.                                           *)
LEMMA RatesAsked ==
    ASSUME NEW c \in Rates, NEW narrowed \in BOOLEAN, NEW behind
    PROVE  Calls!Ask(c, narrowed) \in Rates /\ Narrowed(Calls!Ask(c, narrowed), behind)
  <1>1. PICK ask : ask = [narrowed |-> narrowed, overtaken |-> FALSE]
    OBVIOUS
  <1>2. ask \in RateAsks /\ ask.narrowed = narrowed
    BY <1>1 DEF RateAsks
  <1>3. PICK asks \in Seq(RateAsks) : asks = Append(c.asks, ask) /\ Len(asks) > 0 /\ asks[Len(asks)] = ask
    <2>1. c.asks \in Seq(RateAsks)
      BY DEF Rates
    <2>2. Append(c.asks, ask) \in Seq(RateAsks)
      BY <1>2, <2>1
    <2>3. PICK asks \in Seq(RateAsks) : asks = Append(c.asks, ask)
      BY <2>2
    <2>4. Len(asks) > 0 /\ asks[Len(asks)] = ask
      BY <2>1, <2>3
    <2> QED
      BY <2>3, <2>4
  <1>4. PICK q : q = Calls!Ask(c, narrowed)
    OBVIOUS
  <1>5. q \in Rates /\ q.asks = asks /\ q.narrowed = narrowed
    BY <1>1, <1>3, <1>4 DEF Calls!Ask, Rates
  <1> QED
    BY <1>2, <1>3, <1>4, <1>5 DEF Narrowed

LEMMA RatesFresh ==
    ASSUME NEW narrowed \in BOOLEAN, NEW behind
    PROVE  Calls!Conversion(narrowed) \in Rates /\ Narrowed(Calls!Conversion(narrowed), behind)
  <1>1. PICK ask : ask = [narrowed |-> narrowed, overtaken |-> FALSE]
    OBVIOUS
  <1>2. ask \in RateAsks /\ ask.narrowed = narrowed
    BY <1>1 DEF RateAsks
  <1>3. PICK asks \in Seq(RateAsks) : asks = <<ask>> /\ Len(asks) = 1 /\ asks[1] = ask
    <2>1. <<ask>> \in Seq(RateAsks) /\ Len(<<ask>>) = 1 /\ <<ask>>[1] = ask
      BY <1>2
    <2> QED
      BY <2>1
  <1>4. PICK c : c = Calls!Conversion(narrowed)
    OBVIOUS
  <1>5. c \in Rates /\ c.asks = asks /\ c.narrowed = narrowed
    BY <1>1, <1>3, <1>4 DEF Calls!Conversion, Rates
  <1> QED
    BY <1>2, <1>3, <1>4, <1>5 DEF Narrowed

LEMMA CallsOpens == ASSUME Calls!Open PROVE CallsInv'
  <1>1. PICK tab \in {"calls", "conversion", "leads"}, conversion \in {None, Calls!Conversion(TRUE)},
             lead \in [id: Leads, state: {"loading", "ready", "error"}] \cup {None} :
           /\ ui' = Calls!Mounted(tab, conversion, lead)
           /\ tab = "conversion" => conversion = Calls!Conversion(TRUE)
    BY DEF Calls!Open
  <1>2. ui' \in CallPages /\ ui'.tab = tab /\ ui'.conversion = conversion /\ ui'.panel = None
    BY <1>1, RatesFresh DEF Calls!Mounted, CallPages
  <1>3. world' \in [late: BOOLEAN]
    BY DEF Calls!Open
  <1>4. conversion # None => Narrowed(conversion, world'.late)
    BY RatesFresh
  <1> QED
    BY <1>1, <1>2, <1>3, <1>4, RatesFresh DEF CallsInv, RowCalls

(* A step that leaves row, panel, summary and rates alone.                 *)
LEMMA CallsElsewhere ==
    ASSUME CallsInv, ui' \in CallPages, ui'.summary = ui.summary, ui'.line = ui.line,
           ui'.tab = ui.tab, ui'.panel = ui.panel, ui'.conversion = ui.conversion, world' = world
    PROVE  CallsInv'
  BY DEF CallsInv, RowCalls

(* A step that leaves the rates alone.                                     *)
LEMMA CallsBelow ==
    ASSUME CallsInv, ui' \in CallPages, ui'.tab = ui.tab, ui'.conversion = ui.conversion,
           world' = world, RowCalls(ui')
    PROVE  CallsInv'
  BY DEF CallsInv, RowCalls

LEMMA CallsPanel ==
    ASSUME CallsInv, ui.panel # None, NEW q \in Panels, q.of = ui.panel.of,
           q.state = "ready" => q.events = q.of, ui' = [ui EXCEPT !.panel = q], world' = world
    PROVE  CallsInv'
  <1>1. /\ ui' \in CallPages /\ ui'.conversion = ui.conversion /\ ui'.panel = q
        /\ ui'.tab = ui.tab /\ ui'.line = ui.line /\ ui'.summary = ui.summary
    BY DEF CallsInv, CallPages
  <1>2. RowCalls(ui')
    BY <1>1 DEF CallsInv, RowCalls
  <1> QED
    BY <1>1, <1>2, CallsBelow

LEMMA CallsRates ==
    ASSUME CallsInv, NEW c \in Rates, Narrowed(c, world'.late), ui' = [ui EXCEPT !.conversion = c],
           world' \in [late: BOOLEAN]
    PROVE  CallsInv'
  <1>1. /\ ui' \in CallPages /\ ui'.conversion = c /\ ui'.panel = ui.panel
        /\ ui'.line = ui.line /\ ui'.summary = ui.summary
    BY DEF CallsInv, CallPages
  <1> QED
    BY <1>1 DEF CallsInv, RowCalls

LEMMA CallsWork == ASSUME CallsInv, Calls!Work PROVE CallsInv'
  <1>0. ui \in CallPages /\ world \in [late: BOOLEAN] /\ RowCalls(ui)
        /\ (ui.conversion # None => ui.conversion \in Rates /\ Narrowed(ui.conversion, world.late))
    BY DEF CallsInv, CallPages
  <1>1. ASSUME NEW tab \in {"calls", "conversion", "leads"}, Calls!SelectTab(tab) PROVE CallsInv'
    <2>1. PICK c : c = IF tab = "conversion" /\ ui.conversion = None
                       THEN Calls!Conversion(FALSE) ELSE ui.conversion
      OBVIOUS
    <2>2. ui' = [ui EXCEPT !.tab = tab, !.conversion = c] /\ world' = world
      BY <1>0, <1>1, <2>1 DEF Calls!SelectTab, CallPages
    <2>3. /\ c \in Rates \cup {None} /\ (tab = "conversion" => c \in Rates)
          /\ c # None => Narrowed(c, world.late)
      BY <1>0, <2>1, RatesFresh
    <2>4. /\ ui' \in CallPages /\ ui'.tab = tab /\ ui'.conversion = c /\ ui'.panel = ui.panel
          /\ ui'.line = ui.line /\ ui'.summary = ui.summary
      BY <1>0, <2>2, <2>3 DEF CallPages
    <2> QED
      BY <1>0, <2>2, <2>3, <2>4 DEF CallsInv, RowCalls
  <1>2. ASSUME NEW period \in Periods, Calls!Load(period) PROVE CallsInv'
    <2>1. ui' = [ui EXCEPT !.load = period, !.line = None, !.panel = None] /\ world' = world
      BY <1>2 DEF Calls!Load
    <2>2. ui' \in CallPages /\ ui'.tab = ui.tab /\ ui'.conversion = ui.conversion /\ ui'.panel = None
      BY <1>0, <2>1 DEF CallPages
    <2>3. RowCalls(ui')
      BY <2>2 DEF RowCalls
    <2> QED
      BY <2>1, <2>2, <2>3, CallsBelow
  <1>3. ASSUME NEW of \in Sources
        PROVE  /\ Calls!Panel(of) \in Panels /\ Calls!Panel(of).of = of
               /\ Calls!Panel(of).state = "loading"
    BY DEF Calls!Panel, Panels
  <1>4. ASSUME NEW period \in Periods, NEW line \in LinesOf[period], Calls!Expand(line) PROVE CallsInv'
    <2>1. line \in Lines
      BY DEF Lines
    <2>2. PICK of \in Sources : of = [line |-> line, period |-> ui.summary]
      BY <1>0, <2>1 DEF CallPages, Sources
    <2>3. PICK q \in Panels : q = Calls!Panel(of) /\ q.of = of /\ q.state = "loading"
      BY <1>3
    <2>4. CASE ui' = [ui EXCEPT !.line = None, !.panel = None]
      <3>1. ui' \in CallPages /\ ui'.tab = ui.tab /\ ui'.conversion = ui.conversion /\ ui'.panel = None
        BY <1>0, <2>4 DEF CallPages
      <3>2. RowCalls(ui')
        BY <3>1 DEF RowCalls
      <3> QED
        BY <1>4, <3>1, <3>2, CallsBelow DEF Calls!Expand
    <2>5. CASE ui' = [ui EXCEPT !.line = line, !.panel = q]
      <3>1. /\ ui' \in CallPages /\ ui'.tab = ui.tab /\ ui'.conversion = ui.conversion /\ ui'.panel = q
            /\ ui'.line = line /\ ui'.summary = ui.summary
        BY <1>0, <2>1, <2>5 DEF CallPages
      <3>2. RowCalls(ui')
        BY <2>2, <2>3, <3>1 DEF RowCalls
      <3> QED
        BY <1>4, <3>1, <3>2, CallsBelow DEF Calls!Expand
    <2> QED
      BY <1>4, <2>2, <2>3, <2>4, <2>5 DEF Calls!Expand
  <1>5. CASE Calls!Loaded
    <2>1. PICK period \in Periods : period = ui.load
      BY <1>0, <1>5 DEF Calls!Loaded, CallPages
    <2>2. PICK q : q = Calls!Renewed(ui.panel, ui.line, period)
      OBVIOUS
    <2>3. ui' = [ui EXCEPT !.summary = period, !.load = None, !.panel = q] /\ world' = world
      BY <1>0, <1>5, <2>1, <2>2 DEF Calls!Loaded, CallPages
    <2>4. CASE q = None
      <3>1. ui' \in CallPages /\ ui'.tab = ui.tab /\ ui'.conversion = ui.conversion /\ ui'.panel = None
        BY <1>0, <2>3, <2>4 DEF CallPages
      <3>2. RowCalls(ui')
        BY <3>1 DEF RowCalls
      <3> QED
        BY <2>3, <3>1, <3>2, CallsBelow
    <2>5. CASE q # None
      <3>1. ui.line \in LinesOf[period]
        BY <2>2, <2>5 DEF Calls!Renewed
      <3>2. ui.line \in Lines
        BY <3>1 DEF Lines
      <3>3. PICK of \in Sources : of = [line |-> ui.line, period |-> period]
        BY <3>2 DEF Sources
      <3>4. q \in Panels /\ q.of = of /\ (q.state = "ready" => q.events = q.of)
        <4>1. CASE ui.panel = None
          <5>1. q = Calls!Panel(of)
            BY <2>2, <2>5, <3>1, <3>3, <4>1 DEF Calls!Renewed
          <5> QED
            BY <1>3, <5>1
        <4>2. CASE ui.panel # None
          <5>1. /\ ui.panel \in Panels /\ ui.panel.of = [line |-> ui.line, period |-> ui.summary]
                /\ ui.panel.of \in Sources
                /\ ui.panel.state = "ready" => ui.panel.events = ui.panel.of
            BY <1>0, <4>2 DEF CallPages, RowCalls, Panels
          <5>2. CASE ui.panel.of.period = period
            <6>1. q = ui.panel
              BY <2>2, <2>5, <4>2, <5>2 DEF Calls!Renewed
            <6>2. ui.panel.of = of
              BY <3>3, <5>1, <5>2 DEF Sources
            <6> QED
              BY <5>1, <6>1, <6>2
          <5>3. CASE ui.panel.of.period # period
            <6>1. PICK older \in Sources \cup {None} :
                     older = IF ui.panel.state = "loading" THEN ui.panel.of ELSE ui.panel.older
              BY <5>1 DEF Panels
            <6>2. [ui.panel.of EXCEPT !.period = period] = of
              BY <3>3, <5>1 DEF Sources
            <6>3. q = [ui.panel EXCEPT !.of = of, !.state = "loading", !.older = older]
              BY <2>2, <2>5, <4>2, <5>1, <5>3, <6>1, <6>2 DEF Calls!Renewed, Panels
            <6> QED
              BY <5>1, <6>3 DEF Panels
          <5> QED
            BY <5>2, <5>3
        <4> QED
          BY <4>1, <4>2
      <3>5. /\ ui' \in CallPages /\ ui'.tab = ui.tab /\ ui'.conversion = ui.conversion /\ ui'.panel = q
            /\ ui'.line = ui.line /\ ui'.summary = period
        BY <1>0, <2>3, <3>4 DEF CallPages
      <3>6. RowCalls(ui')
        BY <3>3, <3>4, <3>5 DEF RowCalls
      <3> QED
        BY <2>3, <3>5, <3>6, CallsBelow
    <2> QED
      BY <2>4, <2>5
  <1>6. CASE Calls!LoadFails
    BY <1>0, <1>6, CallsElsewhere DEF Calls!LoadFails, CallPages
  <1>7. ASSUME ui.panel # None
        PROVE  ui.panel \in Panels /\ (ui.panel.state = "ready" => ui.panel.events = ui.panel.of)
    BY <1>0, <1>7 DEF CallPages, RowCalls
  <1>8. CASE Calls!PanelDropped
    <2>1. ui.panel # None /\ world' = world
      BY <1>8 DEF Calls!PanelDropped
    <2>2. PICK q : q = [ui.panel EXCEPT !.older = None]
      OBVIOUS
    <2>3. /\ q \in Panels /\ q.of = ui.panel.of /\ q.state = ui.panel.state
          /\ q.events = ui.panel.events
      BY <1>7, <2>1, <2>2 DEF Panels
    <2>4. ui' = [ui EXCEPT !.panel = q]
      BY <1>0, <1>8, <2>2 DEF Calls!PanelDropped, CallPages
    <2> QED
      BY <1>7, <2>1, <2>3, <2>4, CallsPanel
  <1>9. CASE Calls!PanelAnswered
    <2>1. ui.panel # None /\ world' = world /\ ui.panel \in Panels
      BY <1>7, <1>9 DEF Calls!PanelAnswered
    <2>2. CASE ui' = [ui EXCEPT !.panel.state = "ready", !.panel.events = ui.panel.of]
      <3>1. PICK q : q = [ui.panel EXCEPT !.state = "ready", !.events = ui.panel.of]
        OBVIOUS
      <3>2. q \in Panels /\ q.of = ui.panel.of /\ q.events = ui.panel.of
        BY <2>1, <3>1 DEF Panels
      <3>3. ui' = [ui EXCEPT !.panel = q]
        BY <1>0, <2>1, <2>2, <3>1 DEF CallPages, Panels
      <3> QED
        BY <2>1, <3>2, <3>3, CallsPanel
    <2>3. CASE ui' = [ui EXCEPT !.panel.state = "error"]
      <3>1. PICK q : q = [ui.panel EXCEPT !.state = "error"]
        OBVIOUS
      <3>2. q \in Panels /\ q.of = ui.panel.of /\ q.state = "error"
        BY <2>1, <3>1 DEF Panels
      <3>3. ui' = [ui EXCEPT !.panel = q]
        BY <1>0, <2>1, <2>3, <3>1 DEF CallPages, Panels
      <3> QED
        BY <2>1, <3>2, <3>3, CallsPanel
    <2> QED
      BY <1>9, <2>2, <2>3 DEF Calls!PanelAnswered
  <1>10. CASE Calls!SearchHistory \/ Calls!CloseHistory \/ Calls!HistoryAnswered
    <2>1. world' = world /\ \E h \in {"none", "asked", "asked again", "shown"} :
             ui' = [ui EXCEPT !.history = h]
      BY <1>0, <1>10 DEF Calls!SearchHistory, Calls!CloseHistory, Calls!HistoryAnswered, CallPages
    <2>2. PICK h \in {"none", "asked", "asked again", "shown"} : ui' = [ui EXCEPT !.history = h]
      BY <2>1
    <2> QED
      BY <1>0, <2>1, <2>2, CallsElsewhere DEF CallPages
  <1>11. ASSUME ui.conversion \in Rates, NEW narrowed \in BOOLEAN,
                ui' = [ui EXCEPT !.conversion = Calls!Ask(ui.conversion, narrowed)], world' = world
         PROVE  CallsInv'
    <2>1. PICK c \in Rates : c = Calls!Ask(ui.conversion, narrowed) /\ Narrowed(c, world.late)
      BY <1>11, RatesAsked
    <2> QED
      BY <1>0, <1>11, <2>1, CallsRates
  <1>12. CASE Calls!Show \/ Calls!ClearDepartments
    <2>1. ui.conversion \in Rates /\ world' = world
      BY <1>12 DEF Calls!Show, Calls!ClearDepartments, Calls!On, CallsInv
    <2>2. PICK narrowed \in BOOLEAN :
             ui' = [ui EXCEPT !.conversion = Calls!Ask(ui.conversion, narrowed)]
      BY <1>0, <1>12, <2>1 DEF Calls!Show, Calls!ClearDepartments, CallPages, Rates
    <2> QED
      BY <1>11, <2>1, <2>2
  <1>13. ASSUME NEW lead \in Leads, Calls!ExpandLead(lead) PROVE CallsInv'
    <2>1. world' = world /\ \E l \in [id: Leads, state: {"loading", "ready", "error"}] \cup {None} :
             ui' = [ui EXCEPT !.lead = l]
      BY <1>0, <1>13 DEF Calls!ExpandLead, CallPages
    <2>2. PICK l \in [id: Leads, state: {"loading", "ready", "error"}] \cup {None} :
             ui' = [ui EXCEPT !.lead = l]
      BY <2>1
    <2> QED
      BY <1>0, <2>1, <2>2, CallsElsewhere DEF CallPages
  <1>14. CASE Calls!LeadAnswered
    <2>1. PICK state \in {"ready", "error"} : ui' = [ui EXCEPT !.lead.state = state]
      BY <1>14 DEF Calls!LeadAnswered
    <2>2. ui.lead \in [id: Leads, state: {"loading", "ready", "error"}] /\ world' = world
      BY <1>0, <1>14 DEF Calls!LeadAnswered, CallPages
    <2>3. PICK l : l = [ui.lead EXCEPT !.state = state]
      OBVIOUS
    <2>4. l \in [id: Leads, state: {"loading", "ready", "error"}] /\ ui' = [ui EXCEPT !.lead = l]
      BY <1>0, <2>1, <2>2, <2>3 DEF CallPages
    <2> QED
      BY <1>0, <2>2, <2>4, CallsElsewhere DEF CallPages
  <1>15. ASSUME NEW i \in 1..MaxAsks, Calls!ConversionAnswered(i) \/ Calls!ConversionFails(i)
         PROVE  CallsInv'
    <2>0. ui.conversion \in Rates /\ Narrowed(ui.conversion, world.late)
          /\ i \in 1..Len(ui.conversion.asks)
      BY <1>0, <1>15 DEF Calls!ConversionAnswered, Calls!ConversionFails, Calls!Asked
    <2>1. PICK before \in Seq(RateAsks) : before = ui.conversion.asks
      BY <2>0 DEF Rates
    <2>2. i \in 1..Len(before) /\ before[i] \in RateAsks
      BY <2>0, <2>1
    <2>4. PICK asks \in Seq(RateAsks) :
             /\ asks = Calls!Remaining(before, i) /\ Len(asks) = Len(before) - 1
             /\ Len(before) > 1 => IF i = Len(before) THEN asks[Len(before) - 1].overtaken = TRUE
                                   ELSE asks[Len(before) - 1] = before[Len(before)]
      BY <2>2, RatesRemain
    <2>5. PICK over \in BOOLEAN, narrowed \in BOOLEAN :
             over = before[i].overtaken /\ narrowed = before[i].narrowed
      BY <2>2 DEF RateAsks
    <2>6. PICK shown \in [narrowed: BOOLEAN] \cup {None}, failed \in BOOLEAN :
             /\ Calls!Shown(i, shown, failed)
             /\ failed = FALSE => shown.narrowed = narrowed
      <3>0. PICK good : good = [narrowed |-> narrowed]
        OBVIOUS
      <3>1. good \in [narrowed: BOOLEAN] /\ good.narrowed = narrowed
        BY <3>0
      <3>2. Calls!Shown(i, good, FALSE) \/ Calls!Shown(i, None, TRUE)
        BY <1>15, <2>1, <2>5, <3>0 DEF Calls!ConversionAnswered, Calls!ConversionFails
      <3> QED
        BY <3>1, <3>2
    <2>7. PICK c : c = [ui.conversion EXCEPT !.shown = shown, !.failed = failed, !.loading = FALSE,
                                             !.asks = asks]
      OBVIOUS
    <2>8. /\ c \in Rates /\ c.asks = asks /\ c.shown = shown /\ c.failed = failed
          /\ c.narrowed = ui.conversion.narrowed
      BY <2>0, <2>7 DEF Rates
    <2>9. ui' = [ui EXCEPT !.conversion = c] /\ world' = [late |-> over]
      BY <1>0, <2>0, <2>1, <2>4, <2>5, <2>6, <2>7 DEF Calls!Shown, CallPages, Rates
    <2>10. PICK n \in Nat : n = Len(before) /\ i \in 1..n /\ Len(asks) = n - 1
      BY <2>2, <2>4
    <2> n > 0
      BY <2>10
    <2>11. before[n].overtaken = TRUE \/ before[n].narrowed = ui.conversion.narrowed
      <3>1. n # 0
        OBVIOUS
      <3> QED
        BY <2>0, <2>1, <2>10, <3>1 DEF Narrowed
    <2>12. Narrowed(c, over)
      <3>1. CASE n = 1
        <4>1. i = n /\ Len(asks) = 0
          BY <2>10, <3>1
        <4>2. over = FALSE => narrowed = ui.conversion.narrowed
          BY <2>5, <2>11, <4>1
        <4> QED
          BY <2>6, <2>8, <4>1, <4>2 DEF Narrowed
      <3>2. CASE n # 1
        <4>1. n > 1 /\ n - 1 # 0
          BY <3>2
        <4>2. asks[n - 1].overtaken = TRUE \/ asks[n - 1].narrowed = ui.conversion.narrowed
          BY <2>4, <2>10, <2>11, <4>1
        <4> QED
          BY <2>8, <2>10, <4>1, <4>2 DEF Narrowed
      <3> QED
        BY <3>1, <3>2
    <2> QED
      BY <2>8, <2>9, <2>12, CallsRates
  <1> QED
    BY <1>1, <1>2, <1>4, <1>5, <1>6, <1>8, <1>9, <1>10, <1>12, <1>13, <1>14, <1>15
    DEF Calls!Work, Calls!Answer

(* Calls and rates on show are those asked for, whatever overtook what.    *)
THEOREM AskedIsShown == FrontendSpec => []ShownAsAsked
  <1>1. StartPage => CallsOk
    BY DEF StartPage, CallsOk
  <1>2. CallsOk /\ [UsePage]_all => CallsOk'
    <2> SUFFICES ASSUME CallsOk, [UsePage]_all, page' = "calls" PROVE CallsInv'
      BY DEF CallsOk
    <2>1. CASE Calls!Open
      BY <2>1, CallsOpens
    <2>2. CASE page = "calls" /\ Calls!Work
      BY <2>2, CallsWork DEF CallsOk
    <2>3. CASE page = "calls" /\ UNCHANGED <<ui, world>>
      BY <2>3 DEF CallsOk, CallsInv, RowCalls, Narrowed
    <2> QED
      BY <2>1, <2>2, <2>3, Visits
  <1>3. CallsOk => ShownAsAsked
    <2> SUFFICES ASSUME CallsInv PROVE Calls!ShownAsAsked
      BY DEF CallsOk, ShownAsAsked
    <2>1. (ui.panel # None /\ ui.panel.state = "ready")
             => ui.panel.events = [line |-> ui.line, period |-> ui.summary]
      BY DEF CallsInv, RowCalls
    <2>2. ASSUME ui.conversion # None, ui.conversion.asks = <<>>, ~world.late, ~ui.conversion.failed
          PROVE  ui.conversion.shown.narrowed = ui.conversion.narrowed
      <3>1. Len(ui.conversion.asks) = 0
        BY <2>2
      <3>2. world.late = FALSE /\ ui.conversion.failed = FALSE
        BY <2>2 DEF CallsInv, CallPages, Rates
      <3> QED
        BY <2>2, <3>1, <3>2 DEF CallsInv, Narrowed
    <2> QED
      BY <2>1, <2>2 DEF Calls!ShownAsAsked
  <1> QED
    BY <1>1, <1>2, <1>3, PTL DEF FrontendSpec

-----------------------------------------------------------------------------
(* The login session                                                       *)

Cookies == [admin: BOOLEAN, tabs: TabLists, logoutAt: Nat, exp: Nat]
Browsers == [now: Nat, cookie: Cookies \cup {None}, hour: Session!HoursOfDay, tabs: TabLists,
             since: Nat, until: Session!HoursOfDay]

(* A cookie ends at the first time since the login that is at the hour.    *)
SessionInv ==
    /\ world \in Browsers
    /\ world.cookie # None =>
          world.cookie.logoutAt = Session!NextDailyBoundary(world.until, world.since)
SessionOk == page = "session" => SessionInv

(* No time between now and the next boundary is at the hour.               *)
LEMMA BoundaryIsNext ==
    ASSUME NEW since \in Nat, NEW hour \in Session!HoursOfDay
    PROVE  /\ Session!NextDailyBoundary(hour, since) \in Nat
           /\ \A t \in Nat : since < t /\ t % Day = hour =>
                                Session!NextDailyBoundary(hour, since) <= t
  <1>0. Day \in Nat /\ Day > 0 /\ hour \in Nat /\ hour < Day
    BY DayAssumption DEF Session!HoursOfDay
  <1>1. PICK s \in Nat : s = since \div Day
    BY <1>0
  <1>2. since = Day * s + (since % Day) /\ since % Day \in 0..(Day - 1) /\ Day * s \in Nat
    BY <1>0, <1>1
  <1>3. PICK today \in Nat : today = Day * s + hour
    BY <1>0, <1>2
  <1>4. Session!NextDailyBoundary(hour, since) = IF today <= since THEN today + Day ELSE today
    BY <1>0, <1>1, <1>3 DEF Session!NextDailyBoundary
  <1>5. ASSUME NEW t \in Nat, since < t, t % Day = hour
        PROVE  (IF today <= since THEN today + Day ELSE today) <= t
    <2>1. PICK q \in Nat : q = t \div Day
      BY <1>0
    <2>2. t = Day * q + hour /\ Day * q \in Nat
      BY <1>0, <1>5, <2>1
    <2>3. CASE q < s
      <3>1. Day * s >= Day * q + Day
        BY <1>0, <2>3
      <3> QED
        BY <1>0, <1>2, <1>5, <2>2, <3>1
    <2>4. CASE q = s
      BY <1>0, <1>3, <1>5, <2>2, <2>4
    <2>5. CASE q > s
      <3>1. Day * q >= Day * s + Day
        BY <1>0, <2>5
      <3> QED
        BY <1>0, <1>2, <1>3, <2>2, <3>1
    <2> QED
      BY <2>3, <2>4, <2>5
  <1> QED
    BY <1>0, <1>3, <1>4, <1>5

LEMMA SessionOpens == ASSUME Session!Open PROVE SessionInv'
  <1>1. PICK hour \in Session!HoursOfDay, tabs \in TabLists :
           world' = [now |-> 0, cookie |-> None, hour |-> hour, tabs |-> tabs,
                     since |-> 0, until |-> hour]
    BY DEF Session!Open
  <1>2. world' \in Browsers /\ world'.cookie = None
    BY <1>1 DEF Browsers
  <1> QED
    BY <1>2 DEF SessionInv

LEMMA SessionWork == ASSUME SessionInv, Session!Work PROVE SessionInv'
  <1>0. world \in Browsers /\ DefaultHour \in Session!HoursOfDay
    BY DayAssumption DEF SessionInv
  <1>1. ASSUME world' \in Browsers, world'.cookie \in {world.cookie, None},
               world'.since = world.since, world'.until = world.until
        PROVE  SessionInv'
    BY <1>1 DEF SessionInv
  <1>2. CASE Session!Tick
    <2>1. PICK now \in Nat : now = world.now + 1
      BY <1>0 DEF Browsers
    <2>2. world' = [world EXCEPT !.now = now]
      BY <1>0, <1>2, <2>1 DEF Session!Tick, Browsers
    <2> QED
      BY <1>0, <1>1, <2>2 DEF Browsers
  <1>3. ASSUME NEW hour \in Session!HoursOfDay, Session!ChangeHour(hour) PROVE SessionInv'
    BY <1>0, <1>1, <1>3 DEF Session!ChangeHour, Browsers
  <1>4. ASSUME NEW tabs \in TabLists, Session!ChangeTabs(tabs) PROVE SessionInv'
    BY <1>0, <1>1, <1>4 DEF Session!ChangeTabs, Browsers
  <1>5. ASSUME NEW admin \in BOOLEAN, Session!Login(admin) PROVE SessionInv'
    <2>1. PICK hour \in Session!HoursOfDay :
             world' = [world EXCEPT !.cookie = Session!Cookie(admin, hour), !.since = world.now,
                                    !.until = hour]
      BY <1>0, <1>5 DEF Session!Login, Browsers
    <2>2. PICK logoutAt \in Nat : logoutAt = Session!NextDailyBoundary(hour, world.now)
      BY <1>0, BoundaryIsNext DEF Browsers
    <2>3. PICK c : c = Session!Cookie(admin, hour)
      OBVIOUS
    <2>4. c \in Cookies /\ c.logoutAt = logoutAt
      BY <1>0, <2>2, <2>3, DayAssumption DEF Session!Cookie, Browsers, Cookies
    <2>5. /\ world' \in Browsers /\ world'.cookie = c /\ world'.since = world.now
          /\ world'.until = hour
      BY <1>0, <2>1, <2>3, <2>4 DEF Browsers
    <2> QED
      BY <2>2, <2>4, <2>5 DEF SessionInv
  <1>6. CASE Session!Logout
    BY <1>0, <1>1, <1>6 DEF Session!Logout, Browsers
  <1>7. ASSUME NEW path \in Session!Pages, Session!Go(path) PROVE SessionInv'
    BY <1>0, <1>1, <1>7 DEF Session!Go
  <1>8. CASE Session!Call
    BY <1>0, <1>1, <1>8 DEF Session!Call, Browsers
  <1>9. CASE Session!Serve
    <2>1. world' = world \/ world' = [world EXCEPT !.cookie = None]
      BY <1>9 DEF Session!Serve, Session!Redirect
    <2> QED
      BY <1>0, <1>1, <2>1 DEF Browsers
  <1> QED
    BY <1>2, <1>3, <1>4, <1>5, <1>6, <1>7, <1>8, <1>9 DEF Session!Work, Session!Answer

(* A page that is served is served before the logout hour has come.        *)
LEMMA ServedBefore == ASSUME SessionInv, Session!Work PROVE Session!ServedInTime
  <1> SUFFICES ASSUME ui # None, ui' # None, ui.request # None, ui'.request = None,
                      ui'.at # "login", ~world.cookie.admin
               PROVE  \A t \in (world.since + 1)..world.now : t % Day # world.until
    BY DEF Session!ServedInTime
  <1>1. Session!Serve
    <2>1. ASSUME ui' = ui PROVE FALSE
      BY <2>1
    <2>2. ~Session!Tick /\ ~Session!Call
      BY <2>1 DEF Session!Tick, Session!Call
    <2>3. ASSUME NEW x PROVE ~Session!ChangeHour(x) /\ ~Session!ChangeTabs(x)
      BY <2>1 DEF Session!ChangeHour, Session!ChangeTabs
    <2>4. ASSUME NEW x PROVE ~Session!Login(x) /\ ~Session!Go(x)
      BY DEF Session!Login, Session!Go
    <2>5. ~Session!Logout
      BY DEF Session!Logout
    <2> QED
      BY <2>2, <2>3, <2>4, <2>5 DEF Session!Work, Session!Answer
  <1>2. Session!Known /\ ~Session!TimeUp
    <2>1. ~Session!ToLogin
      <3> SUFFICES ASSUME Session!ToLogin PROVE FALSE
        OBVIOUS
      <3> QED
        BY DEF Session!ToLogin
    <2> QED
      BY <1>1, <2>1 DEF Session!Serve
  <1>3. /\ world \in Browsers /\ world.cookie \in Cookies /\ world.now < world.cookie.logoutAt
        /\ world.cookie.logoutAt = Session!NextDailyBoundary(world.until, world.since)
    BY <1>2 DEF Session!Known, Session!TimeUp, SessionInv, Browsers, Cookies
  <1>4. world.since \in Nat /\ world.now \in Nat /\ world.until \in Session!HoursOfDay
        /\ world.cookie.logoutAt \in Nat
    BY <1>3 DEF Browsers, Cookies
  <1> SUFFICES ASSUME NEW t \in (world.since + 1)..world.now, t % Day = world.until PROVE FALSE
    OBVIOUS
  <1>5. t \in Nat /\ world.since < t /\ t <= world.now
    BY <1>4
  <1> QED
    BY <1>3, <1>4, <1>5, BoundaryIsNext

(* Nobody but an administrator is served past the logout hour.             *)
THEOREM LogoutHolds == FrontendSpec => NothingPastLogout
  <1>1. StartPage => SessionOk
    BY DEF StartPage, SessionOk
  <1>2. SessionOk /\ [UsePage]_all => SessionOk'
    <2> SUFFICES ASSUME SessionOk, [UsePage]_all, page' = "session" PROVE SessionInv'
      BY DEF SessionOk
    <2>1. CASE Session!Open
      BY <2>1, SessionOpens
    <2>2. CASE page = "session" /\ Session!Work
      BY <2>2, SessionWork DEF SessionOk
    <2>3. CASE page = "session" /\ UNCHANGED <<ui, world>>
      BY <2>3 DEF SessionOk, SessionInv
    <2> QED
      BY <2>1, <2>2, <2>3, Visits
  <1>3. SessionOk /\ [UsePage]_all =>
           [(page = "session" /\ page' = "session") => Session!ServedInTime]_all
    <2> SUFFICES ASSUME SessionOk, [UsePage]_all, page = "session", page' = "session",
                        ~ UNCHANGED all
                 PROVE  Session!ServedInTime
      OBVIOUS
    <2>1. OnPage
      BY DEF UsePage, OpenPage, ClosePage
    <2>2. Session!Work
      BY <2>1 DEF OnPage
    <2> QED
      BY <2>2, ServedBefore DEF SessionOk
  <1> QED
    BY <1>1, <1>2, <1>3, PTL DEF FrontendSpec, NothingPastLogout

-----------------------------------------------------------------------------
(* The settings page                                                       *)

AllTabs == Settings!Forms \cup Settings!Tables
FieldSets == SUBSET UNION {Settings!FieldsOf(tab) : tab \in AllTabs}
Tabled == [Ids -> FieldSets \cup {None}]
SettingsTabs == [tab: AllTabs, away: BOOLEAN, rows: Tabled, editing: Ids \cup {Settings!New, None},
                 deleting: Ids \cup {None}, saving: BOOLEAN, timers: Nat]

Requests == [kind: {"create", "update", "delete", "order", "list", "undo", "unlisted", "refused"},
             id: Ids \cup {Settings!New}, row: FieldSets \cup Tabled, live: BOOLEAN]

(* What a tab may send, and what it may be told; a form only updates.      *)
Sendable(r, tab) ==
    IF tab \in Settings!Forms THEN r.kind = "update" /\ r.id = 1 /\ r.row \in FieldSets
    ELSE /\ r.kind \in {"create", "update", "delete", "order", "list"}
         /\ r.kind \in {"create", "update"} => r.row \in FieldSets
         /\ r.kind \in {"update", "delete"} => r.id \in Ids
         /\ r.kind = "order" => r.row \in Tabled
Tellable(r, tab) ==
    IF tab \in Settings!Forms THEN r.kind \in {"update", "refused"} /\ (r.kind = "update" => r.id = 1 /\ r.row \in FieldSets)
    ELSE /\ r.kind \in {"create", "update"} => r.row \in FieldSets
         /\ r.kind \in {"create", "update", "delete"} => r.id \in Ids
         /\ r.kind \in {"order", "undo", "list"} => r.row \in Tabled
Sent(tab) == {r \in Requests : Sendable(r, tab)}
Told(tab) == {r \in Requests : Tellable(r, tab)}
Alive == {r \in Requests : r.live = TRUE}
Orphaned == {r \in Requests : r.live = FALSE}
Backs == [server: Tabled, loaded: Tabled, sent: Seq(Requests), done: Seq(Requests),
          stale: BOOLEAN, crossed: BOOLEAN]

(* What answer r makes of rows a, those it was given for.                  *)
Makes(r, a, b) ==
    /\ r.kind = "create" => b = [a EXCEPT ![r.id] = r.row]
    /\ r.kind = "update" => a[r.id] # None /\ b = [a EXCEPT ![r.id] = r.row]
    /\ r.kind = "delete" => b = [a EXCEPT ![r.id] = None]
    /\ r.kind = "list" => b = r.row
    /\ r.kind \in {"order", "undo", "refused"} => b = a

(* The answers not yet heard take the rows on show, or those of a list     *)
(* among them, to the server's: h goes through the states between.         *)
Replays(h, s, shown, done, server) ==
    /\ s \in 0..Len(done) /\ h \in [0..Len(done) -> Tabled] /\ h[Len(done)] = server
    /\ IF s = 0 THEN h[0] = shown ELSE done[s].kind = "list" /\ h[s] = done[s].row
    /\ \A k \in (s + 1)..Len(done) : Makes(done[k], h[k - 1], h[k])

Replayed(shown, done, server) == \E s \in Nat : \E h : Replays(h, s, shown, done, server)

(* A list is awaited, or has failed to come.                               *)
Awaited(w) ==
    \/ \E k \in 1..Len(w.sent) : w.sent[k].kind = "list"
    \/ \E k \in 1..Len(w.done) : w.done[k].kind = "unlisted"

Faithful(p, w) ==
    p.away = FALSE /\ w.stale = FALSE /\ w.crossed = FALSE =>
        /\ w.sent \in Seq(Alive)
        /\ Awaited(w) \/ Replayed(p.rows, w.done, w.server)

SettingsInv ==
    /\ ui \in SettingsTabs /\ world \in Backs
    /\ world.sent \in Seq(Sent(ui.tab)) /\ world.done \in Seq(Told(ui.tab))
    /\ ui.away = TRUE => Len(world.done) = 0 /\ world.sent \in Seq(Orphaned)
    /\ Faithful(ui, world)
SettingsOk == page = "settings" => SettingsInv

LEMMA Shorter ==
    ASSUME NEW S, NEW s \in Seq(S), NEW i \in 1..Len(s)
    PROVE  /\ Settings!Without(s, i) \in Seq(S)
           /\ Len(Settings!Without(s, i)) = Len(s) - 1
           /\ \A k \in 1..(Len(s) - 1) :
                 Settings!Without(s, i)[k] = IF k < i THEN s[k] ELSE s[k + 1]
  <1>0. Len(s) \in Nat /\ Len(s) > 0 /\ i \in Nat
    OBVIOUS
  <1>1. PICK r : r = Settings!Without(s, i)
    OBVIOUS
  <1>2. r = [k \in 1..(Len(s) - 1) |-> s[IF k < i THEN k ELSE k + 1]]
    BY <1>1 DEF Settings!Without
  <1>3. \A k \in 1..(Len(s) - 1) : s[IF k < i THEN k ELSE k + 1] \in S
    BY <1>0
  <1>4. r \in Seq(S) /\ Len(r) = Len(s) - 1
    BY <1>0, <1>2, <1>3
  <1>5. \A k \in 1..(Len(s) - 1) : r[k] = IF k < i THEN s[k] ELSE s[k + 1]
    BY <1>2
  <1> QED
    BY <1>1, <1>4, <1>5

LEMMA ReplayBegins ==
    ASSUME NEW server \in Tabled, NEW done, Len(done) = 0
    PROVE  Replayed(server, done, server)
  <1>1. PICK h : h = [k \in 0..0 |-> server]
    OBVIOUS
  <1>2. h \in [0..0 -> Tabled] /\ h[0] = server
    BY <1>1
  <1>3. Replays(h, 0, server, done, server)
    BY <1>2 DEF Replays
  <1> QED
    BY <1>3 DEF Replayed

(* A list begins the replay anew.                                          *)
LEMMA ReplayListed ==
    ASSUME NEW S, NEW done \in Seq(S), NEW r \in S, r.kind = "list", r.row \in Tabled, NEW shown
    PROVE  Replayed(shown, Append(done, r), r.row)
  <1>1. PICK n \in Nat : n = Len(done) + 1
    OBVIOUS
  <1>2. Len(Append(done, r)) = n /\ Append(done, r)[n] = r /\ n > 0
    BY <1>1
  <1>3. PICK h : h = [k \in 0..n |-> r.row]
    OBVIOUS
  <1>4. h \in [0..n -> Tabled] /\ h[n] = r.row
    BY <1>3
  <1>5. Replays(h, n, shown, Append(done, r), r.row)
    BY <1>2, <1>4 DEF Replays
  <1> QED
    BY <1>5 DEF Replayed

LEMMA ReplayExtended ==
    ASSUME NEW S, NEW done \in Seq(S), NEW r \in S, NEW shown, NEW before, NEW after \in Tabled,
           Replayed(shown, done, before), Makes(r, before, after)
    PROVE  Replayed(shown, Append(done, r), after)
  <1>1. PICK s \in Nat : \E h : Replays(h, s, shown, done, before)
    BY DEF Replayed
  <1>2. PICK h : Replays(h, s, shown, done, before)
    BY <1>1
  <1>3. PICK n \in Nat : n = Len(done)
    OBVIOUS
  <1>4. s <= n /\ h \in [0..n -> Tabled] /\ h[n] = before
    BY <1>2, <1>3 DEF Replays
  <1>5. PICK done2 : done2 = Append(done, r)
    OBVIOUS
  <1>6. Len(done2) = n + 1 /\ done2[n + 1] = r /\ \A k \in 1..n : done2[k] = done[k]
    BY <1>3, <1>5
  <1>7. PICK g : g = [k \in 0..(n + 1) |-> IF k = n + 1 THEN after ELSE h[k]]
    OBVIOUS
  <1>8. g \in [0..(n + 1) -> Tabled] /\ g[n + 1] = after /\ \A k \in 0..n : g[k] = h[k]
    BY <1>4, <1>7
  <1>9. Makes(done2[n + 1], g[n], g[n + 1])
    BY <1>4, <1>6, <1>8
  <1>10. ASSUME NEW k \in (s + 1)..(n + 1) PROVE Makes(done2[k], g[k - 1], g[k])
    <2>1. CASE k = n + 1
      BY <1>9, <2>1
    <2>2. CASE k # n + 1
      <3>1. k \in 1..n /\ k \in 0..n /\ k - 1 \in 0..n /\ k \in (s + 1)..n
        BY <1>4, <2>2
      <3>2. Makes(done[k], h[k - 1], h[k])
        BY <1>2, <1>3, <3>1 DEF Replays
      <3> QED
        BY <1>6, <1>8, <3>1, <3>2
    <2> QED
      BY <2>1, <2>2
  <1>11. IF s = 0 THEN g[0] = shown ELSE done2[s].kind = "list" /\ g[s] = done2[s].row
    <2>1. IF s = 0 THEN h[0] = shown ELSE done[s].kind = "list" /\ h[s] = done[s].row
      BY <1>2 DEF Replays
    <2>2. s \in 0..n /\ (s # 0 => s \in 1..n)
      BY <1>4
    <2> QED
      BY <1>6, <1>8, <2>1, <2>2
  <1>12. Replays(g, s, shown, done2, after)
    BY <1>4, <1>6, <1>8, <1>10, <1>11 DEF Replays
  <1> QED
    BY <1>5, <1>12 DEF Replayed

(* Hearing the first answer shortens the replay.                           *)
LEMMA ReplayHeard ==
    ASSUME NEW S, NEW done \in Seq(S), Len(done) > 0, NEW shown, NEW heard, NEW server,
           Replayed(shown, done, server),
           done[1].kind = "list" => done[1].row \in Tabled,
           \A b \in Tabled : Makes(done[1], shown, b) => heard = b,
           \A a : done[1].kind = "list" => Makes(done[1], a, done[1].row)
    PROVE  Replayed(heard, Settings!Without(done, 1), server)
  <1>1. PICK s \in Nat : \E h : Replays(h, s, shown, done, server)
    BY DEF Replayed
  <1>2. PICK h : Replays(h, s, shown, done, server)
    BY <1>1
  <1>3. PICK n \in Nat : n = Len(done) - 1
    OBVIOUS
  <1>4. s <= n + 1 /\ h \in [0..(n + 1) -> Tabled] /\ h[n + 1] = server /\ Len(done) = n + 1
    BY <1>2, <1>3 DEF Replays
  <1>5. PICK done2 : done2 = Settings!Without(done, 1)
    OBVIOUS
  <1>6. Len(done2) = n /\ \A k \in 1..n : done2[k] = done[k + 1]
    <2>1. 1 \in 1..Len(done)
      BY <1>3
    <2> QED
      BY <1>3, <1>4, <1>5, <2>1, Shorter
  <1>7. PICK g : g = [k \in 0..n |-> h[k + 1]]
    OBVIOUS
  <1>8. g \in [0..n -> Tabled] /\ g[n] = server /\ \A k \in 0..n : g[k] = h[k + 1]
    BY <1>4, <1>7
  <1>9. \A k \in (s + 1)..(n + 1) : Makes(done[k], h[k - 1], h[k])
    BY <1>2, <1>4 DEF Replays
  <1>10. PICK t \in Nat : t = IF s = 0 THEN 0 ELSE s - 1
    OBVIOUS
  <1>11. \A k \in (t + 1)..n : Makes(done2[k], g[k - 1], g[k])
    <2> TAKE k \in (t + 1)..n
    <2>1. k + 1 \in (s + 1)..(n + 1) /\ k \in 1..n /\ k \in 0..n /\ k - 1 \in 0..n
          /\ k + 1 - 1 = k /\ k - 1 + 1 = k
      BY <1>10
    <2>2. Makes(done[k + 1], h[k], h[k + 1])
      BY <1>9, <2>1
    <2> QED
      BY <1>6, <1>8, <2>1, <2>2
  <1>12. h[1] \in Tabled /\ (s <= 1 => heard = h[1])
    <2>1. h[1] \in Tabled
      BY <1>4
    <2>2. CASE s = 0
      <3>1. Makes(done[1], h[0], h[1]) /\ h[0] = shown
        BY <1>2, <1>9, <2>2 DEF Replays
      <3> QED
        BY <2>1, <3>1
    <2>3. CASE s = 1
      <3>1. done[1].kind = "list" /\ h[1] = done[1].row
        BY <1>2, <2>3 DEF Replays
      <3> QED
        BY <2>1, <3>1
    <2> QED
      BY <2>1, <2>2, <2>3
  <1>13. IF t = 0 THEN g[0] = heard ELSE done2[t].kind = "list" /\ g[t] = done2[t].row
    <2>1. CASE t = 0
      BY <1>8, <1>10, <1>12, <2>1
    <2>2. CASE t # 0
      <3>1. s # 0 /\ s = t + 1 /\ t \in 1..n /\ t \in 0..n
        BY <1>4, <1>10, <2>2
      <3>2. done[s].kind = "list" /\ h[s] = done[s].row
        BY <1>2, <3>1 DEF Replays
      <3> QED
        BY <1>6, <1>8, <2>2, <3>1, <3>2
    <2> QED
      BY <2>1, <2>2
  <1>14. Replays(g, t, heard, done2, server)
    <2>1. t \in 0..n
      BY <1>4, <1>10
    <2> QED
      BY <1>6, <1>8, <1>11, <1>13, <2>1 DEF Replays
  <1> QED
    BY <1>5, <1>14 DEF Replayed

(* Every table and form has a row that may be saved.                       *)
LEMMA RowFound ==
    ASSUME NEW tab \in AllTabs
    PROVE  Settings!Stored(CHOOSE f \in SUBSET Settings!FieldsOf(tab) :
                               Settings!Complete(tab, f, Settings!New)) \in FieldSets
  <1>1. Settings!Complete(tab, Settings!FieldsOf(tab), Settings!New)
    BY DEF AllTabs, Settings!Forms, Settings!Tables, Settings!FieldsOf, Settings!Complete,
           Settings!UserFields, Settings!UserComplete, Settings!RoleFields, Settings!RoleComplete,
           Settings!DepartmentFields, Settings!DepartmentComplete, Settings!WorkshopFields,
           Settings!WorkshopComplete, Settings!StatusFields, Settings!StatusComplete,
           Settings!SourceDepartmentFields, Settings!SourceDepartmentComplete,
           Settings!EmployeeFields, Settings!EmployeeComplete, Settings!CostItemFields,
           Settings!CostItemComplete, Settings!LineFields, Settings!LineComplete,
           Settings!PhoneFields, Settings!PhoneComplete, Settings!LeadsFields,
           Settings!LeadsComplete
  <1>2. PICK filled : filled = CHOOSE f \in SUBSET Settings!FieldsOf(tab) :
                               Settings!Complete(tab, f, Settings!New)
    OBVIOUS
  <1>3. filled \in SUBSET Settings!FieldsOf(tab)
    BY <1>1, <1>2
  <1>4. Settings!FieldsOf(tab) \subseteq UNION {Settings!FieldsOf(t) : t \in AllTabs}
    OBVIOUS
  <1> QED
    BY <1>2, <1>3, <1>4 DEF FieldSets, Settings!Stored

(* What is saved is a row.                                                 *)
LEMMA FormFits ==
    ASSUME NEW tab \in AllTabs, NEW filled \in SUBSET Settings!FieldsOf(tab)
    PROVE  filled \in FieldSets /\ Settings!Stored(filled) \in FieldSets
  BY DEF FieldSets, Settings!Stored

LEMMA OrphansGoOn ==
    ASSUME NEW tab, NEW s \in Seq(Sent(tab))
    PROVE  /\ Settings!Orphans(s) \in Seq(Sent(tab)) /\ Settings!Orphans(s) \in Seq(Orphaned)
           /\ Settings!Orphans(s) \in Seq(Requests)
  <1>1. PICK n \in Nat : n = Len(s)
    OBVIOUS
  <1>2. DOMAIN s = 1..n /\ \A k \in 1..n : s[k] \in Sent(tab)
    BY <1>1
  <1> DEFINE orphan(k) == [s[k] EXCEPT !.live = FALSE]
  <1>3. \A k \in 1..n : orphan(k) \in Sent(tab) /\ orphan(k) \in Orphaned
    <2> TAKE k \in 1..n
    <2>1. PICK r : r = s[k]
      OBVIOUS
    <2>2. r \in Requests /\ Sendable(r, tab)
      BY <1>2, <2>1 DEF Sent
    <2>3. PICK o : o = [r EXCEPT !.live = FALSE]
      OBVIOUS
    <2>4. o \in Requests /\ o.live = FALSE /\ o.kind = r.kind /\ o.id = r.id /\ o.row = r.row
      BY <2>2, <2>3 DEF Requests
    <2>5. Sendable(o, tab)
      BY <2>2, <2>4 DEF Sendable
    <2> QED
      BY <2>1, <2>3, <2>4, <2>5 DEF Sent, Orphaned
  <1>4. Settings!Orphans(s) = [k \in 1..n |-> orphan(k)]
    BY <1>2 DEF Settings!Orphans
  <1>5. Sent(tab) \subseteq Requests
    BY DEF Sent
  <1> HIDE DEF orphan
  <1>6. PICK o : o = [k \in 1..n |-> orphan(k)]
    OBVIOUS
  <1>7. ASSUME NEW S, \A k \in 1..n : orphan(k) \in S PROVE o \in Seq(S)
    BY <1>6, <1>7
  <1>8. o \in Seq(Sent(tab)) /\ o \in Seq(Orphaned) /\ o \in Seq(Requests)
    BY <1>3, <1>5, <1>7
  <1> QED
    BY <1>4, <1>6, <1>8

LEMMA SettingsOpens == ASSUME Settings!Open PROVE SettingsInv'
  <1>1. PICK tab \in AllTabs :
           LET row == Settings!Stored(CHOOSE f \in SUBSET Settings!FieldsOf(tab) :
                                         Settings!Complete(tab, f, Settings!New))
               server == [Settings!Empty EXCEPT ![1] = row]
               asks == IF tab = "costItems"
                       THEN <<Settings!Request("list", Settings!New, {})>> ELSE <<>>
           IN  /\ ui' = Settings!Mounted(tab, IF tab = "costItems" THEN Settings!Empty ELSE server)
               /\ world' = [server |-> server, loaded |-> server, sent |-> asks, done |-> <<>>,
                            stale |-> FALSE, crossed |-> FALSE]
    BY DEF Settings!Open, AllTabs
  <1>2. PICK row \in FieldSets :
           row = Settings!Stored(CHOOSE f \in SUBSET Settings!FieldsOf(tab) :
                                    Settings!Complete(tab, f, Settings!New))
    BY RowFound
  <1>3. PICK server \in Tabled : server = [Settings!Empty EXCEPT ![1] = row]
    BY IdsAssumption DEF Tabled, Settings!Empty
  <1>4. PICK ask : ask = Settings!Request("list", Settings!New, {})
    OBVIOUS
  <1>5. ask \in Requests /\ ask.live = TRUE /\ ask.kind = "list"
    BY <1>4 DEF Settings!Request, Requests, FieldSets
  <1>6. "costItems" \notin Settings!Forms
    BY DEF Settings!Forms
  <1>7. PICK asks : asks = IF tab = "costItems" THEN <<ask>> ELSE <<>>
    OBVIOUS
  <1>8. asks \in Seq(Requests) /\ asks \in Seq(Sent(tab)) /\ asks \in Seq(Alive)
    <2>1. tab = "costItems" => ask \in Sent(tab) /\ ask \in Alive
      BY <1>5, <1>6 DEF Sent, Sendable, Alive
    <2>2. CASE tab = "costItems"
      <3>1. asks = <<ask>>
        BY <1>7, <2>2
      <3>2. ASSUME NEW S, ask \in S PROVE asks \in Seq(S)
        BY <3>1, <3>2
      <3> QED
        BY <1>5, <2>1, <2>2, <3>2
    <2>3. CASE tab # "costItems"
      BY <1>7, <2>3
    <2> QED
      BY <2>2, <2>3
  <1>9. PICK shown \in Tabled : shown = IF tab = "costItems" THEN Settings!Empty ELSE server
    BY <1>3 DEF Tabled, Settings!Empty
  <1>10. /\ ui' = Settings!Mounted(tab, shown)
         /\ world' = [server |-> server, loaded |-> server, sent |-> asks, done |-> <<>>,
                      stale |-> FALSE, crossed |-> FALSE]
    BY <1>1, <1>2, <1>3, <1>4, <1>7, <1>9
  <1>11. ui' \in SettingsTabs /\ ui'.tab = tab /\ ui'.away = FALSE /\ ui'.rows = shown
    BY <1>10, IdsAssumption DEF Settings!Mounted, SettingsTabs
  <1>12. world' \in Backs
    BY <1>8, <1>10 DEF Backs
  <1>13. Awaited(world') \/ Replayed(ui'.rows, world'.done, world'.server)
    <2>1. CASE tab = "costItems"
      <3>1. Len(world'.sent) = 1 /\ world'.sent[1] = ask
        BY <1>7, <1>10, <2>1
      <3> QED
        BY <1>5, <3>1 DEF Awaited
    <2>2. CASE tab # "costItems"
      <3>1. world'.server = server /\ Len(world'.done) = 0 /\ ui'.rows = server
        BY <1>9, <1>10, <1>11, <2>2
      <3> QED
        BY <3>1, ReplayBegins
    <2> QED
      BY <2>1, <2>2
  <1>14. world'.sent = asks /\ Len(world'.done) = 0 /\ world'.done \in Seq(Told(tab))
    BY <1>10
  <1>15. Faithful(ui, world)'
    BY <1>8, <1>13, <1>14 DEF Faithful
  <1> QED
    BY <1>8, <1>11, <1>12, <1>14, <1>15 DEF SettingsInv

(* The server's answer to request i is to be heard after those before it.  *)
LEMMA ResultKeeps ==
    ASSUME SettingsInv, NEW i \in 1..Len(world.sent), NEW answer \in Told(ui.tab),
           NEW server \in Tabled, answer.live = world.sent[i].live,
           world.sent[i].kind = "list" <=> answer.kind \in {"list", "unlisted"},
           Makes(answer, world.server, server),
           Settings!Result(i, answer, server), UNCHANGED ui
    PROVE  SettingsInv'
  <1>0. /\ ui \in SettingsTabs /\ world \in Backs /\ world.sent \in Seq(Sent(ui.tab))
        /\ world.done \in Seq(Told(ui.tab))
    BY DEF SettingsInv
  <1>1. PICK sent : sent = Settings!Without(world.sent, i)
    OBVIOUS
  <1>2. PICK done : done = IF answer.live THEN Append(world.done, answer) ELSE world.done
    OBVIOUS
  <1>3. world' = [world EXCEPT !.server = server, !.sent = sent, !.done = done]
    BY <1>1, <1>2 DEF Settings!Result
  <1>4. ASSUME NEW S, world.sent \in Seq(S) PROVE sent \in Seq(S)
    BY <1>1, <1>4, Shorter
  <1>5. /\ sent \in Seq(Sent(ui.tab)) /\ Len(sent) = Len(world.sent) - 1
        /\ \A k \in 1..(Len(world.sent) - 1) :
              sent[k] = IF k < i THEN world.sent[k] ELSE world.sent[k + 1]
    BY <1>0, <1>1, <1>4, Shorter
  <1>6. done \in Seq(Told(ui.tab))
    <2>1. Append(world.done, answer) \in Seq(Told(ui.tab))
      BY <1>0
    <2> QED
      BY ONLY <1>0, <1>2, <2>1
  <1>7. Sent(ui.tab) \subseteq Requests /\ Told(ui.tab) \subseteq Requests
    BY DEF Sent, Told
  <1>8. sent \in Seq(Requests) /\ done \in Seq(Requests)
    BY <1>5, <1>6, <1>7
  <1>9. world' \in Backs
    BY <1>0, <1>3, <1>8 DEF Backs
  <1>10. /\ world'.sent = sent /\ world'.done = done /\ world'.server = server
         /\ world'.stale = world.stale /\ world'.crossed = world.crossed
    BY <1>0, <1>3 DEF Backs
  <1>11. ASSUME ui.away = TRUE PROVE Len(done) = 0 /\ sent \in Seq(Orphaned)
    <2>1. Len(world.done) = 0 /\ world.sent \in Seq(Orphaned)
      BY <1>11 DEF SettingsInv
    <2>2. answer.live = FALSE
      BY <2>1 DEF Orphaned
    <2> QED
      BY <1>2, <1>4, <2>1, <2>2
  <1>12. ASSUME ui.away = FALSE, world.stale = FALSE, world.crossed = FALSE
         PROVE  /\ sent \in Seq(Alive)
                /\ Awaited(world') \/ Replayed(ui.rows, done, server)
    <2>1. /\ world.sent \in Seq(Alive)
          /\ Awaited(world) \/ Replayed(ui.rows, world.done, world.server)
      BY <1>12 DEF SettingsInv, Faithful
    <2>2. answer.live = TRUE
      BY <2>1 DEF Alive
    <2>3. done = Append(world.done, answer)
      BY <1>2, <2>2
    <2>4. PICK n \in Nat : n = Len(world.done)
      BY <1>0
    <2>5. /\ Len(done) = n + 1 /\ done[n + 1] = answer
          /\ \A k \in 1..n : done[k] = world.done[k]
      BY <1>0, <2>3, <2>4
    <2>6. CASE answer.kind = "unlisted"
      <3>1. n + 1 \in 1..Len(done)
        BY <2>4, <2>5
      <3> QED
        BY <1>4, <1>10, <2>1, <2>5, <2>6, <3>1 DEF Awaited
    <2>7. CASE answer.kind = "list"
      <3>1. answer.row = server
        BY <2>7 DEF Makes
      <3>2. Replayed(ui.rows, done, server)
        BY <1>0, <2>3, <2>7, <3>1, ReplayListed
      <3> QED
        BY <1>4, <2>1, <3>2
    <2>8. CASE answer.kind \notin {"list", "unlisted"}
      <3>1. CASE Replayed(ui.rows, world.done, world.server)
        <4>1. Replayed(ui.rows, done, server)
          BY <1>0, <2>3, <3>1, ReplayExtended
        <4> QED
          BY <1>4, <2>1, <4>1
      <3>2. ASSUME NEW k \in 1..Len(world.sent), world.sent[k].kind = "list"
            PROVE  Awaited(world')
        <4>1. PICK m \in Nat : m = Len(world.sent)
          BY <1>0
        <4>2. k # i
          BY <2>8, <3>2
        <4>3. PICK j \in Nat : j = IF k < i THEN k ELSE k - 1
          BY <3>2
        <4>4. j \in 1..(m - 1) /\ (k < i => j < i /\ j = k) /\ (~(k < i) => ~(j < i) /\ j + 1 = k)
          BY <4>1, <4>2, <4>3
        <4>5. sent[j] = world.sent[k] /\ j \in 1..Len(sent)
          BY <1>5, <4>1, <4>4
        <4> QED
          BY <1>10, <3>2, <4>5 DEF Awaited
      <3>3. ASSUME NEW k \in 1..Len(world.done), world.done[k].kind = "unlisted"
            PROVE  Awaited(world')
        <4>1. k \in 1..n /\ k \in 1..Len(done)
          BY <2>4, <2>5
        <4> QED
          BY <1>10, <2>5, <3>3, <4>1 DEF Awaited
      <3> QED
        BY <1>4, <2>1, <3>1, <3>2, <3>3 DEF Awaited
    <2> QED
      BY <2>6, <2>7, <2>8
  <1>13. Faithful(ui, world)'
    BY <1>10, <1>12 DEF Faithful
  <1> QED
    BY <1>0, <1>5, <1>6, <1>9, <1>10, <1>11, <1>13 DEF SettingsInv

LEMMA RowPut ==
    ASSUME NEW table \in Tabled, NEW id \in Ids, NEW row \in FieldSets \cup {None}
    PROVE  [table EXCEPT ![id] = row] \in Tabled
  BY DEF Tabled

(* An answer gives a table the rows it was made for, if they are on show.  *)
LEMMA TableHears ==
    ASSUME ui \in SettingsTabs, NEW r \in Told(ui.tab), ui.tab \notin Settings!Forms,
           ui' = Settings!Heard(r, ui)
    PROVE  /\ ui' \in SettingsTabs /\ ui'.tab = ui.tab /\ ui'.away = ui.away
           /\ r.kind # "unlisted" /\ (r.kind = "undo" => r.row = ui.rows) =>
                 \A b \in Tabled : Makes(r, ui.rows, b) => ui'.rows = b
  <1>1. r \in Requests /\ Tellable(r, ui.tab) /\ ui.rows \in Tabled
    BY DEF Told, SettingsTabs
  <1>2. CASE r.kind = "create"
    <2>1. PICK table \in Tabled : table = [ui.rows EXCEPT ![r.id] = r.row]
      BY <1>1, <1>2, RowPut DEF Tellable
    <2>2. ui' = [ui EXCEPT !.rows = table, !.editing = None]
      BY <1>2, <2>1 DEF Settings!Heard, SettingsTabs
    <2> QED
      BY <1>2, <2>1, <2>2 DEF SettingsTabs, Makes
  <1>3. CASE r.kind = "update"
    <2>0. r.id \in Ids /\ r.row \in FieldSets
      BY <1>1, <1>3 DEF Tellable
    <2>1. PICK row \in FieldSets \cup {None} : row = IF ui.rows[r.id] = None THEN None ELSE r.row
      BY <2>0
    <2>2. PICK table \in Tabled : table = [ui.rows EXCEPT ![r.id] = row]
      BY <1>1, <2>0, RowPut
    <2>3. ui' = [ui EXCEPT !.rows = table, !.editing = None]
      BY <1>3, <2>1, <2>2 DEF Settings!Heard, SettingsTabs
    <2> QED
      BY <1>3, <2>1, <2>2, <2>3 DEF SettingsTabs, Makes
  <1>4. CASE r.kind = "delete"
    <2>1. PICK table \in Tabled : table = [ui.rows EXCEPT ![r.id] = None]
      BY <1>1, <1>4, RowPut DEF Tellable
    <2>2. ui' = [ui EXCEPT !.rows = table, !.deleting = None]
      BY <1>4, <2>1 DEF Settings!Heard, SettingsTabs
    <2> QED
      BY <1>4, <2>1, <2>2 DEF SettingsTabs, Makes
  <1>5. CASE r.kind \in {"list", "undo"}
    <2>1. r.row \in Tabled /\ ui' = [ui EXCEPT !.rows = r.row]
      BY <1>1, <1>5 DEF Settings!Heard, Tellable
    <2>2. ui'.rows = r.row
      BY <2>1 DEF SettingsTabs
    <2> QED
      BY <1>5, <2>1, <2>2 DEF SettingsTabs, Makes
  <1>6. CASE r.kind \in {"order", "unlisted", "refused"}
    <2>1. ui' = ui
      BY <1>6 DEF Settings!Heard
    <2>2. ASSUME NEW b, r.kind # "unlisted", Makes(r, ui.rows, b) PROVE b = ui.rows
      BY <1>6, <2>2 DEF Makes
    <2>3. ui' \in SettingsTabs /\ ui'.tab = ui.tab /\ ui'.away = ui.away /\ ui'.rows = ui.rows
      BY <2>1
    <2> QED
      BY <2>2, <2>3
  <1> QED
    BY <1>1, <1>2, <1>3, <1>4, <1>5, <1>6 DEF Requests

LEMMA FormHears ==
    ASSUME ui \in SettingsTabs, NEW r \in Told(ui.tab), ui.tab \in Settings!Forms,
           ui' = Settings!HeardByForm(r, ui)
    PROVE  /\ ui' \in SettingsTabs /\ ui'.tab = ui.tab /\ ui'.away = ui.away
           /\ \A b \in Tabled : Makes(r, ui.rows, b) => ui'.rows = b
  <1>1. /\ ui.rows \in Tabled /\ r.kind \in {"update", "refused"}
        /\ r.kind = "update" => r.id = 1 /\ r.row \in FieldSets
    BY DEF Told, Tellable, SettingsTabs
  <1>2. PICK row \in FieldSets \cup {None} : row = IF r.kind = "update" THEN r.row ELSE ui.rows[1]
    BY <1>1, IdsAssumption DEF Tabled
  <1>3. PICK table \in Tabled : table = [ui.rows EXCEPT ![1] = row]
    BY <1>1, IdsAssumption, RowPut
  <1>4. ui' = [ui EXCEPT !.rows = table, !.saving = FALSE, !.timers = 1]
    BY <1>2, <1>3 DEF Settings!HeardByForm, SettingsTabs
  <1>5. ui' \in SettingsTabs /\ ui'.tab = ui.tab /\ ui'.away = ui.away /\ ui'.rows = table
    <2>1. \A p \in SettingsTabs : LET q == [p EXCEPT !.rows = table, !.saving = FALSE, !.timers = 1]
                                 IN  /\ q \in SettingsTabs /\ q.tab = p.tab /\ q.away = p.away
                                     /\ q.rows = table
      BY DEF SettingsTabs
    <2> QED
      BY <1>4, <2>1
  <1>6. CASE r.kind = "update"
    <2>1. table = [ui.rows EXCEPT ![r.id] = r.row]
      BY <1>1, <1>2, <1>3, <1>6
    <2>2. ASSUME NEW b, Makes(r, ui.rows, b) PROVE b = table
      BY <1>6, <2>1, <2>2 DEF Makes
    <2> QED
      BY <1>5, <2>2
  <1>7. CASE r.kind = "refused"
    <2>1. table = ui.rows
      BY <1>1, <1>2, <1>3, <1>7, IdsAssumption DEF Tabled
    <2> QED
      BY <1>5, <1>7, <2>1 DEF Makes
  <1> QED
    BY <1>1, <1>6, <1>7, <1>5

(* Answers heard in the order in which the server gave them.               *)
LEMMA AnswerKeeps ==
    ASSUME SettingsInv, NEW i, Settings!Answered(i)
    PROVE  SettingsInv'
  <1>0. /\ ui \in SettingsTabs /\ world \in Backs /\ world.sent \in Seq(Sent(ui.tab))
        /\ world.done \in Seq(Told(ui.tab))
    BY DEF SettingsInv
  <1>1. ui.away = FALSE /\ i \in 1..Len(world.done)
    BY <1>0 DEF Settings!Answered, Settings!Shown, SettingsTabs
  <1>2. PICK r : r = world.done[i]
    OBVIOUS
  <1>3. r \in Told(ui.tab)
    BY <1>0, <1>1, <1>2
  <1>4. PICK crossed \in BOOLEAN : crossed = (world.crossed \/ Settings!Misled(i, r))
    OBVIOUS
  <1>5. PICK done : done = Settings!Without(world.done, i)
    OBVIOUS
  <1>6. world' = [world EXCEPT !.done = done, !.crossed = crossed]
    BY <1>0, <1>2, <1>4, <1>5 DEF Settings!Answered, Backs
  <1>7. /\ done \in Seq(Told(ui.tab)) /\ done \in Seq(Requests)
        /\ Len(done) = Len(world.done) - 1
        /\ \A k \in 1..(Len(world.done) - 1) :
              done[k] = IF k < i THEN world.done[k] ELSE world.done[k + 1]
    <2>1. world.done \in Seq(Requests)
      BY <1>0 DEF Backs
    <2>2. done \in Seq(Requests)
      BY <1>1, <1>5, <2>1, Shorter
    <2>3. \A S : world.done \in Seq(S) =>
             /\ done \in Seq(S) /\ Len(done) = Len(world.done) - 1
             /\ \A k \in 1..(Len(world.done) - 1) :
                   done[k] = IF k < i THEN world.done[k] ELSE world.done[k + 1]
      BY <1>1, <1>5, Shorter
    <2> QED
      BY <1>0, <2>2, <2>3
  <1>8. /\ world' \in Backs /\ world'.sent = world.sent /\ world'.done = done
        /\ world'.server = world.server /\ world'.stale = world.stale /\ world'.crossed = crossed
    BY <1>0, <1>6, <1>7 DEF Backs
  <1>9. /\ ui' \in SettingsTabs /\ ui'.tab = ui.tab /\ ui'.away = ui.away
        /\ r.kind # "unlisted" /\ (r.kind = "undo" => r.row = ui.rows) =>
              \A b \in Tabled : Makes(r, ui.rows, b) => ui'.rows = b
    BY <1>0, <1>2, <1>3, TableHears, FormHears DEF Settings!Answered
  <1>10. ASSUME world.stale = FALSE, crossed = FALSE
         PROVE  /\ world.sent \in Seq(Alive)
                /\ Awaited(world') \/ Replayed(ui'.rows, done, world.server)
    <2>1. /\ world.crossed = FALSE /\ i = 1 /\ r.kind # "unlisted"
          /\ r.kind = "undo" => r.row = ui.rows
      <3>1. ~world.crossed /\ ~Settings!Misled(i, r)
        BY <1>4, <1>10
      <3>2. world.crossed \in BOOLEAN
        BY <1>0 DEF Backs
      <3> QED
        BY <1>1, <3>1, <3>2 DEF Settings!Misled
    <2>2. /\ world.sent \in Seq(Alive)
          /\ Awaited(world) \/ Replayed(ui.rows, world.done, world.server)
      BY <1>1, <1>10, <2>1 DEF SettingsInv, Faithful
    <2>3. ASSUME NEW k \in 1..Len(world.sent), world.sent[k].kind = "list"
          PROVE  Awaited(world')
      BY <1>8, <2>3 DEF Awaited
    <2>4. ASSUME NEW k \in 1..Len(world.done), world.done[k].kind = "unlisted"
          PROVE  Awaited(world')
      <3>1. PICK m \in Nat : m = Len(world.done)
        BY <1>0
      <3>2. k # 1
        BY <1>2, <2>1, <2>4
      <3>3. PICK j \in Nat : j = k - 1
        BY <3>2
      <3>4. j \in 1..(m - 1) /\ ~(j < 1) /\ j + 1 = k
        BY <3>1, <3>2, <3>3
      <3>5. done[j] = world.done[k] /\ j \in 1..Len(done)
        BY <1>7, <2>1, <3>1, <3>4
      <3> QED
        BY <1>8, <2>4, <3>5 DEF Awaited
    <2>5. CASE Replayed(ui.rows, world.done, world.server)
      <3>1. Len(world.done) > 0 /\ world.done[1] = r
        BY <1>0, <1>1, <1>2, <2>1
      <3>2. \A b \in Tabled : Makes(world.done[1], ui.rows, b) => ui'.rows = b
        BY <1>9, <2>1, <3>1
      <3>3. \A a : r.kind = "list" => Makes(r, a, r.row)
        BY DEF Makes
      <3>4. r.kind = "list" => r.row \in Tabled
        BY <1>3 DEF Told, Tellable
      <3> QED
        BY <1>0, <1>5, <2>1, <2>2, <2>5, <3>1, <3>2, <3>3, <3>4, ReplayHeard
    <2> QED
      BY <2>2, <2>3, <2>4, <2>5 DEF Awaited
  <1>11. Faithful(ui, world)'
    BY <1>8, <1>10 DEF Faithful
  <1> QED
    BY <1>0, <1>1, <1>7, <1>8, <1>9, <1>11 DEF SettingsInv

(* The dialogs, the buttons and the timers leave the rows alone.           *)
LEMMA DialogKeeps ==
    ASSUME SettingsInv, UNCHANGED world, ui' \in SettingsTabs, ui'.tab = ui.tab,
           ui'.away = ui.away, ui'.rows = ui.rows
    PROVE  SettingsInv'
  <1>1. Faithful(ui, world)'
    BY DEF SettingsInv, Faithful, Awaited
  <1> QED
    BY <1>1 DEF SettingsInv

LEMMA SendKeeps ==
    ASSUME SettingsInv, ui.away = FALSE, NEW r \in Sent(ui.tab), r.live = TRUE, Settings!Send(r),
           ui' \in SettingsTabs, ui'.tab = ui.tab, ui'.away = ui.away, ui'.rows = ui.rows
    PROVE  SettingsInv'
  <1>0. /\ world \in Backs /\ world.sent \in Seq(Sent(ui.tab)) /\ r \in Requests
        /\ r \in Alive
    BY DEF SettingsInv, Sent, Alive
  <1>1. PICK sent : sent = Append(world.sent, r)
    OBVIOUS
  <1>2. world' = [world EXCEPT !.sent = sent]
    BY <1>0, <1>1 DEF Settings!Send, Backs
  <1>3. sent \in Seq(Sent(ui.tab)) /\ sent \in Seq(Requests)
    <2>1. world.sent \in Seq(Requests)
      BY <1>0 DEF Backs
    <2> QED
      BY <1>0, <1>1, <2>1
  <1>4. /\ world' \in Backs /\ world'.sent = sent /\ world'.done = world.done
        /\ world'.server = world.server /\ world'.stale = world.stale
        /\ world'.crossed = world.crossed
    BY <1>0, <1>2, <1>3 DEF Backs
  <1>5. Awaited(world) => Awaited(world')
    <2>1. ASSUME NEW k \in 1..Len(world.sent), world.sent[k].kind = "list"
          PROVE  k \in 1..Len(sent) /\ sent[k].kind = "list"
      BY <1>0, <1>1, <2>1
    <2> QED
      BY <1>4, <2>1 DEF Awaited
  <1>6. world.sent \in Seq(Alive) => sent \in Seq(Alive)
    BY ONLY <1>0, <1>1
  <1>7. Faithful(ui, world)'
    BY <1>4, <1>5, <1>6 DEF SettingsInv, Faithful
  <1> QED
    BY <1>3, <1>4, <1>7 DEF SettingsInv

LEMMA TabLeft == ASSUME SettingsInv, Settings!LeaveTab PROVE SettingsInv'
  <1>0. ui \in SettingsTabs /\ world \in Backs /\ world.sent \in Seq(Sent(ui.tab))
    BY DEF SettingsInv
  <1>1. PICK sent : sent = Settings!Orphans(world.sent)
    OBVIOUS
  <1>2. world' = [world EXCEPT !.sent = sent, !.done = <<>>, !.stale = FALSE, !.crossed = FALSE]
    BY <1>0, <1>1 DEF Settings!LeaveTab, Backs
  <1>3. sent \in Seq(Sent(ui.tab)) /\ sent \in Seq(Orphaned) /\ sent \in Seq(Requests)
    BY <1>0, <1>1, OrphansGoOn
  <1>4. world' \in Backs /\ world'.sent = sent /\ world'.done = <<>>
    <2>1. PICK none : none = <<>> /\ none \in Seq(Requests)
      <3>1. \A S : <<>> \in Seq(S)
        OBVIOUS
      <3> QED
        BY <3>1
    <2>2. world' = [world EXCEPT !.sent = sent, !.done = none, !.stale = FALSE, !.crossed = FALSE]
      BY <1>2, <2>1
    <2> QED
      BY <1>0, <1>3, <2>1, <2>2 DEF Backs
  <1>5. ui' \in SettingsTabs /\ ui'.tab = ui.tab /\ ui'.away = TRUE
    BY <1>0, IdsAssumption
    DEF Settings!LeaveTab, Settings!Mounted, Settings!Empty, SettingsTabs, Tabled
  <1>6. Len(world'.done) = 0 /\ world'.done \in Seq(Told(ui.tab))
    BY <1>4
  <1>7. Faithful(ui, world)'
    BY <1>5 DEF Faithful
  <1> QED
    BY <1>3, <1>4, <1>5, <1>6, <1>7 DEF SettingsInv

LEMMA TabBack == ASSUME SettingsInv, Settings!ReturnToTab PROVE SettingsInv'
  <1>0. /\ ui \in SettingsTabs /\ world \in Backs /\ world.sent \in Seq(Sent(ui.tab))
        /\ ui.away = TRUE /\ Len(world.done) = 0 /\ world.done \in Seq(Told(ui.tab))
    BY DEF SettingsInv, Settings!ReturnToTab, SettingsTabs
  <1>1. CASE ui.tab = "costItems"
    <2>1. PICK ask : ask = Settings!Request("list", Settings!New, {})
      OBVIOUS
    <2>2. ask \in Requests /\ ask.live = TRUE /\ ask.kind = "list"
      BY <2>1 DEF Settings!Request, Requests, FieldSets
    <2>3. ask \in Sent(ui.tab) /\ ask \in Alive
      BY <1>1, <2>2 DEF Sent, Sendable, Alive, Settings!Forms
    <2>4. PICK sent : sent = Append(world.sent, ask)
      OBVIOUS
    <2>5. PICK stale \in BOOLEAN : stale = (world.sent # <<>>)
      OBVIOUS
    <2>6. /\ world' = [world EXCEPT !.stale = stale, !.sent = sent]
          /\ ui' = Settings!Mounted(ui.tab, Settings!Empty)
      BY <1>0, <1>1, <2>1, <2>4, <2>5 DEF Settings!ReturnToTab, Backs
    <2>7. sent \in Seq(Sent(ui.tab)) /\ sent \in Seq(Requests)
      <3>1. world.sent \in Seq(Requests)
        BY <1>0 DEF Backs
      <3> QED
        BY <1>0, <2>2, <2>3, <2>4, <3>1
    <2>8. /\ world' \in Backs /\ world'.sent = sent /\ world'.done = world.done
          /\ world'.stale = stale
      BY <1>0, <2>6, <2>7 DEF Backs
    <2>9. ui' \in SettingsTabs /\ ui'.tab = ui.tab /\ ui'.away = FALSE
      BY <1>0, <2>6, IdsAssumption DEF Settings!Mounted, Settings!Empty, SettingsTabs, Tabled
    <2>10. ASSUME stale = FALSE PROVE sent \in Seq(Alive) /\ Awaited(world')
      <3>1. world.sent = <<>>
        BY ONLY <2>5, <2>10
      <3>2. sent = <<ask>>
        BY ONLY <2>4, <3>1
      <3>3. sent \in Seq(Alive) /\ Len(sent) = 1 /\ sent[1] = ask
        BY ONLY <2>3, <3>2
      <3> QED
        BY <2>2, <2>8, <3>3 DEF Awaited
    <2>11. Faithful(ui, world)'
      BY <2>8, <2>10 DEF Faithful
    <2> QED
      BY <1>0, <2>7, <2>8, <2>9, <2>11 DEF SettingsInv
  <1>2. CASE ui.tab # "costItems"
    <2>1. PICK stale \in BOOLEAN : stale = (world.server # world.loaded \/ world.sent # <<>>)
      OBVIOUS
    <2>2. /\ world' = [world EXCEPT !.stale = stale]
          /\ ui' = Settings!Mounted(ui.tab, world.loaded)
      BY <1>0, <1>2, <2>1 DEF Settings!ReturnToTab, Backs
    <2>3. /\ world' \in Backs /\ world'.sent = world.sent /\ world'.done = world.done
          /\ world'.stale = stale /\ world'.server = world.server
      BY <1>0, <2>2 DEF Backs
    <2>4. ui' \in SettingsTabs /\ ui'.tab = ui.tab /\ ui'.away = FALSE /\ ui'.rows = world.loaded
      BY <1>0, <2>2, IdsAssumption DEF Settings!Mounted, SettingsTabs, Backs
    <2>5. ASSUME stale = FALSE
          PROVE  /\ world.sent \in Seq(Alive)
                 /\ Replayed(ui'.rows, world.done, world.server)
      <3>1. world.sent = <<>> /\ ui'.rows = world.server /\ world.server \in Tabled
        BY <1>0, <2>1, <2>4, <2>5 DEF Backs
      <3> QED
        BY <1>0, <3>1, ReplayBegins
    <2>6. Faithful(ui, world)'
      BY <2>3, <2>5 DEF Faithful
    <2> QED
      BY <1>0, <2>3, <2>4, <2>6 DEF SettingsInv
  <1> QED
    BY <1>1, <1>2

(* Refused or done, an answer says what became of the server's rows.       *)
LEMMA RequestApplied ==
    ASSUME SettingsInv, NEW i, Settings!Applied(i)
    PROVE  SettingsInv'
  <1>0. /\ ui \in SettingsTabs /\ world \in Backs /\ world.sent \in Seq(Sent(ui.tab))
        /\ UNCHANGED ui
    BY DEF SettingsInv, Settings!Applied
  <1>1. PICK r : r = world.sent[i]
    OBVIOUS
  <1>2. i \in 1..Len(world.sent) /\ r \in Sent(ui.tab)
    BY <1>0, <1>1 DEF Settings!Applied
  <1>3. r \in Requests /\ Sendable(r, ui.tab) /\ world.server \in Tabled /\ {} \in FieldSets
    BY <1>0, <1>2 DEF Sent, Backs, FieldSets
  <1>4. CASE Settings!Result(i, Settings!Refusal(r), world.server)
    <2>1. PICK a : a = Settings!Refusal(r)
      OBVIOUS
    <2>2. /\ a \in Requests /\ a.live = r.live
          /\ a.kind = IF r.kind = "order" THEN "undo" ELSE IF r.kind = "list" THEN "unlisted"
                      ELSE "refused"
          /\ a.row = IF r.kind = "order" THEN r.row ELSE {}
      BY <1>3, <2>1 DEF Settings!Refusal, Requests
    <2>3. Tellable(a, ui.tab)
      BY <1>3, <2>2 DEF Sendable, Tellable
    <2>4. a \in Told(ui.tab) /\ Makes(a, world.server, world.server)
      BY <2>2, <2>3 DEF Told, Makes
    <2>5. r.kind = "list" <=> a.kind \in {"list", "unlisted"}
      BY <2>2
    <2> QED
      BY <1>0, <1>1, <1>2, <1>3, <1>4, <2>1, <2>2, <2>4, <2>5, ResultKeeps
  <1>5. ASSUME NEW a, NEW server, Settings!Result(i, a, server), r.kind = a.kind,
               a \in Told(ui.tab), server \in Tabled, a.live = r.live,
               r.kind # "unlisted", Makes(a, world.server, server)
        PROVE  SettingsInv'
    BY <1>0, <1>1, <1>2, <1>5, ResultKeeps
  <1>6. ASSUME r.kind = "create", NEW id \in Ids,
               Settings!Result(i, [r EXCEPT !.id = id], [world.server EXCEPT ![id] = r.row])
        PROVE  SettingsInv'
    <2>1. PICK a : a = [r EXCEPT !.id = id]
      OBVIOUS
    <2>2. /\ a \in Requests /\ a.live = r.live /\ a.kind = r.kind /\ a.id = id /\ a.row = r.row
          /\ r.row \in FieldSets
      BY <1>3, <1>6, <2>1 DEF Requests, Sendable
    <2>3. a \in Told(ui.tab)
      BY <1>3, <1>6, <2>2 DEF Told, Tellable, Sendable
    <2>4. PICK server \in Tabled : server = [world.server EXCEPT ![id] = r.row]
      BY <1>3, <2>2, RowPut
    <2>5. Makes(a, world.server, server)
      BY <1>6, <2>2, <2>4 DEF Makes
    <2> QED
      BY <1>5, <1>6, <2>1, <2>2, <2>3, <2>4, <2>5
  <1>7. ASSUME r.kind = "update", world.server[r.id] # None,
               Settings!Result(i, r, [world.server EXCEPT ![r.id] = r.row])
        PROVE  SettingsInv'
    <2>1. r \in Told(ui.tab) /\ r.id \in Ids /\ r.row \in FieldSets
      BY <1>3, <1>7, IdsAssumption DEF Told, Tellable, Sendable
    <2>2. PICK server \in Tabled : server = [world.server EXCEPT ![r.id] = r.row]
      BY <1>3, <2>1, RowPut
    <2>3. Makes(r, world.server, server)
      BY <1>7, <2>2 DEF Makes
    <2> QED
      BY <1>5, <1>7, <2>1, <2>2, <2>3
  <1>8. ASSUME r.kind = "delete", Settings!Result(i, r, [world.server EXCEPT ![r.id] = None])
        PROVE  SettingsInv'
    <2>1. r \in Told(ui.tab) /\ r.id \in Ids
      BY <1>3, <1>8 DEF Told, Tellable, Sendable
    <2>2. PICK server \in Tabled : server = [world.server EXCEPT ![r.id] = None]
      BY <1>3, <2>1, RowPut
    <2>3. Makes(r, world.server, server)
      BY <1>8, <2>2 DEF Makes
    <2> QED
      BY <1>5, <1>8, <2>1, <2>2, <2>3
  <1>9. ASSUME r.kind = "order", Settings!Result(i, r, world.server) PROVE SettingsInv'
    <2>1. r \in Told(ui.tab)
      BY <1>3, <1>9 DEF Told, Tellable, Sendable
    <2>2. Makes(r, world.server, world.server)
      BY <1>9 DEF Makes
    <2> QED
      BY <1>3, <1>5, <1>9, <2>1, <2>2
  <1>10. ASSUME r.kind = "list",
                Settings!Result(i, [r EXCEPT !.row = world.server], world.server)
         PROVE  SettingsInv'
    <2>1. PICK a : a = [r EXCEPT !.row = world.server]
      OBVIOUS
    <2>2. /\ a \in Requests /\ a.live = r.live /\ a.kind = r.kind /\ a.row = world.server
      BY <1>3, <2>1 DEF Requests
    <2>3. a \in Told(ui.tab)
      BY <1>3, <1>10, <2>2 DEF Told, Tellable, Sendable
    <2>4. Makes(a, world.server, world.server)
      BY <1>10, <2>2 DEF Makes
    <2> QED
      BY <1>3, <1>5, <1>10, <2>1, <2>2, <2>3, <2>4
  <1> QED
    BY <1>1, <1>4, <1>6, <1>7, <1>8, <1>9, <1>10 DEF Settings!Applied

LEMMA SettingsWork == ASSUME SettingsInv, Settings!Work PROVE SettingsInv'
  <1>0. /\ ui \in SettingsTabs /\ world \in Backs
        /\ ui.tab \in Settings!Forms => ui.tab \notin Settings!Tables
    BY DEF SettingsInv, Settings!Forms, Settings!Tables
  <1>1. ASSUME NEW q \in SettingsTabs, ui' = q, UNCHANGED world, q.tab = ui.tab,
               q.away = ui.away, q.rows = ui.rows
        PROVE  SettingsInv'
    BY <1>1, DialogKeeps
  <1>2. CASE Settings!LeaveTab
    BY <1>2, TabLeft
  <1>3. CASE Settings!ReturnToTab
    BY <1>3, TabBack
  <1>4. CASE Settings!OpenNew
    BY <1>0, <1>1, <1>4 DEF Settings!OpenNew, SettingsTabs
  <1>5. ASSUME NEW id \in Ids, Settings!OpenEdit(id) \/ Settings!AskDelete(id)
        PROVE  SettingsInv'
    <2>1. UNCHANGED world /\ ui' \in {[ui EXCEPT !.editing = id], [ui EXCEPT !.deleting = id]}
      BY <1>5 DEF Settings!OpenEdit, Settings!AskDelete
    <2>2. ui' \in SettingsTabs /\ ui'.tab = ui.tab /\ ui'.away = ui.away /\ ui'.rows = ui.rows
      BY <1>0, <2>1 DEF SettingsTabs
    <2> QED
      BY <1>1, <2>1, <2>2
  <1>6. CASE Settings!CloseDialog
    <2>1. UNCHANGED world /\ ui' = [ui EXCEPT !.editing = None, !.deleting = None]
      BY <1>6 DEF Settings!CloseDialog
    <2>2. ui' \in SettingsTabs /\ ui'.tab = ui.tab /\ ui'.away = ui.away /\ ui'.rows = ui.rows
      BY <1>0, <2>1 DEF SettingsTabs
    <2> QED
      BY <1>1, <2>1, <2>2
  <1>7. CASE Settings!TimerFires
    <2>1. PICK timers \in Nat : timers = ui.timers - 1
      <3>1. ui.timers \in Nat /\ ui.timers > 0
        BY <1>0, <1>7 DEF Settings!TimerFires, SettingsTabs
      <3> QED
        BY <3>1
    <2>2. ui' = [ui EXCEPT !.timers = timers, !.saving = FALSE] /\ UNCHANGED world
      BY <1>0, <1>7, <2>1 DEF Settings!TimerFires, SettingsTabs
    <2>3. ui' \in SettingsTabs /\ ui'.tab = ui.tab /\ ui'.away = ui.away /\ ui'.rows = ui.rows
      BY <1>0, <2>1, <2>2 DEF SettingsTabs
    <2> QED
      BY <1>1, <2>2, <2>3
  <1>8. ASSUME NEW kind \in {"create", "update", "delete", "order"},
               NEW id \in Ids \cup {Settings!New}, NEW row \in FieldSets \cup Tabled,
               ui.away = FALSE, UNCHANGED ui, Settings!Send(Settings!Request(kind, id, row)),
               ui.tab \notin Settings!Forms,
               kind \in {"create", "update"} => row \in FieldSets,
               kind \in {"update", "delete"} => id \in Ids,
               kind = "order" => row \in Tabled
        PROVE  SettingsInv'
    <2>1. PICK r : r = Settings!Request(kind, id, row)
      OBVIOUS
    <2>2. r \in Requests /\ r.kind = kind /\ r.id = id /\ r.row = row /\ r.live = TRUE
      BY <2>1 DEF Settings!Request, Requests
    <2>3. r \in Sent(ui.tab)
      BY <1>8, <2>2 DEF Sent, Sendable
    <2> QED
      BY <1>0, <1>8, <2>1, <2>2, <2>3, SendKeeps
  <1>9. ASSUME Settings!IsTable PROVE ui.away = FALSE /\ ui.tab \notin Settings!Forms
    BY <1>0, <1>9 DEF Settings!IsTable, Settings!Shown, SettingsTabs
  <1>10. CASE Settings!ConfirmDelete
    <2>1. /\ Settings!IsTable /\ ui.deleting \in Ids /\ {} \in FieldSets /\ UNCHANGED ui
          /\ Settings!Send(Settings!Request("delete", ui.deleting, {}))
      BY <1>0, <1>10 DEF Settings!ConfirmDelete, SettingsTabs, FieldSets
    <2> QED
      BY <1>8, <1>9, <2>1
  <1>11. CASE Settings!DropOn
    <2>1. /\ Settings!IsTable /\ ui.rows \in Tabled /\ UNCHANGED ui
          /\ Settings!Send(Settings!Request("order", Settings!New, ui.rows))
      BY <1>0, <1>11 DEF Settings!DropOn, SettingsTabs
    <2> QED
      BY <1>8, <1>9, <2>1
  <1>12. ASSUME NEW filled \in SUBSET Settings!FieldsOf(ui.tab), Settings!Save(filled)
         PROVE  SettingsInv'
    <2>1. /\ Settings!IsTable /\ UNCHANGED ui /\ Settings!Stored(filled) \in FieldSets
          /\ ui.editing \in Ids \cup {Settings!New}
      BY <1>0, <1>12, FormFits DEF Settings!Save, SettingsTabs
    <2>2. CASE ui.editing = Settings!New
      <3>1. Settings!Send(Settings!Request("create", Settings!New, Settings!Stored(filled)))
        BY <1>12, <2>2 DEF Settings!Save
      <3> QED
        BY <1>8, <1>9, <2>1, <3>1
    <2>3. CASE ui.editing # Settings!New
      <3>1. Settings!Send(Settings!Request("update", ui.editing, Settings!Stored(filled)))
        BY <1>12, <2>3 DEF Settings!Save
      <3> QED
        BY <1>8, <1>9, <2>1, <2>3, <3>1
    <2> QED
      BY <2>2, <2>3
  <1>13. ASSUME NEW filled \in SUBSET Settings!FieldsOf(ui.tab), Settings!SaveForm(filled)
         PROVE  SettingsInv'
    <2>1. /\ ui.away = FALSE /\ ui.tab \in Settings!Forms /\ filled \in FieldSets
          /\ ui' = [ui EXCEPT !.saving = TRUE]
          /\ Settings!Send(Settings!Request("update", 1, filled))
      BY <1>0, <1>13, FormFits DEF Settings!SaveForm, Settings!Shown, SettingsTabs
    <2>2. PICK r : r = Settings!Request("update", 1, filled)
      OBVIOUS
    <2>3. r \in Requests /\ r.kind = "update" /\ r.id = 1 /\ r.row = filled /\ r.live = TRUE
      BY <2>1, <2>2, IdsAssumption DEF Settings!Request, Requests
    <2>4. r \in Sent(ui.tab)
      BY <2>1, <2>3 DEF Sent, Sendable
    <2>5. ui' \in SettingsTabs /\ ui'.tab = ui.tab /\ ui'.away = ui.away /\ ui'.rows = ui.rows
      BY <1>0, <2>1 DEF SettingsTabs
    <2> QED
      BY <2>1, <2>2, <2>3, <2>4, <2>5, SendKeeps
  <1>14. ASSUME NEW filled, Settings!RefuseForm(filled) PROVE SettingsInv'
    BY <1>0, <1>1, <1>14 DEF Settings!RefuseForm, SettingsTabs
  <1>15. ASSUME NEW i, Settings!Applied(i) \/ Settings!Answered(i) PROVE SettingsInv'
    BY <1>15, RequestApplied, AnswerKeeps
  <1> QED
    BY <1>2, <1>3, <1>4, <1>5, <1>6, <1>7, <1>10, <1>11, <1>12, <1>13, <1>14, <1>15
    DEF Settings!Work, Settings!Answer

(* SettingsPage: once nothing is under way the tab shows what the server   *)
(* has, but for the ways it can be misled that stale and crossed note.     *)
THEOREM RowsSettle == FrontendSpec => []RowsAreStored
  <1>1. StartPage => SettingsOk
    BY DEF StartPage, SettingsOk
  <1>2. SettingsOk /\ [UsePage]_all => SettingsOk'
    <2> SUFFICES ASSUME SettingsOk, [UsePage]_all, page' = "settings" PROVE SettingsInv'
      BY DEF SettingsOk
    <2>1. CASE Settings!Open
      BY <2>1, SettingsOpens
    <2>2. CASE page = "settings" /\ Settings!Work
      BY <2>2, SettingsWork DEF SettingsOk
    <2>3. CASE page = "settings" /\ UNCHANGED <<ui, world>>
      BY <2>3, DialogKeeps DEF SettingsOk, SettingsInv
    <2> QED
      BY <2>1, <2>2, <2>3, Visits
  <1>3. SettingsOk => RowsAreStored
    <2> SUFFICES ASSUME SettingsInv, Settings!Shown, world.sent = <<>>, world.done = <<>>,
                        ~world.stale, ~world.crossed
                 PROVE  ui.rows = world.server
      BY DEF SettingsOk, RowsAreStored, Settings!RowsAreStored
    <2>1. ui.away = FALSE /\ world.stale = FALSE /\ world.crossed = FALSE
      BY DEF SettingsInv, Settings!Shown, SettingsTabs, Backs
    <2>2. ~Awaited(world) /\ Len(world.done) = 0
      BY DEF Awaited
    <2>3. Replayed(ui.rows, world.done, world.server)
      BY <2>1, <2>2 DEF SettingsInv, Faithful
    <2>4. PICK s \in Nat : \E h : Replays(h, s, ui.rows, world.done, world.server)
      BY <2>3 DEF Replayed
    <2> QED
      BY <2>2, <2>4 DEF Replays
  <1> QED
    BY <1>1, <1>2, <1>3, PTL DEF FrontendSpec

-----------------------------------------------------------------------------
(* The stages of a body car                                                *)

(* The page of body cars is one of the pages, so what its own              *)
(* specification promises of the stages holds in the application.          *)
THEOREM StagesStay == FrontendSpec => []StagesAccepted
  <1>1. StartPage => Inductive
    BY InitInductive DEF StartPage
  <1>2. Inductive /\ [UsePage]_all => Inductive'
    <2>1. ASSUME [UsePage]_all PROVE [Next]_vars
      <3>1. OpenPage \/ ClosePage \/ OnPage \/ UNCHANGED vars
        BY <2>1 DEF UsePage, all
      <3>2. CASE OpenPage
        BY <3>2 DEF OpenPage, PageStep, ListStep, Next
      <3>3. CASE ClosePage
        BY <3>3 DEF ClosePage, PageStep, ListStep, Next
      <3>4. CASE OnPage
        BY <3>4 DEF OnPage, PageStep, ListStep, Next
      <3> QED
        BY <3>1, <3>2, <3>3, <3>4
    <2> QED
      BY <2>1, NextInductive
  <1>3. Inductive => StagesAccepted
    BY DraggedAccepted, DeltasAssumption DEF Inductive, StagesAccepted
  <1> QED
    BY <1>1, <1>2, <1>3, PTL DEF FrontendSpec
=============================================================================
