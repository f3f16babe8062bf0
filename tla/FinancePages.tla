---------------------------- MODULE FinancePages ----------------------------
(***************************************************************************)
(* The tables of budgets and of expenses (src/frontend/components/budget): *)
(* the year on show, its loading, the cells that are saved at once, and    *)
(* the import of a month of expenses from a file.                          *)
(***************************************************************************)
EXTENDS Naturals, Sequences, FiniteSets

CONSTANTS
    Years,        \* the years one may go to
    Current,      \* the current one
    Files,        \* the files that may be chosen for import
    MaxWrites,    \* cell saves and re-reads under way at once (a bound)
    None

VARIABLES
    ui,           \* tab, year, the year the figures are of, the load, the dialog
    world         \* what is under way, and history

vars == <<ui, world>>

Closed == ui = None /\ world = None
Init == Closed

(* Budgets come with the page; expenses load their own year.               *)
Mounted(tab) ==
    [tab |-> tab, year |-> Current, data |-> IF tab = "budgets" THEN Current ELSE None,
     load |-> IF tab = "budgets" THEN None ELSE Current, failed |-> FALSE, dialog |-> None]

Idle == [writes |-> {}, check |-> None, import |-> None, overrun |-> FALSE]

Open == Closed /\ ui' = Mounted("budgets") /\ world' = Idle
Close == ui # None /\ ui' = None /\ world' = None

(* FinanceView mounts a tab anew; a write under way is not heard any more. *)
SelectTab(tab) == /\ ui # None /\ tab # ui.tab /\ ui.dialog = None
                  /\ ui' = Mounted(tab) /\ world' = Idle

(* Mutant of LoadYear: the load of the year left is not cancelled, and its *)
(* answer is taken for the new one.                                        *)
LoadYearUncancelled(page, year) ==
    [page EXCEPT !.year = year, !.load = IF @ = None THEN year ELSE @, !.failed = FALSE]

(* The load effect: one load counts, the cleanup cancels the one before.   *)
LoadYear(page, year) == [page EXCEPT !.year = year, !.load = year, !.failed = FALSE]

ChangeYear(year) == /\ ui # None /\ ui.dialog = None /\ year # ui.year
                    /\ ui' = LoadYear(ui, year) /\ UNCHANGED world

YearLoaded == /\ ui # None /\ ui.load # None
              /\ ui' = [ui EXCEPT !.data = ui.load, !.load = None]
              /\ world' = [world EXCEPT !.overrun = FALSE]

(* The figures of the year before stay on show, under the new year.        *)
YearFailed == /\ ui # None /\ ui.load # None
              /\ ui' = [ui EXCEPT !.load = None, !.failed = TRUE] /\ UNCHANGED world

(* A cell left with another value: saved under the year on show, whichever *)
(* year the figures are of.                                                *)
Commit == /\ ui # None /\ ui.data # None /\ ui.dialog = None
          /\ Cardinality(world.writes) < MaxWrites
          /\ world' = [world EXCEPT !.writes = @ \union {[year |-> ui.year, saved |-> FALSE]}]
          /\ UNCHANGED ui

(* A budget save is not heard of again; after an expense the year of the   *)
(* moment of the commit is read once more.                                 *)
Saved(w) == /\ ui # None /\ w \in world.writes /\ ~w.saved
            /\ world' = [world EXCEPT !.writes = IF ui.tab = "budgets" THEN @ \ {w}
                           ELSE (@ \ {w}) \union {[w EXCEPT !.saved = TRUE]}]
            /\ UNCHANGED ui

(* That answer is shown whatever year one has gone to meanwhile.           *)
ReRead(w) == /\ ui # None /\ w \in world.writes /\ w.saved
             /\ ui' = [ui EXCEPT !.data = w.year, !.failed = FALSE]
             /\ world' = [world EXCEPT !.writes = @ \ {w}, !.overrun = w.year # ui.year]

WriteFails(w) == /\ ui # None /\ w \in world.writes
                 /\ world' = [world EXCEPT !.writes = @ \ {w}] /\ UNCHANGED ui

-----------------------------------------------------------------------------
(* ExpensesImportDialog: a fresh instance each time it is opened, for the  *)
(* year of the month before this one.                                      *)
OpenImport == /\ ui # None /\ ui.tab = "expenses" /\ ui.dialog = None
              /\ \E year \in {Current - 1, Current} \intersect Years :
                   ui' = [ui EXCEPT !.dialog = [year |-> year, file |-> None, report |-> None,
                                                sent |-> None, busy |-> FALSE, done |-> FALSE]]
              /\ UNCHANGED world

CloseImport == /\ ui # None /\ ui.dialog # None
               /\ ui' = [ui EXCEPT !.dialog = None] /\ UNCHANGED world

(* The inputs can be changed while the check or the load is under way, too. *)
Choose(year, file) ==
    /\ ui # None /\ ui.dialog # None /\ ~ui.dialog.done
    /\ ui' = [ui EXCEPT !.dialog.year = year, !.dialog.file = file, !.dialog.report = None]
    /\ UNCHANGED world

Check == /\ ui # None /\ ui.dialog # None /\ ui.dialog.file # None
         /\ ~ui.dialog.busy /\ ~ui.dialog.done
         /\ ui' = [ui EXCEPT !.dialog.report = None, !.dialog.busy = TRUE,
                             !.dialog.sent = [year |-> ui.dialog.year, file |-> ui.dialog.file]]
         /\ UNCHANGED world

Checking == ui # None /\ ui.dialog # None /\ ui.dialog.sent # None

Checked == /\ Checking
           /\ ui' = [ui EXCEPT !.dialog.report = ui.dialog.sent,
                               !.dialog.sent = None, !.dialog.busy = FALSE]
           /\ UNCHANGED world

CheckFails == /\ Checking
              /\ ui' = [ui EXCEPT !.dialog.sent = None, !.dialog.busy = FALSE] /\ UNCHANGED world

(* The year and the file of this moment are sent, not those of the report; *)
(* one load at a time (a bound: the dialog may be closed and opened again). *)
Import == /\ ui # None /\ ui.dialog # None /\ ui.dialog.report # None
          /\ ~ui.dialog.busy /\ ~ui.dialog.done /\ world.import = None
          /\ ui' = [ui EXCEPT !.dialog.busy = TRUE]
          /\ world' = [world EXCEPT !.import = ui.dialog.year]

(* The dialog that waits for the load; one opened since does not.          *)
Loader(done) ==
    IF ui.dialog # None /\ ui.dialog.busy /\ ui.dialog.sent = None
    THEN [ui EXCEPT !.dialog.busy = FALSE, !.dialog.done = done] ELSE ui

(* onImported: the year imported is shown and loaded.                      *)
Imported == /\ ui # None /\ world.import # None
            /\ ui' = LoadYear(Loader(TRUE), world.import)
            /\ world' = [world EXCEPT !.import = None]

ImportFails == /\ ui # None /\ world.import # None
               /\ ui' = Loader(FALSE) /\ world' = [world EXCEPT !.import = None]

Answer == \/ YearLoaded \/ YearFailed \/ Checked \/ CheckFails \/ Imported \/ ImportFails
          \/ world # None /\ \E w \in world.writes : Saved(w) \/ ReRead(w) \/ WriteFails(w)
Work == \/ \E tab \in {"budgets", "expenses"} : SelectTab(tab)
        \/ \E year \in Years : ChangeYear(year) \/ \E file \in Files \union {None} : Choose(year, file)
        \/ Commit \/ OpenImport \/ Check \/ Import \/ CloseImport \/ Answer
Next == Open \/ Close \/ Work
Spec == Init /\ [][Next]_vars /\ WF_vars(Answer)

-----------------------------------------------------------------------------
(* The figures on show are those of the year above them, under which a     *)
(* cell is saved, once that year is loaded; unless its load failed or the  *)
(* re-read after an expense brought back the year one had left.            *)
EditsGoWhereShown ==
    (ui # None /\ ui.load = None /\ ~ui.failed /\ ~world.overrun) => ui.data = ui.year
=============================================================================
