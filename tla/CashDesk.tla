------------------------------ MODULE CashDesk ------------------------------
(***************************************************************************)
(* The cash page (src/frontend/components/cash/CashView.tsx,               *)
(* CashEntryDialog.tsx): choosing the desk and the day, loading its book,  *)
(* the search by work-order number that jumps to another day, and the      *)
(* dialog of an entry.  A day stands for the period and the card filters.  *)
(***************************************************************************)
EXTENDS Naturals, Sequences

CONSTANTS
    Desks, Days,
    Today,        \* the one day that may be written without the right to correct
    Locked,       \* the days of the locked period
    CanCorrect,   \* does this user have "Корректировка кассы"
    MaxAsks,      \* book requests under way at once (a bound)
    None

VARIABLES
    ui,           \* the mounted page
    world         \* the search and the save under way, and history

vars == <<ui, world>>

View(desk, day) == [desk |-> desk, day |-> day]

(* A request for a book; late (history): a newer one has been answered, or *)
(* it was sent for a view already left.                                    *)
Ask(view, late) == [view |-> view, late |-> late]

(* The load effect: whenever desk or day change.  Nothing cancels or       *)
(* numbers the requests.                                                   *)
Load(page) == [page EXCEPT !.asks = Append(@, Ask(page.view, FALSE))]

Closed == ui = None /\ world = None
Init == Closed
Open == /\ Closed
        /\ \E desk \in Desks :
             ui' = Load([view |-> View(desk, Today), book |-> None, late |-> FALSE,
                         asks |-> <<>>, dialog |-> None, others |-> {}])
        /\ world' = [search |-> FALSE, save |-> None, openedFor |-> None, jumped |-> FALSE]
Close == ui # None /\ ui' = None /\ world' = None

(* The dialog is modal: what is beside it cannot be clicked.               *)
Free == ui # None /\ ui.dialog = None

(* Mutant of Show: the period moves and the book is not asked for.         *)
ShowUnasked(view, page) == [page EXCEPT !.view = view]

Show(view, page) == IF view = page.view THEN page ELSE Load([page EXCEPT !.view = view])

(* Another department or workshop drops the hits; the day stays.           *)
SelectDesk(desk) ==
    /\ Free /\ Len(ui.asks) < MaxAsks /\ desk # ui.view.desk
    /\ ui' = Show(View(desk, ui.view.day), [ui EXCEPT !.others = {}]) /\ UNCHANGED world

(* The calendar, Показать, Сбросить, the arrows between the hits.          *)
SelectDay(day) ==
    /\ Free /\ Len(ui.asks) < MaxAsks /\ day # ui.view.day
    /\ ui' = Show(View(ui.view.desk, day), ui) /\ UNCHANGED world

NextHit(day) ==
    /\ Free /\ day \in ui.others /\ Len(ui.asks) < MaxAsks
    /\ ui' = Show(View(ui.view.desk, day), [ui EXCEPT !.others = (@ \ {day})])
    /\ UNCHANGED world

-----------------------------------------------------------------------------
(* The requests still under way when the i-th is answered; those sent      *)
(* before it have been overtaken.                                          *)
Remaining(asks, i) ==
    [k \in 1..Len(asks) - 1 |-> IF k < i THEN [asks[k] EXCEPT !.late = TRUE] ELSE asks[k + 1]]

Arrive(i, book) ==
    ui' = [ui EXCEPT !.book = book, !.late = ui.asks[i].late, !.asks = Remaining(@, i)]

BookAnswered(i) ==
    /\ ui # None /\ i \in 1..Len(ui.asks)
    /\ Arrive(i, ui.asks[i].view) \/ Arrive(i, None)
    /\ UNCHANGED world

-----------------------------------------------------------------------------
(* runSearch, one at a time; its answer jumps to the first hit's day,      *)
(* whatever desk is shown by then and whether or not a dialog is open.     *)
RunSearch == /\ Free /\ ~world.search
             /\ world' = [world EXCEPT !.search = TRUE] /\ UNCHANGED ui

Found(first, others) ==
    /\ ui' = Show(View(ui.view.desk, first), [ui EXCEPT !.others = others])
    /\ world' = [world EXCEPT !.search = FALSE, !.jumped = @ \/ ui.dialog # None]

NotFound == /\ ui' = [ui EXCEPT !.others = {}]
            /\ world' = [world EXCEPT !.search = FALSE]

SearchAnswered ==
    /\ ui # None /\ world.search /\ Len(ui.asks) < MaxAsks
    /\ NotFound \/ \E first \in Days : \E others \in SUBSET (Days \ {first}) : Found(first, others)

-----------------------------------------------------------------------------
(* newEntryDate, canAdd, the dialog's date and its readOnly.               *)
CanWrite(day) == CanCorrect \/ day = Today
DateOf(dialog, view) == IF dialog.entry = None THEN view.day ELSE dialog.entry.day

OpenNew == /\ Free /\ CanWrite(ui.view.day)
           /\ ui' = [ui EXCEPT !.dialog = [entry |-> None]]
           /\ world' = [world EXCEPT !.openedFor = ui.view, !.jumped = FALSE]

(* An entry of the book on show, which may be the book of a view left.     *)
OpenEntry == /\ Free /\ ui.book # None
             /\ ui' = [ui EXCEPT !.dialog = [entry |-> ui.book]]
             /\ world' = [world EXCEPT !.openedFor = ui.book, !.jumped = FALSE]

(* While a save is under way the buttons are off, the cross is not.        *)
CloseDialog == /\ ui # None /\ ui.dialog # None
               /\ ui' = [ui EXCEPT !.dialog = None]
               /\ world' = [world EXCEPT !.openedFor = None, !.jumped = FALSE]

(* Mutant of Target: an entry is written to the day on show.               *)
TargetShown(dialog, view) == view

(* workshopId and the date as of this render; an entry never moves.        *)
Target(dialog, view) ==
    IF dialog.entry = None THEN View(view.desk, DateOf(dialog, view)) ELSE dialog.entry

Save ==
    /\ ui # None /\ ui.dialog # None /\ world.save = None
    /\ LET target == Target(ui.dialog, ui.view) IN
       /\ CanWrite(target.day)
       /\ ui.dialog.entry # None => target.day \notin Locked
       /\ world' = [world EXCEPT !.save = [day |-> target.day, view |-> ui.view]]
    /\ UNCHANGED ui

(* onSaved closes the dialog and loads the view of the moment of the click. *)
Saved ==
    /\ ui # None /\ world.save # None /\ world.save.day \notin Locked
    /\ Len(ui.asks) < MaxAsks
    /\ ui' = [ui EXCEPT !.dialog = None,
                        !.asks = Append(@, Ask(world.save.view, world.save.view # ui.view))]
    /\ world' = [world EXCEPT !.save = None, !.openedFor = None,
                              !.jumped = FALSE]

(* Refused (locked meanwhile, no right, lost): the dialog shows the error. *)
SaveRefused == /\ ui # None /\ world.save # None
               /\ world' = [world EXCEPT !.save = None] /\ UNCHANGED ui

Answer == \/ \E i \in 1..MaxAsks : BookAnswered(i)
          \/ SearchAnswered \/ Saved \/ SaveRefused
Work == \/ \E desk \in Desks : SelectDesk(desk)
        \/ \E day \in Days : SelectDay(day)
        \/ \E day \in Days : NextHit(day)
        \/ RunSearch \/ OpenNew \/ OpenEntry \/ CloseDialog \/ Save \/ Answer
Next == Open \/ Close \/ Work
Spec == Init /\ [][Next]_vars /\ WF_vars(Answer)

-----------------------------------------------------------------------------
(* Once every book asked for has come, the book on show, if it did not     *)
(* fail to load, is that of the desk and day on show, unless an older      *)
(* answer came after a newer one, or the reload after a save was for a     *)
(* view the search had already left.                                       *)
BookSettled ==
    (ui # None /\ ui.asks = <<>> /\ ~ui.late) => ui.book \in {ui.view, None}

(* What the dialog would save goes to the desk and the day it was opened   *)
(* for, unless a search answer moved the page under it.                    *)
WrittenWhereOpened ==
    (ui # None /\ ui.dialog # None /\ ~world.jumped)
        => Target(ui.dialog, ui.view) = world.openedFor
=============================================================================
