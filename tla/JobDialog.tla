----------------------------- MODULE JobDialog -----------------------------
(***************************************************************************)
(* The dialog of one planner record (src/frontend/components/planner/      *)
(* WorkshopJobDialog.tsx): the form of a new or a loaded record, filling   *)
(* it from a work order (found by number or by plate), saving, deleting.   *)
(* A form is the set of changes made to it since the record was opened.    *)
(***************************************************************************)
EXTENDS Naturals

CONSTANTS
    Fields,     \* the fields the user types into
    Records,    \* the records that can be opened; "new" is the empty slot
    MaxSaves,   \* saves under way at once (a bound)
    None

VARIABLES
    ui,         \* the dialog: key, open, form, lookup, confirming, error
    world       \* saves under way, and history

vars == <<ui, world>>

Slots == Records \union {"new"}

Mounted(key) == [key |-> key, open |-> TRUE, form |-> {}, lookup |-> None,
                 confirming |-> FALSE, error |-> FALSE]

Closed == ui = None /\ world = None
Init == Closed
Open == /\ Closed
        /\ \E slot \in Slots : ui' = Mounted(slot)
        /\ world' = [saves |-> 0, typed |-> {}, raced |-> {}]
Close == ui # None /\ ui' = None /\ world' = None

(* openCreate, openEdit: another slot or record is another key and mounts  *)
(* the form anew; the same one finds its form as it was left.              *)
OpenRecord(slot) ==
    /\ ui # None /\ ~ui.open
    /\ ui' = IF slot = ui.key THEN [ui EXCEPT !.open = TRUE] ELSE Mounted(slot)
    /\ world' = IF slot = ui.key THEN world ELSE [world EXCEPT !.typed = {}, !.raced = {}]

CloseDialog == /\ ui # None /\ ui.open /\ ~ui.confirming
               /\ ui' = [ui EXCEPT !.open = FALSE] /\ UNCHANGED world

(* Mutant of Type: the field is set on the record as it was opened.        *)
TypeOnDraft(field) == ui' = [ui EXCEPT !.form = {field}]

(* setForm({ ...form, field }).                                            *)
Type(field) == ui' = [ui EXCEPT !.form = @ \union {field}]

TypeField(field) ==
    /\ ui # None /\ ui.open /\ ~ui.confirming
    /\ Type(field)
    /\ world' = [world EXCEPT !.typed = @ \union {field},
                              !.raced = IF ui.lookup # None THEN @ \union {field} ELSE @]

(* applyWorkOrder: the order's data on top of the form it was given.       *)
ApplyWorkOrder(form) == form \union {"order"}

(* The autocomplete's answer to the number typed last (older answers are   *)
(* cancelled), and a choice from it.                                       *)
ChooseOrder ==
    /\ ui # None /\ ui.open /\ ~ui.confirming
    /\ ui' = [ui EXCEPT !.form = ApplyWorkOrder(@)] /\ UNCHANGED world

(* lookupByPlate: one at a time; the answer is applied to the form as it   *)
(* was when the button was pressed.                                        *)
LookupByPlate ==
    /\ ui # None /\ ui.open /\ ~ui.confirming /\ ui.lookup = None
    /\ ui' = [ui EXCEPT !.lookup = ui.form] /\ UNCHANGED world

LookupAnswered ==
    /\ ui # None /\ ui.lookup # None
    /\ \/ ui' = [ui EXCEPT !.form = ApplyWorkOrder(ui.lookup), !.lookup = None]
       \/ ui' = [ui EXCEPT !.lookup = None]
    /\ UNCHANGED world

(* Nothing keeps the button from being pressed again: each press is a      *)
(* request, and each press on a new record makes a record.                 *)
Save ==
    /\ ui # None /\ ui.open /\ ~ui.confirming /\ world.saves < MaxSaves
    /\ world' = [world EXCEPT !.saves = @ + 1]
    /\ UNCHANGED ui

(* onWritten mounts the board anew, and the dialog with it: closed.        *)
Saved ==
    /\ ui # None /\ world.saves > 0
    /\ ui' = [Mounted("new") EXCEPT !.open = FALSE]
    /\ world' = [world EXCEPT !.saves = @ - 1, !.typed = {}, !.raced = {}]

(* The error is shown in the dialog that is mounted.                       *)
SaveRefused ==
    /\ ui # None /\ world.saves > 0
    /\ ui' = [ui EXCEPT !.error = TRUE] /\ world' = [world EXCEPT !.saves = @ - 1]

AskDelete == /\ ui # None /\ ui.open /\ ui.key # "new" /\ ~ui.confirming
             /\ ui' = [ui EXCEPT !.confirming = TRUE] /\ UNCHANGED world

(* The confirmation is closed whether or not the delete succeeds.          *)
ConfirmDelete ==
    /\ ui # None /\ ui.confirming
    /\ \/ /\ ui' = [Mounted("new") EXCEPT !.open = FALSE]
          /\ world' = [world EXCEPT !.typed = {}, !.raced = {}]
       \/ /\ ui' = [ui EXCEPT !.confirming = FALSE, !.error = TRUE] /\ UNCHANGED world

CancelDelete == /\ ui # None /\ ui.confirming
                /\ ui' = [ui EXCEPT !.confirming = FALSE] /\ UNCHANGED world

Answer == LookupAnswered \/ Saved \/ SaveRefused
Work == \/ \E slot \in Slots : OpenRecord(slot)
        \/ CloseDialog \/ \E field \in Fields : TypeField(field)
        \/ ChooseOrder \/ LookupByPlate \/ Save \/ AskDelete \/ ConfirmDelete \/ CancelDelete
        \/ Answer
Next == Open \/ Close \/ Work
Spec == Init /\ [][Next]_vars /\ WF_vars(Answer)

-----------------------------------------------------------------------------
(* What the user typed into the record is in the form, whatever is looked  *)
(* up, chosen, refused or closed in between, except what was typed while   *)
(* a plate lookup was under way.                                           *)
TypingKept == ui # None => world.typed \ world.raced \subseteq ui.form
=============================================================================
