---------------------------- MODULE PlannerBoard ----------------------------
(***************************************************************************)
(* The mechanics' day board (src/frontend/components/planner/              *)
(* MechanicalView.tsx): one job of the workshop as the board has loaded    *)
(* it, dragging and resizing it, its dialog, and the list requests and     *)
(* writes that overlap with these.  Times are slots; a job's note stands   *)
(* for everything of it but its place.                                     *)
(***************************************************************************)
EXTENDS Naturals, Sequences

CONSTANTS
    Days, Hours,  \* the days one may show; <<first slot, closing slot>>
    FirstJob,     \* [day, start, end, note]
    MaxAsks,      \* list requests under way at once (a bound)
    MaxEdits,     \* changes made elsewhere (a bound)
    None

VARIABLES
    ui,           \* the mounted board
    world         \* the server's job, and history

vars == <<ui, world>>

(* Jobs, and what is sent of one: its new state, None when it is deleted.  *)
Jobs == [day: Days, start: Nat, end: Nat, note: Nat]
Writes == [job: Jobs \union {None}, by: {"drag", "dialog"}]

AtLeast(a, b) == IF a < b THEN b ELSE a
AtMost(a, b) == IF a > b THEN b ELSE a

(* jobsFor, as the server answers for the days on show.                    *)
JobsFor(day) == IF world.job # None /\ world.job.day = day THEN world.job ELSE None

Ask(day) == [day |-> day, overtaken |-> FALSE]

(* A fresh instance of the view: nothing loaded, its own list request.     *)
Mounted(day) ==
    [day |-> day, job |-> None, asks |-> <<Ask(day)>>, drag |-> None,
     failed |-> FALSE, late |-> FALSE]

(* Mutant of Reload: the days on show are no dependency of the effect.     *)
ReloadUnasked(board) == board

(* reload: a request more; nothing numbers or cancels the earlier ones.    *)
Reload(board) == [board EXCEPT !.asks = Append(@, Ask(board.day))]

-----------------------------------------------------------------------------
Closed == ui = None /\ world = None
Init == Closed
Open == \E day \in Days :
          /\ Closed /\ ui' = Mounted(day)
          /\ world' = [job |-> FirstJob, put |-> None, edits |-> 0, unseen |-> FALSE]
Close == ui # None /\ ui' = None /\ world' = None

(* The toolbar: days on show; the effect asks for them.                    *)
ChangeDay(day) ==
    /\ ui # None /\ ui.drag = None /\ day # ui.day /\ Len(ui.asks) < MaxAsks
    /\ ui' = Reload([ui EXCEPT !.day = day]) /\ world' = [world EXCEPT !.unseen = FALSE]

(* The requests still under way when the i-th is answered; those sent      *)
(* before it have been overtaken.                                          *)
Remaining(asks, i) ==
    [k \in 1..Len(asks) - 1 |->
        IF k < i THEN [asks[k] EXCEPT !.overtaken = TRUE] ELSE asks[k + 1]]

Shown(i, job, failed) ==
    ui' = [ui EXCEPT !.job = job, !.failed = failed, !.late = ui.asks[i].overtaken,
                     !.asks = Remaining(@, i)]

ListAnswered(i) == /\ ui # None /\ i \in 1..Len(ui.asks)
                   /\ Shown(i, JobsFor(ui.asks[i].day), FALSE) /\ UNCHANGED world

(* A failed request empties the board.                                     *)
ListFailed(i) == /\ ui # None /\ i \in 1..Len(ui.asks)
                 /\ Shown(i, None, TRUE) /\ UNCHANGED world

-----------------------------------------------------------------------------
StartDrag(kind) ==
    /\ ui # None /\ ui.drag = None /\ ui.job # None /\ ui.job.day = ui.day
    /\ ui' = [ui EXCEPT !.drag = [kind |-> kind, job |-> ui.job]] /\ UNCHANGED world

(* Mutant of Drop: the length of the job is left out of the clamp.         *)
DropUnclamped(drag, slot) ==
    LET job == drag.job
        start == AtLeast(Hours[1], AtMost(slot, Hours[2]))
    IN  CASE drag.kind = "move" ->
               [job EXCEPT !.start = start, !.end = start + (job.end - job.start)]
          [] drag.kind = "resize-start" ->
               [job EXCEPT !.start = AtLeast(Hours[1], AtMost(slot, job.end - 1))]
          [] OTHER ->
               [job EXCEPT !.end = AtMost(Hours[2], AtLeast(slot, job.start + 1))]

(* Where the dragged job comes to lie when the pointer is at slot.         *)
Drop(drag, slot) ==
    LET job == drag.job
        length == job.end - job.start
        start == AtLeast(Hours[1], AtMost(slot, Hours[2] - length))
    IN  CASE drag.kind = "move" -> [job EXCEPT !.start = start, !.end = start + length]
          [] drag.kind = "resize-start" ->
               [job EXCEPT !.start = AtLeast(Hours[1], AtMost(slot, job.end - 1))]
          [] OTHER ->
               [job EXCEPT !.end = AtMost(Hours[2], AtLeast(slot, job.start + 1))]

(* finishDrag: the whole record as it was when the drag began is sent,     *)
(* with the new times; the card moves at once.                             *)
FinishDrag(slot) ==
    /\ ui # None /\ ui.drag # None /\ world.put = None
    /\ LET job == Drop(ui.drag, slot) IN
       IF job = ui.drag.job
       THEN ui' = [ui EXCEPT !.drag = None] /\ UNCHANGED world
       ELSE /\ ui' = [ui EXCEPT !.drag = None, !.job = IF @ = None THEN None
                                  ELSE [@ EXCEPT !.start = job.start, !.end = job.end]]
            /\ world' = [world EXCEPT !.put = [job |-> job, by |-> "drag"]]

(* Saving or deleting through the record's dialog (JobDialog).            *)
DialogWrite ==
    /\ ui # None /\ ui.drag = None /\ ui.job # None /\ world.put = None
    /\ \E end \in (ui.job.start + 1)..Hours[2] :
         world' = [world EXCEPT !.put = [job |-> [ui.job EXCEPT !.end = end], by |-> "dialog"]]
    /\ UNCHANGED ui

DialogDelete ==
    /\ ui # None /\ ui.drag = None /\ ui.job # None /\ world.put = None
    /\ world' = [world EXCEPT !.put = [job |-> None, by |-> "dialog"]] /\ UNCHANGED ui

(* The server takes the write and the view is mounted anew (onWritten).    *)
Written ==
    /\ ui # None /\ world.put # None /\ world.job # None
    /\ world' = [world EXCEPT !.job = world.put.job, !.put = None, !.unseen = FALSE]
    /\ ui' = Mounted(ui.day)

(* It refuses (overlap, gone, out of hours): a drag reloads the board, the *)
(* dialog shows the error.                                                 *)
Refused ==
    /\ ui # None /\ world.put # None /\ Len(ui.asks) < MaxAsks
    /\ world' = [world EXCEPT !.put = None,
                              !.unseen = IF world.put.by = "drag" THEN FALSE ELSE @]
    /\ ui' = IF world.put.by = "drag" THEN Reload(ui) ELSE ui

(* Somebody else edits or moves the job.                                   *)
Elsewhere(day) ==
    /\ ui # None /\ world.job # None /\ world.edits < MaxEdits
    /\ world' = [world EXCEPT !.job.day = day, !.job.note = @ + 1, !.edits = @ + 1,
                              !.unseen = TRUE]
    /\ UNCHANGED ui

Answer ==
    \/ \E i \in 1..MaxAsks : ListAnswered(i) \/ ListFailed(i)
    \/ Written \/ Refused
Work ==
    \/ \E day \in Days : ChangeDay(day) \/ Elsewhere(day)
    \/ \E kind \in {"move", "resize-start", "resize-end"} : StartDrag(kind)
    \/ \E slot \in (Hours[1] - 1)..(Hours[2] + 1) : FinishDrag(slot)
    \/ DialogWrite \/ DialogDelete \/ Answer
Next == Open \/ Close \/ Work
Spec == Init /\ [][Next]_vars /\ WF_vars(Answer)

-----------------------------------------------------------------------------
(* Once nothing is under way the board shows the day it says it shows, as  *)
(* the server has it, unless an older list answer came after a newer one,  *)
(* the last one failed, or somebody else has changed the job since.        *)
BoardSettled ==
    (ui # None /\ ui.asks = <<>> /\ world.put = None /\ ~ui.late /\ ~ui.failed /\ ~world.unseen)
        => ui.job = JobsFor(ui.day)

(* Whatever is dragged where, before or after the hours of the day: the    *)
(* job the server gets lies within them and lasts a slot or more.          *)
WithinHours ==
    (ui # None /\ world.job # None)
        => Hours[1] <= world.job.start /\ world.job.start < world.job.end
           /\ world.job.end <= Hours[2]
=============================================================================
