----------------------------- MODULE BodyStages -----------------------------
(***************************************************************************)
(* The stages of one car in the body shop: edited row by row in the card   *)
(* (src/frontend/components/planner/BodyCarDialog.tsx) and dragged on the  *)
(* timeline (BodyView.tsx).  The server takes a list of stages only as a   *)
(* whole, and only if none starts before the one above it and none ends    *)
(* before it starts.  Days are integers.                                   *)
(***************************************************************************)
EXTENDS Integers, Sequences

CONSTANTS
    Calendar,   \* the days a stage may lie on (a bound)
    Deltas,     \* by how many days a drag may move something (a bound)
    MaxStages   \* stages of a car (a bound)

ASSUME CalendarAssumption == Calendar \subseteq Int
ASSUME DeltasAssumption == Deltas \subseteq Int

VARIABLES
    saved,      \* the car's stages on the server, empty when there is no car
    form,       \* the card's stages, empty when it is closed
    drag        \* NoDrag, or the drag under way with the stages as it began

vars == <<saved, form, drag>>

AtLeast(a, b) == IF a < b THEN b ELSE a

NoDrag == [kind |-> "none", index |-> 0, original |-> <<>>]

Stage == [from : Int, to : Int]
Ordered(s) == \A i, j \in 1..Len(s) : i <= j => s[i].from <= s[j].from
Spans(s) == \A i \in 1..Len(s) : s[i].from <= s[i].to

(* BodyCarStageWrite and BodyCarWrite: what the server lets through.       *)
Accepts(s) == Ordered(s) /\ Spans(s)

InCalendar(s) == \A i \in 1..Len(s) : s[i].from \in Calendar /\ s[i].to \in Calendar

(* Stage k and all after it, d days later.                                 *)
Slide(s, k, d) ==
    [i \in 1..Len(s) |-> IF i < k THEN s[i] ELSE [from |-> s[i].from + d, to |-> s[i].to + d]]

SetTo(s, k, day) == [i \in 1..Len(s) |-> IF i = k THEN [from |-> s[i].from, to |-> day] ELSE s[i]]

Without(s, k) == [i \in 1..(Len(s) - 1) |-> IF i < k THEN s[i] ELSE s[i + 1]]

(* fixupStageOrder: each stage that starts before the one above it is      *)
(* moved, with all that follow, until it does not.                         *)
FixupStageOrder(s) ==
    IF Ordered(s) THEN s
    ELSE LET lag[i \in 1..Len(s)] ==
               IF i = 1 THEN 0 ELSE lag[i - 1] + AtLeast(s[i - 1].from - s[i].from, 0)
         IN  [i \in 1..Len(s) |-> [from |-> s[i].from + lag[i], to |-> s[i].to + lag[i]]]

-----------------------------------------------------------------------------
Closed == saved = <<>> /\ form = <<>> /\ drag = NoDrag
Init == Closed

Open == /\ Closed
        /\ \E day \in Calendar : saved' = <<[from |-> day, to |-> day]>>
        /\ UNCHANGED <<form, drag>>
Close == saved # <<>> /\ saved' = <<>> /\ form' = <<>> /\ drag' = NoDrag

OpenEdit == /\ saved # <<>> /\ form = <<>> /\ drag = NoDrag
            /\ form' = saved /\ UNCHANGED <<saved, drag>>

(* A change of the rows that are in the card.                              *)
Edit(stages) == /\ form # <<>> /\ InCalendar(stages) /\ form' = stages
                /\ UNCHANGED <<saved, drag>>

(* Mutant of StartedAt: the first day of the stage above is no limit.      *)
StartedAtAnyDay(s, k, day) == Slide(s, k, day - s[k].from)

(* updateStageStart: not before the stage above starts; it keeps its       *)
(* length and takes the stages below along.                                *)
StartedAt(s, k, day) ==
    LET start == IF k > 1 THEN AtLeast(day, s[k - 1].from) ELSE day
    IN  Slide(s, k, start - s[k].from)

UpdateStageStart(k, day) == k \in 1..Len(form) /\ Edit(StartedAt(form, k, day))

UpdateStageEnd(k, day) ==
    k \in 1..Len(form) /\ Edit(FixupStageOrder(SetTo(form, k, AtLeast(day, form[k].from))))

(* newStageRow: the day after the last stage ends.                         *)
AddStage ==
    /\ form # <<>> /\ Len(form) < MaxStages
    /\ LET day == form[Len(form)].to + 1
       IN  Edit(Append(form, [from |-> day, to |-> day]))

(* The first row has no remove button.                                     *)
RemoveStage(k) == k \in 2..Len(form) /\ Edit(FixupStageOrder(Without(form, k)))

Cancel == /\ form # <<>> /\ form' = <<>>
          /\ UNCHANGED <<saved, drag>>

(* save: the whole list; the view is mounted anew when it is taken.        *)
Save == /\ form # <<>> /\ Spans(form) /\ Accepts(form)
        /\ saved' = form /\ form' = <<>> /\ UNCHANGED drag

-----------------------------------------------------------------------------
Kinds == {"start", "boundary", "end"}

(* The caps of a bar: its start, its end, or the border of stage i and the *)
(* next one.                                                               *)
StartStageDrag(kind, i) ==
    /\ saved # <<>> /\ form = <<>> /\ drag = NoDrag
    /\ kind = "boundary" => i < Len(saved)
    /\ drag' = [kind |-> kind, index |-> i, original |-> saved]
    /\ UNCHANGED <<saved, form>>

(* computeDraggedStages.                                                   *)
Dragged(d, delta) ==
    LET s == d.original
        i == d.index
        last == Len(s)
        boundary == AtLeast(s[i + 1].from + delta, s[i].from)
    IN  CASE d.kind = "start" -> Slide(s, 1, delta)
          [] d.kind = "end" -> SetTo(s, last, AtLeast(s[last].to + delta, s[last].from))
          [] OTHER -> SetTo(Slide(s, i + 1, boundary - s[i + 1].from), i, boundary - 1)

(* handleStageDragUp: what the server refuses is shown as an error and the *)
(* bar goes back.                                                          *)
DropStages(delta) ==
    /\ drag # NoDrag /\ drag' = NoDrag
    /\ saved' = IF delta # 0 /\ Accepts(Dragged(drag, delta)) /\ InCalendar(Dragged(drag, delta))
                THEN Dragged(drag, delta) ELSE saved
    /\ UNCHANGED form

Work ==
    \/ OpenEdit \/ AddStage \/ Cancel \/ Save
    \/ \E k \in 1..MaxStages, day \in Calendar : UpdateStageStart(k, day) \/ UpdateStageEnd(k, day)
    \/ \E k \in 1..MaxStages : RemoveStage(k)
    \/ \E kind \in Kinds, i \in 1..MaxStages : i <= Len(saved) /\ StartStageDrag(kind, i)
    \/ \E delta \in Deltas : DropStages(delta)

Next == Open \/ Close \/ Work
Spec == Init /\ [][Next]_vars

-----------------------------------------------------------------------------
(* A border dragged to or past the day its own stage starts on: the stage  *)
(* would end the day before it starts.                                     *)
OntoOwnStart(d, delta) ==
    d.kind = "boundary" /\ d.original[d.index + 1].from + delta <= d.original[d.index].from

(* However the rows are edited and the bars dragged, what is sent is a     *)
(* list the server takes; the one exception is a border dragged onto the   *)
(* first day of the stage before it, which the code means to allow.        *)
StagesAccepted ==
    /\ Accepts(form)
    /\ drag # NoDrag =>
         \A delta \in Deltas : Accepts(Dragged(drag, delta)) \/ OntoOwnStart(drag, delta)
=============================================================================
