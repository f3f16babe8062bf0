-------------------------- MODULE BodyStagesProofs --------------------------
(***************************************************************************)
(* Whatever the calendar, the drags and the number of stages, what the     *)
(* card or the timeline would send is accepted.                            *)
(***************************************************************************)
EXTENDS BodyStages, TLAPS

Stages == Seq(Stage)

TypeCorrect ==
    /\ saved \in Stages
    /\ form \in Stages
    /\ drag \in [kind : Kinds \union {"none"}, index : Nat, original : Stages]

(* A drag began on an accepted list and grips something that is there.     *)
DragGrips ==
    drag # NoDrag =>
        /\ drag.kind \in Kinds
        /\ Accepts(drag.original)
        /\ drag.index \in 1..Len(drag.original)
        /\ drag.kind = "boundary" => drag.index < Len(drag.original)

Inductive == TypeCorrect /\ Accepts(saved) /\ Accepts(form) /\ DragGrips

(* What a list of stages is made of.                                       *)
LEMMA StageFields ==
    \A x \in Stage : x.from \in Int /\ x.to \in Int
BY DEF Stage

LEMMA StageMade ==
    \A a, b \in Int : /\ [from |-> a, to |-> b] \in Stage
                     /\ [from |-> a, to |-> b].from = a /\ [from |-> a, to |-> b].to = b
BY DEF Stage

LEMMA StageAt ==
    ASSUME NEW s \in Stages
    PROVE  /\ Len(s) \in Nat
           /\ \A i \in 1..Len(s) : s[i] \in Stage /\ s[i].from \in Int /\ s[i].to \in Int
<1>1. Len(s) \in Nat /\ \A i \in 1..Len(s) : s[i] \in Stage
  BY DEF Stages
<1> QED BY <1>1, StageFields

LEMMA StagesMade ==
    ASSUME NEW n \in Nat, NEW t, t = [i \in 1..n |-> t[i]], \A i \in 1..n : t[i] \in Stage
    PROVE  t \in Stages /\ Len(t) = n
<1>1. t \in [1..n -> Stage]
  OBVIOUS
<1> QED BY <1>1 DEF Stages

(* Sliding the end of a list later by d, if that keeps its first stage     *)
(* behind the one above it, keeps the list accepted.                       *)
LEMMA SlideAccepted ==
    ASSUME NEW s \in Stages, Accepts(s), NEW k \in 1..Len(s), NEW d \in Int,
           k > 1 => s[k].from + d >= s[k - 1].from
    PROVE  Slide(s, k, d) \in Stages /\ Accepts(Slide(s, k, d))
<1> DEFINE t == Slide(s, k, d)
<1>a. /\ Len(s) \in Nat
      /\ \A i \in 1..Len(s) : s[i] \in Stage /\ s[i].from \in Int /\ s[i].to \in Int
  BY StageAt
<1>b. \A i \in 1..Len(s) :
         t[i] = IF i < k THEN s[i] ELSE [from |-> s[i].from + d, to |-> s[i].to + d]
  BY DEF Slide
<1>c. \A i \in 1..Len(s) : t[i] \in Stage
  <2> SUFFICES ASSUME NEW i \in 1..Len(s) PROVE t[i] \in Stage
    OBVIOUS
  <2>1. s[i].from + d \in Int /\ s[i].to + d \in Int
    BY <1>a
  <2>2. [from |-> s[i].from + d, to |-> s[i].to + d] \in Stage
    BY <2>1, StageMade
  <2> HIDE DEF t
  <2> QED BY <1>a, <1>b, <2>2
<1>1. t \in Stages /\ Len(t) = Len(s)
  <2>1. t = [i \in 1..Len(s) |-> t[i]]
    BY DEF Slide
  <2> HIDE DEF t
  <2> QED BY <1>a, <1>c, <2>1, StagesMade
<1>2. \A i \in 1..Len(s) : /\ s[i].from \in Int /\ s[i].to \in Int
                           /\ i < k => t[i] = s[i]
                           /\ i >= k => t[i].from = s[i].from + d /\ t[i].to = s[i].to + d
  <2> SUFFICES ASSUME NEW i \in 1..Len(s)
               PROVE  /\ i < k => t[i] = s[i]
                      /\ i >= k => t[i].from = s[i].from + d /\ t[i].to = s[i].to + d
    BY <1>a
  <2>1. t[i] = IF i < k THEN s[i] ELSE [from |-> s[i].from + d, to |-> s[i].to + d]
    BY <1>b
  <2> HIDE DEF t
  <2> QED BY <2>1
<1> HIDE DEF t
<1>3. Spans(t)
  BY <1>1, <1>2 DEF Accepts, Spans
<1>4. Ordered(t)
  <2> SUFFICES ASSUME NEW i \in 1..Len(s), NEW j \in 1..Len(s), i <= j
               PROVE  t[i].from <= t[j].from
    BY <1>1 DEF Ordered
  <2>1. s[i].from <= s[j].from
    BY DEF Accepts, Ordered
  <2>2. CASE j < k
    BY <2>1, <2>2, <1>2
  <2>3. CASE i >= k
    BY <2>1, <2>3, <1>2
  <2>4. CASE i < k /\ j >= k
    <3>1. k - 1 \in 1..Len(s) /\ i <= k - 1
      BY <2>4
    <3>2. s[i].from <= s[k - 1].from /\ s[k].from <= s[j].from
      BY <2>4, <3>1 DEF Accepts, Ordered
    <3>3. t[i].from = s[i].from /\ t[j].from = s[j].from + d
      BY <2>4, <1>2
    <3>4. k > 1 /\ s[k].from + d >= s[k - 1].from
      BY <2>4
    <3>5. /\ s[i].from \in Int /\ s[k - 1].from \in Int /\ s[k].from \in Int
          /\ s[j].from \in Int
      BY <3>1, <1>a
    <3> QED BY <3>2, <3>3, <3>4, <3>5
  <2> QED BY <2>2, <2>3, <2>4
<1>5. t \in Stages /\ Accepts(t)
  BY <1>1, <1>3, <1>4 DEF Accepts
<1> QED BY <1>5 DEF t

(* Setting the last day of a stage; if it stays a span the list stays      *)
(* accepted.                                                               *)
LEMMA SetToFields ==
    ASSUME NEW s \in Stages, NEW k \in 1..Len(s), NEW day \in Int
    PROVE  /\ SetTo(s, k, day) \in Stages /\ Len(SetTo(s, k, day)) = Len(s)
           /\ \A i \in 1..Len(s) : /\ SetTo(s, k, day)[i].from = s[i].from
                                   /\ SetTo(s, k, day)[i].to = IF i = k THEN day ELSE s[i].to
<1> DEFINE t == SetTo(s, k, day)
<1>1. /\ Len(s) \in Nat
      /\ \A i \in 1..Len(s) : s[i] \in Stage /\ s[i].from \in Int /\ s[i].to \in Int
  BY StageAt
<1>2. \A i \in 1..Len(s) : t[i] = IF i = k THEN [from |-> s[i].from, to |-> day] ELSE s[i]
  BY DEF SetTo
<1>3. t = [i \in 1..Len(s) |-> t[i]]
  BY DEF SetTo
<1> HIDE DEF t
<1>4. \A i \in 1..Len(s) : /\ t[i] \in Stage /\ t[i].from = s[i].from
                           /\ t[i].to = IF i = k THEN day ELSE s[i].to
  <2> SUFFICES ASSUME NEW i \in 1..Len(s)
               PROVE  /\ t[i] \in Stage /\ t[i].from = s[i].from
                      /\ t[i].to = IF i = k THEN day ELSE s[i].to
    OBVIOUS
  <2>1. CASE i = k
    <3> DEFINE x == [from |-> s[i].from, to |-> day]
    <3>1. x \in Stage /\ x.from = s[i].from /\ x.to = day
      BY <1>1, StageMade
    <3>2. t[i] = x
      BY <2>1, <1>2
    <3> HIDE DEF x
    <3> QED BY <2>1, <3>1, <3>2
  <2>2. CASE i # k
    BY <2>2, <1>1, <1>2
  <2> QED BY <2>1, <2>2
<1>5. t \in Stages /\ Len(t) = Len(s)
  BY <1>1, <1>3, <1>4, StagesMade
<1> QED BY <1>4, <1>5 DEF t

LEMMA SetToAccepted ==
    ASSUME NEW s \in Stages, Accepts(s), NEW k \in 1..Len(s), NEW day \in Int,
           s[k].from <= day
    PROVE  SetTo(s, k, day) \in Stages /\ Accepts(SetTo(s, k, day))
<1> DEFINE t == SetTo(s, k, day)
<1>1. /\ t \in Stages /\ Len(t) = Len(s)
      /\ \A i \in 1..Len(s) : t[i].from = s[i].from /\ t[i].to = IF i = k THEN day ELSE s[i].to
  BY SetToFields
<1> HIDE DEF t
<1>2. Ordered(t) /\ Spans(t)
  BY <1>1 DEF Accepts, Ordered, Spans
<1> QED BY <1>1, <1>2 DEF Accepts, t

(* Taking a row out of an accepted list leaves an accepted list.           *)
LEMMA WithoutAccepted ==
    ASSUME NEW s \in Stages, Accepts(s), NEW k \in 1..Len(s)
    PROVE  Without(s, k) \in Stages /\ Accepts(Without(s, k))
<1> DEFINE t == Without(s, k)
           at(i) == IF i < k THEN i ELSE i + 1
<1>1. /\ Len(s) \in Nat /\ Len(s) - 1 \in Nat
      /\ \A i \in 1..Len(s) : s[i] \in Stage /\ s[i].from \in Int /\ s[i].to \in Int
  BY StageAt
<1>2. t = [i \in 1..(Len(s) - 1) |-> t[i]]
  BY DEF Without
<1>3. \A i \in 1..(Len(s) - 1) : t[i] = s[at(i)] /\ at(i) \in 1..Len(s)
  BY <1>1 DEF Without
<1>4. \A i, j \in 1..(Len(s) - 1) : i <= j => at(i) <= at(j)
  BY <1>1
<1> HIDE DEF t, at
<1>5. t \in Stages /\ Len(t) = Len(s) - 1
  BY <1>1, <1>2, <1>3, StagesMade
<1>6. Ordered(t)
  BY <1>3, <1>4, <1>5 DEF Accepts, Ordered
<1>7. Spans(t)
  BY <1>3, <1>5 DEF Accepts, Spans
<1> QED BY <1>5, <1>6, <1>7 DEF Accepts, t

(* A new row starts after everything above it.                             *)
LEMMA AppendAccepted ==
    ASSUME NEW s \in Stages, Accepts(s), s # <<>>,
           NEW day \in Int, day = s[Len(s)].to + 1
    PROVE  /\ Append(s, [from |-> day, to |-> day]) \in Stages
           /\ Accepts(Append(s, [from |-> day, to |-> day]))
<1> DEFINE row == [from |-> day, to |-> day]
           t == Append(s, row)
<1>a. /\ Len(s) \in Nat
      /\ \A i \in 1..Len(s) : s[i] \in Stage /\ s[i].from \in Int /\ s[i].to \in Int
  BY StageAt
<1>b. row \in Stage /\ row.from = day /\ row.to = day
  BY StageMade
<1> HIDE DEF row
<1>1. t \in Stages /\ Len(t) = Len(s) + 1 /\ Len(s) \in 1..Len(s)
  BY <1>b DEF Stages
<1>2. t[Len(s) + 1] = row /\ \A i \in 1..Len(s) : t[i] = s[i]
  BY <1>b DEF Stages
<1> HIDE DEF t
<1>3. \A i \in 1..Len(s) : /\ s[i].from \in Int /\ s[i].to \in Int
                           /\ s[i].from <= s[Len(s)].from
  BY <1>a, <1>1 DEF Accepts, Ordered
<1>4. s[Len(s)].from < day
  <2>1. s[Len(s)].from <= s[Len(s)].to
    BY <1>1 DEF Accepts, Spans
  <2> QED BY <1>1, <1>3, <2>1
<1>5. Spans(t)
  BY <1>a, <1>1, <1>2, <1>b DEF Accepts, Spans
<1>6. Ordered(t)
  <2> SUFFICES ASSUME NEW i \in 1..(Len(s) + 1), NEW j \in 1..(Len(s) + 1), i <= j
               PROVE  t[i].from <= t[j].from
    BY <1>1 DEF Ordered
  <2>1. CASE j \in 1..Len(s)
    <3>1. i \in 1..Len(s)
      BY <2>1, <1>1
    <3> QED BY <2>1, <3>1, <1>2 DEF Accepts, Ordered
  <2>2. CASE j = Len(s) + 1 /\ i \in 1..Len(s)
    <3>1. t[j].from = day /\ t[i].from = s[i].from
      BY <2>2, <1>2, <1>b
    <3>2. s[Len(s)].from \in Int
      BY <1>1, <1>3
    <3> QED BY <2>2, <3>1, <3>2, <1>3, <1>4
  <2>3. CASE j = Len(s) + 1 /\ i = Len(s) + 1
    BY <2>3, <1>2, <1>b
  <2> QED BY <2>1, <2>2, <2>3, <1>1
<1> QED BY <1>1, <1>5, <1>6 DEF Accepts, t, row

(* On an accepted list fixupStageOrder has nothing to do.                  *)
LEMMA FixupIdle ==
    ASSUME NEW s, Accepts(s)
    PROVE  FixupStageOrder(s) = s
BY DEF FixupStageOrder, Accepts

(* Every drag but the one onto a stage's own start gives an accepted list. *)
LEMMA DraggedAccepted ==
    ASSUME TypeCorrect, DragGrips, drag # NoDrag, NEW delta \in Int
    PROVE  /\ Dragged(drag, delta) \in Stages
           /\ Accepts(Dragged(drag, delta)) \/ OntoOwnStart(drag, delta)
<1> DEFINE s == drag.original
           i == drag.index
           n == Len(s)
<1>1. s \in Stages /\ Accepts(s) /\ i \in 1..n
  BY DEF TypeCorrect, DragGrips
<1>2. n \in 1..n /\ \A k \in 1..n : s[k].from \in Int /\ s[k].to \in Int
  <2> HIDE DEF s
  <2> QED BY <1>1, StageAt
<1>3. drag.kind \in Kinds
  BY DEF DragGrips
<1>4. CASE drag.kind = "start"
  <2>1. Slide(s, 1, delta) \in Stages /\ Accepts(Slide(s, 1, delta))
    BY <1>1, SlideAccepted
  <2> QED BY <1>4, <2>1 DEF Dragged
<1>5. CASE drag.kind = "end"
  <2> DEFINE day == AtLeast(s[n].to + delta, s[n].from)
  <2>1. s[n].to + delta \in Int /\ s[n].from \in Int
    BY <1>2
  <2>2. day \in Int /\ s[n].from <= day
    <3> DEFINE a == s[n].to + delta
               b == s[n].from
    <3>1. a \in Int /\ b \in Int
      BY <2>1
    <3> HIDE DEF a, b
    <3>2. AtLeast(a, b) \in Int /\ b <= AtLeast(a, b)
      BY <3>1 DEF AtLeast
    <3> QED BY <3>2 DEF a, b
  <2>3. SetTo(s, n, day) \in Stages /\ Accepts(SetTo(s, n, day))
    <3> HIDE DEF day
    <3> QED BY <2>2, <1>1, <1>2, SetToAccepted
  <2> QED BY <1>5, <2>3 DEF Dragged
<1>6. CASE drag.kind = "boundary"
  <2> DEFINE low == s[i].from
             high == s[i + 1].from
             border == AtLeast(high + delta, low)
             d == border - high
             t == Slide(s, i + 1, d)
  <2>1. i + 1 \in 1..n
    BY <1>1, <1>2, <1>6 DEF DragGrips
  <2>2. low \in Int /\ high \in Int
    BY <1>1, <1>2, <2>1
  <2>3. /\ border \in Int /\ d \in Int /\ high + d >= low
        /\ high + delta > low => low <= border - 1
    <3> HIDE DEF low, high
    <3>1. high + delta \in Int
      BY <2>2
    <3>2. border \in Int /\ low <= border /\ (low <= high + delta => border = high + delta)
      BY <2>2, <3>1 DEF AtLeast
    <3> HIDE DEF border
    <3> QED BY <2>2, <3>1, <3>2
  <2>4. t \in Stages /\ Accepts(t)
    <3>1. (i + 1) - 1 = i
      BY <1>1
    <3>2. i + 1 > 1 => s[i + 1].from + d >= s[(i + 1) - 1].from
      BY <3>1, <2>3
    <3> HIDE DEF d, s
    <3> QED BY <1>1, <2>1, <2>3, <3>2, SlideAccepted
  <2>5. i \in 1..Len(t) /\ t[i].from = low
    BY <1>1, <2>1 DEF Slide, Stages
  <2>6. Dragged(drag, delta) = SetTo(t, i, border - 1)
    BY <1>6 DEF Dragged
  <2>7. SetTo(t, i, border - 1) \in Stages
    <3>1. border - 1 \in Int
      BY <2>3
    <3> HIDE DEF t, border
    <3> QED BY <2>4, <2>5, <3>1, SetToFields
  <2>8. OntoOwnStart(drag, delta) \/ high + delta > low
    BY <1>6, <2>2 DEF OntoOwnStart
  <2>9. high + delta > low => Accepts(SetTo(t, i, border - 1))
    <3>1. border - 1 \in Int
      BY <2>3
    <3> HIDE DEF t, border, low, high
    <3> QED BY <2>3, <2>4, <2>5, <3>1, SetToAccepted
  <2> QED BY <2>6, <2>7, <2>8, <2>9
<1> QED BY <1>3, <1>4, <1>5, <1>6 DEF Kinds

-----------------------------------------------------------------------------
LEMMA InitInductive == Init => Inductive
BY DEF Init, Closed, Inductive, TypeCorrect, DragGrips, Accepts, Ordered, Spans, NoDrag,
       Stages, Stage, Kinds

(* A row edit that gives an accepted list keeps the invariant.             *)
LEMMA EditInductive ==
    ASSUME Inductive, NEW s \in Stages, Accepts(s), Edit(s)
    PROVE  Inductive'
BY DEF Inductive, TypeCorrect, DragGrips, Edit, Accepts, Ordered, Spans, Stages

LEMMA NextInductive == Inductive /\ [Next]_vars => Inductive'
<1> SUFFICES ASSUME Inductive, [Next]_vars PROVE Inductive'
  OBVIOUS
<1> USE CalendarAssumption, DeltasAssumption
<1>0. /\ saved \in Stages /\ form \in Stages /\ Accepts(saved) /\ Accepts(form)
      /\ TypeCorrect /\ DragGrips
  BY DEF Inductive, TypeCorrect
<1>1. CASE Open
  <2>1. PICK day \in Calendar : saved' = <<[from |-> day, to |-> day]>>
    BY <1>1 DEF Open
  <2>2. [from |-> day, to |-> day] \in Stage /\ day \in Int
    BY DEF Stage
  <2>3. saved' \in Stages /\ Len(saved') = 1 /\ saved'[1] = [from |-> day, to |-> day]
    BY <2>1, <2>2 DEF Stages
  <2>4. Accepts(saved)'
    BY <2>2, <2>3 DEF Accepts, Ordered, Spans
  <2> QED
    BY <1>1, <2>3, <2>4 DEF Open, Closed, Inductive, TypeCorrect, DragGrips, Accepts, Ordered, Spans
<1>2. CASE Close
  BY <1>2 DEF Close, Inductive, TypeCorrect, DragGrips, Accepts, Ordered, Spans, NoDrag, Stages,
              Kinds
<1>3. CASE OpenEdit
  BY <1>3 DEF OpenEdit, Inductive, TypeCorrect, DragGrips, Accepts, Ordered, Spans
<1>4. CASE AddStage
  <2> DEFINE day == form[Len(form)].to + 1
  <2>1. form # <<>> /\ Edit(Append(form, [from |-> day, to |-> day]))
    BY <1>4 DEF AddStage
  <2>2. Len(form) \in 1..Len(form)
    BY <1>0, <2>1 DEF Stages
  <2>3. day \in Int
    BY <1>0, <2>2, StageAt
  <2> HIDE DEF day
  <2>4. day = form[Len(form)].to + 1
    BY DEF day
  <2> QED BY <1>0, <2>1, <2>3, <2>4, AppendAccepted, EditInductive
<1>5. CASE Cancel
  BY <1>5 DEF Cancel, Inductive, TypeCorrect, DragGrips, Accepts, Ordered, Spans, Stages
<1>6. CASE Save
  BY <1>6 DEF Save, Inductive, TypeCorrect, DragGrips, Accepts, Ordered, Spans, Stages
<1>7. ASSUME NEW k \in 1..MaxStages, NEW day \in Calendar, UpdateStageStart(k, day)
      PROVE  Inductive'
  <2> DEFINE start == IF k > 1 THEN AtLeast(day, form[k - 1].from) ELSE day
             d == start - form[k].from
  <2>1. k \in 1..Len(form) /\ Edit(Slide(form, k, d))
    BY <1>7 DEF UpdateStageStart, StartedAt
  <2>2. /\ \A i \in 1..Len(form) : form[i].from \in Int
        /\ k > 1 => k - 1 \in 1..Len(form)
    BY <1>0, <2>1, StageAt
  <2>3. d \in Int /\ (k > 1 => form[k].from + d >= form[k - 1].from)
    BY <2>1, <2>2 DEF AtLeast
  <2> HIDE DEF d
  <2> QED BY <1>0, <2>1, <2>3, SlideAccepted, EditInductive
<1>8. ASSUME NEW k \in 1..MaxStages, NEW day \in Calendar, UpdateStageEnd(k, day)
      PROVE  Inductive'
  <2> DEFINE end == AtLeast(day, form[k].from)
  <2>1. k \in 1..Len(form) /\ Edit(FixupStageOrder(SetTo(form, k, end)))
    BY <1>8 DEF UpdateStageEnd
  <2>2. form[k].from \in Int /\ day \in Int
    BY <1>0, <2>1, StageAt
  <2>3. end \in Int /\ form[k].from <= end
    <3> DEFINE b == form[k].from
    <3>1. b \in Int
      BY <2>2
    <3> HIDE DEF b
    <3>2. AtLeast(day, b) \in Int /\ b <= AtLeast(day, b)
      BY <2>2, <3>1 DEF AtLeast
    <3> QED BY <3>2 DEF b
  <2> HIDE DEF end
  <2> QED BY <1>0, <2>1, <2>3, SetToAccepted, FixupIdle, EditInductive
<1>9. ASSUME NEW k \in 1..MaxStages, RemoveStage(k)
      PROVE  Inductive'
  <2>1. k \in 1..Len(form) /\ Edit(FixupStageOrder(Without(form, k)))
    BY <1>9 DEF RemoveStage
  <2> QED BY <1>0, <2>1, WithoutAccepted, FixupIdle, EditInductive
<1>10. ASSUME NEW kind \in Kinds, NEW i \in 1..MaxStages, i <= Len(saved), StartStageDrag(kind, i)
       PROVE  Inductive'
  <2>1. i \in 1..Len(saved)
    BY <1>0, <1>10 DEF Stages
  <2> QED BY <1>10, <2>1 DEF StartStageDrag, Inductive, TypeCorrect, DragGrips, Accepts,
                             Ordered, Spans
<1>11. ASSUME NEW delta \in Deltas, DropStages(delta)
       PROVE  Inductive'
  <2> DEFINE t == Dragged(drag, delta)
  <2>1. drag # NoDrag /\ drag' = NoDrag /\ form' = form
    BY <1>11 DEF DropStages
  <2>2. CASE saved' = saved
    BY <2>1, <2>2 DEF Inductive, TypeCorrect, DragGrips, Accepts, Ordered, Spans, NoDrag, Stages,
                      Kinds
  <2>3. CASE saved' = t /\ Accepts(t)
    <3>1. t \in Stages
      BY <1>0, <2>1, DraggedAccepted
    <3> HIDE DEF t
    <3>2. saved' \in Stages /\ Accepts(saved')
      BY <2>3, <3>1
    <3> QED BY <2>1, <3>2 DEF Inductive, TypeCorrect, DragGrips, Accepts, Ordered, Spans, NoDrag,
                              Stages, Kinds
  <2> QED BY <1>11, <2>2, <2>3 DEF DropStages
<1>12. CASE UNCHANGED vars
  BY <1>12 DEF vars, Inductive, TypeCorrect, DragGrips, Accepts, Ordered, Spans
<1> QED
  BY <1>1, <1>2, <1>3, <1>4, <1>5, <1>6, <1>7, <1>8, <1>9, <1>10, <1>11, <1>12 DEF Next, Work

(* The card and the timeline only ever send what the server takes, but for *)
(* a border dragged onto its own stage's start: StagesAccepted holds for   *)
(* every calendar, every set of drags and any number of stages.            *)
THEOREM AcceptedAlways == Spec => []StagesAccepted
<1>1. Inductive => StagesAccepted
  BY DraggedAccepted, DeltasAssumption DEF Inductive, StagesAccepted
<1> QED BY <1>1, InitInductive, NextInductive, PTL DEF Spec
=============================================================================
