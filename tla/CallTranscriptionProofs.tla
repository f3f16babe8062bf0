----------------------- MODULE CallTranscriptionProofs -----------------------
(***************************************************************************)
(* Proofs about CallTranscription for any number of calls, days, crashes   *)
(* and any batch size: the marks on a call agree with its status, and      *)
(* finished work is never lost.                                            *)
(***************************************************************************)
EXTENDS CallTranscription, SequenceTheorems, TLAPS

Heard == {"transcribed", "classified"}

(* The calls of a cycle are imported, none of them twice, and not given    *)
(* up; the steps after the transcription are reached by transcribed calls. *)
Workable(row) == row # None /\ row.status \in {"none"} \cup Heard
CycleOK ==
    cycle # None =>
        /\ \A i \in DOMAIN cycle.queue : Workable(calls[cycle.queue[i]])
        /\ \A i, j \in DOMAIN cycle.queue : i < j => cycle.queue[i] < cycle.queue[j]
        /\ cycle.step # "take" => calls[cycle.queue[1]].status \in Heard

Inv == TypeOK /\ CycleOK /\ MarksMatchStatus

(* What a step may do to a call: WorkIsKept in a single row.               *)
Kept(old, new) ==
    /\ new # None
    /\ new.status = old.status \/ Progress(new.status) > Progress(old.status)
    /\ old.topic => new.topic
    /\ old.score => new.score

MarksRight(row) ==
    /\ row.topic <=> row.status = "classified"
    /\ row.score => row.status \in Heard

-----------------------------------------------------------------------------
(* Lemmas *)

LEMMA CurrentCall ==
    ASSUME Inv, NEW step \in Steps, Running(step)
    PROVE  /\ cycle # None /\ cycle \in Cycles /\ cycle.step = step
           /\ Len(cycle.queue) \in Nat \ {0} /\ cycle.queue \in Seq(Calls)
           /\ Current = cycle.queue[1] /\ Current \in Calls
           /\ Workable(Row) /\ Row \in Rows /\ MarksRight(Row)
           /\ step # "take" => Row.status \in Heard
  <1>1. cycle # None /\ cycle \in Cycles /\ cycle.queue # <<>> /\ cycle.step = step
    BY DEF Running, Inv, TypeOK
  <1>2. /\ cycle.queue \in Seq(Calls) /\ Len(cycle.queue) \in Nat \ {0}
        /\ Current = cycle.queue[1] /\ Current \in Calls /\ 1 \in DOMAIN cycle.queue
    BY <1>1 DEF Cycles, Current
  <1>3. Workable(Row) /\ Row \in Rows
    BY <1>1, <1>2 DEF Row, Inv, TypeOK, CycleOK, Workable
  <1>4. MarksRight(Row)
    BY <1>2, <1>3 DEF Row, Inv, MarksMatchStatus, MarksRight, Heard, Workable
  <1> QED
    BY <1>1, <1>2, <1>3, <1>4 DEF Inv, CycleOK, Row

(* What Step and NextCall make of the cycle is well formed, once the       *)
(* current call is the only one touched and, after "take", has been heard. *)
LEMMA CycleSteps ==
    ASSUME Inv, NEW step \in Steps, Running(step),
           \A c \in Calls \ {Current} : Workable(calls[c]) => Workable(calls'[c]),
           \/ NextCall
           \/ \E next \in {"topic", "quality"} : /\ Step(next)
                                             /\ calls'[Current] # None
                                             /\ calls'[Current].status \in Heard
    PROVE  CycleOK' /\ (cycle' # None => cycle' \in Cycles /\ cycle'.queue # <<>>)
  <1>1. PICK queue : queue = cycle.queue
    OBVIOUS
  <1>2. /\ cycle \in Cycles /\ queue \in Seq(Calls) /\ Len(queue) \in Nat \ {0}
        /\ Current = queue[1] /\ queue # <<>>
        /\ \A i \in DOMAIN queue : Workable(calls[queue[i]])
        /\ \A i, j \in DOMAIN queue : i < j => queue[i] < queue[j]
    BY <1>1, CurrentCall DEF Inv, CycleOK
  <1>3. \A i \in DOMAIN queue : i # 1 => Workable(calls'[queue[i]])
    <2> SUFFICES ASSUME NEW i \in DOMAIN queue, i # 1 PROVE Workable(calls'[queue[i]])
      OBVIOUS
    <2>1. 1 \in DOMAIN queue /\ 1 < i /\ queue[1] \in Calls /\ queue[i] \in Calls
      BY <1>2
    <2>2. queue[1] < queue[i] /\ queue[1] \in Int
      BY <1>2, <2>1 DEF Calls
    <2>3. queue[i] # Current
      BY <1>2, <2>2
    <2> QED
      BY <1>2, <2>1, <2>3
  <1>4. ASSUME NEW next \in {"topic", "quality"}, Step(next),
               calls'[Current] # None, calls'[Current].status \in Heard
        PROVE  CycleOK' /\ cycle' \in Cycles /\ cycle'.queue # <<>>
    <2>1. cycle' \in Cycles /\ cycle'.queue = queue
      BY <1>1, <1>2, <1>4 DEF Step, Cycles, Steps
    <2>2. \A i \in DOMAIN queue : Workable(calls'[queue[i]])
      BY <1>2, <1>3, <1>4 DEF Workable
    <2> QED
      BY <1>2, <1>4, <2>1, <2>2 DEF CycleOK
  <1>5. CASE NextCall /\ Len(queue) = 1
    BY <1>1, <1>5 DEF NextCall, CycleOK
  <1>6. CASE NextCall /\ Len(queue) # 1
    <2>1. PICK rest : rest = Tail(queue)
      OBVIOUS
    <2>2. /\ rest \in Seq(Calls) /\ rest # <<>>
          /\ \A i \in DOMAIN rest : Workable(calls'[rest[i]])
          /\ \A i, j \in DOMAIN rest : i < j => rest[i] < rest[j]
      <3>1. Len(queue) > 1
        <4>1. Len(queue) \in Nat \ {0} /\ Len(queue) # 1
          BY <1>2, <1>6
        <4> QED
          BY <4>1
      <3>2. rest \in Seq(Calls) /\ Len(rest) = Len(queue) - 1
        BY <1>2, <2>1, <3>1, HeadTailProperties
      <3>3. \A i \in DOMAIN rest : /\ rest[i] = queue[i + 1]
                                  /\ i \in Int /\ i + 1 \in DOMAIN queue /\ i + 1 # 1
        BY <1>2, <2>1, <3>1, <3>2, HeadTailProperties
      <3>4. \A i \in DOMAIN rest : Workable(calls'[rest[i]])
        BY <1>3, <3>3
      <3>5. \A i, j \in DOMAIN rest : i < j => rest[i] < rest[j]
        BY <1>2, <3>3
      <3> QED
        BY <3>1, <3>2, <3>4, <3>5
    <2>3. cycle' = [cycle EXCEPT !.queue = rest, !.step = "take", !.fresh = FALSE]
      BY <1>1, <1>2, <1>6, <2>1 DEF NextCall, Cycles
    <2>4. cycle' \in Cycles /\ cycle'.queue = rest /\ cycle'.step = "take"
      BY <1>2, <2>2, <2>3 DEF Cycles, Steps
    <2> QED
      BY <2>2, <2>4 DEF CycleOK
  <1> QED
    BY <1>4, <1>5, <1>6

(* A step that rewrites one row and keeps what Kept demands.               *)
LEMMA RowStep ==
    ASSUME Inv, NEW c \in Calls, NEW row \in Rows, MarksRight(row),
           calls[c] # None => Kept(calls[c], row),
           calls' = [calls EXCEPT ![c] = row]
    PROVE  /\ calls' \in [Calls -> Rows \cup {None}] /\ calls'[c] = row
           /\ MarksMatchStatus'
           /\ \A d \in Calls : calls[d] # None => Kept(calls[d], calls'[d])
  <1>1. /\ calls' \in [Calls -> Rows \cup {None}] /\ calls'[c] = row
        /\ \A d \in Calls \ {c} : calls'[d] = calls[d]
    BY DEF Inv, TypeOK
  <1>2. \A d \in Calls : calls[d] # None => Kept(calls[d], calls'[d])
    BY <1>1 DEF Kept
  <1>3. MarksMatchStatus'
    BY <1>1 DEF Inv, MarksMatchStatus, MarksRight, Heard
  <1> QED
    BY <1>1, <1>2, <1>3

(* A step that leaves every row alone.                                     *)
LEMMA RowsStay ==
    ASSUME Inv, calls' = calls
    PROVE  /\ calls' \in [Calls -> Rows \cup {None}] /\ MarksMatchStatus'
           /\ \A d \in Calls : calls[d] # None => Kept(calls[d], calls'[d])
  BY DEF Inv, TypeOK, MarksMatchStatus, Kept

-----------------------------------------------------------------------------
(* One lemma for each group of actions: the rows, then the cycle.          *)

AllKept == \A c \in Calls : calls[c] # None => Kept(calls[c], calls'[c])

LEMMA Started == ASSUME Inv, StartCycle PROVE Inv' /\ AllKept
  <1>1. PICK n \in 1..Batch : \E size \in 1..n : \E queue \in [1..size -> Calls] :
           /\ OldestFirst(queue, n)
           /\ cycle' = [queue |-> queue, step |-> "take", fresh |-> TRUE, wants |-> settings]
    BY DEF StartCycle
  <1>2. PICK size \in 1..n : \E queue \in [1..size -> Calls] :
           /\ OldestFirst(queue, n)
           /\ cycle' = [queue |-> queue, step |-> "take", fresh |-> TRUE, wants |-> settings]
    BY <1>1
  <1>3. PICK queue \in [1..size -> Calls] :
           /\ OldestFirst(queue, n)
           /\ cycle' = [queue |-> queue, step |-> "take", fresh |-> TRUE, wants |-> settings]
    BY <1>2
  <1>4. settings \in Extras /\ size \in Nat \ {0}
    BY SizesAssumption DEF StartCycle, Inv, TypeOK
  <1>5. queue \in Seq(Calls) /\ queue # <<>> /\ DOMAIN queue = 1..size
    BY <1>4
  <1>6. cycle' \in Cycles /\ cycle'.queue = queue /\ cycle'.step = "take"
    BY <1>3, <1>4, <1>5 DEF Cycles, Steps
  <1>7. \A i \in DOMAIN queue : Workable(calls[queue[i]])
    BY <1>3 DEF OldestFirst, Pending, Workable, Heard
  <1>8. UNCHANGED <<calls, settings, today, crashes>>
    BY DEF StartCycle
  <1>9. CycleOK'
    BY <1>3, <1>6, <1>7, <1>8 DEF CycleOK, OldestFirst
  <1> QED
    BY <1>5, <1>6, <1>8, <1>9, RowsStay DEF Inv, TypeOK, AllKept

(* The steps of the relay that write no row.                               *)
Unwritten == AlreadyTranscribed \/ TranscribeError \/ TopicMissing \/ QualityMissing

LEMMA UnwrittenSteps == ASSUME Inv, Unwritten PROVE Inv' /\ AllKept
  <1>1. UNCHANGED <<calls, settings, today, crashes>>
    BY DEF Unwritten, AlreadyTranscribed, TranscribeError, TopicMissing, QualityMissing
  <1>2. PICK step \in Steps : Running(step)
    BY DEF Unwritten, AlreadyTranscribed, TranscribeError, TopicMissing, QualityMissing, Steps
  <1>3. \/ NextCall
        \/ \E next \in {"topic", "quality"} : /\ Step(next)
                                          /\ calls'[Current] # None
                                          /\ calls'[Current].status \in Heard
    <2>1. CASE AlreadyTranscribed
      <3>1. Running("take") /\ "take" \in Steps /\ Row.status # "none" /\ Step("topic")
        BY <2>1 DEF AlreadyTranscribed, Steps
      <3>2. Row # None /\ Row.status \in Heard
        BY <3>1, CurrentCall DEF Workable
      <3> QED
        BY <1>1, <3>1, <3>2 DEF Row
    <2>2. CASE TopicMissing
      <3>1. Running("topic") /\ "topic" \in Steps /\ Step("quality")
        BY <2>2 DEF TopicMissing, Steps
      <3>2. Row # None /\ Row.status \in Heard
        BY <3>1, CurrentCall DEF Workable
      <3> QED
        BY <1>1, <3>1, <3>2 DEF Row
    <2> QED
      BY <2>1, <2>2 DEF Unwritten, TranscribeError, QualityMissing
  <1>4. CycleOK' /\ (cycle' # None => cycle' \in Cycles /\ cycle'.queue # <<>>)
    BY <1>1, <1>2, <1>3, CycleSteps
  <1> QED
    BY <1>1, <1>4, RowsStay DEF Inv, TypeOK, AllKept

(* The steps of the relay that write the row of the current call.          *)
Written == TranscribeUnusable \/ TranscribeDone \/ TopicDone \/ QualityDone

LEMMA WrittenSteps == ASSUME Inv, Written PROVE Inv' /\ AllKept
  <1>1. UNCHANGED <<settings, today, crashes>>
    BY DEF Written, TranscribeUnusable, TranscribeDone, TopicDone, QualityDone
  <1>2. PICK step \in Steps : Running(step)
    BY DEF Written, TranscribeUnusable, TranscribeDone, TopicDone, QualityDone, Steps
  <1>3. /\ Current \in Calls /\ Row = calls[Current] /\ Row \in Rows
        /\ Workable(Row) /\ MarksRight(Row)
    BY <1>2, CurrentCall DEF Row
  <1>4. PICK row \in Rows :
           /\ calls' = [calls EXCEPT ![Current] = row]
           /\ MarksRight(row) /\ Kept(Row, row)
           /\ \/ NextCall
              \/ \E next \in {"topic", "quality"} : Step(next) /\ row.status \in Heard
    <2>1. CASE TranscribeUnusable
      <3>1. /\ Running("take") /\ Row.status = "none" /\ NextCall
            /\ \E status \in {"failed", "skipped"} :
                  calls' = [calls EXCEPT ![Current].status = status]
        BY <2>1 DEF TranscribeUnusable, GiveUp
      <3>2. PICK status \in {"failed", "skipped"} :
               calls' = [calls EXCEPT ![Current] = [Row EXCEPT !.status = status]]
        BY <3>1 DEF Row
      <3>3. [Row EXCEPT !.status = status] \in Rows
        BY <1>3 DEF Rows, Statuses
      <3>4. MarksRight([Row EXCEPT !.status = status])
        BY <1>3, <3>1 DEF Rows, MarksRight, Heard
      <3>5. Kept(Row, [Row EXCEPT !.status = status])
        BY <1>3, <3>1, <3>3, NoneAssumption DEF Rows, Kept, Progress
      <3> QED
        BY <3>1, <3>2, <3>3, <3>4, <3>5
    <2>2. CASE TranscribeDone
      <3>1. /\ Row.status = "none" /\ Step("topic")
            /\ calls' = [calls EXCEPT ![Current] = [Row EXCEPT !.status = "transcribed"]]
        BY <2>2 DEF TranscribeDone, Row
      <3>2. [Row EXCEPT !.status = "transcribed"] \in Rows
        BY <1>3 DEF Rows, Statuses
      <3>3. MarksRight([Row EXCEPT !.status = "transcribed"])
        BY <1>3, <3>1 DEF Rows, MarksRight, Heard
      <3>4. Kept(Row, [Row EXCEPT !.status = "transcribed"])
        BY <1>3, <3>1, <3>2, NoneAssumption DEF Rows, Kept, Progress
      <3>5. [Row EXCEPT !.status = "transcribed"].status \in Heard
        BY <1>3 DEF Rows, Heard
      <3> QED
        BY <3>1, <3>2, <3>3, <3>4, <3>5
    <2>3. CASE TopicDone
      <3>1. /\ Running("topic") /\ Row.status # "classified" /\ Step("quality")
            /\ calls' = [calls EXCEPT ![Current] = [Row EXCEPT !.status = "classified",
                                                              !.topic = TRUE]]
        BY <2>3 DEF TopicDone, Row, WantsTopic
      <3>2. Row.status = "transcribed"
        BY <3>1, CurrentCall DEF Heard, Steps
      <3>3. [Row EXCEPT !.status = "classified", !.topic = TRUE] \in Rows
        BY <1>3 DEF Rows, Statuses
      <3>4. MarksRight([Row EXCEPT !.status = "classified", !.topic = TRUE])
        BY <1>3 DEF Rows, MarksRight, Heard
      <3>5. Kept(Row, [Row EXCEPT !.status = "classified", !.topic = TRUE])
        <4>1. Progress("transcribed") = 1 /\ Progress("classified") = 2
          BY DEF Progress
        <4>2. [Row EXCEPT !.status = "classified", !.topic = TRUE].status = "classified"
          BY <1>3 DEF Rows
        <4>3. [Row EXCEPT !.status = "classified", !.topic = TRUE].topic
          BY <1>3 DEF Rows
        <4>4. [Row EXCEPT !.status = "classified", !.topic = TRUE].score = Row.score
          BY <1>3 DEF Rows
        <4> QED
          BY <3>2, <3>3, <4>1, <4>2, <4>3, <4>4, NoneAssumption DEF Kept
      <3>6. [Row EXCEPT !.status = "classified", !.topic = TRUE].status \in Heard
        BY <1>3 DEF Rows, Heard
      <3> QED
        BY <3>1, <3>3, <3>4, <3>5, <3>6
    <2>4. CASE QualityDone
      <3>1. /\ Running("quality") /\ NextCall
            /\ calls' = [calls EXCEPT ![Current] = [Row EXCEPT !.score = TRUE]]
        BY <2>4 DEF QualityDone, Row
      <3>2. Row.status \in Heard
        BY <3>1, CurrentCall DEF Steps
      <3>3. [Row EXCEPT !.score = TRUE] \in Rows
        BY <1>3 DEF Rows
      <3>4. MarksRight([Row EXCEPT !.score = TRUE])
        BY <1>3, <3>2 DEF Rows, MarksRight
      <3>5. Kept(Row, [Row EXCEPT !.score = TRUE])
        BY <1>3, <3>3, NoneAssumption DEF Rows, Kept
      <3> QED
        BY <3>1, <3>3, <3>4, <3>5
    <2> QED
      BY <2>1, <2>2, <2>3, <2>4 DEF Written
  <1>5. /\ calls' \in [Calls -> Rows \cup {None}] /\ calls'[Current] = row
        /\ MarksMatchStatus' /\ \A d \in Calls : calls[d] # None => Kept(calls[d], calls'[d])
    BY <1>3, <1>4, RowStep
  <1>6. CycleOK' /\ (cycle' # None => cycle' \in Cycles /\ cycle'.queue # <<>>)
    <2>1. \A c \in Calls \ {Current} : calls'[c] = calls[c]
      BY <1>3, <1>4 DEF Inv, TypeOK
    <2>2. row # None
      BY NoneAssumption
    <2> QED
      BY <1>2, <1>4, <1>5, <2>1, <2>2, CycleSteps
  <1> QED
    BY <1>1, <1>5, <1>6 DEF Inv, TypeOK, AllKept

(* The import: a call that is new, or one whose columns of Zeon's change.  *)
LEMMA Imports == ASSUME Inv, NEW c \in Calls, Import(c) PROVE Inv' /\ AllKept
  <1>1. PICK link \in BOOLEAN, talk \in BOOLEAN :
           calls' = [calls EXCEPT ![c] = Upsert(calls[c], link, talk)]
    BY DEF Import
  <1>2. PICK old, row : old = calls[c] /\ row = Upsert(calls[c], link, talk)
    OBVIOUS
  <1>3. UNCHANGED <<settings, today, cycle, crashes>>
    BY DEF Import
  <1>4. /\ row \in Rows /\ MarksRight(row)
        /\ old # None => Kept(old, row) /\ row.status = old.status
    <2>1. CASE old = None
      <3>1. row = Imported(link, talk)
        BY <1>2, <2>1 DEF Upsert
      <3> QED
        BY <2>1, <3>1 DEF Imported, Rows, Statuses, MarksRight
    <2>2. CASE old # None
      <3>1. row = [old EXCEPT !.link = link, !.talk = talk] /\ old \in Rows /\ MarksRight(old)
        BY <1>2, <2>2 DEF Upsert, Inv, TypeOK, MarksMatchStatus, MarksRight, Heard
      <3>2. row \in Rows
        BY <3>1 DEF Rows
      <3>3. row.status = old.status /\ row.topic = old.topic /\ row.score = old.score
        BY <3>1 DEF Rows
      <3> QED
        BY <3>1, <3>2, <3>3, NoneAssumption DEF MarksRight, Kept
    <2> QED
      BY <2>1, <2>2
  <1>5. /\ calls' \in [Calls -> Rows \cup {None}] /\ calls'[c] = row
        /\ MarksMatchStatus' /\ AllKept
    BY <1>1, <1>2, <1>4, RowStep DEF AllKept
  <1>6. \A d \in Calls : Workable(calls[d]) => /\ Workable(calls'[d])
                                              /\ calls'[d].status = calls[d].status
    <2>1. \A d \in Calls \ {c} : calls'[d] = calls[d]
      BY <1>1 DEF Inv, TypeOK
    <2> QED
      BY <1>2, <1>4, <1>5, <2>1, NoneAssumption DEF Workable
  <1>7. CycleOK'
    <2>1. CASE cycle # None
      <3>1. /\ cycle.queue \in Seq(Calls) /\ 1 \in DOMAIN cycle.queue
            /\ \A i \in DOMAIN cycle.queue : cycle.queue[i] \in Calls
        BY <2>1 DEF Inv, TypeOK, Cycles
      <3> QED
        BY <1>3, <1>6, <2>1, <3>1 DEF Inv, CycleOK
    <2> QED
      BY <1>3, <2>1 DEF CycleOK
  <1> QED
    BY <1>3, <1>5, <1>7 DEF Inv, TypeOK

-----------------------------------------------------------------------------
(* The theorems *)

LEMMA InitInv == Init => Inv
  BY SizesAssumption DEF Init, Inv, TypeOK, CycleOK, MarksMatchStatus, Days

LEMMA NextInv == ASSUME Inv, [Next]_vars PROVE Inv' /\ AllKept
  <1>1. ASSUME UNCHANGED <<calls, settings, today>>, crashes' \in 0..MaxCrashes, cycle' = None
        PROVE  Inv' /\ AllKept
    BY <1>1, RowsStay DEF Inv, TypeOK, CycleOK, AllKept
  <1>2. CASE Defer \/ Crash
    BY <1>1, <1>2, SizesAssumption DEF Defer, Crash, Inv, TypeOK
  <1>3. ASSUME UNCHANGED <<calls, cycle, crashes>>, settings' \in Extras \cup {None}, today' \in Days
        PROVE  Inv' /\ AllKept
    BY <1>3, RowsStay DEF Inv, TypeOK, CycleOK, AllKept
  <1>4. CASE SaveSettings \/ Midnight \/ UNCHANGED vars
    BY <1>3, <1>4, SizesAssumption DEF SaveSettings, Midnight, vars, Inv, TypeOK, Days
  <1> QED
    BY <1>2, <1>4, Started, UnwrittenSteps, WrittenSteps, Imports
    DEF Next, Relay, Unwritten, Written

(* The rows and the running cycle stay well formed.                        *)
THEOREM TypeCorrect == Spec => []TypeOK
  <1>1. Inv /\ [Next]_vars => Inv'
    BY NextInv
  <1>2. Inv => TypeOK
    BY DEF Inv
  <1> QED
    BY InitInv, <1>1, <1>2, PTL DEF Spec

(* A call carries a topic exactly when it is classified and a score only   *)
(* if it was heard, whatever fails, crashes or is imported in between.     *)
THEOREM MarksHold == Spec => []MarksMatchStatus
  <1>1. Inv /\ [Next]_vars => Inv'
    BY NextInv
  <1>2. Inv => MarksMatchStatus
    BY DEF Inv
  <1> QED
    BY InitInv, <1>1, <1>2, PTL DEF Spec

(* No step of the relay, an import or a crash takes a finished part of a   *)
(* call back.                                                              *)
THEOREM WorkStays == Spec => WorkIsKept
  <1> DEFINE Step1 == \A c \in Calls : calls[c] # None =>
          /\ calls'[c] # None
          /\ \/ calls'[c].status = calls[c].status
             \/ Progress(calls'[c].status) > Progress(calls[c].status)
          /\ calls[c].topic => calls'[c].topic
          /\ calls[c].score => calls'[c].score
  <1>1. Inv /\ [Next]_vars => Inv' /\ AllKept
    BY NextInv
  <1>2. AllKept => Step1
    BY DEF AllKept, Kept
  <1>3. Inv /\ [Next]_vars => Inv' /\ [Step1]_vars
    BY <1>1, <1>2
  <1> QED
    BY InitInv, <1>3, PTL DEF Spec, WorkIsKept
=============================================================================
