-------------------------- MODULE CallTranscription --------------------------
(***************************************************************************)
(* The background pipeline that transcribes answered calls, sums up their  *)
(* topic and assesses their quality:                                       *)
(* services/call_transcription_service.py driven by                        *)
(* services/call_transcription_relay.py, on the telephony_calls rows that  *)
(* services/telephony_import_service.py keeps upserting meanwhile.         *)
(*                                                                         *)
(* One relay task runs one cycle at a time.  A cycle picks a batch of      *)
(* pending calls, oldest first, and works through it; each external answer *)
(* is committed on its own, so the steps below are its commits.  Zeon,     *)
(* SpeechKit and YandexGPT answer, or fail, as they please.                *)
(***************************************************************************)
EXTENDS Integers, Sequences

CONSTANTS
    NCalls,     \* the calls, numbered by when they took place (occurred_at)
    CallDay,    \* the Moscow calendar day of each
    LastDay,
    Batch,      \* the largest transcription_batch_size one may set
    MaxCrashes, \* how often a cycle may be cut short
    None

Calls == 1..NCalls
Days == 1..LastDay

ASSUME SizesAssumption == /\ NCalls \in Nat /\ LastDay \in Nat \ {0} /\ Batch \in Nat \ {0}
                          /\ MaxCrashes \in Nat
ASSUME CallDayAssumption == /\ CallDay \in [Calls -> Days]
                            /\ \A c, d \in Calls : c < d => CallDay[c] <= CallDay[d]

VARIABLES
    calls,     \* the rows of telephony_calls, or None where not imported yet
    settings,  \* what telephony_settings asks for, or None while it is all off
    today,
    cycle,     \* the cycle that is running, or None while the relay sleeps
    crashes    \* how many cycles were cut short

vars == <<calls, settings, today, cycle, crashes>>

(* transcript_status; "none" is SQL NULL.                                  *)
Statuses == {"none", "transcribed", "classified", "failed", "skipped"}
Rows == [link: BOOLEAN, talk: BOOLEAN, status: Statuses, topic: BOOLEAN, score: BOOLEAN]
ASSUME NoneAssumption == None \notin Rows

(* The pipeline is off unless telephony is on, its keys are filled in      *)
(* (without them a cycle raises before it has changed anything) and one of *)
(* the three switches is on: topics (classify_calls_enabled), quality      *)
(* (assess_quality_enabled), or just the transcripts, the empty set        *)
(* (transcript_rewrite_enabled).                                           *)
Extras == SUBSET {"topic", "quality"}
Steps == {"take", "topic", "quality"}
Cycles == [queue: Seq(Calls), step: Steps, wants: Extras, fresh: BOOLEAN]

MAX_CALL_AGE_DAYS == 1

-----------------------------------------------------------------------------
(* The WHERE clause of find_pending_calls: answered with talk time, of     *)
(* today or yesterday, and not transcribed, not classified, or classified  *)
(* without a score - whatever the settings ask for.                        *)
Pending(c) ==
    /\ calls[c] # None /\ calls[c].talk /\ CallDay[c] >= today - MAX_CALL_AGE_DAYS
    /\ \/ calls[c].status \in {"none", "transcribed"}
       \/ calls[c].status = "classified" /\ ~calls[c].score

(* ORDER BY occurred_at LIMIT n: the pending calls in order, or, where they *)
(* are more than n, the n oldest of them.                                  *)
OldestFirst(queue, n) ==
    /\ \A i \in DOMAIN queue : Pending(queue[i])
    /\ \A i, j \in DOMAIN queue : i < j => queue[i] < queue[j]
    /\ \A c \in Calls : Pending(c) =>
          \/ \E i \in DOMAIN queue : queue[i] = c
          \/ Len(queue) = n /\ \A i \in DOMAIN queue : queue[i] < c

(* poll_once and the beginning of process_pending_calls; without pending   *)
(* calls the cycle ends at once.  n is the batch size set at the time.     *)
StartCycle ==
    /\ cycle = None
    /\ settings # None
    /\ \E n \in 1..Batch : \E size \in 1..n : \E queue \in [1..size -> Calls] :
          /\ OldestFirst(queue, n)
          /\ cycle' = [queue |-> queue, step |-> "take", fresh |-> TRUE,
                       wants |-> settings]
    /\ UNCHANGED <<calls, settings, today, crashes>>

Running(step) == IF cycle = None THEN FALSE ELSE cycle.step = step
Current == Head(cycle.queue)
Row == calls[Current]

Step(step) == cycle' = [cycle EXCEPT !.step = step]
NextCall ==
    cycle' = IF Len(cycle.queue) = 1 THEN None
             ELSE [cycle EXCEPT !.queue = Tail(@), !.step = "take", !.fresh = FALSE]

(* The cycle has run for the whole poll interval: the rest is left for the *)
(* next one.  The deadline is set just before the first call is taken.     *)
Defer ==
    /\ Running("take") /\ ~cycle.fresh
    /\ cycle' = None
    /\ UNCHANGED <<calls, settings, today, crashes>>

AlreadyTranscribed ==
    /\ Running("take") /\ Row.status # "none"
    /\ Step("topic")
    /\ UNCHANGED <<calls, settings, today, crashes>>

(* _transcribe marks the call and returns False: nothing more is done for  *)
(* it, in this cycle or another.                                           *)
GiveUp(status) == /\ calls' = [calls EXCEPT ![Current].status = status] /\ NextCall

(* Mutant of TranscribeUnusable: a skipped call goes on to the next steps. *)
TranscribeGoesOn ==
    /\ Running("take") /\ Row.status = "none"
    /\ \/ GiveUp("failed")
       \/ Row.link /\ calls' = [calls EXCEPT ![Current].status = "skipped"] /\ Step("topic")
    /\ UNCHANGED <<settings, today, crashes>>

(* No link; a placeholder recording; no speech; a carrier announcement.    *)
TranscribeUnusable ==
    /\ Running("take") /\ Row.status = "none"
    /\ GiveUp("failed") \/ (Row.link /\ GiveUp("skipped"))
    /\ UNCHANGED <<settings, today, crashes>>

(* Zeon or SpeechKit fails or times out: only transcript_error is written. *)
TranscribeError ==
    /\ Running("take") /\ Row.status = "none" /\ Row.link
    /\ NextCall
    /\ UNCHANGED <<calls, settings, today, crashes>>

TranscribeDone ==
    /\ Running("take") /\ Row.status = "none" /\ Row.link
    /\ calls' = [calls EXCEPT ![Current].status = "transcribed"]
    /\ Step("topic")
    /\ UNCHANGED <<settings, today, crashes>>

WantsTopic == "topic" \in cycle.wants /\ Row.status # "classified"

(* Mutant of WantsScore: a call that is classified is taken for done.      *)
WantsScoreUnclassified ==
    "quality" \in cycle.wants /\ ~Row.score /\ Row.status # "classified"

WantsScore == "quality" \in cycle.wants /\ ~Row.score

TopicDone ==
    /\ Running("topic") /\ WantsTopic
    /\ calls' = [calls EXCEPT ![Current].status = "classified", ![Current].topic = TRUE]
    /\ Step("quality")
    /\ UNCHANGED <<settings, today, crashes>>

(* Not asked for, or YandexGPT failed; the quality is assessed all the     *)
(* same.                                                                   *)
TopicMissing ==
    /\ Running("topic")
    /\ Step("quality")
    /\ UNCHANGED <<calls, settings, today, crashes>>

QualityDone ==
    /\ Running("quality") /\ WantsScore
    /\ calls' = [calls EXCEPT ![Current].score = TRUE]
    /\ NextCall
    /\ UNCHANGED <<settings, today, crashes>>

QualityMissing ==
    /\ Running("quality")
    /\ NextCall
    /\ UNCHANGED <<calls, settings, today, crashes>>

(* The process is killed, or the cycle ends with an unexpected error.      *)
Crash ==
    /\ cycle # None /\ crashes < MaxCrashes
    /\ cycle' = None
    /\ crashes' = crashes + 1
    /\ UNCHANGED <<calls, settings, today>>

-----------------------------------------------------------------------------
(* What the other parts do meanwhile *)

Imported(link, talk) ==
    [link |-> link, talk |-> talk, status |-> "none", topic |-> FALSE, score |-> FALSE]

(* Mutant of Upsert: the whole row is replaced.                            *)
UpsertWhole(row, link, talk) == Imported(link, talk)

(* ON CONFLICT DO UPDATE sets the columns Zeon reports and no other.       *)
Upsert(row, link, talk) ==
    IF row = None THEN Imported(link, talk) ELSE [row EXCEPT !.link = link, !.talk = talk]

(* The lookback of an import is at least two hours: a call is fetched on   *)
(* its day or the one after, again and again while Zeon completes it.      *)
Import(c) ==
    /\ CallDay[c] \in {today - 1, today}
    /\ \E link, talk \in BOOLEAN :
          /\ calls[c] # None => (calls[c].link => link) /\ (calls[c].talk => talk)
          /\ calls' = [calls EXCEPT ![c] = Upsert(calls[c], link, talk)]
    /\ UNCHANGED <<settings, today, cycle, crashes>>

SaveSettings ==
    /\ settings' \in Extras \cup {None}
    /\ UNCHANGED <<calls, today, cycle, crashes>>

Midnight ==
    /\ today < LastDay
    /\ today' = today + 1
    /\ UNCHANGED <<calls, settings, cycle, crashes>>

-----------------------------------------------------------------------------
Init ==
    /\ calls = [c \in Calls |-> None]
    /\ settings \in Extras \cup {None}
    /\ today = 1
    /\ cycle = None
    /\ crashes = 0

Relay == \/ StartCycle \/ Defer \/ AlreadyTranscribed
         \/ TranscribeUnusable \/ TranscribeError \/ TranscribeDone
         \/ TopicDone \/ TopicMissing \/ QualityDone \/ QualityMissing

Next == Relay \/ Crash \/ SaveSettings \/ Midnight \/ \E c \in Calls : Import(c)

Spec == Init /\ [][Next]_vars

(* run_relay_loop survives every error and always sleeps a finite time; an *)
(* external service that is asked for the same call again and again        *)
(* answers at last.                                                        *)
Answered(c, answer) == cycle # None /\ Current = c /\ answer
FairSpec ==
    /\ Spec
    /\ WF_vars(Relay)
    /\ \A c \in Calls : /\ SF_vars(Answered(c, TranscribeDone \/ TranscribeUnusable))
                        /\ SF_vars(Answered(c, TopicDone))
                        /\ SF_vars(Answered(c, QualityDone))

-----------------------------------------------------------------------------
(* Properties *)

TypeOK ==
    /\ calls \in [Calls -> Rows \cup {None}]
    /\ settings \in Extras \cup {None}
    /\ today \in Days
    /\ crashes \in 0..MaxCrashes
    /\ cycle # None => cycle \in Cycles /\ cycle.queue # <<>>

(* A call carries a topic exactly when it is marked classified, and a      *)
(* score only if a conversation was heard: no operator is scored for a     *)
(* recording that failed or for a carrier's announcement.                  *)
MarksMatchStatus ==
    \A c \in Calls : calls[c] # None =>
        /\ calls[c].topic <=> calls[c].status = "classified"
        /\ calls[c].score => calls[c].status \in {"transcribed", "classified"}

Progress(status) ==
    CASE status = "none" -> 0 [] status = "transcribed" -> 1 [] OTHER -> 2

(* Finished work is never lost: whatever imports, errors and crashes come  *)
(* in between, a status only advances, failed and skipped calls stay so,   *)
(* and a topic or a score stays.                                           *)
WorkIsKept ==
    [][\A c \in Calls : calls[c] # None =>
          /\ calls'[c] # None
          /\ \/ calls'[c].status = calls[c].status
             \/ Progress(calls'[c].status) > Progress(calls[c].status)
          /\ calls[c].topic => calls'[c].topic
          /\ calls[c].score => calls'[c].score]_vars

(* With topics and quality both switched on for good, every pending call   *)
(* is done with at last, however many others are pending.                  *)
BacklogClears ==
    <>[](settings = {"topic", "quality"})
        => \A c \in Calls : []<>~Pending(c)

(* The docstring of find_pending_calls: classified calls without a score,  *)
(* whatever is switched on, are rechecked "for no real work" - they keep   *)
(* no call from being transcribed.                                         *)
Untouched(c) == Pending(c) /\ calls[c].status = "none"
BacklogClearsWhateverIsOn ==
    <>[](settings # None)
        => \A c \in Calls : []<>~Untouched(c)
=============================================================================
