----------------------------- MODULE PlannerJobs -----------------------------
(***************************************************************************)
(* The jobs of the mechanical workshop in the planner: create, update and  *)
(* delete of services/planner_service.py with its slot validation, and the *)
(* pass that links jobs to work orders (auto_match_planner_records) run by *)
(* services/planner_match_relay.py.                                        *)
(*                                                                         *)
(* A request loads the job, validates the slot and commits, three steps of *)
(* a session at READ COMMITTED; nothing in the database keeps slots apart. *)
(* A lane is one post of one workshop on one day, working hours are fixed. *)
(* contact stands for the phone and the VIN a job is matched by; the other *)
(* columns are left out, no rule reads them.                               *)
(***************************************************************************)
EXTENDS AuditLog

CONSTANTS
    Jobs,           \* pool of job ids
    Lanes, LastHour,
    Orders,         \* work orders
    OrderContact,   \* the phone or VIN 1C has for each of them
    Contacts,
    Forms,          \* the WorkshopJobWrite bodies a page may send
    Threads,
    LastTick,       \* the clock of created_at runs from 1 to LastTick
    MATCH_WINDOW,   \* AUTO_MATCH_WINDOW_DAYS
    MaxJournal,
    SlotsOverlap,   \* may requests that place a job overlap on one job or one lane
    None

Hours == 1..LastHour
Ticks == 1..LastTick
FormType == {f \in [lane: Lanes, start: Int, end: Int,
                    order: Orders \cup {None}, contact: Contacts \cup {None}] : f.start < f.end}
Columns == {"lane", "start", "end", "order", "contact"}
Rows == [lane: Lanes, start: Int, end: Int, order: Orders \cup {None},
         contact: Contacts \cup {None}, created: Ticks]

ASSUME SizeAssumption == /\ LastHour \in Nat /\ LastTick \in Nat \ {0}
                         /\ MATCH_WINDOW \in Nat /\ MaxJournal \in Nat
ASSUME SwitchAssumption == SlotsOverlap \in BOOLEAN
ASSUME OrderAssumption == OrderContact \in [Orders -> Contacts \cup {None}]
ASSUME FormAssumption == Forms \subseteq FormType

VARIABLES
    jobs,     \* the rows of workshop_jobs, or None
    journal,  \* for each job its schedule_audit_log rows
    orders,   \* when each work order was imported (created_at), or None
    clock,
    matching, \* planner_auto_match_enabled
    pass,     \* the jobs each match pass has read as unlinked, or None between passes
    req       \* the request each thread is serving, or None

vars == <<jobs, journal, orders, clock, matching, pass, req>>

Passes == {"relay", "button"}
Ops == {"create", "update", "delete"}
Steps == {"load", "validate", "commit"}
Requests == [op: Ops, job: Jobs, form: Forms \cup {None}, loaded: Rows \cup {None}, step: Steps]

ASSUME NoneAssumption == None \notin Forms /\ None \notin Rows /\ None \notin Requests
                         /\ None \notin Ticks

View(row) == [c \in Columns |-> row[c]]
ToRow(form) == [lane |-> form.lane, start |-> form.start, end |-> form.end,
                order |-> form.order, contact |-> form.contact, created |-> clock]

-----------------------------------------------------------------------------
(* Slots *)

Clash(a, b) == a.lane = b.lane /\ a.start < b.end /\ a.end > b.start

(* Mutant of SlotFree: a job that begins earlier is not seen.              *)
SlotFreeAfter(form, self) ==
    \A j \in Jobs \ {self} : jobs[j] # None =>
        ~(Clash(form, jobs[j]) /\ jobs[j].start >= form.start)

SlotFree(form, self) == \A j \in Jobs \ {self} : jobs[j] # None => ~Clash(form, jobs[j])

(* _validate_slot; self is the job being moved.                            *)
SlotValid(form, self) ==
    /\ form.start >= 1 /\ form.end <= LastHour
    /\ SlotFree(form, self)

-----------------------------------------------------------------------------
(* Requests *)

InFlight(t) == req[t] # None
At(t, step) == InFlight(t) /\ req[t].step = step
Finish(t) == req' = [req EXCEPT ![t] = None]

(* The environment assumption SlotsOverlap = FALSE stands for: no two      *)
(* requests that place a job, about one job or one lane.  A deletion may   *)
(* overlap anything.                                                       *)
MayJoin(j, f) ==
    ~SlotsOverlap /\ f # None =>
        \A t \in Threads : InFlight(t) /\ req[t].form # None =>
            req[t].job # j /\ req[t].form.lane # f.lane

Receive(t, op, j, f) ==
    /\ ~InFlight(t) /\ Len(journal[j]) < MaxJournal
    /\ MayJoin(j, f)
    /\ req' = [req EXCEPT ![t] = [op |-> op, job |-> j, form |-> f, loaded |-> None,
                                  step |-> IF op = "create" THEN "validate" ELSE "load"]]
    /\ UNCHANGED <<jobs, journal, orders, clock, matching, pass>>

ReceiveCreate(t, j, f) ==
    /\ jobs[j] = None /\ journal[j] = <<>>
    /\ \A s \in Threads : InFlight(s) => req[s].job # j
    /\ Receive(t, "create", j, f)

ReceiveUpdate(t, j, f) == journal[j] # <<>> /\ Receive(t, "update", j, f)
ReceiveDelete(t, j) == journal[j] # <<>> /\ Receive(t, "delete", j, None)

Load(t) ==
    LET r == req[t] IN
    /\ At(t, "load")
    /\ IF jobs[r.job] = None THEN Finish(t)
       ELSE req' = [req EXCEPT ![t].loaded = jobs[r.job],
                               ![t].step = IF r.op = "update" THEN "validate" ELSE "commit"]
    /\ UNCHANGED <<jobs, journal, orders, clock, matching, pass>>

Validate(t) ==
    LET r == req[t] IN
    /\ At(t, "validate")
    /\ IF SlotValid(r.form, r.job) THEN req' = [req EXCEPT ![t].step = "commit"] ELSE Finish(t)
    /\ UNCHANGED <<jobs, journal, orders, clock, matching, pass>>

(* The UPDATE of the columns whose value is not the one loaded.            *)
Merge(loaded, new, row) ==
    [c \in DOMAIN row |-> IF c \in Columns /\ new[c] # loaded[c] THEN new[c] ELSE row[c]]

Changes(before, after) == [c \in {d \in Columns : before[d] # after[d]} |-> after[c]]

Record(old, action, changes) == Append(old, [action |-> action, changes |-> changes])

CommitCreate(t) ==
    LET r == req[t] IN
    /\ At(t, "commit") /\ r.op = "create"
    /\ jobs' = [jobs EXCEPT ![r.job] = ToRow(r.form)]
    /\ journal' = [journal EXCEPT ![r.job] = Record(@, "create", r.form)]
    /\ Finish(t)
    /\ UNCHANGED <<orders, clock, matching, pass>>

(* Mutant of CommitUpdate: the UPDATE writes the whole form.               *)
CommitWholeForm(t) ==
    LET r == req[t] IN
    /\ At(t, "commit") /\ r.op = "update" /\ jobs[r.job] # None
    /\ jobs' = [jobs EXCEPT ![r.job] = [ToRow(r.form) EXCEPT !.created = jobs[r.job].created]]
    /\ journal' = IF Changes(r.loaded, r.form) = <<>> THEN journal
                  ELSE [journal EXCEPT ![r.job] = Record(@, "update", Changes(r.loaded, r.form))]
    /\ Finish(t)
    /\ UNCHANGED <<orders, clock, matching, pass>>

(* If the row is gone by now, the UPDATE raises and all is rolled back.    *)
CommitUpdate(t) ==
    LET r       == req[t]
        changes == Changes(r.loaded, r.form)
    IN  /\ At(t, "commit") /\ r.op = "update"
        /\ IF jobs[r.job] = None \/ changes = <<>> THEN UNCHANGED <<jobs, journal>>
           ELSE /\ jobs' = [jobs EXCEPT ![r.job] = Merge(r.loaded, r.form, @)]
                /\ journal' = [journal EXCEPT ![r.job] = Record(@, "update", changes)]
        /\ Finish(t)
        /\ UNCHANGED <<orders, clock, matching, pass>>

CommitDelete(t) ==
    LET r == req[t] IN
    /\ At(t, "commit") /\ r.op = "delete"
    /\ jobs' = [jobs EXCEPT ![r.job] = None]
    /\ journal' = [journal EXCEPT ![r.job] = Record(@, "delete", View(r.loaded))]
    /\ Finish(t)
    /\ UNCHANGED <<orders, clock, matching, pass>>

Fail(t) ==
    /\ InFlight(t)
    /\ Finish(t)
    /\ UNCHANGED <<jobs, journal, orders, clock, matching, pass>>

-----------------------------------------------------------------------------
(* Automatic matching *)

(* Mutant of Candidates: the window is missing.                            *)
CandidatesEver(row) ==
    {o \in Orders : orders[o] # None /\ row.contact # None /\ OrderContact[o] = row.contact}

(* The work orders imported in the days after the job was made, with its   *)
(* phone or VIN.                                                           *)
Candidates(row) ==
    {o \in Orders : /\ orders[o] # None
                    /\ orders[o] \in row.created .. row.created + MATCH_WINDOW
                    /\ row.contact # None /\ OrderContact[o] = row.contact}

Earliest(os) == {o \in os : \A p \in os : orders[o] <= orders[p]}

Unlinked(j) == jobs[j] # None /\ jobs[j].order = None

(* The relay wakes up, or "run now" is pressed, which asks no setting: the *)
(* unlinked jobs are read.                                                 *)
BeginPass(p) ==
    /\ pass[p] = None
    /\ p = "relay" => matching
    /\ pass' = [pass EXCEPT ![p] = [j \in {i \in Jobs : Unlinked(i)} |-> jobs[j]]]
    /\ UNCHANGED <<jobs, journal, orders, clock, matching, req>>

Matched(read) == {j \in DOMAIN read : Candidates(read[j]) # {}}

(* Mutant of CommitPass: a job without a match ends the pass.              *)
CommitPassIfAll(p) ==
    /\ pass[p] # None
    /\ LET read == pass[p] IN
       IF \E j \in DOMAIN read : Candidates(read[j]) = {} \/ jobs[j] = None THEN UNCHANGED <<jobs, journal>>
       ELSE \E link \in [Matched(read) -> Orders] :
              /\ \A j \in DOMAIN link : link[j] \in Earliest(Candidates(read[j]))
              /\ jobs' = [j \in Jobs |-> IF j \in DOMAIN link
                                         THEN [jobs[j] EXCEPT !.order = link[j]] ELSE jobs[j]]
              /\ journal' = [j \in Jobs |->
                    IF j \in DOMAIN link THEN Record(journal[j], "update", [order |-> link[j]])
                    ELSE journal[j]]
    /\ pass' = [pass EXCEPT ![p] = None]
    /\ UNCHANGED <<orders, clock, matching, req>>

(* All links of a pass are written in one commit at its end, whatever      *)
(* became of the jobs meanwhile; one that was deleted fails all of them.   *)
CommitPass(p) ==
    /\ pass[p] # None
    /\ LET read == pass[p] IN
       IF \E j \in Matched(read) : jobs[j] = None THEN UNCHANGED <<jobs, journal>>
       ELSE \E link \in [Matched(read) -> Orders] :
              /\ \A j \in DOMAIN link : link[j] \in Earliest(Candidates(read[j]))
              /\ jobs' = [j \in Jobs |-> IF j \in DOMAIN link
                                         THEN [jobs[j] EXCEPT !.order = link[j]] ELSE jobs[j]]
              /\ journal' = [j \in Jobs |->
                    IF j \in DOMAIN link THEN Record(journal[j], "update", [order |-> link[j]])
                    ELSE journal[j]]
    /\ pass' = [pass EXCEPT ![p] = None]
    /\ UNCHANGED <<orders, clock, matching, req>>

-----------------------------------------------------------------------------
ImportOrder(o) ==
    /\ orders[o] = None
    /\ orders' = [orders EXCEPT ![o] = clock]
    /\ UNCHANGED <<jobs, journal, clock, matching, pass, req>>

SaveMatching ==
    /\ matching' = ~matching
    /\ UNCHANGED <<jobs, journal, orders, clock, pass, req>>

Tick ==
    /\ clock < LastTick
    /\ clock' = clock + 1
    /\ UNCHANGED <<jobs, journal, orders, matching, pass, req>>

Init ==
    /\ jobs = [j \in Jobs |-> None]
    /\ journal = [j \in Jobs |-> <<>>]
    /\ orders = [o \in Orders |-> None]
    /\ clock = 1
    /\ matching \in BOOLEAN
    /\ pass = [p \in Passes |-> None]
    /\ req = [t \in Threads |-> None]

Matching(p) == BeginPass(p) \/ CommitPass(p)

Next ==
    \/ \E t \in Threads, j \in Jobs, f \in Forms : ReceiveCreate(t, j, f) \/ ReceiveUpdate(t, j, f)
    \/ \E t \in Threads, j \in Jobs : ReceiveDelete(t, j)
    \/ \E t \in Threads : \/ Load(t) \/ Validate(t)
                          \/ CommitCreate(t) \/ CommitUpdate(t) \/ CommitDelete(t)
                          \/ Fail(t)
    \/ \E p \in Passes : Matching(p)
    \/ \E o \in Orders : ImportOrder(o)
    \/ SaveMatching \/ Tick

Spec == Init /\ [][Next]_vars

(* run_relay_loop survives every error and sleeps a finite time.           *)
FairSpec == Spec /\ WF_vars(Matching("relay"))

-----------------------------------------------------------------------------
(* Properties *)

(* Type invariant.                                                         *)
TypeOK ==
    /\ jobs \in [Jobs -> Rows \cup {None}]
    /\ DOMAIN journal = Jobs
    /\ orders \in [Orders -> Ticks \cup {None}]
    /\ clock \in Ticks /\ matching \in BOOLEAN
    /\ DOMAIN pass = Passes
    /\ \A p \in Passes : pass[p] # None =>
          DOMAIN pass[p] \subseteq Jobs /\ \A j \in DOMAIN pass[p] : pass[p][j] \in Rows
    /\ req \in [Threads -> Requests \cup {None}]

(* A job never overlaps another on the same post and day, is inside the    *)
(* working hours, and ends after it begins, whichever moves of jobs in     *)
(* other lanes, deletions and match passes come between the validation and *)
(* the commit.                                                             *)
NoOverlap ==
    \A j \in Jobs : jobs[j] # None =>
        /\ jobs[j].start < jobs[j].end /\ jobs[j].start >= 1 /\ jobs[j].end <= LastHour
        /\ \A i \in Jobs \ {j} : jobs[i] # None => ~Clash(jobs[i], jobs[j])

(* The audit log of a job tells what became of it, whatever requests and   *)
(* match passes raced for it: there is a job just when the last row is no  *)
(* deletion, and each column has the value of the last row that tells of it.*)
LogReplays ==
    \A j \in Jobs :
        /\ jobs[j] # None <=> Standing(journal[j])
        /\ jobs[j] # None => \A c \in Columns : LastTold(journal[j], c, jobs[j][c])

(* A pass links a job only to a work order that was imported after the job *)
(* was made and within the window, however stale what the pass has read.   *)
LinksWithinWindow ==
    [][\A p \in Passes, j \in Jobs :
          pass[p] # None /\ pass'[p] = None /\ jobs'[j] # jobs[j] =>
              LET o == jobs'[j].order IN
              orders[o] >= jobs[j].created /\ orders[o] <= jobs[j].created + MATCH_WINDOW]_vars

(* While matching stays on, an unlinked job that has a candidate is linked *)
(* at last (or changed or deleted), whatever spoils a pass.                *)
Waiting(j) == IF jobs[j] = None THEN FALSE
              ELSE jobs[j].order = None /\ Candidates(jobs[j]) # {}
MatchesFound == <>[]matching => \A j \in Jobs : []<>~Waiting(j)

-----------------------------------------------------------------------------
(* The inductive invariants of PlannerJobsProofs, in their parts *)

RequestOK(r) ==
    /\ r.op = "delete" <=> r.form = None
    /\ r.op = "create" => r.step # "load"
    /\ r.op = "delete" => r.step # "validate"
    /\ r.op # "create" /\ r.step # "load" => r.loaded # None
RequestsOK == \A t \in Threads : InFlight(t) => RequestOK(req[t])

(* The id of a job being created is known to its own request only.         *)
FreshIds ==
    \A t \in Threads : InFlight(t) /\ req[t].op = "create" =>
        /\ jobs[req[t].job] = None /\ journal[req[t].job] = <<>>
        /\ \A s \in Threads \ {t} : InFlight(s) => req[s].job # req[t].job

(* No two requests place one job, or a job in one lane.                    *)
PlacedApart ==
    \A s, t \in Threads :
        /\ s # t /\ InFlight(s) /\ InFlight(t) /\ req[s].form # None /\ req[t].form # None
        => req[s].job # req[t].job /\ req[s].form.lane # req[t].form.lane

(* A slot found free stays free until its request commits, and the job     *)
(* that moves there is where it was when it was loaded.                    *)
SlotHeld(r) ==
    /\ r.form # None /\ r.step = "commit" => SlotValid(r.form, r.job)
    /\ r.op = "update" /\ r.step # "load" /\ jobs[r.job] # None =>
          /\ r.loaded.lane = jobs[r.job].lane
          /\ r.loaded.start = jobs[r.job].start /\ r.loaded.end = jobs[r.job].end
SlotsHeld == PlacedApart /\ \A t \in Threads : InFlight(t) => SlotHeld(req[t])

(* A job a pass has read has a log, so its id is not given anew, and it is *)
(* of the day it was of.                                                   *)
ReadJobs ==
    \A p \in Passes : pass[p] # None => \A j \in DOMAIN pass[p] :
        /\ journal[j] # <<>>
        /\ jobs[j] # None => jobs[j].created = pass[p][j].created
=============================================================================
