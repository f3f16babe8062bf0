------------------------------ MODULE CashBook ------------------------------
(***************************************************************************)
(* The cash book of the workshops: backend/app/services/cash_service.py   *)
(* over models/cash_entry.py, with the lock of app_settings, the journal   *)
(* of schedule_audit_log and the employees a personal card is tied to.     *)
(*                                                                         *)
(* Endpoints run in threads, each in a session of its own at READ          *)
(* COMMITTED and without autoflush, so a request is a sequence of steps:   *)
(* it reads the entry, checks each day against the lock as the settings    *)
(* stand when that day is checked, resolves the card holder, and writes    *)
(* everything in the one commit that ends it.  An ORM UPDATE writes only   *)
(* the columns whose value differs from the one that was loaded.           *)
(*                                                                         *)
(* A day is a number, an amount a number of kopeks, a name the employee it *)
(* was copied from.  Comments, work-order links and the "last touched by"  *)
(* columns are left out: no rule reads them.                               *)
(***************************************************************************)
EXTENDS AuditLog

CONSTANTS
    Users, Desks, Departments, Employees,
    DeskDepartment,   \* the department of each desk (Workshop.department_id)
    Profile,          \* what get_access reads of each user and of the user's role
    Entries,          \* pool of entry ids
    Forms,            \* the CashEntryWrite bodies a page may send
    Threads,          \* request slots
    LastDay, MaxJournal,
    SettingsWhileBusy, \* may PUT /settings commit while a cash request is in flight
    CardsOverlap,     \* may requests about a personal card overlap on one entry
    None

CashIn == "cash_in"
CardIn == "card_in"
CashOut == "cash_out"
KINDS == {CashIn, CardIn, CashOut}

Days == 1..LastDay
Holders == Employees \cup {None}
Profiles == [all: BOOLEAN, correct: BOOLEAN, workshop: Desks \cup {None},
             department: Departments \cup {None}, employee: Holders]
FormType == [desk: Desks, date: Days, kind: KINDS, amount: Nat,
             personal: BOOLEAN, holder: Holders]
Rows == [desk: Desks, date: Days, kind: KINDS, amount: Nat \ {0},
         personal: BOOLEAN, holder: Holders, name: Holders]

ASSUME LastDayAssumption == LastDay \in Nat \ {0}
ASSUME BoundAssumption == MaxJournal \in Nat
ASSUME SwitchAssumption == SettingsWhileBusy \in BOOLEAN /\ CardsOverlap \in BOOLEAN
ASSUME ProfileAssumption == Profile \in [Users -> Profiles]
ASSUME DeskAssumption == DeskDepartment \in [Desks -> Departments]
ASSUME FormAssumption == Forms \subseteq FormType

(* Both dates or neither, "to" not before "from" (AppSettingsUpdate).      *)
Periods == {p \in [from: Days, to: Days] : p.from <= p.to}

VARIABLES
    entries,    \* the rows of cash_entries by id; None: no such row
    lock,       \* the locked period of app_settings, or None
    journal,    \* for each entry its schedule_audit_log rows, oldest first
    employees,  \* the employees of the directory
    today,      \* the Moscow calendar day
    req         \* the request each thread is serving, or None

vars == <<entries, lock, journal, employees, today, req>>

Ops == {"create", "update", "delete"}
Steps == {"start", "old_day", "new_day", "holder", "commit"}
Requests == [op: Ops, user: Users, entry: Entries, form: Forms \cup {None},
             step: Steps, loaded: Rows \cup {None}, target: Rows \cup {None}]

ASSUME NoneAssumption == /\ None \notin Employees /\ None \notin Desks
                         /\ None \notin FormType /\ None \notin Rows
                         /\ None \notin Periods /\ None \notin Requests

(* The whole body of a journal row: the new value of every changed column. *)
View(row) == [kind |-> row.kind, date |-> row.date, amount |-> row.amount,
              card |-> IF row.personal THEN row.name ELSE None]

-----------------------------------------------------------------------------
(* Access *)

(* Every desk for a role with all_departments, else the user's workshop,   *)
(* else the desks of the user's department.                                *)
AccessDesks(u) ==
    IF Profile[u].all THEN Desks
    ELSE IF Profile[u].workshop # None THEN {Profile[u].workshop}
    ELSE {d \in Desks : DeskDepartment[d] = Profile[u].department}

(* Mutant of MayEdit: one of the days may be another than today.           *)
MayEditOneDay(u, days) == Profile[u].correct \/ \E d \in days : d = today

(* _ensure_may_edit.                                                       *)
MayEdit(u, days) == Profile[u].correct \/ \A d \in days : d = today

Locked(d) == lock # None /\ lock.from <= d /\ d <= lock.to

OwnEmployee(u) == IF Profile[u].employee \in employees THEN Profile[u].employee ELSE None

-----------------------------------------------------------------------------
(* Requests *)

InFlight(t) == req[t] # None
Quiet == \A t \in Threads : ~InFlight(t)
At(t, step) == InFlight(t) /\ req[t].step = step

(* The answer is sent, with or without an error; the session is closed.    *)
Finish(t) == req' = [req EXCEPT ![t] = None]
Advance(t, step) == req' = [req EXCEPT ![t].step = step]

Removes(r) == r.op = "delete" \/ (r.op = "update" /\ r.form.amount = 0)

(* The environment assumption CardsOverlap = FALSE stands for: requests on *)
(* one entry overlap only while neither they nor the entry are about a     *)
(* personal card.                                                          *)
HasCard(x) == IF x = None THEN FALSE ELSE x.personal
MayJoin(e, f) ==
    CardsOverlap \/ \A t \in Threads :
        InFlight(t) /\ req[t].entry = e =>
            ~HasCard(entries[e]) /\ ~HasCard(f) /\ ~HasCard(req[t].form)

Receive(t, op, u, e, f) ==
    /\ ~InFlight(t)
    /\ Len(journal[e]) < MaxJournal
    /\ MayJoin(e, f)
    /\ req' = [req EXCEPT ![t] = [op |-> op, user |-> u, entry |-> e, form |-> f,
                                  step |-> "start", loaded |-> None, target |-> None]]
    /\ UNCHANGED <<entries, lock, journal, employees, today>>

(* POST /entries: the id is a fresh uuid4.                                 *)
ReceiveCreate(t, u, e, f) ==
    /\ entries[e] = None /\ journal[e] = <<>>
    /\ \A s \in Threads : InFlight(s) => req[s].entry # e
    /\ Receive(t, "create", u, e, f)

(* PUT and DELETE name any id the page has seen, deleted since or not.     *)
ReceiveUpdate(t, u, e, f) == journal[e] # <<>> /\ Receive(t, "update", u, e, f)
ReceiveDelete(t, u, e) == journal[e] # <<>> /\ Receive(t, "delete", u, e, None)

(* Mutant of AuthorizeCreate: a zero amount is let through.                *)
AuthorizeAnyAmount(t) ==
    LET r == req[t] IN
    /\ At(t, "start") /\ r.op = "create"
    /\ IF r.form.desk \in AccessDesks(r.user) /\ MayEdit(r.user, {r.form.date})
       THEN Advance(t, "new_day")
       ELSE Finish(t)
    /\ UNCHANGED <<entries, lock, journal, employees, today>>

(* create_entry up to its lock check.                                      *)
AuthorizeCreate(t) ==
    LET r == req[t] IN
    /\ At(t, "start") /\ r.op = "create"
    /\ IF /\ r.form.desk \in AccessDesks(r.user)
          /\ MayEdit(r.user, {r.form.date})
          /\ r.form.amount > 0
       THEN Advance(t, "new_day")
       ELSE Finish(t)
    /\ UNCHANGED <<entries, lock, journal, employees, today>>

(* The days of the entry and of the form, both under the correction rule.  *)
TouchedDays(r, row) == {row.date} \cup (IF r.form = None THEN {} ELSE {r.form.date})

(* _load and _ensure_may_edit.  The desk checked is the entry's own; the   *)
(* workshop_id of a PUT body is ignored.                                   *)
Load(t) ==
    LET r == req[t] IN
    /\ At(t, "start") /\ r.op # "create"
    /\ IF /\ entries[r.entry] # None
          /\ entries[r.entry].desk \in AccessDesks(r.user)
          /\ MayEdit(r.user, TouchedDays(r, entries[r.entry]))
       THEN req' = [req EXCEPT ![t].step = "old_day", ![t].loaded = entries[r.entry]]
       ELSE Finish(t)
    /\ UNCHANGED <<entries, lock, journal, employees, today>>

AfterNewDay(r) == IF Removes(r) THEN "commit" ELSE "holder"

CheckOldDay(t) ==
    LET r == req[t] IN
    /\ At(t, "old_day")
    /\ IF Locked(r.loaded.date) THEN Finish(t)
       ELSE Advance(t, IF r.op = "delete" THEN "commit" ELSE "new_day")
    /\ UNCHANGED <<entries, lock, journal, employees, today>>

(* Mutant of CheckNewDay: only the day an entry leaves is checked.         *)
SkipNewDay(t) ==
    /\ At(t, "new_day")
    /\ Advance(t, AfterNewDay(req[t]))
    /\ UNCHANGED <<entries, lock, journal, employees, today>>

CheckNewDay(t) ==
    LET r == req[t] IN
    /\ At(t, "new_day")
    /\ IF Locked(r.form.date) THEN Finish(t) ELSE Advance(t, AfterNewDay(r))
    /\ UNCHANGED <<entries, lock, journal, employees, today>>

-----------------------------------------------------------------------------
(* Personal cards *)

(* The holder the entry already has, if it is a personal-card entry.       *)
ExistingHolder(r) ==
    IF r.loaded # None /\ r.loaded.personal THEN r.loaded.holder ELSE None

ChosenHolder(r) ==
    IF r.form.holder # None THEN r.form.holder
    ELSE IF ExistingHolder(r) # None THEN ExistingHolder(r)
    ELSE OwnEmployee(r.user)

(* Any kind but "card in"; another holder than one's own on a first pick,  *)
(* or than the present one, needs the correction right.                    *)
HolderAllowed(r) ==
    LET holder == ChosenHolder(r) IN
    /\ r.form.kind # CardIn
    /\ holder # None
    /\ \/ holder = ExistingHolder(r)
       \/ ExistingHolder(r) = None /\ holder = OwnEmployee(r.user)
       \/ Profile[r.user].correct
    /\ holder \in employees

(* Mutant of NewRow: turning the card off keeps its holder.                *)
NewRowKeepsHolder(r) ==
    [desk |-> IF r.loaded = None THEN r.form.desk ELSE r.loaded.desk,
     date |-> r.form.date, kind |-> r.form.kind, amount |-> r.form.amount,
     personal |-> r.form.personal, holder |-> ChosenHolder(r), name |-> ChosenHolder(r)]

NewRow(r) ==
    LET holder == IF r.form.personal THEN ChosenHolder(r) ELSE None IN
    [desk |-> IF r.loaded = None THEN r.form.desk ELSE r.loaded.desk,
     date |-> r.form.date, kind |-> r.form.kind, amount |-> r.form.amount,
     personal |-> r.form.personal, holder |-> holder, name |-> holder]

ResolveHolder(t) ==
    LET r == req[t] IN
    /\ At(t, "holder")
    /\ IF r.form.personal => HolderAllowed(r)
       THEN req' = [req EXCEPT ![t].step = "commit", ![t].target = NewRow(r)]
       ELSE Finish(t)
    /\ UNCHANGED <<entries, lock, journal, employees, today>>

-----------------------------------------------------------------------------
(* Commits *)

(* What the UPDATE statement leaves in the row: the columns set to another *)
(* value than the loaded one, over the row as it is now.                   *)
Merge(loaded, target, row) ==
    [c \in DOMAIN row |-> IF target[c] # loaded[c] THEN target[c] ELSE row[c]]

(* The changed fields of a journal row, each with its new value.           *)
Changes(before, after) ==
    [f \in {g \in DOMAIN after : before[g] # after[g]} |-> after[f]]

Record(e, action, changes) ==
    journal' = [journal EXCEPT ![e] = Append(@, [action |-> action, changes |-> changes])]

(* cash_entries.card_holder_id references employees.                       *)
HolderExists(holder) == holder = None \/ holder \in employees

CommitCreate(t) ==
    LET r == req[t] IN
    /\ At(t, "commit") /\ r.op = "create"
    /\ IF HolderExists(r.target.holder)
       THEN /\ entries' = [entries EXCEPT ![r.entry] = r.target]
            /\ Record(r.entry, "create", View(r.target))
       ELSE UNCHANGED <<entries, journal>>
    /\ Finish(t)
    /\ UNCHANGED <<lock, employees, today>>

(* Mutant of CommitUpdate: the UPDATE writes the whole row it computed.    *)
CommitWholeRow(t) ==
    LET r == req[t] IN
    /\ At(t, "commit") /\ r.op = "update" /\ ~Removes(r)
    /\ entries[r.entry] # None
    /\ HolderExists(r.target.holder)
    /\ entries' = [entries EXCEPT ![r.entry] = r.target]
    /\ IF View(r.target) = View(r.loaded) THEN UNCHANGED journal
       ELSE Record(r.entry, "update", Changes(View(r.loaded), View(r.target)))
    /\ Finish(t)
    /\ UNCHANGED <<lock, employees, today>>

(* An UPDATE that finds no row, or names a holder who is gone by now,      *)
(* raises and rolls back; without a changed column no UPDATE is sent.      *)
CommitUpdate(t) ==
    LET r == req[t] IN
    /\ At(t, "commit") /\ r.op = "update" /\ ~Removes(r)
    /\ IF /\ r.target # r.loaded
          /\ entries[r.entry] # None
          /\ r.target.holder = r.loaded.holder \/ HolderExists(r.target.holder)
       THEN /\ entries' = [entries EXCEPT ![r.entry] = Merge(r.loaded, r.target, @)]
            /\ IF View(r.target) = View(r.loaded) THEN UNCHANGED journal
               ELSE Record(r.entry, "update", Changes(View(r.loaded), View(r.target)))
       ELSE UNCHANGED <<entries, journal>>
    /\ Finish(t)
    /\ UNCHANGED <<lock, employees, today>>

(* A DELETE that finds no row only warns, and its journal row stays.       *)
CommitDelete(t) ==
    LET r == req[t] IN
    /\ At(t, "commit") /\ Removes(r)
    /\ entries' = [entries EXCEPT ![r.entry] = None]
    /\ Record(r.entry, "delete", View(r.loaded))
    /\ Finish(t)
    /\ UNCHANGED <<lock, employees, today>>

(* The database or the process fails before the commit: nothing is kept.   *)
Fail(t) ==
    /\ InFlight(t)
    /\ Finish(t)
    /\ UNCHANGED <<entries, lock, journal, employees, today>>

-----------------------------------------------------------------------------
(* What happens around the requests *)

SaveLock(period) ==
    /\ SettingsWhileBusy \/ Quiet
    /\ lock' = period
    /\ UNCHANGED <<entries, journal, employees, today, req>>

ClearHolder(row, p) ==
    IF row # None /\ row.holder = p THEN [row EXCEPT !.holder = None] ELSE row

(* DELETE of an employee: card_holder_id is ON DELETE SET NULL, the copied *)
(* name stays; so is users.employee_id (OwnEmployee).                      *)
DeleteEmployee(p) ==
    /\ p \in employees
    /\ employees' = employees \ {p}
    /\ entries' = [e \in Entries |-> ClearHolder(entries[e], p)]
    /\ UNCHANGED <<lock, journal, today, req>>

Midnight ==
    /\ today < LastDay
    /\ today' = today + 1
    /\ UNCHANGED <<entries, lock, journal, employees, req>>

-----------------------------------------------------------------------------
Init ==
    /\ entries = [e \in Entries |-> None]
    /\ lock = None
    /\ journal = [e \in Entries |-> <<>>]
    /\ employees = Employees
    /\ today = 1
    /\ req = [t \in Threads |-> None]

Next ==
    \/ \E t \in Threads, u \in Users, e \in Entries, f \in Forms :
          ReceiveCreate(t, u, e, f) \/ ReceiveUpdate(t, u, e, f)
    \/ \E t \in Threads, u \in Users, e \in Entries : ReceiveDelete(t, u, e)
    \/ \E t \in Threads :
          \/ AuthorizeCreate(t) \/ Load(t)
          \/ CheckOldDay(t) \/ CheckNewDay(t) \/ ResolveHolder(t)
          \/ CommitCreate(t) \/ CommitUpdate(t) \/ CommitDelete(t)
          \/ Fail(t)
    \/ \E period \in Periods \cup {None} : SaveLock(period)
    \/ \E p \in Employees : DeleteEmployee(p)
    \/ Midnight

Spec == Init /\ [][Next]_vars

-----------------------------------------------------------------------------
(* Properties *)

(* Type invariant.                                                         *)
TypeOK ==
    /\ entries \in [Entries -> Rows \cup {None}]
    /\ lock \in Periods \cup {None}
    /\ DOMAIN journal = Entries
    /\ employees \subseteq Employees
    /\ today \in Days
    /\ req \in [Threads -> Requests \cup {None}]

DaysOf(row) == IF row = None THEN {} ELSE {row.date}

(* The LOCK rule of cash_service: no commit of a request creates, changes, *)
(* deletes, or moves into or out of the locked period an entry.  (Deleting *)
(* an employee clears card_holder_id wherever it stands.)                  *)
LockedDaysFrozen ==
    [][\A e \in Entries :
          entries'[e] # entries[e] /\ employees' = employees =>
              \A d \in DaysOf(entries[e]) \cup DaysOf(entries'[e]) : ~Locked(d)]_vars

(* The ACCESS and CORRECTION rules, at the commit and not only at the      *)
(* check: whoever's request changes an entry may see the desk the entry is *)
(* on, and without the correction right never takes an entry of one day to *)
(* another or makes one for a day still to come.                           *)
ChangesAuthorized ==
    [][\A t \in Threads, e \in Entries :
          entries'[e] # entries[e] /\ InFlight(t) /\ req'[t] = None =>
              /\ \A row \in {entries[e], entries'[e]} \ {None} :
                    row.desk \in AccessDesks(req[t].user)
              /\ \/ Profile[req[t].user].correct
                 \/ entries'[e] = None
                 \/ entries[e] = None /\ entries'[e].date <= today
                 \/ entries[e] # None /\ entries'[e].date = entries[e].date]_vars

(* An entry with a personal card is cash and has the name of its holder;   *)
(* an entry without one has neither holder nor name.                       *)
CardRow(row) ==
    IF row.personal
    THEN row.kind # CardIn /\ row.name # None /\ row.holder \in {row.name, None}
    ELSE row.holder = None /\ row.name = None

(* So it is of every entry, and a holder is an employee: when one is       *)
(* deleted, the entry keeps the name.                                      *)
CardConsistent ==
    \A e \in Entries : entries[e] # None =>
        CardRow(entries[e]) /\ entries[e].holder \in employees \cup {None}

(* models/cash_entry.py: a personal card is never set on a card payment.   *)
CardInNeverPersonal ==
    \A e \in Entries : entries[e] # None => ~(entries[e].personal /\ entries[e].kind = CardIn)

(* The AUDIT rule: the journal of an entry tells what became of it,        *)
(* whichever requests raced for it.  There is an entry just when the last  *)
(* row is no deletion, and each column of it has the value of the last row *)
(* that tells of that column: none is missing, and none tells of a change  *)
(* that was rolled back.                                                   *)
Columns == {"kind", "date", "amount", "card"}
JournalReplays ==
    \A e \in Entries :
        /\ entries[e] # None <=> Standing(journal[e])
        /\ entries[e] # None =>
              \A column \in Columns : LastTold(journal[e], column, View(entries[e])[column])

-----------------------------------------------------------------------------
(* The inductive invariant of CashBookProofs, in its parts *)

(* What a request has found out by the step it has come to.                *)
RequestOK(r) ==
    /\ r.op = "delete" <=> r.form = None
    /\ r.op = "create" => r.loaded = None /\ r.step # "old_day"
    /\ r.op = "create" /\ r.step # "start" => r.form.amount > 0
    /\ r.op # "create" /\ r.step # "start" => r.loaded # None
    /\ r.op = "delete" => r.step \notin {"new_day", "holder"}
    /\ r.step = "holder" => ~Removes(r)
    /\ r.step = "commit" /\ ~Removes(r) =>
          /\ r.target # None
          /\ r.target.date = r.form.date
          /\ r.op = "create" => r.target.desk = r.form.desk
          /\ r.op = "update" => r.target.desk = r.loaded.desk

RequestsOK == \A t \in Threads : InFlight(t) => RequestOK(req[t])

(* The id of an entry being created is known to its own request only.      *)
FreshIds ==
    \A t \in Threads : InFlight(t) /\ req[t].op = "create" =>
        /\ entries[req[t].entry] = None /\ journal[req[t].entry] = <<>>
        /\ \A s \in Threads \ {t} : InFlight(s) => req[s].entry # req[t].entry

(* The days a request has checked stay unlocked while it is in flight, and *)
(* where another request takes its entry meanwhile is unlocked too.        *)
DaysChecked(r) ==
    /\ r.op # "delete" /\ r.step \in {"holder", "commit"} => ~Locked(r.form.date)
    /\ r.loaded # None /\ r.step # "old_day" => ~Locked(r.loaded.date)
    /\ r.loaded # None /\ entries[r.entry] # None /\ ~Locked(r.loaded.date) =>
          ~Locked(entries[r.entry].date)
CheckedDaysUnlocked == \A t \in Threads : InFlight(t) => DaysChecked(req[t])

(* What the access and correction checks of a request granted still holds. *)
Granted(r) ==
    /\ r.op = "create" => /\ r.form.desk \in AccessDesks(r.user)
                          /\ Profile[r.user].correct \/ r.form.date <= today
    /\ r.op # "create" => /\ r.loaded.desk \in AccessDesks(r.user)
                          /\ entries[r.entry] # None => entries[r.entry].desk = r.loaded.desk
    /\ r.op = "update" => Profile[r.user].correct \/ r.form.date = r.loaded.date
GrantsHold == \A t \in Threads : InFlight(t) /\ req[t].step # "start" => Granted(req[t])

(* What a request about a personal card has loaded is its entry still, but *)
(* for a holder who was deleted since; and what it is to write is sound.   *)
CardRequest(r) ==
    /\ r.loaded # None => CardRow(r.loaded)
    /\ r.loaded # None /\ (HasCard(r.loaded) \/ HasCard(r.form) \/ HasCard(entries[r.entry])) =>
          \E h \in {r.loaded.holder, None} : entries[r.entry] = [r.loaded EXCEPT !.holder = h]
    /\ r.step = "commit" /\ ~Removes(r) =>
          CardRow(r.target) /\ r.target.personal = r.form.personal

(* Requests that share an entry have nothing to do with a card, and found  *)
(* none on it.                                                             *)
CardsAlone ==
    \A s, t \in Threads : s # t /\ InFlight(s) /\ InFlight(t) /\ req[s].entry = req[t].entry =>
        ~HasCard(entries[req[t].entry]) /\ ~HasCard(req[t].form) /\ ~HasCard(req[t].loaded)
CardsHeld == CardsAlone /\ \A t \in Threads : InFlight(t) => CardRequest(req[t])
=============================================================================
