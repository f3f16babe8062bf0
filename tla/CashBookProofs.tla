--------------------------- MODULE CashBookProofs ---------------------------
(***************************************************************************)
(* Proofs about CashBook for any number of users, desks, entries, request  *)
(* threads and days: the type invariant, the LOCK rule where settings are  *)
(* saved between requests, the ACCESS and CORRECTION rules, and the CARD   *)
(* and AUDIT rules where requests about a card do not overlap.  Then about *)
(* CashBookView: the balances of periods, cards and the export.            *)
(***************************************************************************)
EXTENDS CashBookView, DataProofs

Inv == TypeOK /\ RequestsOK

USE DEF InFlight, At, Finish, Advance

-----------------------------------------------------------------------------
(* Lemmas about the operators *)

LEMMA ChosenHolderType ==
    ASSUME NEW r \in Requests, r.form # None
    PROVE  ChosenHolder(r) \in Holders
  <1>1. r.form \in FormType
    BY FormAssumption DEF Requests
  <1>2. ExistingHolder(r) \in Holders
    BY NoneAssumption DEF ExistingHolder, Requests, Rows, Holders
  <1>3. OwnEmployee(r.user) \in Holders
    BY ProfileAssumption DEF OwnEmployee, Requests, Holders, Profiles
  <1> QED
    BY <1>1, <1>2, <1>3 DEF ChosenHolder, FormType

LEMMA NewRowType ==
    ASSUME NEW r \in Requests, r.form # None, r.form.amount # 0
    PROVE  /\ NewRow(r) \in Rows
           /\ NewRow(r).date = r.form.date
           /\ NewRow(r).desk = IF r.loaded = None THEN r.form.desk ELSE r.loaded.desk
  <1>1. r.form \in FormType
    BY FormAssumption DEF Requests
  <1>2. ChosenHolder(r) \in Holders
    BY ChosenHolderType
  <1>3. (IF r.form.personal THEN ChosenHolder(r) ELSE None) \in Holders
    BY <1>2 DEF Holders
  <1>4. (IF r.loaded = None THEN r.form.desk ELSE r.loaded.desk) \in Desks
    BY <1>1 DEF Requests, Rows, FormType
  <1> QED
    BY <1>1, <1>3, <1>4 DEF NewRow, Rows, FormType

(* Every column of a merged row is the target's or the present row's, and  *)
(* the present row's where the target does not differ from the loaded one. *)
LEMMA MergeRow ==
    ASSUME NEW loaded \in Rows, NEW target \in Rows, NEW row \in Rows
    PROVE  /\ Merge(loaded, target, row) \in Rows
           /\ Merge(loaded, target, row).date \in {target.date, row.date}
           /\ target.desk = loaded.desk => Merge(loaded, target, row).desk = row.desk
           /\ target.date = loaded.date => Merge(loaded, target, row).date = row.date
  <1> DEFINE m == Merge(loaded, target, row)
  <1>1. m = [desk |-> IF target.desk # loaded.desk THEN target.desk ELSE row.desk,
             date |-> IF target.date # loaded.date THEN target.date ELSE row.date,
             kind |-> IF target.kind # loaded.kind THEN target.kind ELSE row.kind,
             amount |-> IF target.amount # loaded.amount THEN target.amount ELSE row.amount,
             personal |-> IF target.personal # loaded.personal THEN target.personal ELSE row.personal,
             holder |-> IF target.holder # loaded.holder THEN target.holder ELSE row.holder,
             name |-> IF target.name # loaded.name THEN target.name ELSE row.name]
    BY DEF Merge, Rows
  <1> QED
    BY <1>1 DEF Rows

LEMMA ClearHolderRow ==
    ASSUME NEW row \in Rows \cup {None}, NEW p \in Employees
    PROVE  /\ ClearHolder(row, p) \in Rows \cup {None}
           /\ ClearHolder(row, p) = None <=> row = None
           /\ row # None => /\ ClearHolder(row, p).date = row.date
                            /\ ClearHolder(row, p).desk = row.desk
  <1>1. row \in Rows => [row EXCEPT !.holder = None] \in Rows
    BY DEF Rows, Holders
  <1> QED
    BY <1>1, NoneAssumption DEF ClearHolder, Rows

-----------------------------------------------------------------------------
(* Type correctness *)

LEMMA RequestType ==
    ASSUME TypeOK, RequestsOK, NEW t \in Threads, InFlight(t)
    PROVE  /\ req[t] \in Requests
           /\ RequestOK(req[t])
           /\ req[t].op # "delete" => req[t].form \in FormType
  <1>1. req[t] \in Requests /\ RequestOK(req[t])
    BY DEF TypeOK, RequestsOK
  <1> QED
    BY <1>1, FormAssumption DEF Requests, RequestOK

(* A step of thread t that leaves the shared state alone and either ends   *)
(* its request or puts it in a state r that is consistent.                 *)
LEMMA RequestStep ==
    ASSUME Inv, NEW t \in Threads, UNCHANGED <<entries, lock, journal, employees, today>>,
           NEW r \in Requests \cup {None}, r # None => RequestOK(r),
           req' = [req EXCEPT ![t] = r]
    PROVE  Inv'
  BY DEF Inv, TypeOK, RequestsOK, Days

LEMMA InvInit == Init => Inv
  BY LastDayAssumption, NoneAssumption DEF Init, Inv, TypeOK, RequestsOK, Days

LEMMA InvNext == Inv /\ [Next]_vars => Inv'
  <1> SUFFICES ASSUME Inv, [Next]_vars PROVE Inv'
    OBVIOUS
  <1> USE DEF Inv
  <1>1. ASSUME NEW t \in Threads, NEW u \in Users, NEW e \in Entries, NEW f \in Forms \cup {None},
               NEW op \in Ops, op = "delete" <=> f = None, Receive(t, op, u, e, f)
        PROVE  Inv'
    <2> DEFINE r == [op |-> op, user |-> u, entry |-> e, form |-> f,
                     step |-> "start", loaded |-> None, target |-> None]
    <2>1. r \in Requests
      BY <1>1 DEF Requests, Steps
    <2>2. RequestOK(r)
      BY <1>1 DEF RequestOK
    <2> QED
      BY <1>1, <2>1, <2>2, RequestStep DEF Receive
  <1>2. ASSUME NEW t \in Threads, AuthorizeCreate(t) PROVE Inv'
    <2> DEFINE r == [req[t] EXCEPT !.step = "new_day"]
    <2>1. req[t] \in Requests /\ RequestOK(req[t])
      BY <1>2, RequestType DEF AuthorizeCreate
    <2>2. r \in Requests
      BY <2>1 DEF Requests, Steps
    <2>3. req[t].form.amount > 0 => RequestOK(r)
      BY <1>2, <2>1 DEF Requests, RequestOK, AuthorizeCreate, Removes
    <2>4. req' = [req EXCEPT ![t] = None] \/ (req[t].form.amount > 0 /\ req' = [req EXCEPT ![t] = r])
      BY <1>2 DEF AuthorizeCreate, TypeOK
    <2> QED
      BY <1>2, <2>2, <2>3, <2>4, RequestStep DEF AuthorizeCreate
  <1>3. ASSUME NEW t \in Threads, Load(t) PROVE Inv'
    <2> DEFINE r == [req[t] EXCEPT !.step = "old_day", !.loaded = entries[req[t].entry]]
    <2>1. req[t] \in Requests /\ RequestOK(req[t])
      BY <1>3, RequestType DEF Load
    <2>2. r \in Requests
      BY <2>1 DEF Requests, Steps, TypeOK
    <2>3. entries[req[t].entry] # None => RequestOK(r)
      BY <1>3, <2>1 DEF Requests, RequestOK, Load, Removes
    <2>4. \/ req' = [req EXCEPT ![t] = None]
          \/ entries[req[t].entry] # None /\ req' = [req EXCEPT ![t] = r]
      BY <1>3 DEF Load, TypeOK
    <2> QED
      BY <1>3, <2>2, <2>3, <2>4, RequestStep DEF Load
  <1>4. ASSUME NEW t \in Threads, CheckOldDay(t) PROVE Inv'
    <2> DEFINE next == IF req[t].op = "delete" THEN "commit" ELSE "new_day"
               r == [req[t] EXCEPT !.step = next]
    <2>1. req[t] \in Requests /\ RequestOK(req[t])
      BY <1>4, RequestType DEF CheckOldDay
    <2>2. r \in Requests
      BY <2>1 DEF Requests, Steps
    <2>3. RequestOK(r)
      BY <1>4, <2>1 DEF Requests, RequestOK, CheckOldDay, Removes
    <2>4. req' = [req EXCEPT ![t] = None] \/ req' = [req EXCEPT ![t] = r]
      BY <1>4 DEF CheckOldDay, TypeOK
    <2> QED
      BY <1>4, <2>2, <2>3, <2>4, RequestStep DEF CheckOldDay
  <1>5. ASSUME NEW t \in Threads, CheckNewDay(t) PROVE Inv'
    <2> DEFINE r == [req[t] EXCEPT !.step = AfterNewDay(req[t])]
    <2>1. req[t] \in Requests /\ RequestOK(req[t])
      BY <1>5, RequestType DEF CheckNewDay
    <2>2. r \in Requests
      BY <2>1 DEF Requests, Steps, AfterNewDay
    <2>3. RequestOK(r)
      BY <1>5, <2>1 DEF Requests, RequestOK, CheckNewDay, Removes, AfterNewDay
    <2>4. req' = [req EXCEPT ![t] = None] \/ req' = [req EXCEPT ![t] = r]
      BY <1>5 DEF CheckNewDay, TypeOK
    <2> QED
      BY <1>5, <2>2, <2>3, <2>4, RequestStep DEF CheckNewDay
  <1>6. ASSUME NEW t \in Threads, ResolveHolder(t) PROVE Inv'
    <2> DEFINE r == [req[t] EXCEPT !.step = "commit", !.target = NewRow(req[t])]
    <2>1. req[t] \in Requests /\ RequestOK(req[t])
      BY <1>6, RequestType DEF ResolveHolder
    <2>2. /\ NewRow(req[t]) \in Rows
          /\ NewRow(req[t]).date = req[t].form.date
          /\ NewRow(req[t]).desk = IF req[t].loaded = None THEN req[t].form.desk ELSE req[t].loaded.desk
      <3>1. req[t].form # None /\ req[t].form.amount # 0
        BY <1>6, <2>1, RequestType DEF ResolveHolder, Requests, RequestOK, Removes, Ops
      <3> QED
        BY <2>1, <3>1, NewRowType
    <2>3. r \in Requests
      BY <2>1, <2>2 DEF Requests, Steps
    <2>4. RequestOK(r)
      BY <1>6, <2>1, <2>2, NoneAssumption DEF Requests, RequestOK, ResolveHolder, Removes
    <2>5. req' = [req EXCEPT ![t] = None] \/ req' = [req EXCEPT ![t] = r]
      BY <1>6 DEF ResolveHolder, TypeOK
    <2> QED
      BY <1>6, <2>3, <2>4, <2>5, RequestStep DEF ResolveHolder
  <1>7. ASSUME NEW t \in Threads, CommitCreate(t) PROVE Inv'
    <2>1. req[t].target \in Rows /\ req[t].entry \in Entries
      BY <1>7, RequestType DEF CommitCreate, Requests, RequestOK, Removes
    <2>2. entries' \in [Entries -> Rows \cup {None}] /\ DOMAIN journal' = Entries
      BY <1>7, <2>1 DEF CommitCreate, TypeOK, Record
    <2> QED
      BY <1>7, <2>2 DEF CommitCreate, TypeOK, RequestsOK, Days
  <1>8. ASSUME NEW t \in Threads, CommitUpdate(t) PROVE Inv'
    <2>1. /\ req[t].target \in Rows /\ req[t].loaded \in Rows /\ req[t].entry \in Entries
      BY <1>8, RequestType DEF CommitUpdate, Requests, RequestOK
    <2>2. entries[req[t].entry] # None =>
            Merge(req[t].loaded, req[t].target, entries[req[t].entry]) \in Rows
      BY <2>1, MergeRow DEF TypeOK
    <2>3. entries' \in [Entries -> Rows \cup {None}] /\ DOMAIN journal' = Entries
      BY <1>8, <2>1, <2>2 DEF CommitUpdate, TypeOK, Record
    <2> QED
      BY <1>8, <2>3 DEF CommitUpdate, TypeOK, RequestsOK, Days
  <1>9. ASSUME NEW t \in Threads, CommitDelete(t) PROVE Inv'
    BY <1>9 DEF CommitDelete, TypeOK, Record, RequestsOK, Days
  <1>10. ASSUME NEW t \in Threads, Fail(t) PROVE Inv'
    BY <1>10, RequestStep DEF Fail
  <1>11. ASSUME NEW period \in Periods \cup {None}, SaveLock(period) PROVE Inv'
    BY <1>11 DEF SaveLock, TypeOK, RequestsOK, Days
  <1>12. ASSUME NEW p \in Employees, DeleteEmployee(p) PROVE Inv'
    <2>1. entries' \in [Entries -> Rows \cup {None}]
      BY <1>12, ClearHolderRow DEF DeleteEmployee, TypeOK
    <2> QED
      BY <1>12, <2>1 DEF DeleteEmployee, TypeOK, RequestsOK, Days
  <1>13. CASE Midnight
    BY <1>13, LastDayAssumption DEF Midnight, TypeOK, RequestsOK, Days
  <1>14. CASE UNCHANGED vars
    BY <1>14 DEF vars, TypeOK, RequestsOK, Days
  <1>15. ASSUME NEW t \in Threads, NEW u \in Users, NEW e \in Entries, NEW f \in Forms,
                ReceiveCreate(t, u, e, f) \/ ReceiveUpdate(t, u, e, f)
         PROVE  Inv'
    <2>1. f # None
      BY FormAssumption, NoneAssumption
    <2> QED
      BY <1>1, <1>15, <2>1 DEF ReceiveCreate, ReceiveUpdate, Ops
  <1>16. ASSUME NEW t \in Threads, NEW u \in Users, NEW e \in Entries, ReceiveDelete(t, u, e)
         PROVE  Inv'
    BY <1>1, <1>16 DEF ReceiveDelete, Ops
  <1> QED
    BY <1>2, <1>3, <1>4, <1>5, <1>6, <1>7, <1>8, <1>9, <1>10, <1>11, <1>12, <1>13, <1>14,
       <1>15, <1>16 DEF Next

(* Every variable keeps its type.                                          *)
THEOREM TypeCorrect == Spec => []TypeOK
  <1>1. Inv => TypeOK
    BY DEF Inv
  <1> QED
    BY <1>1, InvInit, InvNext, PTL DEF Spec

-----------------------------------------------------------------------------
(* Fresh ids *)

(* The steps before a commit, and Fail: shared state is left alone, and    *)
(* the request of t ends or keeps its operation, user, entry and form.     *)
SameRequest(t) ==
    /\ UNCHANGED <<entries, lock, journal, employees, today>>
    /\ \A s \in Threads \ {t} : req'[s] = req[s]
    /\ req'[t] # None => /\ req'[t].op = req[t].op /\ req'[t].user = req[t].user
                         /\ req'[t].entry = req[t].entry /\ req'[t].form = req[t].form

EarlyStep(t) == \/ AuthorizeCreate(t) \/ Load(t) \/ CheckOldDay(t) \/ CheckNewDay(t)
                \/ ResolveHolder(t) \/ Fail(t)

LEMMA EarlySteps ==
    ASSUME Inv, NEW t \in Threads, EarlyStep(t)
    PROVE  InFlight(t) /\ SameRequest(t)
  <1>1. InFlight(t) /\ req[t] \in Requests
    BY DEF Inv, TypeOK, EarlyStep, AuthorizeCreate, Load, CheckOldDay, CheckNewDay, ResolveHolder, Fail
  <1>2. CASE AuthorizeCreate(t)
    BY <1>1, <1>2 DEF AuthorizeCreate, SameRequest, Inv, TypeOK, Requests
  <1>3. CASE Load(t)
    BY <1>1, <1>3 DEF Load, SameRequest, Inv, TypeOK, Requests
  <1>4. CASE CheckOldDay(t)
    BY <1>1, <1>4 DEF CheckOldDay, SameRequest, Inv, TypeOK, Requests
  <1>5. CASE CheckNewDay(t)
    BY <1>1, <1>5 DEF CheckNewDay, SameRequest, Inv, TypeOK, Requests
  <1>6. CASE ResolveHolder(t)
    BY <1>1, <1>6 DEF ResolveHolder, SameRequest, Inv, TypeOK, Requests
  <1>7. CASE Fail(t)
    BY <1>1, <1>7 DEF Fail, SameRequest, Inv, TypeOK
  <1> QED
    BY <1>2, <1>3, <1>4, <1>5, <1>6, <1>7 DEF EarlyStep

LEMMA ReceiveStep ==
    ASSUME Inv, NEW t \in Threads, NEW u \in Users, NEW e \in Entries, NEW f \in Forms \cup {None},
           NEW op \in Ops, Receive(t, op, u, e, f)
    PROVE  /\ req'[t] # None /\ req'[t].op = op /\ req'[t].user = u /\ req'[t].entry = e
           /\ req'[t].form = f /\ req'[t].step = "start" /\ req'[t].loaded = None
           /\ \A s \in Threads \ {t} : req'[s] = req[s]
           /\ UNCHANGED <<entries, lock, journal, employees, today>>
  <1> DEFINE r == [op |-> op, user |-> u, entry |-> e, form |-> f,
                   step |-> "start", loaded |-> None, target |-> None]
  <1>1. r \in Requests
    BY DEF Requests, Steps
  <1>2. r # None
    BY <1>1, NoneAssumption
  <1> QED
    BY <1>2 DEF Receive, Inv, TypeOK

(* A commit of t ends its request and touches its own entry at most.       *)
CommitStep(t) == CommitCreate(t) \/ CommitUpdate(t) \/ CommitDelete(t)

LEMMA CommitSteps ==
    ASSUME Inv, NEW t \in Threads, CommitStep(t)
    PROVE  /\ InFlight(t) /\ req[t].step = "commit"
           /\ req' = [req EXCEPT ![t] = None]
           /\ \A e \in Entries \ {req[t].entry} : entries'[e] = entries[e] /\ journal'[e] = journal[e]
           /\ UNCHANGED <<lock, employees, today>>
  BY DEF CommitStep, CommitCreate, CommitUpdate, CommitDelete, Inv, TypeOK, Record

LEMMA FreshInit == Init => FreshIds
  BY DEF Init, FreshIds

LEMMA FreshNext == Inv /\ FreshIds /\ [Next]_vars => FreshIds'
  <1> SUFFICES ASSUME Inv, FreshIds, [Next]_vars PROVE FreshIds'
    OBVIOUS
  <1>1. ASSUME NEW t \in Threads, NEW u \in Users, NEW e \in Entries, NEW f \in Forms \cup {None},
               NEW op \in Ops, Receive(t, op, u, e, f),
               IF op = "create"
               THEN /\ entries[e] = None /\ journal[e] = <<>>
                    /\ \A s \in Threads : InFlight(s) => req[s].entry # e
               ELSE journal[e] # <<>>
        PROVE  FreshIds'
    <2>1. /\ req'[t] # None /\ req'[t].entry = e /\ req'[t].op = op
          /\ \A s \in Threads \ {t} : req'[s] = req[s]
          /\ entries' = entries /\ journal' = journal
      BY <1>1, ReceiveStep
    <2> QED
      BY <1>1, <2>1 DEF FreshIds
  <1>2. ASSUME NEW t \in Threads, EarlyStep(t) PROVE FreshIds'
    <2>1. InFlight(t) /\ SameRequest(t)
      BY <1>2, EarlySteps
    <2> QED
      BY <2>1 DEF FreshIds, SameRequest
  <1>3. ASSUME NEW t \in Threads, CommitStep(t) PROVE FreshIds'
    <2>1. /\ InFlight(t)
          /\ req' = [req EXCEPT ![t] = None]
          /\ \A e \in Entries \ {req[t].entry} : entries'[e] = entries[e] /\ journal'[e] = journal[e]
      BY <1>3, CommitSteps
    <2>2. \A s \in Threads : InFlight(s) => req[s].entry \in Entries
      BY DEF Inv, TypeOK, Requests
    <2>3. /\ req'[t] = None
          /\ \A s \in Threads \ {t} : req'[s] = req[s]
      BY <2>1 DEF Inv, TypeOK
    <2> QED
      BY <2>1, <2>2, <2>3 DEF FreshIds
  <1>4. ASSUME NEW period \in Periods \cup {None}, SaveLock(period) PROVE FreshIds'
    BY <1>4 DEF SaveLock, FreshIds
  <1>5. ASSUME NEW p \in Employees, DeleteEmployee(p) PROVE FreshIds'
    <2>1. \A e \in Entries : entries[e] = None => entries'[e] = None
      BY <1>5, ClearHolderRow DEF DeleteEmployee, Inv, TypeOK
    <2>2. \A t \in Threads : InFlight(t) => req[t].entry \in Entries
      BY DEF Inv, TypeOK, Requests
    <2> QED
      BY <1>5, <2>1, <2>2 DEF DeleteEmployee, FreshIds
  <1>6. CASE Midnight
    BY <1>6 DEF Midnight, FreshIds
  <1>7. CASE UNCHANGED vars
    BY <1>7 DEF vars, FreshIds
  <1>8. ASSUME NEW t \in Threads, NEW u \in Users, NEW e \in Entries, NEW f \in Forms,
               ReceiveCreate(t, u, e, f) \/ ReceiveUpdate(t, u, e, f)
        PROVE  FreshIds'
    BY <1>1, <1>8 DEF ReceiveCreate, ReceiveUpdate, Ops
  <1>9. ASSUME NEW t \in Threads, NEW u \in Users, NEW e \in Entries, ReceiveDelete(t, u, e)
        PROVE  FreshIds'
    BY <1>1, <1>9 DEF ReceiveDelete, Ops
  <1> QED
    BY <1>2, <1>3, <1>4, <1>5, <1>6, <1>7, <1>8, <1>9 DEF Next, EarlyStep, CommitStep

-----------------------------------------------------------------------------
(* The LOCK rule *)

LEMMA DateOfEntry ==
    ASSUME Inv, NEW t \in Threads, InFlight(t)
    PROVE  /\ req[t].entry \in Entries
           /\ entries[req[t].entry] \in Rows \cup {None}
           /\ req[t].loaded \in Rows \cup {None}
  BY DEF Inv, TypeOK, Requests

(* What a commit writes lies on days that were found, and are, unlocked.   *)
LEMMA CommitDays ==
    ASSUME Inv, FreshIds, CheckedDaysUnlocked, NEW t \in Threads, CommitStep(t),
           entries'[req[t].entry] # entries[req[t].entry]
    PROVE  \A d \in DaysOf(entries[req[t].entry]) \cup DaysOf(entries'[req[t].entry]) : ~Locked(d)
  <1> DEFINE r == req[t]
             old == entries[r.entry]
             new == entries'[r.entry]
  <1>1. /\ InFlight(t) /\ r.step = "commit" /\ r \in Requests /\ RequestOK(r)
        /\ r.entry \in Entries /\ old \in Rows \cup {None}
    BY CommitSteps, RequestType, DateOfEntry DEF Inv
  <1>2. CASE CommitCreate(t)
    <2>1. old = None /\ new = r.target /\ r.target.date = r.form.date
      BY <1>1, <1>2 DEF CommitCreate, FreshIds, RequestOK, Removes, Inv, TypeOK
    <2>2. ~Locked(r.form.date)
      BY <1>1, <1>2 DEF CommitCreate, CheckedDaysUnlocked, DaysChecked
    <2> QED
      BY <2>1, <2>2 DEF DaysOf
  <1>3. ASSUME r.op # "create", old # None PROVE ~Locked(old.date)
    BY <1>1, <1>3 DEF CheckedDaysUnlocked, DaysChecked, RequestOK
  <1>4. CASE CommitUpdate(t)
    <2>1. old # None /\ new = Merge(r.loaded, r.target, old)
      BY <1>1, <1>4 DEF CommitUpdate, Inv, TypeOK
    <2>2. r.loaded \in Rows /\ r.target \in Rows /\ r.target.date = r.form.date
      BY <1>1, <1>4 DEF CommitUpdate, RequestOK, Requests
    <2>3. ~Locked(r.form.date)
      BY <1>1, <1>4 DEF CommitUpdate, CheckedDaysUnlocked, DaysChecked
    <2>4. new # None /\ new.date \in {r.form.date, old.date}
      BY <1>1, <2>1, <2>2, MergeRow, NoneAssumption
    <2>5. ~Locked(old.date)
      BY <1>3, <1>4, <2>1 DEF CommitUpdate
    <2> QED
      BY <2>1, <2>3, <2>4, <2>5 DEF DaysOf
  <1>5. CASE CommitDelete(t)
    <2>1. new = None /\ r.op # "create"
      BY <1>1, <1>5 DEF CommitDelete, Removes, Inv, TypeOK
    <2> QED
      BY <1>3, <2>1 DEF DaysOf
  <1> QED
    BY <1>2, <1>4, <1>5 DEF CommitStep

LEMMA LockInit == Init => CheckedDaysUnlocked
  BY DEF Init, CheckedDaysUnlocked

LEMMA LockNext ==
    ASSUME ~SettingsWhileBusy
    PROVE  Inv /\ FreshIds /\ CheckedDaysUnlocked /\ [Next]_vars => CheckedDaysUnlocked'
  <1> SUFFICES ASSUME Inv, FreshIds, CheckedDaysUnlocked, [Next]_vars
               PROVE  CheckedDaysUnlocked'
    OBVIOUS
  <1>1. ASSUME NEW t \in Threads, NEW u \in Users, NEW e \in Entries, NEW f \in Forms \cup {None},
               NEW op \in Ops, Receive(t, op, u, e, f)
        PROVE  CheckedDaysUnlocked'
    BY <1>1, ReceiveStep DEF CheckedDaysUnlocked, DaysChecked, Locked
  <1>2. ASSUME NEW t \in Threads, EarlyStep(t) PROVE CheckedDaysUnlocked'
    <2>1. InFlight(t) /\ SameRequest(t) /\ req[t] \in Requests /\ RequestOK(req[t]) /\ DaysChecked(req[t])
      BY <1>2, EarlySteps, RequestType DEF Inv, CheckedDaysUnlocked
    <2>2. ASSUME req'[t] # None PROVE DaysChecked(req'[t])
      <3>1. CASE AuthorizeCreate(t)
        BY <2>1, <2>2, <3>1 DEF AuthorizeCreate, DaysChecked, RequestOK, Requests, Inv, TypeOK
      <3>2. CASE Load(t)
        BY <2>1, <2>2, <3>2 DEF Load, DaysChecked, Requests, Inv, TypeOK
      <3>3. CASE CheckOldDay(t)
        BY <2>1, <2>2, <3>3 DEF CheckOldDay, DaysChecked, RequestOK, Requests, Inv, TypeOK
      <3>4. CASE CheckNewDay(t)
        BY <2>1, <2>2, <3>4 DEF CheckNewDay, AfterNewDay, DaysChecked, RequestOK, Requests, Inv, TypeOK
      <3>5. CASE ResolveHolder(t)
        BY <2>1, <2>2, <3>5 DEF ResolveHolder, DaysChecked, RequestOK, Requests, Inv, TypeOK
      <3>6. CASE Fail(t)
        BY <2>2, <3>6 DEF Fail, Inv, TypeOK
      <3> QED
        BY <1>2, <3>1, <3>2, <3>3, <3>4, <3>5, <3>6 DEF EarlyStep
    <2> QED
      BY <2>1, <2>2 DEF SameRequest, CheckedDaysUnlocked, DaysChecked, Locked
  <1>3. ASSUME NEW t \in Threads, CommitStep(t) PROVE CheckedDaysUnlocked'
    <2> DEFINE e == req[t].entry
    <2>1. /\ InFlight(t) /\ req'[t] = None /\ lock' = lock
          /\ \A s \in Threads \ {t} : req'[s] = req[s]
          /\ \A i \in Entries \ {e} : entries'[i] = entries[i]
      BY <1>3, CommitSteps DEF Inv, TypeOK
    <2>2. entries'[e] # entries[e] =>
            \A d \in DaysOf(entries[e]) \cup DaysOf(entries'[e]) : ~Locked(d)
      BY <1>3, CommitDays
    <2>3. ASSUME NEW s \in Threads \ {t}, InFlight(s) PROVE DaysChecked(req[s])'
      <3>1. req[s].entry \in Entries /\ DaysChecked(req[s])
        BY <2>3, DateOfEntry DEF CheckedDaysUnlocked
      <3>2. entries'[req[s].entry] # None /\ ~Locked(req[s].loaded.date) /\ req[s].loaded # None =>
              ~Locked(entries'[req[s].entry].date)
        <4>1. CASE req[s].entry = e /\ entries'[e] # entries[e]
          BY <2>2, <4>1 DEF DaysOf
        <4>2. CASE ~(req[s].entry = e /\ entries'[e] # entries[e])
          BY <2>1, <3>1, <4>2 DEF DaysChecked
        <4> QED
          BY <4>1, <4>2
      <3> QED
        BY <2>1, <3>1, <3>2 DEF DaysChecked, Locked
    <2> QED
      BY <2>1, <2>3 DEF CheckedDaysUnlocked
  <1>4. ASSUME NEW period \in Periods \cup {None}, SaveLock(period) PROVE CheckedDaysUnlocked'
    BY <1>4 DEF SaveLock, Quiet, CheckedDaysUnlocked
  <1>5. ASSUME NEW p \in Employees, DeleteEmployee(p) PROVE CheckedDaysUnlocked'
    <2>1. \A e \in Entries : entries'[e] # None => entries[e] # None /\ entries'[e].date = entries[e].date
      BY <1>5, ClearHolderRow DEF DeleteEmployee, Inv, TypeOK
    <2>2. \A t \in Threads : InFlight(t) => req[t].entry \in Entries
      BY DateOfEntry
    <2>3. lock' = lock /\ req' = req
      BY <1>5 DEF DeleteEmployee
    <2> QED
      BY <2>1, <2>2, <2>3 DEF CheckedDaysUnlocked, DaysChecked, Locked
  <1>6. CASE Midnight
    BY <1>6 DEF Midnight, CheckedDaysUnlocked, DaysChecked, Locked
  <1>7. CASE UNCHANGED vars
    BY <1>7 DEF vars, CheckedDaysUnlocked, DaysChecked, Locked
  <1>8. ASSUME NEW t \in Threads, NEW u \in Users, NEW e \in Entries, NEW f \in Forms,
               ReceiveCreate(t, u, e, f) \/ ReceiveUpdate(t, u, e, f)
        PROVE  CheckedDaysUnlocked'
    BY <1>1, <1>8 DEF ReceiveCreate, ReceiveUpdate, Ops
  <1>9. ASSUME NEW t \in Threads, NEW u \in Users, NEW e \in Entries, ReceiveDelete(t, u, e)
        PROVE  CheckedDaysUnlocked'
    BY <1>1, <1>9 DEF ReceiveDelete, Ops
  <1> QED
    BY <1>2, <1>3, <1>4, <1>5, <1>6, <1>7, <1>8, <1>9 DEF Next, EarlyStep, CommitStep

(* Each step of the system, for one entry.                                 *)
LEMMA FrozenStep ==
    Inv /\ FreshIds /\ CheckedDaysUnlocked /\ [Next]_vars =>
        [\A e \in Entries :
            entries'[e] # entries[e] /\ employees' = employees =>
                \A d \in DaysOf(entries[e]) \cup DaysOf(entries'[e]) : ~Locked(d)]_vars
  <1> SUFFICES ASSUME Inv, FreshIds, CheckedDaysUnlocked, Next, NEW e \in Entries,
                      entries'[e] # entries[e], employees' = employees
               PROVE  \A d \in DaysOf(entries[e]) \cup DaysOf(entries'[e]) : ~Locked(d)
    OBVIOUS
  <1>1. ASSUME NEW t \in Threads, CommitStep(t)
        PROVE  \A d \in DaysOf(entries[e]) \cup DaysOf(entries'[e]) : ~Locked(d)
    BY <1>1, CommitSteps, CommitDays
  <1>2. ASSUME NEW t \in Threads, EarlyStep(t) PROVE FALSE
    BY <1>2, EarlySteps DEF SameRequest
  <1>3. ASSUME NEW p \in Employees, DeleteEmployee(p) PROVE FALSE
    BY <1>3 DEF DeleteEmployee
  <1> QED
    BY <1>1, <1>2, <1>3 DEF Next, EarlyStep, CommitStep, ReceiveCreate, ReceiveUpdate,
       ReceiveDelete, Receive, SaveLock, Midnight

(* Where settings are saved only between requests, no request changes the  *)
(* entries of a locked day, whatever other requests it races with.         *)
THEOREM LockHolds == ASSUME ~SettingsWhileBusy PROVE Spec => LockedDaysFrozen
  <1>1. Init => Inv /\ FreshIds /\ CheckedDaysUnlocked
    BY InvInit, FreshInit, LockInit
  <1>2. Inv /\ FreshIds /\ CheckedDaysUnlocked /\ [Next]_vars =>
            (Inv /\ FreshIds /\ CheckedDaysUnlocked)'
    BY InvNext, FreshNext, LockNext
  <1> QED
    BY <1>1, <1>2, FrozenStep, PTL DEF Spec, LockedDaysFrozen

-----------------------------------------------------------------------------
(* The ACCESS and CORRECTION rules *)

(* A commit leaves its entry on its desk; without the correction right it  *)
(* leaves an entry that stays on its day.                                  *)
LEMMA CommitGranted ==
    ASSUME Inv, FreshIds, GrantsHold, NEW t \in Threads, CommitStep(t)
    PROVE  LET r == req[t]
               old == entries[r.entry]
               new == entries'[r.entry]
           IN  /\ old # None => old.desk \in AccessDesks(r.user)
               /\ new # None => new.desk \in AccessDesks(r.user)
               /\ old # None /\ new # None => new.desk = old.desk
               /\ \/ Profile[r.user].correct
                  \/ new = None
                  \/ old = None /\ new.date <= today
                  \/ old # None /\ new.date = old.date
  <1> DEFINE r == req[t]
             old == entries[r.entry]
             new == entries'[r.entry]
  <1>1. /\ InFlight(t) /\ r.step = "commit" /\ r \in Requests /\ RequestOK(r) /\ Granted(r)
        /\ r.entry \in Entries /\ old \in Rows \cup {None}
    BY CommitSteps, RequestType, DateOfEntry DEF Inv, GrantsHold
  <1>2. CASE CommitCreate(t)
    <2>1. old = None /\ (new = None \/ new = r.target)
      BY <1>1, <1>2 DEF CommitCreate, FreshIds, Inv, TypeOK
    <2>2. r.target.date = r.form.date /\ r.target.desk = r.form.desk
      BY <1>1, <1>2 DEF CommitCreate, RequestOK, Removes
    <2> QED
      BY <1>1, <1>2, <2>1, <2>2 DEF CommitCreate, Granted
  <1>3. CASE CommitUpdate(t)
    <2>1. new = old \/ (old # None /\ new = Merge(r.loaded, r.target, old))
      BY <1>1, <1>3 DEF CommitUpdate, Inv, TypeOK
    <2>2. /\ r.op = "update" /\ r.loaded \in Rows /\ r.target \in Rows
          /\ r.target.date = r.form.date /\ r.target.desk = r.loaded.desk
      BY <1>1, <1>3 DEF CommitUpdate, RequestOK, Requests
    <2>3. CASE new = old
      BY <1>1, <2>2, <2>3 DEF Granted
    <2>4. CASE old # None /\ new = Merge(r.loaded, r.target, old)
      <3>1. new.desk = old.desk /\ (r.target.date = r.loaded.date => new.date = old.date)
        BY <1>1, <2>2, <2>4, MergeRow
      <3> QED
        BY <1>1, <2>2, <2>4, <3>1 DEF Granted
    <2> QED
      BY <2>1, <2>3, <2>4
  <1>4. CASE CommitDelete(t)
    <2>1. new = None /\ r.op # "create"
      BY <1>1, <1>4 DEF CommitDelete, Removes, Inv, TypeOK
    <2> QED
      BY <1>1, <2>1 DEF Granted
  <1> QED
    BY <1>2, <1>3, <1>4 DEF CommitStep

LEMMA GrantsInit == Init => GrantsHold
  BY DEF Init, GrantsHold

LEMMA GrantsNext == Inv /\ FreshIds /\ GrantsHold /\ [Next]_vars => GrantsHold'
  <1> SUFFICES ASSUME Inv, FreshIds, GrantsHold, [Next]_vars PROVE GrantsHold'
    OBVIOUS
  <1>1. ASSUME NEW t \in Threads, NEW u \in Users, NEW e \in Entries, NEW f \in Forms \cup {None},
               NEW op \in Ops, Receive(t, op, u, e, f)
        PROVE  GrantsHold'
    BY <1>1, ReceiveStep DEF GrantsHold, Granted
  <1>2. ASSUME NEW t \in Threads, EarlyStep(t) PROVE GrantsHold'
    <2>1. /\ InFlight(t) /\ SameRequest(t) /\ req[t] \in Requests /\ RequestOK(req[t])
          /\ req[t].step # "start" => Granted(req[t])
      BY <1>2, EarlySteps, RequestType DEF Inv, GrantsHold
    <2>2. ASSUME req'[t] # None PROVE Granted(req'[t])
      <3>1. CASE AuthorizeCreate(t)
        <4>1. /\ req'[t] = [req[t] EXCEPT !.step = "new_day"] /\ req[t].op = "create"
              /\ req[t].form.desk \in AccessDesks(req[t].user)
              /\ MayEdit(req[t].user, {req[t].form.date})
          BY <2>2, <3>1 DEF AuthorizeCreate, Inv, TypeOK
        <4>2. Profile[req[t].user].correct \/ req[t].form.date <= today
          BY <4>1 DEF MayEdit, Inv, TypeOK, Days
        <4> QED
          BY <2>1, <4>1, <4>2 DEF Granted, Requests
      <3>2. CASE Load(t)
        <4>1. /\ req'[t] = [req[t] EXCEPT !.step = "old_day", !.loaded = entries[req[t].entry]]
              /\ req[t].op # "create" /\ entries[req[t].entry].desk \in AccessDesks(req[t].user)
              /\ MayEdit(req[t].user, TouchedDays(req[t], entries[req[t].entry]))
          BY <2>2, <3>2 DEF Load, Inv, TypeOK
        <4>2. req[t].op = "update" =>
                Profile[req[t].user].correct \/ req[t].form.date = entries[req[t].entry].date
          BY <2>1, <4>1 DEF MayEdit, TouchedDays, RequestOK
        <4> QED
          BY <2>1, <4>1, <4>2 DEF Granted, Requests
      <3>3. CASE CheckOldDay(t)
        BY <2>1, <2>2, <3>3 DEF CheckOldDay, Granted, Requests, Inv, TypeOK
      <3>4. CASE CheckNewDay(t)
        BY <2>1, <2>2, <3>4 DEF CheckNewDay, Granted, Requests, Inv, TypeOK
      <3>5. CASE ResolveHolder(t)
        BY <2>1, <2>2, <3>5 DEF ResolveHolder, Granted, Requests, Inv, TypeOK
      <3>6. CASE Fail(t)
        BY <2>2, <3>6 DEF Fail, Inv, TypeOK
      <3> QED
        BY <1>2, <3>1, <3>2, <3>3, <3>4, <3>5, <3>6 DEF EarlyStep
    <2> QED
      BY <2>1, <2>2 DEF SameRequest, GrantsHold, Granted
  <1>3. ASSUME NEW t \in Threads, CommitStep(t) PROVE GrantsHold'
    <2> DEFINE e == req[t].entry
    <2>1. /\ InFlight(t) /\ req'[t] = None /\ today' = today
          /\ \A s \in Threads \ {t} : req'[s] = req[s]
          /\ \A i \in Entries \ {e} : entries'[i] = entries[i]
      BY <1>3, CommitSteps DEF Inv, TypeOK
    <2>2. entries[e] # None /\ entries'[e] # None => entries'[e].desk = entries[e].desk
      BY <1>3, CommitGranted
    <2>3. ASSUME NEW s \in Threads \ {t}, InFlight(s), req[s].step # "start" PROVE Granted(req[s])'
      <3>1. req[s].entry \in Entries /\ Granted(req[s])
        BY <2>3, DateOfEntry DEF GrantsHold
      <3>2. req[s].op # "create" /\ entries'[req[s].entry] # None =>
              entries'[req[s].entry].desk = req[s].loaded.desk
        <4>1. CASE req[s].entry = e /\ entries[e] = None
          <5>1. CASE CommitCreate(t)
            BY <2>1, <2>3, <4>1, <5>1 DEF CommitCreate, FreshIds
          <5>2. CASE CommitUpdate(t)
            BY <4>1, <5>2 DEF CommitUpdate
          <5>3. CASE CommitDelete(t)
            BY <3>1, <4>1, <5>3 DEF CommitDelete, Inv, TypeOK
          <5> QED
            BY <1>3, <5>1, <5>2, <5>3 DEF CommitStep
        <4>2. CASE ~(req[s].entry = e /\ entries[e] = None)
          BY <2>1, <2>2, <3>1, <4>2 DEF Granted
        <4> QED
          BY <4>1, <4>2
      <3> QED
        BY <2>1, <3>1, <3>2 DEF Granted
    <2> QED
      BY <2>1, <2>3 DEF GrantsHold
  <1>4. ASSUME NEW period \in Periods \cup {None}, SaveLock(period) PROVE GrantsHold'
    BY <1>4 DEF SaveLock, GrantsHold, Granted
  <1>5. ASSUME NEW p \in Employees, DeleteEmployee(p) PROVE GrantsHold'
    <2>1. \A e \in Entries : entries'[e] # None => entries[e] # None /\ entries'[e].desk = entries[e].desk
      BY <1>5, ClearHolderRow DEF DeleteEmployee, Inv, TypeOK
    <2>2. \A t \in Threads : InFlight(t) => req[t].entry \in Entries
      BY DateOfEntry
    <2>3. today' = today /\ req' = req
      BY <1>5 DEF DeleteEmployee
    <2> QED
      BY <2>1, <2>2, <2>3 DEF GrantsHold, Granted
  <1>6. CASE Midnight
    <2>1. \A t \in Threads : InFlight(t) /\ req[t].op = "create" => req[t].form.date \in Nat
      BY RequestType DEF Inv, FormType, Days
    <2>2. today \in Nat /\ today' = today + 1
      BY <1>6, LastDayAssumption DEF Midnight, Inv, TypeOK, Days
    <2>3. \A d \in Nat : d <= today => d <= today'
      BY <2>2
    <2> QED
      BY <1>6, <2>1, <2>3 DEF Midnight, GrantsHold, Granted
  <1>7. CASE UNCHANGED vars
    BY <1>7 DEF vars, GrantsHold, Granted
  <1>8. ASSUME NEW t \in Threads, NEW u \in Users, NEW e \in Entries, NEW f \in Forms,
               ReceiveCreate(t, u, e, f) \/ ReceiveUpdate(t, u, e, f)
        PROVE  GrantsHold'
    BY <1>1, <1>8 DEF ReceiveCreate, ReceiveUpdate, Ops
  <1>9. ASSUME NEW t \in Threads, NEW u \in Users, NEW e \in Entries, ReceiveDelete(t, u, e)
        PROVE  GrantsHold'
    BY <1>1, <1>9 DEF ReceiveDelete, Ops
  <1> QED
    BY <1>2, <1>3, <1>4, <1>5, <1>6, <1>7, <1>8, <1>9 DEF Next, EarlyStep, CommitStep

LEMMA AuthorizedStep ==
    Inv /\ FreshIds /\ GrantsHold /\ [Next]_vars =>
        [\A t \in Threads, e \in Entries :
            entries'[e] # entries[e] /\ InFlight(t) /\ req'[t] = None =>
              /\ \A row \in {entries[e], entries'[e]} \ {None} :
                    row.desk \in AccessDesks(req[t].user)
              /\ \/ Profile[req[t].user].correct
                 \/ entries'[e] = None
                 \/ entries[e] = None /\ entries'[e].date <= today
                 \/ entries[e] # None /\ entries'[e].date = entries[e].date]_vars
  <1> SUFFICES ASSUME Inv, FreshIds, GrantsHold, Next, NEW t \in Threads, NEW e \in Entries,
                      entries'[e] # entries[e], req[t] # None, req'[t] = None
               PROVE  /\ \A row \in {entries[e], entries'[e]} \ {None} :
                            row.desk \in AccessDesks(req[t].user)
                      /\ \/ Profile[req[t].user].correct
                         \/ entries'[e] = None
                         \/ entries[e] = None /\ entries'[e].date <= today
                         \/ entries[e] # None /\ entries'[e].date = entries[e].date
    OBVIOUS
  <1>1. ASSUME NEW s \in Threads, CommitStep(s) PROVE s = t /\ e = req[t].entry
    BY <1>1, CommitSteps DEF Inv, TypeOK
  <1>2. ASSUME NEW s \in Threads, EarlyStep(s) PROVE FALSE
    BY <1>2, EarlySteps DEF SameRequest
  <1>3. ASSUME NEW p \in Employees, DeleteEmployee(p) PROVE FALSE
    BY <1>3 DEF DeleteEmployee
  <1>4. CommitStep(t) /\ e = req[t].entry
    BY <1>1, <1>2, <1>3 DEF Next, EarlyStep, CommitStep, ReceiveCreate, ReceiveUpdate,
       ReceiveDelete, Receive, SaveLock, Midnight
  <1> QED
    BY <1>4, CommitGranted

(* No request ever changes an entry of a desk its user may not see, or -   *)
(* without the correction right - takes an entry to another day, under any *)
(* interleaving of requests, settings, and midnight.                       *)
THEOREM AuthorizationHolds == Spec => ChangesAuthorized
  <1>1. Init => Inv /\ FreshIds /\ GrantsHold
    BY InvInit, FreshInit, GrantsInit
  <1>2. Inv /\ FreshIds /\ GrantsHold /\ [Next]_vars => (Inv /\ FreshIds /\ GrantsHold)'
    BY InvNext, FreshNext, GrantsNext
  <1> QED
    BY <1>1, <1>2, AuthorizedStep, PTL DEF Spec, ChangesAuthorized
-----------------------------------------------------------------------------
(* Personal cards *)

LEMMA CardsType ==
    ASSUME Inv, NEW t \in Threads, InFlight(t)
    PROVE  /\ req[t] \in Requests /\ RequestOK(req[t]) /\ req[t].entry \in Entries
           /\ entries[req[t].entry] \in Rows \cup {None}
           /\ req[t].loaded \in Rows \cup {None} /\ req[t].target \in Rows \cup {None}
           /\ req[t].form \in FormType \cup {None}
  BY RequestType, FormAssumption DEF Inv, TypeOK, Requests

(* The row a form makes has the name of its holder, or neither.            *)
LEMMA NewRowCard ==
    ASSUME NEW r \in Requests, r.form.personal => HolderAllowed(r)
    PROVE  CardRow(NewRow(r)) /\ NewRow(r).personal = r.form.personal
  BY DEF CardRow, NewRow, HolderAllowed

(* A row updated from what was loaded of it, its holder deleted since or   *)
(* not, is the row to be written, but for that holder.                     *)
LEMMA MergeAlone ==
    ASSUME NEW loaded \in Rows, NEW target \in Rows, NEW row \in Rows,
           NEW h \in {loaded.holder, None}, row = [loaded EXCEPT !.holder = h],
           NEW k, k = IF target.holder # loaded.holder THEN target.holder ELSE h
    PROVE  Merge(loaded, target, row) = [target EXCEPT !.holder = k]
  <1> DEFINE m == Merge(loaded, target, row)
  <1>1. m = [desk |-> IF target.desk # loaded.desk THEN target.desk ELSE row.desk,
             date |-> IF target.date # loaded.date THEN target.date ELSE row.date,
             kind |-> IF target.kind # loaded.kind THEN target.kind ELSE row.kind,
             amount |-> IF target.amount # loaded.amount THEN target.amount ELSE row.amount,
             personal |-> IF target.personal # loaded.personal THEN target.personal ELSE row.personal,
             holder |-> IF target.holder # loaded.holder THEN target.holder ELSE row.holder,
             name |-> IF target.name # loaded.name THEN target.name ELSE row.name]
    BY DEF Merge, Rows
  <1>2. [target EXCEPT !.holder = k] =
            [desk |-> target.desk, date |-> target.date, kind |-> target.kind,
             amount |-> target.amount, personal |-> target.personal, holder |-> k,
             name |-> target.name]
    BY DEF Rows
  <1>3. /\ row.desk = loaded.desk /\ row.date = loaded.date /\ row.kind = loaded.kind
        /\ row.amount = loaded.amount /\ row.personal = loaded.personal
        /\ row.holder = h /\ row.name = loaded.name
    BY DEF Rows
  <1>4. m = [desk |-> target.desk, date |-> target.date, kind |-> target.kind,
             amount |-> target.amount, personal |-> target.personal, holder |-> k,
             name |-> target.name]
    <2> HIDE DEF m
    <2>1. /\ target.desk = IF target.desk # loaded.desk THEN target.desk ELSE row.desk
          /\ target.date = IF target.date # loaded.date THEN target.date ELSE row.date
          /\ target.kind = IF target.kind # loaded.kind THEN target.kind ELSE row.kind
          /\ target.amount = IF target.amount # loaded.amount THEN target.amount ELSE row.amount
          /\ target.personal =
                IF target.personal # loaded.personal THEN target.personal ELSE row.personal
          /\ target.name = IF target.name # loaded.name THEN target.name ELSE row.name
          /\ k = IF target.holder # loaded.holder THEN target.holder ELSE row.holder
      BY <1>3
    <2> QED
      BY ONLY <1>1, <2>1
  <1> QED
    BY <1>2, <1>4

(* Where neither row has a card, the merged one has none.                  *)
LEMMA MergePlain ==
    ASSUME NEW loaded \in Rows, NEW target \in Rows, NEW row \in Rows,
           CardRow(loaded), CardRow(target), CardRow(row), 
           ~loaded.personal, ~target.personal, ~row.personal
    PROVE  LET m == Merge(loaded, target, row)
           IN  CardRow(m) /\ ~m.personal /\ m.holder = None
  BY DEF Merge, CardRow, Rows

(* The entry a commit leaves is sound, and plain where it is shared.       *)
LEMMA CommitCard ==
    ASSUME Inv, FreshIds, CardsHeld, CardConsistent, NEW t \in Threads, CommitStep(t)
    PROVE  LET e == req[t].entry IN
           /\ entries'[e] # None =>
                 CardRow(entries'[e]) /\ entries'[e].holder \in employees \cup {None}
           /\ \A s \in Threads \ {t} : InFlight(s) /\ req[s].entry = e => ~HasCard(entries'[e])
  <1> DEFINE r == req[t]
             e == r.entry
             old == entries[e]
             new == entries'[e]
             shared == \E s \in Threads \ {t} : InFlight(s) /\ req[s].entry = e
  <1>1. /\ InFlight(t) /\ r.step = "commit" /\ r \in Requests /\ RequestOK(r) /\ e \in Entries
        /\ old \in Rows \cup {None} /\ r.loaded \in Rows \cup {None}
        /\ r.target \in Rows \cup {None} /\ CardRequest(r)
    BY CommitSteps, CardsType DEF CardsHeld
  <1>2. shared => ~HasCard(old) /\ ~HasCard(r.form) /\ ~HasCard(r.loaded)
    BY <1>1 DEF CardsHeld, CardsAlone
  <1>3. CASE CommitCreate(t)
    <2>1. ~shared /\ old = None
      BY <1>1, <1>3 DEF CommitCreate, FreshIds
    <2>2. new = None \/ (new = r.target /\ HolderExists(r.target.holder) /\ CardRow(r.target))
      BY <1>1, <1>3, <2>1 DEF CommitCreate, Inv, TypeOK, CardRequest, Removes
    <2> QED
      BY <2>1, <2>2 DEF HolderExists
  <1>4. CASE CommitUpdate(t)
    <2>1. /\ r.op = "update" /\ r.loaded \in Rows /\ r.target \in Rows /\ r.loaded # None
          /\ CardRow(r.loaded) /\ CardRow(r.target) /\ r.target.personal = r.form.personal
          /\ r.form # None
      BY <1>1, <1>4, NoneAssumption DEF CommitUpdate, RequestOK, CardRequest, Requests
    <2>2. old # None => CardRow(old) /\ old.holder \in employees \cup {None}
      BY <1>1 DEF CardConsistent
    <2>3. \/ new = old
          \/ /\ old # None /\ new = Merge(r.loaded, r.target, old)
             /\ r.target.holder = r.loaded.holder \/ HolderExists(r.target.holder)
      BY <1>1, <1>4 DEF CommitUpdate, Inv, TypeOK
    <2>4. CASE new = old
      BY <1>2, <2>2, <2>4
    <2>5. CASE /\ old # None /\ new = Merge(r.loaded, r.target, old)
               /\ r.target.holder = r.loaded.holder \/ HolderExists(r.target.holder)
      <3>1. CASE HasCard(r.loaded) \/ HasCard(r.form) \/ HasCard(old)
        <4>1. PICK h \in {r.loaded.holder, None} : old = [r.loaded EXCEPT !.holder = h]
          BY <1>1, <2>1, <3>1 DEF CardRequest
        <4>2. h = old.holder
          BY <2>1, <4>1 DEF Rows
        <4> DEFINE k == IF r.target.holder # r.loaded.holder THEN r.target.holder ELSE h
        <4>3. new = [r.target EXCEPT !.holder = k]
          <5>1. old \in Rows
            BY <1>1, <2>5
          <5> QED
            BY <2>1, <2>5, <4>1, <5>1, MergeAlone
        <4>4. /\ new.holder = k /\ new.personal = r.target.personal /\ new.kind = r.target.kind
              /\ new.name = r.target.name
          BY <2>1, <4>3 DEF Rows
        <4>5. k \in {r.target.holder, None}
          OBVIOUS
        <4>6. CardRow(new)
          BY <2>1, <4>4, <4>5 DEF CardRow
        <4>7. k \in employees \cup {None}
          BY <2>2, <2>5, <4>2 DEF HolderExists
        <4> QED
          BY <1>2, <3>1, <4>4, <4>6, <4>7
      <3>2. CASE ~HasCard(r.loaded) /\ ~HasCard(r.form) /\ ~HasCard(old)
        <4>1. ~r.loaded.personal /\ ~r.target.personal /\ ~old.personal
          BY <2>1, <2>5, <3>2 DEF HasCard
        <4>2. old \in Rows
          BY <1>1, <2>5
        <4>3. CardRow(new) /\ ~new.personal /\ new.holder = None
          BY <2>1, <2>2, <2>5, <4>1, <4>2, MergePlain
        <4> QED
          BY <4>3 DEF HasCard
      <3> QED
        BY <3>1, <3>2
    <2> QED
      BY <2>3, <2>4, <2>5
  <1>5. CASE CommitDelete(t)
    <2>1. new = None
      BY <1>1, <1>5 DEF CommitDelete, Inv, TypeOK
    <2> QED
      BY <2>1 DEF HasCard
  <1> QED
    BY <1>3, <1>4, <1>5 DEF CommitStep

LEMMA CardStays ==
    ASSUME Inv, NEW t \in Threads, InFlight(t), CardRequest(req[t]), HasCard(req[t].loaded)
    PROVE  HasCard(entries[req[t].entry])
  <1>1. req[t].loaded \in Rows /\ req[t].loaded.personal
    BY CardsType DEF HasCard
  <1>2. PICK h \in {req[t].loaded.holder, None} :
            entries[req[t].entry] = [req[t].loaded EXCEPT !.holder = h]
    BY <1>1, NoneAssumption DEF CardRequest
  <1>3. entries[req[t].entry] \in Rows /\ entries[req[t].entry].personal
    BY <1>1, <1>2 DEF Rows, Holders
  <1> QED
    BY <1>3, NoneAssumption DEF HasCard

LEMMA CardsInit == Init => CardsHeld /\ CardConsistent
  BY DEF Init, CardsHeld, CardsAlone, CardConsistent

LEMMA CardsNext ==
    ASSUME ~CardsOverlap
    PROVE  Inv /\ FreshIds /\ CardsHeld /\ CardConsistent /\ [Next]_vars =>
               (CardsHeld /\ CardConsistent)'
  <1> SUFFICES ASSUME Inv, FreshIds, CardsHeld, CardConsistent, [Next]_vars
               PROVE  (CardsHeld /\ CardConsistent)'
    OBVIOUS
  <1>1. ASSUME NEW t \in Threads, NEW u \in Users, NEW e \in Entries, NEW f \in Forms \cup {None},
               NEW op \in Ops, Receive(t, op, u, e, f)
        PROVE  (CardsHeld /\ CardConsistent)'
    <2>1. /\ req'[t] # None /\ req'[t].entry = e /\ req'[t].form = f /\ req'[t].step = "start"
          /\ req'[t].loaded = None /\ \A s \in Threads \ {t} : req'[s] = req[s]
          /\ entries' = entries /\ employees' = employees
      BY <1>1, ReceiveStep
    <2>2. ASSUME NEW s \in Threads \ {t}, InFlight(s), req[s].entry = e
          PROVE  ~HasCard(entries[e]) /\ ~HasCard(f) /\ ~HasCard(req[s].form)
                 /\ ~HasCard(req[s].loaded)
      BY <1>1, <2>2, CardStays DEF Receive, MayJoin, CardsHeld
    <2>3. ~HasCard(None)
      BY DEF HasCard
    <2>4. CardsAlone'
      BY <2>1, <2>2, <2>3 DEF CardsHeld, CardsAlone, HasCard
    <2>5. CardRequest(req[t])'
      BY <2>1 DEF CardRequest
    <2>6. ASSUME NEW s \in Threads \ {t}, InFlight(s) PROVE CardRequest(req[s])'
      BY <2>1, <2>6 DEF CardsHeld, CardRequest, HasCard, Removes
    <2> QED
      BY <2>1, <2>4, <2>5, <2>6 DEF CardsHeld, CardConsistent
  <1>2. ASSUME NEW t \in Threads, EarlyStep(t) PROVE (CardsHeld /\ CardConsistent)'
    <2>1. /\ InFlight(t) /\ SameRequest(t) /\ CardRequest(req[t])
      BY <1>2, EarlySteps DEF CardsHeld
    <2>2. /\ req[t] \in Requests /\ RequestOK(req[t]) /\ req[t].entry \in Entries
          /\ entries[req[t].entry] \in Rows \cup {None}
      BY <2>1, CardsType
    <2>3. req'[t] # None =>
             req'[t].loaded = req[t].loaded \/ req'[t].loaded = entries[req[t].entry]
      BY <1>2, <2>2 DEF EarlyStep, AuthorizeCreate, Load, CheckOldDay, CheckNewDay,
         ResolveHolder, Fail, Inv, TypeOK, Requests
    <2>4. CardsAlone'
      BY <2>1, <2>3 DEF CardsHeld, CardsAlone, SameRequest, HasCard
    <2>5. ASSUME req'[t] # None PROVE CardRequest(req[t])'
      <3>1. CASE Load(t)
        <4>1. /\ req'[t] = [req[t] EXCEPT !.step = "old_day", !.loaded = entries[req[t].entry]]
              /\ entries' = entries /\ entries[req[t].entry] # None
          BY <2>5, <3>1 DEF Load, Inv, TypeOK
        <4>2. /\ req'[t].loaded = entries[req[t].entry] /\ req'[t].entry = req[t].entry
              /\ req'[t].step = "old_day"
          BY <2>2, <4>1 DEF Requests
        <4>3. CardRow(entries[req[t].entry])
          BY <2>2, <4>1 DEF CardConsistent
        <4>4. entries[req[t].entry] =
                  [entries[req[t].entry] EXCEPT !.holder = entries[req[t].entry].holder]
          BY <2>2, <4>1 DEF Rows
        <4> QED
          BY <4>1, <4>2, <4>3, <4>4 DEF CardRequest
      <3>2. CASE ResolveHolder(t)
        <4>1. /\ req'[t] = [req[t] EXCEPT !.step = "commit", !.target = NewRow(req[t])]
              /\ req[t].form.personal => HolderAllowed(req[t])
              /\ entries' = entries
          BY <2>5, <3>2 DEF ResolveHolder, Inv, TypeOK
        <4>2. /\ req'[t].target = NewRow(req[t]) /\ req'[t].entry = req[t].entry
              /\ req'[t].form = req[t].form /\ req'[t].loaded = req[t].loaded
          BY <2>2, <4>1 DEF Requests
        <4>3. CardRow(NewRow(req[t])) /\ NewRow(req[t]).personal = req[t].form.personal
          BY <2>2, <4>1, NewRowCard
        <4> QED
          BY <2>1, <4>1, <4>2, <4>3 DEF CardRequest, HasCard
      <3>3. CASE AuthorizeCreate(t) \/ CheckOldDay(t) \/ CheckNewDay(t)
        <4>1. /\ req'[t].entry = req[t].entry /\ req'[t].form = req[t].form
              /\ req'[t].loaded = req[t].loaded /\ req'[t].op = req[t].op
              /\ req'[t].step = "commit" => Removes(req[t])
              /\ entries' = entries
          BY <2>2, <2>5, <3>3 DEF AuthorizeCreate, CheckOldDay, CheckNewDay, AfterNewDay,
             Removes, Inv, TypeOK, Requests
        <4> QED
          BY <2>1, <4>1 DEF CardRequest, HasCard, Removes
      <3>4. CASE Fail(t)
        BY <2>5, <3>4 DEF Fail, Inv, TypeOK
      <3> QED
        BY <1>2, <3>1, <3>2, <3>3, <3>4 DEF EarlyStep
    <2>6. ASSUME NEW s \in Threads \ {t}, InFlight(s) PROVE CardRequest(req[s])'
      BY <2>1, <2>6 DEF CardsHeld, CardRequest, HasCard, Removes, SameRequest
    <2> QED
      BY <2>1, <2>4, <2>5, <2>6 DEF CardsHeld, CardConsistent, SameRequest
  <1>3. ASSUME NEW t \in Threads, CommitStep(t) PROVE (CardsHeld /\ CardConsistent)'
    <2> DEFINE e == req[t].entry
    <2>1. /\ InFlight(t) /\ req'[t] = None /\ employees' = employees
          /\ \A s \in Threads \ {t} : req'[s] = req[s]
          /\ \A i \in Entries \ {e} : entries'[i] = entries[i]
      BY <1>3, CommitSteps DEF Inv, TypeOK
    <2>2. /\ entries'[e] # None =>
                CardRow(entries'[e]) /\ entries'[e].holder \in employees \cup {None}
          /\ \A s \in Threads \ {t} : InFlight(s) /\ req[s].entry = e => ~HasCard(entries'[e])
      BY <1>3, CommitCard
    <2>3. CardConsistent'
      BY <2>1, <2>2 DEF CardConsistent
    <2>4. \A s \in Threads : InFlight(s) => req[s].entry \in Entries
      BY CardsType
    <2>5. CardsAlone'
      BY <2>1, <2>2, <2>4 DEF CardsHeld, CardsAlone, HasCard
    <2>6. ASSUME NEW s \in Threads \ {t}, InFlight(s) PROVE CardRequest(req[s])'
      <3>1. CardRequest(req[s]) /\ req'[s] = req[s]
        BY <2>1, <2>6 DEF CardsHeld
      <3>2. CASE req[s].entry = e
        <4>1. ~HasCard(req[s].loaded) /\ ~HasCard(req[s].form) /\ ~HasCard(entries'[e])
          BY <2>1, <2>2, <2>6, <3>2 DEF CardsHeld, CardsAlone
        <4> QED
          BY <3>1, <3>2, <4>1 DEF CardRequest, HasCard, Removes
      <3>3. CASE req[s].entry # e
        BY <2>1, <2>4, <2>6, <3>1, <3>3 DEF CardRequest, HasCard, Removes
      <3> QED
        BY <3>2, <3>3
    <2> QED
      BY <2>1, <2>3, <2>5, <2>6 DEF CardsHeld
  <1>4. ASSUME NEW p \in Employees, DeleteEmployee(p) PROVE (CardsHeld /\ CardConsistent)'
    <2>1. /\ employees' = employees \ {p} /\ req' = req
          /\ \A e \in Entries : entries'[e] = ClearHolder(entries[e], p)
      BY <1>4 DEF DeleteEmployee
    <2>2. ASSUME NEW e \in Entries
          PROVE  /\ HasCard(entries'[e]) <=> HasCard(entries[e])
                 /\ entries'[e] = None <=> entries[e] = None
                 /\ entries[e] # None =>
                       \E k \in {entries[e].holder, None} \ {p} :
                           /\ entries'[e] = [entries[e] EXCEPT !.holder = k]
                           /\ entries'[e].holder = k
      <3>1. CASE entries[e] = None
        BY <2>1, <3>1 DEF ClearHolder, HasCard
      <3>2. CASE entries[e] # None /\ entries[e].holder = p
        <4>1. entries[e] \in Rows /\ None # p
          BY <3>2, NoneAssumption DEF Inv, TypeOK
        <4>2. entries'[e] = [entries[e] EXCEPT !.holder = None]
          BY <2>1, <3>2 DEF ClearHolder
        <4>3. entries'[e] \in Rows /\ entries'[e].personal = entries[e].personal
              /\ entries'[e].holder = None
          BY <4>1, <4>2 DEF Rows, Holders
        <4> QED
          BY <3>2, <4>1, <4>2, <4>3, NoneAssumption DEF HasCard
      <3>3. CASE entries[e] # None /\ entries[e].holder # p
        <4>1. entries'[e] = entries[e]
          BY <2>1, <3>3 DEF ClearHolder
        <4>2. entries[e] = [entries[e] EXCEPT !.holder = entries[e].holder]
          BY <3>3 DEF Inv, TypeOK, Rows
        <4> QED
          BY <3>3, <4>1, <4>2
      <3> QED
        BY <3>1, <3>2, <3>3
    <2>3. CardConsistent'
      <3> SUFFICES ASSUME NEW e \in Entries, entries'[e] # None
                   PROVE  CardRow(entries'[e]) /\ entries'[e].holder \in employees' \cup {None}
        BY DEF CardConsistent
      <3>1. /\ entries[e] \in Rows /\ CardRow(entries[e])
            /\ entries[e].holder \in employees \cup {None}
        BY <2>2 DEF CardConsistent, Inv, TypeOK
      <3>2. PICK k \in {entries[e].holder, None} \ {p} :
                entries'[e] = [entries[e] EXCEPT !.holder = k]
        BY <2>2
      <3>3. /\ entries'[e].holder = k /\ entries'[e].personal = entries[e].personal
            /\ entries'[e].kind = entries[e].kind /\ entries'[e].name = entries[e].name
        BY <3>1, <3>2 DEF Rows
      <3> QED
        BY <2>1, <3>1, <3>3 DEF CardRow
    <2>4. CardsAlone'
      BY <2>1, <2>2, CardsType DEF CardsHeld, CardsAlone, HasCard
    <2>5. ASSUME NEW t \in Threads, InFlight(t) PROVE CardRequest(req[t])'
      <3> DEFINE r == req[t]
      <3>1. CardRequest(r) /\ r.entry \in Entries /\ r.loaded \in Rows \cup {None}
        BY <2>5, CardsType DEF CardsHeld
      <3>2. ASSUME r.loaded # None,
                   HasCard(r.loaded) \/ HasCard(r.form) \/ HasCard(entries'[r.entry])
            PROVE  \E h \in {r.loaded.holder, None} :
                       entries'[r.entry] = [r.loaded EXCEPT !.holder = h]
        <4>1. PICK h \in {r.loaded.holder, None} :
                  entries[r.entry] = [r.loaded EXCEPT !.holder = h]
          BY <2>2, <3>1, <3>2 DEF CardRequest
        <4>2. /\ r.loaded \in Rows /\ entries[r.entry] \in Rows /\ entries[r.entry].holder = h
          BY <3>1, <3>2, <4>1 DEF Rows, Holders
        <4>3. PICK k \in {h, None} : entries'[r.entry] = [entries[r.entry] EXCEPT !.holder = k]
          BY <2>2, <3>1, <4>2, NoneAssumption
        <4>4. entries'[r.entry] = [r.loaded EXCEPT !.holder = k]
          BY <4>1, <4>2, <4>3 DEF Rows
        <4> QED
          BY <4>4
      <3> QED
        BY <2>1, <3>1, <3>2 DEF CardRequest, HasCard, Removes
    <2> QED
      BY <2>1, <2>3, <2>4, <2>5 DEF CardsHeld
  <1>5. CASE \/ \E period \in Periods \cup {None} : SaveLock(period)
             \/ Midnight
             \/ UNCHANGED vars
    BY <1>5 DEF SaveLock, Midnight, vars, CardsHeld, CardsAlone, CardRequest, CardConsistent,
       HasCard, Removes
  <1>6. ASSUME NEW t \in Threads, NEW u \in Users, NEW e \in Entries, NEW f \in Forms,
               ReceiveCreate(t, u, e, f) \/ ReceiveUpdate(t, u, e, f)
        PROVE  (CardsHeld /\ CardConsistent)'
    BY <1>1, <1>6 DEF ReceiveCreate, ReceiveUpdate, Ops
  <1>7. ASSUME NEW t \in Threads, NEW u \in Users, NEW e \in Entries, ReceiveDelete(t, u, e)
        PROVE  (CardsHeld /\ CardConsistent)'
    BY <1>1, <1>7 DEF ReceiveDelete, Ops
  <1> QED
    BY <1>2, <1>3, <1>4, <1>5, <1>6, <1>7 DEF Next, EarlyStep, CommitStep

(* Where requests about a personal card do not overlap on one entry, every *)
(* entry agrees with itself about its card, and with the directory, under  *)
(* any interleaving of the others and of the deletion of employees.        *)
THEOREM CardsHold == ASSUME ~CardsOverlap PROVE Spec => []CardConsistent
  <1>1. Init => Inv /\ FreshIds /\ CardsHeld /\ CardConsistent
    BY InvInit, FreshInit, CardsInit
  <1>2. Inv /\ FreshIds /\ CardsHeld /\ CardConsistent /\ [Next]_vars =>
            (Inv /\ FreshIds /\ CardsHeld /\ CardConsistent)'
    BY InvNext, FreshNext, CardsNext
  <1> QED
    BY <1>1, <1>2, PTL DEF Spec

-----------------------------------------------------------------------------
(* The AUDIT rule *)

JournalRows == [action: {"create", "update", "delete"},
                changes: UNION {[told -> KINDS \cup Nat \cup Holders] : told \in SUBSET Columns}]
JournalTyped == journal \in [Entries -> Seq(JournalRows)]

LEMMA ViewType ==
    ASSUME NEW row \in Rows
    PROVE  View(row) \in [Columns -> KINDS \cup Nat \cup Holders]
  <1>1. row.kind \in KINDS /\ row.date \in Nat /\ row.amount \in Nat /\ row.name \in Holders
    BY LastDayAssumption DEF Rows, Days
  <1> QED
    BY <1>1 DEF View, Columns, Holders

LEMMA ToldTypes ==
    ASSUME NEW before \in Rows, NEW after \in Rows
    PROVE  /\ [action |-> "create", changes |-> View(before)] \in JournalRows
           /\ [action |-> "delete", changes |-> View(before)] \in JournalRows
           /\ [action |-> "update", changes |-> Changes(View(before), View(after))] \in JournalRows
  <1>1. View(before) \in [Columns -> KINDS \cup Nat \cup Holders]
    BY ViewType
  <1>2. PICK told \in SUBSET Columns :
            Changes(View(before), View(after)) \in [told -> KINDS \cup Nat \cup Holders]
    <2> DEFINE told == {g \in DOMAIN View(after) : View(before)[g] # View(after)[g]}
    <2>1. View(after) \in [Columns -> KINDS \cup Nat \cup Holders]
      BY ViewType
    <2>2. told \in SUBSET Columns
      BY <2>1
    <2>3. Changes(View(before), View(after)) \in [told -> KINDS \cup Nat \cup Holders]
      BY <2>1 DEF Changes
    <2> QED
      BY <2>2, <2>3
  <1> QED
    BY <1>1, <1>2 DEF JournalRows

(* The view of a merged row, column by column: what the request changed of *)
(* what it had loaded, and the present row's for the rest.                 *)
LEMMA MergeView ==
    ASSUME NEW loaded \in Rows, NEW target \in Rows, NEW row \in Rows, NEW column \in Columns,
           \/ row.name = loaded.name /\ row.personal = loaded.personal
           \/ ~loaded.personal /\ ~target.personal /\ ~row.personal
    PROVE  View(Merge(loaded, target, row))[column] =
               IF View(target)[column] # View(loaded)[column] THEN View(target)[column]
               ELSE View(row)[column]
  <1> DEFINE m == Merge(loaded, target, row)
  <1>1. /\ m.kind = IF target.kind # loaded.kind THEN target.kind ELSE row.kind
        /\ m.date = IF target.date # loaded.date THEN target.date ELSE row.date
        /\ m.amount = IF target.amount # loaded.amount THEN target.amount ELSE row.amount
        /\ m.personal = IF target.personal # loaded.personal THEN target.personal ELSE row.personal
        /\ m.name = IF target.name # loaded.name THEN target.name ELSE row.name
    BY DEF Merge, Rows
  <1>2. ASSUME NEW r
        PROVE  /\ View(r)["kind"] = r.kind /\ View(r)["date"] = r.date
               /\ View(r)["amount"] = r.amount
               /\ View(r)["card"] = IF r.personal THEN r.name ELSE None
    BY DEF View
  <1> HIDE DEF m
  <1>3. CASE column = "card"
    BY <1>1, <1>2, <1>3 DEF m, Rows
  <1>4. CASE column # "card"
    BY <1>1, <1>2, <1>4 DEF m, Columns
  <1> QED
    BY <1>3, <1>4

(* What the journal of an entry tells after a commit is what was done.     *)
Replays(e) ==
    /\ entries[e] # None <=> Standing(journal[e])
    /\ entries[e] # None =>
          \A column \in Columns : LastTold(journal[e], column, View(entries[e])[column])

LEMMA CommitTold ==
    ASSUME Inv, FreshIds, CardsHeld, JournalTyped, JournalReplays, NEW t \in Threads, CommitStep(t),
           NEW e, e = req[t].entry
    PROVE  JournalTyped' /\ Replays(e)'
  <1> DEFINE r == req[t]
             old == entries[e]
             new == entries'[e]
  <1>1. /\ InFlight(t) /\ r.step = "commit" /\ r \in Requests /\ RequestOK(r) /\ e \in Entries
        /\ old \in Rows \cup {None} /\ r.loaded \in Rows \cup {None}
        /\ r.target \in Rows \cup {None} /\ CardRequest(r) /\ Replays(e)
    BY CommitSteps, CardsType DEF CardsHeld, JournalReplays, Replays
  <1>2. journal[e] \in Seq(JournalRows)
    BY <1>1 DEF JournalTyped
  <1>3. ASSUME NEW row \in JournalRows, journal' = [journal EXCEPT ![e] = Append(@, row)]
        PROVE  JournalTyped' /\ journal'[e] = Append(journal[e], row)
    BY <1>1, <1>2, <1>3 DEF JournalTyped
  <1>4. CASE UNCHANGED <<entries, journal>>
    BY <1>1, <1>4 DEF JournalTyped, Replays
  <1>5. CASE CommitCreate(t) /\ ~UNCHANGED <<entries, journal>>
    <2> DEFINE row == [action |-> "create", changes |-> View(r.target)]
    <2>1. r.target \in Rows /\ new = r.target
      BY <1>1, <1>5, NoneAssumption DEF CommitCreate, RequestOK, Removes, Inv, TypeOK
    <2>2. row \in JournalRows
      BY <2>1, ToldTypes
    <2>3. JournalTyped' /\ journal'[e] = Append(journal[e], row)
      BY <1>3, <1>5, <2>2 DEF CommitCreate, Record
    <2>4. \A column \in Columns : column \in DOMAIN row.changes
      BY <2>1, ViewType
    <2>5. \A column \in Columns : LastTold(journal'[e], column, View(new)[column])
      BY <1>2, <2>1, <2>2, <2>3, <2>4, AppendTold
    <2>6. Standing(journal'[e])
      BY <1>2, <2>2, <2>3, AppendStanding
    <2> QED
      BY <2>1, <2>3, <2>5, <2>6, NoneAssumption DEF Replays
  <1>6. CASE CommitUpdate(t) /\ ~UNCHANGED <<entries, journal>>
    <2> DEFINE row == [action |-> "update", changes |-> Changes(View(r.loaded), View(r.target))]
    <2>1. /\ r.loaded \in Rows /\ r.target \in Rows /\ old \in Rows
          /\ new = Merge(r.loaded, r.target, old)
          /\ r.target.personal = r.form.personal /\ r.form # None
          /\ IF View(r.target) = View(r.loaded) THEN journal' = journal
             ELSE journal' = [journal EXCEPT ![e] = Append(@, row)]
      BY <1>1, <1>6, NoneAssumption DEF CommitUpdate, RequestOK, CardRequest, Record, Inv, TypeOK
    <2>2. new \in Rows
      BY <2>1, MergeRow
    <2>3. \/ old.name = r.loaded.name /\ old.personal = r.loaded.personal
          \/ ~r.loaded.personal /\ ~r.target.personal /\ ~old.personal
      BY <1>1, <2>1, NoneAssumption DEF CardRequest, HasCard, Rows
    <2>4. \A column \in Columns :
              View(new)[column] =
                  IF View(r.target)[column] # View(r.loaded)[column] THEN View(r.target)[column]
                  ELSE View(old)[column]
      BY <2>1, <2>3, MergeView
    <2>5. \A column \in Columns : LastTold(journal[e], column, View(old)[column])
      BY <1>1, <2>1, NoneAssumption DEF Replays
    <2>6. Standing(journal[e])
      BY <1>1, <2>1, NoneAssumption DEF Replays
    <2>7. CASE View(r.target) = View(r.loaded)
      <3>1. journal' = journal
        BY <2>1, <2>7
      <3>2. \A column \in Columns : View(new)[column] = View(old)[column]
        BY <2>4, <2>7
      <3> QED
        BY <2>2, <2>5, <2>6, <3>1, <3>2, NoneAssumption DEF Replays, JournalTyped
    <2>8. CASE View(r.target) # View(r.loaded)
      <3>1. row \in JournalRows
        BY <2>1, ToldTypes
      <3>2. JournalTyped' /\ journal'[e] = Append(journal[e], row)
        BY <1>3, <2>1, <2>8, <3>1
      <3>3. ASSUME NEW column \in Columns PROVE LastTold(journal'[e], column, View(new)[column])
        <4>1. DOMAIN View(r.target) = Columns
          BY <2>1, ViewType
        <4>2. CASE View(r.target)[column] # View(r.loaded)[column]
          <5>1. column \in DOMAIN row.changes /\ row.changes[column] = View(r.target)[column]
            BY <4>1, <4>2 DEF Changes
          <5> QED
            BY <1>2, <2>4, <3>1, <3>2, <4>2, <5>1, AppendTold
        <4>3. CASE View(r.target)[column] = View(r.loaded)[column]
          <5>1. column \notin DOMAIN row.changes
            BY <4>3 DEF Changes
          <5> QED
            BY <1>2, <2>4, <2>5, <3>1, <3>2, <4>3, <5>1, AppendUntold
        <4> QED
          BY <4>2, <4>3
      <3>4. Standing(journal'[e])
        BY <1>2, <3>1, <3>2, AppendStanding
      <3> QED
        BY <2>2, <3>2, <3>3, <3>4, NoneAssumption DEF Replays
    <2> QED
      BY <2>7, <2>8
  <1>7. CASE CommitDelete(t)
    <2> DEFINE row == [action |-> "delete", changes |-> View(r.loaded)]
    <2>1. r.loaded \in Rows /\ new = None
      BY <1>1, <1>7 DEF CommitDelete, RequestOK, Removes, Inv, TypeOK
    <2>2. row \in JournalRows
      BY <2>1, ToldTypes
    <2>3. JournalTyped' /\ journal'[e] = Append(journal[e], row)
      BY <1>3, <1>7, <2>2 DEF CommitDelete, Record
    <2>4. ~Standing(journal'[e])
      BY <1>2, <2>2, <2>3, AppendStanding
    <2> QED
      BY <2>1, <2>3, <2>4 DEF Replays
  <1> QED
    BY <1>4, <1>5, <1>6, <1>7 DEF CommitStep

LEMMA ToldInit == Init => JournalTyped /\ JournalReplays
  BY DEF Init, JournalTyped, JournalReplays, Standing

LEMMA ToldNext ==
    Inv /\ FreshIds /\ CardsHeld /\ JournalTyped /\ JournalReplays /\ [Next]_vars =>
        (JournalTyped /\ JournalReplays)'
  <1> SUFFICES ASSUME Inv, FreshIds, CardsHeld, JournalTyped, JournalReplays, [Next]_vars
               PROVE  (JournalTyped /\ JournalReplays)'
    OBVIOUS
  <1>1. ASSUME UNCHANGED <<entries, journal>> PROVE (JournalTyped /\ JournalReplays)'
    BY <1>1 DEF JournalTyped, JournalReplays
  <1>2. ASSUME NEW t \in Threads, CommitStep(t) PROVE (JournalTyped /\ JournalReplays)'
    <2>1. PICK i : i = req[t].entry
      OBVIOUS
    <2>2. JournalTyped' /\ Replays(i)'
      BY <1>2, <2>1, CommitTold
    <2>3. \A e \in Entries \ {i} : entries'[e] = entries[e] /\ journal'[e] = journal[e]
      BY <1>2, <2>1, CommitSteps
    <2>4. \A e \in Entries \ {i} : Replays(e)'
      BY <2>3 DEF JournalReplays, Replays
    <2> QED
      BY <2>2, <2>4 DEF JournalReplays, Replays
  <1>3. ASSUME NEW p \in Employees, DeleteEmployee(p) PROVE (JournalTyped /\ JournalReplays)'
    <2>1. journal' = journal /\ \A e \in Entries : entries'[e] = ClearHolder(entries[e], p)
      BY <1>3 DEF DeleteEmployee
    <2>2. \A e \in Entries : entries[e] # None =>
              View(ClearHolder(entries[e], p)) = View(entries[e])
      BY DEF View, ClearHolder, Inv, TypeOK, Rows
    <2>3. \A e \in Entries : ClearHolder(entries[e], p) = None <=> entries[e] = None
      BY ClearHolderRow DEF Inv, TypeOK
    <2> QED
      BY <2>1, <2>2, <2>3 DEF JournalTyped, JournalReplays
  <1>4. ASSUME NEW t \in Threads, EarlyStep(t) PROVE UNCHANGED <<entries, journal>>
    BY <1>4, EarlySteps DEF SameRequest
  <1>5. CASE UNCHANGED vars
    BY <1>1, <1>5 DEF vars
  <1> QED
    BY <1>1, <1>2, <1>3, <1>4, <1>5 DEF Next, EarlyStep, CommitStep, ReceiveCreate,
       ReceiveUpdate, ReceiveDelete, Receive, SaveLock, Midnight

(* Where requests about a personal card do not overlap on one entry, the   *)
(* journal of an entry tells what became of it, whichever requests raced   *)
(* for it and whichever failed.                                            *)
THEOREM JournalTells == ASSUME ~CardsOverlap PROVE Spec => []JournalReplays
  <1>1. Init => Inv /\ FreshIds /\ CardsHeld /\ CardConsistent /\ JournalTyped /\ JournalReplays
    BY InvInit, FreshInit, CardsInit, ToldInit
  <1>2. Inv /\ FreshIds /\ CardsHeld /\ CardConsistent /\ JournalTyped /\ JournalReplays
            /\ [Next]_vars =>
            (Inv /\ FreshIds /\ CardsHeld /\ CardConsistent /\ JournalTyped /\ JournalReplays)'
    BY InvNext, FreshNext, CardsNext, ToldNext
  <1> QED
    BY <1>1, <1>2, PTL DEF Spec

-----------------------------------------------------------------------------
(* What the pages compute: balances are sums, and add up over entries that *)
(* have nothing in common.                                                 *)

LEMMA AmountTyped == ASSUME TypeOK, NEW e \in Entries PROVE Amount[e] \in Int
  BY DEF TypeOK, Amount, Rows

LEMMA SumOfEntries ==
    ASSUME TypeOK, NEW A \in SUBSET Entries
    PROVE  IsFiniteSet(A) /\ (\A e \in A : Amount[e] \in Int) /\ Total(A) \in Int
  <1>1. IsFiniteSet(A)
    BY FiniteAssumption, FS_Subset
  <1>2. \A e \in A : Amount[e] \in Int
    BY AmountTyped
  <1> QED
    BY <1>1, <1>2, SumTyped DEF Total

LEMMA TotalJoined ==
    ASSUME TypeOK, NEW A \in SUBSET Entries, NEW B \in SUBSET Entries, A \cap B = {}
    PROVE  Total(A \cup B) = Total(A) + Total(B)
  <1>1. IsFiniteSet(A) /\ IsFiniteSet(B) /\ \A e \in A \cup B : Amount[e] \in Int
    BY SumOfEntries
  <1> QED
    BY <1>1, SumUnion DEF Total

LEMMA BalanceTyped == ASSUME TypeOK, NEW A \in SUBSET Entries PROVE Balance(A) \in Int
  <1>1. \A kind : OfKind(A, kind) \in SUBSET Entries
    BY DEF OfKind
  <1> QED
    BY <1>1, SumOfEntries DEF Balance

LEMMA BalanceJoined ==
    ASSUME TypeOK, NEW A \in SUBSET Entries, NEW B \in SUBSET Entries, A \cap B = {}
    PROVE  Balance(A \cup B) = Balance(A) + Balance(B)
  <1>1. ASSUME NEW kind
        PROVE  /\ Total(OfKind(A \cup B, kind)) = Total(OfKind(A, kind)) + Total(OfKind(B, kind))
               /\ Total(OfKind(A, kind)) \in Int /\ Total(OfKind(B, kind)) \in Int
    <2>1. /\ OfKind(A \cup B, kind) = OfKind(A, kind) \cup OfKind(B, kind)
          /\ OfKind(A, kind) \cap OfKind(B, kind) = {}
          /\ OfKind(A, kind) \in SUBSET Entries /\ OfKind(B, kind) \in SUBSET Entries
      BY DEF OfKind
    <2>2. Total(OfKind(A, kind)) \in Int /\ Total(OfKind(B, kind)) \in Int
      BY <2>1, SumOfEntries
    <2>3. Total(OfKind(A, kind) \cup OfKind(B, kind)) = Total(OfKind(A, kind)) + Total(OfKind(B, kind))
      BY <2>1, TotalJoined
    <2> QED
      BY <2>1, <2>2, <2>3
  <1>2. /\ Total(OfKind(A \cup B, CashIn)) = Total(OfKind(A, CashIn)) + Total(OfKind(B, CashIn))
        /\ Total(OfKind(A, CashIn)) \in Int /\ Total(OfKind(B, CashIn)) \in Int
    BY <1>1
  <1>3. /\ Total(OfKind(A \cup B, CashOut)) = Total(OfKind(A, CashOut)) + Total(OfKind(B, CashOut))
        /\ Total(OfKind(A, CashOut)) \in Int /\ Total(OfKind(B, CashOut)) \in Int
    BY <1>1
  <1> QED
    BY <1>2, <1>3 DEF Balance

LEMMA BalanceNothing == Balance({}) = 0
  <1>1. \A kind : OfKind({}, kind) = {}
    BY DEF OfKind
  <1> QED
    BY <1>1, SumNothing DEF Balance, Total

(* A period splits at any day.                                             *)
LEMMA PeriodsJoin ==
    ASSUME TypeOK, NEW desk, NEW scope, NEW from \in Int, NEW mid \in Int, NEW to \in Int,
           from <= mid + 1, mid <= to
    PROVE  /\ Balance(Within(desk, scope, from, to)) =
                 Balance(Within(desk, scope, from, mid)) + Balance(Within(desk, scope, mid + 1, to))
           /\ Balance(Within(desk, scope, from, mid)) \in Int
           /\ Balance(Within(desk, scope, mid + 1, to)) \in Int
  <1> DEFINE W(a, b) == Within(desk, scope, a, b)
  <1>1. \A a, b : W(a, b) \in SUBSET Entries
    BY DEF Within, DeskEntries
  <1>2. ASSUME NEW e \in DeskEntries(desk, scope) PROVE entries[e].date \in Int
    BY <1>2 DEF TypeOK, DeskEntries, Rows, Days
  <1>3. W(from, to) = W(from, mid) \cup W(mid + 1, to)
    BY <1>2 DEF Within
  <1>4. W(from, mid) \cap W(mid + 1, to) = {}
    BY <1>2 DEF Within
  <1> HIDE DEF W
  <1>5. Balance(W(from, to)) = Balance(W(from, mid)) + Balance(W(mid + 1, to))
    BY <1>1, <1>3, <1>4, BalanceJoined
  <1> QED
    BY <1>1, <1>5, BalanceTyped DEF W

LEMMA OpeningFollows ==
    ASSUME TypeOK, NEW desk, NEW scope, NEW from \in Int, NEW to \in Int, from <= to + 1
    PROVE  /\ Opening(desk, scope, to + 1) =
                 Opening(desk, scope, from) + Balance(Within(desk, scope, from, to))
           /\ Opening(desk, scope, from) \in Int
  <1>1. ASSUME NEW e \in DeskEntries(desk, scope) PROVE entries[e].date \in Int
    BY <1>1 DEF TypeOK, DeskEntries, Rows, Days
  <1>2. PICK A : A = Before(desk, scope, from)
    OBVIOUS
  <1>3. PICK B : B = Within(desk, scope, from, to)
    OBVIOUS
  <1>4. /\ A \in SUBSET Entries /\ B \in SUBSET Entries /\ A \cap B = {}
        /\ Before(desk, scope, to + 1) = A \cup B
    BY <1>1, <1>2, <1>3 DEF Before, Within, DeskEntries
  <1> QED
    BY <1>2, <1>3, <1>4, BalanceJoined, BalanceTyped DEF Opening

(* The balance a period closes with is the one the next period opens with, *)
(* in every scope and on every desk: corrections re-flow later balances.   *)
THEOREM BooksGoOn == Spec => []BooksContinue
  <1>1. TypeOK => BooksContinue
    <2> SUFFICES ASSUME TypeOK, NEW desk \in Desks, NEW scope \in SCOPES, NEW from \in Days,
                        NEW to \in from..LastDay
                 PROVE  Book(desk, scope, from, to).closing = Opening(desk, scope, to + 1)
      BY DEF BooksContinue
    <2>1. from \in Int /\ to \in Int /\ from <= to + 1
      BY LastDayAssumption DEF Days
    <2> QED
      BY <2>1, OpeningFollows DEF Book
  <1> QED
    BY <1>1, TypeCorrect, PTL

(* export_rows carries the balance from day to day: by induction over the  *)
(* days, to what the page has.                                             *)
LEMMA ExportRow ==
    ASSUME TypeOK, NEW desk, NEW from \in Days, NEW d \in from..LastDay
    PROVE  ExportClosing(desk, from)[d] = Opening(desk, "all", from) + Balance(Within(desk, "all", from, d))
  <1> DEFINE opening == Opening(desk, "all", from)
             day(x) == Balance(Within(desk, "all", x, x))
             upto(x) == opening + Balance(Within(desk, "all", from, x))
             carries(c) == c = [x \in from..LastDay |-> (IF x = from THEN opening ELSE c[x - 1]) + day(x)]
             page == [x \in from..LastDay |-> upto(x)]
  <1>0. from \in Nat /\ LastDay \in Nat /\ opening \in Int
    <2>1. opening \in Int
      <3>1. Before(desk, "all", from) \in SUBSET Entries
        BY DEF Before, DeskEntries
      <3> QED
        BY <3>1, BalanceTyped DEF Opening
    <2> QED
      BY <2>1, LastDayAssumption DEF Days
  <1>1. ASSUME NEW x \in from..LastDay
        PROVE  upto(x) = (IF x = from THEN opening ELSE upto(x - 1)) + day(x)
    <2>1. CASE x = from
      BY <2>1
    <2>2. CASE x # from
      <3>1. PICK y \in Int : y = x - 1
        BY <1>0
      <3>2. y + 1 = x /\ from <= y + 1 /\ y <= x /\ x \in Int /\ from \in Int
        BY <1>0, <2>2, <3>1
      <3>3. /\ Balance(Within(desk, "all", from, x)) = Balance(Within(desk, "all", from, y)) + day(x)
            /\ Balance(Within(desk, "all", from, y)) \in Int /\ day(x) \in Int
        <4>1. /\ Balance(Within(desk, "all", from, x)) =
                   Balance(Within(desk, "all", from, y)) + Balance(Within(desk, "all", y + 1, x))
              /\ Balance(Within(desk, "all", from, y)) \in Int
              /\ Balance(Within(desk, "all", y + 1, x)) \in Int
          BY <3>2, PeriodsJoin
        <4> QED
          BY <3>2, <4>1
      <3> HIDE DEF day, opening
      <3> QED
        BY <1>0, <2>2, <3>1, <3>3
    <2> QED
      BY <2>1, <2>2
  <1> HIDE DEF opening, day, upto
  <1>2. carries(page)
    <2>1. ASSUME NEW x \in from..LastDay, x # from PROVE page[x - 1] = upto(x - 1)
      BY <1>0, <2>1
    <2> QED
      BY <1>1, <2>1
  <1> HIDE DEF page
  <1>3. carries(CHOOSE c : carries(c))
    <2> HIDE DEF carries
    <2> QED
      BY <1>2, Zenon
  <1>4. ExportClosing(desk, from) = CHOOSE c : carries(c)
    BY DEF ExportClosing, carries, opening, day
  <1>5. PICK export : export = ExportClosing(desk, from)
    OBVIOUS
  <1>6. \A x \in from..LastDay : export[x] = (IF x = from THEN opening ELSE export[x - 1]) + day(x)
    BY <1>3, <1>4, <1>5
  <1>7. PICK Good : Good = {x \in from..LastDay : export[x] = upto(x)}
    OBVIOUS
  <1>8. from \in Good
    BY <1>0, <1>1, <1>6, <1>7
  <1>9. ASSUME NEW x \in from..(LastDay - 1), x \in Good PROVE x + 1 \in Good
    <2>1. x + 1 \in from..LastDay /\ x + 1 # from /\ (x + 1) - 1 = x
      BY <1>0
    <2> QED
      BY <1>1, <1>6, <1>7, <1>9, <2>1
  <1>10. \A x \in from..LastDay : x \in Good
    BY <1>0, <1>8, <1>9, NumbersInduction
  <1> QED
    BY <1>5, <1>7, <1>10 DEF upto, opening

(* The Excel table reaches, for every first day, the page's balances.      *)
THEOREM ExportsAgree == Spec => []ExportAgrees
  <1>1. TypeOK => ExportAgrees
    BY ExportRow DEF ExportAgrees, Book
  <1> QED
    BY <1>1, TypeCorrect, PTL

(* A holder is an employee, however requests and deletions interleave: the *)
(* foreign key is checked in the commit, and cleared with the employee.    *)
HoldersThere ==
    \A e \in Entries : entries[e] # None => entries[e].holder \in employees \cup {None}

LEMMA CommitHolder ==
    ASSUME Inv, HoldersThere, NEW t \in Threads, CommitStep(t)
    PROVE  LET e == req[t].entry IN
           entries'[e] # None => entries'[e].holder \in employees \cup {None}
  <1> DEFINE r == req[t]
             e == r.entry
             old == entries[e]
             new == entries'[e]
  <1>1. /\ InFlight(t) /\ r.step = "commit" /\ r \in Requests /\ RequestOK(r) /\ e \in Entries
        /\ old \in Rows \cup {None} /\ r.loaded \in Rows \cup {None}
        /\ r.target \in Rows \cup {None}
    BY CommitSteps, CardsType
  <1>2. old # None => old.holder \in employees \cup {None}
    BY <1>1 DEF HoldersThere
  <1>3. CASE CommitCreate(t)
    <2>1. new = old \/ (new = r.target /\ HolderExists(r.target.holder))
      BY <1>1, <1>3 DEF CommitCreate, Inv, TypeOK
    <2> QED
      BY <1>2, <2>1 DEF HolderExists
  <1>4. CASE CommitUpdate(t)
    <2>1. r.loaded \in Rows /\ r.target \in Rows
      BY <1>1, <1>4 DEF CommitUpdate, RequestOK
    <2>2. \/ new = old
          \/ /\ old \in Rows /\ new = Merge(r.loaded, r.target, old)
             /\ r.target.holder = r.loaded.holder \/ HolderExists(r.target.holder)
      BY <1>1, <1>4 DEF CommitUpdate, Inv, TypeOK
    <2>3. ASSUME old \in Rows
          PROVE  Merge(r.loaded, r.target, old).holder =
                    IF r.target.holder # r.loaded.holder THEN r.target.holder ELSE old.holder
      BY <2>3 DEF Merge, Rows
    <2> QED
      BY <1>2, <2>2, <2>3, NoneAssumption DEF HolderExists
  <1>5. CASE CommitDelete(t)
    BY <1>1, <1>5 DEF CommitDelete, Inv, TypeOK
  <1> QED
    BY <1>3, <1>4, <1>5 DEF CommitStep

LEMMA HoldersNext == Inv /\ HoldersThere /\ [Next]_vars => HoldersThere'
  <1> SUFFICES ASSUME Inv, HoldersThere, [Next]_vars PROVE HoldersThere'
    OBVIOUS
  <1>1. ASSUME UNCHANGED <<entries, employees>> PROVE HoldersThere'
    BY <1>1 DEF HoldersThere
  <1>2. ASSUME NEW t \in Threads, EarlyStep(t) PROVE HoldersThere'
    BY <1>1, <1>2, EarlySteps DEF SameRequest
  <1>3. ASSUME NEW t \in Threads, CommitStep(t) PROVE HoldersThere'
    <2>1. employees' = employees /\ \A e \in Entries \ {req[t].entry} : entries'[e] = entries[e]
      BY <1>3, CommitSteps
    <2>2. LET e == req[t].entry IN
          entries'[e] # None => entries'[e].holder \in employees \cup {None}
      BY <1>3, CommitHolder
    <2> QED
      BY <2>1, <2>2 DEF HoldersThere
  <1>4. ASSUME NEW p \in Employees, DeleteEmployee(p) PROVE HoldersThere'
    <2>1. employees' = employees \ {p} /\ \A e \in Entries : entries'[e] = ClearHolder(entries[e], p)
      BY <1>4 DEF DeleteEmployee
    <2>2. ASSUME NEW e \in Entries, entries'[e] # None
          PROVE  entries'[e].holder \in (employees \ {p}) \cup {None}
      <3>1. entries[e] \in Rows /\ entries'[e] = ClearHolder(entries[e], p)
        BY <2>1, <2>2 DEF ClearHolder, Inv, TypeOK
      <3>2. entries[e].holder \in employees \cup {None}
        BY <3>1, NoneAssumption DEF HoldersThere
      <3>3. CASE entries[e].holder = p
        <4>1. entries'[e] = [entries[e] EXCEPT !.holder = None]
          BY <3>1, <3>3, NoneAssumption DEF ClearHolder
        <4> QED
          BY <3>1, <4>1 DEF Rows
      <3>4. CASE entries[e].holder # p
        BY <3>1, <3>2, <3>4 DEF ClearHolder
      <3> QED
        BY <3>3, <3>4
    <2> QED
      BY <2>1, <2>2 DEF HoldersThere
  <1>5. ASSUME NEW t \in Threads, NEW u \in Users, NEW e \in Entries, NEW f \in Forms,
               ReceiveCreate(t, u, e, f) \/ ReceiveUpdate(t, u, e, f) \/ ReceiveDelete(t, u, e)
        PROVE  HoldersThere'
    BY <1>1, <1>5 DEF ReceiveCreate, ReceiveUpdate, ReceiveDelete, Receive
  <1>6. ASSUME NEW t \in Threads, NEW u \in Users, NEW e \in Entries, ReceiveDelete(t, u, e)
        PROVE  HoldersThere'
    BY <1>1, <1>6 DEF ReceiveDelete, Receive
  <1>7. ASSUME NEW period \in Periods \cup {None}, SaveLock(period) PROVE HoldersThere'
    BY <1>1, <1>7 DEF SaveLock
  <1>8. CASE Midnight
    BY <1>1, <1>8 DEF Midnight
  <1>9. CASE UNCHANGED vars
    BY <1>1, <1>9 DEF vars
  <1> QED
    BY <1>2, <1>3, <1>4, <1>5, <1>6, <1>7, <1>8, <1>9 DEF Next, EarlyStep, CommitStep

(* The entries of the employees' cards, taken employee by employee.        *)
LEMMA CardsSum ==
    ASSUME TypeOK, NEW desk
    PROVE  LET cards == [p \in employees |-> CardBalanceToday({desk}, p)] IN
           SumFunction(cards) = Balance(UNION {CardEntries({desk}, p) : p \in employees})
  <1> DEFINE held(p) == CardEntries({desk}, p)
             all(P) == UNION {held(p) : p \in P}
  <1>0. PICK cards : cards = [p \in employees |-> CardBalanceToday({desk}, p)]
    OBVIOUS
  <1>1. \A p \in employees : held(p) \in SUBSET Entries /\ cards[p] = Balance(held(p))
    BY <1>0 DEF CardEntries, CardBalanceToday
  <1>2. \A p, q : p # q => held(p) \cap held(q) = {}
    BY DEF CardEntries
  <1> HIDE DEF held
  <1>3. \A p \in employees : cards[p] \in Int
    BY <1>1, BalanceTyped
  <1>4. IsFiniteSet(employees)
    BY FiniteAssumption, FS_Subset DEF TypeOK
  <1>5. PICK Good : Good = {P \in SUBSET employees : SumFunctionOnSet(cards, P) = Balance(all(P))}
    OBVIOUS
  <1>6. ASSUME NEW P \in SUBSET employees, \A Q \in SUBSET P : Q # P => Q \in Good
        PROVE  P \in Good
    <2>1. CASE P = {}
      <3>1. all(P) = {}
        BY <2>1
      <3>2. SumFunctionOnSet(cards, P) = 0 /\ Balance(all(P)) = 0
        BY <2>1, <3>1, SumNothing, BalanceNothing
      <3> QED
        BY <1>5, <3>2
    <2>2. CASE P # {}
      <3>1. PICK p \in P : TRUE
        BY <2>2
      <3>2. PICK Q : Q = P \ {p}
        OBVIOUS
      <3>3. Q \in SUBSET P /\ Q # P /\ Q \in SUBSET employees
        BY <3>1, <3>2
      <3>4. SumFunctionOnSet(cards, Q) = Balance(all(Q))
        BY <1>5, <1>6, <3>3
      <3>5. SumFunctionOnSet(cards, P) = cards[p] + SumFunctionOnSet(cards, Q)
        <4>1. IsFiniteSet(P) /\ \A x \in P : cards[x] \in Int
          BY <1>3, <1>4, FS_Subset
        <4> QED
          BY <3>1, <3>2, <4>1, SumWithout
      <3>6. all(P) = held(p) \cup all(Q)
        BY <3>1, <3>2
      <3>7. held(p) \cap all(Q) = {}
        BY <1>2, <3>2
      <3>8. held(p) \in SUBSET Entries /\ all(Q) \in SUBSET Entries
        BY <1>1, <3>1, <3>3
      <3>9. Balance(all(P)) = Balance(held(p)) + Balance(all(Q))
        <4> HIDE DEF all
        <4> QED
          BY <3>6, <3>7, <3>8, BalanceJoined
      <3> QED
        BY <1>1, <1>5, <3>1, <3>4, <3>5, <3>9
    <2> QED
      BY <2>1, <2>2
  <1>7. \A P \in SUBSET employees : P \in Good
    BY <1>4, <1>6, SubsetsInduction
  <1>8. SumFunctionOnSet(cards, employees) = Balance(all(employees))
    BY <1>5, <1>7
  <1> QED
    BY <1>0, <1>8 DEF SumFunction, held

LEMMA PartsSum ==
    ASSUME TypeOK, HoldersThere, NEW desk \in Desks
    PROVE  /\ \A day \in Int :
                 Opening(desk, "all", day) = Opening(desk, "cash", day) + Opening(desk, "personal", day)
           /\ LET orphans == {e \in Before(desk, "personal", today + 1) : entries[e].holder = None}
              IN  Opening(desk, "personal", today + 1) =
                    Balance(orphans) + SumFunction([p \in employees |-> CardBalanceToday({desk}, p)])
  <1>1. \A scope, day : Before(desk, scope, day) \in SUBSET Entries
    BY DEF Before, DeskEntries
  <1>2. ASSUME NEW day \in Int
        PROVE  Opening(desk, "all", day) = Opening(desk, "cash", day) + Opening(desk, "personal", day)
    <2>1. Before(desk, "all", day) = Before(desk, "cash", day) \cup Before(desk, "personal", day)
      BY DEF Before, DeskEntries, InScope
    <2>2. Before(desk, "cash", day) \cap Before(desk, "personal", day) = {}
      BY DEF Before, DeskEntries, InScope
    <2> QED
      BY <1>1, <2>1, <2>2, BalanceJoined DEF Opening
  <1>3. PICK personal : personal = Before(desk, "personal", today + 1)
    OBVIOUS
  <1>4. PICK orphans : orphans = {e \in personal : entries[e].holder = None}
    OBVIOUS
  <1>5. PICK cards : cards = UNION {CardEntries({desk}, p) : p \in employees}
    OBVIOUS
  <1>6. ASSUME NEW e \in Entries, entries[e] # None
        PROVE  /\ e \in personal <=> /\ entries[e].desk = desk /\ entries[e].personal
                                     /\ entries[e].date <= today
               /\ \A p : e \in CardEntries({desk}, p) <=>
                     /\ entries[e].desk = desk /\ entries[e].personal
                     /\ entries[e].date <= today /\ entries[e].holder = p
    <2>1. entries[e].date \in Int /\ today \in Int
      BY <1>6, LastDayAssumption DEF TypeOK, Rows, Days
    <2>2. entries[e].date < today + 1 <=> entries[e].date <= today
      BY <2>1
    <2> QED
      BY <1>3, <1>6, <2>2 DEF Before, DeskEntries, InScope, CardEntries
  <1>7. ASSUME NEW e
        PROVE  e \in personal \/ (\E p : e \in CardEntries({desk}, p)) => e \in Entries /\ entries[e] # None
    BY <1>3 DEF Before, DeskEntries, CardEntries
  <1>8. personal = orphans \cup cards
    <2>1. ASSUME NEW e \in personal PROVE e \in orphans \cup cards
      <3>1. e \in Entries /\ entries[e] # None /\ entries[e].holder \in employees \cup {None}
        BY <1>7, <2>1 DEF HoldersThere
      <3> QED
        BY <1>4, <1>5, <1>6, <2>1, <3>1
    <2>2. ASSUME NEW e \in cards PROVE e \in personal
      BY <1>5, <1>6, <1>7, <2>2
    <2> QED
      BY <1>4, <2>1, <2>2
  <1>9. orphans \cap cards = {}
    <2>1. None \notin employees
      BY NoneAssumption DEF TypeOK
    <2>2. ASSUME NEW e \in orphans, NEW p \in employees, e \in CardEntries({desk}, p) PROVE FALSE
      <3>1. entries[e].holder = None
        BY <1>4, <2>2
      <3>2. entries[e].holder = p
        BY <2>2 DEF CardEntries
      <3> QED
        BY <2>1, <3>1, <3>2
    <2> QED
      BY <1>5, <2>2
  <1>10. Balance(personal) = Balance(orphans) + Balance(cards)
    <2>1. orphans \in SUBSET Entries /\ cards \in SUBSET Entries
      BY <1>1, <1>3, <1>8
    <2> QED
      BY <1>8, <1>9, <2>1, BalanceJoined
  <1>11. Balance(cards) = SumFunction([p \in employees |-> CardBalanceToday({desk}, p)])
    BY <1>5, CardsSum
  <1> QED
    BY <1>2, <1>3, <1>4, <1>10, <1>11 DEF Opening

(* Cash and cards make up the book, and the cards of the employees, with   *)
(* what deleted ones held, the personal part of it up to today.            *)
THEOREM PartsMakeUp == Spec => []PartsAddUp
  <1>1. Init => HoldersThere
    BY DEF Init, HoldersThere
  <1>2. Inv /\ HoldersThere => PartsAddUp
    <2> SUFFICES ASSUME TypeOK, HoldersThere PROVE PartsAddUp
      BY DEF Inv
    <2>1. Days \subseteq Int
      BY DEF Days
    <2>2. ASSUME NEW desk \in Desks, NEW day \in Days
          PROVE  Opening(desk, "all", day) = Opening(desk, "cash", day) + Opening(desk, "personal", day)
      BY <2>1, PartsSum
    <2>3. ASSUME NEW desk \in Desks
          PROVE  LET orphans == {e \in Before(desk, "personal", today + 1) : entries[e].holder = None}
                 IN  Opening(desk, "personal", today + 1) =
                       Balance(orphans) + SumFunction([p \in employees |-> CardBalanceToday({desk}, p)])
      BY PartsSum
    <2> QED
      BY <2>2, <2>3, Zenon DEF PartsAddUp
  <1> QED
    BY <1>1, <1>2, InvInit, InvNext, HoldersNext, PTL DEF Spec
=============================================================================
