-------------------------- MODULE PlannerJobsProofs --------------------------
(***************************************************************************)
(* Proofs about PlannerJobs for any number of jobs, lanes, work orders,    *)
(* request threads and hours: no two jobs overlap where placing requests   *)
(* do not, links lie within the window, and the audit log tells the truth. *)
(***************************************************************************)
EXTENDS PlannerJobs, DataProofs

Values == Lanes \cup Int \cup Orders \cup Contacts \cup {None}
JournalRows == [action: {"create", "update", "delete"},
                changes: UNION {[told -> Values] : told \in SUBSET Columns}]
JournalTyped == journal \in [Jobs -> Seq(JournalRows)]

Inv == TypeOK /\ RequestsOK /\ JournalTyped

USE DEF InFlight, At, Finish

-----------------------------------------------------------------------------
(* Lemmas about the operators *)

LEMMA FormFields ==
    ASSUME NEW f \in Forms
    PROVE  /\ f # None /\ f.lane \in Lanes /\ f.start \in Int /\ f.end \in Int /\ f.start < f.end
           /\ f.order \in Orders \cup {None} /\ f.contact \in Contacts \cup {None}
           /\ f \in [Columns -> Values]
  <1>1. f \in FormType /\ f # None
    BY FormAssumption, NoneAssumption
  <1> QED
    BY <1>1 DEF FormType, Columns, Values

LEMMA RowFields ==
    ASSUME NEW row \in Rows
    PROVE  /\ DOMAIN row = Columns \cup {"created"}
           /\ \A c \in Columns : row[c] \in Values
           /\ View(row) \in [Columns -> Values]
           /\ row.created \in Ticks /\ row.start \in Int /\ row.end \in Int
  <1>1. /\ DOMAIN row = Columns \cup {"created"}
        /\ row.created \in Ticks /\ row.start \in Int /\ row.end \in Int
        /\ \A c \in Columns : row[c] \in Values
    BY DEF Rows, Columns, Values
  <1> QED
    BY <1>1 DEF View

LEMMA NewRow ==
    ASSUME TypeOK, NEW f \in Forms
    PROVE  /\ ToRow(f) \in Rows
           /\ ToRow(f).lane = f.lane /\ ToRow(f).start = f.start /\ ToRow(f).end = f.end
           /\ \A c \in Columns : ToRow(f)[c] = f[c]
  BY FormFields DEF ToRow, TypeOK, Rows, Columns

(* A merged row has what the request changed of what it had loaded, and    *)
(* the present row's for the rest.                                         *)
LEMMA MergeRow ==
    ASSUME NEW loaded \in Rows, NEW f \in Forms, NEW row \in Rows
    PROVE  LET m == Merge(loaded, f, row) IN
           /\ m \in Rows /\ m.created = row.created
           /\ \A c \in Columns : m[c] = IF f[c] # loaded[c] THEN f[c] ELSE row[c]
  <1> DEFINE m == Merge(loaded, f, row)
  <1>1. /\ DOMAIN row = {"lane", "start", "end", "order", "contact", "created"}
        /\ DOMAIN row = Columns \cup {"created"}
    BY DEF Rows, Columns
  <1>2. m = [lane |-> IF f["lane"] # loaded["lane"] THEN f["lane"] ELSE row["lane"],
             start |-> IF f["start"] # loaded["start"] THEN f["start"] ELSE row["start"],
             end |-> IF f["end"] # loaded["end"] THEN f["end"] ELSE row["end"],
             order |-> IF f["order"] # loaded["order"] THEN f["order"] ELSE row["order"],
             contact |-> IF f["contact"] # loaded["contact"] THEN f["contact"] ELSE row["contact"],
             created |-> row["created"]]
    BY <1>1 DEF Merge, Columns
  <1>3. m \in Rows /\ m.created = row.created
    BY <1>2, FormFields DEF Rows
  <1>4. \A c \in Columns : m[c] = IF f[c] # loaded[c] THEN f[c] ELSE row[c]
    BY <1>1 DEF Merge
  <1> QED
    BY <1>3, <1>4

LEMMA LogRows ==
    /\ \A f \in Forms : [action |-> "create", changes |-> f] \in JournalRows
    /\ \A row \in Rows : [action |-> "delete", changes |-> View(row)] \in JournalRows
    /\ \A row \in Rows, f \in Forms :
          [action |-> "update", changes |-> Changes(row, f)] \in JournalRows
    /\ \A o \in Orders : [action |-> "update", changes |-> [order |-> o]] \in JournalRows
  <1>1. \A f \in Forms : f \in [Columns -> Values]
    BY FormFields
  <1>2. \A row \in Rows : View(row) \in [Columns -> Values]
    BY RowFields
  <1>3. ASSUME NEW row \in Rows, NEW f \in Forms
        PROVE  Changes(row, f) \in [{d \in Columns : row[d] # f[d]} -> Values]
    BY <1>1 DEF Changes
  <1>4. ASSUME NEW o \in Orders PROVE [order |-> o] \in [{"order"} -> Values]
    BY DEF Values
  <1>5. {"order"} \in SUBSET Columns
    BY DEF Columns
  <1>6. \A row \in Rows, f \in Forms : {d \in Columns : row[d] # f[d]} \in SUBSET Columns
    OBVIOUS
  <1>7. ASSUME NEW told \in SUBSET Columns, NEW changes \in [told -> Values],
               NEW action \in {"create", "update", "delete"}
        PROVE  [action |-> action, changes |-> changes] \in JournalRows
    BY <1>7 DEF JournalRows
  <1> QED
    BY <1>1, <1>2, <1>3, <1>4, <1>5, <1>6, <1>7

-----------------------------------------------------------------------------
(* Type correctness *)

LEMMA RequestType ==
    ASSUME Inv, NEW t \in Threads, InFlight(t)
    PROVE  /\ req[t] \in Requests /\ RequestOK(req[t]) /\ req[t].job \in Jobs
           /\ jobs[req[t].job] \in Rows \cup {None}
           /\ req[t].op # "delete" => req[t].form \in Forms
           /\ req[t].op # "create" /\ req[t].step # "load" => req[t].loaded \in Rows
  BY DEF Inv, TypeOK, RequestsOK, RequestOK, Requests

(* A step that may change the request of t to r, and nothing else.         *)
LEMMA RequestStep ==
    ASSUME Inv, NEW t \in Threads, NEW r \in Requests \cup {None}, r # None => RequestOK(r),
           UNCHANGED <<jobs, journal, orders, clock, matching, pass>>,
           req' = [req EXCEPT ![t] = r]
    PROVE  Inv'
  BY DEF Inv, TypeOK, RequestsOK, JournalTyped

LEMMA LogStep ==
    ASSUME Inv, NEW j \in Jobs, NEW row \in JournalRows, journal' = [journal EXCEPT ![j] = Append(@, row)]
    PROVE  /\ JournalTyped' /\ DOMAIN journal' = Jobs
           /\ journal'[j] = Append(journal[j], row) /\ journal'[j] # <<>>
           /\ \A i \in Jobs \ {j} : journal'[i] = journal[i]
  <1>1. journal[j] \in Seq(JournalRows)
    BY DEF Inv, JournalTyped
  <1>2. journal'[j] = Append(journal[j], row)
    BY DEF Inv, JournalTyped
  <1>3. Append(journal[j], row) \in Seq(JournalRows) /\ Append(journal[j], row) # <<>>
    BY <1>1
  <1> QED
    BY <1>2, <1>3 DEF Inv, JournalTyped

(* The steps before a commit, and Fail: the request of t ends or keeps its *)
(* operation, job and form.                                                *)
EarlyStep(t) == Load(t) \/ Validate(t) \/ Fail(t)

LEMMA EarlySteps ==
    ASSUME Inv, NEW t \in Threads, EarlyStep(t)
    PROVE  /\ InFlight(t) /\ UNCHANGED <<jobs, journal, orders, clock, matching, pass>>
           /\ \A s \in Threads \ {t} : req'[s] = req[s]
           /\ req'[t] # None =>
                 /\ req'[t] \in Requests /\ RequestOK(req'[t])
                 /\ req'[t].op = req[t].op /\ req'[t].job = req[t].job
                 /\ req'[t].form = req[t].form
                 /\ \/ /\ Validate(t) /\ req'[t].step = "commit" /\ req'[t].loaded = req[t].loaded
                       /\ SlotValid(req[t].form, req[t].job)
                    \/ /\ Load(t) /\ req'[t].loaded = jobs[req[t].job]
                       /\ req'[t].step = IF req[t].op = "update" THEN "validate" ELSE "commit"
                       /\ jobs[req[t].job] # None
           /\ Inv'
  <1>1. /\ InFlight(t) /\ req[t] \in Requests /\ RequestOK(req[t]) /\ req[t].job \in Jobs
        /\ jobs[req[t].job] \in Rows \cup {None}
        /\ UNCHANGED <<jobs, journal, orders, clock, matching, pass>>
    BY RequestType DEF EarlyStep, Load, Validate, Fail
  <1>2. CASE Load(t) /\ jobs[req[t].job] # None
    <2> DEFINE next == IF req[t].op = "update" THEN "validate" ELSE "commit"
               r == [req[t] EXCEPT !.loaded = jobs[req[t].job], !.step = next]
    <2>1. req' = [req EXCEPT ![t] = r]
      BY <1>2 DEF Load, Inv, TypeOK
    <2>2. /\ r \in Requests /\ r.loaded = jobs[req[t].job] /\ r.step = next
          /\ r.op = req[t].op /\ r.job = req[t].job /\ r.form = req[t].form
      BY <1>1, <1>2 DEF Requests, Steps
    <2>3. RequestOK(r)
      BY <1>1, <1>2, <2>2 DEF RequestOK, Load
    <2>4. Inv'
      BY <1>1, <2>1, <2>2, <2>3, RequestStep
    <2> QED
      BY <1>1, <1>2, <2>1, <2>2, <2>3, <2>4 DEF Inv, TypeOK
  <1>3. CASE Validate(t) /\ SlotValid(req[t].form, req[t].job)
    <2> DEFINE r == [req[t] EXCEPT !.step = "commit"]
    <2>1. req' = [req EXCEPT ![t] = r]
      BY <1>3 DEF Validate, Inv, TypeOK
    <2>2. /\ r \in Requests /\ r.loaded = req[t].loaded /\ r.step = "commit"
          /\ r.op = req[t].op /\ r.job = req[t].job /\ r.form = req[t].form
      BY <1>1 DEF Requests, Steps
    <2>3. RequestOK(r)
      BY <1>1, <1>3, <2>2 DEF RequestOK, Validate
    <2>4. Inv'
      BY <1>1, <2>1, <2>2, <2>3, RequestStep
    <2> QED
      BY <1>1, <1>3, <2>1, <2>2, <2>3, <2>4 DEF Inv, TypeOK
  <1>4. CASE req' = [req EXCEPT ![t] = None]
    <2>1. Inv'
      BY <1>1, <1>4, RequestStep
    <2> QED
      BY <1>1, <1>4, <2>1 DEF Inv, TypeOK
  <1> QED
    BY <1>2, <1>3, <1>4 DEF EarlyStep, Load, Validate, Fail

LEMMA ReceiveStep ==
    ASSUME Inv, NEW t \in Threads, NEW op \in Ops, NEW j \in Jobs, NEW f \in Forms \cup {None},
           op = "delete" <=> f = None, Receive(t, op, j, f)
    PROVE  /\ req'[t] # None /\ req'[t].op = op /\ req'[t].job = j /\ req'[t].form = f
           /\ req'[t].step \in {"load", "validate"}
           /\ op # "create" => req'[t].step = "load"
           /\ \A s \in Threads \ {t} : req'[s] = req[s]
           /\ UNCHANGED <<jobs, journal, orders, clock, matching, pass>>
           /\ Inv'
  <1> DEFINE r == [op |-> op, job |-> j, form |-> f, loaded |-> None,
                   step |-> IF op = "create" THEN "validate" ELSE "load"]
  <1>1. r \in Requests
    BY DEF Requests, Steps
  <1>2. r # None /\ RequestOK(r)
    BY <1>1, NoneAssumption DEF RequestOK
  <1>3. Inv'
    BY <1>1, <1>2, RequestStep DEF Receive
  <1> QED
    BY <1>2, <1>3 DEF Receive, Inv, TypeOK

(* A commit of t ends its request and touches its own job at most.         *)
CommitStep(t) == CommitCreate(t) \/ CommitUpdate(t) \/ CommitDelete(t)

Committed(r, j) ==
    \/ jobs'[j] = jobs[j] /\ journal'[j] = journal[j]
    \/ /\ r.op = "create" /\ jobs'[j] = ToRow(r.form)
       /\ journal'[j] = Append(journal[j], [action |-> "create", changes |-> r.form])
    \/ /\ r.op = "update" /\ jobs[j] \in Rows /\ jobs'[j] = Merge(r.loaded, r.form, jobs[j])
       /\ journal'[j] =
             Append(journal[j], [action |-> "update", changes |-> Changes(r.loaded, r.form)])
    \/ /\ r.op = "delete" /\ jobs'[j] = None
       /\ journal'[j] = Append(journal[j], [action |-> "delete", changes |-> View(r.loaded)])

LEMMA CommitSteps ==
    ASSUME Inv, NEW t \in Threads, CommitStep(t), NEW j, j = req[t].job, NEW r, r = req[t]
    PROVE  /\ InFlight(t) /\ r.step = "commit" /\ req'[t] = None
           /\ \A s \in Threads \ {t} : req'[s] = req[s]
           /\ UNCHANGED <<orders, clock, matching, pass>>
           /\ \A i \in Jobs \ {j} : jobs'[i] = jobs[i] /\ journal'[i] = journal[i]
           /\ Committed(r, j) /\ (journal[j] # <<>> => journal'[j] # <<>>)
           /\ Inv'
  <1>1. /\ InFlight(t) /\ r.step = "commit" /\ req' = [req EXCEPT ![t] = None]
        /\ UNCHANGED <<orders, clock, matching, pass>>
        /\ req'[t] = None /\ \A s \in Threads \ {t} : req'[s] = req[s]
    BY DEF CommitStep, CommitCreate, CommitUpdate, CommitDelete, Inv, TypeOK
  <1>2. /\ r \in Requests /\ RequestOK(r) /\ j \in Jobs /\ jobs[j] \in Rows \cup {None}
        /\ r.op # "delete" => r.form \in Forms
        /\ r.op # "create" => r.loaded \in Rows
    BY <1>1, RequestType
  <1>3. ASSUME jobs' \in [Jobs -> Rows \cup {None}], JournalTyped', DOMAIN journal' = Jobs PROVE Inv'
    BY <1>1, <1>3 DEF Inv, TypeOK, RequestsOK
  <1>4. CASE UNCHANGED <<jobs, journal>>
    BY <1>1, <1>3, <1>4 DEF Inv, TypeOK, JournalTyped, Committed
  <1>5. CASE CommitCreate(t)
    <2>1. ToRow(r.form) \in Rows
      BY <1>2, <1>5, NewRow DEF CommitCreate, Inv
    <2>2. /\ jobs' = [jobs EXCEPT ![j] = ToRow(r.form)] /\ r.op = "create"
          /\ jobs'[j] = ToRow(r.form) /\ \A i \in Jobs \ {j} : jobs'[i] = jobs[i]
      BY <1>2, <1>5 DEF CommitCreate, Inv, TypeOK
    <2>3. /\ JournalTyped' /\ DOMAIN journal' = Jobs
          /\ journal'[j] = Append(journal[j], [action |-> "create", changes |-> r.form])
          /\ journal'[j] # <<>> /\ \A i \in Jobs \ {j} : journal'[i] = journal[i]
      <3> DEFINE row == [action |-> "create", changes |-> r.form]
      <3>1. row \in JournalRows
        BY <1>2, <2>2, LogRows
      <3>2. journal' = [journal EXCEPT ![j] = Append(@, row)]
        BY <1>5 DEF CommitCreate, Record
      <3> QED
        BY <1>2, <3>1, <3>2, LogStep
    <2>4. Inv'
      BY <1>2, <1>3, <2>1, <2>2, <2>3 DEF Inv, TypeOK
    <2> QED
      BY <1>1, <2>2, <2>3, <2>4 DEF Committed
  <1>6. CASE CommitUpdate(t) /\ ~UNCHANGED <<jobs, journal>>
    <2>1. /\ jobs[j] \in Rows /\ r.op = "update"
          /\ jobs' = [jobs EXCEPT ![j] = Merge(r.loaded, r.form, @)]
          /\ journal' = [journal EXCEPT ![j] = Record(@, "update", Changes(r.loaded, r.form))]
          /\ jobs'[j] = Merge(r.loaded, r.form, jobs[j]) /\ \A i \in Jobs \ {j} : jobs'[i] = jobs[i]
      BY <1>2, <1>6 DEF CommitUpdate, Inv, TypeOK
    <2>2. Merge(r.loaded, r.form, jobs[j]) \in Rows
      BY <1>2, <2>1, MergeRow
    <2>3. /\ JournalTyped' /\ DOMAIN journal' = Jobs
          /\ journal'[j] =
                Append(journal[j], [action |-> "update", changes |-> Changes(r.loaded, r.form)])
          /\ journal'[j] # <<>> /\ \A i \in Jobs \ {j} : journal'[i] = journal[i]
      <3> DEFINE row == [action |-> "update", changes |-> Changes(r.loaded, r.form)]
      <3>1. row \in JournalRows
        BY <1>2, <2>1, LogRows
      <3>2. journal' = [journal EXCEPT ![j] = Append(@, row)]
        BY <2>1 DEF Record
      <3> QED
        BY <1>2, <3>1, <3>2, LogStep
    <2>4. Inv'
      BY <1>2, <1>3, <2>1, <2>2, <2>3 DEF Inv, TypeOK
    <2> QED
      BY <1>1, <2>1, <2>3, <2>4 DEF Committed
  <1>7. CASE CommitDelete(t)
    <2>1. /\ jobs' = [jobs EXCEPT ![j] = None] /\ r.op = "delete"
          /\ jobs'[j] = None /\ \A i \in Jobs \ {j} : jobs'[i] = jobs[i]
      BY <1>2, <1>7 DEF CommitDelete, Inv, TypeOK
    <2>2. /\ JournalTyped' /\ DOMAIN journal' = Jobs
          /\ journal'[j] = Append(journal[j], [action |-> "delete", changes |-> View(r.loaded)])
          /\ journal'[j] # <<>> /\ \A i \in Jobs \ {j} : journal'[i] = journal[i]
      <3> DEFINE row == [action |-> "delete", changes |-> View(r.loaded)]
      <3>1. row \in JournalRows
        BY <1>2, <2>1, LogRows
      <3>2. journal' = [journal EXCEPT ![j] = Append(@, row)]
        BY <1>7 DEF CommitDelete, Record
      <3> QED
        BY <1>2, <3>1, <3>2, LogStep
    <2>3. Inv'
      BY <1>2, <1>3, <2>1, <2>2 DEF Inv, TypeOK
    <2> QED
      BY <1>1, <2>1, <2>2, <2>3 DEF Committed
  <1> QED
    BY <1>4, <1>5, <1>6, <1>7 DEF CommitStep

(* A pass links the jobs it has read to candidates, each with a log row,   *)
(* or changes nothing.                                                     *)
Linked(p, j) ==
    \E o \in Orders :
        /\ j \in DOMAIN pass[p] /\ o \in Candidates(pass[p][j])
        /\ jobs[j] \in Rows /\ jobs'[j] = [jobs[j] EXCEPT !.order = o]
        /\ journal'[j] = Append(journal[j], [action |-> "update", changes |-> [order |-> o]])
        /\ journal'[j] # <<>>

LEMMA PassSteps ==
    ASSUME Inv, NEW p \in Passes, CommitPass(p)
    PROVE  /\ pass[p] # None /\ pass'[p] = None
           /\ \A q \in Passes \ {p} : pass'[q] = pass[q]
           /\ UNCHANGED <<orders, clock, matching, req>>
           /\ \A j \in Jobs : (jobs'[j] = jobs[j] /\ journal'[j] = journal[j]) \/ Linked(p, j)
           /\ Inv'
  <1> DEFINE read == pass[p]
  <1>1. /\ pass[p] # None /\ pass' = [pass EXCEPT ![p] = None]
        /\ UNCHANGED <<orders, clock, matching, req>>
        /\ DOMAIN read \subseteq Jobs /\ \A j \in DOMAIN read : read[j] \in Rows
    BY DEF CommitPass, Inv, TypeOK
  <1>2. ASSUME jobs' \in [Jobs -> Rows \cup {None}], JournalTyped', DOMAIN journal' = Jobs PROVE Inv'
    BY <1>1, <1>2 DEF Inv, TypeOK, RequestsOK
  <1>3. CASE UNCHANGED <<jobs, journal>>
    BY <1>1, <1>2, <1>3 DEF Inv, TypeOK, JournalTyped
  <1>4. CASE ~UNCHANGED <<jobs, journal>>
    <2>1. /\ \A j \in Matched(read) : jobs[j] # None
          /\ \E link \in [Matched(read) -> Orders] :
              /\ \A j \in DOMAIN link : link[j] \in Earliest(Candidates(read[j]))
              /\ jobs' = [j \in Jobs |-> IF j \in DOMAIN link
                                         THEN [jobs[j] EXCEPT !.order = link[j]] ELSE jobs[j]]
              /\ journal' = [j \in Jobs |->
                    IF j \in DOMAIN link THEN Record(journal[j], "update", [order |-> link[j]])
                    ELSE journal[j]]
      BY <1>4 DEF CommitPass
    <2>2. PICK link \in [Matched(read) -> Orders] :
              /\ \A j \in DOMAIN link : link[j] \in Earliest(Candidates(read[j]))
              /\ jobs' = [j \in Jobs |-> IF j \in DOMAIN link
                                         THEN [jobs[j] EXCEPT !.order = link[j]] ELSE jobs[j]]
              /\ journal' = [j \in Jobs |->
                    IF j \in DOMAIN link THEN Record(journal[j], "update", [order |-> link[j]])
                    ELSE journal[j]]
      BY <2>1
    <2>3. Matched(read) \subseteq DOMAIN read /\ DOMAIN link = Matched(read)
      BY DEF Matched
    <2>4. ASSUME NEW j \in DOMAIN link
          PROVE  /\ j \in Jobs /\ jobs[j] \in Rows /\ link[j] \in Orders
                 /\ [jobs[j] EXCEPT !.order = link[j]] \in Rows
                 /\ Linked(p, j)
                 /\ Record(journal[j], "update", [order |-> link[j]]) \in Seq(JournalRows)
      <3>1. /\ j \in Jobs /\ jobs[j] \in Rows /\ link[j] \in Orders
        BY <1>1, <2>1, <2>3, <2>4 DEF Inv, TypeOK
      <3>2. [jobs[j] EXCEPT !.order = link[j]] \in Rows
        BY <3>1 DEF Rows
      <3>3. link[j] \in Candidates(read[j])
        BY <2>2, <2>4 DEF Earliest
      <3>4. /\ jobs'[j] = [jobs[j] EXCEPT !.order = link[j]]
            /\ journal'[j] = Append(journal[j], [action |-> "update", changes |-> [order |-> link[j]]])
        BY <2>2, <2>4, <3>1 DEF Record
      <3>5. /\ Record(journal[j], "update", [order |-> link[j]]) \in Seq(JournalRows)
            /\ journal'[j] # <<>>
        <4> DEFINE row == [action |-> "update", changes |-> [order |-> link[j]]]
        <4>1. row \in JournalRows /\ journal[j] \in Seq(JournalRows)
          BY <3>1, LogRows DEF Inv, JournalTyped
        <4>2. Append(journal[j], row) \in Seq(JournalRows) /\ Append(journal[j], row) # <<>>
          BY <4>1
        <4> QED
          BY <3>4, <4>2 DEF Record
      <3>6. Linked(p, j)
        BY <2>3, <2>4, <3>1, <3>3, <3>4, <3>5 DEF Linked
      <3> QED
        BY <3>1, <3>2, <3>5, <3>6
    <2>5. jobs' \in [Jobs -> Rows \cup {None}]
      BY <2>2, <2>4 DEF Inv, TypeOK
    <2>6. JournalTyped' /\ DOMAIN journal' = Jobs
      BY <2>2, <2>4 DEF Inv, JournalTyped
    <2>7. \A j \in Jobs : (jobs'[j] = jobs[j] /\ journal'[j] = journal[j]) \/ Linked(p, j)
      BY <2>2, <2>4
    <2> QED
      BY <1>1, <1>2, <2>5, <2>6, <2>7 DEF Inv, TypeOK
  <1> QED
    BY <1>3, <1>4

(* A step of anything else leaves the jobs and their logs alone.           *)
OtherStep == \/ \E p \in Passes : BeginPass(p)
             \/ \E o \in Orders : ImportOrder(o)
             \/ SaveMatching \/ Tick \/ UNCHANGED vars

LEMMA OtherSteps ==
    ASSUME Inv, OtherStep
    PROVE  /\ UNCHANGED <<jobs, journal, req>> /\ Inv'
           /\ \/ pass' = pass
              \/ \E p \in Passes :
                    /\ pass[p] = None /\ \A q \in Passes \ {p} : pass'[q] = pass[q]
                    /\ pass'[p] = [j \in {i \in Jobs : Unlinked(i)} |-> jobs[j]]
  <1>1. ASSUME NEW p \in Passes, BeginPass(p) PROVE Inv'
    <2>1. pass'[p] = [j \in {i \in Jobs : Unlinked(i)} |-> jobs[j]]
          /\ \A q \in Passes \ {p} : pass'[q] = pass[q]
          /\ DOMAIN pass' = Passes
      BY <1>1 DEF BeginPass, Inv, TypeOK
    <2>2. \A i \in Jobs : Unlinked(i) => jobs[i] \in Rows
      BY DEF Unlinked, Inv, TypeOK
    <2>3. \A q \in Passes : pass'[q] # None =>
              DOMAIN pass'[q] \subseteq Jobs /\ \A j \in DOMAIN pass'[q] : pass'[q][j] \in Rows
      BY <2>1, <2>2 DEF Inv, TypeOK
    <2> QED
      BY <1>1, <2>1, <2>3 DEF BeginPass, Inv, TypeOK, RequestsOK, JournalTyped
  <1>2. ASSUME NEW o \in Orders, ImportOrder(o) PROVE Inv'
    BY <1>2 DEF ImportOrder, Inv, TypeOK, RequestsOK, JournalTyped
  <1>3. CASE SaveMatching
    BY <1>3 DEF SaveMatching, Inv, TypeOK, RequestsOK, JournalTyped
  <1>4. CASE Tick
    BY <1>4, SizeAssumption DEF Tick, Ticks, Inv, TypeOK, RequestsOK, JournalTyped
  <1>5. CASE UNCHANGED vars
    BY <1>5 DEF vars, Inv, TypeOK, RequestsOK, JournalTyped
  <1>6. UNCHANGED <<jobs, journal, req>>
    BY DEF OtherStep, BeginPass, ImportOrder, SaveMatching, Tick, vars
  <1>7. \/ pass' = pass
        \/ \E p \in Passes :
              /\ pass[p] = None /\ \A q \in Passes \ {p} : pass'[q] = pass[q]
              /\ pass'[p] = [j \in {i \in Jobs : Unlinked(i)} |-> jobs[j]]
    BY DEF OtherStep, BeginPass, ImportOrder, SaveMatching, Tick, vars, Inv, TypeOK
  <1> QED
    BY <1>1, <1>2, <1>3, <1>4, <1>5, <1>6, <1>7 DEF OtherStep

(* Every step is one of these.                                             *)
ReceivedBy(t, op, j, f) ==
    /\ op = "delete" <=> f = None
    /\ Receive(t, op, j, f)
    /\ IF op = "create"
       THEN /\ jobs[j] = None /\ journal[j] = <<>>
            /\ \A s \in Threads : InFlight(s) => req[s].job # j
       ELSE journal[j] # <<>>

LEMMA NextSteps ==
    ASSUME [Next]_vars
    PROVE  \/ \E t \in Threads, op \in Ops, j \in Jobs, f \in Forms \cup {None} :
                 ReceivedBy(t, op, j, f)
           \/ \E t \in Threads : EarlyStep(t) \/ CommitStep(t)
           \/ \E p \in Passes : CommitPass(p)
           \/ OtherStep
  <1>1. ASSUME NEW t \in Threads, NEW j \in Jobs, NEW f \in Forms,
               ReceiveCreate(t, j, f) \/ ReceiveUpdate(t, j, f)
        PROVE  \E op \in Ops : ReceivedBy(t, op, j, f)
    BY <1>1, NoneAssumption DEF ReceiveCreate, ReceiveUpdate, ReceivedBy, Ops
  <1>2. ASSUME NEW t \in Threads, NEW j \in Jobs, ReceiveDelete(t, j)
        PROVE  ReceivedBy(t, "delete", j, None) /\ "delete" \in Ops
    BY <1>2 DEF ReceiveDelete, ReceivedBy, Ops
  <1>3. None \in Forms \cup {None}
    OBVIOUS
  <1> QED
    BY <1>1, <1>2, <1>3 DEF Next, Matching, EarlyStep, CommitStep, OtherStep

LEMMA InvInit == Init => Inv
  BY SizeAssumption, NoneAssumption DEF Init, Inv, TypeOK, RequestsOK, JournalTyped, Ticks

LEMMA InvNext == Inv /\ [Next]_vars => Inv'
  <1> SUFFICES ASSUME Inv, [Next]_vars PROVE Inv'
    OBVIOUS
  <1> QED
    BY NextSteps, ReceiveStep, EarlySteps, CommitSteps, PassSteps, OtherSteps DEF ReceivedBy

(* Every variable keeps its type.                                          *)
THEOREM TypeCorrect == Spec => []TypeOK
  <1>1. Inv => TypeOK
    BY DEF Inv
  <1> QED
    BY <1>1, InvInit, InvNext, PTL DEF Spec

-----------------------------------------------------------------------------
(* The AUDIT rule *)

Replays(j) ==
    /\ jobs[j] # None <=> Standing(journal[j])
    /\ jobs[j] # None => \A c \in Columns : LastTold(journal[j], c, jobs[j][c])

LEMMA CommitReplays ==
    ASSUME Inv, LogReplays, NEW t \in Threads, CommitStep(t), NEW j, j = req[t].job
    PROVE  Replays(j)'
  <1>1. PICK r : r = req[t]
    OBVIOUS
  <1>2. /\ r.step = "commit" /\ RequestOK(r) /\ j \in Jobs /\ Committed(r, j)
        /\ r.op # "delete" => r.form \in Forms
        /\ r.op # "create" => r.loaded \in Rows
    BY <1>1, CommitSteps, RequestType
  <1>3. Replays(j) /\ journal[j] \in Seq(JournalRows)
    BY <1>2 DEF LogReplays, Replays, Inv, JournalTyped
  <1>4. CASE jobs'[j] = jobs[j] /\ journal'[j] = journal[j]
    BY <1>3, <1>4 DEF Replays
  <1>5. CASE /\ r.op = "create" /\ jobs'[j] = ToRow(r.form)
             /\ journal'[j] = Append(journal[j], [action |-> "create", changes |-> r.form])
    <2> DEFINE row == [action |-> "create", changes |-> r.form]
    <2>1. row \in JournalRows /\ ToRow(r.form) \in Rows /\ \A c \in Columns : ToRow(r.form)[c] = r.form[c]
      BY <1>2, <1>5, LogRows, NewRow DEF Inv
    <2>2. Standing(journal'[j])
      BY <1>3, <1>5, <2>1, AppendStanding
    <2>3. ASSUME NEW c \in Columns PROVE LastTold(journal'[j], c, jobs'[j][c])
      <3>1. c \in DOMAIN row.changes
        BY <1>2, <1>5, FormFields
      <3>2. LastTold(Append(journal[j], row), c, row.changes[c])
        BY <1>3, <2>1, <3>1, AppendTold
      <3> QED
        BY <1>5, <2>1, <3>2
    <2> QED
      BY <1>5, <2>1, <2>2, <2>3, NoneAssumption DEF Replays
  <1>6. CASE /\ r.op = "update" /\ jobs[j] \in Rows /\ jobs'[j] = Merge(r.loaded, r.form, jobs[j])
             /\ journal'[j] =
                   Append(journal[j], [action |-> "update", changes |-> Changes(r.loaded, r.form)])
    <2> DEFINE row == [action |-> "update", changes |-> Changes(r.loaded, r.form)]
    <2>1. /\ row \in JournalRows /\ jobs'[j] \in Rows
          /\ \A c \in Columns :
                jobs'[j][c] = IF r.form[c] # r.loaded[c] THEN r.form[c] ELSE jobs[j][c]
      BY <1>2, <1>6, LogRows, MergeRow
    <2>2. Standing(journal'[j])
      BY <1>3, <1>6, <2>1, AppendStanding
    <2>3. ASSUME NEW c \in Columns PROVE LastTold(journal'[j], c, jobs'[j][c])
      <3>1. CASE r.form[c] # r.loaded[c]
        <4>1. c \in DOMAIN row.changes /\ row.changes[c] = r.form[c]
          BY <3>1 DEF Changes
        <4>2. LastTold(Append(journal[j], row), c, row.changes[c])
          BY <1>3, <2>1, <4>1, AppendTold
        <4> QED
          BY <1>6, <2>1, <3>1, <4>1, <4>2
      <3>2. CASE r.form[c] = r.loaded[c]
        <4>1. c \notin DOMAIN row.changes
          BY <3>2 DEF Changes
        <4>2. LastTold(journal[j], c, jobs[j][c])
          BY <1>3, <1>6, NoneAssumption DEF Replays
        <4>3. LastTold(Append(journal[j], row), c, jobs[j][c])
          BY <1>3, <2>1, <4>1, <4>2, AppendUntold
        <4> QED
          BY <1>6, <2>1, <3>2, <4>3
      <3> QED
        BY <3>1, <3>2
    <2> QED
      BY <2>1, <2>2, <2>3, NoneAssumption DEF Replays
  <1>7. CASE /\ r.op = "delete" /\ jobs'[j] = None
             /\ journal'[j] = Append(journal[j], [action |-> "delete", changes |-> View(r.loaded)])
    <2>1. [action |-> "delete", changes |-> View(r.loaded)] \in JournalRows
      BY <1>2, <1>7, LogRows
    <2>2. ~Standing(journal'[j])
      BY <1>3, <1>7, <2>1, AppendStanding
    <2> QED
      BY <1>7, <2>2 DEF Replays
  <1> QED
    BY <1>2, <1>4, <1>5, <1>6, <1>7 DEF Committed

LEMMA LinkReplays ==
    ASSUME Inv, LogReplays, NEW p \in Passes, NEW j \in Jobs, Linked(p, j)
    PROVE  Replays(j)'
  <1>1. PICK o \in Orders :
            /\ jobs[j] \in Rows /\ jobs'[j] = [jobs[j] EXCEPT !.order = o]
            /\ journal'[j] = Append(journal[j], [action |-> "update", changes |-> [order |-> o]])
    BY DEF Linked
  <1> DEFINE row == [action |-> "update", changes |-> [order |-> o]]
  <1>2. Replays(j) /\ journal[j] \in Seq(JournalRows) /\ row \in JournalRows
    BY LogRows DEF LogReplays, Replays, Inv, JournalTyped
  <1>3. /\ jobs'[j] \in Rows /\ jobs'[j]["order"] = o
        /\ \A c \in Columns \ {"order"} : jobs'[j][c] = jobs[j][c]
    BY <1>1 DEF Rows, Columns
  <1>4. LastTold(journal'[j], "order", o)
    <2>1. "order" \in DOMAIN row.changes /\ row.changes["order"] = o
      OBVIOUS
    <2> QED
      BY <1>1, <1>2, <2>1, AppendTold
  <1>5. ASSUME NEW c \in Columns \ {"order"} PROVE LastTold(journal'[j], c, jobs[j][c])
    <2>1. LastTold(journal[j], c, jobs[j][c])
      BY <1>1, <1>2, NoneAssumption DEF Replays
    <2>2. c \notin DOMAIN row.changes /\ row.action = "update"
      OBVIOUS
    <2>3. LastTold(Append(journal[j], row), c, jobs[j][c])
      BY <1>2, <2>1, <2>2, AppendUntold
    <2> QED
      BY <1>1, <2>3
  <1>6. Standing(journal'[j])
    BY <1>1, <1>2, AppendStanding
  <1> QED
    BY <1>3, <1>4, <1>5, <1>6, NoneAssumption DEF Replays

LEMMA ReplaysInit == Init => LogReplays
  BY DEF Init, LogReplays, Standing

LEMMA ReplaysNext == Inv /\ LogReplays /\ [Next]_vars => LogReplays'
  <1> SUFFICES ASSUME Inv, LogReplays, [Next]_vars PROVE LogReplays'
    OBVIOUS
  <1>1. ASSUME UNCHANGED <<jobs, journal>> PROVE LogReplays'
    BY <1>1 DEF LogReplays
  <1>2. ASSUME NEW t \in Threads, CommitStep(t) PROVE LogReplays'
    <2>1. PICK j : j = req[t].job
      OBVIOUS
    <2>2. Replays(j)' /\ \A i \in Jobs \ {j} : jobs'[i] = jobs[i] /\ journal'[i] = journal[i]
      BY <1>2, <2>1, CommitReplays, CommitSteps
    <2> QED
      BY <2>2 DEF LogReplays, Replays
  <1>3. ASSUME NEW p \in Passes, CommitPass(p) PROVE LogReplays'
    <2>1. \A j \in Jobs : Linked(p, j) => Replays(j)'
      BY LinkReplays
    <2>2. \A j \in Jobs : jobs'[j] = jobs[j] /\ journal'[j] = journal[j] => Replays(j)'
      BY DEF LogReplays, Replays
    <2> QED
      BY <1>3, <2>1, <2>2, PassSteps DEF LogReplays, Replays
  <1> QED
    BY <1>1, <1>2, <1>3, NextSteps, ReceiveStep, EarlySteps, OtherSteps DEF ReceivedBy

(* The audit log of a job tells what became of it, under any interleaving  *)
(* of requests and match passes, overlapping ones included.                *)
THEOREM LogTells == Spec => []LogReplays
  <1>1. Init => Inv /\ LogReplays
    BY InvInit, ReplaysInit
  <1>2. Inv /\ LogReplays /\ [Next]_vars => (Inv /\ LogReplays)'
    BY InvNext, ReplaysNext
  <1> QED
    BY <1>1, <1>2, PTL DEF Spec

-----------------------------------------------------------------------------
(* The match window *)

LEMMA FreshInit == Init => FreshIds /\ ReadJobs
  BY DEF Init, FreshIds, ReadJobs

LEMMA FreshNext == Inv /\ FreshIds /\ [Next]_vars => FreshIds'
  <1> SUFFICES ASSUME Inv, FreshIds, [Next]_vars PROVE FreshIds'
    OBVIOUS
  <1>1. ASSUME NEW t \in Threads, NEW op \in Ops, NEW j \in Jobs, NEW f \in Forms \cup {None},
               ReceivedBy(t, op, j, f)
        PROVE  FreshIds'
    <2>1. /\ req'[t] # None /\ req'[t].op = op /\ req'[t].job = j
          /\ \A s \in Threads \ {t} : req'[s] = req[s]
          /\ UNCHANGED <<jobs, journal>>
      BY <1>1, ReceiveStep DEF ReceivedBy
    <2> QED
      BY <1>1, <2>1 DEF ReceivedBy, FreshIds
  <1>2. ASSUME NEW t \in Threads, EarlyStep(t) PROVE FreshIds'
    BY <1>2, EarlySteps DEF FreshIds
  <1>3. ASSUME NEW t \in Threads, CommitStep(t) PROVE FreshIds'
    <2>1. PICK j : j = req[t].job
      OBVIOUS
    <2>2. /\ InFlight(t) /\ req'[t] = None /\ \A s \in Threads \ {t} : req'[s] = req[s]
          /\ \A i \in Jobs \ {j} : jobs'[i] = jobs[i] /\ journal'[i] = journal[i]
      BY <1>3, <2>1, CommitSteps
    <2>3. \A s \in Threads : InFlight(s) => req[s].job \in Jobs
      BY RequestType
    <2> QED
      BY <2>1, <2>2, <2>3 DEF FreshIds
  <1>4. ASSUME NEW p \in Passes, CommitPass(p) PROVE FreshIds'
    <2>1. \A j \in Jobs : jobs[j] = None => jobs'[j] = jobs[j] /\ journal'[j] = journal[j]
      BY <1>4, PassSteps, NoneAssumption DEF Linked
    <2>2. \A s \in Threads : InFlight(s) => req[s].job \in Jobs
      BY RequestType
    <2>3. req' = req
      BY <1>4, PassSteps
    <2> QED
      BY <2>1, <2>2, <2>3 DEF FreshIds
  <1>5. CASE OtherStep
    BY <1>5, OtherSteps DEF FreshIds
  <1> QED
    BY <1>1, <1>2, <1>3, <1>4, <1>5, NextSteps

LEMMA ReadNext == Inv /\ LogReplays /\ FreshIds /\ ReadJobs /\ [Next]_vars => ReadJobs'
  <1> SUFFICES ASSUME Inv, LogReplays, FreshIds, ReadJobs, [Next]_vars PROVE ReadJobs'
    OBVIOUS
  <1>1. \A p \in Passes : pass[p] # None => DOMAIN pass[p] \subseteq Jobs
    BY DEF Inv, TypeOK
  <1>2. ASSUME UNCHANGED <<jobs, journal, pass>> PROVE ReadJobs'
    BY <1>2 DEF ReadJobs
  <1>3. ASSUME NEW t \in Threads, CommitStep(t) PROVE ReadJobs'
    <2>1. PICK j, r : j = req[t].job /\ r = req[t]
      OBVIOUS
    <2>2. /\ InFlight(t) /\ pass' = pass /\ Committed(r, j)
          /\ \A i \in Jobs \ {j} : jobs'[i] = jobs[i] /\ journal'[i] = journal[i]
      BY <1>3, <2>1, CommitSteps
    <2>3. /\ j \in Jobs /\ r.step = "commit" /\ RequestOK(r)
          /\ r.op # "delete" => r.form \in Forms
          /\ r.op # "create" => r.loaded \in Rows
      BY <1>3, <2>1, <2>2, RequestType, CommitSteps
    <2>4. ASSUME NEW p \in Passes, pass[p] # None, j \in DOMAIN pass[p]
          PROVE  journal'[j] # <<>> /\ (jobs'[j] # None => jobs'[j].created = pass[p][j].created)
      <3>1. journal[j] # <<>> /\ (jobs[j] # None => jobs[j].created = pass[p][j].created)
        BY <2>4 DEF ReadJobs
      <3>2. r.op # "create"
        BY <2>1, <2>2, <3>1 DEF FreshIds
      <3>3. journal'[j] # <<>>
        BY <1>3, <2>1, <3>1, CommitSteps
      <3>4. CASE jobs'[j] = jobs[j] /\ journal'[j] = journal[j]
        BY <3>1, <3>4
      <3>5. CASE r.op = "update" /\ jobs[j] \in Rows /\ jobs'[j] = Merge(r.loaded, r.form, jobs[j])
        <4>1. jobs'[j].created = jobs[j].created
          BY <2>3, <3>5, MergeRow
        <4> QED
          BY <2>2, <3>1, <3>2, <3>3, <3>5, <4>1, NoneAssumption DEF Committed
      <3>6. CASE r.op = "delete" /\ jobs'[j] = None
        BY <2>2, <3>1, <3>2, <3>3, <3>6 DEF Committed
      <3> QED
        BY <2>2, <3>2, <3>4, <3>5, <3>6 DEF Committed
    <2> QED
      BY <1>1, <2>2, <2>4 DEF ReadJobs
  <1>4. ASSUME NEW p \in Passes, CommitPass(p) PROVE ReadJobs'
    <2>1. /\ pass'[p] = None /\ \A q \in Passes \ {p} : pass'[q] = pass[q]
          /\ \A j \in Jobs : (jobs'[j] = jobs[j] /\ journal'[j] = journal[j]) \/ Linked(p, j)
      BY <1>4, PassSteps
    <2>2. ASSUME NEW j \in Jobs, Linked(p, j)
          PROVE  journal'[j] # <<>> /\ jobs'[j].created = jobs[j].created /\ jobs[j] # None
      <3>1. PICK o \in Orders :
                /\ jobs[j] \in Rows /\ jobs'[j] = [jobs[j] EXCEPT !.order = o]
                /\ journal'[j] =
                      Append(journal[j], [action |-> "update", changes |-> [order |-> o]])
        BY <2>2 DEF Linked
      <3>2. journal'[j] # <<>>
        BY <2>2 DEF Linked
      <3> QED
        BY <3>1, <3>2, NoneAssumption DEF Rows
    <2> QED
      BY <1>1, <2>1, <2>2 DEF ReadJobs
  <1>5. CASE OtherStep
    <2>1. /\ UNCHANGED <<jobs, journal>>
          /\ \/ pass' = pass
             \/ \E p \in Passes :
                   /\ pass[p] = None /\ \A q \in Passes \ {p} : pass'[q] = pass[q]
                   /\ pass'[p] = [j \in {i \in Jobs : Unlinked(i)} |-> jobs[j]]
      BY <1>5, OtherSteps
    <2>2. \A j \in Jobs : Unlinked(j) => journal[j] # <<>>
      BY DEF Unlinked, LogReplays, Standing
    <2>3. ASSUME NEW p \in Passes, pass[p] = None, \A q \in Passes \ {p} : pass'[q] = pass[q],
                 pass'[p] = [j \in {i \in Jobs : Unlinked(i)} |-> jobs[j]]
          PROVE  ReadJobs'
      <3>1. \A j \in DOMAIN pass'[p] : journal[j] # <<>> /\ pass'[p][j] = jobs[j]
        BY <2>2, <2>3
      <3> QED
        BY <2>1, <2>3, <3>1 DEF ReadJobs
    <2> QED
      BY <1>2, <2>1, <2>3
  <1>6. ASSUME NEW t \in Threads, EarlyStep(t) PROVE ReadJobs'
    BY <1>2, <1>6, EarlySteps
  <1>7. ASSUME NEW t \in Threads, NEW op \in Ops, NEW j \in Jobs, NEW f \in Forms \cup {None},
               ReceivedBy(t, op, j, f)
        PROVE  ReadJobs'
    BY <1>2, <1>7, ReceiveStep DEF ReceivedBy
  <1> QED
    BY <1>3, <1>4, <1>5, <1>6, <1>7, NextSteps

WindowKept ==
    \A p \in Passes, j \in Jobs :
        pass[p] # None /\ pass'[p] = None /\ jobs'[j] # jobs[j] =>
            LET o == jobs'[j].order IN
            orders[o] >= jobs[j].created /\ orders[o] <= jobs[j].created + MATCH_WINDOW

LEMMA WindowStep == Inv /\ ReadJobs /\ [Next]_vars => [WindowKept]_vars
  <1> SUFFICES ASSUME Inv, ReadJobs, Next, NEW p \in Passes, NEW j \in Jobs,
                      pass[p] # None, pass'[p] = None, jobs'[j] # jobs[j]
               PROVE  /\ orders[jobs'[j].order] >= jobs[j].created
                      /\ orders[jobs'[j].order] <= jobs[j].created + MATCH_WINDOW
    BY DEF WindowKept
  <1>1. PICK q \in Passes : CommitPass(q)
    <2>1. ASSUME pass' = pass PROVE FALSE
      BY <2>1
    <2>2. ASSUME OtherStep PROVE FALSE
      BY <2>2, OtherSteps
    <2> QED
      BY <2>1, <2>2, NextSteps, ReceiveStep, EarlySteps, CommitSteps DEF ReceivedBy
  <1>2. p = q /\ Linked(q, j)
    BY <1>1, PassSteps
  <1>3. PICK o \in Orders :
            /\ j \in DOMAIN pass[p] /\ o \in Candidates(pass[p][j])
            /\ jobs[j] \in Rows /\ jobs'[j] = [jobs[j] EXCEPT !.order = o]
    BY <1>2 DEF Linked
  <1>4. jobs'[j].order = o /\ jobs[j].created = pass[p][j].created /\ jobs[j].created \in Int
    BY <1>3, NoneAssumption DEF Rows, Ticks, ReadJobs
  <1>5. orders[o] \in jobs[j].created .. jobs[j].created + MATCH_WINDOW
    BY <1>3, <1>4 DEF Candidates
  <1> QED
    BY <1>4, <1>5, SizeAssumption

(* A pass links a job only to a work order imported in the window after    *)
(* the job was made, whatever became of job, order and clock between the   *)
(* reading and the commit.                                                 *)
THEOREM WindowHolds == Spec => LinksWithinWindow
  <1>1. Init => Inv /\ LogReplays /\ FreshIds /\ ReadJobs
    BY InvInit, ReplaysInit, FreshInit
  <1>2. Inv /\ LogReplays /\ FreshIds /\ ReadJobs /\ [Next]_vars =>
            (Inv /\ LogReplays /\ FreshIds /\ ReadJobs)'
    BY InvNext, ReplaysNext, FreshNext, ReadNext
  <1>3. Inv /\ ReadJobs /\ [Next]_vars => [WindowKept]_vars
    BY WindowStep
  <1> QED
    BY <1>1, <1>2, <1>3, PTL DEF Spec, LinksWithinWindow, WindowKept

-----------------------------------------------------------------------------
(* Slots *)

(* A job in its place before and after, or gone.                           *)
SamePlace(j) ==
    /\ jobs'[j] # None => jobs[j] # None
    /\ jobs'[j] # None => /\ jobs'[j].lane = jobs[j].lane /\ jobs'[j].start = jobs[j].start
                          /\ jobs'[j].end = jobs[j].end

(* A commit takes its job to the slot it has validated, or nowhere.        *)
LEMMA CommitPlaces ==
    ASSUME Inv, SlotsHeld, NEW t \in Threads, CommitStep(t), NEW j, j = req[t].job,
           NEW f, f = req[t].form
    PROVE  \/ SamePlace(j)
           \/ /\ f \in Forms /\ SlotValid(f, j)
              /\ jobs'[j] # None /\ jobs'[j].lane = f.lane
              /\ jobs'[j].start = f.start /\ jobs'[j].end = f.end
  <1>1. PICK r : r = req[t]
    OBVIOUS
  <1>2. /\ r.step = "commit" /\ RequestOK(r) /\ j \in Jobs /\ Committed(r, j)
        /\ r.op # "delete" => r.form \in Forms
        /\ r.op # "create" => r.loaded \in Rows
        /\ SlotHeld(r)
    BY <1>1, CommitSteps, RequestType DEF SlotsHeld
  <1>3. ASSUME r.op # "delete" PROVE f \in Forms /\ SlotValid(f, j)
    BY <1>1, <1>2, <1>3, FormFields DEF SlotHeld
  <1>4. CASE r.op = "create" /\ jobs'[j] = ToRow(r.form)
    BY <1>1, <1>3, <1>4, NewRow, NoneAssumption DEF Inv
  <1>5. CASE r.op = "update" /\ jobs[j] \in Rows /\ jobs'[j] = Merge(r.loaded, r.form, jobs[j])
    <2>1. /\ r.loaded.lane = jobs[j].lane /\ r.loaded.start = jobs[j].start
          /\ r.loaded.end = jobs[j].end
      BY <1>1, <1>2, <1>5, NoneAssumption DEF SlotHeld
    <2>2. /\ jobs'[j] \in Rows
          /\ \A c \in Columns :
                jobs'[j][c] = IF f[c] # r.loaded[c] THEN f[c] ELSE jobs[j][c]
      BY <1>1, <1>2, <1>5, MergeRow
    <2>3. {"lane", "start", "end"} \subseteq Columns
      BY DEF Columns
    <2>4. jobs'[j].lane = f.lane /\ jobs'[j].start = f.start /\ jobs'[j].end = f.end
      BY <2>1, <2>2, <2>3
    <2> QED
      BY <1>3, <1>5, <2>2, <2>4, NoneAssumption
  <1>6. CASE jobs'[j] = jobs[j] \/ jobs'[j] = None
    BY <1>6 DEF SamePlace
  <1> QED
    BY <1>2, <1>4, <1>5, <1>6 DEF Committed

LEMMA SlotsInit == Init => SlotsHeld /\ NoOverlap
  BY DEF Init, SlotsHeld, PlacedApart, NoOverlap

(* Where every job stays where it is or goes, slots stay free.             *)
LEMMA SamePlaces ==
    ASSUME NoOverlap, \A j \in Jobs : SamePlace(j)
    PROVE  /\ NoOverlap'
           /\ \A f, j : SlotValid(f, j) => SlotValid(f, j)'
  <1>1. NoOverlap'
    BY DEF NoOverlap, SamePlace, Clash
  <1>2. \A f, j : SlotValid(f, j) => SlotValid(f, j)'
    BY DEF SlotValid, SlotFree, SamePlace, Clash
  <1> QED
    BY <1>1, <1>2

LEMMA SlotsNext ==
    ASSUME ~SlotsOverlap
    PROVE  Inv /\ SlotsHeld /\ NoOverlap /\ [Next]_vars => (SlotsHeld /\ NoOverlap)'
  <1> SUFFICES ASSUME Inv, SlotsHeld, NoOverlap, [Next]_vars PROVE (SlotsHeld /\ NoOverlap)'
    OBVIOUS
  <1>1. ASSUME UNCHANGED <<jobs, req>> PROVE (SlotsHeld /\ NoOverlap)'
    BY <1>1 DEF SlotsHeld, PlacedApart, SlotHeld, SlotValid, SlotFree, NoOverlap
  <1>2. ASSUME NEW r, jobs' = jobs, SlotHeld(r) PROVE SlotHeld(r)'
    BY <1>2 DEF SlotHeld, SlotValid, SlotFree
  <1>3. ASSUME jobs' = jobs PROVE NoOverlap'
    BY <1>3 DEF NoOverlap
  <1>4. ASSUME NEW t \in Threads, NEW op \in Ops, NEW j \in Jobs, NEW f \in Forms \cup {None},
               ReceivedBy(t, op, j, f)
        PROVE  (SlotsHeld /\ NoOverlap)'
    <2>1. /\ req'[t] # None /\ req'[t].op = op /\ req'[t].job = j /\ req'[t].form = f
          /\ req'[t].step \in {"load", "validate"} /\ (op # "create" => req'[t].step = "load")
          /\ \A s \in Threads \ {t} : req'[s] = req[s]
          /\ jobs' = jobs
      BY <1>4, ReceiveStep DEF ReceivedBy
    <2>2. f # None => \A s \in Threads : InFlight(s) /\ req[s].form # None =>
                          req[s].job # j /\ req[s].form.lane # f.lane
      BY <1>4 DEF ReceivedBy, Receive, MayJoin
    <2>3. PlacedApart'
      BY <2>1, <2>2 DEF SlotsHeld, PlacedApart
    <2>4. SlotHeld(req[t])'
      BY <2>1 DEF SlotHeld
    <2>5. \A s \in Threads \ {t} : InFlight(s) => SlotHeld(req[s])'
      BY <1>2, <2>1 DEF SlotsHeld
    <2> QED
      BY <1>3, <2>1, <2>3, <2>4, <2>5 DEF SlotsHeld
  <1>5. ASSUME NEW t \in Threads, EarlyStep(t) PROVE (SlotsHeld /\ NoOverlap)'
    <2>1. /\ InFlight(t) /\ jobs' = jobs /\ \A s \in Threads \ {t} : req'[s] = req[s]
          /\ req'[t] # None =>
                 /\ RequestOK(req'[t]) /\ req'[t].op = req[t].op /\ req'[t].job = req[t].job
                 /\ req'[t].form = req[t].form
                 /\ \/ /\ Validate(t) /\ req'[t].step = "commit" /\ req'[t].loaded = req[t].loaded
                       /\ SlotValid(req[t].form, req[t].job)
                    \/ /\ Load(t) /\ req'[t].loaded = jobs[req[t].job]
                       /\ req'[t].step = IF req[t].op = "update" THEN "validate" ELSE "commit"
                       /\ jobs[req[t].job] # None
      BY <1>5, EarlySteps
    <2>2. PlacedApart'
      BY <2>1 DEF SlotsHeld, PlacedApart
    <2>3. ASSUME req'[t] # None PROVE SlotHeld(req[t])'
      <3>1. CASE Validate(t)
        <4>1. /\ SlotHeld(req[t]) /\ req[t].step = "validate"
              /\ req'[t].loaded = req[t].loaded /\ SlotValid(req[t].form, req[t].job)
          BY <2>1, <2>3, <3>1 DEF SlotsHeld, Validate, Load
        <4> QED
          BY <2>1, <2>3, <4>1 DEF SlotHeld, SlotValid, SlotFree
      <3>2. CASE Load(t)
        <4>1. /\ req'[t].loaded = jobs[req[t].job] /\ RequestOK(req[t]) /\ req[t].op \in Ops
              /\ req'[t].step = IF req[t].op = "update" THEN "validate" ELSE "commit"
              /\ req[t].op # "create"
          BY <2>1, <2>3, <3>2, RequestType DEF Load, Validate, Requests, RequestOK
        <4> QED
          BY <2>1, <2>3, <4>1 DEF SlotHeld, RequestOK, Ops
      <3> QED
        BY <1>5, <2>1, <2>3, <3>1, <3>2
    <2>4. \A s \in Threads \ {t} : InFlight(s) => SlotHeld(req[s])'
      BY <1>2, <2>1 DEF SlotsHeld
    <2> QED
      BY <1>3, <2>1, <2>2, <2>3, <2>4 DEF SlotsHeld
  <1>6. ASSUME NEW t \in Threads, CommitStep(t) PROVE (SlotsHeld /\ NoOverlap)'
    <2>1. PICK j, f : j = req[t].job /\ f = req[t].form
      OBVIOUS
    <2>2. /\ InFlight(t) /\ req'[t] = None /\ \A s \in Threads \ {t} : req'[s] = req[s]
          /\ \A i \in Jobs \ {j} : jobs'[i] = jobs[i]
          /\ j \in Jobs
      BY <1>6, <2>1, CommitSteps, RequestType
    <2>3. PlacedApart'
      BY <2>2 DEF SlotsHeld, PlacedApart
    <2>4. CASE SamePlace(j)
      <3>1. \A i \in Jobs : SamePlace(i)
        BY <2>2, <2>4 DEF SamePlace
      <3>2. NoOverlap' /\ \A g, i : SlotValid(g, i) => SlotValid(g, i)'
        BY <3>1, SamePlaces
      <3>3. ASSUME NEW s \in Threads \ {t}, InFlight(s) PROVE SlotHeld(req[s])'
        <4>1. SlotHeld(req[s]) /\ req'[s] = req[s] /\ req[s].job \in Jobs
          BY <2>2, <3>3, RequestType DEF SlotsHeld
        <4> QED
          BY <3>1, <3>2, <4>1 DEF SlotHeld, SamePlace
      <3> QED
        BY <2>2, <2>3, <3>2, <3>3 DEF SlotsHeld
    <2>5. CASE /\ f \in Forms /\ SlotValid(f, j)
               /\ jobs'[j] # None /\ jobs'[j].lane = f.lane
               /\ jobs'[j].start = f.start /\ jobs'[j].end = f.end
      <3>1. /\ f # None /\ f.start \in Int /\ f.end \in Int /\ f.start < f.end
        BY <2>5, FormFields
      <3>2. NoOverlap'
        BY <2>2, <2>5, <3>1 DEF NoOverlap, SlotValid, SlotFree, Clash
      <3>3. ASSUME NEW s \in Threads \ {t}, InFlight(s) PROVE SlotHeld(req[s])'
        <4>1. /\ SlotHeld(req[s]) /\ req'[s] = req[s]
              /\ req[s].op = "update" => req[s].form # None
          BY <2>2, <3>3, RequestType DEF SlotsHeld, RequestOK
        <4>2. req[s].form # None => req[s].job # j /\ req[s].form.lane # f.lane
          BY <2>1, <2>2, <3>1, <3>3 DEF SlotsHeld, PlacedApart
        <4>3. ASSUME req[s].form # None, SlotValid(req[s].form, req[s].job)
              PROVE  SlotValid(req[s].form, req[s].job)'
          BY <2>2, <2>5, <4>1, <4>2, <4>3 DEF SlotValid, SlotFree, Clash
        <4>4. req[s].job \in Jobs
          BY <3>3, RequestType
        <4> QED
          BY <2>2, <4>1, <4>2, <4>3, <4>4 DEF SlotHeld
      <3> QED
        BY <2>2, <2>3, <3>2, <3>3 DEF SlotsHeld
    <2> QED
      BY <1>6, <2>1, <2>4, <2>5, CommitPlaces
  <1>7. ASSUME NEW p \in Passes, CommitPass(p) PROVE (SlotsHeld /\ NoOverlap)'
    <2>1. req' = req /\ \A j \in Jobs : SamePlace(j)
      <3>1. \A j \in Jobs : Linked(p, j) => SamePlace(j)
        BY NoneAssumption DEF Linked, SamePlace, Rows
      <3> QED
        BY <1>7, <3>1, PassSteps DEF SamePlace
    <2>2. NoOverlap' /\ \A f, j : SlotValid(f, j) => SlotValid(f, j)'
      BY <2>1, SamePlaces
    <2>3. ASSUME NEW s \in Threads, InFlight(s) PROVE SlotHeld(req[s])'
      <3>1. SlotHeld(req[s]) /\ req[s].job \in Jobs
        BY <2>3, RequestType DEF SlotsHeld
      <3> QED
        BY <2>1, <2>2, <3>1 DEF SlotHeld, SamePlace
    <2> QED
      BY <2>1, <2>2, <2>3 DEF SlotsHeld, PlacedApart
  <1>8. CASE OtherStep
    BY <1>1, <1>8, OtherSteps
  <1> QED
    BY <1>4, <1>5, <1>6, <1>7, <1>8, NextSteps

(* Where no two requests place one job, or a job in one lane, no two jobs  *)
(* ever overlap, whatever moves in other lanes, deletions and match passes *)
(* come between the validation of a slot and its commit.                   *)
THEOREM SlotsHold == ASSUME ~SlotsOverlap PROVE Spec => []NoOverlap
  <1>1. Init => Inv /\ SlotsHeld /\ NoOverlap
    BY InvInit, SlotsInit
  <1>2. Inv /\ SlotsHeld /\ NoOverlap /\ [Next]_vars => (Inv /\ SlotsHeld /\ NoOverlap)'
    BY InvNext, SlotsNext
  <1> QED
    BY <1>1, <1>2, PTL DEF Spec
=============================================================================
