--------------------------- MODULE WorkOrderImport ---------------------------
(***************************************************************************)
(* The import of work orders from 1C: services/import_service.py with the  *)
(* classification of services/internal_order_rules.py, and the stub rows   *)
(* that a plate lookup inserts (planner_service.py).                       *)
(*                                                                         *)
(* An import works through its payload in chunks.  A chunk is one          *)
(* transaction: it holds the row locks of its work orders from their       *)
(* upsert to the commit, so it is one step here.  The counts are saved in  *)
(* a commit of their own after each chunk, and the is_internal flags of    *)
(* the cars in the payload are recomputed after the last.  Any chunk, and  *)
(* the recomputation, may fail and be rolled back; any request may be      *)
(* killed between two commits.                                             *)
(*                                                                         *)
(* Orders are numbered by document date, the order classify_car_group      *)
(* sorts by; the number stands for (source_system, external_number).       *)
(* Status history, payment events and invoices are left out: each is an    *)
(* upsert keyed by 1C's own ids.                                           *)
(***************************************************************************)
EXTENDS Integers, Sequences, FiniteSets, FiniteSetsExt

CONSTANTS
    NOrders, Cars, Contents, \* contents: what the labour and part lines may say
    LookedUp,        \* the orders a plate lookup may come upon
    Payloads,        \* the payloads 1C may send, each a sequence of records
    Slots,           \* import requests in flight
    CHUNK_SIZE, MaxBatches,
    ImportsOverlap,  \* may imports overlap that share a car or an order
    CarsReassigned,  \* may 1C send an order with another VIN than it had
    None

Orders == 1..NOrders
Payers == {"house", "other", "empty"}

(* house: one of INTERNAL_ORGANIZATIONS, or of INTERNAL_PAYERS.  A repair  *)
(* request (doc_type) has a number space of its own.  car is normalize_vin *)
(* of the VIN, None for anything that is not one.                          *)
Records == [order: Orders, kind: {"external", "own", "request"}, org: {"house", "other"},
            payer: Payers, car: Cars \cup {None}, paid: Nat \cup {None}, content: Contents]
Stub == [kind |-> "own", org |-> "other", payer |-> "empty", car |-> None,
         paid |-> None, content |-> None]

ToRow(record) == [f \in DOMAIN record \ {"order"} |-> record[f]]
CarsOf(payload) == {payload[i].car : i \in DOMAIN payload} \ {None}
OrdersOf(payload) == {payload[i].order : i \in DOMAIN payload}

Sent == UNION {Range(p) : p \in Payloads}
Rows == {ToRow(r) : r \in Sent} \cup {Stub}
Amounts == {r.paid : r \in Sent} \cup {None}

ASSUME CountAssumption == NOrders \in Nat /\ MaxBatches \in Nat /\ CHUNK_SIZE \in Nat \ {0}
ASSUME SwitchAssumption == ImportsOverlap \in BOOLEAN /\ CarsReassigned \in BOOLEAN
ASSUME LookUpAssumption == LookedUp \subseteq Orders
ASSUME PayloadAssumption == \A p \in Payloads : p \in Seq(Records)
ASSUME NoneAssumption == None \notin Cars \cup Nat \cup Contents \cup Rows

VARIABLES
    rows,      \* work_orders: the columns of the last record, or None
    internal,  \* the is_internal column
    lines,     \* work_order_labor_lines and _part_lines: each with its origin
    snapshots, \* work_order_payment_history: [at, paid], at the batch's beginning
    batches,   \* import_batches in order of their beginning
    import     \* what the request of each slot is doing, or None

vars == <<rows, internal, lines, snapshots, batches, import>>

Statuses == {"processing", "success", "failed"}
Steps == {"chunk", "counts", "read", "write", "finish"}
Batches == [payload: Payloads, status: Statuses, inserted: Int, updated: Int]
Requests == [batch: Nat \ {0}, next: Nat \ {0}, inserted: Int, updated: Int, errors: BOOLEAN,
             verdicts: UNION {[G -> BOOLEAN] : G \in SUBSET Orders}, step: Steps]

-----------------------------------------------------------------------------
(* Classification *)

(* classify_car_group, for order o of the orders of one car.               *)
Internal(o, group, table) ==
    LET earlier == {p \in group : p < o}
        own     == {p \in earlier : table[p].kind # "external"}
    IN  /\ \E p \in group : table[p].kind = "external"
        /\ table[o].kind # "external"
        /\ table[o].org = "house"
        /\ IF table[o].payer # "empty" THEN table[o].payer = "house"
           ELSE IF own # {} THEN table[Max(own)].payer = "house"
           ELSE Cardinality(earlier) = 1

Group(car) ==
    {o \in Orders : rows[o] # None /\ rows[o].car = car /\ rows[o].kind # "request"}

(* What _recompute_internal_flags finds for the orders of these cars.      *)
Verdicts(cars) ==
    [o \in UNION {Group(car) : car \in cars} |-> Internal(o, Group(rows[o].car), rows)]
NoVerdicts == [o \in {} |-> FALSE]

-----------------------------------------------------------------------------
(* Requests *)

InFlight(t) == import[t] # None
At(t, step) == InFlight(t) /\ import[t].step = step
Payload(t) == batches[import[t].batch].payload

(* The environment assumptions the two switches stand for.                 *)
MayStart(payload) ==
    /\ ImportsOverlap \/ \A t \in Slots : InFlight(t) =>
          /\ CarsOf(Payload(t)) \cap CarsOf(payload) = {}
          /\ OrdersOf(Payload(t)) \cap OrdersOf(payload) = {}
    /\ CarsReassigned \/ \A i \in DOMAIN payload :
          LET row == rows[payload[i].order] IN
          row # None => row.car \in {None, payload[i].car}

Start(t, payload) ==
    /\ ~InFlight(t) /\ Len(batches) < MaxBatches
    /\ MayStart(payload)
    /\ batches' = Append(batches, [payload |-> payload, status |-> "processing",
                                   inserted |-> 0, updated |-> 0])
    /\ import' = [import EXCEPT ![t] =
          [batch |-> Len(batches) + 1, next |-> 1, inserted |-> 0, updated |-> 0,
           errors |-> FALSE, verdicts |-> NoVerdicts,
           step |-> IF payload = <<>> THEN "read" ELSE "chunk"]]
    /\ UNCHANGED <<rows, internal, lines, snapshots>>

(* The positions of the chunk in the payload, and of an order in a chunk.  *)
Chunk(t) == {i \in DOMAIN Payload(t) : i \in import[t].next..(import[t].next + CHUNK_SIZE - 1)}
Of(o, payload, chunk) == {i \in chunk : payload[i].order = o}

(* ON CONFLICT DO UPDATE sets every column but is_internal; the last of    *)
(* several records of an order stays.                                      *)
Upserted(payload, chunk) ==
    [o \in Orders |->
        IF Of(o, payload, chunk) = {} THEN rows[o] ELSE ToRow(payload[Max(Of(o, payload, chunk))])]

NewLines(o, payload, chunk, batch) ==
    {[batch |-> batch, record |-> i, content |-> payload[i].content] : i \in Of(o, payload, chunk)}

(* Mutant of Replaced: the old lines stay.                                 *)
ReplacedNone(payload, chunk, batch) ==
    [o \in Orders |-> lines[o] \cup NewLines(o, payload, chunk, batch)]

(* _replace_line_items.  The DELETEs run at once, the INSERTs wait for the *)
(* flush of the commit: an order sent twice in a chunk gets both.          *)
Replaced(payload, chunk, batch) ==
    [o \in Orders |->
        IF Of(o, payload, chunk) = {} THEN lines[o] ELSE NewLines(o, payload, chunk, batch)]

(* The paid amounts the query for the latest snapshot, by observed_at, may *)
(* return: it is open which of several that one import has left.           *)
Latest(o) == {s \in snapshots[o] : \A z \in snapshots[o] : z.at <= s.at}
LastPaid(o) == IF snapshots[o] = {} THEN {None} ELSE {s.paid : s \in Latest(o)}

(* Mutant of Observed: only a new order gets a snapshot.                   *)
ObservedIfNew(payload, chunk, at, last) ==
    [o \in Orders |->
        snapshots[o] \cup {[at |-> at, paid |-> payload[i].paid] :
                           i \in {j \in Of(o, payload, chunk) :
                                     payload[j].paid # None /\ rows[o] = None}}]

(* _record_payment_history: no snapshot without a payment or of the same   *)
(* as the last; `at` is when the import began.                             *)
Observed(payload, chunk, at, last) ==
    [o \in Orders |->
        snapshots[o] \cup {[at |-> at, paid |-> payload[i].paid] :
                           i \in {j \in Of(o, payload, chunk) : payload[j].paid \notin {None, last[o]}}}]

New(payload, chunk) == {o \in Orders : rows[o] = None /\ Of(o, payload, chunk) # {}}

CommitChunk(t) ==
    LET payload == Payload(t)
        chunk   == Chunk(t)
        fresh   == Cardinality(New(payload, chunk))
    IN  /\ At(t, "chunk")
        /\ rows' = Upserted(payload, chunk)
        /\ lines' = Replaced(payload, chunk, import[t].batch)
        /\ \E last \in [Orders -> Amounts] :
              /\ \A o \in Orders : last[o] \in LastPaid(o)
              /\ snapshots' = Observed(payload, chunk, import[t].batch, last)
        /\ import' = [import EXCEPT ![t].step = "counts", ![t].inserted = @ + fresh,
                                    ![t].updated = @ + Cardinality(chunk) - fresh]
        /\ UNCHANGED <<internal, batches>>

(* A bad record, a deadlock, a lost connection: the chunk is rolled back   *)
(* and the import goes on.                                                 *)
FailChunk(t) ==
    /\ At(t, "chunk")
    /\ import' = [import EXCEPT ![t].step = "counts", ![t].errors = TRUE]
    /\ UNCHANGED <<rows, internal, lines, snapshots, batches>>

SaveCounts(t) ==
    LET next == import[t].next + CHUNK_SIZE IN
    /\ At(t, "counts")
    /\ batches' = [batches EXCEPT ![import[t].batch].inserted = import[t].inserted,
                                  ![import[t].batch].updated = import[t].updated]
    /\ import' = [import EXCEPT ![t].next = next,
                                ![t].step = IF next > Len(Payload(t)) THEN "read" ELSE "chunk"]
    /\ UNCHANGED <<rows, internal, lines, snapshots>>

(* _recompute_internal_flags: the SELECT, then the two UPDATEs.            *)
ReadCars(t) ==
    /\ At(t, "read")
    /\ import' = [import EXCEPT ![t].step = "write", ![t].verdicts = Verdicts(CarsOf(Payload(t)))]
    /\ UNCHANGED <<rows, internal, lines, snapshots, batches>>

(* Mutant of WriteFlags: flags are set and never cleared.                  *)
WriteFlagsUp(t) ==
    /\ At(t, "write")
    /\ internal' = [o \in Orders |-> internal[o] \/ (o \in DOMAIN import[t].verdicts
                                                    /\ import[t].verdicts[o])]
    /\ import' = [import EXCEPT ![t].step = "finish", ![t].verdicts = NoVerdicts]
    /\ UNCHANGED <<rows, lines, snapshots, batches>>

WriteFlags(t) ==
    /\ At(t, "write")
    /\ internal' = [o \in Orders |-> IF o \in DOMAIN import[t].verdicts THEN import[t].verdicts[o]
                                     ELSE internal[o]]
    /\ import' = [import EXCEPT ![t].step = "finish", ![t].verdicts = NoVerdicts]
    /\ UNCHANGED <<rows, lines, snapshots, batches>>

FailFlags(t) ==
    /\ At(t, "write")
    /\ import' = [import EXCEPT ![t].step = "finish", ![t].errors = TRUE, ![t].verdicts = NoVerdicts]
    /\ UNCHANGED <<rows, internal, lines, snapshots, batches>>

(* Mutant of Finish: the request goes on after its batch has ended.        *)
FinishOnly(t) ==
    /\ At(t, "finish")
    /\ batches' = [batches EXCEPT ![import[t].batch].status =
                      IF import[t].errors THEN "failed" ELSE "success"]
    /\ UNCHANGED <<rows, internal, lines, snapshots, import>>

(* Mutant of Finish: the errors of the chunks are forgotten.               *)
FinishAsSuccess(t) ==
    /\ At(t, "finish")
    /\ batches' = [batches EXCEPT ![import[t].batch].status = "success"]
    /\ import' = [import EXCEPT ![t] = None]
    /\ UNCHANGED <<rows, internal, lines, snapshots>>

Finish(t) ==
    /\ At(t, "finish")
    /\ batches' = [batches EXCEPT ![import[t].batch].status =
                      IF import[t].errors THEN "failed" ELSE "success"]
    /\ import' = [import EXCEPT ![t] = None]
    /\ UNCHANGED <<rows, internal, lines, snapshots>>

(* The process is killed, or the connection is lost outside a chunk: the   *)
(* batch stays "processing".                                               *)
Kill(t) ==
    /\ InFlight(t)
    /\ import' = [import EXCEPT ![t] = None]
    /\ UNCHANGED <<rows, internal, lines, snapshots, batches>>

-----------------------------------------------------------------------------
(* Mutant of StubRow: the lookup overwrites what it finds.                 *)
StubRowAlways(row) == Stub

(* ON CONFLICT DO NOTHING.                                                 *)
StubRow(row) == IF row = None THEN Stub ELSE row

(* get_or_create_stub_work_order, for a plate 5Systems knows.              *)
LookUpPlate(o) ==
    /\ rows' = [rows EXCEPT ![o] = StubRow(@)]
    /\ UNCHANGED <<internal, lines, snapshots, batches, import>>

Init ==
    /\ rows = [o \in Orders |-> None]
    /\ internal = [o \in Orders |-> FALSE]
    /\ lines = [o \in Orders |-> {}]
    /\ snapshots = [o \in Orders |-> {}]
    /\ batches = <<>>
    /\ import = [t \in Slots |-> None]

Next ==
    \/ \E t \in Slots, p \in Payloads : Start(t, p)
    \/ \E t \in Slots :
          \/ CommitChunk(t) \/ FailChunk(t) \/ SaveCounts(t)
          \/ ReadCars(t) \/ WriteFlags(t) \/ FailFlags(t)
          \/ Finish(t) \/ Kill(t)
    \/ \E o \in LookedUp : LookUpPlate(o)

Spec == Init /\ [][Next]_vars

-----------------------------------------------------------------------------
(* Properties *)

(* Type invariant; the batch of a request in flight is its own and not yet *)
(* ended.                                                                  *)
TypeOK ==
    /\ rows \in [Orders -> Rows \cup {None}]
    /\ internal \in [Orders -> BOOLEAN]
    /\ batches \in Seq(Batches)
    /\ import \in [Slots -> Requests \cup {None}]
    /\ \A t \in Slots : InFlight(t) =>
          /\ import[t].batch \in DOMAIN batches
          /\ batches[import[t].batch].status = "processing"
          /\ \A s \in Slots \ {t} : InFlight(s) => import[s].batch # import[t].batch

Imported(o) == rows[o] # None /\ rows[o] # Stub

(* "1C is the source of truth for a work order's current lines": its lines *)
(* are those that came with the columns it has - not twice over after a    *)
(* repeated delivery, nor mixed with those of another import.              *)
LinesMatchRow ==
    \A o \in Orders : Imported(o) =>
        \E line \in lines[o] : lines[o] = {line} /\ line.content = rows[o].content

(* The latest payment snapshot of an order is the payment its row has.     *)
LatestSnapshotMatches ==
    \A o \in Orders : Imported(o) /\ rows[o].paid # None => LastPaid(o) = {rows[o].paid}

(* The last import that sent an order with this car's VIN has succeeded,   *)
(* and none is under way.                                                  *)
Sending(car) == {b \in DOMAIN batches : car \in CarsOf(batches[b].payload)}
Settled(car) ==
    /\ Sending(car) # {} /\ batches[Max(Sending(car))].status = "success"
    /\ \A t \in Slots : InFlight(t) => import[t].batch \notin Sending(car)

(* "A work order's classification can only change if one of its car's      *)
(* siblings changed in this import": once the last import that sent orders *)
(* of a car has succeeded - whatever others failed or were killed before - *)
(* every order of the car has the flag that its orders call for.           *)
FlagsRight ==
    \A car \in Cars : Settled(car) =>
        \A o \in Group(car) : internal[o] = Internal(o, Group(car), rows)

(* The counts of a batch never tell of more than was kept, whichever chunk *)
(* failed and wherever the request was killed: no row is counted as        *)
(* inserted twice, and a batch that succeeded has counted every record.    *)
CountsHonest ==
    /\ \A b \in DOMAIN batches :
          LET batch == batches[b]
              done  == batch.inserted + batch.updated
          IN  /\ done <= Len(batch.payload)
              /\ batch.status = "success" => done = Len(batch.payload)
    /\ SumFunction([b \in DOMAIN batches |-> batches[b].inserted])
          <= Cardinality({o \in Orders : rows[o] # None})

(* A plate lookup never takes an imported order back to a stub.            *)
ImportedStays == [][\A o \in Orders : Imported(o) => Imported(o)']_vars
=============================================================================
