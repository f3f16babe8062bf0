------------------------ MODULE WorkOrderImportProofs ------------------------
(***************************************************************************)
(* Proofs about WorkOrderImport for any number of orders, cars, requests   *)
(* and batches, any payloads and any chunk size: the counts of a batch,    *)
(* the internal flags, the lines and the payment snapshots of an order     *)
(* agree with its row, and an imported order stays imported.               *)
(***************************************************************************)
EXTENDS WorkOrderImport, DataProofs

USE DEF InFlight, At

-----------------------------------------------------------------------------
(* Lemmas about the operators *)

LEMMA Greatest ==
    ASSUME NEW N \in Nat, NEW S \in SUBSET (1..N), S # {}
    PROVE  Max(S) \in S /\ \A s \in S : s <= Max(S)
  <1> DEFINE T == {N - s : s \in S}
  <1>1. T \in SUBSET Nat /\ T # {}
    <2>1. \A s \in S : s \in Int /\ N - s \in Nat
      OBVIOUS
    <2>2. \E s \in S : TRUE
      OBVIOUS
    <2> QED
      BY <2>1, <2>2
  <1>2. PICK t \in T : \A u \in T : t <= u
    <2> HIDE DEF T
    <2> QED
      BY <1>1, LeastNumber
  <1>3. PICK m \in S : t = N - m
    OBVIOUS
  <1>4. \A s \in S : m >= s
    <2> SUFFICES ASSUME NEW s \in S PROVE m >= s
      OBVIOUS
    <2>1. N - s \in T
      OBVIOUS
    <2> QED
      BY <1>2, <1>3, <2>1
  <1>5. Max(S) = CHOOSE x \in S : \A y \in S : x >= y
    BY DEF Max
  <1>6. Max(S) \in S /\ \A y \in S : Max(S) >= y
    BY <1>3, <1>4, <1>5
  <1> QED
    BY <1>6

(* What is said of a car's orders depends on the rows of these orders.     *)
LEMMA SameVerdict ==
    ASSUME NEW G \in SUBSET Orders, NEW T, NEW U, \A p \in G : T[p] = U[p], NEW o \in G
    PROVE  Internal(o, G, T) = Internal(o, G, U)
  <1> DEFINE earlier == {p \in G : p < o}
             own == {p \in earlier : T[p].kind # "external"}
             others == {p \in earlier : U[p].kind # "external"}
  <1>1. own = others
    OBVIOUS
  <1>2. own # {} => Max(own) \in G
    BY Greatest, CountAssumption DEF Orders
  <1>3. own # {} => T[Max(own)] = U[Max(own)]
    BY <1>2
  <1> QED
    BY <1>1, <1>3 DEF Internal

LEMMA VerdictBoolean ==
    ASSUME NEW G, NEW T, NEW o PROVE Internal(o, G, T) \in BOOLEAN
  BY DEF Internal

-----------------------------------------------------------------------------
(* Type correctness *)

LEMMA RowOfRecord ==
    ASSUME NEW p \in Payloads, NEW i \in DOMAIN p
    PROVE  /\ p[i] \in Records /\ ToRow(p[i]) \in Rows /\ ToRow(p[i]).car = p[i].car
           /\ ToRow(p[i]).paid = p[i].paid /\ ToRow(p[i]).content = p[i].content
           /\ ToRow(p[i]) # Stub /\ p[i].order \in Orders
           /\ p[i].car \in CarsOf(p) \cup {None} /\ p[i].order \in OrdersOf(p)
  <1>1. p \in Seq(Records) /\ p[i] \in Records
    BY PayloadAssumption
  <1>2. p[i] \in Sent
    BY DEF Sent, Range
  <1>3. DOMAIN p[i] = {"order", "kind", "org", "payer", "car", "paid", "content"}
    BY <1>1 DEF Records
  <1>4. ToRow(p[i]).content = p[i].content /\ ToRow(p[i]).car = p[i].car
        /\ ToRow(p[i]).paid = p[i].paid
    BY <1>3 DEF ToRow
  <1>5. p[i].content \in Contents /\ Stub.content = None /\ p[i].order \in Orders
    BY <1>1 DEF Records, Stub
  <1>6. ToRow(p[i]) # Stub
    BY <1>4, <1>5, NoneAssumption
  <1>7. p[i].car \in CarsOf(p) \cup {None} /\ p[i].order \in OrdersOf(p)
    BY DEF CarsOf, OrdersOf
  <1> QED
    BY <1>1, <1>2, <1>4, <1>5, <1>6, <1>7 DEF Rows

(* The batch of a request in flight, and the last record of an order.      *)
LEMMA BatchOf ==
    ASSUME TypeOK, NEW t \in Slots, InFlight(t)
    PROVE  /\ Payload(t) \in Payloads /\ Payload(t) \in Seq(Records)
           /\ Len(Payload(t)) \in Nat /\ DOMAIN Payload(t) = 1..Len(Payload(t))
           /\ Chunk(t) \in SUBSET DOMAIN Payload(t)
  <1>1. batches[import[t].batch] \in Batches
    BY DEF TypeOK
  <1>2. Payload(t) \in Payloads
    BY <1>1 DEF Batches, Payload
  <1>3. Payload(t) \in Seq(Records)
    BY <1>2, PayloadAssumption
  <1> QED
    BY <1>2, <1>3 DEF Chunk

LEMMA LastRecord ==
    ASSUME NEW p \in Payloads, NEW chunk \in SUBSET DOMAIN p, NEW o \in Orders,
           Of(o, p, chunk) # {}
    PROVE  /\ Max(Of(o, p, chunk)) \in Of(o, p, chunk) /\ Max(Of(o, p, chunk)) \in DOMAIN p
           /\ p[Max(Of(o, p, chunk))].order = o
  <1>1. p \in Seq(Records) /\ Len(p) \in Nat /\ DOMAIN p = 1..Len(p)
    BY PayloadAssumption
  <1>2. Of(o, p, chunk) \in SUBSET (1..Len(p))
    BY <1>1 DEF Of
  <1>3. Max(Of(o, p, chunk)) \in Of(o, p, chunk)
    BY <1>1, <1>2, Greatest
  <1> QED
    BY <1>3 DEF Of

(* What a chunk makes of the rows: every row is the former one, or that of *)
(* a record of the chunk that has its order.                               *)
LEMMA ChunkRows ==
    ASSUME TypeOK, NEW t \in Slots, CommitChunk(t), NEW o \in Orders
    PROVE  LET p == Payload(t) IN
           \/ Of(o, p, Chunk(t)) = {} /\ rows'[o] = rows[o]
           \/ \E i \in Of(o, p, Chunk(t)) : /\ i \in DOMAIN p /\ p[i].order = o
                                            /\ rows'[o] = ToRow(p[i])
  <1> DEFINE p == Payload(t)
             chunk == Chunk(t)
  <1>1. p \in Payloads /\ chunk \in SUBSET DOMAIN p
    BY BatchOf DEF CommitChunk
  <1>2. rows'[o] = IF Of(o, p, chunk) = {} THEN rows[o] ELSE ToRow(p[Max(Of(o, p, chunk))])
    BY DEF CommitChunk, Upserted
  <1> HIDE DEF p, chunk
  <1>3. CASE Of(o, p, chunk) = {}
    BY <1>2, <1>3 DEF p, chunk
  <1>4. CASE Of(o, p, chunk) # {}
    <2>1. Max(Of(o, p, chunk)) \in Of(o, p, chunk) /\ Max(Of(o, p, chunk)) \in DOMAIN p
          /\ p[Max(Of(o, p, chunk))].order = o
      BY <1>1, <1>4, LastRecord
    <2>2. rows'[o] = ToRow(p[Max(Of(o, p, chunk))])
      BY <1>2, <1>4
    <2> QED
      BY <2>1, <2>2 DEF p, chunk
  <1> QED
    BY <1>3, <1>4

LEMMA ChunkRowsTyped ==
    ASSUME TypeOK, NEW t \in Slots, CommitChunk(t)
    PROVE  rows' \in [Orders -> Rows \cup {None}]
  <1>1. DOMAIN rows' = Orders /\ rows' = [o \in Orders |-> rows'[o]]
    BY DEF CommitChunk, Upserted
  <1>2. Payload(t) \in Payloads
    BY BatchOf DEF CommitChunk
  <1>3. ASSUME NEW o \in Orders PROVE rows'[o] \in Rows \cup {None}
    <2>1. rows[o] \in Rows \cup {None}
      BY DEF TypeOK
    <2> QED
      BY <1>2, <2>1, ChunkRows, RowOfRecord
  <1> QED
    BY <1>1, <1>3

(* The steps of a request between its start and its end: they keep its     *)
(* batch, and what the batches of all say of payload and status.           *)
Work(t) == \/ CommitChunk(t) \/ FailChunk(t) \/ SaveCounts(t)
           \/ ReadCars(t) \/ WriteFlags(t) \/ FailFlags(t)

SameBatches ==
    /\ DOMAIN batches' = DOMAIN batches
    /\ \A b \in DOMAIN batches : /\ batches'[b].payload = batches[b].payload
                                 /\ batches'[b].status = batches[b].status

LEMMA SavedCounts ==
    ASSUME TypeOK, NEW t \in Slots, SaveCounts(t)
    PROVE  batches' \in Seq(Batches) /\ SameBatches
  <1> DEFINE b == import[t].batch
             new == [batches[b] EXCEPT !.inserted = import[t].inserted, !.updated = import[t].updated]
  <1>1. batches \in Seq(Batches) /\ b \in DOMAIN batches /\ batches[b] \in Batches
        /\ import[t].inserted \in Int /\ import[t].updated \in Int
    <2>1. import[t] \in Requests
      BY DEF TypeOK, SaveCounts
    <2> QED
      BY <2>1 DEF TypeOK, SaveCounts, Requests
  <1>2. batches' = [batches EXCEPT ![b] = new]
    BY <1>1 DEF SaveCounts
  <1>3. new \in Batches /\ new.payload = batches[b].payload /\ new.status = batches[b].status
    BY <1>1 DEF Batches
  <1> HIDE DEF b, new
  <1> QED
    BY <1>1, <1>2, <1>3 DEF SameBatches

LEMMA VerdictsTyped ==
    ASSUME NEW cars PROVE Verdicts(cars) \in UNION {[G -> BOOLEAN] : G \in SUBSET Orders}
  <1> DEFINE found == UNION {Group(car) : car \in cars}
  <1>1. found \in SUBSET Orders
    BY DEF Group
  <1>2. Verdicts(cars) \in [found -> BOOLEAN]
    BY VerdictBoolean DEF Verdicts
  <1> HIDE DEF found
  <1> QED
    BY <1>1, <1>2

LEMMA NoVerdictsTyped == NoVerdicts \in UNION {[G -> BOOLEAN] : G \in SUBSET Orders}
  <1>1. NoVerdicts \in [{} -> BOOLEAN] /\ {} \in SUBSET Orders
    BY DEF NoVerdicts
  <1> QED
    BY <1>1

LEMMA ChunkSizes ==
    ASSUME TypeOK, NEW t \in Slots, InFlight(t)
    PROVE  /\ Cardinality(New(Payload(t), Chunk(t))) \in Nat
           /\ IsFiniteSet(Chunk(t)) /\ Cardinality(Chunk(t)) \in Nat
  <1>1. IsFiniteSet(Orders) /\ New(Payload(t), Chunk(t)) \in SUBSET Orders
    BY FS_Interval, CountAssumption DEF New, Orders
  <1>2. Len(Payload(t)) \in Nat /\ Chunk(t) \in SUBSET (1..Len(Payload(t)))
    BY BatchOf
  <1>3. IsFiniteSet(1..Len(Payload(t)))
    BY <1>2, FS_Interval
  <1>4. IsFiniteSet(Chunk(t)) /\ IsFiniteSet(New(Payload(t), Chunk(t)))
    BY <1>1, <1>2, <1>3, FS_Subset
  <1> QED
    BY <1>4, FS_CardinalityType

(* What a step of a request does to the requests.                          *)
LEMMA OwnStep ==
    ASSUME TypeOK, NEW t \in Slots, Work(t)
    PROVE  /\ InFlight(t) /\ SameBatches /\ batches' \in Seq(Batches)
           /\ import' \in [Slots -> Requests \cup {None}]
           /\ \A s \in Slots \ {t} : import'[s] = import[s]
           /\ import'[t].batch = import[t].batch
  <1>1. /\ InFlight(t) /\ import' = [s \in Slots |-> import'[s]]
        /\ \A s \in Slots \ {t} : import'[s] = import[s]
    BY DEF Work, CommitChunk, FailChunk, SaveCounts, ReadCars, WriteFlags, FailFlags, TypeOK
  <1>2. batches' \in Seq(Batches) /\ SameBatches
    <2>1. CASE SaveCounts(t)
      BY <2>1, SavedCounts
    <2>2. CASE ~SaveCounts(t)
      <3>1. batches' = batches
        BY <2>2 DEF Work, CommitChunk, FailChunk, ReadCars, WriteFlags, FailFlags
      <3> QED
        BY <3>1 DEF TypeOK, SameBatches
    <2> QED
      BY <2>1, <2>2
  <1>3. import[t] \in Requests
    BY <1>1 DEF TypeOK
  <1>4. import'[t] \in Requests /\ import'[t].batch = import[t].batch
    <2>1. CASE CommitChunk(t)
      <3>1. PICK fresh, size : /\ import'[t] = [import[t] EXCEPT !.step = "counts",
                                    !.inserted = @ + fresh, !.updated = @ + size - fresh]
                               /\ fresh \in Int /\ size \in Int
        <4>1. /\ Cardinality(New(Payload(t), Chunk(t))) \in Int
              /\ Cardinality(Chunk(t)) \in Int
          BY <1>1, ChunkSizes
        <4>2. import'[t] = [import[t] EXCEPT !.step = "counts",
                 !.inserted = @ + Cardinality(New(Payload(t), Chunk(t))),
                 !.updated = @ + Cardinality(Chunk(t)) - Cardinality(New(Payload(t), Chunk(t)))]
          BY <2>1 DEF CommitChunk, TypeOK
        <4> QED
          BY <4>1, <4>2
      <3>2. import[t].inserted \in Int /\ import[t].updated \in Int
        BY <1>3 DEF Requests
      <3>3. /\ import[t].inserted + fresh \in Int
            /\ import[t].updated + size - fresh \in Int
        BY <3>1, <3>2
      <3> QED
        BY <1>3, <3>1, <3>3 DEF Requests, Steps
    <2>2. CASE FailChunk(t)
      <3>1. import'[t] = [import[t] EXCEPT !.step = "counts", !.errors = TRUE]
        BY <1>1, <2>2 DEF FailChunk, TypeOK
      <3> QED
        BY <1>3, <3>1 DEF Requests, Steps
    <2>3. CASE SaveCounts(t)
      <3>1. PICK next, step : /\ import'[t] = [import[t] EXCEPT !.next = next, !.step = step]
                              /\ next \in Nat \ {0} /\ step \in Steps
        <4>1. import[t].next + CHUNK_SIZE \in Nat \ {0}
          BY <1>3, CountAssumption DEF Requests
        <4>2. import'[t] = [import[t] EXCEPT
                 !.next = import[t].next + CHUNK_SIZE,
                 !.step = IF import[t].next + CHUNK_SIZE > Len(Payload(t)) THEN "read" ELSE "chunk"]
          BY <1>1, <2>3 DEF SaveCounts, TypeOK
        <4> QED
          BY <4>1, <4>2 DEF Steps
      <3> QED
        BY <1>3, <3>1 DEF Requests
    <2>4. CASE ReadCars(t)
      <3>1. PICK v : /\ import'[t] = [import[t] EXCEPT !.step = "write", !.verdicts = v]
                     /\ v \in UNION {[G -> BOOLEAN] : G \in SUBSET Orders}
        BY <1>1, <2>4, VerdictsTyped DEF ReadCars, TypeOK
      <3> QED
        BY <1>3, <3>1 DEF Requests, Steps
    <2>5. CASE WriteFlags(t)
      <3>1. import'[t] = [import[t] EXCEPT !.step = "finish", !.verdicts = NoVerdicts]
        BY <1>1, <2>5 DEF WriteFlags, TypeOK
      <3> QED
        BY <1>3, <3>1, NoVerdictsTyped DEF Requests, Steps
    <2>6. CASE FailFlags(t)
      <3>1. import'[t] = [import[t] EXCEPT !.step = "finish", !.errors = TRUE,
                                           !.verdicts = NoVerdicts]
        BY <1>1, <2>6 DEF FailFlags, TypeOK
      <3> QED
        BY <1>3, <3>1, NoVerdictsTyped DEF Requests, Steps
    <2> QED
      BY <2>1, <2>2, <2>3, <2>4, <2>5, <2>6 DEF Work
  <1>5. import' \in [Slots -> Requests \cup {None}]
    BY <1>1, <1>4 DEF TypeOK
  <1> QED
    BY <1>1, <1>2, <1>4, <1>5

LEMMA BegunStep ==
    ASSUME TypeOK, NEW t \in Slots, NEW p \in Payloads, Start(t, p)
    PROVE  /\ ~InFlight(t) /\ MayStart(p)
           /\ Len(batches) \in Nat /\ Len(batches') = Len(batches) + 1
           /\ DOMAIN batches' = 1..Len(batches) + 1 /\ DOMAIN batches = 1..Len(batches)
           /\ batches' \in Seq(Batches) /\ \A b \in DOMAIN batches : batches'[b] = batches[b]
           /\ batches'[Len(batches) + 1].payload = p
           /\ batches'[Len(batches) + 1].status = "processing"
           /\ import' \in [Slots -> Requests \cup {None}]
           /\ \A s \in Slots \ {t} : import'[s] = import[s]
           /\ import'[t].batch = Len(batches) + 1
           /\ import'[t].step \in {"read", "chunk"} /\ ~import'[t].errors
           /\ UNCHANGED <<rows, internal, lines, snapshots>>
  <1> DEFINE batch == [payload |-> p, status |-> "processing", inserted |-> 0, updated |-> 0]
             request == [batch |-> Len(batches) + 1, next |-> 1, inserted |-> 0, updated |-> 0,
                         errors |-> FALSE, verdicts |-> NoVerdicts,
                         step |-> IF p = <<>> THEN "read" ELSE "chunk"]
  <1>1. batches \in Seq(Batches) /\ Len(batches) \in Nat /\ DOMAIN batches = 1..Len(batches)
    BY DEF TypeOK
  <1>2. batch \in Batches /\ batch.payload = p /\ batch.status = "processing"
    BY DEF Batches, Statuses
  <1>3. batches' = Append(batches, batch)
    BY DEF Start
  <1>4. /\ batches' \in Seq(Batches) /\ Len(batches') = Len(batches) + 1
        /\ DOMAIN batches' = 1..Len(batches) + 1
        /\ \A b \in DOMAIN batches : batches'[b] = batches[b]
        /\ batches'[Len(batches) + 1] = batch
    <2> HIDE DEF batch
    <2> QED
      BY <1>1, <1>2, <1>3
  <1>5. /\ request \in Requests /\ request.batch = Len(batches) + 1
        /\ request.step \in {"read", "chunk"} /\ ~request.errors
    BY <1>1, NoVerdictsTyped DEF Requests, Steps
  <1>6. import' = [import EXCEPT ![t] = request]
    BY DEF Start
  <1>7. /\ import' \in [Slots -> Requests \cup {None}] /\ import'[t] = request
        /\ \A s \in Slots \ {t} : import'[s] = import[s]
    <2> HIDE DEF request
    <2> QED
      BY <1>5, <1>6 DEF TypeOK
  <1>8. /\ ~InFlight(t) /\ MayStart(p) /\ UNCHANGED <<rows, internal, lines, snapshots>>
    BY DEF Start
  <1> QED
    BY <1>1, <1>2, <1>4, <1>5, <1>7, <1>8

(* The steps that end a request.                                           *)
LEMMA EndStep ==
    ASSUME TypeOK, NEW t \in Slots, Finish(t) \/ Kill(t)
    PROVE  /\ InFlight(t) /\ UNCHANGED <<rows, internal, lines, snapshots>>
           /\ import' \in [Slots -> Requests \cup {None}] /\ import'[t] = None
           /\ \A s \in Slots \ {t} : import'[s] = import[s]
           /\ batches' \in Seq(Batches) /\ DOMAIN batches' = DOMAIN batches
           /\ \A b \in DOMAIN batches : batches'[b].payload = batches[b].payload
           /\ \A b \in DOMAIN batches : b # import[t].batch => batches'[b].status = batches[b].status
           /\ batches'[import[t].batch].status \in
                 IF Finish(t) /\ ~import[t].errors THEN Statuses ELSE Statuses \ {"success"}
  <1>1. /\ InFlight(t) /\ import[t] \in Requests /\ UNCHANGED <<rows, internal, lines, snapshots>>
        /\ import[t].errors \in BOOLEAN
    <2>1. InFlight(t) /\ UNCHANGED <<rows, internal, lines, snapshots>> /\ import[t] \in Requests
      BY DEF TypeOK, Finish, Kill
    <2> QED
      BY <2>1 DEF Requests
  <1>2. import' = [import EXCEPT ![t] = None]
    BY DEF Finish, Kill
  <1>3. /\ import' \in [Slots -> Requests \cup {None}] /\ import'[t] = None
        /\ \A s \in Slots \ {t} : import'[s] = import[s]
    BY <1>2 DEF TypeOK
  <1>4. PICK b : b = import[t].batch
    OBVIOUS
  <1>5. /\ batches \in Seq(Batches) /\ b \in DOMAIN batches /\ batches[b] \in Batches
        /\ batches[b].status = "processing"
    BY <1>1, <1>4 DEF TypeOK
  <1>6. CASE Finish(t)
    <2>1. PICK new : new = [batches[b] EXCEPT !.status = IF import[t].errors THEN "failed" ELSE "success"]
      OBVIOUS
    <2>2. batches' = [batches EXCEPT ![b] = new]
      BY <1>4, <1>5, <1>6, <2>1 DEF Finish
    <2>3. /\ new \in Batches /\ new.payload = batches[b].payload
          /\ new.status = IF import[t].errors THEN "failed" ELSE "success"
      BY <1>5, <2>1 DEF Batches, Statuses
    <2>4. /\ batches' \in Seq(Batches) /\ DOMAIN batches' = DOMAIN batches /\ batches'[b] = new
          /\ \A c \in DOMAIN batches \ {b} : batches'[c] = batches[c]
      BY <1>5, <2>2, <2>3
    <2> QED
      BY <1>1, <1>3, <1>4, <1>5, <1>6, <2>3, <2>4 DEF Statuses
  <1>7. CASE Kill(t)
    <2>1. batches' = batches
      BY <1>7 DEF Kill
    <2> QED
      BY <1>1, <1>3, <1>4, <1>5, <2>1 DEF Statuses
  <1> QED
    BY <1>6, <1>7

-----------------------------------------------------------------------------
(* The flags: what a step leaves of a car's orders                         *)

Clean(car) == \A o \in Group(car) : internal[o] = Internal(o, Group(car), rows)

Untouched(car) ==
    \A o \in Orders : \/ rows'[o] = rows[o]
                      \/ o \notin Group(car) /\ (rows'[o] = None \/ rows'[o].car # car)

LEMMA VerdictNext ==
    ASSUME NEW car, NEW o, NEW G, NEW U, G = Group(car)', U = rows'
    PROVE  Internal(o, Group(car), rows)' = Internal(o, G, U)
  BY DEF Internal

LEMMA SameGroup ==
    ASSUME NEW car \in Cars, Untouched(car)
    PROVE  /\ Group(car)' = Group(car)
           /\ \A o \in Group(car) :
                 /\ rows'[o] = rows[o]
                 /\ Internal(o, Group(car), rows)' = Internal(o, Group(car), rows)
  <1>1. \A o \in Group(car) : rows'[o] = rows[o]
    BY DEF Untouched, Group
  <1>2. Group(car)' = Group(car)
    BY <1>1 DEF Untouched, Group
  <1>3. PICK G, T, U : G = Group(car) /\ T = rows /\ U = rows'
    OBVIOUS
  <1>4. G \in SUBSET Orders /\ \A p \in G : T[p] = U[p]
    BY <1>1, <1>3 DEF Group
  <1>5. ASSUME NEW o \in Group(car)
        PROVE  Internal(o, Group(car), rows)' = Internal(o, Group(car), rows)
    <2>1. Internal(o, Group(car), rows)' = Internal(o, G, U)
      BY <1>2, <1>3, VerdictNext
    <2>2. Internal(o, G, T) = Internal(o, G, U)
      BY <1>3, <1>4, <1>5, SameVerdict
    <2> QED
      BY <1>3, <2>1, <2>2
  <1> QED
    BY <1>1, <1>2, <1>5

LEMMA SameSending ==
    ASSUME NEW car, SameBatches
    PROVE  Sending(car)' = Sending(car)
  BY DEF Sending, SameBatches

-----------------------------------------------------------------------------
(* The invariants                                                          *)

Sends(t, p) == InFlight(t) /\ p = batches[import[t].batch].payload
Apart(p, q) == CarsOf(p) \cap CarsOf(q) = {} /\ OrdersOf(p) \cap OrdersOf(q) = {}

(* No import that began later shares a car or an order with one in flight. *)
Alone ==
    \A t \in Slots, p \in Payloads, q \in Payloads : Sends(t, p) =>
        \A b \in DOMAIN batches : b > import[t].batch /\ q = batches[b].payload => Apart(p, q)

(* The orders of an import in flight belong to its cars or to none.        *)
RowsHeld ==
    \A t \in Slots, p \in Payloads : Sends(t, p) =>
        \A o \in OrdersOf(p) : rows[o] # None => rows[o].car \in CarsOf(p) \cup {None}

(* What an import has found out is still so when it writes it, and what it *)
(* has written is still so when it ends.                                   *)
RequestFlags(t, p) ==
    /\ At(t, "write") =>
          /\ \A o \in DOMAIN import[t].verdicts : \E car \in CarsOf(p) : o \in Group(car)
          /\ \A car \in CarsOf(p) : \A o \in Group(car) :
                /\ o \in DOMAIN import[t].verdicts
                /\ import[t].verdicts[o] = Internal(o, Group(car), rows)
    /\ At(t, "finish") /\ ~import[t].errors => \A car \in CarsOf(p) : Clean(car)

FlagsFollow == \A t \in Slots, p \in Payloads : Sends(t, p) => RequestFlags(t, p)

LEMMA SentPayload ==
    ASSUME TypeOK, NEW t \in Slots, InFlight(t)
    PROVE  /\ Sends(t, Payload(t)) /\ Payload(t) \in Payloads
           /\ \A p : Sends(t, p) => p = Payload(t)
  BY BatchOf DEF Sends, Payload

LEMMA CarsAreCars == ASSUME NEW p \in Payloads PROVE CarsOf(p) \subseteq Cars
  <1>1. \A i \in DOMAIN p : p[i] \in Records
    BY PayloadAssumption
  <1> QED
    BY <1>1 DEF CarsOf, Records

(* A stub takes the place of a row that is missing, and of no other.       *)
LEMMA LookedUpRows ==
    ASSUME TypeOK, NEW o \in LookedUp, LookUpPlate(o)
    PROVE  /\ rows' \in [Orders -> Rows \cup {None}]
           /\ \A d \in Orders : rows'[d] = rows[d] \/ (rows[d] = None /\ rows'[d] = Stub)
           /\ UNCHANGED <<internal, lines, snapshots, batches, import>>
  <1>1. o \in Orders /\ Stub \in Rows
    BY LookUpAssumption DEF Rows
  <1>2. rows' = [rows EXCEPT ![o] = StubRow(rows[o])]
    BY DEF LookUpPlate
  <1> QED
    BY <1>1, <1>2 DEF LookUpPlate, StubRow, TypeOK

LEMMA NextSteps ==
    ASSUME [Next]_vars
    PROVE  \/ \E t \in Slots, p \in Payloads : Start(t, p)
           \/ \E t \in Slots : Work(t) \/ Finish(t) \/ Kill(t)
           \/ \E o \in LookedUp : LookUpPlate(o)
           \/ UNCHANGED vars
  BY DEF Next, Work

LEMMA InternalTyped ==
    ASSUME TypeOK, NEW t \in Slots, Work(t)
    PROVE  internal' \in [Orders -> BOOLEAN]
  <1>1. CASE WriteFlags(t)
    <2>1. import[t] \in Requests
      BY <1>1 DEF WriteFlags, TypeOK
    <2>2. PICK G \in SUBSET Orders : import[t].verdicts \in [G -> BOOLEAN]
      BY <2>1 DEF Requests
    <2> QED
      BY <1>1, <2>2 DEF WriteFlags, TypeOK
  <1>2. CASE ~WriteFlags(t)
    BY <1>2 DEF Work, CommitChunk, FailChunk, SaveCounts, ReadCars, FailFlags, TypeOK
  <1> QED
    BY <1>1, <1>2

LEMMA RowsTyped ==
    ASSUME TypeOK, NEW t \in Slots, Work(t)
    PROVE  rows' \in [Orders -> Rows \cup {None}]
  <1>1. CASE CommitChunk(t)
    BY <1>1, ChunkRowsTyped
  <1>2. CASE ~CommitChunk(t)
    BY <1>2 DEF Work, FailChunk, SaveCounts, ReadCars, WriteFlags, FailFlags, TypeOK
  <1> QED
    BY <1>1, <1>2

LEMMA TypeInit == Init => TypeOK
  BY DEF Init, TypeOK

LEMMA TypeNext == ASSUME TypeOK, [Next]_vars PROVE TypeOK'
  <1>1. ASSUME NEW t \in Slots, NEW p \in Payloads, Start(t, p) PROVE TypeOK'
    <2>1. \A s \in Slots : InFlight(s) => /\ import[s].batch \in DOMAIN batches
                                         /\ import[s].batch < Len(batches) + 1
                                         /\ batches[import[s].batch].status = "processing"
      BY <1>1, BegunStep DEF TypeOK
    <2>2. rows' \in [Orders -> Rows \cup {None}] /\ internal' \in [Orders -> BOOLEAN]
      BY <1>1, BegunStep DEF TypeOK
    <2>3. ASSUME NEW s \in Slots, import'[s] # None
          PROVE  /\ import'[s].batch \in DOMAIN batches'
                 /\ batches'[import'[s].batch].status = "processing"
      BY <1>1, <2>1, <2>3, BegunStep
    <2>4. ASSUME NEW s \in Slots, NEW r \in Slots \ {s}, import'[s] # None, import'[r] # None
          PROVE  import'[r].batch # import'[s].batch
      <3>1. CASE s = t \/ r = t
        BY <1>1, <2>1, <2>4, <3>1, BegunStep
      <3>2. CASE s # t /\ r # t
        BY <1>1, <2>4, <3>2, BegunStep DEF TypeOK
      <3> QED
        BY <3>1, <3>2
    <2> QED
      BY <1>1, <2>2, <2>3, <2>4, BegunStep DEF TypeOK
  <1>2. ASSUME NEW t \in Slots, Work(t) PROVE TypeOK'
    <2>1. \A s \in Slots : import'[s] # None => import[s] # None /\ import'[s].batch = import[s].batch
      BY <1>2, OwnStep
    <2> QED
      BY <1>2, <2>1, OwnStep, RowsTyped, InternalTyped DEF TypeOK, SameBatches
  <1>3. ASSUME NEW t \in Slots, Finish(t) \/ Kill(t) PROVE TypeOK'
    BY <1>3, EndStep DEF TypeOK
  <1>4. ASSUME NEW o \in LookedUp, LookUpPlate(o) PROVE TypeOK'
    BY <1>4, LookedUpRows DEF TypeOK
  <1>5. CASE UNCHANGED vars
    BY <1>5 DEF vars, TypeOK
  <1> QED
    BY <1>1, <1>2, <1>3, <1>4, <1>5, NextSteps

LEMMA AloneNext == ASSUME TypeOK, ~ImportsOverlap, Alone, [Next]_vars PROVE Alone'
  <1>1. ASSUME NEW t \in Slots, NEW n \in Payloads, Start(t, n) PROVE Alone'
    <2> SUFFICES ASSUME NEW s \in Slots, NEW p \in Payloads, NEW q \in Payloads, Sends(s, p)',
                        NEW b \in DOMAIN batches', b > import'[s].batch, q = batches'[b].payload
                 PROVE  Apart(p, q)
      BY DEF Alone
    <2>1. s # t /\ InFlight(s) /\ import'[s] = import[s] /\ import[s].batch \in DOMAIN batches
      BY <1>1, BegunStep DEF Sends, TypeOK
    <2>2. Sends(s, p)
      BY <1>1, <2>1, BegunStep DEF Sends
    <2>3. CASE b \in DOMAIN batches
      BY <1>1, <2>1, <2>2, <2>3, BegunStep DEF Alone
    <2>4. CASE b \notin DOMAIN batches
      <3>1. q = n
        BY <1>1, <2>4, BegunStep
      <3>2. p = Payload(s) /\ MayStart(n)
        BY <1>1, <2>2, BegunStep, SentPayload DEF Sends
      <3> QED
        BY <2>1, <3>1, <3>2 DEF MayStart, Apart
    <2> QED
      BY <2>3, <2>4
  <1>2. ASSUME NEW t \in Slots, Work(t) PROVE Alone'
    <2>1. \A s \in Slots : import'[s] # None => import[s] # None /\ import'[s].batch = import[s].batch
      BY <1>2, OwnStep
    <2>2. SameBatches
      BY <1>2, OwnStep
    <2> QED
      BY <2>1, <2>2 DEF Alone, Sends, SameBatches, TypeOK
  <1>3. ASSUME NEW t \in Slots, Finish(t) \/ Kill(t) PROVE Alone'
    <2>1. \A s \in Slots : import'[s] # None => import[s] # None /\ import'[s].batch = import[s].batch
      BY <1>3, EndStep
    <2>2. /\ DOMAIN batches' = DOMAIN batches
          /\ \A b \in DOMAIN batches : batches'[b].payload = batches[b].payload
      BY <1>3, EndStep
    <2> QED
      BY <2>1, <2>2 DEF Alone, Sends, TypeOK
  <1>4. ASSUME NEW o \in LookedUp, LookUpPlate(o) PROVE Alone'
    BY <1>4, LookedUpRows DEF Alone, Sends
  <1>5. CASE UNCHANGED vars
    BY <1>5 DEF vars, Alone, Sends
  <1> QED
    BY <1>1, <1>2, <1>3, <1>4, <1>5, NextSteps

(* A chunk changes the rows of its orders, to rows of its cars.            *)
LEMMA ChunkCars ==
    ASSUME TypeOK, NEW t \in Slots, NEW p \in Payloads, Sends(t, p), CommitChunk(t), NEW o \in Orders
    PROVE  \/ rows'[o] = rows[o]
           \/ o \in OrdersOf(p) /\ rows'[o] # None /\ rows'[o].car \in CarsOf(p) \cup {None}
  <1>1. p = Payload(t)
    BY SentPayload DEF Sends
  <1>2. CASE rows'[o] # rows[o]
    <2>1. PICK i \in DOMAIN p : p[i].order = o /\ rows'[o] = ToRow(p[i])
      BY <1>1, <1>2, ChunkRows
    <2> QED
      BY <2>1, RowOfRecord, NoneAssumption
  <1> QED
    BY <1>2

LEMMA RowsHeldNext ==
    ASSUME TypeOK, ~ImportsOverlap, ~CarsReassigned, Alone, RowsHeld, [Next]_vars
    PROVE  RowsHeld'
  <1>1. ASSUME NEW t \in Slots, NEW n \in Payloads, Start(t, n) PROVE RowsHeld'
    <2> SUFFICES ASSUME NEW s \in Slots, NEW p \in Payloads, Sends(s, p)',
                        NEW o \in OrdersOf(p), rows[o] # None
                 PROVE  rows[o].car \in CarsOf(p) \cup {None}
      BY <1>1, BegunStep DEF RowsHeld
    <2>1. CASE s = t
      <3>1. p = n /\ MayStart(n)
        BY <1>1, <2>1, BegunStep DEF Sends
      <3>2. PICK i \in DOMAIN p : p[i].order = o
        BY DEF OrdersOf
      <3>3. rows[o].car \in {None, p[i].car}
        BY <3>1, <3>2 DEF MayStart
      <3> QED
        BY <3>3, RowOfRecord
    <2>2. CASE s # t
      <3>1. InFlight(s) /\ import'[s] = import[s] /\ import[s].batch \in DOMAIN batches
        BY <1>1, <2>2, BegunStep DEF Sends, TypeOK
      <3>2. Sends(s, p)
        BY <1>1, <3>1, BegunStep DEF Sends
      <3> QED
        BY <3>2 DEF RowsHeld
    <2> QED
      BY <2>1, <2>2
  <1>2. ASSUME NEW t \in Slots, Work(t) PROVE RowsHeld'
    <2>1. SameBatches /\ \A s \in Slots : import'[s] # None =>
                            import[s] # None /\ import'[s].batch = import[s].batch
      BY <1>2, OwnStep
    <2>2. \A s \in Slots, p \in Payloads : Sends(s, p)' => Sends(s, p)
      BY <2>1 DEF Sends, SameBatches, TypeOK
    <2>3. CASE ~CommitChunk(t)
      <3>1. rows' = rows
        BY <1>2, <2>3 DEF Work, FailChunk, SaveCounts, ReadCars, WriteFlags, FailFlags
      <3> QED
        BY <2>2, <3>1 DEF RowsHeld
    <2>4. CASE CommitChunk(t)
      <3> SUFFICES ASSUME NEW s \in Slots, NEW p \in Payloads, Sends(s, p),
                          NEW o \in OrdersOf(p), rows'[o] # None
                   PROVE  rows'[o].car \in CarsOf(p) \cup {None}
        BY <2>2 DEF RowsHeld
      <3>1. PICK q \in Payloads : Sends(t, q)
        BY <1>2, OwnStep, SentPayload
      <3>2. o \in Orders
        <4>1. PICK i \in DOMAIN p : p[i].order = o
          BY DEF OrdersOf
        <4> QED
          BY <4>1, RowOfRecord
      <3>3. CASE rows'[o] = rows[o]
        BY <3>3 DEF RowsHeld
      <3>4. CASE rows'[o] # rows[o]
        <4>1. o \in OrdersOf(q) /\ rows'[o].car \in CarsOf(q) \cup {None}
          BY <2>4, <3>1, <3>2, <3>4, ChunkCars
        <4>2. s = t
          <5> SUFFICES ASSUME s # t PROVE FALSE
            OBVIOUS
          <5>1. /\ import[s].batch \in DOMAIN batches /\ import[t].batch \in DOMAIN batches
                /\ import[s].batch # import[t].batch
                /\ import[s].batch \in Int /\ import[t].batch \in Int
            BY <3>1 DEF TypeOK, Sends
          <5>2. Apart(p, q) \/ Apart(q, p)
            <6>1. import[s].batch < import[t].batch \/ import[t].batch < import[s].batch
              BY <5>1
            <6>2. q = batches[import[t].batch].payload /\ p = batches[import[s].batch].payload
              BY <3>1 DEF Sends
            <6> QED
              BY <3>1, <5>1, <6>1, <6>2 DEF Alone
          <5> QED
            BY <4>1, <5>2 DEF Apart
        <4>3. p = q
          BY <3>1, <4>2 DEF Sends
        <4> QED
          BY <4>1, <4>3
      <3> QED
        BY <3>3, <3>4
    <2> QED
      BY <2>3, <2>4
  <1>3. ASSUME NEW t \in Slots, Finish(t) \/ Kill(t) PROVE RowsHeld'
    <2>1. \A s \in Slots : import'[s] # None => import[s] # None /\ import'[s].batch = import[s].batch
      BY <1>3, EndStep
    <2>2. /\ rows' = rows /\ DOMAIN batches' = DOMAIN batches
          /\ \A b \in DOMAIN batches : batches'[b].payload = batches[b].payload
      BY <1>3, EndStep
    <2> QED
      BY <2>1, <2>2 DEF RowsHeld, Sends, TypeOK
  <1>4. ASSUME NEW o \in LookedUp, LookUpPlate(o) PROVE RowsHeld'
    <2>1. Stub.car = None
      BY DEF Stub
    <2>2. \A s \in Slots, p \in Payloads : Sends(s, p)' => Sends(s, p)
      BY <1>4, LookedUpRows DEF Sends
    <2>3. \A p \in Payloads : OrdersOf(p) \subseteq Orders
      BY RowOfRecord DEF OrdersOf
    <2> QED
      BY <1>4, <2>1, <2>2, <2>3, LookedUpRows DEF RowsHeld
  <1>5. CASE UNCHANGED vars
    BY <1>5 DEF vars, RowsHeld, Sends
  <1> QED
    BY <1>1, <1>2, <1>3, <1>4, <1>5, NextSteps

LEMMA ThreadsApart ==
    ASSUME TypeOK, Alone, NEW s \in Slots, NEW t \in Slots, s # t,
           NEW p \in Payloads, NEW q \in Payloads, Sends(s, p), Sends(t, q)
    PROVE  Apart(p, q)
  <1>1. /\ import[s].batch \in DOMAIN batches /\ import[t].batch \in DOMAIN batches
        /\ import[s].batch # import[t].batch
        /\ import[s].batch \in Int /\ import[t].batch \in Int
    BY DEF TypeOK, Sends
  <1>2. import[s].batch < import[t].batch \/ import[t].batch < import[s].batch
    BY <1>1
  <1>3. q = batches[import[t].batch].payload /\ p = batches[import[s].batch].payload
    BY DEF Sends
  <1>4. Apart(p, q) \/ Apart(q, p)
    BY <1>1, <1>2, <1>3 DEF Alone
  <1> QED
    BY <1>4 DEF Apart

(* The batch of an import in flight is the last that sent its cars.        *)
LEMMA LastSending ==
    ASSUME TypeOK, Alone, NEW t \in Slots, NEW p \in Payloads, Sends(t, p), NEW car \in CarsOf(p)
    PROVE  Max(Sending(car)) = import[t].batch
  <1>1. PICK b : b = import[t].batch
    OBVIOUS
  <1>2. /\ Len(batches) \in Nat /\ DOMAIN batches = 1..Len(batches)
        /\ b \in DOMAIN batches /\ p = batches[b].payload
    BY <1>1 DEF TypeOK, Sends
  <1>3. Sending(car) \in SUBSET (1..Len(batches)) /\ b \in Sending(car)
    BY <1>2 DEF Sending
  <1>4. Max(Sending(car)) \in Sending(car) /\ b <= Max(Sending(car))
    BY <1>2, <1>3, Greatest
  <1>5. PICK m : m = Max(Sending(car))
    OBVIOUS
  <1>6. m \in DOMAIN batches /\ car \in CarsOf(batches[m].payload) /\ batches[m].payload \in Payloads
    <2>1. m \in DOMAIN batches /\ car \in CarsOf(batches[m].payload)
      BY <1>4, <1>5 DEF Sending
    <2>2. batches[m] \in Batches
      BY <2>1 DEF TypeOK
    <2> QED
      BY <2>1, <2>2 DEF Batches
  <1>7. ~(m > b)
    <2> SUFFICES ASSUME m > b PROVE FALSE
      OBVIOUS
    <2>1. Apart(p, batches[m].payload)
      BY <1>1, <1>6 DEF Alone
    <2> QED
      BY <1>6, <2>1 DEF Apart
  <1> QED
    BY <1>1, <1>2, <1>4, <1>5, <1>6, <1>7

-----------------------------------------------------------------------------
(* The steps of an import, car by car                                      *)

Kept(car) == Untouched(car) /\ \A o \in Group(car) : internal'[o] = internal[o]

LEMMA CleanStays == ASSUME NEW car \in Cars, Kept(car), Clean(car) PROVE Clean(car)'
  BY SameGroup DEF Clean, Kept

LEMMA FlagsStay ==
    ASSUME NEW s \in Slots, NEW p \in Payloads, import'[s] = import[s], RequestFlags(s, p),
           \A car \in CarsOf(p) : Kept(car)
    PROVE  RequestFlags(s, p)'
  <1>1. \A car \in CarsOf(p) : /\ Group(car)' = Group(car)
                               /\ \A o \in Group(car) : Internal(o, Group(car), rows)' = Internal(o, Group(car), rows)
                               /\ Clean(car) => Clean(car)'
    BY CarsAreCars, SameGroup, CleanStays DEF Kept
  <1> QED
    BY <1>1 DEF RequestFlags

(* Where neither rows nor flags change, every car is kept.                 *)
LEMMA NothingWritten == ASSUME rows' = rows, internal' = internal PROVE \A car : Kept(car)
  BY DEF Kept, Untouched

LEMMA WorkCars ==
    ASSUME TypeOK, RowsHeld, FlagsFollow, NEW t \in Slots, NEW q \in Payloads, Sends(t, q), Work(t),
           NEW car \in Cars \ CarsOf(q)
    PROVE  Kept(car)
  <1>1. CASE CommitChunk(t)
    <2>1. internal' = internal
      BY <1>1 DEF CommitChunk
    <2>2. ASSUME NEW o \in Orders, rows'[o] # rows[o]
          PROVE  o \notin Group(car) /\ (rows'[o] = None \/ rows'[o].car # car)
      <3>1. o \in OrdersOf(q) /\ rows'[o].car \in CarsOf(q) \cup {None}
        BY <1>1, <2>2, ChunkCars
      <3>2. rows[o] # None => rows[o].car \in CarsOf(q) \cup {None}
        BY <3>1 DEF RowsHeld
      <3> QED
        BY <3>1, <3>2, NoneAssumption DEF Group
    <2> QED
      BY <2>1, <2>2 DEF Kept, Untouched
  <1>2. CASE WriteFlags(t)
    <2>1. rows' = rows
      BY <1>2 DEF WriteFlags
    <2>2. ASSUME NEW o \in Group(car) PROVE internal'[o] = internal[o]
      <3>1. o \notin DOMAIN import[t].verdicts
        <4> SUFFICES ASSUME o \in DOMAIN import[t].verdicts PROVE FALSE
          OBVIOUS
        <4>1. PICK c \in CarsOf(q) : o \in Group(c)
          BY <1>2 DEF FlagsFollow, RequestFlags, WriteFlags
        <4> QED
          BY <2>2, <4>1 DEF Group
      <3> QED
        BY <1>2, <2>2, <3>1 DEF WriteFlags, Group
    <2> QED
      BY <2>1, <2>2 DEF Kept, Untouched
  <1>3. CASE ~CommitChunk(t) /\ ~WriteFlags(t)
    <2>1. rows' = rows /\ internal' = internal
      BY <1>3 DEF Work, FailChunk, SaveCounts, ReadCars, FailFlags
    <2> QED
      BY <2>1, NothingWritten
  <1> QED
    BY <1>1, <1>2, <1>3

(* What the request that steps knows and has written afterwards.           *)
LEMMA WorkFlags ==
    ASSUME TypeOK, FlagsFollow, NEW t \in Slots, NEW q \in Payloads, Sends(t, q), Work(t)
    PROVE  RequestFlags(t, q)'
  <1>1. import[t] \in Requests /\ q = Payload(t) /\ RequestFlags(t, q)
    BY SentPayload DEF Sends, TypeOK, FlagsFollow
  <1>2. CASE CommitChunk(t) \/ FailChunk(t) \/ SaveCounts(t)
    <2>1. import'[t].step \in {"counts", "read", "chunk"}
      BY <1>1, <1>2 DEF CommitChunk, FailChunk, SaveCounts, TypeOK, Requests
    <2> QED
      BY <2>1 DEF RequestFlags
  <1>3. CASE ReadCars(t)
    <2>1. /\ import'[t].step = "write" /\ import'[t].verdicts = Verdicts(CarsOf(q)) /\ rows' = rows
      BY <1>1, <1>3 DEF ReadCars, TypeOK, Requests
    <2>2. \A c : Group(c)' = Group(c)
      BY <2>1 DEF Group
    <2>3. ASSUME NEW c \in CarsOf(q), NEW o \in Group(c)
          PROVE  /\ o \in DOMAIN Verdicts(CarsOf(q))
                 /\ Verdicts(CarsOf(q))[o] = Internal(o, Group(c), rows)
      BY <2>3 DEF Verdicts, Group
    <2>4. \A o \in DOMAIN Verdicts(CarsOf(q)) : \E c \in CarsOf(q) : o \in Group(c)
      BY DEF Verdicts
    <2>5. \A c \in CarsOf(q) : \A o \in Group(c) :
             Internal(o, Group(c), rows)' = Internal(o, Group(c), rows)
      BY <2>1, CarsAreCars, SameGroup DEF Untouched
    <2> QED
      BY <2>1, <2>2, <2>3, <2>4, <2>5 DEF RequestFlags
  <1>4. CASE WriteFlags(t)
    <2>1. import'[t].step = "finish" /\ rows' = rows
      BY <1>1, <1>4 DEF WriteFlags, TypeOK, Requests
    <2>2. ASSUME NEW c \in CarsOf(q) PROVE Clean(c)'
      <3>1. /\ Group(c)' = Group(c)
            /\ \A o \in Group(c) : Internal(o, Group(c), rows)' = Internal(o, Group(c), rows)
        BY <2>1, <2>2, CarsAreCars, SameGroup DEF Untouched
      <3>2. ASSUME NEW o \in Group(c) PROVE internal'[o] = Internal(o, Group(c), rows)
        <4>1. o \in DOMAIN import[t].verdicts /\ import[t].verdicts[o] = Internal(o, Group(c), rows)
          BY <1>1, <1>4, <2>2, <3>2 DEF RequestFlags, WriteFlags
        <4>2. o \in Orders
          BY <3>2 DEF Group
        <4> QED
          BY <1>4, <4>1, <4>2 DEF WriteFlags
      <3> QED
        BY <3>1, <3>2 DEF Clean
    <2> QED
      BY <2>1, <2>2 DEF RequestFlags
  <1>5. CASE FailFlags(t)
    <2>1. import'[t].step = "finish" /\ import'[t].errors
      BY <1>1, <1>5 DEF FailFlags, TypeOK, Requests
    <2> QED
      BY <2>1 DEF RequestFlags
  <1> QED
    BY <1>2, <1>3, <1>4, <1>5 DEF Work

FlagsInv == FlagsFollow /\ FlagsRight

LEMMA FlagsStart ==
    ASSUME TypeOK, FlagsInv, NEW t \in Slots, NEW n \in Payloads, Start(t, n)
    PROVE  FlagsInv'
  <1>1. rows' = rows /\ internal' = internal /\ \A car : Kept(car)
    BY BegunStep, NothingWritten
  <1>2. PICK last : last = Len(batches) + 1
    OBVIOUS
  <1>3. /\ Len(batches) \in Nat /\ DOMAIN batches = 1..Len(batches) /\ DOMAIN batches' = 1..last
        /\ \A b \in DOMAIN batches : batches'[b] = batches[b]
        /\ batches'[last].payload = n /\ batches'[last].status = "processing"
        /\ import'[t].batch = last /\ import'[t].step \in {"read", "chunk"}
        /\ \A s \in Slots \ {t} : import'[s] = import[s]
        /\ ~InFlight(t)
    BY <1>2, BegunStep
  <1>4. ASSUME NEW s \in Slots, NEW p \in Payloads, Sends(s, p)' PROVE RequestFlags(s, p)'
    <2>1. CASE s = t
      BY <1>3, <2>1 DEF RequestFlags
    <2>2. CASE s # t
      <3>1. import'[s] = import[s] /\ InFlight(s) /\ import[s].batch \in DOMAIN batches
        BY <1>3, <1>4, <2>2 DEF Sends, TypeOK
      <3>2. Sends(s, p)
        BY <1>3, <1>4, <3>1 DEF Sends
      <3>3. RequestFlags(s, p)
        BY <3>2 DEF FlagsInv, FlagsFollow
      <3> QED
        BY <1>1, <3>1, <3>3, FlagsStay
    <2> QED
      BY <2>1, <2>2
  <1>5. ASSUME NEW car \in Cars, Settled(car)' PROVE Clean(car)'
    <2>1. CASE car \in CarsOf(n)
      <3>1. Sending(car)' \in SUBSET (1..last) /\ last \in Sending(car)' /\ last \in Nat
        BY <1>2, <1>3, <2>1 DEF Sending
      <3>2. PICK S : S = Sending(car)'
        OBVIOUS
      <3>3. Max(S) \in S /\ last <= Max(S)
        BY <3>1, <3>2, Greatest
      <3>4. Max(S) = last
        BY <3>1, <3>2, <3>3
      <3>5. batches'[Max(S)].status = "success"
        BY <1>5, <3>2 DEF Settled, Max
      <3> QED
        BY <1>3, <3>4, <3>5
    <2>2. CASE car \notin CarsOf(n)
      <3>1. Sending(car)' = Sending(car)
        BY <1>2, <1>3, <2>2 DEF Sending
      <3>2. Settled(car)
        <4>1. Sending(car) # {} /\ Max(Sending(car)) \in DOMAIN batches
          <5>1. Sending(car) # {}
            BY <1>5, <3>1 DEF Settled
          <5>2. Sending(car) \in SUBSET (1..Len(batches))
            BY <1>3 DEF Sending
          <5> QED
            BY <1>3, <5>1, <5>2, Greatest
        <4>2. batches'[Max(Sending(car))].status = "success"
          BY <1>5, <3>1 DEF Settled, Max
        <4>3. \A s \in Slots : InFlight(s) => import[s].batch \notin Sending(car)
          BY <1>3, <1>5, <3>1 DEF Settled
        <4> QED
          BY <1>3, <4>1, <4>2, <4>3 DEF Settled
      <3>3. Clean(car)
        BY <3>2 DEF FlagsInv, FlagsRight, Clean
      <3> QED
        BY <1>1, <3>3, CleanStays
    <2> QED
      BY <2>1, <2>2
  <1> QED
    BY <1>4, <1>5 DEF FlagsInv, FlagsFollow, FlagsRight, Clean

(* For a car that no import in flight sends, being settled before follows  *)
(* from being settled afterwards.                                          *)
LEMMA SettledBefore ==
    ASSUME TypeOK, NEW t \in Slots, NEW q \in Payloads, Sends(t, q),
           \A s \in Slots \ {t} : import'[s] = import[s],
           DOMAIN batches' = DOMAIN batches,
           \A b \in DOMAIN batches : batches'[b].payload = batches[b].payload,
           \A b \in DOMAIN batches : b # import[t].batch => batches'[b].status = batches[b].status,
           NEW car \in Cars \ CarsOf(q), Settled(car)'
    PROVE  Settled(car)
  <1>1. Sending(car)' = Sending(car)
    BY DEF Sending
  <1>2. import[t].batch \notin Sending(car)
    BY DEF Sending, Sends
  <1>3. Sending(car) # {} /\ Max(Sending(car)) \in Sending(car)
    <2>1. Sending(car) # {}
      BY <1>1 DEF Settled
    <2>2. Len(batches) \in Nat /\ Sending(car) \in SUBSET (1..Len(batches))
      BY DEF Sending, TypeOK
    <2> QED
      BY <2>1, <2>2, Greatest
  <1>4. batches'[Max(Sending(car))].status = "success"
    BY <1>1 DEF Settled, Max
  <1>5. batches[Max(Sending(car))].status = "success"
    <2>1. PICK m : m = Max(Sending(car))
      OBVIOUS
    <2>2. m \in DOMAIN batches /\ m # import[t].batch
      BY <1>2, <1>3, <2>1 DEF Sending
    <2> QED
      BY <1>4, <2>1, <2>2
  <1>6. \A s \in Slots : InFlight(s) => import[s].batch \notin Sending(car)
    BY <1>1, <1>2 DEF Settled
  <1> QED
    BY <1>3, <1>5, <1>6 DEF Settled

LEMMA FlagsWork ==
    ASSUME TypeOK, Alone, RowsHeld, FlagsInv, NEW t \in Slots, Work(t)
    PROVE  FlagsInv'
  <1>1. PICK q \in Payloads : Sends(t, q)
    BY OwnStep, SentPayload
  <1>2. /\ SameBatches /\ \A s \in Slots \ {t} : import'[s] = import[s]
        /\ import'[t].batch = import[t].batch
    BY OwnStep
  <1>3. \A car \in Cars \ CarsOf(q) : Kept(car)
    BY <1>1, WorkCars DEF FlagsInv
  <1>4. ASSUME NEW s \in Slots, NEW p \in Payloads, Sends(s, p)' PROVE RequestFlags(s, p)'
    <2>1. CASE s = t
      <3>1. p = q
        BY <1>1, <1>2, <1>4, <2>1 DEF Sends, SameBatches, TypeOK
      <3> QED
        BY <1>1, <2>1, <3>1, WorkFlags DEF FlagsInv
    <2>2. CASE s # t
      <3>1. import'[s] = import[s] /\ Sends(s, p)
        BY <1>2, <1>4, <2>2 DEF Sends, SameBatches, TypeOK
      <3>2. Apart(p, q)
        BY <1>1, <2>2, <3>1, ThreadsApart
      <3>3. \A car \in CarsOf(p) : Kept(car)
        BY <1>3, <3>2, CarsAreCars DEF Apart
      <3> QED
        BY <3>1, <3>3, FlagsStay DEF FlagsInv, FlagsFollow
    <2> QED
      BY <2>1, <2>2
  <1>5. ASSUME NEW car \in Cars, Settled(car)' PROVE Clean(car)'
    <2>1. CASE car \in CarsOf(q)
      <3>1. Max(Sending(car)) = import[t].batch
        BY <1>1, <2>1, LastSending
      <3>2. Sending(car)' = Sending(car)
        BY <1>2, SameSending
      <3>3. batches'[Max(Sending(car))].status = "success"
        BY <1>5, <3>2 DEF Settled, Max
      <3>4. import[t].batch \in DOMAIN batches /\ batches[import[t].batch].status = "processing"
        BY <1>1 DEF TypeOK, Sends
      <3> QED
        BY <1>2, <3>1, <3>3, <3>4 DEF SameBatches
    <2>2. CASE car \notin CarsOf(q)
      <3>1. Settled(car)
        BY <1>1, <1>2, <1>5, <2>2, SettledBefore DEF SameBatches
      <3> QED
        BY <1>3, <2>2, <3>1, CleanStays DEF FlagsInv, FlagsRight, Clean
    <2> QED
      BY <2>1, <2>2
  <1> QED
    BY <1>4, <1>5 DEF FlagsInv, FlagsFollow, FlagsRight, Clean

LEMMA FlagsEnd ==
    ASSUME TypeOK, Alone, FlagsInv, NEW t \in Slots, Finish(t) \/ Kill(t)
    PROVE  FlagsInv'
  <1>1. PICK q \in Payloads : Sends(t, q)
    BY EndStep, SentPayload
  <1>2. \A car : Kept(car)
    BY EndStep, NothingWritten
  <1>3. /\ \A s \in Slots \ {t} : import'[s] = import[s]
        /\ import'[t] = None
        /\ DOMAIN batches' = DOMAIN batches
        /\ \A b \in DOMAIN batches : batches'[b].payload = batches[b].payload
        /\ \A b \in DOMAIN batches : b # import[t].batch => batches'[b].status = batches[b].status
    BY EndStep
  <1>4. ASSUME NEW s \in Slots, NEW p \in Payloads, Sends(s, p)' PROVE RequestFlags(s, p)'
    <2>1. s # t /\ import'[s] = import[s] /\ Sends(s, p)
      BY <1>3, <1>4 DEF Sends, TypeOK
    <2> QED
      BY <1>2, <2>1, FlagsStay DEF FlagsInv, FlagsFollow
  <1>5. ASSUME NEW car \in Cars, Settled(car)' PROVE Clean(car)'
    <2>1. CASE car \in CarsOf(q)
      <3>1. Max(Sending(car)) = import[t].batch
        BY <1>1, <2>1, LastSending
      <3>2. Sending(car)' = Sending(car)
        BY <1>3 DEF Sending
      <3>3. batches'[Max(Sending(car))].status = "success"
        BY <1>5, <3>2 DEF Settled, Max
      <3>4. Finish(t) /\ ~import[t].errors
        BY <3>1, <3>3, EndStep
      <3>5. Clean(car)
        BY <1>1, <2>1, <3>4 DEF FlagsInv, FlagsFollow, RequestFlags, Finish
      <3> QED
        BY <1>2, <3>5, CleanStays
    <2>2. CASE car \notin CarsOf(q)
      <3>1. Settled(car)
        BY <1>1, <1>3, <1>5, <2>2, SettledBefore
      <3> QED
        BY <1>2, <3>1, CleanStays DEF FlagsInv, FlagsRight, Clean
    <2> QED
      BY <2>1, <2>2
  <1> QED
    BY <1>4, <1>5 DEF FlagsInv, FlagsFollow, FlagsRight, Clean

LEMMA FlagsLookUp ==
    ASSUME TypeOK, FlagsInv, NEW o \in LookedUp, LookUpPlate(o)
    PROVE  FlagsInv'
  <1>1. UNCHANGED <<internal, batches, import>>
    BY LookedUpRows
  <1>2. ASSUME NEW car \in Cars PROVE Kept(car)
    <2>1. Stub.car = None /\ None # car
      BY NoneAssumption DEF Stub
    <2> QED
      BY <1>1, <2>1, LookedUpRows DEF Kept, Untouched, Group
  <1>3. ASSUME NEW s \in Slots, NEW p \in Payloads, Sends(s, p)' PROVE RequestFlags(s, p)'
    <2>1. Sends(s, p) /\ import'[s] = import[s]
      BY <1>1, <1>3 DEF Sends
    <2> QED
      BY <1>2, <2>1, CarsAreCars, FlagsStay DEF FlagsInv, FlagsFollow
  <1>4. ASSUME NEW car \in Cars, Settled(car)' PROVE Clean(car)'
    <2>1. Settled(car)
      BY <1>1, <1>4 DEF Settled, Sending
    <2> QED
      BY <1>2, <2>1, CleanStays DEF FlagsInv, FlagsRight, Clean
  <1> QED
    BY <1>3, <1>4 DEF FlagsInv, FlagsFollow, FlagsRight, Clean

LEMMA FlagsNext ==
    ASSUME TypeOK, Alone, RowsHeld, FlagsInv, [Next]_vars
    PROVE  FlagsInv'
  <1>1. CASE UNCHANGED vars
    <2>1. \A car : Kept(car)
      BY <1>1, NothingWritten DEF vars
    <2>2. ASSUME NEW s \in Slots, NEW p \in Payloads, Sends(s, p)' PROVE RequestFlags(s, p)'
      <3>1. Sends(s, p) /\ import'[s] = import[s]
        BY <1>1, <2>2 DEF Sends, vars
      <3> QED
        BY <2>1, <3>1, FlagsStay DEF FlagsInv, FlagsFollow
    <2>3. ASSUME NEW car \in Cars, Settled(car)' PROVE Clean(car)'
      <3>1. Settled(car)
        BY <1>1, <2>3 DEF Settled, Sending, vars
      <3> QED
        BY <2>1, <3>1, CleanStays DEF FlagsInv, FlagsRight, Clean
    <2> QED
      BY <2>2, <2>3 DEF FlagsInv, FlagsFollow, FlagsRight, Clean
  <1> QED
    BY <1>1, NextSteps, FlagsStart, FlagsWork, FlagsEnd, FlagsLookUp

LEMMA StartEmpty == Init => Alone /\ RowsHeld /\ FlagsInv
  BY DEF Init, Alone, RowsHeld, FlagsInv, FlagsFollow, FlagsRight, Settled, Sending, Sends

-----------------------------------------------------------------------------
(* Lines and payment snapshots, where a payload has each order once        *)

SentOnce == \A p \in Payloads : \A i, j \in DOMAIN p : p[i].order = p[j].order => i = j

(* The one record of an order in a chunk.                                  *)
LEMMA OneRecord ==
    ASSUME SentOnce, NEW p \in Payloads, NEW chunk \in SUBSET DOMAIN p, NEW o \in Orders,
           Of(o, p, chunk) # {}
    PROVE  \E i \in chunk : /\ Of(o, p, chunk) = {i} /\ Max(Of(o, p, chunk)) = i
                            /\ i \in DOMAIN p /\ p[i].order = o
  <1>1. PICK i : i = Max(Of(o, p, chunk)) /\ i \in Of(o, p, chunk)
    BY LastRecord
  <1>2. i \in chunk /\ i \in DOMAIN p /\ p[i].order = o
    BY <1>1 DEF Of
  <1>3. \A j \in Of(o, p, chunk) : j = i
    BY <1>2 DEF Of, SentOnce
  <1> QED
    BY <1>1, <1>2, <1>3

(* What a commit makes of an order: record i of the payload is the order's *)
(* and last the payment that its latest snapshot had.                      *)
Recorded(t, o, i, last) ==
    LET record == Payload(t)[i]
        batch  == import[t].batch
    IN  /\ i \in DOMAIN Payload(t) /\ record.order = o
        /\ rows'[o] = ToRow(record)
        /\ lines'[o] = {[batch |-> batch, record |-> i, content |-> record.content]}
        /\ snapshots'[o] = IF record.paid \in {None, last} THEN snapshots[o]
                           ELSE snapshots[o] \cup {[at |-> batch, paid |-> record.paid]}

LEMMA CommitOrder ==
    ASSUME TypeOK, SentOnce, NEW t \in Slots, CommitChunk(t), NEW o \in Orders
    PROVE  \/ /\ rows'[o] = rows[o] /\ lines'[o] = lines[o] /\ snapshots'[o] = snapshots[o]
           \/ \E i \in Chunk(t), last \in LastPaid(o) : Recorded(t, o, i, last)
  <1>1. PICK p, chunk, b : p = Payload(t) /\ chunk = Chunk(t) /\ b = import[t].batch
    OBVIOUS
  <1>2. p \in Payloads /\ chunk \in SUBSET DOMAIN p
    BY <1>1, BatchOf DEF CommitChunk
  <1>3. PICK lasts \in [Orders -> Amounts] :
           /\ \A d \in Orders : lasts[d] \in LastPaid(d)
           /\ snapshots' = Observed(p, chunk, b, lasts)
    BY <1>1 DEF CommitChunk
  <1>4. rows' = Upserted(p, chunk) /\ lines' = Replaced(p, chunk, b)
    BY <1>1 DEF CommitChunk
  <1>5. CASE Of(o, p, chunk) = {}
    <2>1. rows'[o] = rows[o] /\ lines'[o] = lines[o]
      BY <1>4, <1>5 DEF Upserted, Replaced
    <2>2. snapshots'[o] = snapshots[o]
      BY <1>3, <1>5 DEF Observed
    <2> QED
      BY <2>1, <2>2
  <1>6. CASE Of(o, p, chunk) # {}
    <2>1. PICK i \in chunk : /\ Of(o, p, chunk) = {i} /\ Max(Of(o, p, chunk)) = i
                            /\ i \in DOMAIN p /\ p[i].order = o
      BY <1>2, <1>6, OneRecord
    <2>2. rows'[o] = ToRow(p[i])
      BY <1>4, <2>1 DEF Upserted
    <2>3. lines'[o] = {[batch |-> b, record |-> i, content |-> p[i].content]}
      BY <1>4, <2>1 DEF Replaced, NewLines
    <2>4. snapshots'[o] = IF p[i].paid \in {None, lasts[o]} THEN snapshots[o]
                          ELSE snapshots[o] \cup {[at |-> b, paid |-> p[i].paid]}
      <3>1. snapshots'[o] = snapshots[o] \cup {[at |-> b, paid |-> p[k].paid] :
                               k \in {j \in Of(o, p, chunk) : p[j].paid \notin {None, lasts[o]}}}
        BY <1>3 DEF Observed
      <3>2. CASE p[i].paid \in {None, lasts[o]}
        <4>1. {j \in Of(o, p, chunk) : p[j].paid \notin {None, lasts[o]}} = {}
          BY <2>1, <3>2
        <4> QED
          BY <3>1, <3>2, <4>1
      <3>3. CASE p[i].paid \notin {None, lasts[o]}
        <4>1. {j \in Of(o, p, chunk) : p[j].paid \notin {None, lasts[o]}} = {i}
          BY <2>1, <3>3
        <4> QED
          BY <3>1, <3>3, <4>1
      <3> QED
        BY <3>2, <3>3
    <2>5. lasts[o] \in LastPaid(o)
      BY <1>3
    <2>6. Recorded(t, o, i, lasts[o])
      BY <1>1, <2>1, <2>2, <2>3, <2>4 DEF Recorded
    <2> QED
      BY <1>1, <2>1, <2>5, <2>6
  <1> QED
    BY <1>5, <1>6

(* The steps that leave rows, lines and snapshots alone.                   *)
LEMMA TablesStay ==
    ASSUME TypeOK, [Next]_vars, ~(\E t \in Slots : CommitChunk(t)),
           ~(\E o \in LookedUp : LookUpPlate(o))
    PROVE  UNCHANGED <<rows, lines, snapshots>>
  BY DEF Next, Start, FailChunk, SaveCounts, ReadCars, WriteFlags, FailFlags, Finish, Kill, vars

LEMMA LinesNext ==
    ASSUME TypeOK, SentOnce, LinesMatchRow, [Next]_vars
    PROVE  LinesMatchRow'
  <1>1. ASSUME NEW t \in Slots, CommitChunk(t) PROVE LinesMatchRow'
    <2> SUFFICES ASSUME NEW o \in Orders, Imported(o)'
                 PROVE  \E line \in lines'[o] : lines'[o] = {line} /\ line.content = rows'[o].content
      BY DEF LinesMatchRow
    <2>1. CASE rows'[o] = rows[o] /\ lines'[o] = lines[o]
      BY <2>1 DEF LinesMatchRow, Imported
    <2>2. ASSUME NEW i, NEW last, Recorded(t, o, i, last)
          PROVE  \E line \in lines'[o] : lines'[o] = {line} /\ line.content = rows'[o].content
      <3>1. PICK p \in Payloads : p = Payload(t)
        BY <1>1, BatchOf DEF CommitChunk
      <3>2. PICK line : line = [batch |-> import[t].batch, record |-> i, content |-> p[i].content]
        OBVIOUS
      <3>3. i \in DOMAIN p /\ rows'[o] = ToRow(p[i]) /\ lines'[o] = {line}
        BY <2>2, <3>1, <3>2 DEF Recorded
      <3>4. line.content = rows'[o].content
        BY <3>2, <3>3, RowOfRecord
      <3> QED
        BY <3>3, <3>4
    <2> QED
      BY <1>1, <2>1, <2>2, CommitOrder
  <1>2. ASSUME NEW d \in LookedUp, LookUpPlate(d) PROVE LinesMatchRow'
    BY <1>2, LookedUpRows DEF LinesMatchRow, Imported
  <1>3. CASE UNCHANGED <<rows, lines, snapshots>>
    BY <1>3 DEF LinesMatchRow, Imported
  <1> QED
    BY <1>1, <1>2, <1>3, TablesStay

(* The record of an import that a snapshot comes from is behind it.        *)
Behind(t, i) ==
    /\ At(t, "chunk") => i < import[t].next
    /\ At(t, "counts") => i < import[t].next + CHUNK_SIZE

Snapshot(o, s) ==
    /\ s = [at |-> s.at, paid |-> s.paid]
    /\ s.at \in DOMAIN batches /\ o \in OrdersOf(batches[s.at].payload)
    /\ \A z \in snapshots[o] : z.at = s.at => z = s
    /\ \A t \in Slots : InFlight(t) /\ import[t].batch = s.at =>
          \E i \in DOMAIN Payload(t) : Payload(t)[i].order = o /\ Behind(t, i)

SnapshotsKept == \A o \in Orders : \A s \in snapshots[o] : Snapshot(o, s)

LEMMA Progress ==
    ASSUME TypeOK, NEW t \in Slots, Work(t)
    PROVE  /\ import[t].next \in Nat /\ CHUNK_SIZE \in Nat
           /\ CommitChunk(t) \/ FailChunk(t) =>
                 /\ import[t].step = "chunk" /\ import'[t].step = "counts"
                 /\ import'[t].next = import[t].next
           /\ SaveCounts(t) => /\ import[t].step = "counts"
                               /\ import'[t].next = import[t].next + CHUNK_SIZE
           /\ ReadCars(t) \/ WriteFlags(t) \/ FailFlags(t) =>
                 import'[t].step \in {"write", "finish"}
  <1>1. InFlight(t) /\ import[t] \in Requests
    BY OwnStep DEF TypeOK
  <1>2. import[t].next \in Nat /\ CHUNK_SIZE \in Nat
    BY <1>1, CountAssumption DEF Requests
  <1>3. CASE CommitChunk(t)
    BY <1>1, <1>2, <1>3 DEF CommitChunk, FailChunk, SaveCounts, ReadCars, WriteFlags, FailFlags,
                            TypeOK, Requests
  <1>4. CASE FailChunk(t) \/ SaveCounts(t)
    BY <1>1, <1>2, <1>4 DEF CommitChunk, FailChunk, SaveCounts, ReadCars, WriteFlags, FailFlags,
                            TypeOK, Requests
  <1>5. CASE ReadCars(t) \/ WriteFlags(t) \/ FailFlags(t)
    BY <1>1, <1>2, <1>5 DEF CommitChunk, FailChunk, SaveCounts, ReadCars, WriteFlags, FailFlags,
                            TypeOK, Requests
  <1> QED
    BY <1>3, <1>4, <1>5 DEF Work

LEMMA BehindStays ==
    ASSUME TypeOK, NEW t \in Slots, Work(t), NEW i \in Nat, Behind(t, i)
    PROVE  Behind(t, i)'
  <1>1. InFlight(t) /\ import[t] \in Requests
    BY OwnStep DEF TypeOK
  <1>2. PICK n, m : n = import[t].next /\ m = import'[t].next
    OBVIOUS
  <1>3. CASE CommitChunk(t) \/ FailChunk(t)
    <2>1. i < n /\ m = n /\ import'[t].step = "counts" /\ n \in Nat /\ CHUNK_SIZE \in Nat
      BY <1>1, <1>2, <1>3, Progress DEF Behind
    <2> QED
      BY <1>2, <2>1 DEF Behind
  <1>4. CASE SaveCounts(t)
    <2>1. i < n + CHUNK_SIZE /\ m = n + CHUNK_SIZE /\ n \in Nat /\ CHUNK_SIZE \in Nat
      BY <1>1, <1>2, <1>4, Progress DEF Behind
    <2> QED
      BY <1>2, <2>1 DEF Behind
  <1>5. CASE ReadCars(t) \/ WriteFlags(t) \/ FailFlags(t)
    BY <1>5, Progress DEF Behind
  <1> QED
    BY <1>3, <1>4, <1>5 DEF Work

(* What a step other than a commit leaves of a snapshot.                   *)
LEMMA SnapshotStays ==
    ASSUME TypeOK, [Next]_vars, NEW o \in Orders, NEW s, Snapshot(o, s)
    PROVE  /\ s.at \in DOMAIN batches' /\ o \in OrdersOf(batches'[s.at].payload)
           /\ \A t \in Slots : InFlight(t)' /\ import'[t].batch = s.at =>
                 \E i \in DOMAIN Payload(t)' : Payload(t)'[i].order = o /\ Behind(t, i)'
  <1> USE DEF Snapshot
  <1>1. /\ s.at \in DOMAIN batches' /\ batches'[s.at].payload = batches[s.at].payload
        /\ s.at \in DOMAIN batches /\ o \in OrdersOf(batches[s.at].payload)
    <2>1. CASE \E t \in Slots, p \in Payloads : Start(t, p)
      BY <2>1, BegunStep
    <2>2. CASE \E t \in Slots : Work(t)
      BY <2>2, OwnStep DEF SameBatches
    <2>3. CASE \E t \in Slots : Finish(t) \/ Kill(t)
      BY <2>3, EndStep
    <2>4. CASE batches' = batches
      BY <2>4
    <2> QED
      BY <2>1, <2>2, <2>3, <2>4, NextSteps, LookedUpRows DEF vars
  <1>2. ASSUME NEW t \in Slots, InFlight(t)', import'[t].batch = s.at
        PROVE  \E i \in DOMAIN Payload(t)' : Payload(t)'[i].order = o /\ Behind(t, i)'
    <2>1. CASE import'[t] = import[t]
      <3>1. PICK i \in DOMAIN Payload(t) : Payload(t)[i].order = o /\ Behind(t, i)
        BY <1>2, <2>1
      <3>2. Payload(t)' = Payload(t)
        BY <1>1, <1>2, <2>1 DEF Payload
      <3> QED
        BY <2>1, <3>1, <3>2 DEF Behind
    <2>2. CASE \E p \in Payloads : Start(t, p)
      <3>1. import'[t].batch = Len(batches) + 1 /\ DOMAIN batches = 1..Len(batches)
            /\ Len(batches) \in Nat
        BY <2>2, BegunStep
      <3> QED
        BY <1>1, <1>2, <3>1
    <2>3. CASE Work(t)
      <3>1. InFlight(t) /\ import'[t].batch = import[t].batch
        BY <2>3, OwnStep
      <3>2. PICK i \in DOMAIN Payload(t) : Payload(t)[i].order = o /\ Behind(t, i)
        BY <1>2, <3>1
      <3>3. Payload(t)' = Payload(t)
        BY <1>1, <1>2, <3>1 DEF Payload
      <3>4. i \in Nat
        BY <3>1, BatchOf
      <3> QED
        BY <2>3, <3>2, <3>3, <3>4, BehindStays
    <2>4. CASE Finish(t) \/ Kill(t)
      BY <1>2, <2>4, EndStep
    <2>5. \/ import'[t] = import[t] \/ \E p \in Payloads : Start(t, p)
          \/ Work(t) \/ Finish(t) \/ Kill(t)
      <3>1. ASSUME NEW r \in Slots, NEW p \in Payloads, Start(r, p)
            PROVE  r = t \/ import'[t] = import[t]
        BY <3>1, BegunStep
      <3>2. ASSUME NEW r \in Slots, Work(r) PROVE r = t \/ import'[t] = import[t]
        BY <3>2, OwnStep
      <3>3. ASSUME NEW r \in Slots, Finish(r) \/ Kill(r) PROVE r = t \/ import'[t] = import[t]
        BY <3>3, EndStep
      <3>4. ASSUME NEW d \in LookedUp, LookUpPlate(d) PROVE import'[t] = import[t]
        BY <3>4, LookedUpRows
      <3>5. CASE UNCHANGED vars
        BY <3>5 DEF vars
      <3> QED
        BY <3>1, <3>2, <3>3, <3>4, <3>5, NextSteps
    <2> QED
      BY <2>1, <2>2, <2>3, <2>4, <2>5
  <1> QED
    BY <1>1, <1>2

(* The snapshots an import finds of an order that it sends and has not yet *)
(* come to are of earlier imports.                                         *)
LEMMA EarlierSnapshots ==
    ASSUME TypeOK, SentOnce, Alone, SnapshotsKept, NEW t \in Slots, At(t, "chunk"),
           NEW i \in Chunk(t), NEW o \in Orders, Payload(t)[i].order = o,
           NEW s \in snapshots[o]
    PROVE  s.at \in Nat /\ s.at < import[t].batch
  <1>1. PICK p, b : p = Payload(t) /\ b = import[t].batch
    OBVIOUS
  <1>2. p \in Payloads /\ i \in DOMAIN p /\ i \in Nat /\ p[i].order = o
    BY <1>1, BatchOf
  <1>3. i >= import[t].next /\ import[t].next \in Nat
    <2>1. import[t] \in Requests /\ i \in import[t].next..(import[t].next + CHUNK_SIZE - 1)
      BY DEF TypeOK, Chunk
    <2> QED
      BY <2>1, CountAssumption DEF Requests
  <1>4. Snapshot(o, s) /\ b \in Nat /\ s.at \in Nat
    <2>1. Snapshot(o, s) /\ batches \in Seq(Batches) /\ b \in DOMAIN batches
      BY <1>1 DEF SnapshotsKept, TypeOK
    <2> QED
      BY <2>1 DEF Snapshot
  <1>5. s.at # b
    <2>1. ASSUME s.at = b PROVE FALSE
      <3>1. PICK j \in DOMAIN p : p[j].order = o /\ Behind(t, j)
        BY <1>1, <1>4, <2>1 DEF Snapshot
      <3>2. j = i
        BY <1>2, <3>1 DEF SentOnce
      <3> QED
        BY <1>2, <1>3, <3>1, <3>2 DEF Behind
    <2> QED
      BY <2>1
  <1>6. ~(s.at > b)
    <2>1. ASSUME s.at > b PROVE FALSE
      <3>1. PICK q : q = batches[s.at].payload /\ q \in Payloads
        <4>1. batches[s.at] \in Batches
          BY <1>4 DEF Snapshot, TypeOK
        <4> QED
          BY <4>1 DEF Batches
      <3>2. Apart(p, q)
        BY <1>1, <1>2, <1>4, <2>1, <3>1, SentPayload DEF Alone, Snapshot
      <3>3. o \in OrdersOf(p) /\ o \in OrdersOf(q)
        BY <1>2, <1>4, <3>1 DEF OrdersOf, Snapshot
      <3> QED
        BY <3>2, <3>3 DEF Apart
    <2> QED
      BY <2>1
  <1> QED
    BY <1>1, <1>4, <1>5, <1>6

(* The latest of the snapshots of an order.                                *)
LEMMA OneLatest ==
    ASSUME TypeOK, SnapshotsKept, NEW o \in Orders, snapshots[o] # {}
    PROVE  \E s \in snapshots[o] : Latest(o) = {s}
  <1> DEFINE ats == {s.at : s \in snapshots[o]}
  <1>1. Len(batches) \in Nat /\ DOMAIN batches = 1..Len(batches)
    BY DEF TypeOK
  <1>2. ats \in SUBSET (1..Len(batches)) /\ ats # {}
    BY <1>1 DEF SnapshotsKept, Snapshot
  <1>3. PICK m : m \in ats /\ \A at \in ats : at <= m
    <2> HIDE DEF ats
    <2> QED
      BY <1>1, <1>2, Greatest
  <1>4. PICK s \in snapshots[o] : s.at = m
    BY <1>3
  <1>5. \A z \in snapshots[o] : z.at <= s.at /\ z.at \in Nat
    <2> SUFFICES ASSUME NEW z \in snapshots[o] PROVE z.at <= m /\ z.at \in Nat
      BY <1>4
    <2>1. z.at \in ats
      OBVIOUS
    <2> HIDE DEF ats
    <2>2. z.at <= m
      BY <1>3, <2>1
    <2>3. z.at \in Nat
      BY <1>1 DEF SnapshotsKept, Snapshot
    <2> QED
      BY <2>2, <2>3
  <1>6. \A z \in snapshots[o] : z.at = s.at => z = s
    BY DEF SnapshotsKept, Snapshot
  <1>7. \A z \in Latest(o) : z = s
    <2> SUFFICES ASSUME NEW z \in Latest(o) PROVE z.at = s.at /\ z \in snapshots[o]
      BY <1>6
    <2>1. z \in snapshots[o] /\ s.at <= z.at
      BY DEF Latest
    <2> QED
      BY <1>5, <2>1
  <1>8. s \in Latest(o)
    BY <1>5 DEF Latest
  <1>9. Latest(o) = {s}
    BY <1>7, <1>8
  <1> QED
    BY <1>9

(* A commit keeps the snapshots in order and the row of an order in step   *)
(* with the latest of them.                                                *)
LEMMA SnapshotsCommit ==
    ASSUME TypeOK, SentOnce, Alone, SnapshotsKept, LatestSnapshotMatches,
           NEW t \in Slots, CommitChunk(t)
    PROVE  SnapshotsKept' /\ LatestSnapshotMatches'
  <1>1. PICK p, b : p = Payload(t) /\ b = import[t].batch
    OBVIOUS
  <1>2. /\ p \in Payloads /\ At(t, "chunk") /\ b \in Nat /\ b \in DOMAIN batches
        /\ p = batches[b].payload /\ Chunk(t) \in SUBSET DOMAIN p /\ DOMAIN p \in SUBSET Nat
    <2>1. b \in DOMAIN batches /\ batches \in Seq(Batches) /\ At(t, "chunk")
      BY <1>1 DEF TypeOK, CommitChunk
    <2> QED
      BY <1>1, <2>1, BatchOf DEF Payload
  <1>3. /\ batches' = batches /\ Payload(t)' = p /\ import'[t].batch = b
        /\ \A s \in Slots \ {t} : import'[s] = import[s]
    <2>1. batches' = batches /\ Work(t)
      BY DEF CommitChunk, Work
    <2> QED
      BY <1>1, <1>2, <2>1, OwnStep DEF Payload
  <1>4. ASSUME NEW o \in Orders
        PROVE  /\ \A s \in snapshots'[o] : Snapshot(o, s)'
               /\ Imported(o)' /\ rows'[o].paid # None => LastPaid(o)' = {rows'[o].paid}
    <2>1. ASSUME NEW s, Snapshot(o, s), \A z \in snapshots'[o] : z.at = s.at => z = s
          PROVE  Snapshot(o, s)'
      <3>1. [Next]_vars
        BY DEF Next
      <3> QED
        BY <2>1, <3>1, SnapshotStays DEF Snapshot
    <2>2. CASE rows'[o] = rows[o] /\ snapshots'[o] = snapshots[o]
      <3>1. \A s \in snapshots'[o] : Snapshot(o, s)'
        BY <2>1, <2>2 DEF SnapshotsKept, Snapshot
      <3>2. LastPaid(o)' = LastPaid(o)
        BY <2>2 DEF LastPaid, Latest
      <3> QED
        BY <2>2, <3>1, <3>2 DEF LatestSnapshotMatches, Imported
    <2>3. ASSUME NEW i \in Chunk(t), NEW last \in LastPaid(o), Recorded(t, o, i, last)
          PROVE  /\ \A s \in snapshots'[o] : Snapshot(o, s)'
                 /\ Imported(o)' /\ rows'[o].paid # None => LastPaid(o)' = {rows'[o].paid}
      <3>0. /\ p[i].order = o /\ rows'[o] = ToRow(p[i])
            /\ snapshots'[o] = IF p[i].paid \in {None, last} THEN snapshots[o]
                               ELSE snapshots[o] \cup {[at |-> b, paid |-> p[i].paid]}
        BY <1>1, <2>3 DEF Recorded
      <3>1. i \in DOMAIN p /\ i \in Nat /\ rows'[o].paid = p[i].paid
        BY <1>2, <2>3, <3>0, RowOfRecord
      <3>2. \A s \in snapshots[o] : s.at \in Nat /\ s.at < b
        BY <1>1, <1>2, <3>0, EarlierSnapshots
      <3>3. CASE p[i].paid \in {None, last}
        <4>1. snapshots'[o] = snapshots[o]
          BY <3>0, <3>3
        <4>2. \A s \in snapshots'[o] : Snapshot(o, s)'
          BY <2>1, <4>1 DEF SnapshotsKept, Snapshot
        <4>3. LastPaid(o)' = LastPaid(o)
          BY <4>1 DEF LastPaid, Latest
        <4>4. LastPaid(o) = {last}
          <5>1. CASE snapshots[o] = {}
            BY <2>3, <5>1 DEF LastPaid
          <5>2. CASE snapshots[o] # {}
            <6>1. PICK s \in snapshots[o] : Latest(o) = {s}
              BY <5>2, OneLatest
            <6>2. LastPaid(o) = {s.paid}
              BY <5>2, <6>1 DEF LastPaid
            <6> QED
              BY <2>3, <6>2
          <5> QED
            BY <5>1, <5>2
        <4> QED
          BY <3>1, <3>3, <4>2, <4>3, <4>4
      <3>4. CASE p[i].paid \notin {None, last}
        <4>1. PICK new : new = [at |-> b, paid |-> p[i].paid]
          OBVIOUS
        <4>2. new.at = b /\ new.paid = p[i].paid /\ new = [at |-> new.at, paid |-> new.paid]
          BY <4>1
        <4>3. snapshots'[o] = snapshots[o] \cup {new}
          BY <3>0, <3>4, <4>1
        <4>4. \A z \in snapshots[o] : z.at # new.at
          BY <1>2, <3>2, <4>2
        <4>5. ASSUME NEW s \in snapshots[o] PROVE Snapshot(o, s)'
          <5>1. Snapshot(o, s)
            BY DEF SnapshotsKept
          <5>2. \A z \in snapshots'[o] : z.at = s.at => z = s
            BY <4>3, <4>4, <5>1 DEF Snapshot
          <5> QED
            BY <2>1, <5>1, <5>2
        <4>6. Snapshot(o, new)'
          <5>1. o \in OrdersOf(p)
            BY <3>0, <3>1 DEF OrdersOf
          <5>2. \A z \in snapshots'[o] : z.at = new.at => z = new
            BY <4>3, <4>4
          <5>3. \A s \in Slots : InFlight(s)' /\ import'[s].batch = b => s = t
            BY <1>1, <1>2, <1>3 DEF TypeOK
          <5>4. Behind(t, i)'
            <6>1. i \in import[t].next..(import[t].next + CHUNK_SIZE - 1)
              BY DEF Chunk
            <6>2. /\ import[t].next \in Nat /\ CHUNK_SIZE \in Nat /\ import'[t].step = "counts"
                  /\ import'[t].next = import[t].next
              BY Progress DEF Work
            <6> QED
              BY <3>1, <6>1, <6>2 DEF Behind
          <5> QED
            BY <1>2, <1>3, <3>0, <3>1, <4>2, <5>1, <5>2, <5>3, <5>4 DEF Snapshot
        <4>7. Latest(o)' = {new} /\ LastPaid(o)' = {new.paid}
          <5>1. Latest(o)' = {new}
            BY <1>2, <3>2, <4>2, <4>3 DEF Latest
          <5> QED
            BY <4>3, <5>1 DEF LastPaid
        <4> QED
          BY <3>1, <4>2, <4>3, <4>5, <4>6, <4>7
      <3> QED
        BY <3>3, <3>4
    <2> QED
      BY <2>2, <2>3, CommitOrder
  <1> QED
    BY <1>4 DEF SnapshotsKept, LatestSnapshotMatches

LEMMA SnapshotsNext ==
    ASSUME TypeOK, SentOnce, Alone, SnapshotsKept, LatestSnapshotMatches, [Next]_vars
    PROVE  SnapshotsKept' /\ LatestSnapshotMatches'
  <1>1. CASE \E t \in Slots : CommitChunk(t)
    BY <1>1, SnapshotsCommit
  <1>2. CASE ~(\E t \in Slots : CommitChunk(t))
    <2>1. /\ snapshots' = snapshots
          /\ \A o \in Orders : rows'[o] = rows[o] \/ rows'[o] = Stub
      <3>1. CASE \E d \in LookedUp : LookUpPlate(d)
        BY <3>1, LookedUpRows
      <3>2. CASE UNCHANGED <<rows, lines, snapshots>>
        BY <3>2
      <3> QED
        BY <1>2, <3>1, <3>2, TablesStay
    <2>2. ASSUME NEW o \in Orders, NEW s \in snapshots[o] PROVE Snapshot(o, s)'
      <3>1. Snapshot(o, s)
        BY DEF SnapshotsKept
      <3> QED
        BY <2>1, <3>1, SnapshotStays DEF Snapshot
    <2>3. \A o \in Orders : LastPaid(o)' = LastPaid(o)
      BY <2>1 DEF LastPaid, Latest
    <2> QED
      BY <2>1, <2>2, <2>3 DEF SnapshotsKept, LatestSnapshotMatches, Imported
  <1> QED
    BY <1>1, <1>2

-----------------------------------------------------------------------------
(* Counts.  A request has counted no more than the records it has come to, *)
(* and all of them if nothing failed; its batch tells what it has saved.   *)

Smaller(a, b) == IF a <= b THEN a ELSE b

(* The records a request has come to, with the chunk it has just done.     *)
Done(t) ==
    CASE import[t].step = "chunk"  -> import[t].next - 1
      [] import[t].step = "counts" -> Smaller(import[t].next + CHUNK_SIZE - 1, Len(Payload(t)))
      [] OTHER -> Len(Payload(t))

RequestCounts(t) ==
    LET request == import[t]
        batch   == batches[request.batch]
    IN  /\ request.step \in {"chunk", "counts"} => request.next <= Len(Payload(t))
        /\ request.inserted + request.updated <= Done(t)
        /\ ~request.errors => request.inserted + request.updated = Done(t)
        /\ request.step # "counts" =>
              batch.inserted = request.inserted /\ batch.updated = request.updated

BatchCounts(b) ==
    LET batch == batches[b] IN
    /\ batch.inserted + batch.updated <= Len(batch.payload)
    /\ batch.status = "success" => batch.inserted + batch.updated = Len(batch.payload)

CountsFollow == /\ \A t \in Slots : InFlight(t) => RequestCounts(t)
                /\ \A b \in DOMAIN batches : BatchCounts(b)

LEMMA ChunkSize ==
    ASSUME TypeOK, NEW t \in Slots, InFlight(t), import[t].next <= Len(Payload(t))
    PROVE  Cardinality(Chunk(t))
              = Smaller(import[t].next + CHUNK_SIZE - 1, Len(Payload(t))) - (import[t].next - 1)
  <1>1. PICK n, len : n = import[t].next /\ len = Len(Payload(t))
    OBVIOUS
  <1>2. n \in Nat \ {0} /\ len \in Nat /\ CHUNK_SIZE \in Nat \ {0} /\ n <= len
        /\ DOMAIN Payload(t) = 1..len
    <2>1. import[t] \in Requests
      BY DEF TypeOK
    <2> QED
      BY <1>1, <2>1, BatchOf, CountAssumption DEF Requests
  <1>3. PICK last : last = Smaller(n + CHUNK_SIZE - 1, len)
    OBVIOUS
  <1>4. last \in Int /\ n <= last /\ last <= len /\ Chunk(t) = n..last
    BY <1>1, <1>2, <1>3 DEF Chunk, Smaller
  <1>5. Cardinality(n..last) = last - n + 1
    BY <1>2, <1>4, FS_Interval
  <1> QED
    BY <1>1, <1>2, <1>3, <1>4, <1>5

(* The counts of a request in flight are numbers.                          *)
LEMMA CountsTyped ==
    ASSUME TypeOK, NEW t \in Slots, InFlight(t)
    PROVE  /\ import[t] \in Requests /\ import[t].batch \in DOMAIN batches
           /\ batches[import[t].batch] \in Batches /\ import[t].step \in Steps
           /\ import[t].inserted \in Int /\ import[t].updated \in Int
           /\ import[t].next \in Nat \ {0} /\ CHUNK_SIZE \in Nat \ {0} /\ Len(Payload(t)) \in Nat
           /\ Payload(t) = batches[import[t].batch].payload
           /\ batches[import[t].batch].status = "processing" /\ import[t].errors \in BOOLEAN
  <1>1. import[t] \in Requests /\ import[t].batch \in DOMAIN batches
    BY DEF TypeOK
  <1>2. import[t].inserted \in Int /\ import[t].updated \in Int /\ import[t].step \in Steps
        /\ import[t].next \in Nat \ {0} /\ import[t].errors \in BOOLEAN
    BY <1>1 DEF Requests
  <1> QED
    BY <1>1, <1>2, BatchOf, CountAssumption DEF TypeOK, Payload

(* What a step of a request leaves as it was.                              *)
LEMMA CountsElsewhere ==
    ASSUME TypeOK, CountsFollow, NEW t \in Slots, InFlight(t),
           NEW own, own = import[t].batch,
           \A s \in Slots \ {t} : import'[s] = import[s],
           DOMAIN batches' = DOMAIN batches,
           \A b \in DOMAIN batches : b # own => batches'[b] = batches[b],
           InFlight(t)' => RequestCounts(t)', BatchCounts(own)'
    PROVE  CountsFollow'
  <1>1. ASSUME NEW s \in Slots \ {t}, InFlight(s)' PROVE RequestCounts(s)'
    <2>1. import'[s] = import[s] /\ InFlight(s) /\ RequestCounts(s)
      BY <1>1 DEF CountsFollow
    <2>2. import[s].batch \in DOMAIN batches /\ import[s].batch # import[t].batch
      BY <2>1 DEF TypeOK
    <2>3. batches'[import[s].batch] = batches[import[s].batch]
      BY <2>2
    <2> QED
      BY <2>1, <2>3 DEF RequestCounts, Done, Payload
  <1>2. ASSUME NEW b \in DOMAIN batches' PROVE BatchCounts(b)'
    <2>1. BatchCounts(b)
      BY DEF CountsFollow
    <2>2. CASE b # own
      <3>1. batches'[b] = batches[b]
        BY <2>2
      <3> QED
        BY <2>1, <3>1 DEF BatchCounts
    <2> QED
      BY <2>2
  <1> QED
    BY <1>1, <1>2 DEF CountsFollow

LEMMA CountsBegin ==
    ASSUME TypeOK, CountsFollow, NEW t \in Slots, NEW p \in Payloads, Start(t, p)
    PROVE  /\ CountsFollow' /\ batches'[Len(batches) + 1].inserted = 0
           /\ import'[t].inserted = 0
  <1>0. PICK n : n = Len(batches) + 1
    OBVIOUS
  <1> DEFINE begun == [payload |-> p, status |-> "processing", inserted |-> 0, updated |-> 0]
             request == [batch |-> n, next |-> 1, inserted |-> 0, updated |-> 0,
                         errors |-> FALSE, verdicts |-> NoVerdicts,
                         step |-> IF p = <<>> THEN "read" ELSE "chunk"]
  <1>1. /\ Len(batches) \in Nat /\ DOMAIN batches = 1..Len(batches) /\ DOMAIN batches' = 1..n
        /\ \A b \in DOMAIN batches : batches'[b] = batches[b]
        /\ \A s \in Slots \ {t} : import'[s] = import[s]
    BY <1>0, BegunStep
  <1>2. batches' = Append(batches, begun) /\ import' = [import EXCEPT ![t] = request]
    BY <1>0 DEF Start
  <1>3. batches'[n] = begun /\ import'[t] = request
    <2> HIDE DEF begun, request
    <2>1. batches'[n] = begun
      BY <1>0, <1>1, <1>2 DEF TypeOK
    <2> QED
      BY <1>2, <2>1 DEF TypeOK
  <1>4. Len(p) \in Nat /\ (p = <<>> => Len(p) = 0) /\ (p # <<>> => 1 <= Len(p))
    BY PayloadAssumption
  <1>5. RequestCounts(t)'
    <2>1. /\ import'[t].batch = n /\ import'[t].next = 1 /\ import'[t].inserted = 0
          /\ import'[t].updated = 0 /\ import'[t].step = IF p = <<>> THEN "read" ELSE "chunk"
      BY <1>3
    <2>2. batches'[n].payload = p /\ batches'[n].inserted = 0 /\ batches'[n].updated = 0
      BY <1>3
    <2>3. Payload(t)' = p
      BY <2>1, <2>2 DEF Payload
    <2>4. Done(t)' = 0
      BY <1>4, <2>1, <2>3 DEF Done
    <2> QED
      BY <1>4, <2>1, <2>2, <2>3, <2>4 DEF RequestCounts
  <1>6. BatchCounts(n)'
    BY <1>3, <1>4 DEF BatchCounts
  <1>7. ASSUME NEW s \in Slots \ {t}, InFlight(s)' PROVE RequestCounts(s)'
    <2>1. import'[s] = import[s] /\ InFlight(s) /\ RequestCounts(s)
      BY <1>1, <1>7 DEF CountsFollow
    <2>2. batches'[import[s].batch] = batches[import[s].batch]
      BY <1>1, <2>1 DEF TypeOK
    <2> QED
      BY <2>1, <2>2 DEF RequestCounts, Done, Payload
  <1>8. ASSUME NEW b \in DOMAIN batches', b # n PROVE BatchCounts(b)'
    <2>1. b \in DOMAIN batches
      BY <1>0, <1>1, <1>8
    <2> QED
      BY <1>1, <2>1 DEF CountsFollow, BatchCounts
  <1> QED
    <2>1. batches'[n].inserted = 0 /\ import'[t].inserted = 0
      BY <1>3
    <2>2. ASSUME NEW b \in DOMAIN batches' PROVE BatchCounts(b)'
      BY <1>6, <1>8
    <2> QED
      BY <1>0, <1>5, <1>7, <2>1, <2>2 DEF CountsFollow

LEMMA CountsChunk ==
    ASSUME TypeOK, CountsFollow, NEW t \in Slots, CommitChunk(t) \/ FailChunk(t)
    PROVE  CountsFollow'
  <1>1. PICK r, n, p : r = import[t] /\ n = import[t].next /\ p = Payload(t)
    OBVIOUS
  <1>2. At(t, "chunk") /\ RequestCounts(t)
    BY DEF CommitChunk, FailChunk, CountsFollow
  <1>3. /\ r.inserted \in Int /\ r.updated \in Int /\ n \in Nat \ {0} /\ CHUNK_SIZE \in Nat \ {0}
        /\ Len(p) \in Nat /\ r.errors \in BOOLEAN /\ r \in Requests
    BY <1>1, <1>2, CountsTyped
  <1>4. /\ batches' = batches /\ Work(t) /\ import'[t].batch = r.batch
        /\ \A s \in Slots \ {t} : import'[s] = import[s]
    <2>1. Work(t) /\ batches' = batches
      BY DEF Work, CommitChunk, FailChunk
    <2> QED
      BY <1>1, <2>1, OwnStep
  <1>5. Payload(t)' = p
    BY <1>1, <1>4 DEF Payload
  <1>6. PICK last : last = Smaller(n + CHUNK_SIZE - 1, Len(p))
    OBVIOUS
  <1>7. n <= Len(p) /\ last \in Int /\ n - 1 <= last
    <2>1. n <= Len(p)
      BY <1>1, <1>2 DEF RequestCounts
    <2> QED
      BY <1>3, <1>6, <2>1 DEF Smaller
  <1>8. r.inserted + r.updated <= n - 1 /\ (~r.errors => r.inserted + r.updated = n - 1)
    BY <1>1, <1>2 DEF RequestCounts, Done
  <1>9. /\ import'[t].step = "counts" /\ import'[t].next = n
        /\ \/ /\ import'[t].inserted + import'[t].updated = r.inserted + r.updated + (last - (n - 1))
              /\ import'[t].errors = r.errors
           \/ /\ import'[t].inserted + import'[t].updated = r.inserted + r.updated
              /\ import'[t].errors
    <2>1. CASE CommitChunk(t)
      <3>1. PICK fresh, size : fresh = Cardinality(New(Payload(t), Chunk(t))) /\ size = Cardinality(Chunk(t))
        OBVIOUS
      <3>2. fresh \in Nat /\ size = last - (n - 1)
        BY <1>1, <1>2, <1>6, <1>7, <3>1, ChunkSizes, ChunkSize
      <3>3. import'[t] = [r EXCEPT !.step = "counts", !.inserted = @ + fresh,
                                   !.updated = @ + size - fresh]
        BY <1>1, <2>1, <3>1 DEF CommitChunk, TypeOK
      <3>4. /\ import'[t].step = "counts" /\ import'[t].next = n /\ import'[t].errors = r.errors
            /\ import'[t].inserted = r.inserted + fresh
            /\ import'[t].updated = r.updated + size - fresh
        BY <1>1, <1>3, <3>3 DEF Requests
      <3>5. import'[t].inserted + import'[t].updated = r.inserted + r.updated + size
        BY <1>3, <1>7, <3>2, <3>4
      <3> QED
        BY <3>2, <3>4, <3>5
    <2>2. CASE FailChunk(t)
      <3>1. import'[t] = [r EXCEPT !.step = "counts", !.errors = TRUE]
        BY <1>1, <2>2 DEF FailChunk, TypeOK
      <3> QED
        BY <1>1, <1>3, <3>1 DEF Requests
    <2> QED
      BY <2>1, <2>2
  <1>10. RequestCounts(t)'
    <2>1. Done(t)' = last
      BY <1>5, <1>6, <1>9 DEF Done
    <2>2. PICK sum : sum = import'[t].inserted + import'[t].updated
      OBVIOUS
    <2>3. sum <= last /\ (~import'[t].errors => sum = last)
      BY <1>3, <1>7, <1>8, <1>9, <2>2
    <2> QED
      BY <1>5, <1>7, <1>9, <2>1, <2>2, <2>3 DEF RequestCounts
  <1>11. PICK own : own = import[t].batch
    OBVIOUS
  <1>12. BatchCounts(own)'
    <2>1. BatchCounts(own)
      BY <1>2, <1>11, CountsTyped DEF CountsFollow
    <2> QED
      BY <1>4, <2>1 DEF BatchCounts
  <1> QED
    BY <1>2, <1>4, <1>10, <1>11, <1>12, CountsElsewhere

LEMMA CountsSave ==
    ASSUME TypeOK, CountsFollow, NEW t \in Slots, SaveCounts(t)
    PROVE  CountsFollow'
  <1>1. PICK r, own, p : r = import[t] /\ own = import[t].batch /\ p = Payload(t)
    OBVIOUS
  <1>2. At(t, "counts") /\ RequestCounts(t)
    BY DEF SaveCounts, CountsFollow
  <1>3. /\ r.inserted \in Int /\ r.updated \in Int /\ r.next \in Nat \ {0}
        /\ CHUNK_SIZE \in Nat \ {0} /\ Len(p) \in Nat /\ r.errors \in BOOLEAN /\ r \in Requests
        /\ own \in DOMAIN batches /\ batches[own] \in Batches /\ p = batches[own].payload
        /\ batches[own].status = "processing"
    BY <1>1, <1>2, CountsTyped
  <1>4. /\ import'[t].batch = own /\ SameBatches /\ DOMAIN batches' = DOMAIN batches
        /\ \A s \in Slots \ {t} : import'[s] = import[s]
    BY <1>1, OwnStep DEF Work, SameBatches
  <1>5. /\ batches'[own].inserted = r.inserted /\ batches'[own].updated = r.updated
        /\ \A b \in DOMAIN batches : b # own => batches'[b] = batches[b]
    <2>1. batches' = [batches EXCEPT ![own] = [batches[own] EXCEPT
                         !.inserted = r.inserted, !.updated = r.updated]]
      BY <1>1, <1>3 DEF SaveCounts
    <2> QED
      BY <1>3, <2>1 DEF Batches
  <1>6. PICK next : next = r.next + CHUNK_SIZE
    OBVIOUS
  <1>7. import'[t] = [r EXCEPT !.next = next, !.step = IF next > Len(p) THEN "read" ELSE "chunk"]
    BY <1>1, <1>2, <1>6 DEF SaveCounts, TypeOK
  <1>8. /\ import'[t].next = next /\ import'[t].step = IF next > Len(p) THEN "read" ELSE "chunk"
        /\ import'[t].inserted = r.inserted /\ import'[t].updated = r.updated
        /\ import'[t].errors = r.errors
    BY <1>3, <1>7 DEF Requests
  <1>9. Payload(t)' = p
    BY <1>3, <1>4 DEF Payload, SameBatches
  <1>10. PICK last, sum : last = Smaller(next - 1, Len(p)) /\ sum = r.inserted + r.updated
    OBVIOUS
  <1>11. sum <= last /\ (~r.errors => sum = last)
    <2>1. Done(t) = last
      <3>1. import[t].next + CHUNK_SIZE - 1 = next - 1
        BY <1>1, <1>3, <1>6
      <3>2. Done(t) = Smaller(import[t].next + CHUNK_SIZE - 1, Len(p))
        BY <1>1, <1>2 DEF Done
      <3> QED
        BY <1>10, <3>1, <3>2
    <2> QED
      BY <1>1, <1>2, <1>10, <2>1 DEF RequestCounts
  <1>12. last \in Int /\ sum \in Int /\ last <= Len(p) /\ next \in Nat
         /\ last = IF next > Len(p) THEN Len(p) ELSE next - 1
    BY <1>3, <1>6, <1>10 DEF Smaller
  <1>13. RequestCounts(t)'
    <2>1. Done(t)' = last
      BY <1>8, <1>9, <1>12 DEF Done
    <2>2. import'[t].step \in {"chunk", "counts"} => import'[t].next <= Len(Payload(t)')
      BY <1>8, <1>9, <1>12, <1>3
    <2>3. import'[t].inserted + import'[t].updated = sum
      BY <1>8, <1>10
    <2>4. /\ batches'[import'[t].batch].inserted = import'[t].inserted
          /\ batches'[import'[t].batch].updated = import'[t].updated
      BY <1>4, <1>5, <1>8
    <2> QED
      BY <1>8, <1>11, <2>1, <2>2, <2>3, <2>4 DEF RequestCounts
  <1>14. BatchCounts(own)'
    <2>1. batches'[own].payload = p /\ batches'[own].status = "processing"
      BY <1>3, <1>4 DEF SameBatches
    <2> QED
      BY <1>5, <1>10, <1>11, <1>12, <1>3, <2>1 DEF BatchCounts
  <1> QED
    BY <1>1, <1>2, <1>4, <1>5, <1>13, <1>14, CountsElsewhere

LEMMA CountsFlags ==
    ASSUME TypeOK, CountsFollow, NEW t \in Slots, ReadCars(t) \/ WriteFlags(t) \/ FailFlags(t)
    PROVE  CountsFollow'
  <1>1. PICK r, own, p : r = import[t] /\ own = import[t].batch /\ p = Payload(t)
    OBVIOUS
  <1>2. InFlight(t) /\ RequestCounts(t) /\ r.step \in {"read", "write"} /\ batches' = batches
    BY <1>1 DEF ReadCars, WriteFlags, FailFlags, CountsFollow
  <1>3. /\ r.inserted \in Int /\ r.updated \in Int /\ r.errors \in BOOLEAN /\ r \in Requests
        /\ Len(p) \in Nat /\ own \in DOMAIN batches
    BY <1>1, <1>2, CountsTyped
  <1>4. import'[t].batch = own /\ \A s \in Slots \ {t} : import'[s] = import[s]
    BY <1>1, OwnStep DEF Work
  <1>5. /\ import'[t].step \in {"write", "finish"}
        /\ import'[t].inserted = r.inserted /\ import'[t].updated = r.updated
        /\ ~import'[t].errors => ~r.errors
    <2>1. CASE ReadCars(t)
      <3>1. PICK v : import'[t] = [r EXCEPT !.step = "write", !.verdicts = v]
        BY <1>1, <2>1 DEF ReadCars, TypeOK
      <3> QED
        BY <1>3, <3>1 DEF Requests
    <2>2. CASE WriteFlags(t)
      <3>1. import'[t] = [r EXCEPT !.step = "finish", !.verdicts = NoVerdicts]
        BY <1>1, <2>2 DEF WriteFlags, TypeOK
      <3> QED
        BY <1>3, <3>1 DEF Requests
    <2>3. CASE FailFlags(t)
      <3>1. import'[t] = [r EXCEPT !.step = "finish", !.errors = TRUE, !.verdicts = NoVerdicts]
        BY <1>1, <2>3 DEF FailFlags, TypeOK
      <3> QED
        BY <1>3, <3>1 DEF Requests
    <2> QED
      BY <2>1, <2>2, <2>3
  <1>6. Payload(t)' = p
    BY <1>1, <1>2, <1>4 DEF Payload
  <1>7. RequestCounts(t)'
    <2>1. Done(t) = Len(p) /\ Done(t)' = Len(p)
      BY <1>1, <1>2, <1>5, <1>6 DEF Done
    <2> QED
      BY <1>1, <1>2, <1>4, <1>5, <2>1 DEF RequestCounts
  <1>8. BatchCounts(own)'
    <2>1. BatchCounts(own)
      BY <1>3 DEF CountsFollow
    <2> QED
      BY <1>2, <2>1 DEF BatchCounts
  <1> QED
    BY <1>1, <1>2, <1>4, <1>7, <1>8, CountsElsewhere

LEMMA CountsEnd ==
    ASSUME TypeOK, CountsFollow, NEW t \in Slots, Finish(t) \/ Kill(t)
    PROVE  /\ CountsFollow'
           /\ \A b \in DOMAIN batches : batches'[b].inserted = batches[b].inserted
  <1>1. PICK r, own, p : r = import[t] /\ own = import[t].batch /\ p = Payload(t)
    OBVIOUS
  <1>2. /\ InFlight(t) /\ import'[t] = None /\ DOMAIN batches' = DOMAIN batches
        /\ \A s \in Slots \ {t} : import'[s] = import[s]
    BY EndStep
  <1>3. /\ own \in DOMAIN batches /\ batches[own] \in Batches /\ p = batches[own].payload
        /\ r.errors \in BOOLEAN /\ Len(p) \in Nat
    BY <1>1, <1>2, CountsTyped
  <1>4. RequestCounts(t) /\ BatchCounts(own)
    BY <1>2, <1>3 DEF CountsFollow
  <1>5. CASE Finish(t)
    <2>1. batches' = [batches EXCEPT ![own] = [batches[own] EXCEPT
                         !.status = IF r.errors THEN "failed" ELSE "success"]]
      BY <1>1, <1>3, <1>5 DEF Finish
    <2>2. /\ batches'[own].payload = p /\ batches'[own].inserted = batches[own].inserted
          /\ batches'[own].updated = batches[own].updated
          /\ batches'[own].status = IF r.errors THEN "failed" ELSE "success"
          /\ \A b \in DOMAIN batches : b # own => batches'[b] = batches[b]
      BY <1>3, <2>1 DEF Batches
    <2>3. r.step = "finish"
      BY <1>1, <1>5 DEF Finish
    <2>4. ~r.errors => batches[own].inserted + batches[own].updated = Len(p)
      BY <1>1, <1>4, <2>3 DEF RequestCounts, Done
    <2>5. BatchCounts(own)'
      BY <1>3, <1>4, <2>2, <2>4 DEF BatchCounts
    <2> QED
      BY <1>1, <1>2, <2>2, <2>5, CountsElsewhere
  <1>6. CASE Kill(t)
    <2>1. batches' = batches
      BY <1>6 DEF Kill
    <2>2. BatchCounts(own)'
      BY <1>4, <2>1 DEF BatchCounts
    <2> QED
      BY <1>1, <1>2, <2>1, <2>2, CountsElsewhere
  <1> QED
    BY <1>5, <1>6

LEMMA CountsNext == ASSUME TypeOK, CountsFollow, [Next]_vars PROVE CountsFollow'
  <1>1. CASE UNCHANGED <<batches, import>>
    BY <1>1 DEF CountsFollow, RequestCounts, BatchCounts, Done, Payload
  <1>2. ASSUME NEW t \in Slots, Work(t) PROVE CountsFollow'
    BY <1>2, CountsChunk, CountsSave, CountsFlags DEF Work
  <1> QED
    BY <1>1, <1>2, NextSteps, CountsBegin, CountsEnd, LookedUpRows DEF vars


(* What each import has inserted, saved or not, is among the rows: C       *)
(* counts for a batch what its request has, or had when it was killed.     *)
Present == {o \in Orders : rows[o] # None}

Fits(C) ==
    /\ \A b \in DOMAIN batches : C[b] \in Int /\ batches[b].inserted <= C[b]
    /\ \A t \in Slots : InFlight(t) => C[import[t].batch] = import[t].inserted
    /\ SumFunctionOnSet(C, DOMAIN batches) <= Cardinality(Present)

RowsCounted == \E C : Fits(C)

LEMMA PresentFinite == IsFiniteSet(Present) /\ Cardinality(Present) \in Nat
  <1>1. IsFiniteSet(Orders) /\ Present \in SUBSET Orders
    BY FS_Interval, CountAssumption DEF Present, Orders
  <1> QED
    BY <1>1, FS_Subset, FS_CardinalityType

LEMMA BatchesFinite ==
    ASSUME TypeOK
    PROVE  /\ IsFiniteSet(DOMAIN batches) /\ Len(batches) \in Nat /\ DOMAIN batches = 1..Len(batches)
           /\ \A b \in DOMAIN batches : batches[b].inserted \in Int
  <1>1. Len(batches) \in Nat /\ DOMAIN batches = 1..Len(batches)
    BY DEF TypeOK
  <1>2. \A b \in DOMAIN batches : batches[b] \in Batches
    BY DEF TypeOK
  <1> QED
    BY <1>1, <1>2, FS_Interval DEF Batches

(* A commit adds to the rows what it counts.                               *)
LEMMA PresentGrows ==
    ASSUME TypeOK, NEW t \in Slots, CommitChunk(t)
    PROVE  Cardinality(Present') = Cardinality(Present) + Cardinality(New(Payload(t), Chunk(t)))
  <1>1. PICK new : new = New(Payload(t), Chunk(t))
    OBVIOUS
  <1>2. Present' = Present \cup new
    <2>1. ASSUME NEW o \in Orders PROVE rows'[o] # None <=> (rows[o] # None \/ o \in new)
      <3>1. CASE Of(o, Payload(t), Chunk(t)) = {}
        BY <1>1, <3>1, ChunkRows DEF New
      <3>2. CASE Of(o, Payload(t), Chunk(t)) # {}
        <4>1. rows'[o] = ToRow(Payload(t)[Max(Of(o, Payload(t), Chunk(t)))])
          BY <3>2 DEF CommitChunk, Upserted
        <4>2. Payload(t) \in Payloads /\ Chunk(t) \in SUBSET DOMAIN Payload(t)
          BY BatchOf DEF CommitChunk
        <4>3. Max(Of(o, Payload(t), Chunk(t))) \in DOMAIN Payload(t)
          BY <3>2, <4>2, LastRecord
        <4>4. rows'[o] # None
          BY <4>1, <4>2, <4>3, RowOfRecord, NoneAssumption
        <4> QED
          BY <1>1, <3>2, <4>4 DEF New
      <3> QED
        BY <3>1, <3>2
    <2>2. new \in SUBSET Orders
      BY <1>1 DEF New
    <2> QED
      BY <2>1, <2>2 DEF Present
  <1>3. Present \cap new = {} /\ new \in SUBSET Orders
    BY <1>1 DEF New, Present
  <1>4. IsFiniteSet(Orders) /\ IsFiniteSet(new) /\ IsFiniteSet(Present)
    <2>1. IsFiniteSet(Orders)
      BY FS_Interval, CountAssumption DEF Orders
    <2> QED
      BY <1>3, <2>1, FS_Subset, PresentFinite
  <1>5. Cardinality(Present \cup new)
           = Cardinality(Present) + Cardinality(new) - Cardinality(Present \cap new)
    BY <1>4, FS_Union
  <1>6. Cardinality(Present \cap new) = 0
    BY <1>3, FS_EmptySet
  <1>7. Cardinality(Present) \in Nat /\ Cardinality(new) \in Nat
    BY <1>4, FS_CardinalityType
  <1> QED
    BY <1>1, <1>2, <1>5, <1>6, <1>7

LEMMA CountedBegin ==
    ASSUME TypeOK, CountsFollow, RowsCounted, NEW t \in Slots, NEW p \in Payloads, Start(t, p)
    PROVE  RowsCounted'
  <1>1. PICK C : Fits(C)
    BY DEF RowsCounted
  <1>2. PICK n, old : n = Len(batches) + 1 /\ old = DOMAIN batches
    OBVIOUS
  <1>3. PICK D : D = [b \in old \cup {n} |-> IF b = n THEN 0 ELSE C[b]]
    OBVIOUS
  <1>4. /\ IsFiniteSet(old) /\ n \notin old /\ DOMAIN batches' = old \cup {n}
        /\ \A b \in old : batches'[b] = batches[b]
        /\ \A s \in Slots \ {t} : import'[s] = import[s]
        /\ import'[t].batch = n /\ rows' = rows
        /\ batches'[n].inserted = 0 /\ import'[t].inserted = 0
    <2>1. DOMAIN batches' = old \cup {n} /\ n \notin old
      <3>1. Len(batches) \in Nat /\ old = 1..Len(batches) /\ DOMAIN batches' = 1..n
        BY <1>2, BegunStep
      <3> QED
        BY <1>2, <3>1
    <2> QED
      BY <1>2, <2>1, BegunStep, CountsBegin, BatchesFinite
  <1>5. D[n] = 0 /\ \A b \in old : D[b] = C[b]
    BY <1>3, <1>4
  <1>6. \A b \in DOMAIN batches' : D[b] \in Int /\ batches'[b].inserted <= D[b]
    BY <1>1, <1>2, <1>4, <1>5 DEF Fits
  <1>7. ASSUME NEW s \in Slots, InFlight(s)' PROVE D[import'[s].batch] = import'[s].inserted
    <2>1. CASE s = t
      BY <1>4, <1>5, <2>1
    <2>2. CASE s # t
      <3>1. import'[s] = import[s] /\ InFlight(s) /\ import[s].batch \in old
        BY <1>2, <1>4, <1>7, <2>2 DEF TypeOK
      <3> QED
        BY <1>1, <1>5, <3>1 DEF Fits
    <2> QED
      BY <2>1, <2>2
  <1>8. SumFunctionOnSet(D, old \cup {n}) = SumFunctionOnSet(C, old)
    <2>1. IsFiniteSet(old \cup {n}) /\ (old \cup {n}) \ {n} = old
      BY <1>4, FS_AddElement
    <2>2. SumFunctionOnSet(D, old \cup {n}) = D[n] + SumFunctionOnSet(D, old)
      <3>1. SumFunctionOnSet(D, old \cup {n}) = D[n] + SumFunctionOnSet(D, (old \cup {n}) \ {n})
        BY <1>4, <1>6, <2>1, SumWithout
      <3> QED
        BY <2>1, <3>1
    <2>3. SumFunctionOnSet(D, old) = SumFunctionOnSet(C, old)
      BY <1>4, <1>5, SumSame
    <2>4. SumFunctionOnSet(C, old) \in Int
      BY <1>1, <1>2, <1>4, SumTyped DEF Fits
    <2> QED
      BY <1>5, <2>2, <2>3, <2>4
  <1>9. Present' = Present
    BY <1>4 DEF Present
  <1>10. Fits(D)'
    BY <1>1, <1>2, <1>4, <1>6, <1>7, <1>8, <1>9 DEF Fits
  <1> QED
    BY <1>10 DEF RowsCounted

LEMMA CountedCommit ==
    ASSUME TypeOK, RowsCounted, NEW t \in Slots, CommitChunk(t)
    PROVE  RowsCounted'
  <1>1. PICK C : Fits(C)
    BY DEF RowsCounted
  <1>2. PICK own, all, fresh : /\ own = import[t].batch /\ all = DOMAIN batches
                               /\ fresh = Cardinality(New(Payload(t), Chunk(t)))
    OBVIOUS
  <1>3. /\ fresh \in Nat /\ own \in all /\ IsFiniteSet(all) /\ import[t] \in Requests
        /\ InFlight(t) /\ batches' = batches /\ import'[t].batch = own
        /\ \A s \in Slots \ {t} : import'[s] = import[s]
    <2>1. InFlight(t) /\ batches' = batches
      BY DEF CommitChunk
    <2> QED
      BY <1>2, <2>1, ChunkSizes, BatchesFinite, CountsTyped, OwnStep DEF Work
  <1>4. PICK D : D = [b \in all |-> IF b = own THEN C[b] + fresh ELSE C[b]]
    OBVIOUS
  <1>5. /\ D[own] = C[own] + fresh /\ \A b \in all : b # own => D[b] = C[b]
        /\ \A b \in all : C[b] \in Int /\ D[b] \in Int /\ batches[b].inserted \in Int
        /\ \A b \in all : batches[b].inserted <= C[b] /\ C[b] <= D[b]
    <2>1. \A b \in all : C[b] \in Int /\ batches[b].inserted <= C[b] /\ batches[b].inserted \in Int
      BY <1>1, <1>2, BatchesFinite DEF Fits
    <2> QED
      BY <1>3, <1>4, <2>1
  <1>6. import'[t].inserted = import[t].inserted + fresh
    <2>1. PICK size : size = Cardinality(Chunk(t))
      OBVIOUS
    <2>2. import'[t] = [import[t] EXCEPT !.step = "counts", !.inserted = @ + fresh,
                                         !.updated = @ + size - fresh]
      BY <1>2, <2>1 DEF CommitChunk, TypeOK
    <2> QED
      BY <1>3, <2>2 DEF Requests
  <1>7. ASSUME NEW s \in Slots, InFlight(s)' PROVE D[import'[s].batch] = import'[s].inserted
    <2>1. CASE s = t
      BY <1>1, <1>2, <1>3, <1>5, <1>6, <2>1 DEF Fits
    <2>2. CASE s # t
      <3>1. /\ import'[s] = import[s] /\ InFlight(s) /\ import[s].batch \in all
            /\ import[s].batch # own
        BY <1>2, <1>3, <1>7, <2>2 DEF TypeOK
      <3> QED
        BY <1>1, <1>5, <3>1 DEF Fits
    <2> QED
      BY <2>1, <2>2
  <1>8. SumFunctionOnSet(D, all) = SumFunctionOnSet(C, all) + fresh
    <2>1. IsFiniteSet(all \ {own})
      BY <1>3, FS_RemoveElement
    <2>2. SumFunctionOnSet(D, all) = D[own] + SumFunctionOnSet(D, all \ {own})
      BY <1>3, <1>5, SumWithout
    <2>3. SumFunctionOnSet(C, all) = C[own] + SumFunctionOnSet(C, all \ {own})
      BY <1>3, <1>5, SumWithout
    <2>4. SumFunctionOnSet(D, all \ {own}) = SumFunctionOnSet(C, all \ {own})
      BY <1>5, <2>1, SumSame
    <2>5. SumFunctionOnSet(C, all \ {own}) \in Int /\ C[own] \in Int
      BY <1>3, <1>5, <2>1, SumTyped
    <2> QED
      BY <1>3, <1>5, <2>2, <2>3, <2>4, <2>5
  <1>9. Cardinality(Present') = Cardinality(Present) + fresh /\ Cardinality(Present) \in Nat
    BY <1>2, PresentGrows, PresentFinite
  <1>10. SumFunctionOnSet(D, all) <= Cardinality(Present')
    <2>1. SumFunctionOnSet(C, all) \in Int
      BY <1>3, <1>5, SumTyped
    <2>2. SumFunctionOnSet(C, all) <= Cardinality(Present)
      BY <1>1, <1>2 DEF Fits
    <2> QED
      BY <1>3, <1>8, <1>9, <2>1, <2>2
  <1>11. Fits(D)'
    <2>1. \A b \in DOMAIN batches' : D[b] \in Int /\ batches'[b].inserted <= D[b]
      BY <1>2, <1>3, <1>5
    <2> QED
      BY <1>2, <1>3, <1>7, <1>10, <2>1 DEF Fits
  <1> QED
    BY <1>11 DEF RowsCounted

(* The other steps count nothing new, and take no row away.                *)
LEMMA CountedElse ==
    ASSUME TypeOK, CountsFollow, RowsCounted, [Next]_vars,
           DOMAIN batches' = DOMAIN batches, Present \subseteq Present',
           \A t \in Slots : InFlight(t)' =>
               /\ InFlight(t) /\ import'[t].batch = import[t].batch
               /\ import'[t].inserted = import[t].inserted,
           \A b \in DOMAIN batches :
               \/ batches'[b].inserted = batches[b].inserted
               \/ \E t \in Slots : /\ InFlight(t) /\ import[t].batch = b
                                   /\ batches'[b].inserted = import[t].inserted
    PROVE  RowsCounted'
  <1>1. PICK C : Fits(C)
    BY DEF RowsCounted
  <1>2. \A b \in DOMAIN batches : C[b] \in Int /\ batches'[b].inserted <= C[b]
    BY <1>1 DEF Fits
  <1>3. \A t \in Slots : InFlight(t)' => C[import'[t].batch] = import'[t].inserted
    BY <1>1 DEF Fits
  <1>4. Cardinality(Present) <= Cardinality(Present')
    <2>1. IsFiniteSet(Present')
      <3>1. IsFiniteSet(Orders) /\ Present' \in SUBSET Orders
        BY FS_Interval, CountAssumption DEF Present, Orders
      <3> QED
        BY <3>1, FS_Subset
    <2> QED
      BY <2>1, FS_Subset
  <1>5. SumFunctionOnSet(C, DOMAIN batches) <= Cardinality(Present')
    <2>1. SumFunctionOnSet(C, DOMAIN batches) \in Int
      BY <1>2, BatchesFinite, SumTyped
    <2>2. Cardinality(Present) \in Nat /\ Cardinality(Present') \in Nat
      <3>1. IsFiniteSet(Orders) /\ Present' \in SUBSET Orders
        BY FS_Interval, CountAssumption DEF Present, Orders
      <3>2. IsFiniteSet(Present')
        BY <3>1, FS_Subset
      <3> QED
        BY <3>2, PresentFinite, FS_CardinalityType
    <2> QED
      BY <1>1, <1>4, <2>1, <2>2 DEF Fits
  <1>6. Fits(C)'
    BY <1>2, <1>3, <1>5 DEF Fits
  <1> QED
    BY <1>6 DEF RowsCounted


LEMMA CountedWork ==
    ASSUME TypeOK, CountsFollow, RowsCounted, NEW t \in Slots, Work(t), ~CommitChunk(t)
    PROVE  RowsCounted'
  <1>1. InFlight(t) /\ import[t] \in Requests /\ import[t].batch \in DOMAIN batches
    BY OwnStep, CountsTyped
  <1>2. /\ rows' = rows /\ DOMAIN batches' = DOMAIN batches
        /\ import'[t].batch = import[t].batch
        /\ \A s \in Slots \ {t} : import'[s] = import[s]
    BY OwnStep DEF SameBatches, Work, FailChunk, SaveCounts, ReadCars, WriteFlags, FailFlags
  <1>3. import'[t].inserted = import[t].inserted
    <2>1. CASE FailChunk(t)
      BY <1>1, <2>1 DEF FailChunk, TypeOK, Requests
    <2>2. CASE SaveCounts(t)
      <3>1. PICK n, step : import'[t] = [import[t] EXCEPT !.next = n, !.step = step]
        BY <1>1, <2>2 DEF SaveCounts, TypeOK
      <3> QED
        BY <1>1, <3>1 DEF Requests
    <2>3. CASE ReadCars(t)
      <3>1. PICK v : import'[t] = [import[t] EXCEPT !.step = "write", !.verdicts = v]
        BY <1>1, <2>3 DEF ReadCars, TypeOK
      <3> QED
        BY <1>1, <3>1 DEF Requests
    <2>4. CASE WriteFlags(t) \/ FailFlags(t)
      BY <1>1, <2>4 DEF WriteFlags, FailFlags, TypeOK, Requests
    <2> QED
      BY <2>1, <2>2, <2>3, <2>4 DEF Work
  <1>4. ASSUME NEW b \in DOMAIN batches
        PROVE  \/ batches'[b].inserted = batches[b].inserted
               \/ \E s \in Slots : /\ InFlight(s) /\ import[s].batch = b
                                   /\ batches'[b].inserted = import[s].inserted
    <2>1. CASE SaveCounts(t)
      <3>1. PICK r, own : r = import[t] /\ own = import[t].batch
        OBVIOUS
      <3>2. batches' = [batches EXCEPT ![own] = [batches[own] EXCEPT
                           !.inserted = r.inserted, !.updated = r.updated]]
        BY <1>1, <2>1, <3>1, CountsTyped DEF SaveCounts
      <3>3. batches[own] \in Batches /\ own \in DOMAIN batches
        BY <1>1, <3>1, CountsTyped
      <3>4. batches'[own].inserted = r.inserted /\ (b # own => batches'[b] = batches[b])
        BY <3>2, <3>3 DEF Batches
      <3> QED
        BY <1>1, <3>1, <3>4
    <2>2. CASE ~SaveCounts(t)
      <3>1. batches' = batches
        BY <2>2 DEF Work, FailChunk, ReadCars, WriteFlags, FailFlags
      <3> QED
        BY <3>1
    <2> QED
      BY <2>1, <2>2
  <1>5. \A s \in Slots : InFlight(s)' =>
            /\ InFlight(s) /\ import'[s].batch = import[s].batch
            /\ import'[s].inserted = import[s].inserted
    BY <1>1, <1>2, <1>3
  <1>6. Present' = Present
    BY <1>2 DEF Present
  <1>7. [Next]_vars
    BY DEF Next, Work
  <1> QED
    BY <1>2, <1>4, <1>5, <1>6, <1>7, CountedElse

LEMMA CountedNext ==
    ASSUME TypeOK, CountsFollow, RowsCounted, [Next]_vars
    PROVE  RowsCounted'
  <1>1. ASSUME NEW t \in Slots, Finish(t) \/ Kill(t) PROVE RowsCounted'
    <2>1. /\ DOMAIN batches' = DOMAIN batches /\ import'[t] = None
          /\ \A s \in Slots \ {t} : import'[s] = import[s]
          /\ rows' = rows
      BY <1>1, EndStep
    <2>2. \A b \in DOMAIN batches : batches'[b].inserted = batches[b].inserted
      BY <1>1, CountsEnd
    <2>3. Present' = Present
      BY <2>1 DEF Present
    <2>4. \A s \in Slots : InFlight(s)' => InFlight(s) /\ import'[s] = import[s]
      BY <2>1
    <2> QED
      BY <2>1, <2>2, <2>3, <2>4, CountedElse
  <1>2. ASSUME NEW o \in LookedUp, LookUpPlate(o) PROVE RowsCounted'
    <2>1. /\ batches' = batches /\ import' = import
          /\ \A d \in Orders : rows[d] # None => rows'[d] # None
      BY <1>2, LookedUpRows
    <2>2. Present \subseteq Present'
      BY <2>1 DEF Present
    <2> QED
      BY <2>1, <2>2, CountedElse
  <1>3. CASE UNCHANGED vars
    BY <1>3 DEF vars, RowsCounted, Fits, Present
  <1>4. ASSUME NEW t \in Slots, Work(t) PROVE RowsCounted'
    BY <1>4, CountedCommit, CountedWork
  <1>5. ASSUME NEW t \in Slots, NEW p \in Payloads, Start(t, p) PROVE RowsCounted'
    BY <1>5, CountedBegin
  <1> QED
    BY <1>1, <1>2, <1>3, <1>4, <1>5, NextSteps

LEMMA CountsInit == Init => CountsFollow /\ RowsCounted
  <1> SUFFICES ASSUME Init PROVE CountsFollow /\ RowsCounted
    OBVIOUS
  <1>1. batches = <<>> /\ DOMAIN batches = {} /\ \A t \in Slots : ~InFlight(t)
    BY DEF Init
  <1>2. CountsFollow
    BY <1>1 DEF CountsFollow
  <1>3. Fits(<<>>)
    <2>1. SumFunctionOnSet(<<>>, DOMAIN batches) = 0
      BY <1>1, SumNothing
    <2> QED
      BY <1>1, <2>1, PresentFinite DEF Fits
  <1> QED
    BY <1>2, <1>3 DEF RowsCounted

(* The counts the batches have are not more than the rows.                 *)
LEMMA CountsAddUp == ASSUME TypeOK, CountsFollow, RowsCounted PROVE CountsHonest
  <1>1. PICK C : Fits(C)
    BY DEF RowsCounted
  <1>2. PICK f : f = [b \in DOMAIN batches |-> batches[b].inserted]
    OBVIOUS
  <1>3. \A b \in DOMAIN batches : f[b] \in Int /\ C[b] \in Int /\ f[b] <= C[b]
    BY <1>1, <1>2, BatchesFinite DEF Fits
  <1>4. SumFunction(f) = SumFunctionOnSet(f, DOMAIN batches)
    BY <1>2 DEF SumFunction
  <1>5. SumFunctionOnSet(f, DOMAIN batches) <= SumFunctionOnSet(C, DOMAIN batches)
    BY <1>3, BatchesFinite, SumOrdered
  <1>6. /\ SumFunctionOnSet(f, DOMAIN batches) \in Int /\ SumFunctionOnSet(C, DOMAIN batches) \in Int
        /\ Cardinality(Present) \in Nat
    BY <1>3, BatchesFinite, SumTyped, PresentFinite
  <1>7. SumFunction(f) <= Cardinality(Present)
    BY <1>1, <1>4, <1>5, <1>6 DEF Fits
  <1>8. SumFunction([b \in DOMAIN batches |-> batches[b].inserted])
           <= Cardinality({o \in Orders : rows[o] # None})
    BY <1>2, <1>7 DEF Present
  <1>9. \A b \in DOMAIN batches : BatchCounts(b)
    BY DEF CountsFollow
  <1> QED
    BY <1>8, <1>9 DEF CountsHonest, BatchCounts

-----------------------------------------------------------------------------
(* The theorems                                                            *)

(* Rows, flags, batches and requests stay well formed, and the batch of a  *)
(* request in flight is its own and still "processing".                    *)
THEOREM TypeCorrect == Spec => []TypeOK
  BY TypeInit, TypeNext, PTL DEF Spec

(* Where imports that share a car or an order do not overlap, and no order *)
(* comes with another VIN than its row has, the is_internal flags are      *)
(* right once the last import that sent a car has succeeded, whatever      *)
(* chunks failed and whatever was killed before.                           *)
THEOREM FlagsHold == ASSUME ~ImportsOverlap, ~CarsReassigned PROVE Spec => []FlagsRight
  <1> DEFINE IInv == TypeOK /\ Alone /\ RowsHeld /\ FlagsInv
  <1>1. Init => IInv
    BY TypeInit, StartEmpty
  <1>2. IInv /\ [Next]_vars => IInv'
    BY TypeNext, AloneNext, RowsHeldNext, FlagsNext
  <1>3. IInv => FlagsRight
    BY DEF FlagsInv
  <1> HIDE DEF IInv
  <1> QED
    BY <1>1, <1>2, <1>3, PTL DEF Spec

(* An order that has been imported is never a stub again, nor gone.        *)
THEOREM ImportsStay == Spec => ImportedStays
  <1> DEFINE Stays == \A o \in Orders : Imported(o) => Imported(o)'
  <1>1. ASSUME TypeOK, [Next]_vars PROVE Stays
    <2>1. ASSUME NEW t \in Slots, CommitChunk(t) PROVE Stays
      <3>1. Payload(t) \in Payloads
        BY <1>1, <2>1, BatchOf DEF CommitChunk
      <3>2. ASSUME NEW o \in Orders, Imported(o), rows'[o] # rows[o] PROVE Imported(o)'
        BY <1>1, <2>1, <3>1, <3>2, ChunkRows, RowOfRecord, NoneAssumption DEF Imported
      <3> QED
        BY <3>2 DEF Imported
    <2>2. ASSUME NEW d \in LookedUp, LookUpPlate(d) PROVE Stays
      BY <1>1, <2>2, LookedUpRows DEF Imported
    <2>3. CASE UNCHANGED <<rows, lines, snapshots>>
      BY <2>3 DEF Imported
    <2> QED
      BY <1>1, <2>1, <2>2, <2>3, TablesStay
  <1>2. TypeOK /\ [Next]_vars => TypeOK' /\ [Stays]_vars
    BY <1>1, TypeNext
  <1> QED
    BY TypeInit, <1>2, PTL DEF Spec, ImportedStays

(* Where a payload has each order once, the lines of an order are those of *)
(* the record its columns come from, however its imports fail or overlap.  *)
THEOREM LinesHold == ASSUME SentOnce PROVE Spec => []LinesMatchRow
  <1>1. Init => LinesMatchRow
    BY DEF Init, LinesMatchRow, Imported
  <1>2. TypeOK /\ LinesMatchRow /\ [Next]_vars => LinesMatchRow'
    BY LinesNext
  <1> QED
    BY TypeInit, TypeNext, <1>1, <1>2, PTL DEF Spec

(* Where imports that share an order do not overlap and a payload has each *)
(* order once, the latest payment snapshot of an order is the payment its  *)
(* row has, whichever chunks failed and whatever was killed.               *)
THEOREM SnapshotsHold ==
    ASSUME ~ImportsOverlap, SentOnce PROVE Spec => []LatestSnapshotMatches
  <1> DEFINE IInv == TypeOK /\ Alone /\ SnapshotsKept /\ LatestSnapshotMatches
  <1>1. Init => IInv
    BY TypeInit, StartEmpty DEF Init, SnapshotsKept, LatestSnapshotMatches, Imported
  <1>2. IInv /\ [Next]_vars => IInv'
    BY TypeNext, AloneNext, SnapshotsNext
  <1>3. IInv => LatestSnapshotMatches
    OBVIOUS
  <1> HIDE DEF IInv
  <1> QED
    BY <1>1, <1>2, <1>3, PTL DEF Spec

(* The counts of a batch never tell of more than was kept, and a batch     *)
(* that succeeded has counted every record it was sent - whichever chunks  *)
(* failed, wherever a request was killed and however imports overlap.      *)
THEOREM CountsHold == Spec => []CountsHonest
  <1> DEFINE IInv == TypeOK /\ CountsFollow /\ RowsCounted
  <1>1. Init => IInv
    BY TypeInit, CountsInit
  <1>2. IInv /\ [Next]_vars => IInv'
    BY TypeNext, CountsNext, CountedNext
  <1>3. IInv => CountsHonest
    BY CountsAddUp
  <1> HIDE DEF IInv
  <1> QED
    BY <1>1, <1>2, <1>3, PTL DEF Spec
=============================================================================
