------------------------- MODULE FrontendListProofs -------------------------
(***************************************************************************)
(* Proofs about the work-order list and its cache, for any orders, list    *)
(* and page size, wherever the user is in the application: what the cache  *)
(* promises (it implements SnapshotWindow), that a fetch misses no order,  *)
(* and that a save the user was told of is on the lists shown after it.    *)
(***************************************************************************)
EXTENDS Frontend, TLAPS

Entries == Orders \X Nat
Copies == Seq(Entries) \cup {None}

-----------------------------------------------------------------------------
(* Sequences: the entries of a list, its concatenations, and insertion.    *)

LEMMA Elements ==
    ASSUME NEW S, NEW s \in Seq(S)
    PROVE  \A x : x \in List!ToSet(s) <=> \E i \in 1..Len(s) : x = s[i]
  BY DEF List!ToSet

LEMMA ElementsTyped ==
    ASSUME NEW S, NEW s \in Seq(S)
    PROVE  List!ToSet(s) \subseteq S
  BY DEF List!ToSet

LEMMA Joined ==
    ASSUME NEW S, NEW s \in Seq(S), NEW t \in Seq(S)
    PROVE  /\ s \o t \in Seq(S) /\ Len(s \o t) = Len(s) + Len(t)
           /\ \A x : x \in List!ToSet(s \o t) <=> x \in List!ToSet(s) \/ x \in List!ToSet(t)
  <1>1. PICK m \in Nat : m = Len(s)
    OBVIOUS
  <1>2. PICK n \in Nat : n = Len(t)
    OBVIOUS
  <1>3. PICK u : u = s \o t
    OBVIOUS
  <1>4. /\ u \in Seq(S) /\ Len(u) = m + n
        /\ \A i \in 1..m : u[i] = s[i]
        /\ \A i \in 1..n : u[m + i] = t[i]
    BY <1>1, <1>2, <1>3
  <1>5. ASSUME NEW i \in 1..(m + n) PROVE (\E j \in 1..m : u[i] = s[j]) \/ (\E j \in 1..n : u[i] = t[j])
    <2>1. CASE i <= m
      BY <1>4, <2>1
    <2>2. CASE i > m
      <3>1. i - m \in 1..n /\ m + (i - m) = i
        BY <2>2
      <3> QED
        BY <1>4, <3>1
    <2> QED
      BY <2>1, <2>2
  <1>6. \A i \in 1..m : i \in 1..(m + n)
    OBVIOUS
  <1>7. \A i \in 1..n : m + i \in 1..(m + n)
    OBVIOUS
  <1>8. ASSUME NEW x
        PROVE  x \in List!ToSet(u) <=> x \in List!ToSet(s) \/ x \in List!ToSet(t)
    <2>1. x \in List!ToSet(u) <=> \E i \in 1..(m + n) : x = u[i]
      BY <1>4, Elements
    <2>2. x \in List!ToSet(s) <=> \E i \in 1..m : x = s[i]
      BY <1>1, Elements
    <2>3. x \in List!ToSet(t) <=> \E i \in 1..n : x = t[i]
      BY <1>2, Elements
    <2> QED
      BY <1>4, <1>5, <1>6, <1>7, <2>1, <2>2, <2>3
  <1> QED
    BY <1>1, <1>2, <1>3, <1>4, <1>8

LEMMA NoElements == List!ToSet(<<>>) = {}
  BY DEF List!ToSet

(* What is put into a list moves what comes after it, and no more.         *)
LEMMA Inserted ==
    ASSUME NEW S, NEW s \in Seq(S), NEW x \in S, NEW i \in 1..(Len(s) + 1)
    PROVE  /\ List!InsertAt(s, i, x) \in Seq(S)
           /\ Len(List!InsertAt(s, i, x)) = Len(s) + 1
           /\ List!InsertAt(s, i, x)[i] = x
           /\ \A j \in 1..Len(s) :
                 s[j] = IF j < i THEN List!InsertAt(s, i, x)[j] ELSE List!InsertAt(s, i, x)[j + 1]
  <1>1. PICK n \in Nat : n = Len(s)
    OBVIOUS
  <1>2. PICK before : before = SubSeq(s, 1, i - 1)
    OBVIOUS
  <1>3. PICK after : after = SubSeq(s, i, n)
    OBVIOUS
  <1>4. /\ before \in Seq(S) /\ Len(before) = i - 1
        /\ \A j \in 1..(i - 1) : before[j] = s[j]
    BY <1>1, <1>2
  <1>5. /\ after \in Seq(S) /\ Len(after) = n - i + 1
        /\ \A j \in 1..(n - i + 1) : after[j] = s[i + j - 1]
    BY <1>1, <1>3
  <1>6. PICK front : front = Append(before, x)
    OBVIOUS
  <1>7. /\ front \in Seq(S) /\ Len(front) = i /\ front[i] = x
        /\ \A j \in 1..(i - 1) : front[j] = s[j]
    BY <1>4, <1>6
  <1>8. PICK t : t = front \o after
    OBVIOUS
  <1>9. /\ t \in Seq(S) /\ Len(t) = n + 1
        /\ \A j \in 1..i : t[j] = front[j]
        /\ \A j \in 1..(n - i + 1) : t[i + j] = after[j]
    BY <1>1, <1>5, <1>7, <1>8
  <1>10. ASSUME NEW j \in 1..n PROVE s[j] = IF j < i THEN t[j] ELSE t[j + 1]
    <2>1. CASE j < i
      <3>1. j \in 1..i /\ j \in 1..(i - 1)
        BY <2>1
      <3> QED
        BY <1>7, <1>9, <2>1, <3>1
    <2>2. CASE ~(j < i)
      <3>1. PICK k \in Nat : k = j - i + 1
        BY <2>2
      <3>2. k \in 1..(n - i + 1) /\ i + k = j + 1 /\ i + k - 1 = j
        BY <2>2, <3>1
      <3> QED
        BY <1>5, <1>9, <2>2, <3>2
    <2> QED
      BY <2>1, <2>2
  <1>11. t = List!InsertAt(s, i, x)
    <2>1. front = before \o <<x>>
      BY <1>4, <1>6
    <2> QED
      BY <1>1, <1>2, <1>3, <1>8, <2>1 DEF List!InsertAt
  <1>12. t[i] = x
    BY <1>7, <1>9
  <1> QED
    BY <1>1, <1>9, <1>10, <1>11, <1>12

-----------------------------------------------------------------------------
(* The invariant                                                           *)

ListTypes ==
    /\ view \in {"closed", "blank", "dashboard", "list", "card"}
    /\ orders \in Seq(Orders) /\ notes \in [Orders -> Nat] /\ told \in [Orders -> Nat]
    /\ memoryCache \in Copies /\ sessionCache \in Copies
    /\ inFlight \in [items: Seq(Entries)] \cup {None}
    /\ rows \in Seq(Entries) /\ listener \in {"off", "progress", "join"}
    /\ view = "card" => card \in Orders
    /\ patch \in [order: Orders, applied: BOOLEAN] \cup {None}

(* A fetch runs while nothing is cached, and a copy is one and the same.   *)
OneFetch ==
    /\ inFlight # None => memoryCache = None /\ sessionCache = None
    /\ inFlight = None => fetchBegan = None /\ late = {}
    /\ sessionCache = None \/ memoryCache = None \/ sessionCache = memoryCache

(* The list page hears of every fetch that runs while it is shown.         *)
Listening ==
    /\ listener # "off" => view = "list"
    /\ view = "list" /\ inFlight # None => listener # "off"
    /\ listener = "join" => rows = <<>>

(* What the fetch began with is older than what the server has.            *)
Began ==
    inFlight # None =>
        /\ DOMAIN fetchBegan \subseteq List!ToSet(orders)
        /\ fetchBegan \in [DOMAIN fetchBegan -> Nat]
        /\ \A o \in DOMAIN fetchBegan : fetchBegan[o] <= notes[o]

(* Every entry fetched was true at some moment since.                      *)
ReadInTime ==
    inFlight # None =>
        \A e \in List!ToSet(inFlight.items) :
            /\ e[1] \in List!ToSet(orders) /\ e[2] <= notes[e[1]]
            /\ e[1] \in DOMAIN fetchBegan => fetchBegan[e[1]] <= e[2]

(* An order of the list as it was has been fetched, or is yet to come.     *)
Ahead ==
    inFlight # None =>
        \A o \in DOMAIN fetchBegan :
            \/ \E e \in List!ToSet(inFlight.items) : e[1] = o
            \/ \E i \in 1..Len(orders) : Len(inFlight.items) < i /\ orders[i] = o

FetchOk == Began /\ ReadInTime /\ Ahead

(* Entries older than what the user has been told were read before the     *)
(* save was answered, and by no page that has been on show since.          *)
ToldOk ==
    /\ \A o \in Orders : told[o] <= notes[o]
    /\ inFlight # None =>
          \A e \in List!ToSet(inFlight.items) :
              e[2] >= told[e[1]] \/ (e[1] \in late /\ listener # "progress")
    /\ memoryCache # None =>
          \A e \in List!ToSet(memoryCache) : e[2] >= told[e[1]] \/ e[1] \in tainted
    /\ sessionCache # None =>
          \A e \in List!ToSet(sessionCache) : e[2] >= told[e[1]] \/ e[1] \in tainted
    /\ view = "list" =>
          \A e \in List!ToSet(rows) : e[2] >= told[e[1]] \/ (e[1] \in tainted /\ listener = "off")

ListInv == ListTypes /\ OneFetch /\ Listening /\ FetchOk /\ ToldOk

-----------------------------------------------------------------------------
(* The operations                                                          *)

LEMMA Fitting ==
    ASSUME NEW offset \in Nat, NEW size \in Nat, NEW n \in Nat
    PROVE  \E m \in 0..size : /\ {k \in 1..size : offset + k <= n} = 1..m
                              /\ \A k \in 1..m : offset + k \in 1..n
                              /\ m = size \/ offset + m >= n
  <1>1. CASE offset >= n
    <2>1. {k \in 1..size : offset + k <= n} = 1..0 /\ 0 \in 0..size
      BY <1>1
    <2> QED
      BY <1>1, <2>1
  <1>2. CASE offset + size <= n
    <2>1. {k \in 1..size : offset + k <= n} = 1..size /\ size \in 0..size
      BY <1>2
    <2> QED
      BY <1>2, <2>1
  <1>3. CASE offset < n /\ n < offset + size
    <2>1. PICK m \in 0..size : m = n - offset
      BY <1>3
    <2>2. {k \in 1..size : offset + k <= n} = 1..m
      BY <1>3, <2>1
    <2>3. \A k \in 1..m : offset + k \in 1..n
      BY <1>3, <2>1
    <2> QED
      BY <1>3, <2>1, <2>2, <2>3
  <1> QED
    BY <1>1, <1>2, <1>3

(* A page holds the orders that follow, all of them if it is not full.     *)
LEMMA PageRead ==
    ASSUME orders \in Seq(Orders), notes \in [Orders -> Nat], NEW offset \in Nat
    PROVE  /\ List!PageAt(offset) \in Seq(Entries) /\ Len(List!PageAt(offset)) \in 0..PageSize
           /\ \A i \in 1..Len(List!PageAt(offset)) :
                 /\ offset + i \in 1..Len(orders)
                 /\ List!PageAt(offset)[i] = <<orders[offset + i], notes[orders[offset + i]]>>
           /\ \/ Len(List!PageAt(offset)) = PageSize
              \/ offset + Len(List!PageAt(offset)) >= Len(orders)
  <1>0. PICK size \in Nat : size = PageSize
    BY ListAssumption
  <1>1. PICK n \in Nat : n = Len(orders)
    OBVIOUS
  <1>2. PICK m \in 0..size :
           /\ {k \in 1..size : offset + k <= n} = 1..m
           /\ \A k \in 1..m : offset + k \in 1..n
           /\ m = size \/ offset + m >= n
    BY Fitting
  <1>3. PICK p : p = List!PageAt(offset)
    OBVIOUS
  <1>4. p = [i \in 1..m |-> <<orders[offset + i], notes[orders[offset + i]]>>]
    BY <1>0, <1>1, <1>2, <1>3 DEF List!PageAt
  <1>5. \A k \in 1..n : orders[k] \in Orders
    BY <1>1
  <1> DEFINE entry(i) == <<orders[offset + i], notes[orders[offset + i]]>>
  <1>6. p = [i \in 1..m |-> entry(i)] /\ \A i \in 1..m : entry(i) \in Entries
    BY <1>2, <1>4, <1>5 DEF Entries
  <1>7. p \in Seq(Entries) /\ Len(p) = m
    <2> HIDE DEF entry
    <2>1. m \in Nat
      OBVIOUS
    <2> QED
      BY ONLY <1>6, <2>1
  <1> QED
    BY <1>0, <1>1, <1>2, <1>3, <1>4, <1>7

(* The last page ends the list.                                            *)
LEMMA LastPage ==
    ASSUME orders \in Seq(Orders), notes \in [Orders -> Nat], NEW items \in Seq(Entries),
           NEW page1, page1 = List!PageAt(Len(items)),
           List!IsLast(page1, Len(items \o page1))
    PROVE  Len(items \o page1) >= Len(orders)
  <1>1. PICK n \in Nat : n = Len(items)
    OBVIOUS
  <1>2. /\ page1 \in Seq(Entries) /\ (Len(page1) = PageSize \/ n + Len(page1) >= Len(orders))
    BY <1>1, PageRead
  <1>3. Len(items \o page1) = n + Len(page1)
    BY <1>1, <1>2
  <1>4. CASE page1 = <<>>
    BY <1>1, <1>2, <1>3, <1>4, ListAssumption
  <1>5. CASE page1 # <<>>
    BY <1>5 DEF List!IsLast
  <1> QED
    BY <1>4, <1>5

(* What a fetch has after one page more.                                   *)
LEMMA PageAdded ==
    ASSUME ListInv, inFlight # None, NEW items,
           items = inFlight.items \o List!PageAt(Len(inFlight.items))
    PROVE  /\ items \in Seq(Entries)
           /\ \A e \in List!ToSet(items) :
                 /\ e[1] \in List!ToSet(orders) /\ e[2] <= notes[e[1]]
                 /\ e[1] \in DOMAIN fetchBegan => fetchBegan[e[1]] <= e[2]
                 /\ e[2] >= told[e[1]] \/ (e[1] \in late /\ listener # "progress")
           /\ \A o \in DOMAIN fetchBegan :
                 \/ \E e \in List!ToSet(items) : e[1] = o
                 \/ \E i \in 1..Len(orders) : Len(items) < i /\ orders[i] = o
  <1>0. /\ inFlight.items \in Seq(Entries) /\ orders \in Seq(Orders) /\ notes \in [Orders -> Nat]
    BY DEF ListInv, ListTypes
  <1>1. PICK n \in Nat : n = Len(inFlight.items)
    BY <1>0
  <1>2. PICK p : p = List!PageAt(n)
    OBVIOUS
  <1>3. PICK m \in Nat : m = Len(p)
    BY <1>0, <1>2, PageRead
  <1>4. /\ p \in Seq(Entries)
        /\ \A i \in 1..m : /\ n + i \in 1..Len(orders)
                           /\ p[i] = <<orders[n + i], notes[orders[n + i]]>>
    BY <1>0, <1>2, <1>3, PageRead
  <1>5. /\ items \in Seq(Entries) /\ Len(items) = n + m
        /\ \A x : x \in List!ToSet(items) <=> x \in List!ToSet(inFlight.items) \/ x \in List!ToSet(p)
    BY <1>0, <1>1, <1>2, <1>3, <1>4, Joined
  <1>6. \A x : x \in List!ToSet(p) <=> \E i \in 1..m : x = p[i]
    BY <1>3, <1>4, Elements
  <1>7. ASSUME NEW e \in List!ToSet(p)
        PROVE  /\ e[1] \in List!ToSet(orders) /\ e[2] = notes[e[1]] /\ e[1] \in Orders
               /\ e[1] \in DOMAIN fetchBegan => fetchBegan[e[1]] <= e[2]
               /\ e[2] >= told[e[1]]
    <2>1. PICK i \in 1..m : e = p[i]
      BY <1>6
    <2>2. PICK o : o = orders[n + i]
      OBVIOUS
    <2>3. n + i \in 1..Len(orders) /\ e = <<o, notes[o]>>
      BY <1>4, <2>1, <2>2
    <2>4. o \in Orders /\ o \in List!ToSet(orders)
      BY <1>0, <2>2, <2>3, Elements
    <2> QED
      BY <1>0, <2>3, <2>4 DEF ListInv, FetchOk, Began, ToldOk
  <1>8. ASSUME NEW e \in List!ToSet(inFlight.items)
        PROVE  /\ e[1] \in List!ToSet(orders) /\ e[2] <= notes[e[1]]
               /\ e[1] \in DOMAIN fetchBegan => fetchBegan[e[1]] <= e[2]
               /\ e[2] >= told[e[1]] \/ (e[1] \in late /\ listener # "progress")
    BY DEF ListInv, FetchOk, ReadInTime, ToldOk
  <1>9. ASSUME NEW o \in DOMAIN fetchBegan
        PROVE  \/ \E e \in List!ToSet(items) : e[1] = o
               \/ \E i \in 1..Len(orders) : n + m < i /\ orders[i] = o
    <2>1. CASE \E e \in List!ToSet(inFlight.items) : e[1] = o
      BY <1>5, <2>1
    <2>2. ASSUME NEW i \in 1..Len(orders), n < i, orders[i] = o, i <= n + m
          PROVE  \E e \in List!ToSet(items) : e[1] = o
      <3>1. i - n \in 1..m /\ n + (i - n) = i
        BY <2>2
      <3>2. p[i - n] = <<o, notes[o]>> /\ p[i - n] \in List!ToSet(p)
        BY <1>4, <1>6, <2>2, <3>1
      <3> QED
        BY <1>5, <3>2
    <2>3. \A i \in 1..Len(orders) : i <= n + m \/ n + m < i
      BY <1>0
    <2> QED
      BY <1>1, <2>1, <2>2, <2>3 DEF ListInv, FetchOk, Ahead
  <1>10. \A e \in List!ToSet(p) : e[2] <= notes[e[1]]
    BY <1>0, <1>7
  <1> QED
    BY <1>5, <1>7, <1>8, <1>9, <1>10

USE DEF List!vars, List!pageVars, List!serverVars, List!cacheVars, List!fetchVars, List!saveVars

(* A fetch that goes on, or has ended, on a list that is as it was.        *)
LEMMA FetchStays ==
    ASSUME FetchOk, UNCHANGED <<orders, notes>>,
           inFlight' = None \/ UNCHANGED <<inFlight, fetchBegan>>
    PROVE  FetchOk'
  BY DEF FetchOk, Began, ReadInTime, Ahead

LEMMA FetchStarts ==
    ASSUME ListTypes, inFlight' = [items |-> <<>>], fetchBegan' = List!Listed,
           UNCHANGED <<orders, notes>>
    PROVE  FetchOk' /\ inFlight' \in [items: Seq(Entries)] /\ List!ToSet(inFlight'.items) = {}
  <1>0. orders \in Seq(Orders) /\ notes \in [Orders -> Nat]
    BY DEF ListTypes
  <1>1. inFlight'.items = <<>> /\ List!ToSet(inFlight'.items) = {} /\ Len(inFlight'.items) = 0
    BY NoElements
  <1>2. inFlight' \in [items: Seq(Entries)]
    <2>1. \A S : <<>> \in Seq(S)
      OBVIOUS
    <2> QED
      BY <2>1
  <1>3. PICK there : there = List!ToSet(orders)
    OBVIOUS
  <1>4. there \subseteq Orders /\ \A o \in there : \E i \in 1..Len(orders) : orders[i] = o
    BY <1>0, <1>3, Elements, ElementsTyped
  <1>5. fetchBegan' = [o \in there |-> notes[o]]
    BY <1>3 DEF List!Listed
  <1>6. /\ DOMAIN fetchBegan' = there /\ fetchBegan' \in [there -> Nat]
        /\ \A o \in there : fetchBegan'[o] <= notes[o]
    BY <1>0, <1>4, <1>5
  <1>7. Began'
    BY <1>3, <1>6 DEF Began
  <1>8. ReadInTime'
    BY <1>1 DEF ReadInTime
  <1>9. Ahead'
    BY <1>1, <1>4, <1>6 DEF Ahead
  <1> QED
    BY <1>1, <1>2, <1>7, <1>8, <1>9 DEF FetchOk

(* Coming to the list or the dashboard: a copy is kept, or a fetch runs.   *)
LEMMA CopyLoaded ==
    ASSUME ListInv, List!LoadCached, UNCHANGED <<orders, notes, told, patch, tainted>>,
           listener' = "progress" => List!Cached = None /\ inFlight = None
    PROVE  /\ memoryCache' = List!Cached /\ UNCHANGED sessionCache /\ memoryCache' \in Copies
           /\ inFlight' \in [items: Seq(Entries)] \cup {None}
           /\ OneFetch' /\ FetchOk'
           /\ memoryCache' # None => inFlight' = None
           /\ memoryCache' = None => inFlight' # None
           /\ inFlight' # None =>
                 \A e \in List!ToSet(inFlight'.items) :
                     e[2] >= told[e[1]] \/ (e[1] \in late' /\ listener' # "progress")
           /\ memoryCache' # None =>
                 \A e \in List!ToSet(memoryCache') : e[2] >= told[e[1]] \/ e[1] \in tainted
  <1>0. /\ memoryCache \in Copies /\ sessionCache \in Copies /\ FetchOk
        /\ inFlight \in [items: Seq(Entries)] \cup {None}
    BY DEF ListInv, ListTypes
  <1>1. /\ memoryCache' = List!Cached /\ UNCHANGED sessionCache /\ memoryCache' \in Copies
        /\ memoryCache' \in {memoryCache, sessionCache}
        /\ memoryCache' = None <=> memoryCache = None /\ sessionCache = None
    BY <1>0 DEF List!LoadCached, List!Cached
  <1>2. CASE memoryCache' = None /\ inFlight = None
    <2>1. inFlight' = [items |-> <<>>] /\ fetchBegan' = List!Listed
      BY <1>1, <1>2 DEF List!LoadCached
    <2>2. /\ FetchOk' /\ inFlight' \in [items: Seq(Entries)] /\ List!ToSet(inFlight'.items) = {}
      BY <2>1, FetchStarts DEF ListInv
    <2>3. inFlight' # None
      <3>1. Entries = Orders \X Nat
        BY DEF Entries
      <3> QED
        BY <2>2, <3>1, NoneAssumption
    <2>4. OneFetch'
      BY <1>1, <1>2, <2>3 DEF OneFetch
    <2> QED
      BY <1>1, <1>2, <2>2, <2>3, <2>4
  <1>3. CASE ~(memoryCache' = None /\ inFlight = None)
    <2>1. UNCHANGED <<inFlight, fetchBegan, late>> /\ listener' # "progress"
      BY <1>1, <1>3 DEF List!LoadCached
    <2>2. FetchOk'
      BY <1>0, <2>1, FetchStays
    <2>3. OneFetch' /\ (memoryCache' # None => inFlight = None)
      BY <1>1, <2>1 DEF OneFetch, ListInv
    <2>4. inFlight' # None =>
             \A e \in List!ToSet(inFlight'.items) :
                 e[2] >= told[e[1]] \/ (e[1] \in late' /\ listener' # "progress")
      BY <2>1 DEF ListInv, ToldOk
    <2>5. memoryCache' # None =>
             \A e \in List!ToSet(memoryCache') : e[2] >= told[e[1]] \/ e[1] \in tainted
      BY <1>1 DEF ListInv, ToldOk
    <2> QED
      BY <1>0, <1>1, <1>3, <2>1, <2>2, <2>3, <2>4, <2>5
  <1> QED
    BY <1>2, <1>3

LEMMA Empties == \A S : <<>> \in Seq(S)
  OBVIOUS

LEMMA DashboardVisited == ASSUME ListInv, List!VisitDashboard PROVE ListInv'
  <1>1. /\ List!LoadCached /\ UNCHANGED <<orders, notes, told, patch, tainted>>
        /\ view' = "dashboard" /\ rows' = <<>> /\ listener' = "off"
    BY DEF List!VisitDashboard
  <1>2. /\ UNCHANGED sessionCache /\ memoryCache' \in Copies
        /\ inFlight' \in [items: Seq(Entries)] \cup {None} /\ OneFetch' /\ FetchOk'
        /\ inFlight' # None =>
              \A e \in List!ToSet(inFlight'.items) :
                  e[2] >= told[e[1]] \/ (e[1] \in late' /\ listener' # "progress")
        /\ memoryCache' # None =>
              \A e \in List!ToSet(memoryCache') : e[2] >= told[e[1]] \/ e[1] \in tainted
    BY <1>1, CopyLoaded
  <1>3. ListTypes'
    BY <1>1, <1>2, Empties DEF ListInv, ListTypes
  <1>4. Listening'
    BY <1>1 DEF Listening
  <1>5. ToldOk'
    BY <1>1, <1>2 DEF ListInv, ToldOk
  <1> QED
    BY <1>2, <1>3, <1>4, <1>5 DEF ListInv

LEMMA ListVisited == ASSUME ListInv, List!VisitList PROVE ListInv'
  <1>1. /\ List!LoadCached /\ UNCHANGED <<orders, notes, told, patch, tainted>>
        /\ view' = "list" /\ rows' = IF List!Cached = None THEN <<>> ELSE List!Cached
        /\ listener' = IF List!Cached # None THEN "off"
                       ELSE IF inFlight = None THEN "progress" ELSE "join"
    BY DEF List!VisitList
  <1>2. /\ memoryCache' = List!Cached /\ UNCHANGED sessionCache /\ memoryCache' \in Copies
        /\ inFlight' \in [items: Seq(Entries)] \cup {None} /\ OneFetch' /\ FetchOk'
        /\ memoryCache' # None => inFlight' = None
        /\ inFlight' # None =>
              \A e \in List!ToSet(inFlight'.items) :
                  e[2] >= told[e[1]] \/ (e[1] \in late' /\ listener' # "progress")
        /\ memoryCache' # None =>
              \A e \in List!ToSet(memoryCache') : e[2] >= told[e[1]] \/ e[1] \in tainted
    BY <1>1, CopyLoaded
  <1>3. /\ rows' = IF memoryCache' = None THEN <<>> ELSE memoryCache'
        /\ memoryCache' # None => listener' = "off"
        /\ memoryCache' = None => listener' \in {"progress", "join"}
    BY <1>1, <1>2
  <1>4. rows' \in Seq(Entries) /\ listener' \in {"off", "progress", "join"}
    BY <1>2, <1>3, Empties DEF Copies
  <1>5. ListTypes'
    BY <1>1, <1>2, <1>4 DEF ListInv, ListTypes
  <1>6. Listening'
    BY <1>1, <1>2, <1>3 DEF Listening
  <1>7. ASSUME NEW e \in List!ToSet(rows')
        PROVE  e[2] >= told[e[1]] \/ (e[1] \in tainted /\ listener' = "off")
    <2>1. memoryCache' # None
      BY <1>3, NoElements
    <2> QED
      BY <1>2, <1>3, <2>1
  <1>8. ToldOk'
    BY <1>1, <1>2, <1>7 DEF ListInv, ToldOk
  <1> QED
    BY <1>2, <1>5, <1>6, <1>8 DEF ListInv

(* A step that leaves the server, the fetch and what was told alone, and   *)
(* may drop copies.                                                        *)
LEMMA CopiesDropped ==
    ASSUME ListInv, UNCHANGED <<orders, notes, told, inFlight, fetchBegan, late, tainted>>,
           memoryCache' \in {memoryCache, None}, sessionCache' \in {sessionCache, None},
           UNCHANGED <<view, rows, listener>> \/ (view' # "list" /\ rows' = <<>> /\ listener' = "off"),
           view' \in {"closed", "blank", "dashboard", "list", "card"},
           view' = "card" => card' \in Orders,
           patch' \in [order: Orders, applied: BOOLEAN] \cup {None}
    PROVE  ListInv'
  <1>0. ListTypes /\ OneFetch /\ Listening /\ FetchOk /\ ToldOk
    BY DEF ListInv
  <1>1. ListTypes'
    <2>1. /\ memoryCache' \in Copies /\ sessionCache' \in Copies
          /\ rows' \in Seq(Entries) /\ listener' \in {"off", "progress", "join"}
      BY <1>0, Empties DEF ListTypes, Copies
    <2> QED
      BY <1>0, <2>1 DEF ListTypes
  <1>2. OneFetch'
    BY <1>0 DEF OneFetch
  <1>3. Listening'
    BY <1>0 DEF Listening
  <1>4. FetchOk'
    BY <1>0, FetchStays
  <1>5. ToldOk'
    <2>1. inFlight' # None =>
             \A e \in List!ToSet(inFlight'.items) :
                 e[2] >= told'[e[1]] \/ (e[1] \in late' /\ listener' # "progress")
      BY <1>0 DEF ToldOk
    <2>2. view' = "list" =>
             \A e \in List!ToSet(rows') :
                 e[2] >= told'[e[1]] \/ (e[1] \in tainted' /\ listener' = "off")
      BY <1>0 DEF ToldOk
    <2> QED
      BY <1>0, <2>1, <2>2 DEF ToldOk
  <1> QED
    BY <1>1, <1>2, <1>3, <1>4, <1>5 DEF ListInv

LEMMA CardSteps ==
    ASSUME ListInv,
           \/ \E o : List!VisitCard(o)
           \/ List!Expire \/ List!Save \/ List!SaveFails
    PROVE  ListInv'
  <1>0. /\ orders \in Seq(Orders) /\ patch \in [order: Orders, applied: BOOLEAN] \cup {None}
        /\ view \in {"closed", "blank", "dashboard", "list", "card"}
        /\ view = "card" => card \in Orders
    BY DEF ListInv, ListTypes
  <1>1. ASSUME NEW o, List!VisitCard(o) PROVE ListInv'
    <2>1. o \in Orders
      BY <1>0, <1>1, ElementsTyped DEF List!VisitCard
    <2> QED
      BY <1>0, <1>1, <2>1, CopiesDropped DEF List!VisitCard
  <1>2. CASE List!Expire
    BY <1>0, <1>2, CopiesDropped DEF List!Expire
  <1>3. CASE List!Save
    <2>1. patch' \in [order: Orders, applied: BOOLEAN]
      BY <1>0, <1>3 DEF List!Save
    <2> QED
      BY <1>0, <1>3, <2>1, CopiesDropped DEF List!Save
  <1>4. CASE List!SaveFails
    BY <1>0, <1>4, CopiesDropped DEF List!SaveFails
  <1> QED
    BY <1>1, <1>2, <1>3, <1>4

LEMMA FetchSteps ==
    ASSUME ListInv, List!FetchPage \/ List!FetchEnds
    PROVE  ListInv'
  <1>0. ListTypes /\ OneFetch /\ Listening /\ FetchOk /\ ToldOk /\ inFlight # None
    BY DEF ListInv, List!FetchPage, List!FetchEnds
  <1>1. PICK items : items = inFlight.items \o List!PageAt(Len(inFlight.items))
    OBVIOUS
  <1>2. /\ items \in Seq(Entries)
        /\ \A e \in List!ToSet(items) :
              /\ e[1] \in List!ToSet(orders) /\ e[2] <= notes[e[1]]
              /\ e[1] \in DOMAIN fetchBegan => fetchBegan[e[1]] <= e[2]
              /\ e[2] >= told[e[1]] \/ (e[1] \in late /\ listener # "progress")
        /\ \A o \in DOMAIN fetchBegan :
              \/ \E e \in List!ToSet(items) : e[1] = o
              \/ \E i \in 1..Len(orders) : Len(items) < i /\ orders[i] = o
    BY <1>0, <1>1, PageAdded
  <1>3. CASE List!FetchPage
    <2>1. /\ inFlight' = [items |-> items] /\ rows' = IF listener = "progress" THEN items ELSE rows
          /\ UNCHANGED <<view, listener, card, orders, notes, memoryCache, sessionCache, fetchBegan,
                         late, patch, told, tainted>>
      <3>1. /\ inFlight' = [items |-> items]
            /\ rows' = IF listener = "progress" THEN items ELSE rows
        BY <1>1, <1>3 DEF List!FetchPage
      <3>2. UNCHANGED <<view, listener, card, orders, notes, memoryCache, sessionCache,
                        fetchBegan, late, patch, told, tainted>>
        BY <1>3 DEF List!FetchPage
      <3> QED
        BY <3>1, <3>2
    <2>2. inFlight' \in [items: Seq(Entries)] /\ inFlight'.items = items
      BY <1>2, <2>1
    <2>3. ListTypes'
      <3>1. rows' \in Seq(Entries)
        BY <1>0, <1>2, <2>1 DEF ListTypes
      <3> QED
        BY <1>0, <2>1, <2>2, <3>1 DEF ListTypes
    <2>4. OneFetch'
      <3>1. inFlight' # None
        BY <2>2, NoneAssumption DEF Entries
      <3> QED
        BY <1>0, <2>1, <3>1 DEF OneFetch
    <2>5. Listening'
      BY <1>0, <2>1 DEF Listening
    <2>6. FetchOk'
      BY <1>0, <1>2, <2>1, <2>2 DEF FetchOk, Began, ReadInTime, Ahead
    <2>7. ToldOk'
      BY <1>0, <1>2, <2>1, <2>2 DEF ToldOk
    <2> QED
      BY <2>3, <2>4, <2>5, <2>6, <2>7 DEF ListInv
  <1>4. CASE List!FetchEnds
    <2>1. /\ inFlight' = None /\ fetchBegan' = None /\ late' = {} /\ tainted' = late
          /\ memoryCache' = items /\ sessionCache' \in {items, sessionCache} /\ listener' = "off"
          /\ rows' = IF listener = "off" THEN rows ELSE items
          /\ UNCHANGED <<view, card, orders, notes, patch, told>>
      BY <1>1, <1>4 DEF List!FetchEnds
    <2>2. sessionCache = None /\ (view = "list" => listener # "off")
      BY <1>0 DEF OneFetch, Listening
    <2>3. rows' \in Seq(Entries) /\ memoryCache' \in Copies /\ sessionCache' \in Copies
      BY <1>0, <1>2, <2>1 DEF ListTypes, Copies
    <2>4. ListTypes'
      BY <1>0, <2>1, <2>3 DEF ListTypes
    <2>5. OneFetch'
      BY <2>1, <2>2 DEF OneFetch
    <2>6. Listening'
      BY <2>1 DEF Listening
    <2>7. FetchOk'
      BY <1>0, <2>1, FetchStays
    <2>8. ToldOk'
      <3>1. \A e \in List!ToSet(items) : e[2] >= told'[e[1]] \/ e[1] \in tainted'
        BY <1>2, <2>1
      <3>2. view' = "list" => rows' = items
        BY <2>1, <2>2
      <3> QED
        BY <1>0, <2>1, <2>2, <3>1, <3>2 DEF ToldOk
    <2> QED
      BY <2>4, <2>5, <2>6, <2>7, <2>8 DEF ListInv
  <1> QED
    BY <1>3, <1>4

(* A fetch that fails, or is lost with the page, leaves rows it has shown. *)
LEMMA FetchLost ==
    ASSUME ListInv, List!FetchFails \/ List!Reload
    PROVE  ListInv'
  <1>0. ListTypes /\ OneFetch /\ Listening /\ FetchOk /\ ToldOk
    BY DEF ListInv
  <1>1. /\ inFlight' = None /\ fetchBegan' = None /\ late' = {} /\ listener' = "off"
        /\ UNCHANGED <<orders, notes, sessionCache, told, tainted>>
        /\ memoryCache' \in {memoryCache, None} /\ patch' \in {patch, None}
        /\ UNCHANGED <<view, rows, card>> \/ (view' = "blank" /\ rows' = <<>>)
    BY DEF List!FetchFails, List!Reload
  <1>2. rows' \in Seq(Entries)
    BY <1>0, <1>1, Empties DEF ListTypes
  <1>3. ListTypes'
    BY <1>0, <1>1, <1>2 DEF ListTypes, Copies
  <1>4. OneFetch'
    BY <1>0, <1>1 DEF OneFetch
  <1>5. Listening'
    BY <1>1 DEF Listening
  <1>6. FetchOk'
    BY <1>0, <1>1, FetchStays
  <1>7. ASSUME view' = "list", NEW e \in List!ToSet(rows')
        PROVE  e[2] >= told[e[1]] \/ e[1] \in tainted
    <2>1. view = "list" /\ e \in List!ToSet(rows)
      BY <1>1, <1>7
    <2> QED
      BY <1>0, <2>1 DEF ToldOk
  <1>8. ToldOk'
    BY <1>0, <1>1, <1>7 DEF ToldOk
  <1> QED
    BY <1>3, <1>4, <1>5, <1>6, <1>8 DEF ListInv

LEMMA TabOpened ==
    ASSUME List!Open \/ List!Close
    PROVE  ListInv'
  <1>1. /\ view' \in {"blank", "closed"} /\ orders' \in {FirstOrders, <<>>} /\ notes' = List!Zero
        /\ told' = List!Zero /\ memoryCache' = None /\ sessionCache' = None /\ inFlight' = None
        /\ rows' = <<>> /\ listener' = "off" /\ patch' = None /\ fetchBegan' = None /\ late' = {}
    BY DEF List!Open, List!Close, List!Reset
  <1>2. List!Zero \in [Orders -> Nat] /\ \A o \in Orders : List!Zero[o] <= List!Zero[o]
    BY DEF List!Zero
  <1>3. orders' \in Seq(Orders) /\ rows' \in Seq(Entries)
    BY <1>1, Empties, ListAssumption
  <1>4. ListTypes'
    BY <1>1, <1>2, <1>3 DEF ListTypes, Copies
  <1>5. OneFetch' /\ Listening' /\ FetchOk'
    BY <1>1 DEF OneFetch, Listening, FetchOk, Began, ReadInTime, Ahead
  <1>6. ToldOk'
    BY <1>1, <1>2 DEF ToldOk
  <1> QED
    BY <1>4, <1>5, <1>6 DEF ListInv

(* The server's side of a save, and of an import: notes and list grow.     *)
LEMMA NoteSaved ==
    ASSUME ListInv, List!SaveApplied
    PROVE  notes' \in [Orders -> Nat] /\ \A o \in Orders : notes[o] <= notes'[o]
  <1>0. notes \in [Orders -> Nat] /\ patch \in [order: Orders, applied: BOOLEAN]
    BY DEF ListInv, ListTypes, List!SaveApplied
  <1>1. PICK o \in Orders : o = patch.order
    BY <1>0
  <1>2. PICK n \in Nat : n = notes[o]
    BY <1>0
  <1>3. notes' = [notes EXCEPT ![o] = n + 1]
    BY <1>1, <1>2 DEF List!SaveApplied
  <1>4. notes' \in [Orders -> Nat] /\ notes'[o] = n + 1
    BY <1>0, <1>3
  <1>5. \A p \in Orders : p # o => notes'[p] = notes[p] /\ notes[p] \in Nat
    BY <1>0, <1>3
  <1> QED
    BY <1>2, <1>4, <1>5

LEMMA ListGrows ==
    ASSUME ListInv, NEW o \in Orders, List!Imported(o)
    PROVE  /\ orders' \in Seq(Orders) /\ Len(orders') = Len(orders) + 1
           /\ \A j \in 1..Len(orders) :
                 \E k \in 1..(Len(orders) + 1) : j <= k /\ orders'[k] = orders[j]
           /\ List!ToSet(orders) \subseteq List!ToSet(orders')
  <1>0. orders \in Seq(Orders)
    BY DEF ListInv, ListTypes
  <1>1. PICK i \in 1..(Len(orders) + 1) : orders' = List!InsertAt(orders, i, o)
    BY DEF List!Imported
  <1>3. PICK n \in Nat : n = Len(orders)
    BY <1>0
  <1>4. /\ orders' \in Seq(Orders) /\ Len(orders') = n + 1
        /\ \A j \in 1..n : orders[j] = IF j < i THEN orders'[j] ELSE orders'[j + 1]
    BY <1>0, <1>1, <1>3, Inserted
  <1>5. \A j \in 1..n : \E k \in 1..(n + 1) : j <= k /\ orders'[k] = orders[j]
    <2> TAKE j \in 1..n
    <2>1. j \in 1..(n + 1) /\ j + 1 \in 1..(n + 1) /\ j <= j /\ j <= j + 1
      OBVIOUS
    <2> QED
      BY <1>4, <2>1
  <1>6. List!ToSet(orders) \subseteq List!ToSet(orders')
    <2>1. \A x : x \in List!ToSet(orders) <=> \E j \in 1..n : x = orders[j]
      BY <1>0, <1>3, Elements
    <2>2. \A x : x \in List!ToSet(orders') <=> \E j \in 1..(n + 1) : x = orders'[j]
      BY <1>4, Elements
    <2> QED
      BY <1>5, <2>1, <2>2
  <1> QED
    BY <1>3, <1>4, <1>5, <1>6

(* What is known of the notes stays true when a save reaches the server.   *)
LEMMA SaveReached == ASSUME ListInv, List!SaveApplied PROVE ListInv'
  <1>0. ListTypes /\ OneFetch /\ Listening /\ FetchOk /\ ToldOk /\ notes \in [Orders -> Nat]
    BY DEF ListInv, ListTypes
  <1>1. /\ patch \in [order: Orders, applied: BOOLEAN]
        /\ patch' = [patch EXCEPT !.applied = TRUE]
        /\ notes' = [notes EXCEPT ![patch.order] = notes[patch.order] + 1]
        /\ UNCHANGED <<view, rows, listener, card, orders, memoryCache, sessionCache, inFlight,
                       fetchBegan, late, told, tainted>>
    BY <1>0 DEF List!SaveApplied, ListTypes
  <1>2. notes' \in [Orders -> Nat] /\ \A o \in Orders : notes[o] <= notes'[o]
    BY NoteSaved
  <1>3. List!ToSet(orders) \subseteq Orders
    BY <1>0, ElementsTyped DEF ListTypes
  <1>4. ListTypes'
    <2>1. patch' \in [order: Orders, applied: BOOLEAN]
      BY <1>1
    <2> QED
      BY <1>0, <1>1, <1>2, <2>1 DEF ListTypes
  <1>5. OneFetch' /\ Listening'
    BY <1>0, <1>1 DEF OneFetch, Listening
  <1>6. Began'
    <2>1. ASSUME inFlight # None, NEW o \in DOMAIN fetchBegan PROVE fetchBegan[o] <= notes'[o]
      <3>1. /\ o \in Orders /\ fetchBegan[o] <= notes[o] /\ fetchBegan[o] \in Nat
        BY <1>0, <1>3, <2>1 DEF FetchOk, Began
      <3> QED
        BY <1>0, <1>2, <3>1
    <2> QED
      BY <1>0, <1>1, <2>1 DEF FetchOk, Began
  <1>7. ReadInTime'
    <2>1. ASSUME inFlight # None, NEW e \in List!ToSet(inFlight.items) PROVE e[2] <= notes'[e[1]]
      <3>1. inFlight.items \in Seq(Entries)
        BY <1>0, <2>1 DEF ListTypes
      <3>2. e \in Entries /\ e[2] <= notes[e[1]]
        BY <1>0, <2>1, <3>1, ElementsTyped DEF FetchOk, ReadInTime
      <3>3. e[1] \in Orders /\ e[2] \in Nat
        BY <3>2 DEF Entries
      <3> QED
        BY <1>0, <1>2, <3>2, <3>3
    <2> QED
      BY <1>0, <1>1, <2>1 DEF FetchOk, ReadInTime
  <1>8. Ahead'
    BY <1>0, <1>1 DEF FetchOk, Ahead
  <1>9. ToldOk'
    <2>1. ASSUME NEW o \in Orders PROVE told[o] <= notes'[o]
      <3>1. told[o] <= notes[o] /\ told[o] \in Nat /\ notes[o] \in Nat
        BY <1>0 DEF ToldOk, ListTypes
      <3> QED
        BY <1>2, <3>1
    <2> QED
      BY <1>0, <1>1, <2>1 DEF ToldOk
  <1> QED
    BY <1>4, <1>5, <1>6, <1>7, <1>8, <1>9 DEF ListInv, FetchOk

(* The answer drops the copies, and is told of on the card only: the page  *)
(* that sees a fetch's orders arrive is not on show.                       *)
LEMMA SaveHeard == ASSUME ListInv, List!SaveAnswered PROVE ListInv'
  <1>0. /\ ListTypes /\ OneFetch /\ Listening /\ FetchOk /\ ToldOk
        /\ notes \in [Orders -> Nat] /\ told \in [Orders -> Nat]
    BY DEF ListInv, ListTypes
  <1>1. /\ patch' = None /\ memoryCache' = None /\ sessionCache' = None
        /\ late' = IF inFlight # None THEN late \cup {patch.order} ELSE late
        /\ \/ told' = told
           \/ view = "card" /\ told' = [told EXCEPT ![patch.order] = notes[patch.order]]
        /\ UNCHANGED <<view, rows, listener, card, orders, notes, inFlight, fetchBegan, tainted>>
    BY DEF List!SaveAnswered, List!Invalidate
  <1>2. patch.order \in Orders
    BY <1>0 DEF ListTypes, List!SaveAnswered
  <1>3. told' \in [Orders -> Nat] /\ \A o \in Orders : told'[o] <= notes[o]
    BY <1>0, <1>1, <1>2 DEF ToldOk
  <1>4. ListTypes'
    BY <1>0, <1>1, <1>3 DEF ListTypes, Copies
  <1>5. OneFetch' /\ Listening' /\ FetchOk'
    BY <1>0, <1>1, FetchStays DEF OneFetch, Listening
  <1>6. ASSUME inFlight # None, NEW e \in List!ToSet(inFlight.items)
        PROVE  e[2] >= told'[e[1]] \/ (e[1] \in late' /\ listener # "progress")
    <2>1. e[2] >= told[e[1]] \/ (e[1] \in late /\ listener # "progress")
      BY <1>0, <1>6 DEF ToldOk
    <2>2. late' = late \cup {patch.order}
      BY <1>1, <1>6
    <2>3. CASE told' = told
      BY <2>1, <2>2, <2>3
    <2>4. CASE view = "card" /\ told' = [told EXCEPT ![patch.order] = notes[patch.order]]
      <3>1. listener # "progress"
        BY <1>0, <2>4 DEF Listening
      <3>2. CASE e[1] = patch.order
        BY <2>2, <3>1, <3>2
      <3>3. CASE e[1] # patch.order
        <4>1. told'[e[1]] = told[e[1]]
          BY <1>0, <2>4, <3>3
        <4> QED
          BY <2>1, <2>2, <4>1
      <3> QED
        BY <3>2, <3>3
    <2> QED
      BY <1>1, <2>3, <2>4
  <1>7. view = "list" => told' = told
    BY <1>1
  <1>8. ToldOk'
    BY <1>0, <1>1, <1>3, <1>6, <1>7 DEF ToldOk
  <1> QED
    BY <1>4, <1>5, <1>8 DEF ListInv

(* An order put anywhere in the list moves those that follow further on.   *)
LEMMA OrderImported == ASSUME ListInv, NEW o \in Orders, List!Imported(o) PROVE ListInv'
  <1>0. /\ ListTypes /\ OneFetch /\ Listening /\ FetchOk /\ ToldOk /\ orders \in Seq(Orders)
    BY DEF ListInv, ListTypes
  <1>2. UNCHANGED <<view, rows, listener, card, notes, memoryCache, sessionCache, inFlight,
                    fetchBegan, late, patch, told, tainted>>
    BY DEF List!Imported
  <1>3. PICK n \in Nat : n = Len(orders)
    BY <1>0
  <1>4. orders' \in Seq(Orders) /\ Len(orders') = n + 1
    BY <1>3, ListGrows
  <1>5. \A j \in 1..n : \E k \in 1..(n + 1) : j <= k /\ orders'[k] = orders[j]
    BY <1>3, ListGrows
  <1>6. List!ToSet(orders) \subseteq List!ToSet(orders')
    BY ListGrows
  <1>7. ListTypes'
    BY <1>0, <1>2, <1>4 DEF ListTypes
  <1>8. OneFetch' /\ Listening' /\ ToldOk'
    BY <1>0, <1>2 DEF OneFetch, Listening, ToldOk
  <1>9. Began' /\ ReadInTime'
    BY <1>0, <1>2, <1>6 DEF FetchOk, Began, ReadInTime
  <1>10. Ahead'
    <2>1. ASSUME inFlight # None, NEW p, NEW j \in 1..n, Len(inFlight.items) < j, orders[j] = p
          PROVE  \E k \in 1..(n + 1) : Len(inFlight.items) < k /\ orders'[k] = p
      <3>1. PICK k \in 1..(n + 1) : j <= k /\ orders'[k] = orders[j]
        BY <1>5
      <3>2. Len(inFlight.items) \in Nat
        BY <1>0, <2>1 DEF ListTypes
      <3> QED
        BY <2>1, <3>1, <3>2
    <2> QED
      BY <1>0, <1>2, <1>3, <1>4, <2>1 DEF FetchOk, Ahead
  <1> QED
    BY <1>7, <1>8, <1>9, <1>10 DEF ListInv, FetchOk

LEMMA ListWork == ASSUME ListInv, List!Work PROVE ListInv'
  BY DashboardVisited, ListVisited, CardSteps, FetchSteps, FetchLost, SaveReached, SaveHeard,
     OrderImported
  DEF List!Work, List!Answer

(* The list and its cache live on while other pages are open.              *)
LEMMA ListAlone ==
    ASSUME [UsePage]_all
    PROVE  List!Open \/ List!Close \/ List!Work \/ UNCHANGED listVars
  <1>1. CASE OpenPage
    BY <1>1 DEF OpenPage, PageStep, BodyStep
  <1>2. CASE ClosePage
    BY <1>2 DEF ClosePage, PageStep, BodyStep
  <1>3. CASE OnPage
    BY <1>3 DEF OnPage, PageStep, BodyStep
  <1> QED
    BY <1>1, <1>2, <1>3 DEF UsePage, all

LEMMA ListStarts == StartPage => ListInv
  <1> SUFFICES ASSUME StartPage PROVE ListInv
    OBVIOUS
  <1>1. /\ view = "closed" /\ orders = <<>> /\ notes = List!Zero /\ told = List!Zero
        /\ memoryCache = None /\ sessionCache = None /\ inFlight = None /\ rows = <<>>
        /\ listener = "off" /\ patch = None /\ fetchBegan = None /\ late = {}
    BY DEF StartPage, List!Init, List!Closed
  <1>2. List!Zero \in [Orders -> Nat] /\ \A o \in Orders : List!Zero[o] <= List!Zero[o]
    BY DEF List!Zero
  <1>3. ListTypes
    BY <1>1, <1>2, Empties DEF ListTypes, Copies
  <1>4. OneFetch /\ Listening /\ FetchOk /\ ToldOk
    BY <1>1, <1>2 DEF OneFetch, Listening, FetchOk, Began, ReadInTime, Ahead, ToldOk
  <1> QED
    BY <1>3, <1>4 DEF ListInv

LEMMA ListGoesOn == ListInv /\ [UsePage]_all => ListInv'
  <1> SUFFICES ASSUME ListInv, [UsePage]_all PROVE ListInv'
    OBVIOUS
  <1>1. CASE UNCHANGED listVars
    BY <1>1 DEF listVars, ListInv, ListTypes, OneFetch, Listening, FetchOk, Began, ReadInTime,
                Ahead, ToldOk
  <1> QED
    BY <1>1, ListAlone, TabOpened, ListWork

-----------------------------------------------------------------------------
(* The theorems                                                            *)

(* WorkOrdersCache: a save the user was told of is on every list shown     *)
(* afterwards, except when it was made while the list was being fetched.   *)
THEOREM EditsSeen == FrontendSpec => []OwnEditSeen
  <1>1. ListInv => OwnEditSeen
    BY DEF ListInv, ToldOk, OwnEditSeen, List!OwnEditSeen
  <1> QED
    BY <1>1, ListStarts, ListGoesOn, PTL DEF FrontendSpec

(* WorkOrdersCache: a fetch misses no order of the list it began with,     *)
(* however many rows a page has and whatever is imported meanwhile.        *)
THEOREM FetchComplete == FrontendSpec => NothingMissed
  <1>1. ASSUME ListInv, [UsePage]_all, inFlight # None, inFlight' = None, memoryCache' # None
        PROVE  \A o \in DOMAIN fetchBegan : \E r \in List!ToSet(memoryCache') : r[1] = o
    <2>0. ListTypes /\ memoryCache = None
      BY <1>1 DEF ListInv, OneFetch
    <2>1. List!FetchEnds
      <3>1. ~List!Open /\ ~List!Close /\ ~UNCHANGED listVars
        BY <1>1 DEF List!Open, List!Close, List!Reset, listVars
      <3>2. ~List!VisitDashboard /\ ~List!VisitList
        BY <1>1 DEF List!VisitDashboard, List!VisitList, List!LoadCached
      <3>3. ASSUME NEW o PROVE ~List!VisitCard(o) /\ ~List!Imported(o)
        BY <1>1 DEF List!VisitCard, List!Imported
      <3>4. ~List!Expire /\ ~List!Reload /\ ~List!FetchFails
        BY <1>1, <2>0 DEF List!Expire, List!Reload, List!FetchFails
      <3>5. ~List!Save /\ ~List!SaveApplied /\ ~List!SaveAnswered /\ ~List!SaveFails
        BY <1>1 DEF List!Save, List!SaveApplied, List!SaveAnswered, List!SaveFails
      <3>6. ~List!FetchPage
        <4>1. ASSUME List!FetchPage PROVE FALSE
          <5>1. memoryCache' = memoryCache
            BY <4>1 DEF List!FetchPage
          <5> QED
            BY <1>1, <2>0, <5>1
        <4> QED
          BY <4>1
      <3> QED
        BY <1>1, <3>1, <3>2, <3>3, <3>4, <3>5, <3>6, ListAlone DEF List!Work, List!Answer
    <2>2. PICK items : items = inFlight.items \o List!PageAt(Len(inFlight.items))
      OBVIOUS
    <2>3. memoryCache' = items /\ List!IsLast(List!PageAt(Len(inFlight.items)), Len(items))
      BY <2>1, <2>2 DEF List!FetchEnds
    <2>4. items \in Seq(Entries) /\ Len(items) >= Len(orders)
      <3>1. /\ orders \in Seq(Orders) /\ notes \in [Orders -> Nat]
            /\ inFlight.items \in Seq(Entries)
        BY <1>1, <2>0 DEF ListTypes
      <3> QED
        BY <1>1, <2>2, <2>3, <3>1, LastPage, PageAdded
    <2>5. \A i \in 1..Len(orders) : ~(Len(items) < i)
      BY <2>0, <2>4 DEF ListTypes
    <2> QED
      BY <1>1, <2>2, <2>3, <2>5, PageAdded
  <1>2. ListInv /\ [UsePage]_all =>
           [(inFlight # None /\ inFlight' = None /\ memoryCache' # None) =>
               \A o \in DOMAIN fetchBegan : \E r \in List!ToSet(memoryCache') : r[1] = o]_List!vars
    BY <1>1
  <1> QED
    BY <1>2, ListStarts, ListGoesOn, PTL DEF FrontendSpec, NothingMissed, List!NothingMissed

-----------------------------------------------------------------------------
(* The refinement: step by step, the cache does what SnapshotWindow does   *)

Held == IF List!Cached = None THEN {} ELSE List!ToSet(List!Cached)

LEMMA TruthKept == UNCHANGED <<orders, notes>> => UNCHANGED List!Listed
  BY DEF List!Listed

LEMMA HeldFollows ==
    /\ UNCHANGED <<memoryCache, sessionCache>> => UNCHANGED Held
    /\ memoryCache' = None /\ sessionCache' = None => Held' = {}
    /\ memoryCache = None /\ sessionCache = None => Held = {}
  BY DEF Held, List!Cached

LEMMA Stutters ==
    ASSUME UNCHANGED <<orders, notes, fetchBegan, Held>>
    PROVE  UNCHANGED List!Promise!wvars
  BY TruthKept DEF List!Promise!wvars, Held

LEMMA Drops ==
    ASSUME UNCHANGED <<orders, notes, fetchBegan>>, Held' = {}
    PROVE  List!Promise!Drop
  BY TruthKept DEF List!Promise!Drop, Held

LEMMA Aborts ==
    ASSUME UNCHANGED <<orders, notes, Held>>, fetchBegan # None, fetchBegan' = None
    PROVE  List!Promise!Abort
  BY TruthKept DEF List!Promise!Abort, Held

LEMMA Starts ==
    ASSUME UNCHANGED <<orders, notes, Held>>, fetchBegan = None, fetchBegan' = List!Listed,
           Held = {}
    PROVE  List!Promise!Start
  BY TruthKept DEF List!Promise!Start, Held

LEMMA Changes ==
    ASSUME UNCHANGED <<fetchBegan, Held>>, List!ToSet(orders) \subseteq List!ToSet(orders'),
           \A o \in List!ToSet(orders) : notes[o] <= notes'[o]
    PROVE  List!Promise!Change
  <1>1. DOMAIN List!Listed = List!ToSet(orders) /\ DOMAIN List!Listed' = List!ToSet(orders')
    BY DEF List!Listed
  <1>2. \A o \in List!ToSet(orders) : List!Listed[o] = notes[o] /\ List!Listed'[o] = notes'[o]
    BY DEF List!Listed
  <1> QED
    BY <1>1, <1>2 DEF List!Promise!Change, Held

(* A fetch under way has begun.                                            *)
LEMMA HasBegun == ASSUME ListInv, inFlight # None PROVE fetchBegan # None
  <1>1. PICK there : there = DOMAIN fetchBegan
    OBVIOUS
  <1>2. there \subseteq Orders /\ fetchBegan \in [there -> Nat]
    BY <1>1, ElementsTyped DEF ListInv, ListTypes, FetchOk, Began
  <1> QED
    BY <1>2, NoneAssumption

(* What a fetch caches was true at some moment since it began.             *)
LEMMA Fills ==
    ASSUME ListInv, List!FetchEnds
    PROVE  List!Promise!Fill
  <1>0. /\ ListTypes /\ sessionCache = None /\ inFlight # None /\ fetchBegan # None
        /\ notes \in [Orders -> Nat] /\ orders \in Seq(Orders)
    BY HasBegun DEF ListInv, ListTypes, OneFetch, List!FetchEnds
  <1>1. PICK items : items = inFlight.items \o List!PageAt(Len(inFlight.items))
    OBVIOUS
  <1>2. /\ memoryCache' = items /\ sessionCache' \in {items, None} /\ fetchBegan' = None
        /\ UNCHANGED <<orders, notes>>
    BY <1>0, <1>1 DEF List!FetchEnds
  <1>3. /\ items \in Seq(Entries)
        /\ \A e \in List!ToSet(items) :
              /\ e[1] \in List!ToSet(orders) /\ e[2] <= notes[e[1]]
              /\ e[1] \in DOMAIN fetchBegan => fetchBegan[e[1]] <= e[2]
    BY <1>0, <1>1, PageAdded
  <1>4. Held' \subseteq List!ToSet(items)
    BY <1>2 DEF Held, List!Cached
  <1>5. /\ DOMAIN List!Listed = List!ToSet(orders)
        /\ \A o \in List!ToSet(orders) : List!Listed[o] = notes[o]
    BY DEF List!Listed
  <1>6. ASSUME NEW e \in List!ToSet(items) PROVE e \in List!Promise!Window
    <2>1. e \in Entries
      BY <1>3, ElementsTyped
    <2>2. PICK o \in Orders, n \in Nat : e = <<o, n>>
      BY <2>1 DEF Entries
    <2>3. /\ o \in List!ToSet(orders) /\ n <= notes[o] /\ notes[o] \in Nat
          /\ o \in DOMAIN fetchBegan => fetchBegan[o] <= n /\ fetchBegan[o] \in Nat
      BY <1>0, <1>3, <2>2 DEF ListInv, FetchOk, Began
    <2>4. List!Promise!Floor(o) \in Nat /\ List!Promise!Floor(o) <= n
      BY <2>3 DEF List!Promise!Floor
    <2>5. n \in List!Promise!Floor(o)..List!Listed[o]
      BY <1>5, <2>3, <2>4
    <2> QED
      BY <1>5, <2>2, <2>3, <2>5 DEF List!Promise!Window
  <1> QED
    BY <1>0, <1>2, <1>4, <1>6, TruthKept DEF List!Promise!Fill, Held

(* Reading the copy moves it, and changes nothing of what is served.       *)
LEMMA Promoted ==
    ASSUME memoryCache' = List!Cached, UNCHANGED sessionCache
    PROVE  UNCHANGED Held
  BY DEF Held, List!Cached

LEMMA LoadSimulated ==
    ASSUME ListInv, List!LoadCached, UNCHANGED <<orders, notes>>
    PROVE  List!Promise!WNext \/ UNCHANGED List!Promise!wvars
  <1>1. UNCHANGED Held
    BY Promoted DEF List!LoadCached
  <1>2. CASE List!Cached = None /\ inFlight = None
    <2>1. Held = {} /\ fetchBegan = None /\ fetchBegan' = List!Listed
      BY <1>2 DEF Held, ListInv, OneFetch, List!LoadCached
    <2> QED
      BY <1>1, <2>1, Starts DEF List!Promise!WNext
  <1>3. CASE ~(List!Cached = None /\ inFlight = None)
    <2>1. UNCHANGED fetchBegan
      BY <1>3 DEF List!LoadCached
    <2> QED
      BY <1>1, <2>1, Stutters
  <1> QED
    BY <1>2, <1>3

(* A reload loses the fetch, or the copy if there is none in the session.  *)
LEMMA ReloadSimulated ==
    ASSUME ListInv, List!Reload
    PROVE  List!Promise!WNext \/ UNCHANGED List!Promise!wvars
  <1>0. /\ UNCHANGED <<orders, notes, sessionCache>> /\ memoryCache' = None /\ fetchBegan' = None
        /\ OneFetch
    BY DEF List!Reload, ListInv
  <1>1. CASE inFlight # None
    <2>1. UNCHANGED Held
      BY <1>0, <1>1, HeldFollows DEF OneFetch
    <2> QED
      BY <1>0, <1>1, <2>1, HasBegun, Aborts DEF List!Promise!WNext
  <1>2. CASE inFlight = None
    <2>1. UNCHANGED fetchBegan
      BY <1>0, <1>2 DEF OneFetch
    <2>2. CASE sessionCache = None
      <3>1. Held' = {}
        BY <1>0, <2>2, HeldFollows
      <3> QED
        BY <1>0, <2>1, <3>1, Drops DEF List!Promise!WNext
    <2>3. CASE sessionCache # None
      <3>1. UNCHANGED Held
        BY <1>0, <2>3 DEF OneFetch, Held, List!Cached
      <3> QED
        BY <1>0, <2>1, <3>1, Stutters
    <2> QED
      BY <2>2, <2>3
  <1> QED
    BY <1>1, <1>2

LEMMA AnswerSimulated ==
    ASSUME ListInv, List!Answer
    PROVE  List!Promise!WNext \/ UNCHANGED List!Promise!wvars
  <1>1. CASE List!FetchPage
    <2>1. UNCHANGED <<orders, notes, fetchBegan, memoryCache, sessionCache>>
      BY <1>1 DEF List!FetchPage
    <2> QED
      BY <2>1, HeldFollows, Stutters
  <1>2. CASE List!FetchEnds
    BY <1>2, Fills DEF List!Promise!WNext
  <1>3. CASE List!FetchFails
    <2>1. /\ inFlight # None /\ fetchBegan' = None
          /\ UNCHANGED <<orders, notes, memoryCache, sessionCache>>
      BY <1>3 DEF List!FetchFails
    <2> QED
      BY <2>1, HasBegun, HeldFollows, Aborts DEF List!Promise!WNext
  <1> QED
    BY <1>1, <1>2, <1>3 DEF List!Answer

LEMMA SaveSimulated ==
    ASSUME ListInv, List!Save \/ List!SaveApplied \/ List!SaveAnswered \/ List!SaveFails
    PROVE  List!Promise!WNext \/ UNCHANGED List!Promise!wvars
  <1>1. CASE List!Save \/ List!SaveFails
    <2>1. UNCHANGED <<orders, notes, fetchBegan, memoryCache, sessionCache>>
      BY <1>1 DEF List!Save, List!SaveFails
    <2> QED
      BY <2>1, HeldFollows, Stutters
  <1>2. CASE List!SaveApplied
    <2>1. UNCHANGED <<orders, fetchBegan, memoryCache, sessionCache>>
      BY <1>2 DEF List!SaveApplied
    <2>2. \A o \in List!ToSet(orders) : notes[o] <= notes'[o]
      BY <1>2, NoteSaved, ElementsTyped DEF ListInv, ListTypes
    <2> QED
      BY <2>1, <2>2, HeldFollows, Changes DEF List!Promise!WNext
  <1>3. CASE List!SaveAnswered
    <2>1. /\ UNCHANGED <<orders, notes, fetchBegan>>
          /\ memoryCache' = None /\ sessionCache' = None
      BY <1>3 DEF List!SaveAnswered, List!Invalidate
    <2> QED
      BY <2>1, HeldFollows, Drops DEF List!Promise!WNext
  <1> QED
    BY <1>1, <1>2, <1>3

LEMMA Simulated ==
    ASSUME ListInv, [UsePage]_all
    PROVE  List!Promise!WNext \/ UNCHANGED List!Promise!wvars
  <1>1. CASE List!Open \/ List!Close
    <2>1. Held' = {} /\ fetchBegan' = None
      BY <1>1, HeldFollows DEF List!Open, List!Close, List!Reset
    <2> QED
      BY <2>1 DEF List!Promise!WNext, List!Promise!NewTab, Held
  <1>2. CASE UNCHANGED listVars
    BY <1>2, HeldFollows, Stutters DEF listVars
  <1>3. CASE List!VisitDashboard \/ List!VisitList
    BY <1>3, LoadSimulated DEF List!VisitDashboard, List!VisitList
  <1>4. ASSUME NEW o \in Edited, List!VisitCard(o) PROVE UNCHANGED List!Promise!wvars
    <2>1. UNCHANGED <<orders, notes, fetchBegan, memoryCache, sessionCache>>
      BY <1>4 DEF List!VisitCard
    <2> QED
      BY <2>1, HeldFollows, Stutters
  <1>5. CASE List!Expire
    <2>1. /\ UNCHANGED <<orders, notes, fetchBegan>>
          /\ memoryCache' = None /\ sessionCache' = None
      BY <1>5 DEF List!Expire
    <2> QED
      BY <2>1, HeldFollows, Drops DEF List!Promise!WNext
  <1>6. ASSUME NEW o \in Orders, List!Imported(o) PROVE List!Promise!WNext
    <2>1. UNCHANGED <<notes, fetchBegan, memoryCache, sessionCache>>
      BY <1>6 DEF List!Imported
    <2>2. \A p \in List!ToSet(orders) : notes[p] <= notes'[p]
      <3>1. \A p \in List!ToSet(orders) : notes[p] \in Nat
        BY ElementsTyped DEF ListInv, ListTypes
      <3> QED
        BY <2>1, <3>1
    <2> QED
      BY <1>6, <2>1, <2>2, ListGrows, HeldFollows, Changes DEF List!Promise!WNext
  <1> QED
    BY <1>1, <1>2, <1>3, <1>4, <1>5, <1>6, ListAlone, ReloadSimulated, AnswerSimulated,
       SaveSimulated DEF List!Work

(* WorkOrdersCache implements SnapshotWindow: whatever happens to the tab, *)
(* the fetch and the saves, the cache serves nothing or a copy each entry  *)
(* of which was true at some moment of the fetch that read it.             *)
THEOREM CacheRefines == FrontendSpec => CacheKeepsPromise
  <1>1. StartPage => List!Promise!WInit
    <2>1. StartPage => memoryCache = None /\ sessionCache = None /\ fetchBegan = None
      BY DEF StartPage, List!Init, List!Closed
    <2> QED
      BY <2>1, HeldFollows DEF List!Promise!WInit, Held
  <1>2. ListInv /\ [UsePage]_all => [List!Promise!WNext]_List!Promise!wvars
    BY Simulated
  <1> QED
    BY <1>1, <1>2, ListStarts, ListGoesOn, PTL
    DEF FrontendSpec, CacheKeepsPromise, List!CacheKeepsPromise, List!Promise!WSpec
=============================================================================
