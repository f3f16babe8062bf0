--------------------------- MODULE WorkOrdersCache ---------------------------
(***************************************************************************)
(* The work-order list of one browser tab (src/frontend/lib/               *)
(* work-orders-cache.ts): the dashboard prefetches it, the list page shows *)
(* it from the cache or while its pages arrive, the card edits one order   *)
(* and drops the cache.  A fetch belongs to the module, not to a page: it  *)
(* goes on while the user moves between pages, and so does a save.         *)
(***************************************************************************)
EXTENDS Naturals, Sequences, SequencesExt, FiniteSets

CONSTANTS
    Orders,       \* every order there can be
    Edited,       \* those whose card the user opens (a bound)
    FirstOrders,  \* the list when the tab is opened, newest first
    PageSize,     \* rows of one request (10000 in the code)
    MaxNote,      \* how often one order may be edited (a bound)
    None

VARIABLES
    view,         \* the mounted page: closed, blank, dashboard, list, card
    orders,       \* the server's list, newest first
    notes,        \* [Orders -> version of the order's own note] on the server
    memoryCache,  \* None or the complete list of <<order, note>>
    sessionCache, \* its copy in sessionStorage
    inFlight,     \* None or [items]: the fetch under way
    rows,         \* what the list page shows
    loading,
    listener,     \* how the list page hears of the fetch: off, progress, join
    card,         \* the order on the card page
    patch,        \* None or [order, applied]: a save under way
    told,         \* [Orders -> version the user has been told is saved]
    fetchBegan,   \* None or notes of the listed orders when inFlight started (history)
    late,         \* orders saved since inFlight started (history)
    tainted       \* those of the fetch that filled the cache (history)

pageVars == <<view, rows, loading, listener, card>>
serverVars == <<orders, notes>>
cacheVars == <<memoryCache, sessionCache>>
fetchVars == <<inFlight, fetchBegan, late>>
saveVars == <<patch, told>>
vars == <<pageVars, serverVars, cacheVars, fetchVars, saveVars, tainted>>

Zero == [o \in Orders |-> 0]
Listed == [o \in ToSet(orders) |-> notes[o]]

Closed ==
    /\ view = "closed" /\ orders = <<>> /\ notes = Zero
    /\ memoryCache = None /\ sessionCache = None /\ inFlight = None
    /\ rows = <<>> /\ loading = FALSE /\ listener = "off" /\ card = None
    /\ patch = None /\ told = Zero /\ fetchBegan = None /\ late = {} /\ tainted = {}

Init == Closed

Reset ==
    /\ memoryCache' = None /\ sessionCache' = None /\ inFlight' = None
    /\ rows' = <<>> /\ loading' = FALSE /\ listener' = "off" /\ card' = None
    /\ patch' = None /\ told' = Zero /\ fetchBegan' = None /\ late' = {} /\ tainted' = {}
    /\ notes' = Zero

Open == view = "closed" /\ view' = "blank" /\ orders' = FirstOrders /\ Reset
Close == view # "closed" /\ view' = "closed" /\ orders' = <<>> /\ Reset

-----------------------------------------------------------------------------
(* getCachedWorkOrders: the session copy is promoted to memory.            *)
Cached == IF memoryCache # None THEN memoryCache ELSE sessionCache

(* loadWorkOrdersCached: a fresh copy is served, a running fetch shared.   *)
LoadCached ==
    /\ memoryCache' = Cached
    /\ IF Cached = None /\ inFlight = None
       THEN inFlight' = [items |-> <<>>] /\ fetchBegan' = Listed /\ late' = {}
       ELSE UNCHANGED fetchVars
    /\ UNCHANGED sessionCache

(* WorkOrdersPrefetcher, mounted on the dashboard.                         *)
VisitDashboard ==
    /\ view # "closed" /\ view' = "dashboard"
    /\ LoadCached
    /\ rows' = <<>> /\ loading' = FALSE /\ listener' = "off" /\ card' = None
    /\ UNCHANGED <<serverVars, saveVars, tainted>>

(* Mutant of VisitList: a page that finds a fetch running waits for nothing. *)
VisitListDeaf ==
    /\ view # "closed" /\ view' = "list"
    /\ LoadCached
    /\ rows' = IF Cached = None THEN <<>> ELSE Cached
    /\ loading' = (Cached = None)
    /\ listener' = IF Cached = None /\ inFlight = None THEN "progress" ELSE "off"
    /\ card' = None
    /\ UNCHANGED <<serverVars, saveVars, tainted>>

(* WorkOrdersTable's load effect: the owner of the fetch sees its pages    *)
(* arrive, a page that joins a running one hears of its end only.          *)
VisitList ==
    /\ view # "closed" /\ view' = "list"
    /\ LoadCached
    /\ rows' = IF Cached = None THEN <<>> ELSE Cached
    /\ loading' = (Cached = None)
    /\ listener' = IF Cached # None THEN "off"
                   ELSE IF inFlight = None THEN "progress" ELSE "join"
    /\ card' = None
    /\ UNCHANGED <<serverVars, saveVars, tainted>>

(* The card of one order, reached from the list or by a link; the list's   *)
(* listener is cancelled.                                                  *)
VisitCard(o) ==
    /\ view # "closed" /\ o \in ToSet(orders) /\ view' = "card" /\ card' = o
    /\ rows' = <<>> /\ loading' = FALSE /\ listener' = "off"
    /\ UNCHANGED <<serverVars, cacheVars, fetchVars, saveVars, tainted>>

-----------------------------------------------------------------------------
(* One page of fetchAllWorkOrders, read now at the offset reached so far.  *)
PageAt(offset) ==
    [i \in {k \in 1..PageSize : offset + k <= Len(orders)} |->
        <<orders[offset + i], notes[orders[offset + i]]>>]

(* Mutant of IsLast: the length the list had when the fetch began.         *)
IsLastOfFirst(page, offset) == page = <<>> \/ offset >= Cardinality(DOMAIN fetchBegan)

IsLast(page, offset) == page = <<>> \/ offset >= Len(orders)

(* Mutant of FetchPage: what has arrived is cached while the rest is under *)
(* way.                                                                    *)
FetchPageCached ==
    /\ inFlight # None
    /\ LET items == inFlight.items \o PageAt(Len(inFlight.items))
       IN  /\ rows' = IF listener = "progress" THEN items ELSE rows
           /\ ~IsLast(PageAt(Len(inFlight.items)), Len(items))
           /\ inFlight' = [items |-> items] /\ memoryCache' = items
    /\ UNCHANGED <<view, loading, listener, card, serverVars, sessionCache, fetchBegan, late,
                   saveVars, tainted>>

FetchPage ==
    /\ inFlight # None
    /\ LET page == PageAt(Len(inFlight.items))
           items == inFlight.items \o page
       IN  /\ rows' = IF listener = "progress" THEN items ELSE rows
           /\ ~IsLast(page, Len(items))
           /\ inFlight' = [items |-> items]
    /\ UNCHANGED <<view, loading, listener, card, serverVars, cacheVars, fetchBegan, late,
                   saveVars, tainted>>

(* The last page: the list is complete and cached, whoever asked for it.   *)
(* The write to sessionStorage may fail (quota) and is then forgotten.     *)
FetchEnds ==
    /\ inFlight # None
    /\ LET page == PageAt(Len(inFlight.items))
           items == inFlight.items \o page
       IN  /\ IsLast(page, Len(items))
           /\ rows' = IF listener = "off" THEN rows ELSE items
           /\ memoryCache' = items
           /\ sessionCache' \in {items, sessionCache}
    /\ loading' = (IF listener = "off" THEN loading ELSE FALSE)
    /\ inFlight' = None /\ listener' = "off"
    /\ fetchBegan' = None /\ late' = {} /\ tainted' = late
    /\ UNCHANGED <<view, card, serverVars, saveVars>>

FetchFails ==
    /\ inFlight # None
    /\ inFlight' = None /\ fetchBegan' = None /\ late' = {}
    /\ loading' = (IF listener = "off" THEN loading ELSE FALSE)
    /\ listener' = "off"
    /\ UNCHANGED <<view, rows, card, serverVars, cacheVars, saveVars, tainted>>

(* CACHE_TTL_MS passes: neither copy is served any more.                   *)
Expire ==
    /\ Cached # None
    /\ memoryCache' = None /\ sessionCache' = None
    /\ UNCHANGED <<pageVars, serverVars, fetchVars, saveVars, tainted>>

(* F5: the module's variables go, sessionStorage stays, the save may or    *)
(* may not have reached the server.                                        *)
Reload ==
    /\ view # "closed" /\ view' = "blank"
    /\ memoryCache' = None /\ inFlight' = None /\ fetchBegan' = None /\ late' = {}
    /\ rows' = <<>> /\ loading' = FALSE /\ listener' = "off" /\ card' = None /\ patch' = None
    /\ UNCHANGED <<serverVars, sessionCache, told, tainted>>

-----------------------------------------------------------------------------
(* WorkOrderComment, WorkOrderClosedWithoutPayment: one save at a time.    *)
Save ==
    /\ view = "card" /\ patch = None
    /\ patch' = [order |-> card, applied |-> FALSE]
    /\ UNCHANGED <<pageVars, serverVars, cacheVars, fetchVars, told, tainted>>

SaveApplied ==
    /\ patch # None /\ ~patch.applied /\ notes[patch.order] < MaxNote
    /\ notes' = [notes EXCEPT ![patch.order] = @ + 1]
    /\ patch' = [patch EXCEPT !.applied = TRUE]
    /\ UNCHANGED <<pageVars, orders, cacheVars, fetchVars, told, tainted>>

(* Mutant of Invalidate: the copy in sessionStorage is forgotten about.    *)
InvalidateMemory == memoryCache' = None /\ UNCHANGED sessionCache

(* invalidateWorkOrdersCache: a fetch under way is left alone.             *)
Invalidate == memoryCache' = None /\ sessionCache' = None

(* The answer invalidates the cache wherever the user is by now; only a    *)
(* card that is still there says it is saved.                              *)
SaveAnswered ==
    /\ patch # None /\ patch.applied
    /\ Invalidate
    /\ told' = IF view = "card" /\ card = patch.order
               THEN [told EXCEPT ![patch.order] = notes[patch.order]] ELSE told
    /\ late' = IF inFlight # None THEN late \union {patch.order} ELSE late
    /\ patch' = None
    /\ UNCHANGED <<pageVars, serverVars, inFlight, fetchBegan, tainted>>

SaveFails ==
    /\ patch # None /\ patch' = None
    /\ UNCHANGED <<pageVars, serverVars, cacheVars, fetchVars, told, tainted>>

(* Meanwhile an import puts a new order anywhere in the list.              *)
Imported(o) ==
    /\ view # "closed" /\ o \notin ToSet(orders)
    /\ \E i \in 1..Len(orders) + 1 : orders' = InsertAt(orders, i, o)
    /\ UNCHANGED <<pageVars, notes, cacheVars, fetchVars, saveVars, tainted>>

Answer == FetchPage \/ FetchEnds \/ FetchFails

Work ==
    \/ VisitDashboard \/ VisitList \/ \E o \in Edited : VisitCard(o)
    \/ Answer \/ Expire \/ Reload
    \/ Save \/ SaveApplied \/ SaveAnswered \/ SaveFails
    \/ \E o \in Orders : Imported(o)

Next == Open \/ Close \/ Work

Fairness == WF_vars(Answer)
Spec == Init /\ [][Next]_vars /\ Fairness

-----------------------------------------------------------------------------
(* A save the user was told of is on every list shown afterwards, except   *)
(* when it was made while the list was being fetched: that fetch then      *)
(* fills the cache behind the invalidation with what it read before        *)
(* (invalidateWorkOrdersCache says "so the next visit refetches").         *)
OwnEditSeen ==
    view = "list" =>
        \A r \in ToSet(rows) : r[2] >= told[r[1]] \/ r[1] \in tainted \union late

(* The paged fetch truncates nothing: whatever arrives meanwhile, an order *)
(* of the list as it was when the fetch began is in the list it caches     *)
(* (fetchAllWorkOrders: "this can never silently truncate the list").      *)
NothingMissed ==
    [][ (inFlight # None /\ inFlight' = None /\ memoryCache' # None) =>
            \A o \in DOMAIN fetchBegan : \E r \in ToSet(memoryCache') : r[1] = o ]_vars

(* The list page stops loading: with rows or with an error, whether it     *)
(* started the fetch or joined one.                                        *)
ListSettles == (view = "list" /\ loading) ~> (view # "list" \/ ~loading)

(* The cache implements its abstract promise.                              *)
Promise == INSTANCE SnapshotWindow WITH
    NoFetch <- None,
    truth <- Listed,
    since <- fetchBegan,
    held <- IF Cached = None THEN {} ELSE ToSet(Cached)
CacheKeepsPromise == Promise!WSpec
=============================================================================
