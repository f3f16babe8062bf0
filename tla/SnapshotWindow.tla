---------------------------- MODULE SnapshotWindow ----------------------------
(***************************************************************************)
(* What a list cache promises, whatever it does inside.  It serves nothing *)
(* or a copy; every entry of the copy was true at some moment between the  *)
(* start of the fetch that read it and the end of that fetch, and a copy   *)
(* is only ever dropped or replaced by a newer one.  WorkOrdersCache       *)
(* implements this.                                                        *)
(***************************************************************************)
EXTENDS Naturals

CONSTANTS
    NoFetch  \* since, when no fetch runs

VARIABLES
    truth,   \* [order -> version of its note]: the rows the server holds
    since,   \* the truth at the start of the running fetch, NoFetch when none runs
    held     \* set of <<order, version>> pairs the cache would serve

wvars == <<truth, since, held>>

(* An order the server did not hold when the fetch started counts from 0.  *)
Floor(o) == IF o \in DOMAIN since THEN since[o] ELSE 0
Window == UNION {{o} \X (Floor(o)..truth[o]) : o \in DOMAIN truth}

WInit == held = {} /\ since = NoFetch

Change == /\ \A o \in DOMAIN truth : o \in DOMAIN truth' /\ truth[o] <= truth'[o]
          /\ UNCHANGED <<since, held>>
Start == since = NoFetch /\ since' = truth /\ held = {} /\ UNCHANGED <<truth, held>>
Fill == since # NoFetch /\ held' \subseteq Window /\ since' = NoFetch /\ UNCHANGED truth
Abort == since # NoFetch /\ since' = NoFetch /\ UNCHANGED <<truth, held>>
Drop == held' = {} /\ UNCHANGED <<truth, since>>

(* The tab is closed, or opened again on whatever the server holds by then. *)
NewTab == held' = {} /\ since' = NoFetch

WNext == Change \/ Start \/ Fill \/ Abort \/ Drop \/ NewTab

WSpec == WInit /\ [][WNext]_wvars
=============================================================================
