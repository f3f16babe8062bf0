------------------------------ MODULE Frontend ------------------------------
(***************************************************************************)
(* The web application in one browser tab: one page at a time, each a      *)
(* module of its own, chosen from the menu and left again at any moment.   *)
(* Pages share nothing but the server, so a page that is not open is       *)
(* closed in its module's sense; what a page keeps across its own visits   *)
(* (sessionStorage, localStorage, the list cache) is part of its module,   *)
(* which follows the user's comings and goings there.  The car's stages    *)
(* are extended, for their assumptions; the others are instances.          *)
(***************************************************************************)
EXTENDS BodyStages, FiniteSets

CONSTANTS
    None, MaxAsks,                                       \* shared by the pages
    Orders, Edited, FirstOrders, PageSize, MaxNote,      \* WorkOrdersCache
    Traits,                                              \* OrdersTable
    Days, Hours, FirstJob, MaxEdits,                     \* PlannerBoard
    Fields, Records,                                     \* JobDialog
    Desks, Today, Locked, CanCorrect,                    \* CashDesk
    Day, Lifetime, DefaultHour, TabLists, MaxTime,       \* WebSession
    Ids,                                                 \* SettingsPage
    Years, Current, Files,                               \* FinancePages
    Debts,                                               \* Receivables
    Shops, Whole, Months, MaxOlder,                      \* Cockpit
    Periods, FirstOne, LinesOf, Leads                    \* CallsPage

VARIABLES
    page,         \* the page that is open, "none" between two
    ui, world,    \* of every page but the two below
    view, orders, notes, memoryCache, sessionCache, inFlight, rows, loading,
    listener, card, patch, told, fetchBegan, late, tainted

List == INSTANCE WorkOrdersCache
Table == INSTANCE OrdersTable WITH Orders <- Traits
Board == INSTANCE PlannerBoard
Dialog == INSTANCE JobDialog WITH MaxSaves <- MaxAsks
Desk == INSTANCE CashDesk
Session == INSTANCE WebSession WITH Default <- DefaultHour
Settings == INSTANCE SettingsPage WITH MaxSent <- MaxAsks
Finance == INSTANCE FinancePages WITH MaxWrites <- MaxAsks
Aging == INSTANCE Receivables
Dials == INSTANCE Cockpit
Calls == INSTANCE CallsPage

(* None is no value of the program.                                        *)
ASSUME NoneAssumption ==
    /\ None \notin Aging!Filters \cup Dials!Controls \cup Years \cup {Current} \cup Board!Writes
    /\ None \notin [items: Seq(Orders \X Nat)]
    /\ \A listed \in SUBSET Orders : None \notin [listed -> Nat]

(* A request for a page of the list asks for a row at least.               *)
ASSUME ListAssumption == PageSize \in Nat \ {0} /\ FirstOrders \in Seq(Orders)

(* The job the board finds on the server lies within the hours of the day, *)
(* which the server demands of every job.                                  *)
ASSUME FirstJobAssumption ==
    /\ Hours[1] \in Nat /\ Hours[2] \in Nat
    /\ FirstJob \in Board!Jobs
    /\ Hours[1] <= FirstJob.start /\ FirstJob.start < FirstJob.end /\ FirstJob.end <= Hours[2]

(* A day has an hour, and the settings' default is one.                    *)
ASSUME DayAssumption == Day \in Nat \ {0} /\ DefaultHour \in Session!HoursOfDay /\ Lifetime \in Nat

(* A row that is there when the settings are opened, and the form's row,   *)
(* is row 1; a row that has no number yet has none.                        *)
ASSUME IdsAssumption == 1 \in Ids /\ Settings!New \notin Ids

listVars == <<view, orders, notes, memoryCache, sessionCache, inFlight, rows, loading,
              listener, card, patch, told, fetchBegan, late, tainted>>
all == <<page, ui, world, vars, listVars>>

StartPage == /\ page = "none" /\ ui = None /\ world = None
             /\ Init /\ List!Init

-----------------------------------------------------------------------------
(* A step of a page that keeps its state in ui and world, of the list, and *)
(* of the car's stages.                                                    *)
PageStep == UNCHANGED <<vars, listVars>>
ListStep == UNCHANGED <<ui, world, vars>>
BodyStep == UNCHANGED <<ui, world, listVars>>

OpenPage ==
    /\ page = "none"
    /\ \/ page' = "list" /\ List!Open /\ ListStep
       \/ page' = "body" /\ Open /\ BodyStep
       \/ page' = "orders" /\ Table!Open /\ PageStep
       \/ page' = "board" /\ Board!Open /\ PageStep
       \/ page' = "dialog" /\ Dialog!Open /\ PageStep
       \/ page' = "cash" /\ Desk!Open /\ PageStep
       \/ page' = "session" /\ Session!Open /\ PageStep
       \/ page' = "settings" /\ Settings!Open /\ PageStep
       \/ page' = "finance" /\ Finance!Open /\ PageStep
       \/ page' = "aging" /\ Aging!Open /\ PageStep
       \/ page' = "cockpit" /\ Dials!Open /\ PageStep
       \/ page' = "calls" /\ Calls!Open /\ PageStep

ClosePage ==
    /\ page' = "none"
    /\ \/ page = "list" /\ List!Close /\ ListStep
       \/ page = "body" /\ Close /\ BodyStep
       \/ page = "orders" /\ Table!Close /\ PageStep
       \/ page = "board" /\ Board!Close /\ PageStep
       \/ page = "dialog" /\ Dialog!Close /\ PageStep
       \/ page = "cash" /\ Desk!Close /\ PageStep
       \/ page = "session" /\ Session!Close /\ PageStep
       \/ page = "settings" /\ Settings!Close /\ PageStep
       \/ page = "finance" /\ Finance!Close /\ PageStep
       \/ page = "aging" /\ Aging!Close /\ PageStep
       \/ page = "cockpit" /\ Dials!Close /\ PageStep
       \/ page = "calls" /\ Calls!Close /\ PageStep

OnPage ==
    /\ page' = page
    /\ \/ page = "list" /\ List!Work /\ ListStep
       \/ page = "body" /\ Work /\ BodyStep
       \/ page = "orders" /\ Table!Work /\ PageStep
       \/ page = "board" /\ Board!Work /\ PageStep
       \/ page = "dialog" /\ Dialog!Work /\ PageStep
       \/ page = "cash" /\ Desk!Work /\ PageStep
       \/ page = "session" /\ Session!Work /\ PageStep
       \/ page = "settings" /\ Settings!Work /\ PageStep
       \/ page = "finance" /\ Finance!Work /\ PageStep
       \/ page = "aging" /\ Aging!Work /\ PageStep
       \/ page = "cockpit" /\ Dials!Work /\ PageStep
       \/ page = "calls" /\ Calls!Work /\ PageStep

(* Requests are answered or fail at last, and timers fire; the user owes   *)
(* nothing.                                                                *)
Answered ==
    /\ page' = page
    /\ \/ page = "list" /\ List!Answer /\ ListStep
       \/ page = "session" /\ Session!Answer /\ PageStep

UsePage == OpenPage \/ ClosePage \/ OnPage
FrontendSpec == StartPage /\ [][UsePage]_all /\ WF_all(Answered)

-----------------------------------------------------------------------------
(* WorkOrdersCache: a save the user was told of is on every list shown     *)
(* afterwards, except when it was made while the list was being fetched    *)
(* (invalidateWorkOrdersCache: "so the next visit refetches").             *)
OwnEditSeen == List!OwnEditSeen

(* WorkOrdersCache: the paged fetch misses no order of the list as it was  *)
(* when it began (fetchAllWorkOrders: "can never silently truncate").      *)
NothingMissed == List!NothingMissed

(* WorkOrdersCache: the list page stops loading, with rows or an error.    *)
ListSettles == List!ListSettles

(* WorkOrdersCache implements the promise of a list cache, SnapshotWindow. *)
CacheKeepsPromise == List!CacheKeepsPromise

(* OrdersTable: coming back from a card shows the row one left from.       *)
BackOnRow == page = "orders" => Table!BackOnRow

(* PlannerBoard: once nothing is under way the board shows the day it says *)
(* it shows, as the server has it.                                         *)
BoardSettled == page = "board" => Board!BoardSettled

(* PlannerBoard: a job the server gets lies within the hours of the day.   *)
WithinHours == page = "board" => Board!WithinHours

(* JobDialog: what was typed is in the form, whatever a lookup fills in.   *)
TypingKept == page = "dialog" => Dialog!TypingKept

(* CashDesk: once nothing is under way the book is that of the desk and    *)
(* the day on show.                                                        *)
BookSettled == page = "cash" => Desk!BookSettled

(* CashDesk: an entry is written where its dialog was opened.              *)
WrittenWhereOpened == page = "cash" => Desk!WrittenWhereOpened

(* WebSession: no page is served past the logout hour.                     *)
NothingPastLogout == [][(page = "session" /\ page' = "session") => Session!ServedInTime]_all

(* WebSession: a request is not redirected in circles.                     *)
RedirectsSettle ==
    (page = "session" /\ Session!OnItsWay /\ Session!Routable)
        ~> (page # "session" \/ ~Session!OnItsWay)

(* SettingsPage: once nothing is under way the tab shows what is stored.   *)
RowsAreStored == page = "settings" => Settings!RowsAreStored

(* FinancePages: cells are saved under the year whose figures are shown.   *)
EditsGoWhereShown == page = "finance" => Finance!EditsGoWhereShown

(* Receivables: the filters last chosen are there on every return.         *)
FiltersRemembered == page = "aging" => Aging!FiltersRemembered

(* Cockpit: the snapshot on the dials is that of the controls.             *)
DialsMatchControls == page = "cockpit" => Dials!DialsMatchControls

(* Cockpit: cockpit and dashboard agree on the month.                      *)
OneMonth == page = "cockpit" => Dials!OneMonth

(* CallsPage: what is shown is what was asked for last.                    *)
ShownAsAsked == page = "calls" => Calls!ShownAsAsked
=============================================================================
