----------------------------- MODULE WebSession -----------------------------
(***************************************************************************)
(* The login session of one browser (src/frontend/lib/auth.ts,             *)
(* middleware.ts, app/api/auth): what the cookie carries from login on,    *)
(* and where the middleware sends a page request or an API call.           *)
(***************************************************************************)
EXTENDS Naturals, Sequences

CONSTANTS
    Day,          \* ticks of a day
    Lifetime,     \* ticks a cookie is valid (30 days)
    Default,      \* the logout hour when the settings cannot be read
    TabLists,     \* the lists of tabs a role may be given, in stored order
    MaxTime,      \* a bound on the clock
    None

VARIABLES
    ui,           \* at: what the browser shows; request: the page it fetches; next
    world         \* clock, cookie, settings, and history of the login

vars == <<ui, world>>

(* NAV_TAB_KEYS as far as they differ; "leads" left the list, old rows     *)
(* still name it; every page but settings belongs to the tab of its name.  *)
Tabs == {"cockpit", "planner", "telephony"}
Pages == Tabs \union {"leads", "settings"}
HoursOfDay == 0..(Day - 1)

(* Mutant of NextDailyBoundary: always tomorrow's.                         *)
NextDailyBoundaryTomorrow(hour, now) == (now \div Day) * Day + hour + Day

(* The next time the clock is at hour, strictly after now.                 *)
NextDailyBoundary(hour, now) ==
    LET today == (now \div Day) * Day + hour
    IN  IF today <= now THEN today + Day ELSE today

-----------------------------------------------------------------------------
Closed == ui = None /\ world = None
Init == Closed
Open == /\ Closed
        /\ ui' = [at |-> "login", request |-> None, next |-> "cockpit"]
        /\ \E hour \in HoursOfDay, tabs \in TabLists :
             world' = [now |-> 0, cookie |-> None, hour |-> hour, tabs |-> tabs,
                       since |-> 0, until |-> hour]
Close == ui # None /\ ui' = None /\ world' = None

Tick == /\ world # None /\ world.now < MaxTime
        /\ world' = [world EXCEPT !.now = @ + 1] /\ UNCHANGED ui

(* Settings of other sessions: a session already open keeps what it has.   *)
ChangeHour(hour) == world # None /\ world' = [world EXCEPT !.hour = hour] /\ UNCHANGED ui
ChangeTabs(tabs) == world # None /\ world' = [world EXCEPT !.tabs = tabs] /\ UNCHANGED ui

(* createSessionToken: role, tabs and logout time as of this moment.       *)
Cookie(admin, hour) ==
    [admin |-> admin, tabs |-> world.tabs,
     logoutAt |-> NextDailyBoundary(hour, world.now), exp |-> world.now + Lifetime]

(* The settings may be out of reach: login goes on with the default hour.  *)
Login(admin) ==
    /\ ui # None /\ ui.at = "login" /\ ui.request = None
    /\ \E hour \in {world.hour, Default} :
         world' = [world EXCEPT !.cookie = Cookie(admin, hour), !.since = world.now,
                                !.until = hour]
    /\ ui' = [ui EXCEPT !.request = ui.next]

Logout == /\ ui # None /\ ui.at # "login" /\ ui.request = None
          /\ ui' = [at |-> "login", request |-> None, next |-> "cockpit"]
          /\ world' = [world EXCEPT !.cookie = None]

(* A link, a bookmark or a typed address.                                  *)
Go(path) == /\ ui # None /\ ui.at # "login" /\ ui.request = None
            /\ ui' = [ui EXCEPT !.request = path] /\ UNCHANGED world

-----------------------------------------------------------------------------
Known == world.cookie # None /\ world.now <= world.cookie.exp

TimeUp == ~world.cookie.admin /\ world.now >= world.cookie.logoutAt

(* tabForPath, and the administrator's areas.                              *)
Granted == {world.cookie.tabs[i] : i \in DOMAIN world.cookie.tabs}
TabHidden(path) == path \in Tabs \ Granted
AdminOnly(path) == path = "settings" /\ ~world.cookie.admin

(* Mutant of Landing: everybody lands on the cockpit.                      *)
LandingCockpit == "cockpit"

Landing == IF world.cookie.tabs = <<>> THEN "cockpit" ELSE world.cookie.tabs[1]

ToLogin == ui' = [at |-> "login", request |-> None, next |-> ui.request]
Redirect(path) == ui' = [ui EXCEPT !.request = path] /\ UNCHANGED world

(* One request through the middleware, then the page; the pages of leads   *)
(* is a redirect to telephony.                                             *)
Serve ==
    /\ ui # None /\ ui.request # None
    /\ IF ~Known THEN ToLogin /\ UNCHANGED world
       ELSE IF TimeUp THEN ToLogin /\ world' = [world EXCEPT !.cookie = None]
       ELSE IF TabHidden(ui.request) THEN Redirect(Landing)
       ELSE IF AdminOnly(ui.request) THEN Redirect("cockpit")
       ELSE IF ui.request = "leads" THEN Redirect("telephony")
       ELSE ui' = [ui EXCEPT !.at = ui.request, !.request = None] /\ UNCHANGED world

(* A background call of the page on show: 401 when time is up, and the     *)
(* cookie goes; refused or sent on without changing anything otherwise.    *)
Call ==
    /\ ui # None /\ ui.at # "login" /\ Known /\ TimeUp
    /\ world' = [world EXCEPT !.cookie = None] /\ UNCHANGED ui

Answer == Serve
Work == \/ Tick \/ \E hour \in HoursOfDay : ChangeHour(hour)
        \/ \E tabs \in TabLists : ChangeTabs(tabs)
        \/ \E admin \in BOOLEAN : Login(admin)
        \/ Logout \/ \E path \in Pages : Go(path)
        \/ Call \/ Answer
Next == Open \/ Close \/ Work
Spec == Init /\ [][Next]_vars /\ WF_vars(Answer)

-----------------------------------------------------------------------------
(* The daily logout: no page is served to anyone but an administrator once *)
(* the clock has been at the logout hour since the login, whatever the     *)
(* time of the login and however the setting has changed meanwhile.        *)
ServedInTime ==
    (/\ ui # None /\ ui' # None /\ ui.request # None /\ ui'.request = None
     /\ ui'.at # "login" /\ ~world.cookie.admin)
      => \A t \in (world.since + 1)..world.now : t % Day # world.until
NothingPastLogout == [][ServedInTime]_vars

(* A request ends on a page or on the login form, it is not sent round in  *)
(* circles, except for a role whose first stored tab is the old "leads".   *)
OnItsWay == ui # None /\ ui.request # None
Routable == world.cookie # None /\ world.cookie.tabs[1] # "leads"
RedirectsSettle == (OnItsWay /\ Routable) ~> ~OnItsWay
=============================================================================
