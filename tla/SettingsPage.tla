---------------------------- MODULE SettingsPage ----------------------------
(***************************************************************************)
(* The settings page (src/frontend/components/settings, SettingsForm.tsx): *)
(* ten tables edited through a dialog and three forms saved by a button.   *)
(* One of them is followed, with the user leaving its tab and coming back. *)
(* A row is the set of its filled fields; changed stands for any other     *)
(* difference of its values.                                               *)
(***************************************************************************)
EXTENDS Naturals, Sequences

CONSTANTS
    Ids,          \* the rows there can be
    MaxSent,      \* requests under way at once (a bound)
    None

VARIABLES
    ui,           \* the tab: its rows, dialog, form, pending delete, button, timers
    world         \* the server's rows, those loaded with the page, requests, history

vars == <<ui, world>>

New == 0

(* The fields of each form, and what save demands of them before it sends  *)
(* the row; changed stands for the fields nothing is demanded of.          *)
UserFields == {"name", "login", "password", "changed"}
UserComplete(form, id) ==
    {"name", "login"} \subseteq form /\ (id = New => "password" \in form)
RoleFields == {"tabs", "changed"}
RoleComplete(form) == "tabs" \in form
DepartmentFields == {"name", "changed"}
DepartmentComplete(form) == "name" \in form
WorkshopFields == {"department", "days", "body", "posts"}
WorkshopComplete(form) ==
    /\ {"department", "days"} \subseteq form
    /\ form \intersect {"body", "posts"} # {}
StatusFields == {"name", "changed"}
StatusComplete(form) == "name" \in form
SourceDepartmentFields == {"workshop", "text", "changed"}
SourceDepartmentComplete(form) == {"workshop", "text"} \subseteq form
EmployeeFields == {"name", "changed"}
EmployeeComplete(form) == "name" \in form
CostItemFields == {"name", "changed"}
CostItemComplete(form) == "name" \in form
LineFields == {"code", "name", "changed"}
LineComplete(form) == {"code", "name"} \subseteq form
PhoneFields == {"workshop", "phone", "extension"}
PhoneComplete(form) == "workshop" \in form /\ form \intersect {"phone", "extension"} # {}
LeadsFields == {"days", "changed"}
LeadsComplete(form) == "days" \in form
GeneralFields == {"changed"}
ConnectionFields == {"changed"}

Forms == {"general", "connection", "leads"}
Tables == {"users", "roles", "departments", "workshops", "statuses", "sourceDepartments",
           "employees", "costItems", "lines", "phones"}

FieldsOf(tab) ==
    CASE tab = "users" -> UserFields
      [] tab = "roles" -> RoleFields
      [] tab = "departments" -> DepartmentFields
      [] tab = "workshops" -> WorkshopFields
      [] tab = "statuses" -> StatusFields
      [] tab = "sourceDepartments" -> SourceDepartmentFields
      [] tab = "employees" -> EmployeeFields
      [] tab = "costItems" -> CostItemFields
      [] tab = "lines" -> LineFields
      [] tab = "phones" -> PhoneFields
      [] tab = "leads" -> LeadsFields
      [] tab = "general" -> GeneralFields
      [] OTHER -> ConnectionFields

Complete(tab, form, id) ==
    CASE tab = "users" -> UserComplete(form, id)
      [] tab = "roles" -> RoleComplete(form)
      [] tab = "departments" -> DepartmentComplete(form)
      [] tab = "workshops" -> WorkshopComplete(form)
      [] tab = "statuses" -> StatusComplete(form)
      [] tab = "sourceDepartments" -> SourceDepartmentComplete(form)
      [] tab = "employees" -> EmployeeComplete(form)
      [] tab = "costItems" -> CostItemComplete(form)
      [] tab = "lines" -> LineComplete(form)
      [] tab = "phones" -> PhoneComplete(form)
      [] tab = "leads" -> LeadsComplete(form)
      [] OTHER -> TRUE

(* A row as the server gives it back: never with a password.               *)
Stored(form) == form \ {"password"}

-----------------------------------------------------------------------------
Empty == [id \in Ids |-> None]

(* A form always edits its one row; a table's dialog is closed at first.   *)
Mounted(tab, rows) ==
    [tab |-> tab, away |-> FALSE, rows |-> rows,
     editing |-> IF tab \in Forms THEN 1 ELSE None,
     deleting |-> None, saving |-> FALSE, timers |-> 0]

Request(kind, id, row) == [kind |-> kind, id |-> id, row |-> row, live |-> TRUE]

UnderWay == Len(world.sent) + Len(world.done)
Send(request) == /\ UnderWay < MaxSent
                 /\ world' = [world EXCEPT !.sent = Append(@, request)]

Closed == ui = None /\ world = None
Init == Closed

(* The page comes with everything but the cost items, which their tab      *)
(* loads when it is mounted.                                               *)
Open == /\ Closed
        /\ \E tab \in Forms \union Tables :
             LET row == Stored(CHOOSE f \in SUBSET FieldsOf(tab) : Complete(tab, f, New))
                 rows == [Empty EXCEPT ![1] = row]
                 asks == IF tab = "costItems" THEN <<Request("list", New, {})>> ELSE <<>>
             IN  /\ ui' = Mounted(tab, IF tab = "costItems" THEN Empty ELSE rows)
                 /\ world' = [server |-> rows, loaded |-> rows, sent |-> asks, done |-> <<>>,
                              stale |-> FALSE, crossed |-> FALSE]
Close == ui # None /\ ui' = None /\ world' = None

Shown == ui # None /\ ~ui.away

(* Another tab: this one is unmounted, its requests go on unheard.         *)
Orphans(requests) == [i \in DOMAIN requests |-> [requests[i] EXCEPT !.live = FALSE]]
LeaveTab ==
    /\ Shown
    /\ ui' = [Mounted(ui.tab, Empty) EXCEPT !.away = TRUE]
    /\ world' = [world EXCEPT !.sent = Orphans(@), !.done = <<>>, !.stale = FALSE,
                              !.crossed = FALSE]

(* SettingsTabs mounts it again with the rows the page was loaded with.    *)
ReturnToTab ==
    /\ ui # None /\ ui.away
    /\ IF ui.tab = "costItems"
       THEN /\ UnderWay < MaxSent /\ ui' = Mounted(ui.tab, Empty)
            /\ world' = [world EXCEPT !.stale = world.sent # <<>>,
                                      !.sent = Append(@, Request("list", New, {}))]
       ELSE /\ ui' = Mounted(ui.tab, world.loaded)
            /\ world' = [world EXCEPT !.stale = world.server # world.loaded \/ world.sent # <<>>]

-----------------------------------------------------------------------------
IsTable == Shown /\ ui.tab \in Tables
NoDialog == ui.editing = None /\ ui.deleting = None

OpenNew == /\ IsTable /\ NoDialog
           /\ ui' = [ui EXCEPT !.editing = New] /\ UNCHANGED world
OpenEdit(id) == /\ IsTable /\ NoDialog /\ ui.rows[id] # None
                /\ ui' = [ui EXCEPT !.editing = id] /\ UNCHANGED world
CloseDialog == /\ IsTable /\ ~NoDialog
               /\ ui' = [ui EXCEPT !.editing = None, !.deleting = None]
               /\ UNCHANGED world

(* save: nothing keeps it from being pressed again while it is under way.  *)
Save(form) ==
    /\ IsTable /\ ui.editing # None /\ Complete(ui.tab, form, ui.editing)
    /\ Send(IF ui.editing = New THEN Request("create", New, Stored(form))
            ELSE Request("update", ui.editing, Stored(form)))
    /\ UNCHANGED ui

AskDelete(id) == /\ IsTable /\ NoDialog /\ ui.rows[id] # None
                 /\ ui' = [ui EXCEPT !.deleting = id] /\ UNCHANGED world
ConfirmDelete == /\ IsTable /\ ui.deleting # None
                 /\ Send(Request("delete", ui.deleting, {})) /\ UNCHANGED ui

(* dropOn: the rows as they were are kept to be put back.                  *)
DropOn == /\ IsTable /\ NoDialog /\ ui.tab = "costItems" /\ ui.rows # Empty
          /\ Send(Request("order", New, ui.rows)) /\ UNCHANGED ui

(* handleSave of the forms: the button is off until the answer, or until   *)
(* the timer of an earlier save puts the label back.                       *)
SaveForm(form) ==
    /\ Shown /\ ui.tab \in Forms /\ ~ui.saving /\ Complete(ui.tab, form, 1)
    /\ Send(Request("update", 1, form)) /\ ui' = [ui EXCEPT !.saving = TRUE]

(* The leads form finds its days wanting: an error, put back by the timer. *)
RefuseForm(form) ==
    /\ Shown /\ ui.tab = "leads" /\ ~ui.saving /\ ~Complete(ui.tab, form, 1)
    /\ ui' = [ui EXCEPT !.timers = 1] /\ UNCHANGED world

TimerFires == /\ Shown /\ ui.timers > 0
              /\ ui' = [ui EXCEPT !.timers = @ - 1, !.saving = FALSE] /\ UNCHANGED world

-----------------------------------------------------------------------------
Without(requests, i) ==
    [k \in 1..Len(requests) - 1 |-> requests[IF k < i THEN k ELSE k + 1]]

(* What became of request i, for the page that sent it if it is there.     *)
Result(i, answer, server) ==
    world' = [world EXCEPT !.server = server, !.sent = Without(@, i),
                           !.done = IF answer.live THEN Append(@, answer) ELSE @]

(* Refused, or lost on the way: nothing changes on the server.             *)
Refusal(request) ==
    [request EXCEPT !.kind = IF @ = "order" THEN "undo" ELSE IF @ = "list" THEN "unlisted"
                             ELSE "refused",
                    !.id = New, !.row = IF request.kind = "order" THEN @ ELSE {}]

Applied(i) ==
    /\ ui # None /\ i \in DOMAIN world.sent /\ UNCHANGED ui
    /\ LET r == world.sent[i] IN
       \/ Result(i, Refusal(r), world.server)
       \/ /\ r.kind = "create"
          /\ \E id \in Ids : /\ world.server[id] = None
                             /\ Result(i, [r EXCEPT !.id = id], [world.server EXCEPT ![id] = r.row])
       \/ /\ r.kind = "update" /\ world.server[r.id] # None
          /\ Result(i, r, [world.server EXCEPT ![r.id] = r.row])
       \/ /\ r.kind = "delete" /\ world.server[r.id] # None
          /\ Result(i, r, [world.server EXCEPT ![r.id] = None])
       \/ r.kind = "order" /\ Result(i, r, world.server)
       \/ r.kind = "list" /\ Result(i, [r EXCEPT !.row = world.server], world.server)

(* Mutant of Heard: an edited row is not put into the list.                *)
HeardUnlisted(r, page) ==
    CASE r.kind = "create" -> [page EXCEPT !.rows[r.id] = r.row, !.editing = None]
      [] r.kind = "update" -> [page EXCEPT !.editing = None]
      [] r.kind = "delete" -> [page EXCEPT !.rows[r.id] = None, !.deleting = None]
      [] r.kind \in {"list", "undo"} -> [page EXCEPT !.rows = r.row]
      [] OTHER -> page

(* A good answer changes that row only, and closes whatever dialog is open *)
(* by then.  An order that was refused is undone by putting all rows back  *)
(* as they were, those that changed since included.                        *)
Heard(r, page) ==
    CASE r.kind = "create" -> [page EXCEPT !.rows[r.id] = r.row, !.editing = None]
      [] r.kind = "update" ->
           [page EXCEPT !.rows[r.id] = IF @ = None THEN None ELSE r.row, !.editing = None]
      [] r.kind = "delete" -> [page EXCEPT !.rows[r.id] = None, !.deleting = None]
      [] r.kind \in {"list", "undo"} -> [page EXCEPT !.rows = r.row]
      [] OTHER -> page

(* A form keeps what it shows; its label goes back by a timer.             *)
HeardByForm(r, page) ==
    [page EXCEPT !.rows[1] = IF r.kind = "update" THEN r.row ELSE @,
                 !.saving = FALSE, !.timers = 1]

Misled(i, r) == \/ i > 1 \/ r.kind = "unlisted"
                \/ r.kind = "undo" /\ r.row # ui.rows

Answered(i) ==
    /\ Shown /\ i \in DOMAIN world.done
    /\ LET r == world.done[i] IN
       /\ ui' = IF ui.tab \in Forms THEN HeardByForm(r, ui) ELSE Heard(r, ui)
       /\ world' = [world EXCEPT !.done = Without(@, i), !.crossed = @ \/ Misled(i, r)]

Answer == \E i \in 1..MaxSent : Applied(i) \/ Answered(i)
Work == \/ LeaveTab \/ ReturnToTab \/ OpenNew \/ \E id \in Ids : OpenEdit(id) \/ AskDelete(id)
        \/ CloseDialog \/ ConfirmDelete \/ DropOn \/ TimerFires
        \/ /\ ui # None
           /\ \E form \in SUBSET FieldsOf(ui.tab) : Save(form) \/ SaveForm(form) \/ RefuseForm(form)
        \/ Answer
Next == Open \/ Close \/ Work
Spec == Init /\ [][Next]_vars /\ WF_vars(Answer)

-----------------------------------------------------------------------------
(* Once nothing is under way the tab shows what the server has, whatever   *)
(* was saved twice, refused or deleted meanwhile, except: the tab was left *)
(* and mounted again with rows loaded before a save (stale); answers came  *)
(* in another order than the saves were done, or an order that was refused *)
(* put back rows changed since (crossed).                                  *)
RowsAreStored ==
    (Shown /\ world.sent = <<>> /\ world.done = <<>> /\ ~world.stale /\ ~world.crossed)
        => ui.rows = world.server
=============================================================================
