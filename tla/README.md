# Formal model of AutoService

The repository is a workshop-management system: a FastAPI backend over PostgreSQL
(`src/backend/app`), a Next.js frontend (`src/frontend`), and an export script that runs
inside 1C (`src/1c`). This directory holds TLA+ modules for the parts whose correctness
depends on order. In the backend these are requests that overlap, background loops, and
commits that fail half-way; in the pages, answers that overtake each other, timers, and
what outlives a page. It holds the TLC configurations that check them on small instances, and
TLAPS proofs of their safety properties for every value of the constants.

## 1. Inventory

### The backend

How the backend runs shapes every module. Endpoints are synchronous functions in a
thread pool; each request has its own session (`db/session.py`: `autoflush=False`,
PostgreSQL's default READ COMMITTED). So every query of a request may see other commits,
nothing it added is visible to its own queries before a flush, and an ORM UPDATE writes
only the columns whose value differs from the loaded one. An UPDATE of a row that is
gone raises; a DELETE of one only warns. Background loops (`*_relay.py`) run one cycle
at a time, catch every exception, and sleep a finite time.

| Component | State | Operations | Hard behaviour | What makes it correct |
|---|---|---|---|---|
| Cash book (`cash_service.py`) | `cash_entries`, the lock in `app_settings`, journal rows | create, update, delete, update to zero | check-then-commit against lock, day and rights; column-wise merges; an employee deleted meanwhile | locked days frozen, rights at the commit, journal replays, card fields agree |
| Cash pages and export (`get_book`, `card_balance_today`, `export_rows`) | none: recomputed | read | old corrections re-flow; separate SELECTs | balances continue, page and export agree, parts add up |
| Call transcription (`call_transcription_service.py`, its relay) | `transcript_status`, topic, score of `telephony_calls` | a cycle: pick, transcribe, topic, quality | external failures, deadline, kills between commits, imports of the same rows | finished work is kept, marks consistent, backlog clears |
| Telephony import (`telephony_import_service.py`, relay) | `telephony_calls` | upsert of a window | repeated windows | imports leave the pipeline's columns alone |
| Work order import (`import_service.py`) | `work_orders`, lines, payment snapshots, status history, invoices, `import_batches` | an import in chunks | failing chunks, kills, repeated and overlapping deliveries | lines, snapshots, flags, counts agree with the rows |
| Internal order rules (`internal_order_rules.py`) | `is_internal` | regroup a car's orders | depends on the whole group of a car | every flag is what the group calls for |
| Planner jobs (`planner_service.py`) | `workshop_jobs`, audit log | create, update, delete | slot validated before the commit | no overlap, log replays |
| Automatic matching (`planner_service.py`, relay) | `work_order_id` of jobs and cars | a pass, by relay or button | stale reads, one commit for all | links in the window, every match made |
| Body cars (`planner_service.py`) | `body_cars`, stages | create, update, delete | stages replaced wholesale | stages are one submitted list |
| Yandex.Disk relay (`yandex_relay.py`) | files of a folder | list, import, move | unreadable files, failed moves, a listing of 200 | every readable file is imported at last, in order |
| Leads and photos (`leads_service.py`, `lead_photos_service.py`) | `website_leads` | intake, resolve, archive photos | background task, lost on restart | a lead is never lost over a photo |
| Recordings (`call_recording_service.py`) | files on Yandex.Disk | export, transcribe | in-flight bound, deadline, re-runs | nothing done twice, nothing stuck |
| Call to workshop (`call_workshop_service.py`) | `workshop_id` of calls | determine, recompute all | paging under inserts | a call has the workshop its mapping says |
| Settings, administration, audit log | `app_settings`, `telephony_settings`, directories | CRUD | whole-row saves | |
| Statistics, conversion, cockpit, receivables, finance, budget | none, or monthly figures | reports, an Excel import | none to speak of | |

Interactions in the backend: the cash book and the planner read `app_settings`; both
write `schedule_audit_log`; the telephony import and the transcription pipeline share
the rows of `telephony_calls`; imports, plate lookups and the planner share
`work_orders`.

### The web application

Every page is a tree of React components in one browser tab. A handler runs to its end
before anything else; what it set is seen by the next render; an effect runs after the
render whose dependencies changed. So the steps are: one handler, one effect (with those
of the same commit), one timer, the answer of one request. A request answers at any
later moment, in any order, or fails; its callback sees the variables of the render that
made it, which is where most of the hazards come from. A component that leaves the page
forgets its state; what survives is module state (the list cache), sessionStorage,
localStorage, and the cookie.

| Component | State | Operations | Hard behaviour | What makes it correct |
|---|---|---|---|---|
| List cache (`work-orders-cache.ts`) | copy in memory and in sessionStorage, the fetch under way | prefetch, visit, reload, invalidate, expire | one fetch shared by several listeners; an edit while it runs; rows inserted between its pages | every copy is a snapshot of one fetch, no row missed, own edits seen, loading ends |
| Work-order list (`WorkOrdersTable.tsx`) | filters, stored filters, row opened last | mount from a link or bare, type, reset, open a row, come back | cached list, restored filters and linked ids arrive in any order | back on the row one left |
| Day board (`MechanicalView.tsx`) | jobs of the days shown, the drag | move the days, drag, resize, write, reload | late lists, drag over a reload, edges of the day | settled board is the server's, jobs within hours |
| Job dialog (`WorkshopJobDialog.tsx`) | the form, the lookup | type, choose or look up an order, save, delete | the lookup's answer uses the form of its own render | nothing typed is lost |
| Body cars (`BodyCarDialog.tsx`, `BodyView.tsx`) | rows of stages, the drag | add, remove, change, drag a stage | cascades of shifts against the service's order rule | what is sent is accepted |
| Cash page (`CashView.tsx`) | desk, days, book, search, dialog | choose, load, search, write | a search answer moves the day | book and dialog belong to what is on show |
| Login session (`auth.ts`, `middleware.ts`) | the cookie | login, page request, API call, logout | logout hour as of the login, redirects that meet each other | nothing past the logout hour, redirects end |
| Settings (`settings/*`, `SettingsForm.tsx`) | ten tables, three forms | open, type, save, delete, reorder, change tab | late and refused saves, rollback, remount with the page's first rows | rows shown are those stored |
| Finance (`budget/*`) | year, figures, import | change the year, edit a cell, check and load a file | an overtaken load, edits while it loads | a cell is saved under the year of its figures |
| Receivables (`ReceivablesAgingView.tsx`) | filters and their stored copy | restore, change, reset, log in | effects of one commit, refused writes | filters remembered |
| Cockpit (`CockpitView.tsx`, `InstrumentCluster.tsx`, `period-override.ts`) | filter, snapshot, drum, month in localStorage | turn the drum, toggle, pick a month | timer against clicks, overtaken answers | dials match controls, one month for both pages |
| Incoming leads (`telephony/*`, `leads/*`) | calls by source, panels, conversion | load, expand, follow a link | answers for what was shown before | shown is what was asked for |

The pages talk to the backend through route handlers that hand a call on; the answer of
a call that succeeds or fails is a step of the page's module. Where the backend's answer
matters to a page its rule is part of that module (what `BodyCarWrite` accepts, which
cash days are open, which tabs a role has).

## 2. Modules

| Module | Models | State and actions |
|---|---|---|
| `CashBook` | `cash_service.py` | `req[t]` is a request in thread t at one of the steps start, old_day, new_day, holder, commit: the reads of the code in their order, everything written in the commit. `SaveLock`, `DeleteEmployee`, `Midnight` and `Fail` come in between. |
| `CashBookView` | `get_book`, `card_balance_today`, `export_rows` | operators over the entries of `CashBook` |
| `AuditLog` | rows of `schedule_audit_log` | what a log tells: `Standing`, `LastTold`; used by `CashBook` and `PlannerJobs` |
| `DataProofs` | | lemmas about logs, induction over numbers and over finite sets, sums |
| `CashBookProofs` | | the theorems about `CashBook` and `CashBookView` |
| `CallTranscription` | `call_transcription_service.py` with the imports around it | `cycle` is the running cycle, its queue and the step it is at; every external answer is an action, as it is a commit in the code |
| `CallTranscriptionProofs` | | the theorems about `CallTranscription` |
| `WorkOrderImport` | `import_service.py`, `internal_order_rules.py`, the stub of a plate lookup | `import[t]` is a request; a chunk is one step because it is one transaction that holds the row locks of its orders; counts, reading of flags and writing of flags are steps of their own |
| `WorkOrderImportProofs` | | the theorems about `WorkOrderImport` |
| `PlannerJobs` | workshop jobs and matching of `planner_service.py` | `req[t]` at load, validate, commit; `pass[p]` is what the pass of the relay, or of the button, has read |
| `PlannerJobsProofs` | | the theorems about `PlannerJobs` |
| `SnapshotWindow` | the promise of the list cache | abstract: a copy holds what was true between the start and the end of one fetch |
| `WorkOrdersCache` | `work-orders-cache.ts` and the three pages that use it | `inFlight` is the fetch and the rows it has so far; `view` is the page mounted; a save on the card runs on when the card is left |
| `OrdersTable` | `WorkOrdersTable.tsx` | an order is the set of filters it passes, a filter a name; `ui` the mounted list, `world` the storage and the way back |
| `PlannerBoard` | `MechanicalView.tsx` | one job; `ui.asks` are the list requests under way, `world.put` the write |
| `JobDialog` | `WorkshopJobDialog.tsx` | a form is the set of fields changed since the record was opened |
| `BodyStages` | stages in `BodyCarDialog.tsx`, `BodyView.tsx`, `BodyCarWrite` | `form` is the card's rows, `saved` the car's, `drag` the bar being dragged |
| `BodyStagesProofs` | | the theorem about `BodyStages` |
| `CashDesk` | `CashView.tsx`, `CashEntryDialog.tsx` | a day stands for the period and the card filters |
| `WebSession` | `auth.ts`, `middleware.ts`, login and logout | a clock in ticks, `Day` ticks long; `ui.request` is a page on its way through the middleware |
| `SettingsPage` | the tables and forms of the settings | one of the thirteen at a time; a row is the set of its filled fields |
| `FinancePages` | `BudgetView.tsx`, `ExpensesView.tsx`, `ExpensesImportDialog.tsx` | figures are the year they are of |
| `Receivables` | `ReceivablesAgingView.tsx`, `receivables-filters.ts` | a row is the set of its traits |
| `Cockpit` | `CockpitView.tsx`, `InstrumentCluster.tsx`, `period-override.ts` | the newest request and those it overtook, the scroll timer, where the drum rests |
| `CallsPage` | the telephony, conversion and leads tabs | a panel is what it asked for, its state, and a request cancelled before |
| `Frontend` | one tab over all of these | opens one page, works on it, closes it |
| `FrontendProofs` | | the theorems about every page but the list cache |
| `FrontendListProofs` | | the theorems about the list cache, and that it implements `SnapshotWindow` |
| `MC...` | | the values of the constants, forms and payloads, and symmetry sets |

Every property is stated at the end of its module, with a comment. A definition called a
mutant is a plausible wrong version of the one that follows it. It is used by no
specification; substituting it makes TLC report the property it is listed with in
`PROJECT.json`.

`Frontend` composes the pages. The tab has one page open at a time, so the variables
`ui` and `world` are shared by the pages that keep their state in them; a page that is
not open is closed in the sense of its module, and a page that is opened starts as its
module says. What a page keeps over several visits (the list cache, stored filters, the
shared month) belongs to its module, which has the user's comings and goings as actions;
a tab between two pages is a new one. `BodyStages` is extended, so that its assumptions
are checked; the other pages are instances, and what they assume of their constants
`Frontend` states. The properties of `Frontend` are those of
the pages, named there again so that each can be checked while its page is open.

### Environment switches

Some properties hold only while certain things do not overlap, and the code does not
enforce that. Each such assumption is a constant; the passing run sets it to FALSE, and
where the code's documentation claims the property without the assumption, a second run
sets it to TRUE and shows the counterexample.

| Switch | FALSE means | TRUE shows |
|---|---|---|
| `SettingsWhileBusy` | the lock is saved while no cash request is in flight | `cash_lock_race` |
| `CardsOverlap` | requests on one entry overlap only if no personal card is involved | `cash_card_race` |
| `CarsReassigned` | 1C never changes the VIN of an order | `import_vin` |
| `ImportsOverlap` | imports that share a car or an order do not overlap | not run; see the hazards |
| `SlotsOverlap` | requests that place a job do not overlap on one job or lane | `planner_overlap` |

## 3. Runs and bounds

| Run | Bounds | Why they are enough |
|---|---|---|
| `cash_book` | 1 entry, 2 threads, 2 days, 2 users, 2 desks, 2 employees, 2 accepted requests per entry | the rules relate an entry to one racing request, the lock and the day; a second entry shares nothing with the first. Two days give every move between an open and a locked day. Requests already accepted finish beyond `MaxJournal`, so two racing ones are always seen. |
| `cash_view` | 2 entries, 1 thread, 2 days | a sum over two entries tells order, sign and scope apart |
| `transcription` | 2 calls of two days, 3 days, a batch of 1 or 2 chosen for each cycle, 1 crash | one call ahead of another and a batch smaller than the backlog are what starvation needs, a batch of two what the deadline cuts short; the third day lets a call age out |
| `import` | payloads of up to two records over one or two cars, chunk size 1, two slots | a chunk boundary, a failed chunk, a kill and a repeated delivery all occur; slots are symmetric |
| `planner` | 2 jobs, 2 lanes, 3 hours, 3 forms, 2 threads, 1 tick | a clash needs two jobs of one lane; the third form moves jobs between lanes. Jobs and threads are symmetric (no liveness is checked here). |
| `planner_match` | 2 jobs, 1 thread, 2 ticks, window 0, both passes | a job outside the window, a pass spoiled by another job, a link already made |
| `frontend` | every page with 2 of what can overtake each other (`MaxAsks`), see below | two requests give every order of answers; a third only repeats one of them |

The bounds of `frontend`, page by page:

- list: three orders, one of them not there at first, fetched one per page, so that
  rows shift between the pages of one fetch; one order edited up to twice, the second time
  while the first save may still be under way.
- filters: three orders that pass different sets of filters, so that each link shows some and
  hides others.
- board: two days, a working day of two slots, one change made elsewhere.
- dialog: two fields and two records, the new one and a stored one.
- car: a calendar of three days, three stages, drags of at most two days either way: enough
  to push a stage over its neighbour and over the edge.
- cash: two desks, two days, one of them today and the other locked. The user holds the
  right to correct, the one who can write on other days at all.
- session: a day of two ticks, a cookie of three, a clock that ends at three: a login
  before, at and after the logout hour, and past midnight. One list of tabs begins with the
  retired `/leads`.
- settings: one row, two requests under way, in every table and form.
- finance: two years, one file. Receivables: two debts. Cockpit: one shop and the whole
  company, one month beside the current one, one overtaken request.
- calls: two periods, two lines of which one has no calls in the second period, one lead.

Several properties of the pages name the situations in which the code does not keep
them. Each exception is a variable of history that is set by the action that does the
harm, and each is a finding in `PROJECT.json` with its line, or is the environment's
fault:

| Property | Exception | Set when |
|---|---|---|
| `OwnEditSeen` | `tainted`, `late` | the edit was saved while a fetch was under way |
| `BackOnRow` | `reshaped`, `storage`, `ids` | a linked view was filtered further; sessionStorage refuses; the linked ids failed |
| `BoardSettled` | `late`, `failed`, `unseen` | an older list came last; the last one failed; somebody else changed the job |
| `TypingKept` | `raced` | typed while a plate lookup was under way |
| `StagesAccepted` | `OntoOwnStart` | a border dragged onto or past its own stage's start |
| `BookSettled` | `late` | an older book came last |
| `WrittenWhereOpened` | `jumped` | a search answer moved the day under the dialog |
| `RowsAreStored` | `stale`, `crossed` | the tab was mounted again; answers came in another order than the saves |
| `EditsGoWhereShown` | `overrun`, `failed` | a re-read brought back another year; the year did not load |
| `FiltersRemembered` | `unsaved` | sessionStorage refused |
| `DialsMatchControls` | `stale`, `failed` | the drum settled with an older render's handlers; the request failed |
| `ShownAsAsked` | `late`, `failed` | an older conversion answer came last; it failed |
| `RedirectsSettle` | `Routable` | the role's first tab is the retired `/leads` |

`CacheKeepsPromise` is a refinement: `WorkOrdersCache` implements `SnapshotWindow` with
the server's listed orders as `truth`, the notes as they were when the fetch began as
`since`, and the copy that would be served as `held`.

The five runs that expect a violation correspond to the findings in `PROJECT.json`:

- `cash_lock_race`: a period saved in flight does not stop a commit into it.
- `cash_card_race`: overlapping PUTs make a card payment personal.
- `transcription_starvation`: with a switch off, calls without what it would give
  them (a topic, a score) fill the batch and a newer one is not transcribed while they are recent, however long the
  day lasts; by then it is about to age out itself.
- `import_vin`: a corrected VIN leaves stale `is_internal` flags on the old car.
- `planner_overlap`: two requests get one slot.

`CHECK_DEADLOCK FALSE` stands in every configuration of the backend because its bounded
models end: days, journals and batches run out, and a system without work rests. A page
can always be closed or opened, so `frontend` is checked for deadlock.

Type invariants are run properties of `CashBook` and `WorkOrderImport`. `TypeOK` of
`CallTranscription` and `PlannerJobs` is proved and in no run; the types of the pages are
the first conjuncts of the invariants in their proofs.

### Fairness

`CallTranscription` and `PlannerJobs` assume weak fairness of their relay.
`run_relay_loop` catches every exception and sleeps a finite time, so a cycle that can
start does. The pipeline also assumes strong fairness of the answers of Zeon, SpeechKit
and YandexGPT: a service that is asked for the same call again and again answers at
last. Without that nothing could be promised, since the code retries errors for as long
as the call is recent. Midnight is not fair and the last day never ends, so the
properties say what becomes of a call if its two days are long enough for the cycles it
takes: behaviours in which a call stays recent for ever are among those checked. Crashes
are bounded by `MaxCrashes`. In `PlannerJobs` the journal bounds the deletions that may
spoil a pass; a deletion in every pass, for ever, would starve the matching. No request
is assumed to be fair.

`Frontend` assumes weak fairness of one thing, the answers of the open page, where the
properties need it: a page of the list arrives or fails, a copy is taken over by the
page that waits for it (`ListSettles`), and the middleware answers a request
(`RedirectsSettle`). `fetch` either resolves or rejects, and an effect follows its
render. The user is not fair: nobody has to click, and a property that needs the page to
stay open says so by allowing it to be left.

## 4. Proofs

Every safety invariant and every action property of the passing runs, and the refinement,
is a theorem: it holds for every number of rows, users, threads, pages and requests, not
only in the instance a run explores. All have the same shape. An inductive invariant is
implied by the initial states; one lemma per action, or per group of actions, shows that a
step keeps it; the theorem combines them. The invariant of each module begins with its
types, which is a theorem of its own for the backend. What it adds is what a request, a
loop or a page *knows* between two of its steps, because the property of a commit rests on
what was read several steps earlier.

### What the theorems assume

The assumptions are the named `ASSUME`s of the modules, which TLC evaluates in every run,
and for some theorems a hypothesis:

| Hypothesis | Theorems | Why it is there |
|---|---|---|
| `~SettingsWhileBusy` | `LockHolds` | the property is false without it, as `cash_lock_race` shows |
| `~CardsOverlap` | `CardsHold`, `JournalTells` | without it `cash_card_race` finds a card payment made personal; an audit row tells what the request knew, so it tells a merged row wrongly |
| `~SlotsOverlap` | `SlotsHold` | `planner_overlap` |
| `~ImportsOverlap`, `~CarsReassigned` | `FlagsHold` | `import_vin`, and the hazard of two imports that share a car |
| `~ImportsOverlap`, `SentOnce` | `SnapshotsHold` | two imports of one order may end in the other order than they began |
| `SentOnce` | `LinesHold` | a payload has no order twice: 1C sends one record per document. Two records of one order in one chunk are a hazard of their own |

The passing runs check the same properties under the same switches, and their payloads
satisfy `SentOnce`. Everything else is proved without a hypothesis, `CountsHonest`,
`LogReplays` and `ChangesAuthorized` under any overlap. `FiniteAssumption` (finitely many
entries and employees) is needed where sums are taken; `NoneAssumption` says that the null
of a column is not one of its values.

### Cash book

- `TypeCorrect`: `TypeOK` is invariant.
- `LockHolds`: `LockedDaysFrozen`.
- `AuthorizationHolds`: `ChangesAuthorized`.
- `CardsHold`: `CardConsistent`.
- `JournalTells`: `JournalReplays`.
- `BooksGoOn`, `ExportsAgree`, `PartsMakeUp`: `BooksContinue`, `ExportAgrees`, `PartsAddUp`.

A commit of an update is safe because of what was found out four steps earlier, so the
invariant tells what a request knows at each step (`RequestsOK`), that the id of an entry
being created is known to its own request alone (`FreshIds`), that days checked stay
unlocked while the request is in flight (`CheckedDaysUnlocked`) and that what the access
checks granted still holds (`GrantsHold`: no request ever moves an entry to another desk,
days only grow). The delicate case of `CheckedDaysUnlocked` is the entry that another
request moves after ours has loaded it: it can only be moved to an unlocked day, because
the other request was checked too. The card needs `CardsHeld`: an entry that a request
about a card has loaded is, but for a holder deleted since, as it was loaded. The journal
needs moreover that an update's audit row names every column in which the merged row
differs from the one before.

The pages are sums over finite sets of entries. `SumFunctionOnSet` is a fold, whose
definition the provers cannot unfold to any depth; `DataProofs` therefore first proves
induction over numbers and over the subsets of a finite set, as statements about sets
(from the library's well-foundedness of strict inclusion and of less-than, since the
induction rules themselves take an operator), then that a sum without one element, of a
union, or of equal terms is what it should be. `ExportsAgree` is an induction over the days
of the period. `PartsMakeUp` needs the invariant `HoldersThere`: the holder of an entry is
an employee or gone, however deletions and requests interleave.

### Planner jobs

- `TypeCorrect`, `LogTells` (`LogReplays`), `WindowHolds` (`LinksWithinWindow`),
  `SlotsHold` (`NoOverlap`).

`SlotsHeld` says that requests in flight place different jobs in different lanes
(`PlacedApart`), that a slot found free stays so until its request commits, and that a job
being moved is where it was when it was loaded (`SlotHeld`). `ReadJobs` relates what a match
pass has read to the rows now: a job it has read has a log, so its id is not given anew
(`FreshIds`), and if the job still stands it was created when the pass read it was; so the
window holds at the commit (`WindowKept`) whatever happened to the job in between.

### Call transcription

- `TypeCorrect`, `MarksHold` (`MarksMatchStatus`), `WorkStays` (`WorkIsKept`).

`CycleOK`: the queue of the running cycle holds imported calls, each once, none given up,
and a step after the transcription is reached by a transcribed call. Without it the step
that writes a topic could be taken of a call that was given up in between.

### Work order import

- `TypeCorrect`, `ImportsStay` (`ImportedStays`), `CountsHold` (`CountsHonest`),
  `LinesHold` (`LinesMatchRow`), `SnapshotsHold` (`LatestSnapshotMatches`), `FlagsHold`
  (`FlagsRight`).

The invariants for the last three:

- `Alone`: no import begun later shares a car or an order with one in flight;
- `RowsHeld`: the orders of an import in flight belong to its cars or to none;
- `FlagsFollow`: the verdicts a request has read are still right when it writes them, and
  the flags it wrote when it ends;
- `SnapshotsKept`: a snapshot is of a batch that sent its order, a batch has one at most of
  an order, and if the batch is in flight it is past the record (`Behind`).

`CountsHonest` needs no hypothesis, and a witness. A request that is killed after a chunk
leaves a batch that counts less than was kept, and two requests insert different orders, so
neither the counts of the batches nor those of the requests are those of the rows.
`RowsCounted` says that there is an assignment of counts to batches, at least what each
batch shows and what its request has while it runs, whose sum is at most the number of
orders there are. Each action moves the witness; the sums are those of `DataProofs`.

### The pages

`FrontendProofs` and `BodyStagesProofs` prove the properties of the pages as properties of
the whole application. A page is on show after a step because it was opened, worked, or was
on show before (`Visits`); so an invariant is of the form "page open implies ..." (`AgingOk`,
`DeskOk`, ...), and a page need not say anything of the others.

| Theorem | Property | What the invariant adds |
|---|---|---|
| `FiltersStay` | `FiltersRemembered` | what is stored is what was chosen last, and so is what a mounted page has read back |
| `DialsFollow`, `MonthShared` | `DialsMatchControls`, `OneMonth` | the newest request is of the controls; the timer compares with their department |
| `EditsKept` | `EditsGoWhereShown` | a load under way is of the year on show |
| `TypingStays` | `TypingKept` | what was typed is in the form, and in the form a running lookup was given |
| `BackThere` | `BackOnRow` | the row opened last passes every filter the list will be mounted with, whether these come from the link or the storage |
| `BooksSettle`, `TargetsStay` | `BookSettled`, `WrittenWhereOpened` | the newest request in the queue is of the desk and day on show, or is marked overtaken |
| `BoardSettles`, `HoursHold` | `BoardSettled`, `WithinHours` | the same of the day lists; the job on show, the one dragged and the one being written lie in the hours |
| `AskedIsShown` | `ShownAsAsked` | a panel is of the row it stands under; the newest request of the rates is narrowed as the page is, or is marked overtaken |
| `LogoutHolds` | `NothingPastLogout` | the cookie ends at the first time since the login that is at the hour; rests on arithmetic of the next boundary |
| `RowsSettle` | `RowsAreStored` | replaying the answered writes that the table has not yet heard of on its rows gives the rows of the server |
| `AcceptedAlways`, `StagesStay` | `StagesAccepted` | below |

`AcceptedAlways` holds for every calendar and set of drags that are integers, and any
number of stages. What is in the card is accepted because every edit keeps the order:
`updateStageStart` clamps the first day at the stage above and slides the rest along
(`SlideAccepted`), `updateStageEnd` keeps the length positive (`SetToAccepted`), removing a
row leaves a subsequence (`WithoutAccepted`). `fixupStageOrder` then turns out to have
nothing to do (`FixupIdle`). A drag reads the list as it was when it began, so the
invariant carries the acceptance of that list and that the cap held is one of its own
(`DragGrips`).

### The list cache

`FrontendListProofs` proves `EditsSeen` (`OwnEditSeen`), `FetchComplete` (`NothingMissed`)
and `CacheRefines`: `WorkOrdersCache`, inside the application, implements `SnapshotWindow`.
The invariant `ListInv` says that nothing is cached while a fetch runs and that two copies
are the same (`OneFetch`), who listens to the fetch (`Listening`), and of the rows fetched so
far that each was true at some moment since the fetch began (`Began`, `ReadInTime`) and that
what is not fetched yet lies behind the offset (`Ahead`: an import puts rows in front, which repeats a
row and never skips one). `ToldOk` relates them to the saves the user was told of. The
refinement is shown step by step: opening, reloading, answering and saving each map to a
step of `SnapshotWindow` or leave its variables alone (`LoadSimulated`, `ReloadSimulated`,
`AnswerSimulated`, `SaveSimulated`).

### Only model-checked

- Liveness under fairness: `BacklogClears`, `MatchesFound`, `ListSettles`,
  `RedirectsSettle`. The prover has no rules for `WF_`, `SF_` and ENABLED.
- What the runs that expect a violation refute, of course.
- That the hypotheses above are met by some behaviour, and that the situations the
  properties speak of occur: the runs and the mutants show it.

## 5. Not modelled, and why

The reports (statistics, conversion, cockpit, receivables, budget) read and aggregate;
they keep no state, and what matters is how the pages load them, which is modelled.
Checking a password is one stateless read. The import of expenses is parsing and monthly
sums. The clients of Zeon, SpeechKit, YandexGPT, Yandex.Disk and 5Systems build requests
and parse answers; their outcomes are nondeterministic steps of the modules that use
them. Of the frontend, the drawing (charts, dials, the drum's layout, calendars), the
players of recordings, the badges that poll one number, the theme, and the wrappers of
`fetch` in `backend-api.ts` are left out: they keep nothing that a later step reads. The
signature of the cookie is taken to be sound: a cookie is one this server made or it is
none. The content of texts, comments, names and money columns other than amounts is
abstracted, since no rule reads it.

Left out although they have hazards of their own, which are listed with a note: the
Yandex.Disk relay, the recordings, the call-to-workshop rules, the intake of leads, two
requests that replace the stages of one car at once, and two editors of the settings
row.

## 6. What would come next

1. The body cars' requests over `PlannerJobs`' steps; the matching pass over jobs and cars
   together, with a second work order per contact, so that re-pointing a hand-made link shows.
2. The Yandex.Disk folder composed with `WorkOrderImport`: listing limit, unreadable files,
   failed moves, order of exports.
3. Status history, payment events and invoices in `WorkOrderImport`.
4. The recordings' in-flight bound, deadline and re-runs; the photo archive of the leads.
5. `determine_workshop` as an operator against a reference definition; `recompute_all`
   under concurrent inserts.
6. A page composed with its backend module: two browsers on `CashDesk` over `CashBook`, on
   `PlannerBoard` over `PlannerJobs`, on the settings row.
7. Proofs: `LinesHold` and `SnapshotsHold` without `SentOnce`, which needs the records of one
   order in one chunk put in order; the invariants of the modules above.
