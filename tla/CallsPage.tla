------------------------------ MODULE CallsPage ------------------------------
(***************************************************************************)
(* The page of incoming leads (src/frontend/components/telephony): the     *)
(* calls by source with the calls of one source below its row, the history *)
(* of a number, the conversion tab, and the site leads with the calls of a *)
(* lead.  A tab once opened stays mounted: answers reach it when hidden.   *)
(***************************************************************************)
EXTENDS Naturals, Sequences

CONSTANTS
    Periods,    \* the periods one may ask for
    FirstOne,   \* the one the page comes with
    LinesOf,    \* [Periods -> the sources that had calls in it]
    Leads,      \* the leads of the page
    MaxAsks,    \* conversion requests under way at once (a bound)
    None

VARIABLES
    ui,         \* the mounted page
    world       \* history: a late conversion answer is on show

vars == <<ui, world>>

Closed == ui = None /\ world = None
Init == Closed

Panel(of) == [of |-> of, state |-> "loading", events |-> None, older |-> None]

(* "Конверсия", mounted by its first opening: it loads at once, narrowed   *)
(* to the departments the link to it named, if it named some.              *)
Conversion(narrowed) ==
    [narrowed |-> narrowed, asks |-> <<[narrowed |-> narrowed, overtaken |-> FALSE]>>,
     loading |-> TRUE, shown |-> None, failed |-> FALSE]

Mounted(tab, conversion, lead) ==
    [tab |-> tab, summary |-> FirstOne, load |-> None, line |-> None, panel |-> None,
     history |-> "none", conversion |-> conversion, lead |-> lead]

(* The page itself, a link of the conversion donuts, and the link of a     *)
(* lead, which opens that lead.                                            *)
Open == /\ Closed /\ world' = [late |-> FALSE]
        /\ \/ ui' = Mounted("calls", None, None)
           \/ ui' = Mounted("conversion", Conversion(TRUE), None)
           \/ \E lead \in Leads : ui' = Mounted("leads", None, [id |-> lead, state |-> "loading"])
Close == ui # None /\ ui' = None /\ world' = None

SelectTab(tab) ==
    /\ ui # None /\ tab # ui.tab
    /\ ui' = [ui EXCEPT !.tab = tab,
                        !.conversion = IF tab = "conversion" /\ @ = None
                                       THEN Conversion(FALSE) ELSE @]
    /\ UNCHANGED world

On(tab) == ui # None /\ ui.tab = tab

-----------------------------------------------------------------------------
(* The button of the period: one load at a time, the open row closes.      *)
Load(period) == /\ On("calls") /\ ui.load = None
                /\ ui' = [ui EXCEPT !.load = period, !.line = None, !.panel = None]
                /\ UNCHANGED world

(* A click on the row of a source opens the calls below it or closes them. *)
Expand(line) ==
    /\ On("calls") /\ line \in LinesOf[ui.summary]
    /\ ui' = IF ui.line = line THEN [ui EXCEPT !.line = None, !.panel = None]
             ELSE [ui EXCEPT !.line = line, !.panel = Panel([line |-> line, period |-> ui.summary])]
    /\ UNCHANGED world

(* The effect of LineCallsPanel as its row gets another period: asked      *)
(* again, the request before is cancelled.                                 *)
Renewed(panel, line, period) ==
    IF line = None \/ line \notin LinesOf[period] THEN None
    ELSE IF panel = None THEN Panel([line |-> line, period |-> period])
    ELSE IF panel.of.period = period THEN panel
    ELSE [panel EXCEPT !.of.period = period, !.state = "loading",
                       !.older = IF panel.state = "loading" THEN panel.of ELSE @]

Loaded == /\ ui # None /\ ui.load # None
          /\ ui' = [ui EXCEPT !.summary = ui.load, !.load = None,
                              !.panel = Renewed(@, ui.line, ui.load)]
          /\ UNCHANGED world

LoadFails == /\ ui # None /\ ui.load # None
             /\ ui' = [ui EXCEPT !.load = None] /\ UNCHANGED world

(* Mutant of PanelDropped: the cancelled request is shown when it answers. *)
PanelDroppedNot ==
    /\ ui # None /\ ui.panel # None /\ ui.panel.older # None
    /\ ui' = [ui EXCEPT !.panel.older = None, !.panel.events = ui.panel.older,
                        !.panel.state = "ready"]
    /\ UNCHANGED world

(* The answer of a cancelled request says nothing.                         *)
PanelDropped == /\ ui # None /\ ui.panel # None /\ ui.panel.older # None
                /\ ui' = [ui EXCEPT !.panel.older = None] /\ UNCHANGED world

PanelAnswered == /\ ui # None /\ ui.panel # None /\ ui.panel.state = "loading"
                 /\ \/ ui' = [ui EXCEPT !.panel.state = "ready", !.panel.events = ui.panel.of]
                    \/ ui' = [ui EXCEPT !.panel.state = "error"]
                 /\ UNCHANGED world

(* The search by number: one at a time; closed while it runs, the answer   *)
(* opens it again.                                                         *)
SearchHistory == /\ On("calls") /\ ui.history \in {"none", "shown"}
                 /\ ui' = [ui EXCEPT !.history = IF @ = "none" THEN "asked" ELSE "asked again"]
                 /\ UNCHANGED world

CloseHistory == /\ On("calls") /\ ui.history \in {"shown", "asked again"}
                /\ ui' = [ui EXCEPT !.history = IF @ = "shown" THEN "none" ELSE "asked"]
                /\ UNCHANGED world

HistoryAnswered == /\ ui # None /\ ui.history \in {"asked", "asked again"}
                   /\ \E next \in {"shown", "none"} : ui' = [ui EXCEPT !.history = next]
                   /\ UNCHANGED world

-----------------------------------------------------------------------------
(* load of the conversion tab: nothing numbers or cancels its requests.    *)
Ask(conversion, narrowed) ==
    [conversion EXCEPT !.asks = Append(@, [narrowed |-> narrowed, overtaken |-> FALSE]),
                       !.narrowed = narrowed, !.loading = TRUE, !.failed = FALSE]

Show == /\ On("conversion") /\ ~ui.conversion.loading /\ Len(ui.conversion.asks) < MaxAsks
        /\ ui' = [ui EXCEPT !.conversion = Ask(@, ui.conversion.narrowed)] /\ UNCHANGED world

(* The × of the department works while a load is under way, too.           *)
ClearDepartments ==
    /\ On("conversion") /\ ui.conversion.narrowed /\ Len(ui.conversion.asks) < MaxAsks
    /\ ui' = [ui EXCEPT !.conversion = Ask(@, FALSE)] /\ UNCHANGED world

(* The requests still under way when the i-th is answered; those sent      *)
(* before it have been overtaken.                                          *)
Remaining(asks, i) ==
    [k \in 1..Len(asks) - 1 |->
        IF k < i THEN [asks[k] EXCEPT !.overtaken = TRUE] ELSE asks[k + 1]]

(* The answers of both say the loading is over.                            *)
Shown(i, shown, failed) ==
    /\ ui' = [ui EXCEPT !.conversion.shown = shown, !.conversion.failed = failed,
                        !.conversion.loading = FALSE,
                        !.conversion.asks = Remaining(@, i)]
    /\ world' = [late |-> ui.conversion.asks[i].overtaken]

Asked(i) == ui # None /\ ui.conversion # None /\ i \in 1..Len(ui.conversion.asks)

ConversionAnswered(i) == /\ Asked(i)
                         /\ Shown(i, [narrowed |-> ui.conversion.asks[i].narrowed], FALSE)
ConversionFails(i) == Asked(i) /\ Shown(i, None, TRUE)

-----------------------------------------------------------------------------
(* A click on the row of a lead; its calls are loaded as it opens.         *)
ExpandLead(lead) ==
    /\ On("leads")
    /\ ui' = [ui EXCEPT !.lead = IF @ # None /\ @.id = lead THEN None
                                 ELSE [id |-> lead, state |-> "loading"]]
    /\ UNCHANGED world

LeadAnswered ==
    /\ ui # None /\ ui.lead # None /\ ui.lead.state = "loading"
    /\ \E state \in {"ready", "error"} : ui' = [ui EXCEPT !.lead.state = state]
    /\ UNCHANGED world

Answer == \/ Loaded \/ LoadFails \/ PanelDropped \/ PanelAnswered
          \/ HistoryAnswered \/ LeadAnswered
          \/ \E i \in 1..MaxAsks : ConversionAnswered(i) \/ ConversionFails(i)
Work ==
    \/ \E tab \in {"calls", "conversion", "leads"} : SelectTab(tab)
    \/ \E period \in Periods : Load(period) \/ \E line \in LinesOf[period] : Expand(line)
    \/ SearchHistory \/ CloseHistory \/ Show \/ ClearDepartments
    \/ \E lead \in Leads : ExpandLead(lead)
    \/ Answer
Next == Open \/ Close \/ Work
Spec == Init /\ [][Next]_vars /\ WF_vars(Answer)

-----------------------------------------------------------------------------
(* The calls below a row are those of its source in the period of the      *)
(* table, however the loads of both overlapped; and once its loads are     *)
(* done the conversion tab is narrowed as its chip says, unless the        *)
(* answer of an older request came last or the last one failed.            *)
ShownAsAsked ==
    /\ (ui # None /\ ui.panel # None /\ ui.panel.state = "ready")
         => ui.panel.events = [line |-> ui.line, period |-> ui.summary]
    /\ (ui # None /\ ui.conversion # None /\ ui.conversion.asks = <<>>
          /\ ~world.late /\ ~ui.conversion.failed)
         => ui.conversion.shown.narrowed = ui.conversion.narrowed
=============================================================================
