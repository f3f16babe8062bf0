---------------------------- MODULE CashBookView ----------------------------
(***************************************************************************)
(* What the pages compute from the entries: get_book and                   *)
(* card_balance_today of cash_service.py, and the running balance of       *)
(* cash_export_service.export_rows.  No balance is ever stored.            *)
(***************************************************************************)
EXTENDS CashBook, FiniteSets, Functions

(* A database holds finitely many rows.                                    *)
ASSUME FiniteAssumption == IsFiniteSet(Entries) /\ IsFiniteSet(Employees)

SCOPES == {"all", "cash", "personal"}

(* _scope_conditions.                                                      *)
InScope(row, scope) ==
    \/ scope = "all"
    \/ scope = "cash" /\ ~row.personal
    \/ scope = "personal" /\ row.personal

Amount == [e \in Entries |-> IF entries[e] = None THEN 0 ELSE entries[e].amount]
Total(ids) == SumFunctionOnSet(Amount, ids)

OfKind(ids, kind) == {e \in ids : entries[e].kind = kind}
Balance(ids) == Total(OfKind(ids, CashIn)) - Total(OfKind(ids, CashOut))

DeskEntries(desk, scope) ==
    {e \in Entries : entries[e] # None /\ entries[e].desk = desk /\ InScope(entries[e], scope)}

Before(desk, scope, day) == {e \in DeskEntries(desk, scope) : entries[e].date < day}
Within(desk, scope, from, to) ==
    {e \in DeskEntries(desk, scope) : entries[e].date \in from..to}

(* get_book: the balance at the start and at the end of the period.        *)
Opening(desk, scope, from) == Balance(Before(desk, scope, from))

(* Mutant of Book: card payments count as money in the drawer.             *)
BookWithCards(desk, scope, from, to) ==
    [opening |-> Opening(desk, scope, from),
     closing |-> Opening(desk, scope, from)
                 + Total(Within(desk, scope, from, to) \ OfKind(Within(desk, scope, from, to), CashOut))
                 - Total(OfKind(Within(desk, scope, from, to), CashOut))]

Book(desk, scope, from, to) ==
    [opening |-> Opening(desk, scope, from),
     closing |-> Opening(desk, scope, from) + Balance(Within(desk, scope, from, to))]

(* Mutant of CardEntries: entries of days to come count already.           *)
CardEntriesAnyDay(desks, holder) ==
    {e \in Entries : /\ entries[e] # None
                     /\ entries[e].desk \in desks
                     /\ entries[e].personal /\ entries[e].holder = holder}

(* The personal-card entries of one person a caller with these desks sees. *)
CardEntries(desks, holder) ==
    {e \in Entries : /\ entries[e] # None
                     /\ entries[e].desk \in desks
                     /\ entries[e].personal /\ entries[e].holder = holder
                     /\ entries[e].date <= today}
CardBalanceToday(desks, holder) == Balance(CardEntries(desks, holder))

(* Mutant of ExportClosing: every day starts from the first opening.       *)
ExportRestarting(desk, from) ==
    [d \in from..LastDay |-> Opening(desk, "all", from) + Balance(Within(desk, "all", d, d))]

(* export_rows: the closing balance of each day, carried from day to day   *)
(* over the day's own entries, from the opening balance of the first.      *)
ExportClosing(desk, from) ==
    LET closing[d \in from..LastDay] ==
          (IF d = from THEN Opening(desk, "all", from) ELSE closing[d - 1])
          + Balance(Within(desk, "all", d, d))
    IN closing

-----------------------------------------------------------------------------
(* The balance a period closes with is the one the following period opens  *)
(* with, in every scope: correcting an old entry re-flows every later      *)
(* balance (models/cash_entry.py), and card payments touch none.           *)
BooksContinue ==
    \A desk \in Desks, scope \in SCOPES, from \in Days :
        \A to \in from..LastDay :
            Book(desk, scope, from, to).closing = Opening(desk, scope, to + 1)

(* The Excel table agrees with the page: the closing balance it reaches by *)
(* carrying it from day to day is the page's, for every first day.         *)
ExportAgrees ==
    \A desk \in Desks, from \in Days :
        \A d \in from..LastDay :
            ExportClosing(desk, from)[d] = Book(desk, "all", from, d).closing

(* The cash and the personal-card part of the book add up to the book, and *)
(* the cards of the employees, up to today, are never more than the        *)
(* personal part (what a deleted employee held is in no card's balance).   *)
PartsAddUp ==
    \A desk \in Desks, day \in Days :
        /\ Opening(desk, "all", day) = Opening(desk, "cash", day) + Opening(desk, "personal", day)
        /\ day = today + 1 =>
              LET orphans == {e \in Before(desk, "personal", day) : entries[e].holder = None}
              IN  Opening(desk, "personal", day) =
                    Balance(orphans)
                    + SumFunction([p \in employees |-> CardBalanceToday({desk}, p)])
=============================================================================
