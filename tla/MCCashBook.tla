----------------------------- MODULE MCCashBook -----------------------------
(***************************************************************************)
(* One desk of the master's own workshop and one elsewhere; a master who   *)
(* may only work on the present day and a director who corrects any day.   *)
(***************************************************************************)
EXTENDS CashBookView, TLC

CONSTANTS master, director, desk1, desk2, dep1, dep2, emp1, emp2

MCUsers == {master, director}
MCDesks == {desk1, desk2}
MCDepartments == {dep1, dep2}
MCEmployees == {emp1, emp2}
MCDeskDepartment == desk1 :> dep1 @@ desk2 :> dep2
MCProfile ==
    master :> [all |-> FALSE, correct |-> FALSE, workshop |-> desk1,
               department |-> dep1, employee |-> emp1]
    @@ director :> [all |-> TRUE, correct |-> TRUE, workshop |-> None,
                    department |-> None, employee |-> None]

Form(desk, date, kind, amount, personal, holder) ==
    [desk |-> desk, date |-> date, kind |-> kind, amount |-> amount,
     personal |-> personal, holder |-> holder]

(* Plain and personal-card forms, two days, each kind, a zeroed amount.    *)
MCForms ==
    {Form(desk1, 1, CashIn, 1, FALSE, None),
     Form(desk2, 2, CashOut, 1, FALSE, None),
     Form(desk1, 1, CardIn, 2, FALSE, None),
     Form(desk1, 1, CashIn, 1, TRUE, None),
     Form(desk1, 2, CashOut, 2, TRUE, emp2),
     Form(desk1, 1, CardIn, 1, TRUE, None),
     Form(desk1, 1, CashIn, 0, FALSE, None)}

MCDirector == {director}
MCDirectorProfile == director :> MCProfile[director]
=============================================================================
