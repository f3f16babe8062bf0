--------------------------- MODULE MCPlannerJobs ---------------------------
EXTENDS PlannerJobs, TLC

CONSTANTS lane1, lane2, order1, phone1

Form(lane, start, end, order, contact) ==
    [lane |-> lane, start |-> start, end |-> end, order |-> order, contact |-> contact]

MCLanes == {lane1, lane2}
MCOrders == {order1}
MCContacts == {phone1}
MCOrderContact == [o \in MCOrders |-> phone1]

(* Job ids and request slots are interchangeable.                          *)
JobSymmetry == Permutations(Jobs) \cup Permutations(Threads)

(* Two slots of one post that clash, one of a contact and one already      *)
(* linked, and a slot of another post without either.                      *)
MCForms ==
    {Form(lane1, 1, 3, None, phone1), Form(lane1, 2, 3, order1, None),
     Form(lane2, 1, 2, None, None)}
=============================================================================
