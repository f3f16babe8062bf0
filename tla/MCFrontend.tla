----------------------------- MODULE MCFrontend -----------------------------
(***************************************************************************)
(* A small application for TLC; the bounds are explained in the README.    *)
(***************************************************************************)
EXTENDS Frontend

MCFirstOrders == <<"o1", "o2">>
MCTraits == {{"status", "docTypes", "individual", "phone", "conversion"},
             {"text", "docTypes", "conversion", "phone"}, {"text"}}
MCHours == <<1, 3>>
MCFirstJob == [day |-> 1, start |-> 1, end |-> 2, note |-> 0]
MCTabLists == {<<"cockpit", "planner">>, <<"planner">>, <<"leads", "planner">>}
MCLinesOf == <<{"site", "ads"}, {"site"}>>
MCDebts == {{"insurance"}, {"warranty", "individual", "inPeriod"}}
MCDeltas == (-2)..2
=============================================================================
