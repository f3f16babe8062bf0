------------------------- MODULE MCWorkOrderImport -------------------------
(***************************************************************************)
(* One car that has an insurance order, an order of the house and one      *)
(* without a payer, sent together, apart, again and changed; and an order  *)
(* of another car.                                                         *)
(***************************************************************************)
EXTENDS WorkOrderImport, TLC

CONSTANTS car1, car2, x, y, s1, s2

R(order, kind, payer, car, paid, content) ==
    [order |-> order, kind |-> kind, org |-> "house", payer |-> payer,
     car |-> car, paid |-> paid, content |-> content]

Insurance == R(1, "external", "other", car1, None, x)
Repair    == R(2, "own", "house", car1, 0, x)
RepairPaid == R(2, "own", "other", car1, 1, y)
Warranty  == R(3, "own", "empty", car1, None, x)
Other     == R(4, "own", "house", car2, None, x)

MCPayloads == {<<Insurance, Repair>>, <<RepairPaid>>, <<Warranty, Repair>>, <<Other>>}

MCSlots == {s1, s2}
SlotSymmetry == Permutations(MCSlots)

(* The VIN of an order is corrected in 1C.                                 *)
MCPayloadsMoved == {<<Insurance, Repair>>, <<[Insurance EXCEPT !.car = car2]>>}
=============================================================================
