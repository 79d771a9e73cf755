----------------------------- MODULE MCCostEdits -----------------------------
(* CostEdits on a small instance: an AC and a DC charge close together, an *)
(* open charge, an export with fees, a duplicate, an unreadable row, a      *)
(* refund and two sites that start together, and one of two cars of which   *)
(* the car chosen first has nothing that matches a charge.                  *)
EXTENDS CostEdits

MCStarted == [c \in {1, 2} |-> IF c = 1 THEN 10 ELSE 20]
MCLasted == [c \in {1, 2} |-> 7]
MCIsDC == [c \in {1, 2} |-> c = 2]
MCAreas == {{1, 3}, {1, 2}}
MCInitialCosts == {<<1, -1>>}
MCPrices == {-1, 2}

Fee(invoice, start, car, total) ==
    [invoice |-> invoice, start |-> start, site |-> 1, vin |-> car, total |-> total,
     readable |-> TRUE, paid |-> TRUE]

MCFiles == <<
    << Fee(7, 21, "this car", 2), Fee(7, 21, "this car", 1), Fee(7, 21, "this car", 1),
       Fee(8, 24, "this car", 1), [Fee(9, 12, "this car", 3) EXCEPT !.readable = FALSE],
       Fee(0, 9, "", 1), [Fee(0, 9, "", 1) EXCEPT !.site = 2],
       Fee(6, 12, "this car", -1), Fee(4, 40, "this car", 1) >>,
    << Fee(3, 40, "this car", 1), Fee(2, 41, "this car", 1), Fee(5, 12, "other car", 4) >> >>
=============================================================================
