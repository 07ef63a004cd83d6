----------------------------- MODULE MCBlueprint -----------------------------
(***************************************************************************)
(* An instance of Blueprint for TLC.  The first batch proposes two         *)
(* departments that share the capital, sales and the plant; an objective   *)
(* of the plant with two key results; and a KPI of sales that measures one *)
(* of them.  So an item may be approved along with the KPI although what   *)
(* it needs was rejected, and another item needs the same.  The second     *)
(* batch is one objective.                                                 *)
(***************************************************************************)
EXTENDS Blueprint, TLC

CONSTANTS first, second, sales, plant, growth, result, other, kpi, aim

MCItems     == {sales, plant, growth, result, other, kpi, aim}
MCBatchOf   == [i \in MCItems |-> IF i = aim THEN second ELSE first]
MCNeeds     == [i \in MCItems |->
                  CASE i = kpi              -> sales
                    [] i = growth             -> plant
                    [] i \in {result, other} -> growth
                    [] OTHER                -> Unborn]
MCLikes     == [i \in MCItems |-> IF i = kpi THEN result ELSE Unborn]
MCSharers   == {sales, plant}
MCClashers  == {sales, aim}
MCKindOrder == <<sales, plant, growth, aim, other, result, kpi>>

\* Bounds: the item that reaches all the others is the one that may be edited, the
\* second batch is not rejected, and sales is the department that may be deleted.
BlueprintBounds ==
  /\ \A i \in Items \ {kpi} : item[i] # "edited"
  /\ item[aim] # "rejected" /\ plant \notin dropped

=============================================================================
