--------------------------- MODULE MCPendingOrders ---------------------------
(* Pending orders of a small account: g1 is an OCO group of two members, g2 *)
(* and g3 are single orders in opposite directions; all of one strategy.    *)
EXTENDS PendingOrders, TLC

CONSTANTS g1, g2, g3, limit, stop

MCMembersOf == [g \in Groups |-> IF g = g1 THEN {limit, stop} ELSE {limit}]
MCDirOf == [g \in Groups |-> IF g = g2 THEN "sell" ELSE "buy"]
MCStrategyOf == [g \in Groups |-> "s1"]

\* The members of g1 are interchangeable (not sound with g2 or g3).
MemberSymmetry == Permutations({limit, stop})
=============================================================================
