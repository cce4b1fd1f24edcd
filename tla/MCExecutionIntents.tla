------------------------- MODULE MCExecutionIntents -------------------------
(* Small instances of the execution-intent queue for TLC.                  *)
EXTENDS ExecutionIntents, TLC

CONSTANTS a1, a2, w1, w2, i1, i2, i3

OneAccount == [s \in Signals |-> {a1}]
BothAccounts == [s \in Signals |-> {a1, a2}]
SameAccount == [w \in Workers |-> a1]

Symmetry == Permutations(Ids) \cup Permutations(Workers)
=============================================================================
