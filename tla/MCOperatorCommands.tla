------------------------- MODULE MCOperatorCommands -------------------------
(* Two racing requests against the operator-command queue, for TLC.       *)
EXTENDS OperatorCommands

CONSTANTS k1, w1, w2, p, q

\* The second request reuses the key of the first, as a retry or for another
\* contract.
RacingInputs == [r \in Requests |-> {k1} \X (IF r = 1 THEN {p} ELSE {p, q})]
=============================================================================
