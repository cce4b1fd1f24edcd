--------------------------- MODULE IntentDelivery ---------------------------
(***************************************************************************)
(* What the intent queue promises the rest of the platform: a group of     *)
(* order keys is accepted as a whole; an accepted key is either committed  *)
(* to the broker or dropped, for good; a committed key is executed at most *)
(* once; a settled key stays settled.  Leases, attempts, processes and     *)
(* database errors are not visible at this level.                          *)
(***************************************************************************)
EXTENDS Naturals

CONSTANTS Keys, Groups

VARIABLES stage, executions

vars == <<stage, executions>>

Init ==
    /\ stage = [k \in Keys |-> "new"]
    /\ executions = [k \in Keys |-> 0]

Move(S, from, to) ==
    /\ \A k \in S : stage[k] = from
    /\ stage' = [k \in Keys |-> IF k \in S THEN to ELSE stage[k]]
    /\ UNCHANGED executions

Accept(G) == Move(G, "new", "queued")
Commit(k) == Move({k}, "queued", "committed")
Drop(S) == Move(S, "queued", "dropped")
Settle(S) == Move(S, "committed", "settled")

\* The broker call may come after the key was settled: giving up on a
\* committed key does not recall a call that is still under way.
Execute(k) ==
    /\ stage[k] \in {"committed", "settled"}
    /\ executions[k] = 0
    /\ executions' = [executions EXCEPT ![k] = 1]
    /\ UNCHANGED stage

Next ==
    \/ \E G \in Groups : Accept(G)
    \/ \E k \in Keys : Commit(k) \/ Execute(k)
    \/ \E S \in SUBSET Keys : Drop(S) \/ Settle(S)

Spec == Init /\ [][Next]_vars
=============================================================================
