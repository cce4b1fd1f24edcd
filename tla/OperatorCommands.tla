-------------------------- MODULE OperatorCommands --------------------------
(***************************************************************************)
(* The operator-command queue of one account: OperatorCommandService       *)
(* answers API requests (look up the idempotency key, write ledger and row *)
(* in one transaction, look up again after losing the race), and the       *)
(* OperatorCommandConsumer of each instance claims rows under a lease,     *)
(* fences the side effect with a claimed -> dispatched CAS, executes the   *)
(* command and writes the terminal status back.                            *)
(*                                                                         *)
(* A request that writes a row gives it its own fresh command_id, so rows  *)
(* are named by requests.  Each statement over the autocommit connection   *)
(* is one step; a lease is one bit, as only the claim's sweeps read it.    *)
(***************************************************************************)
EXTENDS Integers, FiniteSets

CONSTANTS
    Requests,       \* enqueue calls; naturals, in created_at order
    Keys,           \* (account, command type, idempotency_key) values
    Contracts,      \* payload, actor, reason and context of a request
    Inputs,         \* Inputs[r]: the (key or None, contract) pairs r may carry
    Workers,        \* instances that run a consumer for the account
    BatchSize, MaxAttempts,
    MaxFaults,      \* bound: crashes, DB and bus errors in a behaviour
    None

ASSUME RequestsAssumption == Requests \subseteq Nat
ASSUME InputsAssumption ==
    Inputs \in [Requests -> SUBSET ((Keys \cup {None}) \X Contracts)]
ASSUME CommandBoundsAssumption ==
    BatchSize \in Nat \ {0} /\ MaxAttempts \in Nat \ {0} /\ MaxFaults \in Nat
ASSUME NoneAssumption ==
    None \notin Keys \cup Contracts \cup Requests \cup (Workers \X Nat)

VARIABLES
    key, contract,  \* what each request carries
    ask,        \* request -> where its enqueue call is
    answer,     \* request -> the request whose row it was answered from
    ledger,     \* key -> the request that reserved it, or None
    status, attempts, owner, expired,            \* operator_commands
    pc, run, todo, cur, result, renewing,        \* one consumer per worker
    effects,    \* request -> times its side effect was executed
    crossed,    \* commands whose claimed -> dispatched CAS committed
    faults

rows == <<status, attempts, owner, expired>>
service == <<key, contract, ask, answer, ledger>>
local == <<pc, run, todo, cur, result, renewing>>
vars == <<key, contract, ask, answer, ledger, status, attempts, owner, expired, pc, run,
          todo, cur, result, renewing, effects, crossed, faults>>

Final == {"completed", "failed", "dead_lettered"}
Open == {"claimed", "dispatched"}
Answers == {"accepted", "replayed", "conflict", "race", "error"}

Init ==
    /\ key = [r \in Requests |-> None] /\ contract = [r \in Requests |-> None]
    /\ ask = [r \in Requests |-> "new"] /\ answer = [r \in Requests |-> None]
    /\ ledger = [k \in Keys |-> None]
    /\ status = [r \in Requests |-> "absent"] /\ attempts = [r \in Requests |-> 0]
    /\ owner = [r \in Requests |-> None] /\ expired = [r \in Requests |-> FALSE]
    /\ pc = [w \in Workers |-> "poll"] /\ run = [w \in Workers |-> 0]
    /\ todo = [w \in Workers |-> {}] /\ cur = [w \in Workers |-> None]
    /\ result = [w \in Workers |-> None] /\ renewing = [w \in Workers |-> FALSE]
    /\ effects = [r \in Requests |-> 0] /\ crossed = {} /\ faults = 0

Fault == faults < MaxFaults /\ faults' = faults + 1
Goto(w, p) == pc' = [pc EXCEPT ![w] = p]
Me(w) == <<w, run[w]>>
Keyed(r) == key[r] # None

(***************************************************************************)
(* OperatorCommandService.enqueue                                          *)
(***************************************************************************)
\* An API call arrives and its fields are normalised.
Arrive(r) ==
    /\ ask[r] = "new"
    /\ \E i \in Inputs[r] : key' = [key EXCEPT ![r] = i[1]]
                       /\ contract' = [contract EXCEPT ![r] = i[2]]
    /\ ask' = [ask EXCEPT ![r] = "lookup"]
    /\ UNCHANGED <<answer, ledger, rows, local, effects, crossed, faults>>

\* _find_existing
Existing(r) == {x \in Requests : Keyed(r) /\ status[x] # "absent" /\ key[x] = key[r]}

\* Plausible bug: contracts are compared by identity, a retry never matches.
SameContractIdentity(r, x) == r = x

SameContract(r, x) == contract[r] = contract[x]

Tell(r, a, x) ==
    /\ ask' = [ask EXCEPT ![r] = a]
    /\ answer' = [answer EXCEPT ![r] = x]

LookUp(r) ==
    /\ ask[r] = "lookup"
    /\ \/ Existing(r) = {} /\ Tell(r, "writing", None)
       \/ \E x \in Existing(r) :
             Tell(r, IF SameContract(r, x) THEN "replayed" ELSE "conflict", x)
    /\ UNCHANGED <<key, contract, ledger, rows, local, effects, crossed, faults>>

\* Plausible bug: no ledger, only the look-up protects the key.
ReservesAlways(r) == TRUE

Reserves(r) == Keyed(r) => ledger[key[r]] = None

Store(r) ==
    /\ ledger' = IF Keyed(r) THEN [ledger EXCEPT ![key[r]] = r] ELSE ledger
    /\ status' = [status EXCEPT ![r] = "pending"]

\* write_command_with_idempotency: ledger and row in one transaction.
Write(r) ==
    /\ ask[r] = "writing"
    /\ \/ Reserves(r) /\ Store(r) /\ Tell(r, "submitted", r)
       \/ ~Reserves(r) /\ Tell(r, "recheck", None) /\ UNCHANGED <<ledger, status>>
    /\ UNCHANGED <<key, contract, attempts, owner, expired, local, effects, crossed, faults>>

\* The lost race: the row of the winner is returned as it is.
Recheck(r) ==
    /\ ask[r] = "recheck"
    /\ IF Existing(r) = {} THEN Tell(r, "race", None)
       ELSE \E x \in Existing(r) : Tell(r, "replayed", x)
    /\ UNCHANGED <<key, contract, ledger, rows, local, effects, crossed, faults>>

EmitSubmitted(r) ==
    /\ ask[r] = "submitted"
    /\ Tell(r, "accepted", r)
    /\ UNCHANGED <<key, contract, ledger, rows, local, effects, crossed, faults>>

\* A DB call of the request or the command_submitted emit raises; a write may
\* have been committed before its connection was lost.
RequestFails(r) ==
    /\ ask[r] \in {"lookup", "writing", "recheck", "submitted"} /\ Fault
    /\ Tell(r, "error", None)
    /\ \/ ask[r] = "writing" /\ Reserves(r) /\ Store(r)
       \/ UNCHANGED <<ledger, status>>
    /\ UNCHANGED <<key, contract, attempts, owner, expired, local, effects, crossed>>

(***************************************************************************)
(* claim_operator_commands: four statements, each committed on its own.    *)
(***************************************************************************)
\* The rows of S get status s and lose their owner and lease.
Relabel(S, s) ==
    /\ status' = [r \in Requests |-> IF r \in S THEN s ELSE status[r]]
    /\ owner' = [r \in Requests |-> IF r \in S THEN None ELSE owner[r]]
    /\ expired' = [r \in Requests |-> expired[r] /\ r \notin S]

\* Plausible bug: an expired dispatched command is retried like a claimed one.
ReclaimableOpen(r) == status[r] \in Open /\ expired[r]

Reclaimable(r) == status[r] = "claimed" /\ expired[r]

SweepClaimed(w) ==
    /\ pc[w] = "poll"
    /\ Relabel({r \in Requests : Reclaimable(r)}, "pending")
    /\ Goto(w, "sweep_dispatched")
    /\ UNCHANGED <<service, attempts, run, todo, cur, result, renewing, effects,
                   crossed, faults>>

\* Plausible bug: the sweep of §0dm is missing.
AbandonedNever(r) == FALSE

Abandoned(r) == status[r] = "dispatched" /\ expired[r]

SweepDispatched(w) ==
    /\ pc[w] = "sweep_dispatched"
    /\ Relabel({r \in Requests : Abandoned(r)}, "dead_lettered")
    /\ Goto(w, "sweep_exhausted")
    /\ UNCHANGED <<service, attempts, run, todo, cur, result, renewing, effects,
                   crossed, faults>>

\* This statement also takes claimed rows whose lease ran out after the first
\* one, and leaves owner and lease columns as they are.
Exhausted(r) ==
    /\ attempts[r] >= MaxAttempts
    /\ status[r] = "pending" \/ (status[r] = "claimed" /\ expired[r])

SweepExhausted(w) ==
    /\ pc[w] = "sweep_exhausted"
    /\ status' = [r \in Requests |-> IF Exhausted(r) THEN "dead_lettered" ELSE status[r]]
    /\ Goto(w, "take")
    /\ UNCHANGED <<service, attempts, owner, expired, run, todo, cur, result,
                   renewing, effects, crossed, faults>>

Claimable == {r \in Requests : status[r] = "pending" /\ attempts[r] < MaxAttempts}

\* The oldest claimable rows, at most BatchSize of them.
Batch(S) ==
    /\ S \subseteq Claimable
    /\ Cardinality(S) = BatchSize \/ (S = Claimable /\ Cardinality(S) < BatchSize)
    /\ \A r \in S, x \in Claimable \ S : r < x

Take(w) ==
    /\ pc[w] = "take"
    /\ \E S \in SUBSET Requests :
          /\ Batch(S)
          /\ status' = [r \in Requests |-> IF r \in S THEN "claimed" ELSE status[r]]
          /\ attempts' = [r \in Requests |-> IF r \in S THEN attempts[r] + 1 ELSE attempts[r]]
          /\ owner' = [r \in Requests |-> IF r \in S THEN Me(w) ELSE owner[r]]
          /\ expired' = [r \in Requests |-> expired[r] /\ r \notin S]
          /\ todo' = [todo EXCEPT ![w] = S]
    /\ Goto(w, "batch")
    /\ UNCHANGED <<service, run, cur, result, renewing, effects, crossed, faults>>

ClaimFails(w) ==
    /\ pc[w] \in {"poll", "sweep_dispatched", "sweep_exhausted", "take"} /\ Fault
    /\ Goto(w, "poll")
    /\ UNCHANGED <<service, rows, run, todo, cur, result, renewing, effects, crossed>>

(***************************************************************************)
(* _worker_iteration and _process_command                                  *)
(***************************************************************************)
Begin(w) ==
    /\ pc[w] = "batch"
    /\ \E r \in todo[w] :
          /\ cur' = [cur EXCEPT ![w] = r]
          /\ todo' = [todo EXCEPT ![w] = @ \ {r}]
    /\ renewing' = [renewing EXCEPT ![w] = TRUE]
    /\ Goto(w, "heartbeat")
    /\ UNCHANGED <<service, rows, run, result, effects, crossed, faults>>

EndBatch(w) ==
    /\ pc[w] = "batch" /\ todo[w] = {}
    /\ Goto(w, "poll")
    /\ UNCHANGED <<service, rows, run, todo, cur, result, renewing, effects,
                   crossed, faults>>

\* A coding error in the emit of a dead-lettered or claimed row is let through:
\* the rest of the batch stays claimed until its leases expire.
IterationRaises(w) ==
    /\ pc[w] = "batch" /\ Fault
    /\ todo' = [todo EXCEPT ![w] = {}]
    /\ Goto(w, "poll")
    /\ UNCHANGED <<service, rows, run, cur, result, renewing, effects, crossed>>

\* heartbeat_operator_command: owner and open-status predicates.
Extends(w) ==
    expired' = [r \in Requests |->
        expired[r] /\ ~(r = cur[w] /\ owner[r] = Me(w) /\ status[r] \in Open)]

Heartbeat(w) ==
    /\ pc[w] = "heartbeat" /\ Extends(w)
    /\ Goto(w, "cas")
    /\ UNCHANGED <<service, status, attempts, owner, run, todo, cur, result,
                   renewing, effects, crossed, faults>>

\* The except branch of _process_command.
Raise(w) ==
    /\ result' = [result EXCEPT ![w] = "failed"]
    /\ Goto(w, "complete_failed")

HeartbeatFails(w) ==
    /\ pc[w] = "heartbeat" /\ Fault /\ Raise(w)
    /\ UNCHANGED <<service, rows, run, todo, cur, renewing, effects, crossed>>

CanDispatch(w, r) == status[r] = "claimed" /\ owner[r] = Me(w)

CommitDispatched(r) ==
    /\ status' = [status EXCEPT ![r] = "dispatched"]
    /\ crossed' = crossed \cup {r}

MarkDispatched(w) ==
    /\ pc[w] = "cas" /\ CanDispatch(w, cur[w])
    /\ CommitDispatched(cur[w])
    /\ Goto(w, "execute")
    /\ UNCHANGED <<service, attempts, owner, expired, run, todo, cur, result,
                   renewing, effects, faults>>

\* finally: the renewer ends, the in-flight marker is cleared.
Leave(w, p) ==
    /\ cur' = [cur EXCEPT ![w] = None] /\ result' = [result EXCEPT ![w] = None]
    /\ renewing' = [renewing EXCEPT ![w] = FALSE]
    /\ Goto(w, p)

Abandon(w) ==
    /\ pc[w] = "cas" /\ ~CanDispatch(w, cur[w])
    /\ Leave(w, "batch")
    /\ UNCHANGED <<service, rows, run, todo, effects, crossed, faults>>

MarkFails(w) ==
    /\ pc[w] = "cas" /\ Fault /\ Raise(w)
    /\ \/ CanDispatch(w, cur[w]) /\ CommitDispatched(cur[w])
       \/ UNCHANGED <<status, crossed>>
    /\ UNCHANGED <<service, attempts, owner, expired, run, todo, cur, renewing, effects>>

Execute(w) ==
    /\ pc[w] = "execute"
    /\ effects' = [effects EXCEPT ![cur[w]] = @ + 1]
    /\ result' = [result EXCEPT ![w] = "completed"]
    /\ Goto(w, "complete")
    /\ UNCHANGED <<service, rows, run, todo, cur, renewing, crossed, faults>>

\* _execute_command raised: an unsupported or rejected command, or an error
\* after part of its effect.
ExecuteRaises(w) ==
    /\ pc[w] = "execute" /\ Fault /\ Raise(w)
    /\ effects' = [effects EXCEPT ![cur[w]] = @ + 1]
    /\ UNCHANGED <<service, rows, run, todo, cur, renewing, crossed>>

CanComplete(w, r) == owner[r] = Me(w) /\ status[r] \in Open

\* complete_operator_command; no row updated means the lease was taken over.
WriteFinal(w, r) ==
    IF CanComplete(w, r)
    THEN /\ status' = [status EXCEPT ![r] = result[w]]
         /\ owner' = [owner EXCEPT ![r] = None]
         /\ expired' = [expired EXCEPT ![r] = FALSE]
    ELSE UNCHANGED <<status, owner, expired>>

AfterComplete(w) == IF pc[w] = "complete" THEN "emit" ELSE "emit_failed"

Complete(w) ==
    /\ pc[w] \in {"complete", "complete_failed"}
    /\ WriteFinal(w, cur[w])
    /\ Goto(w, AfterComplete(w))
    /\ UNCHANGED <<service, attempts, run, todo, cur, result, renewing, effects,
                   crossed, faults>>

CompleteFails(w) ==
    /\ pc[w] \in {"complete", "complete_failed"} /\ Fault
    /\ \/ WriteFinal(w, cur[w])
       \/ UNCHANGED <<status, owner, expired>>
    /\ Goto(w, AfterComplete(w))
    /\ UNCHANGED <<service, attempts, run, todo, cur, result, renewing, effects, crossed>>

\* Risk projection and the terminal event, both best effort.
Emit(w) ==
    /\ pc[w] \in {"emit", "emit_failed"}
    /\ Leave(w, "batch")
    /\ UNCHANGED <<service, rows, run, todo, effects, crossed, faults>>

\* A coding error in the emit is let through: into the except branch after a
\* success, out of the iteration (and the batch) after a failure.
EmitRaises(w) ==
    /\ Fault
    /\ \/ pc[w] = "emit" /\ Raise(w) /\ UNCHANGED <<todo, cur, renewing>>
       \/ /\ pc[w] = "emit_failed" /\ Leave(w, "poll")
          /\ todo' = [todo EXCEPT ![w] = {}]
    /\ UNCHANGED <<service, rows, run, effects, crossed>>

(***************************************************************************)
(* The renewer thread, time, and the life of a process                     *)
(***************************************************************************)
Renew(w) ==
    /\ renewing[w] /\ Extends(w)
    /\ UNCHANGED <<service, status, attempts, owner, local, effects, crossed, faults>>

RenewerDies(w) ==
    /\ renewing[w] /\ Fault
    /\ renewing' = [renewing EXCEPT ![w] = FALSE]
    /\ UNCHANGED <<service, rows, pc, run, todo, cur, result, effects, crossed>>

LeaseExpires(r) ==
    /\ status[r] \in Open /\ ~expired[r]
    /\ expired' = [expired EXCEPT ![r] = TRUE]
    /\ UNCHANGED <<service, status, attempts, owner, local, effects, crossed, faults>>

\* The stop event is read at the loop head and between two items.
Stop(w) ==
    /\ pc[w] \in {"poll", "batch"} /\ Fault
    /\ todo' = [todo EXCEPT ![w] = {}]
    /\ Goto(w, "stopped")
    /\ UNCHANGED <<service, rows, run, cur, result, renewing, effects, crossed>>

Start(w) ==
    /\ pc[w] = "stopped"
    /\ Goto(w, "poll")
    /\ UNCHANGED <<service, rows, run, todo, cur, result, renewing, effects,
                   crossed, faults>>

Crash(w) ==
    /\ pc[w] # "down" /\ Fault
    /\ Leave(w, "down")
    /\ todo' = [todo EXCEPT ![w] = {}]
    /\ UNCHANGED <<service, rows, run, effects, crossed>>

\* A new process of the instance has a run_id of its own.
Restart(w) ==
    /\ pc[w] = "down"
    /\ run' = [run EXCEPT ![w] = @ + 1]
    /\ Goto(w, "poll")
    /\ UNCHANGED <<service, rows, todo, cur, result, renewing, effects, crossed, faults>>

-----------------------------------------------------------------------------
RequestStep(r) == Arrive(r) \/ LookUp(r) \/ Write(r) \/ Recheck(r) \/ EmitSubmitted(r)

WorkerStep(w) ==
    \/ SweepClaimed(w) \/ SweepDispatched(w) \/ SweepExhausted(w) \/ Take(w)
    \/ Begin(w) \/ EndBatch(w) \/ Heartbeat(w) \/ MarkDispatched(w) \/ Abandon(w)
    \/ Execute(w) \/ Complete(w) \/ Emit(w) \/ Start(w) \/ Restart(w)

WorkerFault(w) ==
    \/ ClaimFails(w) \/ IterationRaises(w) \/ HeartbeatFails(w) \/ MarkFails(w) \/ ExecuteRaises(w)
    \/ CompleteFails(w) \/ EmitRaises(w) \/ RenewerDies(w) \/ Stop(w) \/ Crash(w)

Next ==
    \/ \E r \in Requests : RequestStep(r) \/ RequestFails(r) \/ LeaseExpires(r)
    \/ \E w \in Workers : WorkerStep(w) \/ WorkerFault(w) \/ Renew(w)

Spec == Init /\ [][Next]_vars

Fairness ==
    /\ \A w \in Workers : WF_vars(WorkerStep(w))
    /\ \A r \in Requests : WF_vars(LeaseExpires(r))

FairSpec == Spec /\ Fairness

-----------------------------------------------------------------------------
(***************************************************************************)
(* Properties                                                              *)
(***************************************************************************)
\* Types of the service's requests, the table and the consumers.
TypeOK ==
    /\ key \in [Requests -> Keys \cup {None}]
    /\ contract \in [Requests -> Contracts \cup {None}]
    /\ ask \in [Requests -> {"new", "lookup", "writing", "recheck", "submitted"} \cup Answers]
    /\ answer \in [Requests -> Requests \cup {None}]
    /\ ledger \in [Keys -> Requests \cup {None}]
    /\ status \in [Requests -> {"absent", "pending"} \cup Open \cup Final]
    /\ attempts \in [Requests -> Nat] /\ expired \in [Requests -> BOOLEAN]
    /\ owner \in [Requests -> (Workers \X Nat) \cup {None}]
    /\ run \in [Workers -> Nat] /\ todo \in [Workers -> SUBSET Requests]
    /\ cur \in [Workers -> Requests \cup {None}]
    /\ result \in [Workers -> Final \cup {None}]
    /\ renewing \in [Workers -> BOOLEAN]
    /\ effects \in [Requests -> Nat] /\ crossed \subseteq Requests

\* However requests are retried and consumers die, one idempotency key causes
\* at most one execution of _execute_command (ledger plus dispatch fence).
OneEffectPerKey ==
    \A r, x \in Requests :
        (effects[r] > 0 /\ effects[x] > 0 /\ Keyed(r) /\ key[r] = key[x])
            => r = x /\ effects[r] = 1

\* The answer of enqueue is about a stored command of the same key, a conflict
\* is raised only against a different contract, and a key is never reserved
\* without its command: the "concurrent reservation race" error is never raised
\* and no key is blocked for ever.
AnswersAreGrounded ==
    /\ TypeOK
    /\ \A r \in Requests :
          /\ ask[r] # "race"
          /\ ask[r] = "accepted" => status[r] # "absent"
          /\ ask[r] \in {"replayed", "conflict"} =>
                status[answer[r]] # "absent" /\ key[answer[r]] = key[r]
          /\ ask[r] = "conflict" => contract[answer[r]] # contract[r]
    /\ \A k \in Keys : ledger[k] # None => status[ledger[k]] # "absent"

\* Every stored command reaches a final status, although its consumer may
\* crash, stop in mid-batch or lose the database at any step.
EveryCommandSettles ==
    \A r \in Requests : status[r] # "absent" ~> status[r] \in Final

stageOf ==
    [r \in Requests |->
        CASE status[r] = "absent" -> "new"
          [] status[r] \in {"pending", "claimed"} -> "queued"
          [] status[r] = "dispatched" -> "committed"
          [] OTHER -> IF r \in crossed THEN "settled" ELSE "dropped"]

Delivery == INSTANCE IntentDelivery
            WITH Keys <- Requests, Groups <- {{r} : r \in Requests},
                 stage <- stageOf, executions <- effects

\* The command queue keeps the same promise as the intent queue: accepted,
\* committed, executed at most once, settled, in that order.
RefinesDelivery == Delivery!Spec
=============================================================================
