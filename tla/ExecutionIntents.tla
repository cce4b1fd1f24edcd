-------------------------- MODULE ExecutionIntents --------------------------
(***************************************************************************)
(* The execution-intent queue: the publisher of the main instance writes   *)
(* one row per (signal, account) behind an idempotency ledger, and the     *)
(* consumers of the executor instances claim rows under a lease, fence the *)
(* broker call with a claimed -> dispatched compare-and-set, run the trade *)
(* executor and write the terminal status back.                            *)
(*                                                                         *)
(* The table is reached over an autocommit connection: each SQL statement  *)
(* is one step, and claim_execution_intents is FOUR of them.               *)
(* Wall-clock time is abstracted to one bit per row, expired[i]: only the  *)
(* lease sweeps of a claim read a lease, so "lease_expires_at < now" may   *)
(* become true at any moment of a lease's life.                            *)
(***************************************************************************)
EXTENDS Integers, FiniteSets

CONSTANTS
    Signals,        \* signal_id values; naturals, in generated_at order
    Accounts,       \* target_account_key values
    Targets,        \* Targets[s]: accounts bound to the strategy of signal s
    Ids,            \* the uuid4 intent_id values
    Workers,        \* instance_id of each process that runs a consumer
    AccountOf,      \* AccountOf[w]: runtime_identity.account_key of w
    BatchSize,      \* batch_size: LIMIT of the claim
    MaxAttempts,    \* max_attempts
    MaxDeliveries,  \* bound: times one signal event reaches the publisher
    MaxFaults,      \* bound: crashes, stops, DB and bus errors in a behaviour
    None            \* SQL NULL / Python None

ASSUME SignalsAssumption == Signals \subseteq Nat
ASSUME TargetsAssumption == Targets \in [Signals -> SUBSET Accounts]
ASSUME AccountOfAssumption == AccountOf \in [Workers -> Accounts]
ASSUME BoundsAssumption ==
    /\ BatchSize \in Nat \ {0} /\ MaxAttempts \in Nat \ {0}
    /\ MaxDeliveries \in Nat /\ MaxFaults \in Nat

Keys == Signals \X Accounts          \* intent_key = "signal_id:account_key"

Terminal == {"completed", "failed", "skipped", "dead_lettered"}

ASSUME NoneAssumption == None \notin Ids \cup (Workers \X Nat) \cup Keys \cup Terminal

Statuses == {"absent", "pending", "claimed", "dispatched"} \cup Terminal

\* What TradeExecutor.process_event may hand back to the consumer.
RawResults == {"none", "blocked", "skipped", "failed", "ok"}

VARIABLES
    \* execution_intent_idempotency and execution_intents (PostgreSQL)
    ledger,      \* intent_key -> intent_id that reserved it, or None
    keyOf,       \* intent_id  -> intent_key, None while there is no row
    status, attempts, owner, expired,
    \* one consumer thread per worker process
    pc, run, todo, cur, result, renewing, found,
    \* history: what the outside world saw
    deliveries,  \* deliveries[s]: on_signal_event calls for signal s
    dispatches,  \* dispatches[i]: process_event calls made for intent i
    outcome,     \* outcome[i]: terminal status process_event stood for
    crossed,     \* intents whose claimed -> dispatched CAS committed
    announced,   \* intents with an intent_dead_lettered pipeline event
    lost,        \* intents whose complete_fn raised in _safe_complete
    faults

table == <<ledger, keyOf, status, attempts, owner, expired>>
local == <<pc, run, todo, cur, result, renewing, found>>
history == <<deliveries, dispatches, outcome, crossed, announced, lost>>
vars == <<table, local, history, faults>>

Pcs == {"down", "stopped", "poll", "sweep_dispatched", "sweep_exhausted",
        "take", "announce", "batch", "heartbeat", "cas", "process",
        "complete", "emit", "complete_failed", "emit_failed"}

\* pcs of _process_intent: the in-flight intent and its renewer exist
InFlight == {"heartbeat", "cas", "process",
             "complete", "emit", "complete_failed", "emit_failed"}

TypeOK ==
    /\ ledger \in [Keys -> Ids \cup {None}]
    /\ keyOf \in [Ids -> Keys \cup {None}]
    /\ status \in [Ids -> Statuses]
    /\ attempts \in [Ids -> Nat]
    /\ owner \in [Ids -> (Workers \X Nat) \cup {None}]
    /\ expired \in [Ids -> BOOLEAN]
    /\ pc \in [Workers -> Pcs]
    /\ run \in [Workers -> Nat]
    /\ todo \in [Workers -> SUBSET Ids]
    /\ cur \in [Workers -> Ids \cup {None}]
    /\ result \in [Workers -> Terminal \cup {None}]
    /\ renewing \in [Workers -> BOOLEAN]
    /\ found \in [Workers -> SUBSET Ids]
    /\ deliveries \in [Signals -> Nat]
    /\ dispatches \in [Ids -> Nat]
    /\ outcome \in [Ids -> Terminal \cup {None}]
    /\ crossed \subseteq Ids /\ announced \subseteq Ids /\ lost \subseteq Ids
    /\ faults \in Nat

Init ==
    /\ ledger = [k \in Keys |-> None]
    /\ keyOf = [i \in Ids |-> None]
    /\ status = [i \in Ids |-> "absent"]
    /\ attempts = [i \in Ids |-> 0]
    /\ owner = [i \in Ids |-> None]
    /\ expired = [i \in Ids |-> FALSE]
    /\ pc = [w \in Workers |-> "poll"]
    /\ run = [w \in Workers |-> 0]
    /\ todo = [w \in Workers |-> {}]
    /\ cur = [w \in Workers |-> None]
    /\ result = [w \in Workers |-> None]
    /\ renewing = [w \in Workers |-> FALSE]
    /\ found = [w \in Workers |-> {}]
    /\ deliveries = [s \in Signals |-> 0]
    /\ dispatches = [i \in Ids |-> 0]
    /\ outcome = [i \in Ids |-> None]
    /\ crossed = {} /\ announced = {} /\ lost = {}
    /\ faults = 0

Me(w) == <<w, run[w]>>
Mine(w) == {i \in Ids : keyOf[i] # None /\ keyOf[i][2] = AccountOf[w]}
Owned(w, i) == owner[i] = Me(w)
Goto(w, p) == pc' = [pc EXCEPT ![w] = p]
Fault == faults < MaxFaults /\ faults' = faults + 1

-----------------------------------------------------------------------------
(* ExecutionIntentPublisher.on_signal_event and the atomic write it makes. *)

Unreserved(s) == {k \in {s} \X Targets[s] : ledger[k] = None}
FreeIds == {i \in Ids : keyOf[i] = None}

\* Plausible bug: the ledger insert commits on its own and the row insert fails.
WriteIntentsLedgerOnly(s, f) ==
    /\ ledger' = [k \in Keys |-> IF k \in DOMAIN f THEN f[k] ELSE ledger[k]]
    /\ UNCHANGED <<keyOf, status>>

\* One transaction: each key the ledger accepts gets a pending row under a
\* fresh intent_id; keys already in the ledger are suppressed as duplicates.
WriteIntents(s, f) ==
    /\ ledger' = [k \in Keys |-> IF k \in DOMAIN f THEN f[k] ELSE ledger[k]]
    /\ keyOf' = [i \in Ids |-> IF \E k \in DOMAIN f : f[k] = i
                               THEN CHOOSE k \in DOMAIN f : f[k] = i
                               ELSE keyOf[i]]
    /\ status' = [i \in Ids |-> IF \E k \in DOMAIN f : f[k] = i
                                THEN "pending" ELSE status[i]]

Publish(s) ==
    /\ deliveries[s] < MaxDeliveries
    /\ deliveries' = [deliveries EXCEPT ![s] = @ + 1]
    /\ \E f \in [Unreserved(s) -> FreeIds] :
          /\ \A j, k \in Unreserved(s) : f[j] = f[k] => j = k
          /\ WriteIntents(s, f)
    /\ UNCHANGED <<attempts, owner, expired, local,
                   dispatches, outcome, crossed, announced, lost, faults>>

\* The transaction raised: rolled back as a whole, the event is dropped.
PublishFails(s) ==
    /\ deliveries[s] < MaxDeliveries
    /\ deliveries' = [deliveries EXCEPT ![s] = @ + 1]
    /\ Fault
    /\ UNCHANGED <<table, local, dispatches, outcome, crossed, announced, lost>>

-----------------------------------------------------------------------------
(* claim_execution_intents: four statements, each committed on its own.    *)

\* Plausible bug: an expired dispatched row is made claimable like a claimed one.
ReclaimableAnyLease(i) == status[i] \in {"claimed", "dispatched"} /\ expired[i]

\* Plausible bug: a lost lease is never noticed.
ReclaimableNever(i) == FALSE

Reclaimable(i) == status[i] = "claimed" /\ expired[i]

SweepClaimed(w) ==
    /\ pc[w] = "poll"
    /\ LET S == {i \in Mine(w) : Reclaimable(i)}
       IN  /\ status' = [i \in Ids |-> IF i \in S THEN "pending" ELSE status[i]]
           /\ owner' = [i \in Ids |-> IF i \in S THEN None ELSE owner[i]]
           /\ expired' = [i \in Ids |-> IF i \in S THEN FALSE ELSE expired[i]]
    /\ Goto(w, "sweep_dispatched")
    /\ UNCHANGED <<ledger, keyOf, attempts, run, todo, cur, result, renewing,
                   found, history, faults>>

DeadLetter(S) ==
    /\ status' = [i \in Ids |-> IF i \in S THEN "dead_lettered" ELSE status[i]]
    /\ owner' = [i \in Ids |-> IF i \in S THEN None ELSE owner[i]]
    /\ expired' = [i \in Ids |-> IF i \in S THEN FALSE ELSE expired[i]]

SweepDispatched(w) ==
    /\ pc[w] = "sweep_dispatched"
    /\ LET S == {i \in Mine(w) : status[i] = "dispatched" /\ expired[i]}
       IN  /\ DeadLetter(S)
           /\ found' = [found EXCEPT ![w] = @ \cup S]
    /\ Goto(w, "sweep_exhausted")
    /\ UNCHANGED <<ledger, keyOf, attempts, run, todo, cur, result, renewing,
                   history, faults>>

Exhausted(i) == attempts[i] >= MaxAttempts

SweepExhausted(w) ==
    /\ pc[w] = "sweep_exhausted"
    /\ LET S == {i \in Mine(w) : status[i] = "pending" /\ Exhausted(i)}
       IN  /\ DeadLetter(S)
           /\ found' = [found EXCEPT ![w] = @ \cup S]
    /\ Goto(w, "take")
    /\ UNCHANGED <<ledger, keyOf, attempts, run, todo, cur, result, renewing,
                   history, faults>>

Claimable(w) == {i \in Mine(w) : status[i] = "pending" /\ ~Exhausted(i)}

\* ORDER BY created_at LIMIT batch: the oldest rows, at most BatchSize.
OldestBatch(w, S) ==
    /\ S \subseteq Claimable(w)
    /\ \/ Cardinality(S) = BatchSize
       \/ S = Claimable(w) /\ Cardinality(S) < BatchSize
    /\ \A i \in S, j \in Claimable(w) \ S : keyOf[i][1] <= keyOf[j][1]

Take(w) ==
    /\ pc[w] = "take"
    /\ \E S \in SUBSET Ids :
          /\ OldestBatch(w, S)
          /\ status' = [i \in Ids |-> IF i \in S THEN "claimed" ELSE status[i]]
          /\ attempts' = [i \in Ids |-> IF i \in S THEN attempts[i] + 1
                                                   ELSE attempts[i]]
          /\ owner' = [i \in Ids |-> IF i \in S THEN Me(w) ELSE owner[i]]
          /\ expired' = [i \in Ids |-> IF i \in S THEN FALSE ELSE expired[i]]
          /\ todo' = [todo EXCEPT ![w] = S]
    /\ Goto(w, "announce")
    /\ UNCHANGED <<ledger, keyOf, run, cur, result, renewing, found,
                   history, faults>>

\* A statement of the claim raised. What the earlier statements committed
\* stays; the rows they RETURNed are lost with the exception.
ClaimFails(w) ==
    /\ pc[w] \in {"poll", "sweep_dispatched", "sweep_exhausted", "take"}
    /\ Fault
    /\ Goto(w, "poll")
    /\ found' = [found EXCEPT ![w] = {}]
    /\ UNCHANGED <<table, run, todo, cur, result, renewing, history>>

-----------------------------------------------------------------------------
(* _worker_iteration after the claim.                                      *)

Announce(w) ==
    /\ pc[w] = "announce"
    /\ announced' = announced \cup found[w]
    /\ found' = [found EXCEPT ![w] = {}]
    /\ Goto(w, "batch")
    /\ UNCHANGED <<table, run, todo, cur, result, renewing,
                   deliveries, dispatches, outcome, crossed, lost, faults>>

\* RETURNING gives the claimed rows in no particular order.
BeginIntent(w) ==
    /\ pc[w] = "batch"
    /\ \E i \in todo[w] :
          /\ cur' = [cur EXCEPT ![w] = i]
          /\ todo' = [todo EXCEPT ![w] = @ \ {i}]
    /\ renewing' = [renewing EXCEPT ![w] = TRUE]
    /\ Goto(w, "heartbeat")
    /\ UNCHANGED <<table, run, result, found, history, faults>>

EndBatch(w) ==
    /\ pc[w] = "batch" /\ todo[w] = {}
    /\ Goto(w, "poll")
    /\ UNCHANGED <<table, run, todo, cur, result, renewing, found,
                   history, faults>>

\* A coding error in the emit of a reclaimed, dead-lettered or claimed row is
\* let through: the rows not yet begun stay claimed until their leases expire.
IterationRaises(w) ==
    /\ pc[w] = "announce" \/ (pc[w] = "batch" /\ todo[w] # {})
    /\ Fault
    /\ \E S \in SUBSET found[w] : announced' = announced \cup S
    /\ todo' = [todo EXCEPT ![w] = {}]
    /\ found' = [found EXCEPT ![w] = {}]
    /\ Goto(w, "poll")
    /\ UNCHANGED <<table, run, cur, result, renewing,
                   deliveries, dispatches, outcome, crossed, lost>>

-----------------------------------------------------------------------------
(* _process_intent.                                                        *)

\* heartbeat_execution_intent: owner predicate only.
RenewLease(w) ==
    expired' = [i \in Ids |-> IF i = cur[w] /\ Owned(w, i) THEN FALSE
                                                           ELSE expired[i]]

Heartbeat(w) ==
    /\ pc[w] = "heartbeat"
    /\ RenewLease(w)
    /\ Goto(w, "cas")
    /\ UNCHANGED <<ledger, keyOf, status, attempts, owner, run, todo, cur,
                   result, renewing, found, history, faults>>

\* The except branch of _process_intent.
Raise(w) ==
    /\ result' = [result EXCEPT ![w] = "failed"]
    /\ Goto(w, "complete_failed")

\* The entry heartbeat or decoding the payload raised.
PrepareFails(w) ==
    /\ pc[w] = "heartbeat"
    /\ Fault
    /\ Raise(w)
    /\ UNCHANGED <<table, run, todo, cur, renewing, found, history>>

\* Plausible bug: the CAS checks the status and not the owner.
CanDispatchAnyOwner(w, i) == status[i] \in {"claimed", "dispatched"}

CanDispatch(w, i) == status[i] = "claimed" /\ Owned(w, i)

\* mark_intent_dispatched
CommitDispatched(w, i) ==
    /\ status' = [status EXCEPT ![i] = "dispatched"]
    /\ crossed' = crossed \cup {i}

MarkDispatched(w) ==
    /\ pc[w] = "cas"
    /\ CanDispatch(w, cur[w])
    /\ CommitDispatched(w, cur[w])
    /\ Goto(w, "process")
    /\ UNCHANGED <<ledger, keyOf, attempts, owner, expired, run, todo, cur,
                   result, renewing, found,
                   deliveries, dispatches, outcome, announced, lost, faults>>

\* finally: the renewer is stopped and the in-flight marker cleared.
Leave(w, p) ==
    /\ cur' = [cur EXCEPT ![w] = None]
    /\ renewing' = [renewing EXCEPT ![w] = FALSE]
    /\ result' = [result EXCEPT ![w] = None]
    /\ Goto(w, p)

Abandon(w) ==
    /\ pc[w] = "cas"
    /\ ~CanDispatch(w, cur[w])
    /\ Leave(w, "batch")
    /\ UNCHANGED <<table, run, todo, found, history, faults>>

\* Plausible bug: an error of the CAS is logged and the intent is processed anyway.
MarkFailsIgnored(w) ==
    /\ pc[w] = "cas"
    /\ Fault
    /\ Goto(w, "process")
    /\ UNCHANGED <<table, run, todo, cur, result, renewing, found, history>>

\* The CAS raised; the server may or may not have committed it.
MarkFails(w) ==
    /\ pc[w] = "cas"
    /\ Fault
    /\ \/ CanDispatch(w, cur[w]) /\ CommitDispatched(w, cur[w])
       \/ UNCHANGED <<status, crossed>>
    /\ Raise(w)
    /\ UNCHANGED <<ledger, keyOf, attempts, owner, expired, run, todo, cur,
                   renewing, found,
                   deliveries, dispatches, outcome, announced, lost>>

\* Plausible bug: the status of the result is stored as it came.
TerminalOfUnmapped(r) == IF r = "none" THEN "skipped" ELSE r

\* interpret_terminal_result
TerminalOf(r) ==
    CASE r = "none" -> "skipped"
      [] r \in {"blocked", "skipped"} -> "skipped"
      [] r = "failed" -> "failed"
      [] OTHER -> "completed"

ProcessEvent(w) ==
    /\ pc[w] = "process"
    /\ dispatches' = [dispatches EXCEPT ![cur[w]] = @ + 1]
    /\ \E r \in RawResults :
          /\ outcome' = [outcome EXCEPT ![cur[w]] = TerminalOf(r)]
          /\ result' = [result EXCEPT ![w] = TerminalOf(r)]
    /\ Goto(w, "complete")
    /\ UNCHANGED <<table, run, todo, cur, renewing, found,
                   deliveries, crossed, announced, lost, faults>>

\* process_event raised after it may have reached the broker.
ProcessEventRaises(w) ==
    /\ pc[w] = "process"
    /\ Fault
    /\ dispatches' = [dispatches EXCEPT ![cur[w]] = @ + 1]
    /\ outcome' = [outcome EXCEPT ![cur[w]] = "failed"]
    /\ Raise(w)
    /\ UNCHANGED <<table, run, todo, cur, renewing, found,
                   deliveries, crossed, announced, lost>>

\* Plausible bug: any worker may complete a row that is still open.
CanCompleteAnyOwner(w, i) == status[i] \in {"claimed", "dispatched"}

CanComplete(w, i) == Owned(w, i) /\ status[i] \in {"claimed", "dispatched"}

\* complete_execution_intent; 0 rows updated means the lease was taken over.
WriteTerminal(w, i) ==
    IF CanComplete(w, i)
    THEN /\ status' = [status EXCEPT ![i] = result[w]]
         /\ owner' = [owner EXCEPT ![i] = None]
         /\ expired' = [expired EXCEPT ![i] = FALSE]
    ELSE UNCHANGED <<status, owner, expired>>

AfterComplete(w) == IF pc[w] = "complete" THEN "emit" ELSE "emit_failed"

Complete(w) ==
    /\ pc[w] \in {"complete", "complete_failed"}
    /\ WriteTerminal(w, cur[w])
    /\ Goto(w, AfterComplete(w))
    /\ UNCHANGED <<ledger, keyOf, attempts, run, todo, cur, result, renewing,
                   found, history, faults>>

\* complete_fn raised: swallowed by _safe_complete, applied or not.
CompleteFails(w) ==
    /\ pc[w] \in {"complete", "complete_failed"}
    /\ Fault
    /\ \/ WriteTerminal(w, cur[w])
       \/ UNCHANGED <<status, owner, expired>>
    /\ lost' = lost \cup {cur[w]}
    /\ Goto(w, AfterComplete(w))
    /\ UNCHANGED <<ledger, keyOf, attempts, run, todo, cur, result, renewing,
                   found, deliveries, dispatches, outcome, crossed, announced>>

EmitTerminal(w) ==
    /\ pc[w] \in {"emit", "emit_failed"}
    /\ Leave(w, "batch")
    /\ UNCHANGED <<table, run, todo, found, history, faults>>

\* A coding error in the terminal emit is not swallowed: on the success path
\* it enters the except branch, on the failure path it leaves the iteration
\* and drops the rest of the batch.
EmitTerminalRaises(w) ==
    /\ Fault
    /\ \/ /\ pc[w] = "emit"
          /\ Raise(w)
          /\ UNCHANGED <<todo, cur, renewing>>
       \/ /\ pc[w] = "emit_failed"
          /\ Leave(w, "poll")
          /\ todo' = [todo EXCEPT ![w] = {}]
    /\ UNCHANGED <<table, run, found, history>>

-----------------------------------------------------------------------------
(* The renewer thread, time, and the life of the process.                  *)

Renew(w) ==
    /\ renewing[w]
    /\ RenewLease(w)
    /\ UNCHANGED <<ledger, keyOf, status, attempts, owner, local,
                   history, faults>>

RenewerDies(w) ==
    /\ renewing[w]
    /\ Fault
    /\ renewing' = [renewing EXCEPT ![w] = FALSE]
    /\ UNCHANGED <<table, pc, run, todo, cur, result, found, history>>

LeaseExpires(i) ==
    /\ owner[i] # None /\ ~expired[i]
    /\ expired' = [expired EXCEPT ![i] = TRUE]
    /\ UNCHANGED <<ledger, keyOf, status, attempts, owner, local,
                   history, faults>>

\* stop_event is read at the loop head and between two items of a batch.
StopWorker(w) ==
    /\ pc[w] \in {"poll", "batch"}
    /\ Fault
    /\ todo' = [todo EXCEPT ![w] = {}]
    /\ Goto(w, "stopped")
    /\ UNCHANGED <<table, run, cur, result, renewing, found, history>>

StartWorker(w) ==
    /\ pc[w] = "stopped"
    /\ Goto(w, "poll")
    /\ UNCHANGED <<table, run, todo, cur, result, renewing, found,
                   history, faults>>

Crash(w) ==
    /\ pc[w] # "down"
    /\ Fault
    /\ Leave(w, "down")
    /\ todo' = [todo EXCEPT ![w] = {}]
    /\ found' = [found EXCEPT ![w] = {}]
    /\ UNCHANGED <<table, run, history>>

\* A new process of the same instance has a run_id of its own.
Restart(w) ==
    /\ pc[w] = "down"
    /\ run' = [run EXCEPT ![w] = @ + 1]
    /\ Goto(w, "poll")
    /\ UNCHANGED <<table, todo, cur, result, renewing, found, history, faults>>

-----------------------------------------------------------------------------

WorkerStep(w) ==
    \/ SweepClaimed(w) \/ SweepDispatched(w) \/ SweepExhausted(w) \/ Take(w)
    \/ Announce(w) \/ BeginIntent(w) \/ EndBatch(w)
    \/ Heartbeat(w) \/ MarkDispatched(w) \/ Abandon(w) \/ ProcessEvent(w)
    \/ Complete(w) \/ EmitTerminal(w)
    \/ StartWorker(w) \/ Restart(w)

WorkerFault(w) ==
    \/ ClaimFails(w) \/ IterationRaises(w) \/ PrepareFails(w) \/ MarkFails(w)
    \/ ProcessEventRaises(w) \/ CompleteFails(w) \/ EmitTerminalRaises(w)
    \/ RenewerDies(w) \/ StopWorker(w) \/ Crash(w)

Next ==
    \/ \E s \in Signals : Publish(s) \/ PublishFails(s)
    \/ \E w \in Workers : WorkerStep(w) \/ WorkerFault(w) \/ Renew(w)
    \/ \E i \in Ids : LeaseExpires(i)

Fairness ==
    /\ \A w \in Workers : WF_vars(WorkerStep(w))
    /\ \A i \in Ids : WF_vars(LeaseExpires(i))

Spec == Init /\ [][Next]_vars
FairSpec == Spec /\ Fairness

-----------------------------------------------------------------------------
(* Properties.                                                             *)

\* At most one process_event call is ever made for an intent_key, whatever
\* happens to leases, processes and connections: the promise of the ledger of
\* write_intents_with_idempotency and of the mark_intent_dispatched fence.
AtMostOnceDispatch ==
    \A i, j \in Ids :
       (keyOf[i] # None /\ keyOf[i] = keyOf[j]
          /\ dispatches[i] > 0 /\ dispatches[j] > 0)
       => i = j /\ dispatches[i] = 1

\* The ledger and the intent table agree: a reserved key has exactly the row
\* the ledger names, and a signal is reserved for all its accounts or none
\* (write_intents_with_idempotency is one transaction).
LedgerMatchesRows ==
    /\ \A k \in Keys : ledger[k] # None => keyOf[ledger[k]] = k
    /\ \A i \in Ids : keyOf[i] # None => ledger[keyOf[i]] = i
    /\ \A s \in Signals : \A a, b \in Targets[s] :
          ledger[<<s, a>>] # None => ledger[<<s, b>>] # None

\* A terminal status is true: what a consumer wrote is what process_event
\* really returned for that intent, unless complete_fn raised for it, so that a
\* worker that lost its lease never overwrites the result of the worker that
\* took over; and claim_execution_intents gives an intent up only after all
\* its attempts were used or its dispatch fence was crossed (owner, status and
\* attempt predicates of the repository's statements).
RecordedOutcomeIsReal ==
    \A i \in Ids :
       /\ status[i] \in {"completed", "skipped"} => outcome[i] = status[i]
       /\ status[i] = "failed" /\ outcome[i] \in {"completed", "skipped"}
             => i \in lost
       /\ status[i] = "dead_lettered" => attempts[i] = MaxAttempts \/ i \in crossed

RowMove(i) ==
    status'[i] # status[i] =>
      \/ status[i] = "absent" /\ status'[i] = "pending"
      \/ status[i] = "pending" /\ status'[i] \in {"claimed", "dead_lettered"}
      \/ status[i] = "claimed" /\ status'[i] \in {"pending", "dispatched", "failed"}
      \/ status[i] = "dispatched" /\ status'[i] \in Terminal

\* Row lifecycle, over every step of every process: a terminal row is final,
\* a dispatched row never becomes claimable again, and no row is recorded
\* as executed without having passed through dispatched (status predicates
\* of the statements of ExecutionIntentRepository).
RowTransitions == [][\A i \in Ids : RowMove(i)]_vars

\* Every published intent is eventually settled, although its claimer may
\* crash, stop mid-batch or lose the database at any step (lease sweeps of
\* claim_execution_intents, attempt limit).
EveryIntentSettles ==
    \A i \in Ids : keyOf[i] # None ~> status[i] \in Terminal

-----------------------------------------------------------------------------
(* The inductive strengthening the proofs rest on.                         *)

Early == {"absent", "pending", "claimed"}

\* The fence around the broker call: nothing happened to a row before its
\* CAS, and the one worker whose CAS committed is the only one that can be
\* about to call process_event for it.
Fence ==
    /\ \A i \in Ids : status[i] \in Early => dispatches[i] = 0 /\ i \notin crossed
    /\ \A i \in Ids : dispatches[i] <= 1
    /\ \A w \in Workers : pc[w] = "process" =>
          cur[w] \in crossed /\ dispatches[cur[w]] = 0
    /\ \A w \in Workers : pc[w] = "complete" => cur[w] \in crossed
    /\ \A v, w \in Workers :
          pc[v] = "process" /\ pc[w] = "process" /\ cur[v] = cur[w] => v = w

\* A row exists exactly when it has a key.
RowsHaveKeys == \A i \in Ids : status[i] = "absent" <=> keyOf[i] = None

-----------------------------------------------------------------------------
(* The queue as seen from outside: refinement of IntentDelivery.           *)

stageOf ==
    [k \in Keys |->
       IF ledger[k] = None THEN "new"
       ELSE LET i == ledger[k]
            IN  CASE status[i] \in {"pending", "claimed"} -> "queued"
                  [] status[i] = "dispatched" -> "committed"
                  [] OTHER -> IF i \in crossed THEN "settled" ELSE "dropped"]

executionsOf ==
    [k \in Keys |-> IF ledger[k] = None THEN 0 ELSE dispatches[ledger[k]]]

Delivery == INSTANCE IntentDelivery
            WITH Groups <- {{s} \X Targets[s] : s \in Signals},
                 stage <- stageOf, executions <- executionsOf

\* The queue implements IntentDelivery: keys are accepted per signal as a
\* whole, and each is committed, executed at most once and settled in order.
RefinesDelivery == Delivery!Spec
=============================================================================
