---------------------------- MODULE PendingOrders ----------------------------
(***************************************************************************)
(* Pending orders of one account: submit_pending_entry places the members  *)
(* of an entry group at the broker and hands their tickets to the          *)
(* PendingEntryManager, whose monitor thread watches them for fill,        *)
(* disappearance and timeout; the state store mirrors every outcome in     *)
(* pending_order_states, from which TradingStateRecovery rebuilds the      *)
(* tracking after a start.                                                 *)
(*                                                                         *)
(* Four threads share _mt5_orders and the broker: the intent consumer      *)
(* (executor), the operator-command consumer, the monitor and the thread   *)
(* that starts components (recovery). Each lock region, broker call and    *)
(* database statement is one step, except that an order is popped and its  *)
(* row written together. A signal is dispatched at most once     *)
(* (module ExecutionIntents), so an entry_key stands for its ticket.       *)
(* Orders are of one symbol.                                               *)
(***************************************************************************)
EXTENDS Integers, FiniteSets

CONSTANTS
    Groups,         \* signals that reach submit_pending_entry
    MembersOf,      \* MembersOf[g]: member_id values of its EntrySpecGroup
    DirOf,          \* DirOf[g]: "buy" or "sell"
    StrategyOf,     \* StrategyOf[g]: (timeframe, strategy)
    MaxSweeps,      \* bound: cancel_pending_entries_by_symbol commands
    MaxFaults,      \* bound: errors, refusals, crashes, stops in a behaviour
    None

ASSUME GroupsAssumption ==
    /\ DirOf \in [Groups -> {"buy", "sell"}]
    /\ DOMAIN MembersOf = Groups /\ DOMAIN StrategyOf = Groups
ASSUME BoundsAssumption == MaxSweeps \in Nat /\ MaxFaults \in Nat

\* entry_key: signal_id, or signal_id#member_id
Orders == UNION {{g} \X MembersOf[g] : g \in Groups}
ASSUME NoneAssumption == None \notin Orders

Dir(k) == DirOf[k[1]]
Strategy(k) == StrategyOf[k[1]]

\* The two threads that run cancel_mt5_orders_by_symbol.
Cancellers == {"executor", "operator"}

Rows == {"none", "placed", "filled", "expired", "cancelled", "missing", "orphan"}

VARIABLES
    broker,      \* MT5: order live, its position open or closed, or removed
    row,         \* pending_order_states.status
    tracked,     \* _mt5_orders
    submitted,   \* groups that reached the executor
    xpc, xsig, xtodo, xcur,      \* submit_pending_entry
    sweep, hit,                  \* cancel_mt5_orders_by_symbol, per thread
    mpc, mcur, mseen,     \* _monitor_loop
    rpc, rtodo, rlive, rfilled,            \* restore_pending_orders
    \* history
    presumed,    \* rows recovery wrote without the broker's confirmation
    stray,       \* accepted orders whose placement raised
    behind,      \* orders whose row missed an outcome: a write raised, or
                 \* the monitor was done with the order before Record
    blind,       \* the last restore_pending_orders was cut short
    reborn,      \* the process has been restarted
    sweeps, faults

store == <<broker, row>>
executor == <<submitted, xpc, xsig, xtodo, xcur>>
cancel == <<sweep, hit>>
monitor == <<mpc, mcur, mseen>>
recovery == <<rpc, rtodo, rlive, rfilled>>
history == <<presumed, stray, behind, blind, reborn, sweeps>>
vars == <<store, tracked, executor, cancel, monitor, recovery,
          history, faults>>

TypeOK ==
    /\ broker \in [Orders -> {"none", "live", "filled", "closed", "removed"}]
    /\ row \in [Orders -> Rows]
    /\ tracked \subseteq Orders /\ submitted \subseteq Groups
    /\ xpc \in {"idle", "override", "place", "track", "record"}
    /\ xsig \in Groups \cup {None} /\ xtodo \subseteq Orders
    /\ xcur \in Orders \cup {None}
    /\ sweep \in [Cancellers -> SUBSET Orders]
    /\ hit \in [Cancellers -> Orders \cup {None}]
    /\ mpc \in {"off", "idle", "settle", "drop"}
    /\ mcur \in Orders \cup {None}
    /\ mseen \in {"filled", "missing", None}
    /\ rpc \in {"idle", "states", "live", "related", "rows"}
    /\ rtodo \subseteq Orders /\ rlive \subseteq Orders
    /\ rfilled \subseteq Groups
    /\ presumed \subseteq Orders /\ stray \subseteq Orders
    /\ behind \subseteq Orders
    /\ {blind, reborn} \subseteq BOOLEAN
    /\ sweeps \in 0..MaxSweeps /\ faults \in 0..MaxFaults

\* pending_entry runs and has nothing to watch.
Init ==
    /\ broker = [k \in Orders |-> "none"] /\ row = [k \in Orders |-> "none"]
    /\ tracked = {} /\ submitted = {}
    /\ xpc = "idle" /\ xsig = None /\ xtodo = {} /\ xcur = None
    /\ sweep = [c \in Cancellers |-> {}] /\ hit = [c \in Cancellers |-> None]
    /\ mpc = "idle" /\ mcur = None /\ mseen = None
    /\ rpc = "idle" /\ rtodo = {} /\ rlive = {} /\ rfilled = {}
    /\ presumed = {} /\ stray = {} /\ behind = {}
    /\ blind = FALSE /\ reborn = FALSE
    /\ sweeps = 0 /\ faults = 0

Fault == faults < MaxFaults /\ faults' = faults + 1

Rest == <<presumed, stray, blind, reborn, sweeps>>  \* history a write leaves alone

\* A mark_pending_order_* / record_pending_order_placed upsert that succeeds,
\* or that raises after its retries.
Write(k, s) == row' = [row EXCEPT ![k] = s] /\ UNCHANGED <<behind, faults>>
WriteRaises(k) ==
    /\ Fault
    /\ behind' = behind \cup {k} /\ UNCHANGED row

-----------------------------------------------------------------------------
(* The broker, and what the client library reports of a cancel.            *)

Answers == {"canceled", "not_found", "rejected", "raised"}

\* cancel_orders_by_tickets([ticket]); one that raised may have been applied.
BrokerCancel(k, a) ==
    \/ /\ a = "canceled" /\ broker[k] = "live"
       /\ broker' = [broker EXCEPT ![k] = "removed"] /\ UNCHANGED faults
    \/ a = "not_found" /\ broker[k] # "live" /\ UNCHANGED <<broker, faults>>
    \/ a = "rejected" /\ broker[k] = "live" /\ Fault /\ UNCHANGED broker
    \/ /\ a = "raised" /\ Fault
       /\ \/ UNCHANGED broker
          \/ broker[k] = "live" /\ broker' = [broker EXCEPT ![k] = "removed"]

\* Plausible bug: any answer that is not empty counts as a cancel.
TicketInResultTruthy(a) == a # "raised"

\* _ticket_in_result
TicketInResult(a) == a = "canceled"

Fill(k) ==
    /\ broker[k] = "live"
    /\ broker' = [broker EXCEPT ![k] = "filled"]
    /\ UNCHANGED <<row, tracked, executor, cancel, monitor,
                   recovery, history, faults>>

\* Removed in the terminal, by a closeout or by a cancel command on tickets.
RemovedElsewhere(k) ==
    /\ broker[k] = "live"
    /\ broker' = [broker EXCEPT ![k] = "removed"]
    /\ UNCHANGED <<row, tracked, executor, cancel, monitor,
                   recovery, history, faults>>

PositionCloses(k) ==
    /\ broker[k] = "filled"
    /\ broker' = [broker EXCEPT ![k] = "closed"]
    /\ UNCHANGED <<row, tracked, executor, cancel, monitor,
                   recovery, history, faults>>

\* PositionManager registered the position: record_position_tracked.
PositionTracked(k) ==
    /\ broker[k] = "filled" /\ row[k] \in {"placed", "missing"}
    /\ row' = [row EXCEPT ![k] = "filled"]
    /\ UNCHANGED <<broker, tracked, executor, cancel, monitor,
                   recovery, history, faults>>

\* MT5AccountClient.positions hands out a list that may be _POSITIONS_TTL old:
\* a position may not be in it yet, or still be in it. get_orders is not cached.
PositionLists == SUBSET {k \in Orders : broker[k] \in {"filled", "closed"}}

\* find_live_position_for_pending_order: by comment, request tag or strategy,
\* or the only position of that direction in the list.
HasPosition(k) ==
    \E list \in PositionLists :
        LET open == {j \in list : Dir(j) = Dir(k)}
        IN  (\E j \in open : Strategy(j) = Strategy(k)) \/ Cardinality(open) = 1

-----------------------------------------------------------------------------
(* submit_pending_entry, on the intent consumer's thread.                  *)

\* has_matching_pending_entry
HasMatchingPendingEntry(g) == \E k \in tracked : Strategy(k) = StrategyOf[g]

Accept(g) ==
    /\ xpc = "idle" /\ g \notin submitted
    /\ submitted' = submitted \cup {g}
    /\ xpc' = "override" /\ xsig' = g /\ xtodo' = {g} \X MembersOf[g]
    /\ UNCHANGED <<store, tracked, xcur, cancel, monitor, recovery,
                   history, faults>>

\* Plausible bug: the duplicate guard is not consulted.
SubmitUnguarded(g) == Accept(g)

Submit(g) == ~HasMatchingPendingEntry(g) /\ Accept(g)

RejectDuplicate(g) ==
    /\ xpc = "idle" /\ g \notin submitted
    /\ HasMatchingPendingEntry(g)
    /\ submitted' = submitted \cup {g}
    /\ UNCHANGED <<store, tracked, xpc, xsig, xtodo, xcur, cancel,
                   monitor, recovery, history, faults>>

\* cancel_by_symbol(exclude_direction = event.direction)
Override ==
    /\ xpc = "override" /\ xpc' = "place"
    /\ sweep' = [sweep EXCEPT !["executor"] =
                     {k \in tracked : Dir(k) # DirOf[xsig]}]
    /\ UNCHANGED <<store, tracked, submitted, xsig, xtodo, xcur,
                   hit, monitor, recovery, history, faults>>

Swept == sweep["executor"] = {} /\ hit["executor"] = None

\* dispatch_operation("trade"): accepted, refused, or raising after it was
\* accepted; a member that fails does not stop the next one.
Place(k) ==
    /\ xpc = "place" /\ Swept /\ k \in xtodo
    /\ xtodo' = xtodo \ {k}
    /\ \/ /\ broker' = [broker EXCEPT ![k] = "live"]
          /\ xpc' = "track" /\ xcur' = k /\ UNCHANGED <<stray, faults>>
       \/ Fault /\ UNCHANGED <<broker, xpc, xcur, stray>>
       \/ /\ Fault /\ stray' = stray \cup {k}
          /\ broker' = [broker EXCEPT ![k] = "live"] /\ UNCHANGED <<xpc, xcur>>
    /\ UNCHANGED <<row, tracked, submitted, xsig, cancel, monitor,
                   recovery, presumed, behind, blind, reborn, sweeps>>

\* track_mt5_order registers the ticket under the lock ...
Track ==
    /\ xpc = "track" /\ xpc' = "record"
    /\ tracked' = tracked \cup {xcur}
    /\ UNCHANGED <<store, submitted, xsig, xtodo, xcur, cancel,
                   monitor, recovery, history, faults>>

\* ... and its on_tracked hook writes the row after releasing it.
Record ==
    /\ xpc = "record" /\ xpc' = "place" /\ xcur' = None
    /\ \/ /\ row' = [row EXCEPT ![xcur] = "placed"]
          /\ behind' = IF xcur \in tracked THEN behind ELSE behind \cup {xcur}
          /\ UNCHANGED faults
       \/ WriteRaises(xcur)
    /\ UNCHANGED <<broker, tracked, submitted, xsig, xtodo, cancel,
                   monitor, recovery, Rest>>

EndSubmit ==
    /\ xpc = "place" /\ Swept /\ xtodo = {}
    /\ xpc' = "idle" /\ xsig' = None
    /\ UNCHANGED <<store, tracked, submitted, xtodo, xcur, cancel,
                   monitor, recovery, history, faults>>

-----------------------------------------------------------------------------
(* cancel_mt5_orders_by_symbol, run by the executor and by the operator's  *)
(* cancel_pending_entries_by_symbol.                                       *)

OperatorSweep ==
    /\ sweeps < MaxSweeps /\ sweeps' = sweeps + 1
    /\ sweep["operator"] = {} /\ hit["operator"] = None
    /\ \E exclude \in {"buy", "sell", None} :
           sweep' = [sweep EXCEPT !["operator"] =
                         {k \in tracked : Dir(k) # exclude}]
    /\ UNCHANGED <<store, tracked, executor, hit, monitor,
                   recovery, presumed, stray, behind, blind, reborn, faults>>

SweepCancel(c, k) ==
    /\ hit[c] = None /\ k \in sweep[c]
    /\ sweep' = [sweep EXCEPT ![c] = @ \ {k}]
    /\ \E a \in Answers :
           /\ BrokerCancel(k, a)
           /\ hit' = [hit EXCEPT ![c] = IF TicketInResult(a) THEN k ELSE None]
    /\ UNCHANGED <<row, tracked, executor, monitor, recovery,
                   history>>

\* Pops the order if it is still there and writes the row in any case; an
\* error of the hook is caught.
SweepDrop(c) ==
    /\ hit[c] # None /\ hit' = [hit EXCEPT ![c] = None]
    /\ tracked' = tracked \ {hit[c]}
    /\ Write(hit[c], "cancelled") \/ WriteRaises(hit[c])
    /\ UNCHANGED <<broker, executor, sweep, monitor, recovery, Rest>>

-----------------------------------------------------------------------------
(* _monitor_loop goes round the tracked orders: check_mt5_order_state looks *)
(* each one up, check_mt5_order_expiry cancels the ones past expires_at.    *)
(* Its snapshots are re-read order by order: one that was popped meanwhile  *)
(* is skipped when it comes to it.                                          *)

\* What inspect_pending_mt5_order concludes of k: still there, or a lookup
\* failed; filled, in which case the position is registered and its hook may
\* write k's row; missing, when the list shows no position (the empty list is
\* always possible).
Concludes(k, s) ==
    \/ s = "pending" /\ broker[k] = "live" /\ UNCHANGED <<row, faults>>
    \/ s = "pending" /\ Fault /\ UNCHANGED row
    \/ /\ s = "filled" /\ broker[k] # "live" /\ HasPosition(k) /\ UNCHANGED faults
       /\ \/ UNCHANGED row
          \/ /\ row[k] \in {"placed", "missing"}
             /\ row' = [row EXCEPT ![k] = "filled"]
    \/ s = "missing" /\ broker[k] # "live" /\ UNCHANGED <<row, faults>>

Inspect(k) ==
    /\ mpc = "idle" /\ k \in tracked
    /\ \E s \in {"pending", "filled", "missing"} :
           /\ Concludes(k, s)
           /\ IF s = "pending" THEN UNCHANGED monitor
              ELSE mpc' = "settle" /\ mcur' = k /\ mseen' = s
    /\ UNCHANGED <<broker, tracked, executor, cancel, recovery,
                   history>>

\* An order another thread dropped meanwhile is skipped.
Settle ==
    /\ mpc = "settle" /\ mpc' = "idle" /\ mcur' = None /\ mseen' = None
    /\ tracked' = tracked \ {mcur}
    /\ \/ mcur \notin tracked /\ UNCHANGED <<row, behind, faults>>
       \/ mcur \in tracked /\ (Write(mcur, mseen) \/ WriteRaises(mcur))
    /\ UNCHANGED <<broker, executor, cancel, recovery, Rest>>

\* expires_at is a clock time the other threads know nothing of: an order may
\* be past it at any visit.
CancelExpired(k) ==
    /\ mpc = "idle" /\ k \in tracked
    /\ \E a \in Answers :
           /\ BrokerCancel(k, a)
           /\ IF TicketInResult(a) THEN mpc' = "drop" /\ mcur' = k
                                   ELSE UNCHANGED <<mpc, mcur>>
    /\ UNCHANGED <<row, tracked, executor, cancel, mseen, recovery,
                   history>>

\* Plausible bug: the expired order is dropped and its row forgotten.
DropExpiredSilently ==
    /\ mpc = "drop" /\ mpc' = "idle" /\ mcur' = None
    /\ tracked' = tracked \ {mcur}
    /\ UNCHANGED <<store, executor, cancel, mseen, recovery,
                   history, faults>>

DropExpired ==
    /\ mpc = "drop" /\ mpc' = "idle" /\ mcur' = None
    /\ tracked' = tracked \ {mcur}
    /\ Write(mcur, "expired") \/ WriteRaises(mcur)
    /\ UNCHANGED <<broker, executor, cancel, mseen, recovery, Rest>>

-----------------------------------------------------------------------------
(* _start_pending_entry: the monitor starts, then restore_pending_orders   *)
(* runs on the starting thread. The executor was started before.           *)

StartManager ==
    /\ mpc = "off" /\ rpc = "idle"
    /\ mpc' = "idle" /\ rpc' = "states" /\ blind' = FALSE
    /\ UNCHANGED <<store, tracked, executor, cancel, mcur,
                   mseen, rtodo, rlive, rfilled, presumed, stray,
                   behind, reborn, sweeps, faults>>

\* list_active_pending_orders
ReadStates ==
    /\ rpc = "states" /\ rpc' = "live"
    /\ rtodo' = {k \in Orders : row[k] = "placed"}
    /\ UNCHANGED <<store, tracked, executor, cancel, monitor, rlive,
                   rfilled, history, faults>>

\* get_orders
ReadLive ==
    /\ rpc = "live" /\ rpc' = "related"
    /\ rlive' = {k \in Orders : broker[k] = "live"}
    /\ UNCHANGED <<store, tracked, executor, cancel, monitor,
                   rtodo, rfilled, history, faults>>

\* list_pending_orders_by_groups: groups with a filled member
ReadRelated ==
    /\ rpc = "related" /\ rpc' = "rows"
    /\ rfilled' = {g \in {k[1] : k \in rtodo} :
                       \E k \in Orders : k[1] = g /\ row[k] = "filled"}
    /\ UNCHANGED <<store, tracked, executor, cancel, monitor,
                   rtodo, rlive, history, faults>>

\* A filled sibling: the row is cancelled whatever the broker answers.
RecoverSibling(k) ==
    /\ k[1] \in rfilled
    /\ row' = [row EXCEPT ![k] = "cancelled"] /\ UNCHANGED tracked
    /\ \E a \in Answers :
           /\ BrokerCancel(k, a)
           /\ presumed' = IF TicketInResult(a) THEN presumed
                                               ELSE presumed \cup {k}

\* Still live when recovery looked: watch it again, unless it has timed out
\* and the cancel is confirmed.
Restore(k) == tracked' = tracked \cup {k} /\ UNCHANGED row

\* Plausible bug: an expired order whose cancel failed is forgotten.
RecoverLiveForgets(k) ==
    /\ k[1] \notin rfilled /\ k \in rlive /\ UNCHANGED presumed
    /\ \/ Restore(k) /\ UNCHANGED <<broker, faults>>
       \/ \E a \in Answers :
              /\ BrokerCancel(k, a) /\ UNCHANGED tracked
              /\ row' = IF TicketInResult(a)
                        THEN [row EXCEPT ![k] = "expired"] ELSE row

RecoverLive(k) ==
    /\ k[1] \notin rfilled /\ k \in rlive /\ UNCHANGED presumed
    /\ \/ Restore(k) /\ UNCHANGED <<broker, faults>>
       \/ \E a \in Answers :
              /\ BrokerCancel(k, a)
              /\ IF TicketInResult(a)
                 THEN row' = [row EXCEPT ![k] = "expired"] /\ UNCHANGED tracked
                 ELSE Restore(k)

\* Gone: filled if the inspection says so, missing otherwise, a failed lookup
\* included (handle_missing_pending_order).
RecoverGone(k) ==
    /\ k[1] \notin rfilled /\ k \notin rlive
    /\ UNCHANGED <<broker, tracked>>
    /\ \/ /\ broker[k] # "live" /\ UNCHANGED <<presumed, faults>>
          /\ \/ HasPosition(k) /\ row' = [row EXCEPT ![k] = "filled"]
             \/ row' = [row EXCEPT ![k] = "missing"]
       \/ /\ Fault /\ presumed' = presumed \cup {k}
          /\ row' = [row EXCEPT ![k] = "missing"]

Recover(k) ==
    /\ rpc = "rows" /\ k \in rtodo
    /\ rtodo' = rtodo \ {k} /\ rlive' = rlive \ {k}
    /\ RecoverSibling(k) \/ RecoverLive(k) \/ RecoverGone(k)
    /\ UNCHANGED <<executor, cancel, monitor, rpc, rfilled, stray,
                   behind, blind, reborn, sweeps>>

RecoveryEnds ==
    rpc' = "idle" /\ rtodo' = {} /\ rlive' = {} /\ rfilled' = {}

\* handle_orphan_pending_order("record_only") for the live orders that had
\* no placed row, the ones left in rlive.
FinishRecovery ==
    /\ rpc = "rows" /\ rtodo = {} /\ RecoveryEnds
    /\ row' = [k \in Orders |-> IF k \in rlive THEN "orphan" ELSE row[k]]
    /\ UNCHANGED <<broker, tracked, executor, cancel, monitor,
                   history, faults>>

\* get_orders or a database statement raises; the start goes on without.
RecoveryAborts ==
    /\ rpc # "idle" /\ Fault /\ RecoveryEnds /\ blind' = TRUE
    /\ UNCHANGED <<store, tracked, executor, cancel, monitor,
                   presumed, stray, behind, reborn, sweeps>>

\* shutdown() waits for the cycle to end and keeps _mt5_orders.
StopManager ==
    /\ mpc = "idle" /\ rpc = "idle" /\ Fault
    /\ mpc' = "off"
    /\ UNCHANGED <<store, tracked, executor, cancel, mcur,
                   mseen, recovery, history>>

\* The process dies and is started again; what it had in memory is gone.
Crash ==
    /\ Fault /\ reborn' = TRUE
    /\ tracked' = {}
    /\ xpc' = "idle" /\ xsig' = None /\ xtodo' = {} /\ xcur' = None
    /\ sweep' = [c \in Cancellers |-> {}] /\ hit' = [c \in Cancellers |-> None]
    /\ mpc' = "off" /\ mcur' = None /\ mseen' = None
    /\ RecoveryEnds
    /\ UNCHANGED <<store, submitted, presumed, stray, behind, blind, sweeps>>

-----------------------------------------------------------------------------
Environment ==
    \E k \in Orders : \/ Fill(k) \/ RemovedElsewhere(k) \/ PositionCloses(k)
                      \/ PositionTracked(k)

Submission ==
    \/ Override \/ Track \/ Record \/ EndSubmit
    \/ \E k \in Orders : Place(k)

Sweeping(c) == SweepDrop(c) \/ \E k \in Orders : SweepCancel(c, k)

MonitorLoop ==
    \/ Settle \/ DropExpired
    \/ \E k \in Orders : Inspect(k) \/ CancelExpired(k)

Recovery ==
    \/ ReadStates \/ ReadLive \/ ReadRelated \/ FinishRecovery
    \/ \E k \in Orders : Recover(k)

Next ==
    \/ Environment
    \/ \E g \in Groups : Submit(g) \/ RejectDuplicate(g)
    \/ Submission
    \/ OperatorSweep \/ \E c \in Cancellers : Sweeping(c)
    \/ MonitorLoop
    \/ StartManager \/ Recovery \/ RecoveryAborts
    \/ StopManager \/ Crash

Spec == Init /\ [][Next]_vars

\* The executor, a sweep and the recovery go on while they have work, and a
\* stopped manager is started again. The monitor comes back to every tracked
\* order, and expires_at is finite, so it will find it expired. Nothing is
\* assumed of the broker, the market, the operator or the signals.
Fairness ==
    /\ WF_vars(Submission) /\ \A c \in Cancellers : WF_vars(Sweeping(c))
    /\ WF_vars(Settle) /\ WF_vars(DropExpired)
    /\ \A k \in Orders : SF_vars(Inspect(k)) /\ SF_vars(CancelExpired(k))
    /\ WF_vars(Recovery)
    /\ WF_vars(StartManager)

FairSpec == Spec /\ Fairness

-----------------------------------------------------------------------------
\* What a row says of an order that has ended is what happened at the broker:
\* none recorded as filled or missing is still live, and one recorded as expired
\* or cancelled was removed and has no position, whichever thread wrote last.
\* The rows recovery writes unconfirmed (startup_oco_sibling_filled, a failed
\* lookup) are excepted.
RowsAreTrue ==
    /\ TypeOK
    /\ \A k \in Orders \ presumed :
          /\ row[k] \in {"expired", "cancelled"} => broker[k] = "removed"
          /\ row[k] \in {"missing", "filled"} => broker[k] # "live"

\* Once restore_pending_orders has run through, every live order whose row
\* says placed is in _mt5_orders, so the monitor will time it out: across
\* sweeps that failed, restarts, and a recovery racing the executor.
LiveOrdersAreWatched ==
    mpc # "off" /\ rpc = "idle" /\ ~blind =>
        \A k \in Orders : broker[k] = "live" /\ row[k] = "placed" => k \in tracked

\* Two signals of one (timeframe, strategy) never have live orders at the same
\* time (duplicate_pending_same_strategy), in a process that was not restarted
\* and but for orders the manager was never told of.
OneLiveGroupPerStrategy ==
    ~reborn => \A j, k \in Orders \ stray :
        broker[j] = "live" /\ broker[k] = "live" /\ Strategy(j) = Strategy(k)
            => j[1] = k[1]

\* No order stays placed: it is filled, or the monitor times it out, or the
\* recovery that follows a crash closes its row, however often a cancel was
\* refused or the manager stopped.
PlacedRowsSettle ==
    \A k \in Orders :
        row[k] = "placed" ~> row[k] # "placed" \/ k \in behind \/ blind
=============================================================================
