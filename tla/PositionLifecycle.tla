-------------------------- MODULE PositionLifecycle --------------------------
(***************************************************************************)
(* The position manager of one account: what the broker holds, what the    *)
(* manager tracks, and the rows of position_runtime_states.  Positions are *)
(* opened by the executor, by the fill of a resting order or by a direct   *)
(* trade, and closed by the broker at any time.  The reconcile loop, the   *)
(* thread that starts the manager (or serves /trade/reconcile), the        *)
(* executor and the monitor of resting orders share the tracked positions  *)
(* under a lock that none of them holds across a broker call or a database *)
(* write.  The loop also runs the end-of-day closeout.                     *)
(***************************************************************************)
EXTENDS Integers, FiniteSets

CONSTANTS
    Tickets,              \* positions and the orders they come from
    Watched,              \* tickets whose histories are kept
    MaxClock, MaxFaults, MaxSyncs,
    None

ASSUME PositionAssumption ==
    /\ MaxClock \in Nat /\ MaxFaults \in Nat /\ MaxSyncs \in Nat
    /\ Watched \subseteq Tickets /\ None \notin Tickets \cup Nat

VARIABLES
    clock,        \* half days: even before the closeout time, odd after it
    broker, born, \* state of each ticket at the broker; day of the fill
    recent,       \* positions opened or closed within _POSITIONS_TTL
    ex, mon,      \* executor, monitor of resting orders: step and ticket
    watch,        \* resting orders of the executor that the monitor watches
    foreign,      \* tickets with neither a signal_id nor a system comment
    tracked,      \* _positions
    row,          \* status column of position_runtime_states
    active,       \* trades that TradeOutcomeTracker holds under an empty
                  \* account key, the one on_position_closed looks them up with
    pc, todo, hold,  \* per thread: step, tickets still to handle, ticket in hand
    job,          \* what the side thread does: initial pass, pass of a start
                  \* that found a thread running, startup, request
    stop,
    gate, done,   \* _last_end_of_day_gate_date, _last_end_of_day_close_date
    eod,          \* the closeout under way
    \* history
    surplus,      \* outcomes recorded, less the mistakes that account for them:
                  \* trackings of a closed position and drops of a live one
    late,         \* since the gate went up: of an executor then past its check,
                  \* too new for the closeout's last list, or traded directly
                  \* after the closeout was complete
    window,       \* live positions that a list of live positions did not show
    orphan,       \* open row whose close was not written, or was overwritten
    syncs, faults

market == <<broker, born, recent>>
openers == <<ex, mon, watch, foreign>>
threads == <<pc, todo, hold, job>>
closeout == <<gate, done, eod>>
vars == <<clock, market, openers, tracked, row, active, threads, stop, closeout, surplus,
          late, window, orphan, syncs, faults>>

(* ------------------------------ helpers -------------------------------- *)

Threads == {"loop", "side"}
Day == clock \div 2
Evening == clock % 2 = 1
Live == {t \in Tickets : broker[t] = "live"}
Orders == {t \in Tickets : broker[t] = "order"}
Fault == faults < MaxFaults /\ faults' = faults + 1
Idle == [pc |-> "idle", t |-> None]
NoCloseout == [day |-> None, pos |-> FALSE, orders |-> {}, left |-> FALSE, error |-> FALSE]

\* The pass of start() ends with the start of the loop thread, and
\* _start_position_manager goes on with another sync, unless a thread was
\* running when it was called.
Goto(p, l) ==
    /\ pc' = IF l = "launch"
             THEN [pc EXCEPT !["loop"] = "first", !["side"] = IF job = "again" THEN "none" ELSE "query"]
             ELSE [pc EXCEPT ![p] = l]
    /\ job' = CASE l = "launch" -> (IF job = "again" THEN "pass" ELSE "start")
                [] p = "side" /\ l = "none" -> "pass"
                [] OTHER -> job
Down == pc["loop"] = "none"
CloseAll(S) ==
    /\ broker' = [t \in Tickets |-> IF t \in S THEN "gone" ELSE broker[t]]
    /\ recent' = recent \cup (S \cap Live)

\* MT5AccountClient.positions: the list may be one that any thread has read
\* within _POSITIONS_TTL. Orders are not cached.
Lists ==
    {S \in SUBSET Tickets :
        \A t \in Tickets : \/ t \in recent /\ broker[t] \in {"live", "gone"}
                           \/ t \in S <=> t \in Live}

\* A pass of the loop or of start() goes on to compare; startup goes on to the
\* stored rows; the request of an operator ends.
AfterSync(p) ==
    CASE p = "loop" \/ job \in {"pass", "again"} -> "copy"
      [] p = "side" /\ job = "start" -> "states"
      [] OTHER -> "none"
AfterPass(p) == IF p = "loop" THEN "wait" ELSE "launch"

Closeout == {"eodOrders", "eodClose", "eodCancel", "eodLeft", "eodEnd"}
Pcs == Closeout \cup {"none", "rejoin", "first", "wait", "eod", "query", "sync", "put", "hook", "copy",
                       "look", "drop", "close", "states", "mark", "overnight"}

Days == 0..MaxClock \cup {None}

TypeOK ==
    /\ clock \in 0..MaxClock /\ faults \in 0..MaxFaults /\ syncs \in 0..MaxSyncs
    /\ broker \in [Tickets -> {"none", "order", "live", "gone"}]
    /\ born \in [Tickets -> 0..MaxClock]
    /\ {tracked, recent, active} \subseteq SUBSET Tickets
    /\ \A t \in tracked : broker[t] \in {"live", "gone"}
    /\ row \in [Tickets -> {"none", "open", "closed"}]
    /\ ex \in [pc : {"idle", "gated", "placed", "hook"}, t : Tickets \cup {None}]
    /\ (ex.pc = "idle") = (ex.t = None)
    /\ mon \in [pc : {"idle", "placed", "hook"}, t : Tickets \cup {None}]
    /\ (mon.pc = "idle") = (mon.t = None)
    /\ {watch, foreign} \subseteq SUBSET Tickets
    /\ pc \in [Threads -> Pcs] /\ todo \in [Threads -> SUBSET Tickets]
    /\ hold \in [Threads -> Tickets \cup {None}]
    /\ \A p \in Threads : (hold[p] # None) = (pc[p] \in {"put", "hook", "close"})
    /\ job \in {"pass", "again", "start", "request"} /\ stop \in BOOLEAN
    /\ gate \in Days /\ done \in Days
    /\ done # None => gate # None /\ done <= gate
    /\ eod \in [day : Days, pos : BOOLEAN, orders : SUBSET Tickets, left : BOOLEAN,
                error : BOOLEAN]
    /\ (eod.day # None) = (pc["loop"] \in Closeout)
    /\ surplus \in [Tickets -> Int]
    /\ {late, window} \subseteq SUBSET Watched /\ orphan \subseteq Tickets

Init ==
    /\ clock = 0 /\ broker = [t \in Tickets |-> "none"] /\ born = [t \in Tickets |-> 0]
    /\ recent = {}
    /\ ex = Idle /\ mon = Idle /\ watch = {} /\ foreign = {} /\ tracked = {} /\ row = [t \in Tickets |-> "none"] /\ active = {}
    /\ pc = [p \in Threads |-> "none"] /\ todo = [p \in Threads |-> {}]
    /\ hold = [p \in Threads |-> None] /\ job = "pass" /\ stop = FALSE
    /\ gate = None /\ done = None /\ eod = NoCloseout
    /\ surplus = [t \in Tickets |-> 0] /\ late = {} /\ window = {} /\ orphan = {}
    /\ syncs = 0 /\ faults = 0

(* ------------------------------ the broker ------------------------------ *)

Tick ==
    /\ clock < MaxClock /\ clock' = clock + 1
    /\ UNCHANGED <<market, openers, tracked, row, active, threads, stop, closeout, surplus,
                   late, window, orphan, syncs, faults>>

GoesLive(t) ==
    /\ broker' = [broker EXCEPT ![t] = "live"] /\ born' = [born EXCEPT ![t] = Day]
    /\ recent' = recent \cup {t}
    /\ window' = IF pc["side"] = "mark" THEN window \cup ({t} \cap Watched) ELSE window

LateFor(t, too) == late' = IF too THEN late \cup ({t} \cap Watched) ELSE late
\* The closeout has read its last list of positions.
Listed == pc["loop"] = "eodEnd"

Fill(t) ==
    /\ broker[t] = "order" /\ GoesLive(t) /\ LateFor(t, Listed)
    /\ UNCHANGED <<clock, openers, tracked, row, active, threads, stop, closeout, surplus,
                   orphan, syncs, faults>>

\* Stop, target, margin call, or the operator at the terminal.
BrokerCloses(t) ==
    /\ t \in Live /\ CloseAll({t})
    /\ UNCHANGED <<clock, born, openers, tracked, row, active, threads, stop, closeout, surplus,
                   late, window, orphan, syncs, faults>>

\* POST /trade, /trade/batch, /trade/dispatch or /trade/from-signal, or the
\* operator at the terminal: no end-of-day gate, no tracking; with or without
\* a comment that sync_open_positions takes for one of the system's.
DirectTrade(t, system) ==
    /\ broker[t] = "none" /\ ex.t # t
    /\ \/ GoesLive(t) /\ LateFor(t, Listed \/ done = Day)
       \/ /\ broker' = [broker EXCEPT ![t] = "order"] /\ LateFor(t, done = Day)
          /\ UNCHANGED <<born, recent, window>>
    /\ foreign' = IF system THEN foreign ELSE foreign \cup {t}
    /\ UNCHANGED <<clock, ex, mon, watch, tracked, row, active, threads, stop, closeout,
                   surplus, orphan, syncs, faults>>

(* ----------------- the executor and the order monitor ------------------- *)

\* is_after_eod_today
AfterEod == gate = Day

ExPasses(t) ==
    /\ ex = Idle /\ broker[t] = "none" /\ ~AfterEod
    /\ ex' = [pc |-> "gated", t |-> t]
    /\ UNCHANGED <<clock, market, mon, watch, foreign, tracked, row, active, threads, stop, closeout, surplus,
                   late, window, orphan, syncs, faults>>

\* dispatch_operation: a market order, a resting order, or a refusal.
ExSubmits ==
    /\ ex.pc = "gated"
    /\ \/ GoesLive(ex.t) /\ LateFor(ex.t, Listed) /\ ex' = [ex EXCEPT !.pc = "placed"] /\ UNCHANGED watch
       \/ /\ broker' = [broker EXCEPT ![ex.t] = "order"] /\ ex' = Idle /\ watch' = watch \cup {ex.t}
          /\ UNCHANGED <<born, recent, late, window>>
       \/ ex' = Idle /\ UNCHANGED <<market, watch, late, window>>
    /\ UNCHANGED <<clock, mon, foreign, tracked, row, active, threads, stop, closeout, surplus,
                   orphan, syncs, faults>>

Tally(t, evaluated, mistake) ==
    LET n(b) == IF b THEN 1 ELSE 0 IN
    surplus' = IF t \in Watched THEN [surplus EXCEPT ![t] = @ + n(evaluated) - n(mistake)] ELSE surplus

\* inspect_pending_mt5_order, for an order that is no longer in the book: the
\* position it became, if the list shows one, and if it is not tracked yet.
MonitorLooks(t) ==
    /\ mon = Idle /\ t \in watch /\ broker[t] # "order" /\ watch' = watch \ {t}
    /\ \E list \in Lists :
          mon' = IF t \in list \ tracked THEN [pc |-> "placed", t |-> t] ELSE mon
    /\ UNCHANGED <<clock, market, ex, foreign, tracked, row, active, threads, stop, closeout,
                   surplus, late, window, orphan, syncs, faults>>

\* track_position: the record under the lock ...
Track(t) == tracked' = tracked \cup {t} /\ Tally(t, FALSE, t \notin Live)

ExTracks ==
    /\ ex.pc = "placed" /\ ex' = [ex EXCEPT !.pc = "hook"] /\ Track(ex.t)
    /\ UNCHANGED <<clock, market, mon, watch, foreign, row, active, threads, stop, closeout,
                   late, window, orphan, syncs, faults>>

MonitorTracks ==
    /\ mon.pc = "placed" /\ mon' = [mon EXCEPT !.pc = "hook"] /\ Track(mon.t)
    /\ UNCHANGED <<clock, market, ex, watch, foreign, row, active, threads, stop, closeout,
                   late, window, orphan, syncs, faults>>

\* record_position_tracked: status "open", whatever the row says.
WriteOpen(t) ==
    /\ row' = [row EXCEPT ![t] = "open"]
    /\ orphan' = IF t \notin tracked /\ \A p \in Threads : pc[p] = "close" => hold[p] # t
                 THEN orphan \cup {t} ELSE orphan

\* ... then its row, whose failure the caller logs. on_trade_opened registers
\* the trade under the key of the account, where its close is not looked up.
TryWriteOpen(t) ==
    \/ WriteOpen(t) /\ UNCHANGED faults
    \/ Fault /\ UNCHANGED <<row, orphan>>

ExWrites ==
    /\ ex.pc = "hook" /\ ex' = Idle /\ TryWriteOpen(ex.t)
    /\ UNCHANGED <<clock, market, mon, watch, foreign, tracked, active, threads, stop, closeout, surplus,
                   late, window, syncs>>

MonitorWrites ==
    /\ mon.pc = "hook" /\ mon' = Idle /\ TryWriteOpen(mon.t)
    /\ UNCHANGED <<clock, market, ex, watch, foreign, tracked, active, threads, stop, closeout, surplus,
                   late, window, syncs>>

(* -------------------------- sync_open_positions ------------------------- *)

SyncQuery(p) ==
    /\ pc[p] = "query"
    /\ \/ \E list \in Lists :
             /\ todo' = [todo EXCEPT ![p] = list] /\ UNCHANGED faults
             /\ Goto(p, IF list = {} THEN AfterSync(p) ELSE "sync")
       \/ Fault /\ Goto(p, AfterSync(p)) /\ UNCHANGED todo
    /\ UNCHANGED <<clock, market, openers, tracked, row, active, hold, stop, closeout, surplus,
                   late, window, orphan, syncs>>

\* Plausible bug: a position without a stored row is taken for a manual one.
SyncNextKnown(p, t) ==
    /\ pc[p] = "sync" /\ t \in todo[p] /\ todo' = [todo EXCEPT ![p] = @ \ {t}]
    /\ \/ /\ (t \in tracked \/ row[t] # "open") /\ UNCHANGED hold
          /\ Goto(p, IF todo[p] = {t} THEN AfterSync(p) ELSE "sync")
       \/ /\ t \notin tracked /\ row[t] = "open"
          /\ hold' = [hold EXCEPT ![p] = t] /\ Goto(p, "put")
    /\ UNCHANGED <<clock, market, openers, tracked, row, active, stop, closeout, surplus,
                   late, window, orphan, syncs, faults>>

\* The ticket is looked up under the lock; the lock is then released to resolve
\* the context of an unknown one, and a foreign one is skipped.
SyncNext(p, t) ==
    /\ pc[p] = "sync" /\ t \in todo[p] /\ todo' = [todo EXCEPT ![p] = @ \ {t}]
    /\ \/ /\ t \in tracked \cup foreign /\ UNCHANGED hold
          /\ Goto(p, IF todo[p] = {t} THEN AfterSync(p) ELSE "sync")
       \/ t \notin tracked \cup foreign /\ hold' = [hold EXCEPT ![p] = t] /\ Goto(p, "put")
    /\ UNCHANGED <<clock, market, openers, tracked, row, active, stop, closeout, surplus,
                   late, window, orphan, syncs, faults>>

SyncPuts(p) ==
    /\ pc[p] = "put" /\ Goto(p, "hook")
    /\ tracked' = tracked \cup {hold[p]} /\ Tally(hold[p], FALSE, hold[p] \notin Live)
    /\ UNCHANGED <<clock, market, openers, row, active, todo, hold, stop, closeout,
                   late, window, orphan, syncs, faults>>

\* Rows that nothing in this process would close.
Untended == {t \in Tickets : row[t] = "open" /\ t \notin Live \cup tracked}

\* The row, and restore_tracked_position without an account key; an error of the
\* write ends the sync, and at startup the recovery of the rows with it.
SyncWrites(p) ==
    /\ pc[p] = "hook" /\ hold' = [hold EXCEPT ![p] = None]
    /\ \/ /\ WriteOpen(hold[p]) /\ active' = active \cup {hold[p]}
          /\ Goto(p, IF todo[p] = {} THEN AfterSync(p) ELSE "sync") /\ UNCHANGED <<todo, faults>>
       \/ /\ Fault /\ todo' = [todo EXCEPT ![p] = {}]
          /\ Goto(p, IF AfterSync(p) = "states" THEN "overnight" ELSE AfterSync(p))
          /\ orphan' = IF AfterSync(p) = "states" THEN orphan \cup Untended ELSE orphan
          /\ UNCHANGED <<row, active>>
    /\ UNCHANGED <<clock, market, openers, tracked, stop, closeout, surplus,
                   late, window, syncs>>

(* --------------------------- reconcile_with_mt5 ------------------------- *)

\* Plausible bug: only the pass of start() compares.
CopyOnce(p) ==
    /\ pc[p] = "copy" /\ todo' = [todo EXCEPT ![p] = IF p = "loop" THEN {} ELSE tracked]
    /\ Goto(p, IF p = "loop" \/ tracked = {} THEN AfterPass(p) ELSE "look")
    /\ UNCHANGED <<clock, market, openers, tracked, row, active, hold, stop, closeout, surplus,
                   late, window, orphan, syncs, faults>>

\* A copy of the tracked positions ...
Copy(p) ==
    /\ pc[p] = "copy" /\ todo' = [todo EXCEPT ![p] = tracked]
    /\ Goto(p, IF tracked = {} THEN AfterPass(p) ELSE "look")
    /\ UNCHANGED <<clock, market, openers, tracked, row, active, hold, stop, closeout, surplus,
                   late, window, orphan, syncs, faults>>

\* Plausible bug: every position of the copy is taken for closed.
LookNowhere(p) ==
    /\ pc[p] = "look" /\ Goto(p, "drop") /\ todo' = [todo EXCEPT ![p] = @ \cap tracked]
    /\ UNCHANGED <<clock, market, openers, tracked, row, active, hold, stop, closeout, surplus,
                   late, window, orphan, syncs, faults>>

\* ... is compared with the broker's list; a failed query skips the symbol.
Look(p) ==
    /\ pc[p] = "look" /\ Goto(p, "drop")
    /\ \/ \E list \in Lists :
             /\ todo' = [todo EXCEPT ![p] = @ \ list] /\ UNCHANGED faults
             /\ window' = window \cup ((Live \ list) \cap Watched)
       \/ Fault /\ todo' = [todo EXCEPT ![p] = {}] /\ UNCHANGED window
    /\ UNCHANGED <<clock, market, openers, tracked, row, active, hold, stop, closeout, surplus,
                   late, orphan, syncs>>

\* update_price, _apply_chandelier_action: a reversal or a timeout closes the
\* position at the market, if it is still tracked.
MarketExit(p, t) ==
    /\ pc[p] = "drop" /\ t \in tracked \cap Live /\ CloseAll({t})
    /\ UNCHANGED <<clock, born, openers, tracked, row, active, threads, stop, closeout, surplus,
                   late, window, orphan, syncs, faults>>

\* Plausible bug: the position stays among the tracked ones.
DropKeeps(p, t) ==
    /\ pc[p] = "drop" /\ t \in todo[p]
    /\ hold' = [hold EXCEPT ![p] = t] /\ Goto(p, "close")
    /\ active' = active \cup {t}
    /\ Tally(t, t \in active, t \in Live)
    /\ UNCHANGED <<clock, market, openers, tracked, row, todo, stop, closeout,
                   late, window, orphan, syncs, faults>>

\* remove_position and the close callbacks: the outcome tracker looks for the
\* trade under the key of the tracked position, which has no account ...
Drop(p, t) ==
    /\ pc[p] = "drop" /\ t \in todo[p]
    /\ tracked' = tracked \ {t} /\ hold' = [hold EXCEPT ![p] = t] /\ Goto(p, "close")
    /\ active' = active \ {t}
    /\ Tally(t, t \in active, t \in Live)
    /\ UNCHANGED <<clock, market, openers, row, todo, stop, closeout,
                   late, window, orphan, syncs, faults>>

\* ... then mark_position_closed; its error ends the pass.
WriteClosed(p) ==
    /\ pc[p] = "close" /\ hold' = [hold EXCEPT ![p] = None]
    /\ \/ /\ row' = [row EXCEPT ![hold[p]] = "closed"] /\ orphan' = orphan \ {hold[p]}
          /\ todo' = [todo EXCEPT ![p] = @ \ {hold[p]}]
          /\ Goto(p, "drop") /\ UNCHANGED faults
       \/ /\ Fault /\ orphan' = orphan \cup {hold[p]}
          /\ todo' = [todo EXCEPT ![p] = {}] /\ Goto(p, AfterPass(p)) /\ UNCHANGED row
    /\ UNCHANGED <<clock, market, openers, tracked, active, stop, closeout, surplus,
                   late, window, syncs>>

PassEnds(p) ==
    /\ pc[p] = "drop" /\ todo[p] = {} /\ Goto(p, AfterPass(p))
    /\ UNCHANGED <<clock, market, openers, tracked, row, active, todo, hold, stop, closeout,
                   surplus, late, window, orphan, syncs, faults>>

(* --------------------------- the reconcile loop ------------------------- *)

\* The wait between two passes is longer than _POSITIONS_TTL. Then
\* _flush_dirty_positions: the rows of the positions whose peak has moved.
Flush(D) ==
    /\ pc["loop"] \in {"first", "wait"} /\ ~stop /\ D \subseteq tracked /\ Goto("loop", "eod")
    /\ row' = [t \in Tickets |-> IF t \in D THEN "open" ELSE row[t]]
    /\ recent' = IF pc["loop"] = "wait" THEN {} ELSE recent
    /\ UNCHANGED <<clock, broker, born, openers, tracked, active, todo, hold, stop, closeout,
                   surplus, late, window, orphan, syncs, faults>>

LoopEnds ==
    /\ pc["loop"] \in {"first", "wait"} /\ stop /\ Goto("loop", "none")
    /\ UNCHANGED <<clock, market, openers, tracked, row, active, todo, hold, stop, closeout,
                   surplus, late, window, orphan, syncs, faults>>

\* Plausible bug: an evening whose gate is up surplus as closed out.
EodDueOnce == Evening /\ gate # Day

\* check_end_of_day
EodDue == Evening /\ done # Day

EodNotDue ==
    /\ pc["loop"] = "eod" /\ ~EodDue /\ Goto("loop", "query")
    /\ UNCHANGED <<clock, market, openers, tracked, row, active, todo, hold, stop, closeout,
                   surplus, late, window, orphan, syncs, faults>>

\* The gate goes up before the closeout, which first lists what is to close.
EodStarts ==
    /\ pc["loop"] = "eod" /\ EodDue /\ gate' = Day
    /\ late' = IF ex.pc = "gated" THEN {ex.t} \cap Watched ELSE {}
    /\ \/ \E list \in Lists : eod' = [NoCloseout EXCEPT !.day = Day, !.pos = list # {}]
          /\ UNCHANGED faults
       \/ Fault /\ eod' = [NoCloseout EXCEPT !.day = Day, !.error = TRUE]
    /\ Goto("loop", "eodOrders")
    /\ UNCHANGED <<clock, market, openers, tracked, row, active, todo, hold, stop, done, surplus,
                   window, orphan, syncs>>

EodOrders ==
    /\ pc["loop"] = "eodOrders"
    /\ \/ eod' = [eod EXCEPT !.orders = Orders] /\ UNCHANGED faults
       \/ Fault /\ eod' = [eod EXCEPT !.error = TRUE]
    /\ Goto("loop", IF eod.pos THEN "eodClose" ELSE "eodCancel")
    /\ UNCHANGED <<clock, market, openers, tracked, row, active, todo, hold, stop, gate, done,
                   surplus, late, window, orphan, syncs>>

\* close_all_positions: all that are open by now; some may fail, or the call
\* raises after any of them.
EodCloses ==
    /\ pc["loop"] = "eodClose" /\ Goto("loop", "eodCancel")
    /\ \/ /\ CloseAll(Live) /\ UNCHANGED faults
          /\ eod' = [eod EXCEPT !.pos = FALSE]
       \/ \E F \in SUBSET Live, raised \in BOOLEAN :
             /\ Fault /\ CloseAll(Live \ F)
             /\ eod' = [eod EXCEPT !.pos = FALSE, !.error = @ \/ raised]
    /\ UNCHANGED <<clock, born, openers, tracked, row, active, todo, hold, stop, gate, done, surplus,
                   late, window, orphan, syncs>>

\* cancel_orders_by_tickets: the orders listed before, likewise.
EodCancels ==
    /\ pc["loop"] = "eodCancel" /\ Goto("loop", "eodLeft")
    /\ \/ /\ CloseAll(eod.orders \cap Orders) /\ UNCHANGED faults
          /\ eod' = [eod EXCEPT !.orders = {}]
       \/ \E F \in SUBSET eod.orders, raised \in BOOLEAN :
             /\ Fault /\ CloseAll((eod.orders \cap Orders) \ F)
             /\ eod' = [eod EXCEPT !.orders = {}, !.error = @ \/ raised]
    /\ UNCHANGED <<clock, born, openers, tracked, row, active, todo, hold, stop, gate, done, surplus,
                   late, window, orphan, syncs>>

\* Plausible bug: the result of the close call is taken for the account.
EodAssumes ==
    /\ pc["loop"] = "eodLeft" /\ Goto("loop", "eodEnd") /\ eod' = [eod EXCEPT !.left = FALSE]
    /\ UNCHANGED <<clock, market, openers, tracked, row, active, todo, hold, stop, gate, done,
                   surplus, late, window, orphan, syncs, faults>>

\* The positions that are left; a failed query leaves an error and no list.
EodLeft ==
    /\ pc["loop"] = "eodLeft" /\ Goto("loop", "eodEnd")
    /\ \/ \E list \in Lists :
             /\ eod' = [eod EXCEPT !.left = list # {}] /\ UNCHANGED faults
             /\ late' = late \cup ((Live \ list) \cap Watched)
       \/ Fault /\ eod' = [eod EXCEPT !.error = TRUE] /\ UNCHANGED late
    /\ UNCHANGED <<clock, market, openers, tracked, row, active, todo, hold, stop, gate, done,
                   surplus, window, orphan, syncs>>

\* The orders that are left. Complete when nothing is and no call raised;
\* otherwise the next pass of the same evening tries again.
EodEnds ==
    /\ pc["loop"] = "eodEnd" /\ Goto("loop", "query") /\ eod' = NoCloseout
    /\ \/ /\ done' = IF ~eod.left /\ Orders = {} /\ ~eod.error THEN eod.day ELSE done
          /\ UNCHANGED faults
       \/ Fault /\ UNCHANGED done
    /\ UNCHANGED <<clock, market, openers, tracked, row, active, todo, hold, stop, gate,
                   surplus, late, window, orphan, syncs>>

(* ------------------------------- lifecycle ------------------------------ *)

\* start(): a pass in the caller's thread, once the previous loop has ended; a
\* loop that outlived its stop is waited for. A running one is left alone.
Start ==
    /\ pc["side"] = "none"
    /\ \/ Down /\ Goto("side", "query") /\ stop' = FALSE
       \/ ~Down /\ stop /\ Goto("side", "rejoin") /\ UNCHANGED stop
    /\ UNCHANGED <<clock, market, openers, tracked, row, active, todo, hold, closeout, surplus,
                   late, window, orphan, syncs, faults>>

\* wait_previous: the old loop has ended, or the wait timed out and start() has
\* done nothing.
Rejoin ==
    /\ pc["side"] = "rejoin"
    /\ \/ Down /\ pc' = [pc EXCEPT !["side"] = "query"] /\ job' = "again" /\ stop' = FALSE
       \/ ~Down /\ Goto("side", "none") /\ UNCHANGED stop
    /\ UNCHANGED <<clock, market, openers, tracked, row, active, todo, hold, closeout, surplus,
                   late, window, orphan, syncs, faults>>

\* reconcile_position_runtime_states: the live positions ...
StatesQuery ==
    /\ pc["side"] = "states"
    /\ \/ \E list \in Lists :
             /\ todo' = [todo EXCEPT !["side"] = list] /\ Goto("side", "mark")
             /\ window' = window \cup ((Live \ list) \cap Watched) /\ UNCHANGED <<orphan, faults>>
       \/ Fault /\ orphan' = orphan \cup Untended /\ Goto("side", "overnight")
          /\ UNCHANGED <<todo, window>>
    /\ UNCHANGED <<clock, market, openers, tracked, row, active, hold, stop, closeout, surplus,
                   late, syncs>>

\* ... then the open rows, and those without a live position are closed.
StatesMark ==
    /\ pc["side"] = "mark" /\ Goto("side", "overnight")
    /\ row' = [t \in Tickets |-> IF row[t] = "open" /\ t \notin todo["side"] THEN "closed" ELSE row[t]]
    /\ orphan' = (orphan \cup Untended) \cap todo["side"] /\ todo' = [todo EXCEPT !["side"] = {}]
    /\ UNCHANGED <<clock, market, openers, tracked, active, hold, stop, closeout, surplus,
                   late, window, syncs, faults>>

\* force_close_overnight: one position of an earlier day closes everything.
Overnight ==
    /\ pc["side"] = "overnight" /\ Goto("side", "none")
    /\ \/ /\ \E list \in Lists : \E t \in list : born[t] < Day
          /\ CloseAll(Live) /\ UNCHANGED faults
       \/ /\ \E list \in Lists : \A t \in list : born[t] = Day
          /\ UNCHANGED <<broker, recent, faults>>
       \/ Fault /\ UNCHANGED <<broker, recent>>
    /\ UNCHANGED <<clock, born, openers, tracked, row, active, todo, hold, stop, closeout, surplus,
                   late, window, orphan, syncs>>

\* POST /trade/reconcile
Request ==
    /\ pc["side"] = "none" /\ syncs < MaxSyncs /\ syncs' = syncs + 1
    /\ pc' = [pc EXCEPT !["side"] = "query"] /\ job' = "request"
    /\ UNCHANGED <<clock, market, openers, tracked, row, active, todo, hold, stop, closeout, surplus,
                   late, window, orphan, faults>>

Stop ==
    /\ ~Down /\ ~stop /\ (pc["side"] = "none" \/ job = "request") /\ Fault /\ stop' = TRUE
    /\ UNCHANGED <<clock, market, openers, tracked, row, active, threads, closeout, surplus,
                   late, window, orphan, syncs>>

\* The process dies: what is in memory is gone. Recovery hands the new monitor
\* the resting orders it still finds.
Crash ==
    /\ ~Down /\ Fault /\ ex' = Idle /\ mon' = Idle /\ watch' \in SUBSET watch /\ tracked' = {} /\ active' = {} /\ recent' = {}
    /\ pc' = [p \in Threads |-> "none"] /\ todo' = [p \in Threads |-> {}]
    /\ hold' = [p \in Threads |-> None] /\ job' = "pass" /\ stop' = FALSE
    /\ gate' = None /\ done' = None /\ eod' = NoCloseout
    /\ UNCHANGED <<clock, broker, born, foreign, row, surplus, late, window, orphan, syncs>>

Broker == Tick \/ \E t \in Tickets : Fill(t) \/ BrokerCloses(t)
Executor == ExSubmits \/ ExTracks \/ ExWrites
Monitor == MonitorTracks \/ MonitorWrites \/ \E t \in Tickets : MonitorLooks(t)
Sync(p) ==
    SyncQuery(p) \/ SyncPuts(p) \/ SyncWrites(p) \/ \E t \in Tickets : SyncNext(p, t)
Compare(p) ==
    Copy(p) \/ Look(p) \/ WriteClosed(p) \/ PassEnds(p) \/ \E t \in Tickets : Drop(p, t)
Loop ==
    \/ Sync("loop") \/ Compare("loop") \/ LoopEnds \/ \E D \in SUBSET tracked : Flush(D)
    \/ EodNotDue \/ EodStarts \/ EodOrders \/ EodCloses \/ EodCancels \/ EodLeft \/ EodEnds
Side == Sync("side") \/ Compare("side") \/ Rejoin \/ StatesQuery \/ StatesMark \/ Overnight

Next ==
    \/ Broker \/ Executor \/ Monitor \/ Loop \/ Side
    \/ \E t \in Tickets : ExPasses(t) \/ \E p \in Threads : MarketExit(p, t)
    \/ \E t \in Tickets, system \in BOOLEAN : DirectTrade(t, system)
    \/ Start \/ Request \/ Stop \/ Crash

Spec == Init /\ [][Next]_vars

\* Threads run until they are stopped; an accepted intent is executed.
FairSpec == Spec /\ WF_vars(Loop) /\ WF_vars(Side) /\ WF_vars(Executor) /\ WF_vars(Monitor)

(* ------------------------------ properties ------------------------------ *)

\* A row says closed only when the broker no longer has the position, whatever
\* threads track, drop and write at the same time.  The one exception: a
\* position too new for the list of live positions that a pass or the startup
\* recovery had in hand (the list may be cached); nothing bounds how long such
\* a row is wrong, so the exception stays.
ClosedRowIsGone ==
    /\ TypeOK
    /\ \A t \in Watched : row[t] = "closed" => broker[t] = "gone" \/ t \in window

\* A trade is evaluated once; a further outcome needs a thread that acted on an
\* old list and dropped the position while it was live, or tracked it again
\* after the broker had closed it.
OutcomesAreCaused == \A t \in Tickets : surplus[t] <= 1

\* Once the closeout of the day is complete, the account holds nothing and keeps
\* no order except, of this evening: what an executor past the gate check added,
\* a position filled too late for the closeout's last list, and direct trades
\* made after it (the HTTP trade routes do not ask is_after_eod_today).
ClosedOutIsFlat ==
    done = Day => (Live \cup Orders) \cap Watched \subseteq late

\* A position with a signal_id or a system comment is tracked in the end,
\* whichever of the executor's record, the order monitor's, a sync, or a restart
\* brings it in, direct trades included. A sync skips the others.
LiveIsTracked ==
    \A t \in Tickets : t \in Live \ foreign /\ ~Down ~> t \in tracked \/ t \notin Live \/ Down

\* The row of a closed position says so in the end, unless the closing write
\* failed or an opening write came after it (the next startup repairs those).
RowsCatchUp ==
    \A t \in Tickets : row[t] = "open" /\ t \notin Live /\ ~Down
                         ~> row[t] = "closed" \/ t \in orphan \/ Down

\* Once the gate is up, the closeout completes before the day is over, also when
\* calls failed, orders filled or an order slipped past the gate.
CloseoutSettles == gate = Day /\ ~Down ~> done = gate \/ gate # Day \/ Down
=============================================================================
