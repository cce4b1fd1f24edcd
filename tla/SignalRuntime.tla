---------------------------- MODULE SignalRuntime ----------------------------
(***************************************************************************)
(* The signal runtime of the main instance, for one strategy on one symbol *)
(* and timeframe: snapshots of the indicator engine pass the warmup        *)
(* barrier, wait in a SQLite queue (bar closes) or in bounded memory       *)
(* queues (intrabar and tick-derived samples), and one loop thread         *)
(* evaluates them, drives the confirmed state machine and the intrabar     *)
(* coordinator, and publishes signals to the intent publisher.             *)
(***************************************************************************)
EXTENDS Integers, Sequences, FiniteSets, SequencesExt

CONSTANTS
    Events,          \* snapshots: [scope, bar, sig, dir]; sig numbers the values
                     \* a bar's snapshots show, in the order they are computed
    BurstLimit,      \* _CONFIRMED_BURST_LIMIT
    LaneCap,         \* maxsize of an in-memory queue
    MinStable,       \* min_stable_bars of the intrabar policy
    MaxAge,          \* two timeframes, in bars
    MaxFailures,     \* _LISTENER_MAX_CONSECUTIVE_FAILURES
    MaxClock, MaxFaults,
    MaxOffers,       \* how often each snapshot is offered
    None

Lanes == {"intrabar", "tick_derived"}
Scopes == Lanes \cup {"confirmed"}
Directions == {"buy", "sell", "hold"}
Confirmed == {e \in Events : e.scope = "confirmed"}
Bars == {e.bar : e \in Events}
StateNames == {"confirmed_buy", "confirmed_sell", "confirmed_cancelled", "tick_derived_buy",
               "tick_derived_sell", "intrabar_armed_buy", "intrabar_armed_sell"}
Armed == {"intrabar_armed_buy", "intrabar_armed_sell"}
Signals == [state : StateNames, bar : Nat]
Votes == [bar : Nat, dir : Directions]

ASSUME RuntimeAssumption ==
    /\ Events \subseteq [scope : Scopes, bar : Nat, sig : Nat, dir : Directions]
    /\ BurstLimit \in Nat \ {0} /\ LaneCap \in Nat \ {0} /\ MinStable \in Nat \ {0}
    /\ MaxAge \in Nat /\ MaxFailures \in Nat \ {0}
    /\ MaxClock \in Nat /\ MaxOffers \in [Events -> Nat] /\ MaxFaults \in Nat
    /\ None \notin Events \cup Signals

VARIABLES
    now,         \* opening time of the current bar
    ready,       \* _warmup_ready_fn(): backfilling is over
    barSeen,     \* _first_realtime_bar_seen
    attached,    \* the snapshot listener is registered
    arriving,    \* confirmed snapshot past the barrier, inside the listener
    wal, closed, \* rows of signal_queue in id order; connection closed
    lane,        \* the in-memory queues
    pc, hand, out,            \* loop thread: step, event held, signal to publish
    stop, joining,            \* stop event; a stop() waits for the thread
    burst, turn,              \* _confirmed_burst_count, _non_confirmed_turn
    target,      \* RuntimeSignalState of the strategy
    coord,       \* _StabilityState of the strategy
    saved,       \* newest confirmed row of the signal repository
    subscribed, failures,     \* the intent publisher and its failure count
    \* history
    offers, admitted, evaluated, lost,  \* how often each snapshot (bar) was ...
    streak,      \* confirmed events claimed in a row while a sample was waiting
    votes,       \* [bar, dir] of every intrabar sample evaluated, holds included
    heard,       \* last armed signal the intent publisher took
    faults

barrier == <<ready, barSeen>>
queues == <<wal, closed, lane>>
thread == <<pc, hand, out>>
stopping == <<stop, joining>>
turns == <<burst, turn>>
memory == <<target, coord>>
listeners == <<subscribed, failures>>
counts == <<offers, admitted, evaluated, lost>>
watch == <<streak, votes, heard>>
vars == <<now, barrier, attached, arriving, queues, thread, stopping, turns,
          memory, saved, listeners, counts, watch, faults>>

(* ------------------------------ helpers -------------------------------- *)

Idle == [conf |-> "idle", emitted |-> None, ebar |-> None, eat |-> 0, snap |-> None]
NoStability == [dir |-> "hold", count |-> 0, bar |-> None, armed |-> FALSE]
Zero == [e \in Events |-> 0]
Bump(f, e) == [f EXCEPT ![e] = @ + 1]
BumpBar(f, e) == IF e \in Confirmed THEN Bump(f, e) ELSE f
Fault == faults < MaxFaults /\ faults' = faults + 1
RowsWith(c) == {i \in DOMAIN wal : wal[i].claimed = c}
OldestRow(c) == IF RowsWith(c) = {} THEN 0 ELSE Min(RowsWith(c))
FirstPending == OldestRow(FALSE)
FirstClaimed == OldestRow(TRUE)
SampleWaits == \E l \in Lanes : lane[l] # <<>>
Running == pc # "none"

TypeOK ==
    /\ now \in 0..MaxClock /\ {ready, barSeen} \subseteq BOOLEAN
    /\ attached \in BOOLEAN /\ arriving \in Confirmed \cup {None}
    /\ wal \in Seq([ev : Confirmed, claimed : BOOLEAN]) /\ closed \in BOOLEAN
    /\ lane \in [Lanes -> Seq(Events)]
    /\ \A l \in Lanes : Len(lane[l]) <= LaneCap /\ \A i \in DOMAIN lane[l] : lane[l][i].scope = l
    /\ pc \in {"none", "idle", "wait", "claimed", "yield", "process", "publish"}
    /\ hand \in Events \cup {None}
    /\ out \in Signals \cup {None}
    /\ pc \in {"claimed", "yield", "process", "publish"} <=> hand # None
    /\ pc = "publish" <=> out # None
    /\ {stop, joining, subscribed} \subseteq BOOLEAN
    /\ burst \in 0..BurstLimit - 1 /\ turn \in 0..1
    /\ target \in [conf : {"idle", "confirmed_buy", "confirmed_sell"}, emitted : StateNames \cup {None},
                   ebar : Nat \cup {None}, eat : Nat,
                   snap : [scope : Scopes, bar : Nat, sig : Nat] \cup {None}]
    /\ coord \in [dir : Directions, count : Nat, bar : Nat \cup {None}, armed : BOOLEAN]
    /\ saved \in [state : {"confirmed_buy", "confirmed_sell", "confirmed_cancelled"}, bar : Nat]
                 \cup {None}
    /\ failures \in 0..MaxFailures - 1
    /\ {offers, admitted, evaluated, lost} \subseteq [Events -> Nat]
    /\ streak \in Nat /\ votes \in Seq(Votes)
    /\ faults \in 0..MaxFaults

Init ==
    /\ now = 0 /\ ready = FALSE /\ barSeen = FALSE
    /\ attached = FALSE /\ arriving = None
    /\ wal = <<>> /\ closed = FALSE /\ lane = [l \in Lanes |-> <<>>]
    /\ pc = "none" /\ hand = None /\ out = None /\ stop = FALSE /\ joining = FALSE
    /\ burst = 0 /\ turn = 0 /\ target = Idle /\ coord = NoStability /\ saved = None
    /\ subscribed = TRUE /\ failures = 0
    /\ offers = Zero /\ admitted = Zero /\ evaluated = Zero /\ lost = Zero
    /\ streak = 0 /\ votes = <<>> /\ heard = None /\ faults = 0

(* ------------------------- the indicator engine ------------------------- *)

Tick ==
    /\ now < MaxClock /\ now' = now + 1
    /\ UNCHANGED <<barrier, attached, arriving, queues, thread, stopping, turns,
                   memory, saved, listeners, counts, watch, faults>>

BackfillEnds ==
    /\ ~ready /\ ready' = TRUE
    /\ UNCHANGED <<now, barSeen, attached, arriving, queues, thread,
                   stopping, turns, memory, saved, listeners, counts, watch, faults>>

\* _check_confirmed_warmup: every confirmed bar must be recent.
Fresh(bar) == now - bar <= MaxAge

\* A bar close, or its repetition by the reconcile pass or a retried event.
\* The bar unlocks the samples before its indicators are looked at.
OnConfirmed(e, complete) ==
    /\ attached /\ arriving = None /\ offers[e] < MaxOffers[e] /\ e.bar < now
    /\ ready /\ Fresh(e.bar)
    /\ offers' = Bump(offers, e) /\ barSeen' = TRUE
    /\ arriving' = IF complete THEN e ELSE None
    /\ UNCHANGED <<now, ready, attached, queues, thread, stopping, turns,
                   memory, saved, listeners, admitted, evaluated, lost, watch, faults>>

\* put_nowait: a closed queue raises, and the caller drops the snapshot.
PutConfirmed ==
    /\ arriving # None /\ arriving' = None
    /\ \/ closed /\ UNCHANGED <<wal, admitted>>
       \/ /\ ~closed /\ wal' = Append(wal, [ev |-> arriving, claimed |-> FALSE])
          /\ admitted' = Bump(admitted, arriving)
    /\ UNCHANGED <<now, barrier, attached, closed, lane, thread, stopping, turns,
                   memory, saved, listeners, offers, evaluated, lost, watch, faults>>

\* enqueue_event on a bounded queue: when it is full the oldest event goes.
PutLane(q, e) == IF Len(q) < LaneCap THEN Append(q, e) ELSE Append(Tail(q), e)

\* One thread computes the snapshots of a bar's child bars, one after the other.
Shown(e) == {f.sig : f \in {g \in Events \ {e} : g.scope = e.scope /\ g.bar = e.bar /\ offers[g] > 0}}
InOrder(e) == Shown(e) = 1..(e.sig - 1)

\* Intrabar samples wait for the first confirmed bar and a complete snapshot;
\* tick-derived ones come from the tick bus and skip the barrier.
OnSample(e) ==
    /\ e.scope \in Lanes /\ e.bar <= now /\ offers[e] < MaxOffers[e] /\ Running /\ InOrder(e)
    /\ e.scope = "intrabar" => attached /\ ready /\ barSeen
    /\ offers' = Bump(offers, e)
    /\ lane' = [lane EXCEPT ![e.scope] = PutLane(@, e)]
    /\ UNCHANGED <<now, barrier, attached, arriving, wal, closed, thread,
                   stopping, turns, memory, saved, listeners, admitted, evaluated,
                   lost, watch, faults>>

(* --------------------------- taking an event ---------------------------- *)

\* The lanes in the order _non_confirmed_turn gives them.
Order(t) == IF t = 0 THEN <<"intrabar", "tick_derived">>
                     ELSE <<"tick_derived", "intrabar">>
FirstLane(t) == IF lane[Order(t)[1]] # <<>> THEN Order(t)[1] ELSE Order(t)[2]

TakeSample(l) ==
    /\ lane[l] # <<>> /\ hand' = Head(lane[l]) /\ pc' = "process"
    /\ lane' = [lane EXCEPT ![l] = Tail(@)]
    /\ streak' = 0

\* get_nowait, first half: UPDATE ... SET processed = 1 on the oldest row.
Claim ==
    /\ pc = "idle" /\ ~stop /\ ~closed /\ FirstPending > 0
    /\ wal' = [wal EXCEPT ![FirstPending].claimed = TRUE]
    /\ hand' = wal[FirstPending].ev /\ pc' = "claimed"
    /\ streak' = IF SampleWaits THEN streak + 1 ELSE 0
    /\ UNCHANGED <<now, barrier, attached, arriving, closed, lane, out, stopping,
                   turns, memory, saved, listeners, counts, votes, heard, faults>>

\* Plausible bug: the counter is reset before it is compared.
YieldNever == FALSE

\* _confirmed_burst_count has reached its limit.
YieldDue == burst + 1 >= BurstLimit

\* Second half: the row is deleted before the event is processed. On a closed
\* queue it raises and the row stays claimed.
Complete ==
    /\ pc = "claimed"
    /\ \/ closed /\ hand' = None /\ pc' = "idle" /\ UNCHANGED <<wal, burst>>
       \/ /\ ~closed /\ wal' = RemoveAt(wal, FirstClaimed) /\ UNCHANGED hand
          /\ burst' = IF burst + 1 < BurstLimit THEN burst + 1 ELSE 0
          /\ pc' = IF YieldDue THEN "yield" ELSE "process"
    /\ UNCHANGED <<now, barrier, attached, arriving, closed, lane, out, stopping, turn,
                   memory, saved, listeners, counts, watch, faults>>

\* Plausible bug: the confirmed event is not put back.
YieldDrops ==
    /\ pc = "yield" /\ turn' = 1 - turn
    /\ \/ ~SampleWaits /\ pc' = "process" /\ UNCHANGED <<hand, lane, streak>>
       \/ TakeSample(FirstLane(turn))
    /\ UNCHANGED <<now, barrier, attached, arriving, wal, closed, out, stopping, burst,
                   memory, saved, listeners, counts, votes, heard, faults>>

\* dequeue_event at the burst limit: a waiting sample goes first and the
\* confirmed event is put back, at the end of the queue.
Yield ==
    /\ pc = "yield" /\ turn' = 1 - turn
    /\ \/ ~SampleWaits /\ pc' = "process" /\ UNCHANGED <<hand, wal, lane, lost, streak>>
       \/ /\ ~closed /\ TakeSample(FirstLane(turn))
          /\ wal' = Append(wal, [ev |-> hand, claimed |-> FALSE]) /\ UNCHANGED lost
       \/ /\ closed /\ SampleWaits                      \* put_nowait raises
          /\ lane' = [lane EXCEPT ![FirstLane(turn)] = Tail(@)]
          /\ hand' = None /\ pc' = "idle" /\ lost' = Bump(lost, hand)
          /\ streak' = 0 /\ UNCHANGED wal
    /\ UNCHANGED <<now, barrier, attached, arriving, closed, out, stopping, burst,
                   memory, saved, listeners, offers, admitted, evaluated,
                   votes, heard, faults>>

\* No confirmed event: a sample of either lane, or wait for one.
Poll ==
    /\ pc = "idle" /\ ~stop /\ ~closed /\ FirstPending = 0
    /\ burst' = 0 /\ turn' = 1 - turn
    /\ \/ TakeSample(FirstLane(turn))
       \/ ~SampleWaits /\ pc' = "wait" /\ UNCHANGED <<hand, lane, streak>>
    /\ UNCHANGED <<now, barrier, attached, arriving, wal, closed, out, stopping, memory,
                   saved, listeners, counts, votes, heard, faults>>

\* The blocking get on one lane, then a last look at the other one.
Wait ==
    /\ pc = "wait" /\ turn' = 1 - turn
    /\ \/ TakeSample(Order(turn)[1])
       \/ TakeSample(Order(turn)[2])
       \/ lane[Order(turn)[2]] = <<>> /\ pc' = "idle" /\ UNCHANGED <<hand, lane, streak>>
    /\ UNCHANGED <<now, barrier, attached, arriving, wal, closed, out, stopping, burst,
                   memory, saved, listeners, counts, votes, heard, faults>>

(* ------------------------- evaluating an event -------------------------- *)

Snap(e) == [scope |-> e.scope, bar |-> e.bar, sig |-> e.sig]

\* is_new_snapshot: one slot for all scopes; confirmed repeats are dropped, a
\* repeated sample only within the dedupe window, which may be over.
IsNew(e) == target.snap # Snap(e) \/ e.scope # "confirmed"

StateName(e) ==
    CASE e.scope = "confirmed" /\ e.dir = "buy" -> "confirmed_buy"
      [] e.scope = "confirmed" /\ e.dir = "sell" -> "confirmed_sell"
      [] e.scope = "tick_derived" /\ e.dir = "buy" -> "tick_derived_buy"
      [] e.scope = "tick_derived" /\ e.dir = "sell" -> "tick_derived_sell"
      [] e.scope = "intrabar" /\ e.dir = "buy" -> "intrabar_armed_buy"
      [] e.scope = "intrabar" /\ e.dir = "sell" -> "intrabar_armed_sell"
      [] OTHER -> "confirmed_cancelled"

\* should_emit with a cooldown of zero; a bar's event time is its opening time.
ShouldEmit(s, e) ==
    \/ target.emitted # s \/ target.ebar # e.bar
    \/ e.bar >= target.eat

\* transition_confirmed: the new state and whether a signal goes out.
Transition(e) ==
    IF e.dir = "hold"
    THEN [emits |-> target.conf # "idle", conf |-> "idle"]
    ELSE [emits |-> ShouldEmit(StateName(e), e), conf |-> StateName(e)]

MarkEmitted(t, s, bar) == [t EXCEPT !.emitted = s, !.ebar = bar, !.eat = bar]

Signal(e) == [state |-> StateName(e), bar |-> e.bar]

\* persist_decision swallows its errors; only state changes are stored.
Persist(e, changed) ==
    \/ changed /\ saved' = Signal(e) /\ UNCHANGED faults
    \/ changed /\ Fault /\ UNCHANGED saved
    \/ ~changed /\ UNCHANGED <<saved, faults>>

\* transition_and_publish up to the publication, one operator per scope.
EvaluateConfirmed(e) ==
    LET t == Transition(e)
        kept == [target EXCEPT !.snap = Snap(e), !.conf = t.conf] IN
    /\ UNCHANGED <<coord, votes>>
    /\ \/ /\ t.emits /\ target' = MarkEmitted(kept, StateName(e), e.bar)
          /\ Persist(e, t.conf # target.conf) /\ out' = Signal(e)
       \/ ~t.emits /\ target' = kept /\ out' = None /\ UNCHANGED <<saved, faults>>

EvaluateTick(e) ==
    LET kept == [target EXCEPT !.snap = Snap(e)] IN
    /\ UNCHANGED <<coord, votes, saved, faults>>
    /\ \/ /\ e.dir # "hold" /\ target' = MarkEmitted(kept, StateName(e), e.bar)
          /\ out' = Signal(e)
       \/ e.dir = "hold" /\ target' = kept /\ out' = None

\* Plausible bug: a change of direction keeps the count.
StabilityKeepsCount(e, confident) ==
    IF coord.bar # e.bar
    THEN [dir |-> e.dir, count |-> 1, bar |-> e.bar, armed |-> FALSE]
    ELSE [coord EXCEPT !.dir = e.dir, !.count = @ + 1,
                       !.armed = @ \/ (coord.count + 1 >= MinStable /\ confident)]

\* IntrabarTradeCoordinator.update; a hold does not reach it.
Stability(e, confident) ==
    IF coord.bar # e.bar \/ coord.dir # e.dir
    THEN [dir |-> e.dir, count |-> 1, bar |-> e.bar, armed |-> FALSE]
    ELSE [coord EXCEPT !.count = @ + 1,
                       !.armed = @ \/ (coord.count + 1 >= MinStable /\ confident)]

Vote(e) == [bar |-> e.bar, dir |-> e.dir]

EvaluateIntrabar(e, confident) ==
    /\ target' = [target EXCEPT !.snap = Snap(e)] /\ UNCHANGED <<saved, faults>>
    /\ votes' = Append(votes, Vote(e))
    /\ \/ e.dir = "hold" /\ out' = None /\ UNCHANGED coord
       \/ /\ e.dir # "hold" /\ coord' = Stability(e, confident)
          /\ out' = IF coord'.armed /\ ~coord.armed THEN Signal(e) ELSE None

\* process_next_event: an event that is stale, filtered out or a repeat leaves
\* no trace (second disjunct); the others are evaluated.
Process ==
    /\ pc = "process"
    /\ evaluated' = BumpBar(evaluated, hand)
    /\ \/ /\ IsNew(hand)
          /\ \/ hand.scope = "confirmed" /\ EvaluateConfirmed(hand)
             \/ hand.scope = "tick_derived" /\ EvaluateTick(hand)
             \/ /\ hand.scope = "intrabar"
                /\ \E confident \in BOOLEAN : EvaluateIntrabar(hand, confident)
       \/ UNCHANGED <<memory, saved, out, votes, faults>>
    /\ hand' = IF out' = None THEN None ELSE hand
    /\ pc' = IF out' = None THEN "idle" ELSE "publish"
    /\ UNCHANGED <<now, barrier, attached, arriving, queues, stopping, turns,
                   listeners, offers, admitted, lost, streak, heard>>

\* service.evaluate raises: the loop logs it, the event is gone, and its
\* snapshot counts as seen.
ProcessRaises ==
    /\ pc = "process" /\ Fault /\ pc' = "idle" /\ hand' = None
    /\ target' = [target EXCEPT !.snap = Snap(hand)]
    /\ lost' = BumpBar(lost, hand)
    /\ UNCHANGED <<now, barrier, attached, arriving, queues, out, stopping, turns,
                   coord, saved, listeners, offers, admitted, evaluated, watch>>

\* From sample i on, every sample that is not a hold voted as v did.
Agree(i, v) == \A j \in i..Len(votes) : votes[j].dir # "hold" => votes[j] = v
VotesFor(i, v) == {j \in i..Len(votes) : votes[j] = v}

\* The last samples, holds aside, agree with the signal, and are enough.
Steady(e) ==
    \E i \in 1..Len(votes) : Agree(i, Vote(e)) /\ Cardinality(VotesFor(i, Vote(e))) >= MinStable

\* publish_signal_event: the publisher hears it, or raises; it is removed after
\* MaxFailures failures in a row.
Publish ==
    /\ pc = "publish" /\ pc' = "idle" /\ hand' = None /\ out' = None
    /\ \/ ~subscribed /\ UNCHANGED <<listeners, heard, faults>>
       \/ /\ subscribed /\ failures' = 0 /\ UNCHANGED <<subscribed, faults>>
          /\ heard' = IF out.state \in Armed THEN [state |-> out.state, steady |-> Steady(hand)]
                      ELSE heard
       \/ /\ subscribed /\ Fault /\ UNCHANGED heard
          /\ subscribed' = (failures + 1 < MaxFailures)
          /\ failures' = IF failures + 1 < MaxFailures THEN failures + 1 ELSE 0
    /\ UNCHANGED <<now, barrier, attached, arriving, queues, stopping, turns, memory,
                   saved, counts, streak, votes>>

(* ------------------------------ lifecycle ------------------------------- *)

\* The loop sees the stop event between two events.
LoopEnds ==
    /\ pc = "idle" /\ stop /\ pc' = "none"
    /\ UNCHANGED <<now, barrier, attached, arriving, queues, hand, out, stopping,
                   turns, memory, saved, listeners, counts, watch, faults>>

\* stop(): set the event, detach, join; then close the queue, also when the
\* join timed out.
Stop ==
    /\ attached /\ ~joining /\ Fault
    /\ stop' = TRUE /\ joining' = TRUE /\ attached' = FALSE
    /\ UNCHANGED <<now, barrier, arriving, queues, thread, turns, memory, saved,
                   listeners, counts, watch>>

StopCloses ==
    /\ joining /\ joining' = FALSE /\ closed' = TRUE /\ burst' = 0
    /\ UNCHANGED <<now, barrier, attached, arriving, wal, lane, thread, stop, turn,
                   memory, saved, listeners, counts, watch, faults>>

\* restore_confirmed_state, from the newest stored confirmed signal; it was
\* generated after its bar opened.
Restored ==
    IF saved = None THEN target
    ELSE [target EXCEPT !.conf = IF saved.state = "confirmed_cancelled" THEN "idle"
                                 ELSE saved.state,
                        !.emitted = saved.state, !.ebar = saved.bar,
                        !.eat = saved.bar + 1]

\* Plausible bug: rows claimed before a stop or a crash stay claimed.
ReopenedAsIs == wal

\* _init_db: claimed rows become pending again.
Reopened == [i \in DOMAIN wal |-> [wal[i] EXCEPT !.claimed = FALSE]]

\* start(): only when the previous thread has ended; the queue is reopened.
Start ==
    /\ pc = "none" /\ ~attached /\ ~joining
    /\ pc' = "idle" /\ stop' = FALSE /\ attached' = TRUE /\ closed' = FALSE
    /\ wal' = Reopened
    /\ target' = Restored /\ streak' = 0
    /\ UNCHANGED <<now, barrier, arriving, lane, hand, out, joining, turns, coord,
                   saved, listeners, counts, votes, heard, faults>>

\* The process dies: what is in memory is gone.
Crash ==
    /\ Running /\ Fault
    /\ ready' = FALSE /\ barSeen' = FALSE
    /\ attached' = FALSE /\ arriving' = None /\ closed' = FALSE
    /\ lane' = [l \in Lanes |-> <<>>] /\ pc' = "none" /\ hand' = None /\ out' = None
    /\ stop' = FALSE /\ joining' = FALSE /\ burst' = 0 /\ turn' = 0
    /\ target' = Idle /\ coord' = NoStability /\ subscribed' = TRUE /\ failures' = 0
    /\ lost' = IF pc \in {"yield", "process"} THEN BumpBar(lost, hand) ELSE lost
    /\ streak' = 0 /\ votes' = <<>>
    /\ UNCHANGED <<now, wal, saved, offers, admitted, evaluated, heard>>

Source ==
    \/ Tick \/ BackfillEnds \/ PutConfirmed
    \/ \E e \in Confirmed, complete \in BOOLEAN : OnConfirmed(e, complete)
    \/ \E e \in Events \ Confirmed : OnSample(e)

Loop ==
    \/ Claim \/ Complete \/ Yield \/ Poll \/ Wait
    \/ Process \/ ProcessRaises \/ Publish \/ LoopEnds

Next == Source \/ Loop \/ Stop \/ StopCloses \/ Start \/ Crash

Spec == Init /\ [][Next]_vars

\* The loop catches every exception and runs on; a join has a timeout; a
\* stopped runtime is started again. Nothing is assumed of the market.
FairSpec == Spec /\ WF_vars(Loop) /\ WF_vars(StopCloses) /\ WF_vars(Start)

(* ------------------------------ properties ------------------------------ *)

\* Every admitted bar close is in the queue, held by the loop, or was evaluated
\* once, also when rows claimed by a thread that outlived its stop or by a dead
\* process are made pending again; one is missing only for a crash, a stop that
\* timed out or an error (wal_queue.py: bar closes survive process restarts).
NothingLost ==
    /\ TypeOK
    /\ \A e \in Confirmed :
         admitted[e] = Cardinality({i \in DOMAIN wal : wal[i].ev = e})
                       + evaluated[e] + lost[e]
                       + (IF hand = e /\ pc \in {"yield", "process"} THEN 1 ELSE 0)
    /\ \A e \in Confirmed : lost[e] <= faults

\* While a sample waits, fewer than BurstLimit bar closes are evaluated before
\* the loop takes a sample (_CONFIRMED_BURST_LIMIT), however they interleave.
SamplesNotStarved ==
    pc = "process" /\ hand \in Confirmed => streak < BurstLimit

\* An intrabar_armed signal follows MinStable evaluated samples of its parent
\* bar and direction with no sample of the other direction or of another bar
\* among or after them. Holds do not break the run: update() ignores them
\* (intrabar_trade_coordinator.py:93), so buy, hold, buy arms at MinStable = 2
\* although the module's words ask for consecutive child bars.
ArmedIsStable == heard # None => heard.steady

\* Every queued bar close is taken from the queue in the end.
QueueDrains ==
    \A e \in Confirmed :
        (\E r \in ToSet(wal) : r.ev = e) ~> (\A r \in ToSet(wal) : r.ev # e)
==============================================================================
