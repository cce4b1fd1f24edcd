---------------------------- MODULE RuntimeModes ----------------------------
(***************************************************************************)
(* The run-mode controller of one instance and the worker threads it       *)
(* starts and stops: RuntimeModeController, its policy and guard, the      *)
(* component registry, and OwnedThreadLifecycle.                           *)
(*                                                                         *)
(* Three threads change the mode, each under the controller's RLock: the   *)
(* boot thread, the monitor thread (end of day, next session), and the     *)
(* operator-command consumer, which executes set_runtime_mode and the mode *)
(* change after a manual closeout.  Applying a mode is a long sequence of  *)
(* starts and stops; a stop sets the worker's stop event and joins it with *)
(* a timeout.  The command consumer is itself one of those workers.        *)
(*                                                                         *)
(* Left out: the components every mode keeps (storage, warm-up, ingestion, *)
(* pipeline trace) and the indicator stack, which follows "signals" in the *)
(* same modes.  The two threads of the pending-entry manager share one     *)
(* stop event and are one worker here.  TradeExecutor has no worker thread *)
(* in the live wiring (intents are processed in the intent consumer's      *)
(* thread), so its stop() only clears an empty queue.                      *)
(***************************************************************************)
EXTENDS Integers, FiniteSets, Sequences

CONSTANTS
    InitialMode,    \* [trading_ops] runtime_mode
    EodAction,      \* [trading_ops] runtime_mode_after_eod
    MaxRequests,    \* bound: operator mode changes in a behaviour
    MaxTurns,       \* bound: changes of exposure and day, and start() failures
    MaxZombies,     \* bound: workers outliving a join at the same time
    None

Modes == {"full", "observe", "risk_off", "ingest_only"}
Eod == {"disabled", "risk_off", "ingest_only"}
Workers == {"signals", "intent", "command", "pending", "position", "projection"}
Appliers == {"boot", "monitor", "command"}
Reasons == {"startup", "operator", "after_eod", "session_start"}

ASSUME InitialModeAssumption == InitialMode \in Modes
ASSUME EodActionAssumption == EodAction \in Eod
ASSUME ModeBoundsAssumption ==
    MaxRequests \in Nat /\ MaxTurns \in Nat /\ MaxZombies \in Nat
ASSUME NoneIsNoMode == None \notin Modes \cup Appliers \cup Reasons

VARIABLES
    phase,      \* AppRuntime: "boot", "running" or "failed"
    mode,       \* _current_mode
    auto,       \* _is_auto_transitioned
    reason,     \* _last_transition_reason
    err,        \* _last_error is set
    holder,     \* the thread holding the controller's lock, or None
    job,        \* the transition being applied: target, reason, errors so far
    todo,       \* the registry calls still to make
    attached,   \* listener_state["attached"]
    alive,      \* worker -> number of its threads that are alive
    stopping,   \* worker -> its stop event is set
    cmd,        \* the mode the command thread wants, or None at its loop
    eod,        \* PositionManager.is_after_eod_today()
    exposure,   \* the account has open positions or pending orders
    opening,    \* the intent consumer is past the pre-trade checks of an intent
    late,       \* workers that ever outlived a join
    requests, turns

control == <<phase, mode, auto, reason, err>>
workers == <<attached, alive, stopping, late>>
market == <<eod, exposure, opening, turns>>
vars == <<phase, mode, auto, reason, err, holder, job, todo, attached, alive,
          stopping, cmd, eod, exposure, opening, late, requests, turns>>

(***************************************************************************)
(* The component registry                                                  *)
(***************************************************************************)
\* Every worker's component, with two for trade execution: the intent and the
\* command consumer.
ComponentOf(w) ==
    CASE w = "signals" -> "signals"
      [] w \in {"intent", "command"} -> "trade_execution"
      [] w = "pending" -> "pending_entry"
      [] w = "position" -> "position_manager"
      [] w = "projection" -> "account_risk_state_projection"

Components == {"signals", "trade_execution", "pending_entry", "position_manager",
               "account_risk_state_projection"}
RiskModes == {"full", "observe", "risk_off"}

\* Plausible bug: execution belongs to the risk components.
SupportedModesRiskOff ==
    [c \in Components |-> IF c = "signals" THEN {"full", "observe"} ELSE RiskModes]

SupportedModes ==
    [c \in Components |-> IF c = "signals" THEN {"full", "observe"}
                          ELSE IF c = "trade_execution" THEN {"full"} ELSE RiskModes]

Keeps(m, w) == m \in SupportedModes[ComponentOf(w)]

\* One call of a component's start or stop function on one worker.
Call(op, w) == [op |-> op, worker |-> w]

\* The calls an apply may make, in order: the guard, the starts in the order of
\* the registry, the stops in reverse.  stop() sets the event, then joins.
Script ==
    <<Call("guard", "position"), Call("start", "signals"),
      Call("start", "intent"), Call("start", "command"), Call("attach", "intent"),
      Call("start", "pending"), Call("start", "position"), Call("start", "projection"),
      Call("stop", "projection"), Call("join", "projection"),
      Call("stop", "position"), Call("join", "position"),
      Call("stop", "pending"), Call("join", "pending"),
      Call("stop", "command"), Call("join", "command"),
      Call("stop", "intent"), Call("join", "intent"), Call("detach", "intent"),
      Call("stop", "signals"), Call("join", "signals")>>

Calls == {Script[i] : i \in DOMAIN Script}
Place == [k \in Calls |-> CHOOSE i \in DOMAIN Script : Script[i] = k]
Consumer(w) == ComponentOf(w) = "trade_execution"

\* _start_trade_execution: both consumers, only when they are not attached.
StartCalls(m) ==
    {k \in Calls : /\ k.op \in {"start", "attach"} /\ Keeps(m, k.worker)
                   /\ Consumer(k.worker) => ~attached}

\* Plausible bug: the consumers are stopped and stay marked as attached.
StopCallsKeepAttached(m) ==
    {k \in Calls : /\ k.op \in {"stop", "join"} /\ ~Keeps(m, k.worker)
                   /\ Consumer(k.worker) => attached}

\* _stop_trade_execution: both, only when they are.
StopCalls(m) ==
    {k \in Calls : /\ k.op \in {"stop", "join", "detach"} /\ ~Keeps(m, k.worker)
                   /\ Consumer(k.worker) => attached}

\* RuntimeComponentRegistry.apply_mode: what the mode supports is started, then
\* everything else is stopped.
CallsFor(m) == StartCalls(m) \cup StopCalls(m)

\* An exception ends the component's function: its other calls are not made.
WithoutComponent(calls, c) == {k \in calls : ComponentOf(k.worker) # c}

(***************************************************************************)
(* The policy                                                              *)
(***************************************************************************)
can_enter(m) == m # "ingest_only" \/ ~exposure

\* Plausible bug: only ingest_only counts as a mode to come back from.
resolve_session_start_ingest == auto /\ ~eod /\ mode = "ingest_only"

resolve_session_start == auto /\ ~eod /\ mode # InitialMode

\* Plausible bug: observe is not degraded at the end of the day.
resolve_after_eod_full_only == mode = "full" /\ eod

resolve_after_eod == mode \in {"full", "observe"} /\ eod

AfterEodTarget ==
    IF EodAction = "risk_off" \/ exposure THEN "risk_off" ELSE "ingest_only"

-----------------------------------------------------------------------------
NoJob == [target |-> None, reason |-> None, errors |-> FALSE]

Init ==
    /\ phase = "boot" /\ mode = None /\ auto = FALSE /\ reason = None /\ err = FALSE
    /\ holder = None /\ job = NoJob /\ todo = {} /\ attached = FALSE
    /\ alive = [w \in Workers |-> 0] /\ stopping = [w \in Workers |-> FALSE]
    /\ cmd = None /\ eod = FALSE /\ exposure \in BOOLEAN /\ opening = FALSE /\ late = {}
    /\ requests = 0 /\ turns = 0

\* Plausible bug: the caller's name is recorded as the reason.
AcquireActor(a, m, r) ==
    /\ holder = None
    /\ holder' = a
    /\ job' = [target |-> m, reason |-> a, errors |-> FALSE]
    /\ todo' = {Call("guard", "position")}

\* Takes the lock to apply m; ensure_can_enter is the next step.
Acquire(a, m, r) ==
    /\ holder = None
    /\ holder' = a
    /\ job' = [target |-> m, reason |-> r, errors |-> FALSE]
    /\ todo' = {Call("guard", "position")}

\* RuntimeModeController.start on the boot thread.
Boot ==
    /\ phase = "boot" /\ Acquire("boot", InitialMode, "startup")
    /\ auto' = FALSE
    /\ UNCHANGED <<phase, mode, reason, err, workers, cmd, market, requests>>

\* The consumer's loop takes a set_runtime_mode command, or the mode change
\* that follows a manual closeout; it then waits for the controller's lock.
RequestMode(m) ==
    /\ requests < MaxRequests
    /\ alive["command"] > 0 /\ cmd = None /\ ~stopping["command"]
    /\ cmd' = m
    /\ requests' = requests + 1
    /\ UNCHANGED <<control, holder, job, todo, workers, market>>

\* apply_mode called by the command thread: the flag is cleared before the guard.
ApplyRequest ==
    /\ cmd # None /\ Acquire("command", cmd, "operator")
    /\ auto' = FALSE
    /\ UNCHANGED <<phase, mode, reason, err, workers, cmd, market, requests>>

\* _evaluate_auto_transition, up to the guard of _apply_mode_locked.
MonitorRestores ==
    /\ phase = "running" /\ EodAction # "disabled"
    /\ resolve_session_start
    /\ Acquire("monitor", InitialMode, "session_start")
    /\ auto' = FALSE
    /\ UNCHANGED <<phase, mode, reason, err, workers, cmd, market, requests>>

MonitorDegrades ==
    /\ phase = "running" /\ EodAction # "disabled"
    /\ ~resolve_session_start /\ resolve_after_eod
    /\ Acquire("monitor", AfterEodTarget, "after_eod")
    /\ auto' = TRUE
    /\ UNCHANGED <<phase, mode, reason, err, workers, cmd, market, requests>>

Release ==
    /\ holder' = None /\ job' = NoJob
    /\ cmd' = IF holder = "command" THEN None ELSE cmd

\* The next call of the registry's work.
First == CHOOSE k \in todo : \A l \in todo : Place[k] <= Place[l]
Current(op) == holder # None /\ todo # {} /\ First.op = op
Subject == First.worker
Done == todo' = todo \ {First}

\* ensure_can_enter reads positions and orders again.
GuardPasses ==
    /\ Current("guard") /\ can_enter(job.target)
    /\ todo' = CallsFor(job.target)
    /\ UNCHANGED <<control, holder, job, workers, cmd, market, requests>>

\* It raises: nothing is applied.  The monitor's loop records the error; a
\* failed boot ends AppRuntime.start.
GuardRejects ==
    /\ Current("guard") /\ ~can_enter(job.target)
    /\ Release /\ todo' = {}
    /\ err' = (err \/ holder = "monitor")
    /\ phase' = IF holder = "boot" THEN "failed" ELSE phase
    /\ UNCHANGED <<mode, auto, reason, workers, market, requests>>

(***************************************************************************)
(* OwnedThreadLifecycle                                                    *)
(***************************************************************************)
\* The consumers and the projector: start() returns when is_running().
StartsIfIdle == {"intent", "command", "projection"}

Begins(w) ==
    /\ alive' = [alive EXCEPT ![w] = @ + 1]
    /\ stopping' = [stopping EXCEPT ![w] = FALSE]

\* Plausible bug: start() looks at the stop event instead of the thread.
ReusesThreadUnlessStopped(w) ==
    w \in StartsIfIdle /\ alive[w] > 0 /\ ~stopping[w]

ReusesThread(w) == w \in StartsIfIdle /\ alive[w] > 0

StartReturnsEarly ==
    /\ Current("start") /\ ReusesThread(Subject) /\ Done
    /\ UNCHANGED <<control, holder, job, workers, cmd, market, requests>>

\* A new thread; signals, pending entries and positions first wait_previous.
StartSpawns ==
    /\ Current("start") /\ ~ReusesThread(Subject)
    /\ Subject \in StartsIfIdle \/ alive[Subject] = 0
    /\ Begins(Subject) /\ Done
    /\ UNCHANGED <<control, holder, job, attached, late, cmd, market, requests>>

\* wait_previous ran out of time: start() returns, the old thread goes on.
StartGivesUp ==
    /\ Current("start") /\ Subject \notin StartsIfIdle /\ alive[Subject] > 0
    /\ Done
    /\ UNCHANGED <<control, holder, job, workers, cmd, market, requests>>

\* position_manager.start reads its configuration, the projector projects once
\* before its thread exists; an exception ends that component's start.
StartRaises ==
    /\ Current("start")
    /\ Subject = "position" \/ (Subject = "projection" /\ alive[Subject] = 0)
    /\ turns < MaxTurns /\ turns' = turns + 1
    /\ stopping' = IF Subject = "projection"
                   THEN [stopping EXCEPT !["projection"] = FALSE] ELSE stopping
    /\ todo' = WithoutComponent(todo, ComponentOf(Subject))
    /\ job' = [job EXCEPT !.errors = TRUE]
    /\ UNCHANGED <<control, holder, attached, alive, late, cmd, eod, exposure,
                   opening, requests>>

Attach ==
    /\ Current("attach") /\ attached' = TRUE /\ Done
    /\ UNCHANGED <<control, holder, job, alive, stopping, late, cmd, market, requests>>

Detach ==
    /\ Current("detach") /\ attached' = FALSE /\ Done
    /\ UNCHANGED <<control, holder, job, alive, stopping, late, cmd, market, requests>>

\* stop() sets the event, then joins.
StopSignals ==
    /\ Current("stop")
    /\ stopping' = [stopping EXCEPT ![Subject] = TRUE] /\ Done
    /\ UNCHANGED <<control, holder, job, attached, alive, late, cmd, market, requests>>

\* Thread.join on the calling thread raises RuntimeError.
JoinsItself == Subject = "command" /\ holder = "command"

JoinRaises ==
    /\ Current("join") /\ JoinsItself
    /\ todo' = WithoutComponent(todo, ComponentOf(Subject))
    /\ job' = [job EXCEPT !.errors = TRUE]
    /\ UNCHANGED <<control, holder, workers, cmd, market, requests>>

JoinReturns ==
    /\ Current("join") /\ ~JoinsItself /\ alive[Subject] = 0 /\ Done
    /\ UNCHANGED <<control, holder, job, workers, cmd, market, requests>>

Zombies == {w \in Workers : alive[w] > 0 /\ stopping[w]}

\* Plausible bug: a join without a timeout.
MayOutliveJoinNever(w) == FALSE

\* A thread that waits for the controller's lock cannot finish before the join
\* times out: the command thread and, through snapshot(), the projector.
MayOutliveJoin(w) ==
    w \in {"command", "projection"} \/ Cardinality(Zombies) <= MaxZombies

JoinTimesOut ==
    /\ Current("join") /\ ~JoinsItself /\ alive[Subject] > 0
    /\ MayOutliveJoin(Subject)
    /\ late' = late \cup {Subject}
    /\ Done
    /\ UNCHANGED <<control, holder, job, attached, alive, stopping, cmd, market, requests>>

\* The registry is through: the mode is recorded even after partial failures.
ApplyEnds ==
    /\ holder # None /\ todo = {}
    /\ Release
    /\ mode' = job.target /\ reason' = job.reason /\ err' = job.errors
    /\ phase' = IF holder = "boot" THEN "running" ELSE phase
    /\ UNCHANGED <<auto, todo, workers, market, requests>>

(***************************************************************************)
(* The workers and the market                                              *)
(***************************************************************************)
\* A worker's loop sees its stop event; the consumers only between two items.
WorkerExits(w) ==
    /\ alive[w] > 0 /\ stopping[w]
    /\ w = "command" => cmd = None
    /\ w = "intent" => ~opening
    /\ alive' = [alive EXCEPT ![w] = @ - 1]
    /\ UNCHANGED <<control, holder, job, todo, attached, stopping, late, cmd, market, requests>>

\* process_event in the intent consumer's thread: the pre-trade checks refuse
\* once the end-of-day gate is set ...
IntentPassesChecks ==
    /\ alive["intent"] > 0 /\ ~opening /\ ~eod
    /\ turns < MaxTurns /\ turns' = turns + 1
    /\ opening' = TRUE
    /\ UNCHANGED <<control, holder, job, todo, workers, cmd, eod, exposure, requests>>

\* ... and the order reaches the broker later, or is refused there.
IntentDispatches ==
    /\ opening
    /\ exposure' \in {exposure, TRUE}
    /\ opening' = FALSE
    /\ UNCHANGED <<control, holder, job, todo, workers, cmd, eod, turns, requests>>

\* Stop, target, closeout or expiry.
ExposureCloses ==
    /\ exposure /\ turns < MaxTurns /\ turns' = turns + 1
    /\ exposure' = FALSE
    /\ UNCHANGED <<control, holder, job, todo, workers, cmd, eod, opening, requests>>

\* _run_end_of_day_closeout on the reconcile thread sets today's gate date.
EodReached ==
    /\ alive["position"] > 0 /\ ~eod /\ turns < MaxTurns /\ turns' = turns + 1
    /\ eod' = TRUE
    /\ UNCHANGED <<control, holder, job, todo, workers, cmd, exposure, opening,
                   requests>>

NewDay ==
    /\ eod /\ turns < MaxTurns /\ turns' = turns + 1
    /\ eod' = FALSE
    /\ UNCHANGED <<control, holder, job, todo, workers, cmd, exposure, opening,
                   requests>>

ApplyStep ==
    \/ GuardPasses \/ GuardRejects
    \/ StartReturnsEarly \/ StartSpawns \/ StartGivesUp \/ StartRaises
    \/ Attach \/ Detach
    \/ StopSignals \/ JoinRaises \/ JoinReturns \/ JoinTimesOut
    \/ ApplyEnds

Monitor == MonitorRestores \/ MonitorDegrades

Next ==
    \/ Boot \/ Monitor \/ ApplyRequest \/ ApplyStep
    \/ \E m \in Modes : RequestMode(m)
    \/ \E w \in Workers : WorkerExits(w)
    \/ IntentPassesChecks \/ IntentDispatches \/ ExposureCloses \/ EodReached \/ NewDay

Spec == Init /\ [][Next]_vars

\* The projector and the command thread can be waiting for the lock.
ExitsUnblocked(w) ==
    (w \in {"command", "projection"} => holder = None) /\ WorkerExits(w)

Fairness ==
    /\ WF_vars(Boot) /\ WF_vars(Monitor) /\ WF_vars(ApplyRequest) /\ WF_vars(ApplyStep)
    /\ WF_vars(IntentDispatches)
    /\ \A w \in Workers : WF_vars(ExitsUnblocked(w))

FairSpec == Spec /\ Fairness

-----------------------------------------------------------------------------
(***************************************************************************)
(* Properties                                                              *)
(***************************************************************************)
Settled == holder = None /\ phase = "running"
Up(w) == alive[w] > 0 /\ ~stopping[w]

\* Types of the controller, the registry's work and the workers; the state of
\* RuntimeModeController and OwnedThreadLifecycle.
TypeOK ==
    /\ phase \in {"boot", "running", "failed"}
    /\ mode \in Modes \cup {None} /\ reason \in Reasons \cup {None}
    /\ auto \in BOOLEAN /\ err \in BOOLEAN /\ eod \in BOOLEAN /\ exposure \in BOOLEAN
    /\ opening \in BOOLEAN /\ holder \in Appliers \cup {None} /\ attached \in BOOLEAN
    /\ job \in [target : Modes \cup {None}, reason : Reasons \cup {None},
               errors : BOOLEAN]
    /\ todo \subseteq Calls
    /\ alive \in [Workers -> Nat] /\ stopping \in [Workers -> BOOLEAN]
    /\ cmd \in Modes \cup {None} /\ late \subseteq Workers
    /\ requests \in 0..MaxRequests /\ turns \in 0..MaxTurns

\* A component never has two worker threads, whatever stops timed out before
\* the start that follows (is_running / wait_previous before a new thread).
SingleWorker == \A w \in Workers : alive[w] <= 1

\* Once a mode was applied without an error, what it keeps really runs: the
\* intent consumer in full, signals, pending entries, positions and the risk
\* projection where they are supported -- unless the worker outlived a join.
ModeIsEffective ==
    Settled /\ ~err =>
        \A w \in Workers \ late :
            /\ w = "intent" /\ mode = "full" => Up(w)
            /\ w = "signals" /\ mode \in {"full", "observe"} => Up(w)
            /\ w \in {"pending", "position", "projection"} /\ mode # "ingest_only" => Up(w)

\* A mode the boot or the monitor applied leaves nothing running that it does
\* not keep; a mode the operator applied does so outside trade execution.
ModeStopsWorkers ==
    Settled =>
        /\ mode # "full" /\ reason # "operator" => ~Up("intent") /\ ~Up("command")
        /\ mode \notin {"full", "observe"} => ~Up("signals")
        /\ mode = "ingest_only" => \A w \in {"pending", "position", "projection"} : ~Up(w)

\* The controller's lock is always given back: no apply waits for ever on a
\* worker that is itself waiting for the lock.
ApplyFinishes == holder # None ~> holder = None

\* After the end-of-day gate the monitor takes the instance out of full and
\* observe, whatever the operator asked in between.
EodStopsTrading ==
    phase = "running" /\ eod /\ mode \in {"full", "observe"}
        ~> ~eod \/ mode \notin {"full", "observe"}

\* A mode the monitor set at the end of the day is left on the next day, unless
\* the operator asks for a mode first.
RestoredNextSession ==
    Settled /\ auto /\ ~eod /\ mode # InitialMode
        ~> mode = InitialMode \/ eod \/ cmd # None

\* config/app.ini: observe keeps signals "but does not listen for execution",
\* risk_off and ingest_only keep less.  Outside full the intent consumer is down.
NoExecutionOutsideFull == Settled /\ mode # "full" => ~Up("intent")
=============================================================================
