-------------------------- MODULE RuntimeModesProofs --------------------------
(***************************************************************************)
(* Proofs about the run-mode controller, for every configuration.          *)
(***************************************************************************)
EXTENDS RuntimeModes, WellFoundedInduction, TLAPS

\* The thread counts, as far as SingleWorker needs them.
Counts == alive \in [Workers -> Nat] /\ SingleWorker

\* No step that leaves the counts alone disturbs them; every step of the
\* specification but a spawn and an exit does leave them alone.
LEMMA CountsStep == Counts /\ [Next]_vars => Counts'
<1> SUFFICES ASSUME Counts, [Next]_vars PROVE Counts'
  OBVIOUS
<1> USE DEF Counts, SingleWorker
<1>1. CASE StartSpawns
  <2> DEFINE s == Subject
  <2>1. s \in Workers => alive[s] = 0
    BY <1>1 DEF StartSpawns, ReusesThread, StartsIfIdle
  <2>2. alive' = [alive EXCEPT ![s] = @ + 1]
    BY <1>1 DEF StartSpawns, Begins
  <2> HIDE DEF s
  <2>3. CASE s \in Workers
    BY <2>1, <2>2, <2>3
  <2>4. CASE s \notin Workers
    <3>1. alive' = alive
      BY <2>2, <2>4
    <3>2. QED BY <3>1
  <2>5. QED BY <2>3, <2>4
<1>2. ASSUME NEW w \in Workers, WorkerExits(w) PROVE Counts'
  <2>1. alive' = [alive EXCEPT ![w] = @ - 1] /\ alive[w] = 1
    BY <1>2 DEF WorkerExits
  <2>2. alive' \in [Workers -> Nat]
    BY <2>1
  <2>3. QED BY <2>1, <2>2
<1>3. CASE UNCHANGED alive
  BY <1>3
<1>4. ASSUME ApplyStep, ~StartSpawns PROVE UNCHANGED alive
  BY <1>4 DEF ApplyStep, GuardPasses, GuardRejects, StartReturnsEarly, StartGivesUp,
      StartRaises, Attach, Detach, StopSignals, JoinRaises, JoinReturns,
      JoinTimesOut, ApplyEnds, workers
<1>5. ASSUME Boot \/ Monitor \/ ApplyRequest \/ \E m \in Modes : RequestMode(m)
      PROVE UNCHANGED alive
  BY <1>5 DEF Boot, Monitor, MonitorRestores, MonitorDegrades, ApplyRequest,
      RequestMode, workers
<1>6. ASSUME \/ IntentPassesChecks \/ IntentDispatches \/ ExposureCloses
             \/ EodReached \/ NewDay
      PROVE UNCHANGED alive
  BY <1>6 DEF IntentPassesChecks, IntentDispatches, ExposureCloses, EodReached,
      NewDay, workers
<1>7. CASE UNCHANGED vars
  BY <1>7, <1>3 DEF vars
<1>8. QED BY <1>1, <1>2, <1>3, <1>4, <1>5, <1>6, <1>7 DEF Next

\* In every reachable state of every configuration no component has two worker
\* threads: start() after a stop that timed out never doubles a worker.
THEOREM NeverTwoWorkers == Spec => []SingleWorker
<1>1. Init => Counts
  BY DEF Init, Counts, SingleWorker
<1>2. QED BY <1>1, CountsStep, PTL DEF Spec, Counts

(***************************************************************************)
(* What a mode keeps runs, and what it does not keep is stopped            *)
(***************************************************************************)
Pending(op, w) == Call(op, w) \in todo
Guarding == Pending("guard", "position")

\* The state a recorded mode answers for: nobody applies a mode, or the guard
\* has not let it yet.
AtRest == phase = "running" /\ (holder = None \/ Guarding)
Applying == holder # None /\ ~Guarding

\* The lock, the job and the work belong together; only the command thread
\* applies an operator's mode.
LockHasJob ==
    /\ holder = None => todo = {}
    /\ holder # None => job.target \in Modes /\ job.reason \in Reasons
    /\ holder # None => (holder = "command") = (job.reason = "operator")
    /\ Guarding => todo = {Call("guard", "position")}
    /\ phase = "running" => mode \in Modes

\* What is still to start belongs to the mode, what is still to stop does not.
WorkFitsMode ==
    \A k \in todo : /\ k.op \in {"start", "attach"} => Keeps(job.target, k.worker)
                    /\ k.op \in {"stop", "join", "detach"} => ~Keeps(job.target, k.worker)

\* The calls of a stop function come one after the other.
StopsInOrder ==
    /\ \A w \in Workers : Pending("stop", w) => Pending("join", w)
    /\ Pending("join", "command") => Pending("stop", "intent")
    /\ Pending("join", "command") => Pending("detach", "intent")
    /\ Pending("stop", "intent") => Pending("detach", "intent")

\* The flag is set once both consumers were started.
StartsInOrder ==
    \A w \in {"intent", "command"} : Pending("start", w) => Pending("attach", "intent")

\* A worker that was told to stop and lives on has outlived a join, or is being
\* joined; the command consumer may also have skipped its own join.
ZombiesAreLate ==
    \A w \in Workers \ {"command"} :
        alive[w] > 0 /\ stopping[w] => w \in late \/ (Pending("join", w) /\ ~Pending("stop", w))

\* The flag of the consumers and the intent consumer.
AttachedIsUp ==
    "intent" \notin late =>
        /\ attached => \/ Up("intent") \/ Pending("start", "intent")
                       \/ Pending("detach", "intent") /\ ~Pending("stop", "intent")
        /\ Pending("attach", "intent") => Up("intent") \/ Pending("start", "intent")
DetachedIsDown ==
    /\ ~attached /\ ~Pending("attach", "intent") => ~Up("intent") /\ ~Up("command")
    /\ \A w \in {"intent", "command"} : Pending("detach", "intent") => Pending("stop", w) \/ ~Up(w)

\* While a mode is applied, what it keeps is up or still to start ...
KeptIsComing ==
    Applying /\ ~job.errors =>
        \A w \in Workers \ (late \cup {"command"}) :
            Keeps(job.target, w) => Up(w) \/ Pending("start", w)

\* ... and what it does not keep is down or still to stop.
RestIsGoing ==
    Applying =>
        \A w \in Workers : ~Keeps(job.target, w) /\ (Consumer(w) => holder # "command")
                              => ~Up(w) \/ Pending("stop", w)

\* Afterwards the same holds of the mode that is recorded.
KeptIsUp ==
    AtRest /\ ~err => \A w \in Workers \ (late \cup {"command"}) : Keeps(mode, w) => Up(w)
RestIsDown ==
    AtRest => \A w \in Workers : ~Keeps(mode, w) /\ (Consumer(w) => reason # "operator") => ~Up(w)

ModesInv ==
    /\ TypeOK /\ SingleWorker /\ LockHasJob /\ WorkFitsMode /\ StopsInOrder /\ StartsInOrder
    /\ ZombiesAreLate /\ AttachedIsUp /\ DetachedIsDown /\ KeptIsComing /\ RestIsGoing /\ KeptIsUp /\ RestIsDown

(* ------------------------------- the script ------------------------------ *)

\* Which workers each mode keeps.
LEMMA KeepsFacts ==
    ASSUME NEW m \in Modes
    PROVE  /\ Keeps(m, "intent") <=> m = "full"
           /\ Keeps(m, "command") <=> m = "full"
           /\ Keeps(m, "signals") <=> m \in {"full", "observe"}
           /\ \A w \in {"pending", "position", "projection"} : Keeps(m, w) <=> m # "ingest_only"
BY DEF Keeps, ComponentOf, SupportedModes, Components, RiskModes, Modes

\* Only the two consumers share a component.
LEMMA ComponentFacts ==
    /\ \A w \in Workers : Consumer(w) <=> w \in {"intent", "command"}
    /\ \A v, w \in Workers : ComponentOf(v) = ComponentOf(w)
                                <=> v = w \/ {v, w} = {"intent", "command"}
BY DEF Consumer, ComponentOf, Workers

\* No call is in the script twice, so each has its place.
LEMMA ScriptIsInjective ==
    \A i, j \in 1..21 : Script[i] = Script[j] => i = j
BY DEF Script, Call

\* Every call of the script has its place.
LEMMA PlaceFacts ==
    /\ DOMAIN Script = 1..21
    /\ Place \in [Calls -> 1..21]
    /\ \A i \in 1..21 : Script[i] \in Calls /\ Place[Script[i]] = i
<1>1. DOMAIN Script = 1..21
    BY DEF Script
<1>2. \A i \in 1..21 : Script[i] \in Calls /\ Place[Script[i]] = i
    BY <1>1, ScriptIsInjective DEF Place, Calls
<1>3. Place \in [Calls -> 1..21]
    BY <1>1, <1>2 DEF Place, Calls
<1> QED
    BY <1>1, <1>2, <1>3

\* The order that matters: the event before the join, the command consumer
\* before the intent consumer, and the flag last.
LEMMA ScriptOrder ==
    /\ \A w \in Workers : /\ Call("start", w) \in Calls /\ Call("stop", w) \in Calls
                          /\ Call("join", w) \in Calls
                          /\ Place[Call("stop", w)] < Place[Call("join", w)]
    /\ Call("attach", "intent") \in Calls /\ Call("detach", "intent") \in Calls
    /\ Call("guard", "position") \in Calls
    /\ Place[Call("join", "command")] < Place[Call("stop", "intent")]
    /\ Place[Call("stop", "intent")] < Place[Call("detach", "intent")]
    /\ Place[Call("join", "command")] < Place[Call("detach", "intent")]
    /\ \A w \in {"intent", "command"} : /\ Place[Call("start", w)] < Place[Call("attach", "intent")]
                                        /\ Place[Call("stop", w)] < Place[Call("detach", "intent")]
<1>1. /\ Script[1] = Call("guard", "position") /\ Script[2] = Call("start", "signals")
      /\ Script[3] = Call("start", "intent") /\ Script[4] = Call("start", "command")
      /\ Script[5] = Call("attach", "intent") /\ Script[6] = Call("start", "pending")
      /\ Script[7] = Call("start", "position") /\ Script[8] = Call("start", "projection")
      /\ Script[9] = Call("stop", "projection") /\ Script[10] = Call("join", "projection")
      /\ Script[11] = Call("stop", "position") /\ Script[12] = Call("join", "position")
      /\ Script[13] = Call("stop", "pending") /\ Script[14] = Call("join", "pending")
      /\ Script[15] = Call("stop", "command") /\ Script[16] = Call("join", "command")
      /\ Script[17] = Call("stop", "intent") /\ Script[18] = Call("join", "intent")
      /\ Script[19] = Call("detach", "intent") /\ Script[20] = Call("stop", "signals")
      /\ Script[21] = Call("join", "signals")
    BY DEF Script
<1>2. \A i \in 1..21 : Script[i] \in Calls /\ Place[Script[i]] = i
    BY PlaceFacts
<1> QED
    BY <1>1, <1>2 DEF Workers

\* What the calls of the script look like.
LEMMA CallFacts ==
    \A k \in Calls : /\ k = Call(k.op, k.worker) /\ k.worker \in Workers
                     /\ k.op \in {"guard", "start", "attach", "stop", "join", "detach"}
                     /\ k.op \in {"attach", "detach"} => k.worker = "intent"
                     /\ k.op = "guard" => k.worker = "position"
<1>1. \A i \in 1..21 : LET k == Script[i] IN
        /\ k = Call(k.op, k.worker) /\ k.worker \in Workers
        /\ k.op \in {"guard", "start", "attach", "stop", "join", "detach"}
        /\ k.op \in {"attach", "detach"} => k.worker = "intent"
        /\ k.op = "guard" => k.worker = "position"
    BY DEF Script, Call, Workers
<1> QED
    BY <1>1, PlaceFacts DEF Calls

\* Some call comes first.
LEMMA FirstFacts ==
    ASSUME todo \subseteq Calls, todo # {}
    PROVE  First \in todo /\ \A k \in todo : Place[First] <= Place[k]
<1> DEFINE T == {Place[k] : k \in todo}
<1>1. \A k \in todo : Place[k] \in Nat
    BY PlaceFacts
<1>2. T \subseteq Nat /\ T # {}
    BY <1>1
<1> HIDE DEF T
<1>3. PICK m \in T : \A n \in T : <<n, m>> \notin OpToRel(<, Nat)
    BY <1>2, WFMin, NatLessThanWellFounded, Zenon
<1>4. \A n \in T : ~(n < m)
    BY <1>2, <1>3, Zenon DEF OpToRel
<1>5. \A n \in T : m <= n
    BY <1>2, <1>4
<1>6. \E k \in todo : \A l \in todo : Place[k] <= Place[l]
    BY <1>5 DEF T
<1> QED
    BY <1>6 DEF First

\* A call is its operation and its worker.
LEMMA CallEq ==
    \A op, w : /\ Call(op, w).op = op /\ Call(op, w).worker = w
               /\ \A oq, v : Call(op, w) = Call(oq, v) => op = oq /\ w = v
BY DEF Call

(* --------------------------------- types -------------------------------- *)

core == <<phase, mode, reason, err, holder, job, todo, attached, alive, stopping, late>>
Jobs == [target : Modes \cup {None}, reason : Reasons \cup {None}, errors : BOOLEAN]

ControlTypes ==
    /\ phase \in {"boot", "running", "failed"} /\ mode \in Modes \cup {None}
    /\ reason \in Reasons \cup {None} /\ holder \in Appliers \cup {None}
    /\ job \in Jobs /\ todo \subseteq Calls
WorkerTypes ==
    alive \in [Workers -> Nat] /\ stopping \in [Workers -> BOOLEAN] /\ late \subseteq Workers
FlagTypes ==
    /\ auto \in BOOLEAN /\ err \in BOOLEAN /\ eod \in BOOLEAN /\ exposure \in BOOLEAN
    /\ opening \in BOOLEAN /\ attached \in BOOLEAN
BoundTypes == cmd \in Modes \cup {None} /\ requests \in 0..MaxRequests /\ turns \in 0..MaxTurns

\* TypeOK by groups of variables.
LEMMA TypeParts == TypeOK <=> ControlTypes /\ WorkerTypes /\ FlagTypes /\ BoundTypes
BY Zenon DEF TypeOK, ControlTypes, WorkerTypes, FlagTypes, BoundTypes, Jobs

\* Somebody takes the controller's lock to apply a mode.
Takes ==
    /\ holder = None /\ holder' \in Appliers /\ todo' = {Call("guard", "position")}
    /\ job' \in [target : Modes, reason : Reasons, errors : {FALSE}]
    /\ (holder' = "command") = (job'.reason = "operator")
    /\ UNCHANGED <<phase, mode, reason, err, attached, alive, stopping, late>>

\* What any step may do to the controller and the workers.
LEMMA StepKinds ==
    ASSUME TypeOK, [Next]_vars
    PROVE  UNCHANGED core \/ Takes \/ ApplyStep \/ \E w \in Workers : WorkerExits(w)
<1>1. InitialMode \in Modes /\ cmd \in Modes \cup {None}
    BY InitialModeAssumption DEF TypeOK
<1>2. AfterEodTarget \in Modes
    BY DEF AfterEodTarget, Modes
<1>a. ASSUME NEW a \in Appliers, NEW m \in Modes, NEW r \in Reasons, Acquire(a, m, r),
             (a = "command") = (r = "operator"),
             UNCHANGED <<phase, mode, reason, err, attached, alive, stopping, late>>
      PROVE Takes
    BY <1>a DEF Acquire, Takes
<1>3. CASE Boot
    BY <1>1, <1>3, <1>a DEF Boot, Appliers, Reasons, workers
<1>4. CASE ApplyRequest
    BY <1>1, <1>4, <1>a DEF ApplyRequest, Appliers, Reasons, workers
<1>5. CASE Monitor
    BY <1>1, <1>2, <1>5, <1>a DEF Monitor, MonitorRestores, MonitorDegrades, Appliers, Reasons, workers
<1>6. CASE (\E m \in Modes : RequestMode(m)) \/ IntentPassesChecks \/ IntentDispatches
           \/ ExposureCloses \/ EodReached \/ NewDay \/ UNCHANGED vars
    BY <1>6 DEF RequestMode, IntentPassesChecks, IntentDispatches, ExposureCloses, EodReached,
                NewDay, vars, core, control, workers
<1> QED
    BY <1>3, <1>4, <1>5, <1>6 DEF Next

\* The call in hand is the first of the work.
LEMMA CurrentFacts ==
    ASSUME TypeOK, NEW op, Current(op)
    PROVE  /\ holder # None /\ First \in todo /\ First = Call(op, Subject)
           /\ Subject \in Workers /\ todo \ {First} \subseteq Calls
           /\ \A k \in todo : Place[First] <= Place[k]
<1>1. todo \subseteq Calls /\ todo # {} /\ holder # None /\ First.op = op
    BY DEF TypeOK, Current
<1>2. First \in todo /\ \A k \in todo : Place[First] <= Place[k]
    BY <1>1, FirstFacts
<1> QED
    BY <1>1, <1>2, CallFacts DEF Subject

\* Requests and turns stay within their bounds.
LEMMA BoundTypesStep ==
    ASSUME TypeOK, [Next]_vars
    PROVE  BoundTypes'
<1>0. BoundTypes /\ MaxRequests \in Nat /\ MaxTurns \in Nat
    BY TypeParts, ModeBoundsAssumption
<1>a. ASSUME cmd' = cmd \/ cmd' = None, requests' = requests,
             turns' = turns \/ (turns < MaxTurns /\ turns' = turns + 1)
      PROVE BoundTypes'
    BY <1>0, <1>a DEF BoundTypes
<1>1. CASE Boot \/ Monitor \/ ApplyRequest \/ UNCHANGED vars \/ \E w \in Workers : WorkerExits(w)
    <2>1. UNCHANGED <<cmd, requests, turns>>
        BY <1>1, Zenon DEF Boot, Monitor, MonitorRestores, MonitorDegrades, ApplyRequest, WorkerExits,
            vars, market
    <2> QED
        BY <2>1, <1>a
<1>2. CASE \E m \in Modes : RequestMode(m)
    BY <1>0, <1>2 DEF RequestMode, market, BoundTypes
<1>3. CASE IntentPassesChecks \/ IntentDispatches \/ ExposureCloses \/ EodReached \/ NewDay
    <2>1. /\ UNCHANGED <<cmd, requests>>
          /\ turns' = turns \/ (turns < MaxTurns /\ turns' = turns + 1)
        BY <1>3, Zenon DEF IntentPassesChecks, IntentDispatches, ExposureCloses, EodReached, NewDay
    <2> QED
        BY <2>1, <1>a
<1>4. CASE StartRaises
    BY <1>4, <1>a DEF StartRaises
<1>5. CASE ApplyStep /\ ~StartRaises
    <2>1. /\ UNCHANGED <<requests, turns>>
          /\ cmd' = cmd \/ cmd' = None
        BY <1>5, Zenon DEF ApplyStep, GuardPasses, GuardRejects, Release, StartReturnsEarly,
            StartSpawns, StartGivesUp, Attach, Detach, StopSignals, JoinRaises, JoinReturns,
            JoinTimesOut, ApplyEnds, market
    <2> QED
        BY <2>1, <1>a
<1> QED
    BY <1>1, <1>2, <1>3, <1>4, <1>5 DEF Next

\* Every step keeps the flags Boolean.
LEMMA FlagTypesStep ==
    ASSUME TypeOK, [Next]_vars
    PROVE  FlagTypes'
<1>0. FlagTypes /\ job.errors \in BOOLEAN
    BY TypeParts DEF ControlTypes, Jobs
<1>1. CASE Boot \/ Monitor \/ ApplyRequest \/ UNCHANGED vars
           \/ (\E w \in Workers : WorkerExits(w)) \/ (\E m \in Modes : RequestMode(m))
    BY <1>0, <1>1, Zenon DEF FlagTypes, Boot, Monitor, MonitorRestores, MonitorDegrades,
        ApplyRequest, WorkerExits, RequestMode, vars, control, workers, market
<1>2. CASE IntentPassesChecks \/ IntentDispatches \/ ExposureCloses \/ EodReached \/ NewDay
    BY <1>0, <1>2, Zenon DEF FlagTypes, IntentPassesChecks, IntentDispatches, ExposureCloses,
        EodReached, NewDay, control, workers
<1>3. CASE GuardPasses \/ StartReturnsEarly \/ StartSpawns \/ StartGivesUp \/ StartRaises
           \/ StopSignals \/ JoinRaises \/ JoinReturns \/ JoinTimesOut
    BY <1>0, <1>3, Zenon DEF FlagTypes, GuardPasses, StartReturnsEarly, StartSpawns, StartGivesUp,
        StartRaises, StopSignals, JoinRaises, JoinReturns, JoinTimesOut, control, workers, market
<1>4. CASE Attach \/ Detach \/ ApplyEnds \/ GuardRejects
    BY <1>0, <1>4, Zenon DEF FlagTypes, Attach, Detach, ApplyEnds, GuardRejects, control, workers, market
<1> QED
    BY <1>1, <1>2, <1>3, <1>4 DEF Next, ApplyStep

\* Every step keeps the types of the controller and the workers.
LEMMA CoreTypesStep ==
    ASSUME ModesInv, [Next]_vars
    PROVE  ControlTypes' /\ WorkerTypes'
<1>0. TypeOK /\ ControlTypes /\ WorkerTypes /\ SingleWorker
    BY TypeParts DEF ModesInv
<1>1. CASE UNCHANGED core
    BY <1>0, <1>1 DEF core, ControlTypes, WorkerTypes
<1>2. CASE Takes
    BY <1>0, <1>2, ScriptOrder DEF Takes, ControlTypes, WorkerTypes, Jobs
<1>3. ASSUME NEW w \in Workers, WorkerExits(w) PROVE ControlTypes' /\ WorkerTypes'
    BY <1>0, <1>3 DEF WorkerExits, ControlTypes, WorkerTypes, control
<1>4. CASE GuardPasses \/ StartReturnsEarly \/ StartGivesUp \/ Attach \/ Detach \/ JoinReturns
    <2>1. todo' \subseteq Calls
        BY <1>0, <1>4 DEF GuardPasses, CallsFor, StartCalls, StopCalls, StartReturnsEarly,
            StartGivesUp, Attach, Detach, JoinReturns, Done, ControlTypes
    <2> QED
        BY <1>0, <1>4, <2>1 DEF GuardPasses, StartReturnsEarly, StartGivesUp, Attach, Detach,
            JoinReturns, ControlTypes, WorkerTypes, control, workers
<1>5. CASE GuardRejects \/ ApplyEnds
    <2>1. NoJob \in Jobs
        BY DEF NoJob, Jobs
    <2> QED
        BY <1>0, <1>5, <2>1 DEF GuardRejects, ApplyEnds, Release, ControlTypes, WorkerTypes, workers, Jobs
<1>6. CASE StartSpawns
    BY <1>0, <1>6, CurrentFacts DEF StartSpawns, Begins, Done, ControlTypes, WorkerTypes, control
<1>7. CASE StopSignals \/ JoinTimesOut
    BY <1>0, <1>7, CurrentFacts DEF StopSignals, JoinTimesOut, Done, ControlTypes, WorkerTypes, control
<1>8. CASE StartRaises \/ JoinRaises
    <2>1. [job EXCEPT !.errors = TRUE] \in Jobs
        BY <1>0 DEF ControlTypes, Jobs
    <2> QED
        BY <1>0, <1>8, <2>1 DEF StartRaises, JoinRaises, WithoutComponent, ControlTypes, WorkerTypes,
            control, workers
<1> QED
    BY <1>0, <1>1, <1>2, <1>3, <1>4, <1>5, <1>6, <1>7, <1>8, StepKinds DEF ApplyStep

(* ------------------------------- the applies ----------------------------- *)

WorkInv ==
    /\ LockHasJob /\ WorkFitsMode /\ StopsInOrder /\ StartsInOrder /\ ZombiesAreLate
    /\ AttachedIsUp /\ DetachedIsDown /\ KeptIsComing /\ RestIsGoing /\ KeptIsUp /\ RestIsDown

\* What may be pending, by kind of call.
LEMMA PendingFacts ==
    ASSUME ModesInv
    PROVE  /\ \A w : Pending("start", w) => Keeps(job.target, w)
           /\ \A w : Pending("stop", w) \/ Pending("join", w) \/ Pending("detach", w)
                        => ~Keeps(job.target, w)
           /\ Pending("attach", "intent") => Keeps(job.target, "intent")
           /\ Keeps(job.target, "intent") = Keeps(job.target, "command")
<1>1. WorkFitsMode
    BY DEF ModesInv
<1>2. Keeps(job.target, "intent") = Keeps(job.target, "command")
    BY DEF Keeps, ComponentOf
<1> QED
    BY <1>1, <1>2, CallEq DEF WorkFitsMode, Pending

\* Past the guard there is no guard left, and the mode is not at rest.
LEMMA PastGuard ==
    ASSUME ModesInv, NEW op, Current(op), op # "guard"
    PROVE  /\ ~Guarding /\ Applying /\ ~AtRest /\ job.target \in Modes /\ job.reason \in Reasons
           /\ (holder = "command") = (job.reason = "operator")
<1>1. TypeOK /\ LockHasJob
    BY DEF ModesInv
<1>2. holder # None /\ First \in todo /\ First = Call(op, Subject)
    BY <1>1, CurrentFacts
<1>3. ~Guarding
    BY <1>1, <1>2, CallEq DEF LockHasJob, Guarding, Pending
<1> QED
    BY <1>1, <1>2, <1>3, Zenon DEF LockHasJob, Applying, AtRest

\* Making a call takes it, and no other, from the work.
LEMMA DoneFacts ==
    ASSUME ModesInv, NEW op, Current(op), Done
    PROVE  \A o, w : (Call(o, w) \in todo') <=> (Pending(o, w) /\ ~(o = op /\ w = Subject))
<1>1. First = Call(op, Subject)
    BY CurrentFacts DEF ModesInv
<1> QED
    BY <1>1, CallEq DEF Done, Pending

\* What was called before the call in hand is not pending.
LEMMA Before ==
    ASSUME ModesInv, NEW op, Current(op), NEW o, NEW w, Call(o, w) \in Calls,
           Place[Call(o, w)] < Place[Call(op, Subject)]
    PROVE  ~Pending(o, w)
<1>1. First = Call(op, Subject) /\ First \in todo /\ \A k \in todo : Place[First] <= Place[k]
    BY CurrentFacts DEF ModesInv
<1>2. Place[First] \in Nat /\ Place[Call(o, w)] \in Nat
    BY <1>1, PlaceFacts DEF ModesInv, TypeOK
<1> QED
    BY <1>1, <1>2 DEF Pending

\* Making a call of the work leaves the lock with its job, and the mode not at
\* rest: what is recorded is not read before the work is through.
LEMMA DoneStep ==
    ASSUME ModesInv, NEW op, Current(op), op # "guard", Done,
           UNCHANGED <<phase, mode, reason, err, holder, job>>
    PROVE  /\ LockHasJob' /\ WorkFitsMode' /\ KeptIsUp' /\ RestIsDown' /\ Applying
           /\ Pending(op, Subject) /\ Subject \in Workers
           /\ \A o, w : (Call(o, w) \in todo') <=> (Pending(o, w) /\ ~(o = op /\ w = Subject))
<1> DEFINE s == Subject
<1>1. \A o, w : (Call(o, w) \in todo') <=> (Pending(o, w) /\ ~(o = op /\ w = s))
    BY DoneFacts
<1>2. Pending(op, s) /\ s \in Workers /\ todo' \subseteq todo
    BY CurrentFacts DEF ModesInv, Pending, Done
<1>3. /\ ~Guarding /\ Applying /\ ~AtRest /\ job.target \in Modes /\ job.reason \in Reasons
      /\ (holder = "command") = (job.reason = "operator")
    BY PastGuard
<1> HIDE DEF s
<1>4. LockHasJob' /\ WorkFitsMode'
    BY <1>1, <1>2, <1>3 DEF ModesInv, LockHasJob, WorkFitsMode, Guarding, Pending, Applying
<1>5. ~AtRest'
    BY <1>1, <1>3 DEF AtRest, Guarding, Pending
<1>6. KeptIsUp' /\ RestIsDown'
    BY <1>5 DEF KeptIsUp, RestIsDown
<1> QED
    BY <1>1, <1>2, <1>3, <1>4, <1>6 DEF s

\* A start that returns early, or gives up waiting for the old thread: a worker
\* the mode keeps is up unless it outlived a join.
LEMMA StartReturnsStep ==
    ASSUME ModesInv, StartReturnsEarly \/ StartGivesUp
    PROVE  WorkInv'
<1> DEFINE s == Subject
<1>1. /\ Current("start") /\ Done /\ alive[s] > 0
      /\ UNCHANGED <<phase, mode, reason, err, holder, job, attached, alive, stopping, late>>
    BY DEF StartReturnsEarly, StartGivesUp, ReusesThread, control, workers
<1>2. /\ LockHasJob' /\ WorkFitsMode' /\ KeptIsUp' /\ RestIsDown' /\ Applying
      /\ Pending("start", s) /\ s \in Workers
      /\ \A o, w : (Call(o, w) \in todo') <=> (Pending(o, w) /\ ~(o = "start" /\ w = s))
    BY <1>1, DoneStep
<1> HIDE DEF s
<1>3. Keeps(job.target, s) /\ (s # "command" => Up(s) \/ s \in late)
    BY <1>1, <1>2, PendingFacts DEF ModesInv, ZombiesAreLate, Up, TypeOK
<1>4. StopsInOrder' /\ StartsInOrder'
    BY <1>1, <1>2 DEF ModesInv, StopsInOrder, StartsInOrder, Pending
<1>5. ZombiesAreLate'
    BY <1>1, <1>2 DEF ModesInv, ZombiesAreLate, Pending
<1>6. AttachedIsUp' /\ DetachedIsDown'
    BY <1>1, <1>2, <1>3 DEF ModesInv, AttachedIsUp, DetachedIsDown, Pending, Up
<1>7. KeptIsComing' /\ RestIsGoing'
    BY <1>1, <1>2, <1>3 DEF ModesInv, KeptIsComing, RestIsGoing, Applying, Guarding, Pending, Up
<1> QED
    BY <1>2, <1>4, <1>5, <1>6, <1>7 DEF WorkInv

\* A start that spawns a thread: the worker is up, and the mode keeps it.
LEMMA StartSpawnsStep ==
    ASSUME ModesInv, StartSpawns
    PROVE  WorkInv'
<1>0. Current("start")
    BY DEF StartSpawns
<1> PICK s \in Workers : s = Subject
    BY <1>0, CurrentFacts DEF ModesInv
<1>1. /\ Current("start") /\ Done
      /\ alive' = [alive EXCEPT ![s] = @ + 1] /\ stopping' = [stopping EXCEPT ![s] = FALSE]
      /\ UNCHANGED <<phase, mode, reason, err, holder, job, attached, late>>
    BY DEF StartSpawns, Begins, control
<1>2. /\ LockHasJob' /\ WorkFitsMode' /\ KeptIsUp' /\ RestIsDown' /\ Applying
      /\ Pending("start", s) /\ s \in Workers
      /\ \A o, w : (Call(o, w) \in todo') <=> (Pending(o, w) /\ ~(o = "start" /\ w = s))
    BY <1>1, DoneStep
<1>3. alive \in [Workers -> Nat] /\ stopping \in [Workers -> BOOLEAN]
    BY DEF ModesInv, TypeOK
<1>4. /\ Keeps(job.target, s) /\ Up(s)'
      /\ \A w \in Workers : w # s => Up(w)' = Up(w)
    BY <1>1, <1>2, <1>3, PendingFacts DEF Up
<1>5. StopsInOrder' /\ StartsInOrder'
    BY <1>1, <1>2 DEF ModesInv, StopsInOrder, StartsInOrder, Pending
<1>6. ZombiesAreLate'
    BY <1>1, <1>2, <1>3 DEF ModesInv, ZombiesAreLate, Pending
<1>7. AttachedIsUp'
    BY <1>1, <1>2, <1>4 DEF ModesInv, AttachedIsUp, Pending, Workers
<1>8. DetachedIsDown'
    BY <1>1, <1>2, <1>4, PendingFacts DEF ModesInv, DetachedIsDown, StartsInOrder, Pending, Workers
<1>9. KeptIsComing' /\ RestIsGoing'
    BY <1>1, <1>2, <1>4 DEF ModesInv, KeptIsComing, RestIsGoing, Applying, Guarding, Pending
<1> QED
    BY <1>2, <1>5, <1>6, <1>7, <1>8, <1>9 DEF WorkInv

\* The consumers are attached after both were started, and detached after both
\* were told to stop.
LEMMA AttachStep ==
    ASSUME ModesInv, Attach
    PROVE  WorkInv'
<1>1. /\ Current("attach") /\ Done /\ attached' = TRUE
      /\ UNCHANGED <<phase, mode, reason, err, holder, job, alive, stopping, late>>
    BY DEF Attach, control
<1>2. Subject = "intent" /\ Pending("attach", "intent")
    BY <1>1, CurrentFacts, CallFacts, CallEq DEF ModesInv, TypeOK, Pending
<1>3. /\ LockHasJob' /\ WorkFitsMode' /\ KeptIsUp' /\ RestIsDown' /\ Applying
      /\ \A o, w : (Call(o, w) \in todo') <=> (Pending(o, w) /\ ~(o = "attach" /\ w = "intent"))
    BY <1>1, <1>2, DoneStep
<1>4. ~Pending("start", "intent") /\ ~Pending("start", "command")
    BY <1>1, <1>2, Before, ScriptOrder DEF Workers
<1>5. StopsInOrder' /\ StartsInOrder'
    BY <1>3, <1>4 DEF ModesInv, StopsInOrder, StartsInOrder, Pending
<1>6. ZombiesAreLate'
    BY <1>1, <1>3 DEF ModesInv, ZombiesAreLate, Pending
<1>7. AttachedIsUp' /\ DetachedIsDown'
    BY <1>1, <1>2, <1>3, <1>4 DEF ModesInv, AttachedIsUp, DetachedIsDown, Pending, Up
<1>8. KeptIsComing' /\ RestIsGoing'
    BY <1>1, <1>3 DEF ModesInv, KeptIsComing, RestIsGoing, Applying, Guarding, Pending, Up
<1> QED
    BY <1>3, <1>5, <1>6, <1>7, <1>8 DEF WorkInv

\* Detaching comes after both consumers were told to stop.
LEMMA DetachStep ==
    ASSUME ModesInv, Detach
    PROVE  WorkInv'
<1>1. /\ Current("detach") /\ Done /\ attached' = FALSE
      /\ UNCHANGED <<phase, mode, reason, err, holder, job, alive, stopping, late>>
    BY DEF Detach, control
<1>2. Subject = "intent" /\ Pending("detach", "intent")
    BY <1>1, CurrentFacts, CallFacts, CallEq DEF ModesInv, TypeOK, Pending
<1>3. /\ LockHasJob' /\ WorkFitsMode' /\ KeptIsUp' /\ RestIsDown' /\ Applying
      /\ \A o, w : (Call(o, w) \in todo') <=> (Pending(o, w) /\ ~(o = "detach" /\ w = "intent"))
    BY <1>1, <1>2, DoneStep
<1>4. ~Pending("stop", "intent") /\ ~Pending("stop", "command") /\ ~Pending("join", "command")
    BY <1>1, <1>2, Before, ScriptOrder DEF Workers
<1>5. StopsInOrder' /\ StartsInOrder'
    BY <1>3, <1>4 DEF ModesInv, StopsInOrder, StartsInOrder, Pending
<1>6. ZombiesAreLate'
    BY <1>1, <1>3 DEF ModesInv, ZombiesAreLate, Pending
<1>7. AttachedIsUp' /\ DetachedIsDown'
    BY <1>1, <1>2, <1>3, <1>4 DEF ModesInv, AttachedIsUp, DetachedIsDown, Pending, Up
<1>8. KeptIsComing' /\ RestIsGoing'
    BY <1>1, <1>3 DEF ModesInv, KeptIsComing, RestIsGoing, Applying, Guarding, Pending, Up
<1> QED
    BY <1>3, <1>5, <1>6, <1>7, <1>8 DEF WorkInv

\* The event is set; the join is the next call of this worker.
LEMMA StopSignalsStep ==
    ASSUME ModesInv, StopSignals
    PROVE  WorkInv'
<1>0. Current("stop")
    BY DEF StopSignals
<1> PICK s \in Workers : s = Subject
    BY <1>0, CurrentFacts DEF ModesInv
<1>1. /\ Done /\ stopping' = [stopping EXCEPT ![s] = TRUE]
      /\ UNCHANGED <<phase, mode, reason, err, holder, job, attached, alive, late>>
    BY DEF StopSignals, control
<1>2. /\ LockHasJob' /\ WorkFitsMode' /\ KeptIsUp' /\ RestIsDown' /\ Applying
      /\ Pending("stop", s)
      /\ \A o, w : (Call(o, w) \in todo') <=> (Pending(o, w) /\ ~(o = "stop" /\ w = s))
    BY <1>0, <1>1, DoneStep
<1>3. stopping \in [Workers -> BOOLEAN]
    BY DEF ModesInv, TypeOK
<1>4. /\ ~Keeps(job.target, s) /\ ~Up(s)'
      /\ \A w \in Workers : w # s => Up(w)' = Up(w)
    BY <1>1, <1>2, <1>3, PendingFacts DEF Up
<1>5. s = "intent" => ~Pending("join", "command")
    BY <1>0, Before, ScriptOrder DEF Workers
<1>6. Pending("join", s) /\ (s = "intent" => Pending("detach", "intent") /\ ~Pending("attach", "intent"))
    BY <1>2, <1>4, PendingFacts DEF ModesInv, StopsInOrder
<1>7. StopsInOrder' /\ StartsInOrder'
    BY <1>2, <1>5 DEF ModesInv, StopsInOrder, StartsInOrder, Pending
<1>8. ZombiesAreLate'
    BY <1>1, <1>2, <1>3, <1>6 DEF ModesInv, ZombiesAreLate, Pending
<1>9. AttachedIsUp' /\ DetachedIsDown'
    BY <1>1, <1>2, <1>4, <1>6 DEF ModesInv, AttachedIsUp, DetachedIsDown, Pending, Workers
<1>10. KeptIsComing' /\ RestIsGoing'
    BY <1>1, <1>2, <1>4 DEF ModesInv, KeptIsComing, RestIsGoing, Applying, Guarding, Pending
<1> QED
    BY <1>2, <1>7, <1>8, <1>9, <1>10 DEF WorkInv

\* The join returns because the thread is gone, or times out: then it is late.
LEMMA JoinStep ==
    ASSUME ModesInv, JoinReturns \/ JoinTimesOut
    PROVE  WorkInv'
<1>0. Current("join")
    BY DEF JoinReturns, JoinTimesOut
<1> PICK s \in Workers : s = Subject
    BY <1>0, CurrentFacts DEF ModesInv
<1>1. /\ Done /\ late \subseteq late' /\ (alive[s] = 0 \/ s \in late')
      /\ UNCHANGED <<phase, mode, reason, err, holder, job, attached, alive, stopping>>
    BY DEF JoinReturns, JoinTimesOut, control, workers
<1>2. /\ LockHasJob' /\ WorkFitsMode' /\ KeptIsUp' /\ RestIsDown' /\ Applying
      /\ Pending("join", s)
      /\ \A o, w : (Call(o, w) \in todo') <=> (Pending(o, w) /\ ~(o = "join" /\ w = s))
    BY <1>0, <1>1, DoneStep
<1>3. ~Pending("stop", s)
    BY <1>0, Before, ScriptOrder DEF Workers
<1>4. alive \in [Workers -> Nat]
    BY DEF ModesInv, TypeOK
<1>5. StopsInOrder' /\ StartsInOrder'
    BY <1>2, <1>3 DEF ModesInv, StopsInOrder, StartsInOrder, Pending
<1>6. ZombiesAreLate'
    BY <1>1, <1>2, <1>4 DEF ModesInv, ZombiesAreLate, Pending
<1>7. AttachedIsUp' /\ DetachedIsDown'
    BY <1>1, <1>2 DEF ModesInv, AttachedIsUp, DetachedIsDown, Pending, Up
<1>8. KeptIsComing' /\ RestIsGoing'
    BY <1>1, <1>2 DEF ModesInv, KeptIsComing, RestIsGoing, Applying, Guarding, Pending, Up
<1> QED
    BY <1>2, <1>5, <1>6, <1>7, <1>8 DEF WorkInv

\* A component whose function raised makes none of its other calls.
LEMMA RaiseFacts ==
    ASSUME ModesInv, NEW op, Current(op), op # "guard", NEW s \in Workers, s = Subject,
           todo' = WithoutComponent(todo, ComponentOf(s)), job' = [job EXCEPT !.errors = TRUE],
           UNCHANGED <<phase, mode, reason, err, holder>>
    PROVE  /\ LockHasJob' /\ WorkFitsMode' /\ KeptIsUp' /\ RestIsDown' /\ Applying
           /\ Pending(op, s) /\ job'.errors /\ job'.target = job.target
           /\ \A o, w : (Call(o, w) \in todo')
                            <=> (Pending(o, w) /\ ComponentOf(w) # ComponentOf(s))
<1>1. \A o, w : (Call(o, w) \in todo') <=> (Pending(o, w) /\ ComponentOf(w) # ComponentOf(s))
    BY CallEq DEF WithoutComponent, Pending
<1>2. Pending(op, s) /\ todo' \subseteq todo
    BY CurrentFacts DEF ModesInv, Pending, WithoutComponent
<1>3. job'.errors /\ job'.target = job.target /\ job'.reason = job.reason
    BY DEF ModesInv, TypeOK
<1>4. /\ ~Guarding /\ Applying /\ ~AtRest /\ job.target \in Modes /\ job.reason \in Reasons
      /\ (holder = "command") = (job.reason = "operator")
    BY PastGuard
<1>5. LockHasJob' /\ WorkFitsMode'
    BY <1>1, <1>2, <1>3, <1>4 DEF ModesInv, LockHasJob, WorkFitsMode, Guarding, Pending, Applying
<1>6. ~AtRest'
    BY <1>1, <1>4 DEF AtRest, Guarding, Pending
<1>7. KeptIsUp' /\ RestIsDown'
    BY <1>6 DEF KeptIsUp, RestIsDown
<1> QED
    BY <1>1, <1>2, <1>3, <1>4, <1>5, <1>7

\* A start that raised: the mode keeps the worker, so nothing to stop is lost.
LEMMA StartRaisesStep ==
    ASSUME ModesInv, StartRaises
    PROVE  WorkInv'
<1>0. Current("start")
    BY DEF StartRaises
<1> PICK s \in Workers : s = Subject
    BY <1>0, CurrentFacts DEF ModesInv
<1>1. /\ s \in {"position", "projection"} /\ todo' = WithoutComponent(todo, ComponentOf(s))
      /\ job' = [job EXCEPT !.errors = TRUE]
      /\ UNCHANGED <<phase, mode, reason, err, holder, attached, alive, late>>
    BY DEF StartRaises, control
<1>2. /\ LockHasJob' /\ WorkFitsMode' /\ KeptIsUp' /\ RestIsDown' /\ Applying
      /\ Pending("start", s) /\ job'.errors /\ job'.target = job.target
      /\ \A o, w : (Call(o, w) \in todo')
                       <=> (Pending(o, w) /\ ComponentOf(w) # ComponentOf(s))
    BY <1>0, <1>1, RaiseFacts
<1>3. /\ Keeps(job.target, s) /\ ~Pending("stop", s) /\ ~Pending("join", s)
      /\ \A w \in Workers : ComponentOf(w) = ComponentOf(s) <=> w = s
    BY <1>1, <1>2, PendingFacts DEF ComponentOf, Workers
<1>4. \A w \in Workers : Up(w)' = Up(w) /\ (stopping'[w] /\ alive[w] > 0 => stopping[w])
    BY <1>1 DEF StartRaises, Up, ModesInv, TypeOK
<1>5. StopsInOrder' /\ StartsInOrder'
    BY <1>2, <1>1, <1>3 DEF ModesInv, StopsInOrder, StartsInOrder, Pending, Workers
<1>6. ZombiesAreLate'
    BY <1>1, <1>2, <1>3, <1>4 DEF ModesInv, ZombiesAreLate, Pending
<1>7. AttachedIsUp' /\ DetachedIsDown'
    BY <1>1, <1>2, <1>3, <1>4 DEF ModesInv, AttachedIsUp, DetachedIsDown, Pending, Workers
<1>8. KeptIsComing' /\ RestIsGoing'
    BY <1>1, <1>2, <1>3, <1>4 DEF ModesInv, KeptIsComing, RestIsGoing, Applying, Guarding, Pending
<1> QED
    BY <1>2, <1>5, <1>6, <1>7, <1>8 DEF WorkInv

\* The command consumer joins itself: the intent consumer is never stopped, and
\* stays attached.  It was up, or has outlived an earlier join.
LEMMA JoinRaisesStep ==
    ASSUME ModesInv, JoinRaises
    PROVE  WorkInv'
<1>0. /\ Current("join") /\ Subject = "command" /\ holder = "command"
      /\ todo' = WithoutComponent(todo, ComponentOf("command"))
      /\ job' = [job EXCEPT !.errors = TRUE]
      /\ UNCHANGED <<phase, mode, reason, err, holder, attached, alive, stopping, late>>
    BY DEF JoinRaises, JoinsItself, control, workers
<1>1. "command" \in Workers /\ "intent" \in Workers
    BY DEF Workers
<1>2. /\ LockHasJob' /\ WorkFitsMode' /\ KeptIsUp' /\ RestIsDown' /\ Applying
      /\ Pending("join", "command") /\ job'.errors /\ job'.target = job.target
      /\ \A o, w : (Call(o, w) \in todo')
                       <=> (Pending(o, w) /\ ComponentOf(w) # ComponentOf("command"))
    BY <1>0, <1>1, RaiseFacts
<1>3. \A w \in Workers : ComponentOf(w) = ComponentOf("command") <=> w \in {"intent", "command"}
    BY DEF ComponentOf, Workers
<1>4. /\ Pending("stop", "intent") /\ Pending("detach", "intent")
      /\ ~Keeps(job.target, "command") /\ ~Pending("start", "intent") /\ ~Pending("attach", "intent")
    BY <1>2, PendingFacts DEF ModesInv, StopsInOrder
<1>5. StopsInOrder' /\ StartsInOrder'
    BY <1>1, <1>2, <1>3 DEF ModesInv, StopsInOrder, StartsInOrder, Pending
<1>6. ZombiesAreLate'
    BY <1>0, <1>2, <1>3, <1>4 DEF ModesInv, ZombiesAreLate, Pending
<1>7. AttachedIsUp' /\ DetachedIsDown'
    BY <1>0, <1>1, <1>2, <1>3, <1>4 DEF ModesInv, AttachedIsUp, DetachedIsDown, Pending, Up
<1>8. KeptIsComing' /\ RestIsGoing'
    BY <1>0, <1>2, <1>3, ComponentFacts DEF ModesInv, KeptIsComing, RestIsGoing, Applying, Guarding, Pending, Up
<1> QED
    BY <1>2, <1>5, <1>6, <1>7, <1>8 DEF WorkInv

\* While the guard is to come nothing else is.
LEMMA AtGuard ==
    ASSUME ModesInv, Current("guard")
    PROVE  /\ holder # None /\ Guarding /\ job.target \in Modes /\ job.reason \in Reasons
           /\ (holder = "command") = (job.reason = "operator")
           /\ \A o, w : Pending(o, w) => o = "guard"
<1>1. TypeOK /\ LockHasJob
    BY DEF ModesInv
<1>2. holder # None /\ First \in todo /\ First = Call("guard", Subject) /\ First \in Calls
    BY <1>1, CurrentFacts DEF TypeOK
<1>3. Guarding
    BY <1>2, CallFacts, CallEq DEF Guarding, Pending
<1>4. \A o, w : Pending(o, w) => o = "guard"
    BY <1>1, <1>3, CallEq DEF LockHasJob, Pending
<1> QED
    BY <1>1, <1>2, <1>3, <1>4, Zenon DEF LockHasJob

\* The work of a mode: it starts what the mode keeps and stops the rest, the
\* consumers only when the flag says so.
LEMMA WorkFacts ==
    ASSUME NEW m \in Modes, attached \in BOOLEAN
    PROVE  /\ \A k \in CallsFor(m) :
                 /\ k.op # "guard" /\ k \in Calls
                 /\ k.op \in {"start", "attach"} => Keeps(m, k.worker)
                 /\ k.op \in {"stop", "join", "detach"} => ~Keeps(m, k.worker)
           /\ \A w \in Workers :
                 /\ Call("start", w) \in CallsFor(m) <=> Keeps(m, w) /\ (Consumer(w) => ~attached)
                 /\ Call("stop", w) \in CallsFor(m) <=> ~Keeps(m, w) /\ (Consumer(w) => attached)
                 /\ Call("join", w) \in CallsFor(m) <=> ~Keeps(m, w) /\ (Consumer(w) => attached)
           /\ Call("attach", "intent") \in CallsFor(m) <=> Keeps(m, "intent") /\ ~attached
           /\ Call("detach", "intent") \in CallsFor(m) <=> ~Keeps(m, "intent") /\ attached
<1>1. "intent" \in Workers /\ Consumer("intent")
    BY ComponentFacts DEF Workers
<1> QED
    BY <1>1, ScriptOrder, CallEq DEF CallsFor, StartCalls, StopCalls

\* The guard lets the mode in: the work is laid out.
LEMMA GuardPassesStep ==
    ASSUME ModesInv, GuardPasses
    PROVE  WorkInv'
<1>1. /\ Current("guard") /\ todo' = CallsFor(job.target)
      /\ UNCHANGED <<phase, mode, reason, err, holder, job, attached, alive, stopping, late>>
    BY DEF GuardPasses, control, workers
<1>2. /\ holder # None /\ Guarding /\ job.target \in Modes /\ job.reason \in Reasons
      /\ (holder = "command") = (job.reason = "operator")
      /\ \A o, w : Pending(o, w) => o = "guard"
    BY <1>1, AtGuard
<1> DEFINE m == job.target
<1>3. /\ \A k \in todo' :
             /\ k.op # "guard" /\ k \in Calls
             /\ k.op \in {"start", "attach"} => Keeps(m, k.worker)
             /\ k.op \in {"stop", "join", "detach"} => ~Keeps(m, k.worker)
      /\ \A w \in Workers :
             /\ Call("start", w) \in todo' <=> Keeps(m, w) /\ (Consumer(w) => ~attached)
             /\ Call("stop", w) \in todo' <=> ~Keeps(m, w) /\ (Consumer(w) => attached)
             /\ Call("join", w) \in todo' <=> ~Keeps(m, w) /\ (Consumer(w) => attached)
      /\ Call("attach", "intent") \in todo' <=> Keeps(m, "intent") /\ ~attached
      /\ Call("detach", "intent") \in todo' <=> ~Keeps(m, "intent") /\ attached
    BY <1>1, <1>2, WorkFacts DEF ModesInv, TypeOK
<1>4. /\ {"intent", "command"} \subseteq Workers
      /\ \A w \in Workers : Consumer(w) <=> w \in {"intent", "command"}
      /\ Keeps(m, "intent") = Keeps(m, "command")
    BY ComponentFacts, PendingFacts DEF Workers
<1>5. ~Guarding'
    BY <1>3, CallEq DEF Guarding, Pending
<1> HIDE DEF m
<1>6. "intent" \notin late => (attached => Up("intent"))
    BY <1>2 DEF ModesInv, AttachedIsUp
<1>7. ~attached => ~Up("intent") /\ ~Up("command")
    BY <1>2 DEF ModesInv, DetachedIsDown
<1>8. LockHasJob'
    BY <1>1, <1>2, <1>5 DEF ModesInv, LockHasJob
<1>9. WorkFitsMode'
    BY <1>1, <1>3 DEF WorkFitsMode, m
<1>10. StopsInOrder' /\ StartsInOrder'
    BY <1>3, <1>4 DEF StopsInOrder, StartsInOrder, Pending
<1>11. ZombiesAreLate'
    BY <1>1, <1>2 DEF ModesInv, ZombiesAreLate
<1>12. AttachedIsUp'
    BY <1>1, <1>3, <1>4, <1>6 DEF AttachedIsUp, Pending, Up
<1>13. DetachedIsDown'
    BY <1>1, <1>3, <1>4, <1>7 DEF DetachedIsDown, Pending, Up
<1>14. KeptIsComing'
    BY <1>1, <1>3, <1>4, <1>6 DEF KeptIsComing, Pending, Up, m
<1>15. RestIsGoing'
    BY <1>1, <1>3, <1>4, <1>7 DEF RestIsGoing, Pending, Up, m
<1>16. KeptIsUp' /\ RestIsDown'
    BY <1>1, <1>2, <1>5 DEF KeptIsUp, RestIsDown, AtRest
<1> QED
    BY <1>8, <1>9, <1>10, <1>11, <1>12, <1>13, <1>14, <1>15, <1>16 DEF WorkInv

\* With no work pending and the lock free, what is said of the work is idle.
LEMMA IdleWork ==
    ASSUME ModesInv, \A o, w : Pending(o, w) => o = "guard", holder' = None, todo' = {},
           UNCHANGED <<attached, alive, stopping, late>>, phase' = "running" => mode' \in Modes
    PROVE  /\ LockHasJob' /\ WorkFitsMode' /\ StopsInOrder' /\ StartsInOrder' /\ ZombiesAreLate'
           /\ AttachedIsUp' /\ DetachedIsDown' /\ KeptIsComing' /\ RestIsGoing'
<1>1. LockHasJob' /\ WorkFitsMode' /\ StopsInOrder' /\ StartsInOrder'
    BY DEF LockHasJob, WorkFitsMode, StopsInOrder, StartsInOrder, Pending, Guarding
<1>2. ZombiesAreLate'
    BY DEF ModesInv, ZombiesAreLate
<1>3. AttachedIsUp' /\ DetachedIsDown'
    BY DEF ModesInv, AttachedIsUp, DetachedIsDown, Up, Pending
<1>4. KeptIsComing' /\ RestIsGoing'
    BY DEF KeptIsComing, RestIsGoing, Applying
<1> QED
    BY <1>1, <1>2, <1>3, <1>4

\* The guard raises: the mode recorded before is still the one that holds.
LEMMA GuardRejectsStep ==
    ASSUME ModesInv, GuardRejects
    PROVE  WorkInv'
<1>1. /\ Current("guard") /\ holder' = None /\ todo' = {}
      /\ err' = (err \/ holder = "monitor")
      /\ phase' = IF holder = "boot" THEN "failed" ELSE phase
      /\ UNCHANGED <<mode, reason, attached, alive, stopping, late>>
    BY DEF GuardRejects, Release, workers
<1>2. holder # None /\ Guarding /\ \A o, w : Pending(o, w) => o = "guard"
    BY <1>1, AtGuard
<1>3. phase' = "running" => phase = "running" /\ mode' \in Modes
    BY <1>1 DEF ModesInv, LockHasJob
<1>4. KeptIsUp' /\ RestIsDown'
    BY <1>1, <1>2, <1>3 DEF ModesInv, KeptIsUp, RestIsDown, AtRest, Up
<1>5. /\ LockHasJob' /\ WorkFitsMode' /\ StopsInOrder' /\ StartsInOrder' /\ ZombiesAreLate'
      /\ AttachedIsUp' /\ DetachedIsDown' /\ KeptIsComing' /\ RestIsGoing'
    BY <1>1, <1>2, <1>3, IdleWork
<1> QED
    BY <1>4, <1>5 DEF WorkInv

\* The work is through: what the mode keeps has come, the rest has gone.
LEMMA ApplyEndsStep ==
    ASSUME ModesInv, ApplyEnds
    PROVE  WorkInv'
<1>1. /\ holder # None /\ todo = {} /\ holder' = None /\ todo' = {}
      /\ mode' = job.target /\ reason' = job.reason /\ err' = job.errors
      /\ UNCHANGED <<attached, alive, stopping, late>>
    BY DEF ApplyEnds, Release, workers
<1>2. \A o, w : ~Pending(o, w)
    BY <1>1 DEF Pending
<1>3. /\ job.target \in Modes /\ Applying
      /\ (holder = "command") = (job.reason = "operator")
    BY <1>1, <1>2 DEF ModesInv, LockHasJob, Applying, Guarding
<1>4. KeptIsUp'
    BY <1>1, <1>2, <1>3 DEF ModesInv, KeptIsComing, KeptIsUp, Up
<1>5. RestIsDown'
    BY <1>1, <1>2, <1>3 DEF ModesInv, RestIsGoing, RestIsDown, Up
<1>6. /\ LockHasJob' /\ WorkFitsMode' /\ StopsInOrder' /\ StartsInOrder' /\ ZombiesAreLate'
      /\ AttachedIsUp' /\ DetachedIsDown' /\ KeptIsComing' /\ RestIsGoing'
    BY <1>1, <1>2, <1>3, IdleWork
<1> QED
    BY <1>4, <1>5, <1>6 DEF WorkInv

\* Taking the lock puts the guard before everything else.
LEMMA TakesStep ==
    ASSUME ModesInv, Takes
    PROVE  WorkInv'
<1>1. holder = None /\ todo = {}
    BY DEF Takes, ModesInv, LockHasJob
<1>2. /\ holder' \in Appliers /\ todo' = {Call("guard", "position")}
      /\ job'.target \in Modes /\ job'.reason \in Reasons
      /\ (holder' = "command") = (job'.reason = "operator")
      /\ UNCHANGED <<phase, mode, reason, err, attached, alive, stopping, late>>
    BY DEF Takes
<1>3. \A o, w : ~Pending(o, w) /\ (Call(o, w) \in todo' => o = "guard")
    BY <1>1, <1>2, CallEq DEF Pending
<1>4. Guarding' /\ ~Applying' /\ AtRest' = AtRest
    BY <1>1, <1>2 DEF Guarding, Applying, AtRest, Pending
<1>5. LockHasJob'
    BY <1>2, <1>4, NoneIsNoMode DEF ModesInv, LockHasJob
<1>6. WorkFitsMode'
    BY <1>2, CallEq DEF WorkFitsMode
<1>7. StopsInOrder' /\ StartsInOrder'
    BY <1>3 DEF StopsInOrder, StartsInOrder, Pending
<1>8. ZombiesAreLate'
    BY <1>2, <1>3 DEF ModesInv, ZombiesAreLate
<1>9. AttachedIsUp' /\ DetachedIsDown'
    BY <1>2, <1>3 DEF ModesInv, AttachedIsUp, DetachedIsDown, Pending, Up
<1>10. KeptIsComing' /\ RestIsGoing'
    BY <1>4 DEF KeptIsComing, RestIsGoing
<1>11. KeptIsUp' /\ RestIsDown'
    BY <1>2, <1>4 DEF ModesInv, KeptIsUp, RestIsDown, Up
<1> QED
    BY <1>5, <1>6, <1>7, <1>8, <1>9, <1>10, <1>11 DEF WorkInv

\* Only a worker that was told to stop exits: what is up stays up.
LEMMA ExitStep ==
    ASSUME ModesInv, NEW w \in Workers, WorkerExits(w)
    PROVE  WorkInv'
<1>1. /\ alive[w] > 0 /\ stopping[w] /\ alive' = [alive EXCEPT ![w] = @ - 1]
      /\ UNCHANGED <<phase, mode, reason, err, holder, job, todo, attached, stopping, late>>
    BY DEF WorkerExits, control
<1>2. alive \in [Workers -> Nat] /\ alive[w] = 1
    BY <1>1 DEF ModesInv, TypeOK, SingleWorker
<1>3. \A v \in Workers : Up(v)' = Up(v) /\ (alive'[v] > 0 => alive[v] > 0)
    BY <1>1, <1>2 DEF Up
<1>4. LockHasJob' /\ WorkFitsMode' /\ StopsInOrder' /\ StartsInOrder'
    BY <1>1 DEF ModesInv, LockHasJob, WorkFitsMode, StopsInOrder, StartsInOrder, Pending, Guarding
<1>5. ZombiesAreLate'
    BY <1>1, <1>3 DEF ModesInv, ZombiesAreLate, Pending
<1>6. AttachedIsUp' /\ DetachedIsDown'
    BY <1>1, <1>3 DEF ModesInv, AttachedIsUp, DetachedIsDown, Pending, Workers
<1>7. KeptIsComing' /\ RestIsGoing'
    BY <1>1, <1>3 DEF ModesInv, KeptIsComing, RestIsGoing, Applying, Guarding, Pending
<1>8. KeptIsUp' /\ RestIsDown'
    BY <1>1, <1>3 DEF ModesInv, KeptIsUp, RestIsDown, AtRest, Guarding, Pending
<1> QED
    BY <1>4, <1>5, <1>6, <1>7, <1>8 DEF WorkInv

\* Every step keeps the inductive invariant.
LEMMA ModesStep == ModesInv /\ [Next]_vars => ModesInv'
<1> SUFFICES ASSUME ModesInv, [Next]_vars PROVE ModesInv'
    OBVIOUS
<1>1. TypeOK
    BY DEF ModesInv
<1>2. TypeOK'
    <2>1. ControlTypes' /\ WorkerTypes' /\ FlagTypes' /\ BoundTypes'
        BY <1>1, CoreTypesStep, FlagTypesStep, BoundTypesStep
    <2> QED
        BY <2>1, TypeParts, PTL
<1>3. SingleWorker'
    BY CountsStep DEF ModesInv, Counts, TypeOK
<1>4. ASSUME UNCHANGED core PROVE WorkInv'
    BY <1>4 DEF core, WorkInv, ModesInv, LockHasJob, WorkFitsMode, StopsInOrder, StartsInOrder,
        ZombiesAreLate, AttachedIsUp, DetachedIsDown, KeptIsComing, RestIsGoing, KeptIsUp, RestIsDown,
        Pending, Guarding, AtRest, Applying, Up
<1>5. WorkInv'
    BY <1>1, <1>4, StepKinds, TakesStep, ExitStep, GuardPassesStep, GuardRejectsStep, StartReturnsStep,
        StartSpawnsStep, StartRaisesStep, AttachStep, DetachStep, StopSignalsStep, JoinRaisesStep,
        JoinStep, ApplyEndsStep DEF ApplyStep
<1> QED
    BY <1>2, <1>3, <1>5 DEF ModesInv, WorkInv

\* The first state satisfies the inductive invariant.
LEMMA ModesInit == Init => ModesInv
<1> SUFFICES ASSUME Init PROVE ModesInv
    OBVIOUS
<1>1. TypeOK /\ SingleWorker
    <2>1. NoJob \in Jobs
        BY DEF NoJob, Jobs
    <2>2. ControlTypes /\ WorkerTypes /\ SingleWorker
        BY <2>1 DEF Init, ControlTypes, WorkerTypes, SingleWorker
    <2>3. FlagTypes
        BY Zenon DEF Init, FlagTypes
    <2>4. BoundTypes
        BY ModeBoundsAssumption DEF Init, BoundTypes
    <2> QED
        BY <2>2, <2>3, <2>4, TypeParts
<1>2. LockHasJob /\ WorkFitsMode /\ StopsInOrder /\ StartsInOrder
    BY DEF Init, LockHasJob, WorkFitsMode, StopsInOrder, StartsInOrder, Pending, Guarding
<1>3. ZombiesAreLate /\ AttachedIsUp /\ DetachedIsDown
    BY DEF Init, ZombiesAreLate, AttachedIsUp, DetachedIsDown, Up, Pending, Workers
<1>4. KeptIsComing /\ RestIsGoing /\ KeptIsUp /\ RestIsDown
    BY DEF Init, KeptIsComing, RestIsGoing, KeptIsUp, RestIsDown, Applying, AtRest
<1> QED
    BY <1>1, <1>2, <1>3, <1>4 DEF ModesInv

\* The inductive invariant of the controller, its registry and its workers.
THEOREM ModesInvariant == Spec => []ModesInv
BY ModesInit, ModesStep, PTL DEF Spec

\* The state of RuntimeModeController and OwnedThreadLifecycle keeps its types.
THEOREM ModesTyped == Spec => []TypeOK
<1>1. ModesInv => TypeOK
    BY DEF ModesInv
<1> QED
    BY <1>1, ModesInvariant, PTL

\* Once a mode was applied without an error, every worker the mode keeps is up
\* unless it once outlived a join: no order of operator requests, end-of-day
\* transitions, timeouts and failed starts leaves it silently down.
THEOREM ModeReallyRuns == Spec => []ModeIsEffective
<1>1. ModesInv => ModeIsEffective
    <2> SUFFICES ASSUME ModesInv, Settled, ~err, NEW w \in Workers \ late
                 PROVE  /\ w = "intent" /\ mode = "full" => Up(w)
                        /\ w = "signals" /\ mode \in {"full", "observe"} => Up(w)
                        /\ w \in {"pending", "position", "projection"} /\ mode # "ingest_only" => Up(w)
        BY DEF ModeIsEffective
    <2>1. mode \in Modes /\ AtRest
        BY DEF ModesInv, LockHasJob, Settled, AtRest
    <2>2. w # "command" /\ Keeps(mode, w) => Up(w)
        BY <2>1 DEF ModesInv, KeptIsUp
    <2> QED
        BY <2>1, <2>2, KeepsFacts
<1> QED
    BY <1>1, ModesInvariant, PTL

\* A mode that boot or the monitor applied leaves nothing running that it does
\* not keep, an operator's mode nothing outside trade execution.
THEOREM ModeReallyStops == Spec => []ModeStopsWorkers
<1>1. ModesInv => ModeStopsWorkers
    <2> SUFFICES ASSUME ModesInv, Settled
                 PROVE  /\ mode # "full" /\ reason # "operator" => ~Up("intent") /\ ~Up("command")
                        /\ mode \notin {"full", "observe"} => ~Up("signals")
                        /\ mode = "ingest_only"
                              => \A w \in {"pending", "position", "projection"} : ~Up(w)
        BY DEF ModeStopsWorkers
    <2>1. mode \in Modes /\ AtRest
        BY DEF ModesInv, LockHasJob, Settled, AtRest
    <2>2. \A w \in Workers : ~Keeps(mode, w) /\ (Consumer(w) => reason # "operator") => ~Up(w)
        BY <2>1 DEF ModesInv, RestIsDown
    <2> QED
        BY <2>1, <2>2, KeepsFacts, ComponentFacts DEF Workers
<1> QED
    BY <1>1, ModesInvariant, PTL
=============================================================================
