----------------------- MODULE NotificationOutboxProofs -----------------------
(***************************************************************************)
(* Proofs about the notification outbox, for any number of events, keys,   *)
(* attempts, faults and toggles.                                           *)
(***************************************************************************)
EXTENDS NotificationOutbox, FiniteSetTheorems, SequenceTheorems, WellFoundedInduction, TLAPS

-----------------------------------------------------------------------------
(* The parts of the inductive invariant.                                   *)

\* The dispatcher knows its worker: no second thread is alive.
OneWorker == \A w \in Workers : pc[w] # "none" => w = ref

\* A row is inserted once, by the event that was queued.
RowsAreQueued == \A i \in DOMAIN rows : verdict[rows[i]] = "queued"

\* What a worker has in hand is pending with the attempts it read, and no row
\* is in its batch twice.
BatchIsFresh ==
    \A w \in Workers :
        /\ \A i \in DOMAIN batch[w] :
              /\ status[batch[w][i][1]] = "pending"
              /\ attempts[batch[w][i][1]] = batch[w][i][2]
        /\ \A i, j \in DOMAIN batch[w] : batch[w][i][1] = batch[w][j][1] => i = j

\* A row that may still be sent has attempts left.
AttemptsLeft ==
    \A n \in Notes : status[n] \in {"none", "pending"} => attempts[n] < MaxAttempts

InHand(n) == \E w \in Workers : result[w] = "ok" /\ Current(w) = n

\* Without a delivery it knows of, a pending row was delivered only by faults.
DeliveriesAccounted ==
    \A n \in Notes :
        /\ status[n] = "none" => delivered[n] = 0
        /\ status[n] = "pending" /\ ~InHand(n) => delivered[n] <= faults

\* A worker told ok has delivered.
OkWasDelivered == \A w \in Workers : result[w] = "ok" => delivered[Current(w)] > 0

\* A critical key is recorded by an event in the outbox, or by one that failed.
RecordedByQueued ==
    \A k \in Critical :
        quiet[k] > 0 => \E m \in Notes : KeyOf[m] = k /\ verdict[m] \in {"queued", "failed"}

OutboxInv ==
    /\ TypeOK /\ OneWorker /\ RowsAreQueued /\ BatchIsFresh /\ AttemptsLeft
    /\ DeliveriesAccounted /\ OkWasDelivered /\ RecordedByQueued
    /\ DeliveriesAreCaused /\ SentWasDelivered /\ CriticalsAreQueued
-----------------------------------------------------------------------------
(* What fetch_due returns.                                                 *)

\* A nonempty set of naturals has a least element.
LEMMA LeastElement ==
    ASSUME NEW S \in SUBSET Nat, S # {}
    PROVE  \E x \in S : \A y \in S : x <= y
<1>1. \E x \in S : \A y \in S : ~ (<<y, x>> \in OpToRel(<, Nat))
    BY NatLessThanWellFounded, WFMin, Zenon
<1>2. PICK x \in S : \A y \in S : ~ (y < x)
    BY <1>1, Zenon DEF OpToRel
<1> QED
    BY <1>2

\* fetch_due returns at least one row when one is due (LIMIT is positive), and
\* no row twice.
LEMMA FetchedRows ==
    ASSUME TypeOK, Due # {}, NEW s \in InOrder(Oldest)
    PROVE  /\ Len(s) \in Nat \ {0} /\ DOMAIN s = 1..Len(s) /\ s \in Seq(Due)
           /\ \A i, j \in DOMAIN s : s[i] = s[j] => i = j
<1>1. Due \subseteq 1..Len(rows) /\ Len(rows) \in Nat
    BY DEF Due, TypeOK
<1>a. IsFiniteSet(1..Len(rows)) /\ Due \in SUBSET (1..Len(rows)) /\ Due \in SUBSET Nat
    BY <1>1, FS_Interval
<1>2. IsFiniteSet(Due)
    BY <1>a, FS_Subset, Zenon
<1>3. PICK x \in Due : \A y \in Due : x <= y
    BY <1>a, LeastElement, Zenon
<1>4. {j \in Due : j < x} = {}
    <2> SUFFICES ASSUME NEW j \in Due, j < x PROVE FALSE
        BY Zenon
    <2> QED
        BY <1>a, <1>3
<1>5. x \in Oldest
    BY <1>4, FS_EmptySet, OutboxAssumption DEF Oldest
<1>6. Oldest \subseteq Due /\ IsFiniteSet(Oldest)
    BY <1>2, FS_Subset DEF Oldest
<1>7. Cardinality(Oldest) \in Nat \ {0}
    BY <1>5, <1>6, FS_CardinalityType, FS_EmptySet
<1>8. s \in [1..Cardinality(Oldest) -> Oldest] /\ \A i, j \in DOMAIN s : i < j => s[i] < s[j]
    BY DEF InOrder
<1>9. s \in Seq(Due) /\ Len(s) = Cardinality(Oldest)
    BY <1>6, <1>7, <1>8
<1>10. \A i, j \in DOMAIN s : s[i] = s[j] => i = j
    <2> SUFFICES ASSUME NEW i \in DOMAIN s, NEW j \in DOMAIN s, s[i] = s[j], i # j PROVE FALSE
        OBVIOUS
    <2>1. i \in Int /\ j \in Int
        BY <1>7, <1>8
    <2>2. s[i] \in Due /\ s[j] \in Due
        BY <1>6, <1>8
    <2>3. s[i] \in Nat /\ s[j] \in Nat
        BY <2>2, <1>a
    <2> QED
        BY <2>1, <2>3, <1>8
<1> QED
    BY <1>7, <1>8, <1>9, <1>10

-----------------------------------------------------------------------------
(* The inductive argument: one step per action.                            *)

\* The first state satisfies the inductive invariant.
LEMMA OutboxInit == Init => OutboxInv
<1> SUFFICES ASSUME Init PROVE OutboxInv
    OBVIOUS
<1> USE OutboxAssumption DEF Init
<1>1. TypeOK
    <2>1. rows \in Seq(Notes) /\ IsInjective(rows)
        BY DEF IsInjective
    <2>2. /\ tokens \in 0..Burst /\ faults \in 0..MaxFaults /\ toggles \in 0..MaxToggles
          /\ quiet \in [Keys -> 0..Ttl] /\ wait \in [Notes -> 0..MaxWait]
          /\ attempts \in [Notes -> 0..MaxAttempts] /\ delivered \in [Notes -> Nat]
        OBVIOUS
    <2>3. batch \in [Workers -> Seq(Notes \X (0..MaxAttempts))]
        OBVIOUS
    <2> QED
        BY <2>1, <2>2, <2>3 DEF TypeOK, Verdicts, Answers
<1>2. OneWorker /\ RowsAreQueued /\ BatchIsFresh /\ AttemptsLeft /\ RecordedByQueued
    BY DEF OneWorker, RowsAreQueued, BatchIsFresh, AttemptsLeft, RecordedByQueued
<1>3. DeliveriesAccounted /\ OkWasDelivered
    BY DEF DeliveriesAccounted, OkWasDelivered, Answers
<1> QED
    BY <1>1, <1>2, <1>3 DEF OutboxInv, DeliveriesAreCaused, SentWasDelivered, CriticalsAreQueued

-----------------------------------------------------------------------------
(* The lifecycle and the clock: nothing is sent, nothing is submitted.     *)

\* A step that leaves verdicts, deliveries, faults and the workers' batches
\* alone preserves what is said of them; backoffs may run down.
LEMMA NothingSent ==
    ASSUME OutboxInv, TypeOK', OneWorker', RecordedByQueued',
           UNCHANGED <<verdict, rows, status, attempts, delivered, batch, result, faults>>
    PROVE  OutboxInv'
BY DEF OutboxInv, RowsAreQueued, BatchIsFresh, AttemptsLeft, DeliveriesAccounted, InHand,
    Current, OkWasDelivered, DeliveriesAreCaused, SentWasDelivered, CriticalsAreQueued

\* Time passing keeps the inductive invariant.
LEMMA TickStep == OutboxInv /\ Tick => OutboxInv'
<1> SUFFICES ASSUME OutboxInv, Tick PROVE OutboxInv'
    OBVIOUS
<1> USE OutboxAssumption DEF Tick, threads, life, history
<1>1. TypeOK
    BY DEF OutboxInv
<1>2. wait' \in [Notes -> 0..MaxWait] /\ quiet' \in [Keys -> 0..Ttl] /\ tokens' \in 0..Burst
    BY <1>1 DEF TypeOK
<1>3. TypeOK'
    BY <1>1, <1>2 DEF TypeOK
<1>4. RecordedByQueued'
    BY <1>1 DEF TypeOK, OutboxInv, RecordedByQueued
<1>5. OneWorker'
    BY DEF OutboxInv, OneWorker
<1> QED
    BY <1>3, <1>4, <1>5, NothingSent

\* Starting, stopping and joining the worker keep it.
LEMMA LifecycleStep ==
    ASSUME OutboxInv, Start \/ Stop \/ StopReturns \/ (\E w \in Workers : WorkerEnds(w))
    PROVE  OutboxInv'
<1> USE OutboxAssumption DEF threads, life, history, outbox, memory, Alive
<1>1. TypeOK /\ OneWorker /\ RecordedByQueued
    BY DEF OutboxInv
<1>2. CASE Start
    <2>1. CASE ref \in Alive /\ UNCHANGED <<stop, ref, pc>>
        <3>1. TypeOK'
            BY <1>1, <1>2, <2>1 DEF TypeOK, Start
        <3>2. OneWorker' /\ RecordedByQueued'
            BY <1>1, <1>2, <2>1 DEF Start, OneWorker, RecordedByQueued
        <3> QED
            BY <1>2, <3>1, <3>2, NothingSent DEF Start
    <2>2. CASE ref \notin Alive /\ pc' = [pc EXCEPT ![ref'] = "idle"] /\ stop' = FALSE
               /\ ref' = CHOOSE w \in Workers : w \notin Alive
        <3>1. \A w \in Workers : pc[w] = "none"
            BY <1>1, <2>2 DEF OneWorker
        <3>2. ref' \in Workers
            BY <2>2, <3>1
        <3>3. batch[ref'] = <<>> /\ result[ref'] = None
            BY <1>1, <3>1, <3>2 DEF TypeOK
        <3>4. TypeOK'
            BY <1>1, <1>2, <2>2, <3>2, <3>3 DEF TypeOK, Start
        <3>5. OneWorker' /\ RecordedByQueued'
            BY <1>1, <1>2, <2>2, <3>1, <3>2 DEF Start, OneWorker, RecordedByQueued, TypeOK
        <3> QED
            BY <1>2, <3>4, <3>5, NothingSent DEF Start
    <2> QED
        BY <1>2, <2>1, <2>2 DEF Start
<1>3. CASE Stop
    <2>1. TypeOK'
        BY <1>1, <1>3 DEF TypeOK, Stop
    <2>2. OneWorker' /\ RecordedByQueued'
        BY <1>1, <1>3 DEF Stop, OneWorker, RecordedByQueued
    <2> QED
        BY <1>3, <2>1, <2>2, NothingSent DEF Stop
<1>4. CASE StopReturns
    <2>1. TypeOK'
        BY <1>1, <1>4 DEF TypeOK, StopReturns, Joined
    <2>2. OneWorker' /\ RecordedByQueued'
        BY <1>1, <1>4 DEF StopReturns, OneWorker, RecordedByQueued, Joined
    <2> QED
        BY <1>4, <2>1, <2>2, NothingSent DEF StopReturns
<1>5. ASSUME NEW w \in Workers, WorkerEnds(w) PROVE OutboxInv'
    <2>1. TypeOK'
        BY <1>1, <1>5 DEF TypeOK, WorkerEnds
    <2>2. OneWorker' /\ RecordedByQueued'
        BY <1>1, <1>5 DEF WorkerEnds, OneWorker, RecordedByQueued, TypeOK
    <2> QED
        BY <1>5, <2>1, <2>2, NothingSent DEF WorkerEnds
<1> QED
    BY <1>2, <1>3, <1>4, <1>5

\* A crash empties every hand, and the delivery it may hide is the fault's.
LEMMA CrashStep == OutboxInv /\ Crash => OutboxInv'
<1> SUFFICES ASSUME OutboxInv, Crash PROVE OutboxInv'
    OBVIOUS
<1> USE OutboxAssumption DEF Crash, Fault, history, outbox
<1>1. TypeOK /\ DeliveriesAreCaused /\ DeliveriesAccounted /\ RowsAreQueued
    BY DEF OutboxInv
<1>2. TypeOK'
    <2>1. quiet' \in [Keys -> 0..Ttl] /\ tokens' \in 0..Burst /\ faults' \in 0..MaxFaults
        BY <1>1 DEF TypeOK
    <2>2. batch' \in [Workers -> Seq(Notes \X (0..MaxAttempts))]
        OBVIOUS
    <2>3. \A w \in Workers : pc'[w] = "none" /\ batch'[w] = <<>> /\ result'[w] = None
        OBVIOUS
    <2>4. /\ pc' \in [Workers -> {"none", "idle", "send", "mark"}]
          /\ result' \in [Workers -> Answers \cup {None}]
        OBVIOUS
    <2> QED
        BY <1>1, <2>1, <2>2, <2>3, <2>4 DEF TypeOK
<1>3. OneWorker' /\ BatchIsFresh' /\ OkWasDelivered'
    BY DEF OneWorker, BatchIsFresh, OkWasDelivered, Answers
<1>a. RowsAreQueued' /\ AttemptsLeft'
    BY DEF OutboxInv, RowsAreQueued, AttemptsLeft
<1>b. RecordedByQueued'
    BY DEF RecordedByQueued
<1>4. faults' = faults + 1 /\ faults \in Nat /\ delivered \in [Notes -> Nat] /\ delivered' = delivered
    BY <1>1 DEF TypeOK
<1>5. DeliveriesAccounted' /\ DeliveriesAreCaused'
    BY <1>1, <1>4 DEF DeliveriesAccounted, DeliveriesAreCaused
<1>6. SentWasDelivered' /\ CriticalsAreQueued'
    BY <1>2 DEF OutboxInv, SentWasDelivered, CriticalsAreQueued
<1> QED
    BY <1>2, <1>3, <1>a, <1>b, <1>5, <1>6 DEF OutboxInv

-----------------------------------------------------------------------------
(* submit() and the purge.                                                 *)

\* The purge of old rows keeps it.
LEMMA PurgeStep ==
    ASSUME OutboxInv, NEW n \in Notes, Purge(n)
    PROVE  OutboxInv'
<1> USE OutboxAssumption DEF Purge, memory, threads, life, history
<1>1. TypeOK'
    BY DEF OutboxInv, TypeOK
<1>2. OneWorker' /\ RowsAreQueued' /\ RecordedByQueued' /\ CriticalsAreQueued'
    BY DEF OutboxInv, OneWorker, RowsAreQueued, RecordedByQueued, CriticalsAreQueued
<1>a. status' = [status EXCEPT ![n] = "purged"] /\ status[n] = "sent" /\ status \in [Notes -> {"none", "pending", "sent", "dlq", "purged"}]
    BY DEF OutboxInv, TypeOK
<1>3. BatchIsFresh' /\ AttemptsLeft'
    <2>1. \A m : m # n => status'[m] = status[m]
        BY <1>a
    <2>2. BatchIsFresh'
        BY <1>a, <2>1 DEF OutboxInv, BatchIsFresh
    <2> QED
        BY <2>2 DEF OutboxInv, TypeOK, AttemptsLeft
<1>4. DeliveriesAccounted' /\ OkWasDelivered' /\ DeliveriesAreCaused'
    BY DEF OutboxInv, TypeOK, DeliveriesAccounted, InHand, Current, OkWasDelivered, DeliveriesAreCaused
<1>5. SentWasDelivered'
    BY <1>1 DEF OutboxInv, TypeOK, SentWasDelivered
<1> QED
    BY <1>1, <1>2, <1>3, <1>4, <1>5 DEF OutboxInv

\* Submitting a notification keeps it.
LEMMA SubmitStep ==
    ASSUME OutboxInv, NEW n \in Notes, Submit(n)
    PROVE  OutboxInv'
<1> USE OutboxAssumption DEF threads, life, history
<1>1. /\ TypeOK /\ verdict[n] = "new" /\ status[n] = "none" /\ delivered[n] = 0
      /\ UNCHANGED <<pc, batch, result, stop, ref, started, joining, delivered, toggles>>
    BY DEF OutboxInv, TypeOK, Submit, DeliveriesAccounted
<1>2. OneWorker'
    BY <1>1 DEF OutboxInv, OneWorker
<1>3. CASE Suppress(n)
    <2> USE <1>3 DEF Suppress, outbox, memory
    <2>1. TypeOK'
        BY <1>1 DEF TypeOK, Verdicts
    <2>2. RowsAreQueued' /\ BatchIsFresh' /\ AttemptsLeft' /\ DeliveriesAccounted' /\ OkWasDelivered'
        BY <1>1 DEF OutboxInv, TypeOK, RowsAreQueued, BatchIsFresh, AttemptsLeft,
                    DeliveriesAccounted, InHand, Current, OkWasDelivered
    <2>3. RecordedByQueued' /\ CriticalsAreQueued'
        BY <1>1 DEF OutboxInv, TypeOK, RecordedByQueued, CriticalsAreQueued
    <2>4. SentWasDelivered' /\ DeliveriesAreCaused'
        BY <1>1, <2>1 DEF OutboxInv, SentWasDelivered, DeliveriesAreCaused
    <2> QED
        BY <1>2, <2>1, <2>2, <2>3, <2>4 DEF OutboxInv
<1>4. CASE Record(n)
    <2>1. quiet' \in [Keys -> 0..Ttl] /\ tokens' \in 0..Burst
        BY <1>1, <1>4 DEF TypeOK, Record
    <2>2. \A k \in Critical : k # KeyOf[n] => quiet'[k] = quiet[k]
        BY <1>1, <1>4 DEF TypeOK, Record
    <2>3. ASSUME UNCHANGED outbox, NEW v \in {"dropped", "failed"},
                 v = "dropped" => KeyOf[n] \notin Critical,
                 verdict' = [verdict EXCEPT ![n] = v],
                 faults' \in 0..MaxFaults /\ faults' >= faults
          PROVE  OutboxInv'
        <3> USE <2>3 DEF outbox
        <3>1. TypeOK'
            BY <1>1, <2>1 DEF TypeOK, Verdicts
        <3>a. RowsAreQueued'
            <4>1. \A i \in DOMAIN rows : rows[i] \in Notes /\ rows[i] # n
                BY <1>1 DEF OutboxInv, TypeOK, RowsAreQueued
            <4> QED
                BY <1>1, <4>1 DEF OutboxInv, TypeOK, RowsAreQueued
        <3>2. BatchIsFresh' /\ AttemptsLeft' /\ OkWasDelivered'
            BY <1>1 DEF OutboxInv, BatchIsFresh, AttemptsLeft, Current, OkWasDelivered
        <3>3. \A m \in Notes : m # n => verdict'[m] = verdict[m]
            BY <1>1 DEF TypeOK
        <3>4. verdict'[n] = v
            BY <1>1 DEF TypeOK
        <3>5. RecordedByQueued'
            BY <1>1, <2>2, <3>3, <3>4 DEF OutboxInv, RecordedByQueued
        <3>6. CriticalsAreQueued'
            BY <1>1, <3>3, <3>4 DEF OutboxInv, CriticalsAreQueued
        <3>7. /\ faults \in Nat /\ faults' \in Nat /\ delivered \in [Notes -> Nat]
            BY <1>1, <3>1 DEF TypeOK
        <3>8. DeliveriesAccounted' /\ DeliveriesAreCaused'
            BY <1>1, <3>7 DEF OutboxInv, DeliveriesAccounted, InHand, Current, DeliveriesAreCaused
        <3>9. SentWasDelivered'
            BY <1>1, <3>1 DEF OutboxInv, SentWasDelivered
        <3> QED
            BY <1>2, <3>1, <3>a, <3>2, <3>5, <3>6, <3>8, <3>9 DEF OutboxInv
    <2>4. CASE Drop(n)
        BY <1>1, <2>3, <2>4 DEF Drop, RateLimited, TypeOK
    <2>5. CASE SubmitFails(n)
        <3>1. faults' \in 0..MaxFaults /\ faults' >= faults
            BY <1>1, <2>5 DEF SubmitFails, Fault, TypeOK
        <3> QED
            BY <2>3, <2>5, <3>1 DEF SubmitFails
    <2>6. CASE Enqueue(n)
        <3> USE <2>6 DEF Enqueue
        <3>1. rows \in Seq(Notes) /\ rows' = Append(rows, n)
            BY <1>1 DEF TypeOK
        <3>2. \A i \in DOMAIN rows' : rows'[i] = IF i \in DOMAIN rows THEN rows[i] ELSE n
            BY <3>1
        <3>3. \A i \in DOMAIN rows : rows[i] # n
            BY <1>1 DEF OutboxInv, RowsAreQueued
        <3>4. IsInjective(rows')
            <4>1. IsInjective(rows) /\ DOMAIN rows' = DOMAIN rows \cup {Len(rows) + 1}
                BY <1>1, <3>1 DEF TypeOK
            <4> QED
                BY <3>2, <3>3, <4>1 DEF IsInjective
        <3>5. /\ \A m \in Notes \ {n} : verdict'[m] = verdict[m] /\ status'[m] = status[m]
              /\ verdict'[n] = "queued" /\ status'[n] = "pending"
              /\ verdict' \in [Notes -> Verdicts]
              /\ status' \in [Notes -> {"none", "pending", "sent", "dlq", "purged"}]
            BY <1>1 DEF TypeOK, Verdicts
        <3>6. rows' \in Seq(Notes)
            BY <3>1
        <3>7. TypeOK'
            BY <1>1, <2>1, <3>4, <3>5, <3>6 DEF TypeOK
        <3>8. RowsAreQueued'
            <4> SUFFICES ASSUME NEW i \in DOMAIN rows' PROVE verdict'[rows'[i]] = "queued"
                BY DEF RowsAreQueued
            <4>1. CASE i \in DOMAIN rows
                <5>1. rows[i] \in Notes /\ rows'[i] = rows[i]
                    BY <4>1, <3>1, <3>2
                <5> QED
                    BY <4>1, <5>1, <3>3, <3>5 DEF OutboxInv, RowsAreQueued
            <4> QED
                BY <4>1, <3>2, <3>5
        <3>9. BatchIsFresh' /\ AttemptsLeft' /\ OkWasDelivered'
            <4>1. BatchIsFresh'
                <5>1. \A m : m # n => status'[m] = status[m]
                    BY <1>1 DEF TypeOK
                <5> QED
                    BY <1>1, <5>1 DEF OutboxInv, BatchIsFresh
            <4>2. AttemptsLeft'
                BY <1>1, <3>5 DEF OutboxInv, AttemptsLeft
            <4>3. OkWasDelivered'
                BY <1>1 DEF OutboxInv, OkWasDelivered, Current
            <4> QED
                BY <4>1, <4>2, <4>3
        <3>10. RecordedByQueued' /\ CriticalsAreQueued'
            BY <1>1, <2>2, <3>5 DEF OutboxInv, RecordedByQueued, CriticalsAreQueued
        <3>11. DeliveriesAccounted' /\ DeliveriesAreCaused'
            <4>1. faults \in Nat /\ faults' = faults /\ delivered' = delivered
                BY <1>1 DEF TypeOK
            <4> QED
                BY <1>1, <3>5, <4>1 DEF OutboxInv, DeliveriesAccounted, InHand, Current, DeliveriesAreCaused
        <3>12. SentWasDelivered'
            BY <1>1, <3>5, <3>7 DEF OutboxInv, SentWasDelivered
        <3> QED
            BY <1>2, <3>7, <3>8, <3>9, <3>10, <3>11, <3>12 DEF OutboxInv
    <2> QED
        BY <1>1, <1>4, <2>4, <2>5, <2>6 DEF Submit, Suppress, Record
<1> QED
    BY <1>3, <1>4 DEF Submit, Drop, Enqueue, SubmitFails
-----------------------------------------------------------------------------
(* The worker.                                                             *)

\* What is left of a batch after its first entry.
LEMMA TailFacts ==
    ASSUME NEW S, NEW q \in Seq(S), q # <<>>
    PROVE  /\ Tail(q) \in Seq(S) /\ (Tail(q) # <<>> <=> Len(q) > 1)
           /\ \A i \in DOMAIN Tail(q) : i \in Nat /\ i + 1 \in DOMAIN q /\ Tail(q)[i] = q[i + 1]
<1>1. Len(q) \in Nat /\ DOMAIN q = 1..Len(q) /\ Len(q) # 0
    OBVIOUS
<1>2. Tail(q) \in Seq(S) /\ Len(Tail(q)) = Len(q) - 1
    BY <1>1
<1>3. DOMAIN Tail(q) = 1..(Len(q) - 1)
    BY <1>1, <1>2
<1>4. \A i \in 1..(Len(q) - 1) : Tail(q)[i] = q[i + 1]
    BY <1>1
<1>5. Tail(q) # <<>> <=> Len(Tail(q)) # 0
    BY <1>2, EmptySeq
<1> QED
    BY <1>1, <1>2, <1>3, <1>4, <1>5

\* While a worker is alive every other one has ended, with nothing in hand.
LEMMA TheOthers ==
    ASSUME OutboxInv, NEW w \in Workers, pc[w] # "none"
    PROVE  \A u \in Workers \ {w} : pc[u] = "none" /\ batch[u] = <<>> /\ result[u] = None
BY DEF OutboxInv, OneWorker, TypeOK

\* The entry a worker is at: a pending row, with the attempts it has.
LEMMA AtEntry ==
    ASSUME OutboxInv, NEW w \in Workers, pc[w] \in {"send", "mark"}
    PROVE  /\ batch[w] # <<>> /\ batch[w] \in Seq(Notes \X (0..MaxAttempts))
           /\ Current(w) \in Notes /\ status[Current(w)] = "pending"
           /\ attempts[Current(w)] = Head(batch[w])[2]
           /\ \A i \in DOMAIN Tail(batch[w]) : Tail(batch[w])[i][1] # Current(w)
<1>1. batch[w] # <<>> /\ batch[w] \in Seq(Notes \X (0..MaxAttempts))
    BY DEF OutboxInv, TypeOK
<1>2. 1 \in DOMAIN batch[w] /\ Head(batch[w]) = batch[w][1] /\ batch[w][1] \in Notes \X (0..MaxAttempts)
    BY <1>1
<1>3. \A i \in DOMAIN Tail(batch[w]) : i + 1 \in DOMAIN batch[w] /\ i + 1 # 1 /\ Tail(batch[w])[i] = batch[w][i + 1]
    BY <1>1
<1> QED
    BY <1>1, <1>2, <1>3 DEF OutboxInv, BatchIsFresh, Current

\* Fetching the rows that are due keeps it.
LEMMA FetchStep ==
    ASSUME OutboxInv, NEW w \in Workers, Fetch(w)
    PROVE  OutboxInv'
<1> USE OutboxAssumption DEF life, history, outbox, memory
<1>1. TypeOK /\ pc[w] = "idle" /\ Due # {}
    BY DEF OutboxInv, Fetch
<1>2. PICK s \in InOrder(Oldest) :
         batch' = [batch EXCEPT ![w] = [i \in DOMAIN s |-> <<rows[s[i]], attempts[rows[s[i]]]>>]]
    BY DEF Fetch
<1>3. /\ Len(s) \in Nat \ {0} /\ DOMAIN s = 1..Len(s) /\ s \in Seq(Due)
      /\ \A i, j \in DOMAIN s : s[i] = s[j] => i = j
    BY <1>1, <1>2, FetchedRows
<1>4. \A i \in DOMAIN s : s[i] \in DOMAIN rows /\ rows[s[i]] \in Notes /\ status[rows[s[i]]] = "pending"
    <2>1. \A i \in DOMAIN s : s[i] \in Due
        BY <1>3
    <2>2. \A x \in Due : x \in DOMAIN rows /\ rows[x] \in Notes /\ status[rows[x]] = "pending"
        BY <1>1 DEF Due, TypeOK
    <2> QED
        BY <2>1, <2>2
<1> DEFINE fresh == [i \in DOMAIN s |-> <<rows[s[i]], attempts[rows[s[i]]]>>]
<1>5. /\ DOMAIN fresh = 1..Len(s)
      /\ \A i \in 1..Len(s) : fresh[i][1] = rows[s[i]] /\ fresh[i][2] = attempts[rows[s[i]]]
                              /\ fresh[i] \in Notes \X (0..MaxAttempts)
    BY <1>1, <1>3, <1>4 DEF TypeOK
<1>6. fresh \in Seq(Notes \X (0..MaxAttempts)) /\ fresh # <<>>
    BY <1>3, <1>5
<1>7. \A i, j \in 1..Len(s) : fresh[i][1] = fresh[j][1] => i = j
    <2> SUFFICES ASSUME NEW i \in 1..Len(s), NEW j \in 1..Len(s), fresh[i][1] = fresh[j][1]
                 PROVE  i = j
        OBVIOUS
    <2>1. rows[s[i]] = rows[s[j]]
        BY <1>5
    <2>2. s[i] = s[j]
        BY <1>1, <1>3, <1>4, <2>1 DEF TypeOK, IsInjective
    <2> QED
        BY <1>3, <2>2
<1>8. /\ batch' = [batch EXCEPT ![w] = fresh] /\ pc' = [pc EXCEPT ![w] = "send"] /\ result[w] = None
      /\ UNCHANGED <<verdict, rows, status, attempts, wait, quiet, tokens, result, stop, ref, started,
                     joining, delivered, toggles, faults>>
    BY <1>1, <1>2 DEF Fetch, TypeOK
<1> HIDE DEF fresh
<1>9. TypeOK'
    <2>1. /\ pc' \in [Workers -> {"none", "idle", "send", "mark"}]
          /\ batch' \in [Workers -> Seq(Notes \X (0..MaxAttempts))]
        BY <1>1, <1>6, <1>8 DEF TypeOK
    <2>2. \A u \in Workers :
              /\ pc'[u] \in {"send", "mark"} <=> batch'[u] # <<>>
              /\ pc'[u] = "mark" <=> result'[u] # None
        BY <1>1, <1>6, <1>8 DEF TypeOK
    <2> QED
        BY <1>1, <1>8, <2>1, <2>2 DEF TypeOK
<1>10. BatchIsFresh'
    <2>1. \A u \in Workers \ {w} : batch'[u] = <<>>
        BY <1>1, <1>8, TheOthers DEF TypeOK
    <2>2. batch'[w] = fresh
        BY <1>1, <1>8 DEF TypeOK
    <2>3. \A i \in DOMAIN fresh : status[fresh[i][1]] = "pending" /\ attempts[fresh[i][1]] = fresh[i][2]
        BY <1>3, <1>4, <1>5
    <2>4. \A i, j \in DOMAIN fresh : fresh[i][1] = fresh[j][1] => i = j
        BY <1>5, <1>7
    <2> QED
        BY <1>8, <2>1, <2>2, <2>3, <2>4 DEF BatchIsFresh
<1>11. OneWorker' /\ RowsAreQueued' /\ AttemptsLeft' /\ RecordedByQueued' /\ CriticalsAreQueued'
    BY <1>1, <1>8 DEF OutboxInv, OneWorker, RowsAreQueued, AttemptsLeft, RecordedByQueued,
                      CriticalsAreQueued, TypeOK
<1>12. \A u \in Workers : result[u] = "ok" => batch'[u] = batch[u]
    BY <1>1, <1>8 DEF TypeOK, Answers
<1>13. DeliveriesAccounted' /\ OkWasDelivered'
    BY <1>8, <1>12 DEF OutboxInv, DeliveriesAccounted, InHand, Current, OkWasDelivered
<1>14. DeliveriesAreCaused' /\ SentWasDelivered'
    BY <1>8, <1>9 DEF OutboxInv, DeliveriesAreCaused, SentWasDelivered
<1> QED
    BY <1>9, <1>10, <1>11, <1>13, <1>14 DEF OutboxInv

\* An exception leaves the batch behind; the delivery it may hide is the
\* fault's.
LEMMA AbandonStep ==
    ASSUME OutboxInv, NEW w \in Workers, pc[w] \in {"send", "mark"}, Abandon(w), Fault,
           UNCHANGED <<verdict, outbox, memory, life, history>>
    PROVE  OutboxInv'
<1> USE OutboxAssumption DEF life, history, outbox, memory, Abandon
<1>1. TypeOK
    BY DEF OutboxInv
<1>2. TypeOK'
    <2>1. faults' \in 0..MaxFaults
        BY <1>1 DEF TypeOK, Fault
    <2>2. /\ pc' \in [Workers -> {"none", "idle", "send", "mark"}]
          /\ batch' \in [Workers -> Seq(Notes \X (0..MaxAttempts))]
          /\ result' \in [Workers -> Answers \cup {None}]
        BY <1>1 DEF TypeOK
    <2>3. \A u \in Workers :
              /\ pc'[u] \in {"send", "mark"} <=> batch'[u] # <<>>
              /\ pc'[u] = "mark" <=> result'[u] # None
        BY <1>1 DEF TypeOK
    <2> QED
        BY <1>1, <2>1, <2>2, <2>3 DEF TypeOK
<1>3. \A u \in Workers : batch'[u] = <<>> /\ result'[u] = None
    <2>1. \A u \in Workers \ {w} : batch[u] = <<>> /\ result[u] = None
        BY TheOthers
    <2> QED
        BY <1>1, <2>1 DEF TypeOK
<1>4. BatchIsFresh' /\ OkWasDelivered'
    BY <1>3 DEF BatchIsFresh, OkWasDelivered, Answers
<1>5. OneWorker' /\ RowsAreQueued' /\ AttemptsLeft' /\ RecordedByQueued' /\ CriticalsAreQueued'
    BY <1>1 DEF OutboxInv, OneWorker, RowsAreQueued, AttemptsLeft, RecordedByQueued,
                CriticalsAreQueued, TypeOK
<1>6. faults' = faults + 1 /\ faults \in Nat /\ delivered' = delivered /\ delivered \in [Notes -> Nat]
    BY <1>1 DEF TypeOK, Fault
<1>7. DeliveriesAccounted' /\ DeliveriesAreCaused'
    BY <1>6 DEF OutboxInv, DeliveriesAccounted, DeliveriesAreCaused
<1>8. SentWasDelivered'
    BY <1>2, <1>6 DEF OutboxInv, SentWasDelivered
<1> QED
    BY <1>2, <1>4, <1>5, <1>7, <1>8 DEF OutboxInv

\* The chat may have the message once more: it said so, or a fault hid it.
LEMMA AnswerStep ==
    ASSUME OutboxInv, NEW w \in Workers, pc[w] = "send", NEW a \in Answers, Answer(w, a),
           UNCHANGED <<verdict, outbox, memory, life, toggles>>,
           \/ a = "ok" /\ Reaches(Current(w)) /\ UNCHANGED faults
           \/ a = "retry" /\ Reaches(Current(w)) /\ Fault
           \/ a # "ok" /\ UNCHANGED <<delivered, faults>>
    PROVE  OutboxInv'
<1> USE OutboxAssumption DEF life, outbox, memory, Answer
<1>a. PICK n : n = Current(w)
    OBVIOUS
<1>1. TypeOK /\ n \in Notes /\ status[n] = "pending" /\ result[w] = None /\ None \notin Answers
    BY <1>a, AtEntry DEF OutboxInv, TypeOK
<1>2. /\ \A u \in Workers \ {w} : result'[u] = None /\ result[u] = None
      /\ result'[w] = a /\ batch' = batch
    <2>1. \A u \in Workers \ {w} : result[u] = None
        BY TheOthers
    <2> QED
        BY <1>1, <2>1 DEF TypeOK
<1>3. /\ faults \in Nat /\ faults' \in 0..MaxFaults /\ faults' >= faults
      /\ delivered \in [Notes -> Nat] /\ delivered' \in [Notes -> Nat]
      /\ \A m \in Notes : delivered'[m] >= delivered[m] /\ (m # n => delivered'[m] = delivered[m])
      /\ a = "ok" => delivered'[n] = delivered[n] + 1 /\ faults' = faults
      /\ a # "ok" => delivered'[n] = delivered[n] \/ (delivered'[n] = delivered[n] + 1 /\ faults' = faults + 1)
    <2>1. /\ faults \in 0..MaxFaults /\ delivered \in [Notes -> Nat]
          /\ \/ a = "ok" /\ delivered' = [delivered EXCEPT ![n] = @ + 1] /\ faults' = faults
             \/ a = "retry" /\ delivered' = [delivered EXCEPT ![n] = @ + 1] /\ faults < MaxFaults /\ faults' = faults + 1
             \/ a # "ok" /\ delivered' = delivered /\ faults' = faults
        BY <1>a, <1>1 DEF TypeOK, Reaches, Fault
    <2> QED
        BY <1>1, <2>1
<1>4. TypeOK'
    <2>1. pc' \in [Workers -> {"none", "idle", "send", "mark"}] /\ result' \in [Workers -> Answers \cup {None}]
        BY <1>1 DEF TypeOK
    <2>2. \A u \in Workers :
              /\ pc'[u] \in {"send", "mark"} <=> batch'[u] # <<>>
              /\ pc'[u] = "mark" <=> result'[u] # None
        BY <1>1 DEF TypeOK
    <2> QED
        BY <1>1, <1>3, <2>1, <2>2 DEF TypeOK
<1>5. OneWorker' /\ RowsAreQueued' /\ AttemptsLeft' /\ RecordedByQueued' /\ CriticalsAreQueued'
    <2>1. OneWorker'
        BY <1>1 DEF OutboxInv, OneWorker, TypeOK
    <2>2. RowsAreQueued' /\ AttemptsLeft' /\ RecordedByQueued' /\ CriticalsAreQueued'
        BY DEF OutboxInv, RowsAreQueued, AttemptsLeft, RecordedByQueued, CriticalsAreQueued
    <2> QED
        BY <2>1, <2>2
<1>b. BatchIsFresh'
    BY DEF OutboxInv, BatchIsFresh
<1>6. /\ \A m \in Notes : ~InHand(m)
      /\ \A m \in Notes : InHand(m)' <=> a = "ok" /\ m = n
    BY <1>a, <1>1, <1>2 DEF InHand, Current, Answers
<1>7. DeliveriesAccounted' /\ DeliveriesAreCaused'
    <2> SUFFICES ASSUME NEW m \in Notes
                 PROVE  /\ status'[m] = "none" => delivered'[m] = 0
                        /\ status'[m] = "pending" /\ ~InHand(m)' => delivered'[m] <= faults'
                        /\ delivered'[m] <= 1 + faults'
        BY DEF DeliveriesAccounted, DeliveriesAreCaused
    <2>1. CASE m = n
        BY <2>1, <1>1, <1>3, <1>6 DEF OutboxInv, DeliveriesAccounted
    <2>2. CASE m # n
        BY <2>2, <1>1, <1>3, <1>6 DEF OutboxInv, DeliveriesAccounted, DeliveriesAreCaused
    <2> QED
        BY <2>1, <2>2
<1>8. OkWasDelivered'
    BY <1>a, <1>1, <1>2, <1>3 DEF OkWasDelivered, Current, Answers
<1>9. SentWasDelivered'
    BY <1>3, <1>4 DEF OutboxInv, SentWasDelivered
<1> QED
    BY <1>4, <1>5, <1>b, <1>7, <1>8, <1>9 DEF OutboxInv

\* Sending, and settling the row afterwards, keep it.
LEMMA SendStep ==
    ASSUME OutboxInv, NEW w \in Workers, Send(w)
    PROVE  OutboxInv'
<1>1. CASE Abandon(w) /\ Fault /\ UNCHANGED delivered
    BY <1>1, AbandonStep DEF Send, history
<1>2. ASSUME NEW a \in Answers, Answer(w, a),
             \/ a = "ok" /\ Reaches(Current(w)) /\ UNCHANGED faults
             \/ a = "retry" /\ Reaches(Current(w)) /\ Fault
             \/ a # "ok" /\ UNCHANGED <<delivered, faults>>
      PROVE  OutboxInv'
    BY <1>2, AnswerStep DEF Send
<1> QED
    BY <1>1, <1>2 DEF Send, Answers

\* The row is settled as the answer and its attempts say.
LEMMA MarkStep ==
    ASSUME OutboxInv, NEW w \in Workers, Mark(w)
    PROVE  OutboxInv'
<1> USE OutboxAssumption DEF life, history, memory
<1>a. PICK n : n = Current(w)
    OBVIOUS
<1>b. PICK s : s = Settled(n, Head(batch[w])[2], result[w])
    OBVIOUS
<1>1. /\ TypeOK /\ pc[w] = "mark" /\ n \in Notes /\ status[n] = "pending" /\ result[w] \in Answers
      /\ attempts[n] = Head(batch[w])[2] /\ attempts[n] \in 0..(MaxAttempts - 1)
      /\ batch[w] # <<>> /\ batch[w] \in Seq(Notes \X (0..MaxAttempts))
      /\ \A i \in DOMAIN Tail(batch[w]) : Tail(batch[w])[i][1] # n
    <2>1. TypeOK /\ pc[w] = "mark" /\ result[w] \in Answers
        BY DEF OutboxInv, TypeOK, Mark
    <2>2. /\ n \in Notes /\ status[n] = "pending" /\ attempts[n] = Head(batch[w])[2]
          /\ batch[w] # <<>> /\ batch[w] \in Seq(Notes \X (0..MaxAttempts))
          /\ \A i \in DOMAIN Tail(batch[w]) : Tail(batch[w])[i][1] # n
        BY <1>a, <2>1, AtEntry
    <2>3. attempts[n] \in 0..(MaxAttempts - 1)
        <3>1. attempts[n] \in 0..MaxAttempts
            BY <2>1, <2>2 DEF TypeOK
        <3>2. attempts[n] < MaxAttempts
            BY <2>2 DEF OutboxInv, AttemptsLeft
        <3> QED
            BY <3>1, <3>2
    <2> QED
        BY <2>1, <2>2, <2>3
<1>2. /\ status' = [status EXCEPT ![n] = s] /\ attempts' = [attempts EXCEPT ![n] = Counted(n, result[w])]
      /\ \E d \in 0..MaxWait : wait' = [wait EXCEPT ![n] = d]
      /\ batch' = [batch EXCEPT ![w] = Tail(@)] /\ result' = [result EXCEPT ![w] = None]
      /\ pc' = [pc EXCEPT ![w] = IF Len(batch[w]) > 1 THEN "send" ELSE "idle"]
      /\ UNCHANGED <<verdict, rows, quiet, tokens, stop, ref, started, joining, delivered, toggles, faults>>
    <2>1. /\ status' = [status EXCEPT ![n] = s]
          /\ attempts' = [attempts EXCEPT ![n] = Counted(n, result[w])]
          /\ \E d \in (IF s = "pending" THEN 0..MaxWait ELSE {0}) : wait' = [wait EXCEPT ![n] = d]
        BY <1>a, <1>b DEF Mark
    <2>2. \E d \in 0..MaxWait : wait' = [wait EXCEPT ![n] = d]
        <3>1. PICK d \in (IF s = "pending" THEN 0..MaxWait ELSE {0}) : wait' = [wait EXCEPT ![n] = d]
            BY <2>1
        <3>2. d \in 0..MaxWait
            OBVIOUS
        <3> QED
            BY <3>1, <3>2
    <2> QED
        BY <2>1, <2>2 DEF Mark
<1>3. /\ s = "sent" \/ s = "dlq" \/ (s = "pending" /\ result[w] = "retry" /\ attempts[n] + 1 < MaxAttempts)
      /\ s = "sent" <=> result[w] = "ok"
    <2>1. /\ attempts[n] \in Int /\ MaxAttempts \in Int
          /\ result[w] = "ok" \/ result[w] = "retry" \/ result[w] = "refused"
          /\ s = Settled(n, attempts[n], result[w])
        BY <1>b, <1>1 DEF Answers
    <2> QED
        BY <2>1 DEF Settled
<1>4. Counted(n, result[w]) \in {attempts[n], attempts[n] + 1}
    BY DEF Counted
<1>5. /\ status' \in [Notes -> {"none", "pending", "sent", "dlq", "purged"}] /\ status'[n] = s
      /\ \A m \in Notes \ {n} : status'[m] = status[m] /\ attempts'[m] = attempts[m]
      /\ attempts' \in [Notes -> 0..MaxAttempts] /\ attempts'[n] \in {attempts[n], attempts[n] + 1}
      /\ wait' \in [Notes -> 0..MaxWait]
    <2>1. /\ s \in {"sent", "dlq", "pending"} /\ attempts[n] + 1 \in 0..MaxAttempts
          /\ Counted(n, result[w]) \in 0..MaxAttempts
        BY <1>1, <1>3, <1>4
    <2>2. /\ status \in [Notes -> {"none", "pending", "sent", "dlq", "purged"}]
          /\ attempts \in [Notes -> 0..MaxAttempts] /\ wait \in [Notes -> 0..MaxWait]
        BY <1>1 DEF TypeOK
    <2>3. /\ status' = [status EXCEPT ![n] = s]
          /\ attempts' = [attempts EXCEPT ![n] = Counted(n, result[w])]
        BY <1>2
    <2>4. wait' \in [Notes -> 0..MaxWait]
        BY <1>1, <1>2, <2>2
    <2> QED
        BY <1>1, <1>4, <2>1, <2>2, <2>3, <2>4
<1>6. /\ \A u \in Workers \ {w} : batch'[u] = <<>> /\ result'[u] = None /\ result[u] = None
      /\ batch'[w] = Tail(batch[w]) /\ result'[w] = None
    <2>1. \A u \in Workers \ {w} : batch[u] = <<>> /\ result[u] = None
        BY <1>1, TheOthers
    <2> QED
        BY <1>1, <1>2, <2>1 DEF TypeOK
<1>7. /\ Tail(batch[w]) \in Seq(Notes \X (0..MaxAttempts))
      /\ Tail(batch[w]) # <<>> <=> Len(batch[w]) > 1
      /\ \A i \in DOMAIN Tail(batch[w]) :
            i \in Nat /\ i + 1 \in DOMAIN batch[w] /\ Tail(batch[w])[i] = batch[w][i + 1]
    BY <1>1, TailFacts
<1>8. TypeOK'
    <2>1. /\ pc' \in [Workers -> {"none", "idle", "send", "mark"}]
          /\ batch' \in [Workers -> Seq(Notes \X (0..MaxAttempts))]
          /\ result' \in [Workers -> Answers \cup {None}]
        BY <1>1, <1>2, <1>7 DEF TypeOK
    <2>2. \A u \in Workers :
              /\ pc'[u] \in {"send", "mark"} <=> batch'[u] # <<>>
              /\ pc'[u] = "mark" <=> result'[u] # None
        BY <1>1, <1>2, <1>6, <1>7 DEF TypeOK
    <2>3. \A m \in Notes : status'[m] = "none" <=> verdict'[m] # "queued"
        BY <1>1, <1>2, <1>3, <1>5 DEF TypeOK
    <2> QED
        BY <1>1, <1>2, <1>5, <2>1, <2>2, <2>3 DEF TypeOK
<1>9. BatchIsFresh'
    <2>1. \A i \in DOMAIN Tail(batch[w]) :
             /\ Tail(batch[w])[i][1] \in Notes \ {n}
             /\ status[Tail(batch[w])[i][1]] = "pending"
             /\ attempts[Tail(batch[w])[i][1]] = Tail(batch[w])[i][2]
        <3> SUFFICES ASSUME NEW i \in DOMAIN Tail(batch[w])
                     PROVE  /\ Tail(batch[w])[i][1] \in Notes \ {n}
                            /\ status[Tail(batch[w])[i][1]] = "pending"
                            /\ attempts[Tail(batch[w])[i][1]] = Tail(batch[w])[i][2]
            OBVIOUS
        <3>1. i + 1 \in DOMAIN batch[w] /\ Tail(batch[w])[i] = batch[w][i + 1]
            BY <1>7
        <3>2. Tail(batch[w])[i] \in Notes \X (0..MaxAttempts)
            BY <1>7
        <3> QED
            BY <1>1, <3>1, <3>2 DEF OutboxInv, BatchIsFresh
    <2>2. \A i, j \in DOMAIN Tail(batch[w]) : Tail(batch[w])[i][1] = Tail(batch[w])[j][1] => i = j
        <3> SUFFICES ASSUME NEW i \in DOMAIN Tail(batch[w]), NEW j \in DOMAIN Tail(batch[w]),
                            Tail(batch[w])[i][1] = Tail(batch[w])[j][1]
                     PROVE  i = j
            OBVIOUS
        <3>1. i + 1 = j + 1
            BY <1>7 DEF OutboxInv, BatchIsFresh
        <3>2. i \in Nat /\ j \in Nat
            BY <1>7
        <3> QED
            BY <3>1, <3>2
    <2>3. ASSUME NEW u \in Workers
          PROVE  /\ \A i \in DOMAIN batch'[u] : /\ status'[batch'[u][i][1]] = "pending"
                                                /\ attempts'[batch'[u][i][1]] = batch'[u][i][2]
                 /\ \A i, j \in DOMAIN batch'[u] : batch'[u][i][1] = batch'[u][j][1] => i = j
        <3>1. CASE u = w
            <4>1. batch'[u] = Tail(batch[w])
                BY <3>1, <1>6
            <4>2. \A i \in DOMAIN batch'[u] : batch'[u][i][1] \in Notes \ {n}
                BY <4>1, <2>1
            <4>3. \A i \in DOMAIN batch'[u] : /\ status'[batch'[u][i][1]] = status[batch'[u][i][1]]
                                              /\ attempts'[batch'[u][i][1]] = attempts[batch'[u][i][1]]
                BY <4>2, <1>5
            <4> QED
                BY <4>1, <4>3, <2>1, <2>2
        <3>2. CASE u # w
            BY <3>2, <1>6
        <3> QED
            BY <3>1, <3>2
    <2> QED
        BY <2>3 DEF BatchIsFresh
<1>10. AttemptsLeft'
    BY <1>1, <1>3, <1>5 DEF OutboxInv, AttemptsLeft
<1>c. OneWorker'
    BY <1>1, <1>2 DEF OutboxInv, OneWorker, TypeOK
<1>11. RowsAreQueued' /\ RecordedByQueued' /\ CriticalsAreQueued'
    BY <1>2 DEF OutboxInv, RowsAreQueued, RecordedByQueued, CriticalsAreQueued
<1>12. OkWasDelivered'
    BY <1>6 DEF OkWasDelivered, Answers
<1>13. /\ \A m \in Notes : InHand(m) => m = n /\ result[w] = "ok"
    BY <1>a, <1>6 DEF InHand, Answers
<1>14. DeliveriesAccounted' /\ DeliveriesAreCaused'
    BY <1>1, <1>2, <1>3, <1>5, <1>13 DEF OutboxInv, DeliveriesAccounted, DeliveriesAreCaused
<1>15. SentWasDelivered'
    BY <1>a, <1>1, <1>2, <1>3, <1>5, <1>8 DEF OutboxInv, SentWasDelivered, OkWasDelivered
<1> QED
    BY <1>8, <1>9, <1>10, <1>c, <1>11, <1>12, <1>14, <1>15 DEF OutboxInv

\* Every step keeps the inductive invariant.
LEMMA OutboxStep == OutboxInv /\ [Next]_vars => OutboxInv'
<1> SUFFICES ASSUME OutboxInv, [Next]_vars PROVE OutboxInv'
    OBVIOUS
<1>1. CASE UNCHANGED vars
    <2>1. UNCHANGED <<verdict, rows, status, attempts, wait, quiet, tokens, pc, batch, result, stop, ref,
                      started, joining, delivered, toggles, faults>>
        BY <1>1 DEF vars, outbox, memory, threads, life, history
    <2> QED
        BY <2>1, NothingSent DEF OutboxInv, TypeOK, OneWorker, RecordedByQueued
<1>2. ASSUME NEW w \in Workers, MarkRaises(w) PROVE OutboxInv'
    BY <1>2, AbandonStep DEF MarkRaises
<1> QED
    BY <1>1, <1>2, TickStep, LifecycleStep, CrashStep, PurgeStep, SubmitStep, FetchStep, SendStep,
       MarkStep DEF Next, Worker

\* The inductive invariant holds in every reachable state.
LEMMA OutboxInvariant == Spec => []OutboxInv
BY OutboxInit, OutboxStep, PTL DEF Spec

-----------------------------------------------------------------------------
(* The results.                                                            *)

\* However often the module is switched off and on, a message reaches the
\* chat again only because of a fault (dispatcher.py: the reference to a
\* worker that outlived the join is kept, and no second one is started).
THEOREM NoDoubleDelivery == Spec => []DeliveriesAreCaused
BY OutboxInvariant, PTL DEF OutboxInv

\* A row that says sent is a message the chat has (_deliver, mark_sent), and
\* every variable of the outbox and its worker keeps its type.
THEOREM SentIsSent == Spec => []SentWasDelivered
BY OutboxInvariant, PTL DEF OutboxInv

\* The rate limit never loses a critical event, neither directly nor through
\* the dedup key of a dropped one (submit).
THEOREM CriticalsAreKept == Spec => []CriticalsAreQueued
BY OutboxInvariant, PTL DEF OutboxInv
=============================================================================
