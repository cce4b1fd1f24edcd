-------------------------- MODULE SignalRuntimeProofs --------------------------
(***************************************************************************)
(* Proofs about the signal runtime, for any set of snapshots, any burst    *)
(* limit, lane capacity, stability and number of faults.                   *)
(***************************************************************************)
EXTENDS SignalRuntime, FiniteSetTheorems, FunctionTheorems, SequenceTheorems, WellFoundedInduction,
        TLAPS

-----------------------------------------------------------------------------
(* The parts of the inductive invariant.                                   *)

\* While the loop runs on an open queue, the row it has claimed is the only
\* claimed one, and it is the row of the event in its hand.
OneClaim ==
    /\ ~closed /\ pc \notin {"none", "claimed"} => \A i \in DOMAIN wal : wal[i].claimed = FALSE
    /\ ~closed /\ pc = "claimed" =>
          \E k \in DOMAIN wal : wal[k].ev = hand /\ \A i \in DOMAIN wal : wal[i].claimed = TRUE <=> i = k

\* A queue is closed only by a stop(); the first steps hold a bar close.
Stopped ==
    /\ closed \/ joining => stop
    /\ pc \in {"claimed", "yield"} => hand \in Confirmed

\* Rows of a bar close in the queue, and whether the loop holds it.
Queued(q, e) == Cardinality({i \in DOMAIN q : q[i].ev = e})
Held(e) == IF hand = e /\ pc \in {"yield", "process"} THEN 1 ELSE 0

Balance ==
    \A e \in Confirmed : admitted[e] = Queued(wal, e) + evaluated[e] + lost[e] + Held(e)

\* A loss has its fault; a stop has one to spare until the thread has left the
\* queue.
LossesHaveFaults ==
    \A e \in Confirmed :
        /\ lost[e] <= faults
        /\ stop /\ pc \in {"claimed", "yield"} => lost[e] < faults

\* A streak is backed by a waiting sample and by the burst counter.
StreakIsCounted ==
    /\ streak > 0 => SampleWaits
    /\ ~closed /\ pc \notin {"claimed", "yield"} => streak <= burst
    /\ ~closed /\ pc = "claimed" => streak <= burst + 1
    /\ pc = "process" => streak < BurstLimit

\* The vote the coordinator is counting.
Tallied == [bar |-> coord.bar, dir |-> coord.dir]

\* The coordinator counts the last votes that agree, holds aside.
VotesAgree ==
    \E i \in 1 .. Len(votes) + 1 : Agree(i, Tallied) /\ coord.count <= Cardinality(VotesFor(i, Tallied))

\* An armed signal on its way to the publisher is steady.
ArmedIsSteady ==
    /\ pc = "publish" /\ out.state \in Armed => Steady(hand)
    /\ ArmedIsStable

RuntimeInv ==
    /\ TypeOK /\ OneClaim /\ Stopped /\ Balance /\ LossesHaveFaults
    /\ StreakIsCounted /\ VotesAgree /\ ArmedIsSteady
-----------------------------------------------------------------------------
(* The queue as a sequence of rows: its oldest rows, and counting the rows *)
(* of a bar close.                                                         *)

Rows == [ev : Confirmed, claimed : BOOLEAN]

\* A non-empty set of naturals has a least element.
LEMMA LeastRow ==
    ASSUME NEW S \in SUBSET Nat, S # {}
    PROVE  Min(S) \in S
<1>1. \E x \in S : \A y \in S : ~ (<<y, x>> \in OpToRel(<, Nat))
    BY NatLessThanWellFounded, WFMin, Zenon
<1>2. PICK x \in S : \A y \in S : ~ (y < x)
    BY <1>1, Zenon DEF OpToRel
<1>3. x \in S /\ \A y \in S : x =< y
    BY <1>2
<1> QED
    BY <1>3, Zenon DEF Min

\* The row the UPDATE and the DELETE pick has the flag they ask for.
LEMMA OldestFacts ==
    ASSUME wal \in Seq(Rows), NEW c
    PROVE  /\ RowsWith(c) # {} => OldestRow(c) \in RowsWith(c)
           /\ RowsWith(c) = {} => OldestRow(c) = 0
           /\ RowsWith(c) \subseteq DOMAIN wal
           /\ \A i \in RowsWith(c) : i > 0
<1>1. DOMAIN wal = 1..Len(wal) /\ Len(wal) \in Nat
    OBVIOUS
<1>2. RowsWith(c) \in SUBSET Nat /\ \A i \in RowsWith(c) : i > 0
    BY <1>1 DEF RowsWith
<1>3. RowsWith(c) # {} => Min(RowsWith(c)) \in RowsWith(c)
    BY <1>2, LeastRow, Zenon
<1> QED
    BY <1>2, <1>3 DEF OldestRow, RowsWith

\* The rows of a bar close are finitely many.
LEMMA QueuedFinite ==
    ASSUME NEW q \in Seq(Rows), NEW e
    PROVE  IsFiniteSet({i \in DOMAIN q : q[i].ev = e}) /\ Queued(q, e) \in Nat
<1> DEFINE C == {i \in DOMAIN q : q[i].ev = e}
<1>1. IsFiniteSet(1..Len(q)) /\ C \in SUBSET (1..Len(q))
    BY FS_Interval
<1>2. IsFiniteSet(C)
    BY <1>1, FS_Subset, Zenon
<1> QED
    BY <1>2, FS_CardinalityType DEF Queued

\* An insert adds one row of its bar close and none of another.
LEMMA QueuedAppend ==
    ASSUME NEW q \in Seq(Rows), NEW r \in Rows, NEW e
    PROVE  Queued(Append(q, r), e) = Queued(q, e) + (IF r.ev = e THEN 1 ELSE 0)
<1> DEFINE C == {i \in DOMAIN q : q[i].ev = e}
           D == {i \in DOMAIN Append(q, r) : Append(q, r)[i].ev = e}
<1>1. IsFiniteSet(C) /\ Cardinality(C) \in Nat /\ Cardinality(C) = Queued(q, e)
    BY QueuedFinite DEF Queued
<1>2. /\ Len(q) \in Nat /\ DOMAIN q = 1..Len(q) /\ DOMAIN Append(q, r) = 1..(Len(q) + 1)
      /\ \A i \in 1..Len(q) : Append(q, r)[i] = q[i]
      /\ Append(q, r)[Len(q) + 1] = r
    OBVIOUS
<1>3. D = IF r.ev = e THEN C \cup {Len(q) + 1} ELSE C
    <2>1. DOMAIN Append(q, r) = DOMAIN q \cup {Len(q) + 1}
        BY <1>2
    <2>2. \A i \in DOMAIN q : Append(q, r)[i] = q[i]
        BY <1>2
    <2>3. \A i : i \in D <=> i \in C \/ (i = Len(q) + 1 /\ r.ev = e)
        BY <1>2, <2>1, <2>2
    <2> QED
        BY <2>3
<1>4. Len(q) + 1 \notin C
    BY <1>2
<1>5. Cardinality(C \cup {Len(q) + 1}) = Cardinality(C) + 1
    BY <1>1, <1>4, FS_AddElement
<1>6. Queued(Append(q, r), e) = Cardinality(D)
    BY DEF Queued
<1> HIDE DEF C, D
<1>7. CASE r.ev = e
    BY <1>1, <1>3, <1>5, <1>6, <1>7
<1>8. CASE r.ev # e
    BY <1>1, <1>3, <1>6, <1>8
<1> QED
    BY <1>7, <1>8

\* RemoveAt closes the gap: positions before k keep their row, the others move.
LEMMA RemovedRows ==
    ASSUME NEW q \in Seq(Rows), NEW k \in DOMAIN q
    PROVE  /\ RemoveAt(q, k) \in Seq(Rows) /\ Len(RemoveAt(q, k)) = Len(q) - 1
           /\ \A i \in 1..(Len(q) - 1) : RemoveAt(q, k)[i] = IF i < k THEN q[i] ELSE q[i + 1]
<1> DEFINE a == SubSeq(q, 1, k - 1)
           b == SubSeq(q, k + 1, Len(q))
<1>1. Len(q) \in Nat /\ DOMAIN q = 1..Len(q) /\ k \in 1..Len(q)
    OBVIOUS
<1>2. \A i \in 1..Len(q) : q[i] \in Rows
    OBVIOUS
<1>3. a \in Seq(Rows) /\ Len(a) = k - 1 /\ \A i \in 1..(k - 1) : a[i] = q[i]
    <2>1. \A i \in 1..(k - 1) : q[i] \in Rows
        BY <1>1, <1>2
    <2>2. /\ a \in Seq(Rows) /\ Len(a) = (IF 1 <= k - 1 THEN (k - 1) - 1 + 1 ELSE 0)
          /\ \A i \in 1..((k - 1) - 1 + 1) : a[i] = q[1 + i - 1]
        BY <1>1, <2>1, SubSeqProperties
    <2> QED
        BY <1>1, <2>2
<1>4. b \in Seq(Rows) /\ Len(b) = Len(q) - k /\ \A i \in 1..(Len(q) - k) : b[i] = q[k + i]
    <2>1. \A i \in (k + 1)..Len(q) : q[i] \in Rows
        BY <1>1, <1>2
    <2>2. /\ b \in Seq(Rows) /\ Len(b) = (IF k + 1 <= Len(q) THEN Len(q) - (k + 1) + 1 ELSE 0)
          /\ \A i \in 1..(Len(q) - (k + 1) + 1) : b[i] = q[(k + 1) + i - 1]
        BY <1>1, <2>1, SubSeqProperties
    <2> QED
        BY <1>1, <2>2
<1>5. RemoveAt(q, k) = a \o b
    BY DEF RemoveAt
<1> HIDE DEF a, b
<1>6. /\ a \o b \in Seq(Rows) /\ Len(a \o b) = Len(a) + Len(b)
      /\ \A i \in 1..(Len(a) + Len(b)) : (a \o b)[i] = IF i <= Len(a) THEN a[i] ELSE b[i - Len(a)]
    BY <1>3, <1>4, ConcatProperties
<1>7. ASSUME NEW i \in 1..(Len(q) - 1) PROVE (a \o b)[i] = IF i < k THEN q[i] ELSE q[i + 1]
    <2>1. (a \o b)[i] = IF i <= k - 1 THEN a[i] ELSE b[i - (k - 1)]
        BY <1>1, <1>3, <1>4, <1>6
    <2>2. CASE i < k
        BY <1>1, <1>3, <2>1, <2>2
    <2>3. CASE ~(i < k)
        <3>1. i - (k - 1) \in 1..(Len(q) - k) /\ k + (i - (k - 1)) = i + 1
            BY <1>1, <2>3
        <3>2. b[i - (k - 1)] = q[k + (i - (k - 1))]
            BY <1>4, <3>1
        <3>3. ~(i <= k - 1)
            BY <1>1, <2>3
        <3> QED
            BY <2>1, <2>3, <3>1, <3>2, <3>3
    <2> QED
        BY <2>2, <2>3
<1> QED
    BY <1>1, <1>3, <1>4, <1>5, <1>6, <1>7

\* A delete takes one row of its bar close and none of another.
LEMMA QueuedRemove ==
    ASSUME NEW q \in Seq(Rows), NEW k \in DOMAIN q, NEW e
    PROVE  Queued(q, e) = Queued(RemoveAt(q, k), e) + (IF q[k].ev = e THEN 1 ELSE 0)
<1> DEFINE r == RemoveAt(q, k)
           C == {i \in DOMAIN q : q[i].ev = e}
           D == {i \in DOMAIN r : r[i].ev = e}
           F == [i \in D |-> IF i < k THEN i ELSE i + 1]
<1>1. Len(q) \in Nat /\ DOMAIN q = 1..Len(q) /\ k \in 1..Len(q)
    OBVIOUS
<1>a. /\ r \in Seq(Rows) /\ Len(r) = Len(q) - 1
      /\ \A i \in 1..(Len(q) - 1) : r[i] = IF i < k THEN q[i] ELSE q[i + 1]
    BY RemovedRows, Zenon
<1>b. DOMAIN r = 1..Len(r)
    BY <1>a
<1>2. /\ r \in Seq(Rows) /\ Len(r) = Len(q) - 1 /\ DOMAIN r = 1..(Len(q) - 1)
      /\ \A i \in 1..(Len(q) - 1) : r[i] = IF i < k THEN q[i] ELSE q[i + 1]
    BY <1>a, <1>b
<1>3. IsFiniteSet(D) /\ Cardinality(D) = Queued(r, e) /\ Queued(r, e) \in Nat
    BY <1>2, QueuedFinite DEF Queued
<1>4. IsFiniteSet(C) /\ Cardinality(C) = Queued(q, e) /\ Queued(q, e) \in Nat
    BY QueuedFinite DEF Queued
<1> HIDE DEF r
<1>5. \A i \in D : F[i] \in C \ {k}
    BY <1>1, <1>2
<1>6. \A i, j \in D : F[i] = F[j] => i = j
    BY <1>1, <1>2
<1>7. \A t \in C \ {k} : \E i \in D : F[i] = t
    <2> SUFFICES ASSUME NEW t \in C, t # k PROVE \E i \in D : F[i] = t
        OBVIOUS
    <2>1. CASE t < k
        <3>1. t \in D /\ F[t] = t
            BY <1>1, <1>2, <2>1
        <3> QED
            BY <3>1
    <2>2. CASE ~(t < k)
        <3>1. t - 1 \in D
            BY <1>1, <1>2, <2>2
        <3>2. F[t - 1] = t
            BY <1>1, <3>1, <2>2
        <3> QED
            BY <3>1, <3>2
    <2> QED
        BY <2>1, <2>2
<1>8. F \in [D -> C \ {k}]
    BY <1>5
<1> HIDE DEF C, D, F
<1>9. F \in Bijection(D, C \ {k})
    BY <1>6, <1>7, <1>8, Fun_IsBij
<1>10. ExistsBijection(D, C \ {k})
    BY <1>9 DEF ExistsBijection
<1>11. Cardinality(C \ {k}) = Cardinality(D)
    BY <1>3, <1>10, FS_Bijection
<1>12. Cardinality(C \ {k}) = IF k \in C THEN Cardinality(C) - 1 ELSE Cardinality(C)
    BY <1>4, FS_RemoveElement
<1>13. k \in C <=> q[k].ev = e
    BY <1>1 DEF C
<1>14. Queued(RemoveAt(q, k), e) = Queued(r, e)
    BY DEF r
<1> QED
    BY <1>3, <1>4, <1>11, <1>12, <1>13, <1>14

\* Claiming or reopening rows moves none of them.
LEMMA QueuedSame ==
    ASSUME NEW q, NEW r, DOMAIN r = DOMAIN q, \A i \in DOMAIN q : r[i].ev = q[i].ev, NEW e
    PROVE  Queued(r, e) = Queued(q, e)
<1>1. {i \in DOMAIN r : r[i].ev = e} = {i \in DOMAIN q : q[i].ev = e}
    OBVIOUS
<1> QED
    BY <1>1 DEF Queued
-----------------------------------------------------------------------------
(* Lanes, samples and signals.                                             *)

LaneTypes ==
    /\ lane \in [Lanes -> Seq(Events)]
    /\ \A l \in Lanes : Len(lane[l]) <= LaneCap /\ \A i \in DOMAIN lane[l] : lane[l][i].scope = l

\* The two lanes in the order of the dequeue.
LEMMA OrderFacts ==
    ASSUME turn \in 0..1
    PROVE  /\ Order(turn)[1] \in Lanes /\ Order(turn)[2] \in Lanes /\ FirstLane(turn) \in Lanes
           /\ {Order(turn)[1], Order(turn)[2]} = Lanes
           /\ SampleWaits <=> lane[FirstLane(turn)] # <<>>
<1>1. CASE turn = 0
    BY <1>1 DEF Order, FirstLane, Lanes, SampleWaits
<1>2. CASE turn = 1
    BY <1>2 DEF Order, FirstLane, Lanes, SampleWaits
<1> QED
    BY <1>1, <1>2

\* Taking the head of a lane.
LEMMA LaneTail ==
    ASSUME LaneTypes, NEW l \in Lanes, lane[l] # <<>>, lane' = [lane EXCEPT ![l] = Tail(@)]
    PROVE  LaneTypes' /\ Head(lane[l]) \in Events /\ Head(lane[l]).scope = l
<1>0. LaneCap \in Nat
    BY RuntimeAssumption
<1>1. lane[l] \in Seq(Events) /\ Len(lane[l]) \in Nat /\ Len(lane[l]) # 0 /\ DOMAIN lane[l] = 1..Len(lane[l])
    BY DEF LaneTypes
<1>2. Head(lane[l]) = lane[l][1] /\ 1 \in DOMAIN lane[l]
    BY <1>1
<1>3. Tail(lane[l]) \in Seq(Events) /\ Len(Tail(lane[l])) = Len(lane[l]) - 1
    BY <1>1
<1>4. \A i \in 1..(Len(lane[l]) - 1) : Tail(lane[l])[i] = lane[l][i + 1] /\ i + 1 \in DOMAIN lane[l]
    BY <1>1
<1>5. DOMAIN Tail(lane[l]) = 1..(Len(lane[l]) - 1)
    BY <1>1, <1>3
<1>6. lane'[l] = Tail(lane[l]) /\ \A m \in Lanes \ {l} : lane'[m] = lane[m]
    BY DEF LaneTypes
<1>7. lane' \in [Lanes -> Seq(Events)]
    BY <1>3 DEF LaneTypes
<1>8. Len(lane'[l]) <= LaneCap /\ \A i \in DOMAIN lane'[l] : lane'[l][i].scope = l
    <2>1. \A i \in DOMAIN Tail(lane[l]) : Tail(lane[l])[i].scope = l
        BY <1>4, <1>5 DEF LaneTypes
    <2>2. Len(Tail(lane[l])) <= LaneCap
        BY <1>0, <1>1, <1>3 DEF LaneTypes
    <2> QED
        BY <1>6, <2>1, <2>2
<1>9. \A m \in Lanes \ {l} : Len(lane'[m]) <= LaneCap /\ \A i \in DOMAIN lane'[m] : lane'[m][i].scope = m
    BY <1>6 DEF LaneTypes
<1>10. LaneTypes'
    BY <1>7, <1>8, <1>9 DEF LaneTypes
<1> QED
    BY <1>1, <1>2, <1>10 DEF LaneTypes

\* enqueue_event keeps the bound.
LEMMA LanePut ==
    ASSUME LaneTypes, NEW e \in Events, e.scope \in Lanes,
           lane' = [lane EXCEPT ![e.scope] = PutLane(@, e)]
    PROVE  LaneTypes' /\ (SampleWaits')
<1>0. LaneCap \in Nat \ {0}
    BY RuntimeAssumption
<1> DEFINE l == e.scope
           q == lane[l]
<1>1. q \in Seq(Events) /\ Len(q) \in Nat /\ DOMAIN q = 1..Len(q) /\ Len(q) <= LaneCap
      /\ \A i \in 1..Len(q) : q[i].scope = l
    BY DEF LaneTypes
<1>2. lane'[l] = PutLane(q, e) /\ \A m \in Lanes \ {l} : lane'[m] = lane[m]
    BY DEF LaneTypes
<1> HIDE DEF q
<1>3. PutLane(q, e) \in Seq(Events) /\ PutLane(q, e) # <<>>
      /\ Len(PutLane(q, e)) <= LaneCap /\ \A i \in DOMAIN PutLane(q, e) : PutLane(q, e)[i].scope = l
    <2>1. CASE Len(q) < LaneCap
        <3>1. PutLane(q, e) = Append(q, e)
            BY <2>1 DEF PutLane
        <3>2. Append(q, e) \in Seq(Events) /\ Len(Append(q, e)) = Len(q) + 1
              /\ \A i \in 1..(Len(q) + 1) : Append(q, e)[i] = IF i <= Len(q) THEN q[i] ELSE e
            BY <1>1
        <3>3. DOMAIN Append(q, e) = 1..(Len(q) + 1)
            BY <1>1
        <3>4. \A i \in DOMAIN Append(q, e) : Append(q, e)[i].scope = l
            BY <1>1, <3>2, <3>3
        <3> QED
            BY <1>0, <1>1, <2>1, <3>1, <3>2, <3>4
    <2>2. CASE ~(Len(q) < LaneCap)
        <3>1. PutLane(q, e) = Append(Tail(q), e) /\ Len(q) # 0
            BY <1>0, <1>1, <2>2 DEF PutLane
        <3>2. Tail(q) \in Seq(Events) /\ Len(Tail(q)) = Len(q) - 1
              /\ \A i \in 1..(Len(q) - 1) : Tail(q)[i] = q[i + 1]
            BY <1>1, <3>1
        <3>3. PICK t : t = Tail(q)
            OBVIOUS
        <3>4. t \in Seq(Events) /\ Len(t) = Len(q) - 1 /\ \A i \in 1..(Len(q) - 1) : t[i].scope = l
            <4>1. ASSUME NEW i \in 1..(Len(q) - 1) PROVE t[i].scope = l
                <5>1. i + 1 \in 1..Len(q) /\ t[i] = q[i + 1]
                    BY <1>1, <3>2, <3>3
                <5> QED
                    BY <1>1, <5>1
            <4> QED
                BY <3>2, <3>3, <4>1
        <3>5. /\ Append(t, e) \in Seq(Events) /\ Append(t, e) # <<>> /\ Len(Append(t, e)) = Len(t) + 1
              /\ \A i \in 1..Len(t) : Append(t, e)[i] = t[i]
              /\ Append(t, e)[Len(t) + 1] = e
            BY <3>4, AppendProperties
        <3>a. Len(q) \in Nat /\ Len(t) = Len(q) - 1
            BY <1>1, <3>4
        <3>6. \A i \in 1..Len(q) : i \in 1..(Len(q) - 1) \/ i = Len(t) + 1
            BY <3>a
        <3>7. \A i \in 1..Len(q) : Append(t, e)[i].scope = l
            BY <3>4, <3>5, <3>6
        <3>8. DOMAIN Append(t, e) = 1..Len(q) /\ Len(Append(t, e)) = Len(q)
            BY <3>a, <3>5
        <3> QED
            BY <1>1, <3>1, <3>3, <3>5, <3>7, <3>8
    <2> QED
        BY <2>1, <2>2
<1>4. lane' \in [Lanes -> Seq(Events)]
    BY <1>2, <1>3 DEF LaneTypes, q
<1>5. \A m \in Lanes : Len(lane'[m]) <= LaneCap /\ \A i \in DOMAIN lane'[m] : lane'[m][i].scope = m
    BY <1>2, <1>3 DEF LaneTypes
<1> QED
    BY <1>2, <1>3, <1>4, <1>5 DEF LaneTypes, SampleWaits

\* The signal of an event, by its scope.
LEMMA SignalFacts ==
    ASSUME NEW e \in Events
    PROVE  /\ StateName(e) \in StateNames /\ Signal(e) \in Signals
           /\ e.scope = "confirmed" => StateName(e) \in {"confirmed_buy", "confirmed_sell", "confirmed_cancelled"}
           /\ e.scope = "confirmed" /\ e.dir # "hold" => StateName(e) \in {"confirmed_buy", "confirmed_sell"}
           /\ StateName(e) \in Armed => e.scope = "intrabar" /\ e.dir \in {"buy", "sell"}
<1>1. e.scope \in {"intrabar", "tick_derived", "confirmed"} /\ e.dir \in {"buy", "sell", "hold"} /\ e.bar \in Nat
    BY RuntimeAssumption DEF Scopes, Lanes, Directions
<1>2. CASE e.scope = "confirmed"
    BY <1>1, <1>2 DEF StateName, StateNames, Signal, Signals, Armed
<1>3. CASE e.scope = "tick_derived"
    BY <1>1, <1>3 DEF StateName, StateNames, Signal, Signals, Armed
<1>4. CASE e.scope = "intrabar"
    BY <1>1, <1>4 DEF StateName, StateNames, Signal, Signals, Armed
<1> QED
    BY <1>1, <1>2, <1>3, <1>4
-----------------------------------------------------------------------------
(* Types.                                                                  *)

\* What TypeOK says of the loop thread alone.
ThreadTypes ==
    /\ pc \in {"none", "idle", "wait", "claimed", "yield", "process", "publish"}
    /\ hand \in Events \cup {None}
    /\ out \in Signals \cup {None}
    /\ pc \in {"claimed", "yield", "process", "publish"} <=> hand # None
    /\ pc = "publish" <=> out # None

TargetType == [conf : {"idle", "confirmed_buy", "confirmed_sell"}, emitted : StateNames \cup {None},
               ebar : Nat \cup {None}, eat : Nat,
               snap : [scope : Scopes, bar : Nat, sig : Nat] \cup {None}]
CoordType == [dir : Directions, count : Nat, bar : Nat \cup {None}, armed : BOOLEAN]
SavedType == [state : {"confirmed_buy", "confirmed_sell", "confirmed_cancelled"}, bar : Nat] \cup {None}

\* The first state satisfies the inductive invariant.
LEMMA InitInv == Init => RuntimeInv
<1> SUFFICES ASSUME Init PROVE RuntimeInv
    OBVIOUS
<1>1. wal = <<>> /\ wal \in Seq(Rows) /\ DOMAIN wal = {}
    BY EmptySeq DEF Init
<1>2. \A l \in Lanes : lane[l] = <<>> /\ lane[l] \in Seq(Events) /\ Len(lane[l]) = 0 /\ DOMAIN lane[l] = {}
    BY EmptySeq DEF Init
<1>3. votes \in Seq(Votes) /\ Len(votes) = 0
    BY EmptySeq DEF Init
<1>4. TypeOK
    <2>1. Zero \in [Events -> Nat] /\ target = Idle /\ coord = NoStability
        BY DEF Zero, Init
    <2>2. lane \in [Lanes -> Seq(Events)] /\ \A l \in Lanes : Len(lane[l]) <= LaneCap
          /\ \A i \in DOMAIN lane[l] : lane[l][i].scope = l
        BY <1>2, RuntimeAssumption DEF Init
    <2>3. Idle \in TargetType /\ NoStability \in CoordType
        BY DEF Idle, NoStability, TargetType, CoordType, Directions
    <2>4. {offers, admitted, evaluated, lost} \subseteq [Events -> Nat]
        BY <2>1 DEF Init
    <2>5. /\ burst \in 0..BurstLimit - 1 /\ failures \in 0..MaxFailures - 1 /\ faults \in 0..MaxFaults
          /\ now \in 0..MaxClock /\ turn \in 0..1 /\ streak \in Nat
        BY RuntimeAssumption DEF Init
    <2>6. {ready, barSeen} \subseteq BOOLEAN /\ {stop, joining, subscribed} \subseteq BOOLEAN
        BY DEF Init
    <2>7. attached \in BOOLEAN /\ closed \in BOOLEAN
        BY DEF Init
    <2>8. arriving \in Confirmed \cup {None} /\ saved \in SavedType /\ ThreadTypes
        BY DEF Init, SavedType, ThreadTypes
    <2> QED
        BY <1>1, <1>3, <2>1, <2>2, <2>3, <2>4, <2>5, <2>6, <2>7, <2>8, Zenon
           DEF TypeOK, Rows, ThreadTypes, TargetType, CoordType, SavedType
<1>5. OneClaim /\ Stopped /\ LossesHaveFaults /\ StreakIsCounted /\ ArmedIsSteady
    BY <1>1, RuntimeAssumption DEF OneClaim, Stopped, LossesHaveFaults, StreakIsCounted, ArmedIsSteady,
       ArmedIsStable, Init, Zero, Confirmed
<1>6. VotesAgree
    <2>1. VotesFor(1, Tallied) = {} /\ Agree(1, Tallied) /\ coord.count = 0 /\ 1 \in 1 .. Len(votes) + 1
        BY <1>3 DEF VotesFor, Agree, Init, NoStability
    <2>2. Cardinality({}) = 0
        BY FS_EmptySet
    <2>c. Cardinality(VotesFor(1, Tallied)) = 0
        BY <2>1, <2>2, Zenon
    <2>3. coord.count <= Cardinality(VotesFor(1, Tallied))
        BY <2>1, <2>c
    <2> QED
        BY <2>1, <2>3, Zenon DEF VotesAgree
<1>7. Balance
    <2>1. ASSUME NEW e \in Confirmed PROVE Queued(wal, e) = 0
        <3>1. {i \in DOMAIN wal : wal[i].ev = e} = {}
            BY <1>1
        <3> QED
            BY <3>1, FS_EmptySet DEF Queued
    <2> QED
        BY <2>1 DEF Balance, Held, Init, Zero, Confirmed
<1> QED
    BY <1>4, <1>5, <1>6, <1>7 DEF RuntimeInv

\* The step of a thread that takes a sample.
LEMMA TakeFacts ==
    ASSUME LaneTypes, NEW l \in Lanes, TakeSample(l)
    PROVE  /\ LaneTypes' /\ hand' \in Events /\ hand'.scope = l /\ hand' \notin Confirmed
           /\ hand' # None /\ pc' = "process" /\ streak' = 0 /\ lane[l] # <<>>
<1>1. lane[l] # <<>> /\ lane' = [lane EXCEPT ![l] = Tail(@)]
    BY DEF TakeSample
<1>2. LaneTypes' /\ Head(lane[l]) \in Events /\ Head(lane[l]).scope = l
    BY <1>1, LaneTail
<1> QED
    BY <1>1, <1>2, RuntimeAssumption DEF TakeSample, Confirmed, Lanes

\* The fields of an event.
LEMMA EventFacts ==
    ASSUME NEW e \in Events
    PROVE  /\ e # None /\ e.scope \in Scopes /\ e.bar \in Nat /\ e.sig \in Nat /\ e.dir \in Directions
           /\ Snap(e) \in [scope : Scopes, bar : Nat, sig : Nat]
BY RuntimeAssumption DEF Snap

\* Evaluating an event keeps the types of the memory and prepares a signal or
\* none.
LEMMA ProcessTypes ==
    ASSUME TypeOK, Process
    PROVE  /\ target' \in TargetType /\ coord' \in CoordType /\ saved' \in SavedType
           /\ votes' \in Seq(Votes) /\ out' \in Signals \cup {None} /\ faults' \in 0..MaxFaults
           /\ faults' >= faults
<1>1. hand \in Events /\ pc = "process" /\ out = None
    BY DEF TypeOK, Process
<1> DEFINE e == hand
<1>2. /\ e # None /\ e.scope \in Scopes /\ e.bar \in Nat /\ e.sig \in Nat /\ e.dir \in Directions
      /\ Snap(e) \in [scope : Scopes, bar : Nat, sig : Nat]
    BY <1>1, EventFacts
<1>3. /\ StateName(e) \in StateNames /\ Signal(e) \in Signals
      /\ e.scope = "confirmed" => StateName(e) \in {"confirmed_buy", "confirmed_sell", "confirmed_cancelled"}
      /\ e.scope = "confirmed" /\ e.dir # "hold" => StateName(e) \in {"confirmed_buy", "confirmed_sell"}
    BY <1>1, SignalFacts
<1>4. /\ target \in TargetType /\ coord \in CoordType /\ saved \in SavedType /\ votes \in Seq(Votes)
      /\ faults \in 0..MaxFaults /\ MaxFaults \in Nat
    BY RuntimeAssumption DEF TypeOK, TargetType, CoordType, SavedType
<1> HIDE DEF e
<1>5. CASE e.scope = "confirmed" /\ EvaluateConfirmed(e)
    <2> DEFINE t == Transition(e)
    <2>1. t.conf \in {"idle", "confirmed_buy", "confirmed_sell"}
        BY <1>3, <1>5 DEF Transition
    <2> HIDE DEF t
    <2>2. PICK kept : kept = [target EXCEPT !.snap = Snap(e), !.conf = t.conf]
        OBVIOUS
    <2>3. kept \in TargetType
        BY <1>2, <1>4, <2>1, <2>2 DEF TargetType
    <2>4. MarkEmitted(kept, StateName(e), e.bar) \in TargetType
        BY <1>2, <1>3, <2>3 DEF MarkEmitted, TargetType
    <2>5. \/ /\ t.emits /\ target' = MarkEmitted(kept, StateName(e), e.bar)
             /\ Persist(e, t.conf # target.conf) /\ out' = Signal(e)
          \/ ~t.emits /\ target' = kept /\ out' = None /\ UNCHANGED <<saved, faults>>
        BY <1>5, <2>2 DEF EvaluateConfirmed, t
    <2>6. UNCHANGED <<coord, votes>>
        BY <1>5 DEF EvaluateConfirmed
    <2>7. Signal(e) \in SavedType
        BY <1>2, <1>3, <1>5 DEF Signal, SavedType
    <2>8. saved' \in SavedType /\ faults' \in 0..MaxFaults /\ faults' >= faults
        BY <1>4, <2>5, <2>7 DEF Persist, Fault
    <2> QED
        BY <1>3, <1>4, <2>3, <2>4, <2>5, <2>6, <2>8
<1>6. CASE e.scope = "tick_derived" /\ EvaluateTick(e)
    <2>1. [target EXCEPT !.snap = Snap(e)] \in TargetType
        BY <1>2, <1>4 DEF TargetType
    <2>2. MarkEmitted([target EXCEPT !.snap = Snap(e)], StateName(e), e.bar) \in TargetType
        BY <1>2, <1>3, <2>1 DEF MarkEmitted, TargetType
    <2> QED
        BY <1>3, <1>4, <1>6, <2>1, <2>2 DEF EvaluateTick
<1>7. ASSUME NEW confident \in BOOLEAN, e.scope = "intrabar" /\ EvaluateIntrabar(e, confident)
      PROVE  /\ target' \in TargetType /\ coord' \in CoordType /\ saved' \in SavedType
             /\ votes' \in Seq(Votes) /\ out' \in Signals \cup {None} /\ faults' \in 0..MaxFaults
             /\ faults' >= faults
    <2>1. [target EXCEPT !.snap = Snap(e)] \in TargetType
        BY <1>2, <1>4 DEF TargetType
    <2>2. Stability(e, confident) \in CoordType
        <3>1. PICK a \in BOOLEAN : a = (coord.armed \/ (coord.count + 1 >= MinStable /\ confident))
            OBVIOUS
        <3>2. [coord EXCEPT !.count = @ + 1, !.armed = a] \in CoordType
            <4>1. coord \in CoordType
                BY <1>4, Zenon
            <4>2. coord.count + 1 \in Nat
                BY <4>1 DEF CoordType
            <4> QED
                BY <4>1, <4>2, Zenon DEF CoordType
        <3>3. [dir |-> e.dir, count |-> 1, bar |-> e.bar, armed |-> FALSE] \in CoordType
            BY <1>2 DEF CoordType
        <3> QED
            BY <3>1, <3>2, <3>3, Zenon DEF Stability
    <2>3. votes' \in Seq(Votes)
        <3>1. Vote(e) \in Votes
            BY <1>2 DEF Vote, Votes
        <3> QED
            BY <1>4, <1>7, <3>1 DEF EvaluateIntrabar
    <2>4. target' = [target EXCEPT !.snap = Snap(e)] /\ UNCHANGED <<saved, faults>>
        BY <1>7 DEF EvaluateIntrabar
    <2>5. CASE e.dir = "hold" /\ out' = None /\ UNCHANGED coord
        BY <1>4, <2>1, <2>3, <2>4, <2>5
    <2>6. CASE /\ coord' = Stability(e, confident)
               /\ out' = IF coord'.armed /\ ~coord.armed THEN Signal(e) ELSE None
        <3>1. out' \in Signals \cup {None}
            BY <1>3, <2>6, Zenon
        <3> QED
            BY <1>4, <2>1, <2>2, <2>3, <2>4, <2>6, <3>1
    <2> QED
        BY <1>7, <2>5, <2>6, Zenon DEF EvaluateIntrabar
<1>8. CASE UNCHANGED <<memory, saved, out, votes, faults>>
    BY <1>1, <1>4, <1>8 DEF memory
<1> QED
    BY <1>5, <1>6, <1>7, <1>8 DEF Process, e

\* TypeOK, in the parts the steps below change.
RestTypes ==
    /\ now \in 0..MaxClock /\ ready \in BOOLEAN /\ barSeen \in BOOLEAN
    /\ attached \in BOOLEAN /\ arriving \in Confirmed \cup {None}
    /\ closed \in BOOLEAN /\ stop \in BOOLEAN /\ joining \in BOOLEAN /\ subscribed \in BOOLEAN
    /\ burst \in 0..BurstLimit - 1 /\ turn \in 0..1
    /\ failures \in 0..MaxFailures - 1
    /\ streak \in Nat /\ faults \in 0..MaxFaults
CountTypes ==
    /\ offers \in [Events -> Nat] /\ admitted \in [Events -> Nat]
    /\ evaluated \in [Events -> Nat] /\ lost \in [Events -> Nat]
MemoryTypes ==
    target \in TargetType /\ coord \in CoordType /\ saved \in SavedType /\ votes \in Seq(Votes)

\* TypeOK by groups of variables.
LEMMA TypeParts ==
    TypeOK <=> RestTypes /\ wal \in Seq(Rows) /\ LaneTypes /\ ThreadTypes /\ CountTypes /\ MemoryTypes
BY Zenon DEF TypeOK, RestTypes, LaneTypes, ThreadTypes, CountTypes, MemoryTypes, TargetType, CoordType,
       SavedType, Rows
\* The same of the next state.
LEMMA TypePartsNext ==
    (RestTypes /\ wal \in Seq(Rows) /\ LaneTypes /\ ThreadTypes /\ CountTypes /\ MemoryTypes)' => TypeOK'
BY Zenon DEF TypeOK, RestTypes, LaneTypes, ThreadTypes, CountTypes, MemoryTypes, TargetType, CoordType,
       SavedType, Rows

\* Counting an event counts that event only.
LEMMA BumpTypes ==
    ASSUME NEW f \in [Events -> Nat], NEW e \in Events
    PROVE  /\ Bump(f, e) \in [Events -> Nat] /\ BumpBar(f, e) \in [Events -> Nat]
           /\ Bump(f, e)[e] = f[e] + 1 /\ \A d \in Events : d # e => Bump(f, e)[d] = f[d]
BY DEF Bump, BumpBar

\* The oldest pending row, when there is one.
LEMMA ClaimFacts ==
    ASSUME RuntimeInv, Claim
    PROVE  \E k \in DOMAIN wal :
             /\ wal' = [wal EXCEPT ![k].claimed = TRUE] /\ hand' = wal[k].ev /\ k > 0
             /\ wal' \in Seq(Rows) /\ hand' \in Confirmed /\ DOMAIN wal' = DOMAIN wal
             /\ \A i \in DOMAIN wal : wal'[i].ev = wal[i].ev
             /\ wal'[k].claimed = TRUE /\ \A i \in DOMAIN wal : i # k => wal'[i] = wal[i]
<1>1. wal \in Seq(Rows)
    BY TypeParts DEF RuntimeInv
<1>2. FirstPending > 0 /\ FirstPending = OldestRow(FALSE)
    BY DEF Claim, FirstPending
<1>a. RowsWith(FALSE) # {} => OldestRow(FALSE) \in RowsWith(FALSE)
    BY <1>1, OldestFacts, Zenon
<1>b. RowsWith(FALSE) = {} => OldestRow(FALSE) = 0
    BY <1>1, OldestFacts, Zenon
<1>3. FirstPending \in DOMAIN wal
    <2>1. OldestRow(FALSE) # 0
        <3>1. PICK n : n = OldestRow(FALSE)
            OBVIOUS
        <3>2. n > 0 => n # 0
            OBVIOUS
        <3> QED
            BY <1>2, <3>1, <3>2, Zenon
    <2>2. OldestRow(FALSE) \in RowsWith(FALSE)
        BY <1>a, <1>b, <2>1, Zenon
    <2> QED
        BY <1>2, <2>2, Zenon DEF RowsWith
<1>4. PICK k \in DOMAIN wal : k = FirstPending
    BY <1>3
<1>5. wal' = [wal EXCEPT ![k].claimed = TRUE] /\ hand' = wal[k].ev /\ k > 0
    BY <1>2, <1>4 DEF Claim
<1>6. wal[k] \in Rows
    BY <1>1
<1>7. [wal[k] EXCEPT !.claimed = TRUE] \in Rows
    BY <1>6 DEF Rows
<1>8. wal' = [wal EXCEPT ![k] = [wal[k] EXCEPT !.claimed = TRUE]]
    BY <1>5
<1>9. wal' \in Seq(Rows) /\ DOMAIN wal' = DOMAIN wal
    BY <1>1, <1>7, <1>8
<1>10. wal'[k] = [wal[k] EXCEPT !.claimed = TRUE] /\ \A i \in DOMAIN wal : i # k => wal'[i] = wal[i]
    BY <1>1, <1>8
<1>11. wal'[k].ev = wal[k].ev /\ wal'[k].claimed = TRUE /\ wal[k].ev \in Confirmed
    BY <1>6, <1>10 DEF Rows
<1> QED
    BY <1>5, <1>9, <1>10, <1>11

\* The row the loop deletes is the one of the event in its hand.
LEMMA CompleteFacts ==
    ASSUME RuntimeInv, pc = "claimed", ~closed, wal' = RemoveAt(wal, FirstClaimed)
    PROVE  \E k \in DOMAIN wal :
             /\ wal' = RemoveAt(wal, k) /\ wal[k].ev = hand
             /\ \A i \in DOMAIN wal : wal[i].claimed = TRUE <=> i = k
             /\ wal' \in Seq(Rows) /\ DOMAIN wal' = 1..(Len(wal) - 1)
             /\ \A i \in DOMAIN wal' : wal'[i].claimed = FALSE
<1>1. wal \in Seq(Rows) /\ Len(wal) \in Nat /\ DOMAIN wal = 1..Len(wal)
    BY TypeParts DEF RuntimeInv
<1>2. PICK k \in DOMAIN wal : wal[k].ev = hand /\ \A i \in DOMAIN wal : wal[i].claimed = TRUE <=> i = k
    BY DEF RuntimeInv, OneClaim
<1>3. RowsWith(TRUE) = {k}
    BY <1>2 DEF RowsWith
<1>4. FirstClaimed = k
    BY <1>1, <1>3, OldestFacts DEF FirstClaimed
<1>5. wal' = RemoveAt(wal, k)
    BY <1>4
<1>6. /\ wal' \in Seq(Rows) /\ Len(wal') = Len(wal) - 1
      /\ \A i \in 1..(Len(wal) - 1) : wal'[i] = IF i < k THEN wal[i] ELSE wal[i + 1]
    BY <1>1, <1>5, RemovedRows, Zenon
<1>7. DOMAIN wal' = 1..(Len(wal) - 1)
    BY <1>6
<1>8. ASSUME NEW i \in 1..(Len(wal) - 1) PROVE wal'[i].claimed = FALSE
    <2>1. PICK j \in DOMAIN wal : j # k /\ wal'[i] = wal[j]
        <3>1. i < k => i \in DOMAIN wal /\ i # k
            BY <1>1
        <3>2. ~(i < k) => i + 1 \in DOMAIN wal /\ i + 1 # k
            BY <1>1
        <3> QED
            BY <1>6, <3>1, <3>2
    <2>a. wal[j] \in Rows
        BY <1>1
    <2>2. wal[j].claimed \in BOOLEAN
        BY <2>a, Zenon DEF Rows
    <2>3. wal[j].claimed # TRUE
        BY <1>2, <2>1
    <2> QED
        BY <2>1, <2>2, <2>3, Zenon
<1> QED
    BY <1>2, <1>5, <1>6, <1>7, <1>8

\* Restarting makes every row pending and moves none.
LEMMA ReopenFacts ==
    ASSUME wal \in Seq(Rows), wal' = Reopened
    PROVE  /\ wal' \in Seq(Rows) /\ DOMAIN wal' = DOMAIN wal
           /\ \A i \in DOMAIN wal : wal'[i].ev = wal[i].ev /\ wal'[i].claimed = FALSE
<1>1. DOMAIN wal = 1..Len(wal) /\ Len(wal) \in Nat
    OBVIOUS
<1>2. ASSUME NEW i \in DOMAIN wal
      PROVE  /\ [wal[i] EXCEPT !.claimed = FALSE] \in Rows
             /\ [wal[i] EXCEPT !.claimed = FALSE].ev = wal[i].ev
             /\ [wal[i] EXCEPT !.claimed = FALSE].claimed = FALSE
    <2>1. wal[i] \in Rows
        BY <1>1
    <2> QED
        BY <2>1 DEF Rows
<1>3. wal' = [i \in 1..Len(wal) |-> [wal[i] EXCEPT !.claimed = FALSE]]
    BY <1>1 DEF Reopened
<1>4. wal' \in Seq(Rows)
    BY <1>1, <1>2, <1>3
<1> QED
    BY <1>1, <1>2, <1>3, <1>4

\* Every step keeps the types.
LEMMA TypeStep == ASSUME RuntimeInv, Next PROVE TypeOK'
<1>0. RestTypes /\ wal \in Seq(Rows) /\ LaneTypes /\ ThreadTypes /\ CountTypes /\ MemoryTypes
    BY TypeParts DEF RuntimeInv
<1>a. /\ BurstLimit \in Nat \ {0} /\ LaneCap \in Nat \ {0} /\ MinStable \in Nat \ {0}
      /\ MaxAge \in Nat /\ MaxFailures \in Nat \ {0}
      /\ MaxClock \in Nat /\ MaxFaults \in Nat /\ None \notin Events /\ None \notin Signals
    BY RuntimeAssumption
<1>b. \A e \in Confirmed : e \in Events /\ e # None
    BY <1>a DEF Confirmed
<1> USE DEF barrier, queues, thread, stopping, turns, memory, listeners, counts, watch
<1>1. CASE Tick
    <2>1. RestTypes'
        BY <1>0, <1>1, <1>a DEF Tick, RestTypes
    <2> QED
        BY <1>0, <1>1, <2>1, TypePartsNext DEF Tick, LaneTypes, ThreadTypes, CountTypes, MemoryTypes
<1>2. CASE BackfillEnds
    <2>1. RestTypes'
        BY <1>0, <1>2, <1>a DEF BackfillEnds, RestTypes
    <2> QED
        BY <1>0, <1>2, <2>1, TypePartsNext DEF BackfillEnds, LaneTypes, ThreadTypes, CountTypes, MemoryTypes
<1>3. CASE PutConfirmed
    <2>1. RestTypes' /\ arriving \in Confirmed
        BY <1>0, <1>3, <1>a DEF PutConfirmed, RestTypes
    <2>2. wal' \in Seq(Rows)
        <3>1. [ev |-> arriving, claimed |-> FALSE] \in Rows
            BY <2>1 DEF Rows
        <3> QED
            BY <1>0, <1>3, <3>1 DEF PutConfirmed
    <2>3. CountTypes'
        <3>1. Bump(admitted, arriving) \in [Events -> Nat]
            BY <1>0, <1>b, <2>1, BumpTypes DEF CountTypes
        <3> QED
            BY <1>0, <1>3, <3>1, Zenon DEF PutConfirmed, CountTypes
    <2> QED
        BY <1>0, <1>3, <2>1, <2>2, <2>3, TypePartsNext DEF PutConfirmed, LaneTypes, ThreadTypes, MemoryTypes
<1>4. ASSUME NEW e \in Confirmed, NEW complete \in BOOLEAN, OnConfirmed(e, complete) PROVE TypeOK'
    <2>1. RestTypes'
        BY <1>0, <1>4, <1>a DEF OnConfirmed, RestTypes
    <2>2. CountTypes'
        BY <1>0, <1>4, <1>b, BumpTypes DEF OnConfirmed, CountTypes
    <2> QED
        BY <1>0, <1>4, <2>1, <2>2, TypePartsNext DEF OnConfirmed, LaneTypes, ThreadTypes, MemoryTypes
<1>5. ASSUME NEW e \in Events \ Confirmed, OnSample(e) PROVE TypeOK'
    <2>1. RestTypes'
        BY <1>0, <1>5, <1>a DEF OnSample, RestTypes
    <2>2. CountTypes'
        BY <1>0, <1>5, BumpTypes DEF OnSample, CountTypes
    <2>3. LaneTypes'
        BY <1>0, <1>5, LanePut DEF OnSample
    <2> QED
        BY <1>0, <1>5, <2>1, <2>2, <2>3, TypePartsNext DEF OnSample, ThreadTypes, MemoryTypes
<1>6. CASE Claim
    <2>1. RestTypes'
        BY <1>0, <1>6, <1>a DEF Claim, RestTypes
    <2>2. wal' \in Seq(Rows) /\ hand' \in Confirmed
        BY <1>6, ClaimFacts
    <2>3. ThreadTypes'
        BY <1>0, <1>6, <1>b, <2>2 DEF Claim, ThreadTypes
    <2> QED
        BY <1>0, <1>6, <2>1, <2>2, <2>3, TypePartsNext DEF Claim, LaneTypes, CountTypes, MemoryTypes
<1>7. CASE Complete
    <2>1. RestTypes'
        BY <1>0, <1>7, <1>a DEF Complete, RestTypes
    <2>2. wal' \in Seq(Rows)
        BY <1>0, <1>7, CompleteFacts DEF Complete
    <2>3. ThreadTypes'
        BY <1>0, <1>7 DEF Complete, ThreadTypes
    <2> QED
        BY <1>0, <1>7, <2>1, <2>2, <2>3, TypePartsNext DEF Complete, LaneTypes, CountTypes, MemoryTypes
<1>c. turn \in 0..1
    BY <1>0 DEF RestTypes
<1>d. 1 - turn \in 0..1 /\ FirstLane(turn) \in Lanes
    BY <1>c, OrderFacts
<1>8. CASE Yield
    <2>0. hand \in Confirmed
        BY <1>8 DEF Yield, RuntimeInv, Stopped
    <2>1. [ev |-> hand, claimed |-> FALSE] \in Rows
        BY <2>0 DEF Rows
    <2>2. wal' \in Seq(Rows)
        BY <1>0, <1>8, <2>1 DEF Yield
    <2>3. LaneTypes' /\ ThreadTypes' /\ streak' \in Nat
        <3>1. CASE ~SampleWaits /\ pc' = "process" /\ UNCHANGED <<hand, wal, lane, lost, streak>>
            BY <1>0, <1>8, <3>1 DEF Yield, LaneTypes, ThreadTypes, RestTypes
        <3>2. CASE TakeSample(FirstLane(turn))
            <4>1. /\ LaneTypes' /\ hand' \in Events /\ hand' # None /\ pc' = "process" /\ streak' = 0
                BY <1>0, <1>d, <3>2, TakeFacts
            <4>2. UNCHANGED out /\ pc = "yield"
                BY <1>8 DEF Yield
            <4>3. ThreadTypes'
                BY <1>0, <4>1, <4>2 DEF ThreadTypes
            <4> QED
                BY <4>1, <4>3
        <3>3. CASE /\ SampleWaits /\ lane' = [lane EXCEPT ![FirstLane(turn)] = Tail(@)]
                   /\ hand' = None /\ pc' = "idle" /\ streak' = 0
            <4>1. LaneTypes'
                BY <1>0, <1>c, <1>d, <3>3, LaneTail, OrderFacts
            <4>2. UNCHANGED out /\ pc = "yield"
                BY <1>8 DEF Yield
            <4>3. ThreadTypes'
                BY <1>0, <3>3, <4>2 DEF ThreadTypes
            <4> QED
                BY <3>3, <4>1, <4>3
        <3> QED
            BY <1>8, <3>1, <3>2, <3>3 DEF Yield
    <2>4. CountTypes'
        <3>1. Bump(lost, hand) \in [Events -> Nat]
            BY <1>0, <1>b, <2>0, BumpTypes DEF CountTypes
        <3> QED
            BY <1>0, <1>8, <3>1, Zenon DEF Yield, CountTypes
    <2>5. RestTypes'
        BY <1>0, <1>8, <1>a, <1>d, <2>3 DEF Yield, RestTypes
    <2> QED
        BY <1>0, <1>8, <2>2, <2>3, <2>4, <2>5, TypePartsNext DEF Yield, MemoryTypes
<1>9. CASE Poll
    <2>1. LaneTypes' /\ ThreadTypes' /\ streak' \in Nat
        <3>1. CASE pc' = "wait" /\ UNCHANGED <<hand, lane, streak>>
            BY <1>0, <1>9, <3>1 DEF Poll, LaneTypes, ThreadTypes, RestTypes
        <3>2. CASE TakeSample(FirstLane(turn))
            <4>1. /\ LaneTypes' /\ hand' \in Events /\ hand' # None /\ pc' = "process" /\ streak' = 0
                BY <1>0, <1>d, <3>2, TakeFacts
            <4>2. UNCHANGED out /\ pc = "idle"
                BY <1>9 DEF Poll
            <4>3. ThreadTypes'
                BY <1>0, <4>1, <4>2 DEF ThreadTypes
            <4> QED
                BY <4>1, <4>3
        <3> QED
            BY <1>9, <3>1, <3>2 DEF Poll
    <2>2. RestTypes'
        BY <1>0, <1>9, <1>a, <1>d, <2>1 DEF Poll, RestTypes
    <2> QED
        BY <1>0, <1>9, <2>1, <2>2, TypePartsNext DEF Poll, CountTypes, MemoryTypes
<1>10. CASE Wait
    <2>1. LaneTypes' /\ ThreadTypes' /\ streak' \in Nat
        <3>1. CASE pc' = "idle" /\ UNCHANGED <<hand, lane, streak>>
            BY <1>0, <1>10, <3>1 DEF Wait, LaneTypes, ThreadTypes, RestTypes
        <3>2. ASSUME NEW l \in Lanes, TakeSample(l) PROVE LaneTypes' /\ ThreadTypes' /\ streak' \in Nat
            <4>1. /\ LaneTypes' /\ hand' \in Events /\ hand' # None /\ pc' = "process" /\ streak' = 0
                BY <1>0, <3>2, TakeFacts
            <4>2. UNCHANGED out /\ pc = "wait"
                BY <1>10 DEF Wait
            <4>3. ThreadTypes'
                BY <1>0, <4>1, <4>2 DEF ThreadTypes
            <4> QED
                BY <4>1, <4>3
        <3>3. Order(turn)[1] \in Lanes /\ Order(turn)[2] \in Lanes
            BY <1>c, OrderFacts
        <3> QED
            BY <1>10, <3>1, <3>2, <3>3 DEF Wait
    <2>2. RestTypes'
        BY <1>0, <1>10, <1>a, <1>d, <2>1 DEF Wait, RestTypes
    <2> QED
        BY <1>0, <1>10, <2>1, <2>2, TypePartsNext DEF Wait, CountTypes, MemoryTypes
<1>11. CASE Process
    <2>1. /\ MemoryTypes' /\ out' \in Signals \cup {None} /\ faults' \in 0..MaxFaults
        BY <1>11, ProcessTypes DEF MemoryTypes, RuntimeInv
    <2>2. ThreadTypes'
        BY <1>0, <1>11, <2>1 DEF Process, ThreadTypes
    <2>3. RestTypes'
        BY <1>0, <1>11, <2>1 DEF Process, RestTypes
    <2>4. hand \in Events
        BY <1>0, <1>11 DEF Process, ThreadTypes
    <2>5. CountTypes'
        BY <1>0, <1>11, <2>4, BumpTypes DEF Process, CountTypes
    <2> QED
        BY <1>0, <1>11, <2>1, <2>2, <2>3, <2>5, TypePartsNext DEF Process, LaneTypes
<1>12. CASE ProcessRaises
    <2>1. hand \in Events
        BY <1>0, <1>12 DEF ProcessRaises, ThreadTypes
    <2>2. CountTypes'
        BY <1>0, <1>12, <2>1, BumpTypes DEF ProcessRaises, CountTypes
    <2>3. MemoryTypes'
        BY <1>0, <1>12, <2>1, EventFacts DEF ProcessRaises, MemoryTypes, TargetType
    <2>4. RestTypes'
        BY <1>0, <1>12, <1>a DEF ProcessRaises, RestTypes, Fault
    <2>5. ThreadTypes'
        BY <1>0, <1>12 DEF ProcessRaises, ThreadTypes
    <2> QED
        BY <1>0, <1>12, <2>2, <2>3, <2>4, <2>5, TypePartsNext DEF ProcessRaises, LaneTypes
<1>13. CASE Publish
    <2>1. RestTypes'
        <3>1. failures' \in 0..MaxFailures - 1 /\ faults' \in 0..MaxFaults
            BY <1>0, <1>13, <1>a DEF Publish, RestTypes, Fault
        <3>2. (failures + 1 < MaxFailures) \in BOOLEAN
            BY SMT
        <3>3. subscribed' \in BOOLEAN
            BY <1>0, <1>13, <3>2, Zenon DEF Publish, RestTypes
        <3> QED
            BY <1>0, <1>13, <3>1, <3>3, Zenon DEF Publish, RestTypes
    <2>2. ThreadTypes'
        BY <1>0, <1>13 DEF Publish, ThreadTypes
    <2> QED
        BY <1>0, <1>13, <2>1, <2>2, TypePartsNext DEF Publish, LaneTypes, CountTypes, MemoryTypes
<1>14. CASE LoopEnds
    <2>1. RestTypes' /\ ThreadTypes'
        BY <1>0, <1>14 DEF LoopEnds, RestTypes, ThreadTypes
    <2> QED
        BY <1>0, <1>14, <2>1, TypePartsNext DEF LoopEnds, LaneTypes, CountTypes, MemoryTypes
<1>15. CASE Stop
    <2>1. RestTypes'
        <3>1. faults' \in 0..MaxFaults
            BY <1>0, <1>15, <1>a DEF Stop, RestTypes, Fault
        <3> QED
            BY <1>0, <1>15, <3>1, Zenon DEF Stop, RestTypes
    <2> QED
        BY <1>0, <1>15, <2>1, TypePartsNext DEF Stop, LaneTypes, CountTypes, MemoryTypes, ThreadTypes
<1>16. CASE StopCloses
    <2>1. RestTypes'
        <3>1. 0 \in 0..BurstLimit - 1
            BY <1>a
        <3> QED
            BY <1>0, <1>16, <3>1, Zenon DEF StopCloses, RestTypes
    <2> QED
        BY <1>0, <1>16, <2>1, TypePartsNext DEF StopCloses, LaneTypes, CountTypes, MemoryTypes, ThreadTypes
<1>17. CASE Start
    <2>1. RestTypes' /\ ThreadTypes'
        BY <1>0, <1>17 DEF Start, RestTypes, ThreadTypes
    <2>2. wal' \in Seq(Rows)
        BY <1>0, <1>17, ReopenFacts DEF Start
    <2>3. target' \in TargetType
        <3>1. target' = Restored /\ target \in TargetType /\ saved \in SavedType
            BY <1>0, <1>17 DEF Start, MemoryTypes
        <3>2. CASE saved # None
            <4>1. /\ saved.state \in {"confirmed_buy", "confirmed_sell", "confirmed_cancelled"}
                  /\ saved.bar \in Nat /\ saved.state \in StateNames
                BY <3>1, <3>2 DEF SavedType, StateNames
            <4>2. PICK c : c = IF saved.state = "confirmed_cancelled" THEN "idle" ELSE saved.state
                OBVIOUS
            <4>3. c \in {"idle", "confirmed_buy", "confirmed_sell"}
                BY <4>1, <4>2
            <4>4. target' = [target EXCEPT !.conf = c, !.emitted = saved.state, !.ebar = saved.bar, !.eat = saved.bar + 1]
                BY <3>1, <3>2, <4>2, Zenon DEF Restored
            <4>5. saved.bar + 1 \in Nat
                BY <4>1
            <4> QED
                BY <3>1, <4>1, <4>3, <4>4, <4>5, Zenon DEF TargetType
        <3>3. CASE saved = None
            BY <3>1, <3>3 DEF Restored
        <3> QED
            BY <3>2, <3>3
    <2> QED
        BY <1>0, <1>17, <2>1, <2>2, <2>3, TypePartsNext DEF Start, LaneTypes, CountTypes, MemoryTypes
<1>18. CASE Crash
    <2>1. RestTypes' /\ ThreadTypes'
        <3>1. faults' \in 0..MaxFaults /\ 0 \in 0..BurstLimit - 1 /\ 0 \in 0..MaxFailures - 1 /\ 0 \in 0..1 /\ 0 \in Nat
            BY <1>0, <1>18, <1>a DEF Crash, RestTypes, Fault
        <3>2. RestTypes'
            BY <1>0, <1>18, <3>1, Zenon DEF Crash, RestTypes
        <3> QED
            BY <1>18, <3>2 DEF Crash, ThreadTypes
    <2>2. CountTypes'
        BY <1>0, <1>18, BumpTypes DEF Crash, CountTypes, ThreadTypes
    <2>3. MemoryTypes'
        BY <1>0, <1>18, EmptySeq DEF Crash, MemoryTypes, TargetType, CoordType, Idle, NoStability, Directions
    <2>4. LaneTypes'
        BY <1>18, <1>a, EmptySeq DEF Crash, LaneTypes
    <2> QED
        BY <1>0, <1>18, <2>1, <2>2, <2>3, <2>4, TypePartsNext DEF Crash
<1> QED
    BY <1>1, <1>2, <1>3, <1>4, <1>5, <1>6, <1>7, <1>8, <1>9, <1>10, <1>11, <1>12, <1>13, <1>14, <1>15,
       <1>16, <1>17, <1>18, Zenon DEF Next, Source, Loop
-----------------------------------------------------------------------------
(* The queue: claims, stops and the balance.                               *)

\* Every step keeps at most one claimed row, and a stopped runtime idle.
LEMMA ClaimStep == ASSUME RuntimeInv, Next PROVE OneClaim' /\ Stopped'
<1>0. /\ OneClaim /\ Stopped /\ wal \in Seq(Rows) /\ LaneTypes /\ turn \in 0..1
      /\ (pc = "claimed" => hand \in Confirmed)
    BY TypeParts DEF RuntimeInv, Stopped, RestTypes
<1>a. FirstLane(turn) \in Lanes /\ Order(turn)[1] \in Lanes /\ Order(turn)[2] \in Lanes
    BY <1>0, OrderFacts
<1>b. \A r \in Rows : wal' = Append(wal, r) =>
        /\ DOMAIN wal' = DOMAIN wal \cup {Len(wal) + 1} /\ wal'[Len(wal) + 1] = r
        /\ \A i \in DOMAIN wal : wal'[i] = wal[i] /\ i # Len(wal) + 1
    BY <1>0
<1> USE DEF barrier, queues, thread, stopping, turns, memory, listeners, counts, watch
<1>1. CASE Tick \/ BackfillEnds \/ (\E e \in Confirmed, complete \in BOOLEAN : OnConfirmed(e, complete))
           \/ (\E e \in Events \ Confirmed : OnSample(e))
    <2>1. UNCHANGED <<wal, closed, pc, hand, stop, joining>>
        BY <1>1 DEF Tick, BackfillEnds, OnConfirmed, OnSample
    <2> QED
        BY <1>0, <2>1 DEF OneClaim, Stopped
<1>2. CASE PutConfirmed
    <2>0. UNCHANGED <<closed, pc, hand, stop, joining>>
        BY <1>2 DEF PutConfirmed
    <2>1. CASE UNCHANGED wal
        BY <1>0, <2>0, <2>1 DEF OneClaim, Stopped
    <2>2. CASE wal' = Append(wal, [ev |-> arriving, claimed |-> FALSE])
        <3>1. PICK r \in Rows : r = [ev |-> arriving, claimed |-> FALSE]
            <4>1. arriving \in Confirmed
                BY <1>2, TypeParts DEF PutConfirmed, RestTypes, RuntimeInv
            <4> QED
                BY <4>1 DEF Rows
        <3>2. /\ DOMAIN wal' = DOMAIN wal \cup {Len(wal) + 1} /\ wal'[Len(wal) + 1].claimed = FALSE
              /\ \A i \in DOMAIN wal : wal'[i] = wal[i] /\ i # Len(wal) + 1
            BY <1>b, <2>2, <3>1
        <3> QED
            BY <1>0, <2>0, <3>2 DEF OneClaim, Stopped
    <2> QED
        BY <1>2, <2>1, <2>2 DEF PutConfirmed
<1>3. CASE Claim
    <2>1. PICK k \in DOMAIN wal :
             /\ hand' = wal[k].ev /\ hand' \in Confirmed /\ DOMAIN wal' = DOMAIN wal
             /\ \A i \in DOMAIN wal : wal'[i].ev = wal[i].ev
             /\ wal'[k].claimed = TRUE /\ \A i \in DOMAIN wal : i # k => wal'[i] = wal[i]
        BY <1>3, ClaimFacts, Zenon
    <2>2. ~closed /\ pc = "idle" /\ pc' = "claimed" /\ UNCHANGED <<closed, stop, joining>>
        BY <1>3 DEF Claim
    <2>3. \A i \in DOMAIN wal : wal[i].claimed = FALSE
        BY <1>0, <2>2 DEF OneClaim
    <2>4. wal'[k].ev = hand' /\ \A i \in DOMAIN wal' : wal'[i].claimed = TRUE <=> i = k
        BY <2>1, <2>3
    <2> QED
        BY <1>0, <2>1, <2>2, <2>4 DEF OneClaim, Stopped
<1>4. CASE Complete
    <2>1. CASE closed
        BY <1>0, <1>4, <2>1 DEF Complete, OneClaim, Stopped
    <2>2. CASE ~closed
        <3>1. \A i \in DOMAIN wal' : wal'[i].claimed = FALSE
            BY <1>4, <2>2, CompleteFacts DEF Complete
        <3>2. hand' = hand /\ pc' \in {"yield", "process"} /\ hand \in Confirmed
            BY <1>0, <1>4, <2>2 DEF Complete
        <3> QED
            BY <1>0, <1>4, <3>1, <3>2 DEF Complete, OneClaim, Stopped
    <2> QED
        BY <2>1, <2>2
<1>5. CASE Yield
    <2>0. pc = "yield" /\ UNCHANGED <<closed, stop, joining>> /\ pc' \in {"process", "idle"} /\ hand \in Confirmed
        BY <1>0, <1>5 DEF Yield, TakeSample, Stopped
    <2>1. CASE UNCHANGED wal
        BY <1>0, <2>0, <2>1 DEF OneClaim, Stopped
    <2>2. CASE wal' = Append(wal, [ev |-> hand, claimed |-> FALSE])
        <3>1. PICK r \in Rows : r = [ev |-> hand, claimed |-> FALSE]
            BY <2>0 DEF Rows
        <3>2. /\ DOMAIN wal' = DOMAIN wal \cup {Len(wal) + 1} /\ wal'[Len(wal) + 1].claimed = FALSE
              /\ \A i \in DOMAIN wal : wal'[i] = wal[i] /\ i # Len(wal) + 1
            BY <1>b, <2>2, <3>1
        <3> QED
            BY <1>0, <2>0, <3>2 DEF OneClaim, Stopped
    <2> QED
        BY <1>5, <2>1, <2>2 DEF Yield
<1>6. CASE Poll \/ Wait
    <2>1. UNCHANGED <<wal, closed, stop, joining>> /\ pc \in {"idle", "wait"} /\ pc' \in {"idle", "wait", "process"}
        BY <1>6 DEF Poll, Wait, TakeSample
    <2> QED
        BY <1>0, <2>1 DEF OneClaim, Stopped
<1>7. CASE Process \/ ProcessRaises \/ Publish
    <2>1. UNCHANGED <<wal, closed, stop, joining>> /\ pc \in {"process", "publish"} /\ pc' \in {"idle", "publish"}
        BY <1>7 DEF Process, ProcessRaises, Publish
    <2> QED
        BY <1>0, <2>1 DEF OneClaim, Stopped
<1>8. CASE LoopEnds
    BY <1>0, <1>8 DEF LoopEnds, OneClaim, Stopped
<1>9. CASE Stop
    BY <1>0, <1>9 DEF Stop, OneClaim, Stopped
<1>10. CASE StopCloses
    BY <1>0, <1>10 DEF StopCloses, OneClaim, Stopped
<1>11. CASE Start
    <2>1. DOMAIN wal' = DOMAIN wal /\ \A i \in DOMAIN wal : wal'[i].claimed = FALSE
        BY <1>0, <1>11, ReopenFacts DEF Start
    <2> QED
        BY <1>0, <1>11, <2>1 DEF Start, OneClaim, Stopped
<1>12. CASE Crash
    BY <1>0, <1>12 DEF Crash, OneClaim, Stopped
<1> QED
    BY <1>1, <1>2, <1>3, <1>4, <1>5, <1>6, <1>7, <1>8, <1>9, <1>10, <1>11, <1>12, Zenon DEF Next, Source, Loop

\* Bar closes are conserved.
LEMMA BalanceStep == ASSUME RuntimeInv, Next PROVE Balance'
<1>0. /\ OneClaim /\ Stopped /\ Balance /\ wal \in Seq(Rows) /\ LaneTypes /\ turn \in 0..1 /\ ThreadTypes
      /\ CountTypes
    BY TypeParts DEF RuntimeInv, RestTypes
<1>a. FirstLane(turn) \in Lanes /\ Order(turn)[1] \in Lanes /\ Order(turn)[2] \in Lanes
    BY <1>0, OrderFacts
<1> SUFFICES ASSUME NEW e \in Confirmed
             PROVE  (admitted[e] = Queued(wal, e) + evaluated[e] + lost[e] + Held(e))'
    BY DEF Balance
<1>b. admitted[e] = Queued(wal, e) + evaluated[e] + lost[e] + Held(e)
    BY <1>0 DEF Balance
<1>c. /\ e \in Events /\ e # None /\ Queued(wal, e) \in Nat /\ admitted[e] \in Nat /\ evaluated[e] \in Nat
      /\ lost[e] \in Nat
    BY <1>0, QueuedFinite, RuntimeAssumption DEF Confirmed, CountTypes
<1>d. ASSUME NEW x \in Events
      PROVE  /\ \A f \in [Events -> Nat] : Bump(f, x)[e] = f[e] + (IF x = e THEN 1 ELSE 0)
             /\ \A f \in [Events -> Nat] : BumpBar(f, x)[e] = f[e] + (IF x = e THEN 1 ELSE 0)
    BY <1>c DEF Bump, BumpBar
<1> USE DEF barrier, queues, thread, stopping, turns, memory, listeners, counts, watch
<1>1. CASE Tick \/ BackfillEnds \/ (\E d \in Confirmed, complete \in BOOLEAN : OnConfirmed(d, complete))
           \/ (\E d \in Events \ Confirmed : OnSample(d)) \/ Stop \/ StopCloses
    <2>1. UNCHANGED <<wal, admitted, evaluated, lost, hand, pc>>
        BY <1>1 DEF Tick, BackfillEnds, OnConfirmed, OnSample, Stop, StopCloses
    <2> QED
        BY <1>b, <2>1 DEF Held
<1>2. CASE PutConfirmed
    <2>0. UNCHANGED <<evaluated, lost, hand, pc>> /\ arriving \in Confirmed /\ arriving \in Events
        BY <1>2, TypeParts DEF PutConfirmed, RestTypes, RuntimeInv, Confirmed
    <2>1. CASE UNCHANGED <<wal, admitted>>
        BY <1>b, <2>0, <2>1 DEF Held
    <2>2. CASE wal' = Append(wal, [ev |-> arriving, claimed |-> FALSE]) /\ admitted' = Bump(admitted, arriving)
        <3>1. PICK r \in Rows : r = [ev |-> arriving, claimed |-> FALSE]
            BY <2>0 DEF Rows
        <3>2. Queued(wal', e) = Queued(wal, e) + (IF arriving = e THEN 1 ELSE 0)
            BY <1>0, <2>2, <3>1, QueuedAppend
        <3>3. admitted'[e] = admitted[e] + (IF arriving = e THEN 1 ELSE 0)
            BY <1>0, <1>d, <2>0, <2>2 DEF CountTypes
        <3>4. Held(e)' = Held(e) /\ Held(e) \in Nat
            BY <2>0 DEF Held
        <3> QED
            BY <1>b, <1>c, <2>0, <3>2, <3>3, <3>4
    <2> QED
        BY <1>2, <2>1, <2>2 DEF PutConfirmed
<1>3. CASE Claim
    <2>1. PICK k \in DOMAIN wal : DOMAIN wal' = DOMAIN wal /\ \A i \in DOMAIN wal : wal'[i].ev = wal[i].ev
        BY <1>3, ClaimFacts, Zenon
    <2>2. Queued(wal', e) = Queued(wal, e)
        BY <2>1, QueuedSame
    <2>3. UNCHANGED <<admitted, evaluated, lost>> /\ pc = "idle" /\ pc' = "claimed"
        BY <1>3 DEF Claim
    <2> QED
        BY <1>b, <2>2, <2>3 DEF Held
<1>4. CASE Complete
    <2>0. UNCHANGED <<admitted, evaluated, lost>> /\ pc = "claimed"
        BY <1>4 DEF Complete
    <2>1. CASE closed
        <3>1. pc' = "idle" /\ UNCHANGED wal
            BY <1>4, <2>1 DEF Complete
        <3> QED
            BY <1>b, <2>0, <3>1 DEF Held
    <2>2. CASE ~closed
        <3>1. pc' \in {"yield", "process"} /\ hand' = hand
            BY <1>4, <2>2 DEF Complete
        <3>2. PICK k \in DOMAIN wal : wal' = RemoveAt(wal, k) /\ wal[k].ev = hand
            BY <1>4, <2>2, CompleteFacts DEF Complete
        <3>3. Queued(wal, e) = Queued(wal', e) + (IF hand = e THEN 1 ELSE 0)
            BY <1>0, <3>2, QueuedRemove
        <3>4. Held(e) = 0 /\ Held(e)' = IF hand = e THEN 1 ELSE 0
            BY <2>0, <3>1 DEF Held
        <3>5. wal' \in Seq(Rows)
            BY <1>4, <2>2, CompleteFacts DEF Complete
        <3>6. Queued(wal', e) \in Nat
            BY <3>5, QueuedFinite
        <3> QED
            BY <1>b, <1>c, <2>0, <3>3, <3>4, <3>6
    <2> QED
        BY <2>1, <2>2
<1>5. CASE Yield
    <2>0. UNCHANGED <<admitted, evaluated>> /\ pc = "yield" /\ hand \in Confirmed /\ hand \in Events
        BY <1>0, <1>5 DEF Yield, Stopped, Confirmed
    <2>a. Held(e) = IF hand = e THEN 1 ELSE 0
        BY <2>0 DEF Held
    <2>1. CASE pc' = "process" /\ UNCHANGED <<hand, wal, lost>>
        BY <1>b, <2>0, <2>1 DEF Held
    <2>2. CASE /\ TakeSample(FirstLane(turn)) /\ UNCHANGED lost
               /\ wal' = Append(wal, [ev |-> hand, claimed |-> FALSE])
        <3>1. PICK r \in Rows : r = [ev |-> hand, claimed |-> FALSE]
            BY <2>0 DEF Rows
        <3>2. Queued(wal', e) = Queued(wal, e) + (IF hand = e THEN 1 ELSE 0)
            BY <1>0, <2>2, <3>1, QueuedAppend
        <3>3. hand' \notin Confirmed
            BY <1>0, <1>a, <2>2, TakeFacts
        <3>4. Held(e)' = 0
            BY <3>3 DEF Held
        <3> QED
            BY <1>b, <1>c, <2>0, <2>a, <2>2, <3>2, <3>4
    <2>3. CASE hand' = None /\ pc' = "idle" /\ lost' = Bump(lost, hand) /\ UNCHANGED wal
        <3>1. lost'[e] = lost[e] + (IF hand = e THEN 1 ELSE 0)
            BY <1>0, <1>d, <2>0, <2>3 DEF CountTypes
        <3>2. Held(e)' = 0
            BY <2>3 DEF Held
        <3> QED
            BY <1>b, <1>c, <2>0, <2>a, <2>3, <3>1, <3>2
    <2> QED
        BY <1>5, <2>1, <2>2, <2>3 DEF Yield
<1>6. CASE Poll \/ Wait
    <2>1. UNCHANGED <<wal, admitted, evaluated, lost>> /\ pc \in {"idle", "wait"}
        BY <1>6 DEF Poll, Wait
    <2>2. Held(e) = 0
        BY <2>1 DEF Held
    <2>3. pc' \in {"idle", "wait"} \/ hand' \notin Confirmed
        BY <1>0, <1>6, <1>a, TakeFacts DEF Poll, Wait
    <2>4. Held(e)' = 0
        BY <2>3 DEF Held
    <2> QED
        BY <1>b, <2>1, <2>2, <2>4
<1>7. CASE Process \/ ProcessRaises
    <2>1. UNCHANGED <<wal, admitted>> /\ pc = "process" /\ hand \in Events /\ pc' \in {"idle", "publish"}
        BY <1>0, <1>7 DEF Process, ProcessRaises, ThreadTypes
    <2>2. Held(e) = (IF hand = e THEN 1 ELSE 0) /\ Held(e)' = 0
        BY <2>1 DEF Held
    <2>3. CASE Process
        <3>1. evaluated'[e] = evaluated[e] + (IF hand = e THEN 1 ELSE 0) /\ UNCHANGED lost
            BY <1>0, <1>d, <2>1, <2>3 DEF CountTypes, Process
        <3> QED
            BY <1>b, <1>c, <2>1, <2>2, <3>1
    <2>4. CASE ProcessRaises
        <3>1. lost'[e] = lost[e] + (IF hand = e THEN 1 ELSE 0) /\ UNCHANGED evaluated
            BY <1>0, <1>d, <2>1, <2>4 DEF CountTypes, ProcessRaises
        <3> QED
            BY <1>b, <1>c, <2>1, <2>2, <3>1
    <2> QED
        BY <1>7, <2>3, <2>4
<1>8. CASE Publish \/ LoopEnds
    <2>1. UNCHANGED <<wal, admitted, evaluated, lost>> /\ pc \in {"idle", "publish"} /\ pc' \in {"idle", "none"}
        BY <1>8 DEF Publish, LoopEnds
    <2> QED
        BY <1>b, <2>1 DEF Held
<1>9. CASE Start
    <2>1. DOMAIN wal' = DOMAIN wal /\ \A i \in DOMAIN wal : wal'[i].ev = wal[i].ev
        BY <1>0, <1>9, ReopenFacts DEF Start
    <2>2. Queued(wal', e) = Queued(wal, e)
        BY <2>1, QueuedSame
    <2> QED
        BY <1>b, <1>9, <2>2 DEF Start, Held
<1>10. CASE Crash
    <2>1. UNCHANGED <<wal, admitted, evaluated>> /\ pc' = "none"
        BY <1>10 DEF Crash
    <2>2. Held(e)' = 0
        BY <2>1 DEF Held
    <2>3. lost'[e] = lost[e] + Held(e)
        <3>1. CASE pc \in {"yield", "process"}
            <4>1. hand \in Events /\ lost' = BumpBar(lost, hand)
                BY <1>0, <1>10, <3>1 DEF Crash, ThreadTypes
            <4>2. lost'[e] = lost[e] + (IF hand = e THEN 1 ELSE 0)
                BY <1>0, <1>d, <4>1 DEF CountTypes
            <4> QED
                BY <3>1, <4>2 DEF Held
        <3>2. CASE pc \notin {"yield", "process"}
            BY <1>10, <1>c, <3>2 DEF Crash, Held
        <3> QED
            BY <3>1, <3>2
    <2>4. Held(e) \in Nat
        BY DEF Held
    <2> QED
        BY <1>b, <1>c, <2>1, <2>2, <2>3, <2>4
<1> QED
    BY <1>1, <1>2, <1>3, <1>4, <1>5, <1>6, <1>7, <1>8, <1>9, <1>10, Zenon DEF Next, Source, Loop

\* Every loss is paid for by a fault.
LEMMA LossStep == ASSUME RuntimeInv, Next PROVE LossesHaveFaults'
<1>0. /\ Stopped /\ LossesHaveFaults /\ RestTypes /\ ThreadTypes /\ CountTypes
    BY TypeParts DEF RuntimeInv
<1> SUFFICES ASSUME NEW e \in Confirmed
             PROVE  (lost[e] <= faults /\ (stop /\ pc \in {"claimed", "yield"} => lost[e] < faults))'
    BY DEF LossesHaveFaults
<1>b. lost[e] <= faults /\ (stop /\ pc \in {"claimed", "yield"} => lost[e] < faults)
    BY <1>0 DEF LossesHaveFaults
<1>c. e \in Events /\ lost[e] \in Nat /\ faults \in Nat /\ MaxFaults \in Nat
    BY <1>0, RuntimeAssumption DEF Confirmed, CountTypes, RestTypes
<1>d. ASSUME NEW x \in Events
      PROVE  Bump(lost, x)[e] <= lost[e] + 1 /\ BumpBar(lost, x)[e] <= lost[e] + 1
    BY <1>0, <1>c DEF Bump, BumpBar, CountTypes
<1> USE DEF barrier, queues, thread, stopping, turns, memory, listeners, counts, watch
<1>1. CASE Tick \/ BackfillEnds \/ (\E d \in Confirmed, complete \in BOOLEAN : OnConfirmed(d, complete))
           \/ (\E d \in Events \ Confirmed : OnSample(d)) \/ PutConfirmed \/ StopCloses
    <2>1. UNCHANGED <<lost, faults, stop, pc>>
        BY <1>1 DEF Tick, BackfillEnds, OnConfirmed, OnSample, PutConfirmed, StopCloses
    <2> QED
        BY <1>b, <2>1
<1>2. CASE Claim
    BY <1>b, <1>2 DEF Claim
<1>3. CASE Complete
    BY <1>b, <1>3 DEF Complete
<1>4. CASE Yield
    <2>1. hand \in Events /\ pc = "yield" /\ pc' \in {"process", "idle"} /\ UNCHANGED faults
        BY <1>0, <1>4 DEF Yield, ThreadTypes, TakeSample
    <2>2. CASE UNCHANGED lost
        BY <1>b, <2>1, <2>2
    <2>3. CASE closed /\ lost' = Bump(lost, hand)
        <3>1. stop
            BY <1>0, <2>3 DEF Stopped
        <3>2. lost'[e] <= lost[e] + 1 /\ lost'[e] \in Nat
            BY <1>0, <1>c, <1>d, <2>1, <2>3, BumpTypes DEF CountTypes
        <3> QED
            BY <1>b, <1>c, <2>1, <3>1, <3>2
    <2> QED
        BY <1>4, <2>2, <2>3 DEF Yield
<1>5. CASE Poll \/ Wait
    <2>1. UNCHANGED <<lost, faults, stop>> /\ pc' \in {"idle", "wait", "process"}
        BY <1>5 DEF Poll, Wait, TakeSample
    <2> QED
        BY <1>b, <2>1
<1>6. CASE Process
    <2>1. faults' >= faults /\ faults' \in 0..MaxFaults
        BY <1>6, ProcessTypes DEF RuntimeInv
    <2>2. UNCHANGED lost /\ pc' \in {"idle", "publish"}
        BY <1>6 DEF Process
    <2> QED
        BY <1>b, <1>c, <2>1, <2>2
<1>7. CASE ProcessRaises
    <2>1. hand \in Events
        BY <1>0, <1>7 DEF ProcessRaises, ThreadTypes
    <2>2. lost'[e] <= lost[e] + 1 /\ lost'[e] \in Nat /\ faults' = faults + 1 /\ pc' = "idle"
        BY <1>0, <1>7, <1>c, <1>d, <2>1, BumpTypes DEF ProcessRaises, Fault, CountTypes
    <2> QED
        BY <1>b, <1>c, <2>2
<1>8. CASE Publish \/ LoopEnds
    <2>1. UNCHANGED lost /\ faults' \in {faults, faults + 1} /\ pc' \in {"idle", "none"}
        BY <1>8 DEF Publish, LoopEnds, Fault
    <2> QED
        BY <1>b, <1>c, <2>1
<1>9. CASE Stop
    BY <1>b, <1>c, <1>9 DEF Stop, Fault
<1>10. CASE Start
    BY <1>b, <1>10 DEF Start
<1>11. CASE Crash
    <2>1. faults' = faults + 1 /\ pc' = "none"
        BY <1>11 DEF Crash, Fault
    <2>2. lost'[e] <= lost[e] + 1 /\ lost'[e] \in Nat
        <3>1. CASE pc \in {"yield", "process"}
            <4>1. hand \in Events /\ lost' = BumpBar(lost, hand)
                BY <1>0, <1>11, <3>1 DEF Crash, ThreadTypes
            <4> QED
                BY <1>0, <1>c, <1>d, <4>1, BumpTypes DEF CountTypes
        <3>2. CASE pc \notin {"yield", "process"}
            BY <1>11, <1>c, <3>2 DEF Crash
        <3> QED
            BY <3>1, <3>2
    <2> QED
        BY <1>b, <1>c, <2>1, <2>2
<1> QED
    BY <1>1, <1>2, <1>3, <1>4, <1>5, <1>6, <1>7, <1>8, <1>9, <1>10, <1>11, Zenon DEF Next, Source, Loop
-----------------------------------------------------------------------------
(* The turns of the lanes.                                                 *)

\* Every step keeps the streak a sample waits through within the burst count.
LEMMA StreakStep == ASSUME RuntimeInv, Next PROVE StreakIsCounted'
<1>0. /\ StreakIsCounted /\ Stopped /\ RestTypes /\ LaneTypes /\ ThreadTypes
    BY TypeParts DEF RuntimeInv
<1>a. /\ FirstLane(turn) \in Lanes /\ Order(turn)[1] \in Lanes /\ Order(turn)[2] \in Lanes
    BY <1>0, OrderFacts DEF RestTypes
<1>b. streak \in Nat /\ burst \in 0..BurstLimit - 1 /\ BurstLimit \in Nat \ {0}
    BY <1>0, RuntimeAssumption DEF RestTypes
<1>c. ASSUME streak' = 0, burst' \in 0..BurstLimit - 1 PROVE StreakIsCounted'
    <2>a. PICK n \in 0..BurstLimit - 1 : n = burst'
        BY <1>c
    <2>b. n >= 0 /\ n + 1 >= 0 /\ ~(0 > 0) /\ 0 < BurstLimit
        <3>1. BurstLimit \in Nat /\ BurstLimit # 0
            BY <1>b
        <3>2. n \in Int /\ n >= 0
            BY <2>a, <3>1
        <3> QED
            BY <3>1, <3>2
    <2>1. ~(streak' > 0) /\ streak' <= burst' /\ streak' <= burst' + 1 /\ streak' < BurstLimit
        BY <1>c, <2>a, <2>b
    <2> QED
        BY <2>1, Zenon DEF StreakIsCounted
<1>d. \A l \in Lanes : TakeSample(l) => streak' = 0
    BY DEF TakeSample
<1>e. burst' \in 0..BurstLimit - 1
    BY TypeStep, Zenon DEF TypeOK
<1> USE DEF barrier, queues, thread, stopping, turns, memory, listeners, counts, watch
<1>1. CASE Tick \/ BackfillEnds \/ (\E d \in Confirmed, complete \in BOOLEAN : OnConfirmed(d, complete))
           \/ PutConfirmed \/ Stop
    <2>1. UNCHANGED <<streak, lane, closed, pc, burst>>
        BY <1>1 DEF Tick, BackfillEnds, OnConfirmed, PutConfirmed, Stop
    <2> QED
        BY <1>0, <2>1 DEF StreakIsCounted, SampleWaits
<1>2. ASSUME NEW e \in Events \ Confirmed, OnSample(e) PROVE StreakIsCounted'
    <2>1. UNCHANGED <<streak, closed, pc, burst>>
        BY <1>2 DEF OnSample
    <2>2. SampleWaits'
        BY <1>0, <1>2, LanePut DEF OnSample
    <2> QED
        BY <1>0, <2>1, <2>2 DEF StreakIsCounted
<1>3. CASE Claim
    <2>1. /\ pc = "idle" /\ ~closed /\ pc' = "claimed" /\ UNCHANGED <<closed, burst, lane>>
          /\ streak' = IF SampleWaits THEN streak + 1 ELSE 0
        BY <1>3 DEF Claim
    <2>2. SampleWaits' <=> SampleWaits
        BY <2>1 DEF SampleWaits
    <2>3. streak <= burst
        BY <1>0, <2>1 DEF StreakIsCounted
    <2> QED
        BY <1>b, <2>1, <2>2, <2>3 DEF StreakIsCounted
<1>4. CASE Complete
    <2>1. pc = "claimed" /\ UNCHANGED <<closed, lane, streak>> /\ (SampleWaits' <=> SampleWaits)
        BY <1>4 DEF Complete, SampleWaits
    <2>2. CASE closed /\ pc' = "idle"
        BY <1>0, <2>1, <2>2 DEF StreakIsCounted
    <2>3. CASE ~closed /\ YieldDue /\ pc' = "yield"
        BY <1>0, <2>1, <2>3 DEF StreakIsCounted
    <2>4. CASE ~closed /\ ~YieldDue /\ pc' = "process" /\ burst' = IF burst + 1 < BurstLimit THEN burst + 1 ELSE 0
        <3>1. burst' = burst + 1 /\ streak <= burst + 1 /\ burst + 1 < BurstLimit
            BY <1>0, <1>b, <2>1, <2>4 DEF StreakIsCounted, YieldDue
        <3> QED
            BY <1>0, <1>b, <2>1, <2>4, <3>1 DEF StreakIsCounted
    <2> QED
        BY <1>4, <2>2, <2>3, <2>4 DEF Complete
<1>5. CASE Yield
    <2>1. streak' = 0
        BY <1>0, <1>5, <1>a, <1>b, <1>d DEF Yield, StreakIsCounted
    <2> QED
        BY <1>c, <1>e, <2>1
<1>6. CASE Poll
    <2>1. streak' = 0
        BY <1>0, <1>6, <1>a, <1>b, <1>d DEF Poll, StreakIsCounted
    <2> QED
        BY <1>c, <1>e, <2>1
<1>7. CASE Wait
    <2>1. CASE streak' = 0
        BY <1>c, <1>e, <2>1
    <2>2. CASE pc' = "idle" /\ UNCHANGED <<hand, lane, streak>>
        BY <1>0, <1>7, <2>2 DEF Wait, StreakIsCounted, SampleWaits
    <2> QED
        BY <1>7, <1>a, <1>d, <2>1, <2>2 DEF Wait
<1>8. CASE Process \/ ProcessRaises \/ Publish \/ LoopEnds
    <2>1. /\ UNCHANGED <<streak, lane, closed, burst>> /\ pc \in {"process", "publish", "idle"}
          /\ pc' \in {"idle", "publish", "none"}
        BY <1>8 DEF Process, ProcessRaises, Publish, LoopEnds
    <2>2. SampleWaits' <=> SampleWaits
        BY <2>1 DEF SampleWaits
    <2> QED
        BY <1>0, <2>1, <2>2 DEF StreakIsCounted
<1>9. CASE StopCloses
    BY <1>0, <1>9 DEF StopCloses, StreakIsCounted, SampleWaits
<1>10. CASE Start \/ Crash
    <2>1. streak' = 0
        BY <1>10 DEF Start, Crash
    <2> QED
        BY <1>c, <1>e, <2>1
<1> QED
    BY <1>1, <1>2, <1>3, <1>4, <1>5, <1>6, <1>7, <1>8, <1>9, <1>10, Zenon DEF Next, Source, Loop
-----------------------------------------------------------------------------
(* The intrabar coordinator.                                               *)

\* The votes counted from a sample on are finitely many, and one more sample
\* leaves them or adds itself.
LEMMA TallyFacts ==
    ASSUME votes \in Seq(Votes), NEW w \in Votes, votes' = Append(votes, w), NEW i \in 1 .. Len(votes) + 1, NEW v,
           Agree(i, v), w.dir = "hold" \/ w = v
    PROVE  /\ Agree(i, v)' /\ i \in 1 .. Len(votes') + 1
           /\ IsFiniteSet(VotesFor(i, v)) /\ IsFiniteSet(VotesFor(i, v)')
           /\ Cardinality(VotesFor(i, v)) \in Nat /\ Cardinality(VotesFor(i, v)') \in Nat
           /\ Cardinality(VotesFor(i, v)) <= Cardinality(VotesFor(i, v)')
           /\ w = v => Cardinality(VotesFor(i, v)') = Cardinality(VotesFor(i, v)) + 1
<1>1. /\ Len(votes) \in Nat /\ Len(votes') = Len(votes) + 1
      /\ \A j \in 1..Len(votes) : votes'[j] = votes[j]
      /\ votes'[Len(votes) + 1] = w
    BY AppendProperties
<1>2. \A j \in i..Len(votes') : j \in i..Len(votes) \/ j = Len(votes) + 1
    BY <1>1
<1>3. \A j \in i..Len(votes) : j \in 1..Len(votes) /\ j \in i..Len(votes') /\ votes'[j] = votes[j]
    BY <1>1
<1>4. Agree(i, v)'
    BY <1>1, <1>2, <1>3 DEF Agree
<1>5. IsFiniteSet(i..Len(votes)) /\ IsFiniteSet(i..Len(votes'))
    BY <1>1, FS_Interval
<1>6. IsFiniteSet(VotesFor(i, v)) /\ IsFiniteSet(VotesFor(i, v)')
    BY <1>5, FS_Subset DEF VotesFor
<1>7. VotesFor(i, v) \subseteq VotesFor(i, v)'
    BY <1>3 DEF VotesFor
<1>8. Cardinality(VotesFor(i, v)) <= Cardinality(VotesFor(i, v)')
    BY <1>6, <1>7, FS_Subset
<1>9. ASSUME w = v PROVE Cardinality(VotesFor(i, v)') = Cardinality(VotesFor(i, v)) + 1
    <2>1. VotesFor(i, v)' = VotesFor(i, v) \cup {Len(votes) + 1}
        BY <1>1, <1>2, <1>3, <1>9 DEF VotesFor
    <2>2. Len(votes) + 1 \notin VotesFor(i, v)
        BY <1>1 DEF VotesFor
    <2> QED
        BY <1>6, <2>1, <2>2, FS_AddElement
<1> QED
    BY <1>1, <1>4, <1>6, <1>8, <1>9, FS_CardinalityType

\* A sample of another direction or bar starts the count again.
LEMMA FirstVote ==
    ASSUME votes \in Seq(Votes), NEW w \in Votes, votes' = Append(votes, w)
    PROVE  \E i \in 1 .. Len(votes') + 1 : Agree(i, w)' /\ Cardinality(VotesFor(i, w)') = 1
<1>1. PICK n \in Nat \ {0} : n = Len(votes') /\ votes'[n] = w
    BY AppendProperties
<1>2. \A j : j \in n..Len(votes') <=> j = n
    BY <1>1
<1>3. VotesFor(n, w)' = {n}
    BY <1>1, <1>2 DEF VotesFor
<1>4. Cardinality({n}) = 1
    BY FS_Singleton
<1>5. Agree(n, w)'
    BY <1>1, <1>2 DEF Agree
<1>6. n \in 1 .. Len(votes') + 1
    BY <1>1
<1> QED
    BY <1>3, <1>4, <1>5, <1>6

\* The types a vote needs.
LEMMA VoteTypes ==
    ASSUME TypeOK, NEW e \in Events
    PROVE  /\ coord \in CoordType /\ coord.count \in Nat /\ coord.armed \in BOOLEAN /\ MinStable \in Nat \ {0}
           /\ votes \in Seq(Votes) /\ Len(votes) \in Nat /\ Vote(e) \in Votes
<1>1. coord \in CoordType /\ votes \in Seq(Votes)
    BY TypeParts DEF MemoryTypes
<1>2. coord.count \in Nat /\ coord.armed \in BOOLEAN
    BY <1>1, Zenon DEF CoordType
<1>3. Vote(e) \in Votes
    BY EventFacts DEF Vote, Votes
<1> QED
    BY <1>1, <1>2, <1>3, RuntimeAssumption

\* A hold changes nothing the coordinator counts.
LEMMA HoldFacts ==
    ASSUME TypeOK, VotesAgree, NEW e \in Events, e.dir = "hold", UNCHANGED coord, votes' = Append(votes, Vote(e))
    PROVE  VotesAgree'
<1>1. PICK i \in 1 .. Len(votes) + 1 : Agree(i, Tallied) /\ coord.count <= Cardinality(VotesFor(i, Tallied))
    BY DEF VotesAgree
<1>2. PICK v : v = Tallied
    OBVIOUS
<1>3. v = Tallied'
    BY <1>2 DEF Tallied
<1>4. Vote(e).dir = "hold" /\ Vote(e) \in Votes /\ votes \in Seq(Votes) /\ coord.count \in Nat
    BY VoteTypes DEF Vote
<1>5. /\ Agree(i, v)' /\ i \in 1 .. Len(votes') + 1
      /\ Cardinality(VotesFor(i, v)) \in Nat /\ Cardinality(VotesFor(i, v)') \in Nat
      /\ Cardinality(VotesFor(i, v)) <= Cardinality(VotesFor(i, v)')
    BY <1>1, <1>2, <1>4, TallyFacts
<1>6. coord'.count <= Cardinality(VotesFor(i, v)')
    BY <1>1, <1>2, <1>4, <1>5
<1> QED
    BY <1>3, <1>5, <1>6 DEF VotesAgree

\* One more vote, or the first of a run; a signal that arms is steady.
LEMMA VoteFacts ==
    ASSUME TypeOK, VotesAgree, NEW e \in Events, NEW confident \in BOOLEAN, coord' = Stability(e, confident),
           votes' = Append(votes, Vote(e))
    PROVE  VotesAgree' /\ (coord'.armed /\ ~coord.armed => Steady(e)')
<1>0. /\ coord \in CoordType /\ votes \in Seq(Votes) /\ MinStable \in Nat \ {0} /\ coord.count \in Nat
      /\ Len(votes) \in Nat /\ coord.armed \in BOOLEAN /\ Vote(e) \in Votes
    BY VoteTypes
<1>1. PICK w : w = Vote(e)
    OBVIOUS
<1>2. w = Vote(e)' /\ w \in Votes /\ votes' = Append(votes, w)
    BY <1>0, <1>1 DEF Vote
<1>4. CASE coord.bar # e.bar \/ coord.dir # e.dir
    <2>1. coord'.dir = e.dir /\ coord'.count = 1 /\ coord'.armed = FALSE /\ coord'.bar = e.bar
        BY <1>4 DEF Stability
    <2>2. w = Tallied'
        BY <1>1, <2>1 DEF Tallied, Vote
    <2>3. PICK i \in 1 .. Len(votes') + 1 : Agree(i, w)' /\ Cardinality(VotesFor(i, w)') = 1
        BY <1>0, <1>2, FirstVote
    <2>4. VotesAgree'
        BY <2>1, <2>2, <2>3 DEF VotesAgree
    <2> QED
        BY <2>1, <2>4
<1>5. CASE coord.bar = e.bar /\ coord.dir = e.dir
    <2>1. PICK a \in BOOLEAN : a = (coord.armed \/ (coord.count + 1 >= MinStable /\ confident))
        OBVIOUS
    <2>2. coord' = [coord EXCEPT !.count = coord.count + 1, !.armed = a]
        BY <1>5, <2>1, Zenon DEF Stability
    <2>3. coord'.dir = coord.dir /\ coord'.bar = coord.bar /\ coord'.count = coord.count + 1 /\ coord'.armed = a
        BY <1>0, <2>2, Zenon DEF CoordType
    <2>4. w = Tallied /\ w = Tallied'
        BY <1>1, <1>5, <2>3 DEF Tallied, Vote
    <2>5. PICK i \in 1 .. Len(votes) + 1 : Agree(i, Tallied) /\ coord.count <= Cardinality(VotesFor(i, Tallied))
        BY DEF VotesAgree
    <2>6. /\ Agree(i, w)' /\ i \in 1 .. Len(votes') + 1
          /\ Cardinality(VotesFor(i, w)) \in Nat /\ Cardinality(VotesFor(i, w)') \in Nat
          /\ Cardinality(VotesFor(i, w)') = Cardinality(VotesFor(i, w)) + 1
        BY <1>0, <1>2, <2>4, <2>5, TallyFacts
    <2>7. coord'.count <= Cardinality(VotesFor(i, w)')
        BY <1>0, <2>3, <2>4, <2>5, <2>6
    <2>8. VotesAgree'
        BY <2>4, <2>6, <2>7 DEF VotesAgree
    <2>9. ASSUME coord'.armed, ~coord.armed PROVE Steady(e)'
        <3>1. coord.count + 1 >= MinStable
            BY <2>1, <2>3, <2>9, Zenon
        <3>2. Cardinality(VotesFor(i, w)') >= MinStable
            BY <1>0, <2>3, <2>6, <2>7, <3>1
        <3>3. i \in 1 .. Len(votes')
            BY <1>0, <1>2, <2>5, AppendProperties
        <3> QED
            BY <1>2, <2>6, <3>2, <3>3 DEF Steady
    <2> QED
        BY <2>8, <2>9
<1> QED
    BY <1>4, <1>5

\* Every step keeps the votes of an armed signal in agreement.
LEMMA ArmedStep == ASSUME RuntimeInv, Next PROVE VotesAgree' /\ ArmedIsSteady'
<1>0. /\ VotesAgree /\ ArmedIsSteady /\ TypeOK /\ ThreadTypes /\ MemoryTypes
    BY TypeParts DEF RuntimeInv
<1> USE DEF barrier, queues, thread, stopping, turns, memory, listeners, counts, watch
<1>1. CASE /\ UNCHANGED <<coord, votes, heard>>
           /\ pc' # "publish" \/ UNCHANGED <<pc, hand, out>>
    BY <1>0, <1>1 DEF VotesAgree, ArmedIsSteady, ArmedIsStable, Steady, Agree, VotesFor, Tallied, Vote
<1>2. CASE Crash
    <2>1. VotesAgree'
        <3>1. coord'.count = 0 /\ votes' = <<>> /\ Len(votes') = 0
            BY <1>2, EmptySeq DEF Crash, NoStability
        <3>2. VotesFor(1, Tallied)' = {} /\ Agree(1, Tallied)'
            BY <3>1 DEF VotesFor, Agree
        <3>3. Cardinality({}) = 0
            BY FS_EmptySet
        <3>4. 1 \in 1 .. Len(votes') + 1
            BY <3>1
        <3>c. Cardinality(VotesFor(1, Tallied)') = 0
            BY <3>2, <3>3, Zenon
        <3>5. coord'.count <= Cardinality(VotesFor(1, Tallied)')
            BY <3>1, <3>c
        <3> QED
            BY <3>2, <3>4, <3>5, Zenon DEF VotesAgree
    <2> QED
        BY <1>0, <1>2, <2>1 DEF Crash, ArmedIsSteady, ArmedIsStable
<1>3. CASE Publish
    <2>1. UNCHANGED <<coord, votes>> /\ pc' = "idle"
        BY <1>3 DEF Publish
    <2>2. ArmedIsStable'
        <3>1. CASE UNCHANGED heard
            BY <1>0, <3>1 DEF ArmedIsSteady, ArmedIsStable
        <3>2. CASE out.state \in Armed /\ heard' = [state |-> out.state, steady |-> Steady(hand)]
            <4>1. heard'.steady <=> Steady(hand)
                BY <3>2
            <4>2. Steady(hand)
                BY <1>0, <1>3, <3>2 DEF Publish, ArmedIsSteady
            <4> QED
                BY <4>1, <4>2, Zenon DEF ArmedIsStable
        <3> QED
            BY <1>3, <3>1, <3>2 DEF Publish
    <2> QED
        BY <1>0, <2>1, <2>2 DEF VotesAgree, ArmedIsSteady, Agree, VotesFor, Tallied
<1>4. CASE Process
    <2>0. /\ hand \in Events /\ UNCHANGED heard /\ pc = "process" /\ out = None
          /\ hand' = (IF out' = None THEN None ELSE hand)
          /\ pc' = IF out' = None THEN "idle" ELSE "publish"
        BY <1>0, <1>4 DEF Process, ThreadTypes
    <2>a. ArmedIsStable'
        BY <1>0, <2>0 DEF ArmedIsSteady, ArmedIsStable
    <2>b. Signal(hand) # None /\ Signal(hand).state = StateName(hand)
        BY <2>0, SignalFacts, RuntimeAssumption DEF Signal
    <2>c. StateName(hand) \in Armed => hand.scope = "intrabar"
        BY <2>0, SignalFacts
    <2>1. CASE UNCHANGED <<coord, votes>> /\ out' \in {None, Signal(hand)} /\ hand.scope # "intrabar"
        BY <1>0, <2>0, <2>1, <2>a, <2>b, <2>c DEF VotesAgree, ArmedIsSteady, Agree, VotesFor, Tallied
    <2>2. CASE UNCHANGED <<coord, votes>> /\ out' = None
        BY <1>0, <2>0, <2>2, <2>a DEF VotesAgree, ArmedIsSteady, Agree, VotesFor, Tallied
    <2>3. ASSUME NEW confident \in BOOLEAN, coord' = Stability(hand, confident), votes' = Append(votes, Vote(hand)),
                 out' = IF coord'.armed /\ ~coord.armed THEN Signal(hand) ELSE None
          PROVE VotesAgree' /\ ArmedIsSteady'
        <3>1. VotesAgree' /\ (coord'.armed /\ ~coord.armed => Steady(hand)')
            <4>1. PICK e \in Events : e = hand
                BY <2>0
            <4>2. VotesAgree' /\ (coord'.armed /\ ~coord.armed => Steady(e)')
                BY <1>0, <2>3, <4>1, VoteFacts
            <4>3. coord'.armed /\ ~coord.armed => hand' = e
                BY <2>0, <2>3, <2>b, <4>1
            <4> QED
                BY <4>2, <4>3 DEF Steady, Vote, Agree, VotesFor
        <3>2. ASSUME pc' = "publish" PROVE Steady(hand)'
            BY <2>0, <2>3, <3>1, <3>2
        <3> QED
            BY <2>a, <3>1, <3>2 DEF ArmedIsSteady
    <2>h. ASSUME hand.dir = "hold", out' = None, UNCHANGED coord, votes' = Append(votes, Vote(hand))
          PROVE VotesAgree' /\ ArmedIsSteady'
        <3>1. VotesAgree'
            BY <1>0, <2>0, <2>h, HoldFacts
        <3> QED
            BY <2>0, <2>a, <2>h, <3>1 DEF ArmedIsSteady
    <2>4. ASSUME EvaluateConfirmed(hand) PROVE UNCHANGED <<coord, votes>> /\ out' \in {None, Signal(hand)}
        BY <2>4 DEF EvaluateConfirmed
    <2>5. ASSUME EvaluateTick(hand) PROVE UNCHANGED <<coord, votes>> /\ out' \in {None, Signal(hand)}
        BY <2>5 DEF EvaluateTick
    <2>6. ASSUME NEW confident \in BOOLEAN, EvaluateIntrabar(hand, confident) PROVE VotesAgree' /\ ArmedIsSteady'
        BY <2>3, <2>6, <2>h, Zenon DEF EvaluateIntrabar
    <2>7. CASE UNCHANGED <<memory, saved, out, votes, faults>>
        BY <2>0, <2>2, <2>7
    <2> QED
        BY <1>4, <2>1, <2>4, <2>5, <2>6, <2>7 DEF Process
<1>5. CASE Tick \/ BackfillEnds \/ (\E d \in Confirmed, complete \in BOOLEAN : OnConfirmed(d, complete))
           \/ (\E d \in Events \ Confirmed : OnSample(d)) \/ PutConfirmed \/ Stop \/ StopCloses
    BY <1>1, <1>5 DEF Tick, BackfillEnds, OnConfirmed, OnSample, PutConfirmed, Stop, StopCloses
<1>6. CASE Claim \/ Complete \/ LoopEnds \/ Start
    BY <1>1, <1>6 DEF Claim, Complete, LoopEnds, Start
<1>7. CASE Yield \/ Poll \/ Wait \/ ProcessRaises
    BY <1>1, <1>7 DEF Yield, Poll, Wait, TakeSample, ProcessRaises
<1> QED
    BY <1>2, <1>3, <1>4, <1>5, <1>6, <1>7, Zenon DEF Next, Source, Loop
-----------------------------------------------------------------------------
(* The theorems.                                                           *)

\* The inductive invariant holds in every reachable state.
LEMMA RuntimeInvariant == Spec => []RuntimeInv
<1>1. RuntimeInv /\ [Next]_vars => RuntimeInv'
    <2> SUFFICES ASSUME RuntimeInv, [Next]_vars PROVE RuntimeInv'
        OBVIOUS
    <2>1. CASE Next
        BY <2>1, TypeStep, ClaimStep, BalanceStep, LossStep, StreakStep, ArmedStep, Zenon DEF RuntimeInv
    <2>2. CASE UNCHANGED vars
        <3> USE DEF vars, barrier, queues, thread, stopping, turns, memory, listeners, counts, watch
        <3>1. TypeOK' /\ OneClaim' /\ Stopped'
            BY <2>2 DEF RuntimeInv, TypeOK, OneClaim, Stopped
        <3>2. Balance' /\ LossesHaveFaults' /\ StreakIsCounted'
            BY <2>2 DEF RuntimeInv, Balance, Held, Queued, LossesHaveFaults, StreakIsCounted, SampleWaits
        <3>3. VotesAgree' /\ ArmedIsSteady'
            BY <2>2 DEF RuntimeInv, VotesAgree, ArmedIsSteady, ArmedIsStable, Steady, Agree, VotesFor, Tallied, Vote
        <3> QED
            BY <3>1, <3>2, <3>3 DEF RuntimeInv
    <2> QED
        BY <2>1, <2>2
<1> QED
    BY <1>1, InitInv, PTL DEF Spec

\* No bar close disappears between the listener and the loop, whatever the
\* interleaving of claims, put-backs, stops that time out, restarts and crashes;
\* losses are at most the faults (wal_queue.py, runtime_processing.py).
THEOREM BarClosesAreKept == Spec => []NothingLost
<1>1. RuntimeInv => NothingLost
    BY Zenon DEF RuntimeInv, NothingLost, Balance, LossesHaveFaults, Queued, Held
<1> QED
    BY <1>1, RuntimeInvariant, PTL

\* The burst limit bounds how long a waiting sample is passed over
\* (runtime_processing.py dequeue_event).
THEOREM LanesAreFair == Spec => []SamplesNotStarved
<1>1. RuntimeInv => SamplesNotStarved
    BY DEF RuntimeInv, SamplesNotStarved, StreakIsCounted
<1> QED
    BY <1>1, RuntimeInvariant, PTL

\* An armed signal was preceded by MinStable samples of its bar and direction
\* with only holds among and after them, for any stability required and any
\* order of samples (intrabar_trade_coordinator.py update).
THEOREM ArmedAfterAgreement == Spec => []ArmedIsStable
<1>1. RuntimeInv => ArmedIsStable
    BY DEF RuntimeInv, ArmedIsSteady
<1> QED
    BY <1>1, RuntimeInvariant, PTL
=============================================================================
