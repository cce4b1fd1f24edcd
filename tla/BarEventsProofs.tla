---------------------------- MODULE BarEventsProofs ----------------------------
(***************************************************************************)
(* Proofs about the bar-close pipeline, for any number of bars, queue      *)
(* capacity, claim limit, retries and faults.                              *)
(***************************************************************************)
EXTENDS BarEvents, FiniteSetTheorems, SequenceTheorems, TLAPS

-----------------------------------------------------------------------------
(* The parts of the inductive invariant.                                   *)

\* Events are about bars the market has closed.
BarsAreClosed ==
    /\ \A b \in Bars : row[b] # "none" \/ published[b] > 0 => b <= newest
    /\ \A i \in DOMAIN writeQ : writeQ[i] <= newest
    /\ \A i \in DOMAIN wbatch : wbatch[i] <= newest
    /\ \A i \in DOMAIN batch : batch[i] <= newest
    /\ \A i \in DOMAIN group : group[i] <= newest

\* The loop has a batch in hand only while it works through one.
Working == {"window", "each", "publish", "mark", "fail"}
HandsEmpty == pc \notin Working \cup {"failAll"} => batch = <<>> /\ group = <<>>

\* The listeners were given the bar, or there was nothing to give them.
Given(b) == published[b] > 0 \/ b \in blank \cup mute

\* What is left of a batch is claimed, none of it twice, and part of the group;
\* an event about to be completed has been given to the listeners.
BatchIsClaimed ==
    pc \in Working =>
        /\ \A i \in DOMAIN batch : row[batch[i]] = "processing"
        /\ \A i, j \in DOMAIN batch : batch[i] = batch[j] => i = j
        /\ ToSet(batch) \subseteq ToSet(group)
        /\ pc = "mark" => Given(Head(batch))

\* Announcements of a bar that are on their way to the store.
Copies(q, b) == Cardinality({i \in DOMAIN q : q[i] = b})

\* A bar will be published again, as far as the store and the batch tell.
Owed(b) ==
    IF \/ row[b] = "pending"
       \/ row[b] = "processing" /\ ~(pc = "mark" /\ b = Head(batch))
       \/ pc = "failAll" /\ b \in ToSet(batch)
    THEN 1 ELSE 0

\* Snapshots, announcements and what is owed: only a fault adds to them.
Accounted ==
    \A b \in Bars :
        published[b] + Copies(writeQ, b) + Copies(wbatch, b) + Owed(b) <= 1 + faults

\* The statements StatusesAreTrue adds to the types.
CompletedIsPublished == \A b \in Bars : row[b] = "completed" => Given(b)
ProcessingIsInHand ==
    pc # "none" => \A b \in Bars : row[b] = "processing" => b \in ToSet(batch)
FailedIsTired == \A b \in Bars : row[b] = "failed" => tries[b] >= MaxRetries
MuteIsFaulty == Cardinality(mute) <= faults

\* The part of the types about the cache and what is shown.
ShownTypes ==
    /\ top \in 0..newest /\ depth \in 0..Lookback /\ results \in 0..newest /\ last \in 0..newest
    /\ rbar \in 0..newest /\ qbar \in 0..newest /\ blank \subseteq 1..newest /\ mute \subseteq Bars

BarsInv ==
    /\ TypeOK /\ CompletedIsPublished /\ ProcessingIsInHand /\ FailedIsTired /\ MuteIsFaulty
    /\ BarsAreClosed /\ HandsEmpty /\ BatchIsClaimed /\ Accounted
-----------------------------------------------------------------------------
(* Sequences: heads, tails and counting.                                   *)

\* A queue without its head: the same elements but the first.
LEMMA TailFacts ==
    ASSUME NEW S, NEW q \in Seq(S), q # <<>>
    PROVE  /\ Head(q) = q[1] /\ 1 \in DOMAIN q /\ Head(q) \in S
           /\ Tail(q) \in Seq(S) /\ ToSet(q) = {Head(q)} \cup ToSet(Tail(q))
           /\ \A i \in DOMAIN Tail(q) : i \in Nat /\ i + 1 \in DOMAIN q /\ Tail(q)[i] = q[i + 1]
<1>1. Len(q) \in Nat /\ DOMAIN q = 1..Len(q) /\ Len(q) # 0 /\ Head(q) = q[1]
    OBVIOUS
<1>2. Tail(q) \in Seq(S) /\ Len(Tail(q)) = Len(q) - 1
    BY <1>1
<1>3. DOMAIN Tail(q) = 1..(Len(q) - 1)
    BY <1>1, <1>2
<1>4. \A i \in 1..(Len(q) - 1) : Tail(q)[i] = q[i + 1]
    BY <1>1
<1>5. q[1] \in S
    BY <1>1
<1>6. ToSet(q) = {Head(q)} \cup ToSet(Tail(q))
    <2>1. ASSUME NEW x \in ToSet(q) PROVE x \in {Head(q)} \cup ToSet(Tail(q))
        <3>1. PICK i \in DOMAIN q : x = q[i]
            BY <2>1 DEF ToSet
        <3>2. CASE i = 1
            BY <1>1, <3>1, <3>2
        <3>3. CASE i # 1
            <4>1. i - 1 \in 1..(Len(q) - 1) /\ (i - 1) + 1 = i
                BY <1>1, <3>3
            <4> QED
                BY <1>3, <1>4, <3>1, <4>1 DEF ToSet
        <3> QED
            BY <3>2, <3>3
    <2>2. ASSUME NEW x \in ToSet(Tail(q)) PROVE x \in ToSet(q)
        <3>1. PICK i \in DOMAIN Tail(q) : x = Tail(q)[i]
            BY <2>2 DEF ToSet
        <3>2. i + 1 \in DOMAIN q /\ x = q[i + 1]
            BY <1>1, <1>3, <1>4, <3>1
        <3> QED
            BY <3>2 DEF ToSet
    <2>3. Head(q) \in ToSet(q)
        BY <1>1 DEF ToSet
    <2> QED
        BY <2>1, <2>2, <2>3
<1> QED
    BY <1>1, <1>2, <1>3, <1>4, <1>5, <1>6

\* The announcements of a bar in a queue are finitely many.
LEMMA CopiesFinite ==
    ASSUME NEW S, NEW q \in Seq(S), NEW b
    PROVE  /\ IsFiniteSet({i \in DOMAIN q : q[i] = b}) /\ Copies(q, b) \in Nat
           /\ b \in ToSet(q) => Copies(q, b) >= 1
           /\ b \notin ToSet(q) => Copies(q, b) = 0
<1> DEFINE C == {i \in DOMAIN q : q[i] = b}
<1>1. IsFiniteSet(1..Len(q)) /\ C \in SUBSET (1..Len(q))
    BY FS_Interval
<1>2. IsFiniteSet(C)
    BY <1>1, FS_Subset, Zenon
<1>3. Cardinality(C) \in Nat /\ (Cardinality(C) = 0 <=> C = {})
    BY <1>2, FS_CardinalityType, FS_EmptySet
<1>4. b \in ToSet(q) <=> C # {}
    BY DEF ToSet
<1> QED
    BY <1>2, <1>3, <1>4 DEF Copies

\* Appending an element adds one copy of it.
LEMMA CopiesAppend ==
    ASSUME NEW S, NEW q \in Seq(S), NEW x \in S, NEW b
    PROVE  Copies(Append(q, x), b) = Copies(q, b) + (IF x = b THEN 1 ELSE 0)
<1> DEFINE C == {i \in DOMAIN q : q[i] = b}
           D == {i \in DOMAIN Append(q, x) : Append(q, x)[i] = b}
<1>1. IsFiniteSet(C) /\ Cardinality(C) \in Nat /\ Cardinality(C) = Copies(q, b)
    BY CopiesFinite DEF Copies
<1>2. /\ Len(q) \in Nat /\ DOMAIN q = 1..Len(q) /\ DOMAIN Append(q, x) = 1..(Len(q) + 1)
      /\ \A i \in 1..Len(q) : Append(q, x)[i] = q[i]
      /\ Append(q, x)[Len(q) + 1] = x
    OBVIOUS
<1>3. D = IF x = b THEN C \cup {Len(q) + 1} ELSE C
    <2>1. DOMAIN Append(q, x) = DOMAIN q \cup {Len(q) + 1}
        BY <1>2
    <2>2. \A i \in DOMAIN q : Append(q, x)[i] = q[i]
        BY <1>2
    <2>3. \A i : i \in D <=> i \in C \/ (i = Len(q) + 1 /\ x = b)
        BY <1>2, <2>1, <2>2
    <2> QED
        BY <2>3
<1>4. Len(q) + 1 \notin C
    BY <1>2
<1>5. Cardinality(C \cup {Len(q) + 1}) = Cardinality(C) + 1
    BY <1>1, <1>4, FS_AddElement
<1>6. Copies(Append(q, x), b) = Cardinality(D)
    BY DEF Copies
<1> HIDE DEF C, D
<1>7. CASE x = b
    BY <1>1, <1>3, <1>5, <1>6, <1>7
<1>8. CASE x # b
    BY <1>1, <1>3, <1>6, <1>8
<1> QED
    BY <1>7, <1>8

\* The empty queue holds no copy.
LEMMA CopiesEmpty == \A b : Copies(<<>>, b) = 0
<1> SUFFICES ASSUME NEW b PROVE Copies(<<>>, b) = 0
    OBVIOUS
<1>1. {i \in DOMAIN <<>> : <<>>[i] = b} = {}
    OBVIOUS
<1> QED
    BY <1>1, FS_EmptySet DEF Copies

-----------------------------------------------------------------------------
(* The inductive argument: initial states, then one step per action.       *)

\* The first state satisfies the inductive invariant.
LEMMA BarsInit == Init => BarsInv
<1> SUFFICES ASSUME Init PROVE BarsInv
    OBVIOUS
<1> USE BarsAssumption DEF Init
<1>1. TypeOK
    <2>1. newest \in 0..MaxBar /\ faults \in 0..MaxFaults /\ depth \in 0..Lookback /\ top \in 0..newest
          /\ results \in 0..newest /\ last \in 0..newest /\ rbar \in 0..newest /\ qbar \in 0..newest
          /\ blank \subseteq 1..newest /\ mute \subseteq Bars
        OBVIOUS
    <2>2. writeQ \in Seq(Bars) /\ Len(writeQ) <= QueueCap /\ wbatch \in Seq(Bars)
          /\ batch \in Seq(Bars) /\ group \in Seq(Bars)
        OBVIOUS
    <2>3. /\ row \in [Bars -> {"none", "pending", "processing"} \cup Settled]
          /\ tries \in [Bars -> Nat] /\ published \in [Bars -> Nat]
        OBVIOUS
    <2> QED
        BY <2>1, <2>2, <2>3 DEF TypeOK
<1>2. CompletedIsPublished /\ ProcessingIsInHand /\ BarsAreClosed /\ HandsEmpty /\ BatchIsClaimed
    BY <1>1 DEF CompletedIsPublished, ProcessingIsInHand, BarsAreClosed, HandsEmpty, BatchIsClaimed, Working
<1>3. \A b \in Bars : Copies(writeQ, b) = 0 /\ Copies(wbatch, b) = 0 /\ Owed(b) = 0
    BY CopiesEmpty DEF Owed
<1>4. Accounted
    BY <1>3 DEF Accounted
<1>5. FailedIsTired /\ MuteIsFaulty
    BY FS_EmptySet DEF FailedIsTired, MuteIsFaulty
<1> QED
    BY <1>1, <1>2, <1>4, <1>5 DEF BarsInv

\* Every action keeps the types, is about closed bars and leaves the batch
\* empty outside the work on it.
Shape == TypeOK /\ BarsAreClosed /\ HandsEmpty

\* Announcing a bar leaves the write queue within its capacity.
LEMMA AnnounceShape ==
    ASSUME TypeOK, NEW b \in Bars, Announce(b)
    PROVE  /\ writeQ' \in Seq(Bars) /\ Len(writeQ') <= QueueCap
           /\ \A i \in DOMAIN writeQ' : writeQ'[i] = b \/ (i \in DOMAIN writeQ /\ writeQ'[i] = writeQ[i])
<1>1. CASE writeQ' = writeQ
    BY <1>1 DEF TypeOK
<1>2. CASE writeQ' = Append(writeQ, b) /\ Len(writeQ) < QueueCap
    <2>1. /\ writeQ \in Seq(Bars) /\ Len(writeQ) \in Nat /\ QueueCap \in Nat
          /\ DOMAIN writeQ = 1..Len(writeQ)
        BY BarsAssumption DEF TypeOK
    <2>2. /\ Append(writeQ, b) \in Seq(Bars) /\ Len(Append(writeQ, b)) = Len(writeQ) + 1
          /\ DOMAIN Append(writeQ, b) = 1..(Len(writeQ) + 1)
          /\ \A i \in 1..Len(writeQ) : Append(writeQ, b)[i] = writeQ[i]
          /\ Append(writeQ, b)[Len(writeQ) + 1] = b
        BY <2>1
    <2> QED
        BY <1>2, <2>1, <2>2
<1> QED
    BY <1>1, <1>2 DEF Announce

\* Faults stay within their bound.
LEMMA FaultBound ==
    ASSUME TypeOK, Fault \/ UNCHANGED faults
    PROVE  faults' \in 0..MaxFaults
BY BarsAssumption DEF Fault, TypeOK

\* The newer of two bars is a closed bar.
LEMMA CacheTop ==
    ASSUME TypeOK, NEW b \in 0..newest, top' = (IF top < b THEN b ELSE top)
    PROVE  top' \in 0..newest
BY DEF TypeOK

\* Every step keeps the types of the cache and of what is shown.
LEMMA ShownStep == BarsInv /\ [Next]_vars => ShownTypes'
<1> SUFFICES ASSUME BarsInv, [Next]_vars PROVE ShownTypes'
    OBVIOUS
<1> USE BarsAssumption DEF vars, market, cache, shown, told, loop
<1>1. ShownTypes /\ newest \in Nat /\ Lookback \in Nat /\ TypeOK /\ BarsAreClosed
    <2>1. TypeOK /\ BarsAreClosed
        BY DEF BarsInv
    <2>2. ShownTypes
        BY <2>1 DEF TypeOK, ShownTypes
    <2>3. newest \in Nat
        BY <2>1 DEF TypeOK
    <2> QED
        BY <2>1, <2>2, <2>3
<1>2. ASSUME UNCHANGED <<market, cache, shown, rbar, qbar, mute>> PROVE ShownTypes'
    BY <1>1, <1>2 DEF ShownTypes
<1>3. CASE \/ UNCHANGED vars \/ WriterTakes \/ WriterFlushes \/ WriterEnds \/ Claim \/ Each \/ MarkCompleted
           \/ Fail \/ FailAll \/ EndBatch \/ Cleanup \/ NextIteration \/ LoopEnds \/ Stop \/ StopDetaches \/ Start
    BY <1>2, <1>3 DEF WriterTakes, WriterFlushes, WriterEnds, Claim, Each, MarkCompleted, Fail, FailAll,
       EndBatch, Cleanup, NextIteration, LoopEnds, Stop, StopDetaches, Start
<1>4. CASE CloseBar
    <2>1. newest' = newest + 1 /\ 0..newest \subseteq 0..newest' /\ newest + 1 \in 0..newest' /\ newest + 1 \in 1..newest'
          /\ 1..newest \subseteq 1..newest'
        BY <1>1, <1>4 DEF CloseBar
    <2>2. top' \in {top, newest + 1} /\ depth' \in 0..Lookback
        BY <1>1, <1>4 DEF CloseBar, CacheBar, ShownTypes
    <2>3. blank' \subseteq 1..newest'
        BY <1>1, <1>4, <2>1 DEF CloseBar, ShownTypes
    <2> QED
        BY <1>1, <1>4, <2>1, <2>2, <2>3 DEF CloseBar, ShownTypes
<1>5. ASSUME NEW b \in Bars, Reannounce(b) PROVE ShownTypes'
    <2>1. b \in 0..newest
        BY <1>1, <1>5 DEF Reannounce, Bars
    <2>2. top' \in 0..newest /\ depth' \in 0..Lookback
        BY <1>1, <1>5, <2>1, CacheTop DEF Reannounce, CacheBar, ShownTypes
    <2> QED
        BY <1>1, <1>5, <2>2 DEF Reannounce, ShownTypes
<1>6. CASE Window
    <2>1. \A b \in ToSet(group) : b \in 0..newest
        <3>1. \A i \in DOMAIN group : group[i] \in Bars
            BY <1>1 DEF TypeOK
        <3> QED
            BY <1>1, <3>1 DEF BarsAreClosed, ToSet, Bars
    <2>2. CASE UNCHANGED cache
        BY <1>2, <1>6, <2>2 DEF Window
    <2>3. ASSUME NEW b \in ToSet(group), depth' = Lookback, top' = (IF top < b THEN b ELSE top)
          PROVE  ShownTypes'
        <3>1. top' \in 0..newest
            BY <1>1, <2>1, <2>3, CacheTop
        <3> QED
            BY <1>1, <1>6, <2>3, <3>1 DEF Window, ShownTypes
    <2> QED
        BY <1>6, <2>2, <2>3 DEF Window
<1>7. CASE WriteBack
    <2>1. Head(batch) \in Bars /\ Head(batch) \in 0..newest
        <3>1. batch # <<>> /\ batch \in Seq(Bars)
            BY <1>1, <1>7 DEF TypeOK, WriteBack
        <3>2. Head(batch) = batch[1] /\ 1 \in DOMAIN batch /\ Head(batch) \in Bars
            BY <3>1, TailFacts
        <3> QED
            BY <1>1, <3>2 DEF BarsAreClosed, Bars
    <2>2. /\ results' \in {results, Head(batch)} /\ last' \in {last, Head(batch)}
          /\ mute' \subseteq mute \cup {Head(batch)}
        BY <1>7 DEF WriteBack
    <2> QED
        BY <1>1, <1>7, <2>1, <2>2 DEF WriteBack, ShownTypes
<1>8. ASSUME NEW b \in Bars, LoadClosed(b)
      PROVE  b \in 0..newest /\ top' \in 0..newest /\ depth' \in 0..Lookback
    <2>1. CASE depth >= Lookback /\ b = top /\ UNCHANGED cache
        BY <1>1, <2>1 DEF ShownTypes
    <2>2. CASE depth < Lookback /\ b \in top..newest /\ b > 0 /\ top' = b /\ depth' \in {depth, Lookback}
        BY <1>1, <2>2 DEF ShownTypes
    <2> QED
        BY <1>8, <2>1, <2>2 DEF LoadClosed
<1>9. ASSUME NEW b \in 0..newest, ShowClosed(b)
      PROVE  results' \in 0..newest /\ last' \in 0..newest
    <2>1. results' \in {results, b} /\ last' \in {last, b}
        BY <1>9 DEF ShowClosed
    <2> QED
        BY <1>1, <2>1 DEF ShownTypes
<1>10. CASE ReconcileLoads
    BY <1>1, <1>8, <1>10 DEF ReconcileLoads, ShownTypes
<1>11. CASE ReconcileWrites
    BY <1>1, <1>9, <1>11 DEF ReconcileWrites, ShownTypes
<1>12. CASE QueryLoads
    BY <1>1, <1>8, <1>12 DEF QueryLoads, ShownTypes
<1>13. CASE QueryWrites
    BY <1>1, <1>9, <1>13 DEF QueryWrites, ShownTypes
<1>14. CASE Crash
    BY <1>1, <1>14 DEF Crash, ShownTypes
<1> QED
    BY <1>3, <1>4, <1>5, <1>6, <1>7, <1>10, <1>11, <1>12, <1>13, <1>14 DEF Next, Writer, EventLoop

\* Every step keeps the types, the queues and the empty hands.
LEMMA ShapeStep == BarsInv /\ [Next]_vars => Shape'
<1> SUFFICES ASSUME BarsInv, [Next]_vars PROVE Shape'
    OBVIOUS
<1> USE BarsAssumption DEF vars, market, cache, store, writer, loop, shown, life, told, Settled, ShownTypes
<1>0. ShownTypes'
    BY ShownStep
<1>1. TypeOK /\ BarsAreClosed /\ HandsEmpty
    BY DEF BarsInv
<1>2. /\ batch # <<>> => /\ Head(batch) \in Bars /\ Head(batch) <= newest
                         /\ Tail(batch) \in Seq(Bars)
                         /\ \A i \in DOMAIN Tail(batch) : Tail(batch)[i] <= newest
      /\ newest \in Nat
    BY <1>1, TailFacts DEF TypeOK, BarsAreClosed
<1>3. CASE UNCHANGED vars
    BY <1>0, <1>1, <1>3 DEF Shape, TypeOK, BarsAreClosed, HandsEmpty
<1>4. CASE CloseBar
    <2>1. /\ newest + 1 \in Bars /\ newest' \in 0..MaxBar /\ newest' = newest + 1
        BY <1>1, <1>4 DEF CloseBar, TypeOK, Bars
    <2>2. writeQ' \in Seq(Bars) /\ Len(writeQ') <= QueueCap
          /\ \A i \in DOMAIN writeQ' : writeQ'[i] = newest + 1 \/ (i \in DOMAIN writeQ /\ writeQ'[i] = writeQ[i])
        BY <1>1, <1>4, <2>1, AnnounceShape DEF CloseBar
    <2>3. TypeOK'
        BY <1>0, <1>1, <1>4, <2>1, <2>2 DEF TypeOK, CloseBar
    <2>4. BarsAreClosed'
        <3>1. /\ \A b \in Bars : b \in Int
              /\ row' = row /\ published' = published /\ wbatch' = wbatch /\ batch' = batch /\ group' = group
            BY <1>4 DEF CloseBar, Bars
        <3>2. /\ \A i \in DOMAIN writeQ : writeQ[i] \in Int
              /\ \A i \in DOMAIN wbatch : wbatch[i] \in Int
              /\ \A i \in DOMAIN batch : batch[i] \in Int
              /\ \A i \in DOMAIN group : group[i] \in Int
            <4>1. \A q \in Seq(Bars) : \A i \in DOMAIN q : q[i] \in Int
                BY <3>1
            <4> QED
                BY <1>1, <4>1 DEF TypeOK
        <3>3. \A b \in Int : b <= newest => b <= newest + 1
            BY <1>2
        <3>4. \A b \in Bars : row'[b] # "none" \/ published'[b] > 0 => b <= newest'
            BY <1>1, <2>1, <3>1, <3>3 DEF BarsAreClosed
        <3>5. \A i \in DOMAIN writeQ' : writeQ'[i] <= newest'
            BY <1>1, <1>2, <2>1, <2>2, <3>2, <3>3 DEF BarsAreClosed
        <3>6. /\ \A i \in DOMAIN wbatch' : wbatch'[i] <= newest'
              /\ \A i \in DOMAIN batch' : batch'[i] <= newest'
              /\ \A i \in DOMAIN group' : group'[i] <= newest'
            BY <1>1, <2>1, <3>1, <3>2, <3>3 DEF BarsAreClosed
        <3> QED
            BY <3>4, <3>5, <3>6 DEF BarsAreClosed
    <2>5. HandsEmpty'
        BY <1>1, <1>4 DEF HandsEmpty, CloseBar
    <2> QED
        BY <2>3, <2>4, <2>5 DEF Shape
<1>5. ASSUME NEW b \in Bars, Reannounce(b) PROVE Shape'
    <2>1. b <= newest /\ faults' \in 0..MaxFaults
        BY <1>1, <1>5 DEF Reannounce, Fault, TypeOK
    <2>2. writeQ' \in Seq(Bars) /\ Len(writeQ') <= QueueCap
          /\ \A i \in DOMAIN writeQ' : writeQ'[i] = b \/ (i \in DOMAIN writeQ /\ writeQ'[i] = writeQ[i])
        BY <1>1, <1>5, AnnounceShape DEF Reannounce
    <2> QED
        BY <1>0, <1>1, <1>5, <2>1, <2>2 DEF Shape, TypeOK, BarsAreClosed, HandsEmpty, Reannounce
<1>6. CASE WriterTakes
    BY <1>0, <1>1, <1>6 DEF Shape, TypeOK, BarsAreClosed, HandsEmpty, WriterTakes
<1>7. CASE WriterFlushes
    <2>1. /\ row' \in [Bars -> {"none", "pending", "processing"} \cup Settled]
          /\ \A b \in Bars : row'[b] # "none" => row[b] # "none" \/ b \in ToSet(wbatch)
        BY <1>1, <1>7 DEF WriterFlushes, TypeOK
    <2>a. faults' \in 0..MaxFaults
        BY <1>1, <1>7, FaultBound DEF WriterFlushes
    <2>2. \A b \in ToSet(wbatch) : b <= newest
        BY <1>1 DEF ToSet, BarsAreClosed
    <2>3. TypeOK'
        BY <1>0, <1>1, <1>7, <2>1, <2>a DEF TypeOK, WriterFlushes
    <2>4. BarsAreClosed'
        BY <1>1, <1>7, <2>1, <2>2 DEF BarsAreClosed, WriterFlushes
    <2>5. HandsEmpty'
        BY <1>1, <1>7 DEF HandsEmpty, WriterFlushes
    <2> QED
        BY <2>3, <2>4, <2>5 DEF Shape
<1>8. CASE WriterEnds
    BY <1>0, <1>1, <1>8 DEF Shape, TypeOK, BarsAreClosed, HandsEmpty, WriterEnds
<1>9. CASE Claim
    <2>1. /\ Claimed \subseteq Bars /\ \A b \in Claimed : row[b] = "pending"
        BY DEF Claimed, Pending
    <2>2. Cardinality(Claimed) \in Nat
        <3>1. IsFiniteSet(Bars)
            BY FS_Interval DEF Bars
        <3> QED
            BY <2>1, <3>1, FS_Subset, FS_CardinalityType, Zenon
    <2>3. group' \in Seq(Bars) /\ batch' = group' /\ \A i \in DOMAIN group' : group'[i] \in Claimed
        BY <1>9, <2>1, <2>2 DEF Claim, InOrder
    <2>4. \A i \in DOMAIN group' : group'[i] <= newest
        BY <1>1, <2>1, <2>3 DEF BarsAreClosed
    <2>5. row' \in [Bars -> {"none", "pending", "processing"} \cup Settled]
          /\ \A b \in Bars : row'[b] # "none" => row[b] # "none"
        BY <1>1, <1>9, <2>1 DEF Claim, TypeOK
    <2> QED
        BY <1>0, <1>1, <1>9, <2>3, <2>4, <2>5 DEF Shape, TypeOK, BarsAreClosed, HandsEmpty, Claim, Working
<1>10. CASE Each
    <2>1. row' \in [Bars -> {"none", "pending", "processing"} \cup Settled]
          /\ \A b \in Bars : row'[b] # "none" => row[b] # "none" \/ b = Head(batch)
        BY <1>1, <1>2, <1>10 DEF Each, TypeOK, MarkDone
    <2>2. faults' \in 0..MaxFaults
        BY <1>1, <1>10, FaultBound DEF Each
    <2> QED
        BY <1>0, <1>1, <1>2, <1>10, <2>1, <2>2 DEF Shape, TypeOK, BarsAreClosed, HandsEmpty, Each, Working
<1>11. CASE WriteBack
    <2>a. batch # <<>> /\ Head(batch) \in Bars /\ faults' \in 0..MaxFaults
        BY <1>1, <1>2, <1>11, FaultBound DEF WriteBack, TypeOK
    <2>c. published' = published \/ published' = [published EXCEPT ![Head(batch)] = @ + 1]
        BY <1>11 DEF WriteBack
    <2>d. /\ published' \in [Bars -> Nat]
          /\ \A b \in Bars : published'[b] > 0 => published[b] > 0 \/ b = Head(batch)
        <3>1. published \in [Bars -> Nat]
            BY <1>1 DEF TypeOK
        <3>2. CASE published' = published
            BY <3>1, <3>2
        <3>3. CASE published' = [published EXCEPT ![Head(batch)] = @ + 1]
            BY <2>a, <3>1, <3>3
        <3> QED
            BY <2>c, <3>2, <3>3
    <2>1. /\ published' \in [Bars -> Nat] /\ faults' \in 0..MaxFaults
          /\ \A b \in Bars : published'[b] > 0 => published[b] > 0 \/ b = Head(batch)
        BY <2>a, <2>d
    <2> QED
        BY <1>0, <1>1, <1>2, <1>11, <2>1 DEF Shape, TypeOK, BarsAreClosed, HandsEmpty, WriteBack, Working
<1>12. CASE MarkCompleted
    <2>1. row' \in [Bars -> {"none", "pending", "processing"} \cup Settled]
          /\ \A b \in Bars : row'[b] # "none" => row[b] # "none" \/ b = Head(batch)
        BY <1>1, <1>2, <1>12 DEF MarkCompleted, TypeOK, MarkDone
    <2>2. faults' \in 0..MaxFaults
        BY <1>1, <1>12, FaultBound DEF MarkCompleted
    <2> QED
        BY <1>0, <1>1, <1>2, <1>12, <2>1, <2>2 DEF Shape, TypeOK, BarsAreClosed, HandsEmpty, MarkCompleted, Working
<1>13. ASSUME batch # <<>>, MarkFailed(Head(batch))
       PROVE  /\ row' \in [Bars -> {"none", "pending", "processing"} \cup Settled] /\ tries' \in [Bars -> Nat]
              /\ \A b \in Bars : row'[b] # "none" => row[b] # "none" \/ b = Head(batch)
    <2>1. PICK b : b = Head(batch)
        OBVIOUS
    <2>2. b \in Bars /\ row \in [Bars -> {"none", "pending", "processing"} \cup Settled] /\ tries \in [Bars -> Nat]
        BY <1>1, <1>2, <1>13, <2>1 DEF TypeOK
    <2>3. /\ tries' = [tries EXCEPT ![b] = @ + 1]
          /\ row' = [row EXCEPT ![b] = IF tries[b] + 1 >= MaxRetries THEN "failed" ELSE "pending"]
        BY <1>13, <2>1 DEF MarkFailed
    <2> QED
        BY <2>1, <2>2, <2>3
<1>14. CASE Fail
    <2>1. /\ row' \in [Bars -> {"none", "pending", "processing"} \cup Settled] /\ tries' \in [Bars -> Nat]
          /\ \A b \in Bars : row'[b] # "none" => row[b] # "none" \/ b = Head(batch)
        BY <1>1, <1>13, <1>14 DEF Fail, TypeOK
    <2>2. faults' \in 0..MaxFaults
        BY <1>1, <1>14, FaultBound DEF Fail
    <2> QED
        BY <1>0, <1>1, <1>2, <1>14, <2>1, <2>2 DEF Shape, TypeOK, BarsAreClosed, HandsEmpty, Fail, Working
<1>15. CASE FailAll
    BY <1>0, <1>1, <1>2, <1>13, <1>15 DEF Shape, TypeOK, BarsAreClosed, HandsEmpty, FailAll, Working
<1>16. CASE EndBatch
    BY <1>0, <1>1, <1>16 DEF Shape, TypeOK, BarsAreClosed, HandsEmpty, EndBatch, Working
<1>17. CASE Cleanup
    <2>1. /\ row' \in [Bars -> {"none", "pending", "processing"} \cup Settled] /\ tries' \in [Bars -> Nat]
          /\ \A b \in Bars : row'[b] # "none" => row[b] # "none"
        BY <1>1, <1>17 DEF Cleanup, TypeOK
    <2> QED
        BY <1>0, <1>1, <1>17, <2>1 DEF Shape, TypeOK, BarsAreClosed, HandsEmpty, Cleanup
<1>18. CASE NextIteration \/ ReconcileLoads \/ ReconcileWrites \/ LoopEnds \/ QueryLoads \/ QueryWrites
    <2>a. faults' \in 0..MaxFaults
        BY <1>1, <1>18, FaultBound
           DEF NextIteration, ReconcileLoads, ReconcileWrites, LoopEnds, QueryLoads, QueryWrites, ShowClosed
    <2>1. /\ \/ pc' = pc
             \/ pc \in {"after", "idle", "reconcile"} /\ pc' \in {"idle", "reconcile", "none"}
          /\ UNCHANGED <<newest, writeQ, wpc, wbatch, row, tries, batch, group, stop, joining, sink, published>>
        BY <1>18 DEF NextIteration, ReconcileLoads, ReconcileWrites, LoopEnds, QueryLoads, QueryWrites
    <2> QED
        BY <1>0, <1>1, <2>a, <2>1 DEF Shape, TypeOK, BarsAreClosed, HandsEmpty, Working
<1>19. CASE Stop \/ StopDetaches
    <2>a. faults' \in 0..MaxFaults
        BY <1>1, <1>19, FaultBound DEF Stop, StopDetaches
    <2>1. /\ {stop', joining', sink'} \subseteq BOOLEAN
          /\ UNCHANGED <<newest, writeQ, wpc, wbatch, row, tries, pc, batch, group, published>>
        BY <1>1, <1>19 DEF Stop, StopDetaches, TypeOK
    <2> QED
        BY <1>0, <1>1, <2>a, <2>1 DEF Shape, TypeOK, BarsAreClosed, HandsEmpty, Working
<1>20. CASE Start
    <2>1. /\ row' \in [Bars -> {"none", "pending", "processing"} \cup Settled]
          /\ \A b \in Bars : row'[b] # "none" => row[b] # "none"
        BY <1>1, <1>20 DEF Start, TypeOK, ResetProcessing
    <2> QED
        BY <1>0, <1>1, <1>20, <2>1 DEF Shape, TypeOK, BarsAreClosed, HandsEmpty, Start, Working
<1>21. CASE Crash
    <2>1. /\ faults' \in 0..MaxFaults
          /\ newest' = newest /\ row' = row /\ tries' = tries /\ published' = published
        BY <1>1, <1>2, <1>21, FaultBound DEF Crash
    <2>2. writeQ' = <<>> /\ wbatch' = <<>> /\ batch' = <<>> /\ group' = <<>> /\ pc' = "none" /\ wpc' = "none"
        BY <1>21 DEF Crash
    <2>3. stop' = FALSE /\ joining' = FALSE /\ sink' = FALSE
        BY <1>21 DEF Crash
    <2>4. TypeOK'
        <3>1. Len(writeQ') <= QueueCap /\ writeQ' \in Seq(Bars)
            BY <2>2
        <3> QED
            BY <1>0, <1>1, <2>1, <2>2, <2>3, <3>1 DEF TypeOK
    <2>5. BarsAreClosed' /\ HandsEmpty'
        BY <1>1, <2>1, <2>2 DEF BarsAreClosed, HandsEmpty
    <2> QED
        BY <2>4, <2>5 DEF Shape
<1>22. CASE Window
    <2>1. faults' \in 0..MaxFaults
        BY <1>1, <1>22, FaultBound DEF Window
    <2>2. /\ UNCHANGED <<newest, writeQ, wpc, wbatch, row, tries, batch, group, stop, joining, sink, published>>
          /\ pc = "window" /\ pc' \in {"each", "failAll"}
        BY <1>22 DEF Window
    <2> QED
        BY <1>0, <1>1, <2>1, <2>2 DEF Shape, TypeOK, BarsAreClosed, HandsEmpty, Working
<1> QED
    BY <1>22, <1>3, <1>4, <1>5, <1>6, <1>7, <1>8, <1>9, <1>10, <1>11, <1>12, <1>14, <1>15, <1>16, <1>17,
       <1>18, <1>19, <1>20, <1>21 DEF Next, Writer, EventLoop
-----------------------------------------------------------------------------
(* Statuses and the batch in hand.                                         *)

\* The ingestor, the writer and stop() leave the loop's work alone; a flush
\* only adds rows.
Elsewhere ==
    /\ UNCHANGED <<pc, batch, group, told>> /\ blank \subseteq blank'
    /\ row' \in [Bars -> {"none", "pending", "processing"} \cup Settled]
    /\ \A b \in Bars : row'[b] = row[b] \/ (row[b] = "none" /\ row'[b] = "pending")

\* The loop between two batches.
Between ==
    /\ pc' \notin Working \cup {"failAll"} /\ batch' = <<>> /\ UNCHANGED <<told, blank>>
    /\ \A b \in Bars : row'[b] = row[b] \/ row'[b] \in {"none", "pending"}
    /\ pc' = "none" \/ \A b \in Bars : row'[b] # "processing"

Claims == CompletedIsPublished /\ ProcessingIsInHand /\ BatchIsClaimed

\* A step that leaves the batch alone keeps the claims true.
LEMMA ElsewhereClaims == BarsInv /\ Elsewhere => Claims'
<1> SUFFICES ASSUME BarsInv, Elsewhere PROVE Claims'
    OBVIOUS
<1>1. TypeOK /\ Claims
    BY DEF BarsInv, Claims
<1>2. CompletedIsPublished' /\ ProcessingIsInHand'
    BY <1>1 DEF Claims, Elsewhere, CompletedIsPublished, ProcessingIsInHand, Given, told
<1>3. \A i \in DOMAIN batch : batch[i] \in Bars
    BY <1>1 DEF TypeOK
<1>4. BatchIsClaimed'
    <2> SUFFICES ASSUME pc \in Working PROVE BatchIsClaimed'
        BY DEF BatchIsClaimed, Elsewhere
    <2>1. \A i \in DOMAIN batch : row[batch[i]] = "processing"
        BY <1>1 DEF Claims, BatchIsClaimed
    <2>2. \A i \in DOMAIN batch : row'[batch[i]] = "processing"
        BY <1>3, <2>1 DEF Elsewhere
    <2> QED
        BY <1>1, <2>2 DEF Claims, BatchIsClaimed, Elsewhere, Given, told
<1> QED
    BY <1>2, <1>4 DEF Claims

\* A step to a place between two batches keeps the claims true.
LEMMA BetweenClaims == BarsInv /\ Between => Claims'
BY DEF BarsInv, Between, Claims, CompletedIsPublished, ProcessingIsInHand, BatchIsClaimed, Given, told

\* Which actions are which.
LEMMA ElsewhereSteps ==
    ASSUME BarsInv,
           \/ UNCHANGED vars \/ CloseBar \/ (\E b \in Bars : Reannounce(b)) \/ Writer
           \/ Stop \/ StopDetaches \/ QueryLoads \/ QueryWrites
    PROVE  Elsewhere
<1> USE DEF vars, market, store, writer, loop, life, told
<1>1. TypeOK
    BY DEF BarsInv
<1>2. CASE WriterFlushes
    <2>1. \A b \in Bars : row'[b] = row[b] \/ (row[b] = "none" /\ row'[b] = "pending")
        BY <1>2 DEF WriterFlushes
    <2>2. row' \in [Bars -> {"none", "pending", "processing"} \cup Settled]
        BY <1>1, <1>2 DEF WriterFlushes, TypeOK
    <2> QED
        BY <1>2, <2>1, <2>2 DEF Elsewhere, WriterFlushes
<1>3. ASSUME UNCHANGED vars \/ CloseBar \/ (\E b \in Bars : Reannounce(b)) \/ WriterTakes \/ WriterEnds
             \/ Stop \/ StopDetaches \/ QueryLoads \/ QueryWrites
      PROVE  Elsewhere
    BY <1>1, <1>3 DEF TypeOK, Elsewhere, CloseBar, Reannounce, WriterTakes, WriterEnds, Stop, StopDetaches,
       QueryLoads, QueryWrites
<1> QED
    BY <1>2, <1>3 DEF Writer

\* The steps that lead to a place between two batches.
LEMMA BetweenSteps ==
    ASSUME BarsInv,
           \/ EndBatch \/ Cleanup \/ NextIteration \/ ReconcileLoads \/ ReconcileWrites \/ LoopEnds
           \/ Start \/ Crash
    PROVE  Between
<1> USE DEF market, store, writer, loop, life, told
<1>1. HandsEmpty /\ ProcessingIsInHand
    BY DEF BarsInv
<1>4. \A b \in Bars : pc # "none" /\ batch = <<>> => row[b] # "processing"
    BY <1>1 DEF ProcessingIsInHand, ToSet
<1>5. CASE EndBatch
    BY <1>4, <1>5 DEF EndBatch, Between, Working
<1>6. CASE Cleanup
    <2>1. \A b \in Bars : row'[b] = row[b] \/ row'[b] = "none"
        BY <1>6 DEF Cleanup
    <2>2. batch = <<>> /\ pc = "after" /\ pc' = pc /\ batch' = batch /\ UNCHANGED <<told, blank>>
        BY <1>1, <1>6 DEF Cleanup, HandsEmpty, Working
    <2> QED
        BY <1>4, <2>1, <2>2 DEF Between, Working
<1>7. CASE NextIteration \/ ReconcileLoads \/ ReconcileWrites \/ LoopEnds
    <2>1. /\ pc \in {"after", "idle", "reconcile"} /\ pc' \in {"idle", "reconcile", "none"}
          /\ batch' = batch /\ row' = row /\ UNCHANGED <<told, blank>>
        BY <1>7 DEF NextIteration, ReconcileLoads, ReconcileWrites, LoopEnds
    <2> QED
        BY <1>1, <1>4, <2>1 DEF Between, Working, HandsEmpty
<1>8. CASE Start
    <2>1. batch' = <<>> /\ pc' = "idle" /\ UNCHANGED <<told, blank>>
        BY <1>1, <1>8 DEF Start, HandsEmpty, Working
    <2>2. \A b \in Bars : row'[b] # "processing" /\ (row'[b] = row[b] \/ row'[b] = "pending")
        BY <1>8 DEF Start, ResetProcessing
    <2> QED
        BY <2>1, <2>2 DEF Between, Working
<1>9. CASE Crash
    BY <1>9 DEF Crash, Between, Working
<1> QED
    BY <1>5, <1>6, <1>7, <1>8, <1>9

\* Every step keeps completed and claimed rows true.
LEMMA ClaimsStep == BarsInv /\ [Next]_vars => Claims'
<1> SUFFICES ASSUME BarsInv, [Next]_vars PROVE Claims'
    OBVIOUS
<1> USE DEF market, store, writer, loop, life
<1>1. TypeOK /\ CompletedIsPublished /\ ProcessingIsInHand /\ BatchIsClaimed /\ BarsAreClosed
    BY DEF BarsInv
<1>2. CASE Elsewhere \/ Between
    BY <1>2, ElsewhereClaims, BetweenClaims
<1>3. CASE Claim
    <2>1. Claimed \subseteq Bars /\ \A b \in Claimed : row[b] = "pending"
        BY DEF Claimed, Pending
    <2>2. /\ group' \in [1..Cardinality(Claimed) -> Claimed] /\ ToSet(group') = Claimed /\ batch' = group'
          /\ \A i, j \in DOMAIN group' : i < j => group'[i] < group'[j]
        BY <1>3 DEF Claim, InOrder
    <2>3. \A b \in Bars : row'[b] = IF b \in Claimed THEN "processing" ELSE row[b]
        BY <1>3 DEF Claim
    <2>4. CompletedIsPublished'
        BY <1>1, <1>3, <2>3 DEF CompletedIsPublished, Claim, Given, told
    <2>5. ProcessingIsInHand'
        <3>1. \A b \in Bars : row[b] # "processing"
            BY <1>1, <1>3 DEF ProcessingIsInHand, Claim, BarsInv, HandsEmpty, Working, ToSet
        <3> QED
            BY <2>2, <2>3, <3>1 DEF ProcessingIsInHand
    <2>6. \A i \in DOMAIN batch' : batch'[i] \in Bars /\ batch'[i] \in Claimed
        BY <2>1, <2>2
    <2>7. \A i, j \in DOMAIN batch' : batch'[i] = batch'[j] => i = j
        <3>1. Cardinality(Claimed) \in Nat
            <4>1. IsFiniteSet(Bars)
                BY BarsAssumption, FS_Interval DEF Bars
            <4> QED
                BY <2>1, <4>1, FS_Subset, FS_CardinalityType, Zenon
        <3>2. \A i \in DOMAIN batch' : i \in Int /\ batch'[i] \in Int
            BY <2>2, <2>6, <3>1 DEF Bars
        <3> QED
            BY <2>2, <3>2
    <2>8. BatchIsClaimed'
        BY <1>3, <2>2, <2>3, <2>6, <2>7 DEF BatchIsClaimed, Claim
    <2> QED
        BY <2>4, <2>5, <2>8 DEF Claims
<1> DEFINE h == Head(batch)
           t == Tail(batch)
<1>4. ASSUME batch # <<>>
      PROVE  /\ h = batch[1] /\ 1 \in DOMAIN batch /\ h \in Bars /\ ToSet(batch) = {h} \cup ToSet(t)
             /\ \A i \in DOMAIN t : i \in Nat /\ i + 1 \in DOMAIN batch /\ t[i] = batch[i + 1] /\ t[i] \in Bars
    <2>1. batch \in Seq(Bars)
        BY <1>1 DEF TypeOK
    <2> QED
        BY <1>4, <2>1, TailFacts
\* An event of the batch is settled: the rest of the batch stays claimed.
<1>5. ASSUME pc \in Working, batch # <<>>, batch' = t, group' = group, pc' = "each",
             UNCHANGED <<told, blank>>,
             \A b \in Bars \ {h} : row'[b] = row[b],
             row'[h] \in {"pending", "failed", "skipped"} \/ (row'[h] = "completed" /\ pc = "mark")
      PROVE  Claims'
    <2>1. CompletedIsPublished'
        BY <1>1, <1>4, <1>5 DEF CompletedIsPublished, BatchIsClaimed, Given, told
    <2>2. ProcessingIsInHand'
        BY <1>1, <1>4, <1>5 DEF ProcessingIsInHand, Working
    <2>3. \A i \in DOMAIN t : t[i] # h
        <3> SUFFICES ASSUME NEW i \in DOMAIN t, t[i] = h PROVE FALSE
            OBVIOUS
        <3>1. i \in Nat /\ i + 1 \in DOMAIN batch /\ batch[i + 1] = batch[1] /\ 1 \in DOMAIN batch
            BY <1>4, <1>5
        <3>2. i + 1 = 1
            BY <1>1, <1>5, <3>1 DEF BatchIsClaimed
        <3>3. i >= 1
            BY <1>1, <1>5, TailFacts DEF TypeOK
        <3> QED
            BY <3>1, <3>2, <3>3
    <2>4. \A i \in DOMAIN t : row'[t[i]] = "processing"
        BY <1>1, <1>4, <1>5, <2>3 DEF BatchIsClaimed
    <2>5. \A i, j \in DOMAIN t : t[i] = t[j] => i = j
        <3> SUFFICES ASSUME NEW i \in DOMAIN t, NEW j \in DOMAIN t, t[i] = t[j] PROVE i = j
            OBVIOUS
        <3>1. i \in Nat /\ j \in Nat /\ i + 1 = j + 1
            BY <1>1, <1>4, <1>5 DEF BatchIsClaimed
        <3> QED
            BY <3>1
    <2>6. ToSet(t) \subseteq ToSet(group)
        BY <1>1, <1>4, <1>5 DEF BatchIsClaimed
    <2>7. BatchIsClaimed'
        BY <1>5, <2>4, <2>5, <2>6 DEF BatchIsClaimed
    <2> QED
        BY <2>1, <2>2, <2>7 DEF Claims
\* The loop goes on with the same event.
<1>6. ASSUME pc \in Working, UNCHANGED <<batch, group, row, blank>>, pc' \in Working,
             mute \subseteq mute', \A b \in Bars : published[b] > 0 => published'[b] > 0,
             pc' = "mark" => Given(h)'
      PROVE  Claims'
    <2>1. CompletedIsPublished'
        BY <1>1, <1>6 DEF CompletedIsPublished, Given
    <2>2. ProcessingIsInHand' /\ BatchIsClaimed'
        BY <1>1, <1>6 DEF ProcessingIsInHand, BatchIsClaimed, Working, Given
    <2> QED
        BY <2>1, <2>2 DEF Claims
<1>7. ASSUME pc \in Working \cup {"failAll"}, batch # <<>>, MarkFailed(h)
      PROVE  row'[h] \in {"pending", "failed"} /\ \A b \in Bars \ {h} : row'[b] = row[b]
    BY <1>1, <1>4, <1>7 DEF MarkFailed, TypeOK
<1>8. ASSUME pc \in Working, batch # <<>>, NEW v, MarkDone(h, v)
      PROVE  row'[h] = v /\ \A b \in Bars \ {h} : row'[b] = row[b]
    BY <1>1, <1>4, <1>8 DEF MarkDone, TypeOK, BatchIsClaimed
<1> HIDE DEF h, t
<1>9. CASE Each
    <2>1. pc \in Working /\ batch # <<>> /\ group' = group /\ UNCHANGED <<told, blank>>
        BY <1>9 DEF Each, Working
    <2>2. CASE MarkDone(Head(batch), "skipped") /\ batch' = Tail(batch) /\ UNCHANGED <<pc, faults>>
        <3>1. MarkDone(h, "skipped") /\ batch' = t /\ pc' = "each"
            BY <1>9, <2>2 DEF h, t, Each
        <3> QED
            BY <1>5, <1>8, <2>1, <3>1
    <2>3. CASE UNCHANGED <<row, batch>> /\ pc' \in {"publish", "fail"}
        BY <1>6, <2>1, <2>3 DEF Working, told
    <2> QED
        BY <1>9, <2>2, <2>3 DEF Each
<1>10. CASE WriteBack
    <2>1. pc \in Working /\ UNCHANGED <<batch, group, row, blank>> /\ published \in [Bars -> Nat] /\ h \in Bars
        BY <1>1, <1>4, <1>10 DEF WriteBack, Working, TypeOK
    <2>2. CASE published' = [published EXCEPT ![Head(batch)] = @ + 1] /\ pc' = "mark" /\ mute' = mute
        <3>1. published' = [published EXCEPT ![h] = @ + 1]
            BY <2>2 DEF h
        <3>2. published'[h] > 0 /\ \A b \in Bars : published[b] > 0 => published'[b] > 0
            BY <2>1, <3>1
        <3>3. h' = h
            BY <2>1 DEF h
        <3> QED
            BY <1>6, <2>1, <2>2, <3>2, <3>3 DEF Working, Given
    <2>3. CASE Head(batch) \in blank /\ pc' = "mark" /\ UNCHANGED told
        <3>1. Given(h)'
            BY <2>1, <2>3 DEF Given, h
        <3> QED
            BY <1>6, <2>1, <2>3, <3>1 DEF Working, told
    <2>4. CASE mute' = mute \cup {Head(batch)} /\ pc' = "mark" /\ published' = published
        <3>1. Given(h)'
            BY <2>1, <2>4 DEF Given, h
        <3> QED
            BY <1>6, <2>1, <2>4, <3>1 DEF Working
    <2>5. CASE UNCHANGED told /\ pc' = "fail"
        BY <1>6, <2>1, <2>5 DEF Working, told
    <2> QED
        BY <1>10, <2>2, <2>3, <2>4, <2>5 DEF WriteBack
<1>11. CASE MarkCompleted
    <2>1. pc = "mark" /\ pc \in Working /\ batch # <<>> /\ group' = group /\ UNCHANGED <<told, blank>>
        BY <1>1, <1>11 DEF MarkCompleted, Working, TypeOK
    <2>2. CASE MarkDone(Head(batch), "completed") /\ batch' = Tail(batch) /\ pc' = "each"
        <3>1. MarkDone(h, "completed") /\ batch' = t
            BY <2>2 DEF h, t
        <3> QED
            BY <1>5, <1>8, <2>1, <2>2, <3>1
    <2>3. CASE UNCHANGED <<row, batch>> /\ pc' = "fail"
        BY <1>6, <2>1, <2>3 DEF Working, told
    <2> QED
        BY <1>11, <2>2, <2>3 DEF MarkCompleted
<1>12. CASE Fail
    <2>1. pc = "fail" /\ pc \in Working /\ batch # <<>> /\ group' = group /\ UNCHANGED <<told, blank>>
        BY <1>1, <1>12 DEF Fail, Working, TypeOK
    <2>2. CASE MarkFailed(Head(batch)) /\ batch' = Tail(batch) /\ pc' = "each"
        <3>1. MarkFailed(h) /\ batch' = t
            BY <2>2 DEF h, t
        <3> QED
            BY <1>5, <1>7, <2>1, <2>2, <3>1
    <2>3. CASE batch' = group /\ pc' = "failAll" /\ row' = row
        BY <1>1, <2>1, <2>3 DEF Claims, CompletedIsPublished, ProcessingIsInHand, BatchIsClaimed, Working, Given, told
    <2> QED
        BY <1>12, <2>2, <2>3 DEF Fail
<1>13. CASE FailAll
    <2>1. /\ pc = "failAll" /\ batch # <<>> /\ pc' = pc /\ MarkFailed(h) /\ batch' = t /\ UNCHANGED <<told, blank>>
        BY <1>13 DEF FailAll, h, t
    <2>2. row'[h] \in {"pending", "failed"} /\ \A b \in Bars \ {h} : row'[b] = row[b]
        BY <1>7, <2>1
    <2>3. CompletedIsPublished' /\ ProcessingIsInHand' /\ BatchIsClaimed'
        BY <1>1, <1>4, <2>1, <2>2 DEF CompletedIsPublished, ProcessingIsInHand, BatchIsClaimed, Working, Given, told
    <2> QED
        BY <2>3 DEF Claims
\* The window is loaded, or its error fails the group.
<1>14. CASE Window
    <2>1. pc = "window" /\ UNCHANGED <<batch, group, row, told, blank>> /\ pc' \in {"each", "failAll"}
        BY <1>14 DEF Window
    <2>2. CASE pc' = "each"
        BY <1>6, <2>1, <2>2 DEF Working, told
    <2>3. CASE pc' = "failAll"
        BY <1>1, <2>1, <2>3 DEF Claims, CompletedIsPublished, ProcessingIsInHand, BatchIsClaimed, Working, Given, told
    <2> QED
        BY <2>1, <2>2, <2>3
<1> QED
    BY <1>14, <1>2, <1>3, <1>9, <1>10, <1>11, <1>12, <1>13, ElsewhereSteps, BetweenSteps DEF Next, EventLoop

\* Every step keeps the errors behind failed rows and muted bars counted.
LEMMA CountsStep == BarsInv /\ [Next]_vars => FailedIsTired' /\ MuteIsFaulty'
<1> SUFFICES ASSUME BarsInv, [Next]_vars PROVE FailedIsTired' /\ MuteIsFaulty'
    OBVIOUS
<1> USE DEF vars, store, loop, told
<1>1. TypeOK /\ FailedIsTired /\ MuteIsFaulty /\ TypeOK'
    BY ShapeStep DEF BarsInv, Shape
<1>2. /\ IsFiniteSet(mute) /\ Cardinality(mute) \in Nat /\ faults \in Nat /\ faults' \in Nat /\ MaxRetries \in Nat
      /\ tries \in [Bars -> Nat]
    <2>1. IsFiniteSet(Bars)
        BY BarsAssumption, FS_Interval DEF Bars
    <2>2. IsFiniteSet(mute)
        BY <1>1, <2>1, FS_Subset DEF TypeOK
    <2>3. Cardinality(mute) \in Nat
        BY <2>2, FS_CardinalityType
    <2>4. faults \in Nat /\ faults' \in Nat
        BY <1>1, BarsAssumption DEF TypeOK
    <2>5. MaxRetries \in Nat
        BY BarsAssumption
    <2>6. tries \in [Bars -> Nat]
        BY <1>1 DEF TypeOK
    <2> QED
        BY <2>2, <2>3, <2>4, <2>5, <2>6
<1>3. MuteIsFaulty'
    <2>1. faults' = faults \/ faults' = faults + 1
        BY DEF Next, Writer, EventLoop, CloseBar, Reannounce, WriterTakes, WriterFlushes, WriterEnds, Claim, Window,
           Each, WriteBack, MarkCompleted, Fail, FailAll, EndBatch, Cleanup, NextIteration, ReconcileLoads,
           ReconcileWrites, QueryLoads, QueryWrites, ShowClosed, LoopEnds, Stop, StopDetaches, Start, Crash, Fault
    <2>2. CASE mute' = mute
        BY <1>1, <1>2, <2>1, <2>2 DEF MuteIsFaulty
    <2>3. CASE mute' = mute \cup {Head(batch)} /\ Fault
        <3>1. Cardinality(mute') <= Cardinality(mute) + 1 /\ Cardinality(mute') \in Nat
            <4> DEFINE b == Head(batch)
            <4>1. IsFiniteSet(mute) /\ Cardinality(mute) \in Nat /\ mute' = mute \cup {b}
                BY <1>2, <2>3
            <4> HIDE DEF b
            <4>2. \/ Cardinality(mute \cup {b}) = Cardinality(mute)
                  \/ Cardinality(mute \cup {b}) = Cardinality(mute) + 1
                BY <4>1, FS_AddElement
            <4> QED
                BY <4>1, <4>2
        <3>2. faults' = faults + 1 /\ Cardinality(mute) <= faults
            BY <1>1, <2>3 DEF MuteIsFaulty, Fault
        <3>3. Cardinality(mute') <= faults'
            BY <1>2, <3>1, <3>2
        <3> QED
            BY <3>3 DEF MuteIsFaulty
    <2>4. CASE WriteBack
        BY <2>2, <2>3, <2>4 DEF WriteBack
    <2>5. CASE ~WriteBack
        BY <2>2, <2>5 DEF Next, Writer, EventLoop, CloseBar, Reannounce, WriterTakes, WriterFlushes, WriterEnds, Claim,
           Window, Each, MarkCompleted, Fail, FailAll, EndBatch, Cleanup, NextIteration, ReconcileLoads,
           ReconcileWrites, QueryLoads, QueryWrites, LoopEnds, Stop, StopDetaches, Start, Crash
    <2> QED
        BY <2>4, <2>5
<1>4. FailedIsTired'
    <2>1. ASSUME UNCHANGED tries, \A b \in Bars : row'[b] = "failed" => row[b] = "failed" PROVE FailedIsTired'
        BY <1>1, <2>1 DEF FailedIsTired
    <2>2. ASSUME batch # <<>>, MarkFailed(Head(batch)) PROVE FailedIsTired'
        <3>1. PICK h : h = Head(batch)
            OBVIOUS
        <3>2. h \in Bars /\ row \in [Bars -> {"none", "pending", "processing"} \cup Settled]
            BY <1>1, <2>2, <3>1, TailFacts DEF TypeOK
        <3>3. /\ tries' = [tries EXCEPT ![h] = @ + 1]
              /\ row' = [row EXCEPT ![h] = IF tries[h] + 1 >= MaxRetries THEN "failed" ELSE "pending"]
            BY <2>2, <3>1 DEF MarkFailed
        <3>4. tries'[h] = tries[h] + 1 /\ row'[h] = "failed" => tries[h] + 1 >= MaxRetries
            BY <1>2, <3>2, <3>3
        <3>5. tries'[h] = tries[h] + 1
            BY <1>2, <3>2, <3>3
        <3>6. \A b \in Bars \ {h} : tries'[b] = tries[b] /\ row'[b] = row[b]
            BY <1>2, <3>2, <3>3
        <3> QED
            BY <1>1, <3>4, <3>5, <3>6 DEF FailedIsTired
    <2>3. CASE Fail
        <3>1. batch # <<>>
            BY <1>1, <2>3 DEF Fail, TypeOK
        <3> QED
            BY <2>1, <2>2, <2>3, <3>1 DEF Fail
    <2>4. CASE FailAll
        BY <2>2, <2>4 DEF FailAll
    <2>5. CASE Cleanup
        <3>1. \A b \in Bars : row'[b] = "none" \/ (row'[b] = row[b] /\ tries'[b] = tries[b])
            BY <2>5 DEF Cleanup
        <3> QED
            BY <1>1, <3>1 DEF FailedIsTired
    <2>6. CASE WriterFlushes \/ Claim \/ Start
        <3>1. UNCHANGED tries /\ \A b \in Bars : row'[b] = row[b] \/ row'[b] \in {"pending", "processing"}
            BY <2>6 DEF WriterFlushes, Claim, Start, ResetProcessing
        <3> QED
            BY <2>1, <3>1
    <2>7. ASSUME UNCHANGED tries, NEW v \in {"skipped", "completed"}, NEW b, MarkDone(b, v) PROVE FailedIsTired'
        <3>1. \A c \in Bars : row'[c] = row[c] \/ row'[c] = v
            BY <1>1, <2>7 DEF MarkDone, TypeOK
        <3> QED
            BY <2>1, <2>7, <3>1
    <2>8. CASE Each \/ MarkCompleted
        <3>1. UNCHANGED tries
            BY <2>8 DEF Each, MarkCompleted
        <3>2. \/ row' = row \/ MarkDone(Head(batch), "skipped") \/ MarkDone(Head(batch), "completed")
            BY <2>8 DEF Each, MarkCompleted
        <3> QED
            BY <2>1, <2>7, <3>1, <3>2
    <2>9. CASE \/ UNCHANGED vars \/ CloseBar \/ (\E b \in Bars : Reannounce(b)) \/ WriterTakes \/ WriterEnds \/ Window
               \/ WriteBack \/ EndBatch \/ NextIteration \/ ReconcileLoads \/ ReconcileWrites \/ LoopEnds
               \/ QueryLoads \/ QueryWrites \/ Stop \/ StopDetaches \/ Crash
        <3>1. UNCHANGED store
            BY <2>9 DEF CloseBar, Reannounce, WriterTakes, WriterEnds, Window, WriteBack, EndBatch, NextIteration,
               ReconcileLoads, ReconcileWrites, LoopEnds, QueryLoads, QueryWrites, Stop, StopDetaches, Crash
        <3> QED
            BY <2>1, <3>1
    <2> QED
        BY <2>3, <2>4, <2>5, <2>6, <2>8, <2>9 DEF Next, Writer, EventLoop
<1> QED
    BY <1>3, <1>4
-----------------------------------------------------------------------------
(* The account of snapshots, announcements and faults.                     *)

\* The terms of the account are naturals.
LEMMA AccountTypes ==
    ASSUME TypeOK, NEW b \in Bars
    PROVE  /\ published[b] \in Nat /\ faults \in Nat /\ Owed(b) \in {0, 1}
           /\ Copies(writeQ, b) \in Nat /\ Copies(wbatch, b) \in Nat
<1>1. published[b] \in Nat /\ faults \in Nat /\ writeQ \in Seq(Bars) /\ wbatch \in Seq(Bars)
    BY BarsAssumption DEF TypeOK
<1>2. Owed(b) \in {0, 1}
    BY DEF Owed
<1> QED
    BY <1>1, <1>2, CopiesFinite

\* Of a bar that has not closed nothing is known anywhere.
LEMMA Unborn ==
    ASSUME BarsInv, NEW b \in Bars, b > newest
    PROVE  /\ published[b] = 0 /\ Owed(b) = 0
           /\ Copies(writeQ, b) = 0 /\ Copies(wbatch, b) = 0
<1>1. TypeOK /\ BarsAreClosed /\ b \in Int /\ newest \in Int
    BY DEF BarsInv, Bars, TypeOK
<1>2. ~(b <= newest)
    BY <1>1
<1>3. row[b] = "none" /\ ~(published[b] > 0)
    BY <1>1, <1>2 DEF BarsAreClosed
<1>4. published[b] = 0
    BY <1>1, <1>3, AccountTypes
<1>5. b \notin ToSet(writeQ) /\ b \notin ToSet(wbatch) /\ b \notin ToSet(batch)
    BY <1>1, <1>2 DEF BarsAreClosed, ToSet
<1>6. Owed(b) = 0
    BY <1>3, <1>5 DEF Owed
<1>7. writeQ \in Seq(Bars) /\ wbatch \in Seq(Bars)
    BY <1>1 DEF TypeOK
<1> QED
    BY <1>4, <1>5, <1>6, <1>7, CopiesFinite

\* One announcement more, if that.
LEMMA AnnounceCopies ==
    ASSUME TypeOK, NEW x \in Bars, Announce(x), NEW b \in Bars
    PROVE  /\ Copies(writeQ', b) \in Nat /\ Copies(writeQ', b) <= Copies(writeQ, b) + 1
           /\ b # x => Copies(writeQ', b) = Copies(writeQ, b)
<1>1. writeQ \in Seq(Bars) /\ Copies(writeQ, b) \in Nat
    BY AccountTypes DEF TypeOK
<1>2. Copies(Append(writeQ, x), b) = Copies(writeQ, b) + (IF x = b THEN 1 ELSE 0)
    BY <1>1, CopiesAppend
<1>3. writeQ' = writeQ \/ writeQ' = Append(writeQ, x)
    BY DEF Announce
<1>4. CASE writeQ' = writeQ
    BY <1>1, <1>4
<1>5. CASE writeQ' = Append(writeQ, x)
    BY <1>1, <1>2, <1>5
<1> QED
    BY <1>3, <1>4, <1>5

\* A step of the loop spends what it adds.
LEMMA LoopAccount ==
    ASSUME BarsInv, TypeOK', UNCHANGED <<writeQ, wbatch>>,
           \A b \in Bars : published'[b] + Owed(b)' <= published[b] + Owed(b) + (faults' - faults)
    PROVE  Accounted'
<1> SUFFICES ASSUME NEW b \in Bars
             PROVE  published'[b] + Copies(writeQ', b) + Copies(wbatch', b) + Owed(b)' <= 1 + faults'
    BY DEF Accounted
<1>1. /\ published[b] \in Nat /\ faults \in Nat /\ Owed(b) \in {0, 1}
      /\ Copies(writeQ, b) \in Nat /\ Copies(wbatch, b) \in Nat
    BY AccountTypes DEF BarsInv
<1>2. published'[b] \in Nat /\ faults' \in Nat /\ Owed(b)' \in {0, 1}
    BY BarsAssumption DEF TypeOK, Owed
<1>3. published[b] + Copies(writeQ, b) + Copies(wbatch, b) + Owed(b) <= 1 + faults
    BY DEF BarsInv, Accounted
<1>4. Copies(writeQ', b) = Copies(writeQ, b) /\ Copies(wbatch', b) = Copies(wbatch, b)
    OBVIOUS
<1> QED
    BY <1>1, <1>2, <1>3, <1>4

\* A fault adds at most one to what is owed of a bar.
LEMMA FaultAccount ==
    ASSUME BarsInv, TypeOK', UNCHANGED <<writeQ, wbatch, published>>, Fault
    PROVE  Accounted'
<1>1. \A b \in Bars : /\ published[b] \in Nat /\ faults \in Nat /\ Owed(b) \in {0, 1}
                      /\ Owed(b)' \in {0, 1} /\ faults' = faults + 1
    BY AccountTypes DEF BarsInv, Fault, Owed
<1>2. \A b \in Bars : published'[b] + Owed(b)' <= published[b] + Owed(b) + (faults' - faults)
    BY <1>1
<1> QED
    BY <1>2, LoopAccount

\* Without a fault nothing more may be owed.
LEMMA CalmAccount ==
    ASSUME BarsInv, TypeOK', UNCHANGED <<writeQ, wbatch, published, faults>>,
           \A b \in Bars : Owed(b)' = 1 => Owed(b) = 1
    PROVE  Accounted'
<1>1. \A b \in Bars : /\ published[b] \in Nat /\ faults \in Nat /\ Owed(b) \in {0, 1}
                      /\ Owed(b)' \in {0, 1}
    BY AccountTypes DEF BarsInv, Owed
<1>2. \A b \in Bars : published'[b] + Owed(b)' <= published[b] + Owed(b) + (faults' - faults)
    BY <1>1
<1> QED
    BY <1>2, LoopAccount
\* Every step keeps the account of published snapshots.
LEMMA AccountStep == BarsInv /\ [Next]_vars => Accounted'
<1> SUFFICES ASSUME BarsInv, [Next]_vars PROVE Accounted'
    OBVIOUS
<1> USE DEF vars, store, writer, loop, life, told
<1>1. TypeOK /\ HandsEmpty /\ BatchIsClaimed /\ TypeOK'
    BY ShapeStep DEF BarsInv, Shape
<1>2. \A b \in Bars :
         /\ published[b] \in Nat /\ faults \in Nat /\ Owed(b) \in {0, 1}
         /\ Copies(writeQ, b) \in Nat /\ Copies(wbatch, b) \in Nat
         /\ published[b] + Copies(writeQ, b) + Copies(wbatch, b) + Owed(b) <= 1 + faults
    BY <1>1, AccountTypes DEF BarsInv, Accounted
<1>3. CASE UNCHANGED vars \/ WriterEnds \/ StopDetaches \/ NextIteration \/ ReconcileLoads \/ LoopEnds \/ QueryLoads
    <2>1. /\ UNCHANGED <<writeQ, wbatch, published, faults>> /\ row' = row /\ batch' = batch
          /\ pc' = pc \/ (pc \notin Working \cup {"failAll"} /\ pc' \notin Working \cup {"failAll"})
        BY <1>3 DEF WriterEnds, StopDetaches, NextIteration, ReconcileLoads, LoopEnds, QueryLoads, Working
    <2>2. \A b \in Bars : Owed(b)' = Owed(b)
        BY <2>1 DEF Owed, Working
    <2> QED
        BY <1>1, <2>1, <2>2, CalmAccount
<1>4. CASE Stop
    BY <1>1, <1>4, FaultAccount DEF Stop
<1>5. CASE CloseBar
    <2>1. newest + 1 \in Bars /\ newest + 1 > newest
        BY <1>1, <1>5, BarsAssumption DEF CloseBar, TypeOK, Bars
    <2>2. Announce(newest + 1) /\ UNCHANGED <<wbatch, published, faults, row, pc, batch>>
        BY <1>5 DEF CloseBar
    <2>3. \A b \in Bars : Owed(b)' = Owed(b)
        BY <2>2 DEF Owed
    <2> SUFFICES ASSUME NEW b \in Bars
                 PROVE  published'[b] + Copies(writeQ', b) + Copies(wbatch', b) + Owed(b)' <= 1 + faults'
        BY DEF Accounted
    <2>4. /\ Copies(writeQ', b) \in Nat /\ Copies(writeQ', b) <= Copies(writeQ, b) + 1
          /\ b # newest + 1 => Copies(writeQ', b) = Copies(writeQ, b)
        BY <1>1, <2>1, <2>2, AnnounceCopies
    <2>5. b = newest + 1 => /\ published[b] = 0 /\ Owed(b) = 0
                            /\ Copies(writeQ, b) = 0 /\ Copies(wbatch, b) = 0
        BY <2>1, Unborn
    <2> QED
        BY <1>2, <2>2, <2>3, <2>4, <2>5
<1>6. ASSUME NEW x \in Bars, Reannounce(x) PROVE Accounted'
    <2>1. Announce(x) /\ UNCHANGED <<wbatch, published, row, pc, batch>> /\ faults' = faults + 1
        BY <1>6 DEF Reannounce, Fault
    <2>2. \A b \in Bars : Owed(b)' = Owed(b)
        BY <2>1 DEF Owed
    <2> SUFFICES ASSUME NEW b \in Bars
                 PROVE  published'[b] + Copies(writeQ', b) + Copies(wbatch', b) + Owed(b)' <= 1 + faults'
        BY DEF Accounted
    <2>3. Copies(writeQ', b) \in Nat /\ Copies(writeQ', b) <= Copies(writeQ, b) + 1
        BY <1>1, <2>1, AnnounceCopies
    <2> QED
        BY <1>2, <2>1, <2>2, <2>3
<1>7. CASE WriterTakes
    <2>1. /\ wbatch = <<>> /\ wbatch' = writeQ /\ writeQ' = <<>>
          /\ UNCHANGED <<published, faults, row, pc, batch>>
        BY <1>7 DEF WriterTakes
    <2>2. \A b \in Bars : Owed(b)' = Owed(b)
        BY <2>1 DEF Owed
    <2>3. \A b \in Bars : Copies(writeQ', b) = Copies(wbatch, b) /\ Copies(wbatch', b) = Copies(writeQ, b)
        BY <2>1
    <2> QED
        BY <1>2, <2>1, <2>2, <2>3 DEF Accounted
<1>8. CASE WriterFlushes
    <2>1. /\ wbatch' = <<>> /\ UNCHANGED <<writeQ, published, pc, batch>>
          /\ \A b \in Bars : row'[b] = row[b] \/ (b \in ToSet(wbatch) /\ row'[b] = "pending")
        BY <1>8 DEF WriterFlushes
    <2>2. faults' \in Nat /\ faults' >= faults
        BY <1>1, <1>8, BarsAssumption DEF WriterFlushes, Fault, TypeOK
    <2> SUFFICES ASSUME NEW b \in Bars
                 PROVE  published'[b] + Copies(writeQ', b) + Copies(wbatch', b) + Owed(b)' <= 1 + faults'
        BY DEF Accounted
    <2>3. Copies(wbatch', b) = 0 /\ Copies(writeQ', b) = Copies(writeQ, b) /\ Owed(b)' \in {0, 1}
        BY <2>1, CopiesEmpty DEF Owed
    <2>4. b \in ToSet(wbatch) => Copies(wbatch, b) >= 1
        BY <1>1, CopiesFinite DEF TypeOK
    <2>5. b \notin ToSet(wbatch) => Owed(b)' = Owed(b)
        BY <2>1 DEF Owed
    <2> QED
        BY <1>2, <2>1, <2>2, <2>3, <2>4, <2>5
<1>9. CASE Claim
    <2>1. \A b \in Bars : row'[b] = row[b] \/ (row[b] = "pending" /\ row'[b] = "processing")
        BY <1>9 DEF Claim, Claimed, Pending
    <2>2. pc = "idle" /\ pc' = "window" /\ UNCHANGED <<writeQ, wbatch, published, faults>>
        BY <1>9 DEF Claim
    <2>3. \A b \in Bars : Owed(b)' = 1 => Owed(b) = 1
        BY <2>1, <2>2 DEF Owed
    <2> QED
        BY <1>1, <2>2, <2>3, CalmAccount
<1>10. CASE Each
    <2>1. UNCHANGED <<writeQ, wbatch, published>> /\ pc = "each" /\ batch # <<>>
        BY <1>10 DEF Each
    <2>2. CASE Fault
        BY <1>1, <2>1, <2>2, FaultAccount
    <2>3. CASE faults' = faults /\ \A b \in Bars : row'[b] = row[b] \/ row'[b] = "skipped"
        <3>1. pc' \in {"each", "publish", "fail"}
            BY <1>10 DEF Each
        <3>2. \A b \in Bars : Owed(b)' = 1 => Owed(b) = 1
            BY <2>1, <2>3, <3>1 DEF Owed
        <3> QED
            BY <1>1, <2>1, <2>3, <3>2, CalmAccount
    <2>4. MarkDone(Head(batch), "skipped") => \A b \in Bars : row'[b] = row[b] \/ row'[b] = "skipped"
        BY <1>1 DEF MarkDone, TypeOK
    <2> QED
        BY <1>10, <2>2, <2>3, <2>4 DEF Each
<1>11. CASE WriteBack
    <2>1. UNCHANGED <<writeQ, wbatch, row, batch>> /\ pc = "publish" /\ batch # <<>>
        BY <1>1, <1>11 DEF WriteBack, TypeOK
    <2>2. CASE Fault /\ published' = published
        BY <1>1, <2>1, <2>2, FaultAccount
    <2>3. CASE published' = [published EXCEPT ![Head(batch)] = @ + 1] /\ pc' = "mark" /\ faults' = faults
        <3>1. PICK h : h = Head(batch)
            OBVIOUS
        <3>2. h \in Bars /\ h = batch[1] /\ 1 \in DOMAIN batch
            BY <1>1, <2>1, <3>1, TailFacts DEF TypeOK
        <3>3. row[h] = "processing"
            BY <1>1, <2>1, <3>2 DEF BatchIsClaimed, Working
        <3>4. Owed(h) = 1 /\ Owed(h)' = 0
            BY <2>1, <2>3, <3>1, <3>3 DEF Owed
        <3>5. \A b \in Bars \ {h} : Owed(b)' = Owed(b)
            BY <2>1, <2>3, <3>1 DEF Owed
        <3>6. /\ published \in [Bars -> Nat] /\ published' = [published EXCEPT ![h] = @ + 1]
            BY <1>1, <2>3, <3>1 DEF TypeOK
        <3>7. published'[h] = published[h] + 1 /\ \A b \in Bars \ {h} : published'[b] = published[b]
            BY <3>2, <3>6
        <3>8. \A b \in Bars : published'[b] + Owed(b)' <= published[b] + Owed(b) + (faults' - faults)
            BY <1>2, <2>3, <3>2, <3>4, <3>5, <3>7
        <3> QED
            BY <1>1, <2>1, <3>8, LoopAccount
    <2>4. CASE published' = published /\ pc' = "mark" /\ faults' = faults
        <3>1. \A b \in Bars : Owed(b)' = 1 => Owed(b) = 1
            BY <2>1, <2>4 DEF Owed
        <3> QED
            BY <1>1, <2>1, <2>4, <3>1, CalmAccount
    <2> QED
        BY <1>11, <2>2, <2>3, <2>4 DEF WriteBack
<1>12. CASE MarkCompleted
    <2>1. UNCHANGED <<writeQ, wbatch, published>> /\ pc = "mark" /\ batch # <<>>
        BY <1>1, <1>12 DEF MarkCompleted, TypeOK
    <2>2. CASE Fault
        BY <1>1, <2>1, <2>2, FaultAccount
    <2>3. CASE MarkDone(Head(batch), "completed") /\ pc' = "each" /\ faults' = faults
        <3>1. PICK h : h = Head(batch)
            OBVIOUS
        <3>2. h \in Bars /\ h = batch[1] /\ 1 \in DOMAIN batch
            BY <1>1, <2>1, <3>1, TailFacts DEF TypeOK
        <3>3. row[h] = "processing"
            BY <1>1, <2>1, <3>2 DEF BatchIsClaimed, Working
        <3>4. row'[h] = "completed" /\ \A b \in Bars \ {h} : row'[b] = row[b]
            BY <1>1, <2>3, <3>1, <3>2, <3>3 DEF MarkDone, TypeOK
        <3>5. \A b \in Bars : Owed(b)' = 1 => Owed(b) = 1
            BY <2>1, <2>3, <3>1, <3>4 DEF Owed
        <3> QED
            BY <1>1, <2>1, <2>3, <3>5, CalmAccount
    <2> QED
        BY <1>12, <2>2, <2>3 DEF MarkCompleted
\* A failed event is owed already: it was claimed, or its group has failed.
<1>13. CASE Fail \/ FailAll
    <2>1. UNCHANGED <<writeQ, wbatch, published>> /\ batch # <<>> /\ pc \in {"fail", "failAll"}
        BY <1>1, <1>13 DEF Fail, FailAll, TypeOK
    <2>2. CASE Fault
        BY <1>1, <2>1, <2>2, FaultAccount
    <2>3. CASE MarkFailed(Head(batch)) /\ batch' = Tail(batch) /\ faults' = faults
               /\ pc' = (IF pc = "fail" THEN "each" ELSE "failAll")
        <3>1. PICK h : h = Head(batch)
            OBVIOUS
        <3>2. h \in Bars /\ h = batch[1] /\ 1 \in DOMAIN batch /\ ToSet(batch) = {h} \cup ToSet(batch')
            BY <1>1, <2>1, <2>3, <3>1, TailFacts DEF TypeOK
        <3>3. Owed(h) = 1
            BY <1>1, <2>1, <3>2 DEF BatchIsClaimed, Working, Owed
        <3>4. \A b \in Bars \ {h} : row'[b] = row[b]
            BY <1>1, <2>3, <3>1, <3>2 DEF MarkFailed, TypeOK
        <3>5. \A b \in Bars \ {h} : Owed(b)' = 1 => Owed(b) = 1
            BY <2>1, <2>3, <3>2, <3>4 DEF Owed
        <3> QED
            BY <1>1, <2>1, <2>3, <3>3, <3>5, CalmAccount
    <2> QED
        BY <1>13, <2>2, <2>3 DEF Fail, FailAll
<1>14. CASE EndBatch
    <2>1. UNCHANGED <<writeQ, wbatch, published, faults, row, batch>> /\ pc \in {"each", "failAll"} /\ pc' = "after"
        BY <1>14 DEF EndBatch
    <2>2. \A b \in Bars : Owed(b)' = 1 => Owed(b) = 1
        BY <2>1 DEF Owed
    <2> QED
        BY <1>1, <2>1, <2>2, CalmAccount
<1>15. CASE Cleanup
    <2>1. \A b \in Bars : row'[b] = row[b] \/ row'[b] = "none"
        BY <1>15 DEF Cleanup
    <2>2. UNCHANGED <<writeQ, wbatch, published, faults, batch, pc>>
        BY <1>15 DEF Cleanup
    <2>3. \A b \in Bars : Owed(b)' = 1 => Owed(b) = 1
        BY <2>1, <2>2 DEF Owed
    <2> QED
        BY <1>1, <2>2, <2>3, CalmAccount
<1>16. CASE ReconcileWrites \/ QueryWrites \/ Window
    <2>1. /\ UNCHANGED <<writeQ, wbatch, published, row, batch>>
          /\ \/ pc = "reconcile" /\ pc' = "idle"
             \/ pc' = pc
             \/ pc = "window" /\ pc' = "each"
             \/ Fault
          /\ Fault \/ UNCHANGED faults
        BY <1>16 DEF ReconcileWrites, QueryWrites, ShowClosed, Window
    <2>a. CASE Fault
        BY <1>1, <2>1, <2>a, FaultAccount
    <2>b. CASE ~Fault
        <3>1. \A b \in Bars : Owed(b)' = Owed(b)
            BY <2>1, <2>b DEF Owed
        <3> QED
            BY <1>1, <2>1, <2>b, <3>1, CalmAccount
    <2> QED
        BY <2>a, <2>b
<1>17. CASE Start
    <2>1. \A b \in Bars : row'[b] = row[b] \/ (row[b] = "processing" /\ row'[b] = "pending")
        BY <1>17 DEF Start, ResetProcessing
    <2>2. UNCHANGED <<writeQ, wbatch, published, faults, batch>> /\ pc = "none" /\ pc' = "idle"
        BY <1>17 DEF Start
    <2>3. \A b \in Bars : Owed(b)' = 1 => Owed(b) = 1
        BY <2>1, <2>2 DEF Owed
    <2> QED
        BY <1>1, <2>2, <2>3, CalmAccount
<1>18. CASE Crash
    <2>1. writeQ' = <<>> /\ wbatch' = <<>> /\ published' = published /\ faults' = faults + 1
        BY <1>18 DEF Crash, Fault
    <2>2. \A b \in Bars : Copies(writeQ', b) = 0 /\ Copies(wbatch', b) = 0 /\ Owed(b)' \in {0, 1}
        BY <2>1, CopiesEmpty DEF Owed
    <2> QED
        BY <1>2, <2>1, <2>2 DEF Accounted
<1> QED
    BY <1>3, <1>4, <1>5, <1>6, <1>7, <1>8, <1>9, <1>10, <1>11, <1>12, <1>13, <1>14, <1>15, <1>16,
       <1>17, <1>18 DEF Next, Writer, EventLoop

\* The inductive invariant holds in every reachable state.
LEMMA BarsInvariant == Spec => []BarsInv
<1>1. BarsInv /\ [Next]_vars => BarsInv'
    BY ShapeStep, ClaimsStep, CountsStep, AccountStep DEF BarsInv, Shape, Claims
<1> QED
    BY BarsInit, <1>1, PTL DEF Spec

-----------------------------------------------------------------------------
(* The results.                                                            *)

\* Statuses are true: no error path leaves a claimed event nobody settles, an
\* event is completed only when its snapshot was published or there was nothing
\* to publish, for its bar or for a fault of its own, and it fails for good only
\* after MaxRetries errors; every variable of the pipeline keeps its type
\* (bar_event_handler.py, event_store.py).
THEOREM StatusesHold == Spec => []StatusesAreTrue
<1>1. BarsInv => StatusesAreTrue
    BY DEF BarsInv, StatusesAreTrue, CompletedIsPublished, ProcessingIsInHand, FailedIsTired, MuteIsFaulty, Given
<1> QED
    BY <1>1, BarsInvariant, PTL

\* The event path publishes a bar again only for a fault, and a fault costs at
\* most one repetition of a bar, although an error fails the whole group again,
\* with the events of it that were completed (process_closed_bar_events_batch).
THEOREM RepeatsHaveCauses == Spec => []RepeatsAreCaused
<1>1. BarsInv => RepeatsAreCaused
    <2> SUFFICES ASSUME BarsInv, NEW b \in Bars PROVE published[b] <= 1 + faults
        BY DEF RepeatsAreCaused
    <2>1. /\ published[b] \in Nat /\ faults \in Nat /\ Owed(b) \in {0, 1}
          /\ Copies(writeQ, b) \in Nat /\ Copies(wbatch, b) \in Nat
        BY AccountTypes DEF BarsInv
    <2>2. published[b] + Copies(writeQ, b) + Copies(wbatch, b) + Owed(b) <= 1 + faults
        BY DEF BarsInv, Accounted
    <2> QED
        BY <2>1, <2>2
<1> QED
    BY <1>1, BarsInvariant, PTL
=============================================================================
