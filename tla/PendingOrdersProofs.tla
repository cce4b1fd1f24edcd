-------------------------- MODULE PendingOrdersProofs --------------------------
(***************************************************************************)
(* Proofs about pending orders, for any set of entry groups, members,      *)
(* directions and strategies, and any number of sweeps and faults.         *)
(***************************************************************************)
EXTENDS PendingOrders, TLAPS

-----------------------------------------------------------------------------
(* The parts of the inductive invariant.                                   *)

\* The two statements RowsAreTrue adds to the types.
RowsTell ==
    \A k \in Orders \ presumed :
        /\ row[k] \in {"expired", "cancelled"} => broker[k] = "removed"
        /\ row[k] \in {"missing", "filled"} => broker[k] # "live"

\* An order the broker has not accepted is known to nobody.
Unknown ==
    \A k \in Orders :
        broker[k] = "none" =>
            /\ row[k] = "none" /\ k \notin tracked /\ xcur # k /\ mcur # k
            /\ \A c \in Cancellers : k \notin sweep[c] /\ hit[c] # k
            /\ k \notin rtodo /\ k \notin rlive

\* Members not yet placed, those of the group being submitted included.
Unplaced ==
    /\ \A k \in Orders : k[1] \notin submitted \/ k \in xtodo => broker[k] = "none"
    /\ \A k \in xtodo : k[1] = xsig /\ k[1] \in submitted

\* The member between its acceptance and its row.
Placing ==
    /\ xpc \in {"track", "record"} => xcur \in Orders /\ xcur[1] = xsig
    /\ xpc = "record" /\ broker[xcur] = "live" => xcur \in tracked

\* What a thread is about to write is already so at the broker.
Confirmed ==
    /\ \A c \in Cancellers : hit[c] # None => broker[hit[c]] = "removed"
    /\ mpc = "settle" => mcur \in Orders /\ broker[mcur] # "live" /\ mseen \in {"filled", "missing"}
    /\ mpc = "drop" => mcur \in Orders /\ broker[mcur] = "removed"

\* Recovery has yet to come to the live orders nobody watches.
Recovering ==
    rpc \in {"live", "related", "rows"} =>
        \A k \in Orders : broker[k] = "live" /\ row[k] = "placed" => k \in tracked \cup rtodo

\* Until a crash the manager watches every live order it was told of, and while
\* a group is submitted no other group of its strategy is live.
Watching ==
    ~reborn => \A k \in Orders \ stray :
        broker[k] = "live" => k \in tracked \/ (xpc = "track" /\ xcur = k)
Alone ==
    ~reborn /\ xpc # "idle" => \A k \in Orders \ stray :
        broker[k] = "live" /\ Strategy(k) = StrategyOf[xsig] => k[1] = xsig

OrdersInv ==
    /\ TypeOK /\ RowsTell /\ Unknown /\ Unplaced /\ Placing /\ Confirmed
    /\ Recovering /\ LiveOrdersAreWatched /\ Watching /\ Alone /\ OneLiveGroupPerStrategy
-----------------------------------------------------------------------------
(* Orders, and how the broker's state of one can change.                   *)

\* An order is a member of its group.
LEMMA OrderFacts ==
    /\ \A k \in Orders : k[1] \in Groups /\ k # None /\ k \in {k[1]} \X MembersOf[k[1]]
    /\ \A g \in Groups : {g} \X MembersOf[g] \subseteq Orders /\ \A k \in {g} \X MembersOf[g] : k[1] = g
BY NoneAssumption DEF Orders

\* Faults and sweeps stay within their bounds.
LEMMA BoundsStep == ASSUME TypeOK, Next PROVE faults' \in 0..MaxFaults /\ sweeps' \in 0..MaxSweeps
<1>0. faults \in 0..MaxFaults /\ sweeps \in 0..MaxSweeps /\ MaxFaults \in Nat /\ MaxSweeps \in Nat
    BY BoundsAssumption DEF TypeOK
<1>a. Fault => faults' \in 0..MaxFaults
    BY <1>0 DEF Fault
<1>b. sweeps < MaxSweeps /\ sweeps' = sweeps + 1 => sweeps' \in 0..MaxSweeps
    BY <1>0
<1> USE DEF store, executor, cancel, monitor, recovery, history, Rest
<1>1. CASE Environment
    BY <1>0, <1>1, Zenon DEF Environment, Fill, RemovedElsewhere, PositionCloses, PositionTracked
<1>2. CASE \E g \in Groups : Submit(g) \/ RejectDuplicate(g)
    BY <1>0, <1>2, Zenon DEF Submit, Accept, RejectDuplicate
<1>3. CASE Submission
    BY <1>0, <1>3, <1>a, Zenon DEF Submission, Override, Track, Record, EndSubmit, Place, WriteRaises
<1>4. CASE OperatorSweep
    BY <1>0, <1>4, <1>b, Zenon DEF OperatorSweep
<1>5. CASE \E c \in Cancellers : Sweeping(c)
    BY <1>0, <1>5, <1>a, Zenon DEF Sweeping, SweepDrop, SweepCancel, Write, WriteRaises, BrokerCancel
<1>6. CASE MonitorLoop
    BY <1>0, <1>6, <1>a, Zenon DEF MonitorLoop, Settle, DropExpired, Inspect, CancelExpired, Concludes, Write,
       WriteRaises, BrokerCancel
<1>7. CASE StartManager \/ RecoveryAborts \/ StopManager \/ Crash
    BY <1>0, <1>7, <1>a, Zenon DEF StartManager, RecoveryAborts, StopManager, Crash
<1>8. CASE Recovery
    BY <1>0, <1>8, <1>a, Zenon DEF Recovery, ReadStates, ReadLive, ReadRelated, FinishRecovery, Recover, Restore,
       RecoverSibling, RecoverLive, RecoverGone, BrokerCancel
<1> QED
    BY <1>1, <1>2, <1>3, <1>4, <1>5, <1>6, <1>7, <1>8, Zenon DEF Next

\* An accepted order only moves on; only Place makes one live.
Moves ==
    /\ broker' \in [Orders -> {"none", "live", "filled", "closed", "removed"}]
    /\ \A k \in Orders :
          /\ broker[k] = "none" /\ broker'[k] # "none" => Place(k) /\ broker'[k] = "live" /\ k \in xtodo
          /\ broker[k] # "none" => broker'[k] # "none"
          /\ broker[k] \notin {"none", "live"} => broker'[k] # "live"
          /\ broker[k] = "removed" => broker'[k] = "removed"

\* What a cancel leaves behind.
LEMMA CancelFacts ==
    ASSUME TypeOK, NEW k \in Orders, NEW a, BrokerCancel(k, a)
    PROVE  /\ broker' \in [Orders -> {"none", "live", "filled", "closed", "removed"}]
           /\ \A j \in Orders : broker'[j] = broker[j] \/ (broker[j] = "live" /\ broker'[j] = "removed")
           /\ TicketInResult(a) => broker'[k] = "removed" /\ broker[k] = "live"
BY DEF TypeOK, BrokerCancel, TicketInResult

\* What any step may do to the broker's orders and the rows.
LEMMA BrokerMoves == ASSUME OrdersInv, Next PROVE Moves
<1>0. TypeOK /\ Unplaced /\ broker \in [Orders -> {"none", "live", "filled", "closed", "removed"}]
    BY DEF OrdersInv, TypeOK
<1> USE DEF store, executor, cancel, monitor, recovery, history, Rest
<1>a. ASSUME UNCHANGED broker PROVE Moves
    BY <1>0, <1>a DEF Moves
<1>b. ASSUME NEW k \in Orders, NEW a, BrokerCancel(k, a) PROVE Moves
    BY <1>0, <1>b, CancelFacts DEF Moves
<1>1. CASE Environment
    <2>1. ASSUME NEW k \in Orders, Fill(k) PROVE Moves
        BY <1>0, <2>1 DEF Fill, Moves
    <2>2. ASSUME NEW k \in Orders, RemovedElsewhere(k) PROVE Moves
        BY <1>0, <2>2 DEF RemovedElsewhere, Moves
    <2>3. ASSUME NEW k \in Orders, PositionCloses(k) PROVE Moves
        BY <1>0, <2>3 DEF PositionCloses, Moves
    <2>4. ASSUME NEW k \in Orders, PositionTracked(k) PROVE Moves
        BY <1>a, <2>4 DEF PositionTracked
    <2> QED
        BY <1>1, <2>1, <2>2, <2>3, <2>4 DEF Environment
<1>2. CASE \E g \in Groups : Submit(g) \/ RejectDuplicate(g)
    BY <1>2, <1>a, Zenon DEF Submit, Accept, RejectDuplicate
<1>3. CASE Override \/ Track \/ Record \/ EndSubmit
    BY <1>3, <1>a, Zenon DEF Override, Track, Record, EndSubmit
<1>4. ASSUME NEW k \in Orders, Place(k) PROVE Moves
    <2>1. k \in xtodo /\ broker[k] = "none"
        BY <1>0, <1>4 DEF Place, Unplaced
    <2>2. UNCHANGED broker \/ broker' = [broker EXCEPT ![k] = "live"]
        BY <1>4 DEF Place
    <2> QED
        BY <1>0, <1>4, <1>a, <2>1, <2>2 DEF Moves
<1>5. CASE OperatorSweep
    BY <1>5, <1>a DEF OperatorSweep
<1>6. CASE \E c \in Cancellers : Sweeping(c)
    BY <1>6, <1>a, <1>b, Zenon DEF Sweeping, SweepDrop, SweepCancel
<1>7. CASE MonitorLoop
    BY <1>7, <1>a, <1>b, Zenon DEF MonitorLoop, Settle, DropExpired, Inspect, CancelExpired
<1>8. CASE StartManager \/ RecoveryAborts \/ StopManager \/ Crash
    BY <1>8, <1>a, Zenon DEF StartManager, RecoveryAborts, StopManager, Crash
<1>9. CASE Recovery
    BY <1>9, <1>a, <1>b, Zenon DEF Recovery, ReadStates, ReadLive, ReadRelated, FinishRecovery, Recover,
       RecoverSibling, RecoverLive, RecoverGone
<1> QED
    BY <1>1, <1>2, <1>3, <1>4, <1>5, <1>6, <1>7, <1>8, <1>9, Zenon DEF Next, Submission
-----------------------------------------------------------------------------
(* Types.                                                                  *)

RestTypes ==
    /\ tracked \subseteq Orders /\ submitted \subseteq Groups
    /\ xpc \in {"idle", "override", "place", "track", "record"}
    /\ xsig \in Groups \cup {None} /\ xtodo \subseteq Orders
    /\ xcur \in Orders \cup {None}
    /\ mpc \in {"off", "idle", "settle", "drop"}
    /\ mcur \in Orders \cup {None} /\ mseen \in {"filled", "missing", None}
    /\ rpc \in {"idle", "states", "live", "related", "rows"}
    /\ rtodo \subseteq Orders /\ rlive \subseteq Orders /\ rfilled \subseteq Groups
    /\ presumed \subseteq Orders /\ stray \subseteq Orders /\ behind \subseteq Orders
    /\ blind \in BOOLEAN /\ reborn \in BOOLEAN
SweepTypes ==
    sweep \in [Cancellers -> SUBSET Orders] /\ hit \in [Cancellers -> Orders \cup {None}]

\* Every step keeps the types.
LEMMA TypeStep == ASSUME OrdersInv, Next PROVE TypeOK'
<1>0. TypeOK /\ RestTypes /\ SweepTypes /\ row \in [Orders -> Rows] /\ Confirmed /\ Placing
    BY Zenon DEF OrdersInv, TypeOK, RestTypes, SweepTypes
<1>a. /\ faults' \in 0..MaxFaults /\ sweeps' \in 0..MaxSweeps
      /\ broker' \in [Orders -> {"none", "live", "filled", "closed", "removed"}]
    BY <1>0, BoundsStep, BrokerMoves, Zenon DEF Moves
<1>b. ASSUME RestTypes', SweepTypes', row' \in [Orders -> Rows] PROVE TypeOK'
    BY <1>a, <1>b, Zenon DEF TypeOK, RestTypes, SweepTypes
<1>c. \A k \in Orders, s \in Rows : [row EXCEPT ![k] = s] \in [Orders -> Rows]
    BY <1>0
<1>d. {"placed", "filled", "expired", "cancelled", "missing", "orphan"} \subseteq Rows
    BY DEF Rows
<1>e. "executor" \in Cancellers /\ "operator" \in Cancellers
    BY DEF Cancellers
<1> USE DEF store, executor, cancel, monitor, recovery, history, Rest
<1>1. CASE Environment
    <2>1. UNCHANGED <<tracked, executor, cancel, monitor, recovery, history>>
        BY <1>1, Zenon DEF Environment, Fill, RemovedElsewhere, PositionCloses, PositionTracked
    <2>2. row' \in [Orders -> Rows]
        <3>1. \A k \in Orders : [row EXCEPT ![k] = "filled"] \in [Orders -> Rows]
            BY <1>c, <1>d
        <3> QED
            BY <1>0, <1>1, <3>1, Zenon DEF Environment, Fill, RemovedElsewhere, PositionCloses, PositionTracked
    <2>3. RestTypes' /\ SweepTypes'
        BY <1>0, <2>1 DEF RestTypes, SweepTypes
    <2> QED
        BY <1>b, <2>2, <2>3
<1>2. ASSUME NEW g \in Groups, Submit(g) \/ RejectDuplicate(g) PROVE TypeOK'
    <2>1. {g} \X MembersOf[g] \subseteq Orders
        BY OrderFacts
    <2>2. RestTypes' /\ SweepTypes' /\ row' \in [Orders -> Rows]
        BY <1>0, <1>2, <2>1 DEF Submit, Accept, RejectDuplicate, RestTypes, SweepTypes
    <2> QED
        BY <1>b, <2>2
<1>3. CASE Override
    <2>1. RestTypes' /\ row' \in [Orders -> Rows]
        BY <1>0, <1>3 DEF Override, RestTypes
    <2>2. SweepTypes'
        BY <1>0, <1>3, <1>e DEF Override, RestTypes, SweepTypes
    <2> QED
        BY <1>b, <2>1, <2>2
<1>4. CASE Track \/ EndSubmit
    BY <1>0, <1>4, <1>b DEF Track, EndSubmit, RestTypes, SweepTypes, Placing
<1>5. CASE Record
    <2>1. xcur \in Orders
        BY <1>0, <1>5 DEF Record, Placing
    <2>2. row' \in [Orders -> Rows]
        BY <1>0, <1>5, <1>c, <1>d, <2>1 DEF Record, WriteRaises
    <2>3. RestTypes' /\ SweepTypes'
        BY <1>0, <1>5, <2>1 DEF Record, WriteRaises, RestTypes, SweepTypes
    <2> QED
        BY <1>b, <2>2, <2>3
<1>6. ASSUME NEW k \in Orders, Place(k) PROVE TypeOK'
    BY <1>0, <1>6, <1>b DEF Place, RestTypes, SweepTypes
<1>7. CASE OperatorSweep
    <2>1. RestTypes' /\ row' \in [Orders -> Rows]
        BY <1>0, <1>7 DEF OperatorSweep, RestTypes
    <2>2. SweepTypes'
        BY <1>0, <1>7, <1>e DEF OperatorSweep, RestTypes, SweepTypes
    <2> QED
        BY <1>b, <2>1, <2>2
<1>8. ASSUME NEW c \in Cancellers, SweepDrop(c) PROVE TypeOK'
    <2>1. hit[c] \in Orders
        BY <1>0, <1>8 DEF SweepDrop, SweepTypes
    <2>2. row' \in [Orders -> Rows]
        BY <1>0, <1>8, <1>c, <1>d, <2>1 DEF SweepDrop, Write, WriteRaises
    <2>3. RestTypes' /\ SweepTypes'
        BY <1>0, <1>8, <2>1 DEF SweepDrop, Write, WriteRaises, RestTypes, SweepTypes
    <2> QED
        BY <1>b, <2>2, <2>3
<1>9. ASSUME NEW c \in Cancellers, NEW k \in Orders, SweepCancel(c, k) PROVE TypeOK'
    <2>1. RestTypes' /\ row' \in [Orders -> Rows]
        BY <1>0, <1>9 DEF SweepCancel, RestTypes
    <2>2. SweepTypes'
        BY <1>0, <1>9 DEF SweepCancel, SweepTypes
    <2> QED
        BY <1>b, <2>1, <2>2
<1>10. CASE Settle \/ DropExpired
    <2>1. mcur \in Orders /\ (mseen \in {"filled", "missing"} \/ mpc = "drop")
        BY <1>0, <1>10 DEF Settle, DropExpired, Confirmed
    <2>2. row' \in [Orders -> Rows]
        BY <1>0, <1>10, <1>c, <1>d, <2>1 DEF Settle, DropExpired, Write, WriteRaises
    <2>3. RestTypes' /\ SweepTypes'
        BY <1>0, <1>10, <2>1 DEF Settle, DropExpired, Write, WriteRaises, RestTypes, SweepTypes
    <2> QED
        BY <1>b, <2>2, <2>3
<1>11. ASSUME NEW k \in Orders, Inspect(k) \/ CancelExpired(k) PROVE TypeOK'
    <2>1. row' \in [Orders -> Rows]
        BY <1>0, <1>11, <1>c, <1>d DEF Inspect, Concludes, CancelExpired
    <2>2. RestTypes' /\ SweepTypes'
        BY <1>0, <1>11 DEF Inspect, CancelExpired, RestTypes, SweepTypes
    <2> QED
        BY <1>b, <2>1, <2>2
<1>12. CASE StartManager \/ StopManager
    <2>1. RestTypes' /\ SweepTypes' /\ row' \in [Orders -> Rows]
        BY <1>0, <1>12, Zenon DEF StartManager, StopManager, RestTypes, SweepTypes
    <2> QED
        BY <1>b, <2>1
<1>13. CASE RecoveryAborts
    <2>1. RestTypes' /\ SweepTypes' /\ row' \in [Orders -> Rows]
        BY <1>0, <1>13, Zenon DEF RecoveryAborts, RecoveryEnds, RestTypes, SweepTypes
    <2> QED
        BY <1>b, <2>1
<1>14. CASE Crash
    <2>1. SweepTypes' /\ row' \in [Orders -> Rows]
        BY <1>0, <1>14 DEF Crash, SweepTypes
    <2>2. RestTypes'
        BY <1>0, <1>14, Zenon DEF Crash, RecoveryEnds, RestTypes
    <2> QED
        BY <1>b, <2>1, <2>2
<1>15. CASE ReadStates \/ ReadLive \/ FinishRecovery
    <2>1. row' \in [Orders -> Rows]
        BY <1>0, <1>15, <1>d DEF ReadStates, ReadLive, FinishRecovery
    <2>2. RestTypes' /\ SweepTypes'
        BY <1>0, <1>15 DEF ReadStates, ReadLive, FinishRecovery, RecoveryEnds, RestTypes, SweepTypes
    <2> QED
        BY <1>b, <2>1, <2>2
<1>16. CASE ReadRelated
    <2>1. rfilled' \subseteq Groups
        BY <1>0, <1>16, OrderFacts DEF ReadRelated, RestTypes
    <2>2. RestTypes' /\ SweepTypes' /\ row' \in [Orders -> Rows]
        BY <1>0, <1>16, <2>1 DEF ReadRelated, RestTypes, SweepTypes
    <2> QED
        BY <1>b, <2>2
<1>17. ASSUME NEW k \in Orders, Recover(k) PROVE TypeOK'
    <2>1. row' \in [Orders -> Rows]
        BY <1>0, <1>17, <1>c, <1>d, Zenon DEF Recover, RecoverSibling, RecoverLive, RecoverGone, Restore
    <2>2. tracked' \in {tracked, tracked \cup {k}} /\ presumed' \in {presumed, presumed \cup {k}}
        BY <1>17 DEF Recover, RecoverSibling, RecoverLive, RecoverGone, Restore
    <2>3. RestTypes' /\ SweepTypes'
        BY <1>0, <1>17, <2>2 DEF Recover, RestTypes, SweepTypes
    <2> QED
        BY <1>b, <2>1, <2>3
<1> QED
    BY <1>1, <1>2, <1>3, <1>4, <1>5, <1>6, <1>7, <1>8, <1>9, <1>10, <1>11, <1>12, <1>13, <1>14, <1>15, <1>16,
       <1>17, Zenon DEF Next, Submission, Sweeping, MonitorLoop, Recovery
-----------------------------------------------------------------------------
(* What is not accepted is unknown, and what is written is so.             *)

\* Every step keeps an order the broker has not accepted unknown.
LEMMA UnknownStep == ASSUME OrdersInv, Next PROVE Unknown'
<1>0. Unknown /\ Moves /\ RestTypes /\ SweepTypes /\ row \in [Orders -> Rows] /\ Confirmed /\ Placing
    BY BrokerMoves, Zenon DEF OrdersInv, TypeOK, RestTypes, SweepTypes
<1> SUFFICES ASSUME NEW k \in Orders, broker'[k] = "none"
             PROVE  (/\ row[k] = "none" /\ k \notin tracked /\ xcur # k /\ mcur # k
                     /\ \A c \in Cancellers : k \notin sweep[c] /\ hit[c] # k
                     /\ k \notin rtodo /\ k \notin rlive)'
    BY DEF Unknown
<1>a. broker[k] = "none"
    BY <1>0 DEF Moves
<1>b. /\ row[k] = "none" /\ k \notin tracked /\ xcur # k /\ mcur # k
      /\ \A c \in Cancellers : k \notin sweep[c] /\ hit[c] # k
      /\ k \notin rtodo /\ k \notin rlive
    BY <1>0, <1>a DEF Unknown
<1>c. k # None
    BY OrderFacts
<1>d. \A j \in Orders, s \in Rows : row' = [row EXCEPT ![j] = s] /\ j # k => row'[k] = row[k]
    BY <1>0
<1>e. "executor" \in Cancellers /\ "operator" \in Cancellers
    BY DEF Cancellers
<1>f. {"placed", "filled", "expired", "cancelled", "missing", "orphan"} \subseteq Rows
    BY DEF Rows
<1> USE DEF store, executor, cancel, monitor, recovery, history, Rest
<1>1. CASE Environment
    <2>1. UNCHANGED <<tracked, executor, cancel, monitor, recovery, history>>
        BY <1>1, Zenon DEF Environment, Fill, RemovedElsewhere, PositionCloses, PositionTracked
    <2>2. ASSUME NEW j \in Orders, PositionTracked(j) PROVE row'[k] = row[k]
        BY <1>0, <1>a, <2>2 DEF PositionTracked
    <2>3. row'[k] = row[k]
        BY <1>1, <2>2 DEF Environment, Fill, RemovedElsewhere, PositionCloses
    <2> QED
        BY <1>b, <2>1, <2>3
<1>2. CASE \E g \in Groups : Submit(g) \/ RejectDuplicate(g)
    BY <1>b, <1>2 DEF Submit, Accept, RejectDuplicate
<1>3. CASE Override
    BY <1>0, <1>b, <1>3, <1>e DEF Override, SweepTypes
<1>4. CASE Track \/ EndSubmit
    BY <1>b, <1>4 DEF Track, EndSubmit
<1>5. CASE Record
    <2>1. xcur \in Orders /\ xcur # k
        BY <1>0, <1>b, <1>5 DEF Record, Placing
    <2>2. row'[k] = row[k]
        BY <1>0, <1>5, <2>1 DEF Record, WriteRaises
    <2> QED
        BY <1>b, <1>c, <1>5, <2>2 DEF Record
<1>6. ASSUME NEW j \in Orders, Place(j) PROVE xcur' # k
    <2>1. CASE xcur' = j /\ broker' = [broker EXCEPT ![j] = "live"]
        BY <1>0, <2>1 DEF Moves
    <2> QED
        BY <1>b, <1>6, <2>1 DEF Place
<1>7. ASSUME NEW j \in Orders, Place(j)
      PROVE  UNCHANGED <<row, tracked, sweep, hit, mcur, rtodo, rlive>>
    BY <1>7 DEF Place
<1>8. CASE OperatorSweep
    BY <1>0, <1>b, <1>8, <1>e DEF OperatorSweep, SweepTypes
<1>9. ASSUME NEW c \in Cancellers, SweepDrop(c)
      PROVE  (/\ row[k] = "none" /\ k \notin tracked /\ xcur # k /\ mcur # k
              /\ \A d \in Cancellers : k \notin sweep[d] /\ hit[d] # k
              /\ k \notin rtodo /\ k \notin rlive)'
    <2>1. hit[c] \in Orders /\ hit[c] # k
        BY <1>0, <1>b, <1>9 DEF SweepDrop, SweepTypes
    <2>2. row'[k] = row[k]
        BY <1>0, <1>9, <2>1 DEF SweepDrop, Write, WriteRaises
    <2> QED
        BY <1>0, <1>b, <1>c, <1>9, <2>2 DEF SweepDrop, SweepTypes
<1>10. ASSUME NEW c \in Cancellers, NEW j \in Orders, SweepCancel(c, j)
      PROVE  (/\ row[k] = "none" /\ k \notin tracked /\ xcur # k /\ mcur # k
              /\ \A d \in Cancellers : k \notin sweep[d] /\ hit[d] # k
              /\ k \notin rtodo /\ k \notin rlive)'
    <2>1. j # k
        BY <1>b, <1>10 DEF SweepCancel
    <2> QED
        BY <1>0, <1>b, <1>c, <1>10, <2>1 DEF SweepCancel, SweepTypes
<1>11. CASE Settle \/ DropExpired
    <2>1. mcur \in Orders /\ mcur # k
        BY <1>0, <1>b, <1>11 DEF Settle, DropExpired, Confirmed
    <2>2. row'[k] = row[k]
        BY <1>0, <1>11, <2>1 DEF Settle, DropExpired, Write, WriteRaises
    <2> QED
        BY <1>b, <1>c, <1>11, <2>2 DEF Settle, DropExpired
<1>12. ASSUME NEW j \in Orders, Inspect(j) \/ CancelExpired(j)
      PROVE  (/\ row[k] = "none" /\ k \notin tracked /\ xcur # k /\ mcur # k
              /\ \A d \in Cancellers : k \notin sweep[d] /\ hit[d] # k
              /\ k \notin rtodo /\ k \notin rlive)'
    <2>1. j # k
        BY <1>b, <1>12 DEF Inspect, CancelExpired
    <2>2. row'[k] = row[k]
        BY <1>0, <1>12, <2>1 DEF Inspect, CancelExpired, Concludes
    <2> QED
        BY <1>b, <1>12, <2>1, <2>2 DEF Inspect, CancelExpired
<1>13. CASE StartManager \/ RecoveryAborts \/ StopManager
    BY <1>b, <1>13 DEF StartManager, RecoveryAborts, StopManager, RecoveryEnds
<1>14. CASE Crash
    BY <1>b, <1>c, <1>14 DEF Crash, RecoveryEnds
<1>15. CASE ReadStates \/ ReadLive \/ ReadRelated
    BY <1>a, <1>b, <1>15 DEF ReadStates, ReadLive, ReadRelated
<1>16. CASE FinishRecovery
    BY <1>b, <1>16 DEF FinishRecovery, RecoveryEnds
<1>17. ASSUME NEW j \in Orders, Recover(j)
      PROVE  (/\ row[k] = "none" /\ k \notin tracked /\ xcur # k /\ mcur # k
              /\ \A d \in Cancellers : k \notin sweep[d] /\ hit[d] # k
              /\ k \notin rtodo /\ k \notin rlive)'
    <2>1. j # k
        BY <1>b, <1>17 DEF Recover
    <2>2. row'[k] = row[k] /\ tracked' \in {tracked, tracked \cup {j}}
        BY <1>0, <1>17, <2>1 DEF Recover, RecoverSibling, RecoverLive, RecoverGone, Restore
    <2> QED
        BY <1>b, <1>17, <2>1, <2>2 DEF Recover
<1> QED
    BY <1>b, <1>1, <1>2, <1>3, <1>4, <1>5, <1>6, <1>7, <1>8, <1>9, <1>10, <1>11, <1>12, <1>13, <1>14, <1>15, <1>16,
       <1>17 DEF Next, Submission, Sweeping, MonitorLoop, Recovery

\* Members that are still to be placed are not at the broker.
LEMMA UnplacedStep == ASSUME OrdersInv, Next PROVE Unplaced'
<1>0. Unplaced /\ Moves /\ RestTypes
    BY BrokerMoves, Zenon DEF OrdersInv, TypeOK, RestTypes
<1> USE DEF store, executor, cancel, monitor, recovery, history, Rest
<1>1. ASSUME NEW g \in Groups, Submit(g) PROVE Unplaced'
    <2>1. /\ g \notin submitted /\ submitted' = submitted \cup {g} /\ UNCHANGED broker
          /\ xsig' = g /\ xtodo' = {g} \X MembersOf[g]
        BY <1>1 DEF Submit, Accept
    <2>2. \A k \in xtodo' : k[1] = g
        BY <2>1, OrderFacts
    <2> QED
        BY <1>0, <2>1, <2>2 DEF Unplaced
<1>2. ASSUME NEW g \in Groups, RejectDuplicate(g) PROVE Unplaced'
    BY <1>0, <1>2 DEF RejectDuplicate, Unplaced
<1>3. ASSUME NEW k \in Orders, Place(k) PROVE Unplaced'
    <2>1. /\ k \in xtodo /\ xtodo' = xtodo \ {k} /\ UNCHANGED <<submitted, xsig>>
          /\ UNCHANGED broker \/ broker' = [broker EXCEPT ![k] = "live"]
        BY <1>3 DEF Place
    <2>2. \A j \in Orders : j # k => broker'[j] = broker[j]
        BY <2>1, <1>0 DEF Moves
    <2>3. k[1] \in submitted
        BY <1>0, <2>1 DEF Unplaced
    <2> QED
        BY <1>0, <2>1, <2>2, <2>3 DEF Unplaced
<1>4. CASE EndSubmit
    BY <1>0, <1>4 DEF EndSubmit, Unplaced
<1>5. CASE Crash
    BY <1>0, <1>5 DEF Crash, Unplaced
<1>6. ASSUME UNCHANGED <<submitted, xtodo, xsig>>, \A k \in Orders : ~Place(k) PROVE Unplaced'
    <2>1. \A k \in Orders : broker[k] = "none" => broker'[k] = "none"
        BY <1>0, <1>6 DEF Moves
    <2> QED
        BY <1>0, <1>6, <2>1 DEF Unplaced
<1>7. CASE Environment
    BY <1>6, <1>7, <1>3, Zenon DEF Environment, Fill, RemovedElsewhere, PositionCloses, PositionTracked
<1>8. CASE Override \/ Track \/ Record \/ OperatorSweep
    BY <1>6, <1>8, <1>3, Zenon DEF Override, Track, Record, OperatorSweep
<1>9. CASE \E c \in Cancellers : Sweeping(c)
    BY <1>6, <1>9, <1>3, Zenon DEF Sweeping, SweepDrop, SweepCancel
<1>10. CASE MonitorLoop
    BY <1>6, <1>10, <1>3, Zenon DEF MonitorLoop, Settle, DropExpired, Inspect, CancelExpired
<1>11. CASE StartManager \/ RecoveryAborts \/ StopManager
    BY <1>6, <1>11, <1>3, Zenon DEF StartManager, RecoveryAborts, StopManager
<1>12. CASE Recovery
    BY <1>6, <1>12, <1>3, Zenon DEF Recovery, ReadStates, ReadLive, ReadRelated, FinishRecovery, Recover
<1> QED
    BY <1>1, <1>2, <1>3, <1>4, <1>5, <1>7, <1>8, <1>9, <1>10, <1>11, <1>12, Zenon DEF Next, Submission

\* Every step keeps what the threads are about to write true.
LEMMA PlacingStep == ASSUME OrdersInv, Next PROVE Placing' /\ Confirmed'
<1>0. Placing /\ Confirmed /\ Unknown /\ Unplaced /\ Moves /\ RestTypes /\ SweepTypes /\ TypeOK
    BY BrokerMoves, Zenon DEF OrdersInv, TypeOK, RestTypes, SweepTypes
<1>a. /\ \A k \in Orders : broker[k] = "removed" => broker'[k] = "removed"
      /\ \A k \in Orders : broker[k] \notin {"none", "live"} => broker'[k] # "live"
      /\ \A k \in Orders : broker[k] = "none" => k \notin {xcur, mcur}
    BY <1>0 DEF Moves, Unknown
<1>b. ASSUME UNCHANGED <<xpc, xsig, xcur>>, \A k \in tracked : k \notin tracked' => broker'[k] # "live"
      PROVE  Placing'
    <2>1. xpc = "record" => xcur \in Orders /\ broker[xcur] # "none"
        BY <1>0, <1>a DEF Placing
    <2> QED
        BY <1>0, <1>a, <1>b, <2>1 DEF Placing
<1>c. ASSUME UNCHANGED <<hit, mpc, mcur, mseen>> PROVE Confirmed'
    <2>1. \A c \in Cancellers : hit[c] # None => hit[c] \in Orders
        BY <1>0 DEF SweepTypes
    <2> QED
        BY <1>0, <1>a, <1>c, <2>1 DEF Confirmed
<1> USE DEF store, executor, cancel, monitor, recovery, history, Rest
<1>1. CASE Environment \/ OperatorSweep
    BY <1>1, <1>b, <1>c, Zenon DEF Environment, Fill, RemovedElsewhere, PositionCloses, PositionTracked,
       OperatorSweep
<1>2. ASSUME NEW g \in Groups, Submit(g) \/ RejectDuplicate(g) PROVE Placing' /\ Confirmed'
    <2>1. Confirmed'
        BY <1>2, <1>c DEF Submit, Accept, RejectDuplicate
    <2>2. Placing'
        BY <1>2, <1>0 DEF Submit, Accept, RejectDuplicate, Placing
    <2> QED
        BY <2>1, <2>2
<1>3. CASE Override \/ Record \/ EndSubmit
    <2>1. Confirmed'
        BY <1>3, <1>c DEF Override, Record, EndSubmit
    <2>2. Placing'
        BY <1>3 DEF Override, Record, EndSubmit, Placing
    <2> QED
        BY <2>1, <2>2
<1>4. CASE Track
    BY <1>0, <1>4, <1>c DEF Track, Placing
<1>5. ASSUME NEW k \in Orders, Place(k) PROVE Placing' /\ Confirmed'
    <2>1. k[1] = xsig
        BY <1>0, <1>5 DEF Place, Unplaced
    <2>2. Placing'
        BY <1>0, <1>5, <2>1 DEF Place, Placing
    <2> QED
        BY <1>5, <1>c, <2>2 DEF Place
<1>6. ASSUME NEW c \in Cancellers, SweepDrop(c) PROVE Placing' /\ Confirmed'
    <2>1. hit[c] \in Orders /\ broker'[hit[c]] = "removed"
        BY <1>0, <1>a, <1>6 DEF SweepDrop, SweepTypes, Confirmed
    <2>2. Placing'
        BY <1>6, <1>b, <2>1 DEF SweepDrop
    <2>3. \A d \in Cancellers : hit'[d] \in {None, hit[d]}
        BY <1>0, <1>6 DEF SweepDrop, SweepTypes
    <2>4. UNCHANGED <<broker, mpc, mcur, mseen>>
        BY <1>6 DEF SweepDrop
    <2>5. Confirmed'
        BY <1>0, <2>3, <2>4 DEF Confirmed
    <2> QED
        BY <2>2, <2>5
<1>7. ASSUME NEW c \in Cancellers, NEW k \in Orders, SweepCancel(c, k) PROVE Placing' /\ Confirmed'
    <2>1. PICK a \in Answers : BrokerCancel(k, a) /\ hit' = [hit EXCEPT ![c] = IF TicketInResult(a) THEN k ELSE None]
        BY <1>7 DEF SweepCancel
    <2>2. UNCHANGED <<xpc, xsig, xcur, tracked, mpc, mcur, mseen>>
        BY <1>7 DEF SweepCancel
    <2>3. TicketInResult(a) => broker'[k] = "removed"
        BY <1>0, <2>1, CancelFacts
    <2>4. \A d \in Cancellers : hit'[d] # None => hit'[d] \in Orders /\ broker'[hit'[d]] = "removed"
        BY <1>0, <1>a, <2>1, <2>3 DEF SweepTypes, Confirmed
    <2>5. Confirmed'
        BY <1>0, <1>a, <2>2, <2>4 DEF Confirmed
    <2> QED
        BY <1>b, <2>2, <2>5
<1>8. CASE Settle \/ DropExpired
    <2>1. mcur \in Orders /\ broker'[mcur] # "live"
        BY <1>0, <1>a, <1>8 DEF Settle, DropExpired, Confirmed
    <2>2. Placing'
        BY <1>8, <1>b, <2>1 DEF Settle, DropExpired
    <2>3. UNCHANGED <<broker, hit>> /\ mpc' = "idle"
        BY <1>8 DEF Settle, DropExpired
    <2> QED
        BY <1>0, <2>2, <2>3 DEF Confirmed
<1>9. ASSUME NEW k \in Orders, Inspect(k) PROVE Placing' /\ Confirmed'
    <2>1. UNCHANGED <<xpc, xsig, xcur, tracked, broker, hit>>
        BY <1>9 DEF Inspect
    <2>2. CASE UNCHANGED monitor
        BY <1>b, <1>c, <2>1, <2>2
    <2>3. CASE mpc' = "settle" /\ mcur' = k /\ mseen' \in {"filled", "missing"} /\ broker[k] # "live"
        BY <1>0, <1>b, <2>1, <2>3 DEF Confirmed
    <2> QED
        BY <1>9, <2>2, <2>3 DEF Inspect, Concludes
<1>10. ASSUME NEW k \in Orders, CancelExpired(k) PROVE Placing' /\ Confirmed'
    <2>1. UNCHANGED <<xpc, xsig, xcur, tracked, hit, mseen>> /\ mpc = "idle"
        BY <1>10 DEF CancelExpired
    <2>2. CASE UNCHANGED <<mpc, mcur>>
        BY <1>b, <1>c, <2>1, <2>2
    <2>3. CASE mpc' = "drop" /\ mcur' = k /\ broker'[k] = "removed"
        <3>1. \A c \in Cancellers : hit[c] # None => hit[c] \in Orders
            BY <1>0 DEF SweepTypes
        <3> QED
            BY <1>0, <1>a, <1>b, <2>1, <2>3, <3>1 DEF Confirmed
    <2> QED
        BY <1>0, <1>10, <2>2, <2>3, CancelFacts DEF CancelExpired
<1>11. CASE StartManager \/ StopManager
    <2>1. UNCHANGED <<xpc, xsig, xcur, tracked, hit, broker>> /\ mpc' \in {"idle", "off"}
        BY <1>11 DEF StartManager, StopManager
    <2> QED
        BY <1>0, <1>b, <2>1 DEF Confirmed
<1>12. CASE Crash
    BY <1>12 DEF Crash, Placing, Confirmed
<1>13. CASE RecoveryAborts \/ ReadStates \/ ReadLive \/ ReadRelated \/ FinishRecovery
    BY <1>13, <1>b, <1>c, Zenon DEF RecoveryAborts, ReadStates, ReadLive, ReadRelated, FinishRecovery
<1>14. ASSUME NEW k \in Orders, Recover(k) PROVE Placing' /\ Confirmed'
    <2>1. tracked \subseteq tracked'
        BY <1>14 DEF Recover, RecoverSibling, RecoverLive, RecoverGone, Restore
    <2> QED
        BY <1>14, <1>b, <1>c, <2>1 DEF Recover
<1> QED
    BY <1>1, <1>2, <1>3, <1>4, <1>5, <1>6, <1>7, <1>8, <1>9, <1>10, <1>11, <1>12, <1>13, <1>14, Zenon
       DEF Next, Submission, Sweeping, MonitorLoop, Recovery

\* A row that says an order has ended is written when it has.
LEMMA RowsStep == ASSUME OrdersInv, Next PROVE RowsTell'
<1>0. /\ RowsTell /\ Placing /\ Confirmed /\ Unknown /\ Moves /\ RestTypes /\ SweepTypes /\ TypeOK
      /\ row \in [Orders -> Rows]
    BY BrokerMoves, Zenon DEF OrdersInv, TypeOK, RestTypes, SweepTypes
<1> DEFINE Tells(k) == (/\ row[k] \in {"expired", "cancelled"} => broker[k] = "removed"
                        /\ row[k] \in {"missing", "filled"} => broker[k] # "live")'
<1>a. ASSUME NEW k \in Orders, k \notin presumed, row'[k] = row[k] PROVE Tells(k)
    BY <1>0, <1>a DEF RowsTell, Moves, Unknown
<1>b. ASSUME UNCHANGED <<row, presumed>> PROVE RowsTell'
    BY <1>a, <1>b DEF RowsTell
<1>c. ASSUME NEW j \in Orders, NEW s, row' = [row EXCEPT ![j] = s], UNCHANGED presumed,
             s \in {"expired", "cancelled"} => broker'[j] = "removed",
             s \in {"missing", "filled"} => broker'[j] # "live"
      PROVE  RowsTell'
    <2> SUFFICES ASSUME NEW k \in Orders, k \notin presumed PROVE Tells(k)
        BY <1>c DEF RowsTell
    <2>1. CASE k = j
        BY <1>0, <1>c, <2>1
    <2>2. CASE k # j
        <3>1. row'[k] = row[k]
            BY <1>0, <1>c, <2>2
        <3> QED
            BY <1>a, <3>1
    <2> QED
        BY <2>1, <2>2
<1> USE DEF store, executor, cancel, monitor, recovery, history, Rest
<1>1. CASE Environment
    <2>1. ASSUME NEW k \in Orders, PositionTracked(k) PROVE RowsTell'
        <3>1. broker'[k] = "filled"
            BY <2>1 DEF PositionTracked
        <3> QED
            BY <1>c, <2>1, <3>1 DEF PositionTracked
    <2> QED
        BY <1>1, <1>b, <2>1, Zenon DEF Environment, Fill, RemovedElsewhere, PositionCloses
<1>2. CASE \E g \in Groups : Submit(g) \/ RejectDuplicate(g)
    BY <1>2, <1>b, Zenon DEF Submit, Accept, RejectDuplicate
<1>3. CASE Override \/ Track \/ EndSubmit \/ OperatorSweep \/ \E k \in Orders : Place(k)
    BY <1>3, <1>b, Zenon DEF Override, Track, EndSubmit, OperatorSweep, Place
<1>4. CASE Record
    <2>1. xcur \in Orders
        BY <1>0, <1>4 DEF Record, Placing
    <2>2. CASE UNCHANGED row
        BY <1>4, <1>b, <2>2 DEF Record
    <2>3. CASE row' = [row EXCEPT ![xcur] = "placed"]
        BY <1>4, <1>c, <2>1, <2>3 DEF Record
    <2> QED
        BY <1>4, <2>2, <2>3 DEF Record, WriteRaises
<1>5. ASSUME NEW c \in Cancellers, SweepDrop(c) PROVE RowsTell'
    <2>1. hit[c] \in Orders /\ broker'[hit[c]] = "removed" /\ UNCHANGED presumed
        BY <1>0, <1>5 DEF SweepDrop, SweepTypes, Confirmed
    <2>2. CASE UNCHANGED row
        BY <1>b, <2>1, <2>2
    <2>3. CASE row' = [row EXCEPT ![hit[c]] = "cancelled"]
        BY <1>c, <2>1, <2>3
    <2> QED
        BY <1>5, <2>2, <2>3 DEF SweepDrop, Write, WriteRaises
<1>6. ASSUME NEW c \in Cancellers, NEW k \in Orders, SweepCancel(c, k) PROVE RowsTell'
    BY <1>6, <1>b DEF SweepCancel
<1>7. CASE Settle \/ DropExpired
    <2>1. mcur \in Orders /\ UNCHANGED <<broker, presumed>> /\ broker[mcur] # "live"
        BY <1>0, <1>7 DEF Settle, DropExpired, Confirmed
    <2>2. CASE UNCHANGED row
        BY <1>b, <2>1, <2>2
    <2>3. CASE row' = [row EXCEPT ![mcur] = mseen] /\ mseen \in {"filled", "missing"}
        BY <1>c, <2>1, <2>3
    <2>4. CASE row' = [row EXCEPT ![mcur] = "expired"] /\ broker[mcur] = "removed"
        BY <1>c, <2>1, <2>4
    <2> QED
        BY <1>0, <1>7, <2>2, <2>3, <2>4 DEF Settle, DropExpired, Write, WriteRaises, Confirmed
<1>8. ASSUME NEW k \in Orders, Inspect(k) PROVE RowsTell'
    <2>1. UNCHANGED <<broker, presumed>>
        BY <1>8 DEF Inspect
    <2>2. CASE UNCHANGED row
        BY <1>b, <2>1, <2>2
    <2>3. CASE row' = [row EXCEPT ![k] = "filled"] /\ broker[k] # "live"
        BY <1>c, <2>1, <2>3
    <2> QED
        BY <1>8, <2>2, <2>3 DEF Inspect, Concludes
<1>9. ASSUME NEW k \in Orders, CancelExpired(k) PROVE RowsTell'
    BY <1>9, <1>b DEF CancelExpired
<1>10. CASE StartManager \/ StopManager \/ Crash \/ RecoveryAborts \/ ReadStates \/ ReadLive \/ ReadRelated
    BY <1>10, <1>b, Zenon DEF StartManager, StopManager, Crash, RecoveryAborts, ReadStates, ReadLive, ReadRelated
<1>11. CASE FinishRecovery
    <2>1. UNCHANGED <<broker, presumed>> /\ \A k \in Orders : row'[k] \in {"orphan", row[k]}
        BY <1>11 DEF FinishRecovery
    <2> QED
        BY <1>0, <2>1 DEF RowsTell
<1>12. ASSUME NEW j \in Orders, Recover(j) PROVE RowsTell'
    <2>0. presumed' \in {presumed, presumed \cup {j}} /\ \A k \in Orders : k # j => row'[k] = row[k]
        BY <1>0, <1>12 DEF Recover, RecoverSibling, RecoverLive, RecoverGone, Restore
    <2>1. ASSUME j \notin presumed' PROVE Tells(j)
        <3>1. CASE RecoverSibling(j)
            <4>1. PICK a \in Answers : BrokerCancel(j, a) /\ presumed' = IF TicketInResult(a) THEN presumed ELSE presumed \cup {j}
                BY <3>1 DEF RecoverSibling
            <4>2. broker'[j] = "removed"
                BY <1>0, <2>1, <4>1, CancelFacts
            <4>3. row'[j] = "cancelled"
                BY <1>0, <3>1 DEF RecoverSibling
            <4> QED
                BY <4>2, <4>3
        <3>2. CASE RecoverLive(j)
            <4>1. CASE UNCHANGED row
                BY <1>a, <2>1, <3>2, <4>1 DEF RecoverLive
            <4>2. ASSUME NEW a \in Answers, BrokerCancel(j, a), TicketInResult(a), row' = [row EXCEPT ![j] = "expired"]
                  PROVE  Tells(j)
                BY <1>0, <4>2, CancelFacts
            <4> QED
                BY <3>2, <4>1, <4>2 DEF RecoverLive, Restore
        <3>3. CASE RecoverGone(j)
            <4>1. j \notin presumed' => broker[j] # "live" /\ UNCHANGED broker /\ row'[j] \in {"filled", "missing"}
                BY <1>0, <3>3 DEF RecoverGone
            <4> QED
                BY <2>1, <4>1
        <3> QED
            BY <1>12, <3>1, <3>2, <3>3 DEF Recover
    <2>2. ASSUME NEW k \in Orders, k \notin presumed' PROVE Tells(k)
        <3>1. CASE k = j
            BY <2>1, <2>2, <3>1
        <3>2. CASE k # j
            <4>1. k \notin presumed
                BY <2>0, <2>2
            <4> QED
                BY <1>a, <2>0, <3>2, <4>1
        <3> QED
            BY <3>1, <3>2
    <2> QED
        BY <2>2 DEF RowsTell
<1> QED
    BY <1>1, <1>2, <1>3, <1>4, <1>5, <1>6, <1>7, <1>8, <1>9, <1>10, <1>11, <1>12, Zenon
       DEF Next, Submission, Sweeping, MonitorLoop, Recovery
-----------------------------------------------------------------------------
(* Who watches a live order.                                               *)

\* A row that is placed and live was there before, or is the one Record writes.
LEMMA PlacedFacts ==
    ASSUME OrdersInv, Next, NEW k \in Orders, broker'[k] = "live", row'[k] = "placed"
    PROVE  broker[k] = "live" /\ (row[k] = "placed" \/ (xpc = "record" /\ xcur = k /\ UNCHANGED tracked /\ k \in tracked))
<1>0. Placing /\ Unknown /\ Confirmed /\ Moves /\ SweepTypes /\ row \in [Orders -> Rows]
    BY BrokerMoves, Zenon DEF OrdersInv, TypeOK, SweepTypes
<1>1. CASE Place(k)
    <2>1. row[k] = "none"
        <3>1. broker[k] = "none"
            BY <1>1 DEF OrdersInv, Unplaced, Place
        <3> QED
            BY <1>0, <3>1 DEF Unknown
    <2> QED
        BY <1>1, <2>1 DEF Place
<1>2. CASE ~Place(k)
    <2>1. broker[k] = "live"
        BY <1>0, <1>2 DEF Moves, OrdersInv, TypeOK
    <2> USE DEF store, executor, cancel, monitor, recovery, history, Rest
    <2>2. CASE Record
        <3>1. CASE xcur = k
            BY <1>0, <2>1, <2>2, <3>1 DEF Record, Placing
        <3>2. CASE xcur # k
            BY <1>0, <2>1, <2>2, <3>2 DEF Record, WriteRaises
        <3> QED
            BY <3>1, <3>2
    <2>3. CASE Environment
        BY <1>0, <2>1, <2>3 DEF Environment, Fill, RemovedElsewhere, PositionCloses, PositionTracked
    <2>4. CASE \E g \in Groups : Submit(g) \/ RejectDuplicate(g)
        BY <2>1, <2>4 DEF Submit, Accept, RejectDuplicate
    <2>5. CASE Override \/ Track \/ EndSubmit \/ OperatorSweep \/ \E j \in Orders : Place(j)
        BY <2>1, <2>5 DEF Override, Track, EndSubmit, OperatorSweep, Place
    <2>6. ASSUME NEW c \in Cancellers, SweepDrop(c) PROVE row[k] = "placed"
        <3>1. hit[c] \in Orders
            BY <1>0, <2>6 DEF SweepDrop, SweepTypes
        <3> QED
            BY <1>0, <2>6, <3>1 DEF SweepDrop, Write, WriteRaises
    <2>7. ASSUME NEW c \in Cancellers, NEW j \in Orders, SweepCancel(c, j) PROVE row[k] = "placed"
        BY <2>7 DEF SweepCancel
    <2>8. CASE Settle \/ DropExpired
        BY <1>0, <2>8 DEF Settle, DropExpired, Write, WriteRaises, Confirmed
    <2>9. CASE \E j \in Orders : Inspect(j) \/ CancelExpired(j)
        BY <1>0, <2>1, <2>9 DEF Inspect, Concludes, CancelExpired
    <2>10. CASE StartManager \/ StopManager \/ Crash \/ RecoveryAborts \/ ReadStates \/ ReadLive \/ ReadRelated
        BY <2>10 DEF StartManager, StopManager, Crash, RecoveryAborts, ReadStates, ReadLive, ReadRelated
    <2>11. CASE FinishRecovery
        BY <2>11 DEF FinishRecovery
    <2>12. ASSUME NEW j \in Orders, Recover(j) PROVE row[k] = "placed"
        BY <1>0, <2>12 DEF Recover, RecoverSibling, RecoverLive, RecoverGone, Restore
    <2> QED
        BY <2>1, <2>2, <2>3, <2>4, <2>5, <2>6, <2>7, <2>8, <2>9, <2>10, <2>11, <2>12
           DEF Next, Submission, Sweeping, MonitorLoop, Recovery
<1> QED
    BY <1>1, <1>2

\* Only a crash forgets an order that is still live.
LEMMA TrackedFacts ==
    ASSUME OrdersInv, Next, ~Crash, NEW k \in Orders, k \in tracked, broker'[k] = "live"
    PROVE  k \in tracked'
<1>0. Confirmed /\ Moves /\ SweepTypes
    BY BrokerMoves, Zenon DEF OrdersInv, TypeOK, SweepTypes
<1> USE DEF store, executor, cancel, monitor, recovery, history, Rest
<1>1. CASE Environment \/ OperatorSweep \/ (\E g \in Groups : Submit(g) \/ RejectDuplicate(g)) \/ Submission
    BY <1>1 DEF Environment, Fill, RemovedElsewhere, PositionCloses, PositionTracked, OperatorSweep, Submit, Accept,
       RejectDuplicate, Submission, Override, Track, Record, EndSubmit, Place
<1>2. ASSUME NEW c \in Cancellers, SweepDrop(c) PROVE k \in tracked'
    <2>1. broker'[hit[c]] = "removed"
        BY <1>0, <1>2 DEF SweepDrop, Confirmed
    <2> QED
        BY <1>2, <2>1 DEF SweepDrop
<1>3. ASSUME NEW c \in Cancellers, NEW j \in Orders, SweepCancel(c, j) PROVE k \in tracked'
    BY <1>3 DEF SweepCancel
<1>4. CASE Settle \/ DropExpired
    BY <1>0, <1>4 DEF Settle, DropExpired, Confirmed
<1>5. CASE \E j \in Orders : Inspect(j) \/ CancelExpired(j)
    BY <1>5 DEF Inspect, CancelExpired
<1>6. CASE StartManager \/ StopManager \/ RecoveryAborts \/ ReadStates \/ ReadLive \/ ReadRelated \/ FinishRecovery
    BY <1>6 DEF StartManager, StopManager, RecoveryAborts, ReadStates, ReadLive, ReadRelated, FinishRecovery
<1>7. ASSUME NEW j \in Orders, Recover(j) PROVE k \in tracked'
    BY <1>7 DEF Recover, RecoverSibling, RecoverLive, RecoverGone, Restore
<1> QED
    BY <1>1, <1>2, <1>3, <1>4, <1>5, <1>6, <1>7, Zenon DEF Next, Sweeping, MonitorLoop, Recovery

\* Every step keeps live orders watched, or in the hands of the recovery.
LEMMA WatchedStep == ASSUME OrdersInv, Next PROVE Recovering' /\ LiveOrdersAreWatched'
<1>0. Recovering /\ LiveOrdersAreWatched /\ row \in [Orders -> Rows]
    BY DEF OrdersInv, TypeOK
<1>a. ASSUME UNCHANGED <<rpc, mpc, blind, rtodo>>, ~Crash PROVE Recovering' /\ LiveOrdersAreWatched'
    <2>1. ASSUME NEW k \in Orders, broker'[k] = "live", row'[k] = "placed"
          PROVE  \/ broker[k] = "live" /\ row[k] = "placed"
                 \/ k \in tracked'
        BY <2>1, PlacedFacts
    <2>2. ASSUME NEW k \in Orders, broker'[k] = "live", k \in tracked PROVE k \in tracked'
        BY <1>a, <2>2, TrackedFacts
    <2> QED
        BY <1>0, <1>a, <2>1, <2>2 DEF Recovering, LiveOrdersAreWatched
<1> USE DEF store, executor, cancel, monitor, recovery, history, Rest
<1>b. CASE Crash
    BY <1>b DEF Crash, RecoveryEnds, Recovering, LiveOrdersAreWatched
<1>1. CASE Environment \/ OperatorSweep \/ (\E g \in Groups : Submit(g) \/ RejectDuplicate(g))
    BY <1>1, <1>a, <1>b, Zenon DEF Environment, Fill, RemovedElsewhere, PositionCloses, PositionTracked, OperatorSweep,
       Submit, Accept, RejectDuplicate
<1>2. CASE Submission
    BY <1>2, <1>a, <1>b, Zenon DEF Submission, Override, Track, Record, EndSubmit, Place
<1>3. CASE \E c \in Cancellers : Sweeping(c)
    BY <1>3, <1>a, <1>b, Zenon DEF Sweeping, SweepDrop, SweepCancel
<1>4. CASE MonitorLoop
    <2>1. UNCHANGED <<rpc, blind, rtodo>> /\ (mpc' # "off" => mpc # "off")
        BY <1>4 DEF MonitorLoop, Settle, DropExpired, Inspect, CancelExpired
    <2>2. CASE ~Crash
        <3>1. ASSUME NEW k \in Orders, broker'[k] = "live", row'[k] = "placed"
              PROVE  \/ broker[k] = "live" /\ row[k] = "placed"
                     \/ k \in tracked'
            BY <3>1, PlacedFacts
        <3>2. ASSUME NEW k \in Orders, broker'[k] = "live", k \in tracked PROVE k \in tracked'
            BY <2>2, <3>2, TrackedFacts
        <3> QED
            BY <1>0, <2>1, <3>1, <3>2 DEF Recovering, LiveOrdersAreWatched
    <2> QED
        BY <1>b, <2>2
<1>5. CASE StartManager
    BY <1>5 DEF StartManager, Recovering, LiveOrdersAreWatched
<1>6. CASE StopManager
    BY <1>6 DEF StopManager, Recovering, LiveOrdersAreWatched
<1>7. CASE RecoveryAborts
    BY <1>7 DEF RecoveryAborts, RecoveryEnds, Recovering, LiveOrdersAreWatched
<1>8. CASE ReadStates
    BY <1>8 DEF ReadStates, Recovering, LiveOrdersAreWatched
<1>9. CASE ReadLive \/ ReadRelated
    BY <1>0, <1>9 DEF ReadLive, ReadRelated, Recovering, LiveOrdersAreWatched
<1>10. CASE FinishRecovery
    <2>1. rpc = "rows" /\ rtodo = {} /\ rpc' = "idle" /\ UNCHANGED <<broker, tracked>>
        BY <1>10 DEF FinishRecovery, RecoveryEnds
    <2>2. \A k \in Orders : row'[k] = "placed" => row[k] = "placed"
        BY <1>10 DEF FinishRecovery
    <2> QED
        BY <1>0, <2>1, <2>2 DEF Recovering, LiveOrdersAreWatched
<1>11. ASSUME NEW j \in Orders, Recover(j) PROVE Recovering' /\ LiveOrdersAreWatched'
    <2>1. rpc = "rows" /\ rpc' = "rows" /\ rtodo' = rtodo \ {j} /\ tracked \subseteq tracked'
        BY <1>11 DEF Recover, RecoverSibling, RecoverLive, RecoverGone, Restore
    <2>2. row'[j] # "placed" \/ j \in tracked'
        BY <1>0, <1>11 DEF Recover, RecoverSibling, RecoverLive, RecoverGone, Restore
    <2>3. ASSUME NEW k \in Orders, broker'[k] = "live", row'[k] = "placed"
          PROVE  broker[k] = "live" /\ row[k] = "placed"
        <3>1. xpc = "record" /\ xcur = k /\ UNCHANGED tracked /\ k \in tracked => row'[k] = row[k] \/ j = k
            BY <1>0, <1>11 DEF Recover, RecoverSibling, RecoverLive, RecoverGone, Restore
        <3>2. \A s : row' = [row EXCEPT ![j] = s] => row'[j] = s
            BY <1>0
        <3>3. UNCHANGED row \/ row'[j] # "placed"
            BY <1>11, <3>2 DEF Recover, RecoverSibling, RecoverLive, RecoverGone, Restore
        <3> QED
            BY <2>3, <3>1, <3>3, PlacedFacts
    <2> QED
        BY <1>0, <2>1, <2>2, <2>3 DEF Recovering, LiveOrdersAreWatched
<1> QED
    BY <1>1, <1>2, <1>3, <1>4, <1>5, <1>6, <1>7, <1>8, <1>9, <1>10, <1>11, <1>b, Zenon DEF Next, Recovery

\* Every step keeps the groups of a strategy apart.
LEMMA AloneStep == ASSUME OrdersInv, Next PROVE Watching' /\ Alone' /\ OneLiveGroupPerStrategy'
<1>0. Watching /\ Alone /\ OneLiveGroupPerStrategy /\ Moves /\ Unplaced /\ RestTypes /\ Placing
    BY BrokerMoves, Zenon DEF OrdersInv, TypeOK, RestTypes
<1> USE DEF store, executor, cancel, monitor, recovery, history, Rest
<1>1. CASE Crash
    BY <1>1 DEF Crash, Watching, Alone, OneLiveGroupPerStrategy
<1>2. ASSUME ~Crash, UNCHANGED <<reborn, stray>>, \A k \in Orders : ~Place(k) PROVE OneLiveGroupPerStrategy'
    <2>1. \A k \in Orders : broker'[k] = "live" => broker[k] = "live"
        BY <1>0, <1>2 DEF Moves, OrdersInv, TypeOK
    <2> QED
        BY <1>0, <1>2, <2>1 DEF OneLiveGroupPerStrategy
<1>3. ASSUME ~Crash, UNCHANGED <<reborn, stray, xpc, xcur, xsig>>, \A k \in Orders : ~Place(k)
      PROVE  Watching' /\ Alone' /\ OneLiveGroupPerStrategy'
    <2>1. \A k \in Orders : broker'[k] = "live" => broker[k] = "live"
        BY <1>0, <1>3 DEF Moves, OrdersInv, TypeOK
    <2>2. ASSUME NEW k \in Orders, broker'[k] = "live", k \in tracked PROVE k \in tracked'
        BY <1>3, <2>2, TrackedFacts
    <2>3. Watching'
        BY <1>0, <1>3, <2>1, <2>2 DEF Watching
    <2>4. Alone'
        BY <1>0, <1>3, <2>1 DEF Alone
    <2> QED
        BY <1>2, <1>3, <2>3, <2>4
<1>4. ASSUME NEW k \in Orders, Place(k) PROVE Watching' /\ Alone' /\ OneLiveGroupPerStrategy'
    <2>1. /\ k \in xtodo /\ UNCHANGED <<tracked, xsig, reborn>> /\ xpc = "place"
          /\ \/ broker' = [broker EXCEPT ![k] = "live"] /\ xpc' = "track" /\ xcur' = k /\ UNCHANGED stray
             \/ UNCHANGED <<broker, xpc, xcur, stray>>
             \/ /\ stray' = stray \cup {k} /\ broker' = [broker EXCEPT ![k] = "live"]
                /\ UNCHANGED <<xpc, xcur>>
        BY <1>4 DEF Place
    <2>2. k[1] = xsig
        BY <1>0, <2>1 DEF Unplaced
    <2>3. \A j \in Orders : j # k => broker'[j] = broker[j]
        BY <1>0, <2>1 DEF Moves
    <2>4. stray \subseteq stray' /\ (broker'[k] = "live" => k \in stray' \/ (xpc' = "track" /\ xcur' = k)
                                     \/ broker[k] = "live")
        BY <2>1
    <2>5. Watching'
        BY <1>0, <2>1, <2>3, <2>4 DEF Watching
    <2>6. Alone'
        BY <1>0, <2>1, <2>2, <2>3, <2>4 DEF Alone
    <2>7. Strategy(k) = StrategyOf[xsig]
        BY <2>2 DEF Strategy
    <2>8. OneLiveGroupPerStrategy'
        <3> SUFFICES ASSUME ~reborn', NEW i \in Orders \ stray', NEW j \in Orders \ stray',
                            broker'[i] = "live", broker'[j] = "live", Strategy(i) = Strategy(j)
                     PROVE  i[1] = j[1]
            BY DEF OneLiveGroupPerStrategy
        <3>1. CASE i # k /\ j # k
            BY <1>0, <2>1, <2>3, <2>4, <3>1 DEF OneLiveGroupPerStrategy
        <3>2. CASE i = k \/ j = k
            BY <2>1, <2>2, <2>6, <2>7, <3>2 DEF Alone
        <3> QED
            BY <3>1, <3>2
    <2> QED
        BY <2>5, <2>6, <2>8
<1>5. ASSUME NEW g \in Groups, Submit(g) PROVE Watching' /\ Alone' /\ OneLiveGroupPerStrategy'
    <2>1. /\ ~HasMatchingPendingEntry(g) /\ xpc = "idle" /\ xsig' = g /\ UNCHANGED <<broker, tracked, xcur, stray, reborn>>
        BY <1>5 DEF Submit, Accept
    <2>2. Watching' /\ OneLiveGroupPerStrategy'
        BY <1>0, <2>1 DEF Watching, OneLiveGroupPerStrategy
    <2>3. Alone'
        BY <1>0, <2>1 DEF Watching, Alone, HasMatchingPendingEntry
    <2> QED
        BY <2>2, <2>3
<1>6. CASE Track
    <2>1. /\ xpc = "track" /\ tracked' = tracked \cup {xcur} /\ UNCHANGED <<broker, xsig, stray, reborn>>
        BY <1>6 DEF Track
    <2> QED
        BY <1>0, <2>1 DEF Watching, Alone, OneLiveGroupPerStrategy
<1>7. CASE Record \/ EndSubmit \/ Override
    <2>1. /\ xpc # "track" /\ xpc # "idle" /\ UNCHANGED <<broker, tracked, stray, reborn>>
          /\ xpc' = "idle" \/ UNCHANGED xsig
        BY <1>7 DEF Record, EndSubmit, Override
    <2> QED
        BY <1>0, <2>1 DEF Watching, Alone, OneLiveGroupPerStrategy
<1>8. CASE Environment \/ OperatorSweep \/ (\E g \in Groups : RejectDuplicate(g))
    BY <1>1, <1>3, <1>4, <1>8, Zenon DEF Environment, Fill, RemovedElsewhere, PositionCloses, PositionTracked,
       OperatorSweep, RejectDuplicate
<1>9. CASE \E c \in Cancellers : Sweeping(c)
    BY <1>1, <1>3, <1>4, <1>9, Zenon DEF Sweeping, SweepDrop, SweepCancel
<1>10. CASE MonitorLoop
    BY <1>1, <1>3, <1>4, <1>10, Zenon DEF MonitorLoop, Settle, DropExpired, Inspect, CancelExpired
<1>11. CASE StartManager \/ StopManager \/ RecoveryAborts
    BY <1>1, <1>3, <1>4, <1>11, Zenon DEF StartManager, StopManager, RecoveryAborts
<1>12. CASE Recovery
    BY <1>1, <1>3, <1>4, <1>12, Zenon DEF Recovery, ReadStates, ReadLive, ReadRelated, FinishRecovery, Recover
<1> QED
    BY <1>1, <1>4, <1>5, <1>6, <1>7, <1>8, <1>9, <1>10, <1>11, <1>12, Zenon DEF Next, Submission
-----------------------------------------------------------------------------
(* The theorems.                                                           *)

\* The inductive invariant holds in every reachable state.
LEMMA OrdersInvariant == Spec => []OrdersInv
<1>1. Init => OrdersInv
    <2> SUFFICES ASSUME Init PROVE OrdersInv
        OBVIOUS
    <2>1. TypeOK
        <3>1. faults \in 0..MaxFaults /\ sweeps \in 0..MaxSweeps
            BY BoundsAssumption DEF Init
        <3>2. broker \in [Orders -> {"none", "live", "filled", "closed", "removed"}] /\ row \in [Orders -> Rows]
            BY DEF Init, Rows
        <3>3. sweep \in [Cancellers -> SUBSET Orders] /\ hit \in [Cancellers -> Orders \cup {None}]
            BY DEF Init
        <3> QED
            BY <3>1, <3>2, <3>3 DEF Init, TypeOK
    <2>2. \A k \in Orders : k # None /\ broker[k] = "none" /\ row[k] = "none"
        BY OrderFacts DEF Init
    <2>3. RowsTell /\ Unknown /\ Unplaced /\ Placing /\ Confirmed
        BY <2>2 DEF Init, RowsTell, Unknown, Unplaced, Placing, Confirmed
    <2>4. Recovering /\ LiveOrdersAreWatched /\ Watching /\ Alone /\ OneLiveGroupPerStrategy
        BY <2>2 DEF Init, Recovering, LiveOrdersAreWatched, Watching, Alone, OneLiveGroupPerStrategy
    <2> QED
        BY <2>1, <2>3, <2>4 DEF OrdersInv
<1>2. OrdersInv /\ [Next]_vars => OrdersInv'
    <2> SUFFICES ASSUME OrdersInv, [Next]_vars PROVE OrdersInv'
        OBVIOUS
    <2>1. CASE Next
        BY <2>1, TypeStep, UnknownStep, UnplacedStep, PlacingStep, RowsStep, WatchedStep, AloneStep, Zenon
           DEF OrdersInv
    <2>2. CASE UNCHANGED vars
        <3> USE DEF vars, store, executor, cancel, monitor, recovery, history
        <3>1. TypeOK' /\ RowsTell' /\ Unknown' /\ Unplaced' /\ Placing' /\ Confirmed'
            BY <2>2 DEF OrdersInv, TypeOK, RowsTell, Unknown, Unplaced, Placing, Confirmed
        <3>2. Recovering' /\ LiveOrdersAreWatched' /\ Watching' /\ Alone' /\ OneLiveGroupPerStrategy'
            BY <2>2 DEF OrdersInv, Recovering, LiveOrdersAreWatched, Watching, Alone, OneLiveGroupPerStrategy
        <3> QED
            BY <3>1, <3>2 DEF OrdersInv
    <2> QED
        BY <2>1, <2>2
<1> QED
    BY <1>1, <1>2, PTL DEF Spec

\* Whatever the four threads interleave, a row that records an end of an order
\* is right about the broker (pending_state_ops.py, pending manager hooks).
THEOREM RowsTellTheTruth == Spec => []RowsAreTrue
<1>1. OrdersInv => RowsAreTrue
    BY DEF OrdersInv, RowsTell, RowsAreTrue
<1> QED
    BY <1>1, OrdersInvariant, PTL

\* No live order with a placed row escapes the monitor once recovery has run,
\* for any number of orders, crashes and failed cancels.
THEOREM NothingUnwatched == Spec => []LiveOrdersAreWatched
<1>1. OrdersInv => LiveOrdersAreWatched
    BY DEF OrdersInv
<1> QED
    BY <1>1, OrdersInvariant, PTL

\* The duplicate guard of submit_pending_entry keeps a strategy to one live
\* group, for any set of signals and strategies, until the process restarts.
THEOREM OneGroupAtATime == Spec => []OneLiveGroupPerStrategy
<1>1. OrdersInv => OneLiveGroupPerStrategy
    BY DEF OrdersInv
<1> QED
    BY <1>1, OrdersInvariant, PTL
=============================================================================
