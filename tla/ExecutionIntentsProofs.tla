----------------------- MODULE ExecutionIntentsProofs -----------------------
(* Proofs about the execution-intent queue, for all values of its constants. *)
EXTENDS ExecutionIntents, TLAPS

-----------------------------------------------------------------------------
(* The publisher's transaction.                                            *)

\* What one write_intents_with_idempotency call does to a single row: either
\* it is the fresh row of one newly reserved key, or it is left alone.
LEMMA WriteIntentsRow ==
    ASSUME TypeOK, NEW s \in Signals,
           NEW f \in [Unreserved(s) -> FreeIds],
           \A j, k \in Unreserved(s) : f[j] = f[k] => j = k,
           WriteIntents(s, f), NEW i \in Ids
    PROVE  \/ \E k \in Unreserved(s) :
                 /\ k \in Keys /\ f[k] = i /\ ledger[k] = None
                 /\ ledger'[k] = i /\ keyOf'[i] = k
                 /\ keyOf[i] = None /\ status'[i] = "pending"
           \/ /\ \A k \in Unreserved(s) : f[k] # i
              /\ keyOf'[i] = keyOf[i] /\ status'[i] = status[i]
<1>1. Unreserved(s) \subseteq Keys
  BY TargetsAssumption DEF Unreserved, Keys
<1>2. DOMAIN f = Unreserved(s)
  OBVIOUS
<1>3. CASE \E k \in Unreserved(s) : f[k] = i
  <2>1. PICK k \in Unreserved(s) : f[k] = i
    BY <1>3
  <2>2. (CHOOSE j \in DOMAIN f : f[j] = i) = k
    <3>1. \E j \in DOMAIN f : f[j] = i
      BY <1>2, <2>1
    <3>2. /\ (CHOOSE j \in DOMAIN f : f[j] = i) \in DOMAIN f
          /\ f[CHOOSE j \in DOMAIN f : f[j] = i] = i
      BY <3>1, Zenon
    <3> QED  BY <1>2, <2>1, <3>2
  <2>3. keyOf'[i] = k /\ status'[i] = "pending"
    BY <1>2, <2>1, <2>2 DEF WriteIntents
  <2>4. ledger'[k] = i /\ ledger[k] = None /\ keyOf[i] = None
    BY <1>1, <1>2, <2>1 DEF WriteIntents, Unreserved, FreeIds
  <2> QED  BY <1>1, <2>1, <2>3, <2>4
<1>4. CASE ~ \E k \in Unreserved(s) : f[k] = i
  BY <1>2, <1>4 DEF WriteIntents
<1> QED  BY <1>3, <1>4

-----------------------------------------------------------------------------
(* Type correctness.                                                       *)

\* A worker inside _process_intent has an intent in hand, and one about to
\* write a terminal status knows which; complete_failed writes 'failed'.
HandsFull ==
    \A w \in Workers :
       /\ pc[w] \in InFlight => cur[w] \in Ids
       /\ pc[w] = "complete" => result[w] \in Terminal
       /\ pc[w] = "complete_failed" => result[w] = "failed"
       /\ renewing[w] => cur[w] \in Ids

TypeInv == TypeOK /\ HandsFull

\* The first state is type correct.
LEMMA TypeInit == Init => TypeInv
BY BoundsAssumption DEF Init, TypeInv, TypeOK, HandsFull, Statuses, Pcs, InFlight

\* Publishing keeps the types.
LEMMA TypePublish ==
    ASSUME TypeInv, NEW s \in Signals, Publish(s) PROVE TypeInv'
<1>1. PICK f \in [Unreserved(s) -> FreeIds] :
        /\ \A j, k \in Unreserved(s) : f[j] = f[k] => j = k
        /\ WriteIntents(s, f)
  BY DEF Publish
<1>2. ledger' \in [Keys -> Ids \cup {None}]
  BY <1>1 DEF WriteIntents, TypeInv, TypeOK, FreeIds
<1>3. keyOf' \in [Ids -> Keys \cup {None}] /\ status' \in [Ids -> Statuses]
  <2>1. \A i \in Ids : keyOf'[i] \in Keys \cup {None} /\ status'[i] \in Statuses
    <3> TAKE i \in Ids
    <3>1. TypeOK
      BY DEF TypeInv
    <3>2. keyOf[i] \in Keys \cup {None} /\ status[i] \in Statuses
      BY <3>1 DEF TypeOK
    <3>3. CASE \E k \in Unreserved(s) : f[k] = i
      <4>1. PICK k \in Keys : keyOf'[i] = k /\ status'[i] = "pending"
        BY <1>1, <3>1, <3>3, WriteIntentsRow
      <4> QED  BY <4>1 DEF Statuses
    <3>4. CASE \A k \in Unreserved(s) : f[k] # i
      <4>1. keyOf'[i] = keyOf[i] /\ status'[i] = status[i]
        BY <1>1, <3>1, <3>4, WriteIntentsRow
      <4> QED  BY <3>2, <4>1
    <3> QED  BY <3>3, <3>4
  <2> QED  BY <1>1, <2>1 DEF WriteIntents
<1>4. deliveries' \in [Signals -> Nat]
  BY DEF Publish, TypeInv, TypeOK
<1> QED  BY <1>2, <1>3, <1>4
         DEF Publish, TypeInv, TypeOK, HandsFull, local

\* The statements of a claim keep the types.
LEMMA TypeClaim ==
    ASSUME TypeInv, NEW w \in Workers,
           SweepClaimed(w) \/ SweepDispatched(w) \/ SweepExhausted(w)
           \/ Take(w) \/ ClaimFails(w)
    PROVE  TypeInv'
<1> USE DEF TypeInv, TypeOK, HandsFull, Goto, Pcs, InFlight, Statuses, Terminal, history
<1>1. CASE SweepClaimed(w)
  BY <1>1 DEF SweepClaimed
<1>2. CASE SweepDispatched(w)
  BY <1>2 DEF SweepDispatched, DeadLetter, Mine
<1>3. CASE SweepExhausted(w)
  BY <1>3 DEF SweepExhausted, DeadLetter, Mine
<1>4. CASE Take(w)
  <2>1. PICK S \in SUBSET Ids :
          /\ status' = [i \in Ids |-> IF i \in S THEN "claimed" ELSE status[i]]
          /\ attempts' = [i \in Ids |-> IF i \in S THEN attempts[i] + 1
                                                   ELSE attempts[i]]
          /\ owner' = [i \in Ids |-> IF i \in S THEN <<w, run[w]>> ELSE owner[i]]
          /\ expired' = [i \in Ids |-> IF i \in S THEN FALSE ELSE expired[i]]
          /\ todo' = [todo EXCEPT ![w] = S]
    BY <1>4 DEF Take, Me
  <2>2. owner' \in [Ids -> (Workers \X Nat) \cup {None}]
    BY <2>1
  <2>3. attempts' \in [Ids -> Nat] /\ status' \in [Ids -> Statuses]
    BY <2>1
  <2>4. expired' \in [Ids -> BOOLEAN] /\ todo' \in [Workers -> SUBSET Ids]
    BY <2>1
  <2> QED  BY <1>4, <2>2, <2>3, <2>4 DEF Take
<1>5. CASE ClaimFails(w)
  BY <1>5 DEF ClaimFails, Fault, table
<1> QED  BY <1>1, <1>2, <1>3, <1>4, <1>5

\* complete_execution_intent writes a terminal status or nothing.
LEMMA WriteTerminalType ==
    ASSUME TypeOK, NEW w \in Workers, NEW i \in Ids, result[w] \in Terminal,
           WriteTerminal(w, i) \/ UNCHANGED <<status, owner, expired>>
    PROVE  /\ status' \in [Ids -> Statuses]
           /\ owner' \in [Ids -> (Workers \X Nat) \cup {None}]
           /\ expired' \in [Ids -> BOOLEAN]
<1>1. CASE UNCHANGED <<status, owner, expired>>
  BY <1>1 DEF TypeOK
<1>2. CASE /\ status' = [status EXCEPT ![i] = result[w]]
           /\ owner' = [owner EXCEPT ![i] = None]
           /\ expired' = [expired EXCEPT ![i] = FALSE]
  BY <1>2 DEF TypeOK, Statuses
<1> QED  BY <1>1, <1>2 DEF WriteTerminal

\* Processing a claimed intent keeps the types.
LEMMA TypeProcess ==
    ASSUME TypeInv, NEW w \in Workers,
           WorkerStep(w), ~SweepClaimed(w), ~SweepDispatched(w),
           ~SweepExhausted(w), ~Take(w)
    PROVE  TypeInv'
<1> USE DEF TypeInv, TypeOK, HandsFull, Goto, Pcs, InFlight, Statuses, Terminal,
            table, history, Leave
<1>1. CASE Announce(w)
  BY <1>1 DEF Announce
<1>2. CASE BeginIntent(w)
  BY <1>2 DEF BeginIntent
<1>3. CASE EndBatch(w)
  BY <1>3 DEF EndBatch
<1>4. CASE Heartbeat(w)
  BY <1>4 DEF Heartbeat, RenewLease
<1>5. CASE MarkDispatched(w)
  BY <1>5 DEF MarkDispatched, CommitDispatched
<1>6. CASE Abandon(w)
  BY <1>6 DEF Abandon
<1>7. CASE ProcessEvent(w)
  BY <1>7 DEF ProcessEvent, TerminalOf, RawResults
<1>8. CASE Complete(w)
  <2>1. cur[w] \in Ids /\ result[w] \in Terminal
    BY <1>8 DEF Complete
  <2>2. WriteTerminal(w, cur[w])
    BY <1>8 DEF Complete
  <2>3. TypeOK
    OBVIOUS
  <2>4. /\ status' \in [Ids -> Statuses]
        /\ owner' \in [Ids -> (Workers \X Nat) \cup {None}]
        /\ expired' \in [Ids -> BOOLEAN]
    BY <2>1, <2>2, <2>3, WriteTerminalType
  <2>5. AfterComplete(w) \in {"emit", "emit_failed"} /\ Goto(w, AfterComplete(w))
    BY <1>8 DEF Complete, AfterComplete
  <2>6. UNCHANGED <<ledger, keyOf, attempts, run, todo, cur, result, renewing,
                    found, history, faults>>
    BY <1>8 DEF Complete
  <2> QED  BY <2>1, <2>4, <2>5, <2>6
<1>9. CASE EmitTerminal(w)
  BY <1>9 DEF EmitTerminal
<1>10. CASE StartWorker(w)
  BY <1>10 DEF StartWorker
<1>11. CASE Restart(w)
  BY <1>11 DEF Restart
<1> QED  BY <1>1, <1>2, <1>3, <1>4, <1>5, <1>6, <1>7, <1>8, <1>9, <1>10, <1>11
         DEF WorkerStep

\* Faults, stops and crashes keep the types.
LEMMA TypeFault ==
    ASSUME TypeInv, NEW w \in Workers, WorkerFault(w) PROVE TypeInv'
<1> USE DEF TypeInv, TypeOK, HandsFull, Goto, Pcs, InFlight, Statuses, Terminal,
            table, history, Leave, Fault, Raise
<1>1. CASE ClaimFails(w)
  BY <1>1, TypeClaim
<1>2. CASE PrepareFails(w)
  BY <1>2 DEF PrepareFails
<1>3. CASE MarkFails(w)
  <2>1. status' \in [Ids -> Statuses] /\ crossed' \subseteq Ids
    BY <1>3 DEF MarkFails, CommitDispatched
  <2>2. /\ pc' = [pc EXCEPT ![w] = "complete_failed"] /\ cur[w] \in Ids
        /\ result' = [result EXCEPT ![w] = "failed"] /\ faults' = faults + 1
    BY <1>3 DEF MarkFails
  <2>3. UNCHANGED <<ledger, keyOf, attempts, owner, expired, run, todo, cur,
                    renewing, found, deliveries, dispatches, outcome,
                    announced, lost>>
    BY <1>3 DEF MarkFails
  <2> QED  BY <2>1, <2>2, <2>3
<1>4. CASE ProcessEventRaises(w)
  BY <1>4 DEF ProcessEventRaises
<1>5. CASE CompleteFails(w)
  <2>1. /\ status' \in [Ids -> Statuses]
        /\ owner' \in [Ids -> (Workers \X Nat) \cup {None}]
        /\ expired' \in [Ids -> BOOLEAN]
    <3>1. cur[w] \in Ids /\ result[w] \in Terminal
      BY <1>5 DEF CompleteFails
    <3>2. WriteTerminal(w, cur[w]) \/ UNCHANGED <<status, owner, expired>>
      BY <1>5 DEF CompleteFails
    <3>3. TypeOK
      OBVIOUS
    <3> QED  BY <3>1, <3>2, <3>3, WriteTerminalType
  <2>2. cur[w] \in Ids /\ lost' \subseteq Ids
    BY <1>5 DEF CompleteFails
  <2>3. AfterComplete(w) \in {"emit", "emit_failed"} /\ Goto(w, AfterComplete(w))
    BY <1>5 DEF CompleteFails, AfterComplete
  <2>4. /\ UNCHANGED <<ledger, keyOf, attempts, run, todo, cur, result, renewing,
                       found, deliveries, dispatches, outcome, crossed, announced>>
        /\ faults' = faults + 1
    BY <1>5 DEF CompleteFails
  <2> QED  BY <2>1, <2>2, <2>3, <2>4
<1>6. CASE EmitTerminalRaises(w)
  <2>1. CASE pc[w] = "emit"
    BY <1>6, <2>1 DEF EmitTerminalRaises
  <2>2. CASE pc[w] = "emit_failed"
    <3>1. /\ cur' = [cur EXCEPT ![w] = None]
          /\ renewing' = [renewing EXCEPT ![w] = FALSE]
          /\ result' = [result EXCEPT ![w] = None]
          /\ pc' = [pc EXCEPT ![w] = "poll"]
          /\ todo' = [todo EXCEPT ![w] = {}]
          /\ faults' = faults + 1
      BY <1>6, <2>2 DEF EmitTerminalRaises
    <3>2. UNCHANGED <<table, run, found, history>>
      BY <1>6 DEF EmitTerminalRaises
    <3> QED  BY <3>1, <3>2
  <2> QED  BY <1>6, <2>1, <2>2 DEF EmitTerminalRaises
<1>7. CASE RenewerDies(w)
  BY <1>7 DEF RenewerDies
<1>8. CASE StopWorker(w)
  BY <1>8 DEF StopWorker
<1>9. CASE Crash(w)
  BY <1>9 DEF Crash
<1>10. CASE IterationRaises(w)
  BY <1>10 DEF IterationRaises
<1> QED  BY <1>1, <1>2, <1>3, <1>4, <1>5, <1>6, <1>7, <1>8, <1>9, <1>10
         DEF WorkerFault

\* Every step keeps the types.
LEMMA TypeStep == TypeInv /\ [Next]_vars => TypeInv'
<1> SUFFICES ASSUME TypeInv, [Next]_vars PROVE TypeInv'
  OBVIOUS
<1>1. ASSUME NEW s \in Signals, Publish(s) PROVE TypeInv'
  BY <1>1, TypePublish
<1>2. ASSUME NEW s \in Signals, PublishFails(s) PROVE TypeInv'
  BY <1>2 DEF PublishFails, Fault, TypeInv, TypeOK, HandsFull, table, local
<1>3. ASSUME NEW w \in Workers, WorkerStep(w) PROVE TypeInv'
  BY <1>3, TypeClaim, TypeProcess
<1>4. ASSUME NEW w \in Workers, WorkerFault(w) PROVE TypeInv'
  BY <1>4, TypeFault
<1>5. ASSUME NEW w \in Workers, Renew(w) PROVE TypeInv'
  BY <1>5 DEF Renew, RenewLease, TypeInv, TypeOK, HandsFull, local, history
<1>6. ASSUME NEW i \in Ids, LeaseExpires(i) PROVE TypeInv'
  BY <1>6 DEF LeaseExpires, TypeInv, TypeOK, HandsFull, local, history
<1>7. CASE UNCHANGED vars
  BY <1>7 DEF vars, table, local, history, TypeInv, TypeOK, HandsFull
<1> QED  BY <1>1, <1>2, <1>3, <1>4, <1>5, <1>6, <1>7 DEF Next

\* Type correctness of the table, of the consumers and of the history.
THEOREM TypeCorrect == Spec => []TypeOK
<1>1. Spec => []TypeInv
  BY TypeInit, TypeStep, PTL DEF Spec
<1>2. TypeInv => TypeOK
  BY DEF TypeInv
<1> QED  BY <1>1, <1>2, PTL

-----------------------------------------------------------------------------
(* The ledger and the table.                                               *)

LedgerInv == RowsHaveKeys /\ LedgerMatchesRows

\* Publishing writes ledger and rows together.
LEMMA LedgerPublish ==
    ASSUME TypeInv, LedgerInv, NEW s \in Signals, Publish(s) PROVE LedgerInv'
<1>1. PICK f \in [Unreserved(s) -> FreeIds] :
        /\ \A j, k \in Unreserved(s) : f[j] = f[k] => j = k
        /\ WriteIntents(s, f)
  BY DEF Publish
<1>2. TypeOK
  BY DEF TypeInv
<1>3. RowsHaveKeys'
  <2> SUFFICES ASSUME NEW i \in Ids
               PROVE  status'[i] = "absent" <=> keyOf'[i] = None
    BY DEF RowsHaveKeys
  <2> QED  BY <1>1, <1>2, WriteIntentsRow, NoneAssumption
           DEF LedgerInv, RowsHaveKeys, Keys
<1>4. ASSUME NEW k \in Keys
      PROVE  ledger'[k] = IF k \in Unreserved(s) THEN f[k] ELSE ledger[k]
  BY <1>1 DEF WriteIntents
<1>5. ASSUME NEW k \in Keys, ledger'[k] # None PROVE keyOf'[ledger'[k]] = k
  <2>1. CASE k \in Unreserved(s)
    <3>1. f[k] \in Ids /\ ledger'[k] = f[k]
      BY <1>4, <2>1 DEF FreeIds
    <3>2. PICK j \in Unreserved(s) : f[j] = f[k] /\ keyOf'[f[k]] = j
      BY <1>1, <1>2, <2>1, <3>1, WriteIntentsRow
    <3> QED  BY <1>1, <2>1, <3>1, <3>2
  <2>2. CASE k \notin Unreserved(s)
    <3>1. ledger[k] = ledger'[k] /\ ledger[k] \in Ids /\ keyOf[ledger[k]] = k
      BY <1>2, <1>4, <1>5, <2>2 DEF LedgerInv, LedgerMatchesRows, TypeOK
    <3>2. \A j \in Unreserved(s) : f[j] # ledger[k]
      BY <3>1, NoneAssumption DEF FreeIds, Keys
    <3>3. keyOf'[ledger[k]] = keyOf[ledger[k]]
      BY <1>1, <1>2, <3>1, <3>2, WriteIntentsRow
    <3> QED  BY <3>1, <3>3
  <2> QED  BY <2>1, <2>2
<1>6. ASSUME NEW i \in Ids, keyOf'[i] # None PROVE ledger'[keyOf'[i]] = i
  <2>1. CASE \E k \in Unreserved(s) : f[k] = i
    BY <1>1, <1>2, <2>1, WriteIntentsRow
  <2>2. CASE \A k \in Unreserved(s) : f[k] # i
    <3>1. keyOf'[i] = keyOf[i] /\ keyOf[i] \in Keys /\ ledger[keyOf[i]] = i
      BY <1>1, <1>2, <1>6, <2>2, WriteIntentsRow
      DEF LedgerInv, LedgerMatchesRows, TypeOK
    <3>2. keyOf[i] \notin Unreserved(s)
      BY <3>1, NoneAssumption DEF Unreserved
    <3> QED  BY <1>4, <3>1, <3>2
  <2> QED  BY <2>1, <2>2
<1>7. ASSUME NEW t \in Signals, NEW a \in Targets[t], NEW b \in Targets[t],
             ledger'[<<t, a>>] # None
      PROVE  ledger'[<<t, b>>] # None
  <2>1. <<t, a>> \in Keys /\ <<t, b>> \in Keys
    BY TargetsAssumption DEF Keys
  <2>2. CASE <<t, b>> \in Unreserved(s)
    BY <1>4, <2>1, <2>2, NoneAssumption DEF FreeIds
  <2>3. CASE <<t, b>> \notin Unreserved(s)
    <3>1. CASE <<t, a>> \in Unreserved(s)
      BY <1>4, <2>1, <2>3, <3>1 DEF Unreserved
    <3>2. CASE <<t, a>> \notin Unreserved(s)
      BY <1>4, <1>7, <2>1, <2>3, <3>2 DEF LedgerInv, LedgerMatchesRows
    <3> QED  BY <3>1, <3>2
  <2> QED  BY <2>2, <2>3
<1> QED  BY <1>3, <1>5, <1>6, <1>7 DEF LedgerInv, LedgerMatchesRows

\* No step of a consumer makes a row appear or vanish, or touches its key.
LEMMA RowsStay ==
    ASSUME TypeInv, RowsHaveKeys,
           \/ \E s \in Signals : PublishFails(s)
           \/ \E w \in Workers : WorkerStep(w) \/ WorkerFault(w) \/ Renew(w)
           \/ \E i \in Ids : LeaseExpires(i)
           \/ UNCHANGED vars
    PROVE  /\ ledger' = ledger /\ keyOf' = keyOf
           /\ \A i \in Ids : status'[i] = "absent" <=> status[i] = "absent"
<1> USE DEF table, local, history
<1>1. ASSUME NEW w \in Workers, WorkerStep(w)
      PROVE  /\ ledger' = ledger /\ keyOf' = keyOf
             /\ \A i \in Ids : status'[i] = "absent" <=> status[i] = "absent"
  <2>1. CASE SweepClaimed(w)
    BY <2>1 DEF SweepClaimed, Reclaimable
  <2>2. CASE SweepDispatched(w)
    BY <2>2 DEF SweepDispatched, DeadLetter
  <2>3. CASE SweepExhausted(w)
    BY <2>3 DEF SweepExhausted, DeadLetter
  <2>4. CASE Take(w)
    BY <2>4 DEF Take, OldestBatch, Claimable
  <2>5. CASE MarkDispatched(w)
    BY <2>5 DEF MarkDispatched, CommitDispatched, CanDispatch, TypeInv, TypeOK
  <2>6. CASE Complete(w)
    BY <2>6 DEF Complete, WriteTerminal, CanComplete, TypeInv, TypeOK,
                HandsFull, Terminal
  <2>7. CASE Announce(w) \/ BeginIntent(w) \/ EndBatch(w) \/ Heartbeat(w)
    BY <2>7 DEF Announce, BeginIntent, EndBatch, Heartbeat
  <2>8. CASE Abandon(w) \/ ProcessEvent(w) \/ EmitTerminal(w)
             \/ StartWorker(w) \/ Restart(w)
    BY <2>8 DEF Abandon, ProcessEvent, EmitTerminal, StartWorker, Restart
  <2> QED  BY <1>1, <2>1, <2>2, <2>3, <2>4, <2>5, <2>6, <2>7, <2>8 DEF WorkerStep
<1>2. ASSUME NEW w \in Workers, WorkerFault(w)
      PROVE  /\ ledger' = ledger /\ keyOf' = keyOf
             /\ \A i \in Ids : status'[i] = "absent" <=> status[i] = "absent"
  <2>1. CASE MarkFails(w)
    BY <2>1 DEF MarkFails, CommitDispatched, CanDispatch, TypeInv, TypeOK
  <2>2. CASE CompleteFails(w)
    BY <2>2 DEF CompleteFails, WriteTerminal, CanComplete, TypeInv, TypeOK,
                HandsFull, Terminal
  <2>3. CASE ClaimFails(w) \/ PrepareFails(w) \/ ProcessEventRaises(w)
             \/ EmitTerminalRaises(w)
    BY <2>3 DEF ClaimFails, PrepareFails, ProcessEventRaises, EmitTerminalRaises
  <2>4. CASE RenewerDies(w) \/ StopWorker(w) \/ Crash(w) \/ IterationRaises(w)
    BY <2>4 DEF RenewerDies, StopWorker, Crash, IterationRaises
  <2> QED  BY <1>2, <2>1, <2>2, <2>3, <2>4 DEF WorkerFault
<1>3. CASE \E s \in Signals : PublishFails(s)
  BY <1>3 DEF PublishFails
<1>4. CASE \E w \in Workers : Renew(w)
  BY <1>4 DEF Renew
<1>5. CASE \E i \in Ids : LeaseExpires(i)
  BY <1>5 DEF LeaseExpires
<1>6. CASE UNCHANGED vars
  BY <1>6 DEF vars
<1> QED  BY <1>1, <1>2, <1>3, <1>4, <1>5, <1>6

\* Every step keeps ledger and rows in agreement.
LEMMA LedgerStep == TypeInv /\ LedgerInv /\ [Next]_vars => LedgerInv'
<1> SUFFICES ASSUME TypeInv, LedgerInv, [Next]_vars PROVE LedgerInv'
  OBVIOUS
<1>1. ASSUME NEW s \in Signals, Publish(s) PROVE LedgerInv'
  BY <1>1, LedgerPublish
<1>2. CASE ~ \E s \in Signals : Publish(s)
  <2>1. /\ ledger' = ledger /\ keyOf' = keyOf
        /\ \A i \in Ids : status'[i] = "absent" <=> status[i] = "absent"
    BY <1>2, RowsStay DEF Next, LedgerInv
  <2> QED  BY <2>1 DEF LedgerInv, RowsHaveKeys, LedgerMatchesRows
<1> QED  BY <1>1, <1>2

\* At first both are empty.
LEMMA LedgerInit == Init => LedgerInv
BY NoneAssumption, TargetsAssumption
DEF Init, LedgerInv, RowsHaveKeys, LedgerMatchesRows, Keys

\* The idempotency ledger and the intent table always agree, and a signal is
\* reserved for all of its accounts or for none of them.
THEOREM LedgerCorrect == Spec => []LedgerMatchesRows
<1>1. Spec => [](TypeInv /\ LedgerInv)
  BY TypeInit, TypeStep, LedgerInit, LedgerStep, PTL DEF Spec
<1>2. LedgerInv => LedgerMatchesRows
  BY DEF LedgerInv
<1> QED  BY <1>1, <1>2, PTL

-----------------------------------------------------------------------------
(* The dispatch fence.                                                     *)

IInv == TypeInv /\ LedgerInv /\ Fence

\* At first nobody is past the dispatch fence.
LEMMA FenceInit == Init => Fence
BY DEF Init, Fence

\* A new row is not past the fence.
LEMMA FencePublish ==
    ASSUME IInv, NEW s \in Signals, Publish(s) PROVE Fence'
<1>1. PICK f \in [Unreserved(s) -> FreeIds] :
        /\ \A j, k \in Unreserved(s) : f[j] = f[k] => j = k
        /\ WriteIntents(s, f)
  BY DEF Publish
<1>2. ASSUME NEW i \in Ids, status'[i] \in Early PROVE status[i] \in Early
  BY <1>1, <1>2, WriteIntentsRow
  DEF IInv, TypeInv, LedgerInv, RowsHaveKeys, Early
<1> QED  BY <1>2 DEF Publish, IInv, Fence, local

\* The statements of a claim move rows only among the states before the
\* fence, or out of the queue.
LEMMA FenceClaim ==
    ASSUME IInv, NEW w \in Workers,
           SweepClaimed(w) \/ SweepDispatched(w) \/ SweepExhausted(w) \/ Take(w)
    PROVE  Fence'
<1> USE DEF IInv, TypeInv, TypeOK, Fence, Early, Goto, history
<1>1. CASE SweepClaimed(w)
  BY <1>1 DEF SweepClaimed, Reclaimable
<1>2. CASE SweepDispatched(w)
  BY <1>2 DEF SweepDispatched, DeadLetter
<1>3. CASE SweepExhausted(w)
  BY <1>3 DEF SweepExhausted, DeadLetter
<1>4. CASE Take(w)
  BY <1>4 DEF Take, OldestBatch, Claimable
<1> QED  BY <1>1, <1>2, <1>3, <1>4

\* Committing the CAS lets exactly one worker through.
LEMMA FenceCross ==
    ASSUME IInv, NEW w \in Workers, MarkDispatched(w) \/ MarkFails(w)
    PROVE  Fence'
<1> USE DEF IInv, TypeInv, TypeOK, HandsFull, Fence, Early, Goto, Raise,
            CommitDispatched, CanDispatch, InFlight
<1>1. CASE MarkDispatched(w)
  <2>1. cur[w] \in Ids /\ status[cur[w]] = "claimed"
    BY <1>1 DEF MarkDispatched
  <2>2. dispatches[cur[w]] = 0 /\ cur[w] \notin crossed
    BY <2>1
  <2>3. \A v \in Workers : pc[v] = "process" => cur[v] # cur[w]
    BY <2>2
  <2> QED  BY <1>1, <2>1, <2>2, <2>3 DEF MarkDispatched
<1>2. CASE MarkFails(w)
  <2>1. cur[w] \in Ids
    BY <1>2 DEF MarkFails
  <2>2. CASE UNCHANGED <<status, crossed>>
    BY <1>2, <2>2 DEF MarkFails
  <2>3. CASE CanDispatch(w, cur[w]) /\ CommitDispatched(w, cur[w])
    BY <1>2, <2>1, <2>3 DEF MarkFails
  <2> QED  BY <1>2, <2>2, <2>3 DEF MarkFails
<1> QED  BY <1>1, <1>2

\* Executing needs the right the fence gave.
LEMMA FenceProcess ==
    ASSUME IInv, NEW w \in Workers, ProcessEvent(w) \/ ProcessEventRaises(w)
    PROVE  Fence'
<1> USE DEF IInv, TypeInv, TypeOK, HandsFull, Fence, Early, Goto, Raise, InFlight
<1>1. pc[w] = "process" /\ cur[w] \in Ids /\ cur[w] \in crossed
      /\ dispatches[cur[w]] = 0
  BY DEF ProcessEvent, ProcessEventRaises
<1>2. /\ dispatches' = [dispatches EXCEPT ![cur[w]] = 1]
      /\ status' = status /\ crossed' = crossed /\ cur' = cur
  BY <1>1 DEF ProcessEvent, ProcessEventRaises, table
<1>3. pc' = [pc EXCEPT ![w] = "complete"] \/ pc' = [pc EXCEPT ![w] = "complete_failed"]
  BY DEF ProcessEvent, ProcessEventRaises
<1>4. status[cur[w]] \notin Early
  BY <1>1
<1>5. \A v \in Workers : pc[v] = "process" /\ v # w => cur[v] # cur[w]
  BY <1>1
<1>6. \A v \in Workers : pc'[v] = "process" => v # w /\ pc[v] = "process"
  BY <1>3
<1>7. \A v \in Workers : pc'[v] = "complete" => cur[v] \in crossed
  BY <1>1, <1>3
<1>8. \A i \in Ids : dispatches'[i] = IF i = cur[w] THEN 1 ELSE dispatches[i]
  BY <1>1, <1>2
<1> QED  BY <1>1, <1>2, <1>4, <1>5, <1>6, <1>7, <1>8

\* Completing a row keeps it behind the fence.
LEMMA FenceComplete ==
    ASSUME IInv, NEW w \in Workers, Complete(w) \/ CompleteFails(w)
    PROVE  Fence'
<1> USE DEF IInv, TypeInv, TypeOK, HandsFull, Fence, Early, Goto, InFlight, Terminal
<1>1. cur[w] \in Ids /\ result[w] \in Terminal
  BY DEF Complete, CompleteFails
<1>2. status' = status \/ status' = [status EXCEPT ![cur[w]] = result[w]]
  BY DEF Complete, CompleteFails, WriteTerminal
<1>3. \A i \in Ids : status'[i] \in Early => status[i] \in Early
  BY <1>1, <1>2
<1>4. /\ dispatches' = dispatches /\ crossed' = crossed /\ cur' = cur
      /\ pc' = [pc EXCEPT ![w] = "emit"] \/ pc' = [pc EXCEPT ![w] = "emit_failed"]
  BY DEF Complete, CompleteFails, AfterComplete, history
<1>5. \A i \in Ids : status'[i] \in Early => dispatches'[i] = 0 /\ i \notin crossed'
  BY <1>3, <1>4
<1>6. \A v \in Workers : pc'[v] \in {"process", "complete"} => pc'[v] = pc[v]
  BY <1>4
<1>7. /\ \A v \in Workers : pc'[v] = "process" =>
           cur'[v] \in crossed' /\ dispatches'[cur'[v]] = 0
      /\ \A v \in Workers : pc'[v] = "complete" => cur'[v] \in crossed'
  BY <1>4, <1>6
<1>8. \A u, v \in Workers :
        pc'[u] = "process" /\ pc'[v] = "process" /\ cur'[u] = cur'[v] => u = v
  BY <1>4, <1>6
<1> QED  BY <1>4, <1>5, <1>7, <1>8

\* All other steps leave rows, CAS and broker calls alone, and only take a
\* worker away from the fence.
LEMMA FenceElsewhere ==
    ASSUME IInv, NEW w \in Workers,
           \/ Announce(w) \/ BeginIntent(w) \/ EndBatch(w) \/ Heartbeat(w)
           \/ Abandon(w) \/ EmitTerminal(w) \/ StartWorker(w) \/ Restart(w)
           \/ ClaimFails(w) \/ PrepareFails(w) \/ EmitTerminalRaises(w)
           \/ RenewerDies(w) \/ StopWorker(w) \/ Crash(w) \/ Renew(w)
           \/ IterationRaises(w)
    PROVE  Fence'
<1>1. status' = status /\ dispatches' = dispatches /\ crossed' = crossed
  BY DEF Announce, BeginIntent, EndBatch, Heartbeat, Abandon, EmitTerminal,
         StartWorker, Restart, ClaimFails, PrepareFails, EmitTerminalRaises,
         RenewerDies, StopWorker, Crash, Renew, IterationRaises, table, history
<1>2. \A v \in Workers : pc'[v] \in {"process", "complete"} =>
         pc'[v] = pc[v] /\ cur'[v] = cur[v]
  <2>1. CASE Announce(w) \/ BeginIntent(w) \/ EndBatch(w) \/ Heartbeat(w)
    BY <2>1 DEF Announce, BeginIntent, EndBatch, Heartbeat, Goto, IInv, TypeInv, TypeOK
  <2>2. CASE Abandon(w) \/ EmitTerminal(w) \/ StartWorker(w) \/ Restart(w)
    BY <2>2 DEF Abandon, EmitTerminal, StartWorker, Restart, Leave, Goto,
                IInv, TypeInv, TypeOK
  <2>3. CASE ClaimFails(w) \/ PrepareFails(w)
    BY <2>3 DEF ClaimFails, PrepareFails, Raise, Goto, IInv, TypeInv, TypeOK
  <2>4. CASE EmitTerminalRaises(w)
    BY <2>4 DEF EmitTerminalRaises, Raise, Leave, Goto, IInv, TypeInv, TypeOK
  <2>5. CASE RenewerDies(w) \/ StopWorker(w)
    BY <2>5 DEF RenewerDies, StopWorker, Goto, IInv, TypeInv, TypeOK
  <2>6. CASE Crash(w) \/ Renew(w)
    BY <2>6 DEF Crash, Renew, Leave, Goto, local, IInv, TypeInv, TypeOK
  <2>7. CASE IterationRaises(w)
    BY <2>7 DEF IterationRaises, Goto, IInv, TypeInv, TypeOK
  <2> QED  BY <2>1, <2>2, <2>3, <2>4, <2>5, <2>6, <2>7
<1> QED  BY <1>1, <1>2 DEF IInv, Fence

\* Every step keeps the dispatch fence.
LEMMA FenceStep == IInv /\ [Next]_vars => Fence'
<1> SUFFICES ASSUME IInv, [Next]_vars PROVE Fence'
  OBVIOUS
<1>1. ASSUME NEW s \in Signals, Publish(s) PROVE Fence'
  BY <1>1, FencePublish
<1>2. ASSUME NEW s \in Signals, PublishFails(s) PROVE Fence'
  BY <1>2 DEF PublishFails, IInv, Fence, table, local
<1>3. ASSUME NEW w \in Workers, WorkerStep(w) PROVE Fence'
  BY <1>3, FenceClaim, FenceCross, FenceProcess, FenceComplete, FenceElsewhere
  DEF WorkerStep
<1>4. ASSUME NEW w \in Workers, WorkerFault(w) PROVE Fence'
  BY <1>4, FenceCross, FenceProcess, FenceComplete, FenceElsewhere
  DEF WorkerFault
<1>5. ASSUME NEW w \in Workers, Renew(w) PROVE Fence'
  BY <1>5, FenceElsewhere
<1>6. ASSUME NEW i \in Ids, LeaseExpires(i) PROVE Fence'
  BY <1>6 DEF LeaseExpires, IInv, Fence, local, history
<1>7. CASE UNCHANGED vars
  BY <1>7 DEF vars, table, local, history, IInv, Fence
<1> QED  BY <1>1, <1>2, <1>3, <1>4, <1>5, <1>6, <1>7 DEF Next

\* The inductive invariant holds in every reachable state.
LEMMA Inductive == Spec => []IInv
<1>1. Init => IInv
  BY TypeInit, LedgerInit, FenceInit DEF IInv
<1>2. IInv /\ [Next]_vars => IInv'
  BY TypeStep, LedgerStep, FenceStep DEF IInv
<1> QED  BY <1>1, <1>2, PTL DEF Spec

\* process_event is called at most once for an intent_key, for any number of
\* consumers, deliveries, attempts and faults.
THEOREM AtMostOnce == Spec => []AtMostOnceDispatch
<1>1. IInv => AtMostOnceDispatch
  <2> SUFFICES ASSUME IInv, NEW i \in Ids, NEW j \in Ids,
                      keyOf[i] # None, keyOf[i] = keyOf[j], dispatches[i] > 0
               PROVE  i = j /\ dispatches[i] = 1
    BY DEF AtMostOnceDispatch
  <2>1. i = j
    BY DEF IInv, LedgerInv, LedgerMatchesRows
  <2>2. dispatches[i] = 1
    BY DEF IInv, TypeInv, TypeOK, Fence
  <2> QED  BY <2>1, <2>2
<1> QED  BY <1>1, Inductive, PTL

-----------------------------------------------------------------------------
(* The lifecycle of a row.                                                 *)

\* Completing moves a row from dispatched or claimed to its end.
LEMMA CompleteMoves ==
    ASSUME IInv, NEW w \in Workers, Complete(w) \/ CompleteFails(w), NEW i \in Ids
    PROVE  RowMove(i)
<1> USE DEF IInv, TypeInv, TypeOK, HandsFull, InFlight
<1>1. CASE status' = status
  BY <1>1 DEF RowMove
<1>2. CASE status' # status
  <2>1. /\ CanComplete(w, cur[w]) /\ status' = [status EXCEPT ![cur[w]] = result[w]]
        /\ pc[w] \in {"complete", "complete_failed"}
        /\ cur[w] \in Ids /\ result[w] \in Terminal
    BY <1>2 DEF Complete, CompleteFails, WriteTerminal, Terminal
  <2>2. status[cur[w]] = "claimed" => result[w] = "failed"
    BY <2>1 DEF Fence, Early
  <2> QED  BY <2>1, <2>2 DEF RowMove, CanComplete
<1> QED  BY <1>1, <1>2

\* Every step moves a row only along its lifecycle.
LEMMA StepMoves ==
    ASSUME IInv, [Next]_vars, NEW i \in Ids PROVE RowMove(i)
<1> USE DEF table, local, history
<1>1. CASE status' = status
  BY <1>1 DEF RowMove
<1>2. ASSUME NEW s \in Signals, Publish(s) PROVE RowMove(i)
  BY <1>2, WriteIntentsRow
  DEF Publish, RowMove, IInv, TypeInv, LedgerInv, RowsHaveKeys
<1>3. ASSUME NEW w \in Workers, WorkerStep(w), status' # status PROVE RowMove(i)
  <2> USE DEF RowMove, Terminal
  <2>1. CASE SweepClaimed(w)
    BY <2>1 DEF SweepClaimed, Reclaimable
  <2>2. CASE SweepDispatched(w)
    BY <2>2 DEF SweepDispatched, DeadLetter
  <2>3. CASE SweepExhausted(w)
    BY <2>3 DEF SweepExhausted, DeadLetter
  <2>4. CASE Take(w)
    BY <2>4 DEF Take, OldestBatch, Claimable
  <2>5. CASE MarkDispatched(w)
    BY <2>5 DEF MarkDispatched, CommitDispatched, CanDispatch, IInv, TypeInv, TypeOK
  <2>6. CASE Complete(w)
    BY <2>6, CompleteMoves
  <2> QED  BY <1>3, <2>1, <2>2, <2>3, <2>4, <2>5, <2>6
           DEF WorkerStep, Announce, BeginIntent, EndBatch, Heartbeat, Abandon,
               ProcessEvent, EmitTerminal, StartWorker, Restart
<1>4. ASSUME NEW w \in Workers, WorkerFault(w), status' # status PROVE RowMove(i)
  <2>1. CASE MarkFails(w)
    BY <2>1 DEF MarkFails, CommitDispatched, CanDispatch, IInv, TypeInv, TypeOK, RowMove
  <2>2. CASE CompleteFails(w)
    BY <2>2, CompleteMoves
  <2> QED  BY <1>4, <2>1, <2>2
           DEF WorkerFault, ClaimFails, PrepareFails, ProcessEventRaises,
               EmitTerminalRaises, RenewerDies, StopWorker, Crash, IterationRaises
<1> QED  BY <1>1, <1>2, <1>3, <1>4 DEF Next, PublishFails, Renew, LeaseExpires, vars

\* A terminal row is final and a dispatched row is never claimable again.
THEOREM RowLifecycle == Spec => RowTransitions
<1>1. IInv /\ [Next]_vars => [\A i \in Ids : RowMove(i)]_vars
  BY StepMoves
<1> QED  BY <1>1, Inductive, PTL DEF Spec, RowTransitions

-----------------------------------------------------------------------------
(* What is recorded about an intent.                                       *)

Executed == {"completed", "skipped"}

\* What process_event stood for is known once it was called, and never is a
\* dead letter; the status of an executed row is written after the call.
OutcomesFollowCalls ==
    \A i \in Ids :
        /\ outcome[i] \in {None, "completed", "skipped", "failed"}
        /\ dispatches[i] = 0 => outcome[i] = None
        /\ status[i] \in Executed => dispatches[i] > 0

\* A claim uses an attempt, and only a committed CAS makes a row dispatched.
GivenUpForReason ==
    \A i \in Ids :
        /\ attempts[i] <= MaxAttempts
        /\ status[i] = "dispatched" => i \in crossed

\* A worker calls process_event as the owner of a dispatched row, unless the
\* row was dead-lettered meanwhile; then it holds the result of that call.
CallersOwn ==
    \A w \in Workers :
        /\ pc[w] = "process" =>
              /\ status[cur[w]] \in {"dispatched", "dead_lettered"}
              /\ status[cur[w]] = "dispatched" => Owned(w, cur[w])
        /\ pc[w] = "complete" =>
              outcome[cur[w]] = result[w] /\ dispatches[cur[w]] > 0

Waiting(w, i) == i \in todo[w] \/ (pc[w] \in {"heartbeat", "cas"} /\ cur[w] = i)

\* A worker never meets a row it dispatched before, and comes back to write
\* 'failed' over an executed intent only when its first write raised.
NoSecondLook ==
    \A w \in Workers :
        /\ pc[w] = "down" => todo[w] = {}
        /\ pc[w] \in InFlight => cur[w] \notin todo[w]
        /\ \A i \in Ids : Waiting(w, i) /\ Owned(w, i) => status[i] # "dispatched"
        /\ pc[w] \in {"emit", "complete_failed"} /\ CanComplete(w, cur[w])
              /\ outcome[cur[w]] \in Executed => cur[w] \in lost

Records ==
    /\ OutcomesFollowCalls /\ GivenUpForReason /\ CallersOwn /\ NoSecondLook
    /\ RecordedOutcomeIsReal

\* At first there is nothing on record.
LEMMA RecordsInit == Init => Records
BY NoneAssumption, BoundsAssumption
DEF Init, Records, OutcomesFollowCalls, GivenUpForReason, CallersOwn, NoSecondLook,
    RecordedOutcomeIsReal, Executed, Waiting, InFlight, Terminal

\* A new row was never called, claimed or recorded.
LEMMA RecordsPublish ==
    ASSUME IInv, Records, NEW s \in Signals, Publish(s) \/ PublishFails(s) PROVE Records'
<1>1. \A i \in Ids : status'[i] = status[i] \/ (status[i] = "absent" /\ status'[i] = "pending")
  <2>1. CASE PublishFails(s)
    BY <2>1 DEF PublishFails, table
  <2>2. CASE Publish(s)
    <3>1. PICK f \in [Unreserved(s) -> FreeIds] :
            /\ \A j, k \in Unreserved(s) : f[j] = f[k] => j = k
            /\ WriteIntents(s, f)
      BY <2>2 DEF Publish
    <3> QED  BY <3>1, WriteIntentsRow DEF IInv, TypeInv, LedgerInv, RowsHaveKeys
  <2> QED  BY <2>1, <2>2
<1>2. UNCHANGED <<attempts, owner, local, dispatches, outcome, crossed, lost>>
  BY DEF Publish, PublishFails, table
<1>3. \A w \in Workers : pc[w] \in {"process", "emit", "complete_failed"} => cur[w] \in Ids
  BY DEF IInv, TypeInv, HandsFull, InFlight
<1> QED  BY <1>1, <1>2, <1>3
         DEF local, Records, OutcomesFollowCalls, GivenUpForReason, CallersOwn, NoSecondLook,
             RecordedOutcomeIsReal, Executed, Waiting, CanComplete, Owned, Me

\* The sweeps of a claim reopen claimed rows and give up dispatched or exhausted ones.
LEMMA RecordsSwept ==
    ASSUME IInv, Records,
           UNCHANGED <<attempts, run, todo, cur, result, history>>,
           \A v \in Workers : pc'[v] \in InFlight \cup {"down"} => pc'[v] = pc[v],
           \A i \in Ids :
              \/ status'[i] = status[i] /\ owner'[i] = owner[i]
              \/ status[i] = "claimed" /\ status'[i] = "pending"
              \/ status[i] = "dispatched" /\ status'[i] = "dead_lettered"
              \/ status[i] = "pending" /\ attempts[i] = MaxAttempts /\ status'[i] = "dead_lettered"
    PROVE  Records'
<1> USE DEF history
<1>1. \A v \in Workers : pc[v] \in InFlight => cur[v] \in Ids
  BY DEF IInv, TypeInv, HandsFull
<1>2. OutcomesFollowCalls'
  BY DEF Records, OutcomesFollowCalls, Executed
<1>3. GivenUpForReason'
  BY DEF Records, GivenUpForReason
<1>4. CallersOwn'
  BY <1>1 DEF Records, CallersOwn, Owned, Me, InFlight
<1>5. NoSecondLook'
  <2> SUFFICES ASSUME NEW v \in Workers
               PROVE  /\ pc'[v] = "down" => todo[v] = {}
                      /\ pc'[v] \in InFlight => cur[v] \notin todo[v]
                      /\ \A i \in Ids : Waiting(v, i)' /\ Owned(v, i)' => status'[i] # "dispatched"
                      /\ pc'[v] \in {"emit", "complete_failed"} /\ CanComplete(v, cur[v])'
                            /\ outcome[cur[v]] \in Executed => cur[v] \in lost
    BY DEF NoSecondLook, CanComplete, Owned, Me
  <2>1. \A i \in Ids : Waiting(v, i)' => Waiting(v, i)
    BY DEF Waiting, InFlight
  <2>2. \A i \in Ids : Owned(v, i)' /\ status'[i] \in {"claimed", "dispatched"} =>
           Owned(v, i) /\ status'[i] = status[i]
    BY DEF Owned, Me
  <2> QED  BY <1>1, <2>1, <2>2 DEF Records, NoSecondLook, CanComplete, InFlight
<1>6. RecordedOutcomeIsReal'
  BY DEF Records, RecordedOutcomeIsReal, GivenUpForReason
<1> QED  BY <1>2, <1>3, <1>4, <1>5, <1>6 DEF Records

\* Taking rows records no outcome.
LEMMA RecordsTake == ASSUME IInv, Records, NEW w \in Workers, Take(w) PROVE Records'
<1>1. PICK S \in SUBSET Ids :
        /\ OldestBatch(w, S)
        /\ status' = [i \in Ids |-> IF i \in S THEN "claimed" ELSE status[i]]
        /\ attempts' = [i \in Ids |-> IF i \in S THEN attempts[i] + 1 ELSE attempts[i]]
        /\ owner' = [i \in Ids |-> IF i \in S THEN Me(w) ELSE owner[i]]
        /\ todo' = [todo EXCEPT ![w] = S]
  BY DEF Take
<1>2. \A i \in S : status[i] = "pending" /\ attempts[i] < MaxAttempts
  BY <1>1, BoundsAssumption DEF OldestBatch, Claimable, Exhausted, IInv, TypeInv, TypeOK
<1>3. UNCHANGED <<run, cur, result, history>> /\ pc[w] = "take"
      /\ pc' = [pc EXCEPT ![w] = "announce"]
  BY DEF Take, Goto
<1>4. \A v \in Workers : pc[v] \in InFlight => cur[v] \in Ids
  BY DEF IInv, TypeInv, HandsFull
<1>5. \A v \in Workers : /\ pc'[v] \in InFlight \cup {"down"} => pc'[v] = pc[v] /\ v # w
                         /\ v # w => todo'[v] = todo[v] /\ pc'[v] = pc[v] /\ Me(v) # Me(w)
  BY <1>1, <1>3 DEF IInv, TypeInv, TypeOK, Me, InFlight
<1> USE DEF history
<1>6. OutcomesFollowCalls'
  BY <1>1, <1>3 DEF Records, OutcomesFollowCalls, Executed
<1>7. GivenUpForReason'
  BY <1>1, <1>2, <1>3, BoundsAssumption DEF Records, GivenUpForReason, IInv, TypeInv, TypeOK
<1>8. CallersOwn'
  BY <1>1, <1>2, <1>3, <1>4, <1>5 DEF Records, CallersOwn, Owned, Me, InFlight
<1>9. NoSecondLook'
  <2>1. \A v \in Workers : /\ pc'[v] = "down" => todo'[v] = {}
                           /\ pc'[v] \in InFlight => cur[v] \notin todo'[v]
    BY <1>5 DEF Records, NoSecondLook
  <2>2. ASSUME NEW v \in Workers, NEW i \in Ids, Waiting(v, i)', Owned(v, i)'
        PROVE  status'[i] # "dispatched"
    BY <1>1, <1>2, <1>3, <1>5, <2>2 DEF Records, NoSecondLook, Waiting, Owned, Me, IInv, TypeInv,
       TypeOK
  <2>3. \A v \in Workers : pc'[v] \in {"emit", "complete_failed"} /\ CanComplete(v, cur[v])'
           => pc'[v] = pc[v] /\ CanComplete(v, cur[v])
    BY <1>1, <1>3, <1>4, <1>5 DEF CanComplete, Owned, Me, InFlight
  <2> QED  BY <1>3, <2>1, <2>2, <2>3 DEF Records, NoSecondLook, CanComplete, Owned, Me
<1>10. RecordedOutcomeIsReal'
  BY <1>1, <1>2, <1>3 DEF Records, RecordedOutcomeIsReal
<1> QED  BY <1>6, <1>7, <1>8, <1>9, <1>10 DEF Records

\* A dead letter is written only for an exhausted or abandoned row.
LEMMA RecordsClaim ==
    ASSUME IInv, Records, NEW w \in Workers,
           SweepClaimed(w) \/ SweepDispatched(w) \/ SweepExhausted(w) \/ Take(w)
    PROVE  Records'
<1>1. CASE SweepClaimed(w) \/ SweepDispatched(w) \/ SweepExhausted(w)
  <2>1. UNCHANGED <<attempts, run, todo, cur, result, history>>
    BY <1>1 DEF SweepClaimed, SweepDispatched, SweepExhausted
  <2>2. \A v \in Workers : pc'[v] \in InFlight \cup {"down"} => pc'[v] = pc[v]
    BY <1>1 DEF SweepClaimed, SweepDispatched, SweepExhausted, Goto, IInv, TypeInv, TypeOK, InFlight
  <2>3. ASSUME NEW i \in Ids, attempts[i] <= MaxAttempts
        PROVE  \/ status'[i] = status[i] /\ owner'[i] = owner[i]
               \/ status[i] = "claimed" /\ status'[i] = "pending"
               \/ status[i] = "dispatched" /\ status'[i] = "dead_lettered"
               \/ status[i] = "pending" /\ attempts[i] = MaxAttempts /\ status'[i] = "dead_lettered"
    <3>1. CASE SweepClaimed(w)
      BY <3>1 DEF SweepClaimed, Reclaimable
    <3>2. CASE SweepDispatched(w)
      BY <3>2 DEF SweepDispatched, DeadLetter
    <3>3. CASE SweepExhausted(w)
      <4>1. attempts[i] \in Nat /\ MaxAttempts \in Nat
        BY BoundsAssumption DEF IInv, TypeInv, TypeOK
      <4>2. Exhausted(i) => attempts[i] = MaxAttempts
        BY <2>3, <4>1 DEF Exhausted
      <4> QED  BY <3>3, <4>2 DEF SweepExhausted, DeadLetter
    <3> QED  BY <1>1, <3>1, <3>2, <3>3
  <2>4. \A i \in Ids : attempts[i] <= MaxAttempts
    BY DEF Records, GivenUpForReason
  <2> QED  BY <2>1, <2>2, <2>3, <2>4, RecordsSwept
<1> QED  BY <1>1, RecordsTake

\* Crossing the dispatch fence records no outcome.
LEMMA RecordsCross ==
    ASSUME IInv, Records, NEW w \in Workers, MarkDispatched(w) \/ MarkFails(w)
    PROVE  Records'
<1>1. /\ pc[w] = "cas" /\ cur[w] \in Ids
      /\ UNCHANGED <<attempts, owner, run, todo, cur, dispatches, outcome, lost>>
      /\ \A v \in Workers : v # w => pc'[v] = pc[v] /\ result'[v] = result[v]
      /\ pc'[w] \in {"process", "complete_failed"}
      /\ pc'[w] = "process" => CanDispatch(w, cur[w]) /\ CommitDispatched(w, cur[w])
  BY DEF MarkDispatched, MarkFails, Raise, Goto, IInv, TypeInv, TypeOK, HandsFull, InFlight
<1>2. \/ UNCHANGED <<status, crossed>>
      \/ CanDispatch(w, cur[w]) /\ CommitDispatched(w, cur[w])
  BY DEF MarkDispatched, MarkFails
<1>3. \A i \in Ids : \/ status'[i] = status[i]
                     \/ i = cur[w] /\ status[i] = "claimed" /\ Owned(w, i)
                        /\ status'[i] = "dispatched" /\ i \in crossed'
  BY <1>1, <1>2 DEF CanDispatch, CommitDispatched, IInv, TypeInv, TypeOK
<1>4. crossed \subseteq crossed'
  BY <1>2 DEF CommitDispatched
<1>5. \A v \in Workers : pc[v] \in InFlight => cur[v] \in Ids
  BY DEF IInv, TypeInv, HandsFull
<1>6. \A v \in Workers : \A i \in Ids : Owned(w, i) /\ v # w => ~Owned(v, i)
  BY DEF Owned, Me
<1>7. \A i \in Ids : status[i] = "claimed" => outcome[i] = None /\ i \notin crossed
  BY DEF IInv, Fence, Early, Records, OutcomesFollowCalls
<1>8. OutcomesFollowCalls'
  BY <1>1, <1>3 DEF Records, OutcomesFollowCalls, Executed
<1>9. GivenUpForReason'
  BY <1>1, <1>3, <1>4 DEF Records, GivenUpForReason
<1>10. CallersOwn'
  <2>1. ASSUME NEW v \in Workers, v # w, pc'[v] = "process"
        PROVE  /\ status'[cur[v]] \in {"dispatched", "dead_lettered"}
               /\ status'[cur[v]] = "dispatched" => Owned(v, cur[v])
    BY <1>1, <1>3, <1>5, <2>1 DEF Records, CallersOwn, InFlight
  <2>2. ASSUME pc'[w] = "process"
        PROVE  status'[cur[w]] = "dispatched" /\ Owned(w, cur[w])
    BY <1>1, <2>2 DEF CanDispatch, CommitDispatched, IInv, TypeInv, TypeOK
  <2>3. \A v \in Workers : pc'[v] = "complete" => v # w
    BY <1>1
  <2> QED  BY <1>1, <2>1, <2>2, <2>3 DEF Records, CallersOwn, Owned, Me
<1>11. NoSecondLook'
  <2>1. \A v \in Workers : /\ pc'[v] = "down" => todo[v] = {}
                           /\ pc'[v] \in InFlight => cur[v] \notin todo[v]
    BY <1>1 DEF Records, NoSecondLook, InFlight
  <2>2. ASSUME NEW v \in Workers, NEW i \in Ids, Waiting(v, i)', Owned(v, i)
        PROVE  status'[i] # "dispatched"
    <3>1. CASE v = w
      <4>1. i \in todo[w] /\ i # cur[w]
        BY <1>1, <2>2, <3>1 DEF Waiting, Records, NoSecondLook, InFlight
      <4> QED  BY <1>3, <2>2, <3>1, <4>1 DEF Records, NoSecondLook, Waiting
    <3>2. CASE v # w
      BY <1>1, <1>3, <1>6, <2>2, <3>2 DEF Records, NoSecondLook, Waiting
    <3> QED  BY <3>1, <3>2
  <2>3. ASSUME NEW v \in Workers, pc'[v] \in {"emit", "complete_failed"}, CanComplete(v, cur[v])',
               outcome[cur[v]] \in Executed
        PROVE  cur[v] \in lost
    <3>1. CASE v = w
      <4>1. status[cur[w]] = "claimed"
        BY <1>1, <1>3, <2>3, <3>1 DEF CanComplete, Owned, Me, Records, NoSecondLook, Waiting
      <4> QED  BY <1>1, <1>7, <2>3, <3>1, <4>1, NoneAssumption DEF Executed, Terminal
    <3>2. CASE v # w
      BY <1>1, <1>3, <1>5, <1>6, <2>3, <3>2
      DEF CanComplete, Owned, Me, Records, NoSecondLook, InFlight
    <3> QED  BY <3>1, <3>2
  <2> QED  BY <1>1, <2>1, <2>2, <2>3 DEF NoSecondLook, CanComplete, Owned, Me
<1>12. RecordedOutcomeIsReal'
  BY <1>1, <1>3, <1>4 DEF Records, RecordedOutcomeIsReal
<1> QED  BY <1>8, <1>9, <1>10, <1>11, <1>12 DEF Records

\* The consumer keeps the outcome it saw until it records it.
LEMMA RecordsProcess ==
    ASSUME IInv, Records, NEW w \in Workers, ProcessEvent(w) \/ ProcessEventRaises(w)
    PROVE  Records'
<1>1. /\ pc[w] = "process" /\ cur[w] \in Ids /\ dispatches[cur[w]] = 0
      /\ UNCHANGED <<status, attempts, owner, run, todo, cur, crossed, lost>>
      /\ dispatches' = [dispatches EXCEPT ![cur[w]] = 1]
  BY DEF ProcessEvent, ProcessEventRaises, table, IInv, TypeInv, TypeOK, HandsFull, InFlight, Fence
<1>2. PICK o \in {"completed", "skipped", "failed"} :
        /\ outcome' = [outcome EXCEPT ![cur[w]] = o] /\ result' = [result EXCEPT ![w] = o]
        /\ \/ pc' = [pc EXCEPT ![w] = "complete"]
           \/ pc' = [pc EXCEPT ![w] = "complete_failed"] /\ o = "failed"
  BY DEF ProcessEvent, ProcessEventRaises, TerminalOf, RawResults, Raise, Goto
<1>3. /\ \A i \in Ids : outcome'[i] = IF i = cur[w] THEN o ELSE outcome[i]
      /\ \A i \in Ids : dispatches'[i] = IF i = cur[w] THEN 1 ELSE dispatches[i]
      /\ \A v \in Workers : v # w => pc'[v] = pc[v] /\ result'[v] = result[v]
      /\ result'[w] = o /\ pc'[w] \in {"complete", "complete_failed"}
      /\ pc'[w] = "complete_failed" => o = "failed"
  BY <1>1, <1>2 DEF IInv, TypeInv, TypeOK
<1>4. \A v \in Workers : pc[v] \in InFlight => cur[v] \in Ids
  BY DEF IInv, TypeInv, HandsFull
<1>5. /\ status[cur[w]] \in {"dispatched", "dead_lettered"}
      /\ status[cur[w]] = "dispatched" => Owned(w, cur[w])
  BY <1>1 DEF Records, CallersOwn
<1>6. \A v \in Workers : v # w => ~CanComplete(v, cur[w])
  BY <1>1, <1>5 DEF CanComplete, Owned, Me
<1>7. OutcomesFollowCalls'
  BY <1>1, <1>3 DEF Records, OutcomesFollowCalls, Executed, IInv, TypeInv, TypeOK
<1>8. GivenUpForReason'
  BY <1>1 DEF Records, GivenUpForReason
<1>9. CallersOwn'
  <2>1. \A v \in Workers : v # w /\ pc[v] = "complete" => cur[v] # cur[w]
    BY <1>1 DEF Records, CallersOwn
  <2> QED  BY <1>1, <1>3, <1>4, <2>1 DEF Records, CallersOwn, Owned, Me, InFlight
<1>10. NoSecondLook'
  <2>1. \A v \in Workers : /\ pc'[v] = "down" => todo[v] = {}
                           /\ pc'[v] \in InFlight => cur[v] \notin todo[v]
                           /\ \A i \in Ids : Waiting(v, i)' => Waiting(v, i)
    BY <1>1, <1>3 DEF Records, NoSecondLook, InFlight, Waiting
  <2>2. \A v \in Workers : pc'[v] \in {"emit", "complete_failed"} /\ CanComplete(v, cur[v])
           /\ outcome'[cur[v]] \in Executed => cur[v] \in lost
    BY <1>1, <1>3, <1>4, <1>6 DEF Records, NoSecondLook, InFlight, Executed
  <2> QED  BY <1>1, <2>1, <2>2 DEF Records, NoSecondLook, CanComplete, Owned, Me
<1>11. RecordedOutcomeIsReal'
  BY <1>1, <1>3, <1>5 DEF Records, RecordedOutcomeIsReal
<1> QED  BY <1>7, <1>8, <1>9, <1>10, <1>11 DEF Records

\* What complete writes is what the consumer saw.
LEMMA RecordsComplete ==
    ASSUME IInv, Records, NEW w \in Workers, Complete(w) \/ CompleteFails(w)
    PROVE  Records'
<1>1. /\ pc[w] \in {"complete", "complete_failed"} /\ cur[w] \in Ids
      /\ pc[w] = "complete_failed" => result[w] = "failed"
      /\ UNCHANGED <<attempts, run, todo, cur, result, dispatches, outcome, crossed>>
      /\ \A v \in Workers : v # w => pc'[v] = pc[v]
      /\ pc'[w] = IF pc[w] = "complete" THEN "emit" ELSE "emit_failed"
      /\ lost \subseteq lost'
  BY DEF Complete, CompleteFails, AfterComplete, Goto, history, IInv, TypeInv, TypeOK, HandsFull,
         InFlight
<1>2. pc[w] = "complete" =>
        /\ outcome[cur[w]] = result[w] /\ dispatches[cur[w]] > 0
        /\ result[w] \in {"completed", "skipped", "failed"}
  BY <1>1, NoneAssumption
  DEF Records, CallersOwn, OutcomesFollowCalls, IInv, TypeInv, HandsFull
<1>3. \/ UNCHANGED <<status, owner>> /\ (CanComplete(w, cur[w]) => cur[w] \in lost')
      \/ /\ CanComplete(w, cur[w])
         /\ \A i \in Ids : status'[i] = IF i = cur[w] THEN result[w] ELSE status[i]
         /\ \A i \in Ids : owner'[i] = IF i = cur[w] THEN None ELSE owner[i]
  BY <1>1 DEF Complete, CompleteFails, WriteTerminal, IInv, TypeInv, TypeOK
<1>4. \A v \in Workers : pc[v] \in InFlight => cur[v] \in Ids
  BY DEF IInv, TypeInv, HandsFull
<1>5. \A v \in Workers : Me(v) # None
  BY NoneAssumption DEF Me, IInv, TypeInv, TypeOK
<1>6. OutcomesFollowCalls'
  BY <1>1, <1>2, <1>3 DEF Records, OutcomesFollowCalls, Executed
<1>7. GivenUpForReason'
  BY <1>1, <1>2, <1>3 DEF Records, GivenUpForReason
<1>8. CallersOwn'
  <2>1. ASSUME NEW v \in Workers, pc'[v] = "process", CanComplete(w, cur[w])
        PROVE  cur[v] # cur[w]
    BY <1>1, <1>4, <2>1 DEF Records, CallersOwn, CanComplete, Owned, Me
  <2> QED  BY <1>1, <1>3, <1>4, <2>1 DEF Records, CallersOwn, Owned, Me, InFlight
<1>9. NoSecondLook'
  <2>1. \A v \in Workers : /\ pc'[v] = "down" => todo[v] = {}
                           /\ pc'[v] \in InFlight => cur[v] \notin todo[v]
                           /\ \A i \in Ids : Waiting(v, i)' => Waiting(v, i)
    BY <1>1 DEF Records, NoSecondLook, InFlight, Waiting
  <2>2. \A v \in Workers : \A i \in Ids :
           /\ Owned(v, i)' => Owned(v, i) /\ status'[i] = status[i]
           /\ CanComplete(v, i)' => CanComplete(v, i)
    BY <1>1, <1>3, <1>5 DEF Owned, Me, CanComplete
  <2>3. CanComplete(w, cur[w])' => cur[w] \in lost'
    BY <1>1, <1>3, <1>5, <2>2 DEF CanComplete, Owned, Me
  <2>4. \A v \in Workers : pc'[v] \in {"emit", "complete_failed"} /\ CanComplete(v, cur[v])'
           /\ outcome[cur[v]] \in Executed => cur[v] \in lost'
    BY <1>1, <1>4, <2>2, <2>3 DEF Records, NoSecondLook, InFlight
  <2> QED  BY <1>1, <2>1, <2>2, <2>4 DEF Records, NoSecondLook, CanComplete, Owned, Me
<1>10. RecordedOutcomeIsReal'
  <2>1. pc[w] = "complete_failed" /\ CanComplete(w, cur[w]) /\ outcome[cur[w]] \in Executed
          => cur[w] \in lost
    BY <1>1 DEF Records, NoSecondLook
  <2> QED  BY <1>1, <1>2, <1>3, <2>1 DEF Records, RecordedOutcomeIsReal, Executed
<1> QED  BY <1>6, <1>7, <1>8, <1>9, <1>10 DEF Records

\* Steps that leave rows and history alone, and only take a worker away from
\* what it was about to write.
LEMMA RecordsQuiet ==
    ASSUME IInv, Records,
           UNCHANGED <<status, attempts, owner, run, dispatches, outcome, crossed, lost>>,
           \A v \in Workers :
              /\ pc'[v] \in {"process", "complete", "emit"} =>
                    pc'[v] = pc[v] /\ cur'[v] = cur[v] /\ result'[v] = result[v]
              /\ pc'[v] = "down" => todo'[v] = {}
              /\ pc'[v] \in InFlight => cur'[v] \notin todo'[v]
              /\ \A i \in Ids : Waiting(v, i)' => Waiting(v, i)
              /\ pc'[v] = "complete_failed" =>
                    /\ cur'[v] = cur[v]
                    /\ \/ pc[v] \in {"emit", "complete_failed"}
                       \/ Waiting(v, cur[v]) /\ cur[v] \in Ids
    PROVE  Records'
<1>1. OutcomesFollowCalls' /\ GivenUpForReason' /\ RecordedOutcomeIsReal'
  BY DEF Records, OutcomesFollowCalls, GivenUpForReason, RecordedOutcomeIsReal
<1>2. CallersOwn'
  BY DEF Records, CallersOwn, Owned, Me
<1>3. ASSUME NEW v \in Workers, NEW i \in Ids, Waiting(v, i), CanComplete(v, i)
      PROVE  outcome[i] \notin Executed
  <2>1. status[i] = "claimed"
    BY <1>3 DEF Records, NoSecondLook, CanComplete
  <2>2. outcome[i] = None
    BY <2>1 DEF IInv, Fence, Early, Records, OutcomesFollowCalls
  <2> QED  BY <2>2, NoneAssumption DEF Executed, Terminal
<1>4. \A v \in Workers : \A i \in Ids : Owned(v, i)' = Owned(v, i)
  BY DEF Owned, Me
<1>5. NoSecondLook'
  <2>1. ASSUME NEW v \in Workers, pc'[v] \in {"emit", "complete_failed"},
               CanComplete(v, cur[v])', outcome[cur'[v]] \in Executed, cur'[v] = cur[v]
        PROVE  cur'[v] \in lost
    <3>1. CanComplete(v, cur[v])
      BY <2>1 DEF CanComplete, Owned, Me
    <3>2. pc[v] \in {"emit", "complete_failed"}
      BY <1>3, <2>1, <3>1
    <3> QED  BY <2>1, <3>1, <3>2 DEF Records, NoSecondLook
  <2> QED  BY <1>4, <2>1 DEF Records, NoSecondLook, CanComplete, Owned, Me
<1> QED  BY <1>1, <1>2, <1>5 DEF Records

\* The other steps record nothing.
LEMMA RecordsElsewhere ==
    ASSUME IInv, Records, NEW w \in Workers,
           \/ Announce(w) \/ BeginIntent(w) \/ EndBatch(w) \/ Heartbeat(w)
           \/ Abandon(w) \/ EmitTerminal(w) \/ StartWorker(w) \/ Restart(w)
           \/ ClaimFails(w) \/ PrepareFails(w) \/ EmitTerminalRaises(w)
           \/ RenewerDies(w) \/ StopWorker(w) \/ Crash(w) \/ Renew(w)
           \/ IterationRaises(w)
    PROVE  Records'
<1> USE DEF Goto, Raise, Leave, InFlight, table, history, local, Waiting
<1>a. /\ pc \in [Workers -> Pcs] /\ todo \in [Workers -> SUBSET Ids]
      /\ cur \in [Workers -> Ids \cup {None}] /\ result \in [Workers -> Terminal \cup {None}]
      /\ \A v \in Workers : pc[v] \in InFlight => cur[v] \in Ids
  BY DEF IInv, TypeInv, TypeOK, HandsFull
<1>b. \A v \in Workers : /\ pc[v] = "down" => todo[v] = {}
                         /\ pc[v] \in InFlight => cur[v] \notin todo[v]
  BY DEF Records, NoSecondLook
<1>1. CASE Announce(w)
  BY <1>a, <1>b, <1>1, RecordsQuiet DEF Announce
<1>2. CASE BeginIntent(w)
  BY <1>a, <1>b, <1>2, RecordsQuiet DEF BeginIntent
<1>3. CASE EndBatch(w)
  BY <1>a, <1>b, <1>3, RecordsQuiet DEF EndBatch
<1>4. CASE Heartbeat(w)
  BY <1>a, <1>b, <1>4, RecordsQuiet DEF Heartbeat
<1>5. CASE Abandon(w)
  BY <1>a, <1>b, <1>5, RecordsQuiet DEF Abandon
<1>6. CASE EmitTerminal(w)
  BY <1>a, <1>b, <1>6, RecordsQuiet DEF EmitTerminal
<1>7. CASE StartWorker(w)
  BY <1>a, <1>b, <1>7, RecordsQuiet DEF StartWorker
<1>8. CASE Restart(w)
  BY <1>8 DEF Restart, IInv, TypeInv, TypeOK, HandsFull, Records, OutcomesFollowCalls,
              GivenUpForReason, CallersOwn, NoSecondLook, RecordedOutcomeIsReal, CanComplete,
              Owned, Me
<1>9. CASE ClaimFails(w)
  BY <1>a, <1>b, <1>9, RecordsQuiet DEF ClaimFails
<1>10. CASE PrepareFails(w)
  BY <1>a, <1>b, <1>10, RecordsQuiet DEF PrepareFails
<1>11. CASE EmitTerminalRaises(w)
  BY <1>a, <1>b, <1>11, RecordsQuiet DEF EmitTerminalRaises
<1>12. CASE RenewerDies(w)
  BY <1>a, <1>b, <1>12, RecordsQuiet DEF RenewerDies
<1>13. CASE StopWorker(w)
  BY <1>a, <1>b, <1>13, RecordsQuiet DEF StopWorker
<1>14. CASE Crash(w)
  BY <1>a, <1>b, <1>14, RecordsQuiet DEF Crash
<1>15. CASE Renew(w)
  BY <1>a, <1>b, <1>15, RecordsQuiet DEF Renew
<1>16. CASE IterationRaises(w)
  BY <1>a, <1>b, <1>16, RecordsQuiet DEF IterationRaises
<1> QED  BY <1>1, <1>2, <1>3, <1>4, <1>5, <1>6, <1>7, <1>8, <1>9, <1>10, <1>11, <1>12,
            <1>13, <1>14, <1>15, <1>16

\* Every step keeps the recorded outcomes real.
LEMMA RecordsStep == IInv /\ Records /\ [Next]_vars => Records'
<1> SUFFICES ASSUME IInv, Records, [Next]_vars PROVE Records'
  OBVIOUS
<1>1. ASSUME NEW s \in Signals, Publish(s) \/ PublishFails(s) PROVE Records'
  BY <1>1, RecordsPublish
<1>2. ASSUME NEW w \in Workers, WorkerStep(w) \/ WorkerFault(w) \/ Renew(w) PROVE Records'
  BY <1>2, RecordsClaim, RecordsCross, RecordsProcess, RecordsComplete, RecordsElsewhere
  DEF WorkerStep, WorkerFault
<1>3. ASSUME NEW i \in Ids, LeaseExpires(i) PROVE Records'
  BY <1>3 DEF LeaseExpires, local, history, Records, OutcomesFollowCalls, GivenUpForReason,
              CallersOwn, NoSecondLook, RecordedOutcomeIsReal, Waiting, CanComplete, Owned, Me
<1>4. CASE UNCHANGED vars
  BY <1>4 DEF vars, table, local, history, Records, OutcomesFollowCalls, GivenUpForReason,
              CallersOwn, NoSecondLook, RecordedOutcomeIsReal, Waiting, CanComplete, Owned, Me
<1> QED  BY <1>1, <1>2, <1>3, <1>4 DEF Next

\* What the table records about an intent is what happened to it: for any
\* number of consumers fighting over it, a worker that lost its lease never
\* overwrites the result of the worker that took over.
THEOREM OutcomesAreReal == Spec => []RecordedOutcomeIsReal
<1>1. Spec => [](IInv /\ Records)
  BY Inductive, RecordsInit, RecordsStep, PTL DEF Spec
<1>2. Records => RecordedOutcomeIsReal
  BY DEF Records
<1> QED  BY <1>1, <1>2, PTL

-----------------------------------------------------------------------------
(* The refinement of IntentDelivery.                                       *)

\* The stage of the key whose row is i.
RowStage(i) ==
    CASE status[i] \in {"pending", "claimed"} -> "queued"
      [] status[i] = "dispatched" -> "committed"
      [] OTHER -> IF i \in crossed THEN "settled" ELSE "dropped"

KeysOf(S) == {k \in Keys : ledger[k] \in S}

\* The refinement mapping at one key.
LEMMA StageOfKey ==
    ASSUME NEW k \in Keys
    PROVE  /\ stageOf[k] = IF ledger[k] = None THEN "new" ELSE RowStage(ledger[k])
           /\ executionsOf[k] = IF ledger[k] = None THEN 0 ELSE dispatches[ledger[k]]
BY DEF stageOf, executionsOf, RowStage

\* The first state maps to the first state of IntentDelivery.
LEMMA DeliveryInit == Init => Delivery!Init
BY DEF Init, Delivery!Init, stageOf, executionsOf

\* A step that leaves ledger, rows, CAS and broker calls alone stutters.
LEMMA Stutters ==
    ASSUME UNCHANGED <<ledger, status, crossed, dispatches>> PROVE UNCHANGED Delivery!vars
BY DEF Delivery!vars, stageOf, executionsOf

\* A step that moves the rows of S from one stage to another moves their keys.
LEMMA RowsMove ==
    ASSUME IInv, NEW S \in SUBSET Ids, NEW from, NEW to,
           \A i \in S : RowStage(i) = from,
           \A i \in Ids : RowStage(i)' = IF i \in S THEN to ELSE RowStage(i),
           UNCHANGED <<ledger, dispatches>>
    PROVE  KeysOf(S) \in SUBSET Keys /\ Delivery!Move(KeysOf(S), from, to)
<1>1. \A k \in Keys : ledger[k] = None \/ ledger[k] \in Ids
  BY DEF IInv, TypeInv, TypeOK
<1>2. \A k \in KeysOf(S) : stageOf[k] = from
  BY StageOfKey, NoneAssumption DEF KeysOf
<1>3. stageOf' = [k \in Keys |-> IF k \in KeysOf(S) THEN to ELSE stageOf[k]]
  <2>1. stageOf' = [k \in Keys |-> IF ledger[k] = None THEN "new" ELSE RowStage(ledger[k])']
    BY DEF stageOf, RowStage
  <2>2. \A k \in Keys : (IF ledger[k] = None THEN "new" ELSE RowStage(ledger[k])')
                          = IF k \in KeysOf(S) THEN to ELSE stageOf[k]
    <3> TAKE k \in Keys
    <3>1. CASE ledger[k] = None
      BY <3>1, StageOfKey, NoneAssumption DEF KeysOf
    <3>2. CASE ledger[k] \in Ids
      <4>1. RowStage(ledger[k])' = IF ledger[k] \in S THEN to ELSE RowStage(ledger[k])
        BY <3>2
      <4> QED  BY <3>2, <4>1, StageOfKey, NoneAssumption DEF KeysOf
    <3> QED  BY <1>1, <3>1, <3>2
  <2> QED  BY <2>1, <2>2
<1>4. executionsOf' = executionsOf
  BY DEF executionsOf
<1> QED  BY <1>2, <1>3, <1>4 DEF Delivery!Move, KeysOf

\* A row in the queue belongs to exactly one key.
LEMMA OneKey ==
    ASSUME IInv, NEW i \in Ids, status[i] # "absent"
    PROVE  keyOf[i] \in Keys /\ KeysOf({i}) = {keyOf[i]}
BY NoneAssumption DEF IInv, TypeInv, TypeOK, LedgerInv, RowsHaveKeys, LedgerMatchesRows, KeysOf

\* Publishing maps to the abstract request or to a stutter.
LEMMA DeliveryPublish ==
    ASSUME IInv, NEW s \in Signals, Publish(s)
    PROVE  Delivery!Next \/ UNCHANGED Delivery!vars
<1>1. PICK f \in [Unreserved(s) -> FreeIds] :
        /\ \A j, k \in Unreserved(s) : f[j] = f[k] => j = k
        /\ WriteIntents(s, f)
  BY DEF Publish
<1>2. TypeOK /\ UNCHANGED <<crossed, dispatches>>
  BY DEF IInv, TypeInv, Publish
<1> DEFINE G == {s} \X Targets[s]
<1>3. G \subseteq Keys /\ Unreserved(s) = {k \in G : ledger[k] = None}
  BY TargetsAssumption DEF Unreserved, Keys
<1>4. \A k \in Keys : ledger'[k] = IF k \in Unreserved(s) THEN f[k] ELSE ledger[k]
  BY <1>1 DEF WriteIntents
<1>5. \A k \in Unreserved(s) : f[k] \in Ids /\ f[k] # None /\ keyOf[f[k]] = None
  BY NoneAssumption DEF FreeIds
<1>6. ASSUME NEW k \in Keys, k \notin Unreserved(s), ledger[k] # None
      PROVE  status'[ledger[k]] = status[ledger[k]] /\ ledger[k] \in Ids
  <2>1. ledger[k] \in Ids /\ keyOf[ledger[k]] = k
    BY <1>2, <1>6 DEF TypeOK, IInv, LedgerInv, LedgerMatchesRows
  <2>2. \A j \in Unreserved(s) : f[j] # ledger[k]
    BY <1>5, <2>1, NoneAssumption
  <2> QED  BY <1>1, <1>2, <2>1, <2>2, WriteIntentsRow
<1>7. ASSUME NEW k \in Unreserved(s)
      PROVE  status'[f[k]] = "pending" /\ dispatches[f[k]] = 0
  <2>1. status'[f[k]] = "pending"
    BY <1>1, <1>2, <1>5, WriteIntentsRow
  <2>2. status[f[k]] = "absent"
    BY <1>5 DEF IInv, LedgerInv, RowsHaveKeys
  <2> QED  BY <1>5, <2>1, <2>2 DEF IInv, Fence, Early
<1>8. \A k \in Keys : stageOf'[k] = IF k \in Unreserved(s) THEN "queued" ELSE stageOf[k]
  BY <1>2, <1>4, <1>5, <1>6, <1>7 DEF stageOf
<1>9. \A k \in Keys : executionsOf'[k] = executionsOf[k]
  BY <1>2, <1>3, <1>4, <1>5, <1>7 DEF executionsOf
<1>10. executionsOf' = executionsOf
  BY <1>9 DEF executionsOf
<1>11. stageOf' = [k \in Keys |-> IF k \in Unreserved(s) THEN "queued" ELSE stageOf[k]]
  BY <1>8 DEF stageOf
<1>12. CASE Unreserved(s) = {}
  <2>1. stageOf' = stageOf
    BY <1>11, <1>12 DEF stageOf
  <2> QED  BY <1>10, <2>1 DEF Delivery!vars
<1>13. CASE Unreserved(s) # {}
  <2>1. PICK a \in Targets[s] : ledger[<<s, a>>] = None
    BY <1>3, <1>13
  <2>2. \A b \in Targets[s] : ledger[<<s, b>>] = None
    BY <2>1 DEF IInv, LedgerInv, LedgerMatchesRows
  <2>3. Unreserved(s) = G
    BY <1>3, <2>2
  <2>4. \A k \in G : stageOf[k] = "new"
    BY <1>3, <2>3, StageOfKey
  <2>5. Delivery!Accept(G)
    BY <1>10, <1>11, <2>3, <2>4 DEF Delivery!Accept, Delivery!Move
  <2>6. G \in {{x} \X Targets[x] : x \in Signals}
    OBVIOUS
  <2> QED  BY <2>5, <2>6 DEF Delivery!Next
<1> QED  BY <1>12, <1>13

\* The statements of a claim map to claims, releases and ends.
LEMMA DeliveryClaim ==
    ASSUME IInv, Records, NEW w \in Workers,
           SweepClaimed(w) \/ SweepDispatched(w) \/ SweepExhausted(w) \/ Take(w)
    PROVE  Delivery!Next \/ UNCHANGED Delivery!vars
<1>1. UNCHANGED <<ledger, dispatches, crossed>>
  BY DEF SweepClaimed, SweepDispatched, SweepExhausted, Take, history
<1>2. CASE SweepClaimed(w) \/ Take(w)
  <2>1. \A i \in Ids : \/ status'[i] = status[i]
                       \/ {status[i], status'[i]} \subseteq {"pending", "claimed"}
    BY <1>2 DEF SweepClaimed, Reclaimable, Take, OldestBatch, Claimable
  <2>2. \A k \in Keys : ledger[k] # None => ledger[k] \in Ids
    BY DEF IInv, TypeInv, TypeOK
  <2>3. stageOf' = stageOf /\ executionsOf' = executionsOf
    BY <1>1, <2>1, <2>2 DEF stageOf, executionsOf
  <2> QED  BY <2>3 DEF Delivery!vars
<1>3. CASE SweepDispatched(w)
  <2> DEFINE S == {i \in Mine(w) : status[i] = "dispatched" /\ expired[i]}
  <2>1. S \in SUBSET Ids /\ \A i \in S : RowStage(i) = "committed" /\ i \in crossed
    BY DEF Mine, RowStage, Records, GivenUpForReason
  <2>2. \A i \in Ids : RowStage(i)' = IF i \in S THEN "settled" ELSE RowStage(i)
    BY <1>1, <1>3, <2>1 DEF SweepDispatched, DeadLetter, RowStage
  <2>3. KeysOf(S) \in SUBSET Keys /\ Delivery!Settle(KeysOf(S))
    BY <1>1, <2>1, <2>2, RowsMove DEF Delivery!Settle
  <2> QED  BY <2>3 DEF Delivery!Next
<1>4. CASE SweepExhausted(w)
  <2> DEFINE S == {i \in Mine(w) : status[i] = "pending" /\ Exhausted(i)}
  <2>1. S \in SUBSET Ids /\ \A i \in S : RowStage(i) = "queued" /\ i \notin crossed
    BY DEF Mine, RowStage, IInv, Fence, Early
  <2>2. \A i \in Ids : RowStage(i)' = IF i \in S THEN "dropped" ELSE RowStage(i)
    BY <1>1, <1>4, <2>1 DEF SweepExhausted, DeadLetter, RowStage
  <2>3. KeysOf(S) \in SUBSET Keys /\ Delivery!Drop(KeysOf(S))
    BY <1>1, <2>1, <2>2, RowsMove DEF Delivery!Drop
  <2> QED  BY <2>3 DEF Delivery!Next
<1> QED  BY <1>2, <1>3, <1>4

\* The dispatch CAS maps to the abstract commitment.
LEMMA DeliveryCross ==
    ASSUME IInv, NEW w \in Workers, MarkDispatched(w) \/ MarkFails(w)
    PROVE  Delivery!Next \/ UNCHANGED Delivery!vars
<1>1. UNCHANGED <<ledger, dispatches>> /\ cur[w] \in Ids
  BY DEF MarkDispatched, MarkFails, IInv, TypeInv, HandsFull, InFlight
<1>2. CASE UNCHANGED <<status, crossed>>
  BY <1>1, <1>2, Stutters
<1>3. CASE CanDispatch(w, cur[w]) /\ CommitDispatched(w, cur[w])
  <2>1. status[cur[w]] = "claimed" /\ \A i \in {cur[w]} : RowStage(i) = "queued"
    BY <1>3 DEF CanDispatch, RowStage
  <2>2. \A i \in Ids : RowStage(i)' = IF i \in {cur[w]} THEN "committed" ELSE RowStage(i)
    BY <1>1, <1>3 DEF CommitDispatched, RowStage, IInv, TypeInv, TypeOK
  <2>3. Delivery!Move(KeysOf({cur[w]}), "queued", "committed")
    BY <1>1, <2>1, <2>2, RowsMove
  <2>4. keyOf[cur[w]] \in Keys /\ Delivery!Commit(keyOf[cur[w]])
    BY <1>1, <2>1, <2>3, OneKey DEF Delivery!Commit
  <2> QED  BY <2>4 DEF Delivery!Next
<1> QED  BY <1>2, <1>3 DEF MarkDispatched, MarkFails

\* process_event maps to the abstract execution.
LEMMA DeliveryExecute ==
    ASSUME IInv, NEW w \in Workers, ProcessEvent(w) \/ ProcessEventRaises(w)
    PROVE  Delivery!Next
<1>1. /\ cur[w] \in Ids /\ cur[w] \in crossed /\ dispatches[cur[w]] = 0
      /\ status[cur[w]] \notin Early
  BY DEF ProcessEvent, ProcessEventRaises, IInv, TypeInv, HandsFull, InFlight, Fence
<1>2. /\ dispatches' = [dispatches EXCEPT ![cur[w]] = 1]
      /\ UNCHANGED <<ledger, status, crossed>>
  BY <1>1 DEF ProcessEvent, ProcessEventRaises, table, IInv, TypeInv, TypeOK
<1> DEFINE k == keyOf[cur[w]]
<1>3. k \in Keys /\ KeysOf({cur[w]}) = {k}
  BY <1>1, OneKey DEF Early
<1>4. ledger[k] = cur[w] /\ \A j \in Keys : ledger[j] = cur[w] => j = k
  BY <1>3 DEF KeysOf
<1>5. stageOf[k] \in {"committed", "settled"} /\ executionsOf[k] = 0
  BY <1>1, <1>3, <1>4, StageOfKey, NoneAssumption DEF RowStage, Early, IInv, TypeInv, TypeOK
<1>6. stageOf' = stageOf
  BY <1>2 DEF stageOf
<1>7. executionsOf' = [executionsOf EXCEPT ![k] = 1]
  BY <1>1, <1>2, <1>3, <1>4, NoneAssumption DEF executionsOf, IInv, TypeInv, TypeOK
<1>8. Delivery!Execute(k)
  BY <1>5, <1>6, <1>7 DEF Delivery!Execute
<1> QED  BY <1>3, <1>8 DEF Delivery!Next

\* Completing maps to the abstract end or to a stutter.
LEMMA DeliveryComplete ==
    ASSUME IInv, Records, NEW w \in Workers, Complete(w) \/ CompleteFails(w)
    PROVE  Delivery!Next \/ UNCHANGED Delivery!vars
<1>1. /\ UNCHANGED <<ledger, dispatches, crossed>>
      /\ cur[w] \in Ids /\ result[w] \in Terminal
  BY DEF Complete, CompleteFails, history, IInv, TypeInv, HandsFull, InFlight, Terminal
<1>2. CASE status' = status
  BY <1>1, <1>2, Stutters
<1>3. CASE status' # status
  <2>1. CanComplete(w, cur[w]) /\ status' = [status EXCEPT ![cur[w]] = result[w]]
    BY <1>3 DEF Complete, CompleteFails, WriteTerminal
  <2>2. CASE status[cur[w]] = "claimed"
    <3>1. \A i \in {cur[w]} : RowStage(i) = "queued" /\ i \notin crossed
      BY <1>1, <2>2 DEF RowStage, IInv, Fence, Early
    <3>2. \A i \in Ids : RowStage(i)' = IF i \in {cur[w]} THEN "dropped" ELSE RowStage(i)
      BY <1>1, <2>1, <3>1 DEF RowStage, Terminal, IInv, TypeInv, TypeOK
    <3>3. KeysOf({cur[w]}) \in SUBSET Keys /\ Delivery!Drop(KeysOf({cur[w]}))
      BY <1>1, <3>1, <3>2, RowsMove DEF Delivery!Drop
    <3> QED  BY <3>3 DEF Delivery!Next
  <2>3. CASE status[cur[w]] = "dispatched"
    <3>1. \A i \in {cur[w]} : RowStage(i) = "committed" /\ i \in crossed
      BY <1>1, <2>3 DEF RowStage, Records, GivenUpForReason
    <3>2. \A i \in Ids : RowStage(i)' = IF i \in {cur[w]} THEN "settled" ELSE RowStage(i)
      BY <1>1, <2>1, <3>1 DEF RowStage, Terminal, IInv, TypeInv, TypeOK
    <3>3. KeysOf({cur[w]}) \in SUBSET Keys /\ Delivery!Settle(KeysOf({cur[w]}))
      BY <1>1, <3>1, <3>2, RowsMove DEF Delivery!Settle
    <3> QED  BY <3>3 DEF Delivery!Next
  <2> QED  BY <2>1, <2>2, <2>3 DEF CanComplete
<1> QED  BY <1>2, <1>3

\* The other steps are invisible to IntentDelivery.
LEMMA DeliveryElsewhere ==
    ASSUME NEW w \in Workers,
           \/ Announce(w) \/ BeginIntent(w) \/ EndBatch(w) \/ Heartbeat(w)
           \/ Abandon(w) \/ EmitTerminal(w) \/ StartWorker(w) \/ Restart(w)
           \/ ClaimFails(w) \/ PrepareFails(w) \/ EmitTerminalRaises(w)
           \/ RenewerDies(w) \/ StopWorker(w) \/ Crash(w) \/ Renew(w)
           \/ IterationRaises(w)
    PROVE  UNCHANGED Delivery!vars
<1>1. UNCHANGED <<ledger, status, crossed, dispatches>>
  BY DEF Announce, BeginIntent, EndBatch, Heartbeat, Abandon, EmitTerminal,
         StartWorker, Restart, ClaimFails, PrepareFails, EmitTerminalRaises,
         RenewerDies, StopWorker, Crash, Renew, IterationRaises, table, history
<1> QED  BY <1>1, Stutters

\* Every step maps to a step or a stutter of IntentDelivery.
LEMMA DeliveryStep == IInv /\ Records /\ [Next]_vars => [Delivery!Next]_(Delivery!vars)
<1> SUFFICES ASSUME IInv, Records, [Next]_vars
             PROVE  Delivery!Next \/ UNCHANGED Delivery!vars
  OBVIOUS
<1>1. ASSUME NEW s \in Signals, Publish(s)
      PROVE  Delivery!Next \/ UNCHANGED Delivery!vars
  BY <1>1, DeliveryPublish
<1>2. ASSUME NEW s \in Signals, PublishFails(s) PROVE UNCHANGED Delivery!vars
  BY <1>2, Stutters DEF PublishFails, table
<1>3. ASSUME NEW i \in Ids, LeaseExpires(i) PROVE UNCHANGED Delivery!vars
  BY <1>3, Stutters DEF LeaseExpires, history
<1>4. CASE UNCHANGED vars
  BY <1>4, Stutters DEF vars, table, history
<1>5. ASSUME NEW w \in Workers, WorkerStep(w) \/ WorkerFault(w) \/ Renew(w)
      PROVE  Delivery!Next \/ UNCHANGED Delivery!vars
  BY <1>5, DeliveryClaim, DeliveryCross, DeliveryExecute, DeliveryComplete, DeliveryElsewhere
  DEF WorkerStep, WorkerFault
<1> QED  BY <1>1, <1>2, <1>3, <1>4, <1>5 DEF Next

\* The intent queue implements IntentDelivery: the keys of a signal are
\* accepted together, and each is committed, executed at most once and settled,
\* or dropped, in that order and for good.
THEOREM DeliveryRefined == Spec => RefinesDelivery
<1>1. Spec => [](IInv /\ Records)
  BY Inductive, RecordsInit, RecordsStep, PTL DEF Spec
<1> QED  BY <1>1, DeliveryInit, DeliveryStep, PTL DEF Spec, RefinesDelivery, Delivery!Spec
=============================================================================
