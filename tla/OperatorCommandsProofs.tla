----------------------- MODULE OperatorCommandsProofs -----------------------
(***************************************************************************)
(* Proofs about the operator-command queue, for any number of requests,    *)
(* keys, consumers, attempts and faults.                                   *)
(***************************************************************************)
EXTENDS OperatorCommands, TLAPS

-----------------------------------------------------------------------------
(* The parts of the inductive invariant.                                   *)

Claiming == {"poll", "sweep_dispatched", "sweep_exhausted", "take", "batch"}
InFlight == {"heartbeat", "cas", "execute", "complete", "complete_failed", "emit", "emit_failed"}
Pcs == Claiming \cup InFlight \cup {"stopped", "down"}
Closing == {"complete", "complete_failed"}

\* A consumer inside _process_command has a command in hand, and one about to
\* write a final status knows which.
HandsFull ==
    /\ pc \in [Workers -> Pcs] /\ faults \in Nat
    /\ \A w \in Workers :
         /\ pc[w] \in InFlight => cur[w] \in Requests
         /\ pc[w] \in Closing => result[w] \in {"completed", "failed"}

TypeInv == TypeOK /\ HandsFull

\* A request has a row exactly when its write was committed: before that it
\* has none, and afterwards it is not told anything but what its row says.
RowsFollowWrites ==
    \A r \in Requests :
        /\ status[r] # "absent" => ask[r] \in {"submitted", "accepted", "error"}
        /\ ask[r] \in {"submitted", "accepted"} => status[r] # "absent"

\* Ledger and rows agree: a reserved key has the row of its request, and the
\* row of a keyed request has the reservation.
LedgerAgrees ==
    /\ \A k \in Keys : ledger[k] # None =>
          status[ledger[k]] # "absent" /\ key[ledger[k]] = k
    /\ \A r \in Requests : status[r] # "absent" /\ Keyed(r) => ledger[key[r]] = r

\* A request that lost the race has a key another one reserved.
LosersHaveWinners ==
    \A r \in Requests : ask[r] = "recheck" => Keyed(r) /\ ledger[key[r]] # None

\* What a request was told is about a row of its key, and a conflict is one.
AnswersHold ==
    \A r \in Requests :
        /\ ask[r] # "race"
        /\ ask[r] \in {"replayed", "conflict"} =>
              /\ answer[r] \in Requests /\ status[answer[r]] # "absent"
              /\ key[answer[r]] = key[r]
        /\ ask[r] = "conflict" => contract[answer[r]] # contract[r]

ServiceInv == RowsFollowWrites /\ LedgerAgrees /\ LosersHaveWinners /\ AnswersHold

\* The dispatch fence: a command whose claimed -> dispatched CAS committed is
\* past claiming for good, and one worker may execute it, once.
Fence ==
    /\ \A r \in Requests :
         /\ status[r] = "dispatched" => r \in crossed
         /\ r \in crossed => status[r] \in {"dispatched"} \cup Final
         /\ effects[r] <= 1 /\ (effects[r] > 0 => r \in crossed)
    /\ \A w \in Workers : pc[w] = "execute" => cur[w] \in crossed /\ effects[cur[w]] = 0
    /\ \A u, v \in Workers :
         pc[u] = "execute" /\ pc[v] = "execute" /\ cur[u] = cur[v] => u = v

IInv == TypeInv /\ ServiceInv /\ Fence

\* The first state is type correct.
LEMMA TypeInit == Init => TypeInv
BY DEF Init, TypeInv, TypeOK, HandsFull, Pcs, Claiming, InFlight, Closing, Open, Final, Answers

-----------------------------------------------------------------------------
(* Type correctness.                                                       *)

\* OperatorCommandService.enqueue keeps the types.
LEMMA TypeRequest ==
    ASSUME TypeInv, NEW r \in Requests, RequestStep(r) \/ RequestFails(r) PROVE TypeInv'
<1> USE DEF TypeInv, TypeOK, HandsFull, Answers, rows, local, Tell, Store
<1>1. CASE Arrive(r)
  <2>1. PICK i \in Inputs[r] : key' = [key EXCEPT ![r] = i[1]]
                           /\ contract' = [contract EXCEPT ![r] = i[2]]
    BY <1>1 DEF Arrive
  <2>2. i[1] \in Keys \cup {None} /\ i[2] \in Contracts
    BY InputsAssumption
  <2> QED  BY <1>1, <2>1, <2>2 DEF Arrive
<1>2. CASE LookUp(r)
  BY <1>2 DEF LookUp, Existing
<1>3. CASE Write(r)
  <2>1. Store(r) => /\ ledger' \in [Keys -> Requests \cup {None}]
                    /\ status' \in [Requests -> {"absent", "pending"} \cup Open \cup Final]
    BY DEF Keyed
  <2>2. /\ ask' \in [Requests -> {"new", "lookup", "writing", "recheck", "submitted"} \cup Answers]
        /\ answer' \in [Requests -> Requests \cup {None}]
    BY <1>3 DEF Write
  <2> HIDE DEF Store
  <2> QED  BY <1>3, <2>1, <2>2 DEF Write
<1>4. CASE Recheck(r)
  BY <1>4 DEF Recheck, Existing
<1>5. CASE EmitSubmitted(r)
  BY <1>5 DEF EmitSubmitted
<1>6. CASE RequestFails(r)
  BY <1>6 DEF RequestFails, Fault, Keyed
<1> QED  BY <1>1, <1>2, <1>3, <1>4, <1>5, <1>6 DEF RequestStep

\* complete_operator_command writes a final status or nothing.
LEMMA WriteFinalType ==
    ASSUME TypeInv, NEW w \in Workers, pc[w] \in Closing,
           WriteFinal(w, cur[w]) \/ UNCHANGED <<status, owner, expired>>
    PROVE  /\ status' \in [Requests -> {"absent", "pending"} \cup Open \cup Final]
           /\ owner' \in [Requests -> (Workers \X Nat) \cup {None}]
           /\ expired' \in [Requests -> BOOLEAN]
<1>1. cur[w] \in Requests /\ result[w] \in Final
  BY DEF TypeInv, HandsFull, Closing, InFlight, Final
<1>2. CASE UNCHANGED <<status, owner, expired>>
  BY <1>2 DEF TypeInv, TypeOK
<1>3. CASE /\ status' = [status EXCEPT ![cur[w]] = result[w]]
           /\ owner' = [owner EXCEPT ![cur[w]] = None]
           /\ expired' = [expired EXCEPT ![cur[w]] = FALSE]
  BY <1>1, <1>3 DEF TypeInv, TypeOK
<1> QED  BY <1>2, <1>3 DEF WriteFinal

\* The statements of claim_operator_commands keep the types.
LEMMA TypeClaim ==
    ASSUME TypeInv, NEW w \in Workers,
           SweepClaimed(w) \/ SweepDispatched(w) \/ SweepExhausted(w) \/ Take(w)
    PROVE  TypeInv'
<1> USE DEF TypeInv, TypeOK, HandsFull, Goto, Pcs, Claiming, InFlight, Closing, Open, Final,
            service, Relabel
<1>1. CASE SweepClaimed(w)
  BY <1>1 DEF SweepClaimed
<1>2. CASE SweepDispatched(w)
  BY <1>2 DEF SweepDispatched
<1>3. CASE SweepExhausted(w)
  BY <1>3 DEF SweepExhausted
<1>4. CASE Take(w)
  <2>1. PICK S \in SUBSET Requests :
          /\ status' = [r \in Requests |-> IF r \in S THEN "claimed" ELSE status[r]]
          /\ attempts' = [r \in Requests |-> IF r \in S THEN attempts[r] + 1 ELSE attempts[r]]
          /\ owner' = [r \in Requests |-> IF r \in S THEN Me(w) ELSE owner[r]]
          /\ expired' = [r \in Requests |-> expired[r] /\ r \notin S]
          /\ todo' = [todo EXCEPT ![w] = S]
    BY <1>4 DEF Take
  <2>2. Me(w) \in Workers \X Nat
    BY DEF Me
  <2>3. owner' \in [Requests -> (Workers \X Nat) \cup {None}]
    BY <2>1, <2>2
  <2>4. attempts' \in [Requests -> Nat] /\ expired' \in [Requests -> BOOLEAN]
    BY <2>1
  <2>5. status' \in [Requests -> {"absent", "pending"} \cup Open \cup Final]
    BY <2>1
  <2> QED  BY <1>4, <2>1, <2>3, <2>4, <2>5 DEF Take
<1> QED  BY <1>1, <1>2, <1>3, <1>4

\* _worker_iteration and _process_command keep the types.
LEMMA TypeProcess ==
    ASSUME TypeInv, NEW w \in Workers,
           \/ Begin(w) \/ EndBatch(w) \/ Heartbeat(w) \/ MarkDispatched(w) \/ Abandon(w)
           \/ Execute(w) \/ Complete(w) \/ Emit(w) \/ Start(w) \/ Restart(w) \/ Renew(w)
    PROVE  TypeInv'
<1> USE DEF TypeInv, TypeOK, HandsFull, Goto, Pcs, Claiming, InFlight, Closing, Open, Final,
            service, rows, Leave
<1>1. CASE Begin(w)
  BY <1>1 DEF Begin
<1>2. CASE EndBatch(w)
  BY <1>2 DEF EndBatch
<1>3. CASE Heartbeat(w)
  BY <1>3 DEF Heartbeat, Extends
<1>4. CASE MarkDispatched(w)
  BY <1>4 DEF MarkDispatched, CommitDispatched
<1>5. CASE Abandon(w)
  BY <1>5 DEF Abandon
<1>6. CASE Execute(w)
  BY <1>6 DEF Execute
<1>7. CASE Complete(w)
  <2>1. /\ status' \in [Requests -> {"absent", "pending"} \cup Open \cup Final]
        /\ owner' \in [Requests -> (Workers \X Nat) \cup {None}]
        /\ expired' \in [Requests -> BOOLEAN]
    <3> HIDE DEF TypeInv, Closing
    <3> QED  BY <1>7, WriteFinalType DEF Complete, Closing
  <2>2. pc' \in [Workers -> Pcs] /\ \A v \in Workers : v # w => pc'[v] = pc[v]
    BY <1>7 DEF Complete, AfterComplete
  <2>3. pc'[w] \in {"emit", "emit_failed"} /\ cur[w] \in Requests
    BY <1>7 DEF Complete, AfterComplete
  <2> QED  BY <1>7, <2>1, <2>2, <2>3 DEF Complete
<1>8. CASE Emit(w)
  BY <1>8 DEF Emit
<1>9. CASE Start(w)
  BY <1>9 DEF Start
<1>10. CASE Restart(w)
  BY <1>10 DEF Restart
<1>11. CASE Renew(w)
  BY <1>11 DEF Renew, Extends, local
<1> QED  BY <1>1, <1>2, <1>3, <1>4, <1>5, <1>6, <1>7, <1>8, <1>9, <1>10, <1>11

\* Errors, lost connections, stops and crashes keep the types.
LEMMA TypeFault ==
    ASSUME TypeInv, NEW w \in Workers, WorkerFault(w) PROVE TypeInv'
<1> USE DEF TypeInv, TypeOK, HandsFull, Goto, Pcs, Claiming, InFlight, Closing, Open, Final,
            service, rows, Leave, Fault, Raise
<1>1. CASE ClaimFails(w)
  BY <1>1 DEF ClaimFails
<1>2. CASE IterationRaises(w)
  BY <1>2 DEF IterationRaises
<1>3. CASE HeartbeatFails(w)
  BY <1>3 DEF HeartbeatFails
<1>4. CASE MarkFails(w)
  <2>1. status' \in [Requests -> {"absent", "pending"} \cup Open \cup Final]
        /\ crossed' \subseteq Requests
    BY <1>4 DEF MarkFails, CommitDispatched
  <2>2. /\ pc' = [pc EXCEPT ![w] = "complete_failed"] /\ cur[w] \in Requests
        /\ result' = [result EXCEPT ![w] = "failed"] /\ faults' = faults + 1
    BY <1>4 DEF MarkFails
  <2>3. UNCHANGED <<service, attempts, owner, expired, run, todo, cur, renewing, effects>>
    BY <1>4 DEF MarkFails
  <2> QED  BY <2>1, <2>2, <2>3
<1>5. CASE ExecuteRaises(w)
  BY <1>5 DEF ExecuteRaises
<1>6. CASE CompleteFails(w)
  <2>1. /\ status' \in [Requests -> {"absent", "pending"} \cup Open \cup Final]
        /\ owner' \in [Requests -> (Workers \X Nat) \cup {None}]
        /\ expired' \in [Requests -> BOOLEAN]
    <3> HIDE DEF TypeInv, Closing
    <3> QED  BY <1>6, WriteFinalType DEF CompleteFails, Closing
  <2>2. pc' \in [Workers -> Pcs] /\ \A v \in Workers : v # w => pc'[v] = pc[v]
    BY <1>6 DEF CompleteFails, AfterComplete
  <2>3. pc'[w] \in {"emit", "emit_failed"} /\ cur[w] \in Requests
    BY <1>6 DEF CompleteFails, AfterComplete
  <2> QED  BY <1>6, <2>1, <2>2, <2>3 DEF CompleteFails
<1>7. CASE EmitRaises(w)
  <2>1. CASE pc[w] = "emit" /\ Raise(w) /\ UNCHANGED <<todo, cur, renewing>>
    BY <1>7, <2>1 DEF EmitRaises
  <2>2. CASE /\ pc[w] = "emit_failed" /\ Leave(w, "poll")
             /\ todo' = [todo EXCEPT ![w] = {}]
    BY <1>7, <2>2 DEF EmitRaises
  <2> QED  BY <1>7, <2>1, <2>2 DEF EmitRaises
<1>8. CASE RenewerDies(w)
  BY <1>8 DEF RenewerDies
<1>9. CASE Stop(w)
  BY <1>9 DEF Stop
<1>10. CASE Crash(w)
  BY <1>10 DEF Crash
<1> QED  BY <1>1, <1>2, <1>3, <1>4, <1>5, <1>6, <1>7, <1>8, <1>9, <1>10 DEF WorkerFault

\* Every step keeps the types.
LEMMA TypeStep == TypeInv /\ [Next]_vars => TypeInv'
<1> SUFFICES ASSUME TypeInv, [Next]_vars PROVE TypeInv'
  OBVIOUS
<1>1. ASSUME NEW r \in Requests, RequestStep(r) \/ RequestFails(r) PROVE TypeInv'
  BY <1>1, TypeRequest
<1>2. ASSUME NEW r \in Requests, LeaseExpires(r) PROVE TypeInv'
  BY <1>2 DEF LeaseExpires, TypeInv, TypeOK, HandsFull, service, local
<1>3. ASSUME NEW w \in Workers, WorkerStep(w) \/ Renew(w) PROVE TypeInv'
  BY <1>3, TypeClaim, TypeProcess DEF WorkerStep
<1>4. ASSUME NEW w \in Workers, WorkerFault(w) PROVE TypeInv'
  BY <1>4, TypeFault
<1>5. CASE UNCHANGED vars
  BY <1>5 DEF vars, TypeInv, TypeOK, HandsFull
<1> QED  BY <1>1, <1>2, <1>3, <1>4, <1>5 DEF Next

\* Type correctness of the requests, of the table and of the consumers.
THEOREM CommandTypes == Spec => []TypeOK
<1>1. TypeInv => TypeOK
  BY DEF TypeInv
<1> QED  BY <1>1, TypeInit, TypeStep, PTL DEF Spec

-----------------------------------------------------------------------------
(* What enqueue answers.                                                   *)

\* No step of a consumer makes a row appear or vanish, and none touches what
\* the service keeps.
LEMMA RowsStay ==
    ASSUME TypeInv,
           \/ \E w \in Workers : WorkerStep(w) \/ WorkerFault(w) \/ Renew(w)
           \/ \E r \in Requests : LeaseExpires(r)
           \/ UNCHANGED vars
    PROVE  /\ UNCHANGED service
           /\ \A r \in Requests : status'[r] = "absent" <=> status[r] = "absent"
<1> DEFINE Stay == /\ UNCHANGED service
                   /\ \A r \in Requests : status'[r] = "absent" <=> status[r] = "absent"
<1>1. ASSUME NEW w \in Workers, WorkerStep(w) PROVE Stay
  <2>1. CASE SweepClaimed(w) \/ SweepDispatched(w) \/ SweepExhausted(w)
    BY <2>1 DEF SweepClaimed, SweepDispatched, SweepExhausted, Relabel, Reclaimable,
                Abandoned, Exhausted
  <2>2. CASE Take(w)
    BY <2>2 DEF Take, Batch, Claimable
  <2>3. CASE MarkDispatched(w)
    BY <2>3 DEF MarkDispatched, CommitDispatched, CanDispatch, TypeInv, TypeOK
  <2>4. CASE Complete(w)
    BY <2>4 DEF Complete, WriteFinal, CanComplete, TypeInv, TypeOK, HandsFull, Closing, Open
  <2>5. CASE Begin(w) \/ EndBatch(w) \/ Heartbeat(w) \/ Abandon(w) \/ Execute(w)
    BY <2>5 DEF Begin, EndBatch, Heartbeat, Abandon, Execute, rows
  <2>6. CASE Emit(w) \/ Start(w) \/ Restart(w)
    BY <2>6 DEF Emit, Start, Restart, rows
  <2> QED  BY <1>1, <2>1, <2>2, <2>3, <2>4, <2>5, <2>6 DEF WorkerStep
<1>2. ASSUME NEW w \in Workers, WorkerFault(w) PROVE Stay
  <2>1. CASE MarkFails(w)
    BY <2>1 DEF MarkFails, CommitDispatched, CanDispatch, TypeInv, TypeOK
  <2>2. CASE CompleteFails(w)
    BY <2>2 DEF CompleteFails, WriteFinal, CanComplete, TypeInv, TypeOK, HandsFull, Closing, Open
  <2>3. CASE ClaimFails(w) \/ IterationRaises(w) \/ HeartbeatFails(w) \/ ExecuteRaises(w)
    BY <2>3 DEF ClaimFails, IterationRaises, HeartbeatFails, ExecuteRaises, rows
  <2>4. CASE EmitRaises(w) \/ RenewerDies(w) \/ Stop(w) \/ Crash(w)
    BY <2>4 DEF EmitRaises, RenewerDies, Stop, Crash, rows
  <2> QED  BY <1>2, <2>1, <2>2, <2>3, <2>4 DEF WorkerFault
<1>3. ASSUME NEW w \in Workers, Renew(w) PROVE Stay
  BY <1>3 DEF Renew
<1>4. ASSUME NEW r \in Requests, LeaseExpires(r) PROVE Stay
  BY <1>4 DEF LeaseExpires
<1>5. CASE UNCHANGED vars
  BY <1>5 DEF vars, service
<1> QED  BY <1>1, <1>2, <1>3, <1>4, <1>5

\* Storing a row under a free key, with its reservation, in one transaction.
LEMMA ServiceStore ==
    ASSUME TypeInv, ServiceInv, NEW r \in Requests, ask[r] = "writing", Reserves(r), Store(r),
           UNCHANGED <<key, contract>>,
           \/ Tell(r, "submitted", r)
           \/ Tell(r, "error", None)
    PROVE  ServiceInv'
<1> USE DEF TypeInv, TypeOK, Tell, Keyed
<1>1. status[r] = "absent"
  BY DEF ServiceInv, RowsFollowWrites
<1>2. /\ \A x \in Requests : status'[x] = IF x = r THEN "pending" ELSE status[x]
      /\ \A x \in Requests : ask'[x] = IF x = r THEN ask'[r] ELSE ask[x]
      /\ \A x \in Requests : x # r => answer'[x] = answer[x]
      /\ ask'[r] \in {"submitted", "error"}
  BY DEF Store
<1>3. \A k \in Keys : ledger'[k] = IF k = key[r] THEN r ELSE ledger[k]
  BY NoneAssumption DEF Store
<1>4. RowsFollowWrites'
  BY <1>2 DEF ServiceInv, RowsFollowWrites
<1>5. LedgerAgrees'
  <2>1. \A k \in Keys : ledger'[k] # None => status'[ledger'[k]] # "absent" /\ key[ledger'[k]] = k
    BY <1>2, <1>3 DEF ServiceInv, LedgerAgrees
  <2>2. ASSUME NEW x \in Requests, status'[x] # "absent", key[x] # None
        PROVE  ledger'[key[x]] = x
    <3>1. CASE x = r
      BY <1>3, <2>2, <3>1
    <3>2. CASE x # r
      <4>1. ledger[key[x]] = x
        BY <1>2, <2>2, <3>2 DEF ServiceInv, LedgerAgrees
      <4>2. key[x] # key[r]
        BY <2>2, <4>1, NoneAssumption DEF Reserves
      <4> QED  BY <1>3, <2>2, <4>1, <4>2
    <3> QED  BY <3>1, <3>2
  <2> QED  BY <2>1, <2>2 DEF LedgerAgrees
<1>6. LosersHaveWinners'
  BY <1>2, <1>3, NoneAssumption DEF ServiceInv, LosersHaveWinners
<1>7. AnswersHold'
  BY <1>1, <1>2 DEF ServiceInv, AnswersHold
<1> QED  BY <1>4, <1>5, <1>6, <1>7 DEF ServiceInv

\* The steps of a request keep keys, commands and answers together.
LEMMA ServiceRequest ==
    ASSUME TypeInv, ServiceInv, NEW r \in Requests, RequestStep(r) \/ RequestFails(r)
    PROVE  ServiceInv'
<1> USE DEF TypeInv, TypeOK, rows
<1>1. CASE Arrive(r)
  <2>1. /\ status' = status /\ ledger' = ledger /\ answer' = answer
        /\ status[r] = "absent" /\ ask' = [ask EXCEPT ![r] = "lookup"]
        /\ \A x \in Requests : x # r => key'[x] = key[x] /\ contract'[x] = contract[x]
    BY <1>1 DEF Arrive, ServiceInv, RowsFollowWrites
  <2>2. RowsFollowWrites'
    BY <2>1 DEF ServiceInv, RowsFollowWrites
  <2>3. LedgerAgrees'
    <3>1. \A k \in Keys : ledger[k] # None => ledger[k] \in Requests /\ ledger[k] # r
      BY <2>1 DEF ServiceInv, LedgerAgrees
    <3> QED  BY <2>1, <3>1 DEF ServiceInv, LedgerAgrees, Keyed
  <2>4. LosersHaveWinners'
    BY <2>1 DEF ServiceInv, LosersHaveWinners, Keyed
  <2>5. AnswersHold'
    BY <2>1 DEF ServiceInv, AnswersHold
  <2> QED  BY <2>2, <2>3, <2>4, <2>5 DEF ServiceInv
<1>2. CASE LookUp(r)
  BY <1>2 DEF LookUp, Tell, Existing, SameContract, Keyed, ServiceInv, RowsFollowWrites,
              LedgerAgrees, LosersHaveWinners, AnswersHold
<1>3. CASE Write(r)
  <2>1. CASE Reserves(r) /\ Store(r) /\ Tell(r, "submitted", r)
    BY <1>3, <2>1, ServiceStore DEF Write
  <2>2. CASE ~Reserves(r) /\ Tell(r, "recheck", None) /\ UNCHANGED <<ledger, status>>
    BY <1>3, <2>2 DEF Write, Tell, Reserves, Keyed, ServiceInv, RowsFollowWrites,
                      LedgerAgrees, LosersHaveWinners, AnswersHold
  <2> QED  BY <1>3, <2>1, <2>2 DEF Write
<1>4. CASE Recheck(r)
  <2>1. ledger[key[r]] \in Existing(r)
    BY <1>4 DEF Recheck, Existing, Keyed, ServiceInv, LosersHaveWinners, LedgerAgrees
  <2>2. PICK x \in Existing(r) : Tell(r, "replayed", x)
    BY <1>4, <2>1 DEF Recheck
  <2> QED  BY <1>4, <2>2 DEF Recheck, Tell, Existing, Keyed, ServiceInv, RowsFollowWrites,
                             LedgerAgrees, LosersHaveWinners, AnswersHold
<1>5. CASE EmitSubmitted(r)
  BY <1>5 DEF EmitSubmitted, Tell, Keyed, ServiceInv, RowsFollowWrites, LedgerAgrees,
              LosersHaveWinners, AnswersHold
<1>6. CASE RequestFails(r)
  <2>1. CASE ask[r] = "writing" /\ Reserves(r) /\ Store(r)
    BY <1>6, <2>1, ServiceStore DEF RequestFails
  <2>2. CASE UNCHANGED <<ledger, status>>
    BY <1>6, <2>2 DEF RequestFails, Tell, Keyed, ServiceInv, RowsFollowWrites, LedgerAgrees,
                      LosersHaveWinners, AnswersHold
  <2> QED  BY <1>6, <2>1, <2>2 DEF RequestFails
<1> QED  BY <1>1, <1>2, <1>3, <1>4, <1>5, <1>6 DEF RequestStep

\* Every step keeps the account of the service.
LEMMA ServiceStep == TypeInv /\ ServiceInv /\ [Next]_vars => ServiceInv'
<1> SUFFICES ASSUME TypeInv, ServiceInv, [Next]_vars PROVE ServiceInv'
  OBVIOUS
<1>1. ASSUME NEW r \in Requests, RequestStep(r) \/ RequestFails(r) PROVE ServiceInv'
  BY <1>1, ServiceRequest
<1>2. CASE ~ \E r \in Requests : RequestStep(r) \/ RequestFails(r)
  <2>1. /\ UNCHANGED service
        /\ \A r \in Requests : status'[r] = "absent" <=> status[r] = "absent"
    BY <1>2, RowsStay DEF Next
  <2> QED  BY <2>1 DEF service, ServiceInv, RowsFollowWrites, LedgerAgrees, LosersHaveWinners,
                       AnswersHold, Keyed, TypeInv, TypeOK
<1> QED  BY <1>1, <1>2

\* At first no key is reserved and nothing is answered.
LEMMA ServiceInit == Init => ServiceInv
BY DEF Init, ServiceInv, RowsFollowWrites, LedgerAgrees, LosersHaveWinners, AnswersHold, Keyed

\* The account of the service holds in every reachable state.
LEMMA ServiceInductive == Spec => [](TypeInv /\ ServiceInv)
BY TypeInit, TypeStep, ServiceInit, ServiceStep, PTL DEF Spec

\* What enqueue answers is about a stored command of the same key, the race
\* error is unreachable and no key is reserved without its command, for any
\* number of concurrent requests, lost commits and consumers.
THEOREM AnswersGrounded == Spec => []AnswersAreGrounded
<1>1. TypeInv /\ ServiceInv => AnswersAreGrounded
  BY DEF TypeInv, ServiceInv, RowsFollowWrites, LedgerAgrees, AnswersHold, AnswersAreGrounded
<1> QED  BY <1>1, ServiceInductive, PTL

-----------------------------------------------------------------------------
(* The dispatch fence.                                                     *)

\* At first nobody is past the dispatch fence.
LEMMA FenceInit == Init => Fence
BY DEF Init, Fence, Final

\* The statements of a claim move rows only among the states before the
\* fence, or from behind it to dead_lettered.
LEMMA FenceClaim ==
    ASSUME TypeInv, Fence, NEW w \in Workers,
           SweepClaimed(w) \/ SweepDispatched(w) \/ SweepExhausted(w) \/ Take(w)
    PROVE  Fence'
<1> USE DEF TypeInv, TypeOK, HandsFull, Fence, Final, Goto, Relabel
<1>1. CASE SweepClaimed(w)
  BY <1>1 DEF SweepClaimed, Reclaimable
<1>2. CASE SweepDispatched(w)
  BY <1>2 DEF SweepDispatched, Abandoned
<1>3. CASE SweepExhausted(w)
  BY <1>3 DEF SweepExhausted, Exhausted
<1>4. CASE Take(w)
  BY <1>4 DEF Take, Batch, Claimable
<1> QED  BY <1>1, <1>2, <1>3, <1>4

\* Committing the CAS lets exactly one worker through, or none when the
\* connection was lost with the answer.
LEMMA FenceCross ==
    ASSUME TypeInv, Fence, NEW w \in Workers, MarkDispatched(w) \/ MarkFails(w)
    PROVE  Fence'
<1> USE DEF TypeInv, TypeOK, HandsFull, Fence, Final, InFlight, Goto, Raise,
            CommitDispatched, CanDispatch
<1>1. CASE MarkDispatched(w)
  <2>1. cur[w] \in Requests /\ status[cur[w]] = "claimed"
    BY <1>1 DEF MarkDispatched
  <2>2. cur[w] \notin crossed /\ effects[cur[w]] = 0
    BY <2>1
  <2>3. \A v \in Workers : pc[v] = "execute" => cur[v] # cur[w]
    BY <2>2
  <2> QED  BY <1>1, <2>1, <2>2, <2>3 DEF MarkDispatched
<1>2. CASE MarkFails(w)
  <2>1. CASE UNCHANGED <<status, crossed>>
    BY <1>2, <2>1 DEF MarkFails
  <2>2. CASE CanDispatch(w, cur[w]) /\ CommitDispatched(cur[w])
    BY <1>2, <2>2 DEF MarkFails
  <2> QED  BY <1>2, <2>1, <2>2 DEF MarkFails
<1> QED  BY <1>1, <1>2

\* Executing needs the right the fence gave.
LEMMA FenceExecute ==
    ASSUME TypeInv, Fence, NEW w \in Workers, Execute(w) \/ ExecuteRaises(w)
    PROVE  Fence'
<1> USE DEF TypeInv, TypeOK, HandsFull, Fence, InFlight, Goto, Raise
<1>1. /\ pc[w] = "execute" /\ cur[w] \in Requests
      /\ cur[w] \in crossed /\ effects[cur[w]] = 0
  BY DEF Execute, ExecuteRaises
<1>2. /\ effects' = [effects EXCEPT ![cur[w]] = 1]
      /\ status' = status /\ crossed' = crossed /\ cur' = cur
  BY <1>1 DEF Execute, ExecuteRaises, rows
<1>3. \A v \in Workers : pc'[v] = "execute" => v # w /\ pc[v] = "execute"
  BY DEF Execute, ExecuteRaises
<1>4. \A v \in Workers : pc'[v] = "execute" => cur[v] # cur[w]
  BY <1>1, <1>3
<1> QED  BY <1>1, <1>2, <1>3, <1>4

\* Completing a command keeps it behind the fence.
LEMMA FenceComplete ==
    ASSUME TypeInv, Fence, NEW w \in Workers, Complete(w) \/ CompleteFails(w)
    PROVE  Fence'
<1> USE DEF TypeInv, TypeOK, HandsFull, Fence, InFlight, Closing, Final, Goto
<1>1. cur[w] \in Requests /\ result[w] \in Final
  BY DEF Complete, CompleteFails
<1>2. status' = status \/ status' = [status EXCEPT ![cur[w]] = result[w]]
  BY DEF Complete, CompleteFails, WriteFinal
<1>3. UNCHANGED <<effects, crossed, cur>>
  BY DEF Complete, CompleteFails
<1>4. \A v \in Workers : pc'[v] = "execute" => pc[v] = "execute"
  BY DEF Complete, CompleteFails, AfterComplete
<1> QED  BY <1>1, <1>2, <1>3, <1>4

\* All other steps leave rows, CAS and side effects alone, and only take a
\* worker away from the fence.
LEMMA Elsewhere ==
    ASSUME TypeInv, NEW w \in Workers,
           \/ Begin(w) \/ EndBatch(w) \/ Heartbeat(w) \/ Abandon(w) \/ Emit(w)
           \/ Start(w) \/ Restart(w) \/ Renew(w)
           \/ ClaimFails(w) \/ IterationRaises(w) \/ HeartbeatFails(w) \/ EmitRaises(w)
           \/ RenewerDies(w) \/ Stop(w) \/ Crash(w)
    PROVE  /\ UNCHANGED <<status, effects, crossed>>
           /\ \A v \in Workers : pc'[v] = "execute" => pc[v] = "execute" /\ cur'[v] = cur[v]
<1> USE DEF TypeInv, TypeOK, HandsFull, Goto, Leave, Raise, rows
<1>1. CASE Begin(w) \/ EndBatch(w) \/ Heartbeat(w) \/ Abandon(w)
  BY <1>1 DEF Begin, EndBatch, Heartbeat, Abandon
<1>2. CASE Emit(w) \/ Start(w) \/ Restart(w) \/ Renew(w)
  BY <1>2 DEF Emit, Start, Restart, Renew, local
<1>3. CASE ClaimFails(w) \/ IterationRaises(w) \/ HeartbeatFails(w)
  BY <1>3 DEF ClaimFails, IterationRaises, HeartbeatFails
<1>4. CASE EmitRaises(w)
  BY <1>4 DEF EmitRaises
<1>5. CASE RenewerDies(w) \/ Stop(w) \/ Crash(w)
  BY <1>5 DEF RenewerDies, Stop, Crash
<1> QED  BY <1>1, <1>2, <1>3, <1>4, <1>5

\* A new row is not behind the fence.
LEMMA FenceRequest ==
    ASSUME TypeInv, ServiceInv, Fence, NEW r \in Requests, RequestStep(r) \/ RequestFails(r)
    PROVE  Fence'
<1>1. UNCHANGED <<effects, crossed, pc, cur>>
  BY DEF RequestStep, Arrive, LookUp, Write, Recheck, EmitSubmitted, RequestFails, local
<1>2. status' = status \/ (ask[r] = "writing" /\ status' = [status EXCEPT ![r] = "pending"])
  BY DEF RequestStep, Arrive, LookUp, Write, Recheck, EmitSubmitted, RequestFails, rows, Store
<1>3. ask[r] = "writing" => r \notin crossed
  BY DEF ServiceInv, RowsFollowWrites, Fence, Final
<1> QED  BY <1>1, <1>2, <1>3 DEF Fence, TypeInv, TypeOK

\* Every step keeps the dispatch fence.
LEMMA FenceStep == TypeInv /\ ServiceInv /\ Fence /\ [Next]_vars => Fence'
<1> SUFFICES ASSUME TypeInv, ServiceInv, Fence, [Next]_vars PROVE Fence'
  OBVIOUS
<1>1. ASSUME NEW r \in Requests, RequestStep(r) \/ RequestFails(r) PROVE Fence'
  BY <1>1, FenceRequest
<1>2. ASSUME NEW r \in Requests, LeaseExpires(r) PROVE Fence'
  BY <1>2 DEF LeaseExpires, Fence, local
<1>3. CASE UNCHANGED vars
  BY <1>3 DEF vars, Fence
<1>4. ASSUME NEW w \in Workers,
             /\ UNCHANGED <<status, effects, crossed>>
             /\ \A v \in Workers : pc'[v] = "execute" => pc[v] = "execute" /\ cur'[v] = cur[v]
      PROVE  Fence'
  BY <1>4 DEF Fence
<1>5. ASSUME NEW w \in Workers, WorkerStep(w) \/ Renew(w) PROVE Fence'
  BY <1>4, <1>5, FenceClaim, FenceCross, FenceExecute, FenceComplete, Elsewhere DEF WorkerStep
<1>6. ASSUME NEW w \in Workers, WorkerFault(w) PROVE Fence'
  BY <1>4, <1>6, FenceCross, FenceExecute, FenceComplete, Elsewhere DEF WorkerFault
<1> QED  BY <1>1, <1>2, <1>3, <1>5, <1>6 DEF Next

\* The inductive invariant holds in every reachable state.
LEMMA Inductive == Spec => []IInv
<1>1. Init => IInv
  BY TypeInit, ServiceInit, FenceInit DEF IInv
<1>2. IInv /\ [Next]_vars => IInv'
  BY TypeStep, ServiceStep, FenceStep DEF IInv
<1> QED  BY <1>1, <1>2, PTL DEF Spec

\* One idempotency key causes at most one execution of its command, for any
\* number of requests, consumers, attempts and faults.
THEOREM OneEffect == Spec => []OneEffectPerKey
<1>1. IInv => OneEffectPerKey
  <2> SUFFICES ASSUME IInv, NEW r \in Requests, NEW x \in Requests,
                      effects[r] > 0, effects[x] > 0, Keyed(r), key[r] = key[x]
               PROVE  r = x /\ effects[r] = 1
    BY DEF OneEffectPerKey
  <2>1. status[r] # "absent" /\ status[x] # "absent"
    BY DEF IInv, Fence, Final
  <2>2. r = x
    BY <2>1 DEF IInv, ServiceInv, LedgerAgrees, Keyed
  <2>3. effects[r] = 1
    BY DEF IInv, Fence, TypeInv, TypeOK
  <2> QED  BY <2>2, <2>3
<1> QED  BY <1>1, Inductive, PTL

-----------------------------------------------------------------------------
(* The refinement of IntentDelivery.                                       *)

\* The stage of each command is a function of its row and of its CAS.
LEMMA StageValue ==
    ASSUME TypeInv, Fence, NEW r \in Requests
    PROVE  /\ status[r] = "absent" => stageOf[r] = "new"
           /\ status[r] \in {"pending", "claimed"} => stageOf[r] = "queued"
           /\ status[r] = "dispatched" => stageOf[r] = "committed"
           /\ status[r] \in Final /\ r \in crossed => stageOf[r] = "settled"
           /\ status[r] \in Final /\ r \notin crossed => stageOf[r] = "dropped"
BY DEF stageOf, Final, TypeInv, TypeOK

\* The first state maps to the first state of IntentDelivery.
LEMMA DeliveryInit == Init => Delivery!Init
BY DEF Init, Delivery!Init, stageOf

\* A step that changes neither the rows nor the effects is a stuttering step.
LEMMA Stutters ==
    ASSUME UNCHANGED <<status, crossed, effects>> PROVE UNCHANGED Delivery!vars
BY DEF Delivery!vars, stageOf

\* A step that moves the rows of S from one stage to another is a Move.
LEMMA Moves ==
    ASSUME NEW S \in SUBSET Requests, NEW from, NEW to,
           \A r \in S : stageOf[r] = from,
           \A r \in Requests : stageOf'[r] = IF r \in S THEN to ELSE stageOf[r],
           UNCHANGED effects
    PROVE  Delivery!Move(S, from, to)
<1>1. stageOf' = [r \in Requests |-> IF r \in S THEN to ELSE stageOf[r]]
  BY DEF stageOf
<1> QED  BY <1>1 DEF Delivery!Move

\* Rows change only in these ways; the stages follow.
LEMMA StagesStay ==
    ASSUME \A r \in Requests : stageOf'[r] = stageOf[r], UNCHANGED effects
    PROVE  UNCHANGED Delivery!vars
<1>1. stageOf' = stageOf
  BY DEF stageOf
<1> QED  BY <1>1 DEF Delivery!vars

\* A request maps to the abstract request or to a stutter.
LEMMA DeliveryRequest ==
    ASSUME IInv, IInv', NEW r \in Requests, RequestStep(r) \/ RequestFails(r)
    PROVE  Delivery!Next \/ UNCHANGED Delivery!vars
<1>1. UNCHANGED <<effects, crossed>>
  BY DEF RequestStep, Arrive, LookUp, Write, Recheck, EmitSubmitted, RequestFails
<1>2. CASE status' = status
  BY <1>1, <1>2, Stutters
<1>3. CASE ask[r] = "writing" /\ status' = [status EXCEPT ![r] = "pending"]
  <2>1. status[r] = "absent"
    BY <1>3 DEF IInv, ServiceInv, RowsFollowWrites
  <2>2. \A x \in {r} : stageOf[x] = "new"
    BY <2>1, StageValue DEF IInv
  <2>3. \A x \in Requests : stageOf'[x] = IF x \in {r} THEN "queued" ELSE stageOf[x]
    BY <1>1, <1>3 DEF stageOf, IInv, TypeInv, TypeOK
  <2>4. Delivery!Accept({r})
    BY <1>1, <2>2, <2>3, Moves DEF Delivery!Accept
  <2> QED  BY <2>4 DEF Delivery!Next
<1> QED  BY <1>2, <1>3 DEF RequestStep, Arrive, LookUp, Write, Recheck, EmitSubmitted,
                           RequestFails, rows, Store

\* The statements of a claim map to claims, releases and ends.
LEMMA DeliveryClaim ==
    ASSUME IInv, NEW w \in Workers,
           SweepClaimed(w) \/ SweepDispatched(w) \/ SweepExhausted(w) \/ Take(w)
    PROVE  Delivery!Next \/ UNCHANGED Delivery!vars
<1>1. UNCHANGED <<effects, crossed>>
  BY DEF SweepClaimed, SweepDispatched, SweepExhausted, Take
<1>2. CASE SweepClaimed(w) \/ Take(w)
  <2>1. \A r \in Requests : \/ status'[r] = status[r]
                            \/ {status[r], status'[r]} \subseteq {"pending", "claimed"}
    BY <1>2 DEF SweepClaimed, Relabel, Reclaimable, Take, Batch, Claimable
  <2>2. \A r \in Requests : stageOf'[r] = stageOf[r]
    BY <1>1, <2>1 DEF stageOf
  <2> QED  BY <1>1, <2>2, StagesStay
<1>3. CASE SweepDispatched(w)
  <2> DEFINE S == {r \in Requests : Abandoned(r)}
  <2>1. \A r \in S : stageOf[r] = "committed" /\ r \in crossed
    BY StageValue DEF Abandoned, IInv, Fence
  <2>2. \A r \in Requests : stageOf'[r] = IF r \in S THEN "settled" ELSE stageOf[r]
    BY <1>1, <1>3, <2>1 DEF SweepDispatched, Relabel, stageOf
  <2>3. S \in SUBSET Requests /\ Delivery!Settle(S)
    BY <1>1, <2>1, <2>2, Moves DEF Delivery!Settle
  <2> QED  BY <2>3 DEF Delivery!Next
<1>4. CASE SweepExhausted(w)
  <2> DEFINE S == {r \in Requests : Exhausted(r)}
  <2>1. \A r \in S : stageOf[r] = "queued" /\ r \notin crossed
    BY StageValue DEF Exhausted, IInv, Fence, Final
  <2>2. \A r \in Requests : stageOf'[r] = IF r \in S THEN "dropped" ELSE stageOf[r]
    BY <1>1, <1>4, <2>1 DEF SweepExhausted, stageOf
  <2>3. S \in SUBSET Requests /\ Delivery!Drop(S)
    BY <1>1, <2>1, <2>2, Moves DEF Delivery!Drop
  <2> QED  BY <2>3 DEF Delivery!Next
<1> QED  BY <1>2, <1>3, <1>4

\* The dispatch CAS maps to the abstract commitment.
LEMMA DeliveryCross ==
    ASSUME IInv, NEW w \in Workers, MarkDispatched(w) \/ MarkFails(w)
    PROVE  Delivery!Next \/ UNCHANGED Delivery!vars
<1>1. UNCHANGED effects /\ cur[w] \in Requests
  BY DEF MarkDispatched, MarkFails, IInv, TypeInv, HandsFull, InFlight
<1>2. CASE UNCHANGED <<status, crossed>>
  BY <1>1, <1>2, Stutters
<1>3. CASE CanDispatch(w, cur[w]) /\ CommitDispatched(cur[w])
  <2>1. \A r \in {cur[w]} : stageOf[r] = "queued"
    BY <1>1, <1>3, StageValue DEF CanDispatch, IInv
  <2>2. \A r \in Requests : stageOf'[r] = IF r \in {cur[w]} THEN "committed" ELSE stageOf[r]
    BY <1>1, <1>3 DEF CommitDispatched, stageOf, IInv, TypeInv, TypeOK
  <2>3. Delivery!Commit(cur[w])
    BY <1>1, <2>1, <2>2, Moves DEF Delivery!Commit
  <2> QED  BY <1>1, <2>3 DEF Delivery!Next
<1> QED  BY <1>2, <1>3 DEF MarkDispatched, MarkFails

\* Executing the command maps to the abstract execution.
LEMMA DeliveryExecute ==
    ASSUME IInv, NEW w \in Workers, Execute(w) \/ ExecuteRaises(w)
    PROVE  Delivery!Next
<1>1. /\ cur[w] \in Requests /\ cur[w] \in crossed /\ effects[cur[w]] = 0
      /\ status[cur[w]] \in {"dispatched"} \cup Final
  BY DEF Execute, ExecuteRaises, IInv, TypeInv, HandsFull, InFlight, Fence
<1>2. stageOf[cur[w]] \in {"committed", "settled"}
  BY <1>1, StageValue DEF IInv
<1>3. effects' = [effects EXCEPT ![cur[w]] = 1] /\ UNCHANGED <<status, crossed>>
  BY <1>1 DEF Execute, ExecuteRaises, rows, IInv, TypeInv, TypeOK
<1>4. stageOf' = stageOf
  BY <1>3 DEF stageOf
<1>5. Delivery!Execute(cur[w])
  BY <1>1, <1>2, <1>3, <1>4 DEF Delivery!Execute
<1> QED  BY <1>1, <1>5 DEF Delivery!Next

\* Completing maps to the abstract end or to a stutter.
LEMMA DeliveryComplete ==
    ASSUME IInv, NEW w \in Workers, Complete(w) \/ CompleteFails(w)
    PROVE  Delivery!Next \/ UNCHANGED Delivery!vars
<1>1. /\ UNCHANGED <<effects, crossed>>
      /\ cur[w] \in Requests /\ result[w] \in Final
  BY DEF Complete, CompleteFails, IInv, TypeInv, HandsFull, InFlight, Closing, Final
<1>2. CASE status' = status
  BY <1>1, <1>2, Stutters
<1>3. CASE status' # status
  <2>1. CanComplete(w, cur[w]) /\ status' = [status EXCEPT ![cur[w]] = result[w]]
    BY <1>3 DEF Complete, CompleteFails, WriteFinal
  <2>2. CASE status[cur[w]] = "claimed"
    <3>1. \A r \in {cur[w]} : stageOf[r] = "queued" /\ r \notin crossed
      BY <1>1, <2>2, StageValue DEF IInv, Fence, Final
    <3>2. \A r \in Requests : stageOf'[r] = IF r \in {cur[w]} THEN "dropped" ELSE stageOf[r]
      BY <1>1, <2>1, <3>1 DEF stageOf, Final, IInv, TypeInv, TypeOK
    <3>3. Delivery!Drop({cur[w]})
      BY <1>1, <3>1, <3>2, Moves DEF Delivery!Drop
    <3> QED  BY <1>1, <3>3 DEF Delivery!Next
  <2>3. CASE status[cur[w]] = "dispatched"
    <3>1. \A r \in {cur[w]} : stageOf[r] = "committed" /\ r \in crossed
      BY <1>1, <2>3, StageValue DEF IInv, Fence
    <3>2. \A r \in Requests : stageOf'[r] = IF r \in {cur[w]} THEN "settled" ELSE stageOf[r]
      BY <1>1, <2>1, <3>1 DEF stageOf, Final, IInv, TypeInv, TypeOK
    <3>3. Delivery!Settle({cur[w]})
      BY <1>1, <3>1, <3>2, Moves DEF Delivery!Settle
    <3> QED  BY <1>1, <3>3 DEF Delivery!Next
  <2> QED  BY <2>1, <2>2, <2>3 DEF CanComplete, Open
<1> QED  BY <1>2, <1>3

\* Every step maps to a step or a stutter of IntentDelivery.
LEMMA DeliveryStep == IInv /\ IInv' /\ [Next]_vars => [Delivery!Next]_(Delivery!vars)
<1> SUFFICES ASSUME IInv, IInv', [Next]_vars
             PROVE  Delivery!Next \/ UNCHANGED Delivery!vars
  OBVIOUS
<1>1. ASSUME NEW r \in Requests, RequestStep(r) \/ RequestFails(r)
      PROVE  Delivery!Next \/ UNCHANGED Delivery!vars
  BY <1>1, DeliveryRequest
<1>2. ASSUME NEW r \in Requests, LeaseExpires(r) PROVE UNCHANGED Delivery!vars
  BY <1>2, Stutters DEF LeaseExpires
<1>3. CASE UNCHANGED vars
  BY <1>3, Stutters DEF vars
<1>4. ASSUME NEW w \in Workers, WorkerStep(w) \/ WorkerFault(w) \/ Renew(w)
      PROVE  Delivery!Next \/ UNCHANGED Delivery!vars
  BY <1>4, DeliveryClaim, DeliveryCross, DeliveryExecute, DeliveryComplete, Elsewhere, Stutters
  DEF WorkerStep, WorkerFault, IInv
<1> QED  BY <1>1, <1>2, <1>3, <1>4 DEF Next

\* The operator-command queue implements IntentDelivery: a command is accepted,
\* committed, executed at most once and settled, in that order.
THEOREM DeliveryRefined == Spec => RefinesDelivery
BY DeliveryInit, DeliveryStep, Inductive, PTL DEF Spec, RefinesDelivery, Delivery!Spec
=============================================================================
