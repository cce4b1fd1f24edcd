----------------------- MODULE PositionLifecycleProofs -----------------------
(***************************************************************************)
(* What the position manager's rows, outcomes and closeout promise, proved *)
(* for any number of tickets, any bounds and any set of watched tickets.   *)
(***************************************************************************)
EXTENDS PositionLifecycle, TLAPS

USE DEF openers

\* Tickets that have left the order book: filled, or cancelled.
Past == {t \in Tickets : broker[t] \in {"live", "gone"}}
Comparing == {"copy", "look", "drop", "close"}

\* One thread at a time compares: the side thread only in the pass of start(),
\* before there is a loop, or once the old one has ended.
OneComparer ==
    /\ pc["side"] \in {"none", "rejoin"} => job = "pass"
    /\ pc["side"] \notin {"none", "rejoin"} /\ job \in {"pass", "again"} => pc["loop"] = "none"
    /\ pc["side"] \in Comparing => job \in {"pass", "again"}
    /\ pc["side"] \in {"states", "mark", "overnight"} => job = "start"

\* Threads, rows, the executor and the order monitor only know of positions that
\* were filled; an executor that has not submitted yet has a ticket the broker
\* has not seen.
KnownIsPast ==
    /\ \A p \in Threads : todo[p] \subseteq Past /\ hold[p] \in Past \cup {None}
    /\ \A t \in Tickets : row[t] # "none" => t \in Past
    /\ ex.pc = "gated" => broker[ex.t] = "none"
    /\ ex.pc \in {"placed", "hook"} => ex.t \in Past
    /\ mon.pc # "idle" => mon.t \in Past

\* What a pass has still to handle is tracked, the position in hand excepted.
HandledIsTracked ==
    \A p \in Threads :
        /\ pc[p] \in {"look", "drop"} => todo[p] \subseteq tracked
        /\ pc[p] = "close" => todo[p] \ {hold[p]} \subseteq tracked

\* What a pass drops, and what the startup recovery does not find in its list,
\* is gone or was missing from a list while it was live.
Missing(t) == broker[t] = "gone" \/ t \in window
DroppedIsMissing ==
    /\ \A p \in Threads :
          /\ pc[p] \in {"drop", "close"} => \A t \in todo[p] \cap Watched : Missing(t)
          /\ pc[p] = "close" => hold[p] \in todo[p]
    /\ pc["side"] = "mark" =>
          \A t \in Watched \ todo["side"] : broker[t] = "live" => t \in window

\* Each outcome of a live position was a mistake; one more is due to a position
\* that is gone and still tracked.
OutcomesAreDue ==
    \A t \in Watched :
        /\ broker[t] # "gone" => surplus[t] <= 0
        /\ t \in tracked => surplus[t] <= 0
        /\ surplus[t] <= 1
UnwatchedHaveNone == \A t \in Tickets \ Watched : surplus[t] = 0

\* The gate is never ahead of the day; a closeout belongs to the gate's day.
GateIsDated ==
    /\ gate # None => gate <= Day
    /\ eod.day # None => eod.day = gate

\* Behind a raised gate only watched executors counted as late are submitting.
GatedIsLate == gate = Day /\ ex.pc = "gated" => ex.t \in late \/ ex.t \notin Watched

\* A closeout that found nothing left, and had no error, has left nothing live.
NothingLeft ==
    pc["loop"] = "eodEnd" /\ ~eod.left /\ ~eod.error => Live \cap Watched \subseteq late

PositionsInv ==
    /\ TypeOK /\ OneComparer /\ KnownIsPast /\ HandledIsTracked /\ DroppedIsMissing
    /\ OutcomesAreDue /\ UnwatchedHaveNone /\ GateIsDated /\ GatedIsLate /\ NothingLeft
    /\ ClosedRowIsGone /\ ClosedOutIsFlat

(* ------------------------------ operators ------------------------------- *)

\* The day is a natural number that the clock bounds and never turns back.
LEMMA DayFacts ==
    ASSUME clock \in 0..MaxClock
    PROVE  /\ Day \in 0..MaxClock
           /\ clock' = clock + 1 => Day' \in Nat /\ Day <= Day'
           /\ clock' = clock => Day' = Day
BY PositionAssumption DEF Day

Jobs == {"pass", "again", "start", "request"}

\* Goto moves one thread, but for the launch of the loop by start().
LEMMA GotoFacts ==
    ASSUME pc \in [Threads -> Pcs], NEW p \in Threads, NEW l, Goto(p, l)
    PROVE  /\ l # "launch" => pc' = [pc EXCEPT ![p] = l]
           /\ l # "launch" /\ (p = "loop" \/ l # "none") => job' = job
           /\ p = "side" /\ l = "none" => job' = "pass"
           /\ l = "launch" =>
                 /\ pc'["loop"] = "first"
                 /\ job = "again" => pc'["side"] = "none" /\ job' = "pass"
                 /\ job # "again" => pc'["side"] = "query" /\ job' = "start"
           /\ l \in Pcs \cup {"launch"} => pc' \in [Threads -> Pcs]
           /\ job \in Jobs => job' \in Jobs
BY DEF Goto, Threads, Pcs, Closeout, Jobs

\* Closing a set of tickets leaves the others as they are.
LEMMA CloseAllFacts ==
    ASSUME broker \in [Tickets -> {"none", "order", "live", "gone"}], recent \subseteq Tickets,
           NEW S, S \subseteq Live \cup Orders, CloseAll(S)
    PROVE  /\ broker' \in [Tickets -> {"none", "order", "live", "gone"}]
           /\ recent' \subseteq Tickets
           /\ \A t \in Tickets : \/ broker'[t] = broker[t]
                                 \/ broker'[t] = "gone" /\ broker[t] \in {"order", "live"}
BY DEF CloseAll, Live, Orders

\* A list of positions shows only positions.
LEMMA ListsArePast ==
    ASSUME NEW list \in Lists
    PROVE  list \subseteq Past /\ list \subseteq Tickets
BY DEF Lists, Past, Live

\* AfterSync and AfterPass are steps of the thread.
LEMMA AfterFacts ==
    ASSUME NEW p \in Threads, job \in Jobs
    PROVE  /\ AfterSync(p) = IF p = "loop" \/ job \in {"pass", "again"} THEN "copy"
                             ELSE IF job = "start" THEN "states" ELSE "none"
           /\ AfterSync(p) \in Pcs /\ AfterPass(p) = IF p = "loop" THEN "wait" ELSE "launch"
BY DEF AfterSync, AfterPass, Threads, Pcs, Jobs

(* ------------------------------ the market ------------------------------ *)

BrokerTypes ==
    /\ broker \in [Tickets -> {"none", "order", "live", "gone"}]
    /\ recent \subseteq Tickets /\ late \subseteq Watched /\ window \subseteq Watched

\* The executor brings a ticket in, or a direct trade does, which counts as late
\* once the closeout of the day is complete.
Enters(t) ==
    \/ ex.pc = "gated" /\ ex.t = t
    \/ ex.t # t /\ (t \in Watched /\ done = Day => t \in late')

\* A ticket is unknown, then an order or a position, then gone; a fill is counted
\* by who is about to list.
Moves(t) ==
    \/ broker'[t] = broker[t]
    \/ broker'[t] = "gone" /\ broker[t] \in {"order", "live"}
    \/ /\ broker'[t] = "live" /\ broker[t] \in {"none", "order"}
       /\ t \in Watched /\ pc["loop"] = "eodEnd" => t \in late'
       /\ t \in Watched /\ pc["side"] = "mark" => t \in window'
       /\ broker[t] = "none" => Enters(t)
    \/ broker'[t] = "order" /\ broker[t] = "none" /\ Enters(t)
MarketMoves ==
    /\ BrokerTypes' /\ (EodStarts \/ late \subseteq late') /\ window \subseteq window'
    /\ \A t \in Tickets : Moves(t)

\* What any step may do to the positions at the broker.
LEMMA MarketStep ==
    ASSUME PositionsInv, [Next]_vars
    PROVE  MarketMoves
<1> USE DEF market
<1>0. /\ BrokerTypes
      /\ ex \in [pc : {"idle", "gated", "placed", "hook"}, t : Tickets \cup {None}]
      /\ ex.pc = "gated" => ex.t \in Tickets /\ broker[ex.t] = "none"
    BY DEF PositionsInv, TypeOK, BrokerTypes, KnownIsPast
<1>a. ASSUME UNCHANGED <<broker, recent, late, window>> PROVE MarketMoves
    BY <1>0, <1>a DEF MarketMoves, Moves, BrokerTypes
<1>b. ASSUME NEW S, S \subseteq Live \cup Orders, CloseAll(S), UNCHANGED <<late, window>>
      PROVE MarketMoves
    BY <1>0, <1>b, CloseAllFacts DEF MarketMoves, Moves, BrokerTypes
<1>c. ASSUME NEW t \in Tickets, GoesLive(t), broker[t] \in {"none", "order"},
             NEW too, LateFor(t, too), Listed => too, broker[t] = "none" => Enters(t)
      PROVE MarketMoves
    <2>1. /\ late \subseteq late' /\ late' \subseteq Watched
          /\ t \in Watched /\ pc["loop"] = "eodEnd" => t \in late'
        BY <1>0, <1>c DEF LateFor, Listed, BrokerTypes
    <2>2. /\ window \subseteq window' /\ window' \subseteq Watched
          /\ t \in Watched /\ pc["side"] = "mark" => t \in window'
        BY <1>0, <1>c DEF GoesLive, BrokerTypes
    <2>3. broker' = [broker EXCEPT ![t] = "live"] /\ recent' \subseteq Tickets
        BY <1>0, <1>c DEF GoesLive, BrokerTypes
    <2> QED
        BY <1>0, <1>c, <2>1, <2>2, <2>3 DEF MarketMoves, Moves, BrokerTypes
<1>d. ASSUME NEW t \in Tickets, broker' = [broker EXCEPT ![t] = "order"], broker[t] = "none",
             UNCHANGED <<recent, window>>, NEW too, LateFor(t, too), Enters(t)
      PROVE MarketMoves
    <2>1. late \subseteq late' /\ late' \subseteq Watched
        BY <1>0, <1>d DEF LateFor, BrokerTypes
    <2> QED
        BY <1>0, <1>d, <2>1 DEF MarketMoves, Moves, BrokerTypes
<1>1. CASE Tick \/ ExTracks \/ ExWrites \/ LoopEnds \/ EodNotDue \/ EodOrders \/ EodEnds
           \/ Start \/ Rejoin \/ StatesMark \/ Request \/ Stop \/ Monitor \/ UNCHANGED vars
    BY <1>1, <1>a DEF Tick, ExTracks, ExWrites, LoopEnds, EodNotDue, EodOrders, EodEnds, Rejoin,
                      Start, StatesMark, Request, Stop, vars, Monitor, MonitorLooks,
                      MonitorTracks, MonitorWrites
<1>2. ASSUME NEW p \in Threads,
             SyncQuery(p) \/ SyncPuts(p) \/ SyncWrites(p) \/ Copy(p) \/ WriteClosed(p) \/ PassEnds(p)
      PROVE MarketMoves
    BY <1>2, <1>a DEF SyncQuery, SyncPuts, SyncWrites, Copy, WriteClosed, PassEnds
<1>3. ASSUME NEW p \in Threads, NEW t \in Tickets, SyncNext(p, t) \/ Drop(p, t) PROVE MarketMoves
    BY <1>3, <1>a DEF SyncNext, Drop
<1>4. ASSUME NEW t \in Tickets, ExPasses(t) PROVE MarketMoves
    BY <1>4, <1>a DEF ExPasses
<1>5. ASSUME NEW t \in Tickets, Fill(t) PROVE MarketMoves
    BY <1>5, <1>c DEF Fill
<1>15. ASSUME NEW t \in Tickets, NEW system \in BOOLEAN, DirectTrade(t, system) PROVE MarketMoves
    <2>1. broker[t] = "none" /\ ex.t # t
        BY <1>15 DEF DirectTrade
    <2>2. CASE GoesLive(t) /\ LateFor(t, Listed \/ done = Day)
        <3>1. Enters(t)
            BY <2>1, <2>2 DEF Enters, LateFor
        <3> QED
            BY <1>c, <2>1, <2>2, <3>1
    <2>3. CASE /\ broker' = [broker EXCEPT ![t] = "order"] /\ LateFor(t, done = Day)
               /\ UNCHANGED <<born, recent, window>>
        <3>1. Enters(t)
            BY <2>1, <2>3 DEF Enters, LateFor
        <3> QED
            BY <1>d, <2>1, <2>3, <3>1
    <2> QED
        BY <1>15, <2>2, <2>3, Zenon DEF DirectTrade
<1>6. ASSUME NEW t \in Tickets, BrokerCloses(t) PROVE MarketMoves
    BY <1>6, <1>b DEF BrokerCloses
<1>7. ASSUME NEW p \in Threads, NEW t \in Tickets, MarketExit(p, t) PROVE MarketMoves
    BY <1>7, <1>b DEF MarketExit
<1>8. CASE EodCloses
    <2>1. UNCHANGED <<late, window>> /\ \E S : S \subseteq Live /\ CloseAll(S)
        BY <1>8 DEF EodCloses
    <2> QED
        BY <2>1, <1>b
<1>9. CASE EodCancels
    <2>1. UNCHANGED <<late, window>> /\ \E S : S \subseteq Orders /\ CloseAll(S)
        BY <1>9 DEF EodCancels
    <2> QED
        BY <2>1, <1>b
<1>10. CASE Overnight
    BY <1>10, <1>a, <1>b DEF Overnight
<1>11. CASE ExSubmits
    <2>0. ex.pc = "gated" /\ ex.t \in Tickets /\ broker[ex.t] = "none" /\ Enters(ex.t)
        BY <1>0, <1>11 DEF ExSubmits, Enters
    <2>1. CASE GoesLive(ex.t) /\ LateFor(ex.t, Listed)
        BY <2>0, <2>1, <1>c
    <2>2. CASE broker' = [broker EXCEPT ![ex.t] = "order"] /\ UNCHANGED <<recent, late, window>>
        BY <1>0, <2>0, <2>2 DEF MarketMoves, Moves, BrokerTypes
    <2> QED
        BY <1>11, <2>1, <2>2, <1>a DEF ExSubmits
<1>12. CASE Crash \/ \E D \in SUBSET tracked : Flush(D)
    BY <1>0, <1>12 DEF Crash, Flush, MarketMoves, Moves, BrokerTypes
<1>13. ASSUME NEW p \in Threads, Look(p) PROVE MarketMoves
    BY <1>0, <1>13 DEF Look, MarketMoves, Moves, BrokerTypes
<1>14. CASE EodStarts \/ EodLeft \/ StatesQuery
    BY <1>0, <1>14 DEF EodStarts, EodLeft, StatesQuery, MarketMoves, Moves, BrokerTypes
<1> QED
    BY <1>1, <1>2, <1>3, <1>4, <1>5, <1>6, <1>7, <1>8, <1>9, <1>10, <1>11, <1>12, <1>13, <1>14,
       <1>15 DEF Next, Broker, Executor, Sync, Compare, Loop, Side, Threads

(* --------------------------------- types -------------------------------- *)

ClockTypes == clock \in 0..MaxClock /\ faults \in 0..MaxFaults /\ syncs \in 0..MaxSyncs
RowTypes ==
    /\ born \in [Tickets -> 0..MaxClock] /\ row \in [Tickets -> {"none", "open", "closed"}]
    /\ tracked \subseteq Past /\ active \subseteq Tickets /\ orphan \subseteq Tickets
ExTypes ==
    /\ ex \in [pc : {"idle", "gated", "placed", "hook"}, t : Tickets \cup {None}]
    /\ (ex.pc = "idle") = (ex.t = None)
    /\ mon \in [pc : {"idle", "placed", "hook"}, t : Tickets \cup {None}]
    /\ (mon.pc = "idle") = (mon.t = None)
    /\ watch \subseteq Tickets /\ foreign \subseteq Tickets
ThreadTypes ==
    /\ pc \in [Threads -> Pcs] /\ todo \in [Threads -> SUBSET Tickets]
    /\ hold \in [Threads -> Tickets \cup {None}]
    /\ \A p \in Threads : (hold[p] # None) = (pc[p] \in {"put", "hook", "close"})
    /\ job \in Jobs
StopTypes == stop \in BOOLEAN
GateTypes ==
    /\ gate \in Days /\ done \in Days
    /\ done # None => gate # None /\ done <= gate
EodTypes ==
    /\ eod \in [day : Days, pos : BOOLEAN, orders : SUBSET Tickets, left : BOOLEAN,
                error : BOOLEAN]
    /\ (eod.day # None) = (pc["loop"] \in Closeout)
CountTypes == surplus \in [Tickets -> Int]

\* TypeOK by groups of variables.
LEMMA TypeParts ==
    TypeOK <=> /\ ClockTypes /\ BrokerTypes /\ RowTypes /\ ExTypes /\ ThreadTypes /\ StopTypes
               /\ GateTypes /\ EodTypes /\ CountTypes
BY DEF TypeOK, ClockTypes, BrokerTypes, RowTypes, ExTypes, ThreadTypes, StopTypes,
       GateTypes, EodTypes, CountTypes, Past, Jobs

\* What a position has been it stays.
LEMMA PastGrows ==
    ASSUME BrokerTypes, MarketMoves
    PROVE  /\ Past \subseteq Past' /\ Past' \subseteq Tickets
           /\ \A t \in Tickets : broker[t] = "gone" => broker'[t] = "gone"
BY DEF Past, MarketMoves, Moves, BrokerTypes

\* Every step keeps the clock within its bound.
LEMMA ClockTypesStep ==
    ASSUME ClockTypes, [Next]_vars
    PROVE  ClockTypes'
<1> USE PositionAssumption DEF ClockTypes
<1>a. ASSUME UNCHANGED <<clock, syncs>>, Fault \/ UNCHANGED faults PROVE ClockTypes'
    BY <1>a DEF Fault
<1>0. CASE Tick \/ Request
    BY <1>0 DEF Tick, Request
<1>1. CASE Executor \/ LoopEnds \/ EodNotDue \/ EodOrders \/ EodLeft \/ EodEnds \/ Start \/ Stop
           \/ Crash \/ StatesQuery \/ StatesMark \/ Overnight \/ UNCHANGED vars
           \/ \E t \in Tickets : Fill(t) \/ BrokerCloses(t)
    BY <1>1, <1>a DEF Fill, BrokerCloses, Executor, ExSubmits, ExTracks, ExWrites, TryWriteOpen,
                LoopEnds, EodNotDue, EodOrders, EodLeft,
                EodEnds, Start, Stop, Crash, StatesQuery, StatesMark, Overnight, vars
<1>5. CASE EodStarts \/ EodCloses \/ EodCancels
    <2>1. UNCHANGED <<clock, syncs>> /\ (Fault \/ UNCHANGED faults)
        BY <1>5, Zenon DEF EodStarts, EodCloses, EodCancels
    <2> QED
        BY <1>a, <2>1
<1>2. ASSUME NEW p \in Threads, Sync(p) \/ Compare(p) PROVE ClockTypes'
    BY <1>2, <1>a DEF Sync, SyncQuery, SyncPuts, SyncWrites, SyncNext, Compare, Copy, Look,
                WriteClosed, PassEnds, Drop
<1>3. ASSUME NEW p \in Threads, NEW t \in Tickets, ExPasses(t) \/ MarketExit(p, t) PROVE ClockTypes'
    BY <1>3, <1>a DEF ExPasses, MarketExit
<1>4. CASE \E D \in SUBSET tracked : Flush(D)
    BY <1>4, <1>a DEF Flush
<1>6. CASE Monitor \/ Rejoin \/ \E t \in Tickets, system \in BOOLEAN : DirectTrade(t, system)
    <2>1. UNCHANGED <<clock, syncs>> /\ (Fault \/ UNCHANGED faults)
        BY <1>6, Zenon DEF Monitor, MonitorLooks, MonitorTracks, MonitorWrites, TryWriteOpen,
                           Rejoin, DirectTrade
    <2> QED
        BY <1>a, <2>1
<1> QED
    BY <1>0, <1>1, <1>2, <1>3, <1>4, <1>5, <1>6 DEF Next, Broker, Loop, Side, Threads

\* Every step keeps the types of the rows.
LEMMA RowTypesStep ==
    ASSUME PositionsInv, [Next]_vars
    PROVE  RowTypes'
<1> USE DEF market
<1>0. RowTypes /\ ExTypes /\ ThreadTypes /\ KnownIsPast /\ ClockTypes /\ BrokerTypes
    BY TypeParts DEF PositionsInv
<1>1. Past \subseteq Past' /\ Past' \subseteq Tickets
    BY <1>0, MarketStep, PastGrows
<1>2. Day \in 0..MaxClock
    BY <1>0, DayFacts DEF ClockTypes
<1>a. ASSUME UNCHANGED <<born, row, tracked, active, orphan>> PROVE RowTypes'
    BY <1>0, <1>1, <1>a DEF RowTypes
<1>b. Untended \subseteq Tickets
    BY DEF Untended
<1>3. CASE Tick \/ LoopEnds \/ EodNotDue \/ EodStarts \/ EodOrders \/ EodCloses
           \/ EodCancels \/ EodLeft \/ EodEnds \/ Start \/ Rejoin \/ Request \/ Stop
           \/ Overnight \/ (\E t \in Tickets : MonitorLooks(t)) \/ UNCHANGED vars
    BY <1>3, <1>a DEF Tick, LoopEnds, EodNotDue, EodStarts, EodOrders, EodCloses, EodCancels,
                EodLeft, EodEnds, Start, Rejoin, Request, Stop, Overnight, MonitorLooks, vars
<1>4. CASE \E t \in Tickets : Fill(t) \/ BrokerCloses(t)
    BY <1>0, <1>1, <1>2, <1>4 DEF Fill, GoesLive, BrokerCloses, RowTypes
<1>5. CASE ExSubmits
    BY <1>0, <1>1, <1>2, <1>5 DEF ExSubmits, GoesLive, RowTypes, ExTypes
<1>6. CASE ExTracks \/ ExWrites \/ MonitorTracks \/ MonitorWrites
    <2>1. PICK t \in Past : \/ Track(t) /\ UNCHANGED <<born, row, active, orphan>>
                            \/ TryWriteOpen(t) /\ UNCHANGED <<born, tracked, active>>
        BY <1>0, <1>6 DEF ExTracks, ExWrites, MonitorTracks, MonitorWrites, KnownIsPast
    <2> QED
        BY <1>0, <1>1, <2>1 DEF Track, TryWriteOpen, WriteOpen, RowTypes, Past
<1>13. ASSUME NEW t \in Tickets, NEW system \in BOOLEAN, DirectTrade(t, system) PROVE RowTypes'
    <2>1. UNCHANGED <<row, tracked, active, orphan>> /\ (GoesLive(t) \/ UNCHANGED born)
        BY <1>13, Zenon DEF DirectTrade
    <2> QED
        BY <1>0, <1>1, <1>2, <2>1 DEF GoesLive, RowTypes
<1>7. ASSUME NEW p \in Threads, SyncQuery(p) \/ Copy(p) \/ Look(p) \/ PassEnds(p) PROVE RowTypes'
    BY <1>7, <1>a DEF SyncQuery, Copy, Look, PassEnds
<1>8. ASSUME NEW p \in Threads, SyncPuts(p) \/ SyncWrites(p) \/ WriteClosed(p) PROVE RowTypes'
    <2>1. hold[p] \in Past
        BY <1>0, <1>8 DEF SyncPuts, SyncWrites, WriteClosed, KnownIsPast, ThreadTypes
    <2> QED
        BY <1>0, <1>1, <1>b, <1>8, <2>1
           DEF SyncPuts, SyncWrites, WriteClosed, WriteOpen, RowTypes, Past
<1>9. ASSUME NEW p \in Threads, NEW t \in Tickets,
             SyncNext(p, t) \/ ExPasses(t) \/ MarketExit(p, t)
      PROVE RowTypes'
    BY <1>9, <1>a DEF SyncNext, ExPasses, MarketExit
<1>10. ASSUME NEW p \in Threads, NEW t \in Tickets, Drop(p, t) PROVE RowTypes'
    BY <1>0, <1>1, <1>10 DEF Drop, RowTypes
<1>11. CASE StatesQuery \/ StatesMark
    BY <1>0, <1>1, <1>b, <1>11 DEF StatesQuery, StatesMark, RowTypes
<1>12. CASE Crash \/ \E D \in SUBSET tracked : Flush(D)
    BY <1>0, <1>1, <1>12 DEF Crash, Flush, RowTypes
<1> QED
    BY <1>3, <1>4, <1>5, <1>6, <1>7, <1>8, <1>9, <1>10, <1>11, <1>12, <1>13
       DEF Next, Broker, Executor, Monitor, Sync, Compare, Loop, Side, Threads

\* Every step keeps the types of the openers and the counters.
LEMMA ExTypesStep ==
    ASSUME PositionsInv, [Next]_vars
    PROVE  ExTypes' /\ CountTypes'
<1>0. ExTypes /\ CountTypes /\ ThreadTypes /\ None \notin Tickets
    BY TypeParts, PositionAssumption DEF PositionsInv
<1>a. ASSUME UNCHANGED <<openers, surplus>> PROVE ExTypes' /\ CountTypes'
    BY <1>0, <1>a DEF ExTypes, CountTypes
<1>1. CASE Broker \/ LoopEnds \/ EodNotDue \/ EodStarts \/ EodOrders \/ EodCloses
           \/ EodCancels \/ EodLeft \/ EodEnds \/ Start \/ Rejoin \/ Request \/ Stop
           \/ StatesQuery \/ StatesMark \/ Overnight \/ UNCHANGED vars
    BY <1>1, <1>a DEF Broker, Tick, Fill, BrokerCloses, LoopEnds, EodNotDue, EodStarts, EodOrders,
                EodCloses, EodCancels, EodLeft, EodEnds, Start, Rejoin, Request, Stop, StatesQuery,
                StatesMark, Overnight, vars
<1>2. ASSUME NEW p \in Threads, SyncQuery(p) \/ SyncWrites(p) \/ Copy(p) \/ Look(p)
                                \/ WriteClosed(p) \/ PassEnds(p)
      PROVE ExTypes' /\ CountTypes'
    BY <1>2, <1>a DEF SyncQuery, SyncWrites, Copy, Look, WriteClosed, PassEnds
<1>3. ASSUME NEW p \in Threads, NEW t \in Tickets, SyncNext(p, t) \/ MarketExit(p, t)
      PROVE ExTypes' /\ CountTypes'
    BY <1>3, <1>a DEF SyncNext, MarketExit
<1>4. CASE \E D \in SUBSET tracked : Flush(D)
    BY <1>4, <1>a DEF Flush
<1>5. CASE ExSubmits \/ ExWrites \/ MonitorWrites \/ Crash
           \/ \E t \in Tickets : ExPasses(t) \/ MonitorLooks(t)
    <2>1. UNCHANGED surplus
        BY <1>5 DEF ExSubmits, ExWrites, MonitorWrites, ExPasses, MonitorLooks, Crash
    <2>2. ExTypes'
        BY <1>0, <1>5 DEF ExSubmits, ExWrites, MonitorWrites, ExPasses, MonitorLooks, Crash, Idle, ExTypes
    <2> QED
        BY <1>0, <2>1, <2>2 DEF CountTypes
<1>7. CASE ExTracks \/ MonitorTracks
    BY <1>0, <1>7 DEF ExTracks, MonitorTracks, Track, Tally, ExTypes, CountTypes
<1>8. ASSUME NEW t \in Tickets, NEW system \in BOOLEAN, DirectTrade(t, system)
      PROVE ExTypes' /\ CountTypes'
    <2>1. /\ UNCHANGED <<ex, mon, watch, surplus>>
          /\ foreign' = foreign \/ foreign' = foreign \cup {t}
        BY <1>8, Zenon DEF DirectTrade
    <2> QED
        BY <1>0, <2>1 DEF ExTypes, CountTypes
<1>6. ASSUME NEW p \in Threads, SyncPuts(p) \/ \E t \in Tickets : Drop(p, t)
      PROVE ExTypes' /\ CountTypes'
    BY <1>0, <1>6 DEF SyncPuts, Drop, Tally, ExTypes, CountTypes
<1> QED
    BY <1>1, <1>2, <1>3, <1>4, <1>5, <1>6, <1>7, <1>8
       DEF Next, Executor, Monitor, Sync, Compare, Loop, Side, Threads

\* Every step keeps the types of the two threads.
LEMMA ThreadTypesStep ==
    ASSUME PositionsInv, [Next]_vars
    PROVE  ThreadTypes'
<1> USE DEF threads
<1>0. ThreadTypes /\ None \notin Tickets /\ tracked \subseteq Tickets
    BY TypeParts, PositionAssumption DEF PositionsInv, RowTypes, Past
<1>1. ASSUME NEW p \in Threads PROVE AfterSync(p) \in Pcs \ {"put", "hook", "close"}
    BY <1>0, <1>1, AfterFacts DEF ThreadTypes, Pcs
<1>2. ASSUME NEW p \in Threads PROVE AfterPass(p) \in (Pcs \ {"put", "hook", "close"}) \cup {"launch"}
    BY DEF AfterPass, Pcs
<1>a. ASSUME UNCHANGED <<pc, todo, hold, job>> PROVE ThreadTypes'
    BY <1>0, <1>a DEF ThreadTypes
<1>b. ASSUME NEW p \in Threads, NEW l \in (Pcs \ {"put", "hook", "close"}) \cup {"launch"},
             Goto(p, l), todo' \in [Threads -> SUBSET Tickets],
             \/ hold' = [hold EXCEPT ![p] = None]
             \/ hold' = hold /\ pc[p] \notin {"put", "hook", "close"},
             l = "launch" => p = "side" /\ pc["loop"] = "none"
      PROVE ThreadTypes'
    <2>1. /\ pc' \in [Threads -> Pcs] /\ job' \in Jobs
          /\ l # "launch" => pc' = [pc EXCEPT ![p] = l]
          /\ l = "launch" => pc'["loop"] = "first" /\ pc'["side"] \in {"none", "query"}
        BY <1>0, <1>b, GotoFacts DEF ThreadTypes
    <2>2. hold' \in [Threads -> Tickets \cup {None}]
        BY <1>0, <1>b DEF ThreadTypes
    <2>3. ASSUME NEW q \in Threads
          PROVE  (hold'[q] # None) = (pc'[q] \in {"put", "hook", "close"})
        BY <1>0, <1>b, <2>1, <2>3 DEF ThreadTypes, Threads
    <2> QED
        BY <1>b, <2>1, <2>2, <2>3 DEF ThreadTypes
<1>c. ASSUME NEW p \in Threads, NEW l \in {"put", "hook", "close"}, Goto(p, l),
             todo' \in [Threads -> SUBSET Tickets],
             NEW t \in Tickets, hold' = [hold EXCEPT ![p] = t]
      PROVE ThreadTypes'
    <2>1. /\ pc' \in [Threads -> Pcs] /\ job' \in Jobs
          /\ pc' = [pc EXCEPT ![p] = l]
        BY <1>0, <1>c, GotoFacts DEF ThreadTypes, Pcs
    <2> QED
        BY <1>0, <1>c, <2>1 DEF ThreadTypes
<1>17. ASSUME NEW p \in Threads, pc[p] \in Comparing
       PROVE p = "side" => pc["loop"] = "none"
    BY <1>17 DEF PositionsInv, OneComparer, Comparing
<1>3. CASE Broker \/ Executor \/ Monitor \/ UNCHANGED vars \/ \E t \in Tickets : ExPasses(t)
    BY <1>3, <1>a DEF Broker, Tick, Fill, BrokerCloses, Executor, ExSubmits, ExTracks, ExWrites,
                      Monitor, MonitorLooks, MonitorTracks, MonitorWrites, ExPasses, vars
<1>18. ASSUME NEW t \in Tickets, NEW system \in BOOLEAN, DirectTrade(t, system) PROVE ThreadTypes'
    <2>1. UNCHANGED threads
        BY <1>18, Zenon DEF DirectTrade
    <2> QED
        BY <1>a, <2>1
<1>4. ASSUME NEW p \in Threads, NEW t \in Tickets, MarketExit(p, t) PROVE ThreadTypes'
    BY <1>4, <1>a DEF MarketExit
<1>5. CASE LoopEnds \/ EodNotDue \/ EodOrders \/ EodLeft \/ EodEnds
    <2>1. /\ pc["loop"] \notin {"put", "hook", "close"} /\ UNCHANGED <<todo, hold>>
          /\ \/ Goto("loop", "none") \/ Goto("loop", "query") \/ Goto("loop", "eodClose")
             \/ Goto("loop", "eodCancel") \/ Goto("loop", "eodEnd")
        BY <1>5 DEF LoopEnds, EodNotDue, EodOrders, EodLeft, EodEnds
    <2> QED
        BY <1>0, <1>b, <2>1 DEF ThreadTypes, Threads, Pcs, Closeout
<1>6. CASE EodStarts \/ EodCloses \/ EodCancels
    <2>1. /\ pc["loop"] \in {"eod", "eodClose", "eodCancel"} /\ UNCHANGED <<todo, hold>>
          /\ \/ Goto("loop", "eodOrders") \/ Goto("loop", "eodCancel") \/ Goto("loop", "eodLeft")
        BY <1>6, Zenon DEF EodStarts, EodCloses, EodCancels
    <2> QED
        BY <1>0, <1>b, <2>1 DEF ThreadTypes, Threads, Pcs, Closeout
<1>7. CASE \E D \in SUBSET tracked : Flush(D)
    <2>1. /\ pc["loop"] \in {"first", "wait"} /\ UNCHANGED <<todo, hold>> /\ Goto("loop", "eod")
        BY <1>7 DEF Flush
    <2> QED
        BY <1>0, <1>b, <2>1 DEF ThreadTypes, Threads, Pcs
<1>8. CASE Start
    BY <1>0, <1>b, <1>8 DEF Start, ThreadTypes, Threads, Pcs
<1>19. CASE Rejoin
    <2>1. CASE pc' = [pc EXCEPT !["side"] = "query"] /\ job' = "again"
        BY <1>0, <1>19, <2>1 DEF Rejoin, ThreadTypes, Threads, Pcs, Jobs
    <2>2. CASE Goto("side", "none")
        BY <1>0, <1>b, <1>19, <2>2 DEF Rejoin, ThreadTypes, Threads, Pcs
    <2> QED
        BY <1>19, <2>1, <2>2 DEF Rejoin
<1>9. CASE Stop \/ Request
    BY <1>0, <1>9 DEF Stop, Request, ThreadTypes, Threads, Pcs, Jobs
<1>16. CASE Crash
    <2>1. /\ pc' = [p \in Threads |-> "none"] /\ todo' = [p \in Threads |-> {}]
          /\ hold' = [p \in Threads |-> None] /\ job' = "pass"
        BY <1>16 DEF Crash
    <2> QED
        BY <2>1 DEF ThreadTypes, Pcs, Jobs
<1>10. CASE StatesQuery \/ StatesMark \/ Overnight
    <2>1. todo' \in [Threads -> SUBSET Tickets]
        BY <1>0, <1>10, ListsArePast DEF StatesQuery, StatesMark, Overnight, ThreadTypes
    <2>2. /\ pc["side"] \in {"states", "mark", "overnight"} /\ hold' = hold
          /\ Goto("side", "mark") \/ Goto("side", "overnight") \/ Goto("side", "none")
        BY <1>10 DEF StatesQuery, StatesMark, Overnight
    <2> QED
        BY <1>0, <1>b, <2>1, <2>2 DEF ThreadTypes, Threads, Pcs
<1>11. ASSUME NEW p \in Threads, SyncQuery(p) \/ Copy(p) \/ Look(p) \/ PassEnds(p) PROVE ThreadTypes'
    <2>1. todo' \in [Threads -> SUBSET Tickets]
        BY <1>0, <1>11, ListsArePast DEF SyncQuery, Copy, Look, PassEnds, ThreadTypes
    <2>2. pc[p] \in {"query", "copy", "look", "drop"} /\ hold' = hold
        BY <1>11 DEF SyncQuery, Copy, Look, PassEnds
    <2>3. PICK l : /\ Goto(p, l)
                   /\ \/ l \in {"sync", AfterSync(p), "look", "drop"}
                      \/ l = AfterPass(p) /\ pc[p] \in Comparing
        BY <1>11 DEF SyncQuery, Copy, Look, PassEnds, Comparing
    <2>4. l \in (Pcs \ {"put", "hook", "close"}) \cup {"launch"}
        BY <1>1, <1>2, <2>3 DEF Pcs
    <2>5. l = "launch" => p = "side" /\ pc["loop"] = "none"
        BY <1>1, <2>3, <1>17 DEF Pcs, Closeout, AfterPass, Threads
    <2> QED
        BY <1>0, <1>b, <2>1, <2>2, <2>3, <2>4, <2>5 DEF ThreadTypes
<1>12. ASSUME NEW p \in Threads, SyncWrites(p) \/ WriteClosed(p) PROVE ThreadTypes'
    <2>1. todo' \in [Threads -> SUBSET Tickets]
        BY <1>0, <1>12 DEF SyncWrites, WriteClosed, ThreadTypes
    <2>2. hold' = [hold EXCEPT ![p] = None]
        BY <1>12 DEF SyncWrites, WriteClosed
    <2>3. PICK l : /\ Goto(p, l)
                   /\ \/ l \in {"sync", AfterSync(p), "overnight", "drop"}
                      \/ l = AfterPass(p) /\ pc[p] \in Comparing
        BY <1>12 DEF SyncWrites, WriteClosed, Comparing
    <2>4. l \in (Pcs \ {"put", "hook", "close"}) \cup {"launch"}
        BY <1>1, <1>2, <2>3 DEF Pcs
    <2>5. l = "launch" => p = "side" /\ pc["loop"] = "none"
        BY <1>1, <2>3, <1>17 DEF Pcs, Closeout, AfterPass, Threads
    <2> QED
        BY <1>0, <1>b, <2>1, <2>2, <2>3, <2>4, <2>5 DEF ThreadTypes
<1>13. ASSUME NEW p \in Threads, SyncPuts(p) PROVE ThreadTypes'
    <2>1. hold[p] \in Tickets /\ hold' = [hold EXCEPT ![p] = hold[p]] /\ todo' = todo
          /\ Goto(p, "hook")
        BY <1>0, <1>13 DEF SyncPuts, ThreadTypes
    <2> QED
        BY <1>0, <1>c, <2>1 DEF ThreadTypes
<1>14. ASSUME NEW p \in Threads, NEW t \in Tickets, Drop(p, t) PROVE ThreadTypes'
    BY <1>0, <1>c, <1>14 DEF Drop, ThreadTypes
<1>15. ASSUME NEW p \in Threads, NEW t \in Tickets, SyncNext(p, t) PROVE ThreadTypes'
    <2>1. todo' \in [Threads -> SUBSET Tickets]
        BY <1>0, <1>15 DEF SyncNext, ThreadTypes
    <2>2. CASE hold' = hold /\ (Goto(p, "sync") \/ Goto(p, AfterSync(p)))
        <3>1. PICK l \in {"sync", AfterSync(p)} : Goto(p, l)
            BY <2>2
        <3>2. l \in Pcs \ {"put", "hook", "close"} /\ pc[p] = "sync" /\ l # "launch"
            BY <1>1, <1>15, <3>1 DEF Pcs, Closeout, SyncNext
        <3> QED
            BY <1>0, <1>b, <2>1, <2>2, <3>1, <3>2 DEF ThreadTypes
    <2>3. CASE hold' = [hold EXCEPT ![p] = t] /\ Goto(p, "put")
        BY <1>c, <2>1, <2>3
    <2> QED
        BY <1>15, <2>2, <2>3 DEF SyncNext
<1> QED
    BY <1>3, <1>4, <1>5, <1>6, <1>7, <1>8, <1>9, <1>10, <1>11, <1>12, <1>13, <1>14, <1>15, <1>16,
       <1>18, <1>19 DEF Next, Sync, Compare, Loop, Side, Threads

\* Every step keeps the types of start and stop.
LEMMA StopTypesStep ==
    ASSUME StopTypes, [Next]_vars
    PROVE  StopTypes'
<1> USE DEF StopTypes
<1>1. CASE Start \/ Rejoin \/ Stop \/ Crash \/ UNCHANGED vars
    BY <1>1, Zenon DEF Start, Rejoin, Stop, Crash, vars
<1>5. CASE Monitor \/ \E t \in Tickets, system \in BOOLEAN : DirectTrade(t, system)
    BY <1>5, Zenon DEF Monitor, MonitorLooks, MonitorTracks, MonitorWrites, DirectTrade
<1>2. CASE Broker \/ Executor \/ StatesQuery \/ StatesMark \/ Overnight \/ Request
           \/ \E t \in Tickets : ExPasses(t) \/ \E p \in Threads : MarketExit(p, t)
    BY <1>2, Zenon DEF Broker, Tick, Fill, BrokerCloses, Executor, ExSubmits, ExTracks, ExWrites,
                ExPasses, MarketExit, Request, StatesQuery, StatesMark, Overnight
<1>3. CASE LoopEnds \/ EodNotDue \/ EodStarts \/ EodOrders \/ EodCloses
           \/ EodCancels \/ EodLeft \/ EodEnds \/ \E D \in SUBSET tracked : Flush(D)
    BY <1>3, Zenon DEF LoopEnds, EodNotDue, EodStarts, EodOrders, EodCloses, EodCancels, EodLeft,
                EodEnds, Flush
<1>4. ASSUME NEW p \in Threads, Sync(p) \/ Compare(p) PROVE StopTypes'
    BY <1>4, Zenon DEF Sync, SyncQuery, SyncPuts, SyncWrites, SyncNext, Compare, Copy, Look,
                WriteClosed, PassEnds, Drop
<1> QED
    BY <1>1, <1>2, <1>3, <1>4, <1>5 DEF Next, Loop, Side, Threads

(* ------------------------------ the threads ----------------------------- *)

Work == {"query", "sync", "put", "hook", "copy", "look", "drop", "close"}

\* Where a step of a pass may go next.
After(p, l) ==
    /\ Goto(p, l) /\ pc[p] \in Work
    /\ l \in {"sync", "put", "hook", "copy", "look", "drop", "close", "states", "overnight",
              "none", "wait", "launch"}
    /\ p = "loop" => l \notin {"states", "overnight", "none", "launch"}
    /\ p = "side" => /\ l # "wait"
                     /\ l = "launch" => job \in {"pass", "again"} /\ pc["loop"] = "none"
                     /\ l \in Comparing => job \in {"pass", "again"}
                     /\ l \in {"states", "overnight"} => job = "start"

\* A step of a pass goes to one of its next places.
LEMMA PassMoves ==
    ASSUME PositionsInv, NEW p \in Threads, Sync(p) \/ Compare(p)
    PROVE  \E l : After(p, l)
<1>0. /\ ThreadTypes /\ OneComparer
      /\ pc[p] \in Comparing /\ p = "side" => job \in {"pass", "again"} /\ pc["loop"] = "none"
    BY TypeParts DEF PositionsInv, OneComparer, Comparing
<1>1. AfterSync(p) = IF p = "loop" \/ job \in {"pass", "again"} THEN "copy"
                     ELSE IF job = "start" THEN "states" ELSE "none"
    BY <1>0, AfterFacts DEF ThreadTypes
<1>2. AfterPass(p) = IF p = "loop" THEN "wait" ELSE "launch"
    BY DEF AfterPass
<1>a. ASSUME Goto(p, AfterSync(p)), pc[p] \in Work PROVE \E l : After(p, l)
    BY <1>0, <1>1, <1>a DEF After, Comparing, ThreadTypes
<1>b. ASSUME Goto(p, AfterPass(p)), pc[p] \in Comparing PROVE \E l : After(p, l)
    BY <1>0, <1>2, <1>b DEF After, Comparing, Work, Threads
<1>c. ASSUME NEW l \in {"look", "drop", "close"}, Goto(p, l), pc[p] \in Comparing PROVE \E m : After(p, m)
    BY <1>0, <1>c DEF After, Comparing, Work
<1>d. ASSUME NEW l \in {"sync", "put", "hook"}, Goto(p, l), pc[p] \in Work PROVE \E m : After(p, m)
    BY <1>0, <1>d DEF After, Comparing
<1>3. CASE SyncQuery(p) \/ SyncPuts(p)
    BY <1>3, <1>a, <1>d DEF SyncQuery, SyncPuts, Work
<1>4. CASE \E t \in Tickets : SyncNext(p, t)
    BY <1>4, <1>a, <1>d DEF SyncNext, Work
<1>5. CASE SyncWrites(p)
    <2>1. CASE Goto(p, "overnight") /\ AfterSync(p) = "states"
        BY <1>0, <1>1, <1>5, <2>1 DEF SyncWrites, After, Work, Comparing, Threads, ThreadTypes
    <2> QED
        BY <1>5, <1>a, <1>d, <2>1 DEF SyncWrites, Work
<1>6. CASE Copy(p) \/ Look(p) \/ WriteClosed(p) \/ PassEnds(p)
    BY <1>6, <1>b, <1>c DEF Copy, Look, WriteClosed, PassEnds, Comparing
<1>7. CASE \E t \in Tickets : Drop(p, t)
    BY <1>7, <1>c DEF Drop, Comparing
<1> QED
    BY <1>3, <1>4, <1>5, <1>6, <1>7 DEF Sync, Compare

\* At most one thread compares at a time.
LEMMA OneComparerStep ==
    ASSUME PositionsInv, [Next]_vars
    PROVE  OneComparer'
<1> USE DEF threads
<1>0. ThreadTypes /\ OneComparer
    BY TypeParts DEF PositionsInv
<1>a. ASSUME UNCHANGED <<pc, job>> PROVE OneComparer'
    BY <1>0, <1>a DEF OneComparer
<1>b. ASSUME NEW l \in Pcs, Goto("loop", l), pc["loop"] # "none" PROVE OneComparer'
    <2>1. pc' = [pc EXCEPT !["loop"] = l] /\ job' = job
        BY <1>0, <1>b, GotoFacts DEF ThreadTypes, Threads, Pcs, Closeout
    <2> QED
        BY <1>0, <1>b, <2>1 DEF OneComparer, ThreadTypes, Threads, Comparing
<1>1. CASE Broker \/ Executor \/ Stop \/ UNCHANGED vars \/ \E t \in Tickets : ExPasses(t)
           \/ \E u \in Tickets, p \in Threads : MarketExit(p, u)
    BY <1>1, <1>a DEF Broker, Tick, Fill, BrokerCloses, Executor, ExSubmits, ExTracks, ExWrites,
                      ExPasses, MarketExit, Stop, vars
<1>8. CASE Monitor \/ \E t \in Tickets, system \in BOOLEAN : DirectTrade(t, system)
    <2>1. UNCHANGED threads
        BY <1>8, Zenon DEF Monitor, MonitorLooks, MonitorTracks, MonitorWrites, DirectTrade
    <2> QED
        BY <1>a, <2>1
<1>9. CASE Rejoin
    BY <1>0, <1>9, GotoFacts DEF Rejoin, Down, OneComparer, ThreadTypes, Threads, Comparing
<1>2. CASE LoopEnds \/ EodNotDue \/ EodOrders \/ EodLeft \/ EodEnds \/ EodStarts \/ EodCloses
           \/ EodCancels \/ \E D \in SUBSET tracked : Flush(D)
    <2>1. /\ pc["loop"] # "none"
          /\ \E l \in {"none", "query", "eod"} \cup Closeout : Goto("loop", l)
        <3>1. CASE LoopEnds \/ EodNotDue \/ EodOrders \/ EodLeft \/ EodEnds
                   \/ \E D \in SUBSET tracked : Flush(D)
            BY <3>1 DEF LoopEnds, EodNotDue, EodOrders, EodLeft, EodEnds, Flush, Closeout
        <3>2. CASE EodStarts \/ EodCloses \/ EodCancels
            <4>1. /\ pc["loop"] \in {"eod", "eodClose", "eodCancel"}
                  /\ \/ Goto("loop", "eodOrders") \/ Goto("loop", "eodCancel")
                     \/ Goto("loop", "eodLeft")
                BY <3>2, Zenon DEF EodStarts, EodCloses, EodCancels
            <4> QED
                BY <4>1 DEF Closeout
        <3> QED
            BY <1>2, <3>1, <3>2
    <2> QED
        BY <2>1, <1>b DEF Pcs
<1>3. CASE Start
    BY <1>0, <1>3, GotoFacts DEF Start, Down, OneComparer, ThreadTypes, Threads, Comparing
<1>4. CASE Request \/ Crash
    BY <1>0, <1>4 DEF Request, Crash, OneComparer, ThreadTypes, Threads, Comparing
<1>5. CASE StatesQuery \/ StatesMark \/ Overnight
    <2>1. PICK l \in {"mark", "overnight", "none"} : Goto("side", l)
        BY <1>5 DEF StatesQuery, StatesMark, Overnight
    <2>2. pc["side"] \in {"states", "mark", "overnight"} /\ job = "start"
        BY <1>0, <1>5 DEF StatesQuery, StatesMark, Overnight, OneComparer
    <2> QED
        BY <1>0, <2>1, <2>2, GotoFacts DEF OneComparer, ThreadTypes, Threads, Comparing
<1>6. ASSUME Sync("loop") \/ Compare("loop") PROVE OneComparer'
    <2>1. PICK l : After("loop", l)
        BY <1>6, PassMoves DEF Threads
    <2> QED
        BY <1>b, <2>1 DEF After, Work, Pcs
<1>7. ASSUME Sync("side") \/ Compare("side") PROVE OneComparer'
    <2>1. PICK l : After("side", l)
        BY <1>7, PassMoves DEF Threads
    <2>2. /\ l # "launch" => pc' = [pc EXCEPT !["side"] = l]
          /\ l = "none" => job' = "pass"
          /\ l # "none" /\ l # "launch" => job' = job
          /\ l = "launch" => \/ pc'["side"] = "query" /\ job' = "start"
                             \/ pc'["side"] = "none" /\ job' = "pass"
        BY <1>0, <2>1, GotoFacts DEF ThreadTypes, Threads, After
    <2> QED
        BY <1>0, <2>1, <2>2 DEF After, OneComparer, ThreadTypes, Threads, Comparing, Work
<1> QED
    BY <1>1, <1>2, <1>3, <1>4, <1>5, <1>6, <1>7, <1>8, <1>9 DEF Next, Loop, Side

(* ------------------------------ the closeout ---------------------------- *)

Closeouts == [day : Days, pos : BOOLEAN, orders : SUBSET Tickets, left : BOOLEAN, error : BOOLEAN]

\* What the steps of a closeout make of its record.
LEMMA CloseoutFacts ==
    ASSUME NEW e \in Closeouts, NEW b \in BOOLEAN
    PROVE  \A f : \/ f = [e EXCEPT !.orders = {}] \/ f = [e EXCEPT !.error = TRUE]
                  \/ f = [e EXCEPT !.pos = FALSE]
                  \/ f = [e EXCEPT !.pos = FALSE, !.error = @ \/ b]
                  \/ f = [e EXCEPT !.orders = {}, !.error = @ \/ b]
                  \/ f = [e EXCEPT !.left = b]
                  => f \in Closeouts /\ f.day = e.day
BY DEF Closeouts

\* The record a closeout starts with.
LEMMA NewCloseoutFacts ==
    ASSUME NEW b \in BOOLEAN, Day \in Days
    PROVE  /\ NoCloseout \in Closeouts /\ NoCloseout.day = None
           /\ \A f : \/ f = [NoCloseout EXCEPT !.day = Day, !.pos = b]
                     \/ f = [NoCloseout EXCEPT !.day = Day, !.error = TRUE]
                     => f \in Closeouts /\ f.day = Day
BY DEF Closeouts, NoCloseout, Days

\* The queries and calls of a closeout keep its date.
LEMMA EodSteps ==
    ASSUME PositionsInv, EodOrders \/ EodCloses \/ EodCancels \/ EodLeft
    PROVE  /\ eod' \in Closeouts /\ eod'.day = eod.day
           /\ pc["loop"] \in Closeout \ {"eodEnd"} /\ pc'["loop"] \in Closeout
           /\ UNCHANGED <<clock, gate, done, ex>>
           /\ pc'["loop"] = "eodEnd" => EodLeft
<1>0. ThreadTypes /\ eod \in Closeouts /\ Orders \in SUBSET Tickets
    BY TypeParts DEF PositionsInv, EodTypes, Closeouts, Orders
<1>1. CASE EodOrders
    <2>1. /\ pc["loop"] = "eodOrders" /\ UNCHANGED <<clock, gate, done, ex>>
          /\ eod' = [eod EXCEPT !.orders = Orders] \/ eod' = [eod EXCEPT !.error = TRUE]
          /\ Goto("loop", "eodClose") \/ Goto("loop", "eodCancel")
        BY <1>1 DEF EodOrders
    <2>2. eod' \in Closeouts /\ eod'.day = eod.day
        BY <1>0, <2>1 DEF Closeouts
    <2> QED
        BY <1>0, <2>1, <2>2, GotoFacts DEF ThreadTypes, Threads, Closeout
<1>2. CASE EodCloses
    <2>1. /\ pc["loop"] = "eodClose" /\ Goto("loop", "eodCancel")
          /\ UNCHANGED <<clock, gate, done, ex>>
        BY <1>2, Zenon DEF EodCloses
    <2>2. \/ eod' = [eod EXCEPT !.pos = FALSE]
          \/ \E b \in BOOLEAN : eod' = [eod EXCEPT !.pos = FALSE, !.error = @ \/ b]
        BY <1>2, Zenon DEF EodCloses
    <2>3. eod' \in Closeouts /\ eod'.day = eod.day
        BY <1>0, <2>2, CloseoutFacts, Zenon
    <2> QED
        BY <1>0, <2>1, <2>3, GotoFacts DEF ThreadTypes, Threads, Closeout
<1>3. CASE EodCancels
    <2>1. /\ pc["loop"] = "eodCancel" /\ Goto("loop", "eodLeft")
          /\ UNCHANGED <<clock, gate, done, ex>>
        BY <1>3, Zenon DEF EodCancels
    <2>2. \/ eod' = [eod EXCEPT !.orders = {}]
          \/ \E b \in BOOLEAN : eod' = [eod EXCEPT !.orders = {}, !.error = @ \/ b]
        BY <1>3, Zenon DEF EodCancels
    <2>3. eod' \in Closeouts /\ eod'.day = eod.day
        BY <1>0, <2>2, CloseoutFacts, Zenon
    <2> QED
        BY <1>0, <2>1, <2>3, GotoFacts DEF ThreadTypes, Threads, Closeout
<1>4. CASE EodLeft
    <2>1. /\ pc["loop"] = "eodLeft" /\ Goto("loop", "eodEnd")
          /\ UNCHANGED <<clock, gate, done, ex>>
        BY <1>4 DEF EodLeft
    <2>2. \/ eod' = [eod EXCEPT !.error = TRUE]
          \/ \E b \in BOOLEAN : eod' = [eod EXCEPT !.left = b]
        BY <1>4 DEF EodLeft
    <2>3. eod' \in Closeouts /\ eod'.day = eod.day
        BY <1>0, <2>2, CloseoutFacts, Zenon
    <2> QED
        BY <1>0, <1>4, <2>1, <2>3, GotoFacts DEF ThreadTypes, Threads, Closeout
<1> QED
    BY <1>1, <1>2, <1>3, <1>4

\* A closeout starts behind the gate it sets.
LEMMA EodBegins ==
    ASSUME PositionsInv, EodStarts
    PROVE  /\ eod' \in Closeouts /\ eod'.day = Day /\ gate' = Day /\ UNCHANGED <<clock, done, ex>>
           /\ pc["loop"] = "eod" /\ pc'["loop"] = "eodOrders"
           /\ ex.pc = "gated" => ex.t \in late' \/ ex.t \notin Watched
<1>0. ThreadTypes /\ Day \in Days /\ Day \in 0..MaxClock
    BY TypeParts, DayFacts DEF PositionsInv, ClockTypes, Days
<1>1. /\ pc["loop"] = "eod" /\ Goto("loop", "eodOrders") /\ gate' = Day
      /\ UNCHANGED <<clock, done, ex>>
      /\ ex.pc = "gated" => ex.t \in late' \/ ex.t \notin Watched
    BY DEF EodStarts
<1>2. \/ \E b \in BOOLEAN : eod' = [NoCloseout EXCEPT !.day = Day, !.pos = b]
      \/ eod' = [NoCloseout EXCEPT !.day = Day, !.error = TRUE]
    BY Zenon DEF EodStarts
<1>3. eod' \in Closeouts /\ eod'.day = Day
    BY <1>0, <1>2, NewCloseoutFacts, Zenon
<1> QED
    BY <1>0, <1>1, <1>3, GotoFacts DEF ThreadTypes, Threads

\* Only a complete closeout is recorded for its day.
LEMMA EodFinishes ==
    ASSUME PositionsInv, EodEnds
    PROVE  /\ eod' = NoCloseout /\ eod' \in Closeouts /\ eod'.day = None
           /\ UNCHANGED <<clock, gate, ex, broker, late>>
           /\ pc["loop"] = "eodEnd" /\ pc'["loop"] = "query"
           /\ \/ done' = done
              \/ done' = eod.day /\ ~eod.left /\ ~eod.error /\ Orders = {}
<1>0. ThreadTypes /\ Day \in Days
    BY TypeParts, DayFacts DEF PositionsInv, ClockTypes, Days
<1>1. NoCloseout \in Closeouts /\ NoCloseout.day = None
    BY <1>0, NewCloseoutFacts
<1> QED
    BY <1>0, <1>1, GotoFacts DEF EodEnds, ThreadTypes, Threads, market

\* Every other step leaves the closeout alone, but for a crash.
Restarted == gate' = None /\ done' = None /\ eod' = NoCloseout /\ pc'["loop"] = "none"
\* Every other step leaves gate and closeout alone, or restarts them.
LEMMA NoEodStep ==
    ASSUME PositionsInv, [Next]_vars
    PROVE  \/ EodStarts \/ EodOrders \/ EodCloses \/ EodCancels \/ EodLeft \/ EodEnds
           \/ Restarted /\ ex'.pc = "idle" /\ clock' = clock
           \/ /\ UNCHANGED <<gate, done, eod>>
              /\ \/ pc'["loop"] = pc["loop"]
                 \/ pc["loop"] \notin Closeout /\ pc'["loop"] \notin Closeout
<1> USE DEF closeout, threads
<1>0. ThreadTypes
    BY TypeParts DEF PositionsInv
<1>1. CASE Broker \/ Executor \/ Stop \/ UNCHANGED vars \/ \E t \in Tickets : ExPasses(t)
           \/ \E u \in Tickets, p \in Threads : MarketExit(p, u)
    BY <1>1 DEF Broker, Tick, Fill, BrokerCloses, Executor, ExSubmits, ExTracks, ExWrites,
                ExPasses, MarketExit, Stop, vars
<1>2. CASE LoopEnds \/ EodNotDue \/ \E D \in SUBSET tracked : Flush(D)
    <2>1. PICK l \in {"none", "query", "eod"} : Goto("loop", l)
        BY <1>2 DEF LoopEnds, EodNotDue, Flush
    <2> QED
        BY <1>0, <1>2, <2>1, GotoFacts DEF LoopEnds, EodNotDue, Flush, ThreadTypes, Threads, Closeout
<1>7. CASE Monitor \/ \E t \in Tickets, system \in BOOLEAN : DirectTrade(t, system)
    <2>1. UNCHANGED <<gate, done, eod, pc>>
        BY <1>7, Zenon DEF Monitor, MonitorLooks, MonitorTracks, MonitorWrites, DirectTrade
    <2> QED
        BY <2>1
<1>8. CASE Rejoin
    BY <1>0, <1>8, GotoFacts DEF Rejoin, ThreadTypes, Threads
<1>3. CASE Start \/ StatesQuery \/ StatesMark \/ Overnight
    <2>1. PICK l \in {"query", "rejoin", "mark", "overnight", "none"} : Goto("side", l)
        BY <1>3 DEF Start, StatesQuery, StatesMark, Overnight
    <2>2. UNCHANGED <<gate, done, eod>>
        BY <1>3 DEF Start, StatesQuery, StatesMark, Overnight
    <2> QED
        BY <1>0, <2>1, <2>2, GotoFacts DEF ThreadTypes, Threads
<1>4. CASE Request
    BY <1>0, <1>4 DEF Request, ThreadTypes, Threads
<1>5. CASE Crash
    BY <1>5 DEF Crash, Restarted, Idle, Threads
<1>6. ASSUME NEW p \in Threads, Sync(p) \/ Compare(p)
      PROVE  /\ UNCHANGED <<gate, done, eod>>
             /\ \/ pc'["loop"] = pc["loop"]
                \/ pc["loop"] \notin Closeout /\ pc'["loop"] \notin Closeout
    <2>1. PICK l : After(p, l)
        BY <1>6, PassMoves
    <2>2. UNCHANGED <<gate, done, eod>>
        BY <1>6 DEF Sync, SyncQuery, SyncPuts, SyncWrites, SyncNext, Compare, Copy, Look,
                    WriteClosed, PassEnds, Drop
    <2>3. /\ l # "launch" => pc' = [pc EXCEPT ![p] = l]
          /\ l = "launch" => pc'["loop"] = "first"
        BY <1>0, <2>1, GotoFacts DEF ThreadTypes, After
    <2> QED
        BY <1>0, <2>1, <2>2, <2>3 DEF After, ThreadTypes, Threads, Work, Closeout
<1> QED
    BY <1>1, <1>2, <1>3, <1>4, <1>5, <1>6, <1>7, <1>8 DEF Next, Loop, Side, Threads

\* The day never goes back.
LEMMA DayStep ==
    ASSUME PositionsInv, [Next]_vars
    PROVE  Day \in 0..MaxClock /\ Day' \in Nat /\ Day <= Day'
<1>1. clock' = clock \/ clock' = clock + 1
    <2>1. CASE Tick \/ UNCHANGED vars
        BY <2>1 DEF Tick, vars
    <2>2. CASE EodStarts \/ EodCloses \/ EodCancels
        BY <2>2, Zenon DEF EodStarts, EodCloses, EodCancels
    <2>3. CASE LoopEnds \/ EodNotDue \/ EodOrders \/ EodLeft \/ EodEnds
               \/ StatesQuery \/ StatesMark \/ Overnight \/ Request \/ Start \/ Stop \/ Crash
        BY <2>3 DEF LoopEnds, EodNotDue, EodOrders, EodLeft, EodEnds, StatesQuery, StatesMark,
                    Overnight, Request, Start, Stop, Crash
    <2>4. CASE Executor \/ (\E t \in Tickets : Fill(t) \/ BrokerCloses(t) \/ ExPasses(t))
               \/ (\E t \in Tickets, p \in Threads : MarketExit(p, t))
               \/ (\E D \in SUBSET tracked : Flush(D))
        BY <2>4 DEF Executor, ExSubmits, ExTracks, ExWrites, Fill, BrokerCloses, ExPasses,
                    MarketExit, Flush
    <2>5. ASSUME NEW p \in Threads, Sync(p) \/ Compare(p) PROVE clock' = clock
        BY <2>5 DEF Sync, SyncQuery, SyncPuts, SyncWrites, SyncNext, Compare, Copy, Look,
                    WriteClosed, PassEnds, Drop
    <2>6. CASE Monitor \/ Rejoin \/ \E t \in Tickets, system \in BOOLEAN : DirectTrade(t, system)
        BY <2>6, Zenon DEF Monitor, MonitorLooks, MonitorTracks, MonitorWrites, Rejoin, DirectTrade
    <2> QED
        BY <2>1, <2>2, <2>3, <2>4, <2>5, <2>6 DEF Next, Broker, Loop, Side, Threads
<1> QED
    BY <1>1, TypeParts, DayFacts DEF PositionsInv, ClockTypes

\* Every step keeps the closeout and the dates of the gate.
LEMMA EodTypesStep ==
    ASSUME PositionsInv, [Next]_vars
    PROVE  EodTypes' /\ GateTypes' /\ GateIsDated'
<1>0. /\ EodTypes /\ GateTypes /\ GateIsDated /\ Day \in 0..MaxClock /\ eod \in Closeouts
      /\ None \notin 0..MaxClock /\ MaxClock \in Nat
    BY TypeParts, DayFacts, PositionAssumption DEF PositionsInv, ClockTypes, EodTypes, Closeouts
<1>1. Day' \in Nat /\ Day <= Day'
    BY DayStep
<1>2. CASE EodOrders \/ EodCloses \/ EodCancels \/ EodLeft
    <2>1. /\ eod' \in Closeouts /\ eod'.day = eod.day /\ UNCHANGED <<gate, done, clock>>
          /\ pc["loop"] \in Closeout /\ pc'["loop"] \in Closeout
        BY <1>2, EodSteps
    <2>2. Day' = Day
        BY <2>1 DEF Day
    <2> QED
        BY <1>0, <2>1, <2>2 DEF EodTypes, GateTypes, GateIsDated, Closeouts
<1>3. CASE EodStarts
    <2>1. /\ eod' \in Closeouts /\ eod'.day = Day /\ gate' = Day /\ done' = done
          /\ pc'["loop"] = "eodOrders" /\ Day' = Day
        BY <1>3, EodBegins DEF Day
    <2>2. EodTypes'
        BY <1>0, <2>1 DEF EodTypes, Closeouts, Closeout, Days
    <2>3. GateTypes' /\ GateIsDated'
        BY <1>0, <2>1 DEF GateTypes, GateIsDated, Days
    <2> QED
        BY <2>2, <2>3
<1>4. CASE EodEnds
    <2>1. /\ eod' \in Closeouts /\ eod'.day = None /\ gate' = gate /\ pc["loop"] = "eodEnd"
          /\ pc'["loop"] = "query" /\ (done' = done \/ done' = eod.day) /\ Day' = Day
        BY <1>4, EodFinishes DEF Day
    <2>2. EodTypes'
        BY <2>1 DEF EodTypes, Closeouts, Closeout
    <2>3. eod.day # None /\ eod.day = gate
        BY <1>0, <2>1 DEF EodTypes, GateIsDated, Closeout
    <2>4. GateTypes' /\ GateIsDated'
        BY <1>0, <2>1, <2>3 DEF GateTypes, GateIsDated, Days
    <2> QED
        BY <2>2, <2>4
<1>5. CASE Restarted /\ clock' = clock
    <2>1. NoCloseout \in Closeouts /\ NoCloseout.day = None
        BY <1>0, NewCloseoutFacts DEF Days
    <2>2. /\ eod' = NoCloseout /\ gate' = None /\ done' = None /\ pc'["loop"] = "none"
        BY <1>5 DEF Restarted
    <2> QED
        BY <2>1, <2>2 DEF EodTypes, GateTypes, GateIsDated, Closeouts, Closeout, Days
<1>6. CASE /\ UNCHANGED <<gate, done, eod>>
           /\ \/ pc'["loop"] = pc["loop"]
              \/ pc["loop"] \notin Closeout /\ pc'["loop"] \notin Closeout
    <2>1. EodTypes' /\ GateTypes'
        BY <1>0, <1>6 DEF EodTypes, GateTypes
    <2>2. GateIsDated'
        BY <1>0, <1>1, <1>6 DEF GateIsDated, GateTypes, Days
    <2> QED
        BY <2>1, <2>2
<1> QED
    BY <1>2, <1>3, <1>4, <1>5, <1>6, NoEodStep

\* TypeOK is preserved.
LEMMA TypeStep ==
    ASSUME PositionsInv, [Next]_vars
    PROVE  TypeOK'
<1>1. BrokerTypes'
    BY MarketStep DEF MarketMoves
<1>2. ClockTypes' /\ StopTypes'
    BY TypeParts, ClockTypesStep, StopTypesStep DEF PositionsInv
<1>3. RowTypes' /\ ExTypes' /\ CountTypes' /\ ThreadTypes'
    BY RowTypesStep, ExTypesStep, ThreadTypesStep
<1>4. EodTypes' /\ GateTypes'
    BY EodTypesStep
<1> QED
    BY <1>1, <1>2, <1>3, <1>4
       DEF TypeOK, ClockTypes, BrokerTypes, RowTypes, ExTypes, ThreadTypes, StopTypes, GateTypes,
           EodTypes, CountTypes, Past, Jobs

(* ------------------------------- the rows ------------------------------- *)

\* Threads, rows and the executor know only positions that were filled.
LEMMA KnownStep ==
    ASSUME PositionsInv, [Next]_vars
    PROVE  KnownIsPast'
<1> USE DEF market, threads
<1>0. RowTypes /\ ExTypes /\ ThreadTypes /\ KnownIsPast /\ BrokerTypes /\ MarketMoves /\ None \notin Tickets
    BY TypeParts, MarketStep, PositionAssumption DEF PositionsInv
<1>1. Past \subseteq Past' /\ Past' \subseteq Tickets
    BY <1>0, PastGrows
<1> DEFINE TodoOk == \A p \in Threads : todo[p] \subseteq Past /\ hold[p] \in Past \cup {None}
           RowOk == \A t \in Tickets : row[t] # "none" => t \in Past
           ExOk == /\ ex.pc = "gated" => broker[ex.t] = "none"
                   /\ ex.pc \in {"placed", "hook"} => ex.t \in Past
           MonOk == mon.pc # "idle" => mon.t \in Past
<1>2. TodoOk /\ RowOk /\ ExOk /\ MonOk
    BY <1>0 DEF KnownIsPast
<1>a. ASSUME UNCHANGED <<todo, hold>> PROVE TodoOk'
    BY <1>1, <1>2, <1>a
<1>b. ASSUME row' = row PROVE RowOk'
    BY <1>1, <1>2, <1>b
<1>c. ASSUME ex' = ex, ex.pc # "gated" \/ broker' = broker PROVE ExOk'
    BY <1>1, <1>2, <1>c
<1>f. ASSUME mon' = mon PROVE MonOk'
    BY <1>1, <1>2, <1>f
<1>d. ASSUME ex' = ex, \A t \in Tickets : broker'[t] = broker[t] \/ broker[t] # "none" \/ ex.t # t
      PROVE ExOk'
    <2>1. ex.pc = "gated" => broker'[ex.t] = "none"
        BY <1>0, <1>2, <1>d DEF ExTypes
    <2> QED
        BY <1>1, <1>2, <1>d, <2>1
<1>e. ASSUME NEW S, CloseAll(S), S \subseteq Live \cup Orders, ex' = ex PROVE ExOk'
    <2>1. \A t \in Tickets : broker'[t] = broker[t] \/ broker[t] # "none"
        BY <1>0, <1>e, CloseAllFacts DEF BrokerTypes
    <2> QED
        BY <1>d, <1>e, <2>1
<1>3. CASE Tick \/ LoopEnds \/ EodNotDue \/ EodOrders \/ EodLeft \/ EodEnds
           \/ Start \/ Rejoin \/ Stop \/ Request \/ UNCHANGED vars
    BY <1>f, <1>3, <1>a, <1>b, <1>c DEF Tick, LoopEnds, EodNotDue, EodOrders, EodLeft, EodEnds,
                                  Start, Rejoin, Stop, Request, vars, KnownIsPast
<1>4. CASE EodStarts
    <2>1. UNCHANGED <<todo, hold, row, mon, ex, broker>>
        BY <1>4, Zenon DEF EodStarts
    <2> QED
        BY <1>f, <2>1, <1>a, <1>b, <1>c DEF KnownIsPast
<1>5. CASE EodCloses \/ EodCancels
    <2>1. UNCHANGED <<todo, hold, row, mon, ex>> /\ \E S : S \subseteq Live \cup Orders /\ CloseAll(S)
        BY <1>5 DEF EodCloses, EodCancels
    <2> QED
        BY <1>f, <2>1, <1>a, <1>b, <1>e DEF KnownIsPast
<1>6. CASE Overnight
    BY <1>f, <1>6, <1>a, <1>b, <1>c, <1>e DEF Overnight, KnownIsPast
<1>7. CASE \E t \in Tickets : BrokerCloses(t) \/ \E p \in Threads : MarketExit(p, t)
    <2>1. UNCHANGED <<todo, hold, row, mon, ex>> /\ \E S : S \subseteq Live \cup Orders /\ CloseAll(S)
        BY <1>7 DEF BrokerCloses, MarketExit
    <2> QED
        BY <1>f, <2>1, <1>a, <1>b, <1>e DEF KnownIsPast
<1>8. ASSUME NEW t \in Tickets, Fill(t) PROVE KnownIsPast'
    <2>1. UNCHANGED <<todo, hold, row, mon, ex>>
        BY <1>8 DEF Fill
    <2>2. \A u \in Tickets : broker'[u] = broker[u] \/ broker[u] # "none"
        BY <1>0, <1>8 DEF Fill, GoesLive, BrokerTypes
    <2> QED
        BY <1>f, <2>1, <2>2, <1>a, <1>b, <1>d DEF KnownIsPast
<1>9. ASSUME NEW t \in Tickets, ExPasses(t) PROVE KnownIsPast'
    <2>1. ExOk'
        BY <1>9 DEF ExPasses
    <2> QED
        BY <1>f, <1>9, <1>a, <1>b, <2>1 DEF ExPasses, KnownIsPast
<1>10. CASE ExSubmits
    <2>1. ExOk'
        BY <1>0, <1>10 DEF ExSubmits, GoesLive, Idle, ExTypes, BrokerTypes, Past
    <2> QED
        BY <1>f, <1>10, <1>a, <1>b, <2>1 DEF ExSubmits, KnownIsPast
<1>11. CASE ExTracks
    <2>1. ExOk'
        BY <1>0, <1>1, <1>2, <1>11 DEF ExTracks, ExTypes
    <2> QED
        BY <1>f, <1>11, <1>a, <1>b, <2>1 DEF ExTracks, KnownIsPast
<1>12. CASE ExWrites
    <2>1. ExOk'
        BY <1>12 DEF ExWrites, Idle
    <2>2. RowOk'
        BY <1>0, <1>1, <1>2, <1>12 DEF ExWrites, TryWriteOpen, WriteOpen, RowTypes, Past
    <2> QED
        BY <1>f, <1>12, <1>a, <2>1, <2>2 DEF ExWrites, KnownIsPast
<1>20. ASSUME NEW t \in Tickets, NEW system \in BOOLEAN, DirectTrade(t, system) PROVE KnownIsPast'
    <2>1. UNCHANGED <<todo, hold, row, mon, ex>> /\ ex.t # t
        BY <1>20, Zenon DEF DirectTrade
    <2>2. \/ broker' = [broker EXCEPT ![t] = "live"]
          \/ broker' = [broker EXCEPT ![t] = "order"]
        BY <1>20, Zenon DEF DirectTrade, GoesLive
    <2>3. \A u \in Tickets : broker'[u] = broker[u] \/ broker[u] # "none" \/ ex.t # u
        BY <1>0, <2>1, <2>2 DEF BrokerTypes
    <2> QED
        BY <2>1, <2>3, <1>a, <1>b, <1>d, <1>f DEF KnownIsPast
<1>21. ASSUME NEW t \in Tickets, MonitorLooks(t) PROVE KnownIsPast'
    <2>1. MonOk'
        BY <1>1, <1>2, <1>21, ListsArePast DEF MonitorLooks
    <2> QED
        BY <1>21, <1>a, <1>b, <1>c, <2>1 DEF MonitorLooks, KnownIsPast
<1>22. CASE MonitorTracks
    <2>1. MonOk'
        BY <1>0, <1>1, <1>2, <1>22 DEF MonitorTracks, ExTypes
    <2> QED
        BY <1>22, <1>a, <1>b, <1>c, <2>1 DEF MonitorTracks, KnownIsPast
<1>23. CASE MonitorWrites
    <2>1. MonOk'
        BY <1>23 DEF MonitorWrites, Idle
    <2>2. RowOk'
        BY <1>0, <1>1, <1>2, <1>23 DEF MonitorWrites, TryWriteOpen, WriteOpen, RowTypes, Past
    <2> QED
        BY <1>23, <1>a, <1>c, <2>1, <2>2 DEF MonitorWrites, KnownIsPast
<1>13. CASE Crash
    <2>1. TodoOk' /\ ExOk' /\ MonOk'
        BY <1>13 DEF Crash, Idle
    <2> QED
        BY <1>f, <1>13, <1>b, <2>1 DEF Crash, KnownIsPast
<1>14. ASSUME NEW D \in SUBSET tracked, Flush(D) PROVE KnownIsPast'
    <2>1. RowOk'
        BY <1>0, <1>1, <1>2, <1>14 DEF Flush, RowTypes
    <2> QED
        BY <1>f, <1>14, <1>a, <1>c, <2>1 DEF Flush, KnownIsPast
<1>15. CASE StatesQuery \/ StatesMark
    <2>1. TodoOk'
        BY <1>0, <1>1, <1>2, <1>15, ListsArePast DEF StatesQuery, StatesMark, ThreadTypes
    <2>2. RowOk'
        BY <1>0, <1>1, <1>2, <1>15 DEF StatesQuery, StatesMark
    <2> QED
        BY <1>f, <1>15, <1>c, <2>1, <2>2 DEF StatesQuery, StatesMark, KnownIsPast
<1>16. ASSUME NEW p \in Threads, SyncQuery(p) \/ Copy(p) \/ Look(p) \/ PassEnds(p) PROVE KnownIsPast'
    <2>1. TodoOk'
        BY <1>0, <1>1, <1>2, <1>16, ListsArePast
           DEF SyncQuery, Copy, Look, PassEnds, ThreadTypes, RowTypes
    <2> QED
        BY <1>f, <1>16, <1>b, <1>c, <2>1 DEF SyncQuery, Copy, Look, PassEnds, KnownIsPast
<1>17. ASSUME NEW p \in Threads, NEW t \in Tickets, SyncNext(p, t) \/ Drop(p, t) PROVE KnownIsPast'
    <2>1. TodoOk'
        BY <1>0, <1>1, <1>2, <1>17 DEF SyncNext, Drop, ThreadTypes
    <2> QED
        BY <1>f, <1>17, <1>b, <1>c, <2>1 DEF SyncNext, Drop, KnownIsPast
<1>18. ASSUME NEW p \in Threads, SyncPuts(p) PROVE KnownIsPast'
    BY <1>f, <1>18, <1>a, <1>b, <1>c DEF SyncPuts, KnownIsPast
<1>19. ASSUME NEW p \in Threads, SyncWrites(p) \/ WriteClosed(p) PROVE KnownIsPast'
    <2>1. TodoOk'
        BY <1>0, <1>1, <1>2, <1>19 DEF SyncWrites, WriteClosed, ThreadTypes
    <2>2. hold[p] \in Past
        BY <1>0, <1>2, <1>19 DEF SyncWrites, WriteClosed, ThreadTypes
    <2>3. RowOk'
        BY <1>0, <1>1, <1>2, <1>19, <2>2 DEF SyncWrites, WriteClosed, WriteOpen, RowTypes
    <2> QED
        BY <1>f, <1>19, <1>c, <2>1, <2>3 DEF SyncWrites, WriteClosed, KnownIsPast
<1> QED
    BY <1>3, <1>4, <1>5, <1>6, <1>7, <1>8, <1>9, <1>10, <1>11, <1>12, <1>13, <1>14, <1>15,
       <1>16, <1>17, <1>18, <1>19, <1>20, <1>21, <1>22, <1>23
       DEF Next, Broker, Executor, Monitor, Sync, Compare, Loop, Side, Threads

(* ------------------------- what a thread has in hand --------------------- *)

Quiet(q) == pc'[q] = pc[q] /\ todo'[q] = todo[q] /\ hold'[q] = hold[q]
Away(q) == pc'[q] \notin {"look", "drop", "close", "mark"}

\* A thread is left alone, leaves the steps that drop or mark, or takes one.
LEMMA ThreadFrame ==
    ASSUME PositionsInv, [Next]_vars, NEW q \in Threads
    PROVE  \/ Quiet(q) \/ Away(q) \/ Copy(q) \/ Look(q) \/ WriteClosed(q)
           \/ \E t \in Tickets : Drop(q, t)
           \/ q = "side" /\ StatesQuery
<1> USE DEF threads
<1>0. ThreadTypes /\ OneComparer
    BY TypeParts DEF PositionsInv
<1>a. ASSUME NEW p \in Threads, NEW l \in Pcs \ {"look", "drop", "close", "mark"}, Goto(p, l),
             todo' = todo \/ \E S : todo' = [todo EXCEPT ![p] = S],
             hold' = hold \/ \E t : hold' = [hold EXCEPT ![p] = t]
      PROVE  Quiet(q) \/ Away(q)
    <2>1. pc' = [pc EXCEPT ![p] = l]
        BY <1>0, <1>a, GotoFacts DEF ThreadTypes, Pcs, Closeout
    <2> QED
        BY <1>0, <1>a, <2>1 DEF Quiet, Away, ThreadTypes, Pcs
<1>b. ASSUME NEW p \in Threads, Goto(p, AfterPass(p)) PROVE q = p => Away(q)
    BY <1>0, <1>b, GotoFacts DEF ThreadTypes, AfterPass, Away, Threads
<1>1. CASE Broker \/ Executor \/ Stop \/ UNCHANGED vars \/ \E t \in Tickets : ExPasses(t)
           \/ \E u \in Tickets, p \in Threads : MarketExit(p, u)
    BY <1>1 DEF Broker, Tick, Fill, BrokerCloses, Executor, ExSubmits, ExTracks, ExWrites,
                ExPasses, MarketExit, Stop, vars, Quiet
<1>2. CASE LoopEnds \/ EodNotDue \/ EodOrders \/ EodLeft \/ EodEnds
           \/ \E D \in SUBSET tracked : Flush(D)
    <2>1. UNCHANGED <<todo, hold>> /\ \E l \in {"none", "query", "eod"} \cup Closeout : Goto("loop", l)
        BY <1>2 DEF LoopEnds, EodNotDue, EodOrders, EodLeft, EodEnds, Flush, Closeout
    <2> QED
        BY <2>1, <1>a DEF Pcs, Closeout, Threads
<1>3. CASE EodStarts \/ EodCloses \/ EodCancels
    <2>1. /\ UNCHANGED <<todo, hold>>
          /\ \/ Goto("loop", "eodOrders") \/ Goto("loop", "eodCancel") \/ Goto("loop", "eodLeft")
        BY <1>3, Zenon DEF EodStarts, EodCloses, EodCancels
    <2> QED
        BY <2>1, <1>a DEF Pcs, Closeout, Threads
<1>11. CASE Monitor \/ \E t \in Tickets, system \in BOOLEAN : DirectTrade(t, system)
    <2>1. UNCHANGED threads
        BY <1>11, Zenon DEF Monitor, MonitorLooks, MonitorTracks, MonitorWrites, DirectTrade
    <2> QED
        BY <2>1 DEF Quiet
<1>12. CASE Rejoin
    <2>1. CASE pc' = [pc EXCEPT !["side"] = "query"]
        BY <1>0, <1>12, <2>1 DEF Rejoin, Quiet, Away, ThreadTypes
    <2> QED
        BY <1>12, <1>a, <2>1 DEF Rejoin, Pcs, Threads
<1>4. CASE Start \/ StatesMark \/ Overnight
    <2>1. /\ hold' = hold /\ (todo' = todo \/ todo' = [todo EXCEPT !["side"] = {}])
          /\ Goto("side", "query") \/ Goto("side", "rejoin") \/ Goto("side", "overnight") \/ Goto("side", "none")
        BY <1>4 DEF Start, StatesMark, Overnight
    <2> QED
        BY <2>1, <1>a DEF Pcs, Threads
<1>5. CASE Request \/ Crash
    BY <1>0, <1>5 DEF Request, Crash, Quiet, Away, ThreadTypes
<1>6. CASE StatesQuery
    <2>1. PICK l \in {"mark", "overnight"} : Goto("side", l)
        BY <1>6 DEF StatesQuery
    <2>2. pc' = [pc EXCEPT !["side"] = l]
        BY <1>0, <2>1, GotoFacts DEF ThreadTypes, Threads
    <2> QED
        BY <1>0, <1>6, <2>2 DEF StatesQuery, Quiet, ThreadTypes, Threads
<1>7. ASSUME NEW p \in Threads, Sync(p) PROVE Quiet(q) \/ Away(q)
    <2>1. AfterSync(p) \in {"copy", "states", "none"}
        BY <1>0, AfterFacts DEF ThreadTypes
    <2>2. /\ todo' = todo \/ \E S : todo' = [todo EXCEPT ![p] = S]
          /\ hold' = hold \/ \E t : hold' = [hold EXCEPT ![p] = t]
        BY <1>7 DEF Sync, SyncQuery, SyncNext, SyncPuts, SyncWrites
    <2>3. \E l \in {"sync", "put", "hook", "overnight", AfterSync(p)} : Goto(p, l)
        BY <1>7 DEF Sync, SyncQuery, SyncNext, SyncPuts, SyncWrites
    <2> QED
        BY <2>1, <2>2, <2>3, <1>a DEF Pcs
<1>8. ASSUME NEW p \in Threads, Compare(p), q # p PROVE Quiet(q) \/ Away(q)
    <2>1. PICK l : After(p, l)
        BY <1>8, PassMoves
    <2>2. todo'[q] = todo[q] /\ hold'[q] = hold[q]
        BY <1>0, <1>8 DEF Compare, Copy, Look, WriteClosed, PassEnds, Drop, ThreadTypes
    <2>3. pc'[q] = pc[q] \/ pc'[q] = "first"
        BY <1>0, <1>8, <2>1, GotoFacts DEF After, ThreadTypes, Threads
    <2> QED
        BY <2>2, <2>3 DEF Quiet, Away
<1>9. CASE PassEnds(q)
    BY <1>9, <1>b DEF PassEnds
<1>10. CASE Compare(q)
    BY <1>9, <1>10 DEF Compare
<1> QED
    BY <1>1, <1>2, <1>3, <1>4, <1>5, <1>6, <1>7, <1>8, <1>10, <1>11, <1>12 DEF Next, Loop, Side, Threads

\* Only a crash and a drop take a position from the tracked ones.
LEMMA TrackedGrows ==
    ASSUME [Next]_vars
    PROVE  tracked \subseteq tracked' \/ Crash \/ \E p \in Threads, t \in Tickets : Drop(p, t)
<1>1. CASE LoopEnds \/ EodNotDue \/ EodOrders \/ EodLeft \/ EodEnds \/ StatesQuery \/ StatesMark
           \/ Overnight \/ Request \/ Start \/ Stop \/ UNCHANGED vars
    BY <1>1 DEF LoopEnds, EodNotDue, EodOrders, EodLeft, EodEnds, StatesQuery, StatesMark,
                Overnight, Request, Start, Stop, vars
<1>2. CASE EodStarts \/ EodCloses \/ EodCancels
    <2>1. tracked' = tracked
        BY <1>2, Zenon DEF EodStarts, EodCloses, EodCancels
    <2> QED
        BY <2>1
<1>5. CASE Rejoin \/ Monitor \/ \E t \in Tickets, system \in BOOLEAN : DirectTrade(t, system)
    <2>1. tracked' = tracked \/ MonitorTracks
        BY <1>5, Zenon DEF Rejoin, Monitor, MonitorLooks, MonitorWrites, DirectTrade
    <2> QED
        BY <2>1 DEF MonitorTracks, Track
<1>3. CASE Executor \/ Tick \/ (\E t \in Tickets : Fill(t) \/ BrokerCloses(t) \/ ExPasses(t))
           \/ (\E t \in Tickets, p \in Threads : MarketExit(p, t))
           \/ (\E D \in SUBSET tracked : Flush(D))
    BY <1>3 DEF Executor, ExSubmits, ExTracks, Track, ExWrites, Tick, Fill, BrokerCloses, ExPasses,
                MarketExit, Flush
<1>4. ASSUME NEW p \in Threads, Sync(p) \/ Copy(p) \/ Look(p) \/ WriteClosed(p) \/ PassEnds(p)
      PROVE tracked \subseteq tracked'
    BY <1>4 DEF Sync, SyncQuery, SyncPuts, SyncWrites, SyncNext, Copy, Look, WriteClosed, PassEnds
<1> QED
    BY <1>1, <1>2, <1>3, <1>4, <1>5 DEF Next, Broker, Loop, Side, Compare, Threads

\* What a pass has still to handle stays tracked.
LEMMA HandledStep ==
    ASSUME PositionsInv, [Next]_vars
    PROVE  HandledIsTracked'
<1>0. ThreadTypes /\ OneComparer /\ HandledIsTracked
    BY TypeParts DEF PositionsInv
<1>1. SUFFICES ASSUME NEW q \in Threads
               PROVE  /\ pc'[q] \in {"look", "drop"} => todo'[q] \subseteq tracked'
                      /\ pc'[q] = "close" => todo'[q] \ {hold'[q]} \subseteq tracked'
    BY DEF HandledIsTracked
<1>2. CASE Crash
    BY <1>2 DEF Crash
<1>3. ASSUME NEW p \in Threads, NEW t \in Tickets, Drop(p, t)
      PROVE  /\ pc'[q] \in {"look", "drop"} => todo'[q] \subseteq tracked'
             /\ pc'[q] = "close" => todo'[q] \ {hold'[q]} \subseteq tracked'
    <2>1. pc' = [pc EXCEPT ![p] = "close"] /\ pc[p] = "drop"
        BY <1>0, <1>3, GotoFacts DEF Drop, ThreadTypes
    <2>2. CASE q = p
        BY <1>0, <1>3, <2>1, <2>2 DEF Drop, ThreadTypes, HandledIsTracked
    <2>3. CASE q # p
        BY <1>0, <1>3, <2>1, <2>3 DEF OneComparer, Comparing, ThreadTypes, Threads
    <2> QED
        BY <2>2, <2>3
<1>4. CASE tracked \subseteq tracked'
    <2>1. CASE Quiet(q)
        BY <1>0, <1>4, <2>1 DEF Quiet, HandledIsTracked
    <2>2. CASE Away(q)
        BY <2>2 DEF Away
    <2>3. CASE Copy(q) \/ Look(q)
        <3>1. todo'[q] \subseteq tracked
            BY <1>0, <2>3 DEF Copy, Look, ThreadTypes, HandledIsTracked
        <3> QED
            BY <1>4, <3>1
    <2>4. CASE WriteClosed(q)
        <3>1. todo'[q] \subseteq tracked
            BY <1>0, <2>4 DEF WriteClosed, ThreadTypes, HandledIsTracked
        <3> QED
            BY <1>4, <3>1
    <2>5. CASE q = "side" /\ StatesQuery
        <3>1. pc'[q] \in {"mark", "overnight"}
            BY <1>0, <2>5, GotoFacts DEF StatesQuery, ThreadTypes
        <3> QED
            BY <3>1
    <2> QED
        BY <1>3, <2>1, <2>2, <2>3, <2>4, <2>5, ThreadFrame
<1> QED
    BY <1>2, <1>3, <1>4, TrackedGrows

\* What a pass drops is gone, or was missing from a list.
LEMMA DroppedStep ==
    ASSUME PositionsInv, [Next]_vars
    PROVE  DroppedIsMissing'
<1>0. /\ ThreadTypes /\ DroppedIsMissing /\ BrokerTypes /\ MarketMoves /\ RowTypes
      /\ HandledIsTracked /\ Watched \subseteq Tickets
    BY TypeParts, MarketStep, PositionAssumption DEF PositionsInv
<1>1. \A t \in Watched : Missing(t) => Missing(t)'
    BY <1>0, PastGrows DEF Missing, MarketMoves
<1> DEFINE Done(q) == /\ pc[q] \in {"drop", "close"} => \A t \in todo[q] \cap Watched : Missing(t)
                      /\ pc[q] = "close" => hold[q] \in todo[q]
           Marked(q) == q = "side" /\ pc[q] = "mark" =>
                          \A t \in Watched \ todo[q] : broker[t] = "live" => t \in window
<1>2. SUFFICES ASSUME NEW q \in Threads PROVE Done(q)' /\ Marked(q)'
    BY DEF DroppedIsMissing, Threads
<1>3. Done(q) /\ Marked(q)
    BY <1>0 DEF DroppedIsMissing
<1> HIDE DEF Done, Marked
<1>4. CASE Quiet(q)
    <2>1. Done(q)'
        BY <1>1, <1>3, <1>4 DEF Quiet, Done
    <2>2. Marked(q)'
        BY <1>0, <1>3, <1>4 DEF Quiet, Marked, MarketMoves, Moves
    <2> QED
        BY <2>1, <2>2
<1>5. CASE Away(q)
    BY <1>5 DEF Away, Done, Marked
<1>6. CASE Copy(q)
    BY <1>0, <1>6, GotoFacts DEF Copy, AfterPass, Done, Marked, ThreadTypes, Threads
<1>7. CASE Look(q)
    <2>1. pc'[q] = "drop" /\ broker' = broker /\ todo[q] \subseteq tracked
        BY <1>0, <1>7, GotoFacts DEF Look, ThreadTypes, market, HandledIsTracked
    <2>2. ASSUME NEW t \in todo'[q] \cap Watched PROVE Missing(t)'
        BY <1>0, <1>7, <2>1, <2>2 DEF Look, Missing, ThreadTypes, RowTypes, Past, Live
    <2> QED
        BY <2>1, <2>2 DEF Done, Marked
<1>8. CASE WriteClosed(q)
    <2>1. pc'[q] \in {"drop", "wait", "query", "none"} /\ pc[q] = "close"
        BY <1>0, <1>8, GotoFacts DEF WriteClosed, AfterPass, ThreadTypes, Threads
    <2>2. todo'[q] \subseteq todo[q]
        BY <1>0, <1>8 DEF WriteClosed, ThreadTypes
    <2> QED
        BY <1>1, <1>3, <2>1, <2>2 DEF Done, Marked
<1>9. ASSUME NEW t \in Tickets, Drop(q, t) PROVE Done(q)' /\ Marked(q)'
    <2>1. pc'[q] = "close" /\ pc[q] = "drop" /\ todo' = todo /\ hold'[q] = t /\ t \in todo[q]
        BY <1>0, <1>9, GotoFacts DEF Drop, ThreadTypes
    <2> QED
        BY <1>1, <1>3, <2>1 DEF Done, Marked
<1>10. CASE q = "side" /\ StatesQuery
    <2>1. pc'[q] \in {"mark", "overnight"} /\ broker' = broker
        BY <1>0, <1>10, GotoFacts DEF StatesQuery, ThreadTypes, market
    <2>2. CASE \E list \in Lists : todo' = [todo EXCEPT !["side"] = list]
                                    /\ window' = window \cup ((Live \ list) \cap Watched)
        BY <1>0, <1>10, <2>1, <2>2 DEF Done, Marked, ThreadTypes, Live
    <2>3. CASE Goto("side", "overnight")
        BY <1>0, <1>10, <2>3, GotoFacts DEF Done, Marked, ThreadTypes
    <2> QED
        BY <1>10, <2>2, <2>3 DEF StatesQuery
<1> QED
    BY <1>4, <1>5, <1>6, <1>7, <1>8, <1>9, <1>10, ThreadFrame

ClosedRows == \A t \in Watched : row[t] = "closed" => Missing(t)

\* Every step keeps closed rows true.
LEMMA ClosedRowsStep ==
    ASSUME PositionsInv, [Next]_vars
    PROVE  ClosedRows'
<1>0. /\ ThreadTypes /\ DroppedIsMissing /\ RowTypes /\ KnownIsPast /\ ClosedRows
      /\ Watched \subseteq Tickets /\ BrokerTypes /\ MarketMoves
    BY TypeParts, MarketStep, PositionAssumption DEF PositionsInv, ClosedRowIsGone, ClosedRows, Missing
<1>1. \A t \in Watched : Missing(t) => Missing(t)'
    BY <1>0, PastGrows DEF Missing, MarketMoves
<1>a. ASSUME \A t \in Watched : row'[t] = "closed" => row[t] = "closed" \/ Missing(t) PROVE ClosedRows'
    BY <1>0, <1>1, <1>a DEF ClosedRows
<1>2. CASE LoopEnds \/ EodNotDue \/ EodOrders \/ EodLeft \/ EodEnds \/ StatesQuery
           \/ Overnight \/ Request \/ Start \/ Stop \/ Crash \/ UNCHANGED vars
    BY <1>2, <1>a DEF LoopEnds, EodNotDue, EodOrders, EodLeft, EodEnds, StatesQuery,
                Overnight, Request, Start, Stop, Crash, vars
<1>3. CASE EodStarts \/ EodCloses \/ EodCancels
    <2>1. row' = row
        BY <1>3, Zenon DEF EodStarts, EodCloses, EodCancels
    <2> QED
        BY <2>1, <1>a
<1>4. CASE Tick \/ ExSubmits \/ ExTracks \/ (\E t \in Tickets : Fill(t) \/ BrokerCloses(t) \/ ExPasses(t))
           \/ (\E t \in Tickets, p \in Threads : MarketExit(p, t))
    BY <1>4, <1>a DEF ExSubmits, ExTracks, Tick, Fill, BrokerCloses, ExPasses, MarketExit
<1>5. CASE ExWrites \/ MonitorWrites \/ \E D \in SUBSET tracked : Flush(D)
    BY <1>0, <1>5, <1>a DEF ExWrites, MonitorWrites, TryWriteOpen, WriteOpen, Flush, RowTypes
<1>10. CASE \/ Rejoin \/ MonitorTracks \/ \E t \in Tickets : MonitorLooks(t)
            \/ \E t \in Tickets, system \in BOOLEAN : DirectTrade(t, system)
    <2>1. row' = row
        BY <1>10, Zenon DEF Rejoin, MonitorTracks, MonitorLooks, DirectTrade
    <2> QED
        BY <2>1, <1>a
<1>6. ASSUME NEW p \in Threads, SyncQuery(p) \/ SyncPuts(p) \/ Copy(p) \/ Look(p) \/ PassEnds(p)
                                \/ \E t \in Tickets : SyncNext(p, t) \/ Drop(p, t)
      PROVE ClosedRows'
    BY <1>6, <1>a DEF SyncQuery, SyncPuts, SyncNext, Copy, Look, PassEnds, Drop
<1>7. ASSUME NEW p \in Threads, SyncWrites(p) PROVE ClosedRows'
    BY <1>0, <1>7, <1>a DEF SyncWrites, WriteOpen, RowTypes
<1>8. ASSUME NEW p \in Threads, WriteClosed(p) PROVE ClosedRows'
    <2>1. hold[p] \in Watched => Missing(hold[p])
        BY <1>0, <1>8 DEF WriteClosed, DroppedIsMissing
    <2> QED
        BY <1>0, <1>8, <2>1, <1>a DEF WriteClosed, RowTypes
<1>9. CASE StatesMark
    <2>1. ASSUME NEW t \in Watched, row'[t] = "closed" PROVE row[t] = "closed" \/ Missing(t)
        BY <1>0, <1>9, <2>1 DEF StatesMark, DroppedIsMissing, KnownIsPast, Past, Missing, RowTypes
    <2> QED
        BY <2>1, <1>a
<1> QED
    BY <1>2, <1>3, <1>4, <1>5, <1>6, <1>7, <1>8, <1>9, <1>10
       DEF Next, Broker, Executor, Monitor, Sync, Compare, Loop, Side, Threads

(* ------------------------------ the outcomes ---------------------------- *)

\* Every step keeps each outcome accounted for.
LEMMA OutcomesStep ==
    ASSUME PositionsInv, [Next]_vars
    PROVE  OutcomesAreDue' /\ UnwatchedHaveNone'
<1>0. /\ ThreadTypes /\ CountTypes /\ ExTypes /\ RowTypes /\ KnownIsPast /\ HandledIsTracked
      /\ OutcomesAreDue /\ UnwatchedHaveNone /\ Watched \subseteq Tickets /\ BrokerTypes /\ MarketMoves
    BY TypeParts, MarketStep, PositionAssumption DEF PositionsInv
<1>1. \A t \in Tickets : broker[t] = "gone" => broker'[t] = "gone"
    BY <1>0, PastGrows
<1>a. ASSUME UNCHANGED surplus, tracked' \subseteq tracked
      PROVE OutcomesAreDue' /\ UnwatchedHaveNone'
    BY <1>0, <1>1, <1>a DEF OutcomesAreDue, UnwatchedHaveNone
<1>b. ASSUME NEW t \in Past, tracked' = tracked \cup {t}, Tally(t, FALSE, t \notin Live),
             UNCHANGED broker
      PROVE OutcomesAreDue' /\ UnwatchedHaveNone'
    <2>1. broker[t] = "gone" \/ t \in Live
        BY <1>b DEF Past, Live
    <2>2. ASSUME NEW u \in Watched
          PROVE  /\ surplus'[u] \in Int /\ surplus'[u] <= surplus[u]
                 /\ u = t /\ t \notin Live => surplus'[u] = surplus[u] - 1
        BY <1>0, <1>b DEF Tally, CountTypes, Past
    <2>3. ASSUME NEW u \in Watched
          PROVE  /\ broker'[u] # "gone" => surplus'[u] <= 0
                 /\ u \in tracked' => surplus'[u] <= 0
                 /\ surplus'[u] <= 1
        BY <1>0, <1>b, <2>1, <2>2, <2>3 DEF OutcomesAreDue, CountTypes, Live
    <2>4. UnwatchedHaveNone'
        BY <1>0, <1>b DEF Tally, UnwatchedHaveNone, CountTypes, Past
    <2> QED
        BY <2>3, <2>4 DEF OutcomesAreDue
<1>2. CASE LoopEnds \/ EodNotDue \/ EodOrders \/ EodLeft \/ EodEnds \/ StatesQuery \/ StatesMark
           \/ Overnight \/ Request \/ Start \/ Stop \/ Crash \/ UNCHANGED vars
    BY <1>2, <1>a DEF LoopEnds, EodNotDue, EodOrders, EodLeft, EodEnds, StatesQuery, StatesMark,
                Overnight, Request, Start, Stop, Crash, vars
<1>3. CASE EodStarts \/ EodCloses \/ EodCancels
    <2>1. UNCHANGED <<tracked, surplus>>
        BY <1>3, Zenon DEF EodStarts, EodCloses, EodCancels
    <2> QED
        BY <2>1, <1>a
<1>4. CASE Tick \/ ExSubmits \/ ExWrites \/ (\E t \in Tickets : Fill(t) \/ BrokerCloses(t) \/ ExPasses(t))
           \/ (\E t \in Tickets, p \in Threads : MarketExit(p, t))
           \/ (\E D \in SUBSET tracked : Flush(D))
    BY <1>4, <1>a DEF ExSubmits, ExWrites, Tick, Fill, BrokerCloses, ExPasses, MarketExit, Flush
<1>5. ASSUME NEW p \in Threads, SyncQuery(p) \/ SyncWrites(p) \/ Copy(p) \/ Look(p) \/ WriteClosed(p)
                                \/ PassEnds(p) \/ \E t \in Tickets : SyncNext(p, t)
      PROVE OutcomesAreDue' /\ UnwatchedHaveNone'
    BY <1>5, <1>a DEF SyncQuery, SyncWrites, SyncNext, Copy, Look, WriteClosed, PassEnds
<1>6. CASE ExTracks \/ MonitorTracks
    BY <1>0, <1>6, <1>b DEF ExTracks, MonitorTracks, Track, KnownIsPast, market
<1>9. CASE \/ Rejoin \/ MonitorWrites \/ \E t \in Tickets : MonitorLooks(t)
           \/ \E t \in Tickets, system \in BOOLEAN : DirectTrade(t, system)
    <2>1. UNCHANGED <<tracked, surplus>>
        BY <1>9, Zenon DEF Rejoin, MonitorWrites, MonitorLooks, DirectTrade
    <2> QED
        BY <2>1, <1>a
<1>7. ASSUME NEW p \in Threads, SyncPuts(p) PROVE OutcomesAreDue' /\ UnwatchedHaveNone'
    <2>1. hold[p] \in Past
        BY <1>0, <1>7 DEF SyncPuts, KnownIsPast, ThreadTypes
    <2> QED
        BY <1>7, <1>b, <2>1 DEF SyncPuts, market
<1>8. ASSUME NEW p \in Threads, NEW t \in Tickets, Drop(p, t) PROVE OutcomesAreDue' /\ UnwatchedHaveNone'
    <2>1. t \in tracked /\ tracked' = tracked \ {t} /\ broker' = broker
        BY <1>0, <1>8 DEF Drop, HandledIsTracked, market
    <2>2. ASSUME NEW u \in Watched
          PROVE  /\ u # t => surplus'[u] = surplus[u]
                 /\ u = t => surplus'[u] <= IF t \in Live THEN surplus[u] ELSE surplus[u] + 1
                 /\ surplus'[u] \in Int
        BY <1>0, <1>8 DEF Drop, Tally, CountTypes
    <2>3. ASSUME NEW u \in Watched
          PROVE  /\ broker'[u] # "gone" => surplus'[u] <= 0
                 /\ u \in tracked' => surplus'[u] <= 0
                 /\ surplus'[u] <= 1
        <3>1. CASE u # t
            BY <1>0, <2>1, <2>2, <3>1 DEF OutcomesAreDue
        <3>2. CASE u = t
            <4>1. broker[u] = "gone" \/ u \in Live
                BY <1>0, <2>1, <3>2 DEF RowTypes, Past, Live
            <4>2. surplus[u] \in Int /\ surplus[u] <= 0
                BY <1>0, <2>1, <3>2 DEF CountTypes, OutcomesAreDue
            <4> QED
                BY <2>1, <2>2, <3>2, <4>1, <4>2
        <3> QED
            BY <3>1, <3>2
    <2>4. UnwatchedHaveNone'
        BY <1>0, <1>8 DEF Drop, Tally, UnwatchedHaveNone, CountTypes
    <2> QED
        BY <2>3, <2>4 DEF OutcomesAreDue
<1> QED
    BY <1>2, <1>3, <1>4, <1>5, <1>6, <1>7, <1>8, <1>9
       DEF Next, Broker, Executor, Monitor, Sync, Compare, Loop, Side, Threads

(* ------------------------------ closed out ------------------------------ *)

\* An executor passes the gate only while it is down.
LEMMA ExMoves ==
    ASSUME PositionsInv, [Next]_vars
    PROVE  ex' = ex \/ ex'.pc # "gated" \/ gate # Day
<1>0. ex \in [pc : {"idle", "gated", "placed", "hook"}, t : Tickets \cup {None}]
    BY DEF PositionsInv, TypeOK
<1>1. CASE ExSubmits \/ ExTracks \/ ExWrites \/ Crash \/ \E t \in Tickets : ExPasses(t)
    BY <1>0, <1>1 DEF ExSubmits, ExTracks, ExWrites, Crash, ExPasses, AfterEod, Idle
<1>2. CASE EodStarts \/ EodCloses \/ EodCancels
    BY <1>2, Zenon DEF EodStarts, EodCloses, EodCancels
<1>3. CASE LoopEnds \/ EodNotDue \/ EodOrders \/ EodLeft \/ EodEnds \/ StatesQuery \/ StatesMark
           \/ Overnight \/ Request \/ Start \/ Stop \/ UNCHANGED vars
    BY <1>3 DEF LoopEnds, EodNotDue, EodOrders, EodLeft, EodEnds, StatesQuery, StatesMark,
                Overnight, Request, Start, Stop, vars
<1>4. CASE Broker \/ (\E t \in Tickets, p \in Threads : MarketExit(p, t))
           \/ (\E D \in SUBSET tracked : Flush(D))
    BY <1>4 DEF Broker, Tick, Fill, BrokerCloses, MarketExit, Flush
<1>5. ASSUME NEW p \in Threads, Sync(p) \/ Compare(p) PROVE ex' = ex
    BY <1>5 DEF Sync, SyncQuery, SyncPuts, SyncWrites, SyncNext, Compare, Copy, Look,
                WriteClosed, PassEnds, Drop
<1>6. CASE Rejoin \/ Monitor \/ \E t \in Tickets, system \in BOOLEAN : DirectTrade(t, system)
    BY <1>6, Zenon DEF Rejoin, Monitor, MonitorLooks, MonitorTracks, MonitorWrites, DirectTrade
<1> QED
    BY <1>1, <1>2, <1>3, <1>4, <1>5, <1>6 DEF Next, Executor, Loop, Side, Threads

\* Every step keeps a day that is closed out flat, but for late fills.
LEMMA FlatStep ==
    ASSUME PositionsInv, [Next]_vars
    PROVE  GatedIsLate' /\ NothingLeft' /\ ClosedOutIsFlat'
<1>0. /\ GatedIsLate /\ NothingLeft /\ ClosedOutIsFlat /\ GateIsDated /\ GateTypes /\ EodTypes
      /\ Watched \subseteq Tickets /\ MarketMoves /\ BrokerTypes
      /\ None \notin Nat /\ MaxClock \in Nat /\ Days = 0..MaxClock \cup {None}
    BY TypeParts, MarketStep, PositionAssumption DEF PositionsInv, Days
<1>1. Day \in Nat /\ Day' \in Nat /\ Day <= Day'
    BY DayStep, <1>0
<1>2. EodStarts \/ late \subseteq late'
    BY <1>0 DEF MarketMoves
<1>3. gate = Day' => gate = Day /\ Day' = Day
    BY <1>0, <1>1 DEF GateIsDated, GateTypes
<1>4. done = Day' => done = Day /\ gate = Day /\ Day' = Day
    BY <1>0, <1>1 DEF GateIsDated, GateTypes
<1>5. ASSUME done' = done, late \subseteq late' PROVE ClosedOutIsFlat'
    <2>1. SUFFICES ASSUME done = Day, gate = Day, NEW t \in Watched, t \in (Live \cup Orders)'
                   PROVE  t \in late'
        BY <1>4, <1>5 DEF ClosedOutIsFlat
    <2>2. CASE t \in Live \cup Orders
        BY <1>0, <1>5, <2>1, <2>2 DEF ClosedOutIsFlat
    <2>3. CASE t \notin Live \cup Orders
        <3>1. Enters(t)
            BY <1>0, <2>1, <2>3 DEF MarketMoves, Moves, Live, Orders, BrokerTypes
        <3> QED
            BY <1>0, <1>5, <2>1, <3>1 DEF GatedIsLate, Enters
    <2> QED
        BY <2>2, <2>3
<1>6. CASE EodOrders \/ EodCloses \/ EodCancels \/ EodLeft
    <2>1. /\ UNCHANGED <<clock, gate, done, ex>> /\ Day' = Day
          /\ pc'["loop"] = "eodEnd" => EodLeft
        BY <1>6, EodSteps DEF Day
    <2>0. late \subseteq late'
        BY <1>6, <1>2, EodSteps, EodBegins DEF Closeout
    <2>2. GatedIsLate'
        BY <1>0, <2>0, <2>1 DEF GatedIsLate
    <2>3. NothingLeft'
        <3>1. SUFFICES ASSUME EodLeft, ~eod'.left, ~eod'.error PROVE (Live \cap Watched)' \subseteq late'
            BY <2>1 DEF NothingLeft
        <3>2. Live' = Live
            BY <3>1 DEF EodLeft, market, Live
        <3>3. PICK list \in Lists : eod' = [eod EXCEPT !.left = list # {}]
                                    /\ late' = late \cup ((Live \ list) \cap Watched)
            BY <1>0, <3>1 DEF EodLeft, EodTypes
        <3>4. list = {}
            BY <1>0, <3>1, <3>3 DEF EodTypes
        <3> QED
            BY <3>2, <3>3, <3>4
    <2> QED
        BY <2>0, <2>1, <2>2, <2>3, <1>5
<1>7. CASE EodStarts
    <2>1. /\ gate' = Day /\ done' = done /\ ex' = ex /\ pc'["loop"] = "eodOrders"
          /\ ex.pc = "gated" => ex.t \in late' \/ ex.t \notin Watched
          /\ Day' = Day
        BY <1>7, EodBegins DEF Day
    <2>2. done # Day
        BY <1>7 DEF EodStarts, EodDue
    <2> QED
        BY <2>1, <2>2 DEF GatedIsLate, NothingLeft, ClosedOutIsFlat
<1>8. CASE EodEnds
    <2>1. /\ UNCHANGED <<clock, gate, ex, broker, late>> /\ Day' = Day
          /\ pc["loop"] = "eodEnd" /\ pc'["loop"] = "query"
          /\ \/ done' = done
             \/ done' = eod.day /\ ~eod.left /\ ~eod.error /\ Orders = {}
        BY <1>8, EodFinishes DEF Day
    <2>2. GatedIsLate' /\ NothingLeft'
        BY <1>0, <2>1 DEF GatedIsLate, NothingLeft
    <2>3. CASE ~eod.left /\ ~eod.error /\ Orders = {}
        <3>1. Live' = Live /\ Orders' = Orders
            BY <2>1 DEF Live, Orders
        <3> QED
            BY <1>0, <2>1, <2>2, <2>3, <3>1 DEF NothingLeft, ClosedOutIsFlat
    <2> QED
        BY <1>5, <2>1, <2>2, <2>3
<1>9. CASE Restarted /\ ex'.pc = "idle" /\ clock' = clock
    <2>1. done' = None /\ pc'["loop"] = "none"
        BY <1>9 DEF Restarted
    <2> QED
        BY <1>0, <1>1, <1>9, <2>1 DEF GatedIsLate, NothingLeft, ClosedOutIsFlat
<1>10. CASE /\ UNCHANGED <<gate, done, eod>>
            /\ \/ pc'["loop"] = pc["loop"]
               \/ pc["loop"] \notin Closeout /\ pc'["loop"] \notin Closeout
    <2>0. late \subseteq late'
        BY <1>0, <1>2, <1>10, EodBegins DEF Closeout
    <2>1. GatedIsLate'
        BY <1>0, <2>0, <1>3, <1>10, ExMoves DEF GatedIsLate
    <2>2. NothingLeft'
        <3>1. SUFFICES ASSUME pc["loop"] = "eodEnd", ~eod.left, ~eod.error,
                              NEW t \in Watched, t \in Live'
                       PROVE  t \in late'
            BY <1>10 DEF NothingLeft, Closeout
        <3>2. t \in Live \/ t \in late'
            BY <1>0, <3>1 DEF MarketMoves, Moves, Live
        <3> QED
            BY <1>0, <2>0, <3>1, <3>2 DEF NothingLeft
    <2> QED
        BY <1>5, <1>10, <2>0, <2>1, <2>2
<1> QED
    BY <1>6, <1>7, <1>8, <1>9, <1>10, NoEodStep

(* ------------------------------- theorems ------------------------------- *)

\* The first state satisfies the inductive invariant.
LEMMA PositionsInit == Init => PositionsInv
<1> SUFFICES ASSUME Init PROVE PositionsInv
    OBVIOUS
<1>0. None \notin Tickets \cup Nat /\ MaxClock \in Nat /\ MaxFaults \in Nat /\ MaxSyncs \in Nat
      /\ Watched \subseteq Tickets
    BY PositionAssumption
<1>1. NoCloseout \in Closeouts /\ NoCloseout.day = None
    BY DEF NoCloseout, Closeouts, Days
<1>2. StopTypes
    BY Zenon DEF Init, StopTypes
<1>3. ClockTypes /\ BrokerTypes /\ RowTypes /\ CountTypes
    BY <1>0 DEF Init, ClockTypes, BrokerTypes, RowTypes, CountTypes, Past
<1>4. ExTypes /\ ThreadTypes /\ GateTypes
    BY <1>0 DEF Init, Idle, ExTypes, ThreadTypes, GateTypes, Pcs, Days, Jobs
<1>5. EodTypes
    BY <1>1 DEF Init, EodTypes, Closeouts, Closeout, Threads
<1>6. TypeOK
    BY <1>2, <1>3, <1>4, <1>5, TypeParts
<1>7. OneComparer /\ KnownIsPast /\ HandledIsTracked
    BY DEF Init, Idle, OneComparer, Comparing, KnownIsPast, HandledIsTracked, Threads
<1>8. DroppedIsMissing /\ OutcomesAreDue /\ UnwatchedHaveNone
    BY <1>0 DEF Init, DroppedIsMissing, OutcomesAreDue, UnwatchedHaveNone, Threads
<1>9. GateIsDated /\ GatedIsLate /\ NothingLeft
    BY <1>1 DEF Init, Idle, GateIsDated, GatedIsLate, NothingLeft, Threads
<1>10. ClosedRowIsGone
    BY <1>0, <1>6 DEF Init, ClosedRowIsGone
<1>11. ClosedOutIsFlat
    BY <1>0 DEF Init, ClosedOutIsFlat, Live, Orders
<1> QED
    BY <1>6, <1>7, <1>8, <1>9, <1>10, <1>11 DEF PositionsInv

\* PositionsInv is inductive.
THEOREM PositionsInvariant == Spec => []PositionsInv
<1>1. Init => PositionsInv
    BY PositionsInit
<1>2. PositionsInv /\ [Next]_vars => PositionsInv'
    <2>1. SUFFICES ASSUME PositionsInv, [Next]_vars PROVE PositionsInv'
        OBVIOUS
    <2>2. TypeOK' /\ OneComparer' /\ KnownIsPast' /\ HandledIsTracked' /\ DroppedIsMissing'
        BY <2>1, TypeStep, OneComparerStep, KnownStep, HandledStep, DroppedStep
    <2>3. OutcomesAreDue' /\ UnwatchedHaveNone' /\ GateIsDated'
        BY <2>1, OutcomesStep, EodTypesStep
    <2>4. GatedIsLate' /\ NothingLeft' /\ ClosedOutIsFlat'
        BY <2>1, FlatStep
    <2>5. ClosedRowIsGone'
        BY <2>1, <2>2, ClosedRowsStep DEF ClosedRowIsGone, ClosedRows, Missing
    <2> QED
        BY <2>2, <2>3, <2>4, <2>5 DEF PositionsInv
<1> QED
    BY <1>1, <1>2, PTL DEF Spec

\* A row says closed only when its position is gone, but for one that a list of
\* live positions did not show: reconcile_with_mt5, mark_position_closed and
\* reconcile_position_runtime_states on any interleaving.
THEOREM ClosedRowsAreRight == Spec => []ClosedRowIsGone
<1>1. PositionsInv => ClosedRowIsGone
    BY DEF PositionsInv
<1> QED
    BY <1>1, PositionsInvariant, PTL

\* One outcome per trade, and one more only for each mistaken tracking or drop:
\* remove_position and the close callbacks against the executor and a sync.
THEOREM OutcomesHaveCauses == Spec => []OutcomesAreCaused
<1>1. PositionsInv => OutcomesAreCaused
    <2> SUFFICES ASSUME PositionsInv, NEW t \in Tickets PROVE surplus[t] <= 1
        BY DEF OutcomesAreCaused
    <2> QED
        BY DEF PositionsInv, OutcomesAreDue, UnwatchedHaveNone
<1> QED
    BY <1>1, PositionsInvariant, PTL

\* A completed closeout leaves nothing but what slipped past the gate, was filled
\* after the last list, or was traded directly once it was complete:
\* check_end_of_day against the executor, fills and the HTTP trade routes.
THEOREM CloseoutLeavesFlat == Spec => []ClosedOutIsFlat
<1>1. PositionsInv => ClosedOutIsFlat
    BY DEF PositionsInv
<1> QED
    BY <1>1, PositionsInvariant, PTL
=============================================================================
