------------------------------ MODULE BarEvents ------------------------------
(***************************************************************************)
(* The bar-close pipeline of the indicator manager, for one symbol and     *)
(* timeframe: the ingestor announces closed bars, a writer thread stores   *)
(* them as events in SQLite, and the event loop claims batches of events,  *)
(* computes indicators, publishes confirmed snapshots and settles the      *)
(* events. A reconcile pass of the same loop, and requests of the API on   *)
(* threads of their own, compute and publish the newest bar again.         *)
(***************************************************************************)
EXTENDS Integers, Sequences, FiniteSets, SequencesExt

CONSTANTS
    MaxBar,      \* bars closed by the market
    QueueCap,    \* maxsize of event_write_queue
    ClaimLimit,  \* limit of claim_next_events
    MaxRetries,  \* retry_count at which an event fails for good
    Keep,        \* days_to_keep, in bars
    Lookback,    \* get_max_lookback: bars of history a computation loads
    ReadyBars,   \* reconcile_min_bars, at most the lookback
    MaxFaults    \* crashes, errors, stops and repeated announcements

ASSUME BarsAssumption ==
    /\ MaxBar \in Nat \ {0} /\ QueueCap \in Nat \ {0} /\ ClaimLimit \in Nat \ {0}
    /\ MaxRetries \in Nat \ {0} /\ Keep \in Nat /\ MaxFaults \in Nat
    /\ Lookback \in Nat \ {0} /\ ReadyBars \in 1..Lookback

Bars == 1..MaxBar
Settled == {"completed", "skipped", "failed"}

VARIABLES
    newest,      \* newest closed bar of the market, 0 before the first
    blank,       \* closed bars for which no indicator has a numeric value
    top, depth,  \* market cache: its newest bar, and how many it has, up to Lookback
    writeQ,      \* event_write_queue
    wpc, wbatch, \* writer thread and the batch in its hands
    row, tries,  \* ohlc_events: processed/outcome and retry_count
    pc,          \* event loop
    batch, group,\* events left of the claimed batch, and all of it
    results,     \* bar of manager.state.results, 0 when there are none
    rbar, qbar,  \* bar a reconcile pass, and a request of the API, has loaded
    last,        \* bar of the last confirmed snapshot the listeners were given
    stop, joining, sink,   \* stop event; stop() under way; the sink is set
    published,   \* history: snapshots of each bar the event path published
    mute,        \* history: bars all of whose indicators failed in the event path
    faults

market == <<newest, blank>>
cache == <<top, depth>>
store == <<row, tries>>
writer == <<writeQ, wpc, wbatch>>
loop == <<pc, batch, group, rbar>>
shown == <<results, last>>
life == <<stop, joining, sink>>
told == <<published, mute>>
vars == <<market, cache, writer, store, loop, qbar, shown, life, told, faults>>

Fault == faults < MaxFaults /\ faults' = faults + 1

TypeOK ==
    /\ newest \in 0..MaxBar /\ blank \subseteq 1..newest /\ top \in 0..newest /\ depth \in 0..Lookback
    /\ results \in 0..newest /\ last \in 0..newest /\ rbar \in 0..newest /\ qbar \in 0..newest
    /\ writeQ \in Seq(Bars) /\ Len(writeQ) <= QueueCap /\ wbatch \in Seq(Bars)
    /\ wpc \in {"none", "run"} /\ wpc = "none" => wbatch = <<>>
    /\ row \in [Bars -> {"none", "pending", "processing"} \cup Settled]
    /\ tries \in [Bars -> Nat]
    /\ pc \in {"none", "idle", "window", "each", "publish", "mark", "fail", "failAll", "after", "reconcile"}
    /\ batch \in Seq(Bars) /\ group \in Seq(Bars)
    /\ (pc \in {"publish", "mark", "fail"}) => batch # <<>>
    /\ {stop, joining, sink} \subseteq BOOLEAN
    /\ published \in [Bars -> Nat] /\ mute \subseteq Bars /\ faults \in 0..MaxFaults

Init ==
    /\ newest = 0 /\ blank = {} /\ top = 0 /\ depth = 0 /\ writeQ = <<>> /\ wpc = "none" /\ wbatch = <<>>
    /\ row = [b \in Bars |-> "none"] /\ tries = [b \in Bars |-> 0]
    /\ pc = "none" /\ batch = <<>> /\ group = <<>> /\ results = 0 /\ last = 0
    /\ rbar = 0 /\ qbar = 0 /\ stop = FALSE /\ joining = FALSE /\ sink = FALSE
    /\ published = [b \in Bars |-> 0] /\ mute = {} /\ faults = 0

(* --------------------------- ingestor and writer ------------------------ *)

\* publish_closed_bar_event: a full queue drops the event, and without a sink
\* nobody listens.
Announce(b) ==
    writeQ' = IF sink /\ Len(writeQ) < QueueCap THEN Append(writeQ, b) ELSE writeQ

\* set_ohlc_closed: the bar is in the market cache ...
CacheBar(b) ==
    /\ top' = (IF top < b THEN b ELSE top)
    /\ depth' = (IF depth < Lookback THEN depth + 1 ELSE depth)

\* ... before its event is announced.
CloseBar ==
    /\ newest < MaxBar /\ newest' = newest + 1
    /\ blank' = blank \/ blank' = blank \cup {newest + 1}
    /\ CacheBar(newest + 1) /\ Announce(newest + 1)
    /\ UNCHANGED <<wpc, wbatch, store, loop, qbar, shown, life, told, faults>>

\* The backfill of a restarted ingestor announces bars it announced before.
Reannounce(b) ==
    /\ b <= newest /\ Fault /\ CacheBar(b) /\ Announce(b)
    /\ UNCHANGED <<market, wpc, wbatch, store, loop, qbar, shown, life, told>>

\* flush_event_batch takes what is queued ...
WriterTakes ==
    /\ wpc = "run" /\ wbatch = <<>> /\ writeQ # <<>>
    /\ wbatch' = writeQ /\ writeQ' = <<>>
    /\ UNCHANGED <<market, cache, wpc, store, loop, qbar, shown, life, told, faults>>

\* ... and publish_events_batch inserts it, ignoring known bars, or fails and
\* the batch is gone.
WriterFlushes ==
    /\ wbatch # <<>> /\ wbatch' = <<>>
    /\ \/ /\ row' = [b \in Bars |-> IF b \in ToSet(wbatch) /\ row[b] = "none"
                                    THEN "pending" ELSE row[b]]
          /\ UNCHANGED faults
       \/ Fault /\ UNCHANGED row
    /\ UNCHANGED <<market, cache, writeQ, wpc, tries, loop, qbar, shown, life, told>>

\* After the stop event the writer drains the queue and ends.
WriterEnds ==
    /\ wpc = "run" /\ stop /\ writeQ = <<>> /\ wbatch = <<>> /\ wpc' = "none"
    /\ UNCHANGED <<market, cache, writeQ, wbatch, store, loop, qbar, shown, life, told, faults>>

(* ------------------------------ event loop ------------------------------ *)

\* Plausible bug: the claim only leaves out events that failed for good.
PendingNotFailed == {b \in Bars : row[b] \in {"pending", "completed"}}

\* Plausible bug: an event that failed once is not claimed again.
PendingFresh == {b \in Bars : row[b] = "pending" /\ tries[b] = 0}

Pending == {b \in Bars : row[b] = "pending"}

\* ORDER BY retry_count, bar_time
Before(a, b) == tries[a] < tries[b] \/ (tries[a] = tries[b] /\ a < b)

Claimed ==
    {b \in Pending : Cardinality({a \in Pending : Before(a, b)}) < ClaimLimit}

InOrder(bars) ==
    {s \in [1..Cardinality(bars) -> bars] :
        ToSet(s) = bars /\ \A i, j \in DOMAIN s : i < j => s[i] < s[j]}

\* claim_next_events; the handler then sorts the batch by bar.
Claim ==
    /\ pc = "idle" /\ ~stop /\ Pending # {}
    /\ row' = [b \in Bars |-> IF b \in Claimed THEN "processing" ELSE row[b]]
    /\ group' \in InOrder(Claimed) /\ batch' = group' /\ pc' = "window"
    /\ UNCHANGED <<market, cache, writer, tries, rbar, qbar, shown, life, told, faults>>

\* process_symbol_timeframe_batch loads the bars up to the last one of the
\* group; what the cache lacks comes from the OHLC table and stays in the
\* cache, unless the table cannot be read. Any other error before the loop
\* over the events fails the group.
Window ==
    /\ pc = "window"
    /\ \/ pc' = "each" /\ UNCHANGED <<cache, faults>>
       \/ /\ pc' = "each" /\ depth' = Lookback /\ UNCHANGED faults
          /\ \E b \in ToSet(group) : /\ \A c \in ToSet(group) : c <= b
                                    /\ top' = (IF top < b THEN b ELSE top)
       \/ Fault /\ pc' = "failAll" /\ UNCHANGED cache
    /\ UNCHANGED <<market, writer, store, batch, group, rbar, qbar, shown, life, told>>

\* mark_event_completed_by_id only touches a row in processing.
MarkDone(b, s) == row' = [row EXCEPT ![b] = IF @ = "processing" THEN s ELSE @]

\* Plausible bug: the event is settled before its results are written back.
EachMarksFirst ==
    /\ pc = "each" /\ batch # <<>>
    /\ MarkDone(Head(batch), "completed") /\ pc' = "publish"
    /\ UNCHANGED <<market, cache, writer, tries, batch, group, rbar, qbar, shown, life,
                   told, faults>>

\* One event: a bar without data or history is skipped; a computed one is
\* written back; an error fails the event.
Each ==
    /\ pc = "each" /\ batch # <<>>
    /\ \/ /\ MarkDone(Head(batch), "skipped") /\ batch' = Tail(batch)
          /\ UNCHANGED <<pc, faults>>
       \/ pc' = "publish" /\ UNCHANGED <<row, batch, faults>>
       \/ Fault /\ pc' = "fail" /\ UNCHANGED <<row, batch>>
    /\ UNCHANGED <<market, cache, writer, tries, group, rbar, qbar, shown, life, told>>

\* write_back_results: store_results, then the listeners. Without a numeric
\* value, because the bar has none or because every indicator failed (the
\* pipeline turns their errors into None), nothing is stored or published and
\* the event is marked all the same. An error in between fails the event.
WriteBack ==
    /\ pc = "publish"
    /\ \/ /\ Head(batch) \notin blank /\ results' = Head(batch) /\ last' = Head(batch)
          /\ published' = [published EXCEPT ![Head(batch)] = @ + 1]
          /\ pc' = "mark" /\ UNCHANGED <<mute, faults>>
       \/ /\ Head(batch) \in blank /\ pc' = "mark" /\ UNCHANGED <<shown, told, faults>>
       \/ /\ Fault /\ mute' = mute \cup {Head(batch)} /\ pc' = "mark"
          /\ UNCHANGED <<shown, published>>
       \/ /\ Fault /\ pc' = "fail" /\ results' \in {results, Head(batch)}
          /\ UNCHANGED <<last, told>>
    /\ UNCHANGED <<market, cache, writer, store, batch, group, rbar, qbar, life>>

\* An error here is handled like any other: the event is failed and retried.
MarkCompleted ==
    /\ pc = "mark"
    /\ \/ /\ MarkDone(Head(batch), "completed") /\ batch' = Tail(batch)
          /\ pc' = "each" /\ UNCHANGED faults
       \/ Fault /\ pc' = "fail" /\ UNCHANGED <<row, batch>>
    /\ UNCHANGED <<market, cache, writer, tries, group, rbar, qbar, shown, life, told>>

\* mark_event_failed_by_id, whatever the row says.
MarkFailed(b) ==
    /\ tries' = [tries EXCEPT ![b] = @ + 1]
    /\ row' = [row EXCEPT ![b] = IF tries[b] + 1 >= MaxRetries THEN "failed" ELSE "pending"]

\* The except branch of one event; when it raises itself, the whole group is
\* failed by process_closed_bar_events_batch.
Fail ==
    /\ pc = "fail"
    /\ \/ /\ MarkFailed(Head(batch)) /\ batch' = Tail(batch) /\ pc' = "each"
          /\ UNCHANGED faults
       \/ Fault /\ batch' = group /\ pc' = "failAll" /\ UNCHANGED store
    /\ UNCHANGED <<market, cache, writer, group, rbar, qbar, shown, life, told>>

\* An error in the group handler ends the thread, and with it the process
\* (_on_thread_crash): that is Crash.
FailAll ==
    /\ pc = "failAll" /\ batch # <<>>
    /\ MarkFailed(Head(batch)) /\ batch' = Tail(batch)
    /\ UNCHANGED <<market, cache, writer, pc, group, rbar, qbar, shown, life, told, faults>>

EndBatch ==
    /\ pc \in {"each", "failAll"} /\ batch = <<>>
    /\ pc' = "after" /\ group' = <<>>
    /\ UNCHANGED <<market, cache, writer, store, batch, rbar, qbar, shown, life, told, faults>>

\* cleanup_old_events, once a day, before the reconcile pass.
Cleanup ==
    /\ pc = "after"
    /\ \E b \in Bars : row[b] \in Settled /\ b + Keep < newest
    /\ LET old == {b \in Bars : row[b] \in Settled /\ b + Keep < newest} IN
       /\ row' = [b \in Bars |-> IF b \in old THEN "none" ELSE row[b]]
       /\ tries' = [b \in Bars |-> IF b \in old THEN 0 ELSE tries[b]]
    /\ UNCHANGED <<market, cache, writer, loop, qbar, shown, life, told, faults>>

\* Not yet time to reconcile, or the target is not ready.
NextIteration ==
    /\ pc = "after" /\ pc' = "idle"
    /\ UNCHANGED <<market, cache, writer, store, batch, group, rbar, qbar, shown, life,
                   told, faults>>

(* ------------------- the newest bar, without an event ------------------- *)

\* get_ohlc_closed: a deep enough cache is taken as it is, although it may end
\* before the newest bar; otherwise the OHLC table is merged in, as far as its
\* rows are written.
LoadClosed(b) ==
    \/ depth >= Lookback /\ b = top /\ UNCHANGED cache
    \/ /\ depth < Lookback /\ b \in top..newest /\ b > 0
       /\ top' = b /\ depth' \in {depth, Lookback}

\* compute and write_back_results for it, as in WriteBack.
ShowClosed(b) ==
    \/ b \notin blank /\ results' = b /\ last' = b /\ UNCHANGED faults
    \/ b \in blank /\ UNCHANGED <<shown, faults>>
    \/ Fault /\ results' \in {results, b} /\ UNCHANGED last

\* reconcile_all, when is_reconcile_target_ready: load ...
ReconcileLoads ==
    /\ pc = "after" \/ (pc = "idle" /\ Pending = {} /\ ~stop)
    /\ depth >= ReadyBars /\ \E b \in Bars : LoadClosed(b) /\ rbar' = b
    /\ pc' = "reconcile"
    /\ UNCHANGED <<market, writer, store, batch, group, qbar, shown, life, told, faults>>

\* Plausible bug: an older result is kept because it is there.
ReconcileKeepsResults ==
    /\ pc = "reconcile" /\ pc' = "idle" /\ rbar' = 0
    /\ results' = IF results = 0 THEN rbar ELSE results
    /\ last' = results'
    /\ UNCHANGED <<market, cache, writer, store, batch, group, qbar, life, told, faults>>

\* ... compute, store and publish, on every pass; an error is logged.
ReconcileWrites ==
    /\ pc = "reconcile" /\ pc' = "idle" /\ rbar' = 0 /\ ShowClosed(rbar)
    /\ UNCHANGED <<market, cache, writer, store, batch, group, qbar, life, told>>

\* POST compute and the consistency check do the same on a thread of the API,
\* the former without looking whether the target is ready.
QueryLoads ==
    /\ pc # "none" /\ qbar = 0
    /\ \E b \in Bars : LoadClosed(b) /\ qbar' = b
    /\ UNCHANGED <<market, writer, store, loop, shown, life, told, faults>>

QueryWrites ==
    /\ qbar # 0 /\ qbar' = 0 /\ ShowClosed(qbar)
    /\ UNCHANGED <<market, cache, writer, store, loop, life, told>>

(* ------------------------------- lifecycle ------------------------------ *)

LoopEnds ==
    /\ pc = "idle" /\ stop /\ pc' = "none"
    /\ UNCHANGED <<market, cache, writer, store, batch, group, rbar, qbar, shown, life,
                   told, faults>>

\* stop(): the sink is taken away only after the joins, which may time out.
Stop ==
    /\ pc # "none" /\ ~stop /\ Fault /\ stop' = TRUE /\ joining' = TRUE
    /\ UNCHANGED <<market, cache, writer, store, loop, qbar, shown, sink, told>>

StopDetaches ==
    /\ joining /\ joining' = FALSE /\ sink' = FALSE
    /\ UNCHANGED <<market, cache, writer, store, loop, qbar, shown, stop, told, faults>>

\* reset_processing_events
ResetProcessing == [b \in Bars |-> IF row[b] = "processing" THEN "pending" ELSE row[b]]

\* start(), refused while a thread of the previous round is alive.
Start ==
    /\ pc = "none" /\ wpc = "none" /\ ~joining
    /\ pc' = "idle" /\ wpc' = "run" /\ stop' = FALSE /\ sink' = TRUE
    /\ row' = ResetProcessing
    /\ UNCHANGED <<market, cache, writeQ, wbatch, tries, batch, group, rbar, qbar, shown,
                   joining, told, faults>>

\* The process dies, or a thread of the manager does and takes it down; its
\* market cache is filled again from the next bar on.
Crash ==
    /\ pc # "none" /\ Fault
    /\ top' = 0 /\ depth' = 0 /\ writeQ' = <<>> /\ wpc' = "none" /\ wbatch' = <<>>
    /\ pc' = "none" /\ batch' = <<>> /\ group' = <<>> /\ rbar' = 0 /\ qbar' = 0
    /\ results' = 0 /\ last' = 0
    /\ stop' = FALSE /\ joining' = FALSE /\ sink' = FALSE
    /\ UNCHANGED <<market, store, told>>

Writer == WriterTakes \/ WriterFlushes \/ WriterEnds
EventLoop ==
    \/ Claim \/ Window \/ Each \/ WriteBack \/ MarkCompleted \/ Fail \/ FailAll \/ EndBatch
    \/ NextIteration \/ ReconcileLoads \/ ReconcileWrites \/ LoopEnds

Next ==
    \/ CloseBar \/ \E b \in Bars : Reannounce(b)
    \/ Writer \/ EventLoop \/ Cleanup \/ QueryLoads \/ QueryWrites
    \/ Stop \/ StopDetaches \/ Start \/ Crash

Spec == Init /\ [][Next]_vars

\* Both loops run until stopped, joins time out, a dead process is restarted
\* by its supervisor.
FairSpec ==
    /\ Spec /\ WF_vars(Writer) /\ WF_vars(EventLoop)
    /\ WF_vars(StopDetaches) /\ WF_vars(Start)

(* ------------------------------ properties ------------------------------ *)

\* The status of an event is true, whatever failed or was repeated in between:
\* it is completed only when the listeners were given its snapshot or there was
\* nothing to give, for its bar or for one fault each; it has failed for good
\* only after MaxRetries errors; and while the loop runs an event in processing
\* is in the batch in hand, so that no error path leaves a claimed event nobody
\* will settle (bar_event_handler.py, event_store.py).
StatusesAreTrue ==
    /\ TypeOK
    /\ \A b \in Bars : row[b] = "completed" => published[b] > 0 \/ b \in blank \cup mute
    /\ Cardinality(mute) <= faults
    /\ \A b \in Bars : row[b] = "failed" => tries[b] >= MaxRetries
    /\ pc # "none" => \A b \in Bars : row[b] = "processing" => b \in ToSet(batch)

\* The event path hands a bar to the listeners again only for a fault: a crash,
\* error, stop or repeated announcement costs at most one repetition of a bar,
\* also when the failed group contained events that were completed. (Reconcile
\* passes and requests repeat the newest bar without limit.)
RepeatsAreCaused == \A b \in Bars : published[b] <= 1 + faults

\* Every stored event is settled in the end.
EventsSettle == \A b \in Bars : row[b] = "pending" ~> row[b] \in Settled \cup {"none"}

\* The cache is ready and ends with the newest bar, which has values.
Served(b) == newest = b /\ top = b /\ depth >= ReadyBars /\ b \notin blank

\* The results shown, and the last snapshot given to the listeners, are those of
\* the newest bar in the end, also when its event was dropped, an older event
\* was retried after it or a slow request wrote an older bar over it, as long
\* as the reconcile pass is ready and finds the bar (reconcile_all).
ResultsCatchUp ==
    \A b \in Bars : Served(b) ~> (results = b /\ last = b) \/ ~Served(b)
=============================================================================
