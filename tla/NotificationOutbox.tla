-------------------------- MODULE NotificationOutbox --------------------------
(***************************************************************************)
(* Notifications: submit() deduplicates, rate-limits and stores an event   *)
(* as an outbox row; a worker thread sends the due rows through Telegram,  *)
(* retries and dead-letters them. An operator switches the module off and  *)
(* on while a slow send outlives the join of the worker.                   *)
(***************************************************************************)
EXTENDS Integers, Sequences, FiniteSets, SequencesExt

CONSTANTS
    Notes,       \* notification events, each submitted at most once
    Keys,        \* dedup keys
    KeyOf,       \* dedup key of each event
    Critical,    \* keys of critical severity: a key never changes its severity
    Ttl,         \* dedup TTL, in ticks
    Burst,       \* capacity of the rate limiter
    MaxAttempts, \* max_retry_attempts
    MaxWait,     \* longest backoff or retry_after, in ticks
    BatchSize,   \* worker_batch_size
    Workers,     \* identities of worker threads
    MaxFaults,   \* crashes, errors and lost answers
    MaxToggles,  \* times the operator switches the module off
    None

Verdicts == {"new", "queued", "suppressed", "dropped", "failed"}
Answers == {"ok", "retry", "refused"}

ASSUME OutboxAssumption ==
    /\ KeyOf \in [Notes -> Keys] /\ Critical \subseteq Keys
    /\ Ttl \in Nat /\ Burst \in Nat \ {0} /\ MaxAttempts \in Nat \ {0} /\ MaxWait \in Nat
    /\ BatchSize \in Nat \ {0} /\ MaxFaults \in Nat /\ MaxToggles \in Nat
    /\ Workers # {} /\ None \notin Workers \cup Answers

VARIABLES
    verdict,     \* what submit() did with each event
    rows,        \* outbox ids, in the order of their insertion
    status, attempts, wait,     \* of each row; ticks until next_retry_at
    quiet,       \* ticks a dedup key still suppresses, in memory
    tokens,      \* rate limiter: the tighter of its two buckets
    pc, batch, result,          \* workers: entries left, answer to the first
    stop,        \* _stop_event of the dispatcher
    ref,         \* _worker_thread
    started, joining,           \* of the module; stop() waits for the worker
    delivered,   \* history: messages that reached the chat, of each event
    faults, toggles

memory == <<quiet, tokens>>
outbox == <<rows, status, attempts, wait>>
threads == <<pc, batch, result>>
life == <<stop, ref, started, joining>>
history == <<delivered, toggles>>
vars == <<verdict, outbox, memory, threads, life, history, faults>>

TypeOK ==
    /\ verdict \in [Notes -> Verdicts] /\ rows \in Seq(Notes) /\ IsInjective(rows)
    /\ status \in [Notes -> {"none", "pending", "sent", "dlq", "purged"}]
    /\ \A n \in Notes : status[n] = "none" <=> verdict[n] # "queued"
    /\ attempts \in [Notes -> 0..MaxAttempts] /\ wait \in [Notes -> 0..MaxWait]
    /\ quiet \in [Keys -> 0..Ttl] /\ tokens \in 0..Burst
    /\ pc \in [Workers -> {"none", "idle", "send", "mark"}]
    /\ batch \in [Workers -> Seq(Notes \X (0..MaxAttempts))]
    /\ result \in [Workers -> Answers \cup {None}]
    /\ \A w \in Workers :
          /\ pc[w] \in {"send", "mark"} <=> batch[w] # <<>>
          /\ pc[w] = "mark" <=> result[w] # None
    /\ stop \in BOOLEAN /\ started \in BOOLEAN /\ joining \in BOOLEAN
    /\ ref \in Workers \cup {None}
    /\ delivered \in [Notes -> Nat] /\ faults \in 0..MaxFaults /\ toggles \in 0..MaxToggles

Init ==
    /\ verdict = [n \in Notes |-> "new"] /\ rows = <<>>
    /\ status = [n \in Notes |-> "none"]
    /\ attempts = [n \in Notes |-> 0] /\ wait = [n \in Notes |-> 0]
    /\ quiet = [k \in Keys |-> 0] /\ tokens = Burst
    /\ pc = [w \in Workers |-> "none"] /\ batch = [w \in Workers |-> <<>>]
    /\ result = [w \in Workers |-> None]
    /\ stop = FALSE /\ ref = None /\ started = FALSE /\ joining = FALSE
    /\ delivered = [n \in Notes |-> 0] /\ faults = 0 /\ toggles = 0

Fault == faults < MaxFaults /\ faults' = faults + 1

Alive == {w \in Workers : pc[w] # "none"}

(* -------------------------------- submit() ------------------------------ *)

\* Time passes: TTLs and backoffs run down, the buckets refill.
Tick ==
    /\ \/ \E n \in Notes : wait[n] > 0
       \/ \E k \in Keys : quiet[k] > 0
       \/ tokens < Burst
    /\ wait' = [n \in Notes |-> IF wait[n] > 0 THEN wait[n] - 1 ELSE 0]
    /\ quiet' = [k \in Keys |-> IF quiet[k] > 0 THEN quiet[k] - 1 ELSE 0]
    /\ tokens' = IF tokens < Burst THEN tokens + 1 ELSE Burst
    /\ UNCHANGED <<verdict, rows, status, attempts, threads, life, history, faults>>

Suppress(n) ==
    /\ quiet[KeyOf[n]] > 0
    /\ verdict' = [verdict EXCEPT ![n] = "suppressed"]
    /\ UNCHANGED <<outbox, memory, faults>>

\* The dedup key is recorded before anything else can go wrong.
Record(n) ==
    /\ quiet[KeyOf[n]] = 0
    /\ quiet' = [quiet EXCEPT ![KeyOf[n]] = Ttl]
    /\ tokens' = IF tokens > 0 THEN tokens - 1 ELSE 0

\* Plausible bug: the rate limit drops critical events as well.
RateLimitedAll(n) == tokens = 0

\* Critical events pass the rate limit.
RateLimited(n) == tokens = 0 /\ KeyOf[n] \notin Critical

Drop(n) ==
    /\ Record(n) /\ RateLimited(n)
    /\ verdict' = [verdict EXCEPT ![n] = "dropped"]
    /\ UNCHANGED <<outbox, faults>>

Enqueue(n) ==
    /\ Record(n) /\ ~RateLimited(n)
    /\ verdict' = [verdict EXCEPT ![n] = "queued"]
    /\ rows' = Append(rows, n) /\ status' = [status EXCEPT ![n] = "pending"]
    /\ UNCHANGED <<attempts, wait, faults>>

\* The template cannot be rendered, or the insert raises into the caller's
\* listener: the event is gone, its key stays recorded.
SubmitFails(n) ==
    /\ Record(n) /\ ~RateLimited(n) /\ Fault
    /\ verdict' = [verdict EXCEPT ![n] = "failed"] /\ UNCHANGED outbox

Submit(n) ==
    /\ verdict[n] = "new"
    /\ Suppress(n) \/ Drop(n) \/ Enqueue(n) \/ SubmitFails(n)
    /\ UNCHANGED <<threads, life, history>>

\* purge_sent_older_than, a job of the scheduler.
Purge(n) ==
    /\ started /\ status[n] = "sent" /\ status' = [status EXCEPT ![n] = "purged"]
    /\ UNCHANGED <<verdict, rows, attempts, wait, memory, threads, life, history, faults>>

(* -------------------------------- worker -------------------------------- *)

\* WHERE status = pending AND next_retry_at <= now, as row ids
Due == {i \in DOMAIN rows : status[rows[i]] = "pending" /\ wait[rows[i]] = 0}

\* LIMIT
Oldest == {i \in Due : Cardinality({j \in Due : j < i}) < BatchSize}

\* ORDER BY id
InOrder(ids) ==
    {s \in [1..Cardinality(ids) -> ids] : \A i, j \in DOMAIN s : i < j => s[i] < s[j]}

\* fetch_due: the oldest rows that are due, with the attempts they have now.
Fetch(w) ==
    /\ pc[w] = "idle" /\ ~stop /\ Due # {}
    /\ \E s \in InOrder(Oldest) :
          batch' = [batch EXCEPT ![w] = [i \in DOMAIN s |-> <<rows[s[i]], attempts[rows[s[i]]]>>]]
    /\ pc' = [pc EXCEPT ![w] = "send"]
    /\ UNCHANGED <<verdict, outbox, memory, result, life, history, faults>>

Current(w) == Head(batch[w])[1]

Answer(w, a) ==
    /\ pc' = [pc EXCEPT ![w] = "mark"] /\ result' = [result EXCEPT ![w] = a]
    /\ UNCHANGED batch

\* An exception leaves drain_once: the rest of the batch waits for the next one.
Abandon(w) ==
    /\ pc' = [pc EXCEPT ![w] = "idle"] /\ batch' = [batch EXCEPT ![w] = <<>>]
    /\ result' = [result EXCEPT ![w] = None]

Reaches(n) == delivered' = [delivered EXCEPT ![n] = @ + 1]

\* The chat has the message and says so, or its answer is lost in a timeout;
\* the message is refused or not accepted now; or send() itself raises.
Send(w) ==
    /\ pc[w] = "send"
    /\ \/ Reaches(Current(w)) /\ Answer(w, "ok") /\ UNCHANGED faults
       \/ Reaches(Current(w)) /\ Answer(w, "retry") /\ Fault
       \/ \E a \in {"retry", "refused"} : Answer(w, a) /\ UNCHANGED <<delivered, faults>>
       \/ Abandon(w) /\ Fault /\ UNCHANGED delivered
    /\ UNCHANGED <<verdict, outbox, memory, life, toggles>>

\* Plausible bug: an event out of attempts is settled like a sent one.
SettledAsSent(n, known, a) == IF a = "retry" /\ known + 1 < MaxAttempts THEN "pending" ELSE "sent"

\* What _deliver makes of the answer; known is the attempt count of the entry.
Settled(n, known, a) ==
    IF a = "ok" THEN "sent"
    ELSE IF a = "refused" \/ known + 1 >= MaxAttempts THEN "dlq"
    ELSE "pending"

\* Plausible bug: a retry does not count as an attempt.
CountedForDlq(n, a) == IF a = "refused" THEN attempts[n] + 1 ELSE attempts[n]

\* mark_failed and mark_dlq count the attempt in the row, mark_sent does not.
Counted(n, a) == IF a = "ok" THEN attempts[n] ELSE attempts[n] + 1

\* mark_sent, mark_dlq or mark_failed; next_retry_at is the backoff or what
\* Telegram asked for, measured from the start of the batch.
Mark(w) ==
    /\ pc[w] = "mark"
    /\ LET n == Current(w)
           s == Settled(n, Head(batch[w])[2], result[w])
       IN  /\ status' = [status EXCEPT ![n] = s]
           /\ attempts' = [attempts EXCEPT ![n] = Counted(n, result[w])]
           /\ \E d \in (IF s = "pending" THEN 0..MaxWait ELSE {0}) : wait' = [wait EXCEPT ![n] = d]
    /\ batch' = [batch EXCEPT ![w] = Tail(@)] /\ result' = [result EXCEPT ![w] = None]
    /\ pc' = [pc EXCEPT ![w] = IF Len(batch[w]) > 1 THEN "send" ELSE "idle"]
    /\ UNCHANGED <<verdict, rows, memory, life, history, faults>>

\* The update of the row raises, whatever the chat answered.
MarkRaises(w) ==
    /\ pc[w] = "mark" /\ Abandon(w) /\ Fault
    /\ UNCHANGED <<verdict, outbox, memory, life, history>>

\* The stop event is only looked at between two batches.
WorkerEnds(w) ==
    /\ pc[w] = "idle" /\ stop /\ pc' = [pc EXCEPT ![w] = "none"]
    /\ UNCHANGED <<verdict, outbox, memory, batch, result, life, history, faults>>

(* ------------------------------- lifecycle ------------------------------ *)

\* NotificationModule.start under its lock. The dispatcher returns early when
\* its worker is alive, and leaves the stop event as it is.
Start ==
    /\ ~started /\ ~joining /\ started' = TRUE
    /\ \/ ref \in Alive /\ UNCHANGED <<stop, ref, pc>>
       \/ /\ ref \notin Alive /\ stop' = FALSE
          /\ ref' = CHOOSE w \in Workers : w \notin Alive
          /\ pc' = [pc EXCEPT ![ref'] = "idle"]
    /\ UNCHANGED <<verdict, outbox, memory, batch, result, joining, history, faults>>

\* set_enabled(False): stop() sets the event and joins the worker ...
Stop ==
    /\ started /\ ~joining /\ toggles < MaxToggles /\ toggles' = toggles + 1
    /\ stop' = TRUE /\ joining' = TRUE
    /\ UNCHANGED <<verdict, outbox, memory, threads, ref, started, delivered, faults>>

\* Plausible bug: stop() forgets a worker that outlived the join.
JoinedForgets == None

\* ... whose reference is kept when it outlived the join.
Joined == IF ref \in Alive THEN ref ELSE None

\* The join ends with the worker, or after 5 seconds of a send that may take 10.
StopReturns ==
    /\ joining /\ joining' = FALSE /\ started' = FALSE
    /\ ref \in Alive => pc[ref] # "idle"
    /\ ref' = Joined
    /\ UNCHANGED <<verdict, outbox, memory, threads, stop, history, faults>>

\* The process dies; a later boot starts the module again.
Crash ==
    /\ started \/ Alive # {}
    /\ Fault
    /\ quiet' = [k \in Keys |-> 0] /\ tokens' = Burst
    /\ pc' = [w \in Workers |-> "none"] /\ batch' = [w \in Workers |-> <<>>]
    /\ result' = [w \in Workers |-> None]
    /\ stop' = FALSE /\ ref' = None /\ started' = FALSE /\ joining' = FALSE
    /\ UNCHANGED <<verdict, outbox, history>>

Worker(w) == Fetch(w) \/ Send(w) \/ Mark(w) \/ MarkRaises(w) \/ WorkerEnds(w)

Next ==
    \/ Tick \/ Start \/ Stop \/ StopReturns \/ Crash
    \/ \E n \in Notes : Submit(n) \/ Purge(n)
    \/ \E w \in Workers : Worker(w)

Spec == Init /\ [][Next]_vars

\* The worker loop, the joins and the clock never stall; nothing makes an
\* event, a toggle or a boot happen.
FairSpec ==
    /\ Spec /\ WF_vars(Tick) /\ WF_vars(StopReturns)
    /\ \A w \in Workers : WF_vars(Worker(w))

(* ------------------------------- properties ----------------------------- *)

\* A message reaches the chat again only because a crash, a lost answer or a
\* failed update hid the first delivery: however often the module is switched
\* off and on during slow sends, two workers never send the same row.
DeliveriesAreCaused == \A n \in Notes : delivered[n] <= 1 + faults

\* A row that says sent, or was purged as sent, is a message the chat has:
\* neither a refused nor an exhausted event leaves the outbox that way.
SentWasDelivered ==
    /\ TypeOK
    /\ \A n \in Notes : status[n] \in {"sent", "purged"} => delivered[n] > 0

\* A critical event is in the outbox, or its key was recorded by an event that
\* is, or that failed to be rendered or stored: the rate limit never loses one,
\* neither directly nor through the key a dropped event left behind.
CriticalsAreQueued ==
    \A n \in Notes :
        KeyOf[n] \in Critical =>
            /\ verdict[n] # "dropped"
            /\ verdict[n] = "suppressed" =>
                  \E m \in Notes : KeyOf[m] = KeyOf[n] /\ verdict[m] \in {"queued", "failed"}

Serving == ~stop /\ ref \in Alive

\* While the worker serves, every pending row is sent or dead-lettered,
\* whatever answers the retries get.
RowsSettle ==
    \A n \in Notes : (status[n] = "pending" /\ Serving) ~> (status[n] # "pending" \/ ~Serving)
=============================================================================
