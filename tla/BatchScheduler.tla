--------------------------- MODULE BatchScheduler ---------------------------
(***************************************************************************)
(* BatchScheduler of packages/ledger/src/scheduler.js: batches wait in a   *)
(* queue, workers publish them one after the other, and a publication that *)
(* fails is paused and retried by a timer.                                 *)
(*                                                                         *)
(* A worker runs without interruption from one await to the next, so it is *)
(* either asleep between two rounds (0.1 s or 1 s, no matter which) or in  *)
(* publishBatchAnchor.  Queue items are objects that workers and timers    *)
(* hold on to after the queue has let go of them: here they are positions  *)
(* in `items`, never reused, and the queue is a sequence of positions.     *)
(***************************************************************************)
EXTENDS Integers, Sequences, FiniteSets, SequencesExt

CONSTANTS
  Batches,       \* the batch ids callers may schedule
  Known,         \* those among them the ledger has stored
  Null,          \* null
  Concurrency,   \* the argument of start()
  MaxRetries,    \* config.maxRetries
  MaxQueueSize,  \* config.maxQueueSize
  Calls,         \* the optional calls that are made, a subset of CallKinds
  MaxItems,      \* bound: queue items ever created
  MaxWorkers     \* bound: workers ever started

CallKinds == {"stop",    \* stop(), and start() again after it
              "clear"}   \* clear()

ItemStates == {"pending", "publishing", "published", "failed", "paused"}
RetryInfo == [count : 1 .. MaxRetries, due : BOOLEAN]

ASSUME SchedulerAssumption ==
  /\ Known \subseteq Batches /\ Null \notin Batches \cup ItemStates \cup RetryInfo
  /\ {Concurrency, MaxRetries, MaxQueueSize, MaxItems, MaxWorkers} \subseteq Nat \ {0}
  /\ Calls \subseteq CallKinds

VARIABLES
  processing,  \* #processing
  queue,       \* #queue, positions in items
  items,       \* every item ever queued
  state,       \* #stateMap
  retry,       \* #retryMap: failures so far, and whether nextRetryAt has come
  timers,      \* the items whose retry timer is armed
  workers,     \* the workers ever started, and what each one awaits
  attempts,    \* how often publishBatchAnchor has been called for a batch
  stored,      \* the batches the ledger holds a publication of
  cleared      \* clear() has been called

table == <<queue, items, state, retry, timers>>
ledger == <<attempts, stored>>
vars == <<processing, table, workers, ledger, cleared>>

Sleeping == [at |-> "sleep", item |-> 0]
Publishing(i) == [at |-> "publish", item |-> i]
Ended == [at |-> "ended", item |-> 0]

BatchOf(i) == items[i].batch
Queued(b) == \E k \in DOMAIN queue : BatchOf(queue[k]) = b

WithState(i, s) == [items EXCEPT ![i].state = s]

-----------------------------------------------------------------------------
\* schedule(batchId): a batch that is queued already is left as it is, and
\* when the queue is full the call throws.
Schedule(b) ==
  /\ \/ /\ Queued(b)
        /\ UNCHANGED <<queue, items, state>>
     \/ /\ ~ Queued(b)
        /\ Len(queue) < MaxQueueSize
        /\ Len(items) < MaxItems
        /\ items' = Append(items, [batch |-> b, state |-> "pending"])
        /\ queue' = Append(queue, Len(items) + 1)
        /\ state' = [state EXCEPT ![b] = "pending"]
  /\ UNCHANGED <<processing, retry, timers, workers, ledger, cleared>>

MutantWaitsAny(i) == items[i].state \in {"pending", "publishing"}

\* What a worker looks for: an item that waits, and whose retry time, when it
\* has one, has come.
Waits(i) ==
  /\ items[i].state = "pending"
  /\ retry[BatchOf(i)] # Null => retry[BatchOf(i)].due

\* What the nth of the workers finds that look one after the other, in queue
\* order: one item or none.
Found(n) ==
  LET waiting == {k \in DOMAIN queue : Waits(queue[k])}
      Rank(k) == Cardinality({j \in waiting : j <= k})
  IN  {queue[k] : k \in {j \in waiting : Rank(j) = n}}

\* The items in I are marked and publishBatchAnchor is called for them.
Take(I) ==
  LET taken == {BatchOf(i) : i \in I}
  IN  /\ items' = [i \in DOMAIN items |->
                     IF i \in I THEN [items[i] EXCEPT !.state = "publishing"] ELSE items[i]]
      /\ state' = [b \in Batches |-> IF b \in taken THEN "publishing" ELSE state[b]]
      /\ attempts' = [b \in Batches |-> IF b \in taken THEN attempts[b] + 1 ELSE attempts[b]]

\* start(Concurrency): every new worker runs up to its first await at once,
\* so the first ready items are taken.
Start ==
  /\ ~ processing
  /\ workers # <<>> => "stop" \in Calls
  /\ Len(workers) + Concurrency <= MaxWorkers
  /\ processing' = TRUE
  /\ LET New(n) == IF Found(n) = {} THEN Sleeping ELSE Publishing(CHOOSE i \in Found(n) : TRUE)
     IN  workers' = workers \o [n \in 1 .. Concurrency |-> New(n)]
  /\ Take(UNION {Found(n) : n \in 1 .. Concurrency})
  /\ UNCHANGED <<queue, retry, timers, stored, cleared>>

Stop ==
  /\ "stop" \in Calls
  /\ processing
  /\ processing' = FALSE
  /\ UNCHANGED <<table, workers, ledger, cleared>>

Clear ==
  /\ "clear" \in Calls
  /\ queue # <<>>
  /\ queue' = <<>>
  /\ retry' = [b \in Batches |-> Null]
  /\ state' = [b \in Batches |-> Null]
  /\ cleared' = TRUE
  /\ UNCHANGED <<processing, items, timers, workers, ledger>>

-----------------------------------------------------------------------------
\* A sleeping worker is woken: the loop condition, then the next item.
WorkerWakes(w) ==
  /\ workers[w] = Sleeping
  /\ \/ /\ ~ processing
        /\ workers' = [workers EXCEPT ![w] = Ended]
        /\ UNCHANGED <<table, ledger>>
     \/ /\ processing
        /\ \E i \in Found(1) :
             /\ workers' = [workers EXCEPT ![w] = Publishing(i)]
             /\ Take({i})
        /\ UNCHANGED <<queue, retry, timers, stored>>
  /\ UNCHANGED <<processing, cleared>>

MutantStateMapKept(w) ==
  /\ workers[w].at = "publish"
  /\ LET i == workers[w].item
         b == BatchOf(i)
     IN  /\ stored' = IF b \in Known THEN stored \cup {b} ELSE stored
         /\ items' = WithState(i, "published")
         /\ retry' = [retry EXCEPT ![b] = Null]
  /\ workers' = [workers EXCEPT ![w] = Sleeping]
  /\ UNCHANGED <<processing, queue, state, timers, attempts, cleared>>

\* publishBatchAnchor resolves: with the updated batch, or with null when the
\* ledger has no such batch.  The worker does not tell these apart.
PublishResolves(w) ==
  /\ workers[w].at = "publish"
  /\ LET i == workers[w].item
         b == BatchOf(i)
     IN  /\ stored' = IF b \in Known THEN stored \cup {b} ELSE stored
         /\ items' = WithState(i, "published")
         /\ state' = [state EXCEPT ![b] = "published"]
         /\ retry' = [retry EXCEPT ![b] = Null]
  /\ workers' = [workers EXCEPT ![w] = Sleeping]
  /\ UNCHANGED <<processing, queue, timers, attempts, cleared>>

\* The failures counted so far.
Failures(b) == IF retry[b] = Null THEN 0 ELSE retry[b].count

MutantForgetTimer(i, count) ==
  /\ items' = WithState(i, "paused")
  /\ state' = [state EXCEPT ![BatchOf(i)] = "paused"]
  /\ retry' = [retry EXCEPT ![BatchOf(i)] = [count |-> count, due |-> FALSE]]
  /\ UNCHANGED timers

\* Item i is set aside until its timer fires.
Pause(i, count) ==
  /\ items' = WithState(i, "paused")
  /\ state' = [state EXCEPT ![BatchOf(i)] = "paused"]
  /\ retry' = [retry EXCEPT ![BatchOf(i)] = [count |-> count, due |-> FALSE]]
  /\ timers' = timers \cup {i}

MutantRetryOnceMore(w) ==
  /\ workers[w].at = "publish"
  /\ LET i == workers[w].item
         b == BatchOf(i)
         retryCount == Failures(b) + 1
     IN  \/ /\ retryCount > MaxRetries
            /\ items' = WithState(i, "failed")
            /\ state' = [state EXCEPT ![b] = "failed"]
            /\ retry' = [retry EXCEPT ![b] = Null]
            /\ UNCHANGED timers
         \/ /\ retryCount <= MaxRetries
            /\ Pause(i, retryCount)
  /\ workers' = [workers EXCEPT ![w] = Sleeping]
  /\ UNCHANGED <<processing, queue, ledger, cleared>>

\* publishBatchAnchor rejects.
PublishRejects(w) ==
  /\ workers[w].at = "publish"
  /\ LET i == workers[w].item
         b == BatchOf(i)
         retryCount == Failures(b) + 1
     IN  \/ /\ retryCount >= MaxRetries
            /\ items' = WithState(i, "failed")
            /\ state' = [state EXCEPT ![b] = "failed"]
            /\ retry' = [retry EXCEPT ![b] = Null]
            /\ UNCHANGED timers
         \/ /\ retryCount < MaxRetries
            /\ Pause(i, retryCount)
  /\ workers' = [workers EXCEPT ![w] = Sleeping]
  /\ UNCHANGED <<processing, queue, ledger, cleared>>

MutantTimerSkipsItem(i) ==
  /\ i \in timers
  /\ timers' = timers \ {i}
  /\ IF processing /\ state[BatchOf(i)] = "paused"
       THEN state' = [state EXCEPT ![BatchOf(i)] = "pending"]
       ELSE UNCHANGED state
  /\ UNCHANGED <<processing, queue, items, retry, workers, ledger, cleared>>

\* The timer set for item i fires.
TimerFires(i) ==
  /\ i \in timers
  /\ timers' = timers \ {i}
  /\ IF processing /\ state[BatchOf(i)] = "paused"
       THEN /\ items' = WithState(i, "pending")
            /\ state' = [state EXCEPT ![BatchOf(i)] = "pending"]
       ELSE UNCHANGED <<items, state>>
  /\ UNCHANGED <<processing, queue, retry, workers, ledger, cleared>>

\* The clock passes nextRetryAt, shortly before or after the timer fires.
RetryTimeComes(b) ==
  /\ retry[b] # Null
  /\ ~ retry[b].due
  /\ retry' = [retry EXCEPT ![b].due = TRUE]
  /\ UNCHANGED <<processing, queue, items, state, timers, workers, ledger, cleared>>

-----------------------------------------------------------------------------
Init ==
  /\ processing = FALSE
  /\ queue = <<>>
  /\ items = <<>>
  /\ state = [b \in Batches |-> Null]
  /\ retry = [b \in Batches |-> Null]
  /\ timers = {}
  /\ workers = <<>>
  /\ attempts = [b \in Batches |-> 0]
  /\ stored = {}
  /\ cleared = FALSE

WorkerSteps(w) == WorkerWakes(w) \/ PublishResolves(w) \/ PublishRejects(w)

Next ==
  \/ \E b \in Batches : Schedule(b) \/ RetryTimeComes(b)
  \/ Start \/ Stop \/ Clear
  \/ \E w \in DOMAIN workers : WorkerSteps(w)
  \/ \E i \in timers : TimerFires(i)

Spec == Init /\ [][Next]_vars

\* The event loop: timers fire, clocks advance, and a publication that has
\* been asked for settles one way or the other.
Fairness ==
  /\ \A w \in 1 .. MaxWorkers : WF_vars(w \in DOMAIN workers /\ WorkerSteps(w))
  /\ \A i \in 1 .. MaxItems : WF_vars(TimerFires(i))
  /\ \A b \in Batches : WF_vars(RetryTimeComes(b))

FairSpec == Spec /\ WF_vars(Start) /\ Fairness

-----------------------------------------------------------------------------
Item == [batch : Batches, state : ItemStates]
Worker == [at : {"sleep", "publish", "ended"}, item : DOMAIN items \cup {0}]

TypeOK ==
  /\ processing \in BOOLEAN
  /\ items \in Seq(Item)
  /\ queue \in Seq(DOMAIN items)
  /\ state \in [Batches -> ItemStates \cup {Null}]
  /\ retry \in [Batches -> RetryInfo \cup {Null}]
  /\ timers \subseteq DOMAIN items
  /\ workers \in Seq(Worker)
  /\ attempts \in [Batches -> Nat]
  /\ stored \subseteq Known
  /\ cleared \in BOOLEAN

Publishers == {w \in DOMAIN workers : workers[w].at = "publish"}

\* clear() has taken the worker's item out of the queue.
Dropped(w) == workers[w].item \notin ToSet(queue)

\* No two workers publish one batch at once, whatever is stopped and started
\* meanwhile, unless clear() was called and has dropped the item of one of them:
\* then the batch can be scheduled anew and published a second time.
OnePublisherPerBatch ==
  \A v, w \in Publishers :
    v # w /\ BatchOf(workers[v].item) = BatchOf(workers[w].item)
      => cleared /\ (Dropped(v) \/ Dropped(w))

\* getStatus, which reads the items, and getState, which reads the state map,
\* tell the same story about every queued batch, over stops and starts, until
\* clear() leaves workers and timers with items the queue no longer has.
StatesAgree ==
  ~ cleared => \A k \in DOMAIN queue : state[BatchOf(queue[k])] = items[queue[k]].state

\* However often the scheduler is stopped and started, a batch is given up
\* after exactly MaxRetries attempts and never tried more often than that,
\* as long as clear() does not wipe the count.
AttemptsBounded ==
  ~ cleared =>
    \A b \in Batches :
      /\ attempts[b] <= MaxRetries
      /\ state[b] = "failed" => attempts[b] = MaxRetries

\* A publication the ledger has stored is reported as published, until
\* clear() forgets it.
StoredIsReported == ~ cleared => \A b \in stored : state[b] = "published"

Settled(i) == items[i].state \in {"published", "failed"}

\* The timer of item i has fired while the scheduler was stopped.
Stranded(i) ==
  Len(workers) > Concurrency /\ items[i].state = "paused" /\ i \notin timers

\* Stopped for the last time that MaxWorkers allows.
Off == ~ processing /\ Len(workers) + Concurrency > MaxWorkers

\* Every item is published or given up in the end, also where the scheduler is
\* stopped and started meanwhile, unless it stays off, clear() is called, or
\* the item's timer fires while it is stopped.
EventuallySettled ==
  \A i \in 1 .. MaxItems :
    i \in DOMAIN items
      ~> cleared \/ Off \/ (i \in DOMAIN items /\ (Settled(i) \/ Stranded(i)))

\* While the scheduler runs, a paused item of the queue is resumed.
PausedIsResumed ==
  \A i \in 1 .. MaxItems :
    LET Stuck == i \in ToSet(queue) /\ items[i].state = "paused" /\ processing
    IN  Stuck ~> ~ Stuck
=============================================================================
