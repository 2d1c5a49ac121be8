-------------------------- MODULE SchedulerProofs --------------------------
(***************************************************************************)
(* Theorems about BatchScheduler, for any number of batches, workers and   *)
(* retries, stopped, started and cleared at any moment: no queued batch is *)
(* published by two workers at once, and as long as clear() is not called  *)
(* attempts are counted right, what is stored is reported, and getStatus   *)
(* and getState agree.                                                     *)
(***************************************************************************)
EXTENDS BatchScheduler, TLAPS

-----------------------------------------------------------------------------
(* Sequences *)

LEMMA NewSequence ==
  ASSUME NEW n \in Nat, NEW S, NEW s, s = [i \in 1 .. n |-> s[i]], \A i \in 1 .. n : s[i] \in S
  PROVE  s \in Seq(S) /\ Len(s) = n /\ DOMAIN s = 1 .. n
<1>1. s \in [1 .. n -> S]
  OBVIOUS
<1>2. s \in Seq(S)
  BY <1>1
<1>3. QED
  BY <1>1, <1>2

LEMMA EmptySequence ==
  ASSUME NEW S
  PROVE  <<>> \in Seq(S) /\ DOMAIN <<>> = {}
  OBVIOUS

\* A sequence is one over every set its elements are in.
LEMMA SameSequence ==
  ASSUME NEW S, NEW T, NEW s \in Seq(S), \A i \in DOMAIN s : s[i] \in T
  PROVE  s \in Seq(T)
  OBVIOUS

LEMMA Concatenated ==
  ASSUME NEW S, NEW s \in Seq(S), NEW t \in Seq(S)
  PROVE  /\ DOMAIN (s \o t) = 1 .. (Len(s) + Len(t))
         /\ \A i \in DOMAIN s : (s \o t)[i] = s[i]
         /\ \A i \in DOMAIN (s \o t) \ DOMAIN s :
              i - Len(s) \in 1 .. Len(t) /\ (s \o t)[i] = t[i - Len(s)]
  OBVIOUS

-----------------------------------------------------------------------------
(* What every step keeps of the types *)

LEMMA ItemsTyped ==
  ASSUME TypeOK
  PROVE  /\ DOMAIN items = 1 .. Len(items) /\ Len(items) \in Nat
         /\ \A i \in DOMAIN items : items[i] \in Item /\ BatchOf(i) \in Batches
         /\ \A k \in DOMAIN queue : queue[k] \in DOMAIN items
         /\ \A w \in DOMAIN workers : workers[w] \in Worker
<1>1. items \in Seq(Item) /\ queue \in Seq(DOMAIN items) /\ workers \in Seq(Worker)
  BY DEF TypeOK
<1>2. \A i \in DOMAIN items : items[i] \in Item
  BY <1>1
<1>3. \A i \in DOMAIN items : BatchOf(i) \in Batches
  BY <1>2 DEF Item, BatchOf
<1>4. QED
  BY <1>1, <1>2, <1>3

\* Items only change their state, or one is added.
SameItems ==
  /\ items' \in Seq(Item) /\ DOMAIN items' = DOMAIN items
  /\ \A i \in DOMAIN items : items'[i].batch = items[i].batch

LEMMA WithStateTyped ==
  ASSUME TypeOK, NEW i \in DOMAIN items, NEW s \in ItemStates, items' = WithState(i, s)
  PROVE  /\ SameItems /\ items'[i].state = s
         /\ \A j \in DOMAIN items \ {i} : items'[j] = items[j]
<1>1. items \in Seq(Item) /\ items[i] \in Item
  BY DEF TypeOK
<1>2. [items[i] EXCEPT !.state = s] \in Item
  BY <1>1 DEF Item
<1>3. items' = [items EXCEPT ![i] = [items[i] EXCEPT !.state = s]]
  BY DEF WithState
<1>4. items' \in Seq(Item) /\ DOMAIN items' = DOMAIN items
  BY <1>1, <1>2, <1>3
<1>5. items'[i].state = s /\ items'[i].batch = items[i].batch
  BY <1>1, <1>3 DEF Item
<1>6. \A j \in DOMAIN items \ {i} : items'[j] = items[j]
  BY <1>3
<1>7. QED
  BY <1>4, <1>5, <1>6 DEF SameItems

LEMMA FoundIs ==
  ASSUME TypeOK, NEW n, NEW i \in Found(n)
  PROVE  /\ i \in DOMAIN items /\ items[i].state = "pending"
         /\ \E k \in DOMAIN queue : queue[k] = i
  BY ItemsTyped DEF Found, Waits

LEMMA TakeTyped ==
  ASSUME TypeOK, NEW I \in SUBSET DOMAIN items, Take(I)
  PROVE  /\ SameItems
         /\ \A i \in I : items'[i].state = "publishing"
         /\ \A i \in DOMAIN items \ I : items'[i] = items[i]
         /\ state' \in [Batches -> ItemStates \cup {Null}]
         /\ attempts' \in [Batches -> Nat]
<1>1. items' = [i \in DOMAIN items |->
                  IF i \in I THEN [items[i] EXCEPT !.state = "publishing"] ELSE items[i]]
  BY DEF Take
<1>2. \A i \in DOMAIN items : items[i] \in Item /\ [items[i] EXCEPT !.state = "publishing"] \in Item
  BY ItemsTyped DEF Item, ItemStates
<1>3. /\ \A i \in I : items'[i] = [items[i] EXCEPT !.state = "publishing"]
      /\ \A i \in DOMAIN items \ I : items'[i] = items[i]
  BY <1>1
<1>4. \A i \in I : items'[i].state = "publishing" /\ items'[i].batch = items[i].batch
  BY <1>2, <1>3 DEF Item
<1>5. DOMAIN items = 1 .. Len(items) /\ Len(items) \in Nat
  BY ItemsTyped
<1>6. items' \in Seq(Item) /\ DOMAIN items' = DOMAIN items
  <2>1. items' = [i \in 1 .. Len(items) |-> items'[i]]
    BY <1>1, <1>5
  <2>2. \A i \in 1 .. Len(items) : items'[i] \in Item
    BY <1>2, <1>3, <1>5
  <2>3. QED
    BY <1>5, <2>1, <2>2, NewSequence
<1>7. state' \in [Batches -> ItemStates \cup {Null}] /\ attempts' \in [Batches -> Nat]
  BY DEF Take, TypeOK, ItemStates
<1>8. QED
  BY <1>3, <1>4, <1>6, <1>7 DEF SameItems

LEMMA WorkerTyped ==
  ASSUME TypeOK, DOMAIN items' = DOMAIN items, NEW w \in DOMAIN workers, NEW task \in Worker,
         workers' = [workers EXCEPT ![w] = task]
  PROVE  /\ workers' \in Seq(Worker') /\ DOMAIN workers' = DOMAIN workers /\ workers'[w] = task
         /\ \A v \in DOMAIN workers \ {w} : workers'[v] = workers[v]
<1>1. workers \in Seq(Worker)
  BY DEF TypeOK
<1>2. Worker' = Worker
  BY DEF Worker
<1>3. workers' \in Seq(Worker)
  BY <1>1
<1>4. QED
  BY <1>1, <1>2, <1>3

LEMMA QueueTyped ==
  ASSUME TypeOK, DOMAIN items' = DOMAIN items, queue' = queue
  PROVE  queue' \in Seq(DOMAIN items')
  BY DEF TypeOK

-----------------------------------------------------------------------------
(* Who holds which item *)

Busy(w) == workers[w].at = "publish"

\* Workers publish different items, and a timer is armed only for an item that
\* nobody publishes.
HeldInv ==
  /\ \A w \in DOMAIN workers :
       Busy(w) => workers[w].item \in DOMAIN items /\ items[workers[w].item].state = "publishing"
  /\ \A v, w \in DOMAIN workers : Busy(v) /\ Busy(w) /\ workers[v].item = workers[w].item => v = w
  /\ \A i \in timers : items[i].state = "paused"

\* A batch is in the queue once.
QueueInv == \A j, k \in DOMAIN queue : BatchOf(queue[j]) = BatchOf(queue[k]) => j = k

SafeInv == TypeOK /\ HeldInv /\ QueueInv

\* No two workers that look one after the other find the same item.
LEMMA FoundDiffers ==
  ASSUME TypeOK, QueueInv, NEW m, NEW n, NEW i, i \in Found(m), i \in Found(n)
  PROVE  m = n
<1> DEFINE waiting == {k \in DOMAIN queue : Waits(queue[k])}
           Rank(k) == Cardinality({j \in waiting : j <= k})
<1>1. PICK k \in waiting : Rank(k) = m /\ i = queue[k]
  BY DEF Found
<1>2. PICK l \in waiting : Rank(l) = n /\ i = queue[l]
  BY DEF Found
<1>3. k = l
  BY <1>1, <1>2 DEF QueueInv
<1> HIDE DEF Rank, waiting
<1>4. QED
  BY <1>1, <1>2, <1>3

LEMMA QueueKept ==
  ASSUME TypeOK, QueueInv, queue' = queue, SameItems
  PROVE  QueueInv'
  BY ItemsTyped DEF QueueInv, SameItems, BatchOf

\* A worker is through with its item, which may have to wait for a timer.
LEMMA Released ==
  ASSUME TypeOK, HeldInv, NEW w \in DOMAIN workers, Busy(w),
         NEW s \in ItemStates, items' = WithState(workers[w].item, s),
         workers' = [workers EXCEPT ![w] = Sleeping],
         \/ timers' = timers
         \/ s = "paused" /\ timers' = timers \cup {workers[w].item}
  PROVE  /\ workers[w].item \in DOMAIN items /\ SameItems
         /\ workers' \in Seq(Worker') /\ timers' \subseteq DOMAIN items' /\ HeldInv'
<1> DEFINE i == workers[w].item
<1>1. i \in DOMAIN items /\ items[i].state = "publishing"
  BY DEF HeldInv
<1> HIDE DEF i
<1>2. /\ SameItems /\ items'[i].state = s
      /\ \A j \in DOMAIN items \ {i} : items'[j] = items[j]
  BY <1>1, WithStateTyped DEF i
<1>3. Sleeping \in Worker /\ Sleeping.at = "sleep"
  BY DEF Worker, Sleeping
<1>4. /\ workers' \in Seq(Worker') /\ DOMAIN workers' = DOMAIN workers /\ workers'[w] = Sleeping
      /\ \A v \in DOMAIN workers \ {w} : workers'[v] = workers[v]
  BY <1>2, <1>3, WorkerTyped DEF SameItems
<1>5. \A v \in DOMAIN workers : Busy(v)' => v # w /\ Busy(v) /\ workers'[v].item # i
                                             /\ workers'[v].item = workers[v].item
  BY <1>3, <1>4 DEF Busy, HeldInv, i
<1>6. timers \subseteq DOMAIN items /\ i \notin timers
  BY <1>1 DEF TypeOK, HeldInv
<1>7. timers' \subseteq DOMAIN items' /\ \A j \in timers' : items'[j].state = "paused"
  BY <1>1, <1>2, <1>6 DEF SameItems, HeldInv, i
<1>8. HeldInv'
  BY <1>2, <1>4, <1>5, <1>7 DEF HeldInv, SameItems
<1>9. QED
  BY <1>1, <1>2, <1>4, <1>7, <1>8 DEF i

\* Items that have been found are taken, each by one of some workers.
LEMMA Taken ==
  ASSUME TypeOK, HeldInv, NEW I \in SUBSET DOMAIN items, \A i \in I : items[i].state = "pending",
         Take(I), UNCHANGED timers,
         DOMAIN workers \subseteq DOMAIN workers',
         \A v \in DOMAIN workers' :
           \/ v \in DOMAIN workers /\ workers'[v] = workers[v]
           \/ workers'[v] = Sleeping
           \/ \E i \in I : workers'[v] = Publishing(i)
                          /\ \A u \in DOMAIN workers' \ {v} : workers'[u] # Publishing(i)
  PROVE  HeldInv' /\ timers' \subseteq DOMAIN items'
<1>1. /\ SameItems /\ \A i \in I : items'[i].state = "publishing"
      /\ \A i \in DOMAIN items \ I : items'[i] = items[i]
  BY TakeTyped
<1>2. timers \subseteq DOMAIN items /\ \A i \in timers : i \notin I
  BY DEF TypeOK, HeldInv
<1>3. timers' \subseteq DOMAIN items' /\ \A i \in timers' : items'[i].state = "paused"
  BY <1>1, <1>2 DEF SameItems, HeldInv
<1>4. \A v \in DOMAIN workers : workers[v] \in Worker
  BY ItemsTyped
<1>5. ASSUME NEW v \in DOMAIN workers', Busy(v)'
      PROVE  \/ /\ v \in DOMAIN workers /\ workers'[v] = workers[v] /\ Busy(v)
                /\ workers[v].item \in DOMAIN items \ I
             \/ \E i \in I : workers'[v] = Publishing(i)
                            /\ \A u \in DOMAIN workers' \ {v} : workers'[u] # Publishing(i)
  BY <1>5 DEF Busy, Sleeping, HeldInv
<1>6. \A v \in DOMAIN workers' :
        Busy(v)' => workers'[v].item \in DOMAIN items'
                    /\ items'[workers'[v].item].state = "publishing"
  BY <1>1, <1>5 DEF SameItems, HeldInv, Publishing
<1>7. ASSUME NEW u \in DOMAIN workers', NEW v \in DOMAIN workers', Busy(u)', Busy(v)',
             workers'[u].item = workers'[v].item
      PROVE  u = v
  BY <1>5, <1>7 DEF HeldInv, Publishing
<1>8. QED
  BY <1>3, <1>6, <1>7 DEF HeldInv

LEMMA ScheduleSafe ==
  ASSUME SafeInv, NEW b \in Batches, Schedule(b)
  PROVE  SafeInv'
<1> USE DEF SafeInv
<1>1. CASE UNCHANGED <<queue, items, state>>
  <2>1. Worker' = Worker
    BY <1>1 DEF Worker
  <2>2. TypeOK'
    BY <1>1, <2>1 DEF Schedule, ledger, TypeOK
  <2>3. HeldInv' /\ QueueInv'
    BY <1>1 DEF Schedule, HeldInv, Busy, QueueInv, BatchOf
  <2>4. QED
    BY <2>2, <2>3
<1>2. CASE /\ ~ Queued(b)
           /\ items' = Append(items, [batch |-> b, state |-> "pending"])
           /\ queue' = Append(queue, Len(items) + 1)
           /\ state' = [state EXCEPT ![b] = "pending"]
  <2> DEFINE new == [batch |-> b, state |-> "pending"]
             n == Len(items) + 1
  <2>1. new \in Item /\ new.batch = b
    BY DEF Item, ItemStates
  <2>2. items \in Seq(Item) /\ queue \in Seq(DOMAIN items) /\ workers \in Seq(Worker)
    BY DEF TypeOK
  <2> HIDE DEF new
  <2>3. /\ items' \in Seq(Item) /\ DOMAIN items' = 1 .. n /\ DOMAIN items = 1 .. Len(items)
        /\ Len(items) \in Nat /\ n \notin DOMAIN items /\ n \in DOMAIN items'
        /\ items'[n] = new /\ \A i \in DOMAIN items : items'[i] = items[i]
    BY <1>2, <2>1, <2>2 DEF new
  <2>4. /\ queue \in Seq(DOMAIN items') /\ queue' \in Seq(DOMAIN items')
        /\ DOMAIN queue' = DOMAIN queue \cup {Len(queue) + 1} /\ Len(queue) + 1 \notin DOMAIN queue
        /\ queue'[Len(queue) + 1] = n /\ \A k \in DOMAIN queue : queue'[k] = queue[k]
    <3>1. queue \in Seq(DOMAIN items')
      BY <2>2, <2>3
    <3> HIDE DEF n
    <3>2. QED
      BY <1>2, <2>3, <3>1 DEF n
  <2> HIDE DEF n
  <2>5. \A w \in DOMAIN workers : workers[w] \in Worker'
    <3>1. \A w \in DOMAIN workers : workers[w] \in Worker
      BY <2>2
    <3>2. DOMAIN items \subseteq DOMAIN items'
      BY <2>3
    <3>3. Worker \subseteq Worker'
      BY <3>2 DEF Worker
    <3>4. QED
      BY <3>1, <3>3
  <2>6. workers' \in Seq(Worker')
    <3>1. workers \in Seq(Worker')
      BY <2>2, <2>5, SameSequence
    <3>2. QED
      BY <3>1 DEF Schedule
  <2>7. TypeOK'
    <3>1. state' \in [Batches -> ItemStates \cup {Null}]
      BY <1>2 DEF TypeOK, ItemStates
    <3>2. UNCHANGED <<processing, retry, timers, attempts, stored, cleared>>
      BY DEF Schedule, ledger
    <3>3. timers' \subseteq DOMAIN items'
      BY <2>3, <3>2 DEF TypeOK
    <3>4. QED
      BY <2>3, <2>4, <2>6, <3>1, <3>2, <3>3 DEF TypeOK
  <2>8. HeldInv'
    <3>1. UNCHANGED <<workers, timers>> /\ timers \subseteq DOMAIN items
      BY DEF Schedule, TypeOK
    <3>2. QED
      BY <2>3, <3>1 DEF HeldInv, Busy
  <2>9. QueueInv'
    <3>1. \A k \in DOMAIN queue : queue[k] \in DOMAIN items /\ BatchOf(queue[k]) # b
      BY <1>2, ItemsTyped DEF Queued
    <3>2. \A k \in DOMAIN queue : items'[queue'[k]].batch = BatchOf(queue[k])
      BY <2>3, <2>4, <3>1 DEF BatchOf
    <3>3. items'[queue'[Len(queue) + 1]].batch = b
      BY <2>1, <2>3, <2>4
    <3>4. \A j, k \in DOMAIN queue' :
            items'[queue'[j]].batch = items'[queue'[k]].batch => j = k
      BY <2>4, <3>1, <3>2, <3>3 DEF QueueInv
    <3>5. QED
      BY <3>4 DEF QueueInv, BatchOf
  <2>10. QED
    BY <2>7, <2>8, <2>9
<1>3. QED
  BY <1>1, <1>2 DEF Schedule

LEMMA StartSafe ==
  ASSUME SafeInv, Start
  PROVE  SafeInv'
<1> USE DEF SafeInv
<1> DEFINE New(n) == IF Found(n) = {} THEN Sleeping ELSE Publishing(CHOOSE i \in Found(n) : TRUE)
           I == UNION {Found(n) : n \in 1 .. Concurrency}
           new == [n \in 1 .. Concurrency |-> New(n)]
<1>1. workers' = workers \o new /\ Take(I)
  BY DEF Start
<1>2. Concurrency \in Nat
  BY SchedulerAssumption
<1>3. I \in SUBSET DOMAIN items /\ \A i \in I : items[i].state = "pending"
  BY FoundIs
<1>4. ASSUME NEW n \in 1 .. Concurrency
      PROVE  /\ New(n) \in Worker
             /\ New(n) = Sleeping \/ \E i \in I : i \in Found(n) /\ New(n) = Publishing(i)
  <2>1. CASE Found(n) = {}
    BY <2>1 DEF Sleeping, Worker
  <2>2. CASE Found(n) # {}
    <3>1. PICK i \in Found(n) : New(n) = Publishing(i)
      BY <2>2
    <3>2. i \in I /\ i \in DOMAIN items
      BY <1>3, <3>1
    <3>3. QED
      BY <3>1, <3>2 DEF Publishing, Worker
  <2>3. QED
    BY <2>1, <2>2
<1> HIDE DEF New, I
<1>5. /\ SameItems /\ state' \in [Batches -> ItemStates \cup {Null}]
      /\ attempts' \in [Batches -> Nat]
  BY <1>1, <1>3, TakeTyped
<1>6. new \in Seq(Worker) /\ Len(new) = Concurrency /\ \A n \in 1 .. Concurrency : new[n] = New(n)
  BY <1>2, <1>4, NewSequence
<1> HIDE DEF new
<1>7. workers \in Seq(Worker) /\ Worker' = Worker
  BY <1>5 DEF TypeOK, Worker, SameItems
<1> DEFINE L == Len(workers)
<1>8. /\ workers' \in Seq(Worker') /\ L \in Nat
      /\ DOMAIN workers = 1 .. L /\ DOMAIN workers' = 1 .. (L + Concurrency)
      /\ \A v \in DOMAIN workers : workers'[v] = workers[v]
      /\ \A v \in DOMAIN workers' \ DOMAIN workers :
           v - L \in 1 .. Concurrency /\ workers'[v] = New(v - L)
  <2>1. workers' \in Seq(Worker') /\ DOMAIN workers = 1 .. L /\ L \in Nat
    BY <1>1, <1>6, <1>7
  <2>2. /\ DOMAIN workers' = 1 .. (L + Concurrency)
        /\ \A v \in DOMAIN workers : workers'[v] = workers[v]
        /\ \A v \in DOMAIN workers' \ DOMAIN workers :
             v - L \in 1 .. Concurrency /\ workers'[v] = new[v - L]
    <3>1. workers \in Seq(Worker) /\ new \in Seq(Worker) /\ Len(new) = Concurrency
      BY <1>6, <1>7
    <3>2. /\ DOMAIN (workers \o new) = 1 .. (Len(workers) + Len(new))
          /\ \A i \in DOMAIN workers : (workers \o new)[i] = workers[i]
          /\ \A i \in DOMAIN (workers \o new) \ DOMAIN workers :
               i - Len(workers) \in 1 .. Len(new) /\ (workers \o new)[i] = new[i - Len(workers)]
      BY <3>1, Concatenated, Zenon
    <3>3. QED
      BY <1>1, <3>1, <3>2, Zenon
  <2>3. QED
    BY <1>6, <2>1, <2>2
<1>9. ASSUME NEW v \in DOMAIN workers'
      PROVE  \/ v \in DOMAIN workers /\ workers'[v] = workers[v]
             \/ workers'[v] = Sleeping
             \/ \E i \in I : workers'[v] = Publishing(i)
                            /\ \A u \in DOMAIN workers' \ {v} : workers'[u] # Publishing(i)
  <2>1. SUFFICES ASSUME v \notin DOMAIN workers, workers'[v] # Sleeping
                 PROVE  \E i \in I : workers'[v] = Publishing(i)
                            /\ \A u \in DOMAIN workers' \ {v} : workers'[u] # Publishing(i)
    BY <1>8
  <2>2. PICK i \in I : i \in Found(v - L) /\ workers'[v] = Publishing(i)
    BY <1>4, <1>8, <2>1
  <2>3. items[i].state = "pending"
    BY <1>3
  <2>4. ASSUME NEW u \in DOMAIN workers' \ {v}, workers'[u] = Publishing(i)
        PROVE  FALSE
    <3>1. CASE u \in DOMAIN workers
      BY <1>8, <2>3, <2>4, <3>1 DEF HeldInv, Busy, Publishing
    <3>2. CASE u \notin DOMAIN workers
      <4>1. New(u - L) = Publishing(i) /\ u - L \in 1 .. Concurrency
        BY <1>8, <2>4, <3>2
      <4>2. i \in Found(u - L)
        BY <1>4, <4>1 DEF Publishing, Sleeping
      <4>3. u - L = v - L
        BY <2>2, <4>2, FoundDiffers
      <4>4. QED
        BY <1>8, <2>4, <4>3
    <3>3. QED
      BY <3>1, <3>2
  <2>5. QED
    BY <2>2, <2>4
<1> HIDE DEF L
<1>10. HeldInv' /\ timers' \subseteq DOMAIN items'
  <2>1. UNCHANGED timers /\ DOMAIN workers \subseteq DOMAIN workers'
    BY <1>2, <1>8 DEF Start
  <2>2. QED
    BY <1>1, <1>3, <1>9, <2>1, Taken
<1>11. UNCHANGED <<queue, retry, stored, cleared>> /\ processing' \in BOOLEAN
  BY DEF Start
<1>12. queue' \in Seq(DOMAIN items') /\ QueueInv'
  BY <1>5, <1>11, QueueTyped, QueueKept DEF SameItems
<1>13. TypeOK'
  BY <1>5, <1>8, <1>10, <1>11, <1>12 DEF TypeOK, SameItems
<1>14. QED
  BY <1>10, <1>12, <1>13

LEMMA WakeSafe ==
  ASSUME SafeInv, NEW w \in DOMAIN workers, WorkerWakes(w)
  PROVE  SafeInv'
<1> USE DEF SafeInv
<1>1. CASE ~ processing
  <2>1. workers' = [workers EXCEPT ![w] = Ended]
        /\ UNCHANGED <<table, ledger, processing, cleared>>
    BY <1>1 DEF WorkerWakes
  <2>2. UNCHANGED <<queue, items, state, retry, timers, attempts, stored>>
    BY <2>1 DEF table, ledger
  <2>3. Ended \in Worker /\ Ended.at = "ended"
    BY DEF Ended, Worker
  <2>4. /\ workers' \in Seq(Worker') /\ DOMAIN workers' = DOMAIN workers /\ workers'[w] = Ended
        /\ \A v \in DOMAIN workers \ {w} : workers'[v] = workers[v]
    BY <2>1, <2>2, <2>3, WorkerTyped
  <2>5. TypeOK'
    BY <2>1, <2>2, <2>4 DEF TypeOK
  <2>6. HeldInv' /\ QueueInv'
    BY <2>2, <2>3, <2>4 DEF HeldInv, Busy, QueueInv, BatchOf
  <2>7. QED
    BY <2>5, <2>6
<1>2. CASE processing
  <2>1. PICK i \in Found(1) : workers' = [workers EXCEPT ![w] = Publishing(i)] /\ Take({i})
    BY <1>2 DEF WorkerWakes
  <2>2. UNCHANGED <<queue, retry, timers, stored, processing, cleared>>
    BY <1>2 DEF WorkerWakes
  <2>3. i \in DOMAIN items /\ items[i].state = "pending"
    BY FoundIs
  <2>4. /\ SameItems /\ state' \in [Batches -> ItemStates \cup {Null}]
        /\ attempts' \in [Batches -> Nat]
    BY <2>1, <2>3, TakeTyped
  <2>5. Publishing(i) \in Worker
    BY <2>3 DEF Publishing, Worker
  <2>6. /\ workers' \in Seq(Worker') /\ DOMAIN workers' = DOMAIN workers
        /\ workers'[w] = Publishing(i)
        /\ \A v \in DOMAIN workers \ {w} : workers'[v] = workers[v]
    BY <2>1, <2>4, <2>5, WorkerTyped DEF SameItems
  <2>7. \A v \in DOMAIN workers' \ {w} : workers'[v] # Publishing(i)
    BY <2>3, <2>6 DEF HeldInv, Busy, Publishing
  <2>8. HeldInv' /\ timers' \subseteq DOMAIN items'
    BY <2>1, <2>2, <2>3, <2>6, <2>7, Taken
  <2>9. queue' \in Seq(DOMAIN items') /\ QueueInv'
    BY <2>2, <2>4, QueueTyped, QueueKept DEF SameItems
  <2>10. TypeOK'
    BY <2>2, <2>4, <2>6, <2>8, <2>9 DEF TypeOK, SameItems
  <2>11. QED
    BY <2>8, <2>9, <2>10
<1>3. QED
  BY <1>1, <1>2

LEMMA ResolveSafe ==
  ASSUME SafeInv, NEW w \in DOMAIN workers, PublishResolves(w)
  PROVE  SafeInv'
<1> USE DEF SafeInv
<1> DEFINE i == workers[w].item
           b == BatchOf(i)
<1>1. /\ Busy(w) /\ items' = WithState(i, "published") /\ workers' = [workers EXCEPT ![w] = Sleeping]
      /\ state' = [state EXCEPT ![b] = "published"] /\ retry' = [retry EXCEPT ![b] = Null]
      /\ stored' = IF b \in Known THEN stored \cup {b} ELSE stored
      /\ UNCHANGED <<processing, queue, timers, attempts, cleared>>
  BY DEF PublishResolves, Busy
<1>2. /\ i \in DOMAIN items /\ SameItems
      /\ workers' \in Seq(Worker') /\ timers' \subseteq DOMAIN items' /\ HeldInv'
  BY <1>1, Released DEF ItemStates
<1> HIDE DEF b, i
<1>3. state' \in [Batches -> ItemStates \cup {Null}] /\ retry' \in [Batches -> RetryInfo \cup {Null}]
  BY <1>1 DEF TypeOK, ItemStates
<1>4. queue' \in Seq(DOMAIN items') /\ QueueInv'
  BY <1>1, <1>2, QueueTyped, QueueKept DEF SameItems
<1>5. TypeOK'
  BY <1>1, <1>2, <1>3, <1>4 DEF TypeOK, SameItems
<1>6. QED
  BY <1>2, <1>4, <1>5

\* The count of failures is a number that fits a retry.
LEMMA FailuresTyped ==
  ASSUME TypeOK, NEW b \in Batches
  PROVE  Failures(b) \in 0 .. MaxRetries
<1>1. retry[b] \in RetryInfo \/ retry[b] = Null
  BY DEF TypeOK
<1>2. MaxRetries \in Nat
  BY SchedulerAssumption
<1>3. QED
  BY <1>1, <1>2 DEF Failures, RetryInfo

LEMMA RejectSafe ==
  ASSUME SafeInv, NEW w \in DOMAIN workers, PublishRejects(w)
  PROVE  SafeInv'
<1> USE DEF SafeInv
<1> DEFINE i == workers[w].item
           b == BatchOf(i)
           failure == [count |-> Failures(b) + 1, due |-> FALSE]
<1>1. /\ Busy(w) /\ workers' = [workers EXCEPT ![w] = Sleeping]
      /\ UNCHANGED <<processing, queue, attempts, stored, cleared>>
  BY DEF PublishRejects, Busy, ledger
<1>2. i \in DOMAIN items /\ b \in Batches
  BY <1>1, ItemsTyped DEF HeldInv
<1>3. Failures(b) \in 0 .. MaxRetries /\ MaxRetries \in Nat
  BY <1>2, FailuresTyped, SchedulerAssumption
<1>4. \/ /\ items' = WithState(i, "failed") /\ UNCHANGED timers
         /\ state' = [state EXCEPT ![b] = "failed"] /\ retry' = [retry EXCEPT ![b] = Null]
      \/ /\ items' = WithState(i, "paused") /\ timers' = timers \cup {i}
         /\ state' = [state EXCEPT ![b] = "paused"] /\ retry' = [retry EXCEPT ![b] = failure]
         /\ Failures(b) + 1 < MaxRetries
  BY DEF PublishRejects, Pause
<1>5. /\ SameItems /\ workers' \in Seq(Worker') /\ timers' \subseteq DOMAIN items' /\ HeldInv'
  BY <1>1, <1>4, Released DEF ItemStates
<1>6. Failures(b) + 1 < MaxRetries => failure \in RetryInfo
  BY <1>3 DEF RetryInfo
<1> HIDE DEF b, i, failure
<1>7. state' \in [Batches -> ItemStates \cup {Null}] /\ retry' \in [Batches -> RetryInfo \cup {Null}]
  BY <1>4, <1>6 DEF TypeOK, ItemStates
<1>8. queue' \in Seq(DOMAIN items') /\ QueueInv'
  BY <1>1, <1>5, QueueTyped, QueueKept DEF SameItems
<1>9. TypeOK'
  BY <1>1, <1>5, <1>7, <1>8 DEF TypeOK, SameItems
<1>10. QED
  BY <1>5, <1>8, <1>9

LEMMA TimerSafe ==
  ASSUME SafeInv, NEW i \in timers, TimerFires(i)
  PROVE  SafeInv'
<1> USE DEF SafeInv
<1>1. i \in DOMAIN items /\ items[i].state = "paused" /\ BatchOf(i) \in Batches
  BY ItemsTyped DEF TypeOK, HeldInv
<1>2. /\ timers' = timers \ {i}
      /\ UNCHANGED <<processing, queue, retry, workers, attempts, stored, cleared>>
  BY DEF TimerFires, ledger
<1>3. CASE UNCHANGED <<items, state>>
  <2>1. Worker' = Worker
    BY <1>3 DEF Worker
  <2>2. TypeOK'
    BY <1>2, <1>3, <2>1 DEF TypeOK
  <2>3. HeldInv' /\ QueueInv'
    BY <1>2, <1>3 DEF HeldInv, Busy, QueueInv, BatchOf
  <2>4. QED
    BY <2>2, <2>3
<1>4. CASE items' = WithState(i, "pending") /\ state' = [state EXCEPT ![BatchOf(i)] = "pending"]
  <2>1. /\ SameItems /\ items'[i].state = "pending"
        /\ \A j \in DOMAIN items \ {i} : items'[j] = items[j]
    BY <1>1, <1>4, WithStateTyped DEF ItemStates
  <2>2. state' \in [Batches -> ItemStates \cup {Null}]
    BY <1>4 DEF TypeOK, ItemStates
  <2>3. queue' \in Seq(DOMAIN items') /\ QueueInv'
    BY <1>2, <2>1, QueueTyped, QueueKept DEF SameItems
  <2>4. timers' \subseteq DOMAIN items' /\ \A j \in timers' : items'[j].state = "paused"
    BY <1>2, <2>1 DEF TypeOK, SameItems, HeldInv
  <2>5. \A w \in DOMAIN workers : Busy(w) => workers[w].item # i
    BY <1>1 DEF HeldInv
  <2>6. HeldInv'
    BY <1>2, <2>1, <2>4, <2>5 DEF HeldInv, Busy, SameItems
  <2>7. Worker' = Worker
    BY <2>1 DEF Worker, SameItems
  <2>8. TypeOK'
    BY <1>2, <2>1, <2>2, <2>3, <2>4, <2>7 DEF TypeOK, SameItems
  <2>9. QED
    BY <2>3, <2>6, <2>8
<1>5. QED
  BY <1>3, <1>4 DEF TimerFires

LEMMA OthersSafe ==
  ASSUME SafeInv, \/ Stop \/ Clear \/ UNCHANGED vars
                  \/ \E b \in Batches : RetryTimeComes(b)
  PROVE  SafeInv'
<1> USE DEF SafeInv
<1>1. UNCHANGED <<items, workers, timers, attempts, stored>>
  BY DEF Stop, Clear, RetryTimeComes, vars, table, ledger
<1>2. processing' \in BOOLEAN /\ cleared' \in BOOLEAN
  BY DEF Stop, Clear, RetryTimeComes, vars, table, ledger, TypeOK
<1>3. state' \in [Batches -> ItemStates \cup {Null}]
  BY DEF Stop, Clear, RetryTimeComes, vars, table, ledger, TypeOK
<1>4. retry' \in [Batches -> RetryInfo \cup {Null}]
  <2>1. ASSUME NEW b \in Batches, RetryTimeComes(b)
        PROVE  retry' \in [Batches -> RetryInfo \cup {Null}]
    <3>1. retry[b] \in RetryInfo /\ retry \in [Batches -> RetryInfo \cup {Null}]
      BY <2>1 DEF RetryTimeComes, TypeOK
    <3>2. [retry[b] EXCEPT !.due = TRUE] \in RetryInfo
      BY <3>1 DEF RetryInfo
    <3>3. retry' = [retry EXCEPT ![b] = [retry[b] EXCEPT !.due = TRUE]]
      BY <2>1 DEF RetryTimeComes
    <3>4. QED
      BY <3>1, <3>2, <3>3
  <2>2. QED
    BY <2>1 DEF Stop, Clear, vars, table, TypeOK
<1>5. queue' = queue \/ queue' = <<>>
  BY DEF Stop, Clear, RetryTimeComes, vars, table
<1>6. Worker' = Worker
  BY <1>1 DEF Worker
<1>7. TypeOK'
  <2>1. queue' \in Seq(DOMAIN items')
    BY <1>1, <1>5, EmptySequence DEF TypeOK
  <2>2. workers' \in Seq(Worker') /\ items' \in Seq(Item) /\ timers' \subseteq DOMAIN items'
    BY <1>1, <1>6 DEF TypeOK
  <2>3. attempts' \in [Batches -> Nat] /\ stored' \subseteq Known
    BY <1>1 DEF TypeOK
  <2>4. QED
    BY <1>2, <1>3, <1>4, <2>1, <2>2, <2>3 DEF TypeOK
<1>8. HeldInv' /\ QueueInv'
  BY <1>1, <1>5 DEF HeldInv, Busy, QueueInv, BatchOf
<1>9. QED
  BY <1>7, <1>8

LEMMA SafeAtInit ==
  ASSUME Init
  PROVE  SafeInv
<1>1. TypeOK
  <2>1. items = <<>> /\ queue = <<>> /\ workers = <<>>
    BY DEF Init
  <2>2. <<>> \in Seq(Item) /\ <<>> \in Seq(DOMAIN items) /\ <<>> \in Seq(Worker)
    BY EmptySequence
  <2>3. items \in Seq(Item) /\ queue \in Seq(DOMAIN items) /\ workers \in Seq(Worker)
    BY <2>1, <2>2, Zenon
  <2>4. processing \in BOOLEAN /\ timers \subseteq DOMAIN items /\ cleared \in BOOLEAN
        /\ stored \subseteq Known
    BY DEF Init
  <2>5. /\ state \in [Batches -> ItemStates \cup {Null}]
        /\ retry \in [Batches -> RetryInfo \cup {Null}] /\ attempts \in [Batches -> Nat]
    BY DEF Init
  <2>6. QED
    BY <2>3, <2>4, <2>5 DEF TypeOK
<1>2. DOMAIN workers = {} /\ DOMAIN queue = {} /\ timers = {}
  <2>1. DOMAIN <<>> = {}
    BY EmptySequence
  <2>2. QED
    BY <2>1, Zenon DEF Init
<1>3. QED
  BY <1>1, <1>2 DEF SafeInv, HeldInv, QueueInv

LEMMA SafeKept ==
  ASSUME SafeInv, [Next]_vars
  PROVE  SafeInv'
<1>1. ASSUME NEW w \in DOMAIN workers, WorkerSteps(w)
      PROVE  SafeInv'
  BY <1>1, WakeSafe, ResolveSafe, RejectSafe DEF WorkerSteps
<1>2. QED
  BY <1>1, ScheduleSafe, StartSafe, TimerSafe, OthersSafe DEF Next

-----------------------------------------------------------------------------
(* The accounts of a scheduler that is never cleared *)

\* What is known of the batch of item i, told by the item's state.
Account(i) ==
  LET b == BatchOf(i)
      s == items[i].state
  IN  /\ state[b] = s
      /\ s \in {"pending", "paused"} => attempts[b] = Failures(b) /\ Failures(b) < MaxRetries
      /\ s = "publishing" => attempts[b] = Failures(b) + 1 /\ Failures(b) < MaxRetries
      /\ s = "published" => attempts[b] <= MaxRetries
      /\ s = "failed" => attempts[b] = MaxRetries
      /\ b \in stored => s = "published"

Untouched(b) == state[b] = Null /\ retry[b] = Null /\ attempts[b] = 0 /\ b \notin stored

\* Every batch scheduled so far has one item, which is in the queue.
Accounts ==
  /\ \A i \in DOMAIN items : Queued(BatchOf(i)) /\ Account(i)
  /\ \A i, j \in DOMAIN items : BatchOf(i) = BatchOf(j) => i = j
  /\ \A b \in Batches : (\A i \in DOMAIN items : BatchOf(i) # b) => Untouched(b)

AccountsInv == ~ cleared => Accounts

\* A step that touches some batches only has to account for these.
LEMMA AccountsKept ==
  ASSUME SafeInv, Accounts, NEW S \in SUBSET Batches,
         SameItems, queue' = queue,
         \A b \in Batches \ S :
           /\ state'[b] = state[b] /\ retry'[b] = retry[b] /\ attempts'[b] = attempts[b]
           /\ b \in stored' <=> b \in stored,
         \A i \in DOMAIN items : BatchOf(i) \notin S => items'[i] = items[i],
         \A i \in DOMAIN items : BatchOf(i) \in S => Account(i)',
         \A b \in S : \E i \in DOMAIN items : BatchOf(i) = b
  PROVE  Accounts'
<1>1. /\ DOMAIN items' = DOMAIN items
      /\ \A i \in DOMAIN items : BatchOf(i)' = BatchOf(i) /\ BatchOf(i) \in Batches
  BY ItemsTyped DEF SafeInv, SameItems, BatchOf
<1>2. ASSUME NEW i \in DOMAIN items, BatchOf(i) \notin S
      PROVE  Account(i)'
  <2>1. items'[i] = items[i] /\ BatchOf(i)' = BatchOf(i) /\ Account(i)
    BY <1>1, <1>2 DEF Accounts
  <2>2. /\ state'[BatchOf(i)] = state[BatchOf(i)] /\ retry'[BatchOf(i)] = retry[BatchOf(i)]
        /\ attempts'[BatchOf(i)] = attempts[BatchOf(i)]
        /\ BatchOf(i) \in stored' <=> BatchOf(i) \in stored
    BY <1>1, <1>2
  <2>3. QED
    BY <2>1, <2>2 DEF Account, Failures
<1>3. \A i \in DOMAIN items : Queued(BatchOf(i))'
  <2>1. \A k \in DOMAIN queue : queue[k] \in DOMAIN items
    BY ItemsTyped DEF SafeInv
  <2>2. QED
    BY <1>1, <2>1 DEF Accounts, Queued
<1>4. \A b \in Batches : (\A i \in DOMAIN items' : BatchOf(i)' # b) => Untouched(b)'
  BY <1>1 DEF Accounts, Untouched
<1>5. QED
  BY <1>1, <1>2, <1>3, <1>4 DEF Accounts

\* The item of a batch is the only one.
LEMMA OneItem ==
  ASSUME Accounts, NEW i \in DOMAIN items
  PROVE  \A j \in DOMAIN items : BatchOf(j) \in {BatchOf(i)} => j = i
  BY DEF Accounts

LEMMA ScheduleAccounts ==
  ASSUME SafeInv, Accounts, NEW b \in Batches, Schedule(b)
  PROVE  Accounts'
<1> USE DEF SafeInv
<1>1. UNCHANGED <<retry, attempts, stored>>
  BY DEF Schedule, ledger
<1>2. CASE UNCHANGED <<queue, items, state>>
  BY <1>1, <1>2 DEF Accounts, Account, Queued, BatchOf, Failures, Untouched
<1>3. CASE /\ ~ Queued(b)
           /\ items' = Append(items, [batch |-> b, state |-> "pending"])
           /\ queue' = Append(queue, Len(items) + 1)
           /\ state' = [state EXCEPT ![b] = "pending"]
  <2> DEFINE new == [batch |-> b, state |-> "pending"]
  <2>1. items \in Seq(Item) /\ queue \in Seq(DOMAIN items)
    BY DEF TypeOK
  <2> PICK n : n = Len(items) + 1
    OBVIOUS
  <2> HIDE DEF new
  <2>2. /\ DOMAIN items' = DOMAIN items \cup {n} /\ n \notin DOMAIN items
        /\ items'[n] = new /\ \A i \in DOMAIN items : items'[i] = items[i]
    BY <1>3, <2>1 DEF new
  <2>3. /\ DOMAIN queue' = DOMAIN queue \cup {Len(queue) + 1}
        /\ queue'[Len(queue) + 1] = n /\ \A k \in DOMAIN queue : queue'[k] = queue[k]
    BY <1>3, <2>1
  <2>4. /\ new.batch = b /\ new.state = "pending"
        /\ \A i \in DOMAIN items : BatchOf(i)' = BatchOf(i) /\ BatchOf(i) \in Batches \ {b}
    BY <1>3, <2>2, ItemsTyped DEF BatchOf, new, Accounts
  <2>5. BatchOf(n)' = b
    BY <2>2, <2>4 DEF BatchOf
  <2>6. Account(n)'
    <3>1. Untouched(b)
      BY <2>4 DEF Accounts
    <3>2. state'[b] = "pending" /\ attempts'[b] = 0 /\ Failures(b)' = 0 /\ b \notin stored'
      BY <1>1, <1>3, <3>1 DEF TypeOK, Untouched, Failures
    <3>3. 0 < MaxRetries
      BY SchedulerAssumption
    <3>4. items'[n].state = "pending"
      BY <2>2, <2>4
    <3>5. QED
      BY <2>5, <3>2, <3>3, <3>4 DEF Account
  <2>7. ASSUME NEW i \in DOMAIN items
        PROVE  Account(i)' /\ Queued(BatchOf(i))'
    <3>1. Account(i) /\ items'[i] = items[i] /\ BatchOf(i)' = BatchOf(i)
      BY <2>2, <2>4 DEF Accounts
    <3>2. state'[BatchOf(i)] = state[BatchOf(i)]
      BY <1>3, <2>4 DEF TypeOK
    <3>3. Account(i)'
      BY <1>1, <3>1, <3>2 DEF Account, Failures
    <3>4. PICK k \in DOMAIN queue : BatchOf(queue[k]) = BatchOf(i)
      BY DEF Accounts, Queued
    <3>5. k \in DOMAIN queue' /\ queue'[k] = queue[k] /\ queue[k] \in DOMAIN items
      BY <2>3, ItemsTyped
    <3>6. BatchOf(queue[k])' = BatchOf(i)'
      BY <2>4, <3>4, <3>5 DEF BatchOf
    <3>7. QED
      BY <3>3, <3>5, <3>6 DEF Queued, BatchOf
  <2>8. Queued(BatchOf(n))'
    BY <2>3 DEF Queued, BatchOf
  <2>9. \A i, j \in DOMAIN items' : BatchOf(i)' = BatchOf(j)' => i = j
    BY <2>2, <2>4, <2>5 DEF Accounts
  <2>10. ASSUME NEW c \in Batches, \A i \in DOMAIN items' : BatchOf(i)' # c
         PROVE  Untouched(c)'
    <3>1. c # b /\ \A i \in DOMAIN items : BatchOf(i) # c
      BY <2>2, <2>4, <2>5, <2>10
    <3>2. Untouched(c) /\ state'[c] = state[c]
      BY <1>3, <3>1 DEF Accounts, TypeOK
    <3>3. QED
      BY <1>1, <3>2 DEF Untouched
  <2>11. QED
    BY <2>2, <2>6, <2>7, <2>8, <2>9, <2>10 DEF Accounts
<1>4. QED
  BY <1>2, <1>3 DEF Schedule

\* Items that wait are taken.
LEMMA TakeAccounts ==
  ASSUME SafeInv, Accounts, NEW I \in SUBSET DOMAIN items,
         \A i \in I : items[i].state = "pending",
         Take(I), UNCHANGED <<queue, retry, stored>>
  PROVE  Accounts'
<1> DEFINE S == {BatchOf(i) : i \in I}
<1>1. /\ SameItems /\ \A i \in I : items'[i].state = "publishing"
      /\ \A i \in DOMAIN items \ I : items'[i] = items[i]
  BY TakeTyped DEF SafeInv
<1>2. /\ state' = [b \in Batches |-> IF b \in S THEN "publishing" ELSE state[b]]
      /\ attempts' = [b \in Batches |-> IF b \in S THEN attempts[b] + 1 ELSE attempts[b]]
  BY DEF Take
<1>3. S \in SUBSET Batches /\ \A b \in S : \E i \in DOMAIN items : BatchOf(i) = b
  BY ItemsTyped DEF SafeInv
<1>4. \A i \in DOMAIN items : BatchOf(i) \in S => i \in I
  BY DEF Accounts
<1>5. ASSUME NEW i \in I
      PROVE  Account(i)'
  <2>1. BatchOf(i)' = BatchOf(i) /\ BatchOf(i) \in S /\ BatchOf(i) \in Batches
    BY <1>1, <1>3 DEF SameItems, BatchOf
  <2>2. Account(i) /\ items[i].state = "pending"
    BY DEF Accounts
  <2> HIDE DEF S
  <2>3. /\ state'[BatchOf(i)] = "publishing" /\ attempts'[BatchOf(i)] = attempts[BatchOf(i)] + 1
        /\ Failures(BatchOf(i))' = Failures(BatchOf(i))
    BY <1>2, <2>1 DEF Failures
  <2>4. BatchOf(i) \notin stored'
    BY <2>2 DEF Account
  <2>5. items'[i].state = "publishing"
    BY <1>1
  <2>6. attempts'[BatchOf(i)] = Failures(BatchOf(i)) + 1 /\ Failures(BatchOf(i)) < MaxRetries
    BY <2>2, <2>3 DEF Account
  <2>7. QED
    BY <2>1, <2>3, <2>4, <2>5, <2>6 DEF Account
<1>6. \A i \in DOMAIN items : BatchOf(i) \notin S => i \notin I
  OBVIOUS
<1> HIDE DEF S
<1>7. \A b \in Batches \ S : state'[b] = state[b] /\ attempts'[b] = attempts[b]
  BY <1>2
<1>8. QED
  BY <1>1, <1>3, <1>4, <1>5, <1>6, <1>7, AccountsKept

\* The one batch touched is that of item i.
LEMMA SettledAccounts ==
  ASSUME SafeInv, Accounts, NEW i \in DOMAIN items, NEW s \in ItemStates,
         NEW failures \in RetryInfo \cup {Null},
         items' = WithState(i, s), UNCHANGED <<queue, attempts>>,
         state' = [state EXCEPT ![BatchOf(i)] = s],
         retry' = [retry EXCEPT ![BatchOf(i)] = failures],
         \A b \in Batches \ {BatchOf(i)} : b \in stored' <=> b \in stored,
         BatchOf(i) \in stored' => s = "published",
         s \in {"pending", "paused"} =>
           /\ attempts[BatchOf(i)] = IF failures = Null THEN 0 ELSE failures.count
           /\ attempts[BatchOf(i)] < MaxRetries,
         s = "published" => attempts[BatchOf(i)] <= MaxRetries,
         s = "failed" => attempts[BatchOf(i)] = MaxRetries,
         s # "publishing"
  PROVE  Accounts'
<1>1. /\ SameItems /\ items'[i].state = s /\ \A j \in DOMAIN items \ {i} : items'[j] = items[j]
  BY WithStateTyped DEF SafeInv
<1>2. BatchOf(i)' = BatchOf(i) /\ BatchOf(i) \in Batches
  BY <1>1, ItemsTyped DEF SafeInv, SameItems, BatchOf
<1>3. state'[BatchOf(i)] = s /\ retry'[BatchOf(i)] = failures
  BY <1>2 DEF SafeInv, TypeOK
<1>4. Account(i)'
  BY <1>1, <1>2, <1>3 DEF Account, Failures
<1>5. \A b \in Batches \ {BatchOf(i)} : state'[b] = state[b] /\ retry'[b] = retry[b]
  BY DEF SafeInv, TypeOK
<1> DEFINE S == {BatchOf(i)}
<1>6. \A j \in DOMAIN items : BatchOf(j) \in S => j = i
  BY OneItem
<1>7. S \in SUBSET Batches /\ (\A b \in S : \E j \in DOMAIN items : BatchOf(j) = b) /\ BatchOf(i) \in S
  BY <1>2
<1>8. \A b \in Batches \ S :
        /\ state'[b] = state[b] /\ retry'[b] = retry[b] /\ attempts'[b] = attempts[b]
        /\ b \in stored' <=> b \in stored
  BY <1>5
<1> HIDE DEF S
<1>9. QED
  BY <1>1, <1>4, <1>6, <1>7, <1>8, AccountsKept

LEMMA ResolveAccounts ==
  ASSUME SafeInv, Accounts, NEW w \in DOMAIN workers, PublishResolves(w)
  PROVE  Accounts'
<1> DEFINE i == workers[w].item
           b == BatchOf(i)
<1>1. /\ Busy(w) /\ items' = WithState(i, "published")
      /\ state' = [state EXCEPT ![b] = "published"] /\ retry' = [retry EXCEPT ![b] = Null]
      /\ stored' = IF b \in Known THEN stored \cup {b} ELSE stored
      /\ UNCHANGED <<queue, attempts>>
  BY DEF PublishResolves, Busy
<1>2. i \in DOMAIN items /\ items[i].state = "publishing"
  BY <1>1 DEF SafeInv, HeldInv
<1>3. Account(i) /\ b \in Batches
  BY <1>2, ItemsTyped DEF Accounts, SafeInv
<1>4. attempts[b] = Failures(b) + 1 /\ Failures(b) < MaxRetries
  BY <1>2, <1>3 DEF Account
<1> HIDE DEF b, i
<1>5. attempts[b] <= MaxRetries
  BY <1>3, <1>4, FailuresTyped, SchedulerAssumption DEF SafeInv
<1>6. \A c \in Batches \ {b} : c \in stored' <=> c \in stored
  BY <1>1
<1>7. QED
  BY <1>1, <1>2, <1>5, <1>6, SettledAccounts DEF ItemStates, b

LEMMA RejectAccounts ==
  ASSUME SafeInv, Accounts, NEW w \in DOMAIN workers, PublishRejects(w)
  PROVE  Accounts'
<1> DEFINE i == workers[w].item
           b == BatchOf(i)
           failure == [count |-> Failures(b) + 1, due |-> FALSE]
<1>1. Busy(w) /\ UNCHANGED <<queue, attempts, stored>>
  BY DEF PublishRejects, Busy, ledger
<1>2. i \in DOMAIN items /\ items[i].state = "publishing"
  BY <1>1 DEF SafeInv, HeldInv
<1>3. Account(i) /\ b \in Batches
  BY <1>2, ItemsTyped DEF Accounts, SafeInv
<1>4. attempts[b] = Failures(b) + 1 /\ Failures(b) < MaxRetries /\ b \notin stored
  BY <1>2, <1>3 DEF Account
<1>5. Failures(b) \in 0 .. MaxRetries /\ MaxRetries \in Nat
  BY <1>3, FailuresTyped, SchedulerAssumption DEF SafeInv
<1>6. \/ /\ items' = WithState(i, "failed")
         /\ state' = [state EXCEPT ![b] = "failed"] /\ retry' = [retry EXCEPT ![b] = Null]
         /\ Failures(b) + 1 >= MaxRetries
      \/ /\ items' = WithState(i, "paused")
         /\ state' = [state EXCEPT ![b] = "paused"] /\ retry' = [retry EXCEPT ![b] = failure]
         /\ Failures(b) + 1 < MaxRetries
  BY DEF PublishRejects, Pause
<1>7. Failures(b) + 1 < MaxRetries => failure \in RetryInfo /\ failure # Null
  <2>1. Failures(b) + 1 < MaxRetries => failure \in RetryInfo
    BY <1>5 DEF RetryInfo
  <2>2. Null \notin RetryInfo
    BY SchedulerAssumption
  <2>3. QED
    BY <2>1, <2>2
<1>8. failure.count = attempts[b]
  BY <1>4
<1> HIDE DEF b, i, failure
<1>9. CASE /\ items' = WithState(i, "failed")
           /\ state' = [state EXCEPT ![b] = "failed"] /\ retry' = [retry EXCEPT ![b] = Null]
           /\ Failures(b) + 1 >= MaxRetries
  <2>1. attempts[b] = MaxRetries
    BY <1>4, <1>5, <1>9
  <2>2. QED
    BY <1>1, <1>2, <1>4, <1>9, <2>1, SettledAccounts DEF ItemStates, b
<1>10. CASE /\ items' = WithState(i, "paused")
            /\ state' = [state EXCEPT ![b] = "paused"] /\ retry' = [retry EXCEPT ![b] = failure]
            /\ Failures(b) + 1 < MaxRetries
  <2>1. attempts[b] < MaxRetries
    BY <1>4, <1>10
  <2>2. QED
    BY <1>1, <1>2, <1>4, <1>7, <1>8, <1>10, <2>1, SettledAccounts DEF ItemStates, b
<1>11. QED
  BY <1>6, <1>9, <1>10

LEMMA TimerAccounts ==
  ASSUME SafeInv, Accounts, NEW i \in timers, TimerFires(i)
  PROVE  Accounts'
<1>1. i \in DOMAIN items /\ items[i].state = "paused" /\ BatchOf(i) \in Batches
  BY ItemsTyped DEF SafeInv, TypeOK, HeldInv
<1>2. UNCHANGED <<queue, retry, attempts, stored>>
  BY DEF TimerFires, ledger
<1>3. CASE UNCHANGED <<items, state>>
  BY <1>2, <1>3 DEF Accounts, Account, Queued, BatchOf, Failures, Untouched
<1>4. CASE items' = WithState(i, "pending") /\ state' = [state EXCEPT ![BatchOf(i)] = "pending"]
  <2>1. Account(i)
    BY <1>1 DEF Accounts
  <2>2. /\ attempts[BatchOf(i)] = Failures(BatchOf(i)) /\ Failures(BatchOf(i)) < MaxRetries
        /\ BatchOf(i) \notin stored
    BY <1>1, <2>1 DEF Account
  <2> DEFINE failures == retry[BatchOf(i)]
  <2>3. failures \in RetryInfo \cup {Null} /\ retry' = [retry EXCEPT ![BatchOf(i)] = failures]
    BY <1>1, <1>2 DEF SafeInv, TypeOK
  <2>4. attempts[BatchOf(i)] = IF failures = Null THEN 0 ELSE failures.count
    BY <2>2 DEF Failures
  <2> HIDE DEF failures
  <2>5. QED
    BY <1>1, <1>2, <1>4, <2>2, <2>3, <2>4, SettledAccounts DEF ItemStates
<1>5. QED
  BY <1>3, <1>4 DEF TimerFires

LEMMA DueAccounts ==
  ASSUME SafeInv, Accounts, NEW b \in Batches, RetryTimeComes(b)
  PROVE  Accounts'
<1>1. UNCHANGED <<queue, items, state, attempts, stored>>
  BY DEF RetryTimeComes, ledger
<1>2. retry[b] # Null /\ retry' = [retry EXCEPT ![b] = [retry[b] EXCEPT !.due = TRUE]]
  BY DEF RetryTimeComes
<1>3. retry[b] \in RetryInfo /\ retry \in [Batches -> RetryInfo \cup {Null}]
  BY <1>2 DEF SafeInv, TypeOK
<1>4. /\ [retry[b] EXCEPT !.due = TRUE] \in RetryInfo
      /\ [retry[b] EXCEPT !.due = TRUE].count = retry[b].count
  BY <1>3 DEF RetryInfo
<1>5. retry'[b] # Null /\ retry'[b].count = retry[b].count
  BY <1>2, <1>3, <1>4, SchedulerAssumption
<1>6. \A c \in Batches \ {b} : retry'[c] = retry[c]
  BY <1>2, <1>3
<1>7. \A c \in Batches : Failures(c)' = Failures(c)
  BY <1>2, <1>5, <1>6 DEF Failures
<1>8. \A c \in Batches : Untouched(c) => Untouched(c)'
  BY <1>1, <1>2, <1>6 DEF Untouched
<1>9. \A i \in DOMAIN items : BatchOf(i) \in Batches
  BY ItemsTyped DEF SafeInv
<1>10. \A i \in DOMAIN items : Account(i)' /\ Queued(BatchOf(i))'
  BY <1>1, <1>7, <1>9 DEF Accounts, Account, Queued, BatchOf
<1>11. QED
  BY <1>1, <1>8, <1>10 DEF Accounts, BatchOf

LEMMA AccountsAtInit == Init => AccountsInv
<1>1. ASSUME Init
      PROVE  DOMAIN items = {}
  <2>1. DOMAIN <<>> = {}
    BY EmptySequence
  <2>2. QED
    BY <1>1, <2>1, Zenon DEF Init
<1>2. QED
  BY <1>1 DEF Init, AccountsInv, Accounts, Untouched

LEMMA StepAccounts ==
  ASSUME SafeInv, Accounts, [Next]_vars, ~ Clear
  PROVE  Accounts'
<1>1. ASSUME Start PROVE Accounts'
  <2> DEFINE I == UNION {Found(n) : n \in 1 .. Concurrency}
  <2>1. Take(I) /\ UNCHANGED <<queue, retry, stored>>
    BY <1>1 DEF Start
  <2>2. I \in SUBSET DOMAIN items /\ \A i \in I : items[i].state = "pending"
    BY FoundIs DEF SafeInv
  <2> HIDE DEF I
  <2>3. QED
    BY <2>1, <2>2, TakeAccounts
<1>2. ASSUME UNCHANGED <<queue, items, state, retry, attempts, stored>> PROVE Accounts'
  BY <1>2 DEF Accounts, Account, Queued, BatchOf, Failures, Untouched
<1>3. ASSUME NEW w \in DOMAIN workers, WorkerWakes(w) PROVE Accounts'
  <2>1. CASE ~ processing
    BY <1>2, <1>3, <2>1 DEF WorkerWakes, table, ledger
  <2>2. CASE processing
    <3>1. PICK i \in Found(1) : Take({i})
      BY <1>3, <2>2 DEF WorkerWakes
    <3>2. {i} \in SUBSET DOMAIN items /\ items[i].state = "pending"
      BY FoundIs DEF SafeInv
    <3>3. UNCHANGED <<queue, retry, stored>>
      BY <1>3, <2>2 DEF WorkerWakes
    <3>4. QED
      BY <3>1, <3>2, <3>3, TakeAccounts
  <2>3. QED
    BY <2>1, <2>2
<1>4. ASSUME Stop \/ UNCHANGED vars PROVE Accounts'
  BY <1>2, <1>4 DEF Stop, vars, table, ledger
<1>5. ASSUME NEW w \in DOMAIN workers, WorkerSteps(w) PROVE Accounts'
  BY <1>3, <1>5, ResolveAccounts, RejectAccounts DEF WorkerSteps
<1>6. QED
  BY <1>1, <1>4, <1>5, ScheduleAccounts, DueAccounts, TimerAccounts DEF Next

LEMMA AccountsInvKept ==
  ASSUME SafeInv, AccountsInv, [Next]_vars
  PROVE  AccountsInv'
<1>1. CASE Clear
  BY <1>1 DEF Clear, AccountsInv
<1>2. CASE ~ Clear
  <2>1. cleared' = cleared
    BY <1>2 DEF Next, Schedule, RetryTimeComes, Start, Stop, WorkerSteps, WorkerWakes,
                PublishResolves, PublishRejects, TimerFires, vars
  <2>2. QED
    BY <1>2, <2>1, StepAccounts DEF AccountsInv
<1>3. QED
  BY <1>1, <1>2

LEMMA AccountsHold == Spec => [](SafeInv /\ AccountsInv)
  BY SafeAtInit, SafeKept, AccountsAtInit, AccountsInvKept, PTL DEF Spec

\* No two workers publish one batch at once, whatever is stopped and started
\* meanwhile: a batch is in the queue once and a worker takes only what no other
\* worker holds and no timer waits for, so two that publish one batch hold two
\* items of it.  Until clear() is called there is only one.
THEOREM OnePublisher == Spec => []OnePublisherPerBatch
<1>1. SafeInv /\ AccountsInv => OnePublisherPerBatch
  <2>1. ASSUME SafeInv, AccountsInv, NEW v \in Publishers, NEW w \in Publishers, v # w,
               BatchOf(workers[v].item) = BatchOf(workers[w].item)
        PROVE  cleared /\ (Dropped(v) \/ Dropped(w))
    <3>1. /\ Busy(v) /\ Busy(w) /\ v \in DOMAIN workers /\ w \in DOMAIN workers
          /\ workers[v].item \in DOMAIN items /\ workers[w].item \in DOMAIN items
          /\ workers[v].item # workers[w].item
      BY <2>1 DEF Publishers, Busy, SafeInv, HeldInv
    <3>2. cleared
      BY <2>1, <3>1 DEF AccountsInv, Accounts
    <3>3. Dropped(v) \/ Dropped(w)
      BY <2>1, <3>1 DEF SafeInv, QueueInv, Dropped, ToSet
    <3>4. QED
      BY <3>2, <3>3
  <2>2. QED
    BY <2>1 DEF OnePublisherPerBatch
<1>2. QED
  BY <1>1, AccountsHold, PTL

\* However often the scheduler is stopped and started, until clear() wipes the
\* count: the attempts of a batch are its counted failures, plus one while it is
\* published, so it is given up after exactly MaxRetries attempts.
THEOREM AttemptsAreBounded == Spec => []AttemptsBounded
<1>1. SafeInv /\ AccountsInv => AttemptsBounded
  <2>1. ASSUME SafeInv, Accounts, NEW b \in Batches
        PROVE  attempts[b] <= MaxRetries /\ (state[b] = "failed" => attempts[b] = MaxRetries)
    <3>1. MaxRetries \in Nat \ {0} /\ Null # "failed"
      BY SchedulerAssumption DEF ItemStates
    <3>2. CASE \E i \in DOMAIN items : BatchOf(i) = b
      <4>1. PICK i \in DOMAIN items : BatchOf(i) = b
        BY <3>2
      <4>2. Account(i) /\ items[i].state \in ItemStates
        BY <2>1, ItemsTyped DEF Accounts, SafeInv, Item
      <4>3. Failures(b) \in 0 .. MaxRetries
        BY <2>1, FailuresTyped DEF SafeInv
      <4>4. QED
        BY <3>1, <4>1, <4>2, <4>3 DEF Account, ItemStates
    <3>3. CASE \A i \in DOMAIN items : BatchOf(i) # b
      BY <2>1, <3>1, <3>3 DEF Accounts, Untouched
    <3>4. QED
      BY <3>2, <3>3
  <2>2. QED
    BY <2>1 DEF AttemptsBounded, AccountsInv
<1>2. QED
  BY <1>1, AccountsHold, PTL

\* A publication the ledger has stored is reported as published until clear()
\* forgets it: no later step of a worker or a timer takes it back.
THEOREM StoredReported == Spec => []StoredIsReported
<1>1. SafeInv /\ AccountsInv => StoredIsReported
  <2>1. ASSUME SafeInv, Accounts, NEW b \in stored
        PROVE  state[b] = "published"
    <3>1. b \in Batches
      BY <2>1, SchedulerAssumption DEF SafeInv, TypeOK
    <3>2. PICK i \in DOMAIN items : BatchOf(i) = b
      BY <2>1, <3>1 DEF Accounts, Untouched
    <3>3. QED
      BY <2>1, <3>2 DEF Accounts, Account
  <2>2. QED
    BY <2>1 DEF StoredIsReported, AccountsInv
<1>2. QED
  BY <1>1, AccountsHold, PTL

\* Until clear() is called, getStatus and getState tell the same story about every
\* queued batch, whatever is stopped and started.
THEOREM StatusesAgree == Spec => []StatesAgree
<1>1. SafeInv /\ AccountsInv => StatesAgree
  <2>1. ASSUME SafeInv, Accounts
        PROVE  StatesAgree
    BY <2>1, ItemsTyped DEF StatesAgree, Accounts, Account, SafeInv
  <2>2. QED
    BY <2>1 DEF StatesAgree, AccountsInv
<1>2. QED
  BY <1>1, AccountsHold, PTL
=============================================================================
