----------------------------- MODULE AudioProofs -----------------------------
(***************************************************************************)
(* Theorems about audio: the pool of workers that canonicalize it          *)
(* (DspPool), what they make of it (CanonicalAudio) and the watermark that *)
(* it carries (WatermarkCode).                                             *)
(*                                                                         *)
(* For any number of workers and tasks and every fault, each task is in    *)
(* one place, and the queue waits beside an idle worker only after a       *)
(* failure.  For every file, every rate and any even number of values of a *)
(* byte, canonical audio keeps integer samples or interpolates them, is    *)
(* its own canonical audio, and the worker agrees.  For every payload, sync*)
(* word and number of repetitions from three on, the code corrects what    *)
(* MCWatermarkCode damages, and audio that is long enough carries it.      *)
(***************************************************************************)
EXTENDS DspPool, MCCanonicalAudio, MCWatermarkCode,
        FiniteSetTheorems, SequenceTheorems, WellFoundedInduction, TLAPS

-----------------------------------------------------------------------------
(* Sharing the queue out *)

LEMMA HandsFull == {} \in Hands /\ \A t \in Tasks : {t} \in Hands
  BY DEF Hands

LEMMA NoTasks == <<>> \in Seq(Tasks)
  OBVIOUS

\* What is left of a queue when its first n tasks are gone.
LEMMA RestOfQueue ==
  ASSUME NEW S, NEW s \in Seq(S), NEW n \in Nat
  PROVE  LET rest == SubSeq(s, n + 1, Len(s)) IN
         /\ rest \in Seq(S)
         /\ n >= Len(s) => rest = <<>>
         /\ \A i \in DOMAIN rest : i + n \in DOMAIN s /\ rest[i] = s[i + n]
         /\ \A i \in DOMAIN s : i > n => i - n \in DOMAIN rest /\ rest[i - n] = s[i]
<1> DEFINE rest == SubSeq(s, n + 1, Len(s))
<1>1. CASE n >= Len(s)
  <2>1. rest = <<>>
    BY <1>1
  <2>2. QED
    BY <1>1, <2>1
<1>2. CASE n < Len(s)
  <2>1. rest \in Seq(S) /\ Len(rest) = Len(s) - n
    BY <1>2
  <2>2. \A i \in 1 .. (Len(s) - n) : rest[i] = s[i + n]
    BY <1>2
  <2>3. \A i \in DOMAIN rest : i + n \in DOMAIN s /\ rest[i] = s[i + n]
    BY <1>2, <2>1, <2>2
  <2>4. \A i \in DOMAIN s : i > n => i - n \in DOMAIN rest /\ rest[i - n] = s[i]
    <3>1. SUFFICES ASSUME NEW i \in DOMAIN s, i > n
                   PROVE  i - n \in DOMAIN rest /\ rest[i - n] = s[i]
      OBVIOUS
    <3>2. i - n \in 1 .. (Len(s) - n) /\ (i - n) + n = i
      BY <3>1
    <3>3. QED
      BY <2>1, <2>2, <3>2
  <2>5. QED
    BY <1>2, <2>1, <2>3, <2>4
<1>3. QED
  BY <1>1, <1>2

LEMMA FiniteWorkers ==
  ASSUME NEW free \in SUBSET Workers
  PROVE  IsFiniteSet(free) /\ Cardinality(free) \in Nat
<1>1. IsFiniteSet(Workers)
  BY PoolAssumption, FS_Interval DEF Workers
<1>2. IsFiniteSet(free)
  BY <1>1, FS_Subset
<1>3. QED
  BY <1>2, FS_CardinalityType

\* The workers that are served together stand in places 1, 2, ..., each in
\* one of its own.
LEMMA RankType ==
  ASSUME NEW free \in SUBSET Workers
  PROVE  /\ Cardinality(free) \in Nat
         /\ \A w \in free : Rank(free, w) \in 1 .. Cardinality(free)
<1>1. IsFiniteSet(free) /\ Cardinality(free) \in Nat
  BY FiniteWorkers
<1>2. ASSUME NEW w \in free
      PROVE  Rank(free, w) \in 1 .. Cardinality(free)
  <2> DEFINE upTo == {v \in free : v <= w}
  <2>1. upTo \in SUBSET free /\ w \in upTo
    BY DEF Workers
  <2>2. IsFiniteSet(upTo) /\ Cardinality(upTo) <= Cardinality(free)
    BY <1>1, <2>1, FS_Subset
  <2>3. Cardinality(upTo) \in Nat /\ Cardinality(upTo) # 0
    BY <2>1, <2>2, FS_CardinalityType, FS_EmptySet
  <2>4. QED
    BY <1>1, <2>2, <2>3 DEF Rank
<1>3. QED
  BY <1>1, <1>2

LEMMA RankInjective ==
  ASSUME NEW free \in SUBSET Workers, NEW v \in free, NEW w \in free, v < w
  PROVE  Rank(free, v) < Rank(free, w)
<1> DEFINE S == {u \in free : u <= v}
           T == {u \in free : u <= w}
<1>0. free \subseteq Int /\ v \in Int /\ w \in Int
  BY PoolAssumption DEF Workers
<1>1. IsFiniteSet(T)
  <2>1. T \in SUBSET free
    OBVIOUS
  <2>2. QED
    BY <2>1, FiniteWorkers, FS_Subset
<1>2. S \in SUBSET T /\ w \in T /\ w \notin S
  <2>1. \A u \in free : u \in Int /\ (u <= v => u <= w)
    BY <1>0
  <2>2. ~ (w <= v) /\ w <= w
    BY <1>0
  <2>3. QED
    BY <2>1, <2>2
<1>3. Cardinality(S) <= Cardinality(T) /\ Cardinality(S) # Cardinality(T) /\ IsFiniteSet(S)
  BY <1>1, <1>2, FS_Subset
<1>4. Cardinality(S) \in Nat /\ Cardinality(T) \in Nat
  BY <1>1, <1>3, FS_CardinalityType
<1>5. QED
  BY <1>3, <1>4 DEF Rank

LEMMA RankOnto ==
  ASSUME NEW free \in SUBSET Workers, NEW i \in 1 .. Cardinality(free)
  PROVE  \E w \in free : Rank(free, w) = i
<1> DEFINE n == Cardinality(free)
           place == [w \in free |-> Rank(free, w)]
<1>1. n \in Nat /\ place \in [free -> 1 .. n]
  BY RankType
<1>2. ASSUME NEW v \in free, NEW w \in free, place[v] = place[w]
      PROVE  v = w
  <2>1. v \in Int /\ w \in Int
    BY DEF Workers
  <2>2. Rank(free, v) = Rank(free, w) /\ Rank(free, v) \in Nat
    BY <1>2, RankType
  <2>3. QED
    BY <2>1, <2>2, RankInjective
<1>3. place \in Injection(free, 1 .. n)
  BY <1>1, <1>2 DEF Injection, IsInjective
<1>4. IsFiniteSet(1 .. n) /\ Cardinality(1 .. n) = n
  BY <1>1, FS_Interval
<1>5. place \in Surjection(free, 1 .. n)
  BY <1>3, <1>4, FS_Injection
<1>6. QED
  BY <1>5 DEF Surjection

\* Sharing out gives the front of the queue away, one task to a worker, and
\* leaves tasks over only when no worker is left.
LEMMA ShareFacts ==
  ASSUME NEW free \in SUBSET Workers, queue \in Seq(Tasks),
         \A i, j \in DOMAIN queue : queue[i] = queue[j] => i = j
  PROVE  /\ \A w \in free : Share(free, w) \in Hands
         /\ \A v, w \in free : Share(free, v) \cap Share(free, w) # {} => v = w
         /\ \A i \in DOMAIN queue :
              i <= Cardinality(free) <=> \E w \in free : queue[i] \in Share(free, w)
         /\ \A w \in free : \A t \in Share(free, w) : \E i \in DOMAIN queue : queue[i] = t
         /\ \A w \in free : Share(free, w) = {} => Len(queue) <= Cardinality(free)
<1>1. /\ Cardinality(free) \in Nat
      /\ \A w \in free : Rank(free, w) \in 1 .. Cardinality(free)
  BY RankType
<1>2. Len(queue) \in Nat /\ DOMAIN queue = 1 .. Len(queue)
      /\ \A i \in DOMAIN queue : queue[i] \in Tasks
  OBVIOUS
<1>3. \A w \in free : Rank(free, w) <= Len(queue) => Rank(free, w) \in DOMAIN queue
  BY <1>1, <1>2
<1>4. \A w \in free : \A t : t \in Share(free, w) <=>
        Rank(free, w) <= Len(queue) /\ t = queue[Rank(free, w)]
  BY DEF Share
<1>5. \A w \in free : Share(free, w) \in Hands
  BY <1>2, <1>3, HandsFull DEF Share
<1>6. ASSUME NEW v \in free, NEW w \in free, Share(free, v) \cap Share(free, w) # {}
      PROVE  v = w
  <2>1. Rank(free, v) = Rank(free, w)
    BY <1>3, <1>4, <1>6
  <2>2. v \in Int /\ w \in Int /\ Rank(free, v) \in Int
    BY <1>1 DEF Workers
  <2>3. QED
    BY <2>1, <2>2, RankInjective
<1>7. ASSUME NEW i \in DOMAIN queue
      PROVE  i <= Cardinality(free) <=> \E w \in free : queue[i] \in Share(free, w)
  <2>1. ASSUME i <= Cardinality(free)
        PROVE  \E w \in free : queue[i] \in Share(free, w)
    <3>1. i \in 1 .. Cardinality(free)
      BY <1>1, <1>2, <2>1
    <3>2. PICK w \in free : Rank(free, w) = i
      BY <3>1, RankOnto
    <3>3. QED
      BY <1>2, <1>4, <3>2
  <2>2. ASSUME NEW w \in free, queue[i] \in Share(free, w)
        PROVE  i <= Cardinality(free)
    <3>1. i = Rank(free, w)
      BY <1>3, <1>4, <2>2
    <3>2. QED
      BY <1>1, <3>1
  <2>3. QED
    BY <2>1, <2>2
<1>8. \A w \in free : \A t \in Share(free, w) : \E i \in DOMAIN queue : queue[i] = t
  BY <1>3, <1>4
<1>9. \A w \in free : Share(free, w) = {} => Len(queue) <= Cardinality(free)
  BY <1>1, <1>2 DEF Share
<1>10. QED
  BY <1>5, <1>6, <1>7, <1>8, <1>9

-----------------------------------------------------------------------------
(* The invariant *)

\* A task that a worker holds was sent, whatever became of it.
HeldWasSent == \A w \in Workers : \A t \in pending[w] : phase[t] \notin {"new", "queued"}

PoolInv == PoolTypeOK /\ TasksInOnePlace /\ HeldWasSent /\ QueueWaitsOnlyAfterFailure

LEMMA HeldAreTasks ==
  ASSUME PoolTypeOK
  PROVE  \A w \in Workers : pending[w] \subseteq Tasks
<1>1. \A h \in Hands : h \subseteq Tasks
  BY DEF Hands
<1>2. QED
  BY <1>1 DEF PoolTypeOK

LEMMA FirstExists ==
  ASSUME Free # {}
  PROVE  FirstIdle \in Free /\ FirstIdle \in Workers
<1>1. Free \in SUBSET Workers
  BY DEF Free
<1>2. Cardinality(Free) \in Nat /\ Cardinality(Free) # 0
  BY <1>1, FiniteWorkers, FS_EmptySet
<1>3. 1 \in 1 .. Cardinality(Free)
  BY <1>2
<1>4. PICK w \in Free : Rank(Free, w) = 1
  BY <1>1, <1>3, RankOnto
<1>5. ASSUME NEW v \in Free
      PROVE  w <= v
  <2>1. v \in Int /\ w \in Int /\ Rank(Free, v) \in Nat /\ Rank(Free, v) >= 1
    BY <1>1, <1>2, RankType DEF Workers
  <2>2. v < w => Rank(Free, v) < Rank(Free, w)
    BY <1>1, RankInjective
  <2>3. QED
    BY <1>4, <2>1, <2>2
<1>6. QED
  BY <1>1, <1>5 DEF FirstIdle

LEMMA DispatchKeeps ==
  ASSUME PoolInv, NEW t \in Tasks, Dispatch(t)
  PROVE  PoolInv'
<1>1. /\ phase[t] = "new"
      /\ \A i \in DOMAIN queue : queue[i] # t
      /\ \A w \in Workers : t \notin pending[w]
  BY DEF PoolInv, TasksInOnePlace, HeldWasSent, Dispatch
<1>2. Sent(t) \in {"sent", "rejected"}
  BY DEF Sent
<1>3. CASE /\ Free # {} /\ UNCHANGED <<queue, alive, closing, failed>>
           /\ idle' = [idle EXCEPT ![FirstIdle] = FALSE]
           /\ pending' = [pending EXCEPT ![FirstIdle] = @ \cup {t}]
           /\ phase' = [phase EXCEPT ![t] = Sent(t)]
  <2> DEFINE w == FirstIdle
  <2>1. w \in Workers /\ w \in Free
    BY <1>3, FirstExists
  <2>2. pending[w] = {} /\ idle[w] = TRUE
    BY <2>1 DEF PoolInv, PoolTypeOK, TasksInOnePlace, Free
  <2> HIDE DEF w
  <2>3. /\ idle' = [idle EXCEPT ![w] = FALSE]
        /\ pending' = [pending EXCEPT ![w] = {t}]
        /\ phase' = [phase EXCEPT ![t] = Sent(t)]
    BY <1>3, <2>2 DEF w
  <2>4. PoolTypeOK'
    <3>1. PoolTypeOK /\ {t} \in Hands /\ Sent(t) \in Phases
      BY <1>2, HandsFull DEF PoolInv, Phases
    <3>2. UNCHANGED <<queue, alive, closing, failed>>
      BY <1>3
    <3>3. /\ idle' \in [Workers -> BOOLEAN]
          /\ pending' \in [Workers -> Hands]
          /\ phase' \in [Tasks -> Phases]
      BY <2>3, <3>1 DEF PoolTypeOK
    <3>4. QED
      BY <3>1, <3>2, <3>3 DEF PoolTypeOK
  <2>5. TasksInOnePlace'
    <3>1. /\ \A i, j \in DOMAIN queue' : queue'[i] = queue'[j] => i = j
          /\ \A u \in Tasks : phase'[u] = "queued" <=> \E i \in DOMAIN queue' : queue'[i] = u
      BY <1>1, <1>2, <1>3, <2>3 DEF PoolInv, PoolTypeOK, TasksInOnePlace
    <3>2. \A u \in Tasks : phase'[u] = "sent" => \E v \in Workers : u \in pending'[v]
      BY <1>1, <2>1, <2>2, <2>3 DEF PoolInv, PoolTypeOK, TasksInOnePlace
    <3>3. \A u, v \in Workers : pending'[u] \cap pending'[v] # {} => u = v
      BY <1>1, <2>1, <2>3 DEF PoolInv, PoolTypeOK, TasksInOnePlace
    <3>4. \A v \in Workers : idle'[v] <=> pending'[v] = {}
      BY <2>1, <2>3 DEF PoolInv, PoolTypeOK, TasksInOnePlace
    <3>5. QED
      BY <3>1, <3>2, <3>3, <3>4 DEF TasksInOnePlace
  <2>6. HeldWasSent'
    BY <1>1, <1>2, <2>3 DEF PoolInv, PoolTypeOK, HeldWasSent
  <2>7. Free' \subseteq Free
    BY <2>3 DEF Free, PoolInv, PoolTypeOK
  <2>8. QueueWaitsOnlyAfterFailure'
    BY <1>3, <2>7 DEF PoolInv, QueueWaitsOnlyAfterFailure
  <2>9. QED
    BY <2>4, <2>5, <2>6, <2>8 DEF PoolInv
<1>4. CASE /\ Free = {} /\ UNCHANGED <<idle, pending, alive, closing, failed>>
           /\ queue' = Append(queue, t)
           /\ phase' = [phase EXCEPT ![t] = "queued"]
  <2>1. queue \in Seq(Tasks)
    BY DEF PoolInv, PoolTypeOK
  <2>2. /\ queue' \in Seq(Tasks)
        /\ DOMAIN queue' = DOMAIN queue \cup {Len(queue) + 1}
        /\ Len(queue) + 1 \notin DOMAIN queue
        /\ queue'[Len(queue) + 1] = t
        /\ \A i \in DOMAIN queue : queue'[i] = queue[i]
    BY <1>4, <2>1
  <2>3. PoolTypeOK'
    BY <1>4, <2>2 DEF PoolInv, PoolTypeOK, Phases
  <2>4. TasksInOnePlace'
    <3>1. \A i, j \in DOMAIN queue' : queue'[i] = queue'[j] => i = j
      BY <1>1, <2>2 DEF PoolInv, TasksInOnePlace
    <3>2. \A u \in Tasks : phase'[u] = "queued" <=> \E i \in DOMAIN queue' : queue'[i] = u
      BY <1>1, <1>4, <2>2 DEF PoolInv, PoolTypeOK, TasksInOnePlace
    <3>3. QED
      BY <1>4, <3>1, <3>2 DEF PoolInv, PoolTypeOK, TasksInOnePlace
  <2>5. HeldWasSent'
    BY <1>1, <1>4 DEF PoolInv, PoolTypeOK, HeldWasSent
  <2>6. QueueWaitsOnlyAfterFailure'
    BY <1>4 DEF QueueWaitsOnlyAfterFailure, Free
  <2>7. QED
    BY <2>3, <2>4, <2>5, <2>6 DEF PoolInv
<1>5. QED
  BY <1>3, <1>4 DEF Dispatch

LEMMA FailKeeps ==
  ASSUME PoolInv, NEW w \in Workers, Fail(w), alive' \in [Workers -> BOOLEAN]
  PROVE  PoolInv'
<1>1. /\ phase' = [t \in Tasks |-> IF t \in pending[w] THEN "rejected" ELSE phase[t]]
      /\ pending' = [pending EXCEPT ![w] = {}]
      /\ idle' = [idle EXCEPT ![w] = TRUE]
      /\ queue' = queue /\ failed' = TRUE /\ closing' = closing
  BY DEF Fail, Settled
<1>2. PoolTypeOK'
  BY <1>1, HandsFull DEF PoolInv, PoolTypeOK, Phases
<1>3. TasksInOnePlace'
  BY <1>1 DEF PoolInv, PoolTypeOK, TasksInOnePlace, HeldWasSent
<1>4. HeldWasSent'
  BY <1>1, HeldAreTasks DEF PoolInv, PoolTypeOK, HeldWasSent
<1>5. QueueWaitsOnlyAfterFailure'
  BY <1>1 DEF QueueWaitsOnlyAfterFailure
<1>6. QED
  BY <1>2, <1>3, <1>4, <1>5 DEF PoolInv

LEMMA DrainKeeps ==
  ASSUME PoolInv, NEW w \in Workers, AnswersResult(w)
  PROVE  PoolInv'
<1> DEFINE free == Free \cup {w}
           n == Cardinality(free)
<1>1. free \in SUBSET Workers /\ queue \in Seq(Tasks) /\ n \in Nat
  BY FiniteWorkers DEF Free, PoolInv, PoolTypeOK
<1>2. \A i, j \in DOMAIN queue : queue[i] = queue[j] => i = j
  BY DEF PoolInv, TasksInOnePlace
<1>3. /\ \A v \in free : Share(free, v) \in Hands
      /\ \A u, v \in free : Share(free, u) \cap Share(free, v) # {} => u = v
      /\ \A i \in DOMAIN queue : i <= n <=> \E v \in free : queue[i] \in Share(free, v)
      /\ \A v \in free : \A t \in Share(free, v) : \E i \in DOMAIN queue : queue[i] = t
      /\ \A v \in free : Share(free, v) = {} => Len(queue) <= n
  BY <1>1, <1>2, ShareFacts
<1>4. /\ idle' = [v \in Workers |-> v \in free /\ Share(free, v) = {}]
      /\ pending' = [v \in Workers |-> IF v \in free THEN Share(free, v) ELSE pending[v]]
      /\ queue' = SubSeq(queue, n + 1, Len(queue))
      /\ phase' = [t \in Tasks |-> IF \E v \in free : t \in Share(free, v) THEN Sent(t)
                                   ELSE IF t \in pending[w] THEN "resolved" ELSE phase[t]]
      /\ failed' = FALSE /\ alive' = alive /\ closing' = closing
  BY DEF AnswersResult, ReleaseAndDrain, Settled
<1>5. /\ queue' \in Seq(Tasks)
      /\ n >= Len(queue) => queue' = <<>>
      /\ \A i \in DOMAIN queue' : i + n \in DOMAIN queue /\ queue'[i] = queue[i + n]
      /\ \A i \in DOMAIN queue : i > n => i - n \in DOMAIN queue' /\ queue'[i - n] = queue[i]
  <2>1. queue \in Seq(Tasks) /\ n \in Nat
    BY <1>1
  <2>2. queue' = SubSeq(queue, n + 1, Len(queue))
    BY <1>4
  <2> HIDE DEF n
  <2>3. QED
    BY <2>1, <2>2, RestOfQueue
<1> HIDE DEF n, free
<1>6. \A t : Sent(t) \in {"sent", "rejected"}
  BY DEF Sent
<1>a. /\ \A v \in free : idle'[v] <=> Share(free, v) = {}
      /\ \A v \in free : pending'[v] = Share(free, v)
      /\ \A v \in Workers \ free : pending'[v] = pending[v] /\ idle'[v] = FALSE
                                   /\ pending[v] # {}
  BY <1>1, <1>4 DEF PoolInv, TasksInOnePlace, Free, free
<1>b. /\ \A v \in free : \A t \in Share(free, v) :
           t \in Tasks /\ phase[t] = "queued" /\ phase'[t] = Sent(t)
      /\ \A t \in Tasks : (\A v \in free : t \notin Share(free, v)) =>
           phase'[t] = IF t \in pending[w] THEN "resolved" ELSE phase[t]
  BY <1>1, <1>3, <1>4 DEF PoolInv, TasksInOnePlace
<1>7. PoolTypeOK'
  <2>1. pending' \in [Workers -> Hands]
    BY <1>3, <1>4 DEF PoolInv, PoolTypeOK
  <2>2. phase' \in [Tasks -> Phases]
    BY <1>4, <1>6 DEF PoolInv, PoolTypeOK, Phases
  <2>3. idle' \in [Workers -> BOOLEAN]
    BY <1>4
  <2>4. QED
    BY <1>4, <1>5, <2>1, <2>2, <2>3 DEF PoolInv, PoolTypeOK
<1>8. TasksInOnePlace'
  <2>1. \A i, j \in DOMAIN queue' : queue'[i] = queue'[j] => i = j
    BY <1>1, <1>2, <1>5
  <2>2. ASSUME NEW t \in Tasks
        PROVE  phase'[t] = "queued" <=> \E i \in DOMAIN queue' : queue'[i] = t
    <3>1. ASSUME phase'[t] = "queued"
          PROVE  \E i \in DOMAIN queue' : queue'[i] = t
      <4>1. \A v \in free : t \notin Share(free, v)
        BY <1>6, <1>b, <3>1
      <4>2. phase[t] = "queued"
        BY <1>b, <3>1, <4>1
      <4>3. PICK i \in DOMAIN queue : queue[i] = t
        BY <4>2 DEF PoolInv, TasksInOnePlace
      <4>4. i > n
        BY <1>1, <1>3, <4>1, <4>3
      <4>5. QED
        BY <1>5, <4>3, <4>4
    <3>2. ASSUME NEW i \in DOMAIN queue', queue'[i] = t
          PROVE  phase'[t] = "queued"
      <4>1. i + n \in DOMAIN queue /\ queue[i + n] = t /\ ~ (i + n <= n)
        BY <1>1, <1>5, <3>2
      <4>2. phase[t] = "queued" /\ t \notin pending[w]
        BY <4>1 DEF PoolInv, TasksInOnePlace, HeldWasSent
      <4>3. \A v \in free : t \notin Share(free, v)
        BY <1>3, <4>1
      <4>4. QED
        BY <1>b, <4>2, <4>3
    <3>3. QED
      BY <3>1, <3>2
  <2>3. \A t \in Tasks : phase'[t] = "sent" => \E v \in Workers : t \in pending'[v]
    BY <1>1, <1>a, <1>b DEF PoolInv, TasksInOnePlace, free, Free
  <2>4. \A u, v \in Workers : pending'[u] \cap pending'[v] # {} => u = v
    <3>1. \A u \in free, v \in Workers \ free : pending'[u] \cap pending'[v] = {}
      BY <1>a, <1>b DEF PoolInv, HeldWasSent
    <3>2. QED
      BY <1>3, <1>a, <3>1 DEF PoolInv, TasksInOnePlace
  <2>5. \A v \in Workers : idle'[v] <=> pending'[v] = {}
    BY <1>a
  <2>6. QED
    BY <2>1, <2>2, <2>3, <2>4, <2>5 DEF TasksInOnePlace
<1>9. HeldWasSent'
  <2>1. \A v \in free : \A t \in pending'[v] : phase'[t] \notin {"new", "queued"}
    BY <1>6, <1>a, <1>b
  <2>2. \A v \in Workers \ free : \A t \in pending'[v] : phase'[t] \notin {"new", "queued"}
    BY <1>6, <1>a, <1>b, HeldAreTasks DEF PoolInv, HeldWasSent
  <2>3. QED
    BY <2>1, <2>2 DEF HeldWasSent
<1>10. QueueWaitsOnlyAfterFailure'
  <2>1. ASSUME NEW v \in Workers, idle'[v]
        PROVE  queue' = <<>>
    BY <1>1, <1>3, <1>5, <1>a, <2>1
  <2>2. QED
    BY <2>1 DEF QueueWaitsOnlyAfterFailure, Free
<1>11. QED
  BY <1>7, <1>8, <1>9, <1>10 DEF PoolInv

LEMMA PoolInvKept ==
  ASSUME PoolInv, [PoolNext]_poolVars
  PROVE  PoolInv'
<1>1. ASSUME NEW t \in Tasks, Dispatch(t)
      PROVE  PoolInv'
  BY <1>1, DispatchKeeps
<1>2. ASSUME NEW w \in Workers, AnswersResult(w)
      PROVE  PoolInv'
  BY <1>2, DrainKeeps
<1>3. ASSUME NEW w \in Workers, AnswersError(w)
      PROVE  PoolInv'
  BY <1>3, FailKeeps DEF AnswersError, PoolInv, PoolTypeOK
<1>4. ASSUME NEW w \in Workers, Dies(w)
      PROVE  PoolInv'
  <2>1. alive' \in [Workers -> BOOLEAN]
    BY <1>4 DEF Dies, PoolInv, PoolTypeOK
  <2>2. QED
    BY <1>4, <2>1, FailKeeps DEF Dies
<1>5. CASE Terminate
  BY <1>5 DEF Terminate, PoolInv, PoolTypeOK, TasksInOnePlace, HeldWasSent, QueueWaitsOnlyAfterFailure, Free
<1>6. CASE Forget
  <2>1. PoolTypeOK'
    <3>1. idle' \in [Workers -> BOOLEAN] /\ alive' \in [Workers -> BOOLEAN]
      BY <1>6 DEF Forget
    <3>2. pending' \in [Workers -> Hands]
      BY <1>6, HandsFull DEF Forget
    <3>3. phase' \in [Tasks -> Phases]
      BY <1>6 DEF Forget, PoolInv, PoolTypeOK, Phases
    <3>4. queue' \in Seq(Tasks) /\ closing' \in BOOLEAN /\ failed' \in BOOLEAN
      BY <1>6, NoTasks DEF Forget
    <3>5. QED
      BY <3>1, <3>2, <3>3, <3>4 DEF PoolTypeOK
  <2>2. TasksInOnePlace'
    BY <1>6 DEF Forget, PoolInv, PoolTypeOK, TasksInOnePlace
  <2>3. QED
    BY <1>6, <2>1, <2>2 DEF Forget, PoolInv, HeldWasSent, QueueWaitsOnlyAfterFailure
<1>7. CASE UNCHANGED poolVars
  BY <1>7 DEF poolVars, PoolInv, PoolTypeOK, TasksInOnePlace, HeldWasSent, QueueWaitsOnlyAfterFailure, Free
<1>8. QED
  BY <1>1, <1>2, <1>3, <1>4, <1>5, <1>6, <1>7 DEF PoolNext, Answers

LEMMA PoolInvAtInit == PoolInit => PoolInv
<1> SUFFICES ASSUME PoolInit PROVE PoolInv
  OBVIOUS
<1>1. PoolTypeOK
  <2>1. idle \in [Workers -> BOOLEAN] /\ alive \in [Workers -> BOOLEAN]
    BY DEF PoolInit
  <2>2. pending \in [Workers -> Hands]
    BY HandsFull DEF PoolInit
  <2>3. phase \in [Tasks -> Phases]
    BY DEF PoolInit, Phases
  <2>4. queue \in Seq(Tasks) /\ closing \in BOOLEAN /\ failed \in BOOLEAN
    BY NoTasks DEF PoolInit
  <2>5. QED
    BY <2>1, <2>2, <2>3, <2>4 DEF PoolTypeOK
<1>2. TasksInOnePlace
  BY DEF PoolInit, TasksInOnePlace
<1>3. QED
  BY <1>1, <1>2 DEF PoolInit, PoolInv, HeldWasSent, QueueWaitsOnlyAfterFailure

\* However the threads answer, fail and die and callers come and go, the pool
\* neither loses a task nor gives it to two workers.
THEOREM OnePlace == PoolSpec => []TasksInOnePlace
<1>1. PoolInv => TasksInOnePlace
  BY DEF PoolInv
<1>2. QED
  BY <1>1, PoolInvAtInit, PoolInvKept, PTL DEF PoolSpec

\* Whatever the number of workers, tasks wait beside an idle worker only
\* after a failure.
THEOREM QueueDrained == PoolSpec => []QueueWaitsOnlyAfterFailure
<1>1. PoolInv => QueueWaitsOnlyAfterFailure
  BY DEF PoolInv
<1>2. QED
  BY <1>1, PoolInvAtInit, PoolInvKept, PTL DEF PoolSpec

\* The state keeps its types.
THEOREM PoolTypes == PoolSpec => []PoolTypeOK
<1>1. PoolInv => PoolTypeOK
  BY DEF PoolInv
<1>2. QED
  BY <1>1, PoolInvAtInit, PoolInvKept, PTL DEF PoolSpec

-----------------------------------------------------------------------------
(* Integers *)

LEMMA Quotient ==
  ASSUME NEW n \in Int, NEW d \in Nat \ {0}, NEW q \in Int, NEW r \in Int,
         n = d * q + r, 0 <= r, r < d
  PROVE  n \div d = q /\ n % d = r
  OBVIOUS

LEMMA Divided ==
  ASSUME NEW n \in Int, NEW d \in Nat \ {0}
  PROVE  /\ n \div d \in Int /\ n % d \in Int /\ 0 <= n % d /\ n % d < d
         /\ n = d * (n \div d) + (n % d)
  OBVIOUS

-----------------------------------------------------------------------------
(* The types of audio files *)

ByteValue == 0 .. Byte - 1

FormatType ==
  [audioFormat : {1, 3}, bytesPerSample : {2, 3, 4}, channels : 0 .. 3, sampleRate : Nat]

ChunkType ==
  [id : {"fmt"}, body : FormatType] \cup [id : {"data"}, body : Seq(ByteValue)]
    \cup [id : {"LIST"}, body : {<<0>>}]

FileType == [riff : BOOLEAN, cut : BOOLEAN, chunks : Seq(ChunkType)]

HasChunk(file, id) == \E i \in DOMAIN file.chunks : file.chunks[i].id = id

\* A file that has been begun has a format and data.
FileInv ==
  /\ wav \in FileType
  /\ wav # NoFile => HasChunk(wav, "fmt") /\ HasChunk(wav, "data")

-----------------------------------------------------------------------------
(* Sequences and integers *)

LEMMA LastPosition ==
  ASSUME NEW n \in Nat, NEW I \in SUBSET (1 .. n), I # {}
  PROVE  \E i \in I : \A j \in I : j <= i
<1> DEFINE D == {d \in 0 .. n : n - d \in I}
<1>1. D \in SUBSET Nat /\ D # {}
  <2>1. PICK i \in I : TRUE
    OBVIOUS
  <2>2. i \in 1 .. n /\ n - i \in 0 .. n /\ n - (n - i) = i
    BY <2>1
  <2>3. n - i \in D
    BY <2>1, <2>2
  <2>4. D # {}
    BY <2>3
  <2>5. D \in SUBSET Nat
    OBVIOUS
  <2>6. QED
    BY <2>4, <2>5
<1>2. PICK d \in D : \A e \in D : ~ (<<e, d>> \in OpToRel(<, Nat))
  BY <1>1, WFMin, NatLessThanWellFounded
<1>3. d \in 0 .. n /\ n - d \in I
  BY <1>2
<1>4. ASSUME NEW j \in I, ~ j <= n - d
      PROVE  FALSE
  <2>1. n - j \in 0 .. n /\ n - (n - j) = j /\ n - j < d /\ d \in Nat
    BY <1>3, <1>4
  <2>2. n - j \in D
    BY <2>1
  <2>3. <<n - j, d>> \in OpToRel(<, Nat)
    BY <2>1 DEF OpToRel
  <2>4. QED
    BY <1>2, <2>2, <2>3
<1>5. QED
  BY <1>3, <1>4

(* The last chunk of a kind is a chunk of the kind.                         *)
LEMMA LastBodyIsChunk ==
  ASSUME NEW file \in FileType, NEW id, HasChunk(file, id)
  PROVE  \E i \in DOMAIN file.chunks : /\ file.chunks[i].id = id
                                       /\ LastBody(file, id) = file.chunks[i].body
<1> DEFINE I == {i \in DOMAIN file.chunks : file.chunks[i].id = id}
<1>1. file.chunks \in Seq(ChunkType)
  BY DEF FileType
<1>2. Len(file.chunks) \in Nat /\ I \in SUBSET (1 .. Len(file.chunks)) /\ I # {}
  BY <1>1 DEF HasChunk
<1>3. \E i \in I : \A j \in I : j <= i
  <2> HIDE DEF I
  <2>1. QED
    BY <1>2, LastPosition
<1> DEFINE last == CHOOSE i \in I : \A j \in I : j <= i
<1>4. last \in I
  <2> HIDE DEF I
  <2>1. QED
    BY <1>3
<1>5. LastBody(file, id) = file.chunks[last].body
  BY DEF LastBody
<1>6. QED
  BY <1>4, <1>5

LEMMA FileParts ==
  ASSUME NEW file \in FileType
  PROVE  /\ HasChunk(file, "fmt") => LastBody(file, "fmt") \in FormatType
         /\ HasChunk(file, "data") => LastBody(file, "data") \in Seq(ByteValue)
<1>1. \A i \in DOMAIN file.chunks : file.chunks[i] \in ChunkType
  BY DEF FileType
<1>2. \A i \in DOMAIN file.chunks :
        /\ file.chunks[i].id = "fmt" => file.chunks[i].body \in FormatType
        /\ file.chunks[i].id = "data" => file.chunks[i].body \in Seq(ByteValue)
  <2>1. \A c \in ChunkType : /\ c.id = "fmt" => c.body \in FormatType
                             /\ c.id = "data" => c.body \in Seq(ByteValue)
    BY DEF ChunkType
  <2>2. QED
    BY <1>1, <2>1
<1>3. QED
  BY <1>2, LastBodyIsChunk

-----------------------------------------------------------------------------
(* The files under test *)

LEMMA FormatsTyped == Supported \cup Unsupported \subseteq FormatType
<1>1. ASSUME NEW kinds, NEW channels, NEW rates,
             kinds \subseteq {<<1, 2>>, <<1, 3>>, <<3, 4>>, <<3, 2>>, <<1, 4>>},
             channels \subseteq 0 .. 3, rates \subseteq Nat
      PROVE  FormatsOf(kinds, channels, rates) \subseteq FormatType
  <2>1. \A kind \in kinds : kind[1] \in {1, 3} /\ kind[2] \in {2, 3, 4}
    BY <1>1
  <2>2. QED
    BY <1>1, <2>1 DEF FormatsOf, FormatType
<1>2. {1, 2} \subseteq 0 .. 3 /\ {1} \subseteq 0 .. 3 /\ {0, 3} \subseteq 0 .. 3
  OBVIOUS
<1>3. Rates \subseteq Nat /\ {TargetRate} \subseteq Nat /\ {0} \subseteq Nat
  BY AudioAssumption
<1>4. QED
  BY <1>1, <1>2, <1>3 DEF Supported, Unsupported

LEMMA BytesTyped ==
  ASSUME NEW v \in Int
  PROVE  /\ v % Byte \in ByteValue /\ (v \div Byte) % Byte \in ByteValue
         /\ (v \div (Byte * Byte)) % Byte \in ByteValue
         /\ (v \div (Byte * Byte * Byte)) % Byte \in ByteValue
<1>1. \A n \in Int : n % Byte \in ByteValue
  BY AudioAssumption DEF ByteValue
<1>2. Byte * Byte \in Nat \ {0} /\ Byte * Byte * Byte \in Nat \ {0}
  <2>1. \A x, y \in Nat \ {0} : x * y \in Nat \ {0}
    OBVIOUS
  <2>2. QED
    BY <2>1, AudioAssumption
<1>3. \A d \in Nat \ {0} : v \div d \in Int
  OBVIOUS
<1>4. QED
  BY <1>1, <1>2, <1>3, AudioAssumption

LEMMA StoredTyped ==
  ASSUME NEW width \in {2, 3, 4}, NEW bytes \in StoredSamples(width)
  PROVE  bytes \in Seq(ByteValue)
<1> DEFINE Bytes(v) == Int24LE(v) \o << (v \div Values[3]) % Byte >>
<1>1. Values[width] \div 2 \in Int
  <2>1. \A x, y \in Int : x * y \in Int
    OBVIOUS
  <2>2. Values[width] \in Int
    BY <2>1, AudioAssumption DEF Values
  <2>3. QED
    BY <2>2
<1>2. PICK v \in Int : bytes = SubSeq(Bytes(v), 1, width)
  <2> DEFINE Half == Values[width] \div 2
  <2>1. Half \in Int
    BY <1>1
  <2>2. PICK v \in {- Half, -3, -1, 2, Half - 1} : bytes = SubSeq(Bytes(v), 1, width)
    BY Zenon DEF StoredSamples
  <2> HIDE DEF Half, Bytes
  <2>3. v \in Int
    BY <2>1, <2>2
  <2>4. QED
    BY <2>2, <2>3
<1>3. Values[3] = Byte * Byte * Byte
  BY DEF Values
<1>4. Bytes(v) \in Seq(ByteValue) /\ Len(Bytes(v)) = 4
  BY <1>3, BytesTyped DEF Int24LE
<1> HIDE DEF Bytes
<1>5. QED
  BY <1>2, <1>4

(* The file of a format and data is a file, and these are its parts.        *)
LEMMA TwoChunks ==
  ASSUME NEW one \in ChunkType, NEW two \in ChunkType, one.id = "fmt", two.id = "data"
  PROVE  /\ File(<<one, two>>) \in FileType
         /\ HasChunk(File(<<one, two>>), "fmt") /\ HasChunk(File(<<one, two>>), "data")
         /\ LastBody(File(<<one, two>>), "fmt") = one.body
         /\ LastBody(File(<<one, two>>), "data") = two.body
<1> DEFINE both == <<one, two>>
           file == File(both)
<1>1. /\ both \in Seq(ChunkType) /\ DOMAIN both = 1 .. 2
      /\ both[1] = one /\ both[2] = two
  OBVIOUS
<1> HIDE DEF both
<1>2. file \in FileType /\ file.chunks = both
  BY <1>1 DEF File, FileType
<1> HIDE DEF file
<1>3. HasChunk(file, "fmt") /\ HasChunk(file, "data")
  <2>1. 1 \in DOMAIN both /\ 2 \in DOMAIN both
    BY <1>1
  <2>2. QED
    BY <1>1, <1>2, <2>1 DEF HasChunk
<1>4. PICK i \in DOMAIN both : both[i].id = "fmt" /\ LastBody(file, "fmt") = both[i].body
  BY <1>2, <1>3, LastBodyIsChunk
<1>5. PICK j \in DOMAIN both : both[j].id = "data" /\ LastBody(file, "data") = both[j].body
  BY <1>2, <1>3, LastBodyIsChunk
<1>6. i = 1 /\ j = 2
  <2>1. \A k \in 1 .. 2 : k = 1 \/ k = 2
    OBVIOUS
  <2>2. both[1].id # "data" /\ both[2].id # "fmt"
    BY <1>1
  <2>3. QED
    BY <1>1, <1>4, <1>5, <2>1, <2>2
<1>7. QED
  BY <1>1, <1>2, <1>3, <1>4, <1>5, <1>6 DEF file, both

LEMMA WithDataTyped ==
  ASSUME NEW format \in FormatType, NEW data \in Seq(ByteValue)
  PROVE  /\ WithData(format, data) \in FileType
         /\ HasChunk(WithData(format, data), "fmt") /\ HasChunk(WithData(format, data), "data")
         /\ LastBody(WithData(format, data), "fmt") = format
         /\ LastBody(WithData(format, data), "data") = data
<1> DEFINE one == [id |-> "fmt", body |-> format]
           two == [id |-> "data", body |-> data]
<1>1. /\ one \in ChunkType /\ two \in ChunkType
      /\ one.id = "fmt" /\ one.body = format /\ two.id = "data" /\ two.body = data
  BY DEF ChunkType
<1>2. WithData(format, data) = File(<<one, two>>)
  BY DEF WithData
<1> HIDE DEF one, two
<1>3. QED
  BY <1>1, <1>2, TwoChunks

LEMMA FileInit == AudioInit => FileInv
<1> SUFFICES ASSUME AudioInit PROVE FileInv
  OBVIOUS
<1>1. CASE wav = NoFile
  BY <1>1 DEF FileInv, NoFile, File, FileType
<1>2. CASE wav # NoFile
  <2>1. PICK format \in Supported \cup Unsupported : wav = WithData(format, <<>>)
    BY <1>2 DEF AudioInit
  <2>2. format \in FormatType /\ <<>> \in Seq(ByteValue)
    BY FormatsTyped
  <2>3. QED
    BY <2>1, <2>2, WithDataTyped DEF FileInv
<1>3. QED
  BY <1>1, <1>2

(* Adding a chunk keeps what is there.                                      *)
LEMMA WithChunkKeeps ==
  ASSUME FileInv, wav # NoFile, NEW chunk \in ChunkType, WithChunk(chunk)
  PROVE  FileInv'
<1>1. wav \in FileType /\ HasChunk(wav, "fmt") /\ HasChunk(wav, "data")
  BY DEF FileInv
<1>2. wav.chunks \in Seq(ChunkType)
  BY <1>1 DEF FileType
<1>3. /\ wav' = [wav EXCEPT !.chunks = Append(wav.chunks, chunk)]
      /\ Append(wav.chunks, chunk) \in Seq(ChunkType)
  BY <1>2 DEF WithChunk
<1>4. wav' \in FileType /\ wav'.chunks = Append(wav.chunks, chunk)
  BY <1>1, <1>3 DEF FileType
<1>5. ASSUME NEW id, HasChunk(wav, id)
      PROVE  HasChunk(wav', id)
  <2>1. PICK i \in DOMAIN wav.chunks : wav.chunks[i].id = id
    BY <1>5 DEF HasChunk
  <2>2. i \in DOMAIN wav'.chunks /\ wav'.chunks[i] = wav.chunks[i]
    BY <1>2, <1>4
  <2>3. QED
    BY <2>1, <2>2 DEF HasChunk
<1>6. QED
  BY <1>1, <1>4, <1>5 DEF FileInv

LEMMA FileNext == FileInv /\ [AudioNext]_wav => FileInv'
<1> SUFFICES ASSUME FileInv, [AudioNext]_wav PROVE FileInv'
  OBVIOUS
<1>1. CASE UNCHANGED wav
  BY <1>1 DEF FileInv, HasChunk
<1> SUFFICES ASSUME AudioNext PROVE FileInv'
  BY <1>1
<1>2. /\ wav # NoFile /\ wav \in FileType
      /\ HasChunk(wav, "fmt") /\ HasChunk(wav, "data")
  BY DEF AudioNext, FileInv
<1>3. wav.chunks \in Seq(ChunkType) /\ wav = [riff |-> wav.riff, cut |-> wav.cut, chunks |-> wav.chunks]
  BY <1>2 DEF FileType
<1>4. Format \in FormatType
  BY <1>2, FileParts DEF Format
<1>5. CASE AddSample
  <2> DEFINE n == Len(wav.chunks)
             last == wav.chunks[n]
  <2>1. last.id = "data"
    BY <1>5 DEF AddSample
  <2>2. PICK bytes \in StoredSamples(Format.bytesPerSample) :
          wav' = [wav EXCEPT !.chunks[n].body = last.body \o bytes]
    BY <1>5 DEF AddSample
  <2>3. n \in Nat /\ DOMAIN wav.chunks = 1 .. n
    BY <1>3
  <2>a. n \in DOMAIN wav.chunks
    <3>1. PICK i : i \in DOMAIN wav.chunks
      BY <1>2 DEF HasChunk
    <3>2. QED
      BY <2>3, <3>1
  <2>b. last \in ChunkType
    BY <1>3, <2>3, <2>a
  <2> HIDE DEF last
  <2>4. last.body \in Seq(ByteValue)
    BY <2>1, <2>b DEF ChunkType
  <2>5. bytes \in Seq(ByteValue)
    BY <1>4, StoredTyped DEF FormatType
  <2> DEFINE new == [last EXCEPT !.body = last.body \o bytes]
             chunks == [wav.chunks EXCEPT ![n] = new]
  <2>6. new \in ChunkType /\ new.id = "data"
    <3>1. last.body \o bytes \in Seq(ByteValue)
      BY <2>4, <2>5
    <3>2. last \in [id : {"data"}, body : Seq(ByteValue)]
      BY <2>1, <2>b DEF ChunkType
    <3> DEFINE body == last.body \o bytes
    <3> HIDE DEF body
    <3>3. [last EXCEPT !.body = body] \in [id : {"data"}, body : Seq(ByteValue)]
      BY <3>1, <3>2 DEF body
    <3>4. [last EXCEPT !.body = body].id = "data"
      BY <3>3
    <3>5. QED
      BY <3>3, <3>4 DEF ChunkType, body
  <2>7. wav' = [wav EXCEPT !.chunks = chunks]
    BY <2>2 DEF last
  <2> HIDE DEF new
  <2>8. chunks \in Seq(ChunkType) /\ DOMAIN chunks = DOMAIN wav.chunks
    BY <1>3, <2>3, <2>a, <2>6
  <2>9. \A i \in DOMAIN wav.chunks : chunks[i].id = wav.chunks[i].id
    BY <2>1, <2>3, <2>a, <2>6 DEF last
  <2> HIDE DEF chunks
  <2>10. wav' \in FileType /\ wav'.chunks = chunks
    BY <1>2, <2>7, <2>8 DEF FileType
  <2>11. HasChunk(wav', "fmt") /\ HasChunk(wav', "data")
    BY <1>2, <2>8, <2>9, <2>10 DEF HasChunk
  <2>12. QED
    BY <2>10, <2>11 DEF FileInv
<1>6. CASE AddChunk
  <2>1. PICK chunk : chunk \in ChunkType /\ WithChunk(chunk)
    <3>1. \A format \in Supported : [id |-> "fmt", body |-> format] \in ChunkType
      BY FormatsTyped DEF ChunkType
    <3>2. /\ [id |-> "LIST", body |-> <<0>>] \in ChunkType
          /\ [id |-> "data", body |-> <<>>] \in ChunkType
      BY DEF ChunkType
    <3>3. QED
      BY <1>6, <3>1, <3>2 DEF AddChunk
  <2>2. QED
    BY <1>2, <2>1, WithChunkKeeps
<1>7. CASE DamageFile
  <2>1. wav' \in FileType /\ wav'.chunks = wav.chunks
    BY <1>2, <1>7 DEF DamageFile, FileType
  <2>2. QED
    BY <1>2, <2>1 DEF FileInv, HasChunk
<1>8. QED
  BY <1>5, <1>6, <1>7 DEF AudioNext

LEMMA FilesTyped == AudioSpec => []FileInv
  BY FileInit, FileNext, PTL DEF AudioSpec

-----------------------------------------------------------------------------
(* What a canonicalization that is not refused has found. *)

LEMMA ReadableParts ==
  ASSUME NEW file, Readable(file)
  PROVE  /\ HasChunk(file, "fmt") /\ HasChunk(file, "data")
         /\ ParseWavFile(file).value = [format |-> LastBody(file, "fmt"),
                                        data |-> LastBody(file, "data")]
         /\ ValidFormat(LastBody(file, "fmt"))
         /\ Len(LastBody(file, "data")) %
              (LastBody(file, "fmt").bytesPerSample * LastBody(file, "fmt").channels) = 0
<1> DEFINE Complete == /\ file.riff /\ ~ file.cut
                       /\ {"fmt", "data"} \subseteq {file.chunks[i].id : i \in DOMAIN file.chunks}
           parts == [format |-> LastBody(file, "fmt"), data |-> LastBody(file, "data")]
<1>1. ParseWavFile(file) = IF Complete THEN Outcome(TRUE, parts) ELSE Refused
  BY DEF ParseWavFile
<1> HIDE DEF Complete
<1>2. Complete
  BY <1>1 DEF Readable, Refused, Outcome
<1>3. ParseWavFile(file).value = parts
  BY <1>1, <1>2 DEF Outcome
<1>4. HasChunk(file, "fmt") /\ HasChunk(file, "data")
  BY <1>2 DEF Complete, HasChunk
<1>5. parts.format = LastBody(file, "fmt") /\ parts.data = LastBody(file, "data")
  OBVIOUS
<1>6. QED
  BY <1>3, <1>4, <1>5 DEF Readable

LEMMA SampleCount ==
  ASSUME NEW data \in Seq(ByteValue), NEW width \in {2, 3, 4}
  PROVE  /\ Len(data) \div width \in Nat
         /\ DOMAIN Samples(data, width) = 1 .. Len(data) \div width
         /\ Len(Samples(data, width)) = Len(data) \div width
<1> DEFINE n == Len(data) \div width
<1>1. n \in Nat
  OBVIOUS
<1>2. Samples(data, width) = [i \in 1 .. n |-> SubSeq(data, (i - 1) * width + 1, i * width)]
  BY DEF Samples
<1> HIDE DEF n
<1>3. DOMAIN Samples(data, width) = 1 .. n /\ Len(Samples(data, width)) = n
  BY <1>1, <1>2
<1>4. QED
  BY <1>1, <1>3 DEF n

LEMMA SampleBytes ==
  ASSUME NEW data \in Seq(ByteValue), NEW width \in {2, 3, 4},
         NEW i \in DOMAIN Samples(data, width)
  PROVE  /\ Samples(data, width)[i] \in Seq(ByteValue)
         /\ Len(Samples(data, width)[i]) = width
         /\ \A p \in 1 .. width : /\ (i - 1) * width + p \in DOMAIN data
                                  /\ Samples(data, width)[i][p] = data[(i - 1) * width + p]
<1> DEFINE n == Len(data) \div width
           a == (i - 1) * width + 1
           s == Samples(data, width)[i]
<1>1. Len(data) \in Nat /\ n \in Nat /\ DOMAIN data = 1 .. Len(data) /\ i \in 1 .. n
  BY SampleCount
<1>2. a \in Nat \ {0} /\ i * width = a + width - 1 /\ i * width <= Len(data)
  <2>1. CASE width = 2
    BY <1>1, <2>1
  <2>2. CASE width = 3
    BY <1>1, <2>2
  <2>3. CASE width = 4
    BY <1>1, <2>3
  <2>4. QED
    BY <2>1, <2>2, <2>3
<1>3. s = SubSeq(data, a, i * width)
  <2> HIDE DEF n
  <2>1. Samples(data, width) = [j \in 1 .. n |-> SubSeq(data, (j - 1) * width + 1, j * width)]
    BY DEF Samples, n
  <2>2. QED
    BY <1>1, <2>1
<1>4. (i - 1) * width = a - 1
  <2>1. (i - 1) * width \in Int
    BY <1>1
  <2>2. QED
    BY <2>1
<1> DEFINE b == i * width
<1>5. a \in Int /\ b \in Int /\ a <= b /\ b - a + 1 = width /\ width \in Nat
  BY <1>2
<1>a. s = SubSeq(data, a, b) /\ b <= Len(data)
  BY <1>2, <1>3
<1> HIDE DEF a, b, s
<1>b. a \in Nat \ {0}
  BY <1>2
<1>6. \A p \in a .. b : data[p] \in ByteValue
  <2>1. \A p \in a .. b : p \in 1 .. Len(data)
    BY <1>1, <1>a, <1>b, <1>5
  <2>2. QED
    BY <1>1, <2>1
<1>7. s \in Seq(ByteValue) /\ Len(s) = b - a + 1 /\ \A p \in 1 .. b - a + 1 : s[p] = data[a + p - 1]
  BY <1>a, <1>5, <1>6, SubSeqProperties
<1>8. \A p \in 1 .. width : a - 1 + p \in DOMAIN data /\ a - 1 + p = a + p - 1
  BY <1>1, <1>a, <1>b, <1>5
<1>9. QED
  BY <1>4, <1>5, <1>7, <1>8 DEF s

(* For every file: the bytes that the worker makes of it are the ones that  *)
(* the server makes of it, if the server accepts it (dsp-worker.js:97-187). *)
THEOREM WorkerMakesTheSame == AudioSpec => []WorkerAgrees
<1>1. FileInv => WorkerAgrees
  <2> SUFFICES ASSUME FileInv, canonical.ok
               PROVE  WorkerCanonicalize(wav) = canonical
    BY DEF WorkerAgrees
  <2>1. Readable(wav)
    BY DEF canonical, CanonicalizeWavTo24BitLE, Refused, Outcome
  <2>2. /\ ParseWavFile(wav).value = [format |-> Format, data |-> Data]
        /\ ValidFormat(Format) /\ HasChunk(wav, "fmt") /\ HasChunk(wav, "data")
    BY <2>1, ReadableParts DEF Format, Data
  <2>3. canonical = Canonical(DecodePcmSamplesToInt32(Data, Format), Format)
    BY <2>1, <2>2 DEF canonical, CanonicalizeWavTo24BitLE
  <2>4. WorkerCanonicalize(wav) = Canonical(WorkerDecode(Data, Format), Format)
    BY <2>1, <2>2 DEF WorkerCanonicalize
  <2>5. DecodePcmSamplesToInt32(Data, Format).ok
    BY <2>3 DEF Canonical, Refused, Outcome
  <2>6. Format \in FormatType /\ Data \in Seq(ByteValue)
    BY <2>2, FileParts DEF FileInv, Format, Data
  <2> DEFINE width == Format.bytesPerSample
             samples == Samples(Data, width)
  <2>7. /\ width \in {2, 3, 4}
        /\ Format.audioFormat = 3 => \A i \in DOMAIN samples : Len(samples[i]) = 4
    BY <2>2, <2>6, SampleBytes DEF FormatType, ValidFormat
  <2>8. Format.audioFormat = 3 => \A i \in DOMAIN samples : FloatOf(samples[i]).kind = "finite"
    BY <2>5 DEF DecodePcmSamplesToInt32, Refused, Outcome
  <2>9. DecodePcmSamplesToInt32(Data, Format) =
          Outcome(TRUE, [i \in DOMAIN samples |-> DecodeSample(samples[i])])
    BY <2>8 DEF DecodePcmSamplesToInt32
  <2> DEFINE FromAnyFloat(f) ==
               CASE f.kind = "nan" -> 0
                 [] f.kind = "+inf" -> MaxInt32
                 [] f.kind = "-inf" -> - MaxInt32 - 1
                 [] f.kind = "finite" -> FromFloat(f)
  <2>10. WorkerDecode(Data, Format) =
           Outcome(TRUE, [i \in DOMAIN samples |->
             IF Format.audioFormat = 3 THEN FromAnyFloat(FloatOf(samples[i]))
                                       ELSE DecodeSample(samples[i])])
    BY DEF WorkerDecode
  <2>11. ASSUME NEW i \in DOMAIN samples, Format.audioFormat = 3
         PROVE  FromAnyFloat(FloatOf(samples[i])) = DecodeSample(samples[i])
    <3>1. FloatOf(samples[i]).kind = "finite" /\ Len(samples[i]) = 4
      BY <2>7, <2>8, <2>11
    <3>2. DecodeSample(samples[i]) = FromFloat(FloatOf(samples[i]))
      BY <3>1 DEF DecodeSample
    <3> DEFINE f == FloatOf(samples[i])
    <3>3. f.kind = "finite"
      BY <3>1
    <3> HIDE DEF f
    <3>4. FromAnyFloat(f) = FromFloat(f)
      BY <3>3
    <3>5. QED
      BY <3>2, <3>4 DEF f
  <2> HIDE DEF FromAnyFloat, samples
  <2>12. WorkerDecode(Data, Format) = DecodePcmSamplesToInt32(Data, Format)
    BY <2>9, <2>10, <2>11
  <2>13. QED
    BY <2>3, <2>4, <2>12
<1>2. QED
  BY <1>1, FilesTyped, PTL

-----------------------------------------------------------------------------
(* Three bytes of a sample *)

Range24 == - (Values[3] \div 2) .. Values[3] \div 2 - 1

\* How many values integers of one, two and three bytes have.
LEMMA Widths24 ==
  \E h2, h3 \in Nat : /\ Values[2] = Byte * Byte /\ Values[2] = 2 * h2 /\ Values[2] \div 2 = h2
                      /\ Values[3] = Byte * Byte * Byte /\ Values[3] = 2 * h3
                      /\ Values[3] \div 2 = h3 /\ h3 = Byte * h2
                      /\ Byte \in Nat \ {0} /\ h2 > 0 /\ h3 > 0
<1>1. Byte \in Nat \ {0} /\ Byte % 2 = 0
  BY AudioAssumption
<1>2. PICK m \in Nat : Byte = 2 * m /\ m > 0
  <2>1. Byte = 2 * (Byte \div 2) /\ Byte \div 2 \in Nat /\ Byte \div 2 > 0
    BY <1>1
  <2>2. QED
    BY <2>1
<1> DEFINE h2 == m * Byte
           h3 == Byte * h2
<1>3. \A x, y \in Nat : x * y \in Nat /\ (x > 0 /\ y > 0 => x * y > 0)
  OBVIOUS
<1>4. h2 \in Nat /\ h3 \in Nat /\ h2 > 0 /\ h3 > 0
  BY <1>1, <1>2, <1>3
<1>5. Byte * Byte = 2 * h2 /\ Byte * Byte * Byte = 2 * h3
  BY <1>1, <1>2
<1> HIDE DEF h2, h3
<1>6. (2 * h2) \div 2 = h2 /\ (2 * h3) \div 2 = h3
  BY <1>4
<1>7. Values[2] = Byte * Byte /\ Values[3] = Byte * Byte * Byte
  BY DEF Values
<1>8. QED
  BY <1>1, <1>4, <1>5, <1>6, <1>7 DEF h3

\* The number of three digits, and a multiple of what they can count.
Number(b, r1, r2, r3, q) == r1 + b * (r2 + b * r3) + b * b * b * q

LEMMA Digits ==
  ASSUME NEW b \in Nat \ {0},
         NEW r1 \in 0 .. b - 1, NEW r2 \in 0 .. b - 1, NEW r3 \in 0 .. b - 1, NEW q \in Int
  PROVE  /\ Number(b, r1, r2, r3, q) % b = r1
         /\ (Number(b, r1, r2, r3, q) \div b) % b = r2
         /\ (Number(b, r1, r2, r3, q) \div (b * b)) % b = r3
<1> DEFINE v == Number(b, r1, r2, r3, q)
<1> USE DEF Number
<1>1. v \div b = r2 + b * (r3 + b * q) /\ v % b = r1
  <2> DEFINE d == r2 + b * (r3 + b * q)
  <2>1. d \in Int /\ v = b * d + r1
    OBVIOUS
  <2> HIDE DEF d
  <2>2. v \div b = d /\ v % b = r1
    BY <2>1, Quotient
  <2>3. QED
    BY <2>2 DEF d
<1>2. (r2 + b * (r3 + b * q)) % b = r2
  <2> DEFINE d == r3 + b * q
  <2>1. d \in Int
    OBVIOUS
  <2> HIDE DEF d
  <2>2. (r2 + b * d) % b = r2
    <3>1. r2 + b * d \in Int /\ r2 + b * d = b * d + r2
      BY <2>1
    <3>2. QED
      BY <2>1, <3>1, Quotient
  <2>3. QED
    BY <2>2 DEF d
<1>3. v \div (b * b) = r3 + b * q
  <2> DEFINE d == r3 + b * q
             r == r1 + b * r2
             bb == b * b
  <2>1. d \in Int /\ r \in Int /\ bb \in Nat \ {0} /\ v = bb * d + r
    OBVIOUS
  <2>2. 0 <= r /\ r < bb
    <3>1. b * r2 <= b * (b - 1) /\ 0 <= b * r2
      OBVIOUS
    <3>2. b * (b - 1) = b * b - b
      OBVIOUS
    <3>3. b * r2 \in Int /\ b * b \in Int
      OBVIOUS
    <3>4. QED
      BY <3>1, <3>2, <3>3
  <2> HIDE DEF d, r, bb
  <2>3. v \div bb = d
    BY <2>1, <2>2, Quotient
  <2>4. QED
    BY <2>3 DEF d, bb
<1>4. (r3 + b * q) % b = r3
  <2>1. r3 + b * q \in Int /\ r3 + b * q = b * q + r3
    OBVIOUS
  <2>2. QED
    BY <2>1, Quotient
<1>5. QED
  BY <1>1, <1>2, <1>3, <1>4

(* The digits of a number.                                                  *)
LEMMA HasDigits ==
  ASSUME NEW b \in Nat \ {0}, NEW v \in Int
  PROVE  /\ v % b \in 0 .. b - 1 /\ (v \div b) % b \in 0 .. b - 1
         /\ (v \div (b * b)) % b \in 0 .. b - 1
         /\ \E q \in Int :
              v = Number(b, v % b, (v \div b) % b, (v \div (b * b)) % b, q)
<1> DEFINE q1 == v \div b
           q2 == q1 \div b
           q3 == q2 \div b
           r1 == v % b
           r2 == q1 % b
           r3 == q2 % b
<1>1. /\ q1 \in Int /\ r1 \in Int /\ 0 <= r1 /\ r1 < b /\ v = b * q1 + r1
  BY Divided
<1> HIDE DEF q1, r1
<1>2. /\ q2 \in Int /\ r2 \in Int /\ 0 <= r2 /\ r2 < b /\ q1 = b * q2 + r2
  BY <1>1, Divided
<1> HIDE DEF q2, r2
<1>3. /\ q3 \in Int /\ r3 \in Int /\ 0 <= r3 /\ r3 < b /\ q2 = b * q3 + r3
  BY <1>2, Divided
<1> HIDE DEF q3, r3
<1>4. r1 \in 0 .. b - 1 /\ r2 \in 0 .. b - 1 /\ r3 \in 0 .. b - 1
  BY <1>1, <1>2, <1>3
<1>5. v = Number(b, r1, r2, r3, q3)
  <2>1. v = b * (b * (b * q3 + r3) + r2) + r1
    BY <1>1, <1>2, <1>3
  <2>2. QED
    BY <1>1, <1>2, <1>3, <2>1 DEF Number
<1>6. v % b = r1 /\ (v \div b) % b = r2 /\ (v \div (b * b)) % b = r3
  <2>1. q3 \in Int
    BY <1>3
  <2>2. QED
    BY <1>4, <1>5, <2>1, Digits
<1>7. QED
  BY <1>3, <1>4, <1>5, <1>6

(* A number of three digits is in the range of its width.                   *)
LEMMA Unsigned24 ==
  ASSUME NEW b \in Nat \ {0},
         NEW r1 \in 0 .. b - 1, NEW r2 \in 0 .. b - 1, NEW r3 \in 0 .. b - 1
  PROVE  /\ r1 + b * r2 \in 0 .. b * b - 1
         /\ r1 + b * (r2 + b * r3) \in 0 .. b * b * b - 1
<1>1. ASSUME NEW c \in Nat \ {0}, NEW x \in 0 .. b - 1, NEW y \in 0 .. c - 1
      PROVE  x + b * y \in 0 .. b * c - 1
  <2>1. b * y <= b * (c - 1) /\ 0 <= b * y /\ b * y \in Int
    OBVIOUS
  <2>2. b * (c - 1) = b * c - b /\ b * c \in Int
    OBVIOUS
  <2>3. QED
    BY <2>1, <2>2
<1>2. r1 + b * r2 \in 0 .. b * b - 1
  BY <1>1
<1>3. r2 + b * r3 \in 0 .. b * b - 1 /\ b * b \in Nat \ {0}
  BY <1>1
<1>4. r1 + b * (r2 + b * r3) \in 0 .. b * (b * b) - 1
  <2> DEFINE y == r2 + b * r3
             c == b * b
  <2>1. y \in 0 .. c - 1 /\ c \in Nat \ {0}
    BY <1>3
  <2> HIDE DEF y, c
  <2>2. r1 + b * y \in 0 .. b * c - 1
    BY <1>1, <2>1
  <2>3. QED
    BY <2>2 DEF y, c
<1>5. b * (b * b) = b * b * b
  OBVIOUS
<1>6. QED
  BY <1>2, <1>4, <1>5

(* What the three bytes of any integer are read as has the same three bytes, *)
(* and is the integer itself if it is in the range of 24 bits.              *)
LEMMA WriteThenRead ==
  ASSUME NEW v \in Int, NEW bytes, \A p \in 1 .. 3 : bytes[p] = Int24LE(v)[p]
  PROVE  /\ Int24(bytes) \in Int
         /\ Int24LE(Int24(bytes)) = Int24LE(v)
         /\ v \in Range24 => Int24(bytes) = v
<1> DEFINE b == Byte
           r1 == v % b
           r2 == (v \div b) % b
           r3 == (v \div (b * b)) % b
           u == r1 + b * (r2 + b * r3)
           c == b * b * b
<1>1. PICK h2, h3 \in Nat : /\ Values[3] = c /\ c = 2 * h3 /\ Values[3] \div 2 = h3
                            /\ b \in Nat \ {0} /\ h3 > 0
  BY Widths24
<1>2. /\ r1 \in 0 .. b - 1 /\ r2 \in 0 .. b - 1 /\ r3 \in 0 .. b - 1
      /\ \E q \in Int : v = Number(b, r1, r2, r3, q)
  BY <1>1, HasDigits
<1>3. PICK q \in Int : v = u + c * q
  BY <1>2 DEF Number
<1>4. Int24LE(v) = <<r1, r2, r3>>
  BY DEF Int24LE
<1>5. bytes[1] = r1 /\ bytes[2] = r2 /\ bytes[3] = r3
  <2>1. 1 \in 1 .. 3 /\ 2 \in 1 .. 3 /\ 3 \in 1 .. 3
    OBVIOUS
  <2> HIDE DEF r1, r2, r3
  <2>2. QED
    BY <1>4, <2>1
<1>6. Int24(bytes) = IF u < h3 THEN u ELSE u - c
  BY <1>1, <1>5 DEF Int24, Signed
<1>b. b \in Nat \ {0}
  BY <1>1
<1> HIDE DEF r1, r2, r3, b
<1>7. u \in 0 .. c - 1 /\ c \in Nat /\ u \in Int
  <2>1. u \in 0 .. c - 1
    BY <1>2, <1>b, Unsigned24
  <2>2. c \in Nat
    BY <1>1
  <2>3. QED
    BY <2>1, <2>2
<1>8. PICK e \in Int : Int24(bytes) = Number(b, r1, r2, r3, e)
  <2>1. u = Number(b, r1, r2, r3, 0) /\ u - c = Number(b, r1, r2, r3, -1)
    BY <1>7 DEF Number
  <2>2. QED
    BY <1>6, <2>1
<1>9. Int24(bytes) \in Int
  BY <1>6, <1>7
<1>10. /\ Int24(bytes) % b = r1 /\ (Int24(bytes) \div b) % b = r2
       /\ (Int24(bytes) \div (b * b)) % b = r3
  <2> DEFINE w == Int24(bytes)
  <2>1. /\ b \in Nat \ {0} /\ w \in Int /\ e \in Int /\ w = Number(b, r1, r2, r3, e)
        /\ r1 \in 0 .. b - 1 /\ r2 \in 0 .. b - 1 /\ r3 \in 0 .. b - 1
    BY <1>2, <1>b, <1>8, <1>9
  <2> HIDE DEF w
  <2>2. w % b = r1 /\ (w \div b) % b = r2 /\ (w \div (b * b)) % b = r3
    BY <2>1, Digits
  <2>3. QED
    BY <2>2 DEF w
<1>11. Int24LE(Int24(bytes)) = <<r1, r2, r3>>
  BY <1>10 DEF Int24LE, b
<1>12. ASSUME v \in Range24
       PROVE  Int24(bytes) = v
  <2>1. v \in - h3 .. h3 - 1
    BY <1>1, <1>12 DEF Range24
  <2> HIDE DEF u, c
  <2>2. q = 0 \/ q = -1
    <3>1. CASE q >= 1
      <4>1. c * q >= c
        BY <1>7, <3>1
      <4>2. QED
        BY <1>1, <1>3, <1>7, <2>1, <4>1
    <3>2. CASE q <= -2
      <4>1. c * q <= c * (-2)
        BY <1>7, <3>2
      <4>2. c * q <= - (2 * c) /\ c * q \in Int
        BY <1>7, <4>1
      <4>3. QED
        BY <1>1, <1>3, <1>7, <2>1, <4>2
    <3>3. QED
      BY <3>1, <3>2
  <2>3. QED
    BY <1>1, <1>3, <1>6, <1>7, <2>1, <2>2
<1>13. QED
  BY <1>4, <1>9, <1>11, <1>12

(* What 16 and 24 bits are decoded to is in the range of 24 bits.           *)
LEMMA DecodedRange ==
  ASSUME NEW bytes \in Seq(ByteValue), Len(bytes) \in {2, 3}
  PROVE  DecodeSample(bytes) \in Range24
<1>1. PICK h2, h3 \in Nat :
        /\ Values[2] = Byte * Byte /\ Values[2] = 2 * h2 /\ Values[2] \div 2 = h2
        /\ Values[3] = Byte * Byte * Byte /\ Values[3] = 2 * h3
        /\ Values[3] \div 2 = h3 /\ h3 = Byte * h2
        /\ Byte \in Nat \ {0} /\ h2 > 0 /\ h3 > 0
  BY Widths24
<1>2. CASE Len(bytes) = 3
  <2>1. bytes[1] \in 0 .. Byte - 1 /\ bytes[2] \in 0 .. Byte - 1 /\ bytes[3] \in 0 .. Byte - 1
    <3>1. bytes[1] \in ByteValue /\ bytes[2] \in ByteValue /\ bytes[3] \in ByteValue
      BY <1>2
    <3>2. QED
      BY <3>1 DEF ByteValue
  <2> DEFINE u == bytes[1] + Byte * (bytes[2] + Byte * bytes[3])
  <2>2. u \in 0 .. 2 * h3 - 1
    BY <1>1, <2>1, Unsigned24
  <2>3. DecodeSample(bytes) = IF u < h3 THEN u ELSE u - 2 * h3
    <3>1. DecodeSample(bytes) = Int24(bytes)
      BY <1>2 DEF DecodeSample
    <3>2. Int24(bytes) = Signed(u, 3)
      BY DEF Int24
    <3> HIDE DEF u
    <3>3. QED
      BY <1>1, <3>1, <3>2 DEF Signed
  <2> HIDE DEF u
  <2>4. DecodeSample(bytes) \in - h3 .. h3 - 1
    BY <1>1, <2>2, <2>3
  <2>5. QED
    BY <1>1, <2>4 DEF Range24
<1>3. CASE Len(bytes) = 2
  <2>1. bytes[1] \in 0 .. Byte - 1 /\ bytes[2] \in 0 .. Byte - 1
    <3>1. 1 \in DOMAIN bytes /\ 2 \in DOMAIN bytes
      BY <1>3
    <3>2. bytes[1] \in ByteValue /\ bytes[2] \in ByteValue
      BY <3>1
    <3>3. QED
      BY <3>2 DEF ByteValue
  <2> DEFINE u == bytes[1] + Byte * bytes[2]
             s == IF u < h2 THEN u ELSE u - 2 * h2
  <2>2. u \in 0 .. 2 * h2 - 1
    <3>1. u \in 0 .. Byte * Byte - 1
      BY <1>1, <2>1, Unsigned24
    <3>2. QED
      BY <1>1, <3>1
  <2>3. DecodeSample(bytes) = s * Byte
    <3>1. DecodeSample(bytes) = Int16(bytes) * Byte
      BY <1>3 DEF DecodeSample
    <3>2. Int16(bytes) = Signed(u, 2)
      BY DEF Int16
    <3> HIDE DEF u
    <3>3. Signed(u, 2) = s
      BY <1>1 DEF Signed
    <3>4. QED
      BY <3>1, <3>2, <3>3
  <2> HIDE DEF u
  <2>4. s \in Int /\ - h2 <= s /\ s <= h2 - 1
    BY <1>1, <2>2
  <2> HIDE DEF s
  <2>5. Byte * (- h2) <= s * Byte /\ s * Byte <= Byte * (h2 - 1) /\ s * Byte \in Int
    BY <1>1, <2>4
  <2>6. Byte * (- h2) = - h3 /\ Byte * (h2 - 1) = h3 - Byte
    BY <1>1
  <2>7. s * Byte \in - h3 .. h3 - 1
    BY <1>1, <2>5, <2>6
  <2>8. QED
    BY <1>1, <2>3, <2>7 DEF Range24
<1>4. QED
  BY <1>2, <1>3

(* A sample of 16 or 24 bits is decoded to what its three bytes are read as, *)
(* and is written as these three bytes.                                     *)
LEMMA DecodedIsWidened ==
  ASSUME NEW bytes \in Seq(ByteValue), Len(bytes) \in {2, 3}
  PROVE  /\ Widened(bytes) \in Seq(ByteValue) /\ Len(Widened(bytes)) = 3
         /\ Int24(Widened(bytes)) = DecodeSample(bytes)
         /\ \A p \in 1 .. 3 : Widened(bytes)[p] = Int24LE(DecodeSample(bytes))[p]
<1> DEFINE w == Widened(bytes)
<1>1. PICK h2, h3 \in Nat :
        /\ Values[2] = Byte * Byte /\ Values[2] = 2 * h2 /\ Values[2] \div 2 = h2
        /\ Values[3] = Byte * Byte * Byte /\ Values[3] = 2 * h3
        /\ Values[3] \div 2 = h3 /\ h3 = Byte * h2
        /\ Byte \in Nat \ {0} /\ h2 > 0 /\ h3 > 0
  BY Widths24
<1>2. /\ w \in Seq(ByteValue) /\ Len(w) = 3
      /\ w[1] \in 0 .. Byte - 1 /\ w[2] \in 0 .. Byte - 1 /\ w[3] \in 0 .. Byte - 1
      /\ Len(bytes) = 2 => w[1] = 0 /\ w[2] = bytes[1] /\ w[3] = bytes[2]
      /\ Len(bytes) = 3 => w = bytes
  <2>1. CASE Len(bytes) = 3
    <3>1. w = bytes
      BY <2>1 DEF Widened
    <3>2. bytes[1] \in ByteValue /\ bytes[2] \in ByteValue /\ bytes[3] \in ByteValue
      BY <2>1
    <3> HIDE DEF w
    <3>3. QED
      BY <2>1, <3>1, <3>2 DEF ByteValue
  <2>2. CASE Len(bytes) = 2
    <3>1. w = <<0>> \o bytes
      BY <2>2 DEF Widened
    <3>2. bytes[1] \in ByteValue /\ bytes[2] \in ByteValue
      <4>1. 1 \in DOMAIN bytes /\ 2 \in DOMAIN bytes
        BY <2>2
      <4>2. QED
        BY <4>1
    <3>3. w \in Seq(ByteValue) /\ Len(w) = 3 /\ w[1] = 0 /\ w[2] = bytes[1] /\ w[3] = bytes[2]
      <4>1. 0 \in ByteValue
        BY <1>1 DEF ByteValue
      <4>2. <<0>> \in Seq(ByteValue) /\ Len(<<0>>) = 1 /\ <<0>>[1] = 0
        BY <4>1
      <4> DEFINE zero == <<0>>
      <4>3. w = zero \o bytes
        BY <3>1
      <4>4. zero \in Seq(ByteValue) /\ Len(zero) = 1 /\ zero[1] = 0
        BY <4>2
      <4> HIDE DEF zero, w
      <4>5. QED
        BY <2>2, <4>3, <4>4, ConcatProperties
    <3> HIDE DEF w
    <3>4. QED
      BY <1>1, <2>2, <3>2, <3>3 DEF ByteValue
  <2>3. QED
    BY <2>1, <2>2
<1> HIDE DEF w
<1> DEFINE u == w[1] + Byte * (w[2] + Byte * w[3])
<1>3. u \in 0 .. 2 * h3 - 1
  BY <1>1, <1>2, Unsigned24
<1>4. Int24(w) = IF u < h3 THEN u ELSE u - 2 * h3
  <2>1. Int24(w) = Signed(u, 3)
    BY DEF Int24
  <2> HIDE DEF u
  <2>2. QED
    BY <1>1, <2>1 DEF Signed
<1>5. Int24(w) = DecodeSample(bytes)
  <2>1. CASE Len(bytes) = 3
    BY <1>2, <2>1 DEF DecodeSample
  <2>2. CASE Len(bytes) = 2
    <3> DEFINE x == bytes[1] + Byte * bytes[2]
    <3>1. bytes[1] \in Nat /\ bytes[2] \in Nat /\ u = 0 + Byte * (bytes[1] + Byte * bytes[2])
      BY <1>2, <2>2
    <3>2. x \in Nat /\ u = Byte * x
      BY <1>1, <3>1
    <3>3. DecodeSample(bytes) = (IF x < h2 THEN x ELSE x - 2 * h2) * Byte
      <4>1. DecodeSample(bytes) = Signed(x, 2) * Byte
        BY <2>2 DEF DecodeSample, Int16
      <4> HIDE DEF x
      <4>2. QED
        BY <1>1, <4>1 DEF Signed
    <3> HIDE DEF x, u
    <3>4. CASE x < h2
      <4>1. Byte * (x + 1) <= Byte * h2 /\ Byte * (x + 1) = Byte * x + Byte /\ Byte * x \in Int
        BY <1>1, <3>2, <3>4
      <4>2. u < h3
        BY <1>1, <3>2, <4>1
      <4>3. x * Byte = Byte * x
        BY <1>1, <3>2
      <4>4. QED
        BY <1>4, <3>2, <3>3, <3>4, <4>2, <4>3
    <3>5. CASE ~ x < h2
      <4>1. Byte * h2 <= Byte * x /\ Byte * x \in Int
        BY <1>1, <3>2, <3>5
      <4>2. ~ u < h3
        BY <1>1, <3>2, <4>1
      <4>3. (x - 2 * h2) * Byte = Byte * x - 2 * (Byte * h2)
        BY <1>1, <3>2
      <4>4. QED
        BY <1>1, <1>4, <3>2, <3>3, <3>5, <4>2, <4>3
    <3>6. QED
      BY <3>4, <3>5
  <2>3. QED
    BY <2>1, <2>2
<1>6. Int24LE(Int24(w)) = <<w[1], w[2], w[3]>>
  <2> DEFINE b == Byte
             r1 == w[1]
             r2 == w[2]
             r3 == w[3]
             v == Int24(w)
             c == b * b * b
  <2>1. /\ b \in Nat \ {0} /\ c = 2 * h3
        /\ r1 \in 0 .. b - 1 /\ r2 \in 0 .. b - 1 /\ r3 \in 0 .. b - 1
    BY <1>1, <1>2
  <2>2. u = r1 + b * (r2 + b * r3)
    OBVIOUS
  <2> HIDE DEF b, r1, r2, r3, c, u
  <2>3. PICK q \in Int : v = Number(b, r1, r2, r3, q)
    <3>1. r1 + b * (r2 + b * r3) \in Int
      BY <2>1
    <3>2. u = Number(b, r1, r2, r3, 0) /\ u - 2 * h3 = Number(b, r1, r2, r3, -1)
      BY <2>1, <2>2, <3>1 DEF Number, c
    <3>3. QED
      BY <1>4, <3>2
  <2> HIDE DEF v
  <2>4. v % b = r1 /\ (v \div b) % b = r2 /\ (v \div (b * b)) % b = r3
    BY <2>1, <2>3, Digits
  <2>5. QED
    BY <2>4 DEF Int24LE, b, r1, r2, r3, v
<1>7. \A p \in 1 .. 3 : w[p] = Int24LE(DecodeSample(bytes))[p]
  <2>1. Int24LE(DecodeSample(bytes)) = <<w[1], w[2], w[3]>>
    BY <1>5, <1>6
  <2>2. \A p \in 1 .. 3 : p = 1 \/ p = 2 \/ p = 3
    OBVIOUS
  <2>3. QED
    BY <2>1, <2>2
<1>8. QED
  BY <1>2, <1>5, <1>7 DEF w

-----------------------------------------------------------------------------
(* Samples, decoded, resampled and written *)

LEMMA FloatIsInt ==
  ASSUME NEW bytes \in [1 .. 4 -> 0 .. Byte - 1], FloatOf(bytes).kind = "finite"
  PROVE  FromFloat(FloatOf(bytes)) \in Int
<1> DEFINE f == FloatOf(bytes)
<1>1. f.num \in Int /\ f.den \in Nat \ {0}
  BY AudioAssumption
<1> HIDE DEF f
<1>2. MaxInt32 \in Int
  <2>1. \A x, y \in Int : x * y \in Int
    OBVIOUS
  <2>2. Values[4] \in Int
    BY <2>1, AudioAssumption DEF Values
  <2>3. QED
    BY <2>2 DEF MaxInt32
<1>3. f.num * MaxInt32 \in Int
  BY <1>1, <1>2
<1>4. Truncated(f.num * MaxInt32, f.den) \in Int
  <2> DEFINE m == f.num * MaxInt32
  <2>1. m \in Int
    BY <1>3
  <2> HIDE DEF m
  <2>2. m \div f.den \in Int /\ - ((- m) \div f.den) \in Int
    BY <1>1, <2>1
  <2>3. Truncated(m, f.den) \in Int
    BY <2>2 DEF Truncated
  <2>4. QED
    BY <2>3 DEF m
<1>5. QED
  BY <1>2, <1>4 DEF FromFloat, Clamped, f

LEMMA FormatSamples ==
  ASSUME NEW format \in FormatType, NEW data \in Seq(ByteValue), ValidFormat(format),
         NEW n, n = Len(data) \div format.bytesPerSample
  PROVE  /\ n \in Nat /\ DOMAIN Samples(data, format.bytesPerSample) = 1 .. n
         /\ \A i \in 1 .. n :
              /\ Samples(data, format.bytesPerSample)[i] \in Seq(ByteValue)
              /\ Len(Samples(data, format.bytesPerSample)[i]) = format.bytesPerSample
<1> DEFINE width == format.bytesPerSample
<1>1. width \in {2, 3, 4} /\ n = Len(data) \div width
  BY DEF FormatType
<1> HIDE DEF width
<1>2. /\ n \in Nat /\ DOMAIN Samples(data, width) = 1 .. n
      /\ \A i \in 1 .. n : /\ Samples(data, width)[i] \in Seq(ByteValue)
                          /\ Len(Samples(data, width)[i]) = width
  <2>1. n \in Nat /\ DOMAIN Samples(data, width) = 1 .. n
    BY <1>1, SampleCount
  <2>2. ASSUME NEW i \in DOMAIN Samples(data, width)
        PROVE  /\ Samples(data, width)[i] \in Seq(ByteValue)
               /\ Len(Samples(data, width)[i]) = width
    BY <1>1, SampleBytes
  <2>3. QED
    BY <2>1, <2>2
<1>3. QED
  BY <1>2 DEF width

LEMMA DecodedTyped ==
  ASSUME NEW format \in FormatType, NEW data \in Seq(ByteValue), ValidFormat(format),
         Len(data) % (format.bytesPerSample * format.channels) = 0,
         DecodePcmSamplesToInt32(data, format).ok
  PROVE  LET decoded == DecodePcmSamplesToInt32(data, format).value
         IN  /\ decoded \in Seq(Int)
             /\ \E whole \in Nat : Len(decoded) = format.channels * whole
             /\ format.audioFormat = 1 => \A i \in DOMAIN decoded : decoded[i] \in Range24
<1> DEFINE width == format.bytesPerSample
           channels == format.channels
           samples == Samples(data, width)
           decoded == DecodePcmSamplesToInt32(data, format).value
           n == Len(data) \div width
<1>1. /\ width \in {2, 3, 4} /\ channels \in {1, 2}
      /\ format.audioFormat \in {1, 3}
      /\ format.audioFormat = 1 => width \in {2, 3}
      /\ format.audioFormat = 3 => width = 4
  BY DEF FormatType, ValidFormat
<1>2. /\ n \in Nat /\ DOMAIN samples = 1 .. n
      /\ \A i \in 1 .. n : samples[i] \in Seq(ByteValue) /\ Len(samples[i]) = width
  BY FormatSamples
<1>3. /\ format.audioFormat = 3 => \A i \in DOMAIN samples : FloatOf(samples[i]).kind = "finite"
      /\ decoded = [i \in DOMAIN samples |-> DecodeSample(samples[i])]
  BY DEF DecodePcmSamplesToInt32, Refused, Outcome
<1> HIDE DEF decoded, samples, n
<1>4. ASSUME NEW i \in 1 .. n
      PROVE  /\ decoded[i] = DecodeSample(samples[i])
             /\ decoded[i] \in Int
             /\ format.audioFormat = 1 => decoded[i] \in Range24
  <2>1. decoded[i] = DecodeSample(samples[i])
    BY <1>2, <1>3
  <2>2. CASE format.audioFormat = 1
    <3>1. Len(samples[i]) \in {2, 3} /\ samples[i] \in Seq(ByteValue)
      BY <1>1, <1>2, <2>2
    <3>2. decoded[i] \in Range24
      BY <2>1, <3>1, DecodedRange
    <3>3. \A v \in Range24 : v \in Int
      BY DEF Range24
    <3>4. QED
      BY <2>1, <3>2, <3>3
  <2>3. CASE format.audioFormat = 3
    <3>1. Len(samples[i]) = 4 /\ samples[i] \in Seq(ByteValue) /\ FloatOf(samples[i]).kind = "finite"
      BY <1>1, <1>2, <1>3, <2>3
    <3>2. samples[i] \in [1 .. 4 -> ByteValue]
      <4>1. \A s \in Seq(ByteValue) : s \in [1 .. Len(s) -> ByteValue]
        OBVIOUS
      <4>2. QED
        BY <3>1, <4>1
    <3>3. decoded[i] = FromFloat(FloatOf(samples[i]))
      BY <2>1, <3>1 DEF DecodeSample
    <3>4. QED
      BY <2>1, <2>3, <3>1, <3>2, <3>3, FloatIsInt DEF ByteValue
  <2>4. QED
    BY <1>1, <2>2, <2>3
<1>5. DOMAIN decoded = 1 .. n /\ decoded \in Seq(Int) /\ Len(decoded) = n
  <2>1. decoded \in [1 .. n -> Int]
    BY <1>2, <1>3, <1>4
  <2>2. QED
    BY <1>2, <2>1
<1>6. \E whole \in Nat : n = channels * whole
  <2>1. Len(data) \in Nat /\ Len(data) % (width * channels) = 0
    OBVIOUS
  <2> DEFINE l == Len(data)
             whole == l \div (width * channels)
  <2> HIDE DEF width, channels, l
  <2>2. width * channels \in {2, 3, 4, 6, 8}
    BY <1>1
  <2>3. whole \in Nat /\ l = (width * channels) * whole
    <3>1. l \in Nat /\ l % (width * channels) = 0
      BY <2>1 DEF l, width, channels
    <3>2. QED
      BY <2>2, <3>1
  <2> HIDE DEF whole
  <2>4. l \div width = channels * whole
    <3>1. CASE channels = 1
      BY <1>1, <2>3, <3>1
    <3>2. CASE channels = 2
      BY <1>1, <2>3, <3>2
    <3>3. QED
      BY <1>1, <3>1, <3>2
  <2>5. QED
    BY <2>3, <2>4 DEF n, l
<1>7. QED
  BY <1>4, <1>5, <1>6 DEF decoded

LEMMA Written ==
  ASSUME NEW samples \in Seq(Int)
  PROVE  /\ WriteInterleaved24(samples) \in Seq(ByteValue)
         /\ Len(WriteInterleaved24(samples)) = 3 * Len(samples)
         /\ DOMAIN Samples(WriteInterleaved24(samples), 3) = DOMAIN samples
         /\ \A i \in DOMAIN samples :
              /\ Len(Samples(WriteInterleaved24(samples), 3)[i]) = 3
              /\ \A p \in 1 .. 3 :
                   Samples(WriteInterleaved24(samples), 3)[i][p] = Int24LE(samples[i])[p]
<1> DEFINE n == Len(samples)
           out == WriteInterleaved24(samples)
           at(j) == (j - 1) \div 3 + 1
           part(j) == ((j - 1) % 3) + 1
<1>1. n \in Nat /\ DOMAIN samples = 1 .. n /\ \A i \in 1 .. n : samples[i] \in Int
  OBVIOUS
<1>2. out = [j \in 1 .. 3 * n |-> Int24LE(samples[at(j)])[part(j)]]
  BY DEF WriteInterleaved24
<1>3. ASSUME NEW v \in Int, NEW p \in 1 .. 3
      PROVE  Int24LE(v)[p] \in ByteValue
  <2>1. p = 1 \/ p = 2 \/ p = 3
    OBVIOUS
  <2>2. /\ Int24LE(v)[1] \in ByteValue /\ Int24LE(v)[2] \in ByteValue
        /\ Int24LE(v)[3] \in ByteValue
    BY BytesTyped DEF Int24LE
  <2>3. QED
    BY <2>1, <2>2
<1>4. ASSUME NEW j \in 1 .. 3 * n
      PROVE  at(j) \in 1 .. n /\ part(j) \in 1 .. 3 /\ j = (at(j) - 1) * 3 + part(j)
  BY <1>1
<1> HIDE DEF n, out
<1>5. out \in [1 .. 3 * n -> ByteValue]
  <2>1. \A j \in 1 .. 3 * n : Int24LE(samples[at(j)])[part(j)] \in ByteValue
    <3> HIDE DEF at, part
    <3>1. QED
      BY <1>1, <1>3, <1>4
  <2> HIDE DEF at, part
  <2>2. QED
    BY <1>2, <2>1
<1>6. out \in Seq(ByteValue) /\ Len(out) = 3 * n /\ DOMAIN out = 1 .. 3 * n
  <2>1. 3 * n \in Nat
    BY <1>1
  <2>2. QED
    BY <1>5, <2>1
<1>7. (3 * n) \div 3 = n
  BY <1>1
<1>8. /\ DOMAIN Samples(out, 3) = 1 .. n
      /\ \A i \in 1 .. n :
           /\ Len(Samples(out, 3)[i]) = 3
           /\ \A p \in 1 .. 3 : Samples(out, 3)[i][p] = out[(i - 1) * 3 + p]
  <2>1. DOMAIN Samples(out, 3) = 1 .. Len(out) \div 3
    BY <1>6, SampleCount
  <2>2. \A i \in DOMAIN Samples(out, 3) :
          /\ Len(Samples(out, 3)[i]) = 3
          /\ \A p \in 1 .. 3 : Samples(out, 3)[i][p] = out[(i - 1) * 3 + p]
    BY <1>6, SampleBytes
  <2>3. QED
    BY <1>6, <1>7, <2>1, <2>2
<1>9. ASSUME NEW i \in 1 .. n, NEW p \in 1 .. 3
      PROVE  out[(i - 1) * 3 + p] = Int24LE(samples[i])[p]
  <2> DEFINE j == (i - 1) * 3 + p
  <2>1. j \in 1 .. 3 * n /\ at(j) = i /\ part(j) = p
    BY <1>1
  <2> HIDE DEF j, at, part
  <2>2. out[j] = Int24LE(samples[i])[p]
    BY <1>2, <2>1
  <2>3. QED
    BY <2>2 DEF j
<1>10. QED
  BY <1>1, <1>6, <1>8, <1>9 DEF n, out

LEMMA WrittenAgain ==
  ASSUME NEW samples \in Seq(Int)
  PROVE  LET out == WriteInterleaved24(samples)
             read == [i \in DOMAIN samples |-> Int24(Samples(out, 3)[i])]
         IN  read \in Seq(Int) /\ WriteInterleaved24(read) = out
<1> DEFINE out == WriteInterleaved24(samples)
           read == [i \in DOMAIN samples |-> Int24(Samples(out, 3)[i])]
           n == Len(samples)
<1>1. n \in Nat /\ DOMAIN samples = 1 .. n /\ \A i \in 1 .. n : samples[i] \in Int
  OBVIOUS
<1>2. \A i \in DOMAIN samples : \A p \in 1 .. 3 : Samples(out, 3)[i][p] = Int24LE(samples[i])[p]
  BY Written
<1> HIDE DEF out
<1>3. \A i \in 1 .. n : read[i] \in Int /\ Int24LE(read[i]) = Int24LE(samples[i])
  BY <1>1, <1>2, WriteThenRead
<1>4. read \in Seq(Int) /\ Len(read) = n
  <2>1. read \in [1 .. n -> Int]
    BY <1>1, <1>3
  <2> HIDE DEF read
  <2>2. QED
    BY <1>1, <2>1
<1> HIDE DEF read
<1>5. \A j \in 1 .. 3 * n : (j - 1) \div 3 + 1 \in 1 .. n
  BY <1>1
<1>6. WriteInterleaved24(read) = WriteInterleaved24(samples)
  BY <1>3, <1>4, <1>5 DEF WriteInterleaved24
<1>7. QED
  BY <1>4, <1>6 DEF out, read

-----------------------------------------------------------------------------
(* Resampling *)

LEMMA DivBound ==
  ASSUME NEW n \in Int, NEW d \in Nat \ {0}, NEW c \in Int
  PROVE  (n >= d * c => n \div d >= c) /\ (n < d * (c + 1) => n \div d <= c)
<1> DEFINE q == n \div d
           r == n % d
<1>1. q \in Int /\ r \in Int /\ 0 <= r /\ r < d /\ n = d * q + r
  BY Divided
<1> HIDE DEF q, r
<1>2. CASE q < c
  <2>1. d * q <= d * (c - 1)
    BY <1>1, <1>2
  <2>2. d * (c - 1) = d * c - d
    OBVIOUS
  <2>3. d * q \in Int /\ d * c \in Int
    BY <1>1
  <2>4. ~ n >= d * c
    BY <1>1, <2>1, <2>2, <2>3
  <2>5. d * c <= d * (c + 1)
    OBVIOUS
  <2>6. QED
    BY <1>1, <1>2, <2>4 DEF q
<1>3. CASE q > c
  <2>1. d * q >= d * (c + 1)
    BY <1>1, <1>3
  <2>2. d * q \in Int /\ d * (c + 1) \in Int
    BY <1>1
  <2>3. ~ n < d * (c + 1)
    BY <1>1, <2>1, <2>2
  <2>4. QED
    BY <1>1, <1>3, <2>3 DEF q
<1>4. CASE q = c
  BY <1>4 DEF q
<1>5. QED
  BY <1>1, <1>2, <1>3, <1>4

(* A rounded quotient is between the integers that its fraction is between. *)
LEMMA RoundedBetween ==
  ASSUME NEW n \in Int, NEW d \in Nat \ {0}, NEW low \in Int, NEW high \in Int,
         d * low <= n, n <= d * high
  PROVE  /\ DivRoundSigned(n, d) \in Int
         /\ low <= DivRoundSigned(n, d) /\ DivRoundSigned(n, d) <= high
<1>1. d \div 2 \in Nat /\ d \div 2 < d
  OBVIOUS
<1>2. ASSUME NEW m \in Int, NEW l \in Int, NEW h \in Int, d * l <= m, m <= d * h
      PROVE  /\ (m + d \div 2) \div d \in Int
             /\ l <= (m + d \div 2) \div d /\ (m + d \div 2) \div d <= h
  <2> DEFINE half == d \div 2
             p == m + half
  <2>1. half \in Nat /\ half < d
    BY <1>1
  <2> HIDE DEF half
  <2>2. d * (h + 1) = d * h + d /\ d * h \in Int /\ d * l \in Int
    OBVIOUS
  <2>3. p \in Int /\ p >= d * l /\ p < d * (h + 1)
    BY <1>2, <2>1, <2>2
  <2> HIDE DEF p
  <2>4. p \div d \in Int /\ p \div d >= l /\ p \div d <= h
    BY <2>3, DivBound, Divided
  <2>5. QED
    BY <2>4 DEF p, half
<1>3. CASE n >= 0
  <2>1. DivRoundSigned(n, d) = (n + d \div 2) \div d
    BY <1>3 DEF DivRoundSigned
  <2>2. QED
    BY <1>2, <2>1
<1>4. CASE ~ n >= 0
  <2> DEFINE m == - n
             h == - low
             l == - high
             x == (m + d \div 2) \div d
  <2>1. m \in Int /\ l \in Int /\ h \in Int /\ d * l <= m /\ m <= d * h
    <3>1. d * (- high) = - (d * high) /\ d * (- low) = - (d * low)
      OBVIOUS
    <3>2. d * high \in Int /\ d * low \in Int
      OBVIOUS
    <3>3. QED
      BY <3>1, <3>2
  <2>2. DivRoundSigned(n, d) = - x
    BY <1>4 DEF DivRoundSigned
  <2>3. x \in Int /\ l <= x /\ x <= h
    <3> HIDE DEF m, l, h
    <3>1. QED
      BY <1>2, <2>1
  <2> HIDE DEF x
  <2>4. QED
    BY <2>2, <2>3
<1>5. QED
  BY <1>3, <1>4

(* A rounded quotient is at most half a unit away from its fraction.        *)
LEMMA RoundedNearby ==
  ASSUME NEW n \in Int, NEW d \in Nat \ {0}
  PROVE  /\ - d <= 2 * (d * DivRoundSigned(n, d) - n)
         /\ 2 * (d * DivRoundSigned(n, d) - n) <= d
<1>1. d \div 2 \in Nat /\ 2 * (d \div 2) <= d /\ d <= 2 * (d \div 2) + 1
  OBVIOUS
<1>2. ASSUME NEW m \in Int
      PROVE  LET q == (m + d \div 2) \div d
             IN  q \in Int /\ d * q \in Int /\ - d <= 2 * (d * q - m) /\ 2 * (d * q - m) <= d
  <2> DEFINE half == d \div 2
             p == m + half
             q == p \div d
             r == p % d
  <2>1. half \in Nat /\ 2 * half <= d /\ d <= 2 * half + 1
    BY <1>1
  <2> HIDE DEF half
  <2>2. p \in Int
    BY <2>1
  <2>a. p = m + half
    OBVIOUS
  <2> HIDE DEF p
  <2>3. q \in Int /\ r \in Int /\ 0 <= r /\ r < d /\ p = d * q + r
    BY <2>2, Divided
  <2> HIDE DEF q, r
  <2>4. d * q \in Int
    BY <2>3
  <2>5. d * q - m = half - r
    BY <2>1, <2>3, <2>4, <2>a
  <2>6. - d <= 2 * (half - r) /\ 2 * (half - r) <= d
    BY <2>1, <2>3
  <2>7. q \in Int /\ d * q \in Int /\ - d <= 2 * (d * q - m) /\ 2 * (d * q - m) <= d
    BY <2>3, <2>4, <2>5, <2>6
  <2>8. QED
    BY <2>7 DEF q, p, half
<1>3. CASE n >= 0
  BY <1>2, <1>3 DEF DivRoundSigned
<1>4. CASE ~ n >= 0
  <2> DEFINE m == - n
             q == (m + d \div 2) \div d
  <2>1. DivRoundSigned(n, d) = - q
    BY <1>4 DEF DivRoundSigned
  <2>2. q \in Int /\ d * q \in Int /\ - d <= 2 * (d * q - m) /\ 2 * (d * q - m) <= d
    <3>1. m \in Int
      OBVIOUS
    <3> HIDE DEF m
    <3>2. QED
      BY <1>2, <3>1
  <2> HIDE DEF q
  <2>3. d * (- q) = - (d * q)
    BY <2>2
  <2>4. QED
    BY <2>1, <2>2, <2>3
<1>5. QED
  BY <1>3, <1>4

Between(x, y, frac, T) == DivRoundSigned(x * (T - frac) + y * frac, T)

(* What lies a fraction of the way from one sample to the next, rounded, is *)
(* between the two.                                                         *)
LEMMA Interpolated ==
  ASSUME NEW T \in Nat \ {0}, NEW frac \in Int, 0 <= frac, frac < T,
         NEW x \in Int, NEW y \in Int
  PROVE  /\ Between(x, y, frac, T) \in Int
         /\ \/ x <= Between(x, y, frac, T) /\ Between(x, y, frac, T) <= y
            \/ y <= Between(x, y, frac, T) /\ Between(x, y, frac, T) <= x
<1> DEFINE n == x * (T - frac) + y * frac
           rest == T - frac
<1>1. rest \in Nat /\ frac \in Nat /\ T = rest + frac
  OBVIOUS
<1>2. ASSUME NEW low \in {x, y}, NEW high \in {x, y}, low <= high,
             low <= x, x <= high, low <= y, y <= high
      PROVE  T * low <= n /\ n <= T * high
  <2> HIDE DEF rest
  <2>1. /\ low * rest <= x * rest /\ x * rest <= high * rest
        /\ low * frac <= y * frac /\ y * frac <= high * frac
    BY <1>1, <1>2
  <2>2. T * low = low * rest + low * frac /\ T * high = high * rest + high * frac
    BY <1>1
  <2>3. /\ low * rest \in Int /\ x * rest \in Int /\ high * rest \in Int
        /\ low * frac \in Int /\ y * frac \in Int /\ high * frac \in Int
    BY <1>1
  <2>4. T * low <= x * rest + y * frac /\ x * rest + y * frac <= T * high
    BY <2>1, <2>2, <2>3
  <2>5. QED
    BY <2>4 DEF rest
<1>3. n \in Int
  <2> HIDE DEF rest
  <2>1. x * rest + y * frac \in Int
    BY <1>1
  <2>2. QED
    BY <2>1 DEF rest
<1> HIDE DEF n, rest
<1>4. CASE x <= y
  <2>1. x <= x /\ x <= y /\ y <= y /\ x \in {x, y} /\ y \in {x, y}
    BY <1>4
  <2>2. T * x <= n /\ n <= T * y
    BY <1>2, <2>1, Zenon
  <2>3. /\ DivRoundSigned(n, T) \in Int
        /\ x <= DivRoundSigned(n, T) /\ DivRoundSigned(n, T) <= y
    BY <1>3, <2>2, RoundedBetween
  <2>4. QED
    BY <2>3 DEF n, rest, Between
<1>5. CASE y <= x
  <2>1. y <= y /\ y <= x /\ x <= x /\ x \in {x, y} /\ y \in {x, y}
    BY <1>5
  <2>2. T * y <= n /\ n <= T * x
    BY <1>2, <2>1, Zenon
  <2>3. /\ DivRoundSigned(n, T) \in Int
        /\ y <= DivRoundSigned(n, T) /\ DivRoundSigned(n, T) <= x
    BY <1>3, <2>2, RoundedBetween
  <2>4. QED
    BY <2>3 DEF n, rest, Between
<1>6. QED
  BY <1>4, <1>5

\* The neighbours of an output frame are frames of the input.
LEMMA NeighboursExist ==
  ASSUME NEW T \in Nat \ {0}, NEW rate \in Nat \ {0}, NEW whole \in Nat, NEW k \in Nat,
         k + 1 <= (whole * T + rate \div 2) \div rate
  PROVE  (k * rate) \div T \in Nat /\ (k * rate) \div T < whole
<1> DEFINE half == rate \div 2
           total == whole * T + half
           m == total \div rate
           at == k * rate
<1>1. half \in Nat /\ half < rate
  OBVIOUS
<1> HIDE DEF half
<1>2. whole * T \in Nat /\ total \in Nat
  BY <1>1
<1>3. at \in Nat
  OBVIOUS
<1>4. at < T * whole
  <2>1. m \in Int /\ rate * m <= total
    <3> HIDE DEF total
    <3>1. m \in Int /\ total % rate \in Nat /\ total = rate * m + (total % rate)
      BY <1>2, Divided
    <3> HIDE DEF m
    <3>2. rate * m \in Int
      BY <3>1
    <3>3. QED
      BY <1>2, <3>1, <3>2
  <2>2. k + 1 <= m
    BY DEF half
  <2> HIDE DEF m
  <2>3. rate * (k + 1) <= rate * m
    BY <2>1, <2>2
  <2>4. rate * (k + 1) = at + rate /\ rate * m \in Int /\ T * whole = whole * T
    BY <2>1
  <2> HIDE DEF at
  <2>5. QED
    BY <1>1, <1>2, <1>3, <2>1, <2>3, <2>4
<1> HIDE DEF at
<1>5. at >= T * 0 /\ at < T * ((whole - 1) + 1)
  BY <1>3, <1>4
<1>6. at \div T >= 0 /\ at \div T <= whole - 1 /\ at \div T \in Int
  <2>1. at \in Int /\ 0 \in Int /\ whole - 1 \in Int
    BY <1>3
  <2>2. at \div T >= 0
    BY <1>5, <2>1, DivBound
  <2>3. at \div T <= whole - 1
    BY <1>5, <2>1, DivBound
  <2>4. QED
    BY <2>1, <2>2, <2>3, Divided
<1>7. QED
  BY <1>6 DEF at

\* The position in the interleaved samples of channel c of a frame.
LEMMA Interleaved ==
  ASSUME NEW channels \in {1, 2}, NEW whole \in Nat
  PROVE  /\ \A frame \in 0 .. whole - 1, c \in 0 .. channels - 1 :
              /\ frame * channels + c + 1 \in 1 .. channels * whole
              /\ (frame * channels + c) % channels = c
         /\ \A i \in 1 .. whole * channels :
              /\ (i - 1) \div channels \in 0 .. whole - 1
              /\ (i - 1) % channels \in 0 .. channels - 1
         /\ (channels * whole) \div channels = whole
         /\ whole * channels \in Nat /\ whole * channels = channels * whole
<1>1. CASE channels = 1
  BY <1>1
<1>2. CASE channels = 2
  BY <1>2
<1>3. QED
  BY <1>1, <1>2

\* The output is whole frames, each sample of them between two of its channel.
StaysAround(input, channels, output) ==
  /\ output \in Seq(Int)
  /\ \E made \in Nat : Len(output) = channels * made
  /\ \A i \in DOMAIN output : \E j, k \in DOMAIN input :
       /\ (j - 1) % channels = (i - 1) % channels
       /\ (k - 1) % channels = (i - 1) % channels
       /\ input[j] <= output[i] /\ output[i] <= input[k]

\* Each sample is interpolated between its neighbours in its own channel.
Interpolates(input, channels, whole, rate, output) ==
  \A i \in DOMAIN output : \E left \in 0 .. whole - 1 :
    LET right == IF left + 1 < whole THEN left + 1 ELSE whole - 1
        c     == (i - 1) % channels
        past  == ((i - 1) \div channels) * rate - left * TargetRate
    IN  /\ 0 <= past /\ past < TargetRate
        /\ output[i] = Between(input[left * channels + c + 1], input[right * channels + c + 1],
                               past, TargetRate)

LEMMA Resampled ==
  ASSUME NEW input \in Seq(Int), NEW channels \in {1, 2}, NEW whole \in Nat,
         Len(input) = channels * whole, NEW rate \in Nat \ {0}
  PROVE  LET output == ResampleInterleaved(input, channels, rate)
         IN  StaysAround(input, channels, output) /\ Interpolates(input, channels, whole, rate, output)
<1> DEFINE T == TargetRate
           made == (whole * T + rate \div 2) \div rate
           left(k) == (k * rate) \div T
           right(k) == IF left(k) + 1 < whole THEN left(k) + 1 ELSE whole - 1
           frac(k) == (k * rate) % T
           pos(frame, c) == frame * channels + c + 1
           value(k, c) == DivRoundSigned(input[pos(left(k), c)] * (T - frac(k))
                                           + input[pos(right(k), c)] * frac(k), T)
           output == ResampleInterleaved(input, channels, rate)
<1>1. T \in Nat \ {0}
  BY AudioAssumption
<1>2. Len(input) \div channels = whole
  BY Interleaved
<1>3. made \in Nat
  <2>1. whole * T \in Nat /\ rate \div 2 \in Nat
    BY <1>1
  <2> DEFINE total == whole * T + rate \div 2
  <2>2. total \in Nat
    BY <2>1
  <2> HIDE DEF total
  <2>3. total \div rate \in Nat
    BY <2>2
  <2>4. QED
    BY <2>3 DEF total
<1>4. output = [i \in 1 .. made * channels |-> value((i - 1) \div channels, (i - 1) % channels)]
  BY <1>2 DEF ResampleInterleaved
<1>5. ASSUME NEW k \in 0 .. made - 1, NEW c \in 0 .. channels - 1
      PROVE  /\ value(k, c) \in Int
             /\ \E i, j \in 1 .. channels * whole :
                  /\ (i - 1) % channels = c /\ (j - 1) % channels = c
                  /\ input[i] <= value(k, c) /\ value(k, c) <= input[j]
  <2>1. left(k) \in Nat /\ left(k) < whole
    <3>1. k \in Nat /\ k + 1 <= made
      BY <1>3
    <3> HIDE DEF T
    <3>2. QED
      BY <1>1, <3>1, NeighboursExist
  <2>2. frac(k) \in Int /\ 0 <= frac(k) /\ frac(k) < T
    <3> DEFINE at == k * rate
    <3>1. at \in Int
      BY <1>3
    <3> HIDE DEF at
    <3>2. at % T \in Int /\ 0 <= at % T /\ at % T < T
      BY <1>1, <3>1, Divided
    <3>3. QED
      BY <3>2 DEF at
  <2> HIDE DEF left, frac, made, T
  <2>3. left(k) \in 0 .. whole - 1 /\ right(k) \in 0 .. whole - 1
    BY <2>1
  <2> HIDE DEF right
  <2> DEFINE i == pos(left(k), c)
             j == pos(right(k), c)
  <2>4. /\ i \in 1 .. channels * whole /\ (i - 1) % channels = c
        /\ j \in 1 .. channels * whole /\ (j - 1) % channels = c
    <3>1. ASSUME NEW frame \in 0 .. whole - 1
          PROVE  /\ pos(frame, c) \in 1 .. channels * whole
                 /\ (pos(frame, c) - 1) % channels = c
      <4>1. frame * channels + c + 1 \in 1 .. channels * whole /\ (frame * channels + c) % channels = c
        BY Interleaved
      <4>2. frame * channels \in Int
        BY <3>1
      <4>3. pos(frame, c) - 1 = frame * channels + c
        BY <4>2
      <4>4. QED
        BY <4>1, <4>3
    <3> HIDE DEF pos
    <3>2. QED
      BY <2>3, <3>1
  <2> HIDE DEF i, j
  <2>5. input[i] \in Int /\ input[j] \in Int
    BY <2>4
  <2>6. value(k, c) = Between(input[i], input[j], frac(k), T)
    BY DEF i, j, Between
  <2> HIDE DEF value
  <2> DEFINE f == frac(k)
             x == input[i]
             y == input[j]
  <2>a. f \in Int /\ 0 <= f /\ f < T /\ x \in Int /\ y \in Int /\ T \in Nat \ {0}
    BY <1>1, <2>2, <2>5
  <2> HIDE DEF f, x, y
  <2>b. /\ Between(x, y, f, T) \in Int
        /\ \/ x <= Between(x, y, f, T) /\ Between(x, y, f, T) <= y
           \/ y <= Between(x, y, f, T) /\ Between(x, y, f, T) <= x
    BY <2>a, Interpolated
  <2>7. /\ value(k, c) \in Int
        /\ \/ input[i] <= value(k, c) /\ value(k, c) <= input[j]
           \/ input[j] <= value(k, c) /\ value(k, c) <= input[i]
    BY <2>6, <2>b DEF f, x, y
  <2>8. QED
    BY <2>4, <2>7
<1>a. ASSUME NEW k \in 0 .. made - 1
      PROVE  /\ left(k) \in 0 .. whole - 1
             /\ k * rate - left(k) * T = frac(k) /\ 0 <= frac(k) /\ frac(k) < T
  <2>1. left(k) \in Nat /\ left(k) < whole
    <3>1. k \in Nat /\ k + 1 <= made
      BY <1>3
    <3> HIDE DEF T
    <3>2. QED
      BY <1>1, <3>1, NeighboursExist
  <2> DEFINE at == k * rate
  <2>2. at \in Int
    BY <1>3
  <2> HIDE DEF at
  <2>3. /\ at % T \in Int /\ 0 <= at % T /\ at % T < T
        /\ at \div T \in Int /\ at = T * (at \div T) + (at % T)
    BY <1>1, <2>2, Divided
  <2> DEFINE l == at \div T
             f == at % T
  <2>a. l \in Int /\ f \in Int /\ at = T * l + f
    BY <2>3
  <2> HIDE DEF l, f
  <2>4. l \in Int /\ f \in Int /\ T * l \in Int /\ T * l = l * T /\ at = T * l + f
    BY <1>1, <2>a
  <2>5. at - l * T = f
    BY <2>4
  <2>6. QED
    BY <2>1, <2>3, <2>5 DEF at, l, f
<1>b. ASSUME NEW i \in 1 .. made * channels
      PROVE  \E l \in 0 .. whole - 1 :
               LET r == IF l + 1 < whole THEN l + 1 ELSE whole - 1
                   c == (i - 1) % channels
                   past == ((i - 1) \div channels) * rate - l * T
               IN  /\ 0 <= past /\ past < T
                   /\ output[i] = Between(input[pos(l, c)], input[pos(r, c)], past, T)
  <2> DEFINE k == (i - 1) \div channels
             c == (i - 1) % channels
  <2>1. k \in 0 .. made - 1 /\ c \in 0 .. channels - 1
    <3> HIDE DEF made
    <3>1. QED
      BY <1>3, Interleaved
  <2>2. output[i] = value(k, c)
    BY <1>4
  <2>3. value(k, c) = Between(input[pos(left(k), c)], input[pos(right(k), c)], frac(k), T)
    BY DEF Between
  <2> HIDE DEF k, c, value, output, made, T, pos, frac
  <2>4. /\ left(k) \in 0 .. whole - 1
        /\ k * rate - left(k) * T = frac(k) /\ 0 <= frac(k) /\ frac(k) < T
    BY <1>a, <2>1
  <2>5. right(k) = IF left(k) + 1 < whole THEN left(k) + 1 ELSE whole - 1
    OBVIOUS
  <2> DEFINE l == left(k)
  <2>6. /\ l \in 0 .. whole - 1 /\ 0 <= k * rate - l * T /\ k * rate - l * T < T
        /\ output[i] = Between(input[pos(l, c)],
                               input[pos(IF l + 1 < whole THEN l + 1 ELSE whole - 1, c)],
                               k * rate - l * T, T)
    BY <2>2, <2>3, <2>4, <2>5
  <2> HIDE DEF l, left, right
  <2>7. QED
    BY <2>6 DEF k, c
<1> HIDE DEF made, value, output
<1>6. ASSUME NEW i \in 1 .. made * channels
      PROVE  /\ output[i] \in Int
             /\ \E j, k \in DOMAIN input :
                  /\ (j - 1) % channels = (i - 1) % channels
                  /\ (k - 1) % channels = (i - 1) % channels
                  /\ input[j] <= output[i] /\ output[i] <= input[k]
  <2> DEFINE frame == (i - 1) \div channels
             c == (i - 1) % channels
  <2>1. frame \in 0 .. made - 1 /\ c \in 0 .. channels - 1
    BY <1>3, Interleaved
  <2>2. output[i] = value(frame, c)
    BY <1>4
  <2>3. DOMAIN input = 1 .. channels * whole
    OBVIOUS
  <2> HIDE DEF frame, c
  <2>4. /\ value(frame, c) \in Int
        /\ \E j, k \in 1 .. channels * whole :
             /\ (j - 1) % channels = c /\ (k - 1) % channels = c
             /\ input[j] <= value(frame, c) /\ value(frame, c) <= input[k]
    BY <1>5, <2>1
  <2>5. QED
    BY <2>2, <2>3, <2>4 DEF c
<1>7. output \in Seq(Int) /\ Len(output) = channels * made /\ DOMAIN output = 1 .. made * channels
  <2>1. made * channels \in Nat /\ made * channels = channels * made
    BY <1>3, Interleaved
  <2>2. output \in [1 .. made * channels -> Int]
    BY <1>4, <1>6
  <2>3. QED
    BY <2>1, <2>2
<1>8. StaysAround(input, channels, output)
  BY <1>3, <1>6, <1>7 DEF StaysAround
<1>9. Interpolates(input, channels, whole, rate, output)
  BY <1>b, <1>7 DEF Interpolates
<1>10. QED
  BY <1>8, <1>9 DEF output

-----------------------------------------------------------------------------
(* Canonical audio *)

Decoded == DecodePcmSamplesToInt32(Data, Format).value

Final == IF Format.sampleRate = TargetRate THEN Decoded
         ELSE ResampleInterleaved(Decoded, Format.channels, Format.sampleRate)

\* What a canonicalization that is not refused has gone through.
LEMMA CanonicalParts ==
  ASSUME FileInv, canonical.ok
  PROVE  /\ Format \in FormatType /\ Data \in Seq(ByteValue) /\ ValidFormat(Format)
         /\ Decoded \in Seq(Int)
         /\ \E whole \in Nat : Len(Decoded) = Format.channels * whole
         /\ Format.audioFormat = 1 => \A i \in DOMAIN Decoded : Decoded[i] \in Range24
         /\ Decoded = [i \in DOMAIN Samples(Data, Format.bytesPerSample) |->
                         DecodeSample(Samples(Data, Format.bytesPerSample)[i])]
         /\ canonical = Outcome(TRUE, WriteInterleaved24(Final))
<1>1. Readable(wav)
  BY DEF canonical, CanonicalizeWavTo24BitLE, Refused, Outcome
<1>2. /\ ParseWavFile(wav).value = [format |-> Format, data |-> Data]
      /\ ValidFormat(Format) /\ HasChunk(wav, "fmt") /\ HasChunk(wav, "data")
      /\ Len(Data) % (Format.bytesPerSample * Format.channels) = 0
  BY <1>1, ReadableParts DEF Format, Data
<1>3. canonical = Canonical(DecodePcmSamplesToInt32(Data, Format), Format)
  BY <1>1, <1>2 DEF canonical, CanonicalizeWavTo24BitLE
<1>4. DecodePcmSamplesToInt32(Data, Format).ok
  BY <1>3 DEF Canonical, Refused, Outcome
<1>5. Format \in FormatType /\ Data \in Seq(ByteValue)
  BY <1>2, FileParts DEF FileInv, Format, Data
<1>6. canonical = Outcome(TRUE, WriteInterleaved24(Final))
  BY <1>3, <1>4 DEF Canonical, Final, Decoded
<1>7. /\ Decoded \in Seq(Int)
      /\ \E whole \in Nat : Len(Decoded) = Format.channels * whole
      /\ Format.audioFormat = 1 => \A i \in DOMAIN Decoded : Decoded[i] \in Range24
  BY <1>2, <1>4, <1>5, DecodedTyped DEF Decoded
<1>8. Decoded = [i \in DOMAIN Samples(Data, Format.bytesPerSample) |->
                   DecodeSample(Samples(Data, Format.bytesPerSample)[i])]
  BY <1>4 DEF Decoded, DecodePcmSamplesToInt32, Refused, Outcome
<1>9. QED
  BY <1>2, <1>5, <1>6, <1>7, <1>8

LEMMA FinalSamples ==
  ASSUME FileInv, canonical.ok
  PROVE  StaysAround(Decoded, Format.channels, Final)
<1> DEFINE channels == Format.channels
           rate == Format.sampleRate
<1>1. channels \in {1, 2} /\ rate \in Nat \ {0}
  BY CanonicalParts DEF ValidFormat, FormatType
<1>2. PICK whole \in Nat : Len(Decoded) = channels * whole
  BY CanonicalParts
<1>3. Decoded \in Seq(Int)
  BY CanonicalParts
<1>4. Final = IF rate = TargetRate THEN Decoded ELSE ResampleInterleaved(Decoded, channels, rate)
  BY DEF Final
<1> HIDE DEF channels, rate
<1>5. CASE rate = TargetRate
  <2>1. Final = Decoded
    BY <1>4, <1>5
  <2>2. \A i \in DOMAIN Decoded : Decoded[i] <= Decoded[i]
    <3>1. \A i \in DOMAIN Decoded : Decoded[i] \in Int
      BY <1>3
    <3>2. QED
      BY <3>1
  <2>3. QED
    BY <1>2, <1>3, <2>1, <2>2 DEF channels, StaysAround
<1>6. CASE rate # TargetRate
  <2>1. Final = ResampleInterleaved(Decoded, channels, rate)
    BY <1>4, <1>6
  <2>2. StaysAround(Decoded, channels, Final)
    BY <1>1, <1>2, <1>3, <2>1, Resampled
  <2>3. QED
    BY <2>2 DEF channels
<1>7. QED
  BY <1>5, <1>6

\* A 24-bit file at the target rate is its own canonical audio, if its bytes
\* are ones that samples are written as.
LEMMA CanonicalAgain ==
  ASSUME NEW channels \in {1, 2}, NEW samples \in Seq(Int),
         NEW whole \in Nat, Len(samples) = channels * whole
  PROVE  LET again == WithData([audioFormat |-> 1, bytesPerSample |-> 3,
                                channels |-> channels, sampleRate |-> TargetRate],
                               WriteInterleaved24(samples))
         IN  CanonicalizeWavTo24BitLE(again) = Outcome(TRUE, WriteInterleaved24(samples))
<1> DEFINE format == [audioFormat |-> 1, bytesPerSample |-> 3,
                      channels |-> channels, sampleRate |-> TargetRate]
           bytes == WriteInterleaved24(samples)
           again == WithData(format, bytes)
           read == [i \in DOMAIN samples |-> Int24(Samples(bytes, 3)[i])]
<1>1. TargetRate \in Nat \ {0}
  BY AudioAssumption
<1>2. /\ format.audioFormat = 1 /\ format.bytesPerSample = 3
      /\ format.channels = channels /\ format.sampleRate = TargetRate
  OBVIOUS
<1>3. format \in FormatType
  <2>1. channels \in 0 .. 3 /\ TargetRate \in Nat
    BY <1>1
  <2>2. QED
    BY <2>1 DEF FormatType
<1>4. /\ bytes \in Seq(ByteValue) /\ Len(bytes) = 3 * Len(samples)
      /\ DOMAIN Samples(bytes, 3) = DOMAIN samples
      /\ \A i \in DOMAIN samples : Len(Samples(bytes, 3)[i]) = 3
  BY Written
<1>5. Len(bytes) % (3 * channels) = 0
  <2>1. Len(bytes) = 3 * (channels * whole)
    BY <1>4
  <2>2. CASE channels = 1
    BY <2>1, <2>2
  <2>3. CASE channels = 2
    BY <2>1, <2>3
  <2>4. QED
    BY <2>2, <2>3
<1>6. read \in Seq(Int) /\ WriteInterleaved24(read) = bytes
  BY WrittenAgain
<1> HIDE DEF format, bytes
<1>7. ParseWavFile(again) = Outcome(TRUE, [format |-> format, data |-> bytes])
  <2>1. LastBody(again, "fmt") = format /\ LastBody(again, "data") = bytes
    BY <1>3, <1>4, WithDataTyped
  <2>2. again.riff /\ ~ again.cut
    BY DEF WithData, File
  <2>3. {"fmt", "data"} \subseteq {again.chunks[i].id : i \in DOMAIN again.chunks}
    <3>1. HasChunk(again, "fmt") /\ HasChunk(again, "data")
      BY <1>3, <1>4, WithDataTyped
    <3> HIDE DEF again
    <3>2. QED
      BY <3>1 DEF HasChunk
  <2> HIDE DEF again
  <2>4. QED
    BY <2>1, <2>2, <2>3 DEF ParseWavFile
<1> HIDE DEF again
<1>8. ParseWavFile(again).ok /\ ParseWavFile(again).value = [format |-> format, data |-> bytes]
  BY <1>7 DEF Outcome
<1>9. ValidFormat(format)
  BY <1>1, <1>2 DEF ValidFormat
<1>10. Readable(again)
  BY <1>2, <1>5, <1>8, <1>9 DEF Readable
<1>11. CanonicalizeWavTo24BitLE(again) = Canonical(DecodePcmSamplesToInt32(bytes, format), format)
  BY <1>8, <1>10 DEF CanonicalizeWavTo24BitLE
<1>12. DecodePcmSamplesToInt32(bytes, format) = Outcome(TRUE, read)
  <2>1. DecodePcmSamplesToInt32(bytes, format) =
          Outcome(TRUE, [i \in DOMAIN Samples(bytes, 3) |-> DecodeSample(Samples(bytes, 3)[i])])
    BY <1>2 DEF DecodePcmSamplesToInt32
  <2>2. \A i \in DOMAIN samples : DecodeSample(Samples(bytes, 3)[i]) = Int24(Samples(bytes, 3)[i])
    <3>1. \A s : Len(s) = 3 => DecodeSample(s) = Int24(s)
      BY DEF DecodeSample
    <3>2. QED
      BY <1>4, <3>1
  <2>3. [i \in DOMAIN Samples(bytes, 3) |-> DecodeSample(Samples(bytes, 3)[i])] = read
    BY <1>4, <2>2
  <2>4. QED
    BY <2>1, <2>3
<1> HIDE DEF read
<1>13. Canonical(Outcome(TRUE, read), format) = Outcome(TRUE, WriteInterleaved24(read))
  BY <1>2 DEF Canonical, Outcome
<1>14. QED
  BY <1>6, <1>11, <1>12, <1>13 DEF again, format, bytes

\* The three bytes of each sample of a PCM file, what they are read as, and
\* what it is written as.
LEMMA SourceDecoded ==
  ASSUME FileInv, fromPcm
  PROVE  /\ DOMAIN sourceSamples = DOMAIN Decoded /\ Len(sourceSamples) = Len(Decoded)
         /\ \A i \in DOMAIN Decoded :
              /\ sourceSamples[i] \in Seq(ByteValue) /\ Len(sourceSamples[i]) = 3
              /\ Int24(sourceSamples[i]) = Decoded[i] /\ Decoded[i] \in Range24
              /\ \A p \in 1 .. 3 : sourceSamples[i][p] = Int24LE(Decoded[i])[p]
<1> DEFINE samples == Samples(Data, Format.bytesPerSample)
<1>1. /\ Format \in FormatType /\ Data \in Seq(ByteValue) /\ ValidFormat(Format)
      /\ Decoded = [i \in DOMAIN samples |-> DecodeSample(samples[i])]
      /\ \A i \in DOMAIN Decoded : Decoded[i] \in Range24
  BY CanonicalParts DEF fromPcm
<1>2. PICK n \in Nat : /\ DOMAIN samples = 1 .. n
                       /\ \A i \in 1 .. n : /\ samples[i] \in Seq(ByteValue)
                                            /\ Len(samples[i]) = Format.bytesPerSample
  BY <1>1, FormatSamples
<1>3. Format.bytesPerSample \in {2, 3}
  BY <1>1 DEF fromPcm, ValidFormat
<1>4. sourceSamples = [i \in DOMAIN samples |-> Widened(samples[i])]
  BY DEF sourceSamples
<1> HIDE DEF samples
<1>5. ASSUME NEW i \in 1 .. n
      PROVE  /\ sourceSamples[i] \in Seq(ByteValue) /\ Len(sourceSamples[i]) = 3
             /\ Int24(sourceSamples[i]) = Decoded[i]
             /\ \A p \in 1 .. 3 : sourceSamples[i][p] = Int24LE(Decoded[i])[p]
  <2>1. samples[i] \in Seq(ByteValue) /\ Len(samples[i]) \in {2, 3}
    BY <1>2, <1>3
  <2>2. sourceSamples[i] = Widened(samples[i]) /\ Decoded[i] = DecodeSample(samples[i])
    BY <1>1, <1>2, <1>4
  <2>3. QED
    BY <2>1, <2>2, DecodedIsWidened
<1>6. DOMAIN sourceSamples = 1 .. n /\ DOMAIN Decoded = 1 .. n
  BY <1>1, <1>2, <1>4
<1>7. Len(sourceSamples) = n /\ Len(Decoded) = n
  <2>1. \A f : f = [i \in 1 .. n |-> f[i]] => Len(f) = n
    OBVIOUS
  <2>2. QED
    BY <1>1, <1>2, <1>4
<1>8. QED
  BY <1>1, <1>5, <1>6, <1>7

\* Where a file is resampled, the result is interpolated.
LEMMA FinalInterpolated ==
  ASSUME FileInv, canonical.ok, Format.sampleRate # TargetRate,
         NEW whole \in Nat, Len(Decoded) = Format.channels * whole
  PROVE  Interpolates(Decoded, Format.channels, whole, Format.sampleRate, Final)
<1> DEFINE channels == Format.channels
           rate == Format.sampleRate
<1>1. channels \in {1, 2} /\ rate \in Nat \ {0} /\ Decoded \in Seq(Int)
  BY CanonicalParts DEF ValidFormat, FormatType
<1>2. Final = ResampleInterleaved(Decoded, channels, rate) /\ Len(Decoded) = channels * whole
  BY DEF Final
<1> HIDE DEF channels, rate
<1>3. Interpolates(Decoded, channels, whole, rate, Final)
  BY <1>1, <1>2, Resampled
<1>4. QED
  BY <1>3 DEF channels, rate

\* What the samples written are, where the source has integers.
LEMMA WrittenFromPcm ==
  ASSUME FileInv, fromPcm
  PROVE  /\ Final \in Seq(Int) /\ DOMAIN canonicalSamples = DOMAIN Final
         /\ \A i \in DOMAIN Final :
              /\ canonicalSamples[i] \in Seq(ByteValue) /\ Len(canonicalSamples[i]) = 3
              /\ \A p \in 1 .. 3 : canonicalSamples[i][p] = Int24LE(Final[i])[p]
              /\ Int24(canonicalSamples[i]) = Final[i]
<1>1. /\ canonical.ok /\ canonical.value = WriteInterleaved24(Final)
      /\ Decoded \in Seq(Int) /\ \A j \in DOMAIN Decoded : Decoded[j] \in Range24
  BY CanonicalParts DEF Outcome, fromPcm
<1>2. Final \in Seq(Int)
  BY <1>1, FinalSamples DEF StaysAround
<1>3. /\ canonical.value \in Seq(ByteValue) /\ DOMAIN canonicalSamples = DOMAIN Final
      /\ \A i \in DOMAIN Final : /\ Len(canonicalSamples[i]) = 3
                                 /\ \A p \in 1 .. 3 : canonicalSamples[i][p] = Int24LE(Final[i])[p]
  BY <1>1, <1>2, Written DEF canonicalSamples
<1>4. ASSUME NEW i \in DOMAIN Final
      PROVE  canonicalSamples[i] \in Seq(ByteValue) /\ Int24(canonicalSamples[i]) = Final[i]
  <2>1. canonicalSamples[i] \in Seq(ByteValue)
    <3>1. i \in DOMAIN Samples(canonical.value, 3)
      BY <1>3 DEF canonicalSamples
    <3>2. QED
      BY <1>3, <3>1, SampleBytes DEF canonicalSamples
  <2>2. PICK j, k \in DOMAIN Decoded : Decoded[j] <= Final[i] /\ Final[i] <= Decoded[k]
    BY <1>1, FinalSamples DEF StaysAround
  <2>3. Decoded[j] \in Range24 /\ Decoded[k] \in Range24 /\ Final[i] \in Int
    BY <1>1, <1>2
  <2>4. Final[i] \in Range24
    <3>1. PICK h \in Nat : Values[3] \div 2 = h
      BY Widths24
    <3>2. QED
      BY <2>2, <2>3, <3>1 DEF Range24
  <2>5. \A p \in 1 .. 3 : canonicalSamples[i][p] = Int24LE(Final[i])[p]
    BY <1>3
  <2>6. Int24(canonicalSamples[i]) = Final[i]
    BY <2>3, <2>4, <2>5, WriteThenRead
  <2>7. QED
    BY <2>1, <2>6
<1>5. QED
  BY <1>2, <1>3, <1>4

(* For every file, every rate and every even number of values of a byte: a   *)
(* PCM file at the target rate keeps the bytes of every sample, one at       *)
(* another rate is interpolated between the neighbouring samples of each     *)
(* channel to half a unit, and canonical audio, that of floats included, is  *)
(* its own canonical audio (core/src/index.js:578-734).                      *)
THEOREM CanonicalStaysFaithful == AudioSpec => []CanonicalAudioIsFaithful
<1>1. FileInv => CanonicalIsFixpoint
  <2> SUFFICES ASSUME FileInv, canonical.ok PROVE CanonicalIsFixpoint
    BY DEF CanonicalIsFixpoint
  <2>1. Format.channels \in {1, 2} /\ canonical = Outcome(TRUE, WriteInterleaved24(Final))
    BY CanonicalParts DEF ValidFormat
  <2>2. Final \in Seq(Int) /\ \E whole \in Nat : Len(Final) = Format.channels * whole
    BY FinalSamples DEF StaysAround
  <2>3. canonical.value = WriteInterleaved24(Final)
    BY <2>1 DEF Outcome
  <2> DEFINE again == WithData([audioFormat |-> 1, bytesPerSample |-> 3,
                                channels |-> Format.channels, sampleRate |-> TargetRate],
                               WriteInterleaved24(Final))
  <2>4. CanonicalizeWavTo24BitLE(again) = Outcome(TRUE, WriteInterleaved24(Final))
    BY <2>1, <2>2, CanonicalAgain
  <2>5. QED
    BY <2>1, <2>3, <2>4 DEF CanonicalIsFixpoint
<1>2. FileInv => SamplesAreKept
  <2> SUFFICES ASSUME FileInv, fromPcm, Format.sampleRate = TargetRate
               PROVE  canonicalSamples = sourceSamples
    BY DEF SamplesAreKept
  <2>1. Final = Decoded
    BY DEF Final
  <2>2. DOMAIN canonicalSamples = DOMAIN Decoded /\ DOMAIN sourceSamples = DOMAIN Decoded
    BY <2>1, WrittenFromPcm, SourceDecoded
  <2>3. ASSUME NEW i \in DOMAIN Decoded
        PROVE  canonicalSamples[i] = sourceSamples[i]
    <3>1. /\ canonicalSamples[i] \in Seq(ByteValue) /\ Len(canonicalSamples[i]) = 3
          /\ sourceSamples[i] \in Seq(ByteValue) /\ Len(sourceSamples[i]) = 3
      BY <2>1, WrittenFromPcm, SourceDecoded
    <3>2. \A p \in 1 .. 3 : canonicalSamples[i][p] = sourceSamples[i][p]
      BY <2>1, WrittenFromPcm, SourceDecoded
    <3>3. QED
      BY <3>1, <3>2
  <2>4. canonicalSamples = [i \in DOMAIN Decoded |-> canonicalSamples[i]]
        /\ sourceSamples = [i \in DOMAIN Decoded |-> sourceSamples[i]]
    <3>1. /\ canonicalSamples = [i \in DOMAIN canonicalSamples |-> canonicalSamples[i]]
          /\ sourceSamples = [i \in DOMAIN sourceSamples |-> sourceSamples[i]]
      BY DEF canonicalSamples, sourceSamples, Samples
    <3>2. QED
      BY <2>2, <3>1
  <2>5. QED
    BY <2>3, <2>4
<1>3. FileInv => ResamplingInterpolates
  <2> SUFFICES ASSUME FileInv, fromPcm, Format.sampleRate # TargetRate,
                      NEW i \in DOMAIN canonicalSamples
               PROVE  OnTheLine(Int24(canonicalSamples[i]),
                                (i - 1) \div Format.channels, (i - 1) % Format.channels)
    BY DEF ResamplingInterpolates
  <2> DEFINE channels == Format.channels
             rate == Format.sampleRate
             k == (i - 1) \div channels
             c == (i - 1) % channels
             out == Int24(canonicalSamples[i])
             At(frame) == Int24(sourceSamples[frame * channels + c + 1])
             In(frame) == Decoded[frame * channels + c + 1]
  <2>1. /\ canonical.ok /\ channels \in {1, 2} /\ rate \in Nat \ {0}
        /\ TargetRate \in Nat \ {0} /\ Decoded \in Seq(Int)
    BY CanonicalParts, AudioAssumption DEF fromPcm, ValidFormat, FormatType
  <2>2. PICK whole \in Nat : Len(Decoded) = channels * whole
    BY <2>1, CanonicalParts
  <2>3. /\ i \in DOMAIN Final /\ out = Final[i] /\ Final[i] \in Int
        /\ Final \in Seq(Int)
    BY WrittenFromPcm
  <2>4. Interpolates(Decoded, channels, whole, rate, Final)
    BY <2>1, <2>2, FinalInterpolated
  <2>5. PICK left \in 0 .. whole - 1 :
          LET right == IF left + 1 < whole THEN left + 1 ELSE whole - 1
              past == k * rate - left * TargetRate
          IN  /\ 0 <= past /\ past < TargetRate
              /\ Final[i] = Between(In(left), In(right), past, TargetRate)
    BY <2>3, <2>4 DEF Interpolates
  <2>6. i \in Nat \ {0}
    BY <2>3
  <2>7. c \in 0 .. channels - 1 /\ k \in Nat
    <3> HIDE DEF channels
    <3>1. QED
      BY <2>1, <2>6
  <2>8. Len(sourceSamples) \div channels = whole
    <3>1. Len(sourceSamples) = channels * whole
      BY <2>2, SourceDecoded
    <3> HIDE DEF channels
    <3>2. QED
      BY <2>1, <3>1, Interleaved
  <2> DEFINE right == IF left = whole - 1 THEN left ELSE left + 1
             past == k * rate - left * TargetRate
             line == At(left) * (TargetRate - past) + At(right) * past
  <2> HIDE DEF channels, rate, k, c, out
  <2>9. right = (IF left + 1 < whole THEN left + 1 ELSE whole - 1) /\ right \in 0 .. whole - 1
    BY <2>5
  <2>10. \A frame \in 0 .. whole - 1 : At(frame) = In(frame) /\ In(frame) \in Int
    <3>1. \A frame \in 0 .. whole - 1 : frame * channels + c + 1 \in DOMAIN Decoded
      <4>1. DOMAIN Decoded = 1 .. channels * whole
        BY <2>1, <2>2
      <4>2. QED
        BY <2>1, <2>7, <4>1, Interleaved
    <3>2. \A j \in DOMAIN Decoded : Int24(sourceSamples[j]) = Decoded[j] /\ Decoded[j] \in Int
      BY <2>1, SourceDecoded
    <3>3. QED
      BY <3>1, <3>2
  <2> HIDE DEF right
  <2>11. /\ 0 <= past /\ past < TargetRate /\ past \in Int
         /\ out = DivRoundSigned(line, TargetRate)
    <3>1. k * rate \in Int /\ left * TargetRate \in Int
      BY <2>1, <2>7
    <3>2. past \in Int
      BY <3>1
    <3>3. 0 <= past /\ past < TargetRate /\ Final[i] = Between(In(left), In(right), past, TargetRate)
      BY <2>5, <2>9
    <3>4. At(left) = In(left) /\ At(right) = In(right)
      BY <2>9, <2>10
    <3> HIDE DEF past, At, In
    <3>5. QED
      BY <2>3, <3>2, <3>3, <3>4 DEF Between, line
  <2>12. line \in Int
    <3>1. At(left) \in Int /\ At(right) \in Int
      BY <2>9, <2>10
    <3> HIDE DEF At, past
    <3>2. QED
      BY <2>1, <2>11, <3>1
  <2>13. - TargetRate <= 2 * (TargetRate * out - line) /\ 2 * (TargetRate * out - line) <= TargetRate
    <3> HIDE DEF line
    <3>1. QED
      BY <2>1, <2>11, <2>12, RoundedNearby
  <2>14. OnTheLine(out, k, c)
    <3> HIDE DEF line
    <3>1. /\ 0 <= past /\ past < TargetRate
          /\ - TargetRate <= 2 * (TargetRate * out - line)
          /\ 2 * (TargetRate * out - line) <= TargetRate
      BY <2>11, <2>13
    <3>2. QED
      BY <2>8, <3>1 DEF OnTheLine, channels, rate, right, line
  <2>15. QED
    BY <2>14 DEF out, k, c, channels
<1>4. FileInv => CanonicalAudioIsFaithful
  BY <1>1, <1>2, <1>3 DEF CanonicalAudioIsFaithful
<1>5. QED
  BY <1>4, FilesTyped, PTL

-----------------------------------------------------------------------------
(* The types of watermarks *)

Quad == [1 .. 4 -> Bit]

CodeInv ==
  /\ payload \in Payloads \cup {<<>>}
  /\ frames \in Nat
  /\ payload = <<>> => frames = 0
  /\ burst \in [rep : 0 .. RepetitionFactor, left : Bit]
  /\ flips \in [1 .. Nibbles -> {<<0, 0>>} \cup (1 .. RepetitionFactor) \X (1 .. 7)]

LEMMA CodeTyped == CodeSpec => []CodeInv
<1>1. CodeInit => CodeInv
  <2> SUFFICES ASSUME CodeInit PROVE CodeInv
    OBVIOUS
  <2>1. burst \in [rep : 0 .. RepetitionFactor, left : Bit]
    BY CodeAssumption DEF CodeInit, NoBurst, Bit
  <2>2. QED
    BY <2>1 DEF CodeInit, CodeInv
<1>2. CodeInv /\ [CodeNext]_codeVars => CodeInv'
  <2> SUFFICES ASSUME CodeInv, [CodeNext]_codeVars PROVE CodeInv'
    OBVIOUS
  <2>1. CASE UNCHANGED codeVars
    BY <2>1 DEF CodeInv, codeVars
  <2>2. CASE payload # <<>> /\ Burst
    <3>1. PICK rep \in 1 .. RepetitionFactor, left \in Bit : burst' = [rep |-> rep, left |-> left]
      BY <2>2 DEF Burst
    <3>2. burst' \in [rep : 0 .. RepetitionFactor, left : Bit]
      BY <3>1
    <3>3. QED
      BY <2>2, <3>2 DEF CodeInv, Burst
  <2>3. ASSUME payload # <<>>, NEW k \in 1 .. Nibbles, Flip(k)
        PROVE  CodeInv'
    <3>1. PICK rep \in 1 .. RepetitionFactor, p \in 1 .. 7 : flips' = [flips EXCEPT ![k] = <<rep, p>>]
      BY <2>3 DEF Flip
    <3> DEFINE Hits == {<<0, 0>>} \cup (1 .. RepetitionFactor) \X (1 .. 7)
    <3>2. flips \in [1 .. Nibbles -> Hits] /\ <<rep, p>> \in Hits
      BY <3>1 DEF CodeInv
    <3> HIDE DEF Hits
    <3>3. flips' \in [1 .. Nibbles -> Hits]
      BY <3>1, <3>2
    <3>4. QED
      BY <2>3, <3>3 DEF CodeInv, Flip, Hits
  <2>4. CASE payload # <<>> /\ Longer
    BY <2>4 DEF CodeInv, Longer
  <2>5. QED
    BY <2>1, <2>2, <2>3, <2>4 DEF CodeNext
<1>3. QED
  BY <1>1, <1>2, PTL DEF CodeSpec

-----------------------------------------------------------------------------
(* Hamming's code *)

(* One wrong bit, or none, in a codeword is corrected.                      *)
LEMMA HammingCorrects ==
  ASSUME NEW d \in Quad, NEW r \in [1 .. 7 -> Bit], NEW e \in 0 .. 7,
         \A p \in 1 .. 7 : p # e => r[p] = HammingEncode(d)[p]
  PROVE  HammingDecode(r) = d
<1> DEFINE a == d[1]
           b == d[2]
           c == d[3]
           f == d[4]
<1>1. /\ a \in {0, 1} /\ b \in {0, 1} /\ c \in {0, 1} /\ f \in {0, 1}
      /\ d = <<a, b, c, f>>
  BY DEF Quad, Bit
<1>2. /\ r[1] \in {0, 1} /\ r[2] \in {0, 1} /\ r[3] \in {0, 1} /\ r[4] \in {0, 1}
      /\ r[5] \in {0, 1} /\ r[6] \in {0, 1} /\ r[7] \in {0, 1}
  BY DEF Bit
<1> HIDE DEF a, b, c, f
<1>3. /\ e # 1 => r[1] = (a + b + f) % 2
      /\ e # 2 => r[2] = (a + c + f) % 2
      /\ e # 3 => r[3] = a
      /\ e # 4 => r[4] = (b + c + f) % 2
      /\ e # 5 => r[5] = b
      /\ e # 6 => r[6] = c
      /\ e # 7 => r[7] = f
  <2> DEFINE code == << (a + b + f) % 2, (a + c + f) % 2, a, (b + c + f) % 2, b, c, f >>
  <2>1. HammingEncode(d) = code
    BY DEF HammingEncode, Xor, a, b, c, f
  <2>2. /\ code[1] = (a + b + f) % 2 /\ code[2] = (a + c + f) % 2 /\ code[3] = a
        /\ code[4] = (b + c + f) % 2 /\ code[5] = b /\ code[6] = c /\ code[7] = f
    OBVIOUS
  <2> HIDE DEF code
  <2>3. \A p \in 1 .. 7 : p # e => r[p] = code[p]
    BY <2>1
  <2>4. QED
    BY <2>2, <2>3
<1> DEFINE s1 == (r[1] + r[3] + r[5] + r[7]) % 2
           s2 == (r[2] + r[3] + r[6] + r[7]) % 2
           s4 == (r[4] + r[5] + r[6] + r[7]) % 2
           errorPos == 4 * s4 + 2 * s2 + s1
           fixed == [i \in 1 .. 7 |-> IF i = errorPos THEN 1 - r[i] ELSE r[i]]
<1>4. HammingDecode(r) = << fixed[3], fixed[5], fixed[6], fixed[7] >>
  BY DEF HammingDecode
<1>5. /\ fixed[3] = IF 3 = errorPos THEN 1 - r[3] ELSE r[3]
      /\ fixed[5] = IF 5 = errorPos THEN 1 - r[5] ELSE r[5]
      /\ fixed[6] = IF 6 = errorPos THEN 1 - r[6] ELSE r[6]
      /\ fixed[7] = IF 7 = errorPos THEN 1 - r[7] ELSE r[7]
  <2> HIDE DEF errorPos
  <2>1. QED
    OBVIOUS
<1> HIDE DEF fixed
<1>6. fixed[3] = a /\ fixed[5] = b /\ fixed[6] = c /\ fixed[7] = f
  <2> DEFINE x1 == r[1]
             x2 == r[2]
             x3 == r[3]
             x4 == r[4]
             x5 == r[5]
             x6 == r[6]
             x7 == r[7]
             pos == errorPos
  <2>1. pos = 4 * ((x4 + x5 + x6 + x7) % 2) + 2 * ((x2 + x3 + x6 + x7) % 2)
                + ((x1 + x3 + x5 + x7) % 2)
    OBVIOUS
  <2>2. /\ x1 \in {0, 1} /\ x2 \in {0, 1} /\ x3 \in {0, 1} /\ x4 \in {0, 1}
        /\ x5 \in {0, 1} /\ x6 \in {0, 1} /\ x7 \in {0, 1}
    BY <1>2
  <2>3. /\ (e # 1 => x1 = (a + b + f) % 2) /\ (e # 2 => x2 = (a + c + f) % 2)
        /\ (e # 3 => x3 = a) /\ (e # 4 => x4 = (b + c + f) % 2)
        /\ (e # 5 => x5 = b) /\ (e # 6 => x6 = c) /\ (e # 7 => x7 = f)
    BY <1>3
  <2>4. /\ fixed[3] = (IF 3 = pos THEN 1 - x3 ELSE x3)
        /\ fixed[5] = (IF 5 = pos THEN 1 - x5 ELSE x5)
        /\ fixed[6] = (IF 6 = pos THEN 1 - x6 ELSE x6)
        /\ fixed[7] = (IF 7 = pos THEN 1 - x7 ELSE x7)
    BY <1>5
  <2> HIDE DEF x1, x2, x3, x4, x5, x6, x7, pos
  <2>5. CASE e = 0
    BY <1>1, <2>1, <2>2, <2>3, <2>4, <2>5
  <2>6. CASE e = 1
    BY <1>1, <2>1, <2>2, <2>3, <2>4, <2>6
  <2>7. CASE e = 2
    BY <1>1, <2>1, <2>2, <2>3, <2>4, <2>7
  <2>8. CASE e = 3
    BY <1>1, <2>1, <2>2, <2>3, <2>4, <2>8
  <2>9. CASE e = 4
    BY <1>1, <2>1, <2>2, <2>3, <2>4, <2>9
  <2>10. CASE e = 5
    BY <1>1, <2>1, <2>2, <2>3, <2>4, <2>10
  <2>11. CASE e = 6
    BY <1>1, <2>1, <2>2, <2>3, <2>4, <2>11
  <2>12. CASE e = 7
    BY <1>1, <2>1, <2>2, <2>3, <2>4, <2>12
  <2>13. QED
    BY <2>5, <2>6, <2>7, <2>8, <2>9, <2>10, <2>11, <2>12
<1>7. QED
  BY <1>1, <1>4, <1>6

-----------------------------------------------------------------------------
(* The vote *)

(* Of three or more votes one may be wrong.                                 *)
LEMMA VoteIsWon ==
  ASSUME NEW votes \in [1 .. RepetitionFactor -> Bit], NEW bit \in Bit, NEW x,
         \A rep \in 1 .. RepetitionFactor : rep # x => votes[rep] = bit
  PROVE  Majority(votes) = bit
<1> DEFINE R == RepetitionFactor
           S == {rep \in 1 .. R : votes[rep] = 1}
<1>1. R \in Nat /\ R >= 3
  BY CodeAssumption
<1>2. IsFiniteSet(1 .. R) /\ Cardinality(1 .. R) = R
  BY <1>1, FS_Interval
<1>3. Len(votes) = R /\ DOMAIN votes = 1 .. R
  BY <1>1
<1>4. IsFiniteSet(S) /\ Cardinality(S) \in Nat
  BY <1>2, FS_Subset, FS_CardinalityType
<1>5. Ones(votes) = Cardinality(S)
  BY <1>3 DEF Ones
<1>6. CASE bit = 1
  <2>1. (1 .. R) \ {x} \subseteq S
    BY <1>6
  <2>2. /\ IsFiniteSet((1 .. R) \ {x})
        /\ Cardinality((1 .. R) \ {x}) >= R - 1
    <3>1. /\ IsFiniteSet((1 .. R) \ {x})
          /\ Cardinality((1 .. R) \ {x}) = IF x \in 1 .. R THEN R - 1 ELSE R
      BY <1>2, FS_RemoveElement
    <3>2. QED
      BY <1>1, <3>1
  <2>3. Cardinality((1 .. R) \ {x}) <= Cardinality(S) /\ Cardinality((1 .. R) \ {x}) \in Nat
    BY <1>4, <2>1, <2>2, FS_Subset, FS_CardinalityType
  <2> HIDE DEF S
  <2>4. 2 * Cardinality(S) >= R
    BY <1>1, <1>4, <2>2, <2>3
  <2>5. QED
    BY <1>3, <1>5, <1>6, <2>4 DEF Majority
<1>7. CASE bit = 0
  <2>1. S \subseteq {x}
    BY <1>7
  <2>2. IsFiniteSet({x}) /\ Cardinality({x}) = 1
    BY FS_Singleton
  <2>3. Cardinality(S) <= 1
    BY <2>1, <2>2, FS_Subset
  <2> HIDE DEF S
  <2>4. ~ 2 * Cardinality(S) >= R
    BY <1>1, <1>4, <2>3
  <2>5. QED
    BY <1>3, <1>5, <1>7, <2>4 DEF Majority
<1>8. QED
  BY <1>6, <1>7 DEF Bit

-----------------------------------------------------------------------------
(* Where the bits are *)

SyncBits == Len(SyncWord)

LEMMA Sizes ==
  /\ SyncBits \in Nat /\ DOMAIN SyncWord = 1 .. SyncBits
  /\ \A i \in 1 .. SyncBits : SyncWord[i] \in Bit
  /\ BlockBits = SyncBits + 7 * Nibbles /\ BlockBits \in Nat \ {0}
  /\ TotalBits = RepetitionFactor * BlockBits /\ TotalBits \in Nat \ {0}
<1>1. SyncWord \in Seq(Bit) /\ Nibbles \in Nat \ {0}
  BY CodeAssumption
<1>2. /\ SyncBits \in Nat /\ DOMAIN SyncWord = 1 .. SyncBits
      /\ \A i \in 1 .. SyncBits : SyncWord[i] \in Bit
  BY <1>1 DEF SyncBits
<1>3. BlockBits = SyncBits + 7 * Nibbles /\ BlockBits \in Nat \ {0}
  BY <1>1, <1>2 DEF BlockBits, SyncBits
<1>4. TotalBits \in Nat \ {0}
  <2>1. \A x, y \in Nat \ {0} : x * y \in Nat \ {0}
    OBVIOUS
  <2>2. RepetitionFactor \in Nat \ {0}
    BY CodeAssumption
  <2>3. QED
    BY <1>3, <2>1, <2>2 DEF TotalBits
<1>5. QED
  BY <1>2, <1>3, <1>4 DEF TotalBits

\* Bit j of a repetition, and bit p of the codeword of a nibble.
Place(rep, j) == (rep - 1) * BlockBits + j
CodePlace(k, p) == SyncBits + 7 * (k - 1) + p

LEMMA BlockPlace ==
  ASSUME NEW b \in Nat \ {0}, NEW r \in Nat, NEW rep \in 1 .. r, NEW j \in 1 .. b
  PROVE  /\ (rep - 1) * b + j \in 1 .. r * b
         /\ ((rep - 1) * b + j - 1) % b = j - 1
         /\ ((rep - 1) * b + j - 1) \div b = rep - 1
<1> DEFINE q == rep - 1
           n == q * b + j
<1>1. q \in Nat /\ q * b \in Nat
  OBVIOUS
<1>2. n - 1 = b * q + (j - 1) /\ n - 1 \in Int
  BY <1>1
<1>3. (n - 1) \div b = q /\ (n - 1) % b = j - 1
  <2> DEFINE m == n - 1
  <2>1. m \in Int /\ m = b * q + (j - 1) /\ q \in Int /\ j - 1 \in Int /\ 0 <= j - 1 /\ j - 1 < b
    BY <1>1, <1>2
  <2> HIDE DEF m, q
  <2>2. m \div b = q /\ m % b = j - 1
    BY <2>1, Quotient
  <2>3. QED
    BY <2>2 DEF m
<1>4. n <= r * b /\ n >= 1
  <2>1. rep * b <= r * b
    OBVIOUS
  <2>2. rep * b = q * b + b /\ rep * b \in Int /\ r * b \in Int
    OBVIOUS
  <2> HIDE DEF q
  <2>3. QED
    BY <1>1, <2>1, <2>2
<1>5. n \in 1 .. r * b
  <2>1. n \in Int /\ r * b \in Int
    BY <1>1
  <2> HIDE DEF n
  <2>2. QED
    BY <1>4, <2>1
<1>6. QED
  BY <1>3, <1>5

LEMMA Places ==
  ASSUME NEW rep \in 1 .. RepetitionFactor, NEW j \in 1 .. BlockBits
  PROVE  /\ Place(rep, j) \in 1 .. TotalBits
         /\ ((Place(rep, j) - 1) % BlockBits) + 1 = j
         /\ ((Place(rep, j) - 1) \div BlockBits) + 1 = rep
<1> DEFINE b == BlockBits
           r == RepetitionFactor
<1>1. b \in Nat \ {0} /\ r \in Nat /\ rep \in 1 .. r /\ j \in 1 .. b /\ TotalBits = r * b
  BY Sizes, CodeAssumption
<1> HIDE DEF b, r
<1>2. /\ (rep - 1) * b + j \in 1 .. r * b
      /\ ((rep - 1) * b + j - 1) % b = j - 1
      /\ ((rep - 1) * b + j - 1) \div b = rep - 1
  BY <1>1, BlockPlace
<1>3. Place(rep, j) = (rep - 1) * b + j
  BY DEF Place, b
<1>4. j - 1 + 1 = j /\ rep - 1 + 1 = rep
  OBVIOUS
<1>5. QED
  BY <1>1, <1>2, <1>3, <1>4 DEF b

LEMMA CodePlaces ==
  ASSUME NEW k \in 1 .. Nibbles, NEW p \in 1 .. 7
  PROVE  /\ CodePlace(k, p) \in 1 .. BlockBits
         /\ ~ CodePlace(k, p) <= SyncBits
         /\ (CodePlace(k, p) - SyncBits - 1) \div 7 + 1 = k
         /\ ((CodePlace(k, p) - SyncBits - 1) % 7) + 1 = p
<1>1. SyncBits \in Nat /\ Nibbles \in Nat /\ BlockBits = SyncBits + 7 * Nibbles
  BY Sizes, CodeAssumption
<1>2. QED
  BY <1>1 DEF CodePlace

LEMMA CodedPlaces ==
  ASSUME NEW j \in 1 .. BlockBits, ~ j <= SyncBits
  PROVE  /\ (j - SyncBits - 1) \div 7 + 1 \in 1 .. Nibbles
         /\ ((j - SyncBits - 1) % 7) + 1 \in 1 .. 7
<1>1. SyncBits \in Nat /\ Nibbles \in Nat /\ BlockBits = SyncBits + 7 * Nibbles
  BY Sizes, CodeAssumption
<1>2. QED
  BY <1>1

LEMMA CodewordTyped ==
  ASSUME NEW d \in Quad, NEW p \in 1 .. 7
  PROVE  HammingEncode(d)[p] \in Bit
<1>1. d[1] \in {0, 1} /\ d[2] \in {0, 1} /\ d[3] \in {0, 1} /\ d[4] \in {0, 1}
  BY DEF Quad, Bit
<1>2. \A a, b, c \in {0, 1} : Xor(a, b, c) \in {0, 1}
  BY DEF Xor
<1>3. /\ HammingEncode(d)[1] \in {0, 1} /\ HammingEncode(d)[2] \in {0, 1}
      /\ HammingEncode(d)[3] \in {0, 1} /\ HammingEncode(d)[4] \in {0, 1}
      /\ HammingEncode(d)[5] \in {0, 1} /\ HammingEncode(d)[6] \in {0, 1}
      /\ HammingEncode(d)[7] \in {0, 1}
  BY <1>1, <1>2 DEF HammingEncode
<1>4. p \in {1, 2, 3, 4, 5, 6, 7}
  OBVIOUS
<1>5. QED
  BY <1>3, <1>4 DEF Bit

LEMMA BlockTyped ==
  ASSUME NEW m \in [1 .. Nibbles -> Quad]
  PROVE  /\ \A j \in 1 .. BlockBits : BlockBit(m, j) \in Bit
         /\ \A i \in 1 .. SyncBits : BlockBit(m, i) = SyncWord[i]
         /\ \A k \in 1 .. Nibbles, p \in 1 .. 7 :
              BlockBit(m, CodePlace(k, p)) = HammingEncode(m[k])[p]
<1>1. ASSUME NEW j \in 1 .. BlockBits
      PROVE  BlockBit(m, j) \in Bit
  <2>1. CASE j <= SyncBits
    <3>1. j \in 1 .. SyncBits
      BY <2>1, Sizes
    <3>2. BlockBit(m, j) = SyncWord[j]
      BY <2>1 DEF BlockBit, SyncBits
    <3>3. QED
      BY <3>1, <3>2, Sizes
  <2>2. CASE ~ j <= SyncBits
    <3> DEFINE k == (j - SyncBits - 1) \div 7 + 1
               p == ((j - SyncBits - 1) % 7) + 1
    <3>1. k \in 1 .. Nibbles /\ p \in 1 .. 7
      BY <2>2, CodedPlaces
    <3>2. BlockBit(m, j) = HammingEncode(m[k])[p]
      BY <2>2 DEF BlockBit, SyncBits
    <3> HIDE DEF k, p
    <3>3. QED
      BY <3>1, <3>2, CodewordTyped
  <2>3. QED
    BY <2>1, <2>2
<1>2. ASSUME NEW i \in 1 .. SyncBits
      PROVE  BlockBit(m, i) = SyncWord[i]
  BY DEF BlockBit, SyncBits
<1>3. ASSUME NEW k \in 1 .. Nibbles, NEW p \in 1 .. 7
      PROVE  BlockBit(m, CodePlace(k, p)) = HammingEncode(m[k])[p]
  BY CodePlaces DEF BlockBit, SyncBits
<1>4. QED
  BY <1>1, <1>2, <1>3

\* Each repetition of the bits to embed is a block.
LEMMA BitsAreBlocks ==
  ASSUME NEW m \in [1 .. Nibbles -> Quad]
  PROVE  /\ PayloadToBitsECC(m) \in [1 .. TotalBits -> Bit]
         /\ \A rep \in 1 .. RepetitionFactor, j \in 1 .. BlockBits :
              PayloadToBitsECC(m)[Place(rep, j)] = BlockBit(m, j)
<1> DEFINE Offset0(i) == ((i - 1) % BlockBits) + 1
           bits == PayloadToBitsECC(m)
<1>1. bits = [i \in 1 .. TotalBits |-> BlockBit(m, Offset0(i))]
  BY DEF PayloadToBitsECC
<1>2. ASSUME NEW i \in 1 .. TotalBits
      PROVE  Offset0(i) \in 1 .. BlockBits
  <2>1. i - 1 \in Int /\ BlockBits \in Nat \ {0}
    BY Sizes
  <2> DEFINE n == i - 1
             b == BlockBits
  <2> HIDE DEF n, b
  <2>2. (n % b) \in Int /\ 0 <= n % b /\ n % b < b
    BY <2>1, Divided DEF n, b
  <2>3. (n % b) + 1 \in 1 .. b
    BY <2>1, <2>2 DEF b
  <2>4. QED
    BY <2>3 DEF n, b
<1>3. \A rep \in 1 .. RepetitionFactor, j \in 1 .. BlockBits :
        Place(rep, j) \in 1 .. TotalBits /\ Offset0(Place(rep, j)) = j
  BY Places
<1> HIDE DEF Offset0, bits
<1>4. bits \in [1 .. TotalBits -> Bit]
  BY <1>1, <1>2, BlockTyped
<1>5. \A rep \in 1 .. RepetitionFactor, j \in 1 .. BlockBits : bits[Place(rep, j)] = BlockBit(m, j)
  BY <1>1, <1>3
<1>6. QED
  BY <1>4, <1>5 DEF bits

-----------------------------------------------------------------------------
(* Reading *)

\* Every codeword of the bits is right but for repetition `lost` and for bit
\* bad[k] of codeword k.
AlmostRight(bits, m, lost, bad) ==
  \A rep \in 1 .. RepetitionFactor, k \in 1 .. Nibbles, p \in 1 .. 7 :
    rep # lost /\ p # bad[k] => bits[Place(rep, CodePlace(k, p))] = HammingEncode(m[k])[p]

(* A payload is read although a repetition is lost and every codeword has a *)
(* further wrong bit.                                                       *)
LEMMA PayloadIsRead ==
  ASSUME NEW m \in [1 .. Nibbles -> Quad], NEW bits \in [1 .. TotalBits -> Bit],
         NEW lost, NEW bad \in [1 .. Nibbles -> 0 .. 7], AlmostRight(bits, m, lost, bad)
  PROVE  DecodeBitsECC(bits).payload = m
<1> DEFINE Codeword(k) == [p \in 1 .. 7 |-> Majority(Votes(bits, Len(SyncWord) + 7 * (k - 1) + p))]
<1>1. DecodeBitsECC(bits).payload = [k \in 1 .. Nibbles |-> HammingDecode(Codeword(k))]
  BY DEF DecodeBitsECC
<1>2. ASSUME NEW k \in 1 .. Nibbles
      PROVE  HammingDecode(Codeword(k)) = m[k]
  <2> DEFINE votes(p) == Votes(bits, CodePlace(k, p))
  <2>1. Codeword(k) = [p \in 1 .. 7 |-> Majority(votes(p))]
    BY DEF CodePlace, SyncBits
  <2>2. ASSUME NEW p \in 1 .. 7
        PROVE  /\ votes(p) \in [1 .. RepetitionFactor -> Bit]
               /\ \A rep \in 1 .. RepetitionFactor :
                    votes(p)[rep] = bits[Place(rep, CodePlace(k, p))]
    <3>1. votes(p) = [rep \in 1 .. RepetitionFactor |-> bits[Place(rep, CodePlace(k, p))]]
      BY DEF Votes, Place
    <3>2. \A rep \in 1 .. RepetitionFactor : Place(rep, CodePlace(k, p)) \in 1 .. TotalBits
      BY CodePlaces, Places
    <3> HIDE DEF votes
    <3>3. QED
      BY <3>1, <3>2
  <2> HIDE DEF votes, Codeword
  <2>3. ASSUME NEW p \in 1 .. 7
        PROVE  Majority(votes(p)) \in Bit
    BY DEF Majority, Bit
  <2>4. ASSUME NEW p \in 1 .. 7, p # bad[k]
        PROVE  Majority(votes(p)) = HammingEncode(m[k])[p]
    <3>1. \A rep \in 1 .. RepetitionFactor : rep # lost => votes(p)[rep] = HammingEncode(m[k])[p]
      BY <2>2, <2>4 DEF AlmostRight
    <3>2. HammingEncode(m[k])[p] \in Bit
      BY CodewordTyped
    <3> DEFINE given == votes(p)
               bit == HammingEncode(m[k])[p]
    <3>3. /\ given \in [1 .. RepetitionFactor -> Bit] /\ bit \in Bit
          /\ \A rep \in 1 .. RepetitionFactor : rep # lost => given[rep] = bit
      BY <2>2, <3>1, <3>2
    <3> HIDE DEF given, bit
    <3>4. Majority(given) = bit
      BY <3>3, VoteIsWon
    <3>5. QED
      BY <3>4 DEF given, bit
  <2>5. Codeword(k) \in [1 .. 7 -> Bit]
    BY <2>1, <2>3
  <2>6. \A p \in 1 .. 7 : p # bad[k] => Codeword(k)[p] = HammingEncode(m[k])[p]
    BY <2>1, <2>4
  <2>7. m[k] \in Quad /\ bad[k] \in 0 .. 7
    OBVIOUS
  <2>8. QED
    BY <2>5, <2>6, <2>7, HammingCorrects
<1> HIDE DEF Codeword
<1>3. [k \in 1 .. Nibbles |-> HammingDecode(Codeword(k))] = m
  BY <1>2
<1>4. QED
  BY <1>1, <1>3

(* The sync words of the repetitions that are not lost are a majority.      *)
LEMMA SyncIsFound ==
  ASSUME NEW bits, NEW lost,
         \A rep \in 1 .. RepetitionFactor, i \in 1 .. SyncBits :
           rep # lost => bits[Place(rep, i)] = SyncWord[i]
  PROVE  2 * DecodeBitsECC(bits).syncOk >= RepetitionFactor
<1> DEFINE R == RepetitionFactor
<1>1. R \in Nat /\ R >= 3 /\ SyncBits \in Nat /\ DOMAIN SyncWord = 1 .. SyncBits
  BY CodeAssumption, Sizes
<1>2. ASSUME NEW rep \in 1 .. R, rep # lost
      PROVE  rep \in SyncOk(bits)
  <2>1. {i \in DOMAIN SyncWord : bits[(rep - 1) * BlockBits + i] = SyncWord[i]} = 1 .. SyncBits
    BY <1>1, <1>2 DEF Place
  <2>a. Cardinality(1 .. SyncBits) = SyncBits
    BY <1>1, FS_Interval
  <2>2. SyncMatches(bits, rep) = SyncBits
    BY <2>1, <2>a DEF SyncMatches
  <2>3. SyncBits >= (3 * SyncBits) \div 4
    BY <1>1
  <2>4. QED
    BY <2>2, <2>3 DEF SyncOk, SyncBits
<1>3. IsFiniteSet(1 .. R) /\ Cardinality(1 .. R) = R
  BY <1>1, FS_Interval
<1>4. /\ IsFiniteSet((1 .. R) \ {lost})
      /\ Cardinality((1 .. R) \ {lost}) >= R - 1 /\ Cardinality((1 .. R) \ {lost}) \in Nat
  <2>1. /\ IsFiniteSet((1 .. R) \ {lost})
        /\ Cardinality((1 .. R) \ {lost}) = IF lost \in 1 .. R THEN R - 1 ELSE R
    BY <1>3, FS_RemoveElement
  <2>2. QED
    BY <1>1, <2>1
<1>5. SyncOk(bits) \subseteq 1 .. R /\ (1 .. R) \ {lost} \subseteq SyncOk(bits)
  BY <1>2 DEF SyncOk
<1>6. /\ IsFiniteSet(SyncOk(bits)) /\ Cardinality(SyncOk(bits)) \in Nat
      /\ Cardinality(SyncOk(bits)) >= R - 1
  <2>1. IsFiniteSet(SyncOk(bits)) /\ Cardinality(SyncOk(bits)) \in Nat
    BY <1>3, <1>5, FS_Subset, FS_CardinalityType
  <2>2. Cardinality((1 .. R) \ {lost}) <= Cardinality(SyncOk(bits))
    BY <1>5, <2>1, FS_Subset
  <2>3. QED
    BY <1>1, <1>4, <2>1, <2>2
<1>7. DecodeBitsECC(bits).syncOk = Cardinality(SyncOk(bits))
  BY DEF DecodeBitsECC
<1>8. QED
  BY <1>1, <1>6, <1>7

LEMMA PayloadTyped ==
  ASSUME CodeInv, payload # <<>>
  PROVE  payload \in [1 .. Nibbles -> Quad]
BY CodeAssumption DEF CodeInv, Quad

\* What the damage leaves alone.
LEMMA DamagedBits ==
  ASSUME CodeInv, payload # <<>>
  PROVE  /\ Damaged \in [1 .. TotalBits -> Bit]
         /\ \A rep \in 1 .. RepetitionFactor, i \in 1 .. SyncBits :
              rep # burst.rep => Damaged[Place(rep, i)] = SyncWord[i]
         /\ AlmostRight(Damaged, payload, burst.rep, [k \in 1 .. Nibbles |-> flips[k][2]])
<1> DEFINE bits == PayloadToBitsECC(payload)
           Flipped(i) == \E k \in 1 .. Nibbles :
                           /\ Repetition(i) = flips[k][1]
                           /\ Offset(i) = Len(SyncWord) + 7 * (k - 1) + flips[k][2]
<1>1. payload \in [1 .. Nibbles -> Quad]
  BY PayloadTyped
<1>2. /\ bits \in [1 .. TotalBits -> Bit]
      /\ \A rep \in 1 .. RepetitionFactor, j \in 1 .. BlockBits :
           bits[Place(rep, j)] = BlockBit(payload, j)
  BY <1>1, BitsAreBlocks
<1>3. Damaged = [i \in 1 .. TotalBits |-> IF Repetition(i) = burst.rep THEN burst.left
                                          ELSE IF Flipped(i) THEN 1 - bits[i] ELSE bits[i]]
  BY <1>2 DEF Damaged
<1> HIDE DEF bits
<1>4. Damaged \in [1 .. TotalBits -> Bit]
  <2>1. burst.left \in Bit
    BY DEF CodeInv
  <2>2. \A i \in 1 .. TotalBits : bits[i] \in Bit /\ 1 - bits[i] \in Bit
    BY <1>2 DEF Bit
  <2> HIDE DEF Flipped
  <2>3. QED
    BY <1>3, <2>1, <2>2
<1>5. ASSUME NEW k \in 1 .. Nibbles
      PROVE  \/ flips[k][1] = 0
             \/ flips[k][1] \in 1 .. RepetitionFactor /\ flips[k][2] \in 1 .. 7
  <2>1. flips[k] \in {<<0, 0>>} \cup (1 .. RepetitionFactor) \X (1 .. 7)
    BY DEF CodeInv
  <2>2. QED
    BY <2>1
<1>6. ASSUME NEW rep \in 1 .. RepetitionFactor, NEW j \in 1 .. BlockBits, rep # burst.rep,
             \A k \in 1 .. Nibbles : flips[k][2] \in 1 .. 7 => j # CodePlace(k, flips[k][2])
      PROVE  Damaged[Place(rep, j)] = BlockBit(payload, j)
  <2> DEFINE i == Place(rep, j)
  <2>1. i \in 1 .. TotalBits /\ Repetition(i) = rep /\ Offset(i) = j
    BY Places DEF Repetition, Offset
  <2> HIDE DEF i
  <2>2. ~ Flipped(i)
    <3> SUFFICES ASSUME NEW k \in 1 .. Nibbles, rep = flips[k][1],
                        j = Len(SyncWord) + 7 * (k - 1) + flips[k][2]
                 PROVE  FALSE
      BY <2>1
    <3>1. rep # 0
      OBVIOUS
    <3>2. flips[k][2] \in 1 .. 7
      BY <1>5, <3>1
    <3>3. j = CodePlace(k, flips[k][2])
      BY DEF CodePlace, SyncBits
    <3>4. QED
      BY <1>6, <3>2, <3>3
  <2> HIDE DEF Flipped
  <2>3. Damaged[i] = bits[i]
    BY <1>3, <1>6, <2>1, <2>2
  <2>4. QED
    BY <1>2, <2>3 DEF i
<1>7. ASSUME NEW rep \in 1 .. RepetitionFactor, NEW i \in 1 .. SyncBits, rep # burst.rep
      PROVE  Damaged[Place(rep, i)] = SyncWord[i]
  <2>1. i \in 1 .. BlockBits
    BY Sizes, CodeAssumption
  <2>2. \A k \in 1 .. Nibbles : flips[k][2] \in 1 .. 7 => i # CodePlace(k, flips[k][2])
    <3>1. i <= SyncBits
      BY Sizes
    <3>2. QED
      BY <3>1, CodePlaces
  <2>3. QED
    BY <1>1, <1>6, <1>7, <2>1, <2>2, BlockTyped
<1>8. ASSUME NEW rep \in 1 .. RepetitionFactor, NEW k \in 1 .. Nibbles, NEW p \in 1 .. 7,
             rep # burst.rep, p # flips[k][2]
      PROVE  Damaged[Place(rep, CodePlace(k, p))] = HammingEncode(payload[k])[p]
  <2>1. CodePlace(k, p) \in 1 .. BlockBits
    BY CodePlaces
  <2>2. ASSUME NEW l \in 1 .. Nibbles, flips[l][2] \in 1 .. 7,
               CodePlace(k, p) = CodePlace(l, flips[l][2])
        PROVE  FALSE
    <3> DEFINE q == flips[l][2]
    <3>1. q \in 1 .. 7 /\ CodePlace(k, p) = CodePlace(l, q) /\ k \in Int /\ l \in Int
      BY <2>2
    <3> HIDE DEF q
    <3>2. k = l /\ p = q
      BY <3>1, Sizes DEF CodePlace
    <3>3. QED
      BY <1>8, <3>2 DEF q
  <2>3. Damaged[Place(rep, CodePlace(k, p))] = BlockBit(payload, CodePlace(k, p))
    BY <1>6, <1>8, <2>1, <2>2
  <2>4. QED
    BY <1>1, <2>3, BlockTyped
<1>9. QED
  BY <1>4, <1>7, <1>8 DEF AlmostRight

(* Whatever the payload, the sync word and the number of repetitions from   *)
(* three on: one lost repetition and a further wrong bit in every codeword  *)
(* are corrected, and the sync words still count (watermark/index.js:31-205). *)
THEOREM DamageStaysCorrected == CodeSpec => []DamageIsCorrected
<1>1. CodeInv => DamageIsCorrected
  <2> SUFFICES ASSUME CodeInv, payload # <<>>
               PROVE  /\ DecodeBitsECC(Damaged).payload = payload
                      /\ 2 * DecodeBitsECC(Damaged).syncOk >= RepetitionFactor
    BY DEF DamageIsCorrected
  <2> DEFINE bad == [k \in 1 .. Nibbles |-> flips[k][2]]
  <2>1. bad \in [1 .. Nibbles -> 0 .. 7]
    <3>1. ASSUME NEW k \in 1 .. Nibbles
          PROVE  flips[k][2] \in 0 .. 7
      <4>1. flips[k] \in {<<0, 0>>} \cup (1 .. RepetitionFactor) \X (1 .. 7)
        BY DEF CodeInv
      <4>2. QED
        BY <4>1
    <3>2. QED
      BY <3>1
  <2> HIDE DEF bad
  <2>2. payload \in [1 .. Nibbles -> Quad] /\ Damaged \in [1 .. TotalBits -> Bit]
    BY PayloadTyped, DamagedBits
  <2>3. AlmostRight(Damaged, payload, burst.rep, bad)
    BY DamagedBits DEF bad
  <2>4. DecodeBitsECC(Damaged).payload = payload
    BY <2>1, <2>2, <2>3, PayloadIsRead
  <2>5. 2 * DecodeBitsECC(Damaged).syncOk >= RepetitionFactor
    BY DamagedBits, SyncIsFound
  <2>6. QED
    BY <2>4, <2>5
<1>2. QED
  BY <1>1, CodeTyped, PTL

-----------------------------------------------------------------------------
(* The plan *)

\* 37, the stride of the plan, is prime.
LEMMA StrideIsPrime ==
  ASSUME NEW b \in 1 .. 36, NEW m \in 1 .. 36, NEW q \in Int, b * m = 37 * q
  PROVE  FALSE
OBVIOUS

\* Fewer steps than there are frames do not lead back to the same frame.
LEMMA StepsPart ==
  ASSUME NEW f \in Nat \ {0}, f % 37 # 0, NEW d \in 1 .. f - 1, NEW m \in Int, 37 * d = f * m
  PROVE  FALSE
<1>1. m \in 1 .. 36
  <2>1. CASE m <= 0
    <3>1. f * m <= 0
      BY <2>1
    <3>2. QED
      BY <3>1
  <2>2. CASE m >= 37
    <3>1. f * m >= f * 37
      BY <2>2
    <3>2. QED
      BY <3>1
  <2>3. QED
    BY <2>1, <2>2
<1> DEFINE a == f \div 37
           b == f % 37
<1>2. a \in Int /\ b \in 1 .. 36 /\ f = 37 * a + b
  OBVIOUS
<1> HIDE DEF a, b
<1>3. b * m = 37 * (d - a * m) /\ d - a * m \in Int
  <2>1. f * m = 37 * (a * m) + b * m /\ a * m \in Int /\ b * m \in Int
    BY <1>1, <1>2
  <2>2. QED
    BY <2>1
<1>4. QED
  BY <1>1, <1>2, <1>3, StrideIsPrime

LEMMA FramesDiffer ==
  ASSUME NEW f \in Nat \ {0}, f % 37 # 0, NEW i \in 1 .. f, NEW j \in 1 .. f, i < j
  PROVE  ((i - 1) * 37) % f # ((j - 1) * 37) % f
<1> DEFINE x == (i - 1) * 37
           y == (j - 1) * 37
<1>1. x \in Int /\ y \in Int /\ y - x = 37 * (j - i) /\ j - i \in 1 .. f - 1
  OBVIOUS
<1> HIDE DEF x, y
<1> SUFFICES ASSUME x % f = y % f PROVE FALSE
  BY DEF x, y
<1>2. PICK p, q, r \in Int : x = f * p + r /\ y = f * q + r
  <2>1. x = f * (x \div f) + (x % f) /\ x \div f \in Int /\ x % f \in Int
    BY <1>1, Divided
  <2>2. y = f * (y \div f) + (y % f) /\ y \div f \in Int
    BY <1>1, Divided
  <2>3. QED
    BY <2>1, <2>2
<1>3. 37 * (j - i) = f * (q - p)
  <2>1. f * (q - p) = f * q - f * p /\ f * q \in Int /\ f * p \in Int
    BY <1>2
  <2>2. QED
    BY <1>1, <1>2, <2>1
<1> DEFINE d == j - i
           m == q - p
<1>4. d \in 1 .. f - 1 /\ m \in Int /\ 37 * d = f * m
  BY <1>1, <1>2, <1>3
<1> HIDE DEF d, m
<1>5. QED
  BY <1>4, StepsPart

LEMMA TilesDiffer ==
  ASSUME NEW f \in Nat, f >= TotalBits, f % 37 # 0,
         NEW i \in 1 .. TotalBits, NEW j \in 1 .. TotalBits, i # j
  PROVE  SpreadingPlan(f)[i] # SpreadingPlan(f)[j]
<1> DEFINE frame(n) == ((n - 1) * 37) % f
           band(n) == ((n - 1) * 19) % SubbandCount
<1>1. f \in Nat \ {0} /\ i \in 1 .. f /\ j \in 1 .. f
  BY Sizes
<1>2. frame(i) # frame(j)
  <2>1. i < j \/ j < i
    OBVIOUS
  <2>2. QED
    BY <1>1, <2>1, FramesDiffer
<1>3. SpreadingPlan(f)[i] = <<frame(i), band(i)>> /\ SpreadingPlan(f)[j] = <<frame(j), band(j)>>
  BY DEF SpreadingPlan
<1> HIDE DEF frame, band
<1>4. QED
  BY <1>2, <1>3

\* What is embedded in tiles of its own is read back.
LEMMA BitsAreRead ==
  ASSUME NEW n, NEW plan, DOMAIN plan = n, NEW bits \in [n -> Bit],
         \A i, j \in n : plan[i] = plan[j] => i = j
  PROVE  HardBits(EmbedBits(bits, plan), plan) = bits
<1> DEFINE there(tile) == {i \in DOMAIN plan : plan[i] = tile}
           ups(tile) == Cardinality({i \in there(tile) : bits[i] = 1})
           sum(tile) == ups(tile) - (Cardinality(there(tile)) - ups(tile))
           channel == EmbedBits(bits, plan)
<1>1. channel = [tile \in Range(plan) |-> sum(tile)]
  BY DEF EmbedBits
<1>2. ASSUME NEW i \in n
      PROVE  /\ channel[plan[i]] = sum(plan[i])
             /\ sum(plan[i]) = IF bits[i] = 1 THEN 1 ELSE -1
  <2>1. plan[i] \in Range(plan)
    BY DEF Range
  <2>2. there(plan[i]) = {i}
    OBVIOUS
  <2>3. Cardinality({i}) = 1 /\ Cardinality({}) = 0
    BY FS_Singleton, FS_EmptySet
  <2>4. CASE bits[i] = 1
    <3>1. {j \in {i} : bits[j] = 1} = {i}
      BY <2>4
    <3>2. ups(plan[i]) = 1
      BY <2>2, <2>3, <3>1
    <3>3. QED
      BY <1>1, <2>1, <2>2, <2>3, <2>4, <3>2
  <2>5. CASE bits[i] # 1
    <3>1. {j \in {i} : bits[j] = 1} = {}
      BY <2>5
    <3>2. ups(plan[i]) = 0
      BY <2>2, <2>3, <3>1
    <3>3. QED
      BY <1>1, <2>1, <2>2, <2>3, <2>5, <3>2
  <2>6. QED
    BY <2>4, <2>5
<1> HIDE DEF sum, channel
<1>3. \A i \in n : (IF channel[plan[i]] >= 0 THEN 1 ELSE 0) = bits[i]
  BY <1>2 DEF Bit
<1>4. HardBits(channel, plan) = [i \in n |-> IF channel[plan[i]] >= 0 THEN 1 ELSE 0]
  BY DEF HardBits
<1>5. QED
  BY <1>3, <1>4 DEF channel

LEMMA AllMatch ==
  ASSUME NEW m
  PROVE  MatchingBits(m, m) = Nibbles * 4
<1>1. Nibbles \in Nat
  BY CodeAssumption
<1>2. {k \in (1 .. Nibbles) \X (1 .. 4) : m[k[1]][k[2]] = m[k[1]][k[2]]} = (1 .. Nibbles) \X (1 .. 4)
  OBVIOUS
<1>3. /\ IsFiniteSet(1 .. Nibbles) /\ Cardinality(1 .. Nibbles) = Nibbles
      /\ IsFiniteSet(1 .. 4) /\ Cardinality(1 .. 4) = 4
  <2>1. \A n \in Nat : IsFiniteSet(1 .. n) /\ Cardinality(1 .. n) = n
    BY FS_Interval
  <2>2. QED
    BY <1>1, <2>1
<1>4. Cardinality((1 .. Nibbles) \X (1 .. 4)) = Nibbles * 4
  <2> DEFINE S == 1 .. Nibbles
             T == 1 .. 4
  <2>1. IsFiniteSet(S) /\ Cardinality(S) = Nibbles /\ IsFiniteSet(T) /\ Cardinality(T) = 4
    BY <1>3
  <2> HIDE DEF S, T
  <2>2. Cardinality(S \X T) = Cardinality(S) * Cardinality(T)
    BY <2>1, FS_Product
  <2>3. QED
    BY <2>1, <2>2 DEF S, T
<1>5. QED
  BY <1>2, <1>4 DEF MatchingBits

(* Whatever the payload and however many bits the code has: audio with at   *)
(* least as many frames carries it, if their number is no multiple of 37    *)
(* (watermark/index.js:248-260, 380-434).                                   *)
THEOREM LongAudioCarries == CodeSpec => []LongAudioCarriesPayload
<1>1. CodeInv => LongAudioCarriesPayload
  <2> DEFINE plan == SpreadingPlan(frames)
             bits == PayloadToBitsECC(payload)
             read == Extract(Embed(payload, frames), frames, payload)
  <2> SUFFICES ASSUME CodeInv, frames >= TotalBits, frames % 37 # 0
               PROVE  read.payload = payload /\ read.recovered
    BY DEF LongAudioCarriesPayload
  <2>1. frames \in Nat /\ payload # <<>>
    BY Sizes DEF CodeInv
  <2>2. payload \in [1 .. Nibbles -> Quad]
    BY <2>1, PayloadTyped
  <2>3. /\ bits \in [1 .. TotalBits -> Bit]
        /\ \A rep \in 1 .. RepetitionFactor, j \in 1 .. BlockBits :
             bits[Place(rep, j)] = BlockBit(payload, j)
    BY <2>2, BitsAreBlocks
  <2>4. DOMAIN plan = 1 .. TotalBits
    BY DEF SpreadingPlan
  <2>5. \A i, j \in 1 .. TotalBits : plan[i] = plan[j] => i = j
    BY <2>1, TilesDiffer
  <2> HIDE DEF plan, bits
  <2>6. HardBits(EmbedBits(bits, plan), plan) = bits
    BY <2>3, <2>4, <2>5, BitsAreRead
  <2>7. /\ read.payload = DecodeBitsECC(bits).payload
        /\ read.recovered =
             (/\ 4 * MatchingBits(payload, DecodeBitsECC(bits).payload) >= 3 * 4 * Nibbles
              /\ 2 * DecodeBitsECC(bits).syncOk >= RepetitionFactor)
    BY <2>6 DEF Extract, Embed, plan, bits
  <2>8. DecodeBitsECC(bits).payload = payload
    <3> DEFINE bad == [k \in 1 .. Nibbles |-> 0]
    <3>1. bad \in [1 .. Nibbles -> 0 .. 7]
      OBVIOUS
    <3>2. AlmostRight(bits, payload, 0, bad)
      BY <2>2, <2>3, CodePlaces, BlockTyped DEF AlmostRight
    <3> HIDE DEF bad
    <3>3. QED
      BY <2>2, <2>3, <3>1, <3>2, PayloadIsRead
  <2>9. 2 * DecodeBitsECC(bits).syncOk >= RepetitionFactor
    <3>1. ASSUME NEW rep \in 1 .. RepetitionFactor, NEW i \in 1 .. SyncBits
          PROVE  bits[Place(rep, i)] = SyncWord[i]
      <4>1. i \in 1 .. BlockBits
        BY Sizes, CodeAssumption
      <4>2. QED
        BY <2>2, <2>3, <4>1, BlockTyped
    <3>2. QED
      BY <3>1, SyncIsFound
  <2>10. 4 * MatchingBits(payload, payload) >= 3 * 4 * Nibbles
    BY AllMatch, CodeAssumption
  <2> HIDE DEF read
  <2>11. QED
    BY <2>7, <2>8, <2>9, <2>10
<1>2. QED
  BY <1>1, CodeTyped, PTL
=============================================================================
