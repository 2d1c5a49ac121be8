------------------------------ MODULE DspPool ------------------------------
(***************************************************************************)
(* The pool of audio workers of packages/core/src/dsp-pool.js: a task goes *)
(* to the first idle worker or waits in a queue, and the queue is drained  *)
(* by the callers, each after a task of its own has succeeded.             *)
(*                                                                         *)
(* The answer of a worker, the promise it settles and the drainQueue of    *)
(* the caller that waited for it run in one turn of the event loop: they   *)
(* are one action.  The threads run beside it.                             *)
(***************************************************************************)
EXTENDS Integers, Sequences, FiniteSets

CONSTANTS
  Size,    \* the number of workers
  Tasks,   \* the calls of canonicalize and sha256
  Broken,  \* those whose buffer cannot be copied, so that send() throws
  Faults   \* what may go wrong besides, a subset of FaultKinds

FaultKinds == {"reject",     \* a thread answers with an error
               "die",        \* a thread ends with an 'error' event
               "terminate"}  \* terminateSharedPool is called

ASSUME PoolAssumption ==
  /\ Size \in Nat \ {0}
  /\ Broken \subseteq Tasks
  /\ Faults \subseteq FaultKinds

VARIABLES
  idle,     \* DspWorker#idle
  pending,  \* DspWorker#pending: the tasks a worker was sent and has not answered
  alive,    \* whether the thread behind a DspWorker runs
  queue,    \* DspPool#queue
  closing,  \* the threads of the shared pool are being stopped
  phase,    \* what has become of a task
  failed    \* a worker of the pool has failed since the queue was drained

poolVars == <<idle, pending, alive, queue, closing, phase, failed>>

Workers == 1 .. Size
Phases == {"new", "queued", "sent", "resolved", "rejected", "forgotten"}

Hands == {{}} \cup {{t} : t \in Tasks}

Free == {w \in Workers : idle[w]}

\* this.#workers.find((w) => w.idle)
FirstIdle == CHOOSE w \in Free : \A v \in Free : w <= v

\* What the queue has for a worker when it is shared out among `free`: the
\* workers are served in their order, as long as there are tasks.
Rank(free, w) == Cardinality({v \in free : v <= w})

Share(free, w) ==
  IF Rank(free, w) <= Len(queue) THEN {queue[Rank(free, w)]} ELSE {}

\* send() takes the worker and notes the task before it copies the buffer;
\* when the copy throws the promise is rejected and the rest stays.
Sent(t) == IF t \in Broken THEN "rejected" ELSE "sent"

\* A thread computes: it runs and has been sent something.
Working(w) == alive[w] /\ ~ closing /\ \E t \in pending[w] : phase[t] = "sent"

Settled(w, outcome) == [t \in Tasks |-> IF t \in pending[w] THEN outcome ELSE phase[t]]

-----------------------------------------------------------------------------
Dispatch(t) ==
  /\ phase[t] = "new"
  /\ \/ /\ Free # {}
        /\ idle' = [idle EXCEPT ![FirstIdle] = FALSE]
        /\ pending' = [pending EXCEPT ![FirstIdle] = @ \cup {t}]
        /\ phase' = [phase EXCEPT ![t] = Sent(t)]
        /\ UNCHANGED queue
     \/ /\ Free = {}
        /\ queue' = Append(queue, t)
        /\ phase' = [phase EXCEPT ![t] = "queued"]
        /\ UNCHANGED <<idle, pending>>
  /\ UNCHANGED <<alive, closing, failed>>

\* The worker is idle again, its task is rejected, and the queue stays.
Fail(w) ==
  /\ idle' = [idle EXCEPT ![w] = TRUE]
  /\ pending' = [pending EXCEPT ![w] = {}]
  /\ phase' = Settled(w, "rejected")
  /\ failed' = TRUE
  /\ UNCHANGED <<queue, closing>>

MutantDrainKeepsLast(w) ==
  LET free == Free \cup {w} IN
  /\ idle' = [v \in Workers |-> v \in free /\ Share(free, v) = {}]
  /\ pending' = [v \in Workers |-> IF v \in free THEN Share(free, v) ELSE pending[v]]
  /\ queue' = SubSeq(queue, Cardinality(free), Len(queue))
  /\ phase' = [t \in Tasks |-> IF \E v \in free : t \in Share(free, v)
                                 THEN Sent(t) ELSE Settled(w, "resolved")[t]]
  /\ failed' = FALSE

MutantNoDrain(w) ==
  /\ idle' = [idle EXCEPT ![w] = TRUE]
  /\ pending' = [pending EXCEPT ![w] = {}]
  /\ phase' = Settled(w, "resolved")
  /\ UNCHANGED <<queue, failed>>

\* The worker is idle again, its task has succeeded, and the queue is shared
\* out among all workers that are idle then.
ReleaseAndDrain(w) ==
  LET free == Free \cup {w} IN
  /\ idle' = [v \in Workers |-> v \in free /\ Share(free, v) = {}]
  /\ pending' = [v \in Workers |-> IF v \in free THEN Share(free, v) ELSE pending[v]]
  /\ queue' = SubSeq(queue, Cardinality(free) + 1, Len(queue))
  /\ phase' = [t \in Tasks |-> IF \E v \in free : t \in Share(free, v)
                                 THEN Sent(t) ELSE Settled(w, "resolved")[t]]
  /\ failed' = FALSE

\* The thread may still answer while it is being stopped.
HasTask(w) == alive[w] /\ \E t \in pending[w] : phase[t] = "sent"

AnswersResult(w) ==
  /\ HasTask(w)
  /\ ReleaseAndDrain(w)
  /\ UNCHANGED <<alive, closing>>

AnswersError(w) ==
  /\ "reject" \in Faults
  /\ HasTask(w)
  /\ Fail(w)
  /\ UNCHANGED alive

\* The 'error' event: what is pending is rejected, and the worker is idle,
\* although no thread will answer what it is sent from now on.
Dies(w) ==
  /\ "die" \in Faults
  /\ alive[w]
  /\ alive' = [alive EXCEPT ![w] = FALSE]
  /\ Fail(w)

\* terminateSharedPool up to its await.  Until the threads have stopped,
\* getSharedDspPool hands out the same pool.
Terminate ==
  /\ "terminate" \in Faults
  /\ ~ closing
  /\ closing' = TRUE
  /\ UNCHANGED <<idle, pending, alive, queue, phase, failed>>

\* The pool is dropped, and the next caller gets a new one; what the old one
\* has not answered it never will.
Forget ==
  /\ closing
  /\ closing' = FALSE
  /\ idle' = [w \in Workers |-> TRUE]
  /\ pending' = [w \in Workers |-> {}]
  /\ alive' = [w \in Workers |-> TRUE]
  /\ queue' = <<>>
  /\ phase' = [t \in Tasks |-> IF phase[t] \in {"queued", "sent"} THEN "forgotten" ELSE phase[t]]
  /\ failed' = FALSE

PoolInit ==
  /\ idle = [w \in Workers |-> TRUE]
  /\ pending = [w \in Workers |-> {}]
  /\ alive = [w \in Workers |-> TRUE]
  /\ queue = <<>>
  /\ closing = FALSE
  /\ phase = [t \in Tasks |-> "new"]
  /\ failed = FALSE

Answers(w) == AnswersResult(w) \/ AnswersError(w)

PoolNext ==
  \/ \E t \in Tasks : Dispatch(t)
  \/ \E w \in Workers : Answers(w) \/ Dies(w)
  \/ Terminate
  \/ Forget

PoolSpec == PoolInit /\ [][PoolNext]_poolVars

\* A thread that is not stopped answers what it was sent: the operations of
\* dsp-worker.js end for every input, in a result or an error.
PoolFairness == \A w \in Workers : WF_poolVars(Working(w) /\ Answers(w))

-----------------------------------------------------------------------------
(* Properties *)

PoolTypeOK ==
  /\ idle \in [Workers -> BOOLEAN]
  /\ pending \in [Workers -> Hands]
  /\ alive \in [Workers -> BOOLEAN]
  /\ queue \in Seq(Tasks)
  /\ closing \in BOOLEAN
  /\ phase \in [Tasks -> Phases]
  /\ failed \in BOOLEAN

\* No task is lost or done twice inside the pool: a task that waits is in the
\* queue once, a task that was sent is with one worker, and a worker is taken
\* for idle just when it has nothing to answer (dsp-pool.js:26-62, :90-98).
TasksInOnePlace ==
  /\ \A i, j \in DOMAIN queue : queue[i] = queue[j] => i = j
  /\ \A t \in Tasks : phase[t] = "queued" <=> \E i \in DOMAIN queue : queue[i] = t
  /\ \A t \in Tasks : phase[t] = "sent" => \E w \in Workers : t \in pending[w]
  /\ \A v, w \in Workers : pending[v] \cap pending[w] # {} => v = w
  /\ \A w \in Workers : idle[w] <=> pending[w] = {}

\* The callers drain the queue, not the workers: tasks wait beside an idle
\* worker only where a worker has failed since the last task that succeeded,
\* because a caller whose task fails does not drain (dsp-pool.js:100-110).
QueueWaitsOnlyAfterFailure == queue # <<>> /\ Free # {} => failed

\* What excuses the pool from answering a task: it is with a thread that no
\* longer runs, it was dropped with its pool, or it waits in the queue and
\* nobody is left who would drain it.
Excused(t) ==
  \/ phase[t] = "forgotten" \/ closing
  \/ \E w \in Workers : t \in pending[w] /\ ~ alive[w]
  \/ /\ phase[t] = "queued"
     /\ \A w \in Workers : ~ Working(w)
     /\ failed \/ \A w \in Workers : ~ alive[w] \/ pending[w] \cap Broken # {}

\* Every call of canonicalize or sha256 is answered, unless a thread died, the
\* pool was terminated, or the last working caller failed and left the queue
\* undrained (dsp-pool.js:77-114).
TasksAnswered ==
  \A t \in Tasks : phase[t] \in {"queued", "sent"} ~> (phase[t] \in {"resolved", "rejected"} \/ Excused(t))
=============================================================================
