----------------------------- MODULE LoaderPool ------------------------------
(***************************************************************************)
(* The expert loader pool of sepia.c: SEPIA_LOADER_THREADS workers that do *)
(* nothing but blocking preads, and one caller (the thread that owns the   *)
(* GPU) that submits jobs and later waits for each of them.                *)
(*                                                                         *)
(* Everything between pthread_mutex_lock and pthread_mutex_unlock or       *)
(* pthread_cond_wait is one step: the fields it touches are accessed only  *)
(* under pool->mu.  What runs outside the mutex (`job->done = 0` in        *)
(* expert_loader_submit, the preads of a worker) is a step of its own.  A  *)
(* thread in pthread_cond_wait is at "asleep"; it leaves when it is        *)
(* signalled or spuriously, and tests its condition again.                 *)
(*                                                                         *)
(* The caller's part is written as actions a composing module can reuse;   *)
(* Next lets it make any sequence of calls the pool's comments allow.      *)
(***************************************************************************)
EXTENDS Integers, FiniteSets, ProcessLife

CONSTANTS Workers,   \* the worker threads, SEPIA_LOADER_THREADS of them
          Jobs,      \* the caller's job records, jobs[0..topk-1]
          QueueCap,  \* SEPIA_LOADER_QUEUE_CAP
          NReads,    \* reads per job (gate, up, down)
          NoJob      \* not a job

ASSUME PoolAssumption ==
  /\ QueueCap \in Nat \ {0}
  /\ NReads \in Nat \ {0}
  /\ NoJob \notin Jobs

\* A call of real_mlp_moe_forward_gpu dies unless topk <= SEPIA_MOE_MAX_TOPK,
\* and the queue is that long: that caller has no more jobs than the ring cells.
JobsFitQueue == IsFiniteSet(Jobs) /\ Cardinality(Jobs) <= QueueCap

ASSUME WorkersFinite == IsFiniteSet(Workers) /\ Workers # {}

VARIABLES
  queue, qhead, qtail, qcount,  \* the ring of job pointers
  shutdown, started,            \* the pool's two flags
  wpc,     \* where each worker is
  wjob,    \* the job each worker is running
  nread,   \* how many of its reads that worker has done
  done,    \* job->done
  landed,  \* the regions of the job's slot holding its bytes
  mpc,     \* where the caller is inside the pool's functions
  marg,    \* the job the caller's current call is about
  taken    \* jobs the caller submitted and has not waited for yet

ring == <<queue, qhead, qtail, qcount>>
flags == <<shutdown, started>>
workerVars == <<wpc, wjob, nread>>
jobVars == <<done, landed>>
callerVars == <<mpc, marg, taken>>
poolVars == <<ring, flags, workerVars, jobVars, callerVars, alive>>

Cells == 0..QueueCap - 1

PoolInit ==
  /\ queue = [i \in Cells |-> NoJob]
  /\ qhead = 0 /\ qtail = 0 /\ qcount = 0
  /\ shutdown = FALSE /\ started = FALSE
  /\ wpc = [w \in Workers |-> "none"]
  /\ wjob = [w \in Workers |-> NoJob]
  /\ done = [j \in Jobs |-> FALSE]
  /\ nread = [w \in Workers |-> 0]
  /\ landed = [j \in Jobs |-> {}]
  /\ mpc = "out" /\ marg = NoJob
  /\ taken = {}
  /\ alive = TRUE

CellAfter(i) == (i + 1) % QueueCap

-----------------------------------------------------------------------------
(* The caller's side.                                                      *)

\* expert_loader_pool_start: every worker is created and heads for the mutex.
\* A second call finds `started` set and does nothing.
PoolStart ==
  /\ alive /\ mpc = "out" /\ ~started
  /\ started' = TRUE
  /\ wpc' = [w \in Workers |-> "lock"]
  /\ UNCHANGED <<ring, shutdown, wjob, nread, jobVars, callerVars, alive>>

\* Mutant: job->done keeps the value of the record's last use.
KeepDone(j) == done

ClearDone(j) == [done EXCEPT ![j] = FALSE]

\* expert_loader_submit, before the mutex: job->done = 0.
SubmitReset(j) ==
  /\ alive /\ mpc = "out"
  /\ done' = ClearDone(j)
  /\ landed' = [landed EXCEPT ![j] = {}]
  /\ taken' = taken \cup {j}
  /\ mpc' = "submit" /\ marg' = j
  /\ UNCHANGED <<ring, flags, workerVars, alive>>

Asleep == {w \in Workers : wpc[w] = "asleep"}

Wake(w) == wpc' = [wpc EXCEPT ![w] = "lock"]

\* Mutant: a signal only when the queue was empty.
SignalIfEmpty ==
  IF qcount = 0 /\ Asleep # {} THEN \E w \in Asleep : Wake(w) ELSE wpc' = wpc

\* pthread_cond_signal(&cv_work): one sleeping worker, if there is one.
SignalWork ==
  \/ Asleep = {} /\ wpc' = wpc
  \/ \E w \in Asleep : Wake(w)

\* Mutant: the ring is never taken to be full.
NeverFull == FALSE

\* Mutant: one cell is always kept free.
FullEarly == qcount >= QueueCap - 1

RingFull == qcount >= QueueCap

\* expert_loader_submit, under the mutex.
SubmitEnqueue ==
  /\ alive /\ mpc = "submit"
  /\ ~RingFull
  /\ queue' = [queue EXCEPT ![qtail] = marg]
  /\ qtail' = CellAfter(qtail)
  /\ qcount' = qcount + 1
  /\ SignalWork
  /\ mpc' = "out" /\ marg' = NoJob
  /\ UNCHANGED <<qhead, flags, wjob, nread, jobVars, taken, alive>>

\* expert_loader_submit on a full queue: die().
SubmitOverflow ==
  /\ mpc = "submit"
  /\ RingFull
  /\ Die
  /\ UNCHANGED <<ring, flags, workerVars, jobVars, callerVars>>

\* expert_loader_wait(job) is entered.
WaitCall(j) ==
  /\ alive /\ mpc = "out"
  /\ mpc' = "wait" /\ marg' = j
  /\ UNCHANGED <<ring, flags, workerVars, jobVars, taken, alive>>

\* Mutant: whatever wakes the waiter satisfies it.
AnyWakeup == TRUE

JobDone == done[marg]

\* while (!job->done) pthread_cond_wait(&cv_done, &mu)
WaitBlock ==
  /\ alive /\ mpc = "wait"
  /\ ~JobDone
  /\ mpc' = "asleep"
  /\ UNCHANGED <<ring, flags, workerVars, jobVars, marg, taken, alive>>

WaitReturn ==
  /\ alive /\ mpc = "wait"
  /\ JobDone
  /\ mpc' = "out" /\ marg' = NoJob
  /\ taken' = taken \ {marg}
  /\ UNCHANGED <<ring, flags, workerVars, jobVars, alive>>

WakeAll == [w \in Workers |-> IF wpc[w] = "asleep" THEN "lock" ELSE wpc[w]]

\* expert_loader_pool_shutdown up to the joins: set the flag, wake everybody.
ShutdownSignal ==
  /\ alive /\ mpc = "out" /\ started
  /\ shutdown' = TRUE
  /\ wpc' = WakeAll
  /\ mpc' = "join"
  /\ UNCHANGED <<ring, started, wjob, nread, jobVars, marg, taken, alive>>

\* ... the joins, the destruction of mutex and condvars, and the memset.
ShutdownJoin ==
  /\ alive /\ mpc = "join"
  /\ \A w \in Workers : wpc[w] = "exited"
  /\ queue' = [i \in Cells |-> NoJob]
  /\ qhead' = 0 /\ qtail' = 0 /\ qcount' = 0
  /\ shutdown' = FALSE /\ started' = FALSE
  /\ mpc' = "stopped"
  /\ UNCHANGED <<workerVars, jobVars, marg, taken, alive>>

\* pthread_cond_wait may return without a signal.
SpuriousCaller ==
  /\ alive /\ mpc = "asleep"
  /\ mpc' = "wait"
  /\ UNCHANGED <<ring, flags, workerVars, jobVars, marg, taken, alive>>

\* The caller dies of something else, outside the pool's functions.
CallerDies ==
  /\ mpc = "out"
  /\ Die
  /\ UNCHANGED <<ring, flags, workerVars, jobVars, callerVars>>

-----------------------------------------------------------------------------
(* The workers: expert_loader_worker_main.                                 *)

Dequeue == qhead' = CellAfter(qhead) /\ qcount' = qcount - 1

WorkerTake(w) ==
  /\ alive /\ wpc[w] = "lock"
  /\ qcount > 0
  /\ wjob' = [wjob EXCEPT ![w] = queue[qhead]]
  /\ Dequeue
  /\ wpc' = [wpc EXCEPT ![w] = "run"]
  /\ nread' = [nread EXCEPT ![w] = 0]
  /\ UNCHANGED <<queue, qtail, flags, jobVars, callerVars, alive>>

WorkerSleep(w) ==
  /\ alive /\ wpc[w] = "lock"
  /\ qcount = 0 /\ ~shutdown
  /\ wpc' = [wpc EXCEPT ![w] = "asleep"]
  /\ UNCHANGED <<ring, flags, wjob, nread, jobVars, callerVars, alive>>

WorkerExit(w) ==
  /\ alive /\ wpc[w] = "lock"
  /\ qcount = 0 /\ shutdown
  /\ wpc' = [wpc EXCEPT ![w] = "exited"]
  /\ UNCHANGED <<ring, flags, wjob, nread, jobVars, callerVars, alive>>

\* expert_load_job_run: the next pread_exact of the job returns all its bytes.
WorkerRead(w) ==
  /\ alive /\ wpc[w] = "run"
  /\ nread[w] < NReads
  /\ nread' = [nread EXCEPT ![w] = @ + 1]
  /\ landed' = [landed EXCEPT ![wjob[w]] = @ \cup {nread[w] + 1}]
  /\ UNCHANGED <<ring, flags, wpc, wjob, done, callerVars, alive>>

\* pread_exact dies on an error or a short read.
WorkerReadFails(w) ==
  /\ wpc[w] = "run"
  /\ nread[w] < NReads
  /\ Die
  /\ UNCHANGED <<ring, flags, workerVars, jobVars, callerVars>>

\* Mutant: the waiter is not told.
NoBroadcast == mpc

BroadcastDone == IF mpc = "asleep" THEN "wait" ELSE mpc

\* job->done = 1 and pthread_cond_broadcast(&cv_done), under the mutex.
WorkerPublish(w) ==
  /\ alive /\ wpc[w] = "run"
  /\ nread[w] = NReads
  /\ done' = [done EXCEPT ![wjob[w]] = TRUE]
  /\ mpc' = BroadcastDone
  /\ wjob' = [wjob EXCEPT ![w] = NoJob]
  /\ wpc' = [wpc EXCEPT ![w] = "lock"]
  /\ UNCHANGED <<ring, flags, nread, landed, marg, taken, alive>>

SpuriousWorker(w) ==
  /\ alive /\ wpc[w] = "asleep"
  /\ Wake(w)
  /\ UNCHANGED <<ring, flags, wjob, nread, jobVars, callerVars, alive>>

WorkerProgress(w) ==
  WorkerTake(w) \/ WorkerSleep(w) \/ WorkerExit(w) \/ WorkerRead(w) \/ WorkerPublish(w)

WorkerStep(w) == WorkerProgress(w) \/ WorkerReadFails(w) \/ SpuriousWorker(w)

CallerProgress ==
  SubmitEnqueue \/ SubmitOverflow \/ WaitBlock \/ WaitReturn \/ ShutdownJoin

-----------------------------------------------------------------------------
(* The pool with any caller that follows its comments: a job is submitted  *)
(* only when it is not outstanding, waited for only after its submission,  *)
(* and the pool is shut down with no job outstanding.                      *)

CallerChoice ==
  \/ mpc # "stopped" /\ PoolStart
  \/ started /\ \E j \in Jobs \ taken : SubmitReset(j)
  \/ started /\ \E j \in taken : WaitCall(j)
  \/ taken = {} /\ ShutdownSignal

\* The process is over: it died, or the pool is down for good.
Over == ~alive \/ mpc = "stopped"

Finished == Over /\ UNCHANGED poolVars

PoolNext ==
  \/ CallerChoice
  \/ CallerProgress
  \/ SpuriousCaller \/ CallerDies
  \/ \E w \in Workers : WorkerStep(w)
  \/ Finished

\* A worker that can run does, and the caller finishes a call it is in; no
\* fairness on spurious wakeups, on failing reads or on what the caller calls.
PoolFairness ==
  /\ WF_poolVars(CallerProgress)
  /\ \A w \in Workers : WF_poolVars(WorkerProgress(w))

PoolSpec == PoolInit /\ [][PoolNext]_poolVars /\ PoolFairness

-----------------------------------------------------------------------------
(* Properties.                                                             *)

\* The jobs in the ring, oldest first.
Queued == [k \in 1..qcount |-> queue[(qhead + k - 1) % QueueCap]]

Running == {wjob[w] : w \in Workers} \ {NoJob}

\* Types of every field, and where the two threads' program counters range.
PoolTypeOK ==
  /\ queue \in [Cells -> Jobs \cup {NoJob}]
  /\ qhead \in Cells /\ qtail \in Cells /\ qcount \in 0..QueueCap
  /\ shutdown \in BOOLEAN /\ started \in BOOLEAN /\ alive \in BOOLEAN
  /\ wpc \in [Workers -> {"none", "lock", "asleep", "run", "exited"}]
  /\ wjob \in [Workers -> Jobs \cup {NoJob}]
  /\ nread \in [Workers -> 0..NReads]
  /\ done \in [Jobs -> BOOLEAN]
  /\ landed \in [Jobs -> SUBSET (1..NReads)]
  /\ mpc \in {"out", "submit", "wait", "asleep", "join", "stopped"}
  /\ marg \in Jobs \cup {NoJob}
  /\ taken \in SUBSET Jobs

\* A job the caller sees done is done for good: all its regions are in memory
\* and no worker holds it or will take it from the ring, so the slot's bytes
\* cannot change under a dispatch encoded after expert_loader_wait returned.
DoneMeansLanded ==
  \A j \in Jobs : done[j] =>
    /\ landed[j] = 1..NReads
    /\ j \notin Running
    /\ \A k \in 1..qcount : Queued[k] # j

\* No worker and no ring cell refers to a job record that is not outstanding:
\* jobs[] lives on the caller's stack and its frame may be gone.
NoDanglingJob ==
  /\ Running \subseteq taken
  /\ \A k \in 1..qcount : Queued[k] \in taken

\* The `queue overflow' die() of expert_loader_submit is unreachable for a caller
\* with JobsFitQueue.
NeverOverflows == mpc = "submit" => ~RingFull

\* While some worker sleeps in cv_work, every queued job has an awake worker of
\* its own on the way to it: one pthread_cond_signal per submit loses no wakeup,
\* and reads run as wide as SEPIA_LOADER_THREADS allows.
WorkConserving ==
  (\E w \in Workers : wpc[w] = "asleep")
    => Cardinality({w \in Workers : wpc[w] = "lock"}) >= qcount

\* Cell i holds one of the c pointers of a ring whose head is h.
Occ(i, h, c) == (IF i >= h THEN i - h ELSE i - h + QueueCap) < c
Occupied(i) == Occ(i, qhead, qcount)
Wrap(n) == IF n < QueueCap THEN n ELSE n - QueueCap

\* The ring holds distinct outstanding jobs nobody has begun to read.
RingInv ==
  /\ qtail = Wrap(qhead + qcount)
  /\ \A i \in Cells : Occupied(i) =>
       /\ queue[i] \in taken
       /\ ~done[queue[i]]
       /\ landed[queue[i]] = {}
       /\ mpc = "submit" => queue[i] # marg
  /\ \A i, k \in Cells : Occupied(i) /\ Occupied(k) /\ queue[i] = queue[k] => i = k

\* A running worker has an outstanding job to itself, and has landed exactly
\* the reads it has done.
RunInv ==
  /\ started \/ \A w \in Workers : wpc[w] \in {"none", "exited"}
  /\ \A w \in Workers : wpc[w] = "run" <=> wjob[w] # NoJob
  /\ \A w \in Workers : wpc[w] = "run" =>
       /\ wjob[w] \in taken
       /\ ~done[wjob[w]]
       /\ landed[wjob[w]] = 1..nread[w]
       /\ mpc = "submit" => wjob[w] # marg
       /\ \A i \in Cells : Occupied(i) => queue[i] # wjob[w]
  /\ \A v, w \in Workers : wpc[v] = "run" /\ wpc[w] = "run" /\ wjob[v] = wjob[w] => v = w

JobInv ==
  /\ \A j \in Jobs : done[j] => landed[j] = 1..NReads
  /\ mpc = "submit" => marg \in taken /\ ~done[marg] /\ landed[marg] = {}
  /\ mpc \in {"wait", "asleep"} => marg \in taken

\* The ring, the workers and the caller share out the outstanding jobs: each is
\* with the submitter, in one cell, with one worker, or done.  Inductive.
PoolIInv == PoolTypeOK /\ RingInv /\ RunInv /\ JobInv

\* Every expert_loader_wait returns and every shutdown joins its workers, unless
\* a worker's die() ends the process first.
CallsReturn ==
  /\ (mpc \in {"wait", "asleep"}) ~> (mpc = "out" \/ ~alive)
  /\ (mpc = "join") ~> Over

\* The pool implements ReadService: jobs start in submission order, at most one
\* read per worker, and the caller gets a job back only when it is in place.
Service == INSTANCE ReadService WITH
  NReaders <- Cardinality(Workers),
  waiting <- Queued,
  reading <- Running,
  ready <- {j \in taken : done[j]},
  up <- alive

ImplementsService == Service!SvcSpec
=============================================================================
