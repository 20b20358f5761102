------------------------- MODULE ExpertStreamProofs --------------------------
(***************************************************************************)
(* The two parts that bring an expert's bytes to its slot, each on its     *)
(* own: the loader pool, whose threads read them, and the expert store,    *)
(* which says which slot they are for.                                     *)
(*                                                                         *)
(* LoaderPool's invariants hold for any number of workers, jobs, ring      *)
(* cells and reads per job, under any caller that follows CallerChoice.    *)
(*                                                                         *)
(* The expert store's invariants hold for any number of layers, experts    *)
(* and slots, and any topk the store has room for: the intrusive list as a *)
(* chain through every slot, owners and table as inverses of each other,   *)
(* the slots resolved for the call in flight at the head of the list.      *)
(* With them the store is shown to be the cache LruCache describes.        *)
(***************************************************************************)
EXTENDS LoaderPool, ExpertCache, FiniteSetTheorems, SequenceTheorems, Induction, TLAPS

-----------------------------------------------------------------------------
(* Arithmetic of the ring, free of the modulus.                            *)

\* Adding less than one lap to an index wraps at most once.
LEMMA WrapLemma ==
  ASSUME NEW a \in Cells, NEW b \in 0..QueueCap
  PROVE  (a + b) % QueueCap = Wrap(a + b)
<1>1. QueueCap \in Nat \ {0}
  BY PoolAssumption
<1>2. CASE a + b < QueueCap
  BY <1>1, <1>2, SMT DEF Cells, Wrap
<1>3. CASE a + b >= QueueCap
  BY <1>1, <1>3, SMT DEF Cells, Wrap
<1>4. QED
  BY <1>1, <1>2, <1>3 DEF Cells

\* The cell after one of the ring is one of the ring.
LEMMA CellAfterLemma ==
  ASSUME NEW a \in Cells
  PROVE  CellAfter(a) = Wrap(a + 1) /\ CellAfter(a) \in Cells
<1>1. QueueCap \in Nat \ {0} /\ 1 \in 0..QueueCap
  BY PoolAssumption
<1>2. CellAfter(a) = Wrap(a + 1)
  BY <1>1, WrapLemma DEF CellAfter
<1>3. QED
  BY <1>1, <1>2 DEF Wrap, Cells

\* Enqueueing at the tail occupies the tail cell and no other.
LEMMA OccEnqueue ==
  ASSUME NEW h \in Cells, NEW c \in 0..QueueCap - 1, NEW i \in Cells
  PROVE  /\ Occ(i, h, c + 1) <=> Occ(i, h, c) \/ i = Wrap(h + c)
         /\ ~Occ(Wrap(h + c), h, c)
         /\ Wrap(h + c) \in Cells
         /\ Wrap(h + (c + 1)) = CellAfter(Wrap(h + c))
<1>1. QueueCap \in Nat \ {0}
  BY PoolAssumption
<1>2. Wrap(h + c) \in Cells
  BY <1>1 DEF Wrap, Cells
<1>3. CellAfter(Wrap(h + c)) = Wrap(Wrap(h + c) + 1)
  BY <1>2, CellAfterLemma
<1>4. QED
  BY <1>1, <1>2, <1>3 DEF Occ, Wrap, Cells

\* Dequeueing at the head frees the head cell and no other.
LEMMA OccDequeue ==
  ASSUME NEW h \in Cells, NEW c \in 1..QueueCap, NEW i \in Cells
  PROVE  /\ Occ(i, CellAfter(h), c - 1) <=> Occ(i, h, c) /\ i # h
         /\ Occ(h, h, c)
         /\ Wrap(CellAfter(h) + (c - 1)) = Wrap(h + c)
<1>1. QueueCap \in Nat \ {0}
  BY PoolAssumption
<1>2. CellAfter(h) = Wrap(h + 1)
  BY CellAfterLemma
<1>3. QED
  BY <1>1, <1>2 DEF Occ, Wrap, Cells

\* The k-th queued job sits in an occupied cell.
LEMMA QueuedOccupied ==
  ASSUME PoolTypeOK, NEW k \in 1..qcount
  PROVE  \E i \in Cells : Occupied(i) /\ Queued[k] = queue[i]
<1>1. QueueCap \in Nat \ {0} /\ qhead \in Cells /\ qcount \in 0..QueueCap
  BY PoolAssumption DEF PoolTypeOK
<1>2. k - 1 \in 0..QueueCap /\ qhead + k - 1 = qhead + (k - 1)
  BY <1>1 DEF Cells
<1>3. (qhead + k - 1) % QueueCap = Wrap(qhead + (k - 1))
  BY <1>1, <1>2, WrapLemma
<1>4. Wrap(qhead + (k - 1)) \in Cells /\ Occupied(Wrap(qhead + (k - 1)))
  BY <1>1 DEF Wrap, Cells, Occupied, Occ
<1>5. Queued[k] = queue[Wrap(qhead + (k - 1))]
  BY <1>3 DEF Queued
<1>6. QED
  BY <1>4, <1>5

-----------------------------------------------------------------------------
(* The inductive invariant.                                                *)

\* A pool that was never started satisfies the invariant: nothing is anywhere.
LEMMA InitInv == PoolInit => PoolIInv
<1> SUFFICES ASSUME PoolInit PROVE PoolIInv
  OBVIOUS
<1> USE PoolAssumption, WorkersFinite DEF PoolInit
<1>1. PoolTypeOK
  <2>1. 0 \in Cells
    BY DEF Cells
  <2>2. queue \in [Cells -> Jobs \cup {NoJob}]
    OBVIOUS
  <2>3. qcount \in 0..QueueCap /\ nread \in [Workers -> 0..NReads]
    OBVIOUS
  <2>4. wpc \in [Workers -> {"none", "lock", "asleep", "run", "exited"}]
    OBVIOUS
  <2>5. /\ wjob \in [Workers -> Jobs \cup {NoJob}]
        /\ done \in [Jobs -> BOOLEAN]
        /\ landed \in [Jobs -> SUBSET (1..NReads)]
    OBVIOUS
  <2>6. mpc \in {"out", "submit", "wait", "asleep", "join", "stopped"}
    OBVIOUS
  <2>7. QED
    BY <2>1, <2>2, <2>3, <2>4, <2>5, <2>6 DEF PoolTypeOK
<1>2. RingInv
  BY DEF RingInv, Occupied, Occ, Wrap, Cells
<1>3. RunInv
  BY DEF RunInv
<1>4. JobInv
  BY DEF JobInv
<1>5. QED
  BY <1>1, <1>2, <1>3, <1>4 DEF PoolIInv

\* Every step of the pool keeps the types.
LEMMA TypePreserved == PoolTypeOK /\ [PoolNext]_poolVars => PoolTypeOK'
<1> SUFFICES ASSUME PoolTypeOK, [PoolNext]_poolVars PROVE PoolTypeOK'
  OBVIOUS
<1> USE PoolAssumption DEF PoolTypeOK
<1>1. CASE PoolStart
  BY <1>1 DEF PoolStart, ring, jobVars, callerVars
<1>2. ASSUME NEW j \in Jobs \ taken, SubmitReset(j) PROVE PoolTypeOK'
  BY <1>2 DEF SubmitReset, ClearDone, ring, flags, workerVars
<1>3. ASSUME NEW j \in taken, WaitCall(j) PROVE PoolTypeOK'
  BY <1>3 DEF WaitCall, ring, flags, workerVars, jobVars
<1>4. CASE ShutdownSignal
  BY <1>4 DEF ShutdownSignal, WakeAll, ring, jobVars
<1>5. CASE SubmitEnqueue
  <2>1. qtail' \in Cells
    BY <1>5, CellAfterLemma DEF SubmitEnqueue
  <2>2. wpc' \in [Workers -> {"none", "lock", "asleep", "run", "exited"}]
    BY <1>5 DEF SubmitEnqueue, SignalWork, Asleep, Wake
  <2>3. qcount' \in 0..QueueCap
    BY <1>5 DEF SubmitEnqueue, RingFull
  <2>4. QED
    BY <1>5, <2>1, <2>2, <2>3 DEF SubmitEnqueue, flags, jobVars
<1>6. CASE SubmitOverflow
  BY <1>6 DEF SubmitOverflow, Die, ring, flags, workerVars, jobVars, callerVars
<1>7. CASE WaitBlock
  BY <1>7 DEF WaitBlock, ring, flags, workerVars, jobVars
<1>8. CASE WaitReturn
  BY <1>8 DEF WaitReturn, ring, flags, workerVars, jobVars
<1>9. CASE ShutdownJoin
  <2>1. 0 \in Cells
    BY DEF Cells
  <2>2. queue' \in [Cells -> Jobs \cup {NoJob}]
    BY <1>9 DEF ShutdownJoin
  <2>3. qhead' \in Cells /\ qtail' \in Cells /\ qcount' \in 0..QueueCap
    BY <1>9, <2>1 DEF ShutdownJoin
  <2>6. shutdown' \in BOOLEAN /\ started' \in BOOLEAN /\ mpc' = "stopped"
    BY <1>9, Zenon DEF ShutdownJoin
  <2>4. UNCHANGED <<workerVars, jobVars, marg, taken, alive>>
    BY <1>9 DEF ShutdownJoin
  <2>5. QED
    BY <2>2, <2>3, <2>4, <2>6 DEF workerVars, jobVars
<1>10. CASE SpuriousCaller
  BY <1>10 DEF SpuriousCaller, ring, flags, workerVars, jobVars
<1>11. CASE CallerDies
  BY <1>11 DEF CallerDies, Die, ring, flags, workerVars, jobVars, callerVars
<1>12. ASSUME NEW w \in Workers, WorkerTake(w) PROVE PoolTypeOK'
  <2>1. qhead' \in Cells
    BY <1>12, CellAfterLemma DEF WorkerTake, Dequeue
  <2>2. qcount' \in 0..QueueCap
    BY <1>12 DEF WorkerTake, Dequeue
  <2>3. QED
    BY <1>12, <2>1, <2>2 DEF WorkerTake, flags, jobVars, callerVars
<1>13. ASSUME NEW w \in Workers, WorkerSleep(w) PROVE PoolTypeOK'
  BY <1>13 DEF WorkerSleep, ring, flags, jobVars, callerVars
<1>14. ASSUME NEW w \in Workers, WorkerExit(w) PROVE PoolTypeOK'
  BY <1>14 DEF WorkerExit, ring, flags, jobVars, callerVars
<1>15. ASSUME NEW w \in Workers, WorkerRead(w) PROVE PoolTypeOK'
  <2>1. nread[w] + 1 \in 1..NReads
    BY <1>15 DEF WorkerRead
  <2>2. nread' \in [Workers -> 0..NReads]
    BY <1>15, <2>1 DEF WorkerRead
  <2>3. landed' \in [Jobs -> SUBSET (1..NReads)]
    BY <1>15, <2>1 DEF WorkerRead
  <2>4. QED
    BY <1>15, <2>2, <2>3 DEF WorkerRead, ring, flags, callerVars
<1>16. ASSUME NEW w \in Workers, WorkerReadFails(w) PROVE PoolTypeOK'
  BY <1>16 DEF WorkerReadFails, Die, ring, flags, workerVars, jobVars, callerVars
<1>17. ASSUME NEW w \in Workers, WorkerPublish(w) PROVE PoolTypeOK'
  BY <1>17 DEF WorkerPublish, BroadcastDone, ring, flags
<1>18. ASSUME NEW w \in Workers, SpuriousWorker(w) PROVE PoolTypeOK'
  BY <1>18 DEF SpuriousWorker, Wake, ring, flags, jobVars, callerVars
<1>19. CASE UNCHANGED poolVars
  BY <1>19 DEF poolVars, ring, flags, workerVars, jobVars, callerVars
<1>20. QED
  BY <1>1, <1>2, <1>3, <1>4, <1>5, <1>6, <1>7, <1>8, <1>9, <1>10, <1>11, <1>12,
     <1>13, <1>14, <1>15, <1>16, <1>17, <1>18, <1>19
     DEF PoolNext, CallerChoice, CallerProgress, WorkerStep, WorkerProgress, Finished

\* What the three parts say survives any step that leaves the ring, the jobs and
\* the workers' assignments alone.
LEMMA FramePreserved ==
  ASSUME PoolIInv,
         UNCHANGED <<ring, jobVars, taken, wjob, nread>>,
         \A w \in Workers : wpc'[w] = "run" <=> wpc[w] = "run",
         started' \/ \A w \in Workers : wpc'[w] \in {"none", "exited"},
         mpc' = "submit" => mpc = "submit" /\ marg' = marg,
         mpc' \in {"wait", "asleep"} => marg' \in taken
  PROVE  RingInv' /\ RunInv' /\ JobInv'
<1> USE DEF PoolIInv
<1>1. UNCHANGED <<queue, qhead, qtail, qcount, done, landed, taken, wjob, nread>>
  BY DEF ring, jobVars
<1>2. \A i : Occupied(i)' <=> Occupied(i)
  BY <1>1 DEF Occupied, Occ
<1>3. RingInv'
  BY <1>1, <1>2 DEF RingInv, Wrap
<1>4. RunInv'
  BY <1>1, <1>2 DEF RunInv
<1>5. JobInv'
  BY <1>1 DEF JobInv
<1>6. QED
  BY <1>3, <1>4, <1>5

\* Preparing a record that is not outstanding hands it to the submitter alone.
LEMMA SubmitResetPreserved ==
  ASSUME PoolIInv, NEW j \in Jobs \ taken, SubmitReset(j)
  PROVE  RingInv' /\ RunInv' /\ JobInv'
<1> USE DEF PoolIInv
<1>1. /\ UNCHANGED <<queue, qhead, qtail, qcount, started, wpc, wjob, nread>>
      /\ taken' = taken \cup {j} /\ mpc' = "submit" /\ marg' = j
      /\ done' = [done EXCEPT ![j] = FALSE] /\ landed' = [landed EXCEPT ![j] = {}]
  BY DEF SubmitReset, ClearDone, ring, flags, workerVars
<1>2. \A i : Occupied(i)' <=> Occupied(i)
  BY <1>1 DEF Occupied, Occ
<1>3. /\ done \in [Jobs -> BOOLEAN] /\ landed \in [Jobs -> SUBSET (1..NReads)]
      /\ taken \in SUBSET Jobs
  BY DEF PoolTypeOK
<1>4. \A k \in taken : k # j /\ done'[k] = done[k] /\ landed'[k] = landed[k]
  BY <1>1, <1>3
<1>5. RingInv'
  BY <1>1, <1>2, <1>4 DEF RingInv, Wrap
<1>6. RunInv'
  BY <1>1, <1>2, <1>4 DEF RunInv
<1>7. JobInv'
  BY <1>1, <1>3 DEF JobInv
<1>8. QED
  BY <1>5, <1>6, <1>7

\* Enqueueing moves the record from the submitter to the tail cell.
LEMMA SubmitEnqueuePreserved ==
  ASSUME PoolIInv, SubmitEnqueue
  PROVE  RingInv' /\ RunInv' /\ JobInv'
<1> USE DEF PoolIInv
<1>1. /\ UNCHANGED <<qhead, started, wjob, nread, done, landed, taken>>
      /\ mpc = "submit" /\ mpc' = "out"
      /\ queue' = [queue EXCEPT ![qtail] = marg]
      /\ qtail' = CellAfter(qtail) /\ qcount' = qcount + 1
  BY DEF SubmitEnqueue, flags, jobVars
<1>2. \A w \in Workers :
        /\ wpc'[w] = "run" <=> wpc[w] = "run"
        /\ wpc[w] # "asleep" => wpc'[w] = wpc[w]
  <2>1. wpc \in [Workers -> {"none", "lock", "asleep", "run", "exited"}]
    BY DEF PoolTypeOK
  <2>2. CASE wpc' = wpc
    BY <2>2
  <2>3. ASSUME NEW u \in Workers, wpc[u] = "asleep", wpc' = [wpc EXCEPT ![u] = "lock"]
        PROVE  \A w \in Workers :
                 /\ wpc'[w] = "run" <=> wpc[w] = "run"
                 /\ wpc[w] # "asleep" => wpc'[w] = wpc[w]
    BY <2>1, <2>3
  <2>4. wpc' = wpc \/ \E u \in Workers : wpc[u] = "asleep" /\ wpc' = [wpc EXCEPT ![u] = "lock"]
    BY Zenon DEF SubmitEnqueue, SignalWork, Asleep, Wake
  <2>5. QED
    BY <2>2, <2>3, <2>4
<1>3. /\ qhead \in Cells /\ qtail \in Cells /\ qcount \in 0..QueueCap - 1
      /\ queue \in [Cells -> Jobs \cup {NoJob}]
      /\ qtail = Wrap(qhead + qcount)
  BY PoolAssumption DEF SubmitEnqueue, RingFull, PoolTypeOK, RingInv
<1>4. \A i \in Cells : Occupied(i)' <=> Occupied(i) \/ i = qtail
  BY <1>1, <1>3, OccEnqueue DEF Occupied
<1>5. ~Occupied(qtail) /\ qtail' = Wrap(qhead + qcount)'
  BY <1>1, <1>3, OccEnqueue DEF Occupied
<1>6. \A i \in Cells : Occupied(i) => queue'[i] = queue[i] /\ i # qtail
  BY <1>1, <1>3, <1>5
<1>7. queue'[qtail] = marg
  BY <1>1, <1>3
<1>8. marg \in taken /\ ~done[marg] /\ landed[marg] = {}
  BY <1>1 DEF JobInv
<1>9. RingInv'
  BY <1>1, <1>4, <1>5, <1>6, <1>7, <1>8 DEF RingInv
<1>10. RunInv'
  <2>1. started' \/ \A w \in Workers : wpc'[w] \in {"none", "exited"}
    <3>1. CASE started
      BY <1>1, <3>1
    <3>2. CASE \A w \in Workers : wpc[w] \in {"none", "exited"}
      BY <1>2, <3>2
    <3>3. QED
      BY <3>1, <3>2 DEF RunInv
  <2>2. QED
    BY <1>1, <1>2, <1>4, <1>6, <1>7, <2>1 DEF RunInv
<1>11. JobInv'
  BY <1>1 DEF JobInv
<1>12. QED
  BY <1>9, <1>10, <1>11

\* A wait gives back a record that is done, so in no cell and with no worker.
LEMMA WaitReturnPreserved ==
  ASSUME PoolIInv, WaitReturn
  PROVE  RingInv' /\ RunInv' /\ JobInv'
<1> USE DEF PoolIInv
<1>1. /\ UNCHANGED <<queue, qhead, qtail, qcount, started, wpc, wjob, nread, done, landed>>
      /\ mpc' = "out" /\ taken' = taken \ {marg} /\ done[marg]
  BY DEF WaitReturn, JobDone, ring, flags, workerVars, jobVars
<1>2. \A i : Occupied(i)' <=> Occupied(i)
  BY <1>1 DEF Occupied, Occ
<1>3. RingInv'
  BY <1>1, <1>2 DEF RingInv, Wrap
<1>4. RunInv'
  BY <1>1, <1>2 DEF RunInv
<1>5. JobInv'
  BY <1>1 DEF JobInv
<1>6. QED
  BY <1>3, <1>4, <1>5

\* The pool is reset only when every worker has exited, which leaves the ring empty.
LEMMA ShutdownJoinPreserved ==
  ASSUME PoolIInv, ShutdownJoin
  PROVE  RingInv' /\ RunInv' /\ JobInv'
<1> USE DEF PoolIInv
<1>1. /\ UNCHANGED <<wpc, wjob, nread, done, landed, taken>>
      /\ qhead' = 0 /\ qtail' = 0 /\ qcount' = 0 /\ mpc' = "stopped"
      /\ \A w \in Workers : wpc[w] = "exited"
  BY DEF ShutdownJoin, workerVars, jobVars
<1>2. \A i \in Cells : ~Occupied(i)'
  BY <1>1, PoolAssumption DEF Occupied, Occ, Cells
<1>3. RingInv'
  BY <1>1, <1>2, PoolAssumption DEF RingInv, Wrap
<1>4. RunInv'
  BY <1>1 DEF RunInv
<1>5. JobInv'
  BY <1>1 DEF JobInv
<1>6. QED
  BY <1>3, <1>4, <1>5

\* Taking the job at the head moves it from its cell to the worker.
LEMMA WorkerTakePreserved ==
  ASSUME PoolIInv, NEW w \in Workers, WorkerTake(w)
  PROVE  RingInv' /\ RunInv' /\ JobInv'
<1> USE DEF PoolIInv
<1>1. /\ UNCHANGED <<queue, qtail, started, done, landed, mpc, marg, taken>>
      /\ qhead' = CellAfter(qhead) /\ qcount' = qcount - 1
      /\ wpc[w] = "lock" /\ wpc' = [wpc EXCEPT ![w] = "run"]
      /\ wjob' = [wjob EXCEPT ![w] = queue[qhead]]
      /\ nread' = [nread EXCEPT ![w] = 0]
  BY DEF WorkerTake, Dequeue, flags, jobVars, callerVars
<1>2. /\ qhead \in Cells /\ qcount \in 1..QueueCap
      /\ queue \in [Cells -> Jobs \cup {NoJob}]
      /\ taken \in SUBSET Jobs
      /\ wpc \in [Workers -> {"none", "lock", "asleep", "run", "exited"}]
      /\ wjob \in [Workers -> Jobs \cup {NoJob}]
      /\ nread \in [Workers -> 0..NReads]
  BY PoolAssumption DEF WorkerTake, PoolTypeOK
<1>3. \A i \in Cells : Occupied(i)' <=> Occupied(i) /\ i # qhead
  BY <1>1, <1>2, OccDequeue DEF Occupied
<1>4. Occupied(qhead) /\ qtail' = Wrap(qhead + qcount)'
  BY <1>1, <1>2, OccDequeue DEF Occupied, RingInv
<1>5. /\ queue[qhead] \in taken /\ ~done[queue[qhead]] /\ landed[queue[qhead]] = {}
      /\ mpc = "submit" => queue[qhead] # marg
      /\ queue[qhead] # NoJob
  BY <1>2, <1>4, PoolAssumption DEF RingInv
<1>6. /\ wpc'[w] = "run" /\ wjob'[w] = queue[qhead] /\ nread'[w] = 0
      /\ \A v \in Workers \ {w} :
           wpc'[v] = wpc[v] /\ wjob'[v] = wjob[v] /\ nread'[v] = nread[v]
  BY <1>1, <1>2
<1>7. \A i \in Cells : Occupied(i)' => queue'[i] # queue[qhead]
  BY <1>1, <1>2, <1>3, <1>4 DEF RingInv
<1>8. \A v \in Workers : wpc[v] = "run" => wjob[v] # queue[qhead]
  BY <1>2, <1>4 DEF RunInv
<1>9. RingInv'
  BY <1>1, <1>3, <1>4 DEF RingInv
<1>10. RunInv'
  <2>1. started'
    BY <1>1 DEF RunInv
  <2>2. \A v \in Workers : wpc'[v] = "run" <=> wjob'[v] # NoJob
    BY <1>5, <1>6 DEF RunInv
  <2>3. \A v \in Workers : wpc'[v] = "run" =>
          /\ wjob'[v] \in taken'
          /\ ~done'[wjob'[v]]
          /\ landed'[wjob'[v]] = 1..nread'[v]
          /\ mpc' = "submit" => wjob'[v] # marg'
          /\ \A i \in Cells : Occupied(i)' => queue'[i] # wjob'[v]
    <3>1. ASSUME NEW v \in Workers \ {w}, wpc'[v] = "run"
          PROVE  /\ wjob'[v] \in taken'
                 /\ ~done'[wjob'[v]]
                 /\ landed'[wjob'[v]] = 1..nread'[v]
                 /\ mpc' = "submit" => wjob'[v] # marg'
                 /\ \A i \in Cells : Occupied(i)' => queue'[i] # wjob'[v]
      BY <1>1, <1>3, <1>6, <3>1 DEF RunInv
    <3>2. landed'[wjob'[w]] = 1..nread'[w]
      <4>1. landed'[wjob'[w]] = {} /\ nread'[w] = 0
        BY <1>1, <1>5, <1>6
      <4>2. QED
        BY <4>1
    <3>3. /\ wjob'[w] \in taken'
          /\ ~done'[wjob'[w]]
          /\ mpc' = "submit" => wjob'[w] # marg'
          /\ \A i \in Cells : Occupied(i)' => queue'[i] # wjob'[w]
      BY <1>1, <1>5, <1>6, <1>7
    <3>4. QED
      BY <3>1, <3>2, <3>3
  <2>4. \A u, v \in Workers :
          wpc'[u] = "run" /\ wpc'[v] = "run" /\ wjob'[u] = wjob'[v] => u = v
    BY <1>6, <1>8 DEF RunInv
  <2>5. QED
    BY <2>1, <2>2, <2>3, <2>4 DEF RunInv
<1>11. JobInv'
  BY <1>1 DEF JobInv
<1>12. QED
  BY <1>9, <1>10, <1>11

\* A read lands the next region of the worker's own job and touches no other.
LEMMA WorkerReadPreserved ==
  ASSUME PoolIInv, NEW w \in Workers, WorkerRead(w)
  PROVE  RingInv' /\ RunInv' /\ JobInv'
<1> USE DEF PoolIInv
<1>1. /\ UNCHANGED <<queue, qhead, qtail, qcount, started, wpc, wjob, done, mpc, marg, taken>>
      /\ wpc[w] = "run"
      /\ nread' = [nread EXCEPT ![w] = @ + 1]
      /\ landed' = [landed EXCEPT ![wjob[w]] = @ \cup {nread[w] + 1}]
  BY DEF WorkerRead, ring, flags, callerVars
<1>2. \A i : Occupied(i)' <=> Occupied(i)
  BY <1>1 DEF Occupied, Occ
<1>3. /\ landed \in [Jobs -> SUBSET (1..NReads)] /\ taken \in SUBSET Jobs
      /\ nread \in [Workers -> 0..NReads] /\ NReads \in Nat
  BY PoolAssumption DEF PoolTypeOK
<1>4. wjob[w] \in taken /\ ~done[wjob[w]] /\ landed[wjob[w]] = 1..nread[w]
  BY <1>1 DEF RunInv
<1>5. /\ landed'[wjob[w]] = 1..nread'[w]
      /\ \A j \in Jobs : j # wjob[w] => landed'[j] = landed[j]
      /\ \A v \in Workers \ {w} : nread'[v] = nread[v]
  <2>1. landed'[wjob[w]] = (1..nread[w]) \cup {nread[w] + 1}
    BY <1>1, <1>3, <1>4
  <2>2. nread'[w] = nread[w] + 1 /\ nread[w] \in Nat
    BY <1>1, <1>3
  <2>3. (1..nread[w]) \cup {nread[w] + 1} = 1..nread[w] + 1
    BY <2>2
  <2>4. QED
    BY <1>1, <1>3, <2>1, <2>2, <2>3
<1>6. \A i \in Cells : Occupied(i) => queue[i] # wjob[w]
  BY <1>1 DEF RunInv
<1>7. RingInv'
  BY <1>1, <1>2, <1>3, <1>5, <1>6 DEF RingInv, Wrap
<1>8. RunInv'
  BY <1>1, <1>2, <1>3, <1>5 DEF RunInv
<1>9. JobInv'
  BY <1>1, <1>3, <1>4, <1>5 DEF JobInv, RunInv
<1>10. QED
  BY <1>7, <1>8, <1>9

\* A worker publishes its job only after its last read, and lets go of it.
LEMMA WorkerPublishPreserved ==
  ASSUME PoolIInv, NEW w \in Workers, WorkerPublish(w)
  PROVE  RingInv' /\ RunInv' /\ JobInv'
<1> USE DEF PoolIInv
<1>1. /\ UNCHANGED <<queue, qhead, qtail, qcount, started, nread, landed, marg, taken>>
      /\ wpc[w] = "run" /\ nread[w] = NReads
      /\ done' = [done EXCEPT ![wjob[w]] = TRUE]
      /\ mpc' = BroadcastDone
      /\ wjob' = [wjob EXCEPT ![w] = NoJob]
      /\ wpc' = [wpc EXCEPT ![w] = "lock"]
  BY DEF WorkerPublish, ring, flags
<1>2. \A i : Occupied(i)' <=> Occupied(i)
  BY <1>1 DEF Occupied, Occ
<1>3. /\ done \in [Jobs -> BOOLEAN] /\ taken \in SUBSET Jobs
      /\ wpc \in [Workers -> {"none", "lock", "asleep", "run", "exited"}]
      /\ wjob \in [Workers -> Jobs \cup {NoJob}]
  BY DEF PoolTypeOK
<1>4. /\ wjob[w] \in taken /\ landed[wjob[w]] = 1..NReads
      /\ mpc = "submit" => wjob[w] # marg
      /\ \A i \in Cells : Occupied(i) => queue[i] # wjob[w]
      /\ \A v \in Workers : wpc[v] = "run" /\ wjob[v] = wjob[w] => v = w
  BY <1>1 DEF RunInv
<1>5. /\ wpc'[w] = "lock" /\ wjob'[w] = NoJob
      /\ \A v \in Workers \ {w} : wpc'[v] = wpc[v] /\ wjob'[v] = wjob[v]
      /\ \A j \in Jobs : j # wjob[w] => done'[j] = done[j]
  BY <1>1, <1>3
<1>6. (mpc' = "submit" <=> mpc = "submit") /\ (mpc' \in {"wait", "asleep"} => mpc \in {"wait", "asleep"})
  BY <1>1 DEF BroadcastDone
<1>7. RingInv'
  BY <1>1, <1>2, <1>3, <1>4, <1>5, <1>6 DEF RingInv, Wrap
<1>8. RunInv'
  BY <1>1, <1>2, <1>3, <1>4, <1>5, <1>6 DEF RunInv
<1>9. JobInv'
  BY <1>1, <1>3, <1>4, <1>5, <1>6 DEF JobInv
<1>10. QED
  BY <1>7, <1>8, <1>9

\* Every step preserves the invariant: the steps above, and steps that move
\* only program counters, which FramePreserved covers.
LEMMA NextPreserved == PoolIInv /\ [PoolNext]_poolVars => PoolIInv'
<1> SUFFICES ASSUME PoolIInv, [PoolNext]_poolVars PROVE PoolIInv'
  OBVIOUS
<1>0. PoolTypeOK'
  BY TypePreserved DEF PoolIInv
<1> SUFFICES RingInv' /\ RunInv' /\ JobInv'
  BY <1>0 DEF PoolIInv
<1> DEFINE Kept == RingInv' /\ RunInv' /\ JobInv'
<1>a. wpc \in [Workers -> {"none", "lock", "asleep", "run", "exited"}] /\ taken \in SUBSET Jobs
  BY DEF PoolIInv, PoolTypeOK
<1>1. CASE PoolStart
  <2>1. \A w \in Workers : wpc[w] # "run"
    BY <1>1 DEF PoolStart, PoolIInv, RunInv
  <2>2. \A w \in Workers : wpc'[w] = "run" <=> wpc[w] = "run"
    BY <1>1, <2>1 DEF PoolStart
  <2>3. /\ UNCHANGED <<ring, jobVars, taken, wjob, nread>>
        /\ started' /\ mpc = "out" /\ mpc' = mpc
    BY <1>1 DEF PoolStart, callerVars
  <2>4. QED
    BY <2>2, <2>3, FramePreserved
<1>2. ASSUME NEW j \in Jobs \ taken, SubmitReset(j) PROVE Kept
  BY <1>2, SubmitResetPreserved
<1>3. ASSUME NEW j \in taken, WaitCall(j) PROVE Kept
  <2>1. /\ UNCHANGED <<ring, jobVars, taken, wjob, nread, wpc, started>>
        /\ mpc' = "wait" /\ marg' = j
    BY <1>3 DEF WaitCall, flags, workerVars
  <2>2. started' \/ \A w \in Workers : wpc'[w] \in {"none", "exited"}
    BY <2>1, Zenon DEF PoolIInv, RunInv
  <2>3. QED
    BY <2>1, <2>2, FramePreserved
<1>4. CASE ShutdownSignal
  <2>1. /\ UNCHANGED <<ring, jobVars, taken, wjob, nread>>
        /\ started' /\ mpc' = "join"
    BY <1>4, Zenon DEF ShutdownSignal
  <2>2. \A w \in Workers : wpc'[w] = "run" <=> wpc[w] = "run"
    BY <1>4 DEF ShutdownSignal, WakeAll
  <2>3. QED
    BY <2>1, <2>2, FramePreserved
<1>5. CASE SubmitEnqueue
  BY <1>5, SubmitEnqueuePreserved
<1>6. CASE WaitReturn
  BY <1>6, WaitReturnPreserved
<1>7. CASE ShutdownJoin
  BY <1>7, ShutdownJoinPreserved
<1>8. ASSUME NEW w \in Workers, WorkerTake(w) PROVE Kept
  BY <1>8, WorkerTakePreserved
<1>9. ASSUME NEW w \in Workers, WorkerRead(w) PROVE Kept
  BY <1>9, WorkerReadPreserved
<1>10. ASSUME NEW w \in Workers, WorkerPublish(w) PROVE Kept
  BY <1>10, WorkerPublishPreserved
<1>11. CASE SubmitOverflow \/ WaitBlock \/ SpuriousCaller \/ CallerDies
            \/ (\E w \in Workers : WorkerReadFails(w)) \/ UNCHANGED poolVars
  <2>1. /\ UNCHANGED <<ring, jobVars, taken, wjob, nread, wpc, started, marg>>
        /\ mpc' = "submit" => mpc = "submit"
        /\ mpc' \in {"wait", "asleep"} => mpc \in {"wait", "asleep"}
    BY <1>11, Zenon DEF SubmitOverflow, WaitBlock, SpuriousCaller, CallerDies, WorkerReadFails,
                 Die, poolVars, flags, workerVars, callerVars
  <2>2. started' \/ \A w \in Workers : wpc'[w] \in {"none", "exited"}
    BY <2>1, Zenon DEF PoolIInv, RunInv
  <2>3. mpc' \in {"wait", "asleep"} => marg' \in taken
    BY <2>1 DEF PoolIInv, JobInv
  <2>4. QED
    BY <2>1, <2>2, <2>3, FramePreserved
<1>12. ASSUME NEW w \in Workers, WorkerSleep(w) \/ WorkerExit(w) \/ SpuriousWorker(w) PROVE Kept
  <2>1. /\ UNCHANGED <<ring, jobVars, taken, wjob, nread, started, mpc, marg>>
        /\ wpc[w] \in {"lock", "asleep"}
        /\ \E x \in {"asleep", "exited", "lock"} : wpc' = [wpc EXCEPT ![w] = x]
    BY <1>12 DEF WorkerSleep, WorkerExit, SpuriousWorker, Wake, flags, callerVars
  <2>2. started'
    BY <2>1 DEF PoolIInv, RunInv
  <2>3. \A v \in Workers : wpc'[v] = "run" <=> wpc[v] = "run"
    BY <1>a, <2>1
  <2>4. mpc' \in {"wait", "asleep"} => marg' \in taken
    BY <2>1 DEF PoolIInv, JobInv
  <2>5. QED
    BY <2>1, <2>2, <2>3, <2>4, FramePreserved
<1>13. QED
  BY <1>1, <1>2, <1>3, <1>4, <1>5, <1>6, <1>7, <1>8, <1>9, <1>10, <1>11, <1>12
     DEF PoolNext, CallerChoice, CallerProgress, WorkerStep, WorkerProgress, Finished

\* A job the caller sees done cannot be with a worker or in the ring, because
\* the invariant gives those only jobs that are not done.
LEMMA InvDone == PoolIInv => DoneMeansLanded
<1> SUFFICES ASSUME PoolIInv, NEW j \in Jobs, done[j]
             PROVE  /\ landed[j] = 1..NReads
                    /\ j \notin Running
                    /\ \A k \in 1..qcount : Queued[k] # j
  BY DEF DoneMeansLanded
<1>1. landed[j] = 1..NReads
  BY DEF PoolIInv, JobInv
<1>2. j \notin Running
  BY DEF PoolIInv, RunInv, Running
<1>3. ASSUME NEW k \in 1..qcount PROVE Queued[k] # j
  <2>1. PICK i \in Cells : Occupied(i) /\ Queued[k] = queue[i]
    BY QueuedOccupied DEF PoolIInv
  <2>2. QED
    BY <2>1 DEF PoolIInv, RingInv
<1>4. QED
  BY <1>1, <1>2, <1>3

\* Ring and workers hold outstanding jobs only.
LEMMA InvDangling == PoolIInv => NoDanglingJob
<1> SUFFICES ASSUME PoolIInv
             PROVE  Running \subseteq taken /\ \A k \in 1..qcount : Queued[k] \in taken
  BY DEF NoDanglingJob
<1>1. Running \subseteq taken
  BY DEF PoolIInv, RunInv, Running
<1>2. ASSUME NEW k \in 1..qcount PROVE Queued[k] \in taken
  <2>1. PICK i \in Cells : Occupied(i) /\ Queued[k] = queue[i]
    BY QueuedOccupied DEF PoolIInv
  <2>2. QED
    BY <2>1 DEF PoolIInv, RingInv
<1>3. QED
  BY <1>1, <1>2

\* A full ring at a submit would hold QueueCap distinct jobs other than the one
\* being submitted, one more than there are.
LEMMA InvOverflow ==
  ASSUME JobsFitQueue
  PROVE  PoolIInv => NeverOverflows
<1> SUFFICES ASSUME PoolIInv, mpc = "submit", RingFull PROVE FALSE
  BY DEF NeverOverflows
<1>1. /\ qcount = QueueCap /\ qhead \in Cells /\ QueueCap \in Nat \ {0}
      /\ queue \in [Cells -> Jobs \cup {NoJob}] /\ taken \in SUBSET Jobs
  BY PoolAssumption DEF PoolIInv, PoolTypeOK, RingFull
<1>2. \A i \in Cells : Occupied(i)
  BY <1>1 DEF Occupied, Occ, Cells
<1>3. marg \in Jobs
  BY <1>1 DEF PoolIInv, JobInv
<1>4. queue \in [Cells -> Jobs \ {marg}]
  BY <1>1, <1>2 DEF PoolIInv, RingInv
<1>5. IsFiniteSet(Jobs \ {marg}) /\ Cardinality(Jobs \ {marg}) = Cardinality(Jobs) - 1
  BY <1>3, FS_RemoveElement DEF JobsFitQueue
<1>6. IsFiniteSet(Cells) /\ Cardinality(Cells) = QueueCap
  BY <1>1, FS_Interval DEF Cells
<1>7. Cardinality(Jobs \ {marg}) < Cardinality(Cells)
  BY <1>1, <1>5, <1>6, FS_CardinalityType DEF JobsFitQueue
<1>8. PICK i \in Cells, k \in Cells : i # k /\ queue[i] = queue[k]
  BY <1>4, <1>5, <1>6, <1>7, FS_PigeonHole
<1>9. QED
  BY <1>2, <1>8 DEF PoolIInv, RingInv

-----------------------------------------------------------------------------
(* No wakeup is lost.                                                      *)

Locked == {w \in Workers : wpc[w] = "lock"}

\* One worker more at the mutex is one more in the count of them.
LEMMA OneMoreLocked ==
  ASSUME PoolTypeOK, NEW u \in Workers, wpc[u] # "lock", wpc' = [wpc EXCEPT ![u] = "lock"]
  PROVE  /\ Cardinality(Locked) \in Nat
         /\ Cardinality(Locked') = Cardinality(Locked) + 1
<1>1. IsFiniteSet(Locked)
  BY WorkersFinite, FS_Subset DEF Locked
<1>2. Locked' = Locked \cup {u} /\ u \notin Locked
  BY DEF Locked, PoolTypeOK
<1>3. QED
  BY <1>1, <1>2, FS_AddElement, FS_CardinalityType

\* A worker that leaves the mutex is one less.
LEMMA OneLessLocked ==
  ASSUME PoolTypeOK, NEW u \in Workers, NEW x, x # "lock",
         wpc[u] = "lock", wpc' = [wpc EXCEPT ![u] = x]
  PROVE  /\ Cardinality(Locked) \in Nat
         /\ Cardinality(Locked') = Cardinality(Locked) - 1
<1>1. IsFiniteSet(Locked)
  BY WorkersFinite, FS_Subset DEF Locked
<1>2. Locked' = Locked \ {u} /\ u \in Locked
  BY DEF Locked, PoolTypeOK
<1>3. QED
  BY <1>1, <1>2, FS_RemoveElement, FS_CardinalityType

\* A submit wakes one sleeper for its one job; a take uses up one awake worker
\* and one job; whoever goes to sleep saw an empty ring.
LEMMA ConservingPreserved ==
  PoolTypeOK /\ PoolTypeOK' /\ WorkConserving /\ [PoolNext]_poolVars => WorkConserving'
<1> SUFFICES ASSUME PoolTypeOK, PoolTypeOK', WorkConserving, [PoolNext]_poolVars,
                    NEW s \in Workers, wpc'[s] = "asleep"
             PROVE  Cardinality(Locked') >= qcount'
  BY DEF WorkConserving, Locked
<1>1. IsFiniteSet(Locked) /\ IsFiniteSet(Locked')
  BY WorkersFinite, FS_Subset DEF Locked
<1>2. Cardinality(Locked) \in Nat /\ Cardinality(Locked') \in Nat
  BY <1>1, FS_CardinalityType
<1>3. qcount \in Nat /\ qcount' \in Nat
  BY PoolAssumption DEF PoolTypeOK
<1>4. (\E w \in Workers : wpc[w] = "asleep") => Cardinality(Locked) >= qcount
  BY DEF WorkConserving, Locked
<1>5. CASE wpc' = wpc /\ qcount' = qcount
  BY <1>4, <1>5 DEF Locked
<1>6. CASE PoolStart
  BY <1>6 DEF PoolStart
<1>7. CASE ShutdownSignal
  BY <1>7 DEF ShutdownSignal, WakeAll
<1>8. CASE ShutdownJoin
  BY <1>8 DEF ShutdownJoin, workerVars
<1>9. CASE SubmitEnqueue
  <2>1. CASE Asleep = {} /\ wpc' = wpc
    BY <2>1 DEF Asleep
  <2>2. ASSUME NEW u \in Asleep, Wake(u) PROVE Cardinality(Locked') >= qcount'
    <3>1. u \in Workers /\ wpc[u] = "asleep" /\ wpc' = [wpc EXCEPT ![u] = "lock"]
      BY <2>2 DEF Asleep, Wake
    <3>2. Cardinality(Locked') = Cardinality(Locked) + 1
      BY <3>1, OneMoreLocked
    <3>3. QED
      BY <1>2, <1>3, <1>4, <1>9, <3>1, <3>2 DEF SubmitEnqueue
  <2>3. QED
    BY <1>9, <2>1, <2>2 DEF SubmitEnqueue, SignalWork
<1>10. ASSUME NEW w \in Workers, WorkerTake(w) PROVE Cardinality(Locked') >= qcount'
  <2>1. /\ wpc[w] = "lock" /\ wpc' = [wpc EXCEPT ![w] = "run"] /\ qcount' = qcount - 1
    BY <1>10 DEF WorkerTake, Dequeue
  <2>2. Cardinality(Locked') = Cardinality(Locked) - 1
    BY <2>1, OneLessLocked
  <2>3. wpc[s] = "asleep"
    BY <2>1 DEF PoolTypeOK
  <2>4. QED
    BY <1>2, <1>3, <1>4, <2>1, <2>2, <2>3
<1>11. ASSUME NEW w \in Workers, WorkerSleep(w) \/ WorkerExit(w)
       PROVE  Cardinality(Locked') >= qcount'
  BY <1>2, <1>11 DEF WorkerSleep, WorkerExit, ring
<1>12. ASSUME NEW w \in Workers, WorkerPublish(w) \/ SpuriousWorker(w)
       PROVE  Cardinality(Locked') >= qcount'
  <2>1. wpc[w] # "lock" /\ wpc' = [wpc EXCEPT ![w] = "lock"] /\ qcount' = qcount
    BY <1>12 DEF WorkerPublish, SpuriousWorker, Wake, ring
  <2>2. Cardinality(Locked') = Cardinality(Locked) + 1
    BY <2>1, OneMoreLocked
  <2>3. wpc[s] = "asleep"
    BY <2>1 DEF PoolTypeOK
  <2>4. QED
    BY <1>2, <1>3, <1>4, <2>1, <2>2, <2>3
<1>13. ASSUME ~(wpc' = wpc /\ qcount' = qcount)
       PROVE  \/ PoolStart \/ ShutdownSignal \/ ShutdownJoin \/ SubmitEnqueue
              \/ \E w \in Workers : \/ WorkerTake(w) \/ WorkerSleep(w) \/ WorkerExit(w)
                                    \/ WorkerPublish(w) \/ SpuriousWorker(w)
  BY <1>13, Zenon DEF PoolNext, CallerChoice, CallerProgress, WorkerStep, WorkerProgress, Finished,
     SubmitReset, WaitCall, SubmitOverflow, WaitBlock, WaitReturn, SpuriousCaller,
     CallerDies, WorkerRead, WorkerReadFails, poolVars, ring, workerVars
<1>14. QED
  BY <1>5, <1>6, <1>7, <1>8, <1>9, <1>10, <1>11, <1>12, <1>13

-----------------------------------------------------------------------------
(* The theorems.                                                           *)

\* Every field of the pool keeps its type, head and tail stay in the ring.
THEOREM PoolTypeCorrect == PoolSpec => []PoolTypeOK
<1>1. PoolInit => PoolTypeOK
  BY InitInv DEF PoolIInv
<1>2. QED
  BY <1>1, TypePreserved, PTL DEF PoolSpec

\* At all times each outstanding job is with the submitter, in exactly one cell
\* of the ring, with exactly one worker, or done.
THEOREM PoolInvariant == PoolSpec => []PoolIInv
BY InitInv, NextPreserved, PTL DEF PoolSpec

\* expert_loader_wait's caller can rely on the bytes: a done job is fully in
\* memory and no loader thread will touch its slot again.
THEOREM PoolDone == PoolSpec => []DoneMeansLanded
BY PoolInvariant, InvDone, PTL

\* No job record that has left the caller's stack frame is reachable from a
\* worker or from the ring.
THEOREM PoolNoDangling == PoolSpec => []NoDanglingJob
BY PoolInvariant, InvDangling, PTL

\* expert_loader_submit never finds the ring full, whatever the number of
\* workers, as long as there are no more job records than cells.
THEOREM PoolNoOverflow ==
  ASSUME JobsFitQueue
  PROVE  PoolSpec => []NeverOverflows
<1>1. PoolIInv => NeverOverflows
  BY InvOverflow
<1>2. QED
  BY <1>1, PoolInvariant, PTL

\* While a worker sleeps, every queued job has an awake worker on its way.
THEOREM PoolConserving == PoolSpec => []WorkConserving
<1>1. PoolInit => WorkConserving
  BY DEF PoolInit, WorkConserving
<1>2. PoolTypeOK /\ PoolTypeOK' /\ WorkConserving /\ [PoolNext]_poolVars => WorkConserving'
  BY ConservingPreserved
<1>3. QED
  BY <1>1, <1>2, PoolTypeCorrect, PTL DEF PoolSpec

-----------------------------------------------------------------------------
(* The pool implements ReadService.                                        *)

\* The pool goes down with no job outstanding.
DownEmpty == mpc \in {"join", "stopped"} => taken = {}

\* Only ShutdownSignal, with no job outstanding, leads to the joins, and nothing
\* is submitted after it.
LEMMA DownEmptyPreserved == DownEmpty /\ [PoolNext]_poolVars => DownEmpty'
<1> SUFFICES ASSUME DownEmpty, [PoolNext]_poolVars, mpc' \in {"join", "stopped"} PROVE taken' = {}
  BY DEF DownEmpty
<1>1. CASE ShutdownSignal /\ taken = {}
  BY <1>1 DEF ShutdownSignal
<1>2. CASE mpc \in {"join", "stopped"} /\ taken' = taken
  BY <1>2 DEF DownEmpty
<1>3. (ShutdownSignal /\ taken = {}) \/ (mpc \in {"join", "stopped"} /\ taken' = taken)
  BY Zenon DEF PoolNext, CallerChoice, CallerProgress, WorkerStep, WorkerProgress, Finished,
     PoolStart, SubmitReset, SubmitEnqueue, SubmitOverflow, WaitCall, WaitBlock, WaitReturn,
     ShutdownSignal, ShutdownJoin, SpuriousCaller, CallerDies, WorkerTake, WorkerSleep,
     WorkerExit, WorkerRead, WorkerReadFails, WorkerPublish, SpuriousWorker, BroadcastDone,
     poolVars, callerVars
<1>4. QED
  BY <1>1, <1>2, <1>3

Ready == {j \in taken : done[j]}

\* The k-th of the jobs in the ring is in the k-th cell from the head.
QueuedInOrder ==
  /\ Queued \in Seq(Jobs \cup {NoJob}) /\ Len(Queued) = qcount
  /\ \A k \in 1..qcount : /\ Wrap(qhead + (k - 1)) \in Cells
                         /\ Occupied(Wrap(qhead + (k - 1)))
                         /\ Queued[k] = queue[Wrap(qhead + (k - 1))]

\* The queue as a sequence, free of the modulus.
LEMMA QueuedSeq == PoolTypeOK => QueuedInOrder
<1> SUFFICES ASSUME PoolTypeOK PROVE QueuedInOrder
  OBVIOUS
<1>1. QueueCap \in Nat \ {0} /\ qhead \in Cells /\ qcount \in 0..QueueCap
      /\ queue \in [Cells -> Jobs \cup {NoJob}]
  BY PoolAssumption DEF PoolTypeOK
<1>2. ASSUME NEW k \in 1..qcount
      PROVE  /\ Wrap(qhead + (k - 1)) \in Cells
             /\ Occupied(Wrap(qhead + (k - 1)))
             /\ Queued[k] = queue[Wrap(qhead + (k - 1))]
  <2>1. k - 1 \in 0..QueueCap /\ qhead + k - 1 = qhead + (k - 1)
    BY <1>1 DEF Cells
  <2>2. (qhead + k - 1) % QueueCap = Wrap(qhead + (k - 1))
    BY <1>1, <2>1, WrapLemma
  <2>3. Wrap(qhead + (k - 1)) \in Cells /\ Occupied(Wrap(qhead + (k - 1)))
    BY <1>1 DEF Wrap, Cells, Occupied, Occ
  <2>4. QED
    BY <2>2, <2>3 DEF Queued
<1>3. Queued \in [1..qcount -> Jobs \cup {NoJob}]
  <2>1. \A k \in 1..qcount : Queued[k] \in Jobs \cup {NoJob}
    BY <1>1, <1>2
  <2>2. Queued = [k \in 1..qcount |-> Queued[k]]
    BY DEF Queued
  <2>3. QED
    BY <2>1, <2>2
<1>4. Queued \in Seq(Jobs \cup {NoJob}) /\ Len(Queued) = qcount
  <2>1. QED
    BY <1>1, <1>3
<1>5. QED
  BY <1>2, <1>4 DEF QueuedInOrder

\* What is waiting, being read and ready are disjoint from a job just submitted.
LEMMA EnqueueImplements ==
  ASSUME PoolIInv, PoolTypeOK', SubmitEnqueue
  PROVE  \E j \in Jobs : Service!SvcSubmit(j)
<1> USE DEF PoolIInv
<1>1. /\ alive /\ mpc = "submit" /\ alive' = alive
      /\ queue' = [queue EXCEPT ![qtail] = marg] /\ qcount' = qcount + 1
      /\ UNCHANGED <<qhead, wjob, done, taken>>
  BY DEF SubmitEnqueue, jobVars
<1>2. /\ marg \in taken /\ ~done[marg] /\ marg \in Jobs /\ marg # NoJob
      /\ \A i \in Cells : Occupied(i) => queue[i] # marg
      /\ \A w \in Workers : wjob[w] # marg
  BY <1>1, PoolAssumption DEF JobInv, RingInv, RunInv, PoolTypeOK
<1>3. /\ Queued \in Seq(Jobs \cup {NoJob}) /\ Len(Queued) = qcount
      /\ \A k \in 1..qcount : /\ Wrap(qhead + (k - 1)) \in Cells
                             /\ Occupied(Wrap(qhead + (k - 1)))
                             /\ Queued[k] = queue[Wrap(qhead + (k - 1))]
  BY QueuedSeq DEF QueuedInOrder
<1>4. /\ Queued' \in Seq(Jobs \cup {NoJob}) /\ Len(Queued') = qcount + 1
      /\ \A k \in 1..qcount + 1 : Queued'[k] = queue'[Wrap(qhead + (k - 1))]
  <2>1. QueuedInOrder'
    BY QueuedSeq, PTL
  <2>2. /\ Queued' \in Seq(Jobs \cup {NoJob}) /\ Len(Queued') = qcount'
        /\ \A k \in 1..qcount' : Queued'[k] = queue'[Wrap(qhead' + (k - 1))]
    <3>1. QED
      BY <2>1, Zenon DEF QueuedInOrder, Wrap
  <2>3. QED
    BY <1>1, <2>2
<1>5. Queued' = Append(Queued, marg)
  <2>1. qcount \in Nat /\ qtail = Wrap(qhead + qcount) /\ qtail \in Cells
        /\ queue \in [Cells -> Jobs \cup {NoJob}]
    BY PoolAssumption DEF PoolTypeOK, RingInv
  <2>2. ~Occupied(qtail)
    BY <1>1, <2>1, OccEnqueue, PoolAssumption DEF Occupied, PoolTypeOK, SubmitEnqueue, RingFull
  <2>3. \A k \in 1..qcount : Queued'[k] = Queued[k]
    <3> SUFFICES ASSUME NEW k \in 1..qcount PROVE Queued'[k] = Queued[k]
      OBVIOUS
    <3>1. PICK i \in Cells : i = Wrap(qhead + (k - 1)) /\ Occupied(i) /\ Queued[k] = queue[i]
      BY <1>3
    <3>2. Queued'[k] = queue'[i]
      BY <1>4, <2>1, <3>1
    <3>3. i # qtail
      BY <2>2, <3>1
    <3> QED
      BY <1>1, <2>1, <3>1, <3>2, <3>3
  <2>4. Queued'[qcount + 1] = marg
    BY <1>1, <1>4, <2>1
  <2>5. /\ Append(Queued, marg) \in Seq(Jobs \cup {NoJob})
        /\ Len(Append(Queued, marg)) = qcount + 1
        /\ \A k \in 1..qcount : Append(Queued, marg)[k] = Queued[k]
        /\ Append(Queued, marg)[qcount + 1] = marg
    <3>1. QED
      BY <1>2, <1>3, AppendProperties
  <2>6. \A k \in 1..Len(Queued') : Queued'[k] = Append(Queued, marg)[k]
    BY <1>4, <2>1, <2>3, <2>4, <2>5
  <2>7. QED
    BY <1>4, <2>5, <2>6, SeqEqual
<1>6. marg \notin Service!Waiting \cup Running \cup Ready
  <2>1. \A k \in 1..Len(Queued) : Queued[k] # marg
    <3>1. QED
      BY <1>2, <1>3
  <2>2. QED
    BY <1>2, <2>1 DEF Service!Waiting, Running, Ready
<1>7. Running' = Running /\ Ready' = Ready
  BY <1>1 DEF Running, Ready
<1>8. PICK j \in Jobs : j = marg
  BY <1>2
<1>9. Service!SvcSubmit(j)
  BY <1>1, <1>5, <1>6, <1>7, <1>8 DEF Service!SvcSubmit, Ready
<1>10. QED
  BY <1>9

\* A worker at the mutex holds no job, so fewer jobs are being read than there
\* are workers.
LEMMA FewerThanWorkers ==
  ASSUME PoolIInv, NEW w \in Workers, wpc[w] # "run"
  PROVE  Cardinality(Running) < Cardinality(Workers)
<1> USE DEF PoolIInv
<1> DEFINE Others == Workers \ {w}
           Busy == {v \in Others : wjob[v] # NoJob}
           hold == [v \in Busy |-> wjob[v]]
<1>1. wjob[w] = NoJob
  BY DEF RunInv
<1>2. Running = {wjob[v] : v \in Busy}
  BY <1>1 DEF Running
<1>3. /\ IsFiniteSet(Others) /\ Cardinality(Others) = Cardinality(Workers) - 1
      /\ Cardinality(Workers) \in Nat
  BY WorkersFinite, FS_RemoveElement, FS_CardinalityType
<1>4. Busy \in SUBSET Others
  OBVIOUS
<1>5. IsFiniteSet(Busy) /\ Cardinality(Busy) <= Cardinality(Others) /\ Cardinality(Busy) \in Nat
  <2> HIDE DEF Busy, Others
  <2>1. QED
    BY <1>3, <1>4, FS_Subset, FS_CardinalityType
<1>6. hold \in Surjection(Busy, Running)
  <2> HIDE DEF Busy
  <2>1. hold \in [Busy -> Running]
    BY <1>2
  <2>2. \A j \in Running : \E v \in Busy : hold[v] = j
    BY <1>2
  <2>3. QED
    BY <2>1, <2>2 DEF Surjection
<1>7. Cardinality(Running) <= Cardinality(Busy) /\ IsFiniteSet(Running)
  <2> HIDE DEF Busy, hold
  <2>1. QED
    BY <1>5, <1>6, FS_Surjection
<1>8. Cardinality(Running) \in Nat
  BY <1>7, FS_CardinalityType
<1>9. QED
  <2> HIDE DEF Busy, Others
  <2>1. QED
    BY <1>3, <1>5, <1>7, <1>8

\* Taking the job at the head of the ring starts the oldest waiting job.
LEMMA TakeImplements ==
  ASSUME PoolIInv, PoolTypeOK', NEW w \in Workers, WorkerTake(w)
  PROVE  Service!SvcStart
<1> USE DEF PoolIInv
<1>1. /\ UNCHANGED <<queue, done, taken, alive>> /\ alive
      /\ qhead' = CellAfter(qhead) /\ qcount' = qcount - 1 /\ qcount > 0
      /\ wpc[w] = "lock" /\ wjob' = [wjob EXCEPT ![w] = queue[qhead]]
  BY DEF WorkerTake, Dequeue, jobVars, callerVars
<1>2. /\ qhead \in Cells /\ qcount \in 1..QueueCap /\ QueueCap \in Nat
      /\ wjob \in [Workers -> Jobs \cup {NoJob}]
  BY <1>1, PoolAssumption DEF PoolTypeOK
<1>3. /\ Queued \in Seq(Jobs \cup {NoJob}) /\ Len(Queued) = qcount
      /\ \A k \in 1..qcount : Queued[k] = queue[Wrap(qhead + (k - 1))]
  BY QueuedSeq DEF QueuedInOrder
<1>4. /\ Queued' \in Seq(Jobs \cup {NoJob}) /\ Len(Queued') = qcount - 1
      /\ \A k \in 1..qcount - 1 : Queued'[k] = queue[Wrap(CellAfter(qhead) + (k - 1))]
  <2>1. QueuedInOrder'
    BY QueuedSeq, PTL
  <2>2. /\ Queued' \in Seq(Jobs \cup {NoJob}) /\ Len(Queued') = qcount'
        /\ \A k \in 1..qcount' : Queued'[k] = queue'[Wrap(qhead' + (k - 1))]
    BY <2>1, Zenon DEF QueuedInOrder, Wrap
  <2>3. QED
    BY <1>1, <2>2
<1>5. \A k \in 1..qcount - 1 : Wrap(CellAfter(qhead) + (k - 1)) = Wrap(qhead + ((k + 1) - 1))
  <2>1. CellAfter(qhead) = Wrap(qhead + 1)
    BY <1>2, CellAfterLemma
  <2>2. QED
    BY <1>2, <2>1 DEF Wrap, Cells
<1>6. /\ Queued # <<>> /\ Head(Queued) = queue[qhead]
      /\ Tail(Queued) \in Seq(Jobs \cup {NoJob}) /\ Len(Tail(Queued)) = qcount - 1
      /\ \A k \in 1..qcount - 1 : Tail(Queued)[k] = Queued[k + 1]
  <2>1. Queued # <<>>
    BY <1>2, <1>3
  <2>2. /\ Tail(Queued) \in Seq(Jobs \cup {NoJob}) /\ Len(Tail(Queued)) = qcount - 1
        /\ \A k \in 1..qcount - 1 : Tail(Queued)[k] = Queued[k + 1]
    BY <1>3, <2>1, HeadTailProperties
  <2>3. Head(Queued) = Queued[1] /\ Queued[1] = queue[Wrap(qhead + (1 - 1))]
    BY <1>2, <1>3
  <2>4. Wrap(qhead + (1 - 1)) = qhead
    BY <1>2 DEF Wrap, Cells
  <2>5. QED
    BY <2>1, <2>2, <2>3, <2>4
<1>7. Queued' = Tail(Queued)
  <2>1. \A k \in 1..qcount - 1 : k + 1 \in 1..qcount
    BY <1>2
  <2>2. \A k \in 1..qcount - 1 : Queued'[k] = Tail(Queued)[k]
    BY <1>3, <1>4, <1>5, <1>6, <2>1
  <2>3. \A k \in 1..Len(Queued') : Queued'[k] = Tail(Queued)[k]
    BY <1>4, <2>2
  <2>4. QED
    BY <1>4, <1>6, <2>3, SeqEqual
<1>8. Running' = Running \cup {queue[qhead]}
  <2>1. wjob[w] = NoJob
    BY <1>1 DEF RunInv
  <2>2. queue[qhead] # NoJob
    <3>1. Occupied(qhead)
      BY <1>2, OccDequeue DEF Occupied
    <3>2. queue[qhead] \in taken
      BY <1>2, <3>1 DEF RingInv
    <3>3. QED
      BY <3>2, PoolAssumption DEF PoolTypeOK
  <2>3. /\ wjob'[w] = queue[qhead]
        /\ \A v \in Workers \ {w} : wjob'[v] = wjob[v]
    BY <1>1, <1>2
  <2>4. QED
    BY <2>1, <2>2, <2>3 DEF Running
<1>9. Ready' = Ready
  BY <1>1 DEF Ready
<1>10. Cardinality(Running) < Cardinality(Workers)
  BY <1>1, FewerThanWorkers
<1>11. /\ Running' = Running \cup {Head(Queued)}
       /\ {j \in taken : done[j]}' = {j \in taken : done[j]} /\ alive' = alive
  BY <1>1, <1>6, <1>8, <1>9 DEF Ready
<1>12. Service!Cardinality(Running) = Cardinality(Running)
  BY Zenon DEF Service!Cardinality, Cardinality, Service!IsFiniteSet, IsFiniteSet
<1>13. QED
  BY <1>1, <1>6, <1>7, <1>10, <1>11, <1>12, Zenon DEF Service!SvcStart

\* Publishing a job makes it ready and stops its being read.
LEMMA PublishImplements ==
  ASSUME PoolIInv, NEW w \in Workers, WorkerPublish(w)
  PROVE  \E j \in Jobs : Service!SvcFinish(j)
<1> USE DEF PoolIInv
<1>1. /\ UNCHANGED <<queue, qhead, qcount, taken, alive>> /\ alive /\ wpc[w] = "run"
      /\ done' = [done EXCEPT ![wjob[w]] = TRUE]
      /\ wjob' = [wjob EXCEPT ![w] = NoJob]
  BY DEF WorkerPublish, ring
<1>2. /\ wjob[w] \in taken /\ wjob[w] \in Jobs /\ wjob[w] # NoJob
      /\ \A v \in Workers : wjob[v] = wjob[w] => v = w
      /\ wjob \in [Workers -> Jobs \cup {NoJob}] /\ done \in [Jobs -> BOOLEAN]
      /\ taken \in SUBSET Jobs
  BY <1>1, PoolAssumption DEF RunInv, PoolTypeOK
<1>3. Queued' = Queued
  BY <1>1 DEF Queued
<1>4. Running' = Running \ {wjob[w]} /\ wjob[w] \in Running
  <2>1. wjob'[w] = NoJob /\ \A v \in Workers \ {w} : wjob'[v] = wjob[v]
    BY <1>1, <1>2
  <2>2. QED
    BY <1>2, <2>1 DEF Running
<1>5. Ready' = Ready \cup {wjob[w]}
  BY <1>1, <1>2 DEF Ready
<1>6. PICK j \in Jobs : j = wjob[w]
  BY <1>2
<1>7. Service!SvcFinish(j)
  BY <1>1, <1>3, <1>4, <1>5, <1>6 DEF Service!SvcFinish, Ready
<1>8. QED
  BY <1>7

\* expert_loader_wait gives the caller a ready job.
LEMMA ReturnImplements ==
  ASSUME PoolIInv, WaitReturn
  PROVE  \E j \in Jobs : Service!SvcCollect(j)
<1> USE DEF PoolIInv
<1>1. /\ UNCHANGED <<queue, qhead, qcount, wjob, done, alive>> /\ alive
      /\ mpc = "wait" /\ done[marg] /\ taken' = taken \ {marg}
  BY DEF WaitReturn, JobDone, ring, workerVars, jobVars
<1>2. marg \in taken /\ marg \in Jobs
  BY <1>1 DEF JobInv, PoolTypeOK
<1>3. Queued' = Queued /\ Running' = Running
  BY <1>1 DEF Queued, Running
<1>4. Ready' = Ready \ {marg} /\ marg \in Ready
  BY <1>1, <1>2 DEF Ready
<1>5. PICK j \in Jobs : j = marg
  BY <1>2
<1>6. Service!SvcCollect(j)
  BY <1>1, <1>3, <1>4, <1>5 DEF Service!SvcCollect, Ready
<1>7. QED
  BY <1>6

\* Clearing done of a record that is not outstanding changes nothing the
\* service shows; neither does emptying the ring of a pool with no job.
LEMMA HiddenImplements ==
  ASSUME PoolIInv, DownEmpty,
         ShutdownJoin \/ \E j \in Jobs \ taken : SubmitReset(j)
  PROVE  UNCHANGED Service!svcVars
<1> USE DEF PoolIInv
<1>1. CASE ShutdownJoin
  <2>1. /\ UNCHANGED <<wjob, done, taken, alive>> /\ qcount' = 0 /\ mpc = "join"
    BY <1>1 DEF ShutdownJoin, workerVars, jobVars
  <2>2. qcount = 0
    <3> SUFFICES ASSUME qcount # 0 PROVE FALSE
      OBVIOUS
    <3>1. qhead \in Cells /\ qcount \in 1..QueueCap /\ taken = {}
      BY <2>1, PoolAssumption DEF PoolTypeOK, DownEmpty
    <3>2. Occupied(qhead)
      BY <3>1, OccDequeue DEF Occupied
    <3>3. QED
      BY <3>1, <3>2 DEF RingInv
  <2>3. Queued' = Queued
    BY <2>1, <2>2 DEF Queued
  <2>4. Running' = Running /\ Ready' = Ready
    BY <2>1 DEF Running, Ready
  <2>5. QED
    BY <2>1, <2>3, <2>4 DEF Service!svcVars, Ready
<1>2. ASSUME NEW j \in Jobs \ taken, SubmitReset(j) PROVE UNCHANGED Service!svcVars
  <2>1. /\ UNCHANGED <<queue, qhead, qcount, wjob, alive>>
        /\ taken' = taken \cup {j} /\ done' = [done EXCEPT ![j] = FALSE]
    BY <1>2 DEF SubmitReset, ClearDone, ring, workerVars
  <2>2. Queued' = Queued /\ Running' = Running
    BY <2>1 DEF Queued, Running
  <2>3. Ready' = Ready
    BY <2>1 DEF Ready, PoolTypeOK
  <2>4. QED
    BY <2>1, <2>2, <2>3 DEF Service!svcVars, Ready
<1>3. QED
  BY <1>1, <1>2

\* Every step of the pool is a step of the service or changes nothing it shows.
LEMMA ServiceStep ==
  PoolIInv /\ PoolTypeOK' /\ DownEmpty /\ [PoolNext]_poolVars
    => [Service!SvcNext]_(Service!svcVars)
<1> SUFFICES ASSUME PoolIInv, PoolTypeOK', DownEmpty, [PoolNext]_poolVars
             PROVE  Service!SvcNext \/ UNCHANGED Service!svcVars
  OBVIOUS
<1>1. CASE SubmitEnqueue
  BY <1>1, EnqueueImplements DEF Service!SvcNext
<1>2. ASSUME NEW w \in Workers, WorkerTake(w) PROVE Service!SvcNext
  BY <1>2, TakeImplements DEF Service!SvcNext
<1>3. ASSUME NEW w \in Workers, WorkerPublish(w) PROVE Service!SvcNext
  BY <1>3, PublishImplements DEF Service!SvcNext
<1>4. CASE WaitReturn
  BY <1>4, ReturnImplements DEF Service!SvcNext
<1>5. CASE ShutdownJoin \/ \E j \in Jobs \ taken : SubmitReset(j)
  BY <1>5, HiddenImplements
<1>6. CASE UNCHANGED <<queue, qhead, qcount, wjob, done, taken>>
  <2>1. /\ Queued' = Queued /\ Running' = Running
        /\ {j \in taken : done[j]}' = {j \in taken : done[j]}
    BY <1>6 DEF Queued, Running
  <2>2. CASE alive' = alive
    BY <2>1, <2>2 DEF Service!svcVars
  <2>3. CASE alive /\ alive' = FALSE
    BY <2>1, <2>3 DEF Service!SvcNext, Service!SvcEnd
  <2>4. alive' = alive \/ (alive /\ alive' = FALSE)
    BY Zenon DEF PoolNext, CallerChoice, CallerProgress, WorkerStep, WorkerProgress, Finished,
       PoolStart, SubmitReset, SubmitEnqueue, SubmitOverflow, WaitCall, WaitBlock, WaitReturn,
       ShutdownSignal, ShutdownJoin, SpuriousCaller, CallerDies, WorkerTake, WorkerSleep,
       WorkerExit, WorkerRead, WorkerReadFails, WorkerPublish, SpuriousWorker, Die, poolVars
  <2>5. QED
    BY <2>2, <2>3, <2>4
<1>7. ASSUME ~(UNCHANGED <<queue, qhead, qcount, wjob, done, taken>>)
      PROVE  \/ SubmitEnqueue \/ WaitReturn
             \/ ShutdownJoin \/ \E j \in Jobs \ taken : SubmitReset(j)
             \/ \E w \in Workers : WorkerTake(w) \/ WorkerPublish(w)
  BY <1>7, Zenon DEF PoolNext, CallerChoice, CallerProgress, WorkerStep, WorkerProgress, Finished,
     PoolStart, SubmitOverflow, WaitCall, WaitBlock, ShutdownSignal, SpuriousCaller, CallerDies,
     WorkerSleep, WorkerExit, WorkerRead, WorkerReadFails, SpuriousWorker,
     poolVars, ring, workerVars, jobVars, callerVars
<1>8. QED
  BY <1>1, <1>2, <1>3, <1>4, <1>5, <1>6, <1>7

\* A pool that was never started shows an empty service.
LEMMA ServiceInit == PoolInit => Service!SvcInit /\ DownEmpty
<1> SUFFICES ASSUME PoolInit PROVE Service!SvcInit /\ DownEmpty
  OBVIOUS
<1>1. Queued = <<>>
  BY DEF PoolInit, Queued
<1>2. Running = {} /\ taken = {} /\ alive = TRUE /\ mpc = "out"
  BY DEF PoolInit, Running
<1>3. QED
  BY <1>1, <1>2 DEF Service!SvcInit, DownEmpty

\* The pool is a ReadService for any number of workers: jobs start in the order
\* of their submission, at most one per worker is being read, and a job is given
\* back only after its bytes are in place.
THEOREM PoolImplementsService == PoolSpec => ImplementsService
<1>1. PoolIInv => PoolTypeOK
  BY DEF PoolIInv
<1>2. QED
  BY <1>1, ServiceInit, PoolInvariant, DownEmptyPreserved, ServiceStep, PTL
     DEF PoolSpec, ImplementsService, Service!SvcSpec

-----------------------------------------------------------------------------
(* The intrusive list as an order on the slots.                            *)

\* The list l runs through the slots ord[1], ord[2], ... from head to tail, and
\* meets every slot once.
Ordered(l, ord) ==
  /\ ord \in [1..NSlots -> Slots]
  /\ \A s \in Slots : \E k \in 1..NSlots : ord[k] = s
  /\ \A i, k \in 1..NSlots : ord[i] = ord[k] => i = k
  /\ l.head = ord[1] /\ l.tail = ord[NSlots]
  /\ l.next \in [Slots -> Slots \cup {Nil}]
  /\ l.prev \in [Slots -> Slots \cup {Nil}]
  /\ \A k \in 1..NSlots : l.next[ord[k]] = IF k = NSlots THEN Nil ELSE ord[k + 1]
  /\ \A k \in 1..NSlots : l.prev[ord[k]] = IF k = 1 THEN Nil ELSE ord[k - 1]

ListInv == \E ord : Ordered(lru, ord)

\* The order after the slot at place m has moved to the front.
MovedUp(ord, m) ==
  [k \in 1..NSlots |-> IF k = 1 THEN ord[m] ELSE IF k <= m THEN ord[k - 1] ELSE ord[k]]

\* There is a slot, and none of them is Nil.
LEMMA SlotFacts ==
  /\ NSlots \in Nat /\ NSlots >= 1 /\ 1 \in 1..NSlots /\ NSlots \in 1..NSlots
  /\ Slots \subseteq Nat /\ Nil \notin Slots /\ Slots # {}
  /\ \A s \in Slots : s >= 0 /\ ~(s < 0)
  /\ ~(Nil >= 0) /\ Nil < 0
BY CacheAssumption, StoreHoldsTopK DEF Slots, Nil

\* Unlinking the slot at place m joins its two neighbours.
LEMMA UnlinkLemma ==
  ASSUME NEW l, NEW ord, Ordered(l, ord), NEW m \in 1..NSlots
  PROVE  LET u == Unlink(l, ord[m]) IN
         /\ u.head = IF m > 1 THEN ord[1] ELSE IF NSlots = 1 THEN Nil ELSE ord[2]
         /\ u.tail = IF m < NSlots THEN ord[NSlots] ELSE IF m = 1 THEN Nil ELSE ord[m - 1]
         /\ u.next \in [Slots -> Slots \cup {Nil}]
         /\ u.prev \in [Slots -> Slots \cup {Nil}]
         /\ \A k \in 1..NSlots : u.next[ord[k]] =
              IF k = m THEN Nil ELSE IF k = m - 1 THEN l.next[ord[m]] ELSE l.next[ord[k]]
         /\ \A k \in 1..NSlots : u.prev[ord[k]] =
              IF k = m THEN Nil ELSE IF k = m + 1 THEN l.prev[ord[m]] ELSE l.prev[ord[k]]
<1> DEFINE s == ord[m]
           p == l.prev[s]
           n == l.next[s]
           nexts == IF p >= 0 THEN [l.next EXCEPT ![p] = n] ELSE l.next
           prevs == IF n >= 0 THEN [l.prev EXCEPT ![n] = p] ELSE l.prev
           u == Unlink(l, ord[m])
<1> USE SlotFacts
<1>1. /\ s \in Slots
      /\ p = IF m = 1 THEN Nil ELSE ord[m - 1]
      /\ n = IF m = NSlots THEN Nil ELSE ord[m + 1]
  BY DEF Ordered
<1>2. /\ m > 1 => p \in Slots /\ p = ord[m - 1] /\ p >= 0
      /\ m = 1 => p = Nil /\ ~(p >= 0)
      /\ m < NSlots => n \in Slots /\ n = ord[m + 1] /\ n >= 0
      /\ m = NSlots => n = Nil /\ ~(n >= 0)
  <2>1. m > 1 => m - 1 \in 1..NSlots
    OBVIOUS
  <2>2. m < NSlots => m + 1 \in 1..NSlots
    OBVIOUS
  <2>3. /\ m > 1 => ord[m - 1] \in Slots
        /\ m < NSlots => ord[m + 1] \in Slots
    BY <2>1, <2>2 DEF Ordered
  <2> HIDE DEF p, n
  <2>4. m > 1 => p = ord[m - 1]
    BY <1>1
  <2>5. m < NSlots => n = ord[m + 1]
    BY <1>1
  <2>6. QED
    BY <1>1, <2>3, <2>4, <2>5
<1>3. /\ u.head = IF p >= 0 THEN l.head ELSE n
      /\ u.tail = IF n >= 0 THEN l.tail ELSE p
      /\ u.next = [nexts EXCEPT ![s] = Nil]
      /\ u.prev = [prevs EXCEPT ![s] = Nil]
  BY DEF Unlink
<1>4. /\ nexts \in [Slots -> Slots \cup {Nil}]
      /\ prevs \in [Slots -> Slots \cup {Nil}]
  <2>1. /\ l.next \in [Slots -> Slots \cup {Nil}]
        /\ l.prev \in [Slots -> Slots \cup {Nil}]
        /\ p \in Slots \cup {Nil} /\ n \in Slots \cup {Nil}
    BY <1>1, <1>2 DEF Ordered
  <2> HIDE DEF p, n
  <2>2. QED
    BY <2>1
<1> HIDE DEF u
<1>5. ASSUME NEW k \in 1..NSlots
      PROVE  /\ nexts[ord[k]] = IF k = m - 1 THEN n ELSE l.next[ord[k]]
             /\ prevs[ord[k]] = IF k = m + 1 THEN p ELSE l.prev[ord[k]]
  <2>1. /\ l.next \in [Slots -> Slots \cup {Nil}]
        /\ l.prev \in [Slots -> Slots \cup {Nil}]
        /\ ord[k] \in Slots
    BY DEF Ordered
  <2>2. m > 1 => (ord[k] = ord[m - 1] <=> k = m - 1)
    BY DEF Ordered
  <2>3. m < NSlots => (ord[k] = ord[m + 1] <=> k = m + 1)
    BY DEF Ordered
  <2>4. nexts[ord[k]] = IF k = m - 1 THEN n ELSE l.next[ord[k]]
    <3> HIDE DEF n
    <3>1. CASE m = 1
      <4>1. nexts = l.next
        BY <1>2, <3>1
      <4>2. k # m - 1
        BY <3>1
      <4>3. QED
        BY <4>1, <4>2
    <3>2. CASE m > 1
      <4>1. nexts = [l.next EXCEPT ![ord[m - 1]] = n]
        BY <1>2, <3>2
      <4> HIDE DEF nexts
      <4>2. QED
        BY <2>1, <2>2, <3>2, <4>1
    <3>3. QED
      BY <3>1, <3>2
  <2>5. prevs[ord[k]] = IF k = m + 1 THEN p ELSE l.prev[ord[k]]
    <3> HIDE DEF p
    <3>1. CASE m = NSlots
      <4>1. prevs = l.prev
        BY <1>2, <3>1
      <4>2. k # m + 1
        BY <3>1
      <4>3. QED
        BY <4>1, <4>2
    <3>2. CASE m < NSlots
      <4>1. prevs = [l.prev EXCEPT ![ord[m + 1]] = p]
        BY <1>2, <3>2
      <4> HIDE DEF prevs
      <4>2. QED
        BY <2>1, <2>3, <3>2, <4>1
    <3>3. QED
      BY <3>1, <3>2
  <2>6. QED
    BY <2>4, <2>5
<1> HIDE DEF nexts, prevs
<1>6. ASSUME NEW k \in 1..NSlots
      PROVE  /\ u.next[ord[k]] = IF k = m THEN Nil ELSE nexts[ord[k]]
             /\ u.prev[ord[k]] = IF k = m THEN Nil ELSE prevs[ord[k]]
  <2>1. ord[k] \in Slots /\ (ord[k] = s <=> k = m)
    BY DEF Ordered
  <2> HIDE DEF s
  <2>2. QED
    BY <1>3, <1>4, <2>1
<1>7. /\ u.head = IF m > 1 THEN ord[1] ELSE IF NSlots = 1 THEN Nil ELSE ord[2]
      /\ u.tail = IF m < NSlots THEN ord[NSlots] ELSE IF m = 1 THEN Nil ELSE ord[m - 1]
  <2>1. l.head = ord[1] /\ l.tail = ord[NSlots]
    BY DEF Ordered
  <2> HIDE DEF p, n
  <2>2. QED
    BY <1>1, <1>2, <1>3, <2>1
<1>8. /\ u.next \in [Slots -> Slots \cup {Nil}]
      /\ u.prev \in [Slots -> Slots \cup {Nil}]
  <2> HIDE DEF s
  <2>1. QED
    BY <1>3, <1>4
<1>9. QED
  BY <1>5, <1>6, <1>7, <1>8 DEF u

\* Pushing the unlinked slot at the head moves it to the front of the order.
LEMMA MoveLemma ==
  ASSUME NEW l, NEW ord, Ordered(l, ord), NEW m \in 1..NSlots
  PROVE  Ordered(MoveToHead(l, ord[m]), MovedUp(ord, m))
<1> DEFINE s == ord[m]
           u == Unlink(l, ord[m])
           h == u.head
           cleared == [u.prev EXCEPT ![s] = Nil]
           v == MoveToHead(l, ord[m])
           new == MovedUp(ord, m)
<1> USE SlotFacts
<1>1. /\ u.head = IF m > 1 THEN ord[1] ELSE IF NSlots = 1 THEN Nil ELSE ord[2]
      /\ u.tail = IF m < NSlots THEN ord[NSlots] ELSE IF m = 1 THEN Nil ELSE ord[m - 1]
      /\ u.next \in [Slots -> Slots \cup {Nil}]
      /\ u.prev \in [Slots -> Slots \cup {Nil}]
      /\ \A k \in 1..NSlots : u.next[ord[k]] =
           IF k = m THEN Nil ELSE IF k = m - 1 THEN l.next[ord[m]] ELSE l.next[ord[k]]
      /\ \A k \in 1..NSlots : u.prev[ord[k]] =
           IF k = m THEN Nil ELSE IF k = m + 1 THEN l.prev[ord[m]] ELSE l.prev[ord[k]]
  BY UnlinkLemma
<1>2. /\ v.head = s
      /\ v.tail = IF u.tail < 0 THEN s ELSE u.tail
      /\ v.next = [u.next EXCEPT ![s] = h]
      /\ v.prev = IF h >= 0 THEN [cleared EXCEPT ![h] = s] ELSE cleared
  BY DEF MoveToHead, PushHead
<1> HIDE DEF u, v
<1>3. /\ ord \in [1..NSlots -> Slots] /\ s \in Slots
      /\ \A i, k \in 1..NSlots : ord[i] = ord[k] => i = k
  BY DEF Ordered
<1>4. /\ new \in [1..NSlots -> Slots]
      /\ new[1] = s
      /\ \A k \in 2..m : new[k] = ord[k - 1]
      /\ \A k \in m + 1..NSlots : new[k] = ord[k]
  BY <1>3 DEF MovedUp
<1>5. \A t \in Slots : \E k \in 1..NSlots : new[k] = t
  <2> TAKE t \in Slots
  <2>1. PICK i \in 1..NSlots : ord[i] = t
    BY DEF Ordered
  <2>2. CASE i = m
    BY <1>4, <2>1, <2>2
  <2>3. CASE i < m
    <3>1. i + 1 \in 2..m /\ i + 1 \in 1..NSlots /\ (i + 1) - 1 = i
      BY <2>3
    <3>2. new[i + 1] = t
      BY <1>4, <2>1, <3>1
    <3>3. QED
      BY <3>1, <3>2
  <2>4. CASE i > m
    BY <1>4, <2>1, <2>4
  <2>5. QED
    BY <2>2, <2>3, <2>4
<1>6. \A i, k \in 1..NSlots : new[i] = new[k] => i = k
  <2> DEFINE from(k) == IF k = 1 THEN m ELSE IF k <= m THEN k - 1 ELSE k
  <2>1. \A k \in 1..NSlots : from(k) \in 1..NSlots /\ new[k] = ord[from(k)]
    BY DEF MovedUp
  <2>2. \A i, k \in 1..NSlots : from(i) = from(k) => i = k
    OBVIOUS
  <2> HIDE DEF from, new
  <2>3. QED
    BY <1>3, <2>1, <2>2
<1>nonneg. \A t \in Slots : t >= 0 /\ ~(t < 0)
  BY SlotFacts
<1>7. /\ h = IF NSlots = 1 THEN Nil ELSE new[2]
      /\ NSlots > 1 => h \in Slots /\ h # s
      /\ IF NSlots = 1 THEN ~(h >= 0) ELSE h >= 0
  <2>1. CASE m > 1
    <3>1. 2 \in 2..m /\ new[2] = ord[1] /\ NSlots # 1 /\ h = ord[1]
      BY <1>1, <1>4, <2>1
    <3>2. ord[1] \in Slots /\ ord[1] # s
      BY <1>3, <2>1
    <3> HIDE DEF h, new, s
    <3>3. h >= 0
      BY <1>nonneg, <3>1, <3>2
    <3>4. QED
      BY <3>1, <3>2, <3>3
  <2>2. CASE m = 1
    <3>1. CASE NSlots = 1
      BY <1>1, <2>2, <3>1
    <3>2. CASE NSlots > 1
      <4>1. 2 \in m + 1..NSlots /\ 2 \in 1..NSlots /\ new[2] = ord[2] /\ h = ord[2]
        BY <1>1, <1>4, <2>2, <3>2
      <4>2. ord[2] \in Slots /\ ord[2] # s
        BY <1>3, <2>2, <3>2, <4>1
      <4> HIDE DEF h, new, s
      <4>3. h >= 0
        BY <1>nonneg, <4>1, <4>2
      <4>4. QED
        BY <3>2, <4>1, <4>2, <4>3
    <3>3. QED
      BY <2>2, <3>1, <3>2
  <2>3. QED
    BY <2>1, <2>2
<1>8. v.head = new[1] /\ v.tail = new[NSlots]
  <2>1. CASE m < NSlots
    <3>1. NSlots \in m + 1..NSlots /\ new[NSlots] = ord[NSlots] /\ ord[NSlots] \in Slots
      BY <1>3, <1>4, <2>1
    <3>2. u.tail = ord[NSlots] /\ ~(u.tail < 0)
      BY <1>1, <2>1, <3>1
    <3>3. QED
      BY <1>2, <1>4, <3>1, <3>2
  <2>2. CASE m = NSlots /\ m = 1
    BY <1>1, <1>2, <1>4, <2>2
  <2>3. CASE m = NSlots /\ m > 1
    <3>1. m - 1 \in 1..NSlots /\ ord[m - 1] \in Slots /\ new[NSlots] = ord[m - 1]
      BY <1>3, <1>4, <2>3
    <3>2. u.tail = ord[m - 1] /\ ~(u.tail < 0)
      <4>1. ~(m < NSlots) /\ m # 1
        BY <2>3
      <4>2. u.tail = ord[m - 1]
        BY <1>1, <4>1
      <4>3. QED
        BY <1>nonneg, <3>1, <4>2
    <3>3. QED
      BY <1>2, <1>4, <3>1, <3>2
  <2>4. QED
    BY <2>1, <2>2, <2>3
<1>9. /\ v.next \in [Slots -> Slots \cup {Nil}]
      /\ v.prev \in [Slots -> Slots \cup {Nil}]
  <2>1. h \in Slots \cup {Nil}
    BY <1>7
  <2> HIDE DEF h, s, new
  <2>2. cleared \in [Slots -> Slots \cup {Nil}]
    BY <1>1
  <2> HIDE DEF cleared
  <2>3. QED
    BY <1>1, <1>2, <1>3, <2>1, <2>2
<1>10. ASSUME NEW k \in 1..NSlots
       PROVE  /\ v.next[new[k]] = IF k = NSlots THEN Nil ELSE new[k + 1]
              /\ v.prev[new[k]] = IF k = 1 THEN Nil ELSE new[k - 1]
  <2>1. /\ \A t \in Slots : v.next[t] = IF t = s THEN h ELSE u.next[t]
        /\ \A t \in Slots : v.prev[t] = IF h >= 0 /\ t = h THEN s ELSE IF t = s THEN Nil ELSE u.prev[t]
    <3> HIDE DEF h, s, new
    <3>1. \A t \in Slots : v.next[t] = IF t = s THEN h ELSE u.next[t]
      BY <1>1, <1>2
    <3>2. /\ cleared \in [Slots -> Slots \cup {Nil}]
          /\ \A t \in Slots : cleared[t] = IF t = s THEN Nil ELSE u.prev[t]
      BY <1>1
    <3> HIDE DEF cleared
    <3>3. QED
      BY <1>2, <3>1, <3>2
  <2>2. /\ \A i \in 1..NSlots : l.next[ord[i]] = IF i = NSlots THEN Nil ELSE ord[i + 1]
        /\ \A i \in 1..NSlots : l.prev[ord[i]] = IF i = 1 THEN Nil ELSE ord[i - 1]
    BY DEF Ordered
  <2> HIDE DEF h, new
  <2>3. CASE k = 1
    <3>1. v.next[s] = h
      BY <1>3, <2>1
    <3>2. v.prev[s] = Nil
      <4>1. ~(h >= 0 /\ s = h)
        BY <1>7
      <4> HIDE DEF s
      <4>2. QED
        BY <1>3, <2>1, <4>1
    <3>3. QED
      BY <1>4, <1>7, <2>3, <3>1, <3>2
  <2>4. CASE k > 1 /\ k <= m
    <3>1. /\ k - 1 \in 1..NSlots /\ new[k] = ord[k - 1] /\ ord[k - 1] \in Slots
          /\ ord[k - 1] # s /\ k - 1 # m /\ k \in 2..m
      BY <1>3, <1>4, <2>4
    <3>2. v.next[new[k]] = u.next[ord[k - 1]]
      BY <2>1, <3>1
    <3>3. u.next[ord[k - 1]] = IF k = m THEN l.next[ord[m]] ELSE l.next[ord[k - 1]]
      BY <1>1, <3>1
    <3>4. v.next[new[k]] = IF k = NSlots THEN Nil ELSE new[k + 1]
      <4>1. CASE k = m
        <5>1. k < NSlots => new[k + 1] = ord[m + 1]
          BY <1>4, <4>1
        <5>2. QED
          BY <2>2, <3>2, <3>3, <4>1, <5>1
      <4>2. CASE k < m
        <5>1. k + 1 \in 2..m /\ (k + 1) - 1 = k /\ (k - 1) + 1 = k /\ k # NSlots /\ k - 1 # NSlots
          BY <2>4, <4>2
        <5>2. new[k + 1] = ord[k]
          BY <1>4, <5>1
        <5>3. l.next[ord[k - 1]] = ord[k]
          BY <2>2, <3>1, <5>1
        <5>4. QED
          BY <3>2, <3>3, <4>2, <5>1, <5>2, <5>3
      <4>3. QED
        BY <2>4, <4>1, <4>2
    <3>5. v.prev[new[k]] = new[k - 1]
      <4>1. CASE k = 2
        <5>1. NSlots # 1 /\ NSlots > 1
          BY <2>4, <4>1
        <5>2. new[2] = h /\ h >= 0 /\ h \in Slots
          BY <1>7, <5>1
        <5>3. QED
          BY <1>4, <2>1, <4>1, <5>2
      <4>2. CASE k > 2
        <5>1. k - 1 \in 2..m /\ k - 2 \in 1..NSlots /\ (k - 1) - 1 = k - 2 /\ k - 1 # 1
              /\ k - 1 # m + 1 /\ 2 \in 2..m /\ 2 - 1 = 1
          BY <2>4, <4>2
        <5>2. new[k - 1] = ord[k - 2] /\ new[2] = ord[1]
          BY <1>4, <5>1
        <5>3. ord[k - 1] # h
          BY <1>3, <1>7, <3>1, <5>1, <5>2
        <5>4. v.prev[new[k]] = u.prev[ord[k - 1]]
          BY <2>1, <3>1, <5>3
        <5>5. u.prev[ord[k - 1]] = l.prev[ord[k - 1]]
          BY <1>1, <3>1, <5>1
        <5>6. l.prev[ord[k - 1]] = ord[k - 2]
          BY <2>2, <3>1, <5>1
        <5>7. QED
          BY <5>2, <5>4, <5>5, <5>6
      <4>3. QED
        BY <2>4, <4>1, <4>2
    <3>6. QED
      BY <2>4, <3>4, <3>5
  <2>5. CASE k > m
    <3>1. /\ k \in m + 1..NSlots /\ new[k] = ord[k] /\ ord[k] \in Slots /\ ord[k] # s
          /\ k # m /\ k # m - 1 /\ k # 1
      BY <1>3, <1>4, <2>5
    <3>2. v.next[new[k]] = l.next[ord[k]]
      BY <1>1, <2>1, <3>1
    <3>3. k < NSlots => k + 1 \in m + 1..NSlots /\ new[k + 1] = ord[k + 1]
      BY <1>4, <3>1
    <3>4. v.next[new[k]] = IF k = NSlots THEN Nil ELSE new[k + 1]
      BY <2>2, <3>2, <3>3
    <3>5. v.prev[new[k]] = new[k - 1]
      <4>1. CASE k = 2
        <5>1. NSlots # 1 /\ NSlots > 1
          BY <2>5, <4>1
        <5>2. new[2] = h /\ h >= 0 /\ h \in Slots
          BY <1>7, <5>1
        <5>3. QED
          BY <1>4, <2>1, <4>1, <5>2
      <4>2. CASE k > 2
        <5>1. 2 \in 1..NSlots /\ NSlots # 1
          BY <4>2
        <5>2. new[k] # h
          BY <1>6, <1>7, <4>2, <5>1
        <5>3. v.prev[new[k]] = u.prev[ord[k]]
          BY <2>1, <3>1, <5>2
        <5>4. u.prev[ord[k]] = IF k = m + 1 THEN l.prev[ord[m]] ELSE l.prev[ord[k]]
          BY <1>1, <3>1
        <5>5. CASE k = m + 1
          <6>1. m = k - 1 /\ m > 1 /\ m \in 2..m
            BY <4>2, <5>5
          <6>2. new[k - 1] = ord[m - 1] /\ l.prev[ord[m]] = ord[m - 1]
            BY <1>4, <2>2, <6>1
          <6>3. QED
            BY <5>3, <5>4, <5>5, <6>2
        <5>6. CASE k > m + 1
          <6>1. k - 1 \in m + 1..NSlots
            BY <5>6
          <6>2. new[k - 1] = ord[k - 1] /\ l.prev[ord[k]] = ord[k - 1]
            BY <1>4, <2>2, <3>1, <6>1
          <6>3. QED
            BY <5>3, <5>4, <5>6, <6>2
        <5>7. QED
          BY <2>5, <5>5, <5>6
      <4>3. QED
        BY <2>5, <4>1, <4>2
    <3>6. QED
      BY <3>1, <3>4, <3>5
  <2>6. QED
    BY <2>3, <2>4, <2>5
<1>11. QED
  <2> HIDE DEF new
  <2>1. Ordered(v, new)
    BY <1>4, <1>5, <1>6, <1>8, <1>9, <1>10 DEF Ordered
  <2>2. QED
    BY <2>1 DEF v, new

\* Walking lru_next from lru_head meets the slots in the list's order.
LEMMA ForwardLemma ==
  ASSUME NEW ord, Ordered(lru, ord)
  PROVE  \A k \in 1..NSlots : Forward[k] = ord[k]
<1> USE SlotFacts
<1>1. /\ ord \in [1..NSlots -> Slots] /\ lru.head = ord[1]
      /\ \A k \in 1..NSlots : lru.next[ord[k]] = IF k = NSlots THEN Nil ELSE ord[k + 1]
  BY DEF Ordered
<1> DEFINE step(f) == [k \in 1..NSlots |-> IF k = 1 THEN lru.head ELSE lru.next[f[k - 1]]]
<1>2. ord = step(ord)
  <2>1. \A k \in 1..NSlots : ord[k] = IF k = 1 THEN lru.head ELSE lru.next[ord[k - 1]]
    <3> TAKE k \in 1..NSlots
    <3>1. k # 1 => k - 1 \in 1..NSlots /\ k - 1 # NSlots /\ (k - 1) + 1 = k
      OBVIOUS
    <3>2. QED
      BY <1>1, <3>1
  <2>2. QED
    BY <1>1, <2>1
<1>3. Forward = step(Forward)
  <2>1. \E f : f = step(f)
    BY <1>2
  <2>2. QED
    BY <2>1, Zenon DEF Forward
<1>4. \A k \in 1..NSlots : Forward[k] = IF k = 1 THEN lru.head ELSE lru.next[Forward[k - 1]]
  <2> HIDE DEF Forward
  <2>1. QED
    BY <1>3
<1> DEFINE S == {k \in 1..NSlots : Forward[k] = ord[k]}
<1> HIDE DEF Forward
<1>5. 1 \in S
  BY <1>1, <1>4
<1>6. \A k \in 1..NSlots - 1 : k \in S => k + 1 \in S
  BY <1>1, <1>4
<1>7. 1..NSlots \subseteq S
  <2> HIDE DEF S
  <2>1. QED
    BY <1>5, <1>6, IntervalInduction
<1>8. QED
  BY <1>7

\* Walking lru_prev from lru_tail meets them in reverse, then nothing.
LEMMA BackLemma ==
  ASSUME NEW ord, Ordered(lru, ord)
  PROVE  /\ \A k \in 0..NSlots - 1 : Back[k] = ord[NSlots - k]
         /\ Back[NSlots] = Nil
<1> USE SlotFacts
<1>1. /\ ord \in [1..NSlots -> Slots] /\ lru.tail = ord[NSlots]
      /\ \A k \in 1..NSlots : lru.prev[ord[k]] = IF k = 1 THEN Nil ELSE ord[k - 1]
  BY DEF Ordered
<1> DEFINE step(f) == [k \in 0..NSlots |->
                         IF k = 0 THEN lru.tail
                         ELSE IF f[k - 1] = Nil THEN Nil ELSE lru.prev[f[k - 1]]]
           walk == [k \in 0..NSlots |-> IF k = NSlots THEN Nil ELSE ord[NSlots - k]]
<1>2. walk = step(walk)
  <2>1. ASSUME NEW k \in 0..NSlots
        PROVE  walk[k] = IF k = 0 THEN lru.tail
                         ELSE IF walk[k - 1] = Nil THEN Nil ELSE lru.prev[walk[k - 1]]
    <3>1. CASE k = 0
      BY <1>1, <3>1
    <3>2. CASE k > 0
      <4>1. /\ k - 1 \in 0..NSlots - 1 /\ NSlots - (k - 1) \in 1..NSlots
            /\ (NSlots - (k - 1)) - 1 = NSlots - k
            /\ NSlots - (k - 1) = 1 <=> k = NSlots
        BY <3>2
      <4>2. walk[k - 1] = ord[NSlots - (k - 1)] /\ walk[k - 1] \in Slots
        BY <1>1, <4>1
      <4>3. lru.prev[walk[k - 1]] = IF k = NSlots THEN Nil ELSE ord[NSlots - k]
        BY <1>1, <4>1, <4>2
      <4>4. walk[k] = IF k = NSlots THEN Nil ELSE ord[NSlots - k]
        OBVIOUS
      <4> HIDE DEF walk
      <4>5. QED
        BY <3>2, <4>2, <4>3, <4>4
    <3>3. QED
      BY <3>1, <3>2
  <2>2. walk = [k \in 0..NSlots |-> walk[k]]
    OBVIOUS
  <2> HIDE DEF walk
  <2>3. QED
    BY <2>1, <2>2
<1>3. Back = step(Back)
  <2>1. \E f : f = step(f)
    BY <1>2
  <2>2. QED
    BY <2>1, Zenon DEF Back
<1>4. \A k \in 0..NSlots : Back[k] = IF k = 0 THEN lru.tail
                         ELSE IF Back[k - 1] = Nil THEN Nil ELSE lru.prev[Back[k - 1]]
  <2> HIDE DEF Back
  <2>1. QED
    BY <1>3
<1>5. \A k \in 0..NSlots : walk[k] = IF k = 0 THEN lru.tail
                         ELSE IF walk[k - 1] = Nil THEN Nil ELSE lru.prev[walk[k - 1]]
  <2> HIDE DEF walk
  <2>1. QED
    BY <1>2
<1>6. \A k \in 0..NSlots : walk[k] = IF k = NSlots THEN Nil ELSE ord[NSlots - k]
  OBVIOUS
<1> DEFINE S == {k \in 0..NSlots : Back[k] = walk[k]}
<1> HIDE DEF Back, walk
<1>7. 0 \in S
  BY <1>4, <1>5
<1>8. \A k \in 0..NSlots - 1 : k \in S => k + 1 \in S
  <2> SUFFICES ASSUME NEW k \in 0..NSlots - 1, k \in S PROVE Back[k + 1] = walk[k + 1]
    OBVIOUS
  <2>1. k + 1 \in 0..NSlots /\ k + 1 # 0 /\ (k + 1) - 1 = k
    OBVIOUS
  <2>2. QED
    BY <1>4, <1>5, <2>1
<1>9. 0..NSlots \subseteq S
  <2> HIDE DEF S
  <2>1. QED
    BY <1>7, <1>8, IntervalInduction
<1>10. QED
  BY <1>6, <1>9

\* A list that is an order on the slots is well formed.
LEMMA ListIsWellFormed == ListInv => ListWellFormed
<1> SUFFICES ASSUME NEW ord, Ordered(lru, ord) PROVE ListWellFormed
  BY DEF ListInv
<1> USE SlotFacts
<1>1. \A k \in 1..NSlots : Forward[k] = ord[k]
  BY ForwardLemma
<1> HIDE DEF Forward
<1>2. \A s \in Slots : \E k \in 1..NSlots : Forward[k] = s
  BY <1>1 DEF Ordered
<1>3. lru.prev[lru.head] = Nil /\ lru.next[lru.tail] = Nil
  BY DEF Ordered
<1>4. \A k \in 2..NSlots : lru.prev[Forward[k]] = Forward[k - 1]
  <2> TAKE k \in 2..NSlots
  <2>1. k \in 1..NSlots /\ k - 1 \in 1..NSlots /\ k # 1
    OBVIOUS
  <2>2. QED
    BY <1>1, <2>1 DEF Ordered
<1>5. Forward[NSlots] = lru.tail
  BY <1>1 DEF Ordered
<1>6. QED
  BY <1>2, <1>3, <1>4, <1>5 DEF ListWellFormed

\* When some slot may be reused, the walk from the tail finds such a slot.
LEMMA VictimLemma ==
  ASSUME ListInv, \E s \in Slots : Evictable(s)
  PROVE  EvictOrGetFree \in Slots /\ Evictable(EvictOrGetFree)
<1> USE SlotFacts
<1>1. PICK ord : Ordered(lru, ord)
  BY DEF ListInv
<1>2. /\ ord \in [1..NSlots -> Slots]
      /\ \A s \in Slots : \E k \in 1..NSlots : ord[k] = s
  BY <1>1 DEF Ordered
<1>3. \A k \in 0..NSlots - 1 : Back[k] = ord[NSlots - k]
  BY <1>1, BackLemma
<1> HIDE DEF Back
<1> DEFINE found == {k \in 0..NSlots - 1 : Back[k] # Nil /\ Evictable(Back[k])}
<1>4. found # {}
  <2>1. PICK s \in Slots : Evictable(s)
    OBVIOUS
  <2>2. PICK k \in 1..NSlots : ord[k] = s
    BY <1>2
  <2>3. NSlots - k \in 0..NSlots - 1 /\ NSlots - (NSlots - k) = k
    OBVIOUS
  <2>4. Back[NSlots - k] = s /\ s # Nil
    BY <1>3, <2>2, <2>3
  <2>5. QED
    BY <2>1, <2>3, <2>4
<1>5. \E k \in found : \A i \in found : k <= i
  <2>1. found \in SUBSET Nat
    OBVIOUS
  <2> HIDE DEF found
  <2>2. QED
    BY <1>4, <2>1, LeastNatural
<1> DEFINE best == CHOOSE k \in found : \A i \in found : k <= i
<1>6. best \in found
  <2> HIDE DEF found
  <2>1. QED
    BY <1>5
<1>7. EvictOrGetFree = Back[best]
  <2>1. found = {} => FALSE
    BY <1>4
  <2>2. QED
    BY <2>1, Zenon DEF EvictOrGetFree
<1> HIDE DEF best
<1>8. NSlots - best \in 1..NSlots
  BY <1>6
<1>9. QED
  BY <1>2, <1>3, <1>6, <1>7, <1>8

\* Moving any slot to the head leaves a list that is an order on the slots.
LEMMA MoveKeepsList ==
  ASSUME ListInv, NEW s \in Slots, lru' = MoveToHead(lru, s)
  PROVE  ListInv'
<1>1. PICK ord : Ordered(lru, ord)
  BY DEF ListInv
<1>2. PICK m \in 1..NSlots : ord[m] = s
  BY <1>1 DEF Ordered
<1>3. Ordered(MoveToHead(lru, s), MovedUp(ord, m))
  BY <1>1, <1>2, MoveLemma
<1>4. Ordered(lru', MovedUp(ord, m))
  BY <1>3
<1>5. QED
  BY <1>4 DEF ListInv, Ordered

\* A step that leaves the links alone keeps the order.
LEMMA ListFrame ==
  ASSUME ListInv, lru' = lru
  PROVE  ListInv'
<1>1. PICK ord : Ordered(lru, ord)
  BY DEF ListInv
<1>2. Ordered(lru', ord)
  BY <1>1
<1>3. QED
  BY <1>2 DEF ListInv, Ordered

\* A list runs through the slots in one order only.
LEMMA OneOrder ==
  ASSUME NEW l, NEW a, NEW b, Ordered(l, a), Ordered(l, b)
  PROVE  a = b
<1> USE SlotFacts
<1>1. /\ a \in [1..NSlots -> Slots] /\ b \in [1..NSlots -> Slots] /\ a[1] = b[1]
      /\ \A k \in 1..NSlots : l.next[a[k]] = IF k = NSlots THEN Nil ELSE a[k + 1]
      /\ \A k \in 1..NSlots : l.next[b[k]] = IF k = NSlots THEN Nil ELSE b[k + 1]
  BY DEF Ordered
<1> DEFINE S == {k \in 1..NSlots : a[k] = b[k]}
<1>2. 1 \in S
  BY <1>1
<1>3. \A k \in 1..NSlots - 1 : k \in S => k + 1 \in S
  BY <1>1
<1>4. 1..NSlots \subseteq S
  <2> HIDE DEF S
  <2>1. QED
    BY <1>2, <1>3, IntervalInduction
<1>5. QED
  BY <1>1, <1>4

\* The order is the one that Forward walks.
ForwardOrdered == Ordered(lru, Forward)

\* So the walk is an order.
LEMMA ForwardIsOrder == ListInv => ForwardOrdered
<1> SUFFICES ASSUME NEW ord, Ordered(lru, ord) PROVE Ordered(lru, Forward)
  BY DEF ListInv, ForwardOrdered
<1>1. \A k \in 1..NSlots : Forward[k] = ord[k]
  BY ForwardLemma
<1>2. Forward = ord
  <2>1. Forward = [k \in 1..NSlots |-> Forward[k]]
    <3> DEFINE step(f) == [k \in 1..NSlots |-> IF k = 1 THEN lru.head ELSE lru.next[f[k - 1]]]
    <3>1. ord = step(ord)
      <4>1. \A k \in 1..NSlots : ord[k] = IF k = 1 THEN lru.head ELSE lru.next[ord[k - 1]]
        <5> TAKE k \in 1..NSlots
        <5>1. k # 1 => k - 1 \in 1..NSlots /\ k - 1 # NSlots /\ (k - 1) + 1 = k
          BY SlotFacts
        <5>2. QED
          BY <5>1, SlotFacts DEF Ordered
      <4>2. QED
        BY <4>1, SlotFacts DEF Ordered
    <3>2. Forward = step(Forward)
      <4>1. \E f : f = step(f)
        BY <3>1
      <4>2. QED
        BY <4>1, Zenon DEF Forward
    <3> HIDE DEF Forward
    <3>3. QED
      BY <3>2
  <2>2. ord = [k \in 1..NSlots |-> ord[k]]
    BY DEF Ordered
  <2> HIDE DEF Forward
  <2>3. QED
    BY <1>1, <2>1, <2>2
<1>3. QED
  BY <1>2, Zenon

\* A lookup of the slot at place m moves it to the front of the walk.
LEMMA MoveForward ==
  ASSUME ListInv, NEW m \in 1..NSlots, lru' = MoveToHead(lru, Forward[m])
  PROVE  Forward' = MovedUp(Forward, m)
<1> DEFINE new == MovedUp(Forward, m)
<1>1. Ordered(lru, Forward)
  BY ForwardIsOrder, Zenon DEF ForwardOrdered
<1>2. Ordered(lru', new)
  <2>1. Ordered(MoveToHead(lru, Forward[m]), MovedUp(Forward, m))
    BY <1>1, MoveLemma
  <2>2. QED
    BY <2>1, Zenon
<1>3. Ordered(lru', Forward')
  <2>1. Forward[m] \in Slots
    BY <1>1 DEF Ordered
  <2>2. ListInv'
    BY <2>1, MoveKeepsList
  <2>3. ForwardOrdered'
    BY <2>2, ForwardIsOrder, PTL
  <2>4. QED
    BY <2>3, Zenon DEF ForwardOrdered, Ordered
<1> HIDE DEF new
<1>4. new = Forward'
  BY <1>2, <1>3, OneOrder, Zenon
<1>5. QED
  BY <1>4 DEF new

\* Without a lookup the walk stays.
LEMMA ForwardFrame ==
  ASSUME lru' = lru
  PROVE  Forward' = Forward
BY DEF Forward

-----------------------------------------------------------------------------
(* The inductive invariant.                                                *)

\* What StoreInv and ResolvedStayResident say, with the list as an order.
CacheIInv ==
  /\ CacheTypeOK /\ TableMatchesOwners /\ ListInv /\ ResidentPinned
  /\ OrderInv /\ CallInv /\ ResolvedStayResident /\ IsFiniteSet(resolved)

\* The experts of a call that are not resolved yet, as a sequence.
LEMMA TodoFacts ==
  ASSUME CacheTypeOK
  PROVE  /\ todo \in Seq(Experts) /\ Len(todo) \in 0..TopK
         /\ todo \in [1..Len(todo) -> Experts]
         /\ todo # <<>> => /\ Len(todo) >= 1 /\ Head(todo) = todo[1] /\ Head(todo) \in Experts
                          /\ Tail(todo) \in [1..Len(todo) - 1 -> Experts]
                          /\ Len(Tail(todo)) = Len(todo) - 1
                          /\ \A i \in 1..Len(todo) - 1 : Tail(todo)[i] = todo[i + 1]
<1> USE CacheAssumption
<1>1. PICK n \in 0..TopK : todo \in [1..n -> Experts]
  BY DEF CacheTypeOK
<1>2. todo \in Seq(Experts) /\ Len(todo) = n
  BY <1>1
<1>3. todo # <<>> => /\ Len(todo) >= 1 /\ Head(todo) = todo[1] /\ Head(todo) \in Experts
                   /\ Len(Tail(todo)) = Len(todo) - 1
                   /\ \A i \in 1..Len(todo) - 1 : Tail(todo)[i] = todo[i + 1]
                   /\ Tail(todo) \in Seq(Experts)
  BY <1>2
<1>4. ASSUME todo # <<>> PROVE Tail(todo) \in [1..Len(todo) - 1 -> Experts]
  <2> DEFINE q == Tail(todo)
  <2>1. q \in Seq(Experts) /\ Len(q) = Len(todo) - 1
    BY <1>2, <1>4
  <2> HIDE DEF q
  <2>2. q \in [1..Len(q) -> Experts]
    BY <2>1
  <2>3. QED
    BY <2>1, <2>2 DEF q
<1>5. QED
  BY <1>1, <1>2, <1>3, <1>4

\* A lookup puts its slot in front, protected and resident; the others keep theirs.
LEMMA LookupOrder ==
  ASSUME CacheIInv, NEW m \in 1..NSlots, lru' = MoveToHead(lru, Forward[m]),
         Stamp(Forward[m]), gen_completed' = gen_completed,
         owner'[Forward[m]] # NoPair,
         \A t \in Slots \ {Forward[m]} : owner'[t] = owner[t]
  PROVE  OrderInv'
<1> DEFINE F == Forward
           from(k) == IF k <= m THEN k - 1 ELSE k
<1>1. ListInv /\ OrderInv /\ Ordered(lru, F)
  BY ForwardIsOrder, Zenon DEF CacheIInv, ForwardOrdered
<1>2. Forward' = MovedUp(F, m)
  BY <1>1, MoveForward
<1>3. /\ F \in [1..NSlots -> Slots] /\ \A i, k \in 1..NSlots : F[i] = F[k] => i = k
  BY <1>1 DEF Ordered
<1>4. /\ \A t \in Slots : safe_gen'[t] = IF t = F[m] THEN gen_completed + 1 ELSE safe_gen[t]
      /\ gen_completed \in Int
  BY <1>3 DEF CacheIInv, CacheTypeOK, Stamp
<1> HIDE DEF F
<1>5. /\ Forward'[1] = F[m]
      /\ \A k \in 2..NSlots : Forward'[k] = F[from(k)]
  BY <1>2, SlotFacts DEF MovedUp
<1>6. \A k \in 2..NSlots : from(k) \in 1..NSlots /\ from(k) # m
  BY SlotFacts
<1>7. \A i, k \in 2..NSlots : i < k => from(i) < from(k)
  BY SlotFacts
<1> HIDE DEF from
<1>8. \A t \in Slots : t # F[m] => owner'[t] = owner[t]
  BY DEF F
<1>9. /\ owner'[F[m]] # NoPair /\ F[m] \in Slots
      /\ ~(owner'[F[m]] = NoPair \/ safe_gen'[F[m]] <= gen_completed')
  BY <1>3, <1>4 DEF F
<1>10. ASSUME NEW k \in 2..NSlots
       PROVE  /\ F[from(k)] \in Slots /\ F[from(k)] # F[m]
              /\ owner'[F[from(k)]] = owner[F[from(k)]]
  <2>1. F[from(k)] \in Slots /\ F[from(k)] # F[m]
    BY <1>3, <1>6
  <2> QED BY <1>8, <2>1
<1> DEFINE G == Forward'
<1>11. /\ G[1] = F[m] /\ \A k \in 2..NSlots : G[k] = F[from(k)]
  BY <1>5
<1>12. OrderInv' <=> \A i, k \in 1..NSlots : i < k =>
         /\ owner'[G[k]] # NoPair => owner'[G[i]] # NoPair
         /\ ~(owner'[G[k]] = NoPair \/ safe_gen'[G[k]] <= gen_completed')
              => ~(owner'[G[i]] = NoPair \/ safe_gen'[G[i]] <= gen_completed')
  BY Zenon DEF OrderInv, Evictable
<1> HIDE DEF G
<1>13. ASSUME NEW i \in 1..NSlots, NEW k \in 1..NSlots, i < k
       PROVE  /\ owner'[G[k]] # NoPair => owner'[G[i]] # NoPair
              /\ ~(owner'[G[k]] = NoPair \/ safe_gen'[G[k]] <= gen_completed')
                   => ~(owner'[G[i]] = NoPair \/ safe_gen'[G[i]] <= gen_completed')
  <2>1. CASE i = 1
    BY <1>9, <1>11, <2>1
  <2>2. CASE i # 1
    <3>1. i \in 2..NSlots /\ k \in 2..NSlots
      BY <1>13, <2>2
    <3>2. from(i) \in 1..NSlots /\ from(k) \in 1..NSlots /\ from(i) < from(k)
      BY <1>6, <1>7, <1>13, <3>1
    <3>3. /\ owner[F[from(k)]] # NoPair => owner[F[from(i)]] # NoPair
          /\ ~Evictable(F[from(k)]) => ~Evictable(F[from(i)])
      BY <1>1, <3>2, Zenon DEF OrderInv, F
    <3>4. /\ owner'[F[from(i)]] = owner[F[from(i)]] /\ owner'[F[from(k)]] = owner[F[from(k)]]
          /\ safe_gen'[F[from(i)]] = safe_gen[F[from(i)]]
          /\ safe_gen'[F[from(k)]] = safe_gen[F[from(k)]]
      BY <1>4, <1>10, <3>1
    <3> QED BY <1>11, <3>1, <3>3, <3>4 DEF Evictable
  <2> QED BY <2>1, <2>2
<1> QED BY <1>12, <1>13

\* A step that moves, stamps and gives away no slot keeps the order.
LEMMA OrderFrame ==
  ASSUME OrderInv, UNCHANGED <<lru, owner, safe_gen, gen_completed>>
  PROVE  OrderInv'
<1>1. Forward' = Forward
  BY ForwardFrame
<1> QED BY <1>1 DEF OrderInv, Evictable

\* An empty store with no call in progress satisfies the invariant.
LEMMA CacheInitInv == CacheInit => CacheIInv
<1> SUFFICES ASSUME CacheInit PROVE CacheIInv
  OBVIOUS
<1> USE SlotFacts DEF CacheInit, StoreInit
<1>1. CacheTypeOK
  <2>1. 0 \in Slots /\ NSlots - 1 \in Slots /\ \A s \in Slots : s - 1 \in Slots \cup {Nil}
    BY DEF Slots, Nil
  <2>2. \A s \in Slots : (IF s = NSlots - 1 THEN Nil ELSE s + 1) \in Slots \cup {Nil}
    BY DEF Slots, Nil
  <2>3. lru.prev \in [Slots -> Slots \cup {Nil}] /\ lru.next \in [Slots -> Slots \cup {Nil}]
    BY <2>1, <2>2
  <2>4. todo \in UNION {[1..n -> Experts] : n \in 0..TopK}
    <3>1. 0 \in 0..TopK /\ todo \in [1..0 -> Experts]
      BY CacheAssumption
    <3>2. QED
      BY <3>1
  <2>5. 0 \in 0..MaxGen /\ 0 \in 0..MaxGen + 1
    BY CacheAssumption
  <2>6. /\ owner \in [Slots -> Pairs \cup {NoPair}] /\ table \in [Pairs -> Slots \cup {Nil}]
        /\ safe_gen \in [Slots -> 0..MaxGen + 1] /\ mlocked \in [Slots -> BOOLEAN]
    BY <2>5
  <2>7. lru.head \in Slots /\ lru.tail \in Slots
    BY <2>1
  <2>8. QED
    BY <2>3, <2>4, <2>5, <2>6, <2>7 DEF CacheTypeOK
<1>2. TableMatchesOwners
  BY CacheAssumption DEF TableMatchesOwners, Pairs
<1>3. ListInv
  <2> DEFINE ord == [k \in 1..NSlots |-> k - 1]
  <2>1. Ordered(lru, ord)
    BY DEF Ordered, Slots, Nil
  <2>2. QED
    BY <2>1 DEF ListInv
<1>4. ResidentPinned
  BY DEF ResidentPinned
<1>5. CallInv
  <2>1. Cardinality(resolved) = 0 /\ Len(todo) = 0
    BY FS_EmptySet
  <2>2. QED
    BY <2>1, CacheAssumption DEF CallInv, Evictable
<1>6. ResolvedStayResident /\ IsFiniteSet(resolved)
  BY FS_EmptySet DEF ResolvedStayResident
<1>7. OrderInv
  <2>1. \A k \in 1..NSlots : owner[Forward[k]] = NoPair
    <3>1. \A k \in 1..NSlots : Forward[k] \in Slots
      BY <1>3, ForwardIsOrder DEF ForwardOrdered, Ordered
    <3> HIDE DEF Forward
    <3>2. QED
      BY <3>1
  <2>2. QED
    BY <2>1, Zenon DEF OrderInv, Evictable
<1>8. QED
  BY <1>1, <1>2, <1>3, <1>4, <1>5, <1>6, <1>7 DEF CacheIInv

\* A layer is selected when nothing is in use: the call starts with all its
\* experts to resolve.
LEMMA SelectPreserved ==
  ASSUME CacheIInv, NEW l \in Layers, NEW sel \in Selections, SelectExperts(l, sel)
  PROVE  CacheIInv'
<1> USE CacheAssumption DEF CacheIInv
<1>1. /\ UNCHANGED <<owner, safe_gen, lru, table, mlocked, mlock_disabled, gen_completed, resolved, alive>>
      /\ resolved = {} /\ layer' = l /\ todo' = sel
  BY DEF SelectExperts, storeVars
<1>2. /\ sel \in [1..TopK -> Experts] /\ \A i, k \in 1..TopK : sel[i] = sel[k] => i = k
      /\ Len(sel) = TopK
  BY DEF Selections
<1>3. CacheTypeOK'
  <2>1. todo' \in UNION {[1..n -> Experts] : n \in 0..TopK}
    BY <1>1, <1>2
  <2>2. QED
    BY <1>1, <2>1 DEF CacheTypeOK
<1>4. TableMatchesOwners' /\ ListInv' /\ ResidentPinned'
  <2>1. ListInv'
    BY <1>1, ListFrame
  <2>2. TableMatchesOwners' /\ ResidentPinned'
    BY <1>1 DEF TableMatchesOwners, ResidentPinned
  <2>3. QED
    BY <2>1, <2>2
<1>5. CallInv'
  <2>1. Cardinality(resolved') = 0
    BY <1>1, FS_EmptySet
  <2>2. QED
    BY <1>1, <1>2, <2>1 DEF CallInv, Evictable
<1>6. ResolvedStayResident' /\ IsFiniteSet(resolved)'
  BY <1>1 DEF ResolvedStayResident
<1>7. OrderInv'
  BY <1>1, OrderFrame
<1>8. QED
  BY <1>3, <1>4, <1>5, <1>6, <1>7

\* The call's own part of a lookup that gives its next expert the slot s.
LEMMA ResolvePreserved ==
  ASSUME CacheIInv, todo # <<>>, NEW s \in Slots,
         Stamp(s), Resolve(s), gen_completed' = gen_completed,
         owner'[s] = <<layer, Head(todo)>>,
         \A t \in Slots \ {s} : owner'[t] = owner[t],
         \A r \in resolved : r[2] # s \/ owner'[s] = owner[s]
  PROVE  CallInv' /\ ResolvedStayResident' /\ IsFiniteSet(resolved)'
<1> USE DEF CacheIInv
<1>1. /\ todo' = Tail(todo) /\ resolved' = resolved \cup {<<Head(todo), s>>} /\ layer' = layer
      /\ safe_gen' = [safe_gen EXCEPT ![s] = gen_completed + 1]
  BY DEF Stamp, Resolve
<1>2. /\ todo \in [1..Len(todo) -> Experts] /\ Len(todo) \in 0..TopK /\ Len(todo) >= 1
      /\ Head(todo) = todo[1] /\ Len(Tail(todo)) = Len(todo) - 1
      /\ \A i \in 1..Len(todo) - 1 : Tail(todo)[i] = todo[i + 1]
  BY TodoFacts
<1>3. /\ safe_gen \in [Slots -> 0..MaxGen + 1] /\ gen_completed \in 0..MaxGen
      /\ resolved \in SUBSET (Experts \X Slots)
  BY DEF CacheTypeOK
<1>4. /\ safe_gen'[s] = gen_completed + 1
      /\ \A t \in Slots \ {s} : safe_gen'[t] = safe_gen[t]
  BY <1>1, <1>3
<1>5. Cardinality(resolved') <= Cardinality(resolved) + 1 /\ IsFiniteSet(resolved')
      /\ Cardinality(resolved) \in Nat /\ Cardinality(resolved') \in Nat
  <2>1. IsFiniteSet(resolved \cup {<<Head(todo), s>>})
        /\ Cardinality(resolved \cup {<<Head(todo), s>>}) =
             IF <<Head(todo), s>> \in resolved THEN Cardinality(resolved) ELSE Cardinality(resolved) + 1
    BY FS_AddElement
  <2>2. Cardinality(resolved) \in Nat
    BY FS_CardinalityType
  <2>3. QED
    BY <1>1, <2>1, <2>2
<1>6. CallInv'
  <2>1. \A i, k \in 1..Len(todo') : todo'[i] = todo'[k] => i = k
    <3> TAKE i, k \in 1..Len(todo')
    <3>1. i \in 1..Len(todo) - 1 /\ k \in 1..Len(todo) - 1 /\ i + 1 \in 1..Len(todo) /\ k + 1 \in 1..Len(todo)
      BY <1>1, <1>2
    <3>2. todo'[i] = todo[i + 1] /\ todo'[k] = todo[k + 1]
      BY <1>1, <1>2, <3>1
    <3>3. todo[i + 1] = todo[k + 1] => i + 1 = k + 1
      BY <3>1 DEF CallInv
    <3>4. QED
      BY <3>1, <3>2, <3>3
  <2>2. \A r \in resolved', i \in 1..Len(todo') : r[1] # todo'[i]
    <3> TAKE r \in resolved', i \in 1..Len(todo')
    <3>1. i \in 1..Len(todo) - 1 /\ i + 1 \in 1..Len(todo) /\ i + 1 # 1 /\ 1 \in 1..Len(todo)
      BY <1>1, <1>2
    <3>2. todo'[i] = todo[i + 1]
      BY <1>1, <1>2, <3>1
    <3>3. todo[i + 1] # todo[1]
      BY <3>1 DEF CallInv
    <3>4. CASE r \in resolved
      BY <3>1, <3>2, <3>4 DEF CallInv
    <3>5. CASE r = <<Head(todo), s>>
      BY <1>2, <3>2, <3>3, <3>5
    <3>6. QED
      BY <1>1, <3>4, <3>5
  <2>3. Cardinality(resolved') + Len(todo') <= TopK
    BY <1>1, <1>2, <1>5, CacheAssumption DEF CallInv
  <2>4. \A t \in Slots : ~Evictable(t)' => \E r \in resolved' : r[2] = t
    <3> TAKE t \in Slots
    <3>1. CASE t = s
      <4>1. <<Head(todo), s>> \in resolved' /\ <<Head(todo), s>>[2] = t
        BY <1>1, <3>1
      <4>2. QED
        BY <4>1
    <3>2. CASE t # s
      <4>1. Evictable(t)' <=> Evictable(t)
        BY <1>4, <3>2 DEF Evictable
      <4>2. ~Evictable(t) => \E r \in resolved : r[2] = t
        BY DEF CallInv
      <4>3. QED
        BY <1>1, <4>1, <4>2
    <3>3. QED
      BY <3>1, <3>2
  <2>5. \A t \in Slots : safe_gen'[t] <= gen_completed' + 1
    BY <1>3, <1>4 DEF CallInv
  <2>6. QED
    BY <2>1, <2>2, <2>3, <2>4, <2>5 DEF CallInv
<1>7. ResolvedStayResident'
  <2> SUFFICES ASSUME NEW r \in resolved'
               PROVE  owner'[r[2]] = <<layer, r[1]>> /\ safe_gen'[r[2]] > gen_completed
    BY <1>1 DEF ResolvedStayResident
  <2>1. CASE r = <<Head(todo), s>>
    BY <1>3, <1>4, <2>1
  <2>2. CASE r \in resolved
    <3>1. r[2] \in Slots /\ owner[r[2]] = <<layer, r[1]>> /\ safe_gen[r[2]] > gen_completed
      BY <1>3, <2>2 DEF ResolvedStayResident
    <3>2. CASE r[2] = s
      BY <1>3, <1>4, <2>2, <3>1, <3>2
    <3>3. CASE r[2] # s
      BY <1>4, <3>1, <3>3
    <3>4. QED
      BY <3>2, <3>3
  <2>3. QED
    BY <1>1, <2>1, <2>2
<1>8. QED
  BY <1>5, <1>6, <1>7

\* The fields a lookup changes keep their types, given the three it may rewrite.
LEMMA LookupTypes ==
  ASSUME CacheTypeOK, todo # <<>>, NEW s \in Slots, Stamp(s), Resolve(s), ListInv',
         owner' \in [Slots -> Pairs \cup {NoPair}],
         table' \in [Pairs -> Slots \cup {Nil}],
         mlocked' \in [Slots -> BOOLEAN], mlock_disabled' \in BOOLEAN,
         UNCHANGED <<gen_completed, alive>>
  PROVE  CacheTypeOK'
<1> USE CacheAssumption DEF CacheTypeOK
<1>1. /\ lru'.head \in Slots /\ lru'.tail \in Slots
      /\ lru'.prev \in [Slots -> Slots \cup {Nil}]
      /\ lru'.next \in [Slots -> Slots \cup {Nil}]
  BY SlotFacts DEF ListInv, Ordered
<1>2. safe_gen' \in [Slots -> 0..MaxGen + 1]
  BY DEF Stamp
<1>3. todo' \in UNION {[1..n -> Experts] : n \in 0..TopK}
  <2>1. Len(todo) - 1 \in 0..TopK /\ Tail(todo) \in [1..Len(todo) - 1 -> Experts]
    BY TodoFacts
  <2>2. QED
    BY <2>1 DEF Resolve
<1>4. resolved' \in SUBSET (Experts \X Slots)
  BY TodoFacts DEF Resolve
<1>5. layer' \in Layers
  BY DEF Resolve
<1>6. QED
  BY <1>1, <1>2, <1>3, <1>4, <1>5

\* While an expert is still to be resolved, fewer slots are protected than the
\* store has: one of them may be reused.
LEMMA SomeSlotEvictable == CacheIInv => FallbackUnreachable
<1> SUFFICES ASSUME CacheIInv, todo # <<>>, \A s \in Slots : ~Evictable(s) PROVE FALSE
  BY DEF FallbackUnreachable
<1> USE CacheAssumption, StoreHoldsTopK, SlotFacts DEF CacheIInv
<1>1. /\ Len(todo) \in Nat /\ Len(todo) >= 1
      /\ Cardinality(resolved) \in Nat /\ Cardinality(resolved) + Len(todo) <= TopK
  BY TodoFacts, FS_CardinalityType DEF CallInv
<1> DEFINE given == [r \in resolved |-> r[2]]
<1>2. given \in Surjection(resolved, Slots)
  <2>1. \A r \in resolved : r[2] \in Slots
    BY DEF CacheTypeOK
  <2>2. \A s \in Slots : \E r \in resolved : r[2] = s
    BY DEF CallInv
  <2>3. QED
    BY <2>1, <2>2 DEF Surjection
<1>3. Cardinality(Slots) <= Cardinality(resolved)
  <2> HIDE DEF given
  <2>1. QED
    BY <1>2, FS_Surjection
<1>4. Cardinality(Slots) = NSlots
  <2>1. 0 \in Int /\ NSlots - 1 \in Int /\ ~(0 > NSlots - 1)
    OBVIOUS
  <2>2. Cardinality(0..NSlots - 1) = (NSlots - 1) - 0 + 1
    BY <2>1, FS_Interval
  <2>3. QED
    BY <2>2 DEF Slots
<1>5. QED
  BY <1>1, <1>3, <1>4

\* A hit only restamps its slot and moves it to the head.
LEMMA HitPreserved == CacheIInv /\ CacheHit => CacheIInv'
<1> SUFFICES ASSUME CacheIInv, CacheHit PROVE CacheIInv'
  OBVIOUS
<1> USE DEF CacheIInv
<1> DEFINE p == <<layer, Head(todo)>>
           s == table[p]
<1>1. /\ todo # <<>> /\ s >= 0 /\ Stamp(s) /\ Resolve(s) /\ lru' = MoveToHead(lru, s)
      /\ UNCHANGED <<owner, table, gen_completed, mlocked, mlock_disabled, alive>>
  BY DEF CacheHit
<1>2. p \in Pairs /\ s \in Slots /\ owner[s] = p
  <2>1. p \in Pairs
    BY <1>1, TodoFacts DEF CacheTypeOK, Pairs
  <2>2. s \in Slots \cup {Nil}
    BY <2>1 DEF CacheTypeOK
  <2> HIDE DEF p
  <2>3. s \in Slots
    BY <1>1, <2>2, SlotFacts
  <2>4. QED
    BY <2>1, <2>3 DEF TableMatchesOwners
<1>3. ListInv'
  <2> HIDE DEF s
  <2>1. QED
    BY <1>1, <1>2, MoveKeepsList
<1>4. CallInv' /\ ResolvedStayResident' /\ IsFiniteSet(resolved)'
  <2> HIDE DEF s
  <2>1. QED
    BY <1>1, <1>2, ResolvePreserved
<1>5. CacheTypeOK'
  <2>1. UNCHANGED <<owner, table, gen_completed, mlocked, mlock_disabled, alive, layer>>
    BY <1>1 DEF Resolve
  <2>2. /\ owner' \in [Slots -> Pairs \cup {NoPair}] /\ table' \in [Pairs -> Slots \cup {Nil}]
        /\ mlocked' \in [Slots -> BOOLEAN] /\ mlock_disabled' \in BOOLEAN
    BY <2>1 DEF CacheTypeOK
  <2> HIDE DEF s
  <2>3. QED
    BY <1>1, <1>2, <1>3, <2>1, <2>2, LookupTypes
<1>6. TableMatchesOwners' /\ ResidentPinned'
  BY <1>1 DEF TableMatchesOwners, ResidentPinned
<1>7. OrderInv'
  <2>1. PICK m \in 1..NSlots : Forward[m] = s
    BY <1>2, ForwardIsOrder, Zenon DEF ForwardOrdered, Ordered
  <2>2. owner'[s] # NoPair /\ \A t \in Slots : owner'[t] = owner[t]
    BY <1>1, <1>2, CacheAssumption DEF Pairs
  <2> HIDE DEF s, p
  <2>3. QED
    BY <1>1, <2>1, <2>2, LookupOrder
<1>8. QED
  BY <1>3, <1>4, <1>5, <1>6, <1>7

\* A miss takes a slot nothing needs: the call's earlier slots keep their owner.
LEMMA MissPreserved ==
  ASSUME CacheIInv, NEW s \in Slots, CacheMiss(s)
  PROVE  CacheIInv'
<1> USE DEF CacheIInv
<1> DEFINE p == <<layer, Head(todo)>>
<1>1. /\ todo # <<>> /\ table[p] < 0 /\ s = EvictOrGetFree /\ Retable(s, p)
      /\ owner' = [owner EXCEPT ![s] = p] /\ Stamp(s) /\ Resolve(s) /\ MlockOnce(s)
      /\ lru' = MoveToHead(lru, s)
      /\ UNCHANGED <<gen_completed, alive>>
  BY DEF CacheMiss
<1>2. p \in Pairs /\ table[p] = Nil
  <2>1. p \in Pairs
    BY <1>1, TodoFacts DEF CacheTypeOK, Pairs
  <2>2. table[p] \in Slots \cup {Nil}
    BY <2>1 DEF CacheTypeOK
  <2> HIDE DEF p
  <2>3. QED
    BY <1>1, <2>1, <2>2, SlotFacts
<1>3. Evictable(s)
  BY <1>1, SomeSlotEvictable, VictimLemma DEF FallbackUnreachable
<1>4. ListInv'
  BY <1>1, MoveKeepsList
<1>5. \A r \in resolved : r[2] # s
  <2> TAKE r \in resolved
  <2>1. owner[r[2]] = <<layer, r[1]>> /\ safe_gen[r[2]] > gen_completed /\ r[1] \in Experts
        /\ layer \in Layers /\ r[2] \in Slots
    BY DEF ResolvedStayResident, CacheTypeOK
  <2>2. owner[r[2]] # NoPair
    BY <2>1, CacheAssumption
  <2>3. ~(safe_gen[r[2]] <= gen_completed)
    BY <2>1 DEF CacheTypeOK
  <2>4. QED
    BY <1>3, <2>2, <2>3 DEF Evictable
<1>6. /\ owner'[s] = p /\ \A t \in Slots \ {s} : owner'[t] = owner[t]
      /\ owner' \in [Slots -> Pairs \cup {NoPair}]
  <2> HIDE DEF p
  <2>1. QED
    BY <1>1, <1>2 DEF CacheTypeOK
<1>7. CallInv' /\ ResolvedStayResident' /\ IsFiniteSet(resolved)'
  BY <1>1, <1>5, <1>6, ResolvePreserved
<1>8. /\ table' \in [Pairs -> Slots \cup {Nil}]
      /\ \A q \in Pairs : table'[q] = IF q = p THEN s ELSE IF q = owner[s] THEN Nil ELSE table[q]
  <2> HIDE DEF p
  <2>1. table' = [q \in Pairs |-> IF q = p THEN s ELSE IF q = owner[s] THEN Nil ELSE table[q]]
    BY <1>1 DEF Retable
  <2>2. QED
    BY <2>1 DEF CacheTypeOK
<1>9. /\ mlocked' \in [Slots -> BOOLEAN] /\ mlock_disabled' \in BOOLEAN
      /\ mlocked'[s] \/ mlock_disabled'
      /\ \A t \in Slots : mlocked[t] \/ mlock_disabled => mlocked'[t] \/ mlock_disabled'
  <2>1. mlocked \in [Slots -> BOOLEAN] /\ mlock_disabled \in BOOLEAN
    BY DEF CacheTypeOK
  <2>2. CASE (mlocked[s] \/ mlock_disabled) /\ UNCHANGED <<mlocked, mlock_disabled>>
    BY <2>1, <2>2
  <2>3. CASE mlocked' = [mlocked EXCEPT ![s] = TRUE] /\ UNCHANGED mlock_disabled
    BY <2>1, <2>3
  <2>4. CASE mlock_disabled' = TRUE /\ UNCHANGED mlocked
    BY <2>1, <2>4
  <2>5. QED
    BY <1>1, <2>2, <2>3, <2>4 DEF MlockOnce
<1>10. CacheTypeOK'
  BY <1>1, <1>4, <1>6, <1>8, <1>9, LookupTypes DEF Resolve
<1>11. TableMatchesOwners'
  <2> SUFFICES ASSUME NEW q \in Pairs, NEW t \in Slots
               PROVE  table'[q] = t <=> owner'[t] = q
    BY DEF TableMatchesOwners
  <2> HIDE DEF p
  <2>1. /\ table[q] = t <=> owner[t] = q
        /\ table[q] = s <=> owner[s] = q
        /\ table[p] # t /\ owner[t] # p
    BY <1>2, SlotFacts DEF TableMatchesOwners
  <2>2. CASE t = s
    BY <1>2, <1>6, <1>8, <2>1, <2>2, SlotFacts
  <2>3. CASE t # s
    BY <1>2, <1>6, <1>8, <2>1, <2>3, SlotFacts
  <2>4. QED
    BY <2>2, <2>3
<1>12. ResidentPinned'
  BY <1>6, <1>9 DEF ResidentPinned
<1>13. OrderInv'
  <2>1. PICK m \in 1..NSlots : Forward[m] = s
    BY ForwardIsOrder, Zenon DEF ForwardOrdered, Ordered
  <2>2. owner'[s] # NoPair
    BY <1>2, <1>6, CacheAssumption DEF Pairs
  <2>3. QED
    BY <1>1, <1>6, <2>1, <2>2, LookupOrder
<1>14. QED
  BY <1>4, <1>7, <1>10, <1>11, <1>12, <1>13

\* real_gpu_end counts a generation, which frees every slot of the call.
LEMMA GpuEndPreserved == CacheIInv /\ GpuEndOk => CacheIInv'
<1> SUFFICES ASSUME CacheIInv, GpuEndOk PROVE CacheIInv'
  OBVIOUS
<1> USE DEF CacheIInv
<1>1. /\ UNCHANGED <<owner, safe_gen, lru, table, mlocked, mlock_disabled, layer, todo, alive>>
      /\ todo = <<>> /\ gen_completed < MaxGen
      /\ gen_completed' = gen_completed + 1 /\ resolved' = {}
  BY DEF GpuEndOk, storeVars
<1>2. /\ gen_completed \in Nat /\ gen_completed' \in 0..MaxGen
      /\ safe_gen \in [Slots -> 0..MaxGen + 1]
  BY <1>1, CacheAssumption DEF CacheTypeOK
<1>3. CacheTypeOK'
  BY <1>1, <1>2 DEF CacheTypeOK
<1>4. TableMatchesOwners' /\ ListInv' /\ ResidentPinned'
  <2>1. ListInv'
    BY <1>1, ListFrame
  <2>2. TableMatchesOwners' /\ ResidentPinned'
    BY <1>1 DEF TableMatchesOwners, ResidentPinned
  <2>3. QED
    BY <2>1, <2>2
<1>5. CallInv'
  <2>1. Cardinality(resolved') = 0 /\ Len(todo) = 0
    BY <1>1, FS_EmptySet
  <2>2. \A s \in Slots : safe_gen[s] <= gen_completed'
    BY <1>1, <1>2 DEF CallInv
  <2>3. \A s \in Slots : Evictable(s)' /\ safe_gen'[s] <= gen_completed' + 1
    BY <1>1, <1>2, <2>2 DEF Evictable
  <2>4. QED
    BY <1>1, <2>1, <2>3, CacheAssumption DEF CallInv
<1>6. ResolvedStayResident' /\ IsFiniteSet(resolved)'
  BY <1>1, FS_EmptySet DEF ResolvedStayResident
<1>7. OrderInv'
  <2>1. Forward' = Forward
    BY <1>1, ForwardFrame
  <2>2. \A k \in 1..NSlots : Forward[k] \in Slots
    BY ForwardIsOrder DEF ForwardOrdered, Ordered
  <2> HIDE DEF Forward
  <2>3. \A t \in Slots : safe_gen'[t] <= gen_completed'
    BY <1>1, <1>2 DEF CallInv
  <2>4. \A k \in 1..NSlots : Evictable(Forward[k])'
    BY <2>1, <2>2, <2>3 DEF Evictable
  <2>5. QED
    BY <1>1, <2>1, <2>4 DEF OrderInv
<1>8. QED
  BY <1>3, <1>4, <1>5, <1>6, <1>7

\* Every step of the store keeps the invariant.
LEMMA CacheNextPreserved == CacheIInv /\ [CacheNext]_cacheVars => CacheIInv'
<1> SUFFICES ASSUME CacheIInv, [CacheNext]_cacheVars PROVE CacheIInv'
  OBVIOUS
<1>1. ASSUME NEW l \in Layers, NEW sel \in Selections, SelectExperts(l, sel) PROVE CacheIInv'
  BY <1>1, SelectPreserved
<1>2. CASE CacheHit
  BY <1>2, HitPreserved
<1>3. ASSUME NEW s \in Slots, CacheMiss(s) PROVE CacheIInv'
  BY <1>3, MissPreserved
<1>4. CASE GpuEndOk
  BY <1>4, GpuEndPreserved
<1>5. CASE UNCHANGED <<storeVars, gen_completed, callVars>> /\ alive' \in BOOLEAN
  <2>1. UNCHANGED <<owner, safe_gen, lru, table, mlocked, mlock_disabled, gen_completed, layer, todo, resolved>>
    BY <1>5 DEF storeVars, callVars
  <2>2. ListInv'
    BY <2>1, ListFrame DEF CacheIInv
  <2>3. CacheTypeOK'
    BY <1>5, <2>1 DEF CacheIInv, CacheTypeOK
  <2>4. TableMatchesOwners' /\ ResidentPinned' /\ ResolvedStayResident' /\ IsFiniteSet(resolved)'
    BY <2>1 DEF CacheIInv, TableMatchesOwners, ResidentPinned, ResolvedStayResident
  <2>5. CallInv'
    BY <2>1 DEF CacheIInv, CallInv, Evictable
  <2>6. OrderInv'
    BY <2>1, OrderFrame DEF CacheIInv
  <2>7. QED
    BY <2>2, <2>3, <2>4, <2>5, <2>6 DEF CacheIInv
<1>6. CASE ProcessDies
  BY <1>5, <1>6 DEF ProcessDies, Die
<1>7. CASE UNCHANGED cacheVars
  BY <1>5, <1>7 DEF cacheVars, CacheIInv, CacheTypeOK
<1>8. QED
  BY <1>1, <1>2, <1>3, <1>4, <1>6, <1>7 DEF CacheNext

-----------------------------------------------------------------------------
(* The theorems.                                                           *)

\* The invariant of the store and of the call that uses it.
THEOREM CacheInvariant == CacheSpec => []CacheIInv
BY CacheInitInv, CacheNextPreserved, PTL DEF CacheSpec

\* After any sequence of hits, misses and evictions, list, table, owners and
\* pins agree, and only what the call in progress resolved is protected.
THEOREM CacheStore == CacheSpec => []StoreInv
<1>1. CacheIInv => StoreInv
  BY ListIsWellFormed DEF CacheIInv, StoreInv
<1>2. QED
  BY <1>1, CacheInvariant, PTL

\* No miss of a call evicts an expert the same call resolved earlier.
THEOREM CacheResolved == CacheSpec => []ResolvedStayResident
<1>1. CacheIInv => ResolvedStayResident
  BY DEF CacheIInv
<1>2. QED
  BY <1>1, CacheInvariant, PTL

\* The victim search never falls back on a slot that is still protected.
THEOREM CacheNoFallback == CacheSpec => []FallbackUnreachable
<1>1. CacheIInv => FallbackUnreachable
  BY SomeSlotEvictable
<1>2. QED
  BY <1>1, CacheInvariant, PTL

-----------------------------------------------------------------------------
(* Refinement of LruCache.                                                 *)

\* A set of places that has, with each place, all the places before it, is an interval.
LEMMA PrefixCount ==
  ASSUME NEW N \in Nat, NEW D \in SUBSET (1..N), \A i, k \in 1..N : i < k /\ k \in D => i \in D
  PROVE  Cardinality(D) \in 0..N /\ D = 1..Cardinality(D)
<1> DEFINE T == {x \in Nat : x >= 1 /\ x \notin D}
<1>1. N + 1 \in T
  OBVIOUS
<1>2. PICK x \in T : \A y \in T : x <= y
  <2>1. T \in SUBSET Nat /\ T # {}
    BY <1>1
  <2> HIDE DEF T
  <2>2. QED
    BY <2>1, LeastNatural
<1>3. x - 1 \in 0..N
  BY <1>1, <1>2
<1>4. D = 1..x - 1
  <2>1. \A y \in 1..x - 1 : y \in D
    BY <1>2, <1>3
  <2>2. ASSUME NEW y \in D, y > x - 1 PROVE FALSE
    <3>1. x \notin D /\ x \in 1..N /\ x <= y /\ y \in 1..N
      BY <1>2, <2>2
    <3>2. x < y
      BY <3>1, <2>2
    <3> QED BY <3>1, <3>2
  <2>3. \A y \in D : y \in 1..x - 1
    BY <1>3, <2>2
  <2> QED BY <2>1, <2>3
<1>5. Cardinality(1..x - 1) = x - 1
  <2>1. 1 \in Int /\ x - 1 \in Int
    BY <1>3
  <2>2. Cardinality(1..x - 1) = IF 1 > x - 1 THEN 0 ELSE (x - 1) - 1 + 1
    BY <2>1, FS_Interval
  <2> QED BY <1>3, <2>2
<1> QED BY <1>3, <1>4, <1>5

Count == Cardinality(ResidentPlaces)

\* The resident pairs are the owners of the first slots of the list.
OrderShape ==
  /\ Count \in 0..NSlots /\ ResidentPlaces = 1..Count
  /\ ResidentOrder \in [1..Count -> Pairs] /\ Len(ResidentOrder) = Count
  /\ \A k \in 1..Count : ResidentOrder[k] = owner[Forward[k]]

\* The invariant gives that shape.
LEMMA ResidentShape == CacheIInv => OrderShape
<1> SUFFICES ASSUME CacheIInv PROVE OrderShape
  OBVIOUS
<1>1. ResidentPlaces \in SUBSET (1..NSlots)
      /\ \A i, k \in 1..NSlots : i < k /\ k \in ResidentPlaces => i \in ResidentPlaces
  BY Zenon DEF ResidentPlaces, CacheIInv, OrderInv
<1>2. Count \in 0..NSlots /\ ResidentPlaces = 1..Count
  BY <1>1, SlotFacts, PrefixCount DEF Count
<1>3. \A k \in 1..NSlots : Forward[k] \in Slots
  BY ForwardIsOrder DEF CacheIInv, ForwardOrdered, Ordered
<1>4. ASSUME NEW k \in 1..Count PROVE owner[Forward[k]] \in Pairs
  <2>1. k \in 1..NSlots /\ owner[Forward[k]] # NoPair
    BY <1>2, <1>4, Zenon DEF ResidentPlaces
  <2>2. owner[Forward[k]] \in Pairs \cup {NoPair}
    BY <1>3, <2>1 DEF CacheIInv, CacheTypeOK
  <2> QED BY <2>1, <2>2
<1>5. ResidentOrder = [k \in 1..Count |-> owner[Forward[k]]]
  BY Zenon DEF ResidentOrder, Count
<1> HIDE DEF Forward
<1>6. ResidentOrder \in [1..Count -> Pairs] /\ \A k \in 1..Count : ResidentOrder[k] = owner[Forward[k]]
  BY <1>4, <1>5
<1>7. Len(ResidentOrder) = Count
  BY <1>2, <1>6
<1> QED BY <1>2, <1>6, <1>7 DEF OrderShape

Pinned == {<<layer, r[1]>> : r \in resolved}

\* A lookup pins the pair that was looked up.
LEMMA PinnedGrows ==
  ASSUME NEW s, Resolve(s)
  PROVE  Pinned' = Pinned \cup {<<layer, Head(todo)>>}
<1>1. resolved' = resolved \cup {<<Head(todo), s>>} /\ layer' = layer
  BY DEF Resolve
<1>2. <<Head(todo), s>>[1] = Head(todo)
  OBVIOUS
<1> QED BY <1>1, <1>2 DEF Pinned

\* What the walk meets after the slot at place m was looked up.
LEMMA WalkAfter ==
  ASSUME CacheIInv, NEW m \in 1..NSlots, lru' = MoveToHead(lru, Forward[m])
  PROVE  /\ Forward'[1] = Forward[m]
         /\ \A k \in 2..m : Forward'[k] = Forward[k - 1]
         /\ \A k \in m + 1..NSlots : Forward'[k] = Forward[k]
         /\ \A i, k \in 1..NSlots : Forward[i] = Forward[k] => i = k
         /\ \A k \in 1..NSlots : Forward[k] \in Slots
<1>1. ListInv /\ Ordered(lru, Forward)
  BY ForwardIsOrder, Zenon DEF CacheIInv, ForwardOrdered
<1>2. Forward' = MovedUp(Forward, m)
  BY <1>1, MoveForward
<1> DEFINE F == Forward
<1>3. (\A i, k \in 1..NSlots : F[i] = F[k] => i = k) /\ (\A k \in 1..NSlots : F[k] \in Slots)
  BY <1>1 DEF Ordered
<1> HIDE DEF F
<1>4. MovedUp(F, m)[1] = F[m] /\ (\A k \in 2..m : MovedUp(F, m)[k] = F[k - 1])
      /\ \A k \in m + 1..NSlots : MovedUp(F, m)[k] = F[k]
  BY SlotFacts DEF MovedUp
<1> QED BY <1>2, <1>3, <1>4, Zenon DEF F

\* The residents before and after a step, place by place.
LEMMA LookupShape ==
  ASSUME CacheIInv, CacheIInv'
  PROVE  /\ Count \in 0..NSlots /\ Count' \in 0..NSlots
         /\ \A k \in 1..NSlots : k \in 1..Count <=> owner[Forward[k]] # NoPair
         /\ \A k \in 1..NSlots : k \in 1..Count' <=> owner'[Forward'[k]] # NoPair
         /\ ResidentOrder \in [1..Count -> Pairs] /\ Len(ResidentOrder) = Count
         /\ ResidentOrder' \in [1..Count' -> Pairs] /\ Len(ResidentOrder') = Count'
         /\ \A k \in 1..Count : ResidentOrder[k] = owner[Forward[k]]
         /\ \A k \in 1..Count' : ResidentOrder'[k] = owner'[Forward'[k]]
<1>1. OrderShape /\ OrderShape'
  <2>1. CacheIInv => OrderShape
    BY ResidentShape
  <2>2. CacheIInv' => OrderShape'
    BY <2>1, ResidentShape, PTL
  <2> QED BY <2>1, <2>2
<1> DEFINE F == Forward
           G == Forward'
           n == Count
           n1 == Count'
           R == ResidentOrder
           R1 == ResidentOrder'
<1>2. /\ n \in 0..NSlots /\ ResidentPlaces = 1..n
      /\ R \in [1..n -> Pairs] /\ Len(R) = n /\ \A k \in 1..n : R[k] = owner[F[k]]
  BY <1>1, Zenon DEF OrderShape
<1>3. /\ n1 \in 0..NSlots /\ ResidentPlaces' = 1..n1
      /\ R1 \in [1..n1 -> Pairs] /\ Len(R1) = n1 /\ \A k \in 1..n1 : R1[k] = owner'[G[k]]
  BY <1>1, Zenon DEF OrderShape, Pairs
<1>4. \A k \in 1..NSlots : k \in ResidentPlaces <=> owner[F[k]] # NoPair
  BY Zenon DEF ResidentPlaces
<1>5. \A k \in 1..NSlots : k \in ResidentPlaces' <=> owner'[G[k]] # NoPair
  BY Zenon DEF ResidentPlaces
<1>6. /\ \A k \in 1..NSlots : k \in 1..n <=> owner[F[k]] # NoPair
      /\ \A k \in 1..NSlots : k \in 1..n1 <=> owner'[G[k]] # NoPair
  <2> HIDE DEF F, G, n, n1, R, R1
  <2> QED BY <1>2, <1>3, <1>4, <1>5
<1> QED BY <1>2, <1>3, <1>6, Zenon

\* A hit is a hit.
LEMMA HitStep ==
  ASSUME CacheIInv, CacheIInv', CacheHit
  PROVE  \E i \in 1..Len(ResidentOrder) : Lru!Hit(i)
<1> DEFINE p == <<layer, Head(todo)>>
           s == table[p]
<1>1. /\ todo # <<>> /\ s >= 0 /\ Resolve(s) /\ lru' = MoveToHead(lru, s) /\ owner' = owner
  BY DEF CacheHit
<1>2. p \in Pairs /\ s \in Slots /\ owner[s] = p
  <2>1. p \in Pairs
    BY <1>1, TodoFacts DEF CacheIInv, CacheTypeOK, Pairs
  <2>2. s \in Slots \cup {Nil}
    BY <2>1 DEF CacheIInv, CacheTypeOK
  <2> HIDE DEF p
  <2>3. s \in Slots
    BY <1>1, <2>2, SlotFacts
  <2>4. QED
    BY <2>1, <2>3 DEF CacheIInv, TableMatchesOwners
<1>3. Pinned' = Pinned \cup {p}
  BY <1>1, PinnedGrows
<1>5. PICK m \in 1..NSlots : Forward[m] = s
  BY <1>2, ForwardIsOrder, Zenon DEF CacheIInv, ForwardOrdered, Ordered
<1>6. p # NoPair
  BY <1>2, CacheAssumption DEF Pairs
<1> HIDE DEF p, s
<1>7. m \in 1..Count /\ ResidentOrder[m] = p
  <2>1. m \in ResidentPlaces
    BY <1>2, <1>5, <1>6 DEF ResidentPlaces
  <2>2. OrderShape
    BY ResidentShape
  <2> QED BY <1>2, <1>5, <2>1, <2>2 DEF OrderShape
<1>8. /\ Forward'[1] = Forward[m]
      /\ \A k \in 2..m : Forward'[k] = Forward[k - 1]
      /\ \A k \in m + 1..NSlots : Forward'[k] = Forward[k]
  BY <1>1, <1>5, WalkAfter
<1> DEFINE F == Forward
           G == Forward'
           n == Count
           n1 == Count'
           R == ResidentOrder
           R1 == ResidentOrder'
<1>9. /\ n \in 0..NSlots /\ n1 \in 0..NSlots
      /\ \A k \in 1..NSlots : k \in 1..n <=> owner[F[k]] # NoPair
      /\ \A k \in 1..NSlots : k \in 1..n1 <=> owner'[G[k]] # NoPair
      /\ R \in [1..n -> Pairs] /\ Len(R) = n /\ \A k \in 1..n : R[k] = owner[F[k]]
      /\ R1 \in [1..n1 -> Pairs] /\ Len(R1) = n1 /\ \A k \in 1..n1 : R1[k] = owner'[G[k]]
  BY LookupShape, Zenon
<1>10. /\ G[1] = F[m] /\ \A k \in 2..m : G[k] = F[k - 1]
       /\ \A k \in m + 1..NSlots : G[k] = F[k]
  BY <1>8
<1>11. m \in 1..n /\ R[m] = p /\ F[m] = s
  BY <1>5, <1>7
<1>typed. n \in Nat /\ n <= NSlots /\ m \in Nat /\ m >= 1 /\ m <= n /\ NSlots \in Nat
  BY <1>9, <1>11, SlotFacts
<1>after. \A k \in 1..n1 : R1[k] = owner[G[k]]
  BY <1>1, <1>9
<1> HIDE DEF F, G, n, n1, R, R1
<1>12. \A k \in 1..NSlots : k \in 1..n1 <=> k \in 1..n
  <2> TAKE k \in 1..NSlots
  <2>1. CASE k = 1
    BY <1>1, <1>2, <1>6, <1>9, <1>10, <1>11, <2>1
  <2>2. CASE k \in 2..m
    <3>1. k - 1 \in 1..NSlots /\ k - 1 \in 1..n /\ k \in 1..n
      BY <1>typed, <2>2
    <3>2. G[k] = F[k - 1] /\ owner[F[k - 1]] # NoPair
      BY <1>9, <1>10, <2>2, <3>1
    <3> QED BY <1>1, <1>9, <3>1, <3>2
  <2>3. CASE k \in m + 1..NSlots
    BY <1>1, <1>9, <1>10, <2>3
  <2> QED BY <2>1, <2>2, <2>3
<1>13. n1 = n
  <2>1. n \in 1..NSlots => n \in 1..n1
    BY <1>12, <1>9
  <2>2. n1 \in 1..NSlots => n1 \in 1..n
    BY <1>12, <1>9
  <2> QED BY <1>9, <2>1, <2>2
<1> DEFINE W == [k \in 1..n |-> IF k = 1 THEN R[m] ELSE IF k <= m THEN R[k - 1] ELSE R[k]]
<1>14. \A k \in 1..n : R1[k] = W[k]
  <2> SUFFICES ASSUME NEW k \in 1..n
               PROVE  R1[k] = IF k = 1 THEN R[m] ELSE IF k <= m THEN R[k - 1] ELSE R[k]
    OBVIOUS
  <2>1. R1[k] = owner[G[k]] /\ k \in 1..NSlots
    BY <1>typed, <1>after, <1>13
  <2>2. CASE k = 1
    BY <1>2, <1>10, <1>11, <2>1, <2>2
  <2>3. CASE k \in 2..m
    <3>1. k - 1 \in 1..n
      BY <1>9, <1>11, <2>3
    <3> QED BY <1>9, <1>10, <2>1, <2>3, <3>1
  <2>4. CASE k \in m + 1..NSlots
    BY <1>9, <1>10, <2>1, <2>4
  <2> QED BY <2>1, <2>2, <2>3, <2>4, <1>11
<1>15. R1 = W
  BY <1>9, <1>13, <1>14
<1>16. m \in 1..Len(R) /\ Len(R) = n
  BY <1>9, <1>11
<1>17. R1 = [k \in 1..Len(R) |-> IF k = 1 THEN R[m] ELSE IF k <= m THEN R[k - 1] ELSE R[k]]
  BY <1>15, <1>16
<1>18. Lru!Hit(m)
  BY <1>3, <1>11, <1>17, Zenon DEF Lru!Hit, R, R1, Pinned
<1> QED BY <1>16, <1>18, Zenon DEF R

\* While an expert is to be resolved, the victim is the last slot of the list: no
\* protected slot is behind one that may be reused.
LEMMA VictimIsTail ==
  ASSUME CacheIInv, todo # <<>>
  PROVE  EvictOrGetFree = Forward[NSlots] /\ Evictable(Forward[NSlots])
<1> USE SlotFacts
<1>1. ListInv /\ OrderInv /\ Ordered(lru, Forward)
  BY ForwardIsOrder, Zenon DEF CacheIInv, ForwardOrdered
<1> DEFINE F == Forward
<1>2. /\ \A k \in 0..NSlots - 1 : Back[k] = F[NSlots - k]
      /\ \A s \in Slots : \E k \in 1..NSlots : F[k] = s
      /\ \A k \in 1..NSlots : F[k] \in Slots
  BY <1>1, BackLemma DEF Ordered
<1>3. \A i, k \in 1..NSlots : i < k /\ ~Evictable(F[k]) => ~Evictable(F[i])
  BY <1>1, Zenon DEF OrderInv
<1> HIDE DEF F, Back
<1>4. Evictable(F[NSlots])
  <2>1. PICK s \in Slots : Evictable(s)
    BY SomeSlotEvictable DEF FallbackUnreachable
  <2>2. PICK k \in 1..NSlots : F[k] = s
    BY <1>2
  <2>3. CASE k = NSlots
    BY <2>1, <2>2, <2>3
  <2>4. CASE k < NSlots
    BY <1>3, <2>1, <2>2, <2>4
  <2> QED BY <2>3, <2>4
<1> DEFINE found == {k \in 0..NSlots - 1 : Back[k] # Nil /\ Evictable(Back[k])}
           best == CHOOSE k \in found : \A i \in found : k <= i
<1>5. 0 \in found /\ Back[0] = F[NSlots]
  <2>1. 0 \in 0..NSlots - 1 /\ NSlots - 0 = NSlots
    OBVIOUS
  <2>2. Back[0] = F[NSlots] /\ F[NSlots] # Nil
    BY <1>2, <2>1
  <2> QED BY <1>4, <2>1, <2>2
<1>6. \A k \in found : k \in Nat
  OBVIOUS
<1>7. EvictOrGetFree = Back[best]
  <2>1. found = {} => FALSE
    BY <1>5
  <2>2. QED
    BY <2>1, Zenon DEF EvictOrGetFree
<1> HIDE DEF found
<1>8. best = 0
  <2>1. best \in found /\ \A i \in found : best <= i
    <3>1. \E k \in found : \A i \in found : k <= i
      BY <1>5, <1>6
    <3> QED BY <3>1
  <2>2. best \in Nat /\ best <= 0
    BY <1>5, <1>6, <2>1
  <2> QED BY <2>2
<1> QED BY <1>4, <1>5, <1>7, <1>8, Zenon DEF F

\* A miss takes a slot that was never used, or replaces the least recently used pair.
LEMMA MissStep ==
  ASSUME CacheIInv, CacheIInv', NEW s \in Slots, CacheMiss(s)
  PROVE  \E p \in Pairs : Lru!Install(p) \/ Lru!Replace(p)
<1>0. todo # <<>> /\ table[<<layer, Head(todo)>>] < 0
  BY DEF CacheMiss
<1>2. PICK p \in Pairs : p = <<layer, Head(todo)>> /\ p # NoPair /\ \A t \in Slots : owner[t] # p
  <2> DEFINE q == <<layer, Head(todo)>>
  <2>1. q \in Pairs
    BY <1>0, TodoFacts DEF CacheIInv, CacheTypeOK, Pairs
  <2>2. q # NoPair
    BY <2>1, CacheAssumption DEF Pairs
  <2>3. table[q] < 0
    BY <1>0
  <2> HIDE DEF q
  <2>4. \A t \in Slots : table[q] # t
    BY <2>3, SlotFacts
  <2>5. \A t \in Slots : owner[t] # q
    BY <2>1, <2>2, <2>4 DEF CacheIInv, TableMatchesOwners
  <2> QED BY <2>1, <2>2, <2>5 DEF q
<1>1. /\ todo # <<>> /\ table[p] < 0 /\ s = EvictOrGetFree /\ Resolve(s)
      /\ lru' = MoveToHead(lru, s) /\ owner' = [owner EXCEPT ![s] = p]
  BY <1>2 DEF CacheMiss
<1>3. Pinned' = Pinned \cup {p}
  <2>1. Pinned' = Pinned \cup {<<layer, Head(todo)>>}
    BY <1>1, PinnedGrows
  <2> QED BY <1>2, <2>1
<1>4. s = Forward[NSlots] /\ Evictable(s)
  BY <1>1, VictimIsTail
<1>5. owner \in [Slots -> Pairs \cup {NoPair}]
  BY DEF CacheIInv, CacheTypeOK
<1>6. owner'[s] = p /\ \A t \in Slots : t # s => owner'[t] = owner[t]
  BY <1>1, <1>5
<1>7. /\ Forward'[1] = s
      /\ \A k \in 2..NSlots : Forward'[k] = Forward[k - 1]
      /\ \A i, k \in 1..NSlots : Forward[i] = Forward[k] => i = k
      /\ \A k \in 1..NSlots : Forward[k] \in Slots
  BY <1>1, <1>4, SlotFacts, WalkAfter
<1> DEFINE F == Forward
           G == Forward'
           n == Count
           n1 == Count'
           R == ResidentOrder
           R1 == ResidentOrder'
<1>8. /\ n \in 0..NSlots /\ n1 \in 0..NSlots
      /\ \A k \in 1..NSlots : k \in 1..n <=> owner[F[k]] # NoPair
      /\ \A k \in 1..NSlots : k \in 1..n1 <=> owner'[G[k]] # NoPair
      /\ R \in [1..n -> Pairs] /\ Len(R) = n /\ \A k \in 1..n : R[k] = owner[F[k]]
      /\ R1 \in [1..n1 -> Pairs] /\ Len(R1) = n1 /\ \A k \in 1..n1 : R1[k] = owner'[G[k]]
  BY LookupShape, Zenon
<1>9. /\ G[1] = s /\ s = F[NSlots] /\ \A k \in 2..NSlots : G[k] = F[k - 1]
      /\ \A i, k \in 1..NSlots : F[i] = F[k] => i = k
      /\ \A k \in 1..NSlots : F[k] \in Slots
  BY <1>4, <1>7
<1> HIDE DEF F, G, n, n1, R, R1
<1>10. NSlots \in Nat /\ NSlots >= 1 /\ n \in Nat /\ n <= NSlots /\ n1 \in Nat /\ n1 <= NSlots
  BY <1>8, SlotFacts
<1>11. \A k \in 2..NSlots : k - 1 \in 1..NSlots /\ k - 1 # NSlots /\ owner'[G[k]] = owner[F[k - 1]]
  <2> TAKE k \in 2..NSlots
  <2>1. k - 1 \in 1..NSlots /\ k - 1 # NSlots /\ NSlots \in 1..NSlots
    BY <1>10
  <2>2. F[k - 1] \in Slots /\ F[k - 1] # s /\ G[k] = F[k - 1]
    BY <1>9, <2>1
  <2> QED BY <1>6, <2>1, <2>2
<1>12. 1 \in 1..n1
  <2>1. 1 \in 1..NSlots
    BY <1>10
  <2>2. owner'[G[1]] # NoPair
    BY <1>2, <1>6, <1>9
  <2> QED BY <1>8, <2>1, <2>2, Zenon
<1>13. \A k \in 2..NSlots : k \in 1..n1 <=> k - 1 \in 1..n
  <2> TAKE k \in 2..NSlots
  <2>1. k \in 1..NSlots /\ k - 1 \in 1..NSlots /\ owner'[G[k]] = owner[F[k - 1]]
    BY <1>10, <1>11
  <2> QED BY <1>8, <2>1
<1>14. n1 = IF n < NSlots THEN n + 1 ELSE NSlots
  <2>1. CASE n < NSlots
    <3>1. n1 >= n + 1
      <4>1. CASE n = 0
        BY <1>10, <1>12, <4>1
      <4>2. CASE n > 0
        <5>1. n + 1 \in 2..NSlots /\ (n + 1) - 1 \in 1..n
          BY <1>10, <2>1, <4>2
        <5>2. n + 1 \in 1..n1
          BY <1>13, <5>1
        <5> QED BY <1>10, <5>2
      <4> QED BY <1>10, <4>1, <4>2
    <3>2. ~(n1 >= n + 2)
      <4>1. SUFFICES ASSUME n1 >= n + 2 PROVE FALSE
        OBVIOUS
      <4>2. n + 2 \in 2..NSlots /\ n + 2 \in 1..n1 /\ (n + 2) - 1 \notin 1..n
        BY <1>10, <4>1
      <4> QED BY <1>13, <4>2
    <3> QED BY <1>10, <2>1, <3>1, <3>2
  <2>2. CASE n = NSlots
    <3>1. CASE NSlots = 1
      BY <1>10, <1>12, <2>2, <3>1
    <3>2. CASE NSlots > 1
      <4>1. NSlots \in 2..NSlots /\ NSlots - 1 \in 1..n
        BY <1>10, <2>2, <3>2
      <4>2. NSlots \in 1..n1
        BY <1>13, <4>1
      <4> QED BY <1>10, <2>2, <4>2
    <3> QED BY <1>10, <3>1, <3>2
  <2> QED BY <1>10, <2>1, <2>2
<1>15. R1 = [k \in 1..n1 |-> IF k = 1 THEN p ELSE R[k - 1]]
  <2> DEFINE W == [k \in 1..n1 |-> IF k = 1 THEN p ELSE R[k - 1]]
  <2>1. ASSUME NEW k \in 1..n1 PROVE R1[k] = IF k = 1 THEN p ELSE R[k - 1]
    <3>1. R1[k] = owner'[G[k]]
      BY <1>8
    <3>2. CASE k = 1
      BY <1>6, <1>9, <3>1, <3>2
    <3>3. CASE k # 1
      <4>1. k \in 2..NSlots /\ k - 1 \in 1..n
        <5>1. k \in 2..NSlots
          BY <1>10, <3>3
        <5> QED BY <1>13, <5>1
      <4>2. R[k - 1] = owner[F[k - 1]]
        BY <1>8, <4>1
      <4> QED BY <1>11, <3>1, <3>3, <4>1, <4>2
    <3> QED BY <3>2, <3>3
  <2>2. \A k \in 1..n1 : R1[k] = W[k]
    BY <2>1
  <2> QED BY <1>8, <2>2
<1>16. p \notin {R[i] : i \in 1..Len(R)}
  <2> SUFFICES ASSUME NEW i \in 1..n, R[i] = p PROVE FALSE
    BY <1>8
  <2>1. i \in 1..NSlots
    BY <1>10
  <2>2. F[i] \in Slots /\ owner[F[i]] = p
    BY <1>8, <1>9, <2>1
  <2> QED BY <1>2, <2>2
<1>17. CASE n < NSlots
  <2>1. n1 = Len(R) + 1 /\ Len(R) < NSlots
    BY <1>8, <1>14, <1>17
  <2>2. R1 = [k \in 1..Len(R) + 1 |-> IF k = 1 THEN p ELSE R[k - 1]]
    BY <1>15, <2>1
  <2>3. Lru!Install(p)
    BY <1>3, <1>16, <2>1, <2>2, Zenon DEF Lru!Install, Lru!Enters, Lru!Resident, R, R1, Pinned
  <2> QED BY <1>2, <2>3, Zenon
<1>18. CASE n = NSlots
  <2>1. n1 = NSlots /\ Len(R) = NSlots /\ NSlots \in 1..n /\ R[NSlots] = owner[s]
    BY <1>8, <1>9, <1>10, <1>14, <1>18
  <2>2. R[NSlots] \notin Pinned
    <3> SUFFICES ASSUME NEW r \in resolved, owner[s] = <<layer, r[1]>> PROVE FALSE
      BY <2>1 DEF Pinned
    <3>1. /\ owner[r[2]] = <<layer, r[1]>> /\ safe_gen[r[2]] > gen_completed
          /\ r[1] \in Experts /\ r[2] \in Slots /\ layer \in Layers
          /\ safe_gen[r[2]] \in Int /\ gen_completed \in Int
      BY DEF CacheIInv, ResolvedStayResident, CacheTypeOK
    <3>2. <<layer, r[1]>> \in Pairs /\ <<layer, r[1]>> # NoPair
      BY <3>1, CacheAssumption DEF Pairs
    <3>3. s = r[2]
      BY <3>1, <3>2 DEF CacheIInv, TableMatchesOwners
    <3>4. safe_gen[s] <= gen_completed
      BY <1>4, <3>2 DEF Evictable
    <3> QED BY <3>1, <3>3, <3>4
  <2>3. R1 = [k \in 1..NSlots |-> IF k = 1 THEN p ELSE R[k - 1]]
    BY <1>15, <2>1
  <2>4. Lru!Replace(p)
    BY <1>3, <1>16, <2>1, <2>2, <2>3, Zenon DEF Lru!Replace, Lru!Enters, Lru!Resident, R, R1, Pinned
  <2> QED BY <1>2, <2>4, Zenon
<1> QED BY <1>10, <1>17, <1>18

\* Every step of the store is a step of the LRU cache, or none of its business.
LEMMA LruStep == CacheIInv /\ CacheIInv' /\ [CacheNext]_cacheVars => [Lru!LruNext]_(Lru!lruVars)
<1> SUFFICES ASSUME CacheIInv, CacheIInv', [CacheNext]_cacheVars
             PROVE  Lru!LruNext \/ (ResidentOrder' = ResidentOrder /\ Pinned' = Pinned)
  BY Zenon DEF Lru!lruVars, Pinned
<1>1. ASSUME UNCHANGED <<lru, owner>> PROVE ResidentOrder' = ResidentOrder
  <2>1. Forward' = Forward
    BY <1>1, ForwardFrame
  <2>2. ResidentPlaces' = ResidentPlaces
    BY <1>1, <2>1, Zenon DEF ResidentPlaces
  <2> QED BY <1>1, <2>1, <2>2, Zenon DEF ResidentOrder
<1>2. ASSUME NEW l \in Layers, NEW sel \in Selections, SelectExperts(l, sel)
      PROVE  ResidentOrder' = ResidentOrder /\ Pinned' = Pinned
  <2>1. UNCHANGED <<lru, owner, resolved>> /\ resolved = {}
    BY <1>2 DEF SelectExperts, storeVars
  <2>2. Pinned' = Pinned
    BY <2>1 DEF Pinned
  <2> QED BY <1>1, <2>1, <2>2
<1>3. CASE CacheHit
  BY <1>3, HitStep, Zenon DEF Lru!LruNext
<1>4. ASSUME NEW s \in Slots, CacheMiss(s) PROVE Lru!LruNext
  BY <1>4, MissStep, Zenon DEF Lru!LruNext
<1>5. CASE GpuEndOk
  <2>1. UNCHANGED <<lru, owner>> /\ resolved' = {}
    BY <1>5 DEF GpuEndOk, storeVars
  <2>2. ResidentOrder' = ResidentOrder
    BY <1>1, <2>1
  <2>3. Pinned' = {}
    BY <2>1 DEF Pinned
  <2> QED BY <2>2, <2>3, Zenon DEF Lru!LruNext, Lru!GpuIdle, Pinned
<1>6. ASSUME UNCHANGED <<lru, owner, layer, resolved>>
      PROVE  ResidentOrder' = ResidentOrder /\ Pinned' = Pinned
  BY <1>1, <1>6 DEF Pinned
<1>7. CASE ProcessDies
  BY <1>6, <1>7 DEF ProcessDies, storeVars, callVars
<1>8. CASE UNCHANGED cacheVars
  BY <1>6, <1>8 DEF cacheVars, storeVars, callVars
<1> QED BY <1>2, <1>3, <1>4, <1>5, <1>7, <1>8, Zenon DEF CacheNext

\* The store is a strict LRU cache that never drops a pair in use, for any number of
\* slots, layers and experts.
THEOREM CacheImplementsLru == CacheSpec => ImplementsLru
<1>1. CacheInit => Lru!LruInit
  <2> SUFFICES ASSUME CacheInit PROVE ResidentOrder = <<>> /\ Pinned = {}
    BY Zenon DEF Lru!LruInit, Pinned
  <2>1. Pinned = {}
    BY DEF CacheInit, Pinned
  <2>2. OrderShape /\ ListInv
    BY CacheInitInv, ResidentShape DEF CacheIInv
  <2>3. \A k \in 1..NSlots : owner[Forward[k]] = NoPair
    <3>1. \A k \in 1..NSlots : Forward[k] \in Slots
      BY <2>2, ForwardIsOrder DEF ForwardOrdered, Ordered
    <3> HIDE DEF Forward
    <3> QED BY <3>1 DEF CacheInit, StoreInit
  <2>4. ResidentPlaces = {}
    BY <2>3, Zenon DEF ResidentPlaces
  <2>5. Count = 0
    BY <2>4, FS_EmptySet DEF Count
  <2>6. ResidentOrder \in [1..0 -> Pairs] /\ Len(ResidentOrder) = 0
    BY <2>2, <2>5 DEF OrderShape
  <2>7. ResidentOrder = <<>>
    BY <2>6
  <2> QED BY <2>1, <2>7
<1>2. QED
  BY <1>1, CacheInvariant, LruStep, PTL DEF CacheSpec, ImplementsLru, Lru!LruSpec
=============================================================================
