---------------------------- MODULE MoeStepProofs -----------------------------
(***************************************************************************)
(* The MoE layer on the GPU path is right for any number of experts,       *)
(* slots, loader threads and reads: the main thread keeps the rules its    *)
(* parts were verified under, and no interleaving lets a dispatch read     *)
(* bytes of another expert or of an unfinished read.                       *)
(***************************************************************************)
EXTENDS MoeStep, ExpertStreamProofs, GpuBatchProofs

-----------------------------------------------------------------------------
(* The invariant: that of each part, and that of the step.                 *)

StepIInv == PoolIInv /\ CacheIInv /\ GpuIInv /\ MoeIInv

\* The constants as numbers, and the dispatches as records.
LEMMA StepConstants ==
  /\ TopK \in Nat \ {0} /\ NReads \in Nat \ {0} /\ Jobs = Picks /\ Picks = 1..TopK
  /\ Ops = [pick : 0..TopK, slot : Slots]
  /\ JobsFitQueue
<1>1. /\ TopK \in Nat \ {0} /\ NReads \in Nat \ {0} /\ Jobs = Picks /\ Picks = 1..TopK
      /\ Ops = [pick : 0..TopK, slot : Slots] /\ TopK <= QueueCap
  BY MoeAssumption, CacheAssumption, PoolAssumption DEF Picks
<1>2. IsFiniteSet(Jobs) /\ Cardinality(Jobs) = TopK
  BY <1>1, FS_Interval
<1>3. QED
  BY <1>1, <1>2 DEF JobsFitQueue

\* The variables of the parts that the step's invariant speaks of.
poolSeen == <<started, mpc, marg, taken, landed>>
cacheSeen == <<owner, layer, todo, resolved>>

-----------------------------------------------------------------------------
(* Every step is one that the pool, the store and the batches allow.       *)

Obeys == /\ [PoolNext]_poolVars /\ [CacheNext]_cacheVars
         /\ [HostCall \/ GpuNext]_gpuVars

\* While jobs are submitted or waited for, the pool is started, and the position
\* at hand is not outstanding, or is.
LEMMA CallerFacts ==
  ASSUME StepIInv
  PROVE  /\ at = "resolve" => started /\ (todo # <<>> => Current \in Jobs \ taken)
         /\ at = "pass2" => started /\ taken = pending \ encoded /\ pending \subseteq Jobs
         /\ at = "freed" => taken = {} /\ started
<1>1. PlaceInv /\ LoopInv /\ MoeTypeOK
  BY DEF StepIInv, MoeIInv
<1>2. ASSUME at = "resolve", todo # <<>> PROVE Current \in Jobs \ taken
  <2>1. Len(todo) \in 1..TopK
    BY <1>2, TodoFacts DEF StepIInv, CacheIInv, CacheTypeOK
  <2>2. Current \in Jobs /\ Current \notin 1..TopK - Len(todo)
    BY <2>1, StepConstants DEF Current
  <2>3. taken \subseteq 1..TopK - Len(todo)
    BY <1>1, <1>2 DEF PlaceInv, LoopInv
  <2>4. QED
    BY <2>2, <2>3
<1>3. at = "pass2" => started /\ taken = pending \ encoded /\ pending \subseteq Jobs
  BY <1>1, StepConstants DEF PlaceInv, MoeTypeOK
<1>4. QED
  BY <1>1, <1>2, <1>3 DEF PlaceInv, InCall

\* The host's calls to the GPU leave the pool and the store alone.
LEMMA HostCallObeys ==
  ASSUME UNCHANGED <<poolOnly, cacheOnly, alive>>, HostCall
  PROVE  Obeys
BY DEF Obeys, poolOnly, poolVars, cacheOnly, cacheVars

\* Dying is allowed to the pool's caller outside its functions, and to the store.
LEMMA DieObeys ==
  ASSUME UNCHANGED <<poolOnly, cacheOnly>>, Die, mpc = "out", [HostCall \/ GpuNext]_gpuVars
  PROVE  Obeys
<1>1. CallerDies
  BY DEF CallerDies, poolOnly
<1>2. ProcessDies
  BY DEF ProcessDies, cacheOnly
<1>3. QED
  BY <1>1, <1>2 DEF Obeys, PoolNext, CacheNext

\* A step of the pool that leaves the process alone, or ends it, is one of no
\* other part.
LEMMA PoolObeys ==
  ASSUME PoolNext, UNCHANGED <<cacheOnly, gpuVars>>, UNCHANGED alive \/ Die
  PROVE  Obeys
<1>1. CASE UNCHANGED alive
  BY <1>1 DEF Obeys, cacheOnly, cacheVars
<1>2. CASE Die
  <2>1. ProcessDies
    BY <1>2 DEF ProcessDies, cacheOnly
  <2>2. QED
    BY <2>1 DEF Obeys, CacheNext
<1>3. QED
  BY <1>1, <1>2

\* The main thread keeps the rules under which pool, store and batches were
\* verified, and so do the loader threads and the GPU.
LEMMA StepObeys == StepIInv /\ [MoeNext]_vars => Obeys
<1> SUFFICES ASSUME StepIInv, [MoeNext]_vars PROVE Obeys
  OBVIOUS
<1>1. CASE Boot \/ OpenForward \/ EncodeRouter \/ OpenRouted \/ FlushHits \/ Mix
  <2>1. Router \in Ops
    BY StepConstants, SlotFacts DEF Router, Slots
  <2>2. UNCHANGED <<poolOnly, cacheOnly, alive>> /\ HostCall
    BY <1>1, <2>1 DEF Boot, OpenForward, EncodeRouter, OpenRouted, FlushHits, Mix, HostCall
  <2>3. QED
    BY <2>2, HostCallObeys
<1>2. ASSUME NEW from, NEW to, GpuEnd(from, to) PROVE Obeys
  BY <1>2, HostCallObeys DEF GpuEnd, HostCall
<1>3. ASSUME NEW j \in Picks, EncodeHit(j) \/ EncodeMiss(j) PROVE Obeys
  <2>1. Routed(j) \in Ops
    <3>1. cslot[j] \in Slots
      BY DEF StepIInv, MoeIInv, MoeTypeOK
    <3>2. QED
      BY <3>1, StepConstants DEF Routed
  <2>2. UNCHANGED <<poolOnly, cacheOnly, alive>> /\ HostCall
    BY <1>3, <2>1 DEF EncodeHit, EncodeMiss, HostCall
  <2>3. QED
    BY <2>2, HostCallObeys
<1>4. CASE Load
  <2>1. PoolNext /\ UNCHANGED <<cacheOnly, gpuVars, alive>>
    BY <1>4 DEF Load, Main, PoolStart, PoolNext, CallerChoice
  <2>2. QED
    BY <2>1, PoolObeys
<1>5. ASSUME NEW from, NEW to, EndOk(from, to) PROVE Obeys
  <2>1. UNCHANGED <<poolOnly, alive>> /\ GpuEndOk /\ EndReturn
    BY <1>5 DEF EndOk, GpuEndOk
  <2>2. QED
    BY <2>1 DEF Obeys, poolOnly, poolVars, CacheNext, HostCall
<1>6. CASE EndDies \/ GpuCallDies
  <2>1. UNCHANGED <<poolOnly, cacheOnly>> /\ Die /\ mpc = "out" /\ [HostCall \/ GpuNext]_gpuVars
    BY <1>6 DEF EndDies, GpuCallDies, HostCall
  <2>2. QED
    BY <2>1, DieObeys
<1>7. ASSUME NEW l \in Layers, NEW sel \in Selections, Route(l, sel) PROVE Obeys
  <2>1. SelectExperts(l, sel) /\ UNCHANGED <<poolOnly, gpuVars, alive>>
    BY <1>7 DEF Route, SelectExperts
  <2>2. QED
    BY <2>1 DEF Obeys, poolOnly, poolVars, CacheNext
<1>8. CASE ResolveHit
  <2>1. CacheHit /\ UNCHANGED <<poolOnly, gpuVars, alive>>
    BY <1>8 DEF ResolveHit, CacheHit
  <2>2. QED
    BY <2>1 DEF Obeys, poolOnly, poolVars, CacheNext
<1>9. ASSUME NEW s \in Slots, ResolveMiss(s) PROVE Obeys
  <2>1. at = "resolve" /\ CacheMiss(s) /\ todo # <<>> /\ SubmitReset(Current) /\ UNCHANGED gpuVars
    BY <1>9 DEF ResolveMiss, Main, CacheMiss
  <2>2. started /\ Current \in Jobs \ taken
    BY <2>1, CallerFacts
  <2>3. PoolNext
    BY <2>1, <2>2 DEF PoolNext, CallerChoice
  <2>4. CacheNext
    BY <2>1 DEF CacheNext
  <2>5. QED
    BY <2>1, <2>3, <2>4 DEF Obeys
<1>10. ASSUME NEW j \in Picks, AwaitMiss(j) PROVE Obeys
  <2>1. at = "pass2" /\ NextOf(pending, j) /\ WaitCall(j) /\ UNCHANGED <<cacheOnly, gpuVars, alive>>
    BY <1>10 DEF AwaitMiss, Main, WaitCall
  <2>2. started /\ j \in taken
    BY <2>1, CallerFacts DEF NextOf
  <2>3. PoolNext
    BY <2>1, <2>2 DEF PoolNext, CallerChoice
  <2>4. QED
    BY <2>1, <2>3, PoolObeys
<1>11. CASE MissArrived
  <2>1. PoolNext /\ UNCHANGED <<cacheOnly, gpuVars, alive>>
    BY <1>11 DEF MissArrived, WaitReturn, PoolNext, CallerProgress
  <2>2. QED
    BY <2>1, PoolObeys
<1>12. CASE FreeStore
  BY <1>12 DEF FreeStore, Obeys, poolOnly, poolVars, cacheOnly, cacheVars
<1>13. CASE StopPool
  <2>1. ShutdownSignal /\ taken = {} /\ UNCHANGED <<cacheOnly, gpuVars, alive>>
    BY <1>13, CallerFacts DEF StopPool, Main, ShutdownSignal
  <2>2. PoolNext
    BY <2>1 DEF PoolNext, CallerChoice
  <2>3. QED
    BY <2>1, <2>2, PoolObeys
<1>14. CASE InsidePool \/ SpuriousWakeup
  <2>1. UNCHANGED <<cacheOnly, gpuVars>> /\ PoolNext
    BY <1>14 DEF InsidePool, SpuriousWakeup, PoolNext, CallerProgress
  <2>2. UNCHANGED alive \/ Die
    BY <1>14 DEF InsidePool, SpuriousWakeup, SubmitEnqueue, SubmitOverflow, WaitBlock, ShutdownJoin,
         SpuriousCaller
  <2>3. QED
    BY <2>1, <2>2, PoolObeys
<1>15. ASSUME NEW w \in Workers, LoaderStep(w) PROVE Obeys
  <2>1. WorkerStep(w) /\ UNCHANGED <<cacheOnly, gpuVars>>
    BY <1>15 DEF LoaderStep
  <2>2. UNCHANGED alive \/ Die
    BY <2>1 DEF WorkerStep, WorkerProgress, WorkerTake, WorkerSleep, WorkerExit, WorkerRead,
         WorkerPublish, WorkerReadFails, SpuriousWorker
  <2>3. QED
    BY <2>1, <2>2, PoolObeys DEF PoolNext
<1>16. CASE GpuStep
  BY <1>16 DEF GpuStep, Obeys, poolOnly, poolVars, cacheOnly, cacheVars
<1>17. CASE Done \/ UNCHANGED vars
  <2>1. UNCHANGED <<poolOnly, cacheOnly, gpuVars, alive>>
    BY <1>17 DEF Done, vars
  <2>2. QED
    BY <2>1 DEF Obeys, poolOnly, poolVars, cacheOnly, cacheVars
<1>18. QED
  BY <1>1, <1>2, <1>3, <1>4, <1>5, <1>6, <1>7, <1>8, <1>9, <1>10, <1>11, <1>12, <1>13, <1>14,
     <1>15, <1>16, <1>17, Zenon DEF MoeNext, MainStep

\* So the parts' invariants hold under this host.
LEMMA PartsPreserved ==
  StepIInv /\ [MoeNext]_vars => PoolIInv' /\ CacheIInv' /\ GpuIInv'
<1>1. StepIInv => PoolIInv /\ CacheIInv /\ GpuIInv
  BY DEF StepIInv
<1>2. QED
  BY <1>1, StepObeys, NextPreserved, CacheNextPreserved, GpuNextPreserved DEF Obeys

-----------------------------------------------------------------------------
(* What a step that leaves a component's variables alone keeps.            *)

\* What is seen of the pool and the store, one variable at a time.
LEMMA SeenUnchanged ==
  /\ UNCHANGED poolOnly => /\ started' = started /\ mpc' = mpc /\ marg' = marg
                           /\ taken' = taken /\ landed' = landed /\ done' = done
  /\ UNCHANGED cacheOnly => /\ owner' = owner /\ layer' = layer
                            /\ todo' = todo /\ resolved' = resolved
BY DEF poolOnly, flags, callerVars, jobVars, cacheOnly, storeVars, callVars

\* The slabs agree with owners and jobs as long as none of them changes.
LEMMA SlabFrame ==
  ASSUME SlabInv, taken' = taken, owner' = owner, cslot' = cslot, layer' = layer,
         topk_idx' = topk_idx, landed' = landed, slab' = slab
  PROVE  SlabInv'
BY DEF SlabInv, Expert

\* The queue and the open batch determine what is in flight.
LEMMA FlightFrame ==
  ASSUME batch' = batch, committed' = committed
  PROVE  InFlight' = InFlight
<1>1. \A op : (InBatch(op)' <=> InBatch(op)) /\ (InQueue(op)' <=> InQueue(op))
  BY DEF InBatch, InQueue
<1>2. QED
  BY <1>1 DEF InFlight

\* Rows and dispatches stay right where nothing is encoded or run.
LEMMA RowsFrame ==
  ASSUME RowsInv, InFlight' = InFlight, cslot' = cslot, layer' = layer, topk_idx' = topk_idx,
         routed_raw' = routed_raw, faulted' = faulted, encoded' = encoded,
         at \in Dispatching => at' \in Dispatching,
         at' \in Dispatching \cup {"mix"} => at \in Dispatching \cup {"mix"}
  PROVE  RowsInv'
BY DEF RowsInv, Expert, Routed

\* Nothing is in flight and no call is at a place where rows count.
LEMMA RowsIdle ==
  ASSUME RowsInv, InFlight' = {}, layer' = layer, topk_idx' = topk_idx,
         routed_raw' = routed_raw, at' \notin Dispatching \cup {"mix"}
  PROVE  RowsInv'
BY DEF RowsInv, Expert

\* The types, where only the place and the encoded positions change.
LEMMA TypeFrame ==
  ASSUME MoeTypeOK, at' \in {"boot", "load", "idle", "open", "router", "sync1", "select",
            "resolve", "pass1", "pass2", "await", "encode", "sync2", "mix", "readback", "freed", "exit"},
         encoded' \in SUBSET Picks, topk_idx' = topk_idx, cslot' = cslot, pending' = pending,
         routed_raw' = routed_raw, slab' = slab, freed' \in BOOLEAN
  PROVE  MoeTypeOK'
BY DEF MoeTypeOK

\* A batch that is opened with the queue empty has nothing in flight.
LEMMA BeginEmpty ==
  ASSUME committed = <<>>, batch = NoBatch, Begin
  PROVE  /\ committed' = <<>> /\ batch' = <<>> /\ InFlight' = {}
         /\ faulted' = FALSE /\ hostAt' = hostAt
<1>1. /\ batch' = <<>> /\ faulted' = FALSE /\ hostAt' = hostAt
      /\ committed' = [i \in 1..Len(committed) |-> [committed[i] EXCEPT !.current = FALSE]]
  BY DEF Begin
<1>2. committed' = <<>>
  BY <1>1
<1>3. \A op : ~InBatch(op)' /\ ~InQueue(op)'
  BY <1>1, <1>2 DEF InBatch, InQueue
<1>4. QED
  BY <1>1, <1>2, <1>3 DEF InFlight

-----------------------------------------------------------------------------
(* The main thread's steps outside the loops.                              *)

\* sepia_gpu_init and the pool's start.
LEMMA StartPreserved ==
  ASSUME StepIInv, Boot \/ Load
  PROVE  MoeIInv'
<1> USE DEF StepIInv, MoeIInv
<1>1. CASE Boot
  <2>1. /\ alive /\ mpc = "out" /\ at = "boot" /\ at' = "load"
        /\ UNCHANGED <<poolOnly, cacheOnly, encoded, moeOthers, alive>>
        /\ UNCHANGED <<batch, committed, hostAt, faulted>>
    BY <1>1 DEF Boot, Main, GpuStartup
  <2>2. UNCHANGED <<topk_idx, cslot, pending, routed_raw, slab, freed>>
    BY <2>1 DEF moeOthers
  <2>3. /\ started' = started /\ mpc' = mpc /\ marg' = marg /\ taken' = taken /\ landed' = landed
        /\ owner' = owner /\ layer' = layer /\ todo' = todo /\ resolved' = resolved
    BY <2>1, SeenUnchanged
  <2>4. MoeTypeOK'
    BY <2>1, <2>2, TypeFrame DEF MoeTypeOK
  <2>5. PlaceInv'
    BY <2>1, <2>2, <2>3 DEF PlaceInv, InCall
  <2>6. LoopInv'
    BY <2>1, <2>2, <2>3 DEF LoopInv, InCall
  <2>7. QueueInv'
    BY <2>1, <2>2, <2>3 DEF QueueInv, Syncing
  <2>8. SlabInv'
    BY <2>2, <2>3, SlabFrame
  <2>9. RowsInv'
    BY <2>1, <2>2, <2>3, FlightFrame, RowsFrame DEF Dispatching
  <2>10. QED
    BY <2>4, <2>5, <2>6, <2>7, <2>8, <2>9
<1>2. CASE Load
  <2>1. /\ alive /\ mpc = "out" /\ at = "load" /\ at' = "idle"
        /\ UNCHANGED <<cacheOnly, gpuVars, encoded, moeOthers>>
        /\ started' = TRUE /\ UNCHANGED <<jobVars, callerVars, alive>>
    BY <1>2 DEF Load, Main, PoolStart
  <2>2. UNCHANGED <<topk_idx, cslot, pending, routed_raw, slab, freed, batch, committed, hostAt, faulted>>
    BY <2>1 DEF moeOthers, gpuVars
  <2>3. /\ mpc' = mpc /\ marg' = marg /\ taken' = taken /\ landed' = landed
        /\ owner' = owner /\ layer' = layer /\ todo' = todo /\ resolved' = resolved
    BY <2>1, SeenUnchanged DEF jobVars, callerVars
  <2>4. MoeTypeOK'
    BY <2>1, <2>2, TypeFrame DEF MoeTypeOK
  <2>5. PlaceInv'
    BY <2>1, <2>2, <2>3 DEF PlaceInv, InCall
  <2>6. LoopInv'
    BY <2>1, <2>2, <2>3 DEF LoopInv, InCall
  <2>7. QueueInv'
    BY <2>1, <2>2, <2>3 DEF QueueInv, Syncing
  <2>8. SlabInv'
    BY <2>2, <2>3, SlabFrame
  <2>9. RowsInv'
    BY <2>1, <2>2, <2>3, FlightFrame, RowsFrame DEF Dispatching
  <2>10. QED
    BY <2>4, <2>5, <2>6, <2>7, <2>8, <2>9
<1>3. QED
  BY <1>1, <1>2

\* A batch is opened for a layer, and again after its rows are mixed.
LEMMA OpenPreserved ==
  ASSUME StepIInv, OpenForward \/ Mix \/ OpenRouted
  PROVE  MoeIInv'
<1> USE DEF StepIInv, MoeIInv
<1>1. /\ alive /\ mpc = "out" /\ Begin
      /\ \/ at = "idle" /\ at' = "open"
         \/ at = "mix" /\ at' = "open"
         \/ at = "resolve" /\ at' = "pass1" /\ todo = <<>>
      /\ UNCHANGED <<poolOnly, cacheOnly, encoded, moeOthers, alive>>
  BY DEF OpenForward, Mix, OpenRouted, Main
<1>2. UNCHANGED <<topk_idx, cslot, pending, routed_raw, slab, freed>>
  BY <1>1 DEF moeOthers
<1>3. /\ started' = started /\ mpc' = mpc /\ marg' = marg /\ taken' = taken /\ landed' = landed
      /\ owner' = owner /\ layer' = layer /\ todo' = todo /\ resolved' = resolved
  BY <1>1, SeenUnchanged
<1>4. /\ committed' = <<>> /\ batch' = <<>> /\ InFlight' = {}
      /\ faulted' = FALSE /\ hostAt' = hostAt
  <2>1. batch = NoBatch /\ committed = <<>>
    BY <1>1 DEF QueueInv
  <2>2. QED
    BY <1>1, <2>1, BeginEmpty
<1>5. MoeTypeOK'
  BY <1>1, <1>2, TypeFrame DEF MoeTypeOK
<1>6. PlaceInv'
  BY <1>1, <1>2, <1>3 DEF PlaceInv, InCall
<1>7. LoopInv'
  BY <1>1, <1>2, <1>3 DEF LoopInv, InCall
<1>8. QueueInv'
  BY <1>1, <1>2, <1>4 DEF QueueInv, Syncing
<1>9. SlabInv'
  BY <1>2, <1>3, SlabFrame
<1>10. RowsInv'
  <2>1. CASE at' = "open"
    BY <1>2, <1>3, <1>4, <2>1, RowsIdle DEF Dispatching
  <2>2. CASE at' = "pass1"
    <3>1. encoded' = {}
      BY <1>1, <2>2 DEF LoopInv
    <3>2. QED
      BY <1>2, <1>3, <1>4, <3>1 DEF RowsInv, Expert
  <2>3. QED
    BY <1>1, <2>1, <2>2
<1>11. QED
  BY <1>5, <1>6, <1>7, <1>8, <1>9, <1>10

\* The router's dispatches are encoded.
LEMMA RouterPreserved ==
  ASSUME StepIInv, EncodeRouter
  PROVE  MoeIInv'
<1> USE DEF StepIInv, MoeIInv
<1>1. /\ alive /\ mpc = "out" /\ Dispatch(Router) /\ at = "open" /\ at' = "router"
      /\ UNCHANGED <<poolOnly, cacheOnly, encoded, moeOthers, alive>>
      /\ UNCHANGED <<committed, hostAt, faulted>> 
  BY DEF EncodeRouter, Main, Dispatch
<1>2. UNCHANGED <<topk_idx, cslot, pending, routed_raw, slab, freed>>
  BY <1>1 DEF moeOthers
<1>3. /\ started' = started /\ mpc' = mpc /\ marg' = marg /\ taken' = taken /\ landed' = landed
      /\ owner' = owner /\ layer' = layer /\ todo' = todo /\ resolved' = resolved
  BY <1>1, SeenUnchanged
<1>4. Router \in Ops /\ Router.pick = 0
  BY StepConstants, SlotFacts DEF Router, Slots
<1>5. InFlight' = InFlight \cup {Router}
  BY <1>1, <1>4, DispatchInFlight
<1>6. MoeTypeOK'
  BY <1>1, <1>2, TypeFrame DEF MoeTypeOK
<1>7. PlaceInv'
  BY <1>1, <1>2, <1>3 DEF PlaceInv, InCall
<1>8. LoopInv'
  BY <1>1, <1>2, <1>3 DEF LoopInv, InCall
<1>9. QueueInv'
  BY <1>1, <1>2 DEF QueueInv, Syncing
<1>10. SlabInv'
  BY <1>2, <1>3, SlabFrame
<1>11. RowsInv'
  <2>1. \A op \in InFlight' : op.pick = 0
    BY <1>1, <1>4, <1>5 DEF RowsInv, Dispatching
  <2>2. QED
    BY <1>1, <1>2, <1>3, <2>1 DEF RowsInv, Expert, Dispatching
<1>12. QED
  BY <1>6, <1>7, <1>8, <1>9, <1>10, <1>11

\* A batch that is committed is of the current begin.
LEMMA CommitCurrent ==
  ASSUME GpuIInv, QueueInv, batch # NoBatch, NEW a \in BOOLEAN, Commit(a)
  PROVE  \A i \in 1..Len(committed') : committed'[i].current
<1> DEFINE last == [ops |-> batch, awaited |-> a, current |-> TRUE]
<1>1. committed \in Seq(Buffers) /\ last \in Buffers /\ committed' = Append(committed, last) /\ last.current
  BY DEF GpuIInv, Buffers, Commit
<1> HIDE DEF last
<1>2. /\ Len(committed') = Len(committed) + 1 /\ committed'[Len(committed) + 1] = last
      /\ \A i \in 1..Len(committed) : committed'[i] = committed[i]
      /\ Len(committed) \in Nat
  BY <1>1, AppendProperties, LenProperties
<1>3. QED
  BY <1>1, <1>2 DEF QueueInv

\* sepia_gpu_end commits the open batch and blocks.
LEMMA EndPreserved ==
  ASSUME StepIInv, \/ GpuEnd("router", "sync1") \/ GpuEnd("open", "readback")
                   \/ AllEncoded /\ GpuEnd("pass2", "sync2")
  PROVE  MoeIInv'
<1> USE DEF StepIInv, MoeIInv
<1>1. /\ alive /\ mpc = "out" /\ EndCommit
      /\ \/ at = "router" /\ at' = "sync1"
         \/ at = "open" /\ at' = "readback"
         \/ at = "pass2" /\ at' = "sync2" /\ Picks \subseteq encoded
      /\ UNCHANGED <<poolOnly, cacheOnly, encoded, moeOthers, alive>>
  BY DEF GpuEnd, Main, AllEncoded
<1>2. UNCHANGED <<topk_idx, cslot, pending, routed_raw, slab, freed>>
  BY <1>1 DEF moeOthers
<1>3. /\ started' = started /\ mpc' = mpc /\ marg' = marg /\ taken' = taken /\ landed' = landed
      /\ owner' = owner /\ layer' = layer /\ todo' = todo /\ resolved' = resolved
  BY <1>1, SeenUnchanged
<1>4. /\ batch # NoBatch /\ Commit(TRUE) /\ batch' = NoBatch /\ hostAt' = "ending"
      /\ faulted' = faulted
  BY <1>1 DEF EndCommit, CloseBatch
<1>5. InFlight' = InFlight
  BY <1>4, CommitInFlight
<1>6. \A i \in 1..Len(committed') : committed'[i].current
  BY <1>4, CommitCurrent
<1>7. MoeTypeOK'
  BY <1>1, <1>2, TypeFrame DEF MoeTypeOK
<1>8. PlaceInv'
  <2>1. CASE at = "pass2"
    <3>1. taken = {} /\ at' = "sync2"
      BY <1>1, <2>1 DEF PlaceInv, MoeTypeOK
    <3>2. QED
      BY <1>1, <1>3, <3>1, <2>1 DEF PlaceInv, InCall
  <2>2. CASE at # "pass2"
    BY <1>1, <1>2, <1>3, <2>2 DEF PlaceInv, InCall
  <2>3. QED
    BY <2>1, <2>2
<1>9. LoopInv'
  BY <1>1, <1>2, <1>3 DEF LoopInv, InCall
<1>10. QueueInv'
  BY <1>1, <1>2, <1>4, <1>6 DEF QueueInv, Syncing
<1>11. SlabInv'
  BY <1>2, <1>3, SlabFrame
<1>12. RowsInv'
  <2>1. at \in Dispatching => at' \in Dispatching
    BY <1>1 DEF Dispatching
  <2>2. at' \in Dispatching \cup {"mix"} => at \in Dispatching \cup {"mix"}
    BY <1>1 DEF Dispatching
  <2>3. encoded' = encoded
    BY <1>1
  <2>4. QED
    BY <1>2, <1>3, <1>4, <1>5, <2>1, <2>2, <2>3, RowsFrame
<1>13. QED
  BY <1>7, <1>8, <1>9, <1>10, <1>11, <1>12

\* What sepia_gpu_end leaves when it returns to real_gpu_end.
LEMMA EndReturnDrained ==
  ASSUME GpuIInv, EndReturn
  PROVE  /\ hostAt = "ending" /\ hostAt' = "host" /\ batch = NoBatch /\ committed = <<>>
         /\ batch' = batch /\ committed' = committed /\ faulted' = faulted
         /\ InFlight = {} /\ InFlight' = {}
<1>1. /\ hostAt = "ending" /\ cbStatus # "running" /\ hostAt' = "host"
      /\ batch' = batch /\ committed' = committed /\ faulted' = faulted
  BY DEF EndReturn
<1>2. batch = NoBatch /\ committed = <<>>
  BY <1>1 DEF GpuIInv, AwaitedLast
<1>3. InFlight = {}
  BY <1>2, NothingInFlight
<1>4. QED
  BY <1>1, <1>2, <1>3, FlightFrame

\* real_gpu_end returns with every dispatch executed or faulted.
LEMMA EndOkPreserved ==
  ASSUME StepIInv, EndOk("sync1", "select") \/ EndOk("sync2", "mix") \/ EndOk("readback", "idle")
  PROVE  MoeIInv'
<1> USE DEF StepIInv, MoeIInv
<1>1. /\ alive /\ mpc = "out" /\ EndReturn /\ GpuEndOk
      /\ \/ at = "sync1" /\ at' = "select"
         \/ at = "sync2" /\ at' = "mix"
         \/ at = "readback" /\ at' = "idle"
      /\ UNCHANGED <<poolOnly, encoded, moeOthers>>
  BY DEF EndOk, Main
<1>2. UNCHANGED <<topk_idx, cslot, pending, routed_raw, slab, freed>>
  BY <1>1 DEF moeOthers
<1>3. /\ started' = started /\ mpc' = mpc /\ marg' = marg /\ taken' = taken /\ landed' = landed
      /\ owner' = owner /\ layer' = layer /\ todo' = todo /\ resolved' = {} /\ alive' = alive
  BY <1>1, SeenUnchanged DEF GpuEndOk, storeVars
<1>4. /\ hostAt = "ending" /\ hostAt' = "host" /\ batch = NoBatch /\ committed = <<>>
      /\ batch' = batch /\ committed' = committed /\ faulted' = faulted
      /\ InFlight = {} /\ InFlight' = {}
  BY <1>1, EndReturnDrained
<1>5. MoeTypeOK'
  BY <1>1, <1>2, TypeFrame DEF MoeTypeOK
<1>6. PlaceInv'
  BY <1>1, <1>2, <1>3 DEF PlaceInv, InCall
<1>7. LoopInv'
  BY <1>1, <1>2, <1>3 DEF LoopInv, InCall
<1>8. QueueInv'
  BY <1>1, <1>2, <1>3, <1>4 DEF QueueInv, Syncing
<1>9. SlabInv'
  BY <1>2, <1>3, SlabFrame
<1>10. RowsInv'
  <2>1. CASE at' = "mix"
    <3>1. at \in Dispatching
      BY <1>1, <2>1 DEF Dispatching
    <3>2. QED
      BY <1>1, <1>2, <1>3, <1>4, <3>1 DEF RowsInv, Expert
  <2>2. CASE at' # "mix"
    <3>1. at' \notin Dispatching \cup {"mix"}
      BY <1>1, <2>2 DEF Dispatching
    <3>2. QED
      BY <1>2, <1>3, <1>4, <3>1, RowsIdle
  <2>3. QED
    BY <2>1, <2>2
<1>11. QED
  BY <1>5, <1>6, <1>7, <1>8, <1>9, <1>10

\* real_gpu_end dies on a failed command buffer, and every call site of a call
\* that returned 0 dies.
LEMMA DeathPreserved ==
  ASSUME StepIInv, EndDies \/ GpuCallDies
  PROVE  MoeIInv'
<1> USE DEF StepIInv, MoeIInv
<1>1. /\ alive' = FALSE /\ UNCHANGED <<poolOnly, cacheOnly, moeVars>>
      /\ \/ EndReturn
         \/ UNCHANGED gpuVars
  BY DEF EndDies, GpuCallDies, Die
<1>2. UNCHANGED <<at, topk_idx, cslot, pending, encoded, routed_raw, slab, freed>>
  BY <1>1 DEF moeVars
<1>3. /\ started' = started /\ mpc' = mpc /\ marg' = marg /\ taken' = taken /\ landed' = landed
      /\ owner' = owner /\ layer' = layer /\ todo' = todo /\ resolved' = resolved
  BY <1>1, SeenUnchanged
<1>4. batch' = batch /\ committed' = committed /\ faulted' = faulted
  BY <1>1 DEF EndReturn, gpuVars
<1>5. MoeTypeOK'
  BY <1>2 DEF MoeTypeOK
<1>6. PlaceInv'
  BY <1>2, <1>3 DEF PlaceInv, InCall, NextOf
<1>7. LoopInv'
  BY <1>2, <1>3 DEF LoopInv, InCall, Hits
<1>8. QueueInv'
  BY <1>1, <1>2, <1>4 DEF QueueInv, Syncing
<1>9. SlabInv'
  BY <1>2, <1>3, SlabFrame
<1>10. RowsInv'
  BY <1>2, <1>3, <1>4, FlightFrame, RowsFrame
<1>11. QED
  BY <1>5, <1>6, <1>7, <1>8, <1>9, <1>10

-----------------------------------------------------------------------------
(* Selecting and resolving the call's experts.                             *)

\* The selected experts are distinct, and name pairs of the layer at hand.
LEMMA PickFacts ==
  ASSUME MoeTypeOK, CacheTypeOK
  PROVE  /\ topk_idx \in [Picks -> Experts] /\ cslot \in [Picks -> Slots]
         /\ \A i, j \in Picks : topk_idx[i] = topk_idx[j] => i = j
         /\ \A j \in Picks : Expert(j) \in Pairs /\ Expert(j) # NoPair
         /\ \A i, j \in Picks : Expert(i) = Expert(j) => i = j
<1>1. topk_idx \in Selections /\ cslot \in [Picks -> Slots] /\ layer \in Layers /\ Picks = 1..TopK
  BY StepConstants DEF MoeTypeOK, CacheTypeOK
<1>2. /\ topk_idx \in [Picks -> Experts]
      /\ \A i, j \in Picks : topk_idx[i] = topk_idx[j] => i = j
  BY <1>1 DEF Selections
<1>3. \A j \in Picks : Expert(j) \in Pairs /\ Expert(j) # NoPair
  BY <1>1, <1>2, CacheAssumption DEF Expert, Pairs
<1>4. \A i, j \in Picks : Expert(i) = Expert(j) => i = j
  BY <1>2 DEF Expert
<1>5. QED
  BY <1>1, <1>2, <1>3, <1>4

\* A call begins with its selection and nothing resolved.
LEMMA RoutePreserved ==
  ASSUME StepIInv, NEW l \in Layers, NEW sel \in Selections, Route(l, sel)
  PROVE  MoeIInv'
<1> USE DEF StepIInv, MoeIInv
<1>1. /\ alive /\ mpc = "out" /\ at = "select" /\ at' = "resolve"
      /\ SelectExperts(l, sel) /\ topk_idx' = sel /\ pending' = {} /\ encoded' = {}
      /\ routed_raw' = [j \in Picks |-> NoPair]
      /\ UNCHANGED <<poolOnly, gpuVars, cslot, slab, freed>>
  BY DEF Route, Main
<1>2. /\ started' = started /\ mpc' = mpc /\ marg' = marg /\ taken' = taken /\ landed' = landed
      /\ owner' = owner /\ layer' = l /\ todo' = sel /\ resolved = {} /\ resolved' = {}
      /\ alive' = alive
  BY <1>1, SeenUnchanged DEF SelectExperts, storeVars
<1>3. batch' = batch /\ committed' = committed /\ hostAt' = hostAt
  BY <1>1 DEF gpuVars
<1>4. taken = {} /\ InFlight' = {}
  <2>1. taken = {} /\ batch = NoBatch /\ committed = <<>>
    BY <1>1 DEF PlaceInv, InCall, QueueInv
  <2>2. QED
    BY <1>3, <2>1, NothingInFlight, FlightFrame
<1>5. MoeTypeOK'
  BY <1>1 DEF MoeTypeOK
<1>6. PlaceInv'
  BY <1>1, <1>2, <1>4 DEF PlaceInv, InCall
<1>7. LoopInv'
  <2>1. sel \in [1..TopK -> Experts] /\ TopK \in Nat
    BY StepConstants DEF Selections
  <2>2. Len(sel) = TopK
    BY <2>1
  <2>3. \A i \in 1..Len(sel) : sel[i] = sel[TopK - Len(sel) + i]
    BY <2>1, <2>2
  <2>4. 1..TopK - Len(sel) = {}
    BY <2>1, <2>2
  <2>5. {<<topk_idx'[j], cslot'[j]>> : j \in 1..TopK - Len(todo')} = {}
    BY <1>2, <2>4
  <2>6. QED
    BY <1>1, <1>2, <2>3, <2>4, <2>5 DEF LoopInv, InCall
<1>8. QueueInv'
  BY <1>1, <1>2, <1>3 DEF QueueInv, Syncing
<1>9. SlabInv'
  BY <1>1, <1>2, <1>4 DEF SlabInv
<1>10. RowsInv'
  BY <1>1, <1>4 DEF RowsInv, Dispatching
<1>11. QED
  BY <1>5, <1>6, <1>7, <1>8, <1>9, <1>10

\* What a lookup does to the loop: the next position gets its slot.
LEMMA LookupLoop ==
  ASSUME StepIInv, at = "resolve", at' = "resolve", todo # <<>>, NEW s \in Slots, Resolve(s),
         cslot' = [cslot EXCEPT ![Current] = s], topk_idx' = topk_idx,
         encoded' = encoded, pending' \in SUBSET (pending \cup {Current})
  PROVE  /\ LoopInv' /\ Current \in Picks /\ Current \notin taken
         /\ cslot' \in [Picks -> Slots] /\ cslot'[Current] = s
         /\ \A j \in Picks : j # Current => cslot'[j] = cslot[j]
         /\ Head(todo) = topk_idx[Current]
         /\ \A j \in taken : j \in Picks /\ <<topk_idx[j], cslot[j]>> \in resolved
<1> DEFINE n == TopK - Len(todo)
<1>1. /\ MoeTypeOK /\ CacheTypeOK /\ LoopInv /\ PlaceInv
      /\ topk_idx \in [Picks -> Experts] /\ cslot \in [Picks -> Slots] /\ Picks = 1..TopK
  BY PickFacts, StepConstants DEF StepIInv, MoeIInv, CacheIInv
<1>2. /\ Len(todo) \in 1..TopK /\ Head(todo) = todo[1] /\ Len(Tail(todo)) = Len(todo) - 1
      /\ \A i \in 1..Len(todo) - 1 : Tail(todo)[i] = todo[i + 1]
      /\ TopK \in Nat
  BY <1>1, TodoFacts, StepConstants
<1>3. /\ n \in Nat /\ Current = n + 1 /\ Current \in Picks /\ TopK - Len(Tail(todo)) = n + 1
      /\ Len(todo) = TopK - n
  BY <1>1, <1>2 DEF Current
<1>4. /\ \A i \in 1..Len(todo) : todo[i] = topk_idx[n + i]
      /\ pending \subseteq 1..n /\ encoded = {} /\ taken = pending
      /\ resolved = {<<topk_idx[j], cslot[j]>> : j \in 1..n}
  BY <1>1 DEF LoopInv, PlaceInv, InCall
<1>5. todo' = Tail(todo) /\ resolved' = resolved \cup {<<Head(todo), s>>}
  BY DEF Resolve
<1> HIDE DEF n
<1>6. Head(todo) = topk_idx[Current]
  BY <1>2, <1>3, <1>4
<1>7. /\ cslot' \in [Picks -> Slots] /\ cslot'[Current] = s
      /\ \A j \in Picks : j # Current => cslot'[j] = cslot[j]
  BY <1>1, <1>3
<1>8. \A j \in taken : j \in 1..n /\ j \in Picks /\ <<topk_idx[j], cslot[j]>> \in resolved
  BY <1>1, <1>2, <1>3, <1>4
<1>9. Current \notin taken
  <2>1. n + 1 \notin 1..n
    BY <1>3
  <2>2. QED
    BY <1>3, <1>8, <2>1
<1>10. resolved' = {<<topk_idx[j], cslot'[j]>> : j \in 1..n + 1}
  <2>1. \A j \in 1..n : j \in Picks /\ j # Current
    BY <1>1, <1>2, <1>3
  <2>2. {<<topk_idx[j], cslot'[j]>> : j \in 1..n} = resolved
    BY <1>4, <1>7, <2>1
  <2>3. 1..n + 1 = 1..n \cup {Current}
    BY <1>3
  <2>4. {<<topk_idx[j], cslot'[j]>> : j \in 1..n + 1} = resolved \cup {<<topk_idx[Current], cslot'[Current]>>}
    BY <2>2, <2>3
  <2>5. QED
    BY <1>5, <1>6, <1>7, <2>4
<1>11. \A i \in 1..Len(todo') : todo'[i] = topk_idx[(n + 1) + i]
  <2> SUFFICES ASSUME NEW i \in 1..Len(todo) - 1 PROVE Tail(todo)[i] = topk_idx[(n + 1) + i]
    BY <1>2, <1>5
  <2>1. i + 1 \in 1..Len(todo) /\ n + (i + 1) = (n + 1) + i
    BY <1>2, <1>3
  <2>2. QED
    BY <1>2, <1>4, <2>1
<1>12. pending' \subseteq 1..n + 1
  BY <1>3, <1>4
<1>13. TopK - Len(todo') = n + 1
  BY <1>3, <1>5
<1>14. LoopInv'
  BY <1>4, <1>10, <1>11, <1>12, <1>13 DEF LoopInv, InCall
<1>15. QED
  BY <1>3, <1>6, <1>7, <1>8, <1>9, <1>14

\* A hit gives the position its expert's slot.
LEMMA ResolveHitPreserved ==
  ASSUME StepIInv, ResolveHit
  PROVE  MoeIInv'
<1> USE DEF StepIInv, MoeIInv
<1> DEFINE s == table[Expert(Current)]
<1>1. /\ alive /\ mpc = "out" /\ at = "resolve" /\ at' = "resolve"
      /\ CacheHit /\ cslot' = [cslot EXCEPT ![Current] = s]
      /\ UNCHANGED <<poolOnly, gpuVars, topk_idx, pending, encoded, routed_raw, slab, freed>>
  BY DEF ResolveHit, Main
<1>2. /\ todo # <<>> /\ table[<<layer, Head(todo)>>] >= 0 /\ Resolve(table[<<layer, Head(todo)>>])
      /\ owner' = owner /\ alive' = alive /\ layer' = layer
  BY <1>1 DEF CacheHit, Resolve
<1>3. table[<<layer, Head(todo)>>] \in Slots
  <2>1. <<layer, Head(todo)>> \in Pairs
    BY <1>2, TodoFacts DEF CacheIInv, CacheTypeOK, Pairs
  <2>2. table[<<layer, Head(todo)>>] \in Slots \cup {Nil}
    BY <2>1 DEF CacheIInv, CacheTypeOK
  <2>3. QED
    BY <1>2, <2>2, SlotFacts
<1>4. s = table[<<layer, Head(todo)>>]
  <2>1. /\ Len(todo) \in 1..TopK /\ Head(todo) = todo[1] /\ TopK \in Nat
    BY <1>2, TodoFacts, StepConstants DEF CacheIInv
  <2>2. todo[1] = topk_idx[TopK - Len(todo) + 1]
    BY <1>1, <2>1 DEF LoopInv
  <2>3. QED
    BY <2>1, <2>2 DEF Expert, Current
<1> HIDE DEF s
<1>5. /\ LoopInv' /\ Current \in Picks /\ Current \notin taken
      /\ cslot' \in [Picks -> Slots]
      /\ \A j \in Picks : j # Current => cslot'[j] = cslot[j]
      /\ \A j \in taken : j \in Picks
  <2>1. s \in Slots /\ Resolve(s) /\ pending' \in SUBSET (pending \cup {Current})
    BY <1>1, <1>2, <1>3, <1>4
  <2>2. topk_idx' = topk_idx /\ encoded' = encoded
    BY <1>1
  <2>3. QED
    BY <1>1, <1>2, <2>1, <2>2, LookupLoop
<1>6. /\ started' = started /\ mpc' = mpc /\ marg' = marg /\ taken' = taken /\ landed' = landed
  BY <1>1, SeenUnchanged
<1>7. batch' = batch /\ committed' = committed /\ hostAt' = hostAt
  BY <1>1 DEF gpuVars
<1>8. MoeTypeOK'
  BY <1>1, <1>5 DEF MoeTypeOK
<1>9. PlaceInv'
  BY <1>1, <1>6 DEF PlaceInv, InCall
<1>10. QueueInv'
  BY <1>1, <1>2, <1>7 DEF QueueInv, Syncing
<1>11. SlabInv'
  <2>1. \A j \in taken : cslot'[j] = cslot[j]
    BY <1>5
  <2>2. \A j \in taken : Expert(j)' = Expert(j)
    BY <1>1, <1>2 DEF Expert
  <2>3. ASSUME NEW j \in taken
        PROVE  owner'[cslot'[j]] = Expert(j) /\ \A r \in landed'[j] : slab'[cslot'[j]][r] = Expert(j)
    BY <1>1, <1>2, <1>6, <2>1 DEF SlabInv
  <2>4. ASSUME NEW t \in Slots, owner'[t] # NoPair, \A j \in taken' : cslot'[j] # t
        PROVE  \A r \in 1..NReads : slab'[t][r] = owner'[t]
    <3>1. \A j \in taken : cslot[j] # t
      BY <1>6, <2>1, <2>4
    <3>2. QED
      BY <1>1, <1>2, <2>4, <3>1 DEF SlabInv
  <2>5. QED
    BY <1>6, <2>2, <2>3, <2>4 DEF SlabInv
<1>12. RowsInv'
  <2>1. InFlight' = {}
    <3>1. batch = NoBatch /\ committed = <<>>
      BY <1>1 DEF QueueInv
    <3>2. QED
      BY <1>7, <3>1, NothingInFlight, FlightFrame
  <2>2. at' \notin Dispatching \cup {"mix"}
    BY <1>1 DEF Dispatching
  <2>3. QED
    BY <1>1, <1>2, <2>1, <2>2, RowsIdle
<1>13. QED
  BY <1>5, <1>8, <1>9, <1>10, <1>11, <1>12

\* A miss gives the position a victim's slot, which no other position of the
\* call has, and submits the job that fills it.
LEMMA ResolveMissPreserved ==
  ASSUME StepIInv, CacheIInv', NEW s \in Slots, ResolveMiss(s)
  PROVE  MoeIInv'
<1> USE DEF StepIInv, MoeIInv
<1>1. /\ alive /\ mpc = "out" /\ at = "resolve" /\ at' = "resolve"
      /\ CacheMiss(s) /\ SubmitReset(Current) /\ cslot' = [cslot EXCEPT ![Current] = s]
      /\ pending' = pending \cup {Current}
      /\ UNCHANGED <<gpuVars, topk_idx, encoded, routed_raw, slab, freed>>
  BY DEF ResolveMiss, Main
<1>2. /\ todo # <<>> /\ Resolve(s) /\ layer' = layer /\ alive' = alive
      /\ owner' = [owner EXCEPT ![s] = <<layer, Head(todo)>>]
      /\ resolved' = resolved \cup {<<Head(todo), s>>}
  BY <1>1 DEF CacheMiss, Resolve
<1>3. /\ mpc' = "submit" /\ marg' = Current /\ taken' = taken \cup {Current}
      /\ landed' = [landed EXCEPT ![Current] = {}] /\ started' = started
  BY <1>1 DEF SubmitReset, flags
<1>4. /\ LoopInv' /\ Current \in Picks /\ Current \notin taken
      /\ cslot' \in [Picks -> Slots] /\ cslot'[Current] = s
      /\ \A j \in Picks : j # Current => cslot'[j] = cslot[j]
      /\ Head(todo) = topk_idx[Current]
      /\ \A j \in taken : j \in Picks /\ <<topk_idx[j], cslot[j]>> \in resolved
  <2>1. pending' \in SUBSET (pending \cup {Current}) /\ topk_idx' = topk_idx /\ encoded' = encoded
    BY <1>1
  <2>2. QED
    BY <1>1, <1>2, <2>1, LookupLoop
<1>5. batch' = batch /\ committed' = committed /\ hostAt' = hostAt
  BY <1>1 DEF gpuVars
<1>6. MoeTypeOK'
  BY <1>1, <1>4 DEF MoeTypeOK
<1>7. PlaceInv'
  BY <1>1, <1>3 DEF PlaceInv, InCall
<1>8. QueueInv'
  BY <1>1, <1>2, <1>5 DEF QueueInv, Syncing
<1>9. owner'[s] = Expert(Current) /\ \A t \in Slots : t # s => owner'[t] = owner[t]
  BY <1>2, <1>4 DEF CacheIInv, CacheTypeOK, Expert
<1>10. \A j \in taken : owner'[cslot[j]] = Expert(j) /\ cslot[j] # s
  <2> TAKE j \in taken
  <2>1. owner'[cslot[j]] = <<layer, topk_idx[j]>>
    <3> DEFINE r == <<topk_idx[j], cslot[j]>>
    <3>1. r \in resolved' /\ r[1] = topk_idx[j] /\ r[2] = cslot[j]
      BY <1>2, <1>4
    <3>2. owner'[r[2]] = <<layer', r[1]>>
      BY <3>1 DEF CacheIInv, ResolvedStayResident
    <3>3. QED
      BY <1>2, <3>1, <3>2
  <2>2. j # Current /\ j \in Picks
    BY <1>4
  <2>3. Expert(j) # Expert(Current)
    BY <1>4, <2>2, PickFacts DEF CacheIInv
  <2>4. QED
    BY <1>9, <2>1, <2>3 DEF Expert
<1>11. SlabInv'
  <2>1. \A j \in taken' : Expert(j)' = Expert(j)
    BY <1>1, <1>2 DEF Expert
  <2>2. landed \in [Jobs -> SUBSET (1..NReads)] /\ Jobs = Picks
    BY StepConstants DEF PoolIInv, PoolTypeOK
  <2>3. ASSUME NEW j \in taken'
        PROVE  owner'[cslot'[j]] = Expert(j) /\ \A r \in landed'[j] : slab'[cslot'[j]][r] = Expert(j)
    <3>1. CASE j = Current
      <4>1. landed'[j] = {}
        BY <1>3, <1>4, <2>2, <3>1
      <4>2. QED
        BY <1>4, <1>9, <3>1, <4>1
    <3>2. CASE j \in taken
      <4>1. j # Current /\ j \in Picks /\ cslot'[j] = cslot[j] /\ landed'[j] = landed[j]
        BY <1>3, <1>4, <2>2, <3>2
      <4>2. \A r \in landed[j] : slab[cslot[j]][r] = Expert(j)
        BY <3>2 DEF SlabInv
      <4>3. QED
        BY <1>1, <1>10, <3>2, <4>1, <4>2
    <3>3. QED
      BY <1>3, <3>1, <3>2
  <2>4. ASSUME NEW t \in Slots, owner'[t] # NoPair, \A j \in taken' : cslot'[j] # t
        PROVE  \A r \in 1..NReads : slab'[t][r] = owner'[t]
    <3>1. t # s
      BY <1>3, <1>4, <2>4
    <3>2. \A j \in taken : cslot[j] # t
      BY <1>3, <1>4, <2>4
    <3>3. QED
      BY <1>1, <1>9, <2>4, <3>1, <3>2 DEF SlabInv
  <2>5. QED
    BY <2>1, <2>3, <2>4 DEF SlabInv
<1>12. RowsInv'
  <2>1. InFlight' = {}
    <3>1. batch = NoBatch /\ committed = <<>>
      BY <1>1 DEF QueueInv
    <3>2. QED
      BY <1>5, <3>1, NothingInFlight, FlightFrame
  <2>2. at' \notin Dispatching \cup {"mix"}
    BY <1>1 DEF Dispatching
  <2>3. QED
    BY <1>1, <1>2, <2>1, <2>2, RowsIdle
<1>13. QED
  BY <1>4, <1>6, <1>7, <1>8, <1>11, <1>12

-----------------------------------------------------------------------------
(* Encoding the routed dispatches and waiting for the misses.              *)

\* A dispatch is encoded only for a position whose bytes nobody has to deliver.
LEMMA EncodePreserved ==
  ASSUME StepIInv, NEW j \in Picks, EncodeHit(j) \/ EncodeMiss(j)
  PROVE  MoeIInv'
<1> USE DEF StepIInv, MoeIInv
<1>1. /\ alive /\ mpc = "out" /\ Dispatch(Routed(j)) /\ encoded' = encoded \cup {j}
      /\ \/ at = "pass1" /\ at' = "pass1" /\ NextOf(Hits, j)
         \/ at = "encode" /\ at' = "pass2" /\ NextOf(pending, j)
      /\ UNCHANGED <<poolOnly, cacheOnly, moeOthers, alive>>
      /\ UNCHANGED <<committed, hostAt, faulted>>
  BY DEF EncodeHit, EncodeMiss, Main, Dispatch
<1>2. UNCHANGED <<topk_idx, cslot, pending, routed_raw, slab, freed>>
  BY <1>1 DEF moeOthers
<1>3. /\ started' = started /\ mpc' = mpc /\ marg' = marg /\ taken' = taken /\ landed' = landed
      /\ owner' = owner /\ layer' = layer /\ todo' = todo /\ resolved' = resolved
  BY <1>1, SeenUnchanged
<1>4. Routed(j) \in Ops /\ Routed(j).pick = j /\ Routed(j).slot = cslot[j]
  <2>1. cslot[j] \in Slots
    BY DEF MoeTypeOK
  <2>2. QED
    BY <2>1, StepConstants DEF Routed
<1>5. InFlight' = InFlight \cup {Routed(j)}
  BY <1>1, <1>4, DispatchInFlight
<1>6. MoeTypeOK'
  <2>1. encoded' \in SUBSET Picks
    BY <1>1 DEF MoeTypeOK
  <2>2. QED
    BY <1>1, <1>2, <2>1, TypeFrame DEF MoeTypeOK
<1>7. PlaceInv'
  <2>1. CASE at = "pass1"
    BY <1>1, <1>2, <1>3, <2>1 DEF PlaceInv, InCall
  <2>2. CASE at = "encode"
    <3>1. at' = "pass2" /\ taken = (pending \ encoded) \ {j}
      BY <1>1, <2>2 DEF PlaceInv
    <3>2. taken = pending \ encoded'
      BY <1>1, <3>1
    <3>3. QED
      BY <1>1, <1>2, <1>3, <2>2, <3>1, <3>2 DEF PlaceInv, InCall
  <2>3. QED
    BY <1>1, <2>1, <2>2
<1>8. LoopInv'
  <2>1. Hits' = Hits
    BY <1>2 DEF Hits
  <2>2. CASE at = "pass1"
    <3>1. j \in Hits
      BY <1>1, <2>2 DEF NextOf
    <3>2. QED
      BY <1>1, <1>2, <1>3, <2>1, <2>2, <3>1 DEF LoopInv, InCall
  <2>3. CASE at = "encode"
    BY <1>1, <1>2, <1>3, <2>1, <2>3 DEF LoopInv, InCall
  <2>4. QED
    BY <1>1, <2>2, <2>3
<1>9. QueueInv'
  BY <1>1, <1>2 DEF QueueInv, Syncing
<1>10. SlabInv'
  BY <1>2, <1>3, SlabFrame
<1>11. RowsInv'
  <2>1. at \in Dispatching /\ at' \in Dispatching
    BY <1>1 DEF Dispatching
  <2>2. \A i : Routed(i)' = Routed(i) /\ Expert(i)' = Expert(i)
    BY <1>2, <1>3 DEF Routed, Expert
  <2>3. \A op \in InFlight' : op.pick # 0 => op.pick \in encoded' /\ op.slot = cslot[op.pick]
    BY <1>1, <1>4, <1>5 DEF RowsInv
  <2>4. ~faulted => \A i \in encoded' : routed_raw[i] = Expert(i) \/ Routed(i) \in InFlight'
    BY <1>1, <1>5, <2>1 DEF RowsInv
  <2>5. \A i \in Picks : routed_raw[i] \in {NoPair, Expert(i)}
    BY DEF RowsInv
  <2>6. QED
    BY <1>1, <1>2, <2>1, <2>2, <2>3, <2>4, <2>5 DEF RowsInv
<1>12. QED
  BY <1>6, <1>7, <1>8, <1>9, <1>10, <1>11

\* The hits are flushed, so that the GPU works on them while the misses load.
LEMMA FlushPreserved ==
  ASSUME StepIInv, FlushHits
  PROVE  MoeIInv'
<1> USE DEF StepIInv, MoeIInv
<1>1. /\ alive /\ mpc = "out" /\ at = "pass1" /\ at' = "pass2" /\ Hits \subseteq encoded
      /\ batch # NoBatch /\ Commit(FALSE) /\ batch' = <<>>
      /\ UNCHANGED <<poolOnly, cacheOnly, encoded, moeOthers, alive>>
      /\ UNCHANGED <<hostAt, faulted>>
  BY DEF FlushHits, Main, Flush
<1>2. UNCHANGED <<topk_idx, cslot, pending, routed_raw, slab, freed>>
  BY <1>1 DEF moeOthers
<1>3. /\ started' = started /\ mpc' = mpc /\ marg' = marg /\ taken' = taken /\ landed' = landed
      /\ owner' = owner /\ layer' = layer /\ todo' = todo /\ resolved' = resolved
  BY <1>1, SeenUnchanged
<1>4. InFlight' = InFlight
  BY <1>1, CommitInFlight
<1>5. \A i \in 1..Len(committed') : committed'[i].current
  BY <1>1, CommitCurrent
<1>6. MoeTypeOK'
  BY <1>1, <1>2, TypeFrame DEF MoeTypeOK
<1>7. PlaceInv'
  <2>1. taken = pending \ encoded
    BY <1>1 DEF PlaceInv, LoopInv, Hits
  <2>2. QED
    BY <1>1, <1>2, <1>3, <2>1 DEF PlaceInv, InCall
<1>8. LoopInv'
  <2>1. Hits' = Hits
    BY <1>2 DEF Hits
  <2>2. QED
    BY <1>1, <1>2, <1>3, <2>1 DEF LoopInv, InCall
<1>9. QueueInv'
  BY <1>1, <1>2, <1>5 DEF QueueInv, Syncing
<1>10. SlabInv'
  BY <1>2, <1>3, SlabFrame
<1>11. RowsInv'
  <2>1. at \in Dispatching /\ at' \in Dispatching
    BY <1>1 DEF Dispatching
  <2>2. encoded' = encoded
    BY <1>1
  <2>3. QED
    BY <1>1, <1>2, <1>3, <1>4, <2>1, <2>2, RowsFrame
<1>12. QED
  BY <1>6, <1>7, <1>8, <1>9, <1>10, <1>11

\* Waiting for the first miss whose dispatch is not encoded.
LEMMA AwaitPreserved ==
  ASSUME StepIInv, NEW j \in Picks, AwaitMiss(j)
  PROVE  MoeIInv'
<1> USE DEF StepIInv, MoeIInv
<1>1. /\ alive /\ mpc = "out" /\ at = "pass2" /\ at' = "await" /\ NextOf(pending, j) /\ WaitCall(j)
      /\ UNCHANGED <<cacheOnly, gpuVars, encoded, moeOthers>>
  BY DEF AwaitMiss, Main
<1>2. UNCHANGED <<topk_idx, cslot, pending, routed_raw, slab, freed, batch, committed, hostAt, faulted>>
  BY <1>1 DEF moeOthers, gpuVars
<1>3. /\ started' = started /\ mpc' = "wait" /\ marg' = j /\ taken' = taken /\ landed' = landed
      /\ owner' = owner /\ layer' = layer /\ todo' = todo /\ resolved' = resolved /\ alive' = alive
  BY <1>1, SeenUnchanged DEF WaitCall, flags, jobVars
<1>4. MoeTypeOK'
  BY <1>1, <1>2, TypeFrame DEF MoeTypeOK
<1>5. PlaceInv'
  <2>1. NextOf(pending, marg)'
    BY <1>1, <1>2, <1>3 DEF NextOf
  <2>2. QED
    BY <1>1, <1>2, <1>3, <2>1 DEF PlaceInv, InCall
<1>6. LoopInv'
  <2>1. Hits' = Hits
    BY <1>2 DEF Hits
  <2>2. QED
    BY <1>1, <1>2, <1>3, <2>1 DEF LoopInv, InCall
<1>7. QueueInv'
  BY <1>1, <1>2, <1>3 DEF QueueInv, Syncing
<1>8. SlabInv'
  BY <1>2, <1>3, SlabFrame
<1>9. RowsInv'
  <2>1. at \in Dispatching /\ at' \in Dispatching
    BY <1>1 DEF Dispatching
  <2>2. encoded' = encoded
    BY <1>1
  <2>3. QED
    BY <1>2, <1>3, <2>1, <2>2, FlightFrame, RowsFrame
<1>10. QED
  BY <1>4, <1>5, <1>6, <1>7, <1>8, <1>9

\* The wait is over: all regions of the miss's slot are in memory, and its job
\* is nobody's any more.
LEMMA ArrivedPreserved ==
  ASSUME StepIInv, MissArrived
  PROVE  MoeIInv'
<1> USE DEF StepIInv, MoeIInv
<1>1. /\ at = "await" /\ at' = "encode" /\ alive /\ mpc = "wait" /\ done[marg]
      /\ mpc' = "out" /\ taken' = taken \ {marg}
      /\ UNCHANGED <<flags, jobVars, alive>>
      /\ UNCHANGED <<cacheOnly, gpuVars, encoded, moeOthers>>
  BY DEF MissArrived, WaitReturn, JobDone
<1>2. UNCHANGED <<topk_idx, cslot, pending, routed_raw, slab, freed, batch, committed, hostAt, faulted>>
  BY <1>1 DEF moeOthers, gpuVars
<1>3. /\ started' = started /\ landed' = landed
      /\ owner' = owner /\ layer' = layer /\ todo' = todo /\ resolved' = resolved
  BY <1>1, SeenUnchanged DEF flags, jobVars
<1>4. /\ NextOf(pending, marg) /\ taken = pending \ encoded /\ marg \in Picks /\ marg \in taken
      /\ pending \subseteq Picks
  BY <1>1 DEF PlaceInv, NextOf, MoeTypeOK
<1>5. MoeTypeOK'
  BY <1>1, <1>2, TypeFrame DEF MoeTypeOK
<1>6. PlaceInv'
  <2>1. ASSUME NEW j \in Picks, NextOf(pending, j) PROVE j = marg
    <3>1. j <= marg /\ marg <= j
      BY <1>4, <2>1 DEF NextOf
    <3>2. QED
      BY <1>4, <3>1, StepConstants
  <2>2. \A j : NextOf(pending, j)' <=> NextOf(pending, j)
    BY <1>1, <1>2 DEF NextOf
  <2>3. /\ taken' \subseteq pending' \ encoded'
        /\ \A j \in Picks : NextOf(pending, j)' => taken' = (pending' \ encoded') \ {j}
    BY <1>1, <1>2, <1>4, <2>1, <2>2
  <2>4. QED
    BY <1>1, <1>2, <1>3, <2>3 DEF PlaceInv, InCall
<1>7. LoopInv'
  <2>1. Hits' = Hits
    BY <1>2 DEF Hits
  <2>2. QED
    BY <1>1, <1>2, <1>3, <2>1 DEF LoopInv, InCall
<1>8. QueueInv'
  BY <1>1, <1>2, <1>3 DEF QueueInv, Syncing
<1>9. SlabInv'
  <2>1. \A j : Expert(j)' = Expert(j)
    BY <1>2, <1>3 DEF Expert
  <2>2. ASSUME NEW j \in taken'
        PROVE  owner'[cslot'[j]] = Expert(j) /\ \A r \in landed'[j] : slab'[cslot'[j]][r] = Expert(j)
    BY <1>1, <1>2, <1>3 DEF SlabInv
  <2>3. landed[marg] = 1..NReads
    BY <1>1, <1>4, StepConstants DEF PoolIInv, JobInv
  <2>4. ASSUME NEW t \in Slots, owner'[t] # NoPair, \A j \in taken' : cslot'[j] # t
        PROVE  \A r \in 1..NReads : slab'[t][r] = owner'[t]
    <3>1. CASE cslot[marg] = t
      BY <1>2, <1>3, <1>4, <2>3, <3>1 DEF SlabInv
    <3>2. CASE cslot[marg] # t
      <4>1. \A j \in taken : cslot[j] # t
        BY <1>1, <1>2, <2>4, <3>2
      <4>2. QED
        BY <1>2, <1>3, <2>4, <4>1 DEF SlabInv
    <3>3. QED
      BY <3>1, <3>2
  <2>5. QED
    BY <2>1, <2>2, <2>4 DEF SlabInv
<1>10. RowsInv'
  <2>1. at \in Dispatching /\ at' \in Dispatching
    BY <1>1 DEF Dispatching
  <2>2. encoded' = encoded
    BY <1>1
  <2>3. QED
    BY <1>2, <1>3, <2>1, <2>2, FlightFrame, RowsFrame
<1>11. QED
  BY <1>5, <1>6, <1>7, <1>8, <1>9, <1>10

-----------------------------------------------------------------------------
(* The exit, and the main thread inside the pool's functions.              *)

\* expert_store_shutdown, then expert_loader_pool_shutdown.
LEMMA ExitPreserved ==
  ASSUME StepIInv, FreeStore \/ StopPool
  PROVE  MoeIInv'
<1> USE DEF StepIInv, MoeIInv
<1>1. /\ alive /\ mpc = "out" /\ UNCHANGED alive
      /\ \/ at = "idle" /\ at' = "freed" /\ freed' = TRUE /\ mpc' = mpc
         \/ at = "freed" /\ at' = "exit" /\ freed' = freed
      /\ started' = started /\ marg' = marg /\ taken' = taken /\ landed' = landed
      /\ UNCHANGED <<topk_idx, cslot, pending, encoded, routed_raw, slab>>
      /\ UNCHANGED <<cacheOnly, gpuVars>>
  BY SeenUnchanged DEF FreeStore, StopPool, Main, ShutdownSignal, jobVars, moeOthers
<1>2. /\ owner' = owner /\ layer' = layer /\ todo' = todo /\ resolved' = resolved
      /\ UNCHANGED <<batch, committed, hostAt, faulted>>
  BY <1>1, SeenUnchanged DEF gpuVars
<1>3. MoeTypeOK'
  BY <1>1, TypeFrame DEF MoeTypeOK
<1>4. PlaceInv'
  BY <1>1, <1>2 DEF PlaceInv, InCall
<1>5. LoopInv'
  BY <1>1, <1>2 DEF LoopInv, InCall
<1>6. QueueInv'
  BY <1>1, <1>2 DEF QueueInv, Syncing
<1>7. SlabInv'
  BY <1>1, <1>2, SlabFrame
<1>8. RowsInv'
  <2>1. at \notin Dispatching \cup {"mix"} /\ at' \notin Dispatching \cup {"mix"}
    BY <1>1 DEF Dispatching
  <2>2. QED
    BY <1>1, <1>2, <2>1, FlightFrame, RowsFrame
<1>9. QED
  BY <1>3, <1>4, <1>5, <1>6, <1>7, <1>8

\* Steps inside expert_loader_submit, _wait and _pool_shutdown.
LEMMA InsidePreserved ==
  ASSUME StepIInv, InsidePool \/ SpuriousWakeup
  PROVE  MoeIInv'
<1> USE DEF StepIInv, MoeIInv
<1>1. /\ UNCHANGED <<cacheOnly, gpuVars, moeVars>>
      /\ landed' = landed /\ taken' = taken
      /\ alive' = alive \/ alive' = FALSE
      /\ \/ mpc = "submit" /\ mpc' \in {"out", "submit"} /\ started' = started
         \/ mpc = "wait" /\ mpc' = "asleep" /\ started' = started /\ marg' = marg
         \/ mpc = "asleep" /\ mpc' = "wait" /\ started' = started /\ marg' = marg
         \/ mpc = "join"
  BY DEF InsidePool, SpuriousWakeup, SubmitEnqueue, SubmitOverflow, WaitBlock, ShutdownJoin,
     SpuriousCaller, Die, jobVars, flags, callerVars
<1>2. UNCHANGED <<at, topk_idx, cslot, pending, encoded, routed_raw, slab, freed>>
  BY <1>1 DEF moeVars
<1>3. /\ owner' = owner /\ layer' = layer /\ todo' = todo /\ resolved' = resolved
      /\ UNCHANGED <<batch, committed, hostAt, faulted>>
  BY <1>1, SeenUnchanged DEF gpuVars
<1>4. MoeTypeOK'
  BY <1>2 DEF MoeTypeOK
<1>5. PlaceInv'
  <2>1. \A j : NextOf(pending, j)' <=> NextOf(pending, j)
    BY <1>2 DEF NextOf
  <2>2. at \in {"resolve", "await", "exit"}
    BY <1>1 DEF PlaceInv
  <2>3. CASE at = "resolve"
    <3>1. mpc' \in {"out", "submit"} /\ started' = started
      BY <1>1, <2>3 DEF PlaceInv
    <3>2. started /\ taken = pending
      BY <2>3 DEF PlaceInv
    <3>3. QED
      BY <1>1, <1>2, <2>3, <3>1, <3>2 DEF PlaceInv, InCall
  <2>4. CASE at = "await"
    <3>1. mpc' \in {"wait", "asleep"} /\ started' = started /\ marg' = marg
      BY <1>1, <2>4 DEF PlaceInv
    <3>2. NextOf(pending, marg)'
      BY <2>4, <3>1, <1>2 DEF PlaceInv, NextOf
    <3>3. QED
      BY <1>1, <1>2, <2>4, <3>1, <3>2 DEF PlaceInv, InCall
  <2>5. CASE at = "exit"
    BY <1>1, <1>2, <2>5 DEF PlaceInv, InCall
  <2>6. QED
    BY <2>2, <2>3, <2>4, <2>5
<1>6. LoopInv'
  BY <1>2, <1>3 DEF LoopInv, InCall, Hits
<1>7. QueueInv'
  BY <1>1, <1>2, <1>3 DEF QueueInv, Syncing
<1>8. SlabInv'
  BY <1>1, <1>2, <1>3, SlabFrame
<1>9. RowsInv'
  BY <1>2, <1>3, FlightFrame, RowsFrame
<1>10. QED
  BY <1>4, <1>5, <1>6, <1>7, <1>8, <1>9

-----------------------------------------------------------------------------
(* The loader threads and the GPU.                                         *)

\* The jobs outstanding have slots of their own.
LEMMA OwnSlots ==
  ASSUME StepIInv
  PROVE  \A i, j \in taken : cslot[i] = cslot[j] => i = j
<1>1. \A j \in taken : j \in Picks /\ owner[cslot[j]] = Expert(j)
  BY StepConstants DEF StepIInv, MoeIInv, SlabInv, PoolIInv, PoolTypeOK
<1>2. \A i, j \in Picks : Expert(i) = Expert(j) => i = j
  BY PickFacts DEF StepIInv, MoeIInv, CacheIInv
<1>3. QED
  BY <1>1, <1>2

\* A pread adds to what has landed of its job, in that job's slot only.
LEMMA ReadSlab ==
  ASSUME StepIInv, NEW w \in Workers, WorkerRead(w), owner' = owner, cslot' = cslot,
         layer' = layer, topk_idx' = topk_idx,
         slab' = [slab EXCEPT ![cslot[wjob[w]]][nread[w] + 1] = Expert(wjob[w])]
  PROVE  SlabInv' /\ slab' \in [Slots -> [1..NReads -> Pairs \cup {NoPair}]]
<1> DEFINE a == wjob[w]
           k == nread[w] + 1
<1>1. /\ wpc[w] = "run" /\ nread[w] < NReads /\ taken' = taken
      /\ landed' = [landed EXCEPT ![a] = @ \cup {k}]
      /\ slab' = [slab EXCEPT ![cslot[a]][k] = Expert(a)]
  BY DEF WorkerRead, callerVars
<1>2. a \in taken /\ k \in 1..NReads
  BY <1>1, StepConstants DEF StepIInv, PoolIInv, RunInv, PoolTypeOK
<1>3. /\ taken \subseteq Picks /\ landed \in [Picks -> SUBSET (1..NReads)]
      /\ cslot \in [Picks -> Slots] /\ Expert(a) \in Pairs /\ a \in Picks
      /\ slab \in [Slots -> [1..NReads -> Pairs \cup {NoPair}]]
      /\ SlabInv
  BY <1>2, StepConstants, PickFacts
     DEF StepIInv, PoolIInv, PoolTypeOK, MoeIInv, MoeTypeOK, CacheIInv
<1> HIDE DEF a, k
<1>4. cslot[a] \in Slots
  BY <1>3
<1> DEFINE b == slab[cslot[a]]
           e == Expert(a)
           row == [b EXCEPT ![k] = e]
<1>5. b \in [1..NReads -> Pairs \cup {NoPair}] /\ e \in Pairs /\ slab' = [slab EXCEPT ![cslot[a]] = row]
  BY <1>1, <1>3, <1>4
<1>6. row \in [1..NReads -> Pairs \cup {NoPair}] /\ row[k] = e /\ \A r \in 1..NReads : r # k => row[r] = b[r]
  <2> HIDE DEF b, e
  <2>1. QED
    BY <1>2, <1>5
<1>7. slab' \in [Slots -> [1..NReads -> Pairs \cup {NoPair}]] /\ slab'[cslot[a]] = row
  <2> DEFINE Rows == [1..NReads -> Pairs \cup {NoPair}]
             c == cslot[a]
  <2>1. slab \in [Slots -> Rows] /\ c \in Slots /\ row \in Rows /\ slab' = [slab EXCEPT ![c] = row]
    BY <1>3, <1>4, <1>5, <1>6
  <2> HIDE DEF row, Rows, c
  <2>2. slab' \in [Slots -> Rows] /\ slab'[c] = row
    BY <2>1
  <2>3. QED
    BY <2>2 DEF Rows, c
<1>8. slab'[cslot[a]][k] = Expert(a) /\ \A r \in 1..NReads : r # k => slab'[cslot[a]][r] = slab[cslot[a]][r]
  <2> HIDE DEF row
  <2>1. QED
    BY <1>7, <1>6 DEF b, e
<1> HIDE DEF row, e, b
<1>9. \A t \in Slots : t # cslot[a] => slab'[t] = slab[t]
  BY <1>1, <1>3
<1>10. \A j : Expert(j)' = Expert(j)
  BY DEF Expert
<1>11. ASSUME NEW j \in taken, NEW r \in landed'[j] PROVE slab'[cslot[j]][r] = Expert(j)
  <2>1. CASE j = a
    <3>1. r = k \/ (r \in landed[a] /\ r \in 1..NReads)
      BY <1>1, <1>3, <1>11, <2>1
    <3>2. QED
      BY <1>2, <1>3, <1>8, <2>1, <3>1 DEF SlabInv
  <2>2. CASE j # a
    <3>1. cslot[j] # cslot[a] /\ cslot[j] \in Slots /\ r \in landed[j]
      BY <1>1, <1>2, <1>3, <1>11, <2>2, OwnSlots
    <3>2. QED
      BY <1>3, <1>9, <3>1 DEF SlabInv
  <2>3. QED
    BY <2>1, <2>2
<1>12. ASSUME NEW t \in Slots, owner[t] # NoPair, \A j \in taken : cslot[j] # t
       PROVE  \A r \in 1..NReads : slab'[t][r] = owner[t]
  BY <1>2, <1>3, <1>9, <1>12 DEF SlabInv
<1>13. \A j \in taken : owner[cslot[j]] = Expert(j)
  BY <1>3 DEF SlabInv
<1>14. QED
  BY <1>1, <1>7, <1>10, <1>11, <1>12, <1>13 DEF SlabInv

\* What a loader thread does to the caller, and to the slabs.
LEMMA LoaderPreserved ==
  ASSUME StepIInv, NEW w \in Workers, LoaderStep(w)
  PROVE  MoeIInv'
<1> USE DEF StepIInv, MoeIInv
<1>1. /\ WorkerStep(w)
      /\ UNCHANGED <<cacheOnly, gpuVars, at, topk_idx, cslot, pending, encoded, routed_raw, freed>>
      /\ slab' = IF nread'[w] = nread[w] + 1
                 THEN [slab EXCEPT ![cslot[wjob[w]]][nread[w] + 1] = Expert(wjob[w])]
                 ELSE slab
  BY DEF LoaderStep
<1>2. /\ started' = started /\ marg' = marg /\ taken' = taken
      /\ alive' = alive \/ alive' = FALSE
      /\ mpc' = mpc \/ (mpc = "asleep" /\ mpc' = "wait")
  BY <1>1 DEF WorkerStep, WorkerProgress, WorkerTake, WorkerSleep, WorkerExit, WorkerRead,
       WorkerPublish, WorkerReadFails, SpuriousWorker, BroadcastDone, flags, callerVars, Die
<1>3. /\ owner' = owner /\ layer' = layer /\ todo' = todo /\ resolved' = resolved
      /\ UNCHANGED <<batch, committed, hostAt, faulted>>
  BY <1>1, SeenUnchanged DEF gpuVars
<1>4. SlabInv' /\ slab' \in [Slots -> [1..NReads -> Pairs \cup {NoPair}]]
  <2>1. nread \in [Workers -> 0..NReads] /\ NReads \in Nat
    BY StepConstants DEF PoolIInv, PoolTypeOK
  <2>2. CASE WorkerRead(w)
    <3>1. nread'[w] = nread[w] + 1
      BY <2>1, <2>2 DEF WorkerRead
    <3>2. cslot' = cslot /\ topk_idx' = topk_idx
      BY <1>1
    <3>3. slab' = [slab EXCEPT ![cslot[wjob[w]]][nread[w] + 1] = Expert(wjob[w])]
      BY <1>1, <3>1
    <3>4. QED
      BY <1>3, <2>2, <3>2, <3>3, ReadSlab
  <2>3. CASE ~WorkerRead(w)
    <3>1. landed' = landed /\ (nread' = nread \/ nread' = [nread EXCEPT ![w] = 0])
      BY <1>1, <2>3 DEF WorkerStep, WorkerProgress, WorkerTake, WorkerSleep, WorkerExit,
         WorkerPublish, WorkerReadFails, SpuriousWorker, jobVars, workerVars
    <3>2. nread'[w] # nread[w] + 1
      BY <2>1, <3>1
    <3>3. slab' = slab
      BY <1>1, <3>2
    <3>4. QED
      BY <1>1, <1>2, <1>3, <3>1, <3>3, SlabFrame DEF MoeTypeOK
  <2>4. QED
    BY <2>2, <2>3
<1>5. MoeTypeOK'
  BY <1>1, <1>4 DEF MoeTypeOK
<1>6. PlaceInv'
  <2>1. \A j : NextOf(pending, j)' <=> NextOf(pending, j)
    BY <1>1 DEF NextOf
  <2>2. NextOf(pending, marg)' <=> NextOf(pending, marg)
    BY <1>1, <1>2 DEF NextOf
  <2>3. at # "await" /\ at # "exit" => mpc' = mpc
    BY <1>2 DEF PlaceInv
  <2>4. at = "await" => mpc' \in {"wait", "asleep"}
    BY <1>2 DEF PlaceInv
  <2>5. QED
    BY <1>1, <1>2, <2>1, <2>2, <2>3, <2>4 DEF PlaceInv, InCall
<1>7. LoopInv'
  BY <1>1, <1>3 DEF LoopInv, InCall, Hits
<1>8. QueueInv'
  BY <1>1, <1>2, <1>3 DEF QueueInv, Syncing
<1>9. RowsInv'
  BY <1>1, <1>3, FlightFrame, RowsFrame
<1>10. QED
  BY <1>4, <1>5, <1>6, <1>7, <1>8, <1>9

\* The slot of a position whose dispatch is encoded holds its expert, whole, and
\* is the slot of no outstanding job.
LEMMA EncodedSlot ==
  ASSUME StepIInv, at \in Dispatching, NEW j \in encoded
  PROVE  /\ j \in Picks /\ cslot[j] \in Slots
         /\ \A i \in taken : cslot[i] # cslot[j]
         /\ BytesOf(cslot[j]) = Expert(j)
<1> USE DEF StepIInv, MoeIInv
<1>1. j \in Picks /\ cslot[j] \in Slots /\ taken \subseteq Picks
  BY StepConstants DEF MoeTypeOK, PoolIInv, PoolTypeOK
<1>2. j \notin taken
  BY DEF Dispatching, PlaceInv, LoopInv, InCall, Hits
<1>3. owner[cslot[j]] = Expert(j)
  <2> DEFINE r == <<topk_idx[j], cslot[j]>>
  <2>1. todo = <<>> /\ resolved = {<<topk_idx[i], cslot[i]>> : i \in 1..TopK - Len(todo)}
    BY DEF LoopInv, Dispatching, InCall
  <2>2. TopK - Len(todo) = TopK
    BY <2>1, StepConstants
  <2>3. r \in resolved /\ r[1] = topk_idx[j] /\ r[2] = cslot[j]
    BY <1>1, <2>1, <2>2, StepConstants
  <2>4. owner[r[2]] = <<layer, r[1]>>
    BY <2>3 DEF CacheIInv, ResolvedStayResident
  <2>5. QED
    BY <2>3, <2>4 DEF Expert
<1>4. /\ Expert(j) # NoPair
      /\ \A i \in Picks : Expert(i) = Expert(j) => i = j
  BY <1>1, PickFacts DEF CacheIInv
<1>5. \A i \in taken : cslot[i] # cslot[j]
  <2>1. \A i \in taken : owner[cslot[i]] = Expert(i)
    BY DEF SlabInv
  <2>2. QED
    BY <1>1, <1>2, <1>3, <1>4, <2>1
<1>6. \A r \in 1..NReads : slab[cslot[j]][r] = Expert(j)
  BY <1>1, <1>3, <1>4, <1>5 DEF SlabInv
<1>7. BytesOf(cslot[j]) = Expert(j)
  <2>1. 1 \in 1..NReads
    BY StepConstants
  <2>2. QED
    BY <1>4, <1>6, <2>1 DEF BytesOf
<1>8. QED
  BY <1>1, <1>5, <1>7

\* Running or retiring buffers leaves only ones of the current begin.
LEMMA QueueCurrent ==
  ASSUME StepIInv, GpuRun \/ \E st : Retire(st) /\ committed # <<>>
  PROVE  committed # <<>> /\ \A i \in 1..Len(committed') : committed'[i].current
<1>1. committed \in Seq(Buffers) /\ committed # <<>> /\ \A i \in 1..Len(committed) : committed[i].current
  BY DEF StepIInv, MoeIInv, QueueInv, GpuIInv, GpuRun
<1>2. CASE GpuRun
  <2>1. 1 \in 1..Len(committed) /\ committed[1] \in Buffers /\ committed[1].ops # <<>>
    BY <1>1, <1>2, EmptySeq, ElementOfSeq DEF GpuRun
  <2> DEFINE first == [committed[1] EXCEPT !.ops = Tail(@)]
  <2>2. committed[1].ops \in Seq(Ops)
    BY <2>1 DEF Buffers
  <2>3. Tail(committed[1].ops) \in Seq(Ops)
    BY <2>1, <2>2, HeadTailProperties
  <2>4. first \in Buffers /\ first.current = committed[1].current
    BY <2>1, <2>3 DEF Buffers
  <2>5. committed' = [committed EXCEPT ![1] = first]
    BY <1>2 DEF GpuRun
  <2> HIDE DEF first
  <2>6. /\ Len(committed') = Len(committed)
        /\ \A i \in 1..Len(committed) : committed'[i] = IF i = 1 THEN first ELSE committed[i]
    BY <1>1, <2>1, <2>4, <2>5, ExceptSeq
  <2>7. QED
    BY <1>1, <2>1, <2>4, <2>6
<1>3. CASE \E st : Retire(st) /\ committed # <<>>
  <2>1. committed' = Tail(committed)
    BY <1>3 DEF Retire
  <2>2. /\ Len(committed') = Len(committed) - 1 /\ Len(committed) \in Nat
        /\ \A i \in 1..Len(committed) - 1 : committed'[i] = committed[i + 1]
    BY <1>1, <2>1, RetireLemma
  <2>3. ASSUME NEW i \in 1..Len(committed') PROVE committed'[i].current
    <3>1. i \in 1..Len(committed) - 1 /\ i + 1 \in 1..Len(committed)
      BY <2>2
    <3>2. QED
      BY <1>1, <2>2, <3>1
  <2>4. QED
    BY <1>1, <2>3
<1>4. QED
  BY <1>2, <1>3

\* Running a dispatch gives its position a row of the right bytes.
LEMMA RunRows ==
  ASSUME StepIInv, GpuStep, GpuRun
  PROVE  RowsInv' /\ routed_raw' \in [Picks -> Pairs \cup {NoPair, Garbage}]
<1> USE DEF StepIInv, MoeIInv
<1> DEFINE op == committed[1].ops[1]
<1>1. /\ routed_raw' = IF op.pick # 0 THEN [routed_raw EXCEPT ![op.pick] = BytesOf(op.slot)]
                       ELSE routed_raw
      /\ UNCHANGED <<at, topk_idx, cslot, pending, encoded, slab, freed, faulted>>
      /\ layer' = layer
  BY SeenUnchanged DEF GpuStep, GpuRun
<1>2. op \in InFlight /\ InFlight' \subseteq InFlight /\ InFlight \subseteq InFlight' \cup {op}
  BY RunInFlight
<1> HIDE DEF op
<1>3. /\ routed_raw \in [Picks -> Pairs \cup {NoPair, Garbage}]
      /\ \A j \in Picks : routed_raw[j] \in {NoPair, Expert(j)}
      /\ \A j : Expert(j)' = Expert(j) /\ Routed(j)' = Routed(j)
      /\ \A j : Routed(j).pick = j
      /\ encoded \subseteq Picks
  BY <1>1 DEF MoeTypeOK, RowsInv, Expert, Routed
<1>4. \A o \in InFlight' : o.pick # 0 =>
        at \in Dispatching /\ o.pick \in encoded /\ o.slot = cslot[o.pick]
  BY <1>2 DEF RowsInv
<1>5. CASE op.pick = 0
  <2>1. routed_raw' = routed_raw
    BY <1>1, <1>5
  <2>2. \A j \in Picks : Routed(j) # op
    BY <1>3, <1>5, StepConstants
  <2>3. at \in Dispatching \cup {"mix"} /\ ~faulted =>
          \A j \in encoded : routed_raw[j] = Expert(j) \/ Routed(j) \in InFlight'
    BY <1>2, <1>3, <2>2 DEF RowsInv
  <2>4. QED
    BY <1>1, <1>3, <1>4, <2>1, <2>3 DEF RowsInv
<1>6. CASE op.pick # 0
  <2> DEFINE p == op.pick
  <2>1. at \in Dispatching /\ p \in encoded /\ op.slot = cslot[p]
    BY <1>2, <1>6 DEF RowsInv
  <2>2. p \in Picks /\ BytesOf(op.slot) = Expert(p) /\ Expert(p) \in Pairs
    BY <2>1, EncodedSlot, PickFacts DEF CacheIInv
  <2>3. routed_raw' = [routed_raw EXCEPT ![p] = Expert(p)]
    BY <1>1, <1>6, <2>2
  <2> HIDE DEF p
  <2>4. routed_raw'[p] = Expert(p) /\ \A j \in Picks : j # p => routed_raw'[j] = routed_raw[j]
    BY <1>3, <2>2, <2>3
  <2>5. routed_raw' \in [Picks -> Pairs \cup {NoPair, Garbage}]
    BY <1>3, <2>2, <2>3
  <2>6. \A j \in Picks : routed_raw'[j] \in {NoPair, Expert(j)}
    BY <1>3, <2>4
  <2>7. \A j \in Picks : j # p => Routed(j) # op
    BY <1>3 DEF p
  <2>8. ~faulted => \A j \in encoded : routed_raw'[j] = Expert(j) \/ Routed(j) \in InFlight'
    BY <1>2, <1>3, <2>1, <2>4, <2>7 DEF RowsInv
  <2>9. QED
    BY <1>1, <1>3, <1>4, <2>1, <2>5, <2>6, <2>8 DEF RowsInv
<1>7. QED
  BY <1>5, <1>6

\* Retiring a buffer loses dispatches only by a fault, which is recorded.
LEMMA RetireRows ==
  ASSUME StepIInv, GpuStep, ~GpuRun, GpuComplete \/ GpuFault
  PROVE  RowsInv' /\ routed_raw' = routed_raw
<1> USE DEF StepIInv, MoeIInv
<1>1. /\ routed_raw' = routed_raw
      /\ UNCHANGED <<at, topk_idx, cslot, pending, encoded, slab, freed>>
      /\ layer' = layer
  BY SeenUnchanged DEF GpuStep
<1>2. committed # <<>> /\ \E st : Retire(st)
  BY DEF GpuComplete, GpuFault
<1>3. InFlight' \subseteq InFlight /\ (committed[1].ops = <<>> => InFlight' = InFlight)
  BY <1>2, RetireInFlight
<1>4. /\ ~faulted' => ~faulted
      /\ ~faulted' => committed[1].ops = <<>>
  <2>1. CASE GpuComplete
    BY <2>1 DEF GpuComplete
  <2>2. CASE GpuFault
    <3>1. Len(committed) \in Nat \ {0}
      BY <1>2, EmptySeq DEF GpuIInv
    <3>2. committed[1].current
      BY <3>1 DEF QueueInv
    <3>3. QED
      BY <2>2, <3>2 DEF GpuFault, GpuIInv
  <2>3. QED
    BY <2>1, <2>2
<1>5. \A j : Expert(j)' = Expert(j) /\ Routed(j)' = Routed(j)
  BY <1>1 DEF Expert, Routed
<1>6. ~faulted' => InFlight' = InFlight
  BY <1>3, <1>4
<1>7. QED
  BY <1>1, <1>3, <1>4, <1>5, <1>6 DEF RowsInv

\* The GPU's steps.
LEMMA GpuStepPreserved ==
  ASSUME StepIInv, GpuStep
  PROVE  MoeIInv'
<1> USE DEF StepIInv, MoeIInv
<1>1. /\ GpuNext /\ UNCHANGED <<poolOnly, cacheOnly, alive>>
      /\ UNCHANGED <<at, topk_idx, cslot, pending, encoded, slab, freed>>
      /\ batch' = batch /\ hostAt' = hostAt
  BY DEF GpuStep, GpuNext, GpuRun, GpuComplete, GpuFault, Retire
<1>2. /\ started' = started /\ mpc' = mpc /\ marg' = marg /\ taken' = taken /\ landed' = landed
      /\ owner' = owner /\ layer' = layer /\ todo' = todo /\ resolved' = resolved
  BY <1>1, SeenUnchanged
<1>3. committed # <<>> /\ \A i \in 1..Len(committed') : committed'[i].current
  <2>1. GpuRun \/ \E st : Retire(st) /\ committed # <<>>
    BY <1>1 DEF GpuNext, GpuComplete, GpuFault
  <2>2. QED
    BY <2>1, QueueCurrent
<1>4. RowsInv' /\ routed_raw' \in [Picks -> Pairs \cup {NoPair, Garbage}]
  <2>1. CASE GpuRun
    BY <2>1, RunRows
  <2>2. CASE ~GpuRun
    <3>1. GpuComplete \/ GpuFault
      BY <1>1, <2>2 DEF GpuNext
    <3>2. QED
      BY <2>2, <3>1, RetireRows DEF MoeTypeOK
  <2>3. QED
    BY <2>1, <2>2
<1>5. MoeTypeOK'
  BY <1>1, <1>4 DEF MoeTypeOK
<1>6. PlaceInv'
  BY <1>1, <1>2 DEF PlaceInv, InCall, NextOf
<1>7. LoopInv'
  BY <1>1, <1>2 DEF LoopInv, InCall, Hits
<1>8. QueueInv'
  BY <1>1, <1>3 DEF QueueInv, Syncing
<1>9. SlabInv'
  BY <1>1, <1>2, SlabFrame
<1>10. QED
  BY <1>4, <1>5, <1>6, <1>7, <1>8, <1>9

\* A step that changes nothing.
LEMMA StutterPreserved ==
  ASSUME StepIInv, Done \/ UNCHANGED vars
  PROVE  MoeIInv'
<1> USE DEF StepIInv, MoeIInv
<1>1. UNCHANGED <<poolOnly, cacheOnly, gpuVars, moeVars, alive>>
  BY DEF Done, vars
<1>2. /\ UNCHANGED <<at, topk_idx, cslot, pending, encoded, routed_raw, slab, freed>>
      /\ UNCHANGED <<batch, committed, hostAt, faulted, alive>>
  BY <1>1 DEF moeVars, gpuVars
<1>3. /\ started' = started /\ mpc' = mpc /\ marg' = marg /\ taken' = taken /\ landed' = landed
      /\ owner' = owner /\ layer' = layer /\ todo' = todo /\ resolved' = resolved
  BY <1>1, SeenUnchanged
<1>4. MoeTypeOK'
  BY <1>2 DEF MoeTypeOK
<1>5. PlaceInv'
  BY <1>2, <1>3 DEF PlaceInv, InCall, NextOf
<1>6. LoopInv'
  BY <1>2, <1>3 DEF LoopInv, InCall, Hits
<1>7. QueueInv'
  BY <1>2 DEF QueueInv, Syncing
<1>8. SlabInv'
  BY <1>2, <1>3, SlabFrame
<1>9. RowsInv'
  BY <1>2, <1>3, FlightFrame, RowsFrame
<1>10. QED
  BY <1>4, <1>5, <1>6, <1>7, <1>8, <1>9

-----------------------------------------------------------------------------
(* The theorems.                                                           *)

\* At start-up nothing is loaded, resolved or in flight.
LEMMA StepInit == MoeInit => StepIInv
<1> SUFFICES ASSUME MoeInit PROVE StepIInv
  OBVIOUS
<1>1. PoolInit /\ CacheInit /\ GpuInit
  BY DEF MoeInit
<1>2. PoolIInv /\ CacheIInv /\ GpuIInv
  BY <1>1, InitInv, CacheInitInv, GpuInitInv
<1>3. /\ at = "boot" /\ topk_idx \in Selections /\ cslot = [j \in Picks |-> 0]
      /\ pending = {} /\ encoded = {} /\ routed_raw = [j \in Picks |-> NoPair]
      /\ slab = [s \in Slots |-> [r \in 1..NReads |-> NoPair]] /\ freed = FALSE
  BY DEF MoeInit
<1>4. /\ mpc = "out" /\ taken = {} /\ todo = <<>> /\ resolved = {}
      /\ owner = [s \in Slots |-> NoPair] 
      /\ batch = NoBatch /\ committed = <<>> /\ hostAt = "host"
  BY <1>1 DEF PoolInit, CacheInit, StoreInit, GpuInit
<1>5. InFlight = {}
  BY <1>2, <1>4, NothingInFlight
<1>6. MoeTypeOK
  <2>1. 0 \in Slots
    BY SlotFacts DEF Slots
  <2>2. QED
    BY <1>3, <2>1 DEF MoeTypeOK
<1>7. PlaceInv
  BY <1>3, <1>4 DEF PlaceInv, InCall
<1>8. LoopInv
  BY <1>3, <1>4 DEF LoopInv, InCall
<1>9. QueueInv
  BY <1>3, <1>4 DEF QueueInv, Syncing
<1>10. SlabInv
  BY <1>4 DEF SlabInv
<1>11. RowsInv
  BY <1>3, <1>5 DEF RowsInv
<1>12. QED
  BY <1>2, <1>6, <1>7, <1>8, <1>9, <1>10, <1>11 DEF StepIInv, MoeIInv

\* Every step of the main thread, the loader threads and the GPU keeps the
\* invariant of the whole.
LEMMA StepPreserved == StepIInv /\ [MoeNext]_vars => StepIInv'
<1> SUFFICES ASSUME StepIInv, [MoeNext]_vars PROVE StepIInv'
  OBVIOUS
<1>1. PoolIInv' /\ CacheIInv' /\ GpuIInv'
  BY PartsPreserved
<1>2. MoeIInv'
  <2>1. CASE Boot \/ Load
    BY <2>1, StartPreserved
  <2>2. CASE OpenForward \/ Mix \/ OpenRouted
    BY <2>2, OpenPreserved
  <2>3. CASE EncodeRouter
    BY <2>3, RouterPreserved
  <2>4. CASE \/ GpuEnd("router", "sync1") \/ GpuEnd("open", "readback")
             \/ AllEncoded /\ GpuEnd("pass2", "sync2")
    BY <2>4, EndPreserved
  <2>5. CASE EndOk("sync1", "select") \/ EndOk("sync2", "mix") \/ EndOk("readback", "idle")
    BY <2>5, EndOkPreserved
  <2>6. CASE EndDies \/ GpuCallDies
    BY <2>6, DeathPreserved
  <2>7. ASSUME NEW l \in Layers, NEW sel \in Selections, Route(l, sel) PROVE MoeIInv'
    BY <2>7, RoutePreserved
  <2>8. CASE ResolveHit
    BY <2>8, ResolveHitPreserved
  <2>9. ASSUME NEW s \in Slots, ResolveMiss(s) PROVE MoeIInv'
    BY <1>1, <2>9, ResolveMissPreserved
  <2>10. ASSUME NEW j \in Picks, EncodeHit(j) \/ EncodeMiss(j) PROVE MoeIInv'
    BY <2>10, EncodePreserved
  <2>11. ASSUME NEW j \in Picks, AwaitMiss(j) PROVE MoeIInv'
    BY <2>11, AwaitPreserved
  <2>12. CASE FlushHits
    BY <2>12, FlushPreserved
  <2>13. CASE MissArrived
    BY <2>13, ArrivedPreserved
  <2>14. CASE FreeStore \/ StopPool
    BY <2>14, ExitPreserved
  <2>15. CASE InsidePool \/ SpuriousWakeup
    BY <2>15, InsidePreserved
  <2>16. ASSUME NEW w \in Workers, LoaderStep(w) PROVE MoeIInv'
    BY <2>16, LoaderPreserved
  <2>17. CASE GpuStep
    BY <2>17, GpuStepPreserved
  <2>18. CASE Done \/ UNCHANGED vars
    BY <2>18, StutterPreserved
  <2>19. QED
    BY <2>1, <2>2, <2>3, <2>4, <2>5, <2>6, <2>7, <2>8, <2>9, <2>10, <2>11, <2>12, <2>13, <2>14,
       <2>15, <2>16, <2>17, <2>18, Zenon DEF MoeNext, MainStep
<1>3. QED
  BY <1>1, <1>2 DEF StepIInv

\* The invariant of the whole holds from start-up to exit.
THEOREM StepInvariant == MoeSpec => []StepIInv
BY StepInit, StepPreserved, PTL DEF MoeSpec

\* With no job outstanding the ring is empty and every loader thread idle.
LEMMA NoJobsLeft == PoolIInv /\ taken = {} => Running = {} /\ qcount = 0
<1> SUFFICES ASSUME PoolIInv, taken = {} PROVE Running = {} /\ qcount = 0
  OBVIOUS
<1>1. Running = {} /\ \A k \in 1..qcount : Queued[k] \in {}
  BY InvDangling DEF NoDanglingJob
<1>2. qcount \in Nat
  BY PoolAssumption DEF PoolIInv, PoolTypeOK
<1>3. ~(1 \in 1..qcount)
  BY <1>1
<1>4. QED
  BY <1>1, <1>2, <1>3

\* Between the calls of the MoE layer no job is queued, running or owed a wait,
\* and when the store is freed no dispatch is pending; at every place of the code
\* jobs, slots, slabs, dispatches and rows agree as its invariants say.
THEOREM MoeInvariant == MoeSpec => []MoeInv
<1>1. StepIInv => MoeInv
  <2> SUFFICES ASSUME StepIInv PROVE MoeInv
    OBVIOUS
  <2>1. BatchInv /\ MoeIInv
    BY GpuIInvBatch DEF StepIInv
  <2>2. InCall \/ (taken = {} /\ Running = {} /\ qcount = 0)
    BY NoJobsLeft DEF StepIInv, MoeIInv, PlaceInv
  <2>3. freed => Pending = <<>>
    BY NothingInFlight DEF StepIInv, MoeIInv, QueueInv
  <2>4. QED
    BY <2>1, <2>2, <2>3 DEF MoeInv, DrainedBetweenCalls
<1>2. QED
  BY <1>1, StepInvariant, PTL

\* Eviction, the job's wait and the flush keep loader threads off every slot that
\* an encoded dispatch has still to read, for any number of threads and slots.
THEOREM MoeNoWriteUnderDispatch == MoeSpec => []NoWriteUnderDispatch
<1>1. StepIInv => NoWriteUnderDispatch
  <2> SUFFICES ASSUME StepIInv, NEW i \in 1..Len(Pending), Pending[i].pick # 0,
                      NEW j \in taken, ~done[j]
               PROVE  cslot[j] # Pending[i].slot
    BY DEF NoWriteUnderDispatch
  <2>1. Pending[i] \in InFlight
    BY PendingInFlight DEF StepIInv
  <2>2. /\ at \in Dispatching /\ Pending[i].pick \in encoded
        /\ Pending[i].slot = cslot[Pending[i].pick]
    BY <2>1 DEF StepIInv, MoeIInv, RowsInv
  <2>3. QED
    BY <2>2, EncodedSlot
<1>2. QED
  BY <1>1, StepInvariant, PTL

\* Whatever the interleaving of hits, misses, reads and GPU work, a routed
\* dispatch computes with all the regions of its own expert, and every row is
\* there when the rows are mixed, if no command buffer faulted.
THEOREM MoeRoutedRowsRight == MoeSpec => []RoutedRowsRight
<1>1. StepIInv => RoutedRowsRight
  <2> SUFFICES ASSUME StepIInv PROVE RoutedRowsRight
    OBVIOUS
  <2>1. \A j \in Picks : routed_raw[j] \in {NoPair, Expert(j)}
    BY DEF StepIInv, MoeIInv, RowsInv
  <2>2. ASSUME at = "mix", ~faulted, NEW j \in Picks PROVE routed_raw[j] = Expert(j)
    <3>1. InFlight = {}
      BY <2>2, NothingInFlight DEF StepIInv, MoeIInv, QueueInv
    <3>2. j \in encoded
      BY <2>2 DEF StepIInv, MoeIInv, LoopInv
    <3>3. QED
      BY <2>2, <3>1, <3>2 DEF StepIInv, MoeIInv, RowsInv
  <2>3. QED
    BY <2>1, <2>2 DEF RoutedRowsRight
<1>2. QED
  BY <1>1, StepInvariant, PTL

\* The main thread obeys the rules under which the pool and the store are proved.
THEOREM MoeObeysRules == MoeSpec => ObeysRules
<1>1. MoeInit => PoolInit /\ CacheInit
  BY DEF MoeInit
<1>2. Obeys => [PoolNext]_poolVars /\ [CacheNext]_cacheVars
  BY DEF Obeys
<1>3. QED
  BY <1>1, <1>2, StepInvariant, StepObeys, PTL DEF MoeSpec, ObeysRules

\* With this caller the ring never overflows, a slot that can be evicted is
\* always there, and what the call resolved stays resident.
THEOREM MoeNeverStuck == MoeSpec => [](NeverOverflows /\ FallbackUnreachable /\ ResolvedStayResident)
<1>1. PoolIInv => NeverOverflows
  BY StepConstants, InvOverflow
<1>2. CacheIInv => FallbackUnreachable /\ ResolvedStayResident
  BY SomeSlotEvictable DEF CacheIInv
<1>3. StepIInv => PoolIInv /\ CacheIInv
  BY DEF StepIInv
<1>4. QED
  BY <1>1, <1>2, <1>3, StepInvariant, PTL

\* With this caller too the store is a strict LRU cache that drops no pair in use.
THEOREM MoeImplementsLru == MoeSpec => ImplementsLru
<1>1. MoeSpec => CacheInit /\ [][CacheNext]_cacheVars
  BY MoeObeysRules, PTL DEF ObeysRules
<1>2. QED
  BY <1>1, CacheImplementsLru, PTL DEF CacheSpec

\* With this caller too the pool is a service that gives a job back only after
\* its bytes are in place, in the order of their submission.
THEOREM MoeImplementsService == MoeSpec => ImplementsService
<1>1. MoeInit => PoolInit
  BY DEF MoeInit
<1>2. StepIInv => PoolIInv /\ PoolTypeOK
  BY DEF StepIInv, PoolIInv
<1>3. Obeys => [PoolNext]_poolVars
  BY DEF Obeys
<1>4. QED
  BY <1>1, <1>2, <1>3, ServiceInit, StepInvariant, StepObeys, DownEmptyPreserved, ServiceStep, PTL
     DEF MoeSpec, ImplementsService, Service!SvcSpec

\* What the main thread encodes is one stream of dispatches to the GPU.
THEOREM MoeImplementsStream == MoeSpec => ImplementsStream
<1>1. MoeInit => Stream!StreamInit
  BY StreamStarts DEF MoeInit
<1>2. StepIInv => GpuIInv
  BY DEF StepIInv
<1>3. Obeys => [HostCall \/ GpuNext]_gpuVars
  BY DEF Obeys
<1>4. QED
  BY <1>1, <1>2, <1>3, StepInvariant, StepObeys, StreamStep, KeptStep, PTL
     DEF MoeSpec, ImplementsStream, Stream!StreamSpec
=============================================================================
