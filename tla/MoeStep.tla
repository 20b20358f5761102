------------------------------- MODULE MoeStep -------------------------------
(***************************************************************************)
(* The GPU path of an MoE layer (real_mlp_moe_forward_gpu) inside the      *)
(* forward step that calls it: the main thread, the loader pool, the       *)
(* expert store and the GPU at work together, from start-up to exit.       *)
(* The main thread's steps are those of LoaderPool's caller, ExpertCache   *)
(* and GpuBatch's host, in the order of the code; the slab bytes, which    *)
(* loader threads write and the GPU reads, are what they share.            *)
(***************************************************************************)
EXTENDS LoaderPool, ExpertCache, GpuBatch

CONSTANT Garbage   \* bytes of more than one expert, or never written

\* jobs[], cslot[] and pending[] are indexed by the position in topk_idx.
\* topk <= SEPIA_MOE_MAX_TOPK = SEPIA_LOADER_QUEUE_CAP is checked by the call.
ASSUME MoeAssumption ==
  /\ Jobs = 1..TopK /\ TopK <= QueueCap
  /\ Garbage \notin Pairs \cup {NoPair}
  /\ Ops = [pick : 0..TopK, slot : Slots]

VARIABLES
  at,        \* where the main thread is
  topk_idx,  \* the experts moe_route_select chose for this call
  cslot,     \* cslot[j]: the slot expert j was given
  pending,   \* positions whose job is not NULL: this call's misses
  encoded,   \* positions whose dispatch is encoded
  routed_raw,\* what each position's dispatch read, NoPair before it ran
  slab,      \* slab[s][r]: whose bytes region r of slot s holds
  freed      \* the slabs, slots and table are freed

moeVars == <<at, topk_idx, cslot, pending, encoded, routed_raw, slab, freed>>
poolOnly == <<ring, flags, workerVars, jobVars, callerVars>>
cacheOnly == <<storeVars, gen_completed, callVars>>
vars == <<poolOnly, cacheOnly, gpuVars, moeVars, alive>>

Picks == 1..TopK
Router == [pick |-> 0, slot |-> 0]           \* all dispatches of the first batch
Routed(j) == [pick |-> j, slot |-> cslot[j]]  \* the four dispatches of expert j
Expert(j) == <<layer, topk_idx[j]>>

MoeInit ==
  /\ PoolInit /\ CacheInit /\ GpuInit
  /\ at = "boot"
  /\ topk_idx \in Selections
  /\ cslot = [j \in Picks |-> 0]
  /\ pending = {} /\ encoded = {}
  /\ routed_raw = [j \in Picks |-> NoPair]
  /\ slab = [s \in Slots |-> [r \in 1..NReads |-> NoPair]]
  /\ freed = FALSE

-----------------------------------------------------------------------------
(* The main thread.  Main(from, to) is a step of it between two places, in *)
(* none of the pool's functions.                                           *)

Main(from, to) == alive /\ mpc = "out" /\ at = from /\ at' = to

moeOthers == <<topk_idx, cslot, pending, routed_raw, slab, freed>>

\* main: sepia_gpu_init, then real_load up to expert_store_init ...
Boot ==
  /\ Main("boot", "load")
  /\ GpuStartup /\ available'
  /\ UNCHANGED <<poolOnly, cacheOnly, encoded, moeOthers, alive>>

\* ... and expert_loader_pool_start.
Load ==
  /\ Main("load", "idle")
  /\ PoolStart
  /\ UNCHANGED <<cacheOnly, gpuVars, encoded, moeOthers>>

\* real_forward_chunk_gpu opens the batch of its first layer.
OpenForward ==
  /\ Main("idle", "open")
  /\ gen_completed + 1 <= MaxGen
  /\ Begin
  /\ UNCHANGED <<poolOnly, cacheOnly, encoded, moeOthers, alive>>

\* The next MoE layer's router and shared experts are encoded.
EncodeRouter ==
  /\ Main("open", "router")
  /\ gen_completed + 3 <= MaxGen
  /\ Dispatch(Router)
  /\ UNCHANGED <<poolOnly, cacheOnly, encoded, moeOthers, alive>>

\* real_gpu_end: commit and block.  SYNC #1, SYNC #2 and the residual readback.
GpuEnd(from, to) ==
  /\ Main(from, to)
  /\ EndCommit
  /\ UNCHANGED <<poolOnly, cacheOnly, encoded, moeOthers, alive>>

\* Mutant: sepia_gpu_end is called directly and no generation is counted.
EndUncounted(from, to) ==
  /\ Main(from, to)
  /\ EndReturn
  /\ cbStatus = "completed" /\ resolved' = {}
  /\ UNCHANGED <<poolOnly, storeVars, gen_completed, layer, todo, encoded, moeOthers, alive>>

\* real_gpu_end returns: the generation advances, or the caller dies.
EndOk(from, to) ==
  /\ Main(from, to)
  /\ EndReturn
  /\ cbStatus = "completed" /\ GpuEndOk
  /\ UNCHANGED <<poolOnly, encoded, moeOthers>>

EndDies ==
  /\ at \in {"sync1", "sync2", "readback"} /\ mpc = "out"
  /\ EndReturn
  /\ cbStatus = "error" /\ Die
  /\ UNCHANGED <<poolOnly, cacheOnly, moeVars>>

\* moe_route_select reads the logits and picks topk distinct experts.
Route(l, sel) ==
  /\ Main("select", "resolve")
  /\ SelectExperts(l, sel)
  /\ topk_idx' = sel
  /\ pending' = {} /\ encoded' = {}
  /\ routed_raw' = [j \in Picks |-> NoPair]
  /\ UNCHANGED <<poolOnly, gpuVars, cslot, slab, freed>>

\* The position being resolved.
Current == TopK - Len(todo) + 1

ResolveHit ==
  /\ Main("resolve", "resolve")
  /\ CacheHit
  /\ cslot' = [cslot EXCEPT ![Current] = table[Expert(Current)]]
  /\ UNCHANGED <<poolOnly, gpuVars, topk_idx, pending, encoded, routed_raw, slab, freed>>

\* expert_cache_get on a miss: the store's bookkeeping is only ever seen by this
\* thread, so it is taken together with the first step of expert_loader_submit;
\* the rest of the submission is SubmitEnqueue.
ResolveMiss(s) ==
  /\ Main("resolve", "resolve")
  /\ CacheMiss(s)
  /\ SubmitReset(Current)
  /\ cslot' = [cslot EXCEPT ![Current] = s]
  /\ pending' = pending \cup {Current}
  /\ UNCHANGED <<gpuVars, topk_idx, encoded, routed_raw, slab, freed>>

OpenRouted ==
  /\ Main("resolve", "pass1")
  /\ todo = <<>>
  /\ Begin
  /\ UNCHANGED <<poolOnly, cacheOnly, encoded, moeOthers, alive>>

\* The first position of a set that is not encoded yet, in loop order.
NextOf(S, j) == j \in S \ encoded /\ \A i \in S \ encoded : j <= i

\* Mutant: pass 1 does not skip the misses.
AllPicks == Picks

Hits == Picks \ pending

\* Pass 1: a hit's dispatch needs no wait.
EncodeHit(j) ==
  /\ Main("pass1", "pass1")
  /\ NextOf(Hits, j)
  /\ Dispatch(Routed(j))
  /\ encoded' = encoded \cup {j}
  /\ UNCHANGED <<poolOnly, cacheOnly, moeOthers, alive>>

FlushHits ==
  /\ Main("pass1", "pass2")
  /\ Hits \subseteq encoded
  /\ Flush /\ batch' # NoBatch
  /\ UNCHANGED <<poolOnly, cacheOnly, encoded, moeOthers, alive>>

\* Pass 2: wait for one miss, then encode its dispatch.
AwaitMiss(j) ==
  /\ Main("pass2", "await")
  /\ NextOf(pending, j)
  /\ WaitCall(j)
  /\ UNCHANGED <<cacheOnly, gpuVars, encoded, moeOthers>>

MissArrived ==
  /\ at = "await" /\ at' = "encode"
  /\ WaitReturn
  /\ UNCHANGED <<cacheOnly, gpuVars, encoded, moeOthers>>

EncodeMiss(j) ==
  /\ Main("encode", "pass2")
  /\ NextOf(pending, j)
  /\ Dispatch(Routed(j))
  /\ encoded' = encoded \cup {j}
  /\ UNCHANGED <<poolOnly, cacheOnly, moeOthers, alive>>

\* Mutant: the second loop stops after its first miss.
OneMissEncoded == Cardinality(pending \ encoded) < 2 /\ Hits \subseteq encoded

AllEncoded == Picks \subseteq encoded

\* The rows are mixed and freed, and the caller's batch is opened again.
Mix ==
  /\ Main("mix", "open")
  /\ Begin
  /\ UNCHANGED <<poolOnly, cacheOnly, encoded, moeOthers, alive>>

\* The end of main: expert_store_shutdown, then expert_loader_pool_shutdown.
FreeStore ==
  /\ Main("idle", "freed")
  /\ freed' = TRUE
  /\ UNCHANGED <<poolOnly, cacheOnly, gpuVars, topk_idx, cslot, pending, encoded,
                 routed_raw, slab, alive>>

StopPool ==
  /\ Main("freed", "exit")
  /\ ShutdownSignal
  /\ UNCHANGED <<cacheOnly, gpuVars, encoded, moeOthers>>

\* begin, flush or a dispatch returned 0: every call site dies.
GpuCallDies ==
  /\ at \in {"boot", "idle", "open", "resolve", "pass1", "encode", "mix"} /\ mpc = "out"
  /\ Die
  /\ UNCHANGED <<poolOnly, cacheOnly, gpuVars, moeVars>>

\* The main thread inside the pool's functions.
InsidePool ==
  /\ SubmitEnqueue \/ SubmitOverflow \/ WaitBlock \/ ShutdownJoin
  /\ UNCHANGED <<cacheOnly, gpuVars, moeVars>>

SpuriousWakeup == SpuriousCaller /\ UNCHANGED <<cacheOnly, gpuVars, moeVars>>

-----------------------------------------------------------------------------
(* The loader threads and the GPU, on the slabs.                           *)

\* A pread puts the job's expert into one region of the job's slot.
LoaderStep(w) ==
  /\ WorkerStep(w)
  /\ slab' = IF nread'[w] = nread[w] + 1
             THEN [slab EXCEPT ![cslot[wjob[w]]][nread[w] + 1] = Expert(wjob[w])]
             ELSE slab
  /\ UNCHANGED <<cacheOnly, gpuVars, at, topk_idx, cslot, pending, encoded,
                 routed_raw, freed>>

\* What a dispatch reads from a slot: one expert's three regions, or not.
BytesOf(s) ==
  IF \A r \in 1..NReads : slab[s][r] = slab[s][1] /\ slab[s][r] # NoPair
  THEN slab[s][1] ELSE Garbage

GpuStep ==
  /\ alive
  /\ GpuNext
  /\ LET op == committed[1].ops[1] IN
     routed_raw' = IF GpuRun /\ op.pick # 0
                   THEN [routed_raw EXCEPT ![op.pick] = BytesOf(op.slot)]
                   ELSE routed_raw
  /\ UNCHANGED <<poolOnly, cacheOnly, alive, at, topk_idx, cslot, pending, encoded,
                 slab, freed>>

-----------------------------------------------------------------------------
MainStep ==
  \/ Boot \/ Load \/ OpenForward \/ EncodeRouter
  \/ GpuEnd("router", "sync1") \/ EndOk("sync1", "select")
  \/ \E l \in Layers, sel \in Selections : Route(l, sel)
  \/ ResolveHit \/ \E s \in Slots : ResolveMiss(s)
  \/ OpenRouted \/ \E j \in Picks : EncodeHit(j) \/ AwaitMiss(j) \/ EncodeMiss(j)
  \/ FlushHits \/ MissArrived
  \/ AllEncoded /\ GpuEnd("pass2", "sync2")
  \/ EndOk("sync2", "mix")
  \/ Mix
  \/ GpuEnd("open", "readback") \/ EndOk("readback", "idle")
  \/ FreeStore \/ StopPool \/ InsidePool
  \/ EndDies

Done == Over /\ UNCHANGED vars

MoeNext ==
  \/ MainStep \/ SpuriousWakeup \/ GpuCallDies
  \/ \E w \in Workers : LoaderStep(w)
  \/ GpuStep
  \/ Done

\* Every thread that can run does, and so does the GPU; nothing has to fail and
\* no sleeper has to be woken for no reason.
MoeSpec ==
  /\ MoeInit /\ [][MoeNext]_vars
  /\ WF_vars(MainStep) /\ WF_vars(GpuStep)
  /\ \A w \in Workers : WF_vars(LoaderStep(w) /\ WorkerProgress(w))
-----------------------------------------------------------------------------
(* Properties.                                                             *)

MoeTypeOK ==
  /\ at \in {"boot", "load", "idle", "open", "router", "sync1", "select", "resolve",
            "pass1", "pass2", "await", "encode", "sync2", "mix", "readback", "freed", "exit"}
  /\ topk_idx \in Selections
  /\ cslot \in [Picks -> Slots]
  /\ pending \in SUBSET Picks /\ encoded \in SUBSET Picks
  /\ routed_raw \in [Picks -> Pairs \cup {NoPair, Garbage}]
  /\ slab \in [Slots -> [1..NReads -> Pairs \cup {NoPair}]]
  /\ freed \in BOOLEAN

\* No loader thread has still to write a slot that an encoded dispatch will
\* read: eviction, the job's wait and the flush together keep them apart.
NoWriteUnderDispatch ==
  \A i \in 1..Len(Pending) : Pending[i].pick # 0 =>
    \A j \in taken : ~done[j] => cslot[j] # Pending[i].slot

\* Whatever the interleaving of hits, misses, reads and GPU work, a routed
\* dispatch computes with all three regions of its own expert, and after SYNC #2
\* every routed row is there to be mixed, if no command buffer faulted.
RoutedRowsRight ==
  /\ \A j \in Picks : routed_raw[j] \in {NoPair, Expert(j)}
  /\ at = "mix" /\ ~faulted => \A j \in Picks : routed_raw[j] = Expert(j)

\* Outside the resolve and dispatch loops no job is queued, running or owed a
\* wait: jobs[] is a local array of a call that has returned.  So at exit, where
\* the store is freed before the loader threads are joined, no thread and no
\* dispatch can touch a slab any more.
InCall == at \in {"resolve", "pass1", "pass2", "await", "encode"}
DrainedBetweenCalls ==
  /\ InCall \/ (taken = {} /\ Running = {} /\ qcount = 0)
  /\ freed => Pending = <<>>

\* Where the main thread may be inside the pool's functions, and what of this
\* call's jobs is outstanding there.
Syncing == {"sync1", "sync2", "readback"}
Dispatching == {"pass1", "pass2", "await", "encode", "sync2"}

PlaceInv ==
  /\ at \notin {"boot", "load", "exit"} => started
  /\ at \notin {"resolve", "await", "exit"} => mpc = "out"
  /\ at = "resolve" => mpc \in {"out", "submit"}
  /\ at = "await" => mpc \in {"wait", "asleep"} /\ NextOf(pending, marg)
  /\ at \in {"resolve", "pass1"} => taken = pending
  /\ at \in {"pass2", "await"} => taken = pending \ encoded
  /\ at = "encode" => /\ taken \subseteq pending \ encoded
                     /\ \A j \in Picks : NextOf(pending, j) => taken = (pending \ encoded) \ {j}
  /\ ~InCall => taken = {}

\* Which positions are resolved and encoded, in the order of the loops.
LoopInv ==
  /\ at # "resolve" => todo = <<>>
  /\ at = "resolve" =>
       /\ \A i \in 1..Len(todo) : todo[i] = topk_idx[TopK - Len(todo) + i]
       /\ pending \subseteq 1..TopK - Len(todo)
       /\ encoded = {}
  /\ resolved = IF InCall \/ at = "sync2"
                THEN {<<topk_idx[j], cslot[j]>> : j \in 1..TopK - Len(todo)} ELSE {}
  /\ at = "pass1" => encoded \subseteq Hits
  /\ at \in {"pass2", "await", "encode"} => Hits \subseteq encoded
  /\ at \in {"sync2", "mix"} => Picks \subseteq encoded

\* The GPU has work only while a batch is open or waited for, and all of it is
\* of the open batch's begin.
QueueInv ==
  /\ alive => (hostAt = "ending" <=> at \in Syncing)
  /\ at \in {"boot", "load", "idle", "select", "resolve", "mix", "freed", "exit"}
       => batch = NoBatch /\ committed = <<>>
  /\ \A i \in 1..Len(committed) : committed[i].current
  /\ freed => at \in {"freed", "exit"}

\* A slot with an owner holds all its bytes, but for the slots of outstanding
\* jobs, which hold what has landed.
SlabInv ==
  /\ \A j \in taken : /\ owner[cslot[j]] = Expert(j)
                      /\ \A r \in landed[j] : slab[cslot[j]][r] = Expert(j)
  /\ \A s \in Slots : owner[s] # NoPair /\ (\A j \in taken : cslot[j] # s)
       => \A r \in 1..NReads : slab[s][r] = owner[s]

\* A routed dispatch in flight is of a position of this call that is encoded and
\* keeps its slot; a position encoded has its row or a dispatch that will write
\* it, unless the GPU lost one.
RowsInv ==
  /\ \A op \in InFlight : op.pick # 0 =>
       at \in Dispatching /\ op.pick \in encoded /\ op.slot = cslot[op.pick]
  /\ \A j \in Picks : routed_raw[j] \in {NoPair, Expert(j)}
  /\ at \in Dispatching \cup {"mix"} /\ ~faulted =>
       \A j \in encoded : routed_raw[j] = Expert(j) \/ Routed(j) \in InFlight

\* The step's own inductive invariant, and what it means at its places.
MoeIInv == MoeTypeOK /\ PlaceInv /\ LoopInv /\ QueueInv /\ SlabInv /\ RowsInv

MoeInv == BatchInv /\ DrainedBetweenCalls /\ MoeIInv

\* Every MoE call that has selected its experts returns, or the process dies.
CallTerminates == (at = "resolve") ~> (at = "open" \/ ~alive)

\* The main thread obeys the rules the pool and the store were verified under.
ObeysRules ==
  /\ PoolInit /\ [][PoolNext]_poolVars
  /\ CacheInit /\ [][CacheNext]_cacheVars
=============================================================================
