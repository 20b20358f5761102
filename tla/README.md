# SEPIA in TLA+

SEPIA is a C inference engine for a mixture-of-experts language model whose
experts do not fit in memory. The weights every token needs stay in RAM; the few
experts a router picks for a token are read from an SSD container into a fixed
store of slots, by a pool of threads, while the GPU computes with the experts that
were already there. This directory holds a model of that engine in TLA+, TLC
configurations that check it on small instances, and proofs checked by TLAPS for
instances of any size. `PROJECT.json` says, definition by definition, which lines
of the source a definition stands for.

Paths below are relative to the repository: `src/sepia.c` is the engine,
`src/sepia_metal.m` the Metal shim, `metal/` the kernels.

## 1. The system

### Parts, their state and their operations

| part | where | state | operations |
| --- | --- | --- | --- |
| expert loader pool | `sepia.c`, `expert_loader_*` | ring of job pointers, flags, mutex and two condition variables, `SEPIA_LOADER_THREADS` workers, job records on the caller's stack | start, submit, wait, shutdown, the worker loop |
| expert store | `sepia.c`, `expert_cache_*`, `expert_store_init` | slots in a few big slabs, an intrusive LRU list, a (layer, expert) table, generation stamps, mlock state | init, get (hit, miss, evict), mlock once, free |
| batched encoding | `sepia_metal.m` | the open command buffer, the queue's committed ones | init, begin, dispatch, flush, end, shutdown |
| MoE layer, GPU path | `sepia.c`, `real_mlp_moe_forward_gpu` | the call in progress: chosen experts, their slots, pending jobs | one call per MoE layer and token |
| forward pass, CPU | `sepia.c`, `sconv_apply`, `attn_forward_chunk`, `decoder_layer_forward`, `model_forward_chunk` | per layer: KV rows and four convolution histories | create, forward a chunk, free |
| forward pass, GPU | `sepia.c`, `real_*_gpu`; `metal/ops.metal` | the same cache in shared buffers, scratch buffers | forward a chunk |
| forward pass of the small model, GPU | `sepia.c`, `gpu_attn_forward_chunk`, `gpu_mlp_*`, `model_forward_chunk_gpu` | the CPU's cache, device buffers of each call | forward a chunk, one operation per round trip |
| generation and self-test | `sepia.c`, `real_generate`, `real_print_top_logits`, `run_self_test` | position, cache, logits row | generate, repeat, compare |
| MoE routing | `sepia.c`, `moe_route_select` | scores, used flags | pick the top k |
| expert index and store layout | `sepia.c`, `index_load`, `real_load`, `expert_store_init` | offsets and sizes of every expert's matrices, slab and slot geometry | parse, check, size, allocate |
| tokenizer | `tokenizer.c` | vocabulary, pair hash table | load, encode, decode |
| loading | `sepia.c`, `manifest_load`, `real_load`, `real_gpu_layer_build` | manifest, mapping, index, the tensors of each layer | load, resolve and check each tensor, size the arena and the store |
| layer weights | `sepia.c`, `real_fill_layer`, `model_load`, `mlp_*_forward`, `real_expert_ffn` | one arena for all layers, the fields that point into it, three expert buffers | size, fill, read rows, stream an expert |
| reducing kernels | `metal/ops.metal`, `metal/banded_attn.metal` | threadgroup memory, registers | rmsnorm, matvec, softmax, banded attention |
| readers | `sepia.c`, `json_*`, `st_*`, `config_load`, `model_load` | none after loading | parse |
| dequantization | `quants.c`, `metal/matvec_q.metal`, `metal/00_quants_grids.metal` | none | dequantize, quantized matrix-vector products |
| offline tools | `tools/*.py`, `tools/iobench.c` | files | build the index, extract the resident weights, measure |

### How they interact

One **main thread** does everything but file reads: it owns the GPU, the store and
the cache. For each MoE layer and token it closes the batch that computed the
router, picks the experts, resolves each in the store (a miss evicts a slot,
submits a job to the pool and keeps the pointer to it), encodes the hits, flushes
them, then waits for one missing expert after the other and encodes it, and
closes the batch. **Loader threads** share with it the ring under one mutex, the job
records' `done` flags, and the slab bytes. The **GPU** shares every buffer with
the host, slabs included, and runs behind it until the host calls
`sepia_gpu_end`. `die()` in any thread ends the process.

### What is hard here, and what makes each part correct

* *Pool*: one `pthread_cond_signal` per submit, spurious wakeups, job records
  reused by the next layer, a ring that is exactly as long as the largest number
  of misses. Correct when done means read, no thread keeps a pointer to a record
  that was given back, no queued job is left with everyone asleep, and waits end.
* *Store*: three views of residency that must agree; eviction in the middle of a
  token; a generation counter as the only proof that the GPU has finished with a
  slot; mlock that may fail half way. Correct when it is an LRU cache that never
  takes a slot in use.
* *Encoding*: flushes split a batch; a fault may be in a buffer nobody looks at.
  Correct when the split is invisible.
* *MoE layer*: main thread, loader threads and GPU at once on the same bytes.
* *Forward passes*: a text cut into chunks must give what the whole text gives;
  histories shorter and longer than a chunk; sliding windows; on the GPU, host
  accesses between asynchronous dispatches and scratch buffers reused row by row.
* *Loops*: positions, cache room, end of text, repeats.
* *Loading*: some twenty tensors a layer, each with a type, a shape, an offset and
  a size that a file states and later code trusts through bare pointers; two index
  files of which each must agree with the configuration. Correct when nothing that
  was accepted, at the size its file states, reaches outside that file or its slot.
* *Layer weights*: an arena overwritten by every layer, sized once, filled by one
  arithmetic and read by another, with gate and up rows interleaved and shared
  experts stacked. Correct when every row read is the row meant.
* *Kernels*: threads of a threadgroup reduce through shared cells, in two steps,
  twice in a row. Correct when no order of the simdgroups changes the result.
* *Routing, layout, tokenizer*: sequential code with sharp edges (NaN and ties,
  the last slab, budgets below one slot, offsets outside a file; colliding
  pairs, hand-unrolled backtracking).

The hazards, each with its line and the properties that watch it, are listed in
`PROJECT.json`. Those without a property are named in section 7.

## 2. The modules

| module | models | extends or instantiates |
| --- | --- | --- |
| `ProcessLife` | the process's life, `die()` | |
| `LoaderPool` | the loader pool | `ProcessLife`; implements `ReadService` |
| `ReadService` | what the pool promises: jobs that are submitted, performed, waited for; no threads, no ring | |
| `ExpertCache` | the expert store | `ProcessLife`; implements `LruCache` |
| `LruCache` | a strict LRU cache with pinned entries | |
| `GpuBatch` | begin, dispatch, flush, end over a Metal queue | implements `GpuStream` |
| `GpuStream` | dispatches executed in the order they were encoded, those handed to the GPU before those still with the host | |
| `MoeStep` | `real_mlp_moe_forward_gpu`, start and exit | composes `LoaderPool`, `ExpertCache`, `GpuBatch` |
| `ForwardChunk` | the CPU forward pass | implements `TextModel` |
| `TextModel` | rows of logits as the text determines them, with no chunks and no cache | |
| `ForwardGpu` | the GPU forward pass | `ForwardChunk`'s rows and properties; implements `TextModel` |
| `ForwardTiny` | the small model's GPU forward pass, beside the other | extends `ForwardGpu`; implements `TextModel` |
| `Generate` | self-test, generation, top logits | drives `ForwardChunk` |
| `MoeRoute` | `moe_route_select` | |
| `LayerWeights` | the arena, `real_fill_layer`, `model_load`'s fields, the dense and MoE MLPs of the CPU | extends `MoeRoute` |
| `ExpertLayout` | index checks, store sizing | |
| `RealLoad` | `real_load`: manifest, tensor checks, index, store | extends `ExpertLayout` |
| `Threadgroup` | the reductions of the Metal kernels | |
| `Scanner` | `next_pretoken` and its helpers | |
| `Regex` | `SCANNER_REGEX` under a backtracking matcher | `Scanner`'s code points |
| `Tokenizer` | pair table, encoding | `Scanner`, `Regex` |
| `MC*` | instances for TLC | |
| `ExpertStreamProofs` | theorems | `LoaderPool` and `ExpertCache`, each on its own |
| `GpuBatchProofs` | theorems | `GpuBatch` |
| `MoeStepProofs` | theorems | `MoeStep` and its three parts' proofs |
| `ForwardProofs` | theorems | `Generate` (with `ForwardChunk`); the programs of `ForwardTiny` (with `ForwardGpu`) |
| `ForwardGpuProofs` | theorems | the steps of `ForwardTiny` and `ForwardGpu`; extends `ForwardProofs` |
| `LayerWeightsProofs` | theorems | `LayerWeights` (with `MoeRoute`) and `Threadgroup` |
| `RealLoadProofs` | theorems | `RealLoad` (with `ExpertLayout`) |
| `Induction` | induction over the naturals, stated for sets | |

### How state and actions correspond to the code

**LoaderPool.** What lies between `pthread_mutex_lock` and the next unlock or
`pthread_cond_wait` is one action; what the code does outside the mutex
(`job->done = 0`, each `pread`) is one of its own. `wpc[w]` is where a worker is,
`mpc` where the caller is inside `submit`, `wait` or `shutdown`. A thread in
`pthread_cond_wait` may wake at any time and tests its condition again. `landed`
is the set of a job's reads that are in memory. A read may fail and `die()`.

**ExpertCache.** One action per `expert_cache_get`, hit or miss, with all it
does: unlink, push to the front, table updates of victim and newcomer, stamp,
mlock. `GpuEndOk` is `real_gpu_end`, which alone advances `gen_completed`. The
reads a miss asks for are left to the pool.

**GpuBatch.** `batch` is `g_batch_cb`, `committed` the queue. The GPU takes
buffers in commit order and may fail one at any dispatch. `sepia_gpu_end`
commits and blocks on its own buffer only, as the code does.

**MoeStep.** `at` is the main thread's place in the call. Every action of it is an
action of one of the three components plus the call's own variables. `slab[s][r]`
says whose bytes region `r` of slot `s` holds, region by region as the reads land,
and a routed dispatch that executes records what it read. The process's start
(GPU, store, pool) and exit (store freed, pool joined, in that order) are part of it.

**ForwardChunk.** A row of numbers is a *frame*: which layer, which stage, which
position of the text it belongs to. A stage applied to the right rows gives the
right frame, applied to anything else gives `Bad`; the arithmetic itself is
uninterpreted. Indices, histories, cache cells and windows are the code's.

**ForwardGpu.** A call is the program that the code runs: begin, dispatches with
the buffers they read and write, ends, host reads and writes. Encoded
dispatches execute in order, at any moment up to the end that waits for them
(what `GpuBatch` guarantees), and each keeps the experts chosen by the time it
was encoded. One shared and one routed expert stand for all.
A buffer keeps its content between layers; stale content is a wrong frame.

**ForwardTiny** adds the pass that `--gpu` runs on the small test model: every
operation uploads its inputs to fresh device buffers, dispatches, ends and reads
back. It is written in the statements of `ForwardGpu`, with four device arrays
for the buffers of one operation; `path` says which of the two the process runs.
The history roll and the cache writes are then the host's.

**Generate.** The three loops; the token picked from a right logits row is named
by its position, from any other row `BadToken`, so greedy text is a sequence of
positions. The place of the end-of-text token is an input.

**MoeRoute** keeps the scan's `best` and the picks; scores are any order with
ties, and NaN compares false.

**LayerWeights** has a float array `arena` whose cells hold the identity of a
number, (layer, matrix, row, column), instead of its value, and, for each field of
`LayerWeights` (the C struct), where it points. In real mode `FillLayer` and
the `Fill*` actions are the lines of `real_fill_layer` in order; otherwise the
fields point into the checkpoint, whose layout is the same. A row is right when the
`n` floats found by the forward pass's index arithmetic are those of the row it
means. An expert's contribution names the expert, the rows it was computed from
and the weight it was multiplied by; `out` collects them.

**ExpertLayout** runs the parse loop, the check loop and `expert_store_init` on
one list of entries with integers for bytes. **RealLoad** puts them where
`real_load` calls them: `manifest` gives each tensor an entry, which each
`resident_*` resolver accepts or dies on, in the code's order; then the layers'
loop, the GPU layer, the index with its cross-checks against the configuration,
and the store. A layer's tensors are all there, resolved in one step; the order
within a layer decides only which message the process dies with.

**Threadgroup** executes a kernel as a list of statements between barriers, each
with the shared cells that it reads and writes. A simdgroup runs in lockstep, in
any order with the others. A value is the bag of elements that were added up,
with the maximum it is relative to, so that a wrong correction factor or an
element counted twice shows.

**Tokenizer.** A code point is a class representative, 14 of them: one for each
class that the scanner's tests tell apart, with `\r` as `\n`, `'t` `'m` `'d` as `'s`,
`'re` `'ve` as `'ll`, and one letter, mark and number for all beyond ASCII. A malformed byte is the classless one, as in
`utf8_next`. A token is the sequence of code points it decodes to. The pair
table is the array of cells with linear probing; a probe that would never end
leaves the encoder with nothing to do.

## 3. What the runs check

| run | instance | shows |
| --- | --- | --- |
| `loader_pool` | 2 workers, 3 records, ring of 2, 2 reads, no symmetry | `DoneMeansLanded`, `NoDanglingJob`, `WorkConserving`, the proofs' `PoolIInv`; every wait and shutdown returns (`CallsReturn`); the pool implements `ReadService`. The records exceed the ring, so the overflow `die()` happens too |
| `expert_cache` | 2 layers of 3 experts, 3 slots, 2 per token | `StoreInv` (list, table, slots, pinned slots), `ResolvedStayResident`; the store implements `LruCache` |
| `gpu_batch` | 2 operations, at most 3 pending | `EndReturns`; implements `GpuStream`: dispatches run in the order they were encoded, and `ImplementsStream` says of each step that may lose one what it is: a command buffer that fails loses what it had not executed, `sepia_gpu_shutdown` loses the open batch, every other step keeps all |
| `gpu_batch_flushed_fault` | 1 operation | *violated*: a successful `sepia_gpu_end` does not mean that everything was executed (section 6) |
| `moe_step` | 1 layer, 4 experts, 2 per token, 2 slots, 2 workers, 1 read, 2 calls, no symmetry | `NoWriteUnderDispatch`, `RoutedRowsRight`, `MoeInv` (nothing outstanding between calls or when the store is freed), `FallbackUnreachable`, `NeverOverflows`; the main thread's steps are those its components were checked under (`ObeysRules`); every call returns (`CallTerminates`) |
| `forward_chunk` | 2 layers (one sliding), K = 3, window 3, caches of up to 5 | `HistoriesFollowText`, the proofs' `ForwardIInv`; implements `TextModel` (`ComputesText`) |
| `forward_gpu` | both GPU passes; a sliding dense and a full MoE layer, up to 4 positions | `HostTouchesQuiescent`, `GpuCacheFollowsText`, `ComputesText` |
| `generate` | prompts of 1 to 3, up to 3 decoded, 2 runs | `GenerateInv` (greedy text, room), `SelfTestPasses`, `NothingAfterEos`, `KeepsContract` (towards `ForwardChunk`), `Finishes` |
| `layer_weights` | 3 layers (sliding dense, full MoE, sliding MoE), 3 picks of 4 experts, 2 shared, rows of 2, from container and checkpoint | `RouteIsTopK` (3 scores and NaN), `LayerRowsRight`, `MixesEachOnce` |
| `real_load` | a sliding dense and a full MoE layer, any one of 7 tensors odd, 2 index entries, files of 3 bytes and a resident file of 12, budgets up to 38, slabs of 14, pages of 2 | `StoreLaidOut`, `ReadsStayInside`, `ResolvedInside` |
| `threadgroup` | simdgroups of 4, threadgroups of up to 16, rows of up to 18 | `NoSharedRace`, `RowReduced` |
| `tokenizer` | all texts of up to 3 of the 14 code points, of up to 5 of two sets of six; all words of 6 over two letters with all ordered tables of up to 3 merges | `PieceFollowsRegex`, `PieceMergedAsGpt2`, `Encodes` |

`PROJECT.json` also lists, for each property, a change to one definition, of the
kind a plausible bug in that code would be, under which TLC finds the property violated.

### Bounds, and why they are enough

* `MaxGen` (generations), `MaxStream` (dispatches pending), `MaxCap`,
  `MaxPrompt`, `MaxRepeat`, `MaxIds`, `MaxRow`, and the byte bounds of
  `ExpertLayout` and `RealLoad` are guards on counters or sizes of inputs;
  nothing else is cut off.
* The pool's interesting cases need fewer workers than jobs, a ring that wraps
  and a record that is used again. All happen with 2 workers and 3 records; for
  every larger size the invariants are proved.
* Two slots for two experts a token is the smallest store that
  `expert_store_init` accepts and the one with most evictions: every miss of
  the second call evicts an expert of the first. `expert_cache` adds a third slot, so that
  a list has a middle. `loader_pool` has the two reads of a job that `moe_step`
  makes one of.
* `forward_chunk` has chunks shorter than, as long as and longer than the
  history (K - 1 = 2) and the window, including empty ones, and texts longer
  than the window. Two layers make a layer read another's output; the invariant
  is proved for all sizes.
* A scan of four experts with three picks meets a skipped expert before, between
  and after the best. The theorem covers the rest.
* `layer_weights` goes round its three layers without end, so each is filled after
  every shape of predecessor. Dimensions differ between the two kinds of attention and
  of MLP, and two shared experts make a stack.
* In `real_load` one tensor of the manifest is odd in any combination of type,
  shape, offset and size, or absent, while the index is good; or the index has
  any offsets and sizes, in parts of one size, while the manifest is good. The seven tensors taken in
  turn meet every resolver and every check; the others go through the same.
  Nothing in the code relates the two files beyond the number of experts and
  the layers, which vary too.
* Threadgroups of one to four simdgroups, rows shorter than a simdgroup, than a
  threadgroup, as long and longer: every way in which a share is empty. The
  kernels' cells are one per simdgroup, at most as many as a simdgroup has lanes
  (`ThreadgroupAssumption`), as 32 are for 1024 threads.
* The scanner's branches are decided by a prefix, two runs, a contraction of up
  to three code points and what follows them; runs matter by being empty, single
  or longer, digits by passing three. Five code points reach all of it.
* Merges of three levels over words of six contain overlaps ("aaa"), merges of
  merges and two ways to make one token.

### Fairness, and why the code justifies it

* `LoaderPool`, `MoeStep`: each loader thread that can run does (the kernel
  schedules threads; a mutex holder releases it), and so does the main thread.
  No fairness is asked of spurious wakeups, of failures, or of the caller's choice
  to make a call. Weak fairness per thread is enough because every wait is on a
  condition that stays true.
* `GpuBatch`: committed buffers finish, or fail, in order, and `waitUntilCompleted`
  returns then; that is Metal's promise and is modelled as external.
* `Generate`, `Tokenizer`: the program takes its next step.
* The other modules state no fairness: their properties are safety.

## 4. What is proved

TLAPS checks these for every value of the constants that satisfies the modules'
assumptions. Every safety invariant of section 3 but three (section 5) is a theorem,
and so is every refinement of an abstract specification.

| theorems | run's properties they state |
| --- | --- |
| `PoolInvariant`, `PoolDone`, `PoolNoDangling`, `PoolConserving`, `PoolNoOverflow`, `PoolImplementsService` | `PoolIInv`, `DoneMeansLanded`, `NoDanglingJob`, `WorkConserving`, `NeverOverflows`, `ImplementsService` |
| `CacheStore`, `CacheResolved`, `CacheNoFallback`, `CacheImplementsLru` | `StoreInv`, `ResolvedStayResident`, `FallbackUnreachable`, `ImplementsLru` |
| `GpuDrains`, `GpuImplementsStream` | `BatchInv` (a part of `MoeInv`), `ImplementsStream` |
| `MoeInvariant`, `MoeNoWriteUnderDispatch`, `MoeRoutedRowsRight`, `MoeNeverStuck`, `MoeObeysRules` | `MoeInv`, `NoWriteUnderDispatch`, `RoutedRowsRight`, `FallbackUnreachable` and `NeverOverflows`, `ObeysRules` |
| `MoeImplementsService`, `MoeImplementsLru`, `MoeImplementsStream` | the three refinements, for the composition |
| `ForwardInvariant`, `ForwardHistories`, `ForwardComputesText` | `ForwardIInv`, `HistoriesFollowText`, `ComputesText` (CPU) |
| `GenerateInvariant`, `SelfTestAccepts`, `GenerateStopsAtEos`, `GenerateKeepsContract` | `GenerateInv`, `SelfTestPasses`, `NothingAfterEos`, `KeepsContract` |
| `HostTouchesOnlyQuiescent`, `GpuCacheIsTheTexts`, `GpuComputesText` | `HostTouchesQuiescent`, `GpuCacheFollowsText`, `ComputesText` (both GPU passes) |
| `RouteTopK`, `LayerRoutes`, `LayerRows`, `LayerMixes` | `RouteIsTopK`, `LayerRowsRight`, `MixesEachOnce` |
| `LayoutStore`, `LayoutReads`, `LoadStore`, `LoadReads`, `LoadResolves` | `StoreLaidOut`, `ReadsStayInside`, `ResolvedInside` |
| `KernelsNeverRace` | `NoSharedRace` |

### The arguments

**`ExpertStreamProofs`**, in two parts that share nothing.

*The pool.* `PoolIInv` says where each outstanding job is: with the
submitter, in exactly one cell of the ring, with exactly one worker (with exactly as
many regions landed as reads done), or done with all of them. `DoneMeansLanded`
alone is not inductive: a worker may publish a job only if nobody else has it,
which is the invariant's business. From it follow `PoolDone`, `PoolNoDangling`, and,
with at most `QueueCap` records, `PoolNoOverflow`: the cells of a full ring hold
distinct outstanding jobs and the one being submitted is another, which is one too
many. `PoolConserving` counts: each submit adds one job and, if anyone sleeps,
one awake worker; each worker that takes a job or falls asleep keeps the balance.
`PoolImplementsService` maps the ring, read from its head, to the service's queue.
It also needs `DownEmpty` (a pool that is shut down has no job), because the
service knows no shutdown.

*The store.* `CacheIInv` says that the intrusive list is a chain: there
is an order of all slots such that `next` and `prev` are its neighbours and the two
ends are its ends (`ListInv`). `UnlinkLemma` and `MoveLemma` give what unlinking a
slot and pushing it to the front do to that order, which is nearly all that the code's
pointer assignments can get wrong. To it come the table and the owners as inverses of
each other, the pinned slots resident and at the head (`ResidentPinned`, `OrderInv`),
and the lookups left in the call. `ResolvedStayResident` needs the order: a victim is
taken from the tail, the slots resolved in this call lie at the head, and a call has
fewer of them than there are slots. The same count, `NSlots >= TopK`, gives
`FallbackUnreachable`. `CacheImplementsLru` maps the chain to the abstract list, and
`VictimIsTail` shows that the generation stamps never make the code skip a slot.

**`GpuBatchProofs`.** `GpuIInv`: the buffer `sepia_gpu_end` waits for is the last
committed one, so the queue is empty when it has finished. It also has that
a batch is open only while the GPU is available. For the refinement the stream has two
parts: what is handed over, the concatenation of the queue's buffers, and what is open.
The first is a recursive function, so the proof keeps its running values (`Concats`)
and shows that a begin and a completed buffer leave both parts alone, that a dispatch
appends to the open one, that a commit moves all of it to the other, and that the GPU
takes from the front. `KeptStep` is the half that ties losses to their causes: a step
that is not `GpuFault` is lossless or goes down, and `GoDown` needs `available`.

**`MoeStepProofs`.** `StepIInv` is the three parts' invariants and `MoeIInv`: where
the main thread is and what that says of the parts (`PlaceInv`, `LoopInv`), when the
queue may hold anything (`QueueInv`), that a slot holds the bytes of its owner but for
the regions that an outstanding job has not yet read (`SlabInv`), and that a routed
dispatch in flight is of an encoded position and has that position's slot, while an
encoded position has its right row or a dispatch in flight (`RowsInv`).
`StepObeys` shows that every step is one that the parts allow or leaves them alone:
the parts' preservation lemmas then apply as they stand, the rules under which they were
verified are kept (`MoeObeysRules`), and the parts' refinements carry over to the
composition. What is left is `MoeIInv`, one lemma per action of the main thread, one
for the loaders and one for the GPU. `MoeNoWriteUnderDispatch` is a consequence: a
slot that a loader writes is owned by the expert of an outstanding job, whose position
is not yet encoded, and no two positions of a call have the same expert.

**`ForwardProofs`**, in four parts.

* `ForwardIInv` relates, in the middle of a call, every layer's history, cache and
  residual rows to how far the pass has come: layers before the current one have read
  the chunk, the others have not. `ForwardHistories` and `ForwardCache` are parts of
  it. `ForwardComputesText` is the refinement: every step of the chunked, cached
  pass is a step or a stutter of `TextModel`, for any number of layers, kernel size,
  window and set of sliding layers.
* `GenerateIInv` puts `GenerateInv` beside it for the loops. `LoopsKeepContract`
  shows that each step of a loop is a step of `ForwardChunk` or leaves it alone,
  so `ForwardIInv` is kept. The logits row that a pick reads is then the row of the last
  token fed, by which the text is greedy, the self-test's two computations agree
  and nothing follows an end-of-text token.
* For the GPU passes, `Runs(p, from, to)` says of a program `p` that its host touches a
  buffer only where the queue is known to be quiet, and how the queue is left.
  Each operation of the code is shown to run from any queue, and concatenations compose,
  flattened lists by induction on their length. `CallInv` says that what is left of
  the call runs from the present state. That a call has at least one token is
  needed: after a sparse layer the queue is quiet only because a token's MoE step
  ended it, and the copy that follows relies on that.
* What those programs make. A *fact* `<<where, m, l, kind, off>>` says that the first
  `m` rows of an array are the frames of layer `l` and that kind from position `off` on.
  `Changes` gives for each instruction the facts it needs, the arrays it may change
  and the facts it makes, and `Reaches(c, p, A, B)` says that the instructions of `p`
  lead from `A` to `B`. `Does` adds that what is known of the arrays `p` does not write
  stays: so the rules of operations compose into those of a half layer, a layer and a
  call (`ProgramReaches`, `TinyProgramReaches`), with one lemma for each function of
  the code. This part is about programs only; no state occurs in it. It is where a
  buffer reused too early, a history rolled before the convolution has read it, or an
  output row in the wrong place would show.

**`ForwardGpuProofs`.** That the steps do what the rules say, and what follows.

* `GpuSound` and `HostSound`: each kernel and each step of the host makes the facts of
  its rule and leaves the other arrays alone. `HoldsStill` keeps every other fact.
* `PathsInv`. In the middle of a call there are facts `A` that hold of the arrays now,
  a chain of rules by which the queued dispatches lead from `A` to `B`, in their order
  (`Chain`), and a rest of the program that leads from `B` to the goal (`InProgress`).
  No invariant about the arrays' contents alone is inductive: they lag
  behind the program by whatever is queued, and how far is the scheduler's choice. An
  instruction encoded moves its rule to the chain's end (`EncodeFollows`), the GPU takes
  the rule at its head (`GpuFollows`), the host touches arrays only when the chain is
  empty (by `CallInv`, which is part of the invariant), and then `B` itself holds.
  What only the host writes (a layer's length, the router's choice) holds at once,
  whatever is queued; a routed dispatch keeps the choice it was encoded with, though
  the next token's router runs before it does.
* Between calls `PathsInv` is that every layer has read the same positions.
  `GpuCacheIsTheTexts` is a part of it; for `GpuComputesText` the reading of the logits
  is the step of `TextModel` and every other step of a call a stutter, on either path.

TLC cannot evaluate `PathsInv`, which quantifies over sets of facts; the run
`forward_gpu` checks what is concluded from it.

**`LayerWeightsProofs`**, in three parts.

* *Routing*: the scan holds the best unused expert among those already seen, the
  used set is what was picked, and picks are in order. Before each pass an expert is
  free because the picks are fewer than the experts.
* *Layers* (`LayerIInv`): every block of the arena starts where the field says and
  holds the right matrix, whatever layer was there before. For that, `WellPlaced` says
  of a filled block where its rows are; the two ways of filling that are not plain
  copies, interleaved gate and up rows and stacked shared experts, have lemmas about
  quotients and remainders of row numbers. The mixing part keeps, of the experts added
  so far, that each was added once, from its own rows, with its own weight.
* *Kernels* (`RaceInv`): all simdgroups are between the same two barriers, and whatever
  was touched since the first was touched by a statement after it. Between two
  barriers the kernels' cells are only read, only cleared by the first simdgroup, or
  only written by each simdgroup in its own cell, which excludes a race.

**`RealLoadProofs`.** Of `ExpertLayout`: slots lie inside their slabs, page-aligned
and apart, the last, shorter slab included, and every accepted read stays inside its part
and its region. The arithmetic (division, remainder, products) is in lemmas of
their own, because the SMT solver cannot do products of variables unaided.
Of `RealLoad`: every step is a step of `ExpertLayout` or leaves it alone
(`LoadImplementsLayout`), so those results hold there; `LoadIInv` says what each
phase has established of the manifest (bounds, then types and shapes, then offsets
of the GPU layers). `LoadResolves` derives from it that every tensor, and every row of every
matrix and stack, lies inside the file at the size that the manifest states, and that
so does what a kernel reads of an F32 tensor by the sizes of `config.json`. What the
host reads of an F32 tensor by those sizes is not covered (section 7). Nothing
is assumed of the sign of the shapes a manifest states.

**`Induction`** states induction over the naturals with a set in place of the
predicate ({n : P(n)} is all of them), from the well-foundedness of `<`. The prover
cannot instantiate the library's version, which takes an operator. It is how
concatenations and chains of any length are reasoned about here.

### Assumptions

| assumption | why the code justifies it |
| --- | --- |
| `PoolAssumption`, `WorkersFinite` | the ring and the number of threads are compile-time constants, a job has reads |
| `JobsFitQueue` (`PoolNoOverflow` only), `MoeAssumption` | a call dies when `topk` exceeds `SEPIA_MOE_MAX_TOPK`, as long as the ring; one job record per position |
| `CacheAssumption`, `StoreHoldsTopK` | a layer has at least `topk` experts; `expert_store_init` dies when fewer slots than `topk` fit in the budget |
| `GpuAssumption` | names a value that stands for no batch |
| `ForwardAssumption`, `SparseAssumption` | sizes of a configuration |
| `GenerateAssumption` | the loops create their cache with room for prompt and generation, plus 8; the length to generate is taken not to be negative (section 7) |
| `RouteAssumption` | `topk` experts exist (section 7) |
| `LayerAssumption`, `LayoutAssumption`, `LoadAssumption` | dimensions are naturals, a model with MoE layers has a shared expert |
| `ThreadgroupAssumption` | one cell per simdgroup: 32 cells, at most 1024 threads of 32 lanes |

## 5. What is only model-checked

* *Liveness*: `CallsReturn`, `EndReturns`, `CallTerminates`, `Finishes`, `Encodes`. The
  prover has no rules for fairness, nor for `ENABLED`.
* `PieceFollowsRegex` and `PieceMergedAsGpt2`: their reference definitions (a backtracking
  matcher, merging everywhere until nothing changes) are recursive operators, which
  the prover does not accept.
* `RowReduced`: folds over bags of elements, in every order of the simdgroups. What is
  proved of the kernels is that no order races.

## 6. Findings

`sepia_gpu_end` waits for, and looks at the status of, the command buffer that it
commits itself. A buffer flushed before it may have failed: the call still returns
success. `sepia_gpu.h` presents it as the call to make when the results of everything
dispatched since `sepia_gpu_begin` are needed. Run `gpu_batch_flushed_fault` shows
it. `RoutedRowsRight` therefore speaks of rows that no fault has lost.

Facts met on the way that are not findings but worth knowing:

* The LRU order alone keeps protected slots away from the victim: whatever
  `safe_gen` protects is nearer the head than any slot it does not, so the walk in
  `expert_cache_evict_or_get_free` stops at its first slot. The stamps are a
  second line of defence.
* One-at-a-time merging equals GPT-2's merge-everywhere loop only when every merge
  that makes a token comes before every merge that uses it (`Ordered` in
  `MCTokenizer`), which tables that come out of training satisfy and the loader
  does not test.

## 7. What is not modelled, and why

* Numbers: matrix products, norms, softmax, dequantization, the quantized
  kernels. They are data here; the repository compares them with an oracle and
  fixtures. The `matvec_q` kernels end in the same `sepia_tg_reduce_sum` as `matvec`,
  whose shares, reduction and barriers are those of `Threadgroup`.
* JSON, safetensors and configuration readers: sequential, dying at the first
  error; what they accept is assumed of the constants.
* The resident weights' own mlock, which the process survives without.
* A container whose manifest and `config.json` disagree: `LayerWeights` takes one
  set of dimensions, `real_load` compares little more than the vocabulary. In
  particular an F32 tensor is bounded by its own entry of the manifest, and by
  `config.json`'s dimensions only where a kernel reads it: the biases, scales and outer
  norms, and on the CPU every F32 tensor, are read by `config.json`'s dimensions
  through a bare pointer, whatever the manifest's count was. `ResolvedInside` does
  not say otherwise.
* Operation capture, GPU self-tests, route log, command line: test harness and I/O.
* Offline tools and the SSD benchmark: not part of the running engine.
* The tokenizer file's header and lengths: `tokenizer_load` reads them without comparing
  them with the file's size until the end, and `2 * n_merges` is a 32-bit product
  that wraps from 2^31 merges on. `Tokenizer` starts from a table of merges.
* A negative `--n-gen`: `atoi` is not checked, and `n_prompt + n_gen + 8` may then be less
  than the prompt needs. `Generate` takes the length to generate as a natural number.
* An empty prompt: `logits + (n_prompt - 1) * vocab` lies before the buffer and what
  is read is undefined, so `Generate` assumes one token at least.
* `num_experts_per_tok` greater than the number of experts indexes `used[-1]`:
  an assumption of `MoeRoute`, which `config_load` does not test.
* Signed overflow of `abs_offset + nbytes` for offsets near 2^63, and of products
  of shapes: integers are unbounded in `ExpertLayout` and `RealLoad`.
* Scratch buffers freed before their command buffer has run are safe only because
  Metal's command buffers retain what they reference; this is taken from Metal.

## 8. Plan

Done in this order, most important first: pool, store, encoding and their
composition; the abstract services they implement; the forward passes and the
loops; routing and layout; the tokenizer; loading, layer weights, the small model's
GPU pass, the kernels' reductions. Then the theorems of section 4: pool, CPU
forward pass, routing, layout; store, encoding, the MoE layer with its
refinements, loading, layer weights, the loops, the GPU passes' synchronization, the
kernels' freedom from races, the values the GPU passes compute.

Next, *prove*:

1. `RowReduced`: the bag of a kernel's row as the sum of its shares.
2. The pair table: what `Lookup` returns, whatever the collisions, by an invariant
   of `Insert`.

`extract_resident.py`'s resumable writing, with a crash between any two steps, is
worth a module if the tools are taken in.
