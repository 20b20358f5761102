------------------------------ MODULE RealLoad ------------------------------
(***************************************************************************)
(* real_load: from the files of a checkpoint to a RealModel that the       *)
(* forward pass uses without another check.  It maps resident.bin, bounds  *)
(* every tensor of the manifest by it, loads the expert index and checks   *)
(* it against the parts (ExpertLayout), resolves the tensors that each     *)
(* layer needs, and, when Metal is up, checks again every byte offset that *)
(* a kernel will be given before it lays out the expert store.  The first  *)
(* thing that is wrong ends the process.  A tensor is taken at the size    *)
(* that the manifest states; what config.json says of it is compared for   *)
(* the vocabulary and for what kernels read of F32 tensors, no more.       *)
(*                                                                         *)
(* Tensors may overlap: nothing checks that they do not.  Byte counts stay *)
(* far below 2^63.                                                         *)
(***************************************************************************)
EXTENDS ExpertLayout, Sequences, SequencesExt

CONSTANTS
  NumLayers, Sliding, Sparse,
  Hidden, Vocab, HeadDim, SwaHeadDim, KvHeads, SwaKvHeads,
  DRel, RelExtent, Window, KernelSize, NumRouted, NumShared,
  FloatBytes,  \* sizeof(float)
  TypeSizes,   \* quants.c's table: elements and bytes of a block, by type
  ResSize,     \* the size of resident.bin
  Absent       \* no entry in the manifest

\* The counts of config.json, and a table of positive block sizes.  Resolving a stack
\* divides by its number of shared experts.
ASSUME LoadAssumption ==
  /\ NumLayers \in Nat /\ Hidden \in Nat /\ HeadDim \in Nat /\ SwaHeadDim \in Nat
  /\ KvHeads \in Nat /\ SwaKvHeads \in Nat /\ DRel \in Nat /\ RelExtent \in Nat
  /\ Window \in Nat /\ KernelSize \in Nat /\ NumRouted \in Nat
  /\ NumShared \in Nat /\ (Sparse # {} => NumShared > 0)
  /\ FloatBytes \in Nat /\ ResSize \in Nat
  /\ \A type \in DOMAIN TypeSizes :
       TypeSizes[type][1] \in Nat \ {0} /\ TypeSizes[type][2] \in Nat

VARIABLES
  load,       \* how far real_load is
  gpu,        \* sepia_gpu_available()
  manifest,   \* resident-manifest.json: the entry of each tensor
  index_experts, indexed,  \* n_experts of the index and the layers it has
  layers,     \* how many layers are resolved
  gpu_layers, \* how many have their GPU offsets
  pool        \* the loader threads run

loadInputs == <<gpu, manifest, index_experts, indexed>>
loadVars == <<load, loadInputs, layers, gpu_layers, pool>>
vars == <<layoutVars, loadVars>>

Layer == 0..NumLayers - 1

-----------------------------------------------------------------------------
(* The tensors of a model: <<layer, suffix>>, or <<-1, name>> at the top.  *)

AttnF32 == {"attn_norm", "ffn_norm", "attn_q_norm", "attn_k_norm", "attn_rel_proj",
            "shortconv_k", "shortconv_v", "shortconv_attn", "shortconv_mlp"}
AttnQuant == {"attn_q", "attn_k", "attn_v", "attn_r", "attn_output"}

F32Of(l) == AttnF32 \cup (IF l \in Sparse THEN {"ffn_gate_inp", "exp_probs_b", "ffn_gscale"}
                          ELSE {"ffn_gscale"})
QuantOf(l) == AttnQuant \cup (IF l \in Sparse THEN {} ELSE {"ffn_gate", "ffn_up", "ffn_down"})
StackedOf(l) == IF l \in Sparse THEN {"ffn_gate_shexp", "ffn_up_shexp", "ffn_down_shexp"} ELSE {}

TopF32 == {"token_embd_norm", "output_norm"}
TopQuant == {"token_embd", "output"}

Names ==
  {<<-1, n>> : n \in TopF32 \cup TopQuant}
  \cup UNION {{<<l, n>> : n \in F32Of(l) \cup QuantOf(l) \cup StackedOf(l)} : l \in Layer}

\* What a kernel reads of an F32 tensor, in floats: config.json's dimensions, not the
\* manifest's.  The bias and the scale are read by the host, like every F32 tensor
\* when there is no GPU: by config.json's dimensions too, which nothing compares.
Dh(l) == IF l \in Sliding THEN SwaHeadDim ELSE HeadDim
KvDim(l) == Dh(l) * (IF l \in Sliding THEN SwaKvHeads ELSE KvHeads)
KernelFloats(l) ==
  [attn_norm |-> Hidden, ffn_norm |-> Hidden, attn_q_norm |-> Dh(l), attn_k_norm |-> Dh(l),
   attn_rel_proj |-> DRel * (IF l \in Sliding THEN Window ELSE RelExtent),
   shortconv_k |-> KvDim(l) * KernelSize, shortconv_v |-> KvDim(l) * KernelSize,
   shortconv_attn |-> Hidden * KernelSize, shortconv_mlp |-> Hidden * KernelSize,
   ffn_gate_inp |-> (NumRouted + NumShared) * Hidden]
KernelF32(l) == F32Of(l) \cap DOMAIN KernelFloats(l)

-----------------------------------------------------------------------------
(* The manifest.                                                           *)

Present(name) == manifest[name] # Absent

\* What a manifest may say: any integers, also negative ones.
ManifestTyped ==
  \A name \in Names : Present(name) =>
    /\ manifest[name].shape \in Seq(Int)
    /\ manifest[name].offset \in Int /\ manifest[name].nbytes \in Int

\* Mutant: what lies past the end of the file is let through.
StartsInFile(t) == t.offset >= 0 /\ t.nbytes >= 0 /\ t.offset <= ResSize

InFile(t) == t.offset >= 0 /\ t.nbytes >= 0 /\ t.offset + t.nbytes <= ResSize

ValidEntry(t) == Len(t.shape) \in 1..4 /\ InFile(t)

\* quants_row_bytes, and when it does not die.
HasRowBytes(type, ne) == type \in DOMAIN TypeSizes /\ ne % TypeSizes[type][1] = 0
RowBytes(type, ne) == (ne \div TypeSizes[type][1]) * TypeSizes[type][2]

Numel(shape) == FoldSeq(LAMBDA n, acc : n * acc, 1, shape)

\* resident_f32, resident_qtensor and resident_qtensor_stacked on the named tensor.
F32Ok(name) ==
  /\ Present(name)
  /\ LET t == manifest[name]
     IN  t.type = "f32" /\ t.nbytes = Numel(t.shape) * FloatBytes

MatrixBytes(t) == RowBytes(t.type, t.shape[1]) * t.shape[2]

QuantOk(name) ==
  /\ Present(name)
  /\ LET t == manifest[name]
     IN  /\ Len(t.shape) = 2 /\ HasRowBytes(t.type, t.shape[1])
         /\ t.nbytes = MatrixBytes(t)

StackStride(t) == t.nbytes \div NumShared

StackedOk(name) ==
  /\ Present(name)
  /\ LET t == manifest[name]
     IN  /\ Len(t.shape) = 3 /\ t.shape[3] = NumShared /\ t.nbytes % NumShared = 0
         /\ HasRowBytes(t.type, t.shape[1])
         /\ StackStride(t) = MatrixBytes(t)

LayerOk(l) ==
  /\ \A n \in F32Of(l) : F32Ok(<<l, n>>)
  /\ \A n \in QuantOf(l) : QuantOk(<<l, n>>)
  /\ \A n \in StackedOf(l) : StackedOk(<<l, n>>)

TopOk ==
  /\ \A n \in TopQuant : QuantOk(<<-1, n>>) /\ manifest[<<-1, n>>].shape[2] = Vocab
  /\ \A n \in TopF32 : F32Ok(<<-1, n>>)

-----------------------------------------------------------------------------
(* real_load.                                                              *)

LoadInit ==
  /\ load = "resident"
  /\ layers = 0 /\ gpu_layers = 0 /\ pool = FALSE
  /\ gpu \in BOOLEAN /\ ManifestTyped
  /\ LayoutInit

Step(from, ok, to) ==
  /\ load = from /\ load' = IF ok THEN to ELSE "dead"
  /\ UNCHANGED loadInputs

\* Some file cannot be opened, measured or mapped, or Metal does not wrap it.
Fails ==
  /\ load \in {"resident", "parts", "wrap"} /\ load' = "dead"
  /\ UNCHANGED <<layoutVars, loadInputs, layers, gpu_layers, pool>>

MapResident ==
  /\ Step("resident", TRUE, "manifest") /\ UNCHANGED <<layoutVars, layers, gpu_layers, pool>>

ManifestLoad ==
  /\ Step("manifest", \A name \in Names : Present(name) => ValidEntry(manifest[name]), "index")
  /\ UNCHANGED <<layoutVars, layers, gpu_layers, pool>>

\* index_load: one slot of it, or the end of the loop.
IndexLoad ==
  /\ load = "index" /\ (ParseEntry \/ ParseEnds)
  /\ load' = CASE phase' = "dead" -> "dead" [] phase' = "check" -> "agree" [] OTHER -> load
  /\ UNCHANGED <<loadInputs, layers, gpu_layers, pool>>

IndexAgrees ==
  /\ Step("agree", index_experts = NumRouted /\ Sparse \subseteq indexed, "parts")
  /\ UNCHANGED <<layoutVars, layers, gpu_layers, pool>>

OpenParts ==
  /\ Step("parts", TRUE, "slots") /\ UNCHANGED <<layoutVars, layers, gpu_layers, pool>>

CheckSlots ==
  /\ load = "slots" /\ (CheckEntry \/ CheckEnds)
  /\ load' = CASE phase' = "dead" -> "dead" [] phase' = "init" -> "top" [] OTHER -> load
  /\ UNCHANGED <<loadInputs, layers, gpu_layers, pool>>

ResolveTop ==
  /\ Step("top", TopOk, "layers") /\ UNCHANGED <<layoutVars, layers, gpu_layers, pool>>

ResolveLayer ==
  /\ layers < NumLayers /\ Step("layers", LayerOk(layers), "layers")
  /\ layers' = layers + 1 /\ UNCHANGED <<layoutVars, gpu_layers, pool>>

\* The arena and the buffers (LayerWeights); without Metal, the model is ready.
Allocate ==
  /\ layers = NumLayers /\ Step("layers", TRUE, IF gpu THEN "wrap" ELSE "ready")
  /\ UNCHANGED <<layoutVars, layers, gpu_layers, pool>>

WrapResident ==
  /\ Step("wrap", TRUE, "gpu_layers") /\ UNCHANGED <<layoutVars, layers, gpu_layers, pool>>

\* gpu_off_of: n bytes from here on, for a kernel.
KernelMayRead(off, n) == off \in 0..ResSize /\ off % 2 = 0 /\ off + n <= ResSize

\* real_gpu_layer_build: the later stacks are checked from the offset of the first one.
GpuLayerOk(l) ==
  /\ \A n \in KernelF32(l) :
       KernelMayRead(manifest[<<l, n>>].offset, KernelFloats(l)[n] * FloatBytes)
  /\ \A n \in QuantOf(l) :
       KernelMayRead(manifest[<<l, n>>].offset, MatrixBytes(manifest[<<l, n>>]))
  /\ \A n \in StackedOf(l), s \in 0..NumShared - 1 :
       LET t == manifest[<<l, n>>]
       IN  KernelMayRead(t.offset + s * StackStride(t), MatrixBytes(t))

BuildGpuLayer ==
  /\ gpu_layers < NumLayers /\ Step("gpu_layers", GpuLayerOk(gpu_layers), "gpu_layers")
  /\ gpu_layers' = gpu_layers + 1 /\ UNCHANGED <<layoutVars, layers, pool>>

BuildGpuUnembed ==
  LET t == manifest[<<-1, "output">>]
  IN  /\ gpu_layers = NumLayers
      /\ Step("gpu_layers", KernelMayRead(t.offset, MatrixBytes(t)), "store")
      /\ UNCHANGED <<layoutVars, layers, gpu_layers, pool>>

\* expert_store_init.
InitStore(b, t, pairs) ==
  /\ load = "store" /\ (StoreInit(b, t, pairs) \/ SlabAllocFails)
  /\ load' = IF phase' = "dead" THEN "dead" ELSE "pool"
  /\ UNCHANGED <<loadInputs, layers, gpu_layers, pool>>

StartPool ==
  /\ Step("pool", TRUE, "ready") /\ pool' = TRUE
  /\ UNCHANGED <<layoutVars, layers, gpu_layers>>

Loaded == load \in {"ready", "dead"} /\ UNCHANGED vars

Next ==
  \/ Fails \/ MapResident \/ ManifestLoad
  \/ IndexLoad \/ IndexAgrees \/ OpenParts \/ CheckSlots
  \/ ResolveTop \/ ResolveLayer \/ Allocate
  \/ WrapResident \/ BuildGpuLayer \/ BuildGpuUnembed
  \/ \E b \in 0..MaxBudget, t \in 1..MaxTopk, pairs \in 0..MaxPairs : InitStore(b, t, pairs)
  \/ StartPool \/ Loaded

LoadSpec == LoadInit /\ [][Next]_vars

-----------------------------------------------------------------------------
(* Properties.                                                             *)

Inside(a, n) == a >= 0 /\ n >= 0 /\ a + n <= ResSize

\* When real_load returns, every tensor that the forward pass has a bare pointer to is
\* there and lies inside the mapping as the manifest describes it: an F32 tensor's
\* bytes, and every row of every matrix, of every stack.  What a kernel will be given
\* begins on an even byte, and of an F32 tensor as many floats lie inside as the
\* configuration makes the kernel read.  Of what the host reads of an F32 tensor by the
\* configuration's dimensions it says nothing: the code compares them with no manifest.
ResolvedInside ==
  load = "ready" =>
    /\ \A name \in Names :
         /\ Present(name)
         /\ LET t == manifest[name]
                stacks == IF Len(t.shape) = 3 THEN t.shape[3] ELSE 1
                rows == IF name[2] \in F32Of(name[1]) \cup TopF32 THEN 0 ELSE t.shape[2]
            IN  /\ Inside(t.offset, t.nbytes)
                /\ \A s \in 0..stacks - 1, r \in 0..rows - 1 :
                     Inside(t.offset + (s * rows + r) * RowBytes(t.type, t.shape[1]),
                            RowBytes(t.type, t.shape[1]))
    /\ gpu => \A l \in Layer : \A n \in F32Of(l) \cup QuantOf(l) \cup StackedOf(l) :
         LET t == manifest[<<l, n>>]
         IN  n \in KernelF32(l) \cup QuantOf(l) \cup StackedOf(l) =>
               /\ t.offset % 2 = 0
               /\ n \in KernelF32(l) => Inside(t.offset, KernelFloats(l)[n] * FloatBytes)

\* What each phase of loading has established for those that come after it.
Resolved == {"wrap", "gpu_layers", "store", "pool", "ready"}

LoadTypeOK ==
  /\ load \in {"resident", "manifest", "index", "agree", "parts", "slots", "top", "layers",
               "dead"} \cup Resolved
  /\ layers \in 0..NumLayers /\ gpu_layers \in 0..NumLayers /\ gpu \in BOOLEAN
  /\ ManifestTyped

ManifestBounded ==
  load \notin {"resident", "manifest", "dead"} =>
    \A name \in Names : Present(name) => ValidEntry(manifest[name])

TensorsResolved ==
  /\ load \notin {"layers", "dead"} \cup Resolved => layers = 0
  /\ load \in {"layers"} \cup Resolved => TopOk /\ \A l \in 0..layers - 1 : LayerOk(l)
  /\ load \in Resolved => layers = NumLayers

OffsetsChecked ==
  /\ load \notin {"dead"} \cup Resolved => gpu_layers = 0
  /\ load \in Resolved \ {"ready"} => gpu
  /\ load \in Resolved /\ gpu => \A l \in 0..gpu_layers - 1 : GpuLayerOk(l)
  /\ load \in {"store", "pool", "ready"} /\ gpu => gpu_layers = NumLayers

LoadIInv == LoadTypeOK /\ ManifestBounded /\ TensorsResolved /\ OffsetsChecked
=============================================================================
