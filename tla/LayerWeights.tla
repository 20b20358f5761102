---------------------------- MODULE LayerWeights ----------------------------
(***************************************************************************)
(* The weights a layer is computed with on the CPU: struct LayerWeights.   *)
(* In oracle mode its fields point into the checkpoint (model_load).  In   *)
(* real mode real_fill_layer dequantizes the resident matrices of the      *)
(* layer into one arena that every layer reuses, gate and up rows          *)
(* interleaved, shared experts stacked, and the routed experts are read    *)
(* from the container one at a time through three buffers.  The forward    *)
(* pass then finds every row by index arithmetic alone.                    *)
(*                                                                         *)
(* Memory is an array of floats; what a float is, is its matrix and its    *)
(* place in it.  The matrices have the dimensions that config.json gives:  *)
(* nothing in the code compares the two, the container is written that way.*)
(***************************************************************************)
EXTENDS MoeRoute, Sequences

CONSTANTS
  NumLayers, Sliding, Sparse,  \* the layers, those of the sliding and those of the sparse kind
  Hidden, DenseInter, MoeInter, NumShared, DRel,
  Heads, HeadDim, KvHeads, SwaHeads, SwaHeadDim, SwaKvHeads

\* The counts of config.json.  Without a layer none of this code runs.
ASSUME LayerAssumption ==
  /\ NumLayers \in Nat \ {0}
  /\ Hidden \in Nat /\ DenseInter \in Nat /\ MoeInter \in Nat /\ NumShared \in Nat
  /\ DRel \in Nat /\ Heads \in Nat /\ HeadDim \in Nat /\ KvHeads \in Nat
  /\ SwaHeads \in Nat /\ SwaHeadDim \in Nat /\ SwaKvHeads \in Nat

VARIABLES
  streamed,      \* real mode
  phase, died,
  layer,
  max_floats,    \* of the layers sized so far
  arena,         \* m->arena
  arena_used,    \* used, and with it cursor, in real_fill_layer
  lw,            \* the fields of the LayerWeights in hand: region and first float
  cur_layer,     \* real_exps.cur_layer
  slab,          \* gate_buf, up_buf and down_buf
  weights,       \* by slot: the logit that the mixing weight stands for
  out            \* what has been added to out[], in order

layerVars == <<streamed, phase, died, layer, max_floats, arena, arena_used, lw,
               cur_layer, slab, weights, out>>
vars == <<routeVars, layerVars>>

Layer == 0..NumLayers - 1
Null == <<"null", 0>>
Junk == <<"junk">>
Bad == <<"bad">>

-----------------------------------------------------------------------------
(* Dimensions.                                                             *)

QDim(l) == IF l \in Sliding THEN SwaHeads * SwaHeadDim ELSE Heads * HeadDim
KvDim(l) == IF l \in Sliding THEN SwaKvHeads * SwaHeadDim ELSE KvHeads * HeadDim
RDim(l) == (IF l \in Sliding THEN SwaHeads ELSE Heads) * DRel

Inter(l) == IF l \in Sparse THEN MoeInter ELSE DenseInter
Stacks(l) == IF l \in Sparse THEN NumShared ELSE 1

Fields == {"wq", "wk", "wv", "wr", "wo", "w13", "w2", "experts_w13", "experts_w2"}

\* A resident matrix: rows by floats per row, of each stack.
QTensor(l) ==
  [wq |-> <<QDim(l), Hidden>>, wk |-> <<KvDim(l), Hidden>>, wv |-> <<KvDim(l), Hidden>>,
   wr |-> <<RDim(l), Hidden>>, wo |-> <<Hidden, QDim(l)>>,
   gate |-> <<Inter(l), Hidden>>, up |-> <<Inter(l), Hidden>>, w2 |-> <<Hidden, Inter(l)>>]

Size(l, m) == QTensor(l)[m][1] * QTensor(l)[m][2]

\* Rows from one stack to the next: real_load has checked that they are contiguous.
Stride(l, m) == QTensor(l)[m][1]

Float(l, m, row, col) == <<l, m, row, col>>

-----------------------------------------------------------------------------
(* real_load: the arena is sized for the largest layer.                    *)

LayerFloats(l) ==
  Size(l, "wq") + Size(l, "wk") + Size(l, "wv") + Size(l, "wr") + Size(l, "wo")
  + Stacks(l) * 2 * Size(l, "gate") + Stacks(l) * Size(l, "w2")

LayersInit ==
  /\ RouteInit
  /\ streamed \in BOOLEAN
  /\ phase = (IF streamed THEN "size" ELSE "layer")
  /\ died = "no" /\ layer = 0 /\ max_floats = 0
  /\ arena = <<>> /\ arena_used = 0 /\ lw = [f \in Fields |-> Null]
  /\ cur_layer = -1 /\ slab = [b \in {"gate", "up", "down"} |-> Junk]
  /\ weights = <<>> /\ out = <<>>

SizeLayer ==
  /\ phase = "size" /\ layer < NumLayers
  /\ max_floats' = IF LayerFloats(layer) > max_floats THEN LayerFloats(layer) ELSE max_floats
  /\ layer' = layer + 1
  /\ UNCHANGED <<routeVars, streamed, phase, died, arena, arena_used, lw, cur_layer, slab,
                 weights, out>>

AllocArena ==
  /\ phase = "size" /\ layer = NumLayers
  /\ arena' = [a \in 0..max_floats - 1 |-> Junk]
  /\ phase' = "layer" /\ layer' = 0
  /\ UNCHANGED <<routeVars, streamed, died, max_floats, arena_used, lw, cur_layer, slab,
                 weights, out>>

-----------------------------------------------------------------------------
(* Oracle mode.  A field is the tensor of that name in the checkpoint,     *)
(* whose gate_up_proj is stored interleaved: row 2i is gate i, row 2i + 1  *)
(* is up i, expert after expert.                                           *)

OnDisk(l, f, o) ==
  IF f \in {"w13", "experts_w13"}
  THEN LET row == o \div Hidden
           block == row \div (2 * Inter(l))
           c == row % (2 * Inter(l))
       IN  Float(l, IF c % 2 = 0 THEN "gate" ELSE "up",
                 block * Inter(l) + c \div 2, o % Hidden)
  ELSE LET width == IF f = "wo" THEN QDim(l)
                    ELSE IF f \in {"w2", "experts_w2"} THEN Inter(l) ELSE Hidden
       IN  Float(l, f, o \div width, o % width)

OracleLayer(l) ==
  [f \in Fields |-> IF f \in {"experts_w13", "experts_w2"} /\ l \notin Sparse
                    THEN Null ELSE <<f, 0>>]

-----------------------------------------------------------------------------
(* real_fill_layer: one action for each kind of block.                     *)

\* Row by row: the floats that one dequantize_row writes.
RowAt(a, l, m, row) ==
  {<<a + c, Float(l, m, row, c)>> : c \in 0..QTensor(l)[m][2] - 1}

AllRows(l, m) ==
  UNION {RowAt(r * QTensor(l)[m][2], l, m, r) : r \in 0..QTensor(l)[m][1] - 1}

Interleaved(l) ==
  LET n == QTensor(l).gate[1]
      At(s, c) == (s * 2 * n + c) * QTensor(l).gate[2]
  IN  UNION {RowAt(At(s, 2 * r), l, "gate", s * Stride(l, "gate") + r)
               \cup RowAt(At(s, 2 * r + 1), l, "up", s * Stride(l, "up") + r) :
             s \in 0..Stacks(l) - 1, r \in 0..n - 1}

\* Mutant: every stack is the first one.
FirstStacked(l, m) ==
  UNION {RowAt((s * QTensor(l)[m][1] + r) * QTensor(l)[m][2], l, m, r) :
         s \in 0..Stacks(l) - 1, r \in 0..QTensor(l)[m][1] - 1}

Stacked(l, m) ==
  UNION {RowAt((s * QTensor(l)[m][1] + r) * QTensor(l)[m][2], l, m, s * Stride(l, m) + r) :
         s \in 0..Stacks(l) - 1, r \in 0..QTensor(l)[m][1] - 1}

\* The next block, into the arena after the ones before it.
Dequantize(f, floats, writes, then) ==
  /\ UNCHANGED <<routeVars, streamed, layer, max_floats, cur_layer, slab, weights, out>>
  /\ IF arena_used + floats > max_floats
     THEN /\ phase' = "dead" /\ died' = "arena"
          /\ UNCHANGED <<arena, arena_used, lw>>
     ELSE /\ arena' = [a \in DOMAIN arena |->
                         LET hits == {w \in writes : w[1] + arena_used = a}
                         IN  IF hits = {} THEN arena[a] ELSE (CHOOSE w \in hits : TRUE)[2]]
          /\ arena_used' = arena_used + floats
          /\ lw' = [lw EXCEPT ![f] = <<"arena", arena_used>>]
          /\ phase' = then /\ UNCHANGED died

\* memset of the struct; the cursor back to the start of the arena.
FillLayer ==
  /\ phase = "layer" /\ streamed
  /\ lw' = [f \in Fields |-> Null] /\ arena_used' = 0 /\ phase' = "wq"
  /\ UNCHANGED <<routeVars, streamed, died, layer, max_floats, arena, cur_layer, slab,
                 weights, out>>

UseLayer ==
  /\ phase = "layer" /\ ~streamed
  /\ lw' = OracleLayer(layer) /\ phase' = "attn"
  /\ UNCHANGED <<routeVars, streamed, died, layer, max_floats, arena, arena_used, cur_layer,
                 slab, weights, out>>

\* What is filled after each matrix of the attention half.
After == [wq |-> "wk", wk |-> "wv", wv |-> "wr", wr |-> "wo", wo |-> "w13"]

FillAllRows ==
  /\ phase \in DOMAIN After
  /\ Dequantize(phase, Size(layer, phase), AllRows(layer, phase), After[phase])

FillW13 ==
  /\ phase = "w13"
  /\ Dequantize("w13", Stacks(layer) * 2 * Size(layer, "gate"), Interleaved(layer), "w2")

\* A dense layer's w2 is a stack of one.
FillW2 ==
  /\ phase = "w2"
  /\ Dequantize("w2", Stacks(layer) * Size(layer, "w2"), Stacked(layer, "w2"), "bind")

BindExperts ==
  /\ phase = "bind"
  /\ cur_layer' = IF layer \in Sparse THEN layer ELSE cur_layer
  /\ phase' = "attn"
  /\ UNCHANGED <<routeVars, streamed, died, layer, max_floats, arena, arena_used, lw, slab,
                 weights, out>>

-----------------------------------------------------------------------------
(* The reads of the forward pass.                                          *)

\* The float at an offset from a field.
At(f, o) ==
  LET region == lw[f][1]
      a == lw[f][2] + o
  IN  IF region = "null" THEN Junk
      ELSE IF region # "arena" THEN OnDisk(layer, f, a)
      ELSE IF a \in DOMAIN arena THEN arena[a] ELSE Junk

\* linear: row o of a matrix of in_dim columns.
Row(f, o, in_dim) == [c \in 0..in_dim - 1 |-> At(f, o * in_dim + c)]

w13_row(f, expert, two_inter, is_up, n) ==
  LET r == 2 * n + (IF is_up THEN 1 ELSE 0)
  IN  Row(f, expert * two_inter + r, Hidden)

IsRow(m, row, in_dim) == [c \in 0..in_dim - 1 |-> Float(layer, m, row, c)]

\* silu(gate) * up, then down: block s of a pair of fields, gone through as the loops
\* over i and d do.  It is the FFN of that block if every row was the right one.
GatedFfn(w13, w2, down, s) ==
  LET n == Inter(layer)
  IN  /\ \A r \in 0..n - 1 :
           /\ w13_row(w13, s, 2 * n, FALSE, r) = IsRow("gate", s * n + r, Hidden)
           /\ w13_row(w13, s, 2 * n, TRUE, r) = IsRow("up", s * n + r, Hidden)
      /\ \A d \in 0..Hidden - 1 : Row(w2, s * Hidden + d, n) = IsRow(down, s * Hidden + d, n)

Ffn(kind, s, right) == IF right THEN <<layer, kind, s>> ELSE Bad

\* attn_forward_chunk reads its five matrices and leaves nothing behind here.
Attention ==
  /\ phase = "attn"
  /\ phase' = IF layer \in Sparse THEN "router" ELSE "dense"
  /\ UNCHANGED <<routeVars, streamed, died, layer, max_floats, arena, arena_used, lw,
                 cur_layer, slab, weights, out>>

MlpDenseForward ==
  /\ phase = "dense"
  /\ out' = <<<<Ffn("dense", 0, GatedFfn("w13", "w2", "w2", 0)), "dense_global_scale">>>>
  /\ phase' = "mixed"
  /\ UNCHANGED <<routeVars, streamed, died, layer, max_floats, arena, arena_used, lw,
                 cur_layer, slab, weights>>

\* mlp_moe_forward up to the selection: other logits, an empty out.
MoeBegin ==
  /\ phase = "router"
  /\ scores' \in [Expert -> Scores \cup {NaN}]
  /\ used' = {} /\ topk_idx' = [p \in 0..TopK - 1 |-> None]
  /\ j' = 0 /\ i' = 0 /\ best' = None
  /\ out' = <<>> /\ phase' = "select"
  /\ UNCHANGED <<streamed, died, layer, max_floats, arena, arena_used, lw, cur_layer, slab,
                 weights>>

Select == phase = "select" /\ (Consider \/ Take) /\ UNCHANGED layerVars

\* The rest of moe_route_select: the logits of the picks, then those of the shared
\* experts, normalized together and scaled by the layer's factor.
MixWeights ==
  /\ phase = "select" /\ j = TopK
  /\ weights' = [n \in 0..TopK + NumShared - 1 |->
                   <<layer, IF n < TopK THEN topk_idx[n] ELSE NumRouted + (n - TopK)>>]
  /\ phase' = "routed"
  /\ UNCHANGED <<routeVars, streamed, died, layer, max_floats, arena, arena_used, lw,
                 cur_layer, slab, out>>

Added == Len(out)

\* real_expert_ffn's three reads, in order, for the expert of pick Added.
ReadSlab(b, prev) ==
  /\ phase = prev /\ streamed /\ Added < TopK
  /\ slab' = [slab EXCEPT ![b] = <<cur_layer, b, topk_idx[Added]>>]
  /\ phase' = b
  /\ UNCHANGED <<routeVars, streamed, died, layer, max_floats, arena, arena_used, lw,
                 cur_layer, weights, out>>

\* pread_exact: an error or a short read.
ReadFails ==
  /\ phase \in {"routed", "gate", "up"} /\ streamed /\ Added < TopK
  /\ phase' = "dead" /\ died' = "read"
  /\ UNCHANGED <<routeVars, streamed, layer, max_floats, arena, arena_used, lw, cur_layer,
                 slab, weights, out>>

Add(ffn, weight, then) ==
  /\ out' = Append(out, <<ffn, weight>>) /\ phase' = then
  /\ UNCHANGED <<routeVars, streamed, died, layer, max_floats, arena, arena_used, lw,
                 cur_layer, slab, weights>>

\* A routed expert, from the three buffers or from the checkpoint; its weight applied
\* to what down_proj gives.
StreamedExpert ==
  /\ phase = "down"
  /\ Add(Ffn("routed", slab["gate"][3],
             \A b \in DOMAIN slab : slab[b] = <<layer, b, slab["gate"][3]>>),
         weights[Added], "routed")

OracleExpert ==
  /\ phase = "routed" /\ ~streamed /\ Added < TopK
  /\ LET e == topk_idx[Added]
     IN  Add(Ffn("routed", e, GatedFfn("experts_w13", "experts_w2", "experts_w2", e)),
             weights[Added], "routed")

\* Mutant: the shared experts take the weights of the first picks.
GammaFirst(s) == weights[s]

Gamma(s) == weights[TopK + s]

\* A shared expert: gamma folded into its activation.
SharedExpert ==
  /\ phase = "routed" /\ Added \in TopK..TopK + NumShared - 1
  /\ LET s == Added - TopK
     IN  Add(Ffn("shared", s, GatedFfn("w13", "w2", "w2", s)), Gamma(s), "routed")

MoeEnds ==
  /\ phase = "routed" /\ Added = TopK + NumShared
  /\ phase' = "mixed"
  /\ UNCHANGED <<routeVars, streamed, died, layer, max_floats, arena, arena_used, lw,
                 cur_layer, slab, weights, out>>

\* To the next layer, or to the first one of the next call.
NextLayer ==
  /\ phase = "mixed"
  /\ layer' = (layer + 1) % NumLayers /\ phase' = "layer"
  /\ UNCHANGED <<routeVars, streamed, died, max_floats, arena, arena_used, lw, cur_layer,
                 slab, weights, out>>

Dead == phase = "dead" /\ UNCHANGED vars

Next ==
  \/ SizeLayer \/ AllocArena
  \/ FillLayer \/ UseLayer \/ FillAllRows \/ FillW13 \/ FillW2 \/ BindExperts
  \/ Attention \/ MlpDenseForward \/ MoeBegin \/ Select \/ MixWeights
  \/ ReadSlab("gate", "routed") \/ ReadSlab("up", "gate") \/ ReadSlab("down", "up")
  \/ ReadFails \/ StreamedExpert \/ OracleExpert \/ SharedExpert \/ MoeEnds
  \/ NextLayer \/ Dead

Spec == LayersInit /\ [][Next]_vars

-----------------------------------------------------------------------------
(* Properties.                                                             *)

MatrixRight(f) ==
  \A o \in 0..QTensor(layer)[f][1] - 1 :
    Row(f, o, QTensor(layer)[f][2]) = IsRow(f, o, QTensor(layer)[f][2])

\* From the attention on, until the layer is done, every row of every matrix of the
\* layer is where the forward pass looks for it, whichever layers have gone through
\* the arena before; and the arena, sized once, is never too small for a layer.
LayerRowsRight ==
  /\ died # "arena"
  /\ phase \in {"attn", "dense", "router", "mixed"} =>
       /\ \A f \in {"wq", "wk", "wv", "wr", "wo"} : MatrixRight(f)
       /\ \A s \in 0..Stacks(layer) - 1 : GatedFfn("w13", "w2", "w2", s)

\* The output of an MLP: its dense FFN; or each chosen expert once, computed with its
\* own matrices of this layer, under the weight of its own logit, and each shared
\* expert once under its own.
MixesEachOnce ==
  phase = "mixed" =>
    IF layer \notin Sparse THEN out = <<<<<<layer, "dense", 0>>, "dense_global_scale">>>>
    ELSE /\ Added = TopK + NumShared
         /\ \A p \in 0..TopK - 1 :
              \E n \in 1..Added :
                out[n] = <<<<layer, "routed", topk_idx[p]>>, <<layer, topk_idx[p]>>>>
         /\ \A s \in 0..NumShared - 1 :
              \E n \in 1..Added : out[n] = <<<<layer, "shared", s>>, <<layer, NumRouted + s>>>>
=============================================================================
