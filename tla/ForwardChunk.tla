---------------------------- MODULE ForwardChunk ----------------------------
(***************************************************************************)
(* The CPU forward pass of sepia.c over a chunk of T tokens: the KV cache  *)
(* and the four short-convolution histories that every layer carries from  *)
(* one chunk to the next.  model_forward_chunk and real_forward_chunk are  *)
(* the same program; they differ in where a layer's weights come from.     *)
(*                                                                         *)
(* A row of numbers is abstracted to what it was computed from: the frame  *)
(* <<l, kind, p>> is the row that layer l computes at position p when      *)
(* everything it reads is what the whole text determines; Bad is any other *)
(* row, and Zero the zero-filled history before the text.  A token is its  *)
(* position in the text, and a logits row the position it answers for.     *)
(***************************************************************************)
EXTENDS Integers, FiniteSets

CONSTANTS NumLayers,   \* cfg->num_hidden_layers
          KernelSize,  \* cfg->conv_kernel_size
          Window,      \* cfg->sliding_window_size
          Sliding,     \* the layers with is_sliding
          MaxCap       \* bound on a cache's capacity (memory is the code's)

ASSUME ForwardAssumption ==
  /\ NumLayers \in Nat \ {0} /\ KernelSize \in Nat \ {0} /\ Window \in Nat \ {0}
  /\ Sliding \subseteq 0..NumLayers - 1
  /\ MaxCap \in Nat

VARIABLES
  pc,      \* "none" without a cache, "idle" between chunks, or the part of a
           \* layer that comes next: "attn", "mlp"; "logits" after the last layer
  cap,     \* Cache.cap
  layers,  \* Cache.layers: a LayerCache record for each layer
  overrun, \* a row was written past the end of k or v: anything may follow
  T, start_pos, layer, x,
  logits   \* logits_out of the last chunk

forwardVars == <<pc, cap, layers, overrun, T, start_pos, layer, x, logits>>

Layer == 0..NumLayers - 1
Km1 == KernelSize - 1
Rows == 0..T - 1
Cells == 0..cap - 1

-----------------------------------------------------------------------------
(* Frames.                                                                 *)

Zero == <<0, "zero", -1>>
Bad == <<0, "bad", -1>>
Frame(l, kind, p) == IF p < 0 THEN Zero ELSE <<l, kind, p>>

\* One row through a per-row operator (a norm, a projection, an FFN, a residual
\* addition): right when its input is.
Derive(l, from, to, f) ==
  IF f = Frame(l, from, f[3]) /\ f[3] >= 0 THEN <<l, to, f[3]>> ELSE Bad

Kinds == {"x", "q", "r", "k", "ks", "v", "vs", "a", "as", "h", "m", "ms"}
Frames == ((0..NumLayers) \X Kinds \X Nat) \cup {Zero, Bad}

\* rmsnorm of an embedding row.
Embed(token) == IF token >= 0 THEN <<0, "x", token>> ELSE Bad

\* Final norm, mup division and unembedding.
BadToken == -1
Unembed(f) == IF f = Frame(NumLayers, "x", f[3]) THEN f[3] ELSE BadToken

-----------------------------------------------------------------------------
(* sconv_apply.                                                            *)

\* The K-1 history rows, then the T new ones.
Buf(hist, in) ==
  [j \in 0..Km1 + T - 1 |-> IF j < Km1 THEN hist[j] ELSE in[j - Km1]]

\* Row t is right when the window it sums is positions p-K+1 .. p, each with the
\* tap of its distance.
SconvOut(l, from, to, hist, in) ==
  [t \in Rows |->
     IF \A j \in 0..Km1 : Buf(hist, in)[t + j] = Frame(l, from, in[t][3] - Km1 + j)
     THEN Derive(l, from, to, in[t]) ELSE Bad]

\* Mutant: a chunk shorter than the history replaces it without shifting.
HistUnshifted(hist, in) ==
  [j \in 0..Km1 - 1 |-> IF T < Km1 /\ j < T THEN in[j]
                        ELSE IF T < Km1 THEN hist[j] ELSE Buf(hist, in)[T + j]]

SconvHist(hist, in) == [j \in 0..Km1 - 1 |-> Buf(hist, in)[T + j]]

-----------------------------------------------------------------------------
(* attn_forward_chunk.                                                     *)

\* What position p of layer l attends to.
Attended(l, p) == {i \in 0..p : l \in Sliding => p - i < Window}

\* Mutant: the window is one position too wide.
WideKvLo(l, q_pos) ==
  LET lo == IF l \in Sliding THEN q_pos - Window ELSE 0
  IN  IF lo < 0 THEN 0 ELSE lo

KvLo(l, q_pos) ==
  LET lo == IF l \in Sliding THEN q_pos - Window + 1 ELSE 0
  IN  IF lo < 0 THEN 0 ELSE lo

\* Mutant: decode overwrites the newest row instead of appending.
CellBefore(t) == IF T = 1 /\ start_pos > 0 THEN start_pos - 1 ELSE start_pos + t

\* The row of k and v that a chunk's row t is copied to.
CellOf(t) == start_pos + t

\* The memcpy of a chunk's rows into k or v.
Stored(cells, in) ==
  [i \in Cells |-> IF \E t \in Rows : CellOf(t) = i
                   THEN in[CHOOSE t \in Rows : CellOf(t) = i] ELSE cells[i]]

\* Row t: its scaled query against the cells kv_lo..q_pos, biased by its relative
\* logits at their distance, mixing the values of the same cells.
AttnOut(l, q, r, k, v) ==
  [t \in Rows |->
     LET q_pos == start_pos + t
         span == KvLo(l, q_pos)..q_pos
     IN  IF /\ q[t] = <<l, "q", q_pos>> /\ r[t] = <<l, "r", q_pos>>
            /\ span = Attended(l, q_pos)
            /\ \A i \in span : /\ i \in Cells
                               /\ k[i] = <<l, "ks", i>> /\ v[i] = <<l, "vs", i>>
         THEN <<l, "a", q_pos>> ELSE Bad]

\* x[i] += the convolved branch of the same row.
Residual(l, from, branch, l2, to, f, g) ==
  IF f = <<l, from, f[3]>> /\ g = <<l, branch, f[3]>> THEN <<l2, to, f[3]>> ELSE Bad

-----------------------------------------------------------------------------
(* The cache.                                                              *)

Hists == [0..Km1 - 1 -> Frames]
LayerCache ==
  [len : Nat, k : [Cells -> Frames], v : [Cells -> Frames],
   k_hist : Hists, v_hist : Hists, attn_hist : Hists, mlp_hist : Hists]

ForwardInit ==
  /\ pc = "none" /\ cap = 0 /\ layers = <<>> /\ overrun = FALSE
  /\ T = 0 /\ start_pos = 0 /\ layer = 0 /\ x = [t \in Rows |-> Bad]
  /\ logits = <<>>

EmptyHist == [j \in 0..Km1 - 1 |-> Zero]

CacheCreate(n) ==
  /\ pc = "none" /\ pc' = "idle"
  /\ cap' = n
  /\ layers' = [l \in Layer |->
       [len |-> 0,
        k |-> [i \in 0..n - 1 |-> Zero], v |-> [i \in 0..n - 1 |-> Zero],
        k_hist |-> EmptyHist, v_hist |-> EmptyHist,
        attn_hist |-> EmptyHist, mlp_hist |-> EmptyHist]]
  /\ UNCHANGED <<overrun, T, start_pos, layer, x, logits>>

CacheFree ==
  /\ pc = "idle" /\ pc' = "none"
  /\ cap' = 0 /\ layers' = <<>>
  /\ UNCHANGED <<overrun, T, start_pos, layer, x, logits>>

-----------------------------------------------------------------------------
(* model_forward_chunk, real_forward_chunk.                                *)

\* A call with n tokens at position s: their embeddings.
Forward(ids, n, s) ==
  /\ pc = "idle" /\ pc' = "attn"
  /\ T' = n /\ start_pos' = s /\ layer' = 0
  /\ x' = [t \in 0..n - 1 |-> Embed(ids[t])]
  /\ UNCHANGED <<cap, layers, overrun, logits>>

\* decoder_layer_forward up to the first residual.
AttnHalf ==
  /\ pc = "attn" /\ pc' = "mlp"
  /\ LET l == layer
         c == layers[l]
         k_raw == [t \in Rows |-> Derive(l, "x", "k", x[t])]
         v_raw == [t \in Rows |-> Derive(l, "x", "v", x[t])]
         k == Stored(c.k, SconvOut(l, "k", "ks", c.k_hist, k_raw))
         v == Stored(c.v, SconvOut(l, "v", "vs", c.v_hist, v_raw))
         q == [t \in Rows |-> Derive(l, "x", "q", x[t])]
         r == [t \in Rows |-> Derive(l, "x", "r", x[t])]
         out == AttnOut(l, q, r, k, v)
         conv == SconvOut(l, "a", "as", c.attn_hist, out)
     IN  /\ layers' = [layers EXCEPT ![l] =
              [len |-> IF start_pos + T > c.len THEN start_pos + T ELSE c.len,
               k |-> k, v |-> v,
               k_hist |-> SconvHist(c.k_hist, k_raw),
               v_hist |-> SconvHist(c.v_hist, v_raw),
               attn_hist |-> SconvHist(c.attn_hist, out),
               mlp_hist |-> c.mlp_hist]]
         /\ x' = [t \in Rows |-> Residual(l, "x", "as", l, "h", x[t], conv[t])]
  /\ overrun' = (overrun \/ start_pos + T > cap)
  /\ UNCHANGED <<cap, T, start_pos, layer, logits>>

AfterLayer(l) == IF l + 1 < NumLayers THEN "attn" ELSE "logits"

\* The rest of it: the FFN, its convolution and the second residual.
MlpHalf ==
  /\ pc = "mlp" /\ pc' = AfterLayer(layer)
  /\ layer' = layer + 1
  /\ LET l == layer
         c == layers[l]
         out == [t \in Rows |-> Derive(l, "h", "m", x[t])]
         conv == SconvOut(l, "m", "ms", c.mlp_hist, out)
     IN  /\ layers' = [layers EXCEPT ![l] =
              [c EXCEPT !.mlp_hist = SconvHist(c.mlp_hist, out)]]
         /\ x' = [t \in Rows |-> Residual(l, "h", "ms", l + 1, "x", x[t], conv[t])]
  /\ UNCHANGED <<cap, overrun, T, start_pos, logits>>

Logits ==
  /\ pc = "logits" /\ pc' = "idle"
  /\ logits' = [t \in Rows |-> Unembed(x[t])]
  /\ UNCHANGED <<cap, layers, overrun, T, start_pos, layer, x>>

Layers == AttnHalf \/ MlpHalf

\* A caller that keeps the contract of Cache: the chunk is the next part of the
\* text and there is room for it.
NextChunk(n) ==
  /\ pc = "idle"
  /\ layers[0].len + n <= cap
  /\ Forward([t \in 0..n - 1 |-> layers[0].len + t], n, layers[0].len)

ForwardNext ==
  \/ \E n \in 0..MaxCap : CacheCreate(n) \/ NextChunk(n)
  \/ CacheFree
  \/ Layers
  \/ Logits

ForwardSpec == ForwardInit /\ [][ForwardNext]_forwardVars

-----------------------------------------------------------------------------
(* Properties.                                                             *)

\* How many positions the attention half, and the FFN half, of layer l has read.
AttnRead(l) ==
  IF pc = "idle" THEN layers[0].len
  ELSE IF layer > l \/ (layer = l /\ pc = "mlp") THEN start_pos + T ELSE start_pos

MlpRead(l) ==
  IF pc = "idle" THEN layers[0].len
  ELSE IF layer > l THEN start_pos + T ELSE start_pos

\* The history of a stream of which n rows were read: its last K-1 rows, with
\* zeros before the text.
HistoryOf(l, kind, n) == [j \in 0..Km1 - 1 |-> Frame(l, kind, n - Km1 + j)]

ForwardTypeOK ==
  /\ pc \in {"none", "idle", "attn", "mlp", "logits"}
  /\ cap \in 0..MaxCap /\ T \in Nat /\ start_pos \in Nat /\ overrun \in BOOLEAN
  /\ layer \in 0..NumLayers /\ (pc \in {"attn", "mlp"} => layer \in Layer)
  /\ x \in [Rows -> Frames]
  /\ pc # "none" => layers \in [Layer -> LayerCache]

\* Every history holds exactly the last K-1 rows of its own stream, in order,
\* however the text was cut: a chunk shorter than K-1 keeps part of the old ones.
HistoriesFollowText ==
  pc # "none" => \A l \in Layer :
    /\ layers[l].k_hist = HistoryOf(l, "k", AttnRead(l))
    /\ layers[l].v_hist = HistoryOf(l, "v", AttnRead(l))
    /\ layers[l].attn_hist = HistoryOf(l, "a", AttnRead(l))
    /\ layers[l].mlp_hist = HistoryOf(l, "m", MlpRead(l))

\* Cell p of the KV cache holds the convolved key and value of position p.
CacheFollowsText ==
  pc # "none" => \A l \in Layer :
    /\ layers[l].len = AttnRead(l)
    /\ AttnRead(l) <= cap
    /\ \A p \in 0..AttnRead(l) - 1 :
         layers[l].k[p] = <<l, "ks", p>> /\ layers[l].v[p] = <<l, "vs", p>>

\* In a call, the chunk starts where the cache ended, fits in it, and its rows are
\* those of its own positions.
ResidualAt(l, kind) == x = [t \in Rows |-> <<l, kind, start_pos + t>>]
RowsFollowText ==
  /\ pc \in {"attn", "mlp", "logits"} => start_pos + T <= cap
  /\ pc = "attn" => ResidualAt(layer, "x")
  /\ pc = "mlp" => ResidualAt(layer, "h")
  /\ pc = "logits" => layer = NumLayers /\ ResidualAt(layer, "x")

\* No row is written past the end of a cache.
NeverOverruns == ~overrun

ForwardIInv ==
  /\ ForwardTypeOK /\ HistoriesFollowText /\ CacheFollowsText /\ RowsFollowText
  /\ NeverOverruns

\* The chunked, cached forward pass computes what the whole text determines.
Text == INSTANCE TextModel WITH
  read <- IF pc = "none" THEN -1 ELSE IF pc = "idle" THEN layers[0].len ELSE start_pos,
  rows <- logits,
  Longest <- MaxCap
ComputesText == Text!TextInit /\ [][Text!TextNext]_(Text!textVars)
=============================================================================
