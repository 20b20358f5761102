----------------------------- MODULE ForwardGpu -----------------------------
(***************************************************************************)
(* The GPU forward pass of sepia.c, real_forward_chunk_gpu: the layers of  *)
(* ForwardChunk as a straight-line program that the host runs while the    *)
(* GPU runs behind it.  The host encodes dispatches; the GPU executes them *)
(* in the order they were encoded, at any time before the end that waits   *)
(* for them (what GpuStream promises, whatever the flushes).  The host     *)
(* touches the shared buffers itself: it uploads x, scales the queries by  *)
(* tau in double precision, routes and mixes the experts of each token,    *)
(* and reads the residual rows and the logits back.                        *)
(*                                                                         *)
(* Rows are the frames of ForwardChunk, with more kinds for the steps in   *)
(* between.  A scratch buffer keeps its name from layer to layer: what an  *)
(* earlier layer left in it is a wrong row for this one.                   *)
(***************************************************************************)
EXTENDS ForwardChunk, Sequences, SequencesExt

CONSTANT Sparse  \* the layers with layer_is_sparse

ASSUME SparseAssumption == Sparse \subseteq 0..NumLayers - 1

VARIABLES
  todo,      \* what is left of the call, instruction by instruction
  encoding,  \* a batch is open
  batch,     \* dispatches encoded and not executed, oldest first
  mem,       \* the scratch buffers by name; x is a variable of its own
  topk_idx,  \* the experts routed to, named by the router row they come from
  out_host   \* mlp_out_host

gpuVars == <<todo, encoding, batch, mem, topk_idx, out_host>>
forwardGpuVars == <<forwardVars, gpuVars>>

Buffers ==
  {"normed", "q_raw", "k_raw", "v_raw", "r_raw", "k_sconv", "v_sconv", "q_normed",
   "k_normed", "rel_logits", "attn_concat", "attn_out", "attn_sconv_out", "normed2",
   "g_full", "u_full", "h_full", "y_full", "router_logits", "gbuf", "ubuf", "hbuf",
   "shared_raw", "routed_raw", "mlp_out", "mlp_sconv_out", "final", "logits_buf",
   "xrow", "yrow_q", "yrow_k", "yrow_v", "yrow_r", "yrow"}

Content(b) == IF b = "x" THEN x ELSE mem[b]

-----------------------------------------------------------------------------
(* Instructions.  A dispatch reads the buffers of `in` and writes `out`;   *)
(* `l` is its layer, `from` the kind of row that each input should hold,   *)
(* and `experts` is filled in when it is encoded.                          *)

Begin == [do |-> "begin"]
End == [do |-> "end"]
Host(step, l, t, reads, writes) ==
  [do |-> "host", step |-> step, l |-> l, t |-> t, reads |-> reads, writes |-> writes]

Dispatch(op, l, in, from, out, to) ==
  [do |-> "encode",
   d |-> [op |-> op, l |-> l, in |-> in, from |-> from, out |-> out, to |-> to,
          experts |-> Bad]]

\* A kernel over all the rows of its inputs, and one over a single row.
Map(l, in, from, out, to) == Dispatch("map", l, in, from, out, to)
Matvec(l, in, from, out, to) == Dispatch("matvec", l, <<in>>, <<from>>, out, to)

\* Mutant: the input row is not fetched again for a later token.
RowInFirst(t, in, row) ==
  IF t # 1 THEN <<>> ELSE <<Dispatch("row_in", t, <<in>>, <<>>, row, "")>>

\* real_gpu_row_in, real_gpu_row_out: row t through a one-row scratch buffer.
RowIn(t, in, row) == IF t = 0 THEN <<>> ELSE <<Dispatch("row_in", t, <<in>>, <<>>, row, "")>>
RowOut(t, row, out) == IF t = 0 THEN <<>> ELSE <<Dispatch("row_out", t, <<row>>, <<>>, out, "")>>

\* real_gpu_matvec_q_row.
MatvecRow(l, t, in, from, out, to, xrow, yrow) ==
  RowIn(t, in, xrow)
  \o <<Matvec(l, IF t = 0 THEN in ELSE xrow, from, IF t = 0 THEN out ELSE yrow, to)>>
  \o RowOut(t, yrow, out)

ForEach(n, Body(_)) == FlattenSeq([i \in 1..n |-> Body(i - 1)])

Sconv(l, hist, in, from, out, to) ==
  <<Dispatch("sconv", l, <<in, hist>>, <<from>>, out, to)>>
Roll(l, hist, in) == <<Dispatch("roll", l, <<in>>, <<>>, hist, "")>>

-----------------------------------------------------------------------------
(* The program of a chunk of n tokens.                                     *)

\* Mutant: the queries are scaled without waiting for the batch.
TauUnsynced(l) == <<Host("tau", l, 0, {}, {"q_normed"})>>

\* The one sync of the attention half.
TauSync(l) == <<End, Host("tau", l, 0, {}, {"q_normed"}), Begin>>

\* real_attn_forward_chunk_gpu.
Attention(l, n) ==
  ForEach(n, LAMBDA t :
    MatvecRow(l, t, "normed", "n", "q_raw", "qr", "xrow", "yrow_q")
    \o MatvecRow(l, t, "normed", "n", "k_raw", "k", "xrow", "yrow_k")
    \o MatvecRow(l, t, "normed", "n", "v_raw", "v", "xrow", "yrow_v")
    \o MatvecRow(l, t, "normed", "n", "r_raw", "rr", "xrow", "yrow_r"))
  \o Sconv(l, "k_hist", "k_raw", "k", "k_sconv", "kc")
  \o Sconv(l, "v_hist", "v_raw", "v", "v_sconv", "vs")
  \o Roll(l, "k_hist", "k_raw") \o Roll(l, "v_hist", "v_raw")
  \o <<Map(l, <<"q_raw">>, <<"qr">>, "q_normed", "qn"),
       Map(l, <<"k_sconv">>, <<"kc">>, "k_normed", "ks"),
       Dispatch("store", l, <<"k_normed">>, <<>>, "k", ""),
       Dispatch("store", l, <<"v_sconv">>, <<>>, "v", ""),
       Host("len", l, 0, {}, {}),
       Map(l, <<"r_raw">>, <<"rr">>, "rel_logits", "r")>>
  \o TauSync(l)
  \o <<Dispatch("attn", l, <<"q_normed", "rel_logits">>, <<>>, "attn_concat", "ac")>>
  \o ForEach(n, LAMBDA t : MatvecRow(l, t, "attn_concat", "ac", "attn_out", "a", "xrow", "yrow"))

\* real_mlp_dense_forward_gpu.
DenseMlp(l, n) ==
  ForEach(n, LAMBDA t :
    MatvecRow(l, t, "normed2", "n2", "g_full", "g", "xrow", "yrow_q")
    \o MatvecRow(l, t, "normed2", "n2", "u_full", "u", "xrow", "yrow_k"))
  \o <<Map(l, <<"g_full", "u_full">>, <<"g", "u">>, "h_full", "hm")>>
  \o ForEach(n, LAMBDA t : MatvecRow(l, t, "h_full", "hm", "y_full", "y", "xrow", "yrow"))
  \o <<Map(l, <<"y_full">>, <<"y">>, "mlp_out", "m")>>

\* One expert's gate, up, silu and down, through scratch rows shared by all of them.
Expert(l, xt, op, out, to) ==
  <<Dispatch(op, l, <<xt>>, <<"n2">>, "gbuf", "g"), Dispatch(op, l, <<xt>>, <<"n2">>, "ubuf", "u"),
    Dispatch("matvec", l, <<"gbuf", "ubuf">>, <<"g", "u">>, "hbuf", "hm"),
    Dispatch(op, l, <<"hbuf">>, <<"hm">>, out, to)>>

\* real_mlp_moe_forward_gpu for token t (MoeStep has its store and its loader);
\* one shared and one routed expert stand for all of them.
MoeToken(l, t) ==
  LET xt == IF t = 0 THEN "normed2" ELSE "xrow"
  IN  RowIn(t, "normed2", "xrow")
      \o <<Matvec(l, xt, "n2", "router_logits", "ro")>>
      \o Expert(l, xt, "matvec", "shared_raw", "sh")
      \o <<End, Host("route", l, t, {"router_logits"}, {}), Begin>>
      \o Expert(l, xt, "routed", "routed_raw", "re")
      \o <<End, Host("mix", l, t, {"routed_raw", "shared_raw"}, {}), Begin>>

MoeMlp(l, n) ==
  ForEach(n, LAMBDA t : MoeToken(l, t))
  \o <<Host("memcpy", l, 0, {}, {"mlp_out"})>>

\* real_decoder_layer_forward_gpu.
DecoderLayer(l, n) ==
  <<Map(l, <<"x">>, <<"x">>, "normed", "n")>>
  \o Attention(l, n)
  \o Sconv(l, "attn_hist", "attn_out", "a", "attn_sconv_out", "as")
  \o Roll(l, "attn_hist", "attn_out")
  \o <<Map(l, <<"x", "attn_sconv_out">>, <<"x", "as">>, "x", "h"),
       Map(l, <<"x">>, <<"h">>, "normed2", "n2")>>
  \o (IF l \in Sparse THEN MoeMlp(l, n) ELSE DenseMlp(l, n))
  \o Sconv(l, "mlp_hist", "mlp_out", "m", "mlp_sconv_out", "ms")
  \o Roll(l, "mlp_hist", "mlp_out")
  \o <<Map(l, <<"x", "mlp_sconv_out">>, <<"h", "ms">>, "x", "next")>>

\* real_forward_chunk_gpu after the upload of x.
Program(n) ==
  <<Begin>>
  \o ForEach(NumLayers, LAMBDA l : DecoderLayer(l, n))
  \o <<End, Host("final", NumLayers, 0, {"x"}, {"final"}), Begin>>
  \o ForEach(n, LAMBDA t :
       MatvecRow(NumLayers, t, "final", "fn", "logits_buf", "lg", "xrow", "yrow"))
  \o <<End, Host("logits", NumLayers, 0, {"logits_buf"}, {})>>

-----------------------------------------------------------------------------
(* The host.                                                               *)

ForwardGpuInit ==
  /\ ForwardInit
  /\ todo = <<>> /\ encoding = FALSE /\ batch = <<>>
  /\ mem = [b \in Buffers |-> [t \in Rows |-> Bad]]
  /\ topk_idx = Bad /\ out_host = [t \in Rows |-> Bad]

\* The embeddings are uploaded before the batch opens.  A chunk without tokens dies
\* at its first dispatch.
ForwardGpu(ids, n, s) ==
  /\ n > 0
  /\ Forward(ids, n, s)
  /\ todo' = Program(n)
  /\ mem' = [b \in Buffers |-> [t \in 0..n - 1 |-> Bad]]
  /\ topk_idx' = Bad /\ out_host' = [t \in 0..n - 1 |-> Bad]
  /\ UNCHANGED <<encoding, batch>>

Do(what) == todo # <<>> /\ Head(todo).do = what /\ todo' = Tail(todo)

BeginBatch ==
  /\ Do("begin") /\ ~encoding /\ encoding' = TRUE
  /\ UNCHANGED <<forwardVars, batch, mem, topk_idx, out_host>>

\* A dispatch on a routed expert names the slots of the experts chosen by now.
EncodeDispatch ==
  /\ Do("encode") /\ encoding
  /\ batch' = Append(batch, [Head(todo).d EXCEPT !.experts = topk_idx])
  /\ UNCHANGED <<forwardVars, encoding, mem, topk_idx, out_host>>

\* end returns when everything encoded has executed.
EndBatch ==
  /\ Do("end") /\ encoding /\ batch = <<>> /\ encoding' = FALSE
  /\ UNCHANGED <<forwardVars, batch, mem, topk_idx, out_host>>

HostStep(step) == Do("host") /\ Head(todo).step = step

HostLen ==
  LET l == Head(todo).l
  IN  /\ HostStep("len")
      /\ layers' = [layers EXCEPT ![l].len = IF start_pos + T > @ THEN start_pos + T ELSE @]
      /\ UNCHANGED <<pc, cap, overrun, T, start_pos, layer, x, logits,
                     encoding, batch, mem, topk_idx, out_host>>

HostTau ==
  /\ HostStep("tau")
  /\ mem' = [mem EXCEPT !["q_normed"] = [t \in Rows |-> Derive(Head(todo).l, "qn", "q", @[t])]]
  /\ UNCHANGED <<forwardVars, encoding, batch, topk_idx, out_host>>

HostRoute ==
  /\ HostStep("route")
  /\ topk_idx' = mem["router_logits"][0]
  /\ UNCHANGED <<forwardVars, encoding, batch, mem, out_host>>

\* The weighted sum of the routed and the shared experts.
Mixed(l) ==
  LET f == mem["routed_raw"][0]
  IN  IF f = <<l, "re", f[3]>> /\ mem["shared_raw"][0] = <<l, "sh", f[3]>>
      THEN <<l, "m", f[3]>> ELSE Bad

HostMix ==
  /\ HostStep("mix")
  /\ out_host' = [out_host EXCEPT ![Head(todo).t] = Mixed(Head(todo).l)]
  /\ UNCHANGED <<forwardVars, encoding, batch, mem, topk_idx>>

HostMemcpy ==
  /\ HostStep("memcpy")
  /\ mem' = [mem EXCEPT !["mlp_out"] = out_host]
  /\ UNCHANGED <<forwardVars, encoding, batch, topk_idx, out_host>>

HostFinal ==
  /\ HostStep("final")
  /\ mem' = [mem EXCEPT !["final"] = [t \in Rows |-> Derive(NumLayers, "x", "fn", x[t])]]
  /\ UNCHANGED <<forwardVars, encoding, batch, topk_idx, out_host>>

HostLogits ==
  /\ HostStep("logits")
  /\ pc' = "idle"
  /\ logits' = [t \in Rows |->
       LET f == mem["logits_buf"][t] IN IF f = <<NumLayers, "lg", f[3]>> THEN f[3] ELSE BadToken]
  /\ UNCHANGED <<cap, layers, overrun, T, start_pos, layer, x,
                 encoding, batch, mem, topk_idx, out_host>>

-----------------------------------------------------------------------------
(* The GPU.                                                                *)

\* Row i of a kernel's output: right when every input row is the right one of one
\* position.
Computed(d, i) ==
  LET p == Content(d.in[1])[i][3]
  IN  IF \A j \in DOMAIN d.in : Content(d.in[j])[i] = <<d.l, d.from[j], p>>
      THEN IF d.to = "next" THEN <<d.l + 1, "x", p>> ELSE <<d.l, d.to, p>>
      ELSE Bad

Retire(op) == batch # <<>> /\ Head(batch).op = op /\ batch' = Tail(batch)

Write(b, rows) ==
  IF b = "x" THEN x' = rows /\ UNCHANGED mem
  ELSE mem' = [mem EXCEPT ![b] = rows] /\ UNCHANGED x

WriteRow(b, i, f) == mem' = [mem EXCEPT ![b][i] = f] /\ UNCHANGED x

GpuScratch(op) ==
  /\ Retire(op)
  /\ UNCHANGED <<pc, cap, layers, overrun, T, start_pos, layer, logits,
                 todo, encoding, topk_idx, out_host>>

GpuCache(op) ==
  /\ Retire(op)
  /\ UNCHANGED <<pc, cap, T, start_pos, layer, logits, x,
                 mem, todo, encoding, topk_idx, out_host>>

GpuMap ==
  LET d == Head(batch)
  IN  GpuScratch("map") /\ Write(d.out, [t \in Rows |-> Computed(d, t)])

GpuMatvec ==
  LET d == Head(batch)
  IN  GpuScratch("matvec") /\ WriteRow(d.out, 0, Computed(d, 0))

\* The same on the weights of the routed experts.
GpuRouted ==
  LET d == Head(batch)
      f == Computed(d, 0)
  IN  /\ GpuScratch("routed")
      /\ WriteRow(d.out, 0, IF d.experts = <<d.l, "ro", f[3]>> THEN f ELSE Bad)

GpuRowIn ==
  LET d == Head(batch)
  IN  GpuScratch("row_in") /\ WriteRow(d.out, 0, Content(d.in[1])[d.l])

GpuRowOut ==
  LET d == Head(batch)
  IN  GpuScratch("row_out") /\ WriteRow(d.out, d.l, Content(d.in[1])[0])

GpuSconv ==
  LET d == Head(batch)
  IN  /\ GpuScratch("sconv")
      /\ Write(d.out, SconvOut(d.l, d.from[1], d.to, layers[d.l][d.in[2]], Content(d.in[1])))

GpuAttn ==
  LET d == Head(batch)
      c == layers[d.l]
      out == AttnOut(d.l, Content(d.in[1]), Content(d.in[2]), c.k, c.v)
  IN  GpuScratch("attn") /\ Write(d.out, [t \in Rows |-> Derive(d.l, "a", d.to, out[t])])

\* Mutant: the kept rows are not shifted.
HistRollUnshifted(hist, in) ==
  LET keep_n == IF T >= Km1 THEN 0 ELSE Km1 - T
  IN  [j \in 0..Km1 - 1 |-> IF T >= Km1 THEN in[T - Km1 + j]
                            ELSE IF j < keep_n THEN hist[j] ELSE in[j - keep_n]]

\* sepia_sconv_hist_roll_f32, one thread per channel: what is kept of the old
\* history is in registers before the first row is overwritten.
HistRoll(hist, in) ==
  LET keep_n == IF T >= Km1 THEN 0 ELSE Km1 - T
  IN  [j \in 0..Km1 - 1 |-> IF T >= Km1 THEN in[T - Km1 + j]
                            ELSE IF j < keep_n THEN hist[T + j] ELSE in[j - keep_n]]

GpuRoll ==
  LET d == Head(batch)
  IN  /\ GpuCache("roll")
      /\ layers' = [layers EXCEPT ![d.l][d.out] = HistRoll(@, Content(d.in[1]))]
      /\ UNCHANGED overrun

\* The copy of a chunk's rows into k or v; nothing checks the capacity.
GpuStore ==
  LET d == Head(batch)
  IN  /\ GpuCache("store")
      /\ layers' = [layers EXCEPT ![d.l][d.out] = Stored(@, Content(d.in[1]))]
      /\ overrun' = (overrun \/ start_pos + T > cap)

-----------------------------------------------------------------------------

\* A caller that keeps the contract of the cache, as in ForwardChunk.
NextChunkGpu(n) ==
  /\ pc = "idle" /\ layers[0].len + n <= cap
  /\ ForwardGpu([t \in 0..n - 1 |-> layers[0].len + t], n, layers[0].len)

ForwardGpuNext ==
  \/ \E n \in 0..MaxCap : CacheCreate(n) /\ UNCHANGED gpuVars
  \/ \E n \in 0..MaxCap : NextChunkGpu(n)
  \/ CacheFree /\ UNCHANGED gpuVars
  \/ BeginBatch \/ EncodeDispatch \/ EndBatch
  \/ HostLen \/ HostTau \/ HostRoute \/ HostMix \/ HostMemcpy \/ HostFinal \/ HostLogits
  \/ GpuMap \/ GpuMatvec \/ GpuRouted \/ GpuRowIn \/ GpuRowOut \/ GpuSconv \/ GpuAttn
  \/ GpuRoll \/ GpuStore

ForwardGpuSpec == ForwardGpuInit /\ [][ForwardGpuNext]_forwardGpuVars

-----------------------------------------------------------------------------
(* Properties.  ComputesText is ForwardChunk's: the GPU forward pass, too, *)
(* implements TextModel.                                                   *)

\* The host never touches a buffer that a dispatch still in the queue writes, and
\* never writes one that such a dispatch reads: every readback and every host
\* write, the ones with a batch open included, comes after the sync it needs.
HostTouchesQuiescent ==
  todo # <<>> /\ Head(todo).do = "host" =>
    \A i \in 1..Len(batch) :
      LET d == batch[i]
      IN  /\ d.out \notin Head(todo).reads \cup Head(todo).writes
          /\ \A j \in DOMAIN d.in : d.in[j] \notin Head(todo).writes

\* Between calls nothing is encoded and the GPU's cache and histories hold the same
\* rows of the text as the CPU's do.
GpuCacheFollowsText ==
  pc = "idle" => /\ ~encoding /\ batch = <<>> /\ todo = <<>>
                 /\ HistoriesFollowText /\ CacheFollowsText /\ ~overrun
=============================================================================
