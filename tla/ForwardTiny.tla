---------------------------- MODULE ForwardTiny ----------------------------
(***************************************************************************)
(* The GPU forward pass of the small oracle model, model_forward_chunk_gpu,*)
(* beside the one of the real model (ForwardGpu); a process runs one of    *)
(* the two.  Here the KV cache, the histories and every activation stay on *)
(* the host: each operation copies its inputs to buffers of its own, opens *)
(* a batch for one dispatch, waits for it and copies the result back; the  *)
(* host rolls the histories, fills the cache, scales the queries, splits   *)
(* the interleaved gate and up rows, and routes and mixes the experts.     *)
(***************************************************************************)
EXTENDS ForwardGpu

VARIABLE path  \* the model of the process: "real" or "tiny"

\* The arrays of ForwardGpu are host arrays on this path.
Devices == [dev_a |-> 1, dev_b |-> 2, dev_c |-> 3, dev_d |-> 4]
TinyArrays == Buffers \cup {"x_raw", "q_scaled", "gu", "hrow", "dev_out"} \cup DOMAIN Devices

All == -1

-----------------------------------------------------------------------------
(* One operation: upload, one dispatch, wait, read back.                   *)

Upload(l, in, t) ==
  [do |-> "host", step |-> "upload", l |-> l, t |-> t,
   reads |-> {}, writes |-> DOMAIN Devices, in |-> in]
ReadBack(l, out, t) ==
  [do |-> "host", step |-> "readback", l |-> l, t |-> t,
   reads |-> {"dev_out"}, writes |-> {out}, out |-> out]

Run(op, l, in, from, to) ==
  <<Begin,
    Dispatch(op, l, SubSeq(<<"dev_a", "dev_b", "dev_c", "dev_d">>, 1, Len(in)), from,
             "dev_out", to),
    End>>

Call(op, l, in, t, from, out, ot, to) ==
  <<Upload(l, in, t)>> \o Run(op, l, in, from, to) \o <<ReadBack(l, out, ot)>>

\* gpu_rmsnorm_rows, gpu_rel_project_call, gpu_add_into: over all the rows.
MapCall(l, in, from, out, to) == Call("map", l, in, All, from, out, All, to)

\* gpu_matvec_one: row t of `in` to row ot of `out`.
gpu_matvec_one(l, in, t, from, out, ot, to) ==
  Call("matvec", l, <<in>>, t, <<from>>, out, ot, to)

\* gpu_sconv_step: the history moves on after the dispatch that read it.
gpu_sconv_step(l, hist, in, from, out, to) ==
  Call("conv", l, <<in, hist>>, All, <<from>>, out, All, to)
  \o <<[do |-> "host", step |-> "roll", l |-> l, reads |-> {in}, writes |-> {},
       hist |-> hist, in |-> in]>>

-----------------------------------------------------------------------------
(* The program of a chunk of n tokens.                                     *)

\* gpu_attn_forward_chunk.
TinyAttention(l, n) ==
  ForEach(n, LAMBDA t :
    gpu_matvec_one(l, "normed", t, "n", "q_raw", t, "qr")
    \o gpu_matvec_one(l, "normed", t, "n", "k_raw", t, "k")
    \o gpu_matvec_one(l, "normed", t, "n", "v_raw", t, "v")
    \o gpu_matvec_one(l, "normed", t, "n", "r_raw", t, "rr"))
  \o gpu_sconv_step(l, "k_hist", "k_raw", "k", "k_sconv", "kc")
  \o gpu_sconv_step(l, "v_hist", "v_raw", "v", "v_sconv", "vs")
  \o MapCall(l, <<"q_raw">>, <<"qr">>, "q_normed", "qn")
  \o MapCall(l, <<"k_sconv">>, <<"kc">>, "k_normed", "ks")
  \o <<Host("store", l, 0, {"k_normed", "v_sconv"}, {}),
       Host("scale", l, 0, {"q_normed"}, {"q_scaled"})>>
  \o MapCall(l, <<"r_raw">>, <<"rr">>, "rel_logits", "r")
  \o Call("banded", l, <<"q_scaled", "rel_logits", "k", "v">>, All, <<>>,
          "attn_concat", All, "ac")
  \o ForEach(n, LAMBDA t : gpu_matvec_one(l, "attn_concat", t, "ac", "attn_out", t, "a"))

\* A gated FFN on token t: gate and up rows of the interleaved matrix in one product.
Gated(op, l, t, mid, hm, out, to) ==
  Call(op, l, <<"normed2">>, t, <<"n2">>, "gu", 0, "gu")
  \o <<Host("gather", l, 0, {"gu"}, {"gbuf", "ubuf"})>>
  \o Call("matvec", l, <<"gbuf", "ubuf">>, 0, <<"g", "u">>, "hbuf", 0, "hm")
  \o mid
  \o Call(op, l, <<"hbuf">>, 0, <<hm>>, out, 0, to)

\* gpu_mlp_dense_forward.
TinyDense(l, t) ==
  Gated("matvec", l, t, <<>>, "hm", "yrow", "y") \o <<Host("gscale", l, t, {"yrow"}, {"mlp_out"})>>

\* gpu_mlp_moe_forward; gamma multiplies a shared expert's activation.
TinyMoe(l, t) ==
  gpu_matvec_one(l, "normed2", t, "n2", "router_logits", 0, "ro")
  \o <<Host("route", l, t, {"router_logits"}, {})>>
  \o Gated("routed", l, t, <<>>, "hm", "routed_raw", "re")
  \o Gated("matvec", l, t, <<Host("gamma", l, t, {"hbuf"}, {"hbuf"})>>, "hg", "shared_raw", "sh")
  \o <<Host("blend", l, t, {"routed_raw", "shared_raw"}, {"mlp_out"})>>

\* gpu_decoder_layer_forward.
TinyLayer(l, n) ==
  MapCall(l, <<"x">>, <<"x">>, "normed", "n")
  \o TinyAttention(l, n)
  \o gpu_sconv_step(l, "attn_hist", "attn_out", "a", "attn_sconv_out", "as")
  \o MapCall(l, <<"x", "attn_sconv_out">>, <<"x", "as">>, "x", "h")
  \o MapCall(l, <<"x">>, <<"h">>, "normed2", "n2")
  \o ForEach(n, LAMBDA t : IF l \in Sparse THEN TinyMoe(l, t) ELSE TinyDense(l, t))
  \o gpu_sconv_step(l, "mlp_hist", "mlp_out", "m", "mlp_sconv_out", "ms")
  \o MapCall(l, <<"x", "mlp_sconv_out">>, <<"h", "ms">>, "x", "next")

\* model_forward_chunk_gpu after the gather of the embedding rows.
TinyProgram(n) ==
  MapCall(0, <<"x_raw">>, <<"e">>, "x", "x")
  \o ForEach(NumLayers, LAMBDA l : TinyLayer(l, n))
  \o MapCall(NumLayers, <<"x">>, <<"x">>, "final", "fn")
  \o ForEach(n, LAMBDA t :
       <<Host("mup", NumLayers, t, {"final"}, {"hrow"})>>
       \o gpu_matvec_one(NumLayers, "hrow", 0, "hd", "logits_buf", t, "lg"))
  \o <<Host("logits", NumLayers, 0, {"logits_buf"}, {})>>

ForwardTiny(ids, n, s) ==
  /\ pc = "idle" /\ pc' = "attn" /\ n > 0
  /\ T' = n /\ start_pos' = s /\ layer' = 0
  /\ x' = [t \in 0..n - 1 |-> Bad]
  /\ mem' = [b \in TinyArrays |->
               [t \in 0..n - 1 |-> IF b = "x_raw" THEN <<0, "e", ids[t]>> ELSE Bad]]
  /\ todo' = TinyProgram(n) /\ topk_idx' = Bad
  /\ UNCHANGED <<cap, layers, overrun, logits, encoding, batch, out_host>>

-----------------------------------------------------------------------------
(* The host.                                                               *)

TinyHost(step) ==
  /\ HostStep(step)
  /\ UNCHANGED <<pc, cap, T, start_pos, layer, logits, encoding, batch, topk_idx, out_host>>

TinyArray(step) == TinyHost(step) /\ UNCHANGED <<layers, overrun, x>>

SetRow(b, t, f) == mem' = [mem EXCEPT ![b][t] = f]

\* gpu_upload_f32 of a host array: one row of it, all of it, or as much of the cache
\* as the text has now.
Uploaded(l, name, t) ==
  IF name \in {"k", "v"} THEN [i \in 0..start_pos + T - 1 |-> layers[l][name][i]]
  ELSE IF name \in {"k_hist", "v_hist", "attn_hist", "mlp_hist"} THEN layers[l][name]
  ELSE IF t = All THEN Content(name) ELSE [i \in {0} |-> Content(name)[t]]

HostUpload ==
  LET in == Head(todo).in
  IN  /\ TinyArray("upload")
      /\ mem' = [b \in DOMAIN mem |->
                   IF b \in DOMAIN Devices /\ Devices[b] \in DOMAIN in
                   THEN Uploaded(Head(todo).l, in[Devices[b]], Head(todo).t) ELSE mem[b]]

HostReadBack ==
  LET w == Head(todo)
  IN  /\ TinyHost("readback") /\ UNCHANGED <<layers, overrun>>
      /\ IF w.t = All THEN Write(w.out, mem["dev_out"])
         ELSE SetRow(w.out, w.t, mem["dev_out"][0]) /\ UNCHANGED x

\* The tail of gpu_sconv_step: the same rows as the kernel of the real model keeps.
HostRoll ==
  LET w == Head(todo)
  IN  /\ TinyHost("roll") /\ UNCHANGED <<overrun, x, mem>>
      /\ layers' = [layers EXCEPT ![w.l][w.hist] = HistRoll(@, mem[w.in])]

HostStore ==
  LET l == Head(todo).l
  IN  /\ TinyHost("store") /\ UNCHANGED <<x, mem>>
      /\ layers' = [layers EXCEPT
           ![l].k = Stored(@, mem["k_normed"]), ![l].v = Stored(@, mem["v_sconv"]),
           ![l].len = IF start_pos + T > @ THEN start_pos + T ELSE @]
      /\ overrun' = (overrun \/ start_pos + T > cap)

HostScale ==
  /\ TinyArray("scale")
  /\ mem' = [mem EXCEPT !["q_scaled"] =
               [t \in Rows |-> Derive(Head(todo).l, "qn", "q", mem["q_normed"][t])]]

\* Row 2i of the product is the gate's i, row 2i + 1 the up's.
HostGather ==
  LET l == Head(todo).l
  IN  /\ TinyArray("gather")
      /\ mem' = [mem EXCEPT !["gbuf"][0] = Derive(l, "gu", "g", mem["gu"][0]),
                            !["ubuf"][0] = Derive(l, "gu", "u", mem["gu"][0])]

HostGamma ==
  TinyArray("gamma") /\ SetRow("hbuf", 0, Derive(Head(todo).l, "hm", "hg", mem["hbuf"][0]))

HostGscale ==
  TinyArray("gscale")
  /\ SetRow("mlp_out", Head(todo).t, Derive(Head(todo).l, "y", "m", mem["yrow"][0]))

HostBlend == TinyArray("blend") /\ SetRow("mlp_out", Head(todo).t, Mixed(Head(todo).l))

HostMup ==
  TinyArray("mup")
  /\ SetRow("hrow", 0, Derive(NumLayers, "fn", "hd", mem["final"][Head(todo).t]))

-----------------------------------------------------------------------------
(* The kernels that read uploaded copies of what the real model keeps on   *)
(* the GPU.                                                                *)

GpuConv ==
  LET d == Head(batch)
  IN  /\ GpuScratch("conv")
      /\ Write(d.out, SconvOut(d.l, d.from[1], d.to, Content(d.in[2]), Content(d.in[1])))

GpuBanded ==
  LET d == Head(batch)
      out == AttnOut(d.l, Content(d.in[1]), Content(d.in[2]), Content(d.in[3]), Content(d.in[4]))
  IN  GpuScratch("banded") /\ Write(d.out, [t \in Rows |-> Derive(d.l, "a", d.to, out[t])])

-----------------------------------------------------------------------------

NextChunkTiny(n) ==
  /\ pc = "idle" /\ layers[0].len + n <= cap
  /\ ForwardTiny([t \in 0..n - 1 |-> layers[0].len + t], n, layers[0].len)

TinyNext ==
  \/ \E n \in 0..MaxCap : CacheCreate(n) /\ UNCHANGED gpuVars
  \/ \E n \in 0..MaxCap : NextChunkTiny(n)
  \/ CacheFree /\ UNCHANGED gpuVars
  \/ BeginBatch \/ EncodeDispatch \/ EndBatch
  \/ HostUpload \/ HostReadBack \/ HostRoll \/ HostStore \/ HostScale
  \/ HostGather \/ HostGamma \/ HostGscale \/ HostRoute \/ HostBlend \/ HostMup \/ HostLogits
  \/ GpuMap \/ GpuMatvec \/ GpuRouted \/ GpuConv \/ GpuBanded

PathsInit == ForwardGpuInit /\ path \in {"real", "tiny"}

PathsNext ==
  /\ UNCHANGED path
  /\ \/ path = "real" /\ ForwardGpuNext
     \/ path = "tiny" /\ TinyNext

PathsSpec == PathsInit /\ [][PathsNext]_<<forwardGpuVars, path>>
=============================================================================
