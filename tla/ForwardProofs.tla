---------------------------- MODULE ForwardProofs ----------------------------
(***************************************************************************)
(* The forward pass is right for every number of layers, kernel size,      *)
(* window and capacity, and for every way of cutting the text into chunks. *)
(* The argument: a convolution over its true history and true rows gives   *)
(* true rows and leaves the true history (SconvFollows); attention over a  *)
(* cache whose first cells are true and rows that are true gives true rows *)
(* (AttnFollows); so each half layer keeps ForwardIInv, and the logits of  *)
(* a chunk are those of its own positions.                                 *)
(*                                                                         *)
(* The loops that drive it (Generate) call it only with the next chunk of  *)
(* the text and with room for it (LoopsKeepContract), so that it keeps its *)
(* invariant under them, and theirs follows: the row a token is picked     *)
(* from answers for the last position read.                                *)
(*                                                                         *)
(* On the GPU the host runs ahead of the queue.  A program is a sequence   *)
(* of instructions, and Runs says of one that its host steps come where    *)
(* the queue is known to be quiet; it is put together as the programs are, *)
(* concatenation by concatenation, and holds of all that is left of a call *)
(* at any time (CallInv).                                                  *)
(*                                                                         *)
(* What a program makes of the arrays is put together in the same way.  A  *)
(* fact says of an array which frames its first rows are; each instruction *)
(* has a rule, the facts it needs and those it makes (Changes); and the    *)
(* programs of both paths lead, instruction by instruction, from caches    *)
(* that hold the text so far to caches that hold the chunk as well, and    *)
(* its logits (ProgramReaches, TinyProgramReaches).  That the steps of     *)
(* ForwardGpu do what the rules say is shown in ForwardGpuProofs.          *)
(***************************************************************************)
EXTENDS Generate, ForwardTiny, SequenceTheorems, Induction, TLAPS

\* The rows of the current chunk, as layer l should have them.
TrueRows(l, kind) == [t \in Rows |-> <<l, kind, start_pos + t>>]

\* The constants are numbers.
LEMMA Sizes == NumLayers \in Nat \ {0} /\ Km1 \in Nat /\ Window \in Nat \ {0}
                 /\ MaxCap \in Nat
BY ForwardAssumption DEF ForwardAssumption, Km1

USE Sizes

\* The concatenation of a stream's history and its next rows is a stretch of it.
LEMMA BufFollows ==
  ASSUME NEW l \in Layer, NEW kind,
         start_pos \in Nat, T \in Nat
  PROVE  Buf(HistoryOf(l, kind, start_pos), TrueRows(l, kind))
           = [j \in 0..Km1 + T - 1 |-> Frame(l, kind, start_pos - Km1 + j)]
<1> SUFFICES ASSUME NEW j \in 0..Km1 + T - 1
             PROVE  (IF j < Km1 THEN HistoryOf(l, kind, start_pos)[j]
                     ELSE TrueRows(l, kind)[j - Km1])
                      = Frame(l, kind, start_pos - Km1 + j)
  BY DEF Buf
<1>1. CASE j < Km1
  BY <1>1 DEF HistoryOf
<1>2. CASE ~(j < Km1)
  <2>1. j - Km1 \in Rows
    BY <1>2 DEF Rows
  <2>2. start_pos + (j - Km1) = start_pos - Km1 + j /\ ~(start_pos - Km1 + j < 0)
    BY <1>2
  <2> QED BY <1>2, <2>1, <2>2 DEF TrueRows, Frame
<1> QED BY <1>1, <1>2

\* sconv_apply on a stream's true history and its next rows: the window of every
\* row is the K rows that end at it, and the new history is the last K-1 rows.
LEMMA SconvFollows ==
  ASSUME NEW l \in Layer, NEW from, NEW to,
         start_pos \in Nat, T \in Nat
  PROVE  LET hist == HistoryOf(l, from, start_pos)
             in == TrueRows(l, from)
         IN  /\ SconvOut(l, from, to, hist, in) = TrueRows(l, to)
             /\ SconvHist(hist, in) = HistoryOf(l, from, start_pos + T)
<1> DEFINE hist == HistoryOf(l, from, start_pos)
           in == TrueRows(l, from)
<1>1. Buf(hist, in) = [j \in 0..Km1 + T - 1 |-> Frame(l, from, start_pos - Km1 + j)]
  BY BufFollows
<1>2. ASSUME NEW t \in Rows
      PROVE  (IF \A j \in 0..Km1 : Buf(hist, in)[t + j] = Frame(l, from, in[t][3] - Km1 + j)
              THEN Derive(l, from, to, in[t]) ELSE Bad) = <<l, to, start_pos + t>>
  <2>1. in[t] = <<l, from, start_pos + t>> /\ in[t][3] = start_pos + t
    BY DEF TrueRows
  <2>2. ASSUME NEW j \in 0..Km1
        PROVE  Buf(hist, in)[t + j] = Frame(l, from, in[t][3] - Km1 + j)
    <3>1. t + j \in 0..Km1 + T - 1
      BY DEF Rows
    <3>2. start_pos - Km1 + (t + j) = in[t][3] - Km1 + j
      BY <2>1 DEF Rows
    <3> QED BY <1>1, <3>1, <3>2
  <2>3. Derive(l, from, to, in[t]) = <<l, to, start_pos + t>>
    BY <2>1 DEF Derive, Frame, Rows
  <2> HIDE DEF hist, in
  <2> QED BY <2>2, <2>3
<1>3. SconvOut(l, from, to, hist, in) = TrueRows(l, to)
  <2> HIDE DEF hist, in
  <2> QED BY <1>2 DEF SconvOut, TrueRows
<1>4. ASSUME NEW j \in 0..Km1 - 1
      PROVE  Buf(hist, in)[T + j] = Frame(l, from, start_pos + T - Km1 + j)
  <2>1. T + j \in 0..Km1 + T - 1 /\ start_pos - Km1 + (T + j) = start_pos + T - Km1 + j
    OBVIOUS
  <2> HIDE DEF hist, in
  <2> QED BY <1>1, <2>1
<1>5. SconvHist(hist, in) = HistoryOf(l, from, start_pos + T)
  <2> HIDE DEF hist, in
  <2> QED BY <1>4 DEF SconvHist, HistoryOf
<1> QED BY <1>3, <1>5

\* After the memcpy the cells up to the end of the chunk are true.
LEMMA StoredFollows ==
  ASSUME NEW l \in Layer, NEW kind, NEW cells,
         start_pos \in Nat, T \in Nat, cap \in Nat,
         start_pos + T <= cap,
         \A cell \in 0..start_pos - 1 : cells[cell] = <<l, kind, cell>>
  PROVE  \A cell \in 0..start_pos + T - 1 :
           Stored(cells, TrueRows(l, kind))[cell] = <<l, kind, cell>>
<1> SUFFICES ASSUME NEW cell \in 0..start_pos + T - 1
             PROVE  Stored(cells, TrueRows(l, kind))[cell] = <<l, kind, cell>>
  OBVIOUS
<1>1. cell \in Cells
  BY DEF Cells
<1>2. CASE cell < start_pos
  <2>1. ~\E t \in Rows : CellOf(t) = cell
    BY <1>2 DEF Rows, CellOf
  <2>2. cells[cell] = <<l, kind, cell>>
    BY <1>2
  <2> QED BY <1>1, <2>1, <2>2 DEF Stored
<1>3. CASE ~(cell < start_pos)
  <2>1. cell - start_pos \in Rows /\ CellOf(cell - start_pos) = cell
    BY <1>3 DEF Rows, CellOf
  <2>2. PICK u \in Rows : u = (CHOOSE t \in Rows : CellOf(t) = cell) /\ CellOf(u) = cell
    BY <2>1
  <2>3. Stored(cells, TrueRows(l, kind))[cell] = TrueRows(l, kind)[u]
    BY <1>1, <2>1, <2>2 DEF Stored
  <2>4. start_pos + u = cell
    BY <2>2 DEF CellOf
  <2> QED BY <2>3, <2>4 DEF TrueRows
<1> QED BY <1>2, <1>3

\* The memcpy keeps the array an array of frames.
LEMMA StoredType ==
  ASSUME NEW cells \in [Cells -> Frames], NEW in \in [Rows -> Frames]
  PROVE  Stored(cells, in) \in [Cells -> Frames]
<1> SUFFICES ASSUME NEW cell \in Cells
             PROVE  (IF \E t \in Rows : CellOf(t) = cell
                     THEN in[CHOOSE t \in Rows : CellOf(t) = cell] ELSE cells[cell]) \in Frames
  BY DEF Stored
<1>1. CASE \E t \in Rows : CellOf(t) = cell
  <2>1. (CHOOSE t \in Rows : CellOf(t) = cell) \in Rows
    BY <1>1
  <2> QED BY <1>1, <2>1
<1> QED BY <1>1

\* The range of cells the attention loop reads is what the position attends to.
LEMMA SpanIsAttended ==
  ASSUME NEW l \in Layer, NEW p \in Nat
  PROVE  KvLo(l, p)..p = Attended(l, p) /\ KvLo(l, p) \in Nat
<1>1. CASE l \in Sliding
  BY <1>1 DEF KvLo, Attended
<1>2. CASE l \notin Sliding
  BY <1>2 DEF KvLo, Attended
<1> QED BY <1>1, <1>2

\* Attention over true cells and true rows gives true rows.
LEMMA AttnFollows ==
  ASSUME NEW l \in Layer, NEW k, NEW v,
         start_pos \in Nat, T \in Nat, cap \in Nat,
         start_pos + T <= cap,
         \A cell \in 0..start_pos + T - 1 : k[cell] = <<l, "ks", cell>> /\ v[cell] = <<l, "vs", cell>>
  PROVE  AttnOut(l, TrueRows(l, "q"), TrueRows(l, "r"), k, v) = TrueRows(l, "a")
<1>1. ASSUME NEW t \in Rows
      PROVE  /\ TrueRows(l, "q")[t] = <<l, "q", start_pos + t>>
             /\ TrueRows(l, "r")[t] = <<l, "r", start_pos + t>>
             /\ KvLo(l, start_pos + t)..(start_pos + t) = Attended(l, start_pos + t)
             /\ \A cell \in KvLo(l, start_pos + t)..(start_pos + t) :
                  cell \in Cells /\ k[cell] = <<l, "ks", cell>> /\ v[cell] = <<l, "vs", cell>>
  <2>1. start_pos + t \in Nat /\ start_pos + t < start_pos + T
    BY DEF Rows
  <2>2. KvLo(l, start_pos + t) \in Nat
        /\ KvLo(l, start_pos + t)..(start_pos + t) = Attended(l, start_pos + t)
    BY <2>1, SpanIsAttended
  <2>3. \A cell \in KvLo(l, start_pos + t)..(start_pos + t) :
          cell \in 0..start_pos + T - 1 /\ cell \in Cells
    BY <2>1, <2>2 DEF Cells
  <2> QED BY <2>2, <2>3 DEF TrueRows
<1>2. ASSUME NEW q, NEW r,
             \A t \in Rows :
               q[t] = <<l, "q", start_pos + t>> /\ r[t] = <<l, "r", start_pos + t>>
      PROVE  AttnOut(l, q, r, k, v) = [t \in Rows |-> <<l, "a", start_pos + t>>]
  BY <1>1, <1>2 DEF AttnOut
<1> QED BY <1>1, <1>2 DEF TrueRows

\* Adding a true branch to true rows gives the next true rows.
LEMMA ResidualFollows ==
  ASSUME NEW l, NEW from, NEW branch, NEW l2, NEW to,
         start_pos \in Nat, T \in Nat
  PROVE  [t \in Rows |-> Residual(l, from, branch, l2, to, TrueRows(l, from)[t],
                                  TrueRows(l, branch)[t])] = TrueRows(l2, to)
<1>1. ASSUME NEW t \in Rows
      PROVE  Residual(l, from, branch, l2, to, TrueRows(l, from)[t], TrueRows(l, branch)[t])
               = <<l2, to, start_pos + t>>
  BY DEF Residual, TrueRows
<1> QED BY <1>1 DEF TrueRows

\* A per-row operator on true rows gives true rows.
LEMMA DeriveFollows ==
  ASSUME NEW l, NEW from, NEW to, start_pos \in Nat, T \in Nat
  PROVE  [t \in Rows |-> Derive(l, from, to, TrueRows(l, from)[t])] = TrueRows(l, to)
<1>1. ASSUME NEW t \in Rows
      PROVE  Derive(l, from, to, TrueRows(l, from)[t]) = <<l, to, start_pos + t>>
  BY DEF Derive, TrueRows, Frame, Rows
<1> QED BY <1>1 DEF TrueRows

\* True rows are frames.
LEMMA TrueRowsType ==
  ASSUME NEW l \in 0..NumLayers, NEW kind \in Kinds, start_pos \in Nat, T \in Nat
  PROVE  TrueRows(l, kind) \in [Rows -> Frames]
<1>1. ASSUME NEW t \in Rows PROVE <<l, kind, start_pos + t>> \in Frames
  <2>1. start_pos + t \in Nat
    BY DEF Rows
  <2> QED BY <2>1 DEF Frames
<1> QED BY <1>1 DEF TrueRows

\* A true history holds frames.
LEMMA HistoryType ==
  ASSUME NEW l \in Layer, NEW kind \in Kinds, NEW n \in Nat
  PROVE  HistoryOf(l, kind, n) \in Hists
<1>1. ASSUME NEW j \in 0..Km1 - 1 PROVE Frame(l, kind, n - Km1 + j) \in Frames
  <2>1. CASE n - Km1 + j < 0
    BY <2>1 DEF Frame, Frames
  <2>2. CASE ~(n - Km1 + j < 0)
    <3>1. n - Km1 + j \in Nat
      BY <2>2
    <3>2. l \in 0..NumLayers
      BY DEF Layer
    <3> QED BY <2>2, <3>1, <3>2 DEF Frame, Frames
  <2> QED BY <2>1, <2>2
<1> QED BY <1>1 DEF HistoryOf, Hists

-----------------------------------------------------------------------------
(* The invariant is inductive.                                             *)

\* Before the first cache there is nothing to be wrong.
LEMMA ForwardInitial == ForwardInit => ForwardIInv
<1> SUFFICES ASSUME ForwardInit PROVE ForwardIInv
  OBVIOUS
<1>1. Rows = {}
  BY DEF ForwardInit, Rows
<1>2. x \in [Rows -> Frames]
  BY <1>1 DEF ForwardInit
<1>3. layer \in 0..NumLayers /\ cap \in 0..MaxCap /\ T \in Nat /\ start_pos \in Nat
  BY DEF ForwardInit
<1> QED BY <1>2, <1>3, Zenon DEF ForwardInit, ForwardIInv, ForwardTypeOK, HistoriesFollowText,
             CacheFollowsText, RowsFollowText, NeverOverruns

\* A new cache: zero histories, no cell that counts.
LEMMA CacheCreateKeeps ==
  ASSUME NEW n \in 0..MaxCap, ForwardIInv, CacheCreate(n)
  PROVE  ForwardIInv'
<1> USE DEF CacheCreate
<1>1. EmptyHist \in Hists
  BY DEF EmptyHist, Hists, Frames
<1>2. [cell \in 0..n - 1 |-> Zero] \in [Cells -> Frames]'
  BY DEF Cells, Frames
<1>3. Hists' = Hists /\ Frames' = Frames /\ Rows' = Rows /\ Layer' = Layer
  BY DEF Hists, Frames, Rows, Layer
<1>4. layers' \in [Layer -> LayerCache']
  BY <1>1, <1>2, <1>3 DEF LayerCache
<1>5. ForwardTypeOK'
  BY <1>3, <1>4 DEF ForwardIInv, ForwardTypeOK
<1>6. ASSUME NEW l \in Layer, NEW kind PROVE EmptyHist = HistoryOf(l, kind, 0)
  BY DEF EmptyHist, HistoryOf, Frame
<1>7. \A l \in Layer : AttnRead(l)' = 0 /\ MlpRead(l)' = 0
  BY DEF AttnRead, MlpRead, Layer
<1>8. HistoriesFollowText'
  BY <1>6, <1>7 DEF HistoriesFollowText
<1>9. CacheFollowsText'
  BY <1>7 DEF CacheFollowsText
<1> QED BY <1>5, <1>8, <1>9 DEF ForwardIInv, RowsFollowText, NeverOverruns

\* The chunk's rows are those of the positions after the cache's.
LEMMA NextChunkKeeps ==
  ASSUME NEW n \in 0..MaxCap, ForwardIInv, NextChunk(n)
  PROVE  ForwardIInv'
<1> USE DEF NextChunk, Forward
<1>1. 0 \in Layer /\ layers[0].len \in Nat /\ cap \in Nat
  BY DEF Layer, ForwardIInv, ForwardTypeOK, LayerCache
<1>2. ASSUME NEW t \in 0..n - 1
      PROVE  Embed([cell \in 0..n - 1 |-> layers[0].len + cell][t]) = <<0, "x", layers[0].len + t>>
  BY <1>1 DEF Embed
<1>3. ResidualAt(0, "x")'
  BY <1>2 DEF ResidualAt, Rows
<1>4. x' \in [Rows -> Frames]'
  <2>1. \A t \in 0..n - 1 : <<0, "x", layers[0].len + t>> \in Frames
    BY <1>1 DEF Frames, Kinds
  <2> QED BY <2>1, <1>3 DEF ResidualAt, Rows
<1>5. LayerCache' = LayerCache
  BY DEF LayerCache, Cells, Hists, Frames
<1>6. ForwardTypeOK'
  <2>1. layers' \in [Layer -> LayerCache']
    BY <1>5 DEF ForwardIInv, ForwardTypeOK
  <2>2. n \in Nat
    OBVIOUS
  <2>3. pc' = "attn" /\ cap' \in 0..MaxCap /\ T' \in Nat /\ start_pos' \in Nat
        /\ overrun' \in BOOLEAN /\ layer' \in Layer
    BY <1>1, <2>2, Zenon DEF ForwardIInv, ForwardTypeOK
  <2>4. layer' \in 0..NumLayers /\ Layer' = Layer
    BY <2>3 DEF Layer
  <2> QED BY <1>4, <2>1, <2>3, <2>4, Zenon DEF ForwardTypeOK
<1>7. \A l \in Layer : /\ AttnRead(l)' = layers[0].len /\ MlpRead(l)' = layers[0].len
                       /\ AttnRead(l) = layers[0].len /\ MlpRead(l) = layers[0].len
  BY DEF AttnRead, MlpRead, Layer
<1>8. HistoriesFollowText'
  BY <1>7 DEF ForwardIInv, HistoriesFollowText
<1>9. CacheFollowsText'
  BY <1>7 DEF ForwardIInv, CacheFollowsText
<1>10. RowsFollowText'
  BY <1>3 DEF RowsFollowText
<1> QED BY <1>6, <1>8, <1>9, <1>10 DEF ForwardIInv, NeverOverruns

\* What AttnHalf leaves in its own layer and in the residual stream.
LEMMA AttnHalfResult ==
  ASSUME ForwardIInv, AttnHalf
  PROVE  /\ x' = TrueRows(layer, "h")
         /\ \E k \in [Cells -> Frames], v \in [Cells -> Frames] :
              /\ \A cell \in 0..start_pos + T - 1 :
                   k[cell] = <<layer, "ks", cell>> /\ v[cell] = <<layer, "vs", cell>>
              /\ layers' = [layers EXCEPT ![layer] =
                   [len |-> start_pos + T, k |-> k, v |-> v,
                    k_hist |-> HistoryOf(layer, "k", start_pos + T),
                    v_hist |-> HistoryOf(layer, "v", start_pos + T),
                    attn_hist |-> HistoryOf(layer, "a", start_pos + T),
                    mlp_hist |-> layers[layer].mlp_hist]]
<1> DEFINE l == layer
           c == layers[l]
           k == Stored(c.k, TrueRows(l, "ks"))
           v == Stored(c.v, TrueRows(l, "vs"))
<1>1. l \in Layer /\ pc = "attn" /\ start_pos \in Nat /\ T \in Nat /\ cap \in Nat
      /\ c \in LayerCache /\ start_pos + T <= cap /\ x = TrueRows(l, "x")
  BY DEF AttnHalf, ForwardIInv, ForwardTypeOK, RowsFollowText, ResidualAt, TrueRows
<1>2. AttnRead(l) = start_pos
  BY <1>1 DEF AttnRead, Layer
<1>3. /\ c.k_hist = HistoryOf(l, "k", start_pos)
      /\ c.v_hist = HistoryOf(l, "v", start_pos)
      /\ c.attn_hist = HistoryOf(l, "a", start_pos)
  BY <1>1, <1>2 DEF ForwardIInv, HistoriesFollowText
<1>4. c.len = start_pos
      /\ \A cell \in 0..start_pos - 1 : c.k[cell] = <<l, "ks", cell>> /\ c.v[cell] = <<l, "vs", cell>>
  BY <1>1, <1>2 DEF ForwardIInv, CacheFollowsText
<1>5. /\ [t \in Rows |-> Derive(l, "x", "k", x[t])] = TrueRows(l, "k")
      /\ [t \in Rows |-> Derive(l, "x", "v", x[t])] = TrueRows(l, "v")
      /\ [t \in Rows |-> Derive(l, "x", "q", x[t])] = TrueRows(l, "q")
      /\ [t \in Rows |-> Derive(l, "x", "r", x[t])] = TrueRows(l, "r")
  BY <1>1, DeriveFollows
<1>6. /\ SconvOut(l, "k", "ks", c.k_hist, TrueRows(l, "k")) = TrueRows(l, "ks")
      /\ SconvHist(c.k_hist, TrueRows(l, "k")) = HistoryOf(l, "k", start_pos + T)
  BY <1>1, <1>3, SconvFollows
<1>7. /\ SconvOut(l, "v", "vs", c.v_hist, TrueRows(l, "v")) = TrueRows(l, "vs")
      /\ SconvHist(c.v_hist, TrueRows(l, "v")) = HistoryOf(l, "v", start_pos + T)
  BY <1>1, <1>3, SconvFollows
<1>8. /\ SconvOut(l, "a", "as", c.attn_hist, TrueRows(l, "a")) = TrueRows(l, "as")
      /\ SconvHist(c.attn_hist, TrueRows(l, "a")) = HistoryOf(l, "a", start_pos + T)
  BY <1>1, <1>3, SconvFollows
<1>9. \A cell \in 0..start_pos + T - 1 : k[cell] = <<l, "ks", cell>> /\ v[cell] = <<l, "vs", cell>>
  <2>1. \A cell \in 0..start_pos + T - 1 : k[cell] = <<l, "ks", cell>>
    BY <1>1, <1>4, StoredFollows
  <2>2. \A cell \in 0..start_pos + T - 1 : v[cell] = <<l, "vs", cell>>
    BY <1>1, <1>4, StoredFollows
  <2> QED BY <2>1, <2>2
<1>10. AttnOut(l, TrueRows(l, "q"), TrueRows(l, "r"), k, v) = TrueRows(l, "a")
  <2> HIDE DEF k, v
  <2> QED BY <1>1, <1>9, AttnFollows
<1>11. k \in [Cells -> Frames] /\ v \in [Cells -> Frames]
  <2>1. l \in 0..NumLayers
    BY <1>1 DEF Layer
  <2>2. TrueRows(l, "ks") \in [Rows -> Frames] /\ TrueRows(l, "vs") \in [Rows -> Frames]
    BY <1>1, <2>1, TrueRowsType DEF Kinds
  <2>3. c.k \in [Cells -> Frames] /\ c.v \in [Cells -> Frames]
    BY <1>1 DEF LayerCache
  <2> QED BY <2>2, <2>3, StoredType
<1>12. (IF start_pos + T > c.len THEN start_pos + T ELSE c.len) = start_pos + T
  BY <1>1, <1>4
<1>13. [t \in Rows |-> Residual(l, "x", "as", l, "h", TrueRows(l, "x")[t],
                               TrueRows(l, "as")[t])] = TrueRows(l, "h")
  BY <1>1, ResidualFollows
<1>14. x' = TrueRows(l, "h")
  <2>1. x' = [t \in Rows |-> Residual(l, "x", "as", l, "h", x[t], TrueRows(l, "as")[t])]
    BY <1>5, <1>6, <1>7, <1>8, <1>10, ZenonT(60) DEF AttnHalf
  <2> QED BY <1>1, <1>13, <2>1
<1>15. layers' = [layers EXCEPT ![l] =
                   [len |-> start_pos + T, k |-> k, v |-> v,
                    k_hist |-> HistoryOf(l, "k", start_pos + T),
                    v_hist |-> HistoryOf(l, "v", start_pos + T),
                    attn_hist |-> HistoryOf(l, "a", start_pos + T),
                    mlp_hist |-> c.mlp_hist]]
  BY <1>1, <1>5, <1>6, <1>7, <1>8, <1>10, <1>12, Zenon DEF AttnHalf
<1> HIDE DEF k, v
<1> QED BY <1>9, <1>11, <1>14, <1>15

\* The attention half keeps the invariant.
LEMMA AttnHalfKeeps ==
  ASSUME ForwardIInv, AttnHalf
  PROVE  ForwardIInv'
<1>1. /\ layer \in Layer /\ pc = "attn" /\ pc' = "mlp" /\ layer' = layer
      /\ start_pos \in Nat /\ T \in Nat /\ cap \in Nat /\ start_pos + T <= cap
      /\ UNCHANGED <<cap, T, start_pos>>
      /\ layers \in [Layer -> LayerCache]
  BY DEF AttnHalf, ForwardIInv, ForwardTypeOK, RowsFollowText
<1>2. /\ Rows' = Rows /\ Cells' = Cells /\ LayerCache' = LayerCache
      /\ x' = TrueRows(layer, "h")
      /\ overrun' = FALSE
  <2>1. Rows' = Rows /\ Cells' = Cells /\ LayerCache' = LayerCache
    BY <1>1 DEF Rows, Cells, LayerCache, Hists, Frames
  <2>2. ~(start_pos + T > cap)
    BY <1>1
  <2>3. overrun = FALSE
    BY DEF ForwardIInv, ForwardTypeOK, NeverOverruns
  <2>4. overrun' = FALSE
    BY <2>2, <2>3, Zenon DEF AttnHalf
  <2> QED BY <2>1, <2>4, AttnHalfResult
<1>3. PICK k \in [Cells -> Frames], v \in [Cells -> Frames] :
        /\ \A cell \in 0..start_pos + T - 1 :
             k[cell] = <<layer, "ks", cell>> /\ v[cell] = <<layer, "vs", cell>>
        /\ layers' = [layers EXCEPT ![layer] =
             [len |-> start_pos + T, k |-> k, v |-> v,
              k_hist |-> HistoryOf(layer, "k", start_pos + T),
              v_hist |-> HistoryOf(layer, "v", start_pos + T),
              attn_hist |-> HistoryOf(layer, "a", start_pos + T),
              mlp_hist |-> layers[layer].mlp_hist]]
  BY AttnHalfResult
<1>4. ForwardTypeOK'
  <2>1. start_pos + T \in Nat /\ layers[layer].mlp_hist \in Hists
    BY <1>1 DEF LayerCache
  <2>2. /\ HistoryOf(layer, "k", start_pos + T) \in Hists
        /\ HistoryOf(layer, "v", start_pos + T) \in Hists
        /\ HistoryOf(layer, "a", start_pos + T) \in Hists
    BY <1>1, <2>1, HistoryType DEF Kinds
  <2>3. layers' \in [Layer -> LayerCache]
    BY <1>1, <1>3, <2>1, <2>2 DEF LayerCache
  <2>4. x' \in [Rows -> Frames] /\ layer \in 0..NumLayers
    BY <1>1, <1>2, TrueRowsType DEF Kinds, Layer
  <2> QED BY <1>1, <1>2, <2>3, <2>4 DEF ForwardIInv, ForwardTypeOK, Layer
<1>5. ASSUME NEW l \in Layer
      PROVE  /\ AttnRead(l)' = IF l = layer THEN start_pos + T ELSE AttnRead(l)
             /\ MlpRead(l)' = MlpRead(l)
             /\ l # layer => layers'[l] = layers[l]
             /\ layers'[l].mlp_hist = layers[l].mlp_hist
  <2>1. layer' = layer /\ start_pos' = start_pos /\ T' = T /\ pc' = "mlp" /\ pc = "attn"
    BY <1>1
  <2>2. l \in Int /\ layer \in Int
    BY <1>1 DEF Layer
  <2>3. AttnRead(l)' = IF l = layer THEN start_pos + T ELSE AttnRead(l)
    BY <2>1, <2>2 DEF AttnRead
  <2>4. MlpRead(l)' = MlpRead(l)
    BY <2>1 DEF MlpRead
  <2> QED BY <1>1, <1>3, <2>3, <2>4
<1>6. HistoriesFollowText'
  <2> SUFFICES ASSUME NEW l \in Layer
               PROVE  /\ layers'[l].k_hist = HistoryOf(l, "k", AttnRead(l)')
                      /\ layers'[l].v_hist = HistoryOf(l, "v", AttnRead(l)')
                      /\ layers'[l].attn_hist = HistoryOf(l, "a", AttnRead(l)')
                      /\ layers'[l].mlp_hist = HistoryOf(l, "m", MlpRead(l)')
    BY DEF HistoriesFollowText, Layer, HistoryOf, Km1, Frame, Zero
  <2>1. layers[l].mlp_hist = HistoryOf(l, "m", MlpRead(l))
    BY <1>1 DEF ForwardIInv, HistoriesFollowText
  <2>2. CASE l = layer
    BY <1>1, <1>3, <1>5, <2>1, <2>2
  <2>3. CASE l # layer
    <3>1. /\ layers[l].k_hist = HistoryOf(l, "k", AttnRead(l))
          /\ layers[l].v_hist = HistoryOf(l, "v", AttnRead(l))
          /\ layers[l].attn_hist = HistoryOf(l, "a", AttnRead(l))
      BY <1>1 DEF ForwardIInv, HistoriesFollowText
    <3> QED BY <1>5, <2>1, <2>3, <3>1
  <2> QED BY <2>2, <2>3
<1>7. CacheFollowsText'
  <2> SUFFICES ASSUME NEW l \in Layer
               PROVE  /\ layers'[l].len = AttnRead(l)'
                      /\ AttnRead(l)' <= cap
                      /\ \A p \in 0..AttnRead(l)' - 1 :
                           layers'[l].k[p] = <<l, "ks", p>> /\ layers'[l].v[p] = <<l, "vs", p>>
    BY <1>1 DEF CacheFollowsText, Layer
  <2>1. CASE l = layer
    BY <1>1, <1>3, <1>5, <2>1
  <2>2. CASE l # layer
    <3>1. /\ layers[l].len = AttnRead(l)
          /\ AttnRead(l) <= cap
          /\ \A p \in 0..AttnRead(l) - 1 :
               layers[l].k[p] = <<l, "ks", p>> /\ layers[l].v[p] = <<l, "vs", p>>
      BY <1>1 DEF ForwardIInv, CacheFollowsText
    <3> QED BY <1>5, <2>2, <3>1
  <2> QED BY <2>1, <2>2
<1>8. RowsFollowText'
  BY <1>1, <1>2 DEF RowsFollowText, ResidualAt, TrueRows
<1>9. NeverOverruns'
  BY <1>1, <1>2 DEF ForwardIInv, NeverOverruns
<1> QED BY <1>4, <1>6, <1>7, <1>8, <1>9 DEF ForwardIInv

\* The FFN half keeps the invariant.
LEMMA MlpHalfKeeps ==
  ASSUME ForwardIInv, MlpHalf
  PROVE  ForwardIInv'
<1> DEFINE c == layers[layer]
<1>1. /\ layer \in Layer /\ pc = "mlp" /\ layer' = layer + 1
      /\ start_pos \in Nat /\ T \in Nat /\ cap \in Nat /\ start_pos + T <= cap
      /\ UNCHANGED <<cap, overrun, T, start_pos>>
      /\ layers \in [Layer -> LayerCache] /\ x = TrueRows(layer, "h")
      /\ pc' = (IF layer + 1 < NumLayers THEN "attn" ELSE "logits")
  BY DEF MlpHalf, AfterLayer, ForwardIInv, ForwardTypeOK, RowsFollowText, ResidualAt, TrueRows
<1>2. c.mlp_hist = HistoryOf(layer, "m", start_pos)
  BY <1>1 DEF ForwardIInv, HistoriesFollowText, MlpRead, Layer
<1>3. [t \in Rows |-> Derive(layer, "h", "m", x[t])] = TrueRows(layer, "m")
  BY <1>1, DeriveFollows
<1>4. /\ SconvOut(layer, "m", "ms", c.mlp_hist, TrueRows(layer, "m")) = TrueRows(layer, "ms")
      /\ SconvHist(c.mlp_hist, TrueRows(layer, "m")) = HistoryOf(layer, "m", start_pos + T)
  BY <1>1, <1>2, SconvFollows
<1>5. x' = TrueRows(layer + 1, "x")
  <2>1. x' = [t \in Rows |-> Residual(layer, "h", "ms", layer + 1, "x", x[t],
                                     TrueRows(layer, "ms")[t])]
    BY <1>3, <1>4, Zenon DEF MlpHalf
  <2>2. [t \in Rows |-> Residual(layer, "h", "ms", layer + 1, "x", TrueRows(layer, "h")[t],
                                TrueRows(layer, "ms")[t])] = TrueRows(layer + 1, "x")
    BY <1>1, ResidualFollows
  <2> QED BY <1>1, <2>1, <2>2
<1>6. layers' = [layers EXCEPT ![layer] =
                   [c EXCEPT !.mlp_hist = HistoryOf(layer, "m", start_pos + T)]]
  BY <1>3, <1>4, Zenon DEF MlpHalf
<1> HIDE DEF c
<1>7. c \in LayerCache /\ c = layers[layer]
  BY <1>1 DEF c
<1>8. ForwardTypeOK'
  <2>1. HistoryOf(layer, "m", start_pos + T) \in Hists
    <3>1. start_pos + T \in Nat
      BY <1>1
    <3> QED BY <1>1, <3>1, HistoryType DEF Kinds
  <2>2. layers' \in [Layer -> LayerCache]
    BY <1>1, <1>6, <1>7, <2>1 DEF LayerCache
  <2>3. layer + 1 \in 0..NumLayers /\ (layer + 1 < NumLayers => layer + 1 \in Layer)
    BY <1>1 DEF Layer
  <2>4. x' \in [Rows -> Frames]
    BY <1>1, <1>5, <2>3, TrueRowsType DEF Kinds
  <2>5. Rows' = Rows /\ LayerCache' = LayerCache
    BY <1>1 DEF Rows, LayerCache, Cells, Hists, Frames
  <2> QED BY <1>1, <2>2, <2>3, <2>4, <2>5 DEF ForwardIInv, ForwardTypeOK, Layer
<1>9. ASSUME NEW l \in Layer
      PROVE  /\ AttnRead(l)' = AttnRead(l)
             /\ MlpRead(l)' = IF l = layer THEN start_pos + T ELSE MlpRead(l)
             /\ l # layer => layers'[l] = layers[l]
             /\ l = layer => layers'[l].mlp_hist = HistoryOf(layer, "m", start_pos + T)
             /\ layers'[l].k = layers[l].k /\ layers'[l].v = layers[l].v
             /\ layers'[l].k_hist = layers[l].k_hist /\ layers'[l].v_hist = layers[l].v_hist
             /\ layers'[l].attn_hist = layers[l].attn_hist /\ layers'[l].len = layers[l].len
  <2>1. l \in Int /\ layer \in Int
    BY <1>1 DEF Layer
  <2>2. pc' # "idle" /\ pc' # "mlp"
    BY <1>1
  <2>3. AttnRead(l)' = AttnRead(l)
    BY <1>1, <2>1, <2>2 DEF AttnRead
  <2>4. MlpRead(l)' = IF l = layer THEN start_pos + T ELSE MlpRead(l)
    BY <1>1, <2>1, <2>2 DEF MlpRead
  <2>5. CASE l = layer
    BY <1>1, <1>6, <1>7, <2>3, <2>4, <2>5 DEF LayerCache
  <2>6. CASE l # layer
    BY <1>1, <1>6, <2>3, <2>4, <2>6
  <2> QED BY <2>5, <2>6
<1>10. HistoriesFollowText'
  <2> SUFFICES ASSUME NEW l \in Layer
               PROVE  /\ layers'[l].k_hist = HistoryOf(l, "k", AttnRead(l)')
                      /\ layers'[l].v_hist = HistoryOf(l, "v", AttnRead(l)')
                      /\ layers'[l].attn_hist = HistoryOf(l, "a", AttnRead(l)')
                      /\ layers'[l].mlp_hist = HistoryOf(l, "m", MlpRead(l)')
    BY DEF HistoriesFollowText, Layer, HistoryOf, Km1, Frame, Zero
  <2>1. /\ layers[l].k_hist = HistoryOf(l, "k", AttnRead(l))
        /\ layers[l].v_hist = HistoryOf(l, "v", AttnRead(l))
        /\ layers[l].attn_hist = HistoryOf(l, "a", AttnRead(l))
        /\ layers[l].mlp_hist = HistoryOf(l, "m", MlpRead(l))
    BY <1>1 DEF ForwardIInv, HistoriesFollowText
  <2> QED BY <1>9, <2>1
<1>11. CacheFollowsText'
  <2> SUFFICES ASSUME NEW l \in Layer
               PROVE  /\ layers'[l].len = AttnRead(l)'
                      /\ AttnRead(l)' <= cap
                      /\ \A p \in 0..AttnRead(l)' - 1 :
                           layers'[l].k[p] = <<l, "ks", p>> /\ layers'[l].v[p] = <<l, "vs", p>>
    BY <1>1 DEF CacheFollowsText, Layer
  <2>1. /\ layers[l].len = AttnRead(l)
        /\ AttnRead(l) <= cap
        /\ \A p \in 0..AttnRead(l) - 1 :
             layers[l].k[p] = <<l, "ks", p>> /\ layers[l].v[p] = <<l, "vs", p>>
    BY <1>1 DEF ForwardIInv, CacheFollowsText
  <2> QED BY <1>9, <2>1
<1>12. RowsFollowText'
  <2>1. layer + 1 < NumLayers \/ layer + 1 = NumLayers
    BY <1>1 DEF Layer
  <2>2. ResidualAt(layer, "x")'
    BY <1>1, <1>5 DEF ResidualAt, TrueRows, Rows
  <2> QED BY <1>1, <2>1, <2>2 DEF RowsFollowText
<1>13. NeverOverruns'
  BY <1>1 DEF ForwardIInv, NeverOverruns
<1> QED BY <1>8, <1>10, <1>11, <1>12, <1>13 DEF ForwardIInv

\* Between calls the invariant is that of the finished chunk.
LEMMA LogitsKeeps ==
  ASSUME ForwardIInv, Logits
  PROVE  ForwardIInv'
<1>1. /\ pc = "logits" /\ pc' = "idle" /\ layer = NumLayers
      /\ start_pos \in Nat /\ T \in Nat /\ cap \in Nat /\ start_pos + T <= cap
      /\ UNCHANGED <<cap, layers, overrun, T, start_pos, layer, x>>
  BY DEF Logits, ForwardIInv, ForwardTypeOK, RowsFollowText
<1>2. \A l \in Layer : AttnRead(l) = start_pos + T /\ MlpRead(l) = start_pos + T
  BY <1>1 DEF AttnRead, MlpRead, Layer
<1>3. layers[0].len = start_pos + T
  BY <1>1, <1>2 DEF ForwardIInv, CacheFollowsText, Layer
<1>4. \A l \in Layer : AttnRead(l)' = AttnRead(l) /\ MlpRead(l)' = MlpRead(l)
  BY <1>1, <1>2, <1>3 DEF AttnRead, MlpRead
<1>5. ForwardTypeOK'
  <2>1. Rows' = Rows /\ LayerCache' = LayerCache
    BY <1>1 DEF Rows, LayerCache, Cells, Hists, Frames
  <2> QED BY <1>1, <2>1 DEF ForwardIInv, ForwardTypeOK
<1>6. HistoriesFollowText'
  BY <1>1, <1>4 DEF ForwardIInv, HistoriesFollowText
<1>7. CacheFollowsText'
  BY <1>1, <1>4 DEF ForwardIInv, CacheFollowsText
<1> QED BY <1>1, <1>5, <1>6, <1>7 DEF ForwardIInv, RowsFollowText, NeverOverruns

\* Without a cache nothing is claimed of it.
LEMMA CacheFreeKeeps ==
  ASSUME ForwardIInv, CacheFree
  PROVE  ForwardIInv'
<1>1. Rows' = Rows
  BY DEF CacheFree, Rows
<1> QED BY <1>1 DEF CacheFree, ForwardIInv, ForwardTypeOK, HistoriesFollowText,
             CacheFollowsText, RowsFollowText, NeverOverruns

\* A step that changes nothing.
LEMMA ForwardStutterKeeps ==
  ASSUME ForwardIInv, UNCHANGED forwardVars
  PROVE  ForwardIInv'
<1>1. \A l \in Layer : AttnRead(l)' = AttnRead(l) /\ MlpRead(l)' = MlpRead(l)
  BY DEF forwardVars, AttnRead, MlpRead
<1>2. Rows' = Rows /\ LayerCache' = LayerCache
  BY DEF forwardVars, Rows, LayerCache, Cells, Hists, Frames
<1>3. ForwardTypeOK'
  BY <1>2 DEF forwardVars, ForwardIInv, ForwardTypeOK
<1>4. HistoriesFollowText' /\ CacheFollowsText'
  BY <1>1 DEF forwardVars, ForwardIInv, HistoriesFollowText, CacheFollowsText
<1> QED BY <1>2, <1>3, <1>4 DEF forwardVars, ForwardIInv, RowsFollowText, ResidualAt, NeverOverruns

\* Every step of a forward pass keeps the invariant.
LEMMA ForwardStepKeeps == ForwardIInv /\ [ForwardNext]_forwardVars => ForwardIInv'
<1> SUFFICES ASSUME ForwardIInv, [ForwardNext]_forwardVars PROVE ForwardIInv'
  OBVIOUS
<1>1. ASSUME NEW n \in 0..MaxCap, CacheCreate(n) PROVE ForwardIInv'
  BY <1>1, CacheCreateKeeps
<1>2. ASSUME NEW n \in 0..MaxCap, NextChunk(n) PROVE ForwardIInv'
  BY <1>2, NextChunkKeeps
<1>3. CASE CacheFree
  BY <1>3, CacheFreeKeeps
<1>4. CASE AttnHalf
  BY <1>4, AttnHalfKeeps
<1>5. CASE MlpHalf
  BY <1>5, MlpHalfKeeps
<1>6. CASE Logits
  BY <1>6, LogitsKeeps
<1>7. CASE UNCHANGED forwardVars
  BY <1>7, ForwardStutterKeeps
<1> QED BY <1>1, <1>2, <1>3, <1>4, <1>5, <1>6, <1>7 DEF ForwardNext, Layers

\* The inductive invariant, for every layer count, kernel size, window and
\* capacity, and for every way of cutting the text into chunks.
THEOREM ForwardInvariant == ForwardSpec => []ForwardIInv
<1>1. ForwardInit => ForwardIInv
  BY ForwardInitial
<1>2. ForwardIInv /\ [ForwardNext]_forwardVars => ForwardIInv'
  BY ForwardStepKeeps
<1> QED BY <1>1, <1>2, PTL DEF ForwardSpec

\* sconv_apply leaves every history with the last K-1 rows of its stream, even
\* when a chunk is shorter than that.
THEOREM ForwardHistories == ForwardSpec => []HistoriesFollowText
<1>1. ForwardIInv => HistoriesFollowText
  BY DEF ForwardIInv
<1> QED BY <1>1, ForwardInvariant, PTL

\* attn_forward_chunk leaves in cell p the key and value of position p.
THEOREM ForwardCache == ForwardSpec => []CacheFollowsText
<1>1. ForwardIInv => CacheFollowsText
  BY DEF ForwardIInv
<1> QED BY <1>1, ForwardInvariant, PTL

\* The logits of a chunk's rows are those of its own positions: a chunk of many
\* tokens and the same tokens one at a time give the same rows.
THEOREM ForwardComputesText == ForwardSpec => ComputesText
<1>1. ForwardInit => Text!TextInit
  BY DEF ForwardInit, Text!TextInit, Text!Closed
<1>2. ForwardIInv /\ [ForwardNext]_forwardVars => [Text!TextNext]_(Text!textVars)
  <2> SUFFICES ASSUME ForwardIInv, [ForwardNext]_forwardVars
               PROVE  Text!TextNext \/ UNCHANGED Text!textVars
    OBVIOUS
  <2>1. ASSUME NEW n \in 0..MaxCap, CacheCreate(n) PROVE Text!Open
    BY <2>1 DEF CacheCreate, Text!Open, Layer
  <2>2. ASSUME NEW n \in 0..MaxCap, NextChunk(n) PROVE UNCHANGED Text!textVars
    BY <2>2 DEF NextChunk, Forward, Text!textVars
  <2>3. CASE CacheFree
    BY <2>3 DEF CacheFree, Text!Close, Text!Closed, Text!TextNext
  <2>4. CASE AttnHalf
    BY <2>4 DEF AttnHalf, Text!textVars
  <2>5. CASE MlpHalf
    BY <2>5 DEF MlpHalf, AfterLayer, Text!textVars
  <2>6. CASE Logits
    <3>1. /\ pc = "logits" /\ pc' = "idle" /\ layer = NumLayers
          /\ start_pos \in Nat /\ T \in Nat /\ cap \in 0..MaxCap /\ start_pos + T <= cap
          /\ layers' = layers /\ x = TrueRows(NumLayers, "x")
          /\ logits' = [t \in Rows |-> Unembed(x[t])]
      BY <2>6 DEF Logits, ForwardIInv, ForwardTypeOK, RowsFollowText, ResidualAt, TrueRows
    <3>2. layers[0].len = start_pos + T
      BY <3>1 DEF ForwardIInv, CacheFollowsText, AttnRead, Layer
    <3>3. logits' = [t \in 0..T - 1 |-> start_pos + t]
      <4>1. ASSUME NEW t \in Rows PROVE Unembed(x[t]) = start_pos + t
        <5>1. start_pos + t \in Nat
          BY <3>1 DEF Rows
        <5> QED BY <3>1, <5>1 DEF Unembed, Frame, TrueRows
      <4> QED BY <3>1, <4>1 DEF Rows
    <3>4. T \in 0..MaxCap /\ Text!Read(T)
      BY <3>1, <3>2, <3>3 DEF Text!Read, Text!Closed
    <3> QED BY <3>1, <3>4 DEF Text!TextNext
  <2>7. CASE UNCHANGED forwardVars
    BY <2>7 DEF forwardVars, Text!textVars
  <2> QED BY <2>1, <2>2, <2>3, <2>4, <2>5, <2>6, <2>7 DEF ForwardNext, Layers, Text!TextNext
<1> QED BY <1>1, <1>2, ForwardInvariant, PTL DEF ForwardSpec, ComputesText

-----------------------------------------------------------------------------
(* The loops that drive a forward pass.                                    *)

\* Inductive for the loops: the forward pass's invariant and their own.
GenerateIInv == ForwardIInv /\ GenerateInv

\* The bounds are numbers, and a cache has room for all that a loop can read.
LEMMA LoopSizes ==
  ASSUME LoopTypeOK
  PROVE  /\ n_prompt \in Nat \ {0} /\ n_gen \in Nat /\ pos \in Nat /\ i \in Nat
         /\ run \in Nat /\ n_repeat \in Nat /\ FullLen \in Nat
         /\ Cap \in 0..MaxCap /\ n_prompt <= Cap /\ LoopLimit \in 0..n_gen
         /\ n_prompt + LoopLimit <= Cap
         /\ mode = "self_test" => Cap = FullLen
<1>1. /\ MaxPrompt \in Nat /\ MaxGen \in Nat /\ MaxRepeat \in Nat
      /\ MaxPrompt + MaxGen + 8 <= MaxCap
  BY GenerateAssumption DEF GenerateAssumption
<1>2. /\ n_prompt \in 1..MaxPrompt /\ n_gen \in 0..MaxGen /\ n_repeat \in 1..MaxRepeat
      /\ run \in 0..n_repeat /\ i \in 0..n_gen /\ pos \in Nat
      /\ mode \in {"self_test", "generate", "logits_only"}
  BY DEF LoopTypeOK
<1> QED BY <1>1, <1>2 DEF Cap, FullLen, LoopLimit

\* The logits of a chunk's rows are named by its positions.
LEMMA LogitsRows ==
  ASSUME ForwardIInv, Logits
  PROVE  /\ logits' = [t \in 0..T - 1 |-> start_pos + t]
         /\ layers'[0].len = start_pos + T
<1>1. /\ pc = "logits" /\ pc' = "idle" /\ layer = NumLayers
      /\ start_pos \in Nat /\ T \in Nat
      /\ layers' = layers /\ x = TrueRows(NumLayers, "x")
      /\ logits' = [t \in Rows |-> Unembed(x[t])]
  BY DEF Logits, ForwardIInv, ForwardTypeOK, RowsFollowText, ResidualAt, TrueRows
<1>2. layers[0].len = start_pos + T
  BY <1>1 DEF ForwardIInv, CacheFollowsText, AttnRead, Layer
<1>3. ASSUME NEW t \in Rows PROVE Unembed(x[t]) = start_pos + t
  <2>1. start_pos + t \in Nat
    BY <1>1 DEF Rows
  <2> QED BY <1>1, <2>1 DEF Unembed, Frame, TrueRows
<1> QED BY <1>1, <1>2, <1>3 DEF Rows

\* The token after a position.
LEMMA ArgmaxNext == ASSUME NEW p \in Nat PROVE Argmax(p) = p + 1
BY DEF Argmax, BadToken

\* A loop's call is the next chunk of the text: it starts where the cache ends, its
\* tokens are those of its positions, and there is room.
LEMMA CallIsNextChunk ==
  ASSUME NEW n \in 0..MaxCap, NEW s \in Nat, NEW ids,
         layers[0].len = s, s + n <= cap,
         ids = [t \in 0..n - 1 |-> s + t], Forward(ids, n, s)
  PROVE  NextChunk(n)
BY DEF NextChunk, Forward

\* The teacher-forced pass reads the whole text.
LEMMA TeacherForceCalls ==
  ASSUME GenerateIInv, TeacherForce
  PROVE  NextChunk(FullLen) /\ FullLen \in 0..MaxCap /\ mode = "self_test"
<1>1. LoopTypeOK /\ PlaceInv
  BY DEF GenerateIInv, GenerateInv, TypeOK, LoopInv
<1>2. at = "teacher" /\ pc = "idle" /\ Forward(FirstTokens(FullLen), FullLen, 0)
  BY DEF TeacherForce, Drive, Forward
<1>3. layers[0].len = 0 /\ cap = Cap /\ mode = "self_test"
  BY <1>1, <1>2 DEF PlaceInv
<1>4. FullLen \in 0..MaxCap /\ 0 + FullLen <= cap
  BY <1>1, <1>3, LoopSizes
<1>5. FirstTokens(FullLen) = [t \in 0..FullLen - 1 |-> 0 + t]
  BY DEF FirstTokens
<1> QED BY <1>2, <1>3, <1>4, <1>5, CallIsNextChunk

\* The prefill reads the prompt.
LEMMA PrefillCalls ==
  ASSUME GenerateIInv, Prefill
  PROVE  NextChunk(n_prompt) /\ n_prompt \in 0..MaxCap
<1>1. LoopTypeOK /\ PlaceInv
  BY DEF GenerateIInv, GenerateInv, TypeOK, LoopInv
<1>2. at = "prompt" /\ pc = "idle" /\ Forward(FirstTokens(n_prompt), n_prompt, 0)
  BY DEF Prefill, Drive, Forward
<1>3. layers[0].len = 0 /\ cap = Cap
  BY <1>1, <1>2 DEF PlaceInv
<1>4. n_prompt \in 0..MaxCap /\ 0 + n_prompt <= cap
  BY <1>1, <1>3, LoopSizes
<1>5. FirstTokens(n_prompt) = [t \in 0..n_prompt - 1 |-> 0 + t]
  BY DEF FirstTokens
<1> QED BY <1>2, <1>3, <1>4, <1>5, CallIsNextChunk

\* A turn of the decode loop prints the token of the next position, and reads it.
LEMMA PickCalls ==
  ASSUME GenerateIInv, Pick
  PROVE  NextChunk(1) /\ 1 \in 0..MaxCap /\ Argmax(cur) = pos
<1>1. LoopTypeOK /\ PlaceInv
  BY DEF GenerateIInv, GenerateInv, TypeOK, LoopInv
<1>2. at = "pick" /\ i < LoopLimit /\ Forward([t \in {0} |-> Argmax(cur)], 1, pos)
  BY DEF Pick, Drive
<1>3. /\ layers[0].len = pos /\ pc = "idle" /\ cap = Cap
      /\ cur = pos - 1 /\ pos = n_prompt + i
  BY <1>1, <1>2 DEF PlaceInv, Looping
<1>4. pos - 1 \in Nat /\ pos \in Nat /\ pos + 1 <= cap /\ 1 \in 0..MaxCap
  BY <1>1, <1>2, <1>3, LoopSizes
<1>5. Argmax(cur) = pos
  BY <1>3, <1>4, ArgmaxNext
<1>6. [t \in {0} |-> Argmax(cur)] = [t \in 0..1 - 1 |-> pos + t]
  BY <1>4, <1>5
<1> QED BY <1>2, <1>3, <1>4, <1>5, <1>6, CallIsNextChunk

\* Every step of a loop is a step of the forward pass under its contract.
LEMMA LoopsKeepContract == GenerateIInv /\ [Next]_vars => [ForwardNext]_forwardVars
<1> SUFFICES ASSUME GenerateIInv, [Next]_vars PROVE ForwardNext \/ UNCHANGED forwardVars
  OBVIOUS
<1>1. CASE OpenCache
  <2>1. Cap \in 0..MaxCap /\ CacheCreate(Cap)
    BY <1>1, LoopSizes DEF OpenCache, GenerateIInv, GenerateInv, TypeOK
  <2> QED BY <2>1 DEF ForwardNext
<1>2. CASE TeacherForce
  BY <1>2, TeacherForceCalls DEF ForwardNext
<1>3. CASE TeacherCheck
  BY <1>3 DEF TeacherCheck, ForwardNext
<1>4. CASE Prefill
  BY <1>4, PrefillCalls DEF ForwardNext
<1>5. CASE TakeRow
  BY <1>5 DEF TakeRow
<1>6. CASE Pick
  BY <1>6, PickCalls DEF ForwardNext
<1>7. CASE PickEos
  BY <1>7 DEF PickEos
<1>8. CASE LoopEnds
  BY <1>8 DEF LoopEnds
<1>9. CASE CloseCache
  BY <1>9 DEF CloseCache, ForwardNext
<1>10. CASE Compute
  BY <1>10 DEF Compute, ForwardNext
<1>11. CASE Done \/ UNCHANGED vars
  BY <1>11 DEF Done, vars
<1> QED BY <1>1, <1>2, <1>3, <1>4, <1>5, <1>6, <1>7, <1>8, <1>9, <1>10, <1>11
        DEF Next, Step

\* What the loops' own variables have to satisfy.
LoopsOK == LoopTypeOK /\ PrintsGreedyText /\ LoopInv

\* A loop starts before its first cache, with nothing printed.
LEMMA LoopsInitial == Init => GenerateIInv
<1> SUFFICES ASSUME Init PROVE GenerateIInv
  OBVIOUS
<1>1. ForwardIInv
  BY ForwardInitial DEF Init
<1>2. /\ MaxPrompt \in Nat /\ MaxGen \in Nat /\ MaxRepeat \in Nat
  BY GenerateAssumption DEF GenerateAssumption
<1>3. printed = <<>> /\ Len(printed) = 0 /\ printed \in Seq(Nat)
  BY DEF Init
<1>4. /\ at = (IF mode = "self_test" THEN "teacher" ELSE "prompt") /\ pc = "none"
      /\ n_repeat \in 1..MaxRepeat /\ run = 0 /\ i = 0 /\ pos = 0 /\ cur = BadToken
      /\ mode \in {"self_test", "generate", "logits_only"} /\ prefill_ok = FALSE
  BY DEF Init, ForwardInit
<1>5. n_prompt \in 1..MaxPrompt /\ n_gen \in 0..MaxGen /\ eos \in Nat
      /\ (mode # "generate" => n_repeat = 1)
  BY <1>2 DEF Init
<1>6. LoopTypeOK
  <2>1. at \in {"teacher", "prompt"} /\ run \in 0..n_repeat /\ i \in 0..n_gen
    BY <1>2, <1>4, <1>5
  <2>2. pos \in Nat /\ cur \in Nat \cup {BadToken} /\ prefill_ok \in BOOLEAN
    BY <1>4
  <2> QED BY <1>3, <1>4, <1>5, <2>1, <2>2, Zenon DEF LoopTypeOK
<1>7. PrintsGreedyText
  BY <1>3 DEF PrintsGreedyText
<1>8. PlaceInv
  BY <1>4 DEF PlaceInv, Looping
<1>9. PrintInv
  BY <1>3, <1>4 DEF PrintInv, Looping
<1>10. RunInv
  BY <1>2, <1>4 DEF RunInv
<1> QED BY <1>1, <1>6, <1>7, <1>8, <1>9, <1>10
        DEF GenerateIInv, GenerateInv, TypeOK, LoopInv, ForwardIInv

\* A new cache is as large as its loop asks, and empty.
LEMMA OpenCacheKeeps ==
  ASSUME GenerateIInv, OpenCache
  PROVE  LoopsOK'
<1>1. /\ LoopTypeOK /\ PrintsGreedyText /\ PlaceInv /\ PrintInv /\ RunInv
  BY DEF GenerateIInv, GenerateInv, TypeOK, LoopInv
<1>2. /\ at \in {"teacher", "prompt"} /\ pc' = "idle" /\ cap' = Cap /\ layers'[0].len = 0
      /\ UNCHANGED <<at, mode, n_prompt, n_gen, n_repeat, eos, run, i, pos, cur, printed,
                     prefill_ok>>
  BY DEF OpenCache, CacheCreate, inputs, loopVars, Layer
<1>3. Cap' = Cap /\ LoopLimit' = LoopLimit
  BY <1>2 DEF Cap, LoopLimit, FullLen
<1>4. LoopTypeOK' /\ PrintsGreedyText' /\ RunInv'
  BY <1>1, <1>2 DEF LoopTypeOK, PrintsGreedyText, RunInv
<1>5. PlaceInv'
  BY <1>1, <1>2, <1>3 DEF PlaceInv, Looping
<1>6. PrintInv'
  BY <1>1, <1>2, <1>3 DEF PrintInv, Looping
<1> QED BY <1>4, <1>5, <1>6 DEF LoopsOK, LoopInv

\* The pass over the whole text is under way.
LEMMA TeacherForceKeeps ==
  ASSUME GenerateIInv, TeacherForce
  PROVE  LoopsOK'
<1>1. /\ LoopTypeOK /\ PrintsGreedyText /\ PlaceInv /\ PrintInv /\ RunInv
  BY DEF GenerateIInv, GenerateInv, TypeOK, LoopInv
<1>2. /\ at = "teacher" /\ at' = "teacher_forced" /\ pc = "idle" /\ pc' = "attn"
      /\ T' = FullLen /\ start_pos' = 0
      /\ UNCHANGED <<cap, mode, n_prompt, n_gen, n_repeat, eos, run, i, pos, cur, printed,
                     prefill_ok>>
  BY DEF TeacherForce, Drive, Forward, inputs
<1>3. Cap' = Cap /\ LoopLimit' = LoopLimit /\ FullLen' = FullLen
  BY <1>2 DEF Cap, LoopLimit, FullLen
<1>4. LoopTypeOK' /\ PrintsGreedyText' /\ RunInv'
  BY <1>1, <1>2 DEF LoopTypeOK, PrintsGreedyText, RunInv
<1>5. PlaceInv'
  BY <1>1, <1>2, <1>3 DEF PlaceInv, Looping, Called
<1>6. PrintInv'
  BY <1>1, <1>2, <1>3 DEF PrintInv, Looping
<1> QED BY <1>4, <1>5, <1>6 DEF LoopsOK, LoopInv

\* Every row of the pass over the whole text is right.
LEMMA TeacherCheckKeeps ==
  ASSUME GenerateIInv, TeacherCheck
  PROVE  LoopsOK'
<1>1. /\ LoopTypeOK /\ PrintsGreedyText /\ PlaceInv /\ PrintInv /\ RunInv
  BY DEF GenerateIInv, GenerateInv, TypeOK, LoopInv
<1>2. /\ at = "teacher_forced" /\ at' = "prompt" /\ pc = "idle" /\ pc' = "none"
      /\ prefill_ok' = \A t \in 0..FullLen - 1 : Argmax(logits[t]) = t + 1
      /\ UNCHANGED <<mode, n_prompt, n_gen, n_repeat, eos, run, i, pos, cur, printed>>
  BY DEF TeacherCheck, Drive, CacheFree, inputs
<1>3. mode = "self_test" /\ logits = [t \in 0..FullLen - 1 |-> 0 + t]
  BY <1>1, <1>2 DEF PlaceInv, Called
<1>4. prefill_ok' = TRUE
  <2>1. ASSUME NEW t \in 0..FullLen - 1 PROVE Argmax(logits[t]) = t + 1
    <3>1. logits[t] = t /\ t \in Nat
      BY <1>1, <1>3, LoopSizes
    <3> QED BY <3>1, ArgmaxNext
  <2> QED BY <1>2, <2>1
<1>5. LoopTypeOK' /\ PrintsGreedyText' /\ RunInv'
  BY <1>1, <1>2, <1>4 DEF LoopTypeOK, PrintsGreedyText, RunInv
<1>6. PlaceInv'
  BY <1>2 DEF PlaceInv, Looping
<1>7. PrintInv'
  BY <1>2, <1>3 DEF PrintInv, Looping
<1> QED BY <1>5, <1>6, <1>7 DEF LoopsOK, LoopInv

\* The pass over the prompt is under way.
LEMMA PrefillKeeps ==
  ASSUME GenerateIInv, Prefill
  PROVE  LoopsOK'
<1>1. /\ LoopTypeOK /\ PrintsGreedyText /\ PlaceInv /\ PrintInv /\ RunInv
  BY DEF GenerateIInv, GenerateInv, TypeOK, LoopInv
<1>2. /\ at = "prompt" /\ at' = "prefill" /\ pc = "idle" /\ pc' = "attn"
      /\ T' = n_prompt /\ start_pos' = 0 /\ i' = 0 /\ pos' = n_prompt /\ printed' = <<>>
      /\ UNCHANGED <<cap, mode, n_prompt, n_gen, n_repeat, eos, run, cur, prefill_ok>>
  BY DEF Prefill, Drive, Forward, inputs
<1>3. Cap' = Cap /\ LoopLimit' = LoopLimit
  BY <1>2 DEF Cap, LoopLimit, FullLen
<1>4. Len(printed') = 0 /\ printed' \in Seq(Nat)
  BY <1>2
<1>5. n_prompt \in Nat \ {0} /\ LoopLimit \in Nat
  BY <1>1, LoopSizes
<1>6. LoopTypeOK'
  BY <1>1, <1>2, <1>4, <1>5 DEF LoopTypeOK
<1>7. PrintsGreedyText' /\ RunInv'
  BY <1>1, <1>2, <1>4 DEF PrintsGreedyText, RunInv
<1>8. PlaceInv'
  BY <1>1, <1>2, <1>3, <1>5 DEF PlaceInv, Looping, Called
<1>9. PrintInv'
  BY <1>2, <1>4 DEF PrintInv, Looping
<1> QED BY <1>6, <1>7, <1>8, <1>9 DEF LoopsOK, LoopInv

\* The row that is taken answers for the last position read.
LEMMA TakeRowKeeps ==
  ASSUME GenerateIInv, TakeRow
  PROVE  LoopsOK'
<1>1. /\ LoopTypeOK /\ PrintsGreedyText /\ PlaceInv /\ PrintInv /\ RunInv
  BY DEF GenerateIInv, GenerateInv, TypeOK, LoopInv
<1>2. /\ at \in {"prefill", "decode"} /\ at' = "pick" /\ pc = "idle" /\ pc' = "idle"
      /\ cur' = logits[LastRow]
      /\ UNCHANGED <<cap, layers, mode, n_prompt, n_gen, n_repeat, eos, run, i, pos, printed,
                     prefill_ok>>
  BY DEF TakeRow, inputs, forwardVars
<1>3. Cap' = Cap /\ LoopLimit' = LoopLimit
  BY <1>2 DEF Cap, LoopLimit, FullLen
<1>4. n_prompt \in Nat \ {0} /\ i \in Nat /\ pos = n_prompt + i
  BY <1>1, <1>2, LoopSizes DEF PlaceInv, Looping
<1>5. cur' = pos - 1 /\ layers[0].len = pos
  <2>1. CASE at = "prefill"
    <3>1. LastRow = n_prompt - 1 /\ logits = [t \in 0..n_prompt - 1 |-> 0 + t]
          /\ layers[0].len = 0 + n_prompt /\ i = 0
      BY <1>1, <1>2, <2>1 DEF PlaceInv, Called, LastRow
    <3> QED BY <1>2, <1>4, <3>1
  <2>2. CASE at = "decode"
    <3>1. LastRow = 0 /\ logits = [t \in 0..1 - 1 |-> (pos - 1) + t]
          /\ layers[0].len = (pos - 1) + 1
      BY <1>1, <1>2, <2>2 DEF PlaceInv, Called, LastRow
    <3> QED BY <1>2, <1>4, <3>1
  <2> QED BY <1>2, <2>1, <2>2
<1>6. LoopTypeOK' /\ PrintsGreedyText' /\ RunInv'
  <2>1. cur' \in Nat
    BY <1>4, <1>5
  <2> QED BY <1>1, <1>2, <2>1 DEF LoopTypeOK, PrintsGreedyText, RunInv
<1>7. PlaceInv'
  BY <1>1, <1>2, <1>3, <1>5 DEF PlaceInv, Looping, Called
<1>8. PrintInv'
  BY <1>1, <1>2, <1>3 DEF PrintInv, Looping
<1> QED BY <1>6, <1>7, <1>8 DEF LoopsOK, LoopInv

\* A printed token is the next one of the text.
LEMMA PrintNext ==
  ASSUME NEW token \in Nat, printed \in Seq(Nat), PrintsGreedyText,
         n_prompt' = n_prompt, n_prompt \in Nat,
         token = n_prompt + Len(printed), printed' = Append(printed, token)
  PROVE  /\ printed' \in Seq(Nat) /\ Len(printed') = Len(printed) + 1
         /\ PrintsGreedyText'
         /\ \A k \in 1..Len(printed') :
              printed'[k] = IF k \in 1..Len(printed) THEN printed[k] ELSE token
<1>1. /\ printed' \in Seq(Nat) /\ Len(printed') = Len(printed) + 1 /\ Len(printed) \in Nat
      /\ \A k \in 1..Len(printed) : printed'[k] = printed[k]
      /\ printed'[Len(printed) + 1] = token
  OBVIOUS
<1>2. \A k \in 1..Len(printed') : k \in 1..Len(printed) \/ k = Len(printed) + 1
  BY <1>1
<1>3. ~(Len(printed) + 1 \in 1..Len(printed))
  BY <1>1
<1>4. PrintsGreedyText'
  <2> SUFFICES ASSUME NEW k \in 1..Len(printed') PROVE printed'[k] = n_prompt + k - 1
    BY DEF PrintsGreedyText
  <2>1. CASE k \in 1..Len(printed)
    BY <1>1, <2>1 DEF PrintsGreedyText
  <2>2. CASE k = Len(printed) + 1
    BY <1>1, <2>2
  <2> QED BY <1>2, <2>1, <2>2
<1> QED BY <1>1, <1>2, <1>3, <1>4

\* A turn of the decode loop.
LEMMA PickKeeps ==
  ASSUME GenerateIInv, Pick
  PROVE  LoopsOK'
<1>1. /\ LoopTypeOK /\ PrintsGreedyText /\ PlaceInv /\ PrintInv /\ RunInv
  BY DEF GenerateIInv, GenerateInv, TypeOK, LoopInv
<1>2. /\ at = "pick" /\ at' = "decode" /\ pc = "idle" /\ pc' = "attn"
      /\ i < LoopLimit /\ ~EosPicked /\ printed' = Append(printed, Argmax(cur))
      /\ T' = 1 /\ start_pos' = pos /\ i' = i + 1 /\ pos' = pos + 1
      /\ UNCHANGED <<cap, mode, n_prompt, n_gen, n_repeat, eos, run, cur, prefill_ok>>
  BY DEF Pick, Drive, Forward, inputs
<1>3. Cap' = Cap /\ LoopLimit' = LoopLimit
  BY <1>2 DEF Cap, LoopLimit, FullLen
<1>4. /\ Argmax(cur) = pos /\ pos = n_prompt + i /\ Len(printed) = i
      /\ n_prompt \in Nat \ {0} /\ i \in Nat /\ pos \in Nat /\ LoopLimit \in 0..n_gen
      /\ n_gen \in Nat
  BY <1>1, <1>2, PickCalls, LoopSizes DEF PlaceInv, PrintInv, Looping
<1>5. /\ printed' \in Seq(Nat) /\ Len(printed') = i + 1
      /\ PrintsGreedyText'
      /\ \A k \in 1..Len(printed') :
           printed'[k] = IF k \in 1..Len(printed) THEN printed[k] ELSE pos
  BY <1>1, <1>2, <1>4, PrintNext DEF LoopTypeOK
<1>6. LoopTypeOK'
  <2>1. i' \in 0..n_gen /\ pos' \in Nat
    BY <1>2, <1>4
  <2> QED BY <1>1, <1>2, <1>5, <2>1 DEF LoopTypeOK
<1>7. RunInv'
  BY <1>1, <1>2 DEF RunInv
<1>8. PlaceInv'
  <2>1. Called(1, pos - 1)'
    BY <1>2, <1>4 DEF Called
  <2>2. i' > 0 /\ pos' = n_prompt + i' /\ i' <= LoopLimit
    BY <1>2, <1>4
  <2> QED BY <1>1, <1>2, <1>3, <2>1, <2>2 DEF PlaceInv, Looping
<1>9. PrintInv'
  <2>1. mode = "generate" => pos # eos
    BY <1>2, <1>4 DEF EosPicked
  <2>2. ASSUME mode = "generate", NEW k \in 1..Len(printed'), printed'[k] = eos PROVE FALSE
    <3>1. CASE k \in 1..Len(printed)
      <4>1. printed[k] = eos
        BY <1>5, <2>2, <3>1
      <4> QED BY <1>1, <1>2, <2>2, <3>1, <4>1 DEF PrintInv, Looping
    <3>2. CASE k \notin 1..Len(printed)
      BY <1>5, <2>1, <2>2, <3>2
    <3> QED BY <3>1, <3>2
  <2>3. Len(printed') = i'
    BY <1>2, <1>5
  <2> QED BY <1>2, <2>2, <2>3 DEF PrintInv, Looping
<1> QED BY <1>5, <1>6, <1>7, <1>8, <1>9 DEF LoopsOK, LoopInv

\* The turn that breaks.
LEMMA PickEosKeeps ==
  ASSUME GenerateIInv, PickEos
  PROVE  LoopsOK'
<1>1. /\ LoopTypeOK /\ PrintsGreedyText /\ PlaceInv /\ PrintInv /\ RunInv
  BY DEF GenerateIInv, GenerateInv, TypeOK, LoopInv
<1>2. /\ at = "pick" /\ at' = "close" /\ i < LoopLimit /\ mode = "generate"
      /\ printed' = Append(printed, Argmax(cur))
      /\ UNCHANGED <<pc, cap, layers, mode, n_prompt, n_gen, n_repeat, eos, run, i, pos, cur,
                     prefill_ok>>
  BY DEF PickEos, Drive, EosPicked, inputs, forwardVars
<1>3. Cap' = Cap /\ LoopLimit' = LoopLimit
  BY <1>2 DEF Cap, LoopLimit, FullLen
<1>4. /\ pos = n_prompt + i /\ Len(printed) = i /\ cur = pos - 1
      /\ n_prompt \in Nat \ {0} /\ i \in Nat
  BY <1>1, <1>2, LoopSizes DEF PlaceInv, PrintInv, Looping
<1>5. Argmax(cur) = pos /\ pos \in Nat
  <2>1. cur \in Nat /\ cur + 1 = pos
    BY <1>4
  <2> QED BY <2>1, ArgmaxNext
<1>6. /\ printed' \in Seq(Nat) /\ Len(printed') = i + 1
      /\ PrintsGreedyText'
      /\ \A k \in 1..Len(printed') :
           printed'[k] = IF k \in 1..Len(printed) THEN printed[k] ELSE pos
  BY <1>1, <1>2, <1>4, <1>5, PrintNext DEF LoopTypeOK
<1>7. LoopTypeOK' /\ RunInv'
  BY <1>1, <1>2, <1>6 DEF LoopTypeOK, RunInv
<1>8. PlaceInv'
  BY <1>1, <1>2, <1>3 DEF PlaceInv, Looping
<1>9. PrintInv'
  <2>1. ASSUME NEW k \in 1..Len(printed'), printed'[k] = eos
        PROVE  k = Len(printed')
    <3>1. CASE k \in 1..Len(printed)
      <4>1. printed[k] = eos
        BY <1>6, <2>1, <3>1
      <4> QED BY <1>1, <1>2, <3>1, <4>1 DEF PrintInv, Looping
    <3>2. CASE k \notin 1..Len(printed)
      BY <1>4, <1>6, <2>1, <3>2
    <3> QED BY <3>1, <3>2
  <2> QED BY <1>2, <1>4, <1>6, <2>1 DEF PrintInv, Looping
<1> QED BY <1>6, <1>7, <1>8, <1>9 DEF LoopsOK, LoopInv

\* The loop that ran to its limit.
LEMMA LoopEndsKeeps ==
  ASSUME GenerateIInv, LoopEnds
  PROVE  LoopsOK'
<1>1. /\ LoopTypeOK /\ PrintsGreedyText /\ PlaceInv /\ PrintInv /\ RunInv
  BY DEF GenerateIInv, GenerateInv, TypeOK, LoopInv
<1>2. /\ at = "pick" /\ at' = "close" /\ i = LoopLimit
      /\ UNCHANGED <<pc, cap, layers, mode, n_prompt, n_gen, n_repeat, eos, run, i, pos, cur,
                     printed, prefill_ok>>
  BY DEF LoopEnds, Drive, inputs, forwardVars
<1>3. Cap' = Cap /\ LoopLimit' = LoopLimit
  BY <1>2 DEF Cap, LoopLimit, FullLen
<1>4. LoopTypeOK' /\ PrintsGreedyText' /\ RunInv'
  BY <1>1, <1>2 DEF LoopTypeOK, PrintsGreedyText, RunInv
<1>5. PlaceInv'
  BY <1>1, <1>2, <1>3 DEF PlaceInv, Looping
<1>6. PrintInv'
  BY <1>1, <1>2, <1>3 DEF PrintInv, Looping
<1> QED BY <1>4, <1>5, <1>6 DEF LoopsOK, LoopInv

\* A run of --repeat is over.
LEMMA CloseCacheKeeps ==
  ASSUME GenerateIInv, CloseCache
  PROVE  LoopsOK'
<1>1. /\ LoopTypeOK /\ PrintsGreedyText /\ PlaceInv /\ PrintInv /\ RunInv
  BY DEF GenerateIInv, GenerateInv, TypeOK, LoopInv
<1>2. /\ at = "close" /\ pc' = "none" /\ run' = run + 1
      /\ at' = (IF mode = "generate" /\ run' < n_repeat THEN "prompt" ELSE "done")
      /\ UNCHANGED <<mode, n_prompt, n_gen, n_repeat, eos, i, pos, cur, printed, prefill_ok>>
  BY DEF CloseCache, CacheFree, NextRun, MoreRuns, inputs
<1>3. LoopLimit' = LoopLimit
  BY <1>2 DEF LoopLimit
<1>4. run \in Nat /\ n_repeat \in Nat /\ run < n_repeat
  BY <1>1, <1>2, LoopSizes DEF RunInv
<1>5. at' \in {"prompt", "done"} /\ (at' = "prompt" => mode = "generate" /\ run' < n_repeat)
  BY <1>2
<1>6. LoopTypeOK'
  BY <1>1, <1>2, <1>4, <1>5 DEF LoopTypeOK
<1>7. PrintsGreedyText' /\ RunInv'
  BY <1>1, <1>2, <1>5 DEF PrintsGreedyText, RunInv
<1>8. PlaceInv'
  BY <1>2, <1>5 DEF PlaceInv, Looping
<1>9. PrintInv'
  BY <1>1, <1>2, <1>3, <1>5 DEF PrintInv, Looping
<1> QED BY <1>6, <1>7, <1>8, <1>9 DEF LoopsOK, LoopInv

\* The forward pass that a loop called makes a step, or finishes.
LEMMA ComputeKeeps ==
  ASSUME GenerateIInv, Compute
  PROVE  LoopsOK'
<1>1. /\ ForwardIInv
      /\ LoopTypeOK /\ PrintsGreedyText /\ PlaceInv /\ PrintInv /\ RunInv
  BY DEF GenerateIInv, GenerateInv, TypeOK, LoopInv
<1>2. UNCHANGED <<at, mode, n_prompt, n_gen, n_repeat, eos, run, i, pos, cur, printed, prefill_ok>>
  BY DEF Compute, inputs, loopVars
<1>3. /\ UNCHANGED <<cap, T, start_pos>>
      /\ pc \in {"attn", "mlp", "logits"} /\ pc' # "none"
      /\ pc' = "idle" => Logits
  BY DEF Compute, Layers, AttnHalf, MlpHalf, AfterLayer, Logits
<1>4. pc' = "idle" => /\ logits' = [t \in 0..T - 1 |-> start_pos + t]
                      /\ layers'[0].len = start_pos + T
  BY <1>1, <1>3, LogitsRows
<1>5. ASSUME NEW n, NEW s, Called(n, s)
      PROVE  pc' # "none" /\ T' = n /\ start_pos' = s
             /\ (pc' = "idle" => layers'[0].len = s + n
                                 /\ logits' = [t \in 0..n - 1 |-> s + t])
  BY <1>3, <1>4, <1>5 DEF Called
<1>6. Cap' = Cap /\ LoopLimit' = LoopLimit /\ FullLen' = FullLen
  BY <1>2 DEF Cap, LoopLimit, FullLen
<1>7. LoopTypeOK' /\ PrintsGreedyText' /\ RunInv'
  BY <1>1, <1>2 DEF LoopTypeOK, PrintsGreedyText, RunInv
<1>8. at \in {"teacher_forced", "prefill", "decode"}
  BY <1>1, <1>3 DEF PlaceInv, LoopTypeOK
<1>9. PlaceInv'
  <2>1. at = "teacher_forced" => Called(FullLen, 0)'
    BY <1>1, <1>5, <1>6 DEF PlaceInv, Called
  <2>2. at = "prefill" => Called(n_prompt, 0)'
    BY <1>1, <1>2, <1>5 DEF PlaceInv, Called
  <2>3. ASSUME at = "decode" PROVE Called(1, pos - 1)'
    <3>1. Called(1, pos - 1)
      BY <1>1, <2>3 DEF PlaceInv
    <3>2. pc' # "none" /\ T' = 1 /\ start_pos' = pos - 1
          /\ (pc' = "idle" => layers'[0].len = (pos - 1) + 1
                              /\ logits' = [t \in 0..1 - 1 |-> (pos - 1) + t])
      BY <1>5, <3>1
    <3>3. pos' = pos
      BY <1>2
    <3> QED BY <3>2, <3>3, Zenon DEF Called
  <2> QED BY <1>1, <1>2, <1>3, <1>6, <1>8, <2>1, <2>2, <2>3 DEF PlaceInv, Looping
<1>10. PrintInv'
  BY <1>1, <1>2, <1>6 DEF PrintInv, Looping
<1> QED BY <1>7, <1>9, <1>10 DEF LoopsOK, LoopInv

\* A step that changes nothing.
LEMMA LoopStutterKeeps ==
  ASSUME GenerateIInv, UNCHANGED vars
  PROVE  LoopsOK'
<1>1. /\ LoopTypeOK /\ PrintsGreedyText /\ PlaceInv /\ PrintInv /\ RunInv
  BY DEF GenerateIInv, GenerateInv, TypeOK, LoopInv
<1>2. /\ UNCHANGED <<at, mode, n_prompt, n_gen, n_repeat, eos, run, i, pos, cur, printed,
                     prefill_ok>>
      /\ UNCHANGED <<pc, cap, layers, T, start_pos, logits>>
  BY DEF vars, inputs, loopVars, forwardVars
<1>3. Cap' = Cap /\ LoopLimit' = LoopLimit /\ FullLen' = FullLen
  BY <1>2 DEF Cap, LoopLimit, FullLen
<1>4. LoopTypeOK' /\ PrintsGreedyText' /\ RunInv'
  BY <1>1, <1>2 DEF LoopTypeOK, PrintsGreedyText, RunInv
<1>5. PlaceInv'
  BY <1>1, <1>2, <1>3 DEF PlaceInv, Looping, Called
<1>6. PrintInv'
  BY <1>1, <1>2, <1>3 DEF PrintInv, Looping
<1> QED BY <1>4, <1>5, <1>6 DEF LoopsOK, LoopInv

\* Every step of a loop keeps the invariant.
LEMMA LoopsStepKeeps == GenerateIInv /\ [Next]_vars => GenerateIInv'
<1> SUFFICES ASSUME GenerateIInv, [Next]_vars PROVE GenerateIInv'
  OBVIOUS
<1>1. ForwardIInv'
  BY LoopsKeepContract, ForwardStepKeeps DEF GenerateIInv
<1>2. LoopsOK'
  <2>1. CASE OpenCache BY <2>1, OpenCacheKeeps
  <2>2. CASE TeacherForce BY <2>2, TeacherForceKeeps
  <2>3. CASE TeacherCheck BY <2>3, TeacherCheckKeeps
  <2>4. CASE Prefill BY <2>4, PrefillKeeps
  <2>5. CASE TakeRow BY <2>5, TakeRowKeeps
  <2>6. CASE Pick BY <2>6, PickKeeps
  <2>7. CASE PickEos BY <2>7, PickEosKeeps
  <2>8. CASE LoopEnds BY <2>8, LoopEndsKeeps
  <2>9. CASE CloseCache BY <2>9, CloseCacheKeeps
  <2>10. CASE Compute BY <2>10, ComputeKeeps
  <2>11. CASE Done \/ UNCHANGED vars
    <3>1. UNCHANGED vars
      BY <2>11 DEF Done
    <3> QED BY <3>1, LoopStutterKeeps
  <2> QED BY <2>1, <2>2, <2>3, <2>4, <2>5, <2>6, <2>7, <2>8, <2>9, <2>10, <2>11 DEF Next, Step
<1> QED BY <1>1, <1>2 DEF GenerateIInv, GenerateInv, TypeOK, LoopsOK, ForwardIInv

\* The inductive invariant of the loops, for every length of prompt and of text,
\* number of runs, end-of-text token and shape of model.
LEMMA LoopsInvariant == Spec => []GenerateIInv
BY LoopsInitial, LoopsStepKeeps, PTL DEF Spec

\* In every run of every loop, each token printed is the one that the prompt and the
\* tokens before it determine, no cache is overrun, and the caches hold, at each place
\* of the loop, the positions the loop counts.
THEOREM GenerateInvariant == Spec => []GenerateInv
<1>1. GenerateIInv => GenerateInv
  BY DEF GenerateIInv
<1> QED BY <1>1, LoopsInvariant, PTL

\* run_self_test accepts a correct forward pass: its teacher-forced pass and its
\* decode loop both match.
THEOREM SelfTestAccepts == Spec => []SelfTestPasses
<1>1. GenerateIInv => SelfTestPasses
  <2> SUFFICES ASSUME GenerateIInv, at = "done", mode = "self_test"
               PROVE  prefill_ok /\ Len(printed) = n_gen
                      /\ \A k \in 1..n_gen : printed[k] = n_prompt + k - 1
    BY DEF SelfTestPasses
  <2>1. prefill_ok /\ Len(printed) = LoopLimit
    BY DEF GenerateIInv, GenerateInv, LoopInv, RunInv, PrintInv
  <2>2. LoopLimit = n_gen
    BY DEF LoopLimit
  <2> QED BY <2>1, <2>2 DEF GenerateIInv, GenerateInv, PrintsGreedyText
<1> QED BY <1>1, LoopsInvariant, PTL

\* real_generate prints nothing after the end-of-text token, and does not read it.
THEOREM GenerateStopsAtEos == Spec => []NothingAfterEos
<1>1. GenerateIInv => NothingAfterEos
  <2> SUFFICES ASSUME GenerateIInv, mode = "generate", NEW k \in 1..Len(printed),
                      printed[k] = eos
               PROVE  k = Len(printed) /\ (pc = "idle" => layers[0].len < n_prompt + k)
    BY DEF NothingAfterEos
  <2>1. /\ LoopTypeOK /\ PlaceInv /\ PrintInv
    BY DEF GenerateIInv, GenerateInv, TypeOK, LoopInv
  <2>2. at \notin Looping /\ k = Len(printed) /\ (at = "close" => k = i + 1)
    BY <2>1 DEF PrintInv
  <2>3. at \in {"prompt", "close", "done"}
    BY <2>1, <2>2 DEF LoopTypeOK, PlaceInv, Looping
  <2>4. n_prompt \in Nat \ {0} /\ i \in Nat /\ k \in Nat /\ k > 0
    BY <2>1, <2>2, LoopSizes
  <2>5. CASE at = "prompt"
    BY <2>1, <2>2, <2>4, <2>5 DEF PlaceInv
  <2>6. CASE at = "close"
    <3>1. layers[0].len = n_prompt + i
      BY <2>1, <2>6 DEF PlaceInv
    <3> QED BY <2>2, <2>4, <2>6, <3>1
  <2>7. CASE at = "done"
    BY <2>1, <2>2, <2>7 DEF PlaceInv
  <2> QED BY <2>3, <2>5, <2>6, <2>7
<1> QED BY <1>1, LoopsInvariant, PTL

\* Every loop calls the forward pass under the contract that its theorems assume: the
\* next chunk of the text, where the cache ends, with room for it.  What is proved of
\* ForwardSpec so holds of the real callers.
THEOREM GenerateKeepsContract == Spec => KeepsContract
<1>1. Init => ForwardInit
  BY DEF Init
<1>2. GenerateIInv /\ [Next]_vars => [ForwardNext]_forwardVars
  BY LoopsKeepContract
<1> QED BY <1>1, <1>2, LoopsInvariant, PTL DEF Spec, KeepsContract

-----------------------------------------------------------------------------
(* The syncs of the GPU forward pass (ForwardGpu, ForwardTiny).            *)

\* A host step that reads or writes a shared buffer, and the one that ends a call.
Touches(w) == w.do = "host" /\ w.reads \cup w.writes # {}
EndsCall(w) == w.do = "host" /\ w.step = "logits"

\* Run from a place where the queue is `from` (known to be quiet, or busy for all one
\* knows), p leaves it `to` and is quiet wherever its host touches a buffer; Q are
\* the instructions before which the queue is known to be quiet.
Runs(p, from, to) ==
  \E S, Q :
    /\ p \in Seq(S)
    /\ 1 \in Q => from = "quiet"
    /\ to = "quiet" => Len(p) + 1 \in Q
    /\ \A k \in 1..Len(p) :
         /\ ~EndsCall(p[k])
         /\ Touches(p[k]) => k \in Q
         /\ k + 1 \in Q => p[k].do = "end" \/ (k \in Q /\ p[k].do # "encode")

\* Nothing to run.
LEMMA EmptyRuns ==
  ASSUME NEW a, NEW b, b = "quiet" => a = "quiet"
  PROVE  Runs(<<>>, a, b)
<1>1. <<>> \in Seq({}) /\ Len(<<>>) = 0
  BY EmptySeq
<1>2. CASE a = "quiet"
  <2>1. PICK Q : Q = {1}
    OBVIOUS
  <2> QED BY <1>1, <1>2, <2>1 DEF Runs
<1>3. CASE a # "quiet"
  <2>1. PICK Q : Q = {}
    OBVIOUS
  <2> QED BY <1>1, <1>3, <2>1 DEF Runs
<1> QED BY <1>2, <1>3

\* More may be known before and less after.
LEMMA RunsWeaker ==
  ASSUME NEW p, NEW a, NEW b, NEW c, NEW d, Runs(p, a, b),
         a = "quiet" => c = "quiet", d = "quiet" => b = "quiet"
  PROVE  Runs(p, c, d)
BY DEF Runs

\* One program after the other.
LEMMA ConcatRuns ==
  ASSUME NEW p, NEW r, NEW a, NEW b, NEW c, Runs(p, a, b), Runs(r, b, c)
  PROVE  Runs(p \o r, a, c)
<1>1. PICK S1, Q1 :
        /\ p \in Seq(S1) /\ (1 \in Q1 => a = "quiet") /\ (b = "quiet" => Len(p) + 1 \in Q1)
        /\ \A k \in 1..Len(p) :
             /\ ~EndsCall(p[k])
             /\ Touches(p[k]) => k \in Q1
             /\ k + 1 \in Q1 => p[k].do = "end" \/ (k \in Q1 /\ p[k].do # "encode")
  BY DEF Runs
<1>2. PICK S2, Q2 :
        /\ r \in Seq(S2) /\ (1 \in Q2 => b = "quiet") /\ (c = "quiet" => Len(r) + 1 \in Q2)
        /\ \A k \in 1..Len(r) :
             /\ ~EndsCall(r[k])
             /\ Touches(r[k]) => k \in Q2
             /\ k + 1 \in Q2 => r[k].do = "end" \/ (k \in Q2 /\ r[k].do # "encode")
  BY DEF Runs
<1>3. p \in Seq(S1 \cup S2) /\ r \in Seq(S1 \cup S2)
  BY <1>1, <1>2, SeqDef
<1>4. PICK m \in Nat, n \in Nat : m = Len(p) /\ n = Len(r)
  BY <1>3, LenProperties
<1>5. PICK w : w = p \o r
  OBVIOUS
<1>6. /\ w \in Seq(S1 \cup S2) /\ Len(w) = m + n
      /\ \A k \in 1..m + n : w[k] = IF k <= m THEN p[k] ELSE r[k - m]
  BY <1>3, <1>4, <1>5, ConcatProperties
<1>7. PICK Q : Q = {k \in 1..m + n + 1 : IF k <= m THEN k \in Q1 ELSE k - m \in Q2}
  OBVIOUS
<1>8. 1 \in Q => a = "quiet"
  <2>1. CASE 1 <= m
    BY <1>1, <1>7, <2>1
  <2>2. CASE m = 0
    BY <1>1, <1>2, <1>4, <1>7, <2>2
  <2> QED BY <2>1, <2>2
<1>9. c = "quiet" => Len(w) + 1 \in Q
  BY <1>2, <1>4, <1>6, <1>7
<1>10. ASSUME NEW k \in 1..m + n
       PROVE  /\ ~EndsCall(w[k])
              /\ Touches(w[k]) => k \in Q
              /\ k + 1 \in Q => w[k].do = "end" \/ (k \in Q /\ w[k].do # "encode")
  <2>1. CASE k < m
    <3>1. w[k] = p[k] /\ (k \in Q <=> k \in Q1) /\ (k + 1 \in Q <=> k + 1 \in Q1)
      BY <1>6, <1>7, <2>1
    <3> QED BY <1>1, <1>4, <2>1, <3>1
  <2>2. CASE k = m
    <3>1. w[k] = p[k] /\ (k \in Q <=> k \in Q1)
      BY <1>6, <1>7, <2>2
    <3>2. k + 1 \in Q => k + 1 \in Q1
      <4>1. k + 1 \in Q => 1 \in Q2
        BY <1>7, <2>2
      <4> QED BY <1>1, <1>2, <1>4, <2>2, <4>1
    <3> QED BY <1>1, <1>4, <2>2, <3>1, <3>2
  <2>3. CASE k > m
    <3>1. PICK j \in 1..n : j = k - m
      BY <2>3
    <3>2. w[k] = r[j]
      BY <1>6, <2>3, <3>1
    <3>3. (k + 1) - m = j + 1 /\ ~(k <= m) /\ ~(k + 1 <= m) /\ k + 1 \in 1..m + n + 1
      BY <2>3, <3>1
    <3>4. (k \in Q <=> j \in Q2) /\ (k + 1 \in Q <=> j + 1 \in Q2)
      BY <1>7, <3>1, <3>3
    <3> QED BY <1>2, <1>4, <3>1, <3>2, <3>4
  <2> QED BY <2>1, <2>2, <2>3
<1>11. Runs(w, a, c)
  BY <1>6, <1>8, <1>9, <1>10 DEF Runs
<1> QED BY <1>5, <1>11

\* FlattenSeq of n pieces is the last of their running concatenations.
LEMMA FlattenIsConcat ==
  ASSUME NEW n \in Nat \ {0}, NEW f, Len(f) = n
  PROVE  \E g : /\ g = [k \in 1..n |-> IF k = 1 THEN f[k] ELSE g[k - 1] \o f[k]]
                /\ FlattenSeq(f) = g[n]
<1> DEFINE Sums(g, m) == g = [k \in 1..m |-> IF k = 1 THEN f[k] ELSE g[k - 1] \o f[k]]
           W == {m \in 1..n : \E g : Sums(g, m)}
<1>1. 1 \in W
  <2>1. PICK g : g = [k \in 1..1 |-> f[k]]
    OBVIOUS
  <2>2. Sums(g, 1)
    BY <2>1
  <2> HIDE DEF Sums
  <2> QED BY <2>2
<1>2. ASSUME NEW m \in 1..n - 1, m \in W PROVE m + 1 \in W
  <2>1. PICK g : Sums(g, m)
    BY <1>2
  <2>2. PICK z : z = g[m] \o f[m + 1]
    OBVIOUS
  <2>3. PICK h : h = [k \in 1..m + 1 |-> IF k = m + 1 THEN z ELSE g[k]]
    OBVIOUS
  <2>4. \A k \in 1..m + 1 : h[k] = IF k = 1 THEN f[k] ELSE h[k - 1] \o f[k]
    <3> TAKE k \in 1..m + 1
    <3>1. CASE k = m + 1
      <4>1. h[k] = z /\ h[k - 1] = g[m] /\ k # 1
        BY <2>3, <3>1
      <4> QED BY <2>2, <3>1, <4>1
    <3>2. CASE k = 1
      <4>1. h[k] = g[k] /\ k \in 1..m
        BY <2>3, <3>2
      <4> QED BY <2>1, <3>2, <4>1
    <3>3. CASE k # m + 1 /\ k # 1
      <4>1. h[k] = g[k] /\ h[k - 1] = g[k - 1] /\ k \in 1..m /\ k - 1 \in 1..m
        BY <2>3, <3>3
      <4>2. g[k] = g[k - 1] \o f[k]
        BY <2>1, <3>3, <4>1
      <4> QED BY <3>3, <4>1, <4>2
    <3> QED BY <3>1, <3>2, <3>3
  <2>5. Sums(h, m + 1)
    BY <2>3, <2>4
  <2> HIDE DEF Sums
  <2> QED BY <2>5
<1>3. 1..n \subseteq W
  <2> HIDE DEF W
  <2> QED BY <1>1, <1>2, IntervalInduction
<1>4. \E g : Sums(g, n)
  <2> HIDE DEF Sums
  <2>1. n \in 1..n
    OBVIOUS
  <2> QED BY <1>3, <2>1
<1>5. DEFINE flatten == CHOOSE g : Sums(g, n)
<1>6. Sums(flatten, n)
  <2> HIDE DEF Sums
  <2> QED BY <1>4
<1>7. FlattenSeq(f) = flatten[n]
  BY DEF FlattenSeq
<1> HIDE DEF flatten
<1> QED BY <1>6, <1>7

\* Pieces that each run, one after the other, with the queue in between as they leave it.
LEMMA FlattenRuns ==
  ASSUME NEW n \in Nat \ {0}, NEW f, Len(f) = n, NEW a, NEW b,
         \A k \in 1..n : Runs(f[k], a, b) /\ Runs(f[k], b, b)
  PROVE  Runs(FlattenSeq(f), a, b)
<1>1. PICK g : /\ g = [k \in 1..n |-> IF k = 1 THEN f[k] ELSE g[k - 1] \o f[k]]
               /\ FlattenSeq(f) = g[n]
  BY FlattenIsConcat
<1> DEFINE W == {m \in 1..n : Runs(g[m], a, b)}
<1>2. 1 \in W
  <2>1. g[1] = f[1] /\ 1 \in 1..n
    BY <1>1
  <2> QED BY <2>1
<1>3. ASSUME NEW m \in 1..n - 1, m \in W PROVE m + 1 \in W
  <2>1. m + 1 \in 1..n /\ m + 1 # 1 /\ (m + 1) - 1 = m
    OBVIOUS
  <2>2. g[m + 1] = g[m] \o f[m + 1]
    BY <1>1, <2>1
  <2>3. Runs(g[m], a, b) /\ Runs(f[m + 1], b, b)
    BY <1>3, <2>1
  <2>4. Runs(g[m] \o f[m + 1], a, b)
    BY <2>3, ConcatRuns
  <2> QED BY <2>1, <2>2, <2>4
<1>4. 1..n \subseteq W
  <2> HIDE DEF W
  <2> QED BY <1>2, <1>3, IntervalInduction
<1>5. n \in W
  BY <1>4
<1> QED BY <1>1, <1>5

-----------------------------------------------------------------------------
(* Instructions.                                                           *)

\* A program of one instruction.
LEMMA SingleRuns ==
  ASSUME NEW v, NEW a, NEW b, ~EndsCall(v), Touches(v) => a = "quiet",
         b = "quiet" => v.do = "end" \/ (a = "quiet" /\ v.do # "encode")
  PROVE  Runs(<<v>>, a, b)
<1>1. PICK p : p = <<v>>
  OBVIOUS
<1>2. p \in Seq({v}) /\ Len(p) = 1 /\ p[1] = v
  BY <1>1
<1>3. PICK Q : Q = {k \in {1, 2} : IF k = 1 THEN a = "quiet" ELSE b = "quiet"}
  OBVIOUS
<1>4. (1 \in Q <=> a = "quiet") /\ (2 \in Q <=> b = "quiet")
  BY <1>3
<1>5. ASSUME NEW k \in 1..Len(p)
      PROVE  /\ ~EndsCall(p[k])
             /\ Touches(p[k]) => k \in Q
             /\ k + 1 \in Q => p[k].do = "end" \/ (k \in Q /\ p[k].do # "encode")
  <2>1. k = 1 /\ k + 1 = 2
    BY <1>2
  <2> QED BY <1>2, <1>4, <2>1
<1>6. (1 \in Q => a = "quiet") /\ (b = "quiet" => Len(p) + 1 \in Q)
  BY <1>2, <1>4
<1>7. Runs(p, a, b)
  BY <1>2, <1>5, <1>6 DEF Runs
<1> QED BY <1>1, <1>7

\* A dispatch may be encoded at any time, and leaves the queue busy.
LEMMA EncodeRuns == \A d, a : Runs(<<[do |-> "encode", d |-> d]>>, a, "busy")
<1> SUFFICES ASSUME NEW d, NEW a, NEW v, v = [do |-> "encode", d |-> d]
             PROVE  Runs(<<v>>, a, "busy")
  OBVIOUS
<1>1. v.do = "encode"
  OBVIOUS
<1>2. ~EndsCall(v) /\ ~Touches(v)
  BY <1>1 DEF EndsCall, Touches
<1> QED BY <1>2, SingleRuns

\* begin may run at any time and changes nothing about the queue.
LEMMA BeginRuns == \A a : Runs(<<Begin>>, a, a)
<1>1. Begin.do = "begin"
  BY DEF Begin
<1>2. ~EndsCall(Begin) /\ ~Touches(Begin)
  BY <1>1 DEF EndsCall, Touches
<1> QED BY <1>1, <1>2, SingleRuns

\* end leaves the queue quiet, whatever it was.
LEMMA EndRuns == \A a : Runs(<<End>>, a, "quiet")
<1>1. End.do = "end"
  BY DEF End
<1>2. ~EndsCall(End) /\ ~Touches(End)
  BY <1>1 DEF EndsCall, Touches
<1> QED BY <1>1, <1>2, SingleRuns

\* A step of the host needs a quiet queue, and leaves it so.
LEMMA HostRuns ==
  ASSUME NEW v, v.do = "host", v.step # "logits"
  PROVE  Runs(<<v>>, "quiet", "quiet")
<1>1. ~EndsCall(v)
  BY DEF EndsCall
<1> QED BY <1>1, SingleRuns

\* Unless it touches no buffer.
LEMMA UntouchingRuns ==
  ASSUME NEW v, v.do = "host", v.step # "logits", v.reads = {}, v.writes = {}
  PROVE  Runs(<<v>>, "busy", "busy")
<1>1. ~EndsCall(v) /\ ~Touches(v)
  BY DEF EndsCall, Touches
<1> QED BY <1>1, SingleRuns

\* A program is its first instruction and the rest.
LEMMA FirstAndRest ==
  ASSUME NEW S, NEW a \in S, NEW w \in Seq(S), NEW p \in Seq(S),
         Len(p) = Len(w) + 1, p[1] = a, \A k \in 1..Len(w) : p[k + 1] = w[k]
  PROVE  p = <<a>> \o w
<1>1. PICK v : v = <<a>>
  OBVIOUS
<1>2. v \in Seq(S) /\ Len(v) = 1 /\ v[1] = a
  BY <1>1
<1>3. PICK n \in Nat : n = Len(w)
  BY LenProperties
<1>4. PICK r : r = v \o w
  OBVIOUS
<1>5. /\ r \in Seq(S) /\ Len(r) = 1 + n
      /\ \A k \in 1..1 + n : r[k] = IF k <= 1 THEN v[k] ELSE w[k - 1]
  <2>1. /\ r \in Seq(S) /\ Len(r) = Len(v) + Len(w)
        /\ \A k \in 1..Len(v) + Len(w) : r[k] = IF k <= Len(v) THEN v[k] ELSE w[k - Len(v)]
    BY <1>2, <1>4, ConcatProperties
  <2> QED BY <1>2, <1>3, <2>1
<1>6. \A k \in 1..Len(p) : p[k] = r[k]
  <2> TAKE k \in 1..Len(p)
  <2>1. CASE k = 1
    BY <1>2, <1>3, <1>5, <2>1
  <2>2. CASE k # 1
    <3>1. PICK m \in 1..n : k = m + 1
      BY <1>3, <2>2
    <3>2. r[k] = w[m]
      BY <1>5, <3>1
    <3> QED BY <1>3, <3>1, <3>2
  <2> QED BY <2>1, <2>2
<1>7. p = r
  BY <1>3, <1>5, <1>6, SeqEqual
<1> QED BY <1>1, <1>4, <1>7

\* The short programs that are written out.
LEMMA PairIsConcat ==
  ASSUME NEW a, NEW b
  PROVE  <<a, b>> = <<a>> \o <<b>>
<1>1. PICK p, w, S : p = <<a, b>> /\ w = <<b>> /\ S = {a, b}
  OBVIOUS
<1>2. p \in Seq(S) /\ w \in Seq(S) /\ a \in S
  BY <1>1
<1>3. /\ Len(p) = 2 /\ p[1] = a
      /\ p[1 + 1] = b
      /\ Len(w) = 1 /\ w[1] = b
  BY <1>1
<1>4. Len(p) = Len(w) + 1 /\ \A k \in 1..Len(w) : p[k + 1] = w[k]
  BY <1>3
<1>5. p = <<a>> \o w
  BY <1>2, <1>3, <1>4, FirstAndRest
<1> QED BY <1>1, <1>5

\* Three instructions.
LEMMA TripleIsConcat ==
  ASSUME NEW a, NEW b, NEW c
  PROVE  <<a, b, c>> = <<a>> \o <<b, c>>
<1>1. PICK p, w, S : p = <<a, b, c>> /\ w = <<b, c>> /\ S = {a, b, c}
  OBVIOUS
<1>2. p \in Seq(S) /\ w \in Seq(S) /\ a \in S
  BY <1>1
<1>3. /\ Len(p) = 3 /\ p[1] = a
      /\ p[1 + 1] = b /\ p[2 + 1] = c
      /\ Len(w) = 2 /\ w[1] = b /\ w[2] = c
  BY <1>1
<1>4. Len(p) = Len(w) + 1 /\ \A k \in 1..Len(w) : p[k + 1] = w[k]
  BY <1>3
<1>5. p = <<a>> \o w
  BY <1>2, <1>3, <1>4, FirstAndRest
<1> QED BY <1>1, <1>5

\* Four.
LEMMA QuadIsConcat ==
  ASSUME NEW a, NEW b, NEW c, NEW d
  PROVE  <<a, b, c, d>> = <<a>> \o <<b, c, d>>
<1>1. PICK p, w, S : p = <<a, b, c, d>> /\ w = <<b, c, d>> /\ S = {a, b, c, d}
  OBVIOUS
<1>2. p \in Seq(S) /\ w \in Seq(S) /\ a \in S
  BY <1>1
<1>3. /\ Len(p) = 4 /\ p[1] = a
      /\ p[1 + 1] = b /\ p[2 + 1] = c /\ p[3 + 1] = d
      /\ Len(w) = 3 /\ w[1] = b /\ w[2] = c /\ w[3] = d
  BY <1>1
<1>4. Len(p) = Len(w) + 1 /\ \A k \in 1..Len(w) : p[k + 1] = w[k]
  BY <1>3
<1>5. p = <<a>> \o w
  BY <1>2, <1>3, <1>4, FirstAndRest
<1> QED BY <1>1, <1>5

\* Five.
LEMMA QuintIsConcat ==
  ASSUME NEW a, NEW b, NEW c, NEW d, NEW e
  PROVE  <<a, b, c, d, e>> = <<a>> \o <<b, c, d, e>>
<1>1. PICK p, w, S : p = <<a, b, c, d, e>> /\ w = <<b, c, d, e>> /\ S = {a, b, c, d, e}
  OBVIOUS
<1>2. p \in Seq(S) /\ w \in Seq(S) /\ a \in S
  BY <1>1
<1>3. /\ Len(p) = 5 /\ p[1] = a
      /\ p[1 + 1] = b /\ p[2 + 1] = c /\ p[3 + 1] = d /\ p[4 + 1] = e
      /\ Len(w) = 4 /\ w[1] = b /\ w[2] = c /\ w[3] = d /\ w[4] = e
  BY <1>1
<1>4. Len(p) = Len(w) + 1 /\ \A k \in 1..Len(w) : p[k + 1] = w[k]
  BY <1>3
<1>5. p = <<a>> \o w
  BY <1>2, <1>3, <1>4, FirstAndRest
<1> QED BY <1>1, <1>5

\* Six.
LEMMA SextIsConcat ==
  ASSUME NEW a, NEW b, NEW c, NEW d, NEW e, NEW f
  PROVE  <<a, b, c, d, e, f>> = <<a>> \o <<b, c, d, e, f>>
<1>1. PICK p, w, S : p = <<a, b, c, d, e, f>> /\ w = <<b, c, d, e, f>> /\ S = {a, b, c, d, e, f}
  OBVIOUS
<1>2. p \in Seq(S) /\ w \in Seq(S) /\ a \in S
  BY <1>1
<1>3. /\ Len(p) = 6 /\ p[1] = a
      /\ p[1 + 1] = b /\ p[2 + 1] = c /\ p[3 + 1] = d /\ p[4 + 1] = e /\ p[5 + 1] = f
      /\ Len(w) = 5 /\ w[1] = b /\ w[2] = c /\ w[3] = d /\ w[4] = e /\ w[5] = f
  BY <1>1
<1>4. Len(p) = Len(w) + 1 /\ \A k \in 1..Len(w) : p[k + 1] = w[k]
  BY <1>3
<1>5. p = <<a>> \o w
  BY <1>2, <1>3, <1>4, FirstAndRest
<1> QED BY <1>1, <1>5

-----------------------------------------------------------------------------
(* The real model.                                                         *)

\* A program that may run at any time.
Anytime(p) == Runs(p, "busy", "busy")

\* One after the other, and a dispatch, among them.
LEMMA AnytimeParts ==
  /\ Anytime(<<>>)
  /\ \A p, r : Anytime(p) /\ Anytime(r) => Anytime(p \o r)
  /\ \A op, l, in, from, out, to : Anytime(<<Dispatch(op, l, in, from, out, to)>>)
  /\ \A l, in, from, out, to :
       Anytime(<<Map(l, in, from, out, to)>>) /\ Anytime(<<Matvec(l, in, from, out, to)>>)
<1>1. Anytime(<<>>)
  BY EmptyRuns DEF Anytime
<1>2. \A p, r : Anytime(p) /\ Anytime(r) => Anytime(p \o r)
  BY ConcatRuns DEF Anytime
<1>3. \A op, l, in, from, out, to : Anytime(<<Dispatch(op, l, in, from, out, to)>>)
  BY EncodeRuns DEF Anytime, Dispatch
<1>4. \A l, in, from, out, to :
        Anytime(<<Map(l, in, from, out, to)>>) /\ Anytime(<<Matvec(l, in, from, out, to)>>)
  BY <1>3 DEF Map, Matvec
<1> QED BY <1>1, <1>2, <1>3, <1>4

\* And written out one after the other.
LEMMA AnytimeTuples ==
  ASSUME NEW a, NEW b, NEW c, NEW d, NEW e, NEW f,
         Anytime(<<a>>), Anytime(<<b>>), Anytime(<<c>>), Anytime(<<d>>)
  PROVE  /\ Anytime(<<a, b>>) /\ Anytime(<<a, b, c>>) /\ Anytime(<<a, b, c, d>>)
         /\ Anytime(<<e>>) /\ Anytime(<<f>>) => Anytime(<<a, b, c, d, e, f>>)
<1>1. \A p, r : Anytime(p) /\ Anytime(r) => Anytime(p \o r)
  BY AnytimeParts
<1>2. ASSUME NEW v, NEW w, Anytime(<<v>>), Anytime(<<w>>) PROVE Anytime(<<v, w>>)
  <2>1. <<v, w>> = <<v>> \o <<w>>
    BY PairIsConcat
  <2>2. Anytime(<<v>> \o <<w>>)
    BY <1>1, <1>2
  <2> QED BY <2>1, <2>2
<1>3. ASSUME NEW v, NEW w, NEW u, Anytime(<<v>>), Anytime(<<w>>), Anytime(<<u>>)
      PROVE  Anytime(<<v, w, u>>)
  <2>1. <<v, w, u>> = <<v>> \o <<w, u>>
    BY TripleIsConcat
  <2>2. Anytime(<<v>> \o <<w, u>>)
    BY <1>1, <1>2, <1>3
  <2> QED BY <2>1, <2>2
<1>4. ASSUME NEW v, NEW w, NEW u, NEW z,
             Anytime(<<v>>), Anytime(<<w>>), Anytime(<<u>>), Anytime(<<z>>)
      PROVE  Anytime(<<v, w, u, z>>)
  <2>1. <<v, w, u, z>> = <<v>> \o <<w, u, z>>
    BY QuadIsConcat
  <2>2. Anytime(<<v>> \o <<w, u, z>>)
    BY <1>1, <1>3, <1>4
  <2> QED BY <2>1, <2>2
<1>5. ASSUME Anytime(<<e>>), Anytime(<<f>>) PROVE Anytime(<<a, b, c, d, e, f>>)
  <2>1. <<a, b, c, d, e, f>> = <<a>> \o <<b, c, d, e, f>>
    BY SextIsConcat
  <2>2. <<b, c, d, e, f>> = <<b>> \o <<c, d, e, f>>
    BY QuintIsConcat
  <2>3. Anytime(<<c, d, e, f>>)
    BY <1>4, <1>5
  <2>4. Anytime(<<b>> \o <<c, d, e, f>>)
    BY <1>1, <2>3
  <2>5. Anytime(<<b, c, d, e, f>>)
    BY <2>2, <2>4
  <2>6. Anytime(<<a>> \o <<b, c, d, e, f>>)
    BY <1>1, <2>5
  <2> QED BY <2>1, <2>6
<1> QED BY <1>2, <1>3, <1>4, <1>5

\* Many of them.
LEMMA AnytimeFlatten ==
  ASSUME NEW n \in Nat \ {0}, NEW f, Len(f) = n, \A k \in 1..n : Anytime(f[k])
  PROVE  Anytime(FlattenSeq(f))
BY FlattenRuns DEF Anytime

\* The operations that only encode.
LEMMA OperationsRun ==
  /\ \A l, t, in, from, out, to, xrow, yrow :
       Anytime(MatvecRow(l, t, in, from, out, to, xrow, yrow))
  /\ \A t, in, row : Anytime(RowIn(t, in, row))
  /\ \A l, hist, in, from, out, to : Anytime(Sconv(l, hist, in, from, out, to))
  /\ \A l, hist, in : Anytime(Roll(l, hist, in))
  /\ \A l, xt, op, out, to : Anytime(Expert(l, xt, op, out, to))
<1>1. \A t, in, row : Anytime(RowIn(t, in, row)) /\ Anytime(RowOut(t, in, row))
  <2> TAKE t, in, row
  <2> QED BY AnytimeParts DEF RowIn, RowOut
<1>2. ASSUME NEW l, NEW t, NEW in, NEW from, NEW out, NEW to, NEW xrow, NEW yrow
      PROVE  Anytime(MatvecRow(l, t, in, from, out, to, xrow, yrow))
  <2>1. PICK v, w : v = (IF t = 0 THEN in ELSE xrow) /\ w = (IF t = 0 THEN out ELSE yrow)
    OBVIOUS
  <2>2. PICK p, q, r : /\ p = RowIn(t, in, xrow)
                       /\ q = <<Matvec(l, v, from, w, to)>>
                       /\ r = RowOut(t, yrow, out)
    OBVIOUS
  <2>3. Anytime(p) /\ Anytime(q) /\ Anytime(r)
    BY <1>1, <2>2, AnytimeParts
  <2>4. Anytime(p \o q \o r)
    BY <2>3, AnytimeParts
  <2> QED BY <2>1, <2>2, <2>4 DEF MatvecRow
<1>3. \A l, hist, in, from, out, to : Anytime(Sconv(l, hist, in, from, out, to))
  BY AnytimeParts DEF Sconv
<1>4. \A l, hist, in : Anytime(Roll(l, hist, in))
  BY AnytimeParts DEF Roll
<1>5. ASSUME NEW l, NEW xt, NEW op, NEW out, NEW to PROVE Anytime(Expert(l, xt, op, out, to))
  <2>1. PICK a, b, c, d : /\ a = Dispatch(op, l, <<xt>>, <<"n2">>, "gbuf", "g")
                          /\ b = Dispatch(op, l, <<xt>>, <<"n2">>, "ubuf", "u")
                          /\ c = Dispatch("matvec", l, <<"gbuf", "ubuf">>, <<"g", "u">>, "hbuf", "hm")
                          /\ d = Dispatch(op, l, <<"hbuf">>, <<"hm">>, out, to)
    OBVIOUS
  <2>2. Anytime(<<a>>) /\ Anytime(<<b>>) /\ Anytime(<<c>>) /\ Anytime(<<d>>)
    BY <2>1, AnytimeParts
  <2>3. Anytime(<<a, b, c, d>>)
    BY <2>2, AnytimeTuples
  <2> QED BY <2>1, <2>3 DEF Expert
<1> QED BY <1>1, <1>2, <1>3, <1>4, <1>5

\* The names of the host's steps.
LEMMA HostFields ==
  \A step, l, t, reads, writes :
    /\ Host(step, l, t, reads, writes).do = "host"
    /\ Host(step, l, t, reads, writes).step = step
    /\ Host(step, l, t, reads, writes).reads = reads
    /\ Host(step, l, t, reads, writes).writes = writes
BY DEF Host

\* A sync: the host's step finds the queue quiet and leaves it so.
LEMMA SyncRuns ==
  ASSUME NEW w, w.do = "host", w.step # "logits"
  PROVE  Runs(<<End, w, Begin>>, "busy", "quiet")
<1>1. Runs(<<End>>, "busy", "quiet") /\ Runs(<<Begin>>, "quiet", "quiet")
  BY EndRuns, BeginRuns
<1>2. Runs(<<w>>, "quiet", "quiet")
  BY HostRuns
<1>3. <<w, Begin>> = <<w>> \o <<Begin>> /\ <<End, w, Begin>> = <<End>> \o <<w, Begin>>
  BY PairIsConcat, TripleIsConcat
<1>4. Runs(<<w, Begin>>, "quiet", "quiet")
  <2>1. Runs(<<w>> \o <<Begin>>, "quiet", "quiet")
    BY <1>1, <1>2, ConcatRuns
  <2> QED BY <1>3, <2>1
<1>5. Runs(<<End>> \o <<w, Begin>>, "busy", "quiet")
  BY <1>1, <1>4, ConcatRuns
<1> QED BY <1>3, <1>5

\* real_attn_forward_chunk_gpu: the scaling of the queries has its sync.
LEMMA AttentionRuns == \A l : \A n \in Nat \ {0} : Anytime(Attention(l, n))
<1> SUFFICES ASSUME NEW l, NEW n \in Nat \ {0} PROVE Anytime(Attention(l, n))
  OBVIOUS
<1>1. PICK p1 : p1 = [k \in 1..n |->
        MatvecRow(l, k - 1, "normed", "n", "q_raw", "qr", "xrow", "yrow_q")
        \o MatvecRow(l, k - 1, "normed", "n", "k_raw", "k", "xrow", "yrow_k")
        \o MatvecRow(l, k - 1, "normed", "n", "v_raw", "v", "xrow", "yrow_v")
        \o MatvecRow(l, k - 1, "normed", "n", "r_raw", "rr", "xrow", "yrow_r")]
  OBVIOUS
<1>2. Anytime(FlattenSeq(p1))
  <2>1. ASSUME NEW k \in 1..n PROVE Anytime(p1[k])
    <3>1. /\ Anytime(MatvecRow(l, k - 1, "normed", "n", "q_raw", "qr", "xrow", "yrow_q"))
          /\ Anytime(MatvecRow(l, k - 1, "normed", "n", "k_raw", "k", "xrow", "yrow_k"))
          /\ Anytime(MatvecRow(l, k - 1, "normed", "n", "v_raw", "v", "xrow", "yrow_v"))
          /\ Anytime(MatvecRow(l, k - 1, "normed", "n", "r_raw", "rr", "xrow", "yrow_r"))
      BY OperationsRun
    <3> QED BY <1>1, <3>1, AnytimeParts
  <2>2. Len(p1) = n
    BY <1>1
  <2> QED BY <2>1, <2>2, AnytimeFlatten
<1>3. PICK p2 : p2 = [k \in 1..n |->
        MatvecRow(l, k - 1, "attn_concat", "ac", "attn_out", "a", "xrow", "yrow")]
  OBVIOUS
<1>4. Anytime(FlattenSeq(p2))
  <2>1. ASSUME NEW k \in 1..n PROVE Anytime(p2[k])
    BY <1>3, OperationsRun
  <2>2. Len(p2) = n
    BY <1>3
  <2> QED BY <2>1, <2>2, AnytimeFlatten
<1>5. PICK c1, c2, c3, c4 :
        /\ c1 = Sconv(l, "k_hist", "k_raw", "k", "k_sconv", "kc")
        /\ c2 = Sconv(l, "v_hist", "v_raw", "v", "v_sconv", "vs")
        /\ c3 = Roll(l, "k_hist", "k_raw") /\ c4 = Roll(l, "v_hist", "v_raw")
  OBVIOUS
<1>6. Anytime(c1) /\ Anytime(c2) /\ Anytime(c3) /\ Anytime(c4)
  BY <1>5, OperationsRun
<1>7. PICK q : q =
        <<Map(l, <<"q_raw">>, <<"qr">>, "q_normed", "qn"),
          Map(l, <<"k_sconv">>, <<"kc">>, "k_normed", "ks"),
          Dispatch("store", l, <<"k_normed">>, <<>>, "k", ""),
          Dispatch("store", l, <<"v_sconv">>, <<>>, "v", ""),
          Host("len", l, 0, {}, {}),
          Map(l, <<"r_raw">>, <<"rr">>, "rel_logits", "r")>>
  OBVIOUS
<1>8. Anytime(q)
  <2>1. /\ Anytime(<<Map(l, <<"q_raw">>, <<"qr">>, "q_normed", "qn")>>)
        /\ Anytime(<<Map(l, <<"k_sconv">>, <<"kc">>, "k_normed", "ks")>>)
        /\ Anytime(<<Dispatch("store", l, <<"k_normed">>, <<>>, "k", "")>>)
        /\ Anytime(<<Dispatch("store", l, <<"v_sconv">>, <<>>, "v", "")>>)
        /\ Anytime(<<Map(l, <<"r_raw">>, <<"rr">>, "rel_logits", "r")>>)
    BY AnytimeParts
  <2>2. Anytime(<<Host("len", l, 0, {}, {})>>)
    BY HostFields, UntouchingRuns DEF Anytime
  <2> QED BY <1>7, <2>1, <2>2, AnytimeTuples
<1>9. Anytime(TauSync(l))
  <2>1. Runs(TauSync(l), "busy", "quiet")
    BY HostFields, SyncRuns DEF TauSync
  <2> QED BY <2>1, RunsWeaker DEF Anytime
<1>10. PICK d : d = <<Dispatch("attn", l, <<"q_normed", "rel_logits">>, <<>>, "attn_concat", "ac")>>
  OBVIOUS
<1>11. Anytime(d)
  BY <1>10, AnytimeParts
<1>12. Attention(l, n) = FlattenSeq(p1) \o c1 \o c2 \o c3 \o c4 \o q \o TauSync(l) \o d
                          \o FlattenSeq(p2)
  BY <1>1, <1>3, <1>5, <1>7, <1>10 DEF Attention, ForEach
<1> HIDE DEF Anytime
<1>13. Anytime(FlattenSeq(p1) \o c1 \o c2 \o c3 \o c4)
  BY <1>2, <1>6, AnytimeParts
<1>14. Anytime(FlattenSeq(p1) \o c1 \o c2 \o c3 \o c4 \o q \o TauSync(l) \o d \o FlattenSeq(p2))
  BY <1>4, <1>8, <1>9, <1>11, <1>13, AnytimeParts
<1> QED BY <1>12, <1>14

\* real_mlp_dense_forward_gpu only encodes.
LEMMA DenseRuns == \A l : \A n \in Nat \ {0} : Anytime(DenseMlp(l, n))
<1> SUFFICES ASSUME NEW l, NEW n \in Nat \ {0} PROVE Anytime(DenseMlp(l, n))
  OBVIOUS
<1>1. PICK p1 : p1 = [k \in 1..n |->
        MatvecRow(l, k - 1, "normed2", "n2", "g_full", "g", "xrow", "yrow_q")
        \o MatvecRow(l, k - 1, "normed2", "n2", "u_full", "u", "xrow", "yrow_k")]
  OBVIOUS
<1>2. Anytime(FlattenSeq(p1))
  <2>1. ASSUME NEW k \in 1..n PROVE Anytime(p1[k])
    <3>1. /\ Anytime(MatvecRow(l, k - 1, "normed2", "n2", "g_full", "g", "xrow", "yrow_q"))
          /\ Anytime(MatvecRow(l, k - 1, "normed2", "n2", "u_full", "u", "xrow", "yrow_k"))
      BY OperationsRun
    <3> QED BY <1>1, <3>1, AnytimeParts
  <2>2. Len(p1) = n
    BY <1>1
  <2> QED BY <2>1, <2>2, AnytimeFlatten
<1>3. PICK p2 : p2 = [k \in 1..n |->
        MatvecRow(l, k - 1, "h_full", "hm", "y_full", "y", "xrow", "yrow")]
  OBVIOUS
<1>4. Anytime(FlattenSeq(p2))
  <2>1. ASSUME NEW k \in 1..n PROVE Anytime(p2[k])
    BY <1>3, OperationsRun
  <2>2. Len(p2) = n
    BY <1>3
  <2> QED BY <2>1, <2>2, AnytimeFlatten
<1>5. PICK c, d : /\ c = <<Map(l, <<"g_full", "u_full">>, <<"g", "u">>, "h_full", "hm")>>
                  /\ d = <<Map(l, <<"y_full">>, <<"y">>, "mlp_out", "m")>>
  OBVIOUS
<1>6. Anytime(c) /\ Anytime(d)
  BY <1>5, AnytimeParts
<1>7. DenseMlp(l, n) = FlattenSeq(p1) \o c \o FlattenSeq(p2) \o d
  BY <1>1, <1>3, <1>5 DEF DenseMlp, ForEach
<1>8. Anytime(FlattenSeq(p1) \o c \o FlattenSeq(p2) \o d)
  BY <1>2, <1>4, <1>6, AnytimeParts
<1> QED BY <1>7, <1>8

\* real_mlp_moe_forward_gpu: a sync before the routing and one before the mixing, so
\* that the queue is quiet after each token.
LEMMA MoeTokenRuns == \A l, t : Runs(MoeToken(l, t), "busy", "quiet")
<1> SUFFICES ASSUME NEW l, NEW t PROVE Runs(MoeToken(l, t), "busy", "quiet")
  OBVIOUS
<1>1. PICK xt : xt = IF t = 0 THEN "normed2" ELSE "xrow"
  OBVIOUS
<1>2. PICK p, c, d, e, v, w :
        /\ p = RowIn(t, "normed2", "xrow")
        /\ c = <<Matvec(l, xt, "n2", "router_logits", "ro")>>
        /\ d = Expert(l, xt, "matvec", "shared_raw", "sh")
        /\ v = <<End, Host("route", l, t, {"router_logits"}, {}), Begin>>
        /\ e = Expert(l, xt, "routed", "routed_raw", "re")
        /\ w = <<End, Host("mix", l, t, {"routed_raw", "shared_raw"}, {}), Begin>>
  OBVIOUS
<1>3. Anytime(p) /\ Anytime(c) /\ Anytime(d) /\ Anytime(e)
  BY <1>2, OperationsRun, AnytimeParts
<1>4. Runs(v, "busy", "quiet") /\ Runs(w, "busy", "quiet")
  <2>1. "route" # "logits" /\ "mix" # "logits"
    OBVIOUS
  <2> QED BY <1>2, <2>1, HostFields, SyncRuns
<1>5. Runs(p \o c \o d, "busy", "busy")
  BY <1>3, AnytimeParts DEF Anytime
<1>6. Runs(p \o c \o d \o v, "busy", "quiet")
  BY <1>4, <1>5, ConcatRuns
<1>7. Runs(e, "quiet", "busy")
  BY <1>3, RunsWeaker DEF Anytime
<1>8. Runs(p \o c \o d \o v \o e, "busy", "busy")
  BY <1>6, <1>7, ConcatRuns
<1>9. Runs(p \o c \o d \o v \o e \o w, "busy", "quiet")
  BY <1>4, <1>8, ConcatRuns
<1>10. MoeToken(l, t) = p \o c \o d \o v \o e \o w
  BY <1>1, <1>2 DEF MoeToken
<1> QED BY <1>9, <1>10

\* real_mlp_moe_forward_gpu for a chunk: the copy of the mixed rows needs no sync of
\* its own, since there is at least one token.
LEMMA MoeRuns == \A l : \A n \in Nat \ {0} : Anytime(MoeMlp(l, n))
<1> SUFFICES ASSUME NEW l, NEW n \in Nat \ {0} PROVE Anytime(MoeMlp(l, n))
  OBVIOUS
<1>1. PICK p : p = [k \in 1..n |-> MoeToken(l, k - 1)]
  OBVIOUS
<1>2. Runs(FlattenSeq(p), "busy", "quiet")
  <2>1. ASSUME NEW k \in 1..n PROVE Runs(p[k], "busy", "quiet") /\ Runs(p[k], "quiet", "quiet")
    <3>1. Runs(p[k], "busy", "quiet")
      BY <1>1, MoeTokenRuns
    <3> QED BY <3>1, RunsWeaker
  <2>2. Len(p) = n
    BY <1>1
  <2> QED BY <2>1, <2>2, FlattenRuns
<1>3. PICK w : w = <<Host("memcpy", l, 0, {}, {"mlp_out"})>>
  OBVIOUS
<1>4. Runs(w, "quiet", "quiet")
  <2>1. "memcpy" # "logits"
    OBVIOUS
  <2> QED BY <1>3, <2>1, HostFields, HostRuns
<1>5. Runs(FlattenSeq(p) \o w, "busy", "quiet")
  BY <1>2, <1>4, ConcatRuns
<1>6. MoeMlp(l, n) = FlattenSeq(p) \o w
  BY <1>1, <1>3 DEF MoeMlp, ForEach
<1>7. Runs(FlattenSeq(p) \o w, "busy", "busy")
  BY <1>5, RunsWeaker
<1> QED BY <1>6, <1>7 DEF Anytime

\* real_decoder_layer_forward_gpu.
LEMMA DecoderRuns == \A l : \A n \in Nat \ {0} : Anytime(DecoderLayer(l, n))
<1> SUFFICES ASSUME NEW l, NEW n \in Nat \ {0} PROVE Anytime(DecoderLayer(l, n))
  OBVIOUS
<1>1. PICK a, b, c, d, e, f, g, h :
        /\ a = <<Map(l, <<"x">>, <<"x">>, "normed", "n")>>
        /\ b = Sconv(l, "attn_hist", "attn_out", "a", "attn_sconv_out", "as")
        /\ c = Roll(l, "attn_hist", "attn_out")
        /\ d = <<Map(l, <<"x", "attn_sconv_out">>, <<"x", "as">>, "x", "h"),
                 Map(l, <<"x">>, <<"h">>, "normed2", "n2")>>
        /\ e = (IF l \in Sparse THEN MoeMlp(l, n) ELSE DenseMlp(l, n))
        /\ f = Sconv(l, "mlp_hist", "mlp_out", "m", "mlp_sconv_out", "ms")
        /\ g = Roll(l, "mlp_hist", "mlp_out")
        /\ h = <<Map(l, <<"x", "mlp_sconv_out">>, <<"h", "ms">>, "x", "next")>>
  OBVIOUS
<1>2. Anytime(a) /\ Anytime(h)
  BY <1>1, AnytimeParts
<1>3. Anytime(b) /\ Anytime(c) /\ Anytime(f) /\ Anytime(g)
  BY <1>1, OperationsRun
<1>4. Anytime(d)
  <2>1. /\ Anytime(<<Map(l, <<"x", "attn_sconv_out">>, <<"x", "as">>, "x", "h")>>)
        /\ Anytime(<<Map(l, <<"x">>, <<"h">>, "normed2", "n2")>>)
    BY AnytimeParts
  <2> QED BY <1>1, <2>1, AnytimeTuples
<1>5. Anytime(e) /\ Anytime(Attention(l, n))
  BY <1>1, MoeRuns, DenseRuns, AttentionRuns
<1>6. Anytime(a \o Attention(l, n) \o b \o c \o d)
  BY <1>2, <1>3, <1>4, <1>5, AnytimeParts
<1>7. Anytime(a \o Attention(l, n) \o b \o c \o d \o e \o f \o g \o h)
  BY <1>2, <1>3, <1>5, <1>6, AnytimeParts
<1>8. DecoderLayer(l, n) = a \o Attention(l, n) \o b \o c \o d \o e \o f \o g \o h
  BY <1>1 DEF DecoderLayer
<1> QED BY <1>7, <1>8

\* The last instruction of a call.
LastStep == Host("logits", NumLayers, 0, {"logits_buf"}, {})

\* What is left of a call: a program that ends quiet, and the reading of the logits.
Left(todo_, from) == \E p : Runs(p, from, "quiet") /\ todo_ = p \o <<LastStep>>

\* real_forward_chunk_gpu.
LEMMA ProgramRuns == \A n \in Nat \ {0} : Left(Program(n), "quiet")
<1> SUFFICES ASSUME NEW n \in Nat \ {0} PROVE Left(Program(n), "quiet")
  OBVIOUS
<1>1. NumLayers \in Nat \ {0}
  BY ForwardAssumption
<1>2. PICK p : p = [k \in 1..NumLayers |-> DecoderLayer(k - 1, n)]
  OBVIOUS
<1>3. Anytime(FlattenSeq(p))
  <2>1. \A k \in 1..NumLayers : Anytime(p[k])
    BY <1>2, DecoderRuns
  <2>2. Len(p) = NumLayers
    BY <1>1, <1>2
  <2> QED BY <1>1, <2>1, <2>2, AnytimeFlatten
<1>4. PICK q : q = [k \in 1..n |->
        MatvecRow(NumLayers, k - 1, "final", "fn", "logits_buf", "lg", "xrow", "yrow")]
  OBVIOUS
<1>5. Anytime(FlattenSeq(q))
  <2>1. ASSUME NEW k \in 1..n PROVE Anytime(q[k])
    BY <1>4, OperationsRun
  <2>2. Len(q) = n
    BY <1>4
  <2> QED BY <2>1, <2>2, AnytimeFlatten
<1>6. PICK w : w = <<End, Host("final", NumLayers, 0, {"x"}, {"final"}), Begin>>
  OBVIOUS
<1>7. Anytime(w)
  <2>1. "final" # "logits"
    OBVIOUS
  <2>2. Runs(w, "busy", "quiet")
    BY <1>6, <2>1, HostFields, SyncRuns
  <2> QED BY <2>2, RunsWeaker DEF Anytime
<1>8. PICK b : b = <<Begin>>
  OBVIOUS
<1>9. Anytime(b)
  BY <1>8, BeginRuns DEF Anytime
<1>10. Anytime(b \o FlattenSeq(p) \o w \o FlattenSeq(q))
  BY <1>3, <1>5, <1>7, <1>9, AnytimeParts
<1>11. PICK r : r = b \o FlattenSeq(p) \o w \o FlattenSeq(q)
  OBVIOUS
<1>12. Runs(r, "quiet", "busy")
  BY <1>10, <1>11, RunsWeaker DEF Anytime
<1>13. Runs(r \o <<End>>, "quiet", "quiet")
  BY <1>12, EndRuns, ConcatRuns
<1>14. Program(n) = r \o <<End, LastStep>>
  BY <1>2, <1>4, <1>6, <1>8, <1>11 DEF Program, ForEach, LastStep
<1>15. <<End, LastStep>> = <<End>> \o <<LastStep>>
  BY PairIsConcat
<1>16. r \o (<<End>> \o <<LastStep>>) = (r \o <<End>>) \o <<LastStep>>
  <2>1. PICK S : r \in Seq(S)
    BY <1>12 DEF Runs
  <2>2. PICK U : U = S \cup {End, LastStep}
    OBVIOUS
  <2>3. r \in Seq(U) /\ <<End>> \in Seq(U) /\ <<LastStep>> \in Seq(U)
    BY <2>1, <2>2, SeqDef
  <2> QED BY <2>3, ConcatAssociative
<1> QED BY <1>13, <1>14, <1>15, <1>16 DEF Left

-----------------------------------------------------------------------------
(* The small model: every operation waits for its own dispatch.            *)

\* A program that finds the queue quiet and leaves it so.
Settled(p) == Runs(p, "quiet", "quiet")

\* One after the other, and a host step, among them.
LEMMA SettledParts ==
  /\ Settled(<<>>)
  /\ \A p, r : Settled(p) /\ Settled(r) => Settled(p \o r)
  /\ \A step, l, t, reads, writes :
       step # "logits" => Settled(<<Host(step, l, t, reads, writes)>>)
<1>1. Settled(<<>>)
  BY EmptyRuns DEF Settled
<1>2. \A p, r : Settled(p) /\ Settled(r) => Settled(p \o r)
  BY ConcatRuns DEF Settled
<1>3. \A step, l, t, reads, writes :
        step # "logits" => Settled(<<Host(step, l, t, reads, writes)>>)
  BY HostFields, HostRuns DEF Settled
<1> QED BY <1>1, <1>2, <1>3

\* Many of them.
LEMMA SettledFlatten ==
  ASSUME NEW n \in Nat \ {0}, NEW f, Len(f) = n, \A k \in 1..n : Settled(f[k])
  PROVE  Settled(FlattenSeq(f))
BY FlattenRuns DEF Settled

\* Upload, encode, wait, read back.
LEMMA CallRuns ==
  ASSUME NEW op, NEW l, NEW in, NEW t, NEW from, NEW out, NEW ot, NEW to
  PROVE  Settled(Call(op, l, in, t, from, out, ot, to))
<1>1. Settled(<<Upload(l, in, t)>>)
  <2>1. Upload(l, in, t).do = "host" /\ Upload(l, in, t).step = "upload"
    BY DEF Upload
  <2> QED BY <2>1, HostRuns DEF Settled
<1>2. Settled(<<ReadBack(l, out, ot)>>)
  <2>1. ReadBack(l, out, ot).do = "host" /\ ReadBack(l, out, ot).step = "readback"
    BY DEF ReadBack
  <2> QED BY <2>1, HostRuns DEF Settled
<1>3. Settled(Run(op, l, in, from, to))
  <2>1. PICK d : d = Dispatch(op, l, SubSeq(<<"dev_a", "dev_b", "dev_c", "dev_d">>, 1, Len(in)),
                              from, "dev_out", to)
    OBVIOUS
  <2>2. Runs(<<Begin>>, "quiet", "quiet") /\ Runs(<<End>>, "busy", "quiet")
    BY BeginRuns, EndRuns
  <2>3. Runs(<<d>>, "quiet", "busy")
    BY <2>1, EncodeRuns DEF Dispatch
  <2>4. <<d, End>> = <<d>> \o <<End>> /\ <<Begin, d, End>> = <<Begin>> \o <<d, End>>
    BY PairIsConcat, TripleIsConcat
  <2>5. Runs(<<d, End>>, "quiet", "quiet")
    <3>1. Runs(<<d>> \o <<End>>, "quiet", "quiet")
      BY <2>2, <2>3, ConcatRuns
    <3> QED BY <2>4, <3>1
  <2>6. Runs(<<Begin>> \o <<d, End>>, "quiet", "quiet")
    BY <2>2, <2>5, ConcatRuns
  <2> QED BY <2>1, <2>4, <2>6 DEF Run, Settled
<1> QED BY <1>1, <1>2, <1>3, SettledParts DEF Call

\* Its uses.
LEMMA CallsRun ==
  /\ \A l, in, from, out, to : Settled(MapCall(l, in, from, out, to))
  /\ \A l, in, t, from, out, ot, to : Settled(gpu_matvec_one(l, in, t, from, out, ot, to))
  /\ \A l, hist, in, from, out, to : Settled(gpu_sconv_step(l, hist, in, from, out, to))
<1>1. \A l, in, from, out, to : Settled(MapCall(l, in, from, out, to))
  BY CallRuns DEF MapCall
<1>2. \A l, in, t, from, out, ot, to : Settled(gpu_matvec_one(l, in, t, from, out, ot, to))
  BY CallRuns DEF gpu_matvec_one
<1>3. ASSUME NEW l, NEW hist, NEW in, NEW from, NEW out, NEW to
      PROVE  Settled(gpu_sconv_step(l, hist, in, from, out, to))
  <2>1. PICK w : w = [do |-> "host", step |-> "roll", l |-> l, reads |-> {in}, writes |-> {},
                      hist |-> hist, in |-> in]
    OBVIOUS
  <2>2. w.do = "host" /\ w.step = "roll"
    BY <2>1
  <2>3. Settled(<<w>>)
    BY <2>2, HostRuns DEF Settled
  <2>4. Settled(Call("conv", l, <<in, hist>>, All, <<from>>, out, All, to))
    BY CallRuns
  <2>5. Settled(Call("conv", l, <<in, hist>>, All, <<from>>, out, All, to) \o <<w>>)
    BY <2>3, <2>4, SettledParts
  <2> QED BY <2>1, <2>5 DEF gpu_sconv_step
<1> QED BY <1>1, <1>2, <1>3

\* gpu_attn_forward_chunk.
LEMMA TinyAttentionRuns == \A l : \A n \in Nat \ {0} : Settled(TinyAttention(l, n))
<1> SUFFICES ASSUME NEW l, NEW n \in Nat \ {0} PROVE Settled(TinyAttention(l, n))
  OBVIOUS
<1>1. PICK p1 : p1 = [k \in 1..n |->
        gpu_matvec_one(l, "normed", k - 1, "n", "q_raw", k - 1, "qr")
        \o gpu_matvec_one(l, "normed", k - 1, "n", "k_raw", k - 1, "k")
        \o gpu_matvec_one(l, "normed", k - 1, "n", "v_raw", k - 1, "v")
        \o gpu_matvec_one(l, "normed", k - 1, "n", "r_raw", k - 1, "rr")]
  OBVIOUS
<1>2. Settled(FlattenSeq(p1))
  <2>1. ASSUME NEW k \in 1..n PROVE Settled(p1[k])
    <3>1. /\ Settled(gpu_matvec_one(l, "normed", k - 1, "n", "q_raw", k - 1, "qr"))
          /\ Settled(gpu_matvec_one(l, "normed", k - 1, "n", "k_raw", k - 1, "k"))
          /\ Settled(gpu_matvec_one(l, "normed", k - 1, "n", "v_raw", k - 1, "v"))
          /\ Settled(gpu_matvec_one(l, "normed", k - 1, "n", "r_raw", k - 1, "rr"))
      BY CallsRun
    <3> QED BY <1>1, <3>1, SettledParts
  <2>2. Len(p1) = n
    BY <1>1
  <2> QED BY <2>1, <2>2, SettledFlatten
<1>3. PICK p2 : p2 = [k \in 1..n |->
        gpu_matvec_one(l, "attn_concat", k - 1, "ac", "attn_out", k - 1, "a")]
  OBVIOUS
<1>4. Settled(FlattenSeq(p2))
  <2>1. ASSUME NEW k \in 1..n PROVE Settled(p2[k])
    BY <1>3, CallsRun
  <2>2. Len(p2) = n
    BY <1>3
  <2> QED BY <2>1, <2>2, SettledFlatten
<1>5. PICK a, b, c, d, e, f, g :
        /\ a = gpu_sconv_step(l, "k_hist", "k_raw", "k", "k_sconv", "kc")
        /\ b = gpu_sconv_step(l, "v_hist", "v_raw", "v", "v_sconv", "vs")
        /\ c = MapCall(l, <<"q_raw">>, <<"qr">>, "q_normed", "qn")
        /\ d = MapCall(l, <<"k_sconv">>, <<"kc">>, "k_normed", "ks")
        /\ e = <<Host("store", l, 0, {"k_normed", "v_sconv"}, {}),
                 Host("scale", l, 0, {"q_normed"}, {"q_scaled"})>>
        /\ f = MapCall(l, <<"r_raw">>, <<"rr">>, "rel_logits", "r")
        /\ g = Call("banded", l, <<"q_scaled", "rel_logits", "k", "v">>, All, <<>>,
                    "attn_concat", All, "ac")
  OBVIOUS
<1>6. /\ Settled(a) /\ Settled(b) /\ Settled(c) /\ Settled(d) /\ Settled(f) /\ Settled(g)
  BY <1>5, CallsRun, CallRuns
<1>7. Settled(e)
  <2>1. PICK v, w : /\ v = Host("store", l, 0, {"k_normed", "v_sconv"}, {})
                    /\ w = Host("scale", l, 0, {"q_normed"}, {"q_scaled"})
    OBVIOUS
  <2>2. Settled(<<v>>) /\ Settled(<<w>>)
    <3>1. "store" # "logits" /\ "scale" # "logits"
      OBVIOUS
    <3> QED BY <2>1, <3>1, SettledParts
  <2>3. Settled(<<v>> \o <<w>>)
    BY <2>2, SettledParts
  <2>4. <<v, w>> = <<v>> \o <<w>>
    BY PairIsConcat
  <2> QED BY <1>5, <2>1, <2>3, <2>4
<1>8. TinyAttention(l, n) =
        FlattenSeq(p1) \o a \o b \o c \o d \o e \o f \o g \o FlattenSeq(p2)
  BY <1>1, <1>3, <1>5 DEF TinyAttention, ForEach
<1>9. Settled(FlattenSeq(p1) \o a \o b \o c \o d)
  BY <1>2, <1>6, SettledParts
<1>10. Settled(FlattenSeq(p1) \o a \o b \o c \o d \o e \o f \o g \o FlattenSeq(p2))
  BY <1>4, <1>6, <1>7, <1>9, SettledParts
<1> QED BY <1>8, <1>10

\* gpu_mlp_dense_forward, gpu_mlp_moe_forward: a row's FFN.
LEMMA TinyFfnRuns == \A l, t : Settled(TinyDense(l, t)) /\ Settled(TinyMoe(l, t))
<1> SUFFICES ASSUME NEW l, NEW t PROVE Settled(TinyDense(l, t)) /\ Settled(TinyMoe(l, t))
  OBVIOUS
<1>1. ASSUME NEW op, NEW mid, NEW hm, NEW out, NEW to, Settled(mid)
      PROVE  Settled(Gated(op, l, t, mid, hm, out, to))
  <2>1. PICK a, b, c, d :
          /\ a = Call(op, l, <<"normed2">>, t, <<"n2">>, "gu", 0, "gu")
          /\ b = <<Host("gather", l, 0, {"gu"}, {"gbuf", "ubuf"})>>
          /\ c = Call("matvec", l, <<"gbuf", "ubuf">>, 0, <<"g", "u">>, "hbuf", 0, "hm")
          /\ d = Call(op, l, <<"hbuf">>, 0, <<hm>>, out, 0, to)
    OBVIOUS
  <2>2. Settled(a) /\ Settled(c) /\ Settled(d)
    BY <2>1, CallRuns
  <2>3. Settled(b)
    <3>1. "gather" # "logits"
      OBVIOUS
    <3> QED BY <2>1, <3>1, SettledParts
  <2>4. Settled(a \o b \o c \o mid \o d)
    BY <1>1, <2>2, <2>3, SettledParts
  <2> QED BY <2>1, <2>4 DEF Gated
<1>2. Settled(TinyDense(l, t))
  <2>1. PICK a, b : /\ a = Gated("matvec", l, t, <<>>, "hm", "yrow", "y")
                    /\ b = <<Host("gscale", l, t, {"yrow"}, {"mlp_out"})>>
    OBVIOUS
  <2>2. Settled(a)
    BY <1>1, <2>1, SettledParts
  <2>3. Settled(b)
    <3>1. "gscale" # "logits"
      OBVIOUS
    <3> QED BY <2>1, <3>1, SettledParts
  <2>4. Settled(a \o b)
    BY <2>2, <2>3, SettledParts
  <2> QED BY <2>1, <2>4 DEF TinyDense
<1>3. Settled(TinyMoe(l, t))
  <2>1. PICK a, b, c, d, e, g :
          /\ a = gpu_matvec_one(l, "normed2", t, "n2", "router_logits", 0, "ro")
          /\ b = <<Host("route", l, t, {"router_logits"}, {})>>
          /\ c = Gated("routed", l, t, <<>>, "hm", "routed_raw", "re")
          /\ g = <<Host("gamma", l, t, {"hbuf"}, {"hbuf"})>>
          /\ d = Gated("matvec", l, t, g, "hg", "shared_raw", "sh")
          /\ e = <<Host("blend", l, t, {"routed_raw", "shared_raw"}, {"mlp_out"})>>
    OBVIOUS
  <2>2. Settled(a)
    BY <2>1, CallsRun
  <2>3. Settled(b) /\ Settled(g) /\ Settled(e)
    <3>1. "route" # "logits" /\ "gamma" # "logits" /\ "blend" # "logits"
      OBVIOUS
    <3> QED BY <2>1, <3>1, SettledParts
  <2>4. Settled(c)
    BY <1>1, <2>1, SettledParts
  <2>5. Settled(d)
    BY <1>1, <2>1, <2>3
  <2>6. Settled(a \o b \o c \o d \o e)
    BY <2>2, <2>3, <2>4, <2>5, SettledParts
  <2> QED BY <2>1, <2>6 DEF TinyMoe
<1> QED BY <1>2, <1>3

\* gpu_decoder_layer_forward.
LEMMA TinyLayerRuns == \A l : \A n \in Nat \ {0} : Settled(TinyLayer(l, n))
<1> SUFFICES ASSUME NEW l, NEW n \in Nat \ {0} PROVE Settled(TinyLayer(l, n))
  OBVIOUS
<1>1. PICK p : p = [k \in 1..n |-> IF l \in Sparse THEN TinyMoe(l, k - 1) ELSE TinyDense(l, k - 1)]
  OBVIOUS
<1>2. Settled(FlattenSeq(p))
  <2>1. ASSUME NEW k \in 1..n PROVE Settled(p[k])
    BY <1>1, TinyFfnRuns
  <2>2. Len(p) = n
    BY <1>1
  <2> QED BY <2>1, <2>2, SettledFlatten
<1>3. PICK a, b, c, d, e, f :
        /\ a = MapCall(l, <<"x">>, <<"x">>, "normed", "n")
        /\ b = gpu_sconv_step(l, "attn_hist", "attn_out", "a", "attn_sconv_out", "as")
        /\ c = MapCall(l, <<"x", "attn_sconv_out">>, <<"x", "as">>, "x", "h")
        /\ d = MapCall(l, <<"x">>, <<"h">>, "normed2", "n2")
        /\ e = gpu_sconv_step(l, "mlp_hist", "mlp_out", "m", "mlp_sconv_out", "ms")
        /\ f = MapCall(l, <<"x", "mlp_sconv_out">>, <<"h", "ms">>, "x", "next")
  OBVIOUS
<1>4. Settled(a) /\ Settled(b) /\ Settled(c) /\ Settled(d) /\ Settled(e) /\ Settled(f)
  BY <1>3, CallsRun
<1>5. Settled(TinyAttention(l, n))
  BY TinyAttentionRuns
<1>6. Settled(a \o TinyAttention(l, n) \o b \o c \o d \o FlattenSeq(p) \o e \o f)
  BY <1>2, <1>4, <1>5, SettledParts
<1>7. TinyLayer(l, n) = a \o TinyAttention(l, n) \o b \o c \o d \o FlattenSeq(p) \o e \o f
  BY <1>1, <1>3 DEF TinyLayer, ForEach
<1> QED BY <1>6, <1>7

\* model_forward_chunk_gpu.
LEMMA TinyProgramRuns == \A n \in Nat \ {0} : Left(TinyProgram(n), "quiet")
<1> SUFFICES ASSUME NEW n \in Nat \ {0} PROVE Left(TinyProgram(n), "quiet")
  OBVIOUS
<1>1. NumLayers \in Nat \ {0}
  BY ForwardAssumption
<1>2. PICK p : p = [k \in 1..NumLayers |-> TinyLayer(k - 1, n)]
  OBVIOUS
<1>3. Settled(FlattenSeq(p))
  <2>1. \A k \in 1..NumLayers : Settled(p[k])
    BY <1>2, TinyLayerRuns
  <2>2. Len(p) = NumLayers
    BY <1>1, <1>2
  <2> QED BY <1>1, <2>1, <2>2, SettledFlatten
<1>4. PICK q : q = [k \in 1..n |->
        <<Host("mup", NumLayers, k - 1, {"final"}, {"hrow"})>>
        \o gpu_matvec_one(NumLayers, "hrow", 0, "hd", "logits_buf", k - 1, "lg")]
  OBVIOUS
<1>5. Settled(FlattenSeq(q))
  <2>1. ASSUME NEW k \in 1..n PROVE Settled(q[k])
    <3>1. "mup" # "logits"
      OBVIOUS
    <3>2. Settled(<<Host("mup", NumLayers, k - 1, {"final"}, {"hrow"})>>)
      BY <3>1, SettledParts
    <3>3. Settled(gpu_matvec_one(NumLayers, "hrow", 0, "hd", "logits_buf", k - 1, "lg"))
      BY CallsRun
    <3> QED BY <1>4, <3>2, <3>3, SettledParts
  <2>2. Len(q) = n
    BY <1>4
  <2> QED BY <2>1, <2>2, SettledFlatten
<1>6. PICK a, b : /\ a = MapCall(0, <<"x_raw">>, <<"e">>, "x", "x")
                  /\ b = MapCall(NumLayers, <<"x">>, <<"x">>, "final", "fn")
  OBVIOUS
<1>7. Settled(a) /\ Settled(b)
  BY <1>6, CallsRun
<1>8. Settled(a \o FlattenSeq(p) \o b \o FlattenSeq(q))
  BY <1>3, <1>5, <1>7, SettledParts
<1>9. TinyProgram(n) = a \o FlattenSeq(p) \o b \o FlattenSeq(q) \o <<LastStep>>
  BY <1>2, <1>4, <1>6 DEF TinyProgram, ForEach, LastStep
<1> QED BY <1>8, <1>9 DEF Left, Settled

-----------------------------------------------------------------------------
(* The process.                                                            *)

\* Taking the first instruction: what it may be, and what is left after it.
LEMMA TakeFirst ==
  ASSUME NEW u, NEW a, Left(u, a)
  PROVE  /\ u # <<>>
         /\ \/ Head(u) = LastStep /\ Tail(u) = <<>> /\ a = "quiet"
            \/ /\ ~EndsCall(Head(u))
               /\ Touches(Head(u)) => a = "quiet"
               /\ \A c : /\ Head(u).do = "end" => c = "quiet"
                         /\ a = "quiet" /\ Head(u).do # "encode" => c = "quiet"
                         => Left(Tail(u), c)
<1>1. PICK p : Runs(p, a, "quiet") /\ u = p \o <<LastStep>>
  BY DEF Left
<1>2. PICK S, Q :
        /\ p \in Seq(S) /\ (1 \in Q => a = "quiet") /\ Len(p) + 1 \in Q
        /\ \A k \in 1..Len(p) :
             /\ ~EndsCall(p[k])
             /\ Touches(p[k]) => k \in Q
             /\ k + 1 \in Q => p[k].do = "end" \/ (k \in Q /\ p[k].do # "encode")
  BY <1>1 DEF Runs
<1>3. PICK z : z = <<LastStep>>
  OBVIOUS
<1>4. z \in Seq(S \cup {LastStep}) /\ Len(z) = 1 /\ z[1] = LastStep /\ p \in Seq(S \cup {LastStep})
  BY <1>2, <1>3, SeqDef
<1>5. PICK n \in Nat : n = Len(p)
  BY <1>2, LenProperties
<1>6. /\ u \in Seq(S \cup {LastStep}) /\ Len(u) = n + 1
      /\ \A k \in 1..n + 1 : u[k] = IF k <= n THEN p[k] ELSE z[k - n]
  <2>1. /\ u \in Seq(S \cup {LastStep}) /\ Len(u) = Len(p) + Len(z)
        /\ \A k \in 1..Len(p) + Len(z) : u[k] = IF k <= Len(p) THEN p[k] ELSE z[k - Len(p)]
    BY <1>1, <1>3, <1>4, ConcatProperties
  <2> QED BY <1>4, <1>5, <2>1
<1>7. u # <<>>
  BY <1>5, <1>6, EmptySeq
<1>8. /\ Tail(u) \in Seq(S \cup {LastStep}) /\ Len(Tail(u)) = n
      /\ \A k \in 1..n : Tail(u)[k] = u[k + 1]
  <2>1. /\ Tail(u) \in Seq(S \cup {LastStep}) /\ Len(Tail(u)) = Len(u) - 1
        /\ \A k \in 1..Len(Tail(u)) : Tail(u)[k] = u[k + 1]
    BY <1>6, <1>7, HeadTailProperties
  <2> QED BY <1>5, <1>6, <2>1
<1>9. Head(u) = u[1]
  BY <1>6, <1>7
<1>10. CASE n = 0
  <2>1. u[1] = z[1]
    BY <1>6, <1>10
  <2>2. Tail(u) = <<>>
    BY <1>8, <1>10, EmptySeq
  <2>3. 1 \in Q
    BY <1>2, <1>5, <1>10
  <2> QED BY <1>2, <1>4, <1>7, <1>9, <2>1, <2>2, <2>3
<1>11. CASE n # 0
  <2>1. 1 \in 1..Len(p) /\ u[1] = p[1]
    BY <1>5, <1>6, <1>11
  <2>2. ~EndsCall(Head(u)) /\ (Touches(Head(u)) => a = "quiet")
    BY <1>2, <1>9, <2>1
  <2>3. ASSUME NEW c, Head(u).do = "end" => c = "quiet",
               a = "quiet" /\ Head(u).do # "encode" => c = "quiet"
        PROVE  Left(Tail(u), c)
    <3>1. PICK r : r = Tail(p)
      OBVIOUS
    <3>2. r \in Seq(S) /\ Len(r) = n - 1 /\ \A k \in 1..n - 1 : r[k] = p[k + 1]
      <4>1. p # <<>>
        BY <1>5, <1>11, EmptySeq
      <4> QED BY <1>2, <1>5, <3>1, <4>1, HeadTailProperties
    <3>3. PICK R : R = {k \in 1..n : k + 1 \in Q}
      OBVIOUS
    <3>4. 1 \in R => c = "quiet"
      <4>1. 1 \in R => 1 + 1 \in Q
        BY <3>3
      <4>2. 1 \in R => p[1].do = "end" \/ (1 \in Q /\ p[1].do # "encode")
        BY <1>2, <2>1, <4>1
      <4> QED BY <1>2, <1>9, <2>1, <2>3, <4>2
    <3>5. Len(r) + 1 \in R
      BY <1>2, <1>5, <1>11, <3>2, <3>3
    <3>6. ASSUME NEW k \in 1..Len(r)
          PROVE  /\ ~EndsCall(r[k])
                 /\ Touches(r[k]) => k \in R
                 /\ k + 1 \in R => r[k].do = "end" \/ (k \in R /\ r[k].do # "encode")
      <4>1. PICK j \in 1..Len(p) : j = k + 1
        BY <1>5, <3>2
      <4>2. r[k] = p[j] /\ (k \in R <=> j \in Q) /\ (k + 1 \in R => j + 1 \in Q)
        BY <1>5, <3>2, <3>3, <4>1
      <4> QED BY <1>2, <4>2
    <3>7. Runs(r, c, "quiet")
      BY <3>2, <3>4, <3>5, <3>6 DEF Runs
    <3>8. Tail(u) = r \o z
      <4>1. r \in Seq(S \cup {LastStep})
        BY <3>2, SeqDef
      <4>2. PICK m \in Nat : m = n - 1
        BY <1>11
      <4>3. /\ r \o z \in Seq(S \cup {LastStep}) /\ Len(r \o z) = m + 1
            /\ \A k \in 1..m + 1 : (r \o z)[k] = IF k <= m THEN r[k] ELSE z[k - m]
        <5>1. /\ r \o z \in Seq(S \cup {LastStep}) /\ Len(r \o z) = Len(r) + Len(z)
              /\ \A k \in 1..Len(r) + Len(z) :
                   (r \o z)[k] = IF k <= Len(r) THEN r[k] ELSE z[k - Len(r)]
          BY <1>4, <4>1, ConcatProperties, ZenonT(40)
        <5> QED BY <1>4, <3>2, <4>2, <5>1
      <4>4. \A k \in 1..Len(Tail(u)) : Tail(u)[k] = (r \o z)[k]
        <5> TAKE k \in 1..Len(Tail(u))
        <5>1. k \in 1..m + 1 /\ Tail(u)[k] = u[k + 1] /\ k + 1 \in 1..n + 1
          BY <1>8, <4>2
        <5>2. (r \o z)[k] = IF k <= m THEN r[k] ELSE z[k - m]
          BY <4>3, <5>1
        <5>3. CASE k <= m
          <6>1. u[k + 1] = p[k + 1] /\ r[k] = p[k + 1]
            BY <1>6, <3>2, <4>2, <5>1, <5>3
          <6> QED BY <5>1, <5>2, <5>3, <6>1
        <5>4. CASE k = m + 1
          <6>1. u[k + 1] = z[1] /\ k - m = 1
            BY <1>6, <4>2, <5>1, <5>4
          <6>2. ~(k <= m)
            BY <4>2, <5>4
          <6> QED BY <5>1, <5>2, <6>1, <6>2
        <5>5. k <= m \/ k = m + 1
          BY <4>2, <5>1
        <5> QED BY <5>3, <5>4, <5>5
      <4>5. Len(Tail(u)) = Len(r \o z)
        BY <1>8, <4>2, <4>3
      <4> QED BY <1>8, <4>3, <4>4, <4>5, SeqEqual
    <3> QED BY <1>3, <3>7, <3>8 DEF Left
  <2> QED BY <1>7, <2>2, <2>3
<1> QED BY <1>5, <1>10, <1>11

\* What is known of the queue.
Queue == IF batch = <<>> THEN "quiet" ELSE "busy"

\* Between calls nothing is left to do; in one, what is left can be run from here.
CallInv ==
  \/ todo = <<>> /\ batch = <<>>
  \/ pc = "attn" /\ Left(todo, Queue)

\* The host touches a buffer only while nothing at all is queued.
LEMMA CallInvExcludes == CallInv => HostTouchesQuiescent
<1> SUFFICES ASSUME CallInv, todo # <<>>, Head(todo).do = "host", NEW k \in 1..Len(batch)
             PROVE  LET d == batch[k]
                    IN  /\ d.out \notin Head(todo).reads \cup Head(todo).writes
                        /\ \A j \in DOMAIN d.in : d.in[j] \notin Head(todo).writes
  BY DEF HostTouchesQuiescent
<1>1. Left(todo, Queue)
  BY DEF CallInv
<1>2. \/ Head(todo) = LastStep /\ Queue = "quiet"
      \/ Touches(Head(todo)) => Queue = "quiet"
  BY <1>1, TakeFirst
<1>3. CASE Queue = "quiet"
  <2>1. batch = <<>>
    BY <1>3 DEF Queue
  <2>2. Len(batch) = 0
    BY <2>1
  <2> QED BY <2>2
<1>4. CASE ~Touches(Head(todo))
  <2>1. Head(todo).reads \cup Head(todo).writes = {}
    BY <1>4 DEF Touches
  <2> QED BY <2>1
<1> QED BY <1>2, <1>3, <1>4

\* A step of the host.
LEMMA HostStepKeeps ==
  ASSUME CallInv, todo # <<>>, todo' = Tail(todo), pc' = pc \/ EndsCall(Head(todo)),
         Head(todo).do = "end" => batch' = <<>>,
         Head(todo).do # "encode" => batch' = batch
  PROVE  CallInv'
<1>1. Left(todo, Queue) /\ pc = "attn"
  BY DEF CallInv
<1>2. CASE Head(todo) = LastStep /\ Tail(todo) = <<>> /\ Queue = "quiet"
  <2>1. Head(todo).do = "host"
    BY <1>2, HostFields DEF LastStep
  <2>2. batch' = <<>>
    BY <1>2, <2>1 DEF Queue
  <2> QED BY <1>2, <2>2 DEF CallInv
<1>3. CASE /\ ~EndsCall(Head(todo))
           /\ \A c : /\ Head(todo).do = "end" => c = "quiet"
                     /\ Queue = "quiet" /\ Head(todo).do # "encode" => c = "quiet"
                     => Left(Tail(todo), c)
  <2>1. PICK c : c = IF batch' = <<>> THEN "quiet" ELSE "busy"
    OBVIOUS
  <2>2. Head(todo).do = "end" => c = "quiet"
    BY <2>1
  <2>3. Queue = "quiet" /\ Head(todo).do # "encode" => c = "quiet"
    BY <2>1 DEF Queue
  <2>4. Left(Tail(todo), c)
    BY <1>3, <2>2, <2>3
  <2>5. Left(todo, Queue)'
    BY <2>1, <2>4 DEF Left, Queue, LastStep, Host
  <2> QED BY <1>1, <1>3, <2>5 DEF CallInv
<1> QED BY <1>1, <1>2, <1>3, TakeFirst

\* The GPU may only make the queue quieter than it is thought to be.
LEMMA GpuStepKeeps ==
  ASSUME CallInv, batch # <<>>, todo' = todo, pc' = pc
  PROVE  CallInv'
<1>1. pc = "attn" /\ Left(todo, "busy")
  BY DEF CallInv, Queue
<1>2. \A c : Left(todo, c)
  BY <1>1, RunsWeaker DEF Left
<1>3. Left(todo, Queue)'
  <2>1. PICK c : c = IF batch' = <<>> THEN "quiet" ELSE "busy"
    OBVIOUS
  <2> QED BY <1>2, <2>1 DEF Left, Queue, LastStep, Host
<1> QED BY <1>1, <1>3 DEF CallInv

\* Every step of either model keeps CallInv.
LEMMA CallStep == CallInv /\ [PathsNext]_<<forwardGpuVars, path>> => CallInv'
<1> SUFFICES ASSUME CallInv, [PathsNext]_<<forwardGpuVars, path>> PROVE CallInv'
  OBVIOUS
<1> USE DEF gpuVars, forwardVars
<1>1. CASE (\E n \in 0..MaxCap : CacheCreate(n)) /\ UNCHANGED gpuVars
  BY <1>1 DEF CacheCreate, CallInv
<1>2. CASE CacheFree /\ UNCHANGED gpuVars
  BY <1>2 DEF CacheFree, CallInv
<1>3. ASSUME NEW n \in 0..MaxCap, NextChunkGpu(n) \/ NextChunkTiny(n) PROVE CallInv'
  <2>1. /\ pc = "idle" /\ pc' = "attn" /\ n > 0 /\ batch' = batch
        /\ todo' = Program(n) \/ todo' = TinyProgram(n)
    BY <1>3 DEF NextChunkGpu, ForwardGpu, Forward, NextChunkTiny, ForwardTiny
  <2>2. batch = <<>> /\ n \in Nat \ {0}
    BY <2>1, ForwardAssumption DEF CallInv
  <2>3. PICK u : u = todo' /\ Left(u, "quiet")
    BY <2>1, <2>2, ProgramRuns, TinyProgramRuns
  <2>4. Left(todo, Queue)'
    BY <2>1, <2>2, <2>3 DEF Left, Queue, LastStep, Host
  <2> QED BY <2>1, <2>4 DEF CallInv
<1>4. CASE BeginBatch
  <2>1. todo # <<>> /\ Head(todo).do = "begin" /\ todo' = Tail(todo) /\ pc' = pc /\ batch' = batch
    BY <1>4 DEF BeginBatch, Do
  <2> QED BY <2>1, HostStepKeeps
<1>5. CASE EncodeDispatch
  <2>1. todo # <<>> /\ Head(todo).do = "encode" /\ todo' = Tail(todo) /\ pc' = pc
    BY <1>5 DEF EncodeDispatch, Do
  <2> QED BY <2>1, HostStepKeeps
<1>6. CASE EndBatch
  <2>1. /\ todo # <<>> /\ Head(todo).do = "end" /\ todo' = Tail(todo) /\ pc' = pc
        /\ batch' = batch /\ batch = <<>>
    BY <1>6 DEF EndBatch, Do
  <2> QED BY <2>1, HostStepKeeps
<1>7. CASE HostLen \/ HostTau \/ HostRoute \/ HostMix \/ HostMemcpy \/ HostFinal
  <2>1. todo # <<>> /\ Head(todo).do = "host" /\ todo' = Tail(todo) /\ pc' = pc /\ batch' = batch
    BY <1>7 DEF HostLen, HostTau, HostRoute, HostMix, HostMemcpy, HostFinal, HostStep, Do
  <2> QED BY <2>1, HostStepKeeps
<1>8. CASE HostLogits
  <2>1. /\ todo # <<>> /\ Head(todo).do = "host" /\ todo' = Tail(todo) /\ batch' = batch
        /\ Head(todo).step = "logits"
    BY <1>8 DEF HostLogits, HostStep, Do
  <2> QED BY <2>1, HostStepKeeps DEF EndsCall
<1>9. CASE \/ HostUpload \/ HostReadBack \/ HostRoll \/ HostStore \/ HostScale
           \/ HostGather \/ HostGamma \/ HostGscale \/ HostBlend \/ HostMup
  <2>1. todo # <<>> /\ Head(todo).do = "host" /\ todo' = Tail(todo) /\ pc' = pc /\ batch' = batch
    BY <1>9 DEF HostUpload, HostReadBack, HostRoll, HostStore, HostScale, HostGather, HostGamma,
                HostGscale, HostBlend, HostMup, TinyArray, TinyHost, HostStep, Do
  <2> QED BY <2>1, HostStepKeeps
<1>10. CASE \/ GpuMap \/ GpuMatvec \/ GpuRouted \/ GpuRowIn \/ GpuRowOut \/ GpuSconv \/ GpuAttn
            \/ GpuRoll \/ GpuStore \/ GpuConv \/ GpuBanded
  <2>1. batch # <<>> /\ todo' = todo /\ pc' = pc
    BY <1>10 DEF GpuMap, GpuMatvec, GpuRouted, GpuRowIn, GpuRowOut, GpuSconv, GpuAttn, GpuRoll,
                 GpuStore, GpuConv, GpuBanded, GpuScratch, GpuCache, Retire
  <2> QED BY <2>1, GpuStepKeeps
<1>11. CASE UNCHANGED <<forwardGpuVars, path>>
  <2>1. todo' = todo /\ batch' = batch /\ pc' = pc
    BY <1>11 DEF forwardGpuVars
  <2>2. Left(todo, Queue) => Left(todo, Queue)'
    BY <2>1 DEF Left, Queue, LastStep, Host
  <2> QED BY <2>1, <2>2 DEF CallInv
<1> QED
  <2>1. CASE path = "real" /\ ForwardGpuNext
    BY <1>1, <1>2, <1>3, <1>4, <1>5, <1>6, <1>7, <1>8, <1>10, <2>1 DEF ForwardGpuNext
  <2>2. CASE path = "tiny" /\ TinyNext
    BY <1>1, <1>2, <1>3, <1>4, <1>5, <1>6, <1>7, <1>8, <1>9, <1>10, <2>2 DEF TinyNext
  <2> QED BY <1>11, <2>1, <2>2 DEF PathsNext

\* Whichever model the process runs, every upload, host computation and readback of the
\* GPU forward pass comes after the sync it needs: for any number of layers, sparse or
\* dense, and any chunks, the host never touches what a queued dispatch may still use.
THEOREM HostTouchesOnlyQuiescent == PathsSpec => []HostTouchesQuiescent
<1>1. PathsInit => CallInv
  BY DEF PathsInit, ForwardGpuInit, CallInv
<1> QED BY <1>1, CallStep, CallInvExcludes, PTL DEF PathsSpec

-----------------------------------------------------------------------------
(* What the arrays of the GPU forward pass hold.  A fact <<at, m, l, kind, *)
(* off>> says that the first m rows of array `at` are the frames of layer  *)
(* l and that kind, from position off on.  `at` is a buffer, an array of   *)
(* one layer's cache, or a part of the host's own state.                   *)

Scratch == -1
HostSide == -2
Lens == -3

Fact(b, m, l, kind, off) == <<<<Scratch, b>>, m, l, kind, off>>
Cached(l, b, m, kind, off) == <<<<l, b>>, m, l, kind, off>>
OutFact(m, l, kind, off) == <<<<HostSide, "out_host">>, m, l, kind, off>>

\* topk_idx names the experts of router row e; layers[l].len is m; no batch is open.
TopK(e) == <<<<HostSide, "topk">>, e>>
LenIs(l, m) == <<<<Lens, l>>, m>>
Shut == <<<<HostSide, "shut">>>>

\* The first m rows, of which there may be none yet.
Part(b, m, l, kind, off) == IF m = 0 THEN {} ELSE {Fact(b, m, l, kind, off)}
OutPart(m, l, kind, off) == IF m = 0 THEN {} ELSE {OutFact(m, l, kind, off)}

\* The facts that only a step of the host makes or breaks, whatever is queued.
OfHost(f) == f[1] = <<HostSide, "topk">> \/ f[1][1] = Lens

HistNames == {"k_hist", "v_hist", "attn_hist", "mlp_hist"}
CacheNames == HistNames \cup {"k", "v"}

Are(rows, f) == \A j \in 0..f[2] - 1 : rows[j] = Frame(f[3], f[4], f[5] + j)

IsHist(rows) == rows = [j \in 0..Km1 - 1 |-> rows[j]]

Holds(f) ==
  /\ \E a, b : f[1] = <<a, b>>
  /\ f[1][1] = Scratch => f[1][2] \in DOMAIN mem \cup {"x"} /\ Are(Content(f[1][2]), f)
  /\ f[1][1] \in Layer =>
       /\ f[1][2] \in CacheNames /\ Are(layers[f[1][1]][f[1][2]], f)
       /\ f[1][2] \in HistNames => IsHist(layers[f[1][1]][f[1][2]])
  /\ f[1][1] = Lens => f[1][2] \in Layer /\ layers[f[1][2]].len = f[2]
  /\ f[1] = <<HostSide, "out_host">> => Are(out_host, f)
  /\ f[1] = <<HostSide, "topk">> => topk_idx = f[2]
  /\ f[1] = <<HostSide, "shut">> => ~encoding

-----------------------------------------------------------------------------
(* What a dispatch makes of the facts K: the fact f about its output.  c   *)
(* is the call, c.arrays its buffers with a row for every token.           *)

Writable(c) == c.arrays \cup {"x"}

\* Row 0 of every input is the row of position p.
FirstRows(d, K, p) ==
  /\ 1 \in DOMAIN d.in
  /\ \A j \in DOMAIN d.in : \E m \in Nat \ {0} : Fact(d.in[j], m, d.l, d.from[j], p) \in K

MapMakes(c, d, K, f) ==
  \E off \in Nat :
    /\ d.out \in Writable(c) /\ 1 \in DOMAIN d.in
    /\ \A j \in DOMAIN d.in : Fact(d.in[j], c.T, d.l, d.from[j], off) \in K
    /\ f = IF d.to = "next" THEN Fact(d.out, c.T, d.l + 1, "x", off)
           ELSE Fact(d.out, c.T, d.l, d.to, off)

MatvecMakes(c, d, K, f) ==
  \E p \in Nat :
    /\ d.out \in c.arrays /\ d.to # "next" /\ FirstRows(d, K, p)
    /\ f = Fact(d.out, 1, d.l, d.to, p)

\* The experts are those that the router chose for the same row.
RoutedMakes(c, d, K, e, f) ==
  \E p \in Nat :
    /\ d.out \in c.arrays /\ d.to # "next" /\ FirstRows(d, K, p)
    /\ e = <<d.l, "ro", p>>
    /\ f = Fact(d.out, 1, d.l, d.to, p)

RowInMakes(c, d, K, f) ==
  \E m \in Nat, off \in Nat : \E l, kind :
    /\ d.out \in c.arrays /\ d.l \in 0..m - 1
    /\ Fact(d.in[1], m, l, kind, off) \in K
    /\ f = Fact(d.out, 1, l, kind, off + d.l)

RowOutMakes(c, d, K, f) ==
  \E m \in Nat \ {0}, off \in Nat : \E l, kind :
    /\ d.out \in c.arrays /\ d.l \in 0..c.T - 1
    /\ Fact(d.in[1], m, l, kind, off + d.l) \in K
    /\ Part(d.out, d.l, l, kind, off) \subseteq K
    /\ f = Fact(d.out, d.l + 1, l, kind, off)

SconvMakes(c, d, K, hist, f) ==
  \E off \in Nat :
    /\ d.out \in Writable(c)
    /\ Fact(d.in[1], c.T, d.l, d.from[1], off) \in K
    /\ <<hist, Km1, d.l, d.from[1], off - Km1>> \in K
    /\ f = Fact(d.out, c.T, d.l, d.to, off)

AttnMakes(c, d, K, k, v, f) ==
  /\ d.out \in Writable(c) /\ d.l \in Layer
  /\ Fact(d.in[1], c.T, d.l, "q", c.start_pos) \in K
  /\ Fact(d.in[2], c.T, d.l, "r", c.start_pos) \in K
  /\ <<k, c.start_pos + c.T, d.l, "ks", 0>> \in K
  /\ <<v, c.start_pos + c.T, d.l, "vs", 0>> \in K
  /\ f = Fact(d.out, c.T, d.l, d.to, c.start_pos)

\* A roll and a store, of the host as well: in is the array of the new rows.
RollMakes(c, l, hist, in, K, f) ==
  \E off \in Nat : \E kind :
    /\ l \in Layer /\ hist \in HistNames
    /\ Cached(l, hist, Km1, kind, off - Km1) \in K
    /\ Fact(in, c.T, l, kind, off) \in K
    /\ f = Cached(l, hist, Km1, kind, off + c.T - Km1)

StoreMakes(c, l, cells, in, K, f) ==
  \E kind :
    /\ l \in Layer /\ cells \in {"k", "v"}
    /\ Cached(l, cells, c.start_pos, kind, 0) \in K
    /\ Fact(in, c.T, l, kind, c.start_pos) \in K
    /\ f = Cached(l, cells, c.start_pos + c.T, kind, 0)

Makes(c, d, K, e, f) ==
  \/ d.op = "map" /\ MapMakes(c, d, K, f)
  \/ d.op = "matvec" /\ MatvecMakes(c, d, K, f)
  \/ d.op = "routed" /\ RoutedMakes(c, d, K, e, f)
  \/ d.op = "row_in" /\ RowInMakes(c, d, K, f)
  \/ d.op = "row_out" /\ RowOutMakes(c, d, K, f)
  \/ d.op = "sconv" /\ d.l \in Layer /\ d.in[2] \in HistNames
     /\ SconvMakes(c, d, K, <<d.l, d.in[2]>>, f)
  \/ d.op = "conv" /\ SconvMakes(c, d, K, <<Scratch, d.in[2]>>, f)
  \/ d.op = "attn" /\ AttnMakes(c, d, K, <<d.l, "k">>, <<d.l, "v">>, f)
  \/ d.op = "banded" /\ AttnMakes(c, d, K, <<Scratch, d.in[3]>>, <<Scratch, d.in[4]>>, f)
  \/ d.op = "roll" /\ RollMakes(c, d.l, d.out, d.in[1], K, f)
  \/ d.op = "store" /\ StoreMakes(c, d.l, d.out, d.in[1], K, f)

Target(d) == IF d.op \in {"roll", "store"} THEN <<d.l, d.out>> ELSE <<Scratch, d.out>>

-----------------------------------------------------------------------------
(* What a step of the host makes: of the arrays W it writes, the facts F.  *)

LenChanges(c, w, K, W, F) ==
  /\ w.l \in Layer /\ LenIs(w.l, c.start_pos) \in K
  /\ W = {<<Lens, w.l>>} /\ F = {LenIs(w.l, c.start_pos + c.T)}

TauChanges(c, w, K, W, F) ==
  \E off \in Nat :
    /\ "q_normed" \in c.arrays
    /\ Fact("q_normed", c.T, w.l, "qn", off) \in K
    /\ W = {<<Scratch, "q_normed">>} /\ F = {Fact("q_normed", c.T, w.l, "q", off)}

RouteChanges(c, w, K, W, F) ==
  \E m \in Nat \ {0}, p \in Nat : \E l :
    /\ Fact("router_logits", m, l, "ro", p) \in K
    /\ W = {<<HostSide, "topk">>} /\ F = {TopK(<<l, "ro", p>>)}

\* The weighted sum is of the rows of the same position.
MixedAt(K, l, p) ==
  \E m1, m2 \in Nat \ {0} :
    Fact("routed_raw", m1, l, "re", p) \in K /\ Fact("shared_raw", m2, l, "sh", p) \in K

MixChanges(c, w, K, W, F) ==
  \E off \in Nat :
    /\ w.t \in 0..c.T - 1
    /\ MixedAt(K, w.l, off + w.t) /\ OutPart(w.t, w.l, "m", off) \subseteq K
    /\ W = {<<HostSide, "out_host">>} /\ F = {OutFact(w.t + 1, w.l, "m", off)}

MemcpyChanges(c, w, K, W, F) ==
  \E m, off \in Nat : \E l, kind :
    /\ "mlp_out" \in c.arrays
    /\ OutFact(m, l, kind, off) \in K
    /\ W = {<<Scratch, "mlp_out">>} /\ F = {Fact("mlp_out", m, l, kind, off)}

FinalChanges(c, w, K, W, F) ==
  \E off \in Nat :
    /\ "final" \in c.arrays
    /\ Fact("x", c.T, NumLayers, "x", off) \in K
    /\ W = {<<Scratch, "final">>} /\ F = {Fact("final", c.T, NumLayers, "fn", off)}

\* What device array b holds when `name` was copied to it.
UploadMakes(c, w, K, name, b, f) ==
  \E m, off \in Nat : \E o \in Int : \E l, kind :
    \/ /\ name \in {"k", "v"} /\ w.l \in Layer
       /\ Cached(w.l, name, c.start_pos + c.T, kind, 0) \in K
       /\ f = Fact(b, c.start_pos + c.T, w.l, kind, 0)
    \/ /\ name \in HistNames /\ w.l \in Layer
       /\ Cached(w.l, name, Km1, kind, o) \in K
       /\ f = Fact(b, Km1, w.l, kind, o)
    \/ /\ name \notin CacheNames /\ w.t = All
       /\ Fact(name, m, l, kind, off) \in K /\ f = Fact(b, m, l, kind, off)
    \/ /\ name \notin CacheNames /\ w.t \in 0..m - 1
       /\ Fact(name, m, l, kind, off) \in K /\ f = Fact(b, 1, l, kind, off + w.t)

UploadChanges(c, w, K, W, F) ==
  /\ W = {Scratch} \X DOMAIN Devices
  /\ \A f \in F : \E b \in DOMAIN Devices :
       Devices[b] \in DOMAIN w.in /\ UploadMakes(c, w, K, w.in[Devices[b]], b, f)

ReadBackChanges(c, w, K, W, F) ==
  \E m, off \in Nat : \E l, kind :
    /\ W = {<<Scratch, w.out>>}
    /\ \/ /\ w.t = All /\ w.out \in Writable(c)
          /\ Fact("dev_out", m, l, kind, off) \in K
          /\ F = {Fact(w.out, m, l, kind, off)}
       \/ /\ w.t \in 0..c.T - 1 /\ w.out \in c.arrays /\ m # 0
          /\ Part(w.out, w.t, l, kind, off) \subseteq K
          /\ Fact("dev_out", m, l, kind, off + w.t) \in K
          /\ F = {Fact(w.out, w.t + 1, l, kind, off)}

HistChanges(c, w, K, W, F) ==
  /\ W = {<<w.l, w.hist>>} /\ w.in # "x"
  /\ \E f : RollMakes(c, w.l, w.hist, w.in, K, f) /\ F = {f}

StoreChanges(c, w, K, W, F) ==
  \E kc, vc :
    /\ LenIs(w.l, c.start_pos) \in K
    /\ StoreMakes(c, w.l, "k", "k_normed", K, kc) /\ StoreMakes(c, w.l, "v", "v_sconv", K, vc)
    /\ W = {<<w.l, "k">>, <<w.l, "v">>, <<Lens, w.l>>}
    /\ F = {kc, vc, LenIs(w.l, c.start_pos + c.T)}

ScaleChanges(c, w, K, W, F) ==
  \E off \in Nat :
    /\ "q_scaled" \in c.arrays
    /\ Fact("q_normed", c.T, w.l, "qn", off) \in K
    /\ W = {<<Scratch, "q_scaled">>} /\ F = {Fact("q_scaled", c.T, w.l, "q", off)}

GatherChanges(c, w, K, W, F) ==
  \E m \in Nat \ {0}, p \in Nat :
    /\ {"gbuf", "ubuf"} \subseteq c.arrays
    /\ Fact("gu", m, w.l, "gu", p) \in K
    /\ W = {<<Scratch, "gbuf">>, <<Scratch, "ubuf">>}
    /\ F = {Fact("gbuf", 1, w.l, "g", p), Fact("ubuf", 1, w.l, "u", p)}

GammaChanges(c, w, K, W, F) ==
  \E m \in Nat \ {0}, p \in Nat :
    /\ "hbuf" \in c.arrays
    /\ Fact("hbuf", m, w.l, "hm", p) \in K
    /\ W = {<<Scratch, "hbuf">>} /\ F = {Fact("hbuf", 1, w.l, "hg", p)}

\* Row t of mlp_out, after the rows before it.
NextMlpRow(c, w, K, W, F, off) ==
  /\ "mlp_out" \in c.arrays /\ w.t \in 0..c.T - 1
  /\ Part("mlp_out", w.t, w.l, "m", off) \subseteq K
  /\ W = {<<Scratch, "mlp_out">>} /\ F = {Fact("mlp_out", w.t + 1, w.l, "m", off)}

GscaleChanges(c, w, K, W, F) ==
  \E off \in Nat, m \in Nat \ {0} :
    NextMlpRow(c, w, K, W, F, off) /\ Fact("yrow", m, w.l, "y", off + w.t) \in K

BlendChanges(c, w, K, W, F) ==
  \E off \in Nat : NextMlpRow(c, w, K, W, F, off) /\ MixedAt(K, w.l, off + w.t)

MupChanges(c, w, K, W, F) ==
  \E m, off \in Nat :
    /\ "hrow" \in c.arrays /\ w.t \in 0..m - 1
    /\ Fact("final", m, NumLayers, "fn", off) \in K
    /\ W = {<<Scratch, "hrow">>} /\ F = {Fact("hrow", 1, NumLayers, "hd", off + w.t)}

HostChanges(c, w, K, W, F) ==
  \/ w.step = "tau" /\ TauChanges(c, w, K, W, F)
  \/ w.step = "route" /\ RouteChanges(c, w, K, W, F)
  \/ w.step = "mix" /\ MixChanges(c, w, K, W, F)
  \/ w.step = "memcpy" /\ MemcpyChanges(c, w, K, W, F)
  \/ w.step = "final" /\ FinalChanges(c, w, K, W, F)
  \/ w.step = "upload" /\ UploadChanges(c, w, K, W, F)
  \/ w.step = "readback" /\ ReadBackChanges(c, w, K, W, F)
  \/ w.step = "roll" /\ HistChanges(c, w, K, W, F)
  \/ w.step = "store" /\ StoreChanges(c, w, K, W, F)
  \/ w.step = "scale" /\ ScaleChanges(c, w, K, W, F)
  \/ w.step = "gather" /\ GatherChanges(c, w, K, W, F)
  \/ w.step = "gamma" /\ GammaChanges(c, w, K, W, F)
  \/ w.step = "gscale" /\ GscaleChanges(c, w, K, W, F)
  \/ w.step = "blend" /\ BlendChanges(c, w, K, W, F)
  \/ w.step = "mup" /\ MupChanges(c, w, K, W, F)

-----------------------------------------------------------------------------
(* Instructions and programs.                                              *)

DispatchFields == {"op", "l", "in", "from", "out", "to", "experts"}

\* Of the arrays W that instruction w may change, run where K holds, F is known after it.
Changes(c, w, K, W, F) ==
  \/ w.do = "begin" /\ W = {<<HostSide, "shut">>} /\ F = {}
  \/ w.do = "end" /\ W = {} /\ F = {Shut}
  \/ /\ w.do = "encode" /\ DOMAIN w.d = DispatchFields /\ W = {Target(w.d)}
     /\ \E e, f : (w.d.op = "routed" => TopK(e) \in K) /\ Makes(c, w.d, K, e, f) /\ F = {f}
  \/ w.do = "host" /\ w.step = "len" /\ LenChanges(c, w, K, W, F)
  \/ w.do = "host" /\ Touches(w) /\ HostChanges(c, w, K, W, F)

Post(K, W, F) == F \cup {f \in K : f[1] \notin W}

Leads(c, w, K, L) ==
  /\ ~EndsCall(w)
  /\ \E W, F : Changes(c, w, K, W, F) /\ L \subseteq Post(K, W, F)

\* Program p leads from where A holds to where B does.
Reaches(c, p, A, B) ==
  \E S, Ks :
    /\ p \in Seq(S) /\ Ks[1] \subseteq A /\ B \subseteq Ks[Len(p) + 1]
    /\ \A k \in 1..Len(p) : Leads(c, p[k], Ks[k], Ks[k + 1])

\* Where A holds p makes B, and all that holds of the arrays outside W stays.
Does(c, p, W, A, B) == \A K : A \subseteq K => Reaches(c, p, K, Post(K, W, B))

-----------------------------------------------------------------------------
(* Programs and what they make: how the parts of a program are put         *)
(* together.                                                               *)

\* More may hold before and less be asked after.
LEMMA ReachesWeaker ==
  ASSUME NEW c, NEW p, NEW A, NEW B, NEW K, NEW L, Reaches(c, p, A, B), A \subseteq K,
         L \subseteq B
  PROVE  Reaches(c, p, K, L)
BY DEF Reaches

\* The empty program reaches all it starts from.
LEMMA EmptyReaches ==
  ASSUME NEW c, NEW A, NEW B, B \subseteq A
  PROVE  Reaches(c, <<>>, A, B)
<1>1. <<>> \in Seq({}) /\ Len(<<>>) = 0
  BY EmptySeq
<1>2. PICK Ks : Ks = [k \in {1} |-> A]
  OBVIOUS
<1>3. Ks[1] \subseteq A /\ B \subseteq Ks[Len(<<>>) + 1]
  BY <1>1, <1>2
<1> QED BY <1>1, <1>3 DEF Reaches

\* A program reaches what its second part does, started from what the first reaches.
LEMMA ConcatReaches ==
  ASSUME NEW c, NEW p, NEW r, NEW A, NEW B, NEW C, Reaches(c, p, A, B), Reaches(c, r, B, C)
  PROVE  Reaches(c, p \o r, A, C)
<1>1. PICK S1, Ks :
        /\ p \in Seq(S1) /\ Ks[1] \subseteq A /\ B \subseteq Ks[Len(p) + 1]
        /\ \A k \in 1..Len(p) : Leads(c, p[k], Ks[k], Ks[k + 1])
  BY DEF Reaches
<1>2. PICK S2, Ls :
        /\ r \in Seq(S2) /\ Ls[1] \subseteq B /\ C \subseteq Ls[Len(r) + 1]
        /\ \A k \in 1..Len(r) : Leads(c, r[k], Ls[k], Ls[k + 1])
  BY DEF Reaches
<1>3. p \in Seq(S1 \cup S2) /\ r \in Seq(S1 \cup S2)
  BY <1>1, <1>2, SeqDef
<1>4. PICK m \in Nat, n \in Nat : m = Len(p) /\ n = Len(r)
  BY <1>3, LenProperties
<1>5. PICK w : w = p \o r
  OBVIOUS
<1>6. /\ w \in Seq(S1 \cup S2) /\ Len(w) = m + n
      /\ \A k \in 1..m + n : w[k] = IF k <= m THEN p[k] ELSE r[k - m]
  BY <1>3, <1>4, <1>5, ConcatProperties
<1>7. PICK Ms : Ms = [k \in 1..m + n + 1 |-> IF k <= m THEN Ks[k] ELSE Ls[k - m]]
  OBVIOUS
<1>8. Ms[1] \subseteq A
  <2>1. CASE 1 <= m
    BY <1>1, <1>7, <2>1
  <2>2. CASE m = 0
    <3>1. Ms[1] = Ls[1] /\ B \subseteq Ks[1]
      BY <1>1, <1>4, <1>7, <2>2
    <3> QED BY <1>1, <1>2, <3>1
  <2> QED BY <2>1, <2>2
<1>9. C \subseteq Ms[Len(w) + 1]
  <2>1. Len(w) + 1 = m + n + 1 /\ (m + n + 1) - m = n + 1 /\ m + n + 1 > m
    BY <1>6
  <2>2. Ms[Len(w) + 1] = Ls[n + 1]
    BY <1>7, <2>1
  <2> QED BY <1>2, <1>4, <2>2
<1>10. ASSUME NEW k \in 1..m + n PROVE Leads(c, w[k], Ms[k], Ms[k + 1])
  <2>1. CASE k < m
    <3>1. w[k] = p[k] /\ Ms[k] = Ks[k] /\ Ms[k + 1] = Ks[k + 1] /\ k \in 1..m
      BY <1>6, <1>7, <2>1
    <3> QED BY <1>1, <1>4, <3>1
  <2>2. CASE k = m
    <3>1. w[k] = p[k] /\ Ms[k] = Ks[k]
      BY <1>6, <1>7, <2>2
    <3>2. Ms[k + 1] = Ls[1]
      <4>1. k + 1 \in 1..m + n + 1 /\ ~(k + 1 <= m) /\ (k + 1) - m = 1
        BY <2>2
      <4> QED BY <1>7, <4>1
    <3>3. Ms[k + 1] \subseteq Ks[k + 1]
      BY <1>1, <1>2, <1>4, <2>2, <3>2
    <3>4. Leads(c, w[k], Ms[k], Ks[k + 1])
      BY <1>1, <1>4, <2>2, <3>1
    <3> QED BY <3>3, <3>4 DEF Leads
  <2>3. CASE k > m
    <3>1. PICK j \in 1..n : j = k - m
      BY <2>3
    <3>2. w[k] = r[j]
      BY <1>6, <2>3, <3>1
    <3>3. (k + 1) - m = j + 1 /\ ~(k <= m) /\ ~(k + 1 <= m) /\ k + 1 \in 1..m + n + 1
          /\ k \in 1..m + n + 1
      BY <2>3, <3>1
    <3>4. Ms[k] = Ls[j] /\ Ms[k + 1] = Ls[j + 1]
      BY <1>7, <3>1, <3>3
    <3> QED BY <1>2, <1>4, <3>1, <3>2, <3>4
  <2> QED BY <2>1, <2>2, <2>3
<1>11. Reaches(c, w, A, C)
  <2>1. \A k \in 1..Len(w) : Leads(c, w[k], Ms[k], Ms[k + 1])
    BY <1>6, <1>10
  <2> HIDE DEF Reaches
  <2> QED BY <1>6, <1>8, <1>9, <2>1 DEF Reaches
<1> QED BY <1>5, <1>11

\* Rules for Does.
LEMMA DoesWeaker ==
  ASSUME NEW c, NEW p, NEW V, NEW W, NEW A, NEW B, NEW K, NEW L,
         Does(c, p, V, A, B), V \subseteq W, A \subseteq K, L \subseteq Post(K, V, B)
  PROVE  Does(c, p, W, K, L)
<1> SUFFICES ASSUME NEW M, K \subseteq M PROVE Reaches(c, p, M, Post(M, W, L))
  BY DEF Does
<1>1. Reaches(c, p, M, Post(M, V, B))
  BY DEF Does
<1>2. Post(M, W, L) \subseteq Post(M, V, B)
  BY DEF Post
<1> QED BY <1>1, <1>2, ReachesWeaker

\* The empty program makes nothing, whatever it may write.
LEMMA EmptyDoes ==
  ASSUME NEW c, NEW W, NEW A
  PROVE  Does(c, <<>>, W, A, A)
<1> SUFFICES ASSUME NEW M, A \subseteq M PROVE Reaches(c, <<>>, M, Post(M, W, A))
  BY DEF Does
<1>1. Post(M, W, A) \subseteq M
  BY DEF Post
<1> QED BY <1>1, EmptyReaches

\* Two programs that write within W, one after the other.
LEMMA ConcatDoes ==
  ASSUME NEW c, NEW p, NEW r, NEW W, NEW A, NEW B, NEW C, Does(c, p, W, A, B), Does(c, r, W, B, C)
  PROVE  Does(c, p \o r, W, A, C)
<1> SUFFICES ASSUME NEW M, A \subseteq M PROVE Reaches(c, p \o r, M, Post(M, W, C))
  BY DEF Does
<1>1. PICK N : N = Post(M, W, B)
  OBVIOUS
<1>2. Reaches(c, p, M, N)
  BY <1>1 DEF Does
<1>3. B \subseteq N
  BY <1>1 DEF Post
<1>4. Reaches(c, r, N, Post(N, W, C))
  BY <1>3 DEF Does
<1>5. Post(M, W, C) \subseteq Post(N, W, C)
  BY <1>1 DEF Post
<1>6. Reaches(c, p \o r, M, Post(N, W, C))
  BY <1>2, <1>4, ConcatReaches
<1>7. M \subseteq M
  OBVIOUS
<1> QED BY <1>5, <1>6, <1>7, ReachesWeaker

\* n programs one after the other, where h[k] is what holds after the first k.
LEMMA FlattenDoes ==
  ASSUME NEW c, NEW n \in Nat \ {0}, NEW f, Len(f) = n, NEW W, NEW h,
         \A k \in 1..n : Does(c, f[k], W, h[k - 1], h[k])
  PROVE  Does(c, FlattenSeq(f), W, h[0], h[n])
<1>1. PICK g : /\ g = [k \in 1..n |-> IF k = 1 THEN f[k] ELSE g[k - 1] \o f[k]]
               /\ FlattenSeq(f) = g[n]
  BY FlattenIsConcat
<1> DEFINE G == {m \in 1..n : Does(c, g[m], W, h[0], h[m])}
<1>2. 1 \in G
  <2>1. g[1] = f[1] /\ 1 \in 1..n /\ 1 - 1 = 0
    BY <1>1
  <2> QED BY <2>1
<1>3. ASSUME NEW m \in 1..n - 1, m \in G PROVE m + 1 \in G
  <2>1. m + 1 \in 1..n /\ m + 1 # 1 /\ (m + 1) - 1 = m
    OBVIOUS
  <2>2. g[m + 1] = g[m] \o f[m + 1]
    BY <1>1, <2>1
  <2>3. Does(c, g[m], W, h[0], h[m]) /\ Does(c, f[m + 1], W, h[m], h[m + 1])
    BY <1>3, <2>1
  <2>4. Does(c, g[m] \o f[m + 1], W, h[0], h[m + 1])
    BY <2>3, ConcatDoes
  <2> QED BY <2>1, <2>2, <2>4
<1>4. 1..n \subseteq G
  <2> HIDE DEF G
  <2> QED BY <1>2, <1>3, IntervalInduction
<1>5. n \in G
  BY <1>4
<1> QED BY <1>1, <1>5

\* A program of one instruction, by what its rule says.
LEMMA SingleDoes ==
  ASSUME NEW c, NEW w, NEW W, NEW A, NEW F, ~EndsCall(w),
         \A K : A \subseteq K => Changes(c, w, K, W, F)
  PROVE  Does(c, <<w>>, W, A, F)
<1> SUFFICES ASSUME NEW M, A \subseteq M PROVE Reaches(c, <<w>>, M, Post(M, W, F))
  BY DEF Does
<1>1. PICK p : p = <<w>>
  OBVIOUS
<1>2. p \in Seq({w}) /\ Len(p) = 1 /\ p[1] = w
  BY <1>1
<1>3. PICK N : N = Post(M, W, F)
  OBVIOUS
<1>4. PICK Ks : Ks = [k \in {1, 2} |-> IF k = 1 THEN M ELSE N]
  OBVIOUS
<1>5. Ks[1] = M /\ Ks[2] = N
  BY <1>4
<1>6. Leads(c, w, M, N)
  <2>1. Changes(c, w, M, W, F)
    OBVIOUS
  <2> QED BY <1>3, <2>1 DEF Leads
<1>7. \A k \in 1..Len(p) : k = 1 /\ k + 1 = 2
  BY <1>2
<1>8. \A k \in 1..Len(p) : Leads(c, p[k], Ks[k], Ks[k + 1])
  BY <1>2, <1>5, <1>6, <1>7
<1>9. Ks[1] \subseteq M /\ N \subseteq Ks[Len(p) + 1]
  BY <1>2, <1>5
<1>10. Reaches(c, p, M, N)
  BY <1>2, <1>8, <1>9 DEF Reaches
<1> QED BY <1>1, <1>3, <1>10

\* What is left of a call leads from A to B, and ends with instruction z.
ToDo(c, u, z, A, B) == \E p : Reaches(c, p, A, B) /\ u = p \o <<z>>

\* Taking the first instruction of it.
LEMMA TakeStep ==
  ASSUME NEW c, NEW u, NEW z, NEW A, NEW B, ToDo(c, u, z, A, B)
  PROVE  /\ u # <<>>
         /\ \/ Head(u) = z /\ Tail(u) = <<>> /\ B \subseteq A
            \/ \E K, L : /\ K \subseteq A /\ Leads(c, Head(u), K, L)
                         /\ ToDo(c, Tail(u), z, L, B)
<1>1. PICK p : Reaches(c, p, A, B) /\ u = p \o <<z>>
  BY DEF ToDo
<1>2. PICK S, Ks :
        /\ p \in Seq(S) /\ Ks[1] \subseteq A /\ B \subseteq Ks[Len(p) + 1]
        /\ \A k \in 1..Len(p) : Leads(c, p[k], Ks[k], Ks[k + 1])
  BY <1>1 DEF Reaches
<1>3. PICK v : v = <<z>>
  OBVIOUS
<1>4. v \in Seq(S \cup {z}) /\ Len(v) = 1 /\ v[1] = z /\ p \in Seq(S \cup {z})
  BY <1>2, <1>3, SeqDef
<1>5. PICK n \in Nat : n = Len(p)
  BY <1>2, LenProperties
<1>6. /\ u \in Seq(S \cup {z}) /\ Len(u) = n + 1
      /\ \A k \in 1..n + 1 : u[k] = IF k <= n THEN p[k] ELSE v[k - n]
  <2>1. /\ u \in Seq(S \cup {z}) /\ Len(u) = Len(p) + Len(v)
        /\ \A k \in 1..Len(p) + Len(v) : u[k] = IF k <= Len(p) THEN p[k] ELSE v[k - Len(p)]
    BY <1>1, <1>3, <1>4, ConcatProperties
  <2> QED BY <1>4, <1>5, <2>1
<1>7. u # <<>>
  BY <1>5, <1>6, EmptySeq
<1>8. /\ Tail(u) \in Seq(S \cup {z}) /\ Len(Tail(u)) = n
      /\ \A k \in 1..n : Tail(u)[k] = u[k + 1]
  <2>1. /\ Tail(u) \in Seq(S \cup {z}) /\ Len(Tail(u)) = Len(u) - 1
        /\ \A k \in 1..Len(Tail(u)) : Tail(u)[k] = u[k + 1]
    BY <1>6, <1>7, HeadTailProperties
  <2> QED BY <1>5, <1>6, <2>1
<1>9. Head(u) = u[1]
  BY <1>6, <1>7
<1>10. CASE n = 0
  <2>1. u[1] = v[1]
    BY <1>6, <1>10
  <2>2. Tail(u) = <<>>
    BY <1>8, <1>10, EmptySeq
  <2>3. B \subseteq A
    BY <1>2, <1>5, <1>10
  <2> QED BY <1>4, <1>7, <1>9, <2>1, <2>2, <2>3
<1>11. CASE n # 0
  <2>1. 1 \in 1..Len(p) /\ u[1] = p[1]
    BY <1>5, <1>6, <1>11
  <2>2. Leads(c, Head(u), Ks[1], Ks[2])
    BY <1>2, <1>9, <2>1
  <2>3. PICK r : r = Tail(p)
    OBVIOUS
  <2>4. r \in Seq(S) /\ Len(r) = n - 1 /\ \A k \in 1..n - 1 : r[k] = p[k + 1]
    <3>1. p # <<>>
      BY <1>5, <1>11, EmptySeq
    <3> QED BY <1>2, <1>5, <2>3, <3>1, HeadTailProperties
  <2>5. Reaches(c, r, Ks[2], B)
    <3>1. PICK Ls : Ls = [k \in 1..n |-> Ks[k + 1]]
      OBVIOUS
    <3>2. Ls[1] \subseteq Ks[2] /\ B \subseteq Ls[Len(r) + 1]
      <4>1. Len(r) + 1 \in 1..n /\ 1 \in 1..n /\ 1 + 1 = 2 /\ (Len(r) + 1) + 1 = Len(p) + 1
        BY <1>5, <1>11, <2>4
      <4>2. Ls[1] = Ks[2] /\ Ls[Len(r) + 1] = Ks[Len(p) + 1]
        BY <3>1, <4>1
      <4> QED BY <1>2, <4>2
    <3>3. ASSUME NEW k \in 1..Len(r) PROVE Leads(c, r[k], Ls[k], Ls[k + 1])
      <4>1. PICK j \in 1..Len(p) : j = k + 1
        BY <1>5, <2>4
      <4>2. k \in 1..n /\ k + 1 \in 1..n
        BY <2>4, <1>5
      <4>3. r[k] = p[j] /\ Ls[k] = Ks[j] /\ Ls[k + 1] = Ks[j + 1]
        BY <2>4, <3>1, <4>1, <4>2
      <4> QED BY <1>2, <4>3
    <3> QED BY <2>4, <3>2, <3>3 DEF Reaches
  <2>6. Tail(u) = r \o v
    <3>1. r \in Seq(S \cup {z})
      BY <2>4, SeqDef
    <3>2. PICK m \in Nat : m = n - 1
      BY <1>11
    <3>3. /\ r \o v \in Seq(S \cup {z}) /\ Len(r \o v) = m + 1
          /\ \A k \in 1..m + 1 : (r \o v)[k] = IF k <= m THEN r[k] ELSE v[k - m]
      <4>1. /\ r \o v \in Seq(S \cup {z}) /\ Len(r \o v) = Len(r) + Len(v)
            /\ \A k \in 1..Len(r) + Len(v) :
                 (r \o v)[k] = IF k <= Len(r) THEN r[k] ELSE v[k - Len(r)]
        BY <1>4, <3>1, ConcatProperties, ZenonT(40)
      <4> QED BY <1>4, <2>4, <3>2, <4>1
    <3>4. \A k \in 1..Len(Tail(u)) : Tail(u)[k] = (r \o v)[k]
      <4> TAKE k \in 1..Len(Tail(u))
      <4>1. k \in 1..m + 1 /\ Tail(u)[k] = u[k + 1] /\ k + 1 \in 1..n + 1
        BY <1>8, <3>2
      <4>2. (r \o v)[k] = IF k <= m THEN r[k] ELSE v[k - m]
        BY <3>3, <4>1
      <4>3. CASE k <= m
        <5>1. u[k + 1] = p[k + 1] /\ r[k] = p[k + 1]
          BY <1>6, <2>4, <3>2, <4>1, <4>3
        <5> QED BY <4>1, <4>2, <4>3, <5>1
      <4>4. CASE k = m + 1
        <5>1. u[k + 1] = v[1] /\ k - m = 1
          BY <1>6, <3>2, <4>1, <4>4
        <5>2. ~(k <= m)
          BY <3>2, <4>4
        <5> QED BY <4>1, <4>2, <5>1, <5>2
      <4>5. k <= m \/ k = m + 1
        BY <3>2, <4>1
      <4> QED BY <4>3, <4>4, <4>5
    <3>5. Len(Tail(u)) = Len(r \o v)
      BY <1>8, <3>2, <3>3
    <3> QED BY <1>8, <3>3, <3>4, <3>5, SeqEqual
  <2>7. Ks[1] \subseteq A
    BY <1>2
  <2>8. ToDo(c, Tail(u), z, Ks[2], B)
    BY <1>3, <2>5, <2>6 DEF ToDo
  <2> QED BY <1>7, <2>2, <2>7, <2>8
<1> QED BY <1>5, <1>10, <1>11

-----------------------------------------------------------------------------
(* What one instruction makes.                                             *)

\* A dispatch that makes fact f about its output out of the facts A.
LEMMA DispatchDoes ==
  ASSUME NEW c, NEW op, NEW l, NEW in, NEW from, NEW out, NEW to, NEW A, NEW f, NEW e,
         NEW d, d = [op |-> op, l |-> l, in |-> in, from |-> from, out |-> out, to |-> to,
                     experts |-> Bad],
         op = "routed" => TopK(e) \in A,
         \A K : A \subseteq K => Makes(c, d, K, e, f)
  PROVE  Does(c, <<Dispatch(op, l, in, from, out, to)>>, {Target(d)}, A, {f})
<1>1. PICK w : w = Dispatch(op, l, in, from, out, to)
  OBVIOUS
<1>2. w.do = "encode" /\ w.d = d
  BY <1>1 DEF Dispatch
<1>3. ~EndsCall(w)
  BY <1>2 DEF EndsCall
<1>4. DOMAIN d = DispatchFields /\ d.op = op
  BY DEF DispatchFields
<1>5. ASSUME NEW K, A \subseteq K PROVE Changes(c, w, K, {Target(d)}, {f})
  <2>1. Makes(c, d, K, e, f) /\ (op = "routed" => TopK(e) \in K)
    BY <1>5
  <2> QED BY <1>2, <1>4, <2>1 DEF Changes
<1>6. Does(c, <<w>>, {Target(d)}, A, {f})
  BY <1>3, <1>5, SingleDoes
<1> QED BY <1>1, <1>6

\* One array at set to what f says: what of A is still known in B.
Sets(ar, f, A, B) == \A g \in B : g = f \/ (g \in A /\ g[1] # ar)

\* So with a context: W is what the whole program may write.
LEMMA DispatchIn ==
  ASSUME NEW c, NEW op, NEW l, NEW in, NEW from, NEW out, NEW to, NEW A, NEW f, NEW e,
         NEW d, d = [op |-> op, l |-> l, in |-> in, from |-> from, out |-> out, to |-> to,
                     experts |-> Bad],
         op = "routed" => TopK(e) \in A,
         \A K : A \subseteq K => Makes(c, d, K, e, f),
         NEW W, NEW B, NEW ar \in W, ar = Target(d), Sets(ar, f, A, B)
  PROVE  Does(c, <<Dispatch(op, l, in, from, out, to)>>, W, A, B)
<1>1. PICK V, F, p : V = {ar} /\ F = {f} /\ p = <<Dispatch(op, l, in, from, out, to)>>
  OBVIOUS
<1>2. Does(c, p, V, A, F)
  <2>1. Does(c, p, {Target(d)}, A, {f})
    BY <1>1, DispatchDoes
  <2> QED BY <1>1, <2>1
<1>3. V \subseteq W /\ A \subseteq A /\ B \subseteq Post(A, V, F)
  BY <1>1 DEF Sets, Post
<1>4. Does(c, p, W, A, B)
  BY <1>2, <1>3, DoesWeaker
<1> QED BY <1>1, <1>4

\* Over all the rows of one input.
LEMMA MapDoes ==
  ASSUME NEW c, NEW l, NEW a, NEW from, NEW out \in Writable(c), NEW to, to # "next",
         NEW off \in Nat, NEW W, NEW A, NEW B,
         Fact(a, c.T, l, from, off) \in A, <<Scratch, out>> \in W,
         Sets(<<Scratch, out>>, Fact(out, c.T, l, to, off), A, B)
  PROVE  Does(c, <<Map(l, <<a>>, <<from>>, out, to)>>, W, A, B)
<1>1. PICK d : d = [op |-> "map", l |-> l, in |-> <<a>>, from |-> <<from>>, out |-> out, to |-> to,
                    experts |-> Bad]
  OBVIOUS
<1>2. /\ d.op = "map" /\ d.l = l /\ d.out = out /\ d.to = to
      /\ DOMAIN d.in = {1} /\ d.in[1] = a /\ d.from[1] = from
  BY <1>1
<1>3. PICK f, ar : f = Fact(out, c.T, l, to, off) /\ ar = <<Scratch, out>>
  OBVIOUS
<1>4. ASSUME NEW K, A \subseteq K PROVE Makes(c, d, K, Bad, f)
  <2>1. Fact(a, c.T, l, from, off) \in K
    BY <1>4
  <2> QED BY <1>2, <1>3, <2>1 DEF Makes, MapMakes
<1>5. ar = Target(d) /\ ar \in W /\ Sets(ar, f, A, B)
  BY <1>2, <1>3 DEF Target
<1>6. Does(c, <<Dispatch("map", l, <<a>>, <<from>>, out, to)>>, W, A, B)
  BY <1>1, <1>4, <1>5, DispatchIn
<1> QED BY <1>6 DEF Map

\* Over all the rows of two.
LEMMA PairMapDoes ==
  ASSUME NEW c, NEW l, NEW a, NEW fa, NEW b, NEW fb, NEW out \in Writable(c), NEW to,
         NEW off \in Nat, NEW W, NEW A, NEW B, NEW f,
         f = IF to = "next" THEN Fact(out, c.T, l + 1, "x", off) ELSE Fact(out, c.T, l, to, off),
         Fact(a, c.T, l, fa, off) \in A, Fact(b, c.T, l, fb, off) \in A, <<Scratch, out>> \in W,
         Sets(<<Scratch, out>>, f, A, B)
  PROVE  Does(c, <<Map(l, <<a, b>>, <<fa, fb>>, out, to)>>, W, A, B)
<1>1. PICK d : d = [op |-> "map", l |-> l, in |-> <<a, b>>, from |-> <<fa, fb>>, out |-> out,
                    to |-> to, experts |-> Bad]
  OBVIOUS
<1>2. /\ d.op = "map" /\ d.l = l /\ d.out = out /\ d.to = to
      /\ DOMAIN d.in = {1, 2} /\ d.in[1] = a /\ d.from[1] = fa /\ d.in[2] = b /\ d.from[2] = fb
  BY <1>1
<1>3. PICK ar : ar = <<Scratch, out>>
  OBVIOUS
<1>4. ASSUME NEW K, A \subseteq K PROVE Makes(c, d, K, Bad, f)
  <2>1. Fact(a, c.T, l, fa, off) \in K /\ Fact(b, c.T, l, fb, off) \in K
    BY <1>4
  <2> QED BY <1>2, <2>1 DEF Makes, MapMakes
<1>5. ar = Target(d) /\ ar \in W /\ Sets(ar, f, A, B)
  BY <1>2, <1>3 DEF Target
<1>6. Does(c, <<Dispatch("map", l, <<a, b>>, <<fa, fb>>, out, to)>>, W, A, B)
  BY <1>1, <1>4, <1>5, DispatchIn
<1> QED BY <1>6 DEF Map

\* A product with row 0, which is one of m rows or a row on its own.
LEMMA MatvecDoes ==
  ASSUME NEW c, NEW l, NEW a, NEW from, NEW out \in c.arrays, NEW to, to # "next",
         NEW m \in Nat \ {0}, NEW p \in Nat, NEW W, NEW A, NEW B,
         Fact(a, m, l, from, p) \in A, <<Scratch, out>> \in W,
         Sets(<<Scratch, out>>, Fact(out, 1, l, to, p), A, B)
  PROVE  Does(c, <<Matvec(l, a, from, out, to)>>, W, A, B)
<1>1. PICK d : d = [op |-> "matvec", l |-> l, in |-> <<a>>, from |-> <<from>>, out |-> out,
                    to |-> to, experts |-> Bad]
  OBVIOUS
<1>2. /\ d.op = "matvec" /\ d.l = l /\ d.out = out /\ d.to = to
      /\ DOMAIN d.in = {1} /\ d.in[1] = a /\ d.from[1] = from
  BY <1>1
<1>3. PICK f, ar : f = Fact(out, 1, l, to, p) /\ ar = <<Scratch, out>>
  OBVIOUS
<1>4. ASSUME NEW K, A \subseteq K PROVE Makes(c, d, K, Bad, f)
  <2>1. Fact(a, m, l, from, p) \in K
    BY <1>4
  <2>2. FirstRows(d, K, p)
    BY <1>2, <2>1 DEF FirstRows
  <2> QED BY <1>2, <1>3, <2>2 DEF Makes, MatvecMakes
<1>5. ar = Target(d) /\ ar \in W /\ Sets(ar, f, A, B)
  BY <1>2, <1>3 DEF Target
<1>6. Does(c, <<Dispatch("matvec", l, <<a>>, <<from>>, out, to)>>, W, A, B)
  BY <1>1, <1>4, <1>5, DispatchIn
<1> QED BY <1>6 DEF Matvec

\* Row t of an array, copied to a buffer of its own.
LEMMA RowInDoes ==
  ASSUME NEW c, NEW t \in Nat, NEW a, NEW row \in c.arrays, NEW m \in Nat, t < m,
         NEW l, NEW kind, NEW off \in Nat, NEW W, NEW A, NEW B,
         Fact(a, m, l, kind, off) \in A, <<Scratch, row>> \in W,
         Sets(<<Scratch, row>>, Fact(row, 1, l, kind, off + t), A, B)
  PROVE  Does(c, <<Dispatch("row_in", t, <<a>>, <<>>, row, "")>>, W, A, B)
<1>1. PICK d : d = [op |-> "row_in", l |-> t, in |-> <<a>>, from |-> <<>>, out |-> row,
                    to |-> "", experts |-> Bad]
  OBVIOUS
<1>2. d.op = "row_in" /\ d.l = t /\ d.out = row /\ d.in[1] = a
  BY <1>1
<1>3. PICK f, ar : f = Fact(row, 1, l, kind, off + t) /\ ar = <<Scratch, row>>
  OBVIOUS
<1>4. ASSUME NEW K, A \subseteq K PROVE Makes(c, d, K, Bad, f)
  <2>1. d.l \in 0..m - 1 /\ Fact(d.in[1], m, l, kind, off) \in K
    BY <1>2, <1>4
  <2>2. RowInMakes(c, d, K, f)
    BY <1>2, <1>3, <2>1 DEF RowInMakes
  <2> QED BY <1>2, <2>2 DEF Makes
<1>5. ar = Target(d) /\ ar \in W /\ Sets(ar, f, A, B)
  BY <1>2, <1>3 DEF Target
<1> QED BY <1>1, <1>4, <1>5, DispatchIn

\* A row copied back as row t of an array, whose earlier rows are made already.
LEMMA RowOutDoes ==
  ASSUME NEW c, NEW t \in 0..c.T - 1, NEW row, NEW out \in c.arrays, NEW m \in Nat \ {0},
         NEW l, NEW kind, NEW off \in Nat, NEW W, NEW A, NEW B,
         Fact(row, m, l, kind, off + t) \in A, Part(out, t, l, kind, off) \subseteq A,
         <<Scratch, out>> \in W,
         Sets(<<Scratch, out>>, Fact(out, t + 1, l, kind, off), A, B)
  PROVE  Does(c, <<Dispatch("row_out", t, <<row>>, <<>>, out, "")>>, W, A, B)
<1>1. PICK d : d = [op |-> "row_out", l |-> t, in |-> <<row>>, from |-> <<>>, out |-> out,
                    to |-> "", experts |-> Bad]
  OBVIOUS
<1>2. d.op = "row_out" /\ d.l = t /\ d.out = out /\ d.in[1] = row
  BY <1>1
<1>3. PICK f, ar : f = Fact(out, t + 1, l, kind, off) /\ ar = <<Scratch, out>>
  OBVIOUS
<1>4. ASSUME NEW K, A \subseteq K PROVE Makes(c, d, K, Bad, f)
  <2>1. Fact(d.in[1], m, l, kind, off + d.l) \in K /\ Part(d.out, d.l, l, kind, off) \subseteq K
    BY <1>2, <1>4
  <2>2. RowOutMakes(c, d, K, f)
    BY <1>2, <1>3, <2>1 DEF RowOutMakes
  <2> QED BY <1>2, <2>2 DEF Makes
<1>5. ar = Target(d) /\ ar \in W /\ Sets(ar, f, A, B)
  BY <1>2, <1>3 DEF Target
<1> QED BY <1>1, <1>4, <1>5, DispatchIn

\* Row t of a product over all the rows, through two scratch rows.
LEMMA MatvecRowDoes ==
  ASSUME NEW c, c.T \in Nat \ {0}, NEW l, NEW t \in 0..c.T - 1, NEW in, NEW from,
         NEW out \in c.arrays, NEW to, to # "next",
         NEW xrow \in c.arrays, NEW yrow \in c.arrays, NEW off \in Nat,
         out # xrow, out # yrow,
         NEW W, NEW A, NEW B,
         Fact(in, c.T, l, from, off) \in A, Part(out, t, l, to, off) \subseteq A,
         <<Scratch, xrow>> \in W, <<Scratch, yrow>> \in W, <<Scratch, out>> \in W,
         \A g \in B : \/ g = Fact(out, t + 1, l, to, off)
                      \/ g \in A /\ g[1] # <<Scratch, out>> /\ g[1] # <<Scratch, xrow>>
                         /\ g[1] # <<Scratch, yrow>>
  PROVE  Does(c, MatvecRow(l, t, in, from, out, to, xrow, yrow), W, A, B)
<1>1. CASE t = 0
  <2>1. PICK r : r = <<Matvec(l, in, from, out, to)>>
    OBVIOUS
  <2>2. Sets(<<Scratch, out>>, Fact(out, 1, l, to, off), A, B)
    BY <1>1 DEF Sets
  <2>3. Does(c, r, W, A, B)
    BY <2>1, <2>2, MatvecDoes
  <2>4. PICK e : e = <<>>
    OBVIOUS
  <2>5. Does(c, e, W, A, A) /\ Does(c, e, W, B, B)
    BY <2>4, EmptyDoes
  <2>6. Does(c, e \o r \o e, W, A, B)
    BY <2>3, <2>5, ConcatDoes
  <2>7. MatvecRow(l, t, in, from, out, to, xrow, yrow) = e \o r \o e
    BY <1>1, <2>1, <2>4 DEF MatvecRow, RowIn, RowOut
  <2> QED BY <2>6, <2>7
<1>2. CASE t # 0
  <2>1. PICK p, q, r : /\ p = <<Dispatch("row_in", t, <<in>>, <<>>, xrow, "")>>
                       /\ q = <<Matvec(l, xrow, from, yrow, to)>>
                       /\ r = <<Dispatch("row_out", t, <<yrow>>, <<>>, out, "")>>
    OBVIOUS
  <2>2. PICK f1, f2, A1, A2 :
          /\ f1 = Fact(xrow, 1, l, from, off + t) /\ f2 = Fact(yrow, 1, l, to, off + t)
          /\ A1 = {f1} \cup {g \in A : g[1] # <<Scratch, xrow>>}
          /\ A2 = {f2} \cup {g \in A1 : g[1] # <<Scratch, yrow>>}
    OBVIOUS
  <2>3. Part(out, t, l, to, off) \subseteq A2
    BY <2>2 DEF Part, Fact
  <2>4. Does(c, p, W, A, A1)
    <3>1. t \in Nat /\ c.T \in Nat /\ t < c.T
      OBVIOUS
    <3>2. Sets(<<Scratch, xrow>>, f1, A, A1)
      BY <2>2 DEF Sets
    <3> QED BY <2>1, <2>2, <3>1, <3>2, RowInDoes
  <2>5. Does(c, q, W, A1, A2)
    <3>1. Sets(<<Scratch, yrow>>, f2, A1, A2) /\ f1 \in A1
      BY <2>2 DEF Sets
    <3>2. off + t \in Nat /\ 1 \in Nat \ {0}
      OBVIOUS
    <3> QED BY <2>1, <2>2, <3>1, <3>2, MatvecDoes
  <2>6. Does(c, r, W, A2, B)
    <3>1. Sets(<<Scratch, out>>, Fact(out, t + 1, l, to, off), A2, B) /\ f2 \in A2
      BY <2>2 DEF Sets
    <3>2. 1 \in Nat \ {0}
      OBVIOUS
    <3> QED BY <2>1, <2>2, <2>3, <3>1, <3>2, RowOutDoes
  <2>7. Does(c, p \o q \o r, W, A, B)
    BY <2>4, <2>5, <2>6, ConcatDoes
  <2>8. MatvecRow(l, t, in, from, out, to, xrow, yrow) = p \o q \o r
    BY <1>2, <2>1 DEF MatvecRow, RowIn, RowOut
  <2> QED BY <2>7, <2>8
<1> QED BY <1>1, <1>2

\* What a chunk makes: the rows of its own positions, the histories of streams of which
\* m rows were read, and the first m cells.
Now(c, b, l, kind) == Fact(b, c.T, l, kind, c.start_pos)
RowsDone(c, t, b, l, kind) == Part(b, t, l, kind, c.start_pos)
HistAt(l, b, kind, m) == Cached(l, b, Km1, kind, m - Km1)
CellsAt(l, b, kind, m) == Cached(l, b, m, kind, 0)

\* A convolution of the chunk's rows with the history before them.
LEMMA SconvDoes ==
  ASSUME NEW c, c.start_pos \in Nat, NEW l \in Layer, NEW hist \in HistNames, NEW in, NEW from,
         NEW out \in Writable(c), NEW to, NEW W, NEW A, NEW B,
         Now(c, in, l, from) \in A, HistAt(l, hist, from, c.start_pos) \in A,
         <<Scratch, out>> \in W, Sets(<<Scratch, out>>, Now(c, out, l, to), A, B)
  PROVE  Does(c, Sconv(l, hist, in, from, out, to), W, A, B)
<1>1. PICK d : d = [op |-> "sconv", l |-> l, in |-> <<in, hist>>, from |-> <<from>>, out |-> out,
                    to |-> to, experts |-> Bad]
  OBVIOUS
<1>2. /\ d.op = "sconv" /\ d.l = l /\ d.out = out /\ d.to = to
      /\ d.in[1] = in /\ d.in[2] = hist /\ d.from[1] = from
  BY <1>1
<1>3. PICK f, ar : f = Now(c, out, l, to) /\ ar = <<Scratch, out>>
  OBVIOUS
<1>4. ASSUME NEW K, A \subseteq K PROVE Makes(c, d, K, Bad, f)
  <2>1. Now(c, in, l, from) \in K /\ HistAt(l, hist, from, c.start_pos) \in K
    BY <1>4
  <2>2. SconvMakes(c, d, K, <<d.l, d.in[2]>>, f)
    BY <1>2, <1>3, <2>1 DEF SconvMakes, Now, HistAt, Cached
  <2> QED BY <1>2, <2>2 DEF Makes
<1>5. ar = Target(d) /\ ar \in W /\ Sets(ar, f, A, B)
  BY <1>2, <1>3 DEF Target
<1>6. Does(c, <<Dispatch("sconv", l, <<in, hist>>, <<from>>, out, to)>>, W, A, B)
  BY <1>1, <1>4, <1>5, DispatchIn
<1> QED BY <1>6 DEF Sconv

\* A history rolled on by the chunk's rows.
LEMMA RollDoes ==
  ASSUME NEW c, c.start_pos \in Nat, c.T \in Nat, NEW l \in Layer, NEW hist \in HistNames,
         NEW in, NEW kind,
         NEW W, NEW A, NEW B,
         Now(c, in, l, kind) \in A, HistAt(l, hist, kind, c.start_pos) \in A,
         <<l, hist>> \in W, Sets(<<l, hist>>, HistAt(l, hist, kind, c.start_pos + c.T), A, B)
  PROVE  Does(c, Roll(l, hist, in), W, A, B)
<1>1. PICK d : d = [op |-> "roll", l |-> l, in |-> <<in>>, from |-> <<>>, out |-> hist,
                    to |-> "", experts |-> Bad]
  OBVIOUS
<1>2. d.op = "roll" /\ d.l = l /\ d.out = hist /\ d.in[1] = in
  BY <1>1
<1>3. PICK f, ar : f = HistAt(l, hist, kind, c.start_pos + c.T) /\ ar = <<l, hist>>
  OBVIOUS
<1>4. ASSUME NEW K, A \subseteq K PROVE Makes(c, d, K, Bad, f)
  <2>1. Now(c, in, l, kind) \in K /\ HistAt(l, hist, kind, c.start_pos) \in K
    BY <1>4
  <2>2. Km1 \in Nat
    BY Sizes
  <2>3. RollMakes(c, l, hist, in, K, f)
    BY <1>3, <2>1, <2>2 DEF RollMakes, Now, HistAt
  <2> QED BY <1>2, <2>3 DEF Makes
<1>5. ar = Target(d) /\ ar \in W /\ Sets(ar, f, A, B)
  BY <1>2, <1>3 DEF Target
<1>6. Does(c, <<Dispatch("roll", l, <<in>>, <<>>, hist, "")>>, W, A, B)
  BY <1>1, <1>4, <1>5, DispatchIn
<1> QED BY <1>6 DEF Roll

\* The chunk's rows stored as the next cells of the cache.
LEMMA StoreDoes ==
  ASSUME NEW c, NEW l \in Layer, NEW cells \in {"k", "v"}, NEW in, NEW kind,
         NEW W, NEW A, NEW B,
         Now(c, in, l, kind) \in A, CellsAt(l, cells, kind, c.start_pos) \in A,
         <<l, cells>> \in W, Sets(<<l, cells>>, CellsAt(l, cells, kind, c.start_pos + c.T), A, B)
  PROVE  Does(c, <<Dispatch("store", l, <<in>>, <<>>, cells, "")>>, W, A, B)
<1>1. PICK d : d = [op |-> "store", l |-> l, in |-> <<in>>, from |-> <<>>, out |-> cells,
                    to |-> "", experts |-> Bad]
  OBVIOUS
<1>2. d.op = "store" /\ d.l = l /\ d.out = cells /\ d.in[1] = in
  BY <1>1
<1>3. PICK f, ar : f = CellsAt(l, cells, kind, c.start_pos + c.T) /\ ar = <<l, cells>>
  OBVIOUS
<1>4. ASSUME NEW K, A \subseteq K PROVE Makes(c, d, K, Bad, f)
  <2>1. Now(c, in, l, kind) \in K /\ CellsAt(l, cells, kind, c.start_pos) \in K
    BY <1>4
  <2>2. StoreMakes(c, l, cells, in, K, f)
    BY <1>3, <2>1 DEF StoreMakes, Now, CellsAt
  <2> QED BY <1>2, <2>2 DEF Makes
<1>5. ar = Target(d) /\ ar \in W /\ Sets(ar, f, A, B)
  BY <1>2, <1>3 DEF Target
<1> QED BY <1>1, <1>4, <1>5, DispatchIn

\* Attention of the chunk's queries over the cells up to the chunk's end.
LEMMA AttnDoes ==
  ASSUME NEW c, NEW l \in Layer, NEW q, NEW r, NEW out \in Writable(c), NEW to,
         NEW W, NEW A, NEW B,
         Now(c, q, l, "q") \in A, Now(c, r, l, "r") \in A,
         CellsAt(l, "k", "ks", c.start_pos + c.T) \in A,
         CellsAt(l, "v", "vs", c.start_pos + c.T) \in A,
         <<Scratch, out>> \in W, Sets(<<Scratch, out>>, Now(c, out, l, to), A, B)
  PROVE  Does(c, <<Dispatch("attn", l, <<q, r>>, <<>>, out, to)>>, W, A, B)
<1>1. PICK d : d = [op |-> "attn", l |-> l, in |-> <<q, r>>, from |-> <<>>, out |-> out,
                    to |-> to, experts |-> Bad]
  OBVIOUS
<1>2. d.op = "attn" /\ d.l = l /\ d.out = out /\ d.to = to /\ d.in[1] = q /\ d.in[2] = r
  BY <1>1
<1>3. PICK f, ar : f = Now(c, out, l, to) /\ ar = <<Scratch, out>>
  OBVIOUS
<1>4. ASSUME NEW K, A \subseteq K PROVE Makes(c, d, K, Bad, f)
  <2>1. /\ Now(c, q, l, "q") \in K /\ Now(c, r, l, "r") \in K
        /\ CellsAt(l, "k", "ks", c.start_pos + c.T) \in K
        /\ CellsAt(l, "v", "vs", c.start_pos + c.T) \in K
    BY <1>4
  <2>2. AttnMakes(c, d, K, <<d.l, "k">>, <<d.l, "v">>, f)
    BY <1>2, <1>3, <2>1 DEF AttnMakes, Now, CellsAt, Cached
  <2> QED BY <1>2, <2>2 DEF Makes
<1>5. ar = Target(d) /\ ar \in W /\ Sets(ar, f, A, B)
  BY <1>2, <1>3 DEF Target
<1> QED BY <1>1, <1>4, <1>5, DispatchIn

\* Opening a batch makes nothing: it is only no longer shut.
LEMMA BeginDoes ==
  ASSUME NEW c, NEW W, NEW A, NEW B, <<HostSide, "shut">> \in W,
         \A g \in B : g \in A /\ g[1] # <<HostSide, "shut">>
  PROVE  Does(c, <<Begin>>, W, A, B)
<1>1. Begin.do = "begin"
  BY DEF Begin
<1>2. ~EndsCall(Begin)
  BY <1>1 DEF EndsCall
<1>3. PICK V, F : V = {<<HostSide, "shut">>} /\ F = {}
  OBVIOUS
<1>4. \A K : A \subseteq K => Changes(c, Begin, K, V, F)
  BY <1>1, <1>3 DEF Changes
<1>5. Does(c, <<Begin>>, V, A, F)
  BY <1>2, <1>4, SingleDoes
<1>6. V \subseteq W /\ A \subseteq A /\ B \subseteq Post(A, V, F)
  BY <1>3 DEF Post
<1> QED BY <1>5, <1>6, DoesWeaker

\* Ending a batch shuts it, and takes nothing from what holds.
LEMMA EndDoes ==
  ASSUME NEW c, NEW W, NEW A, NEW B, \A g \in B : g \in A \/ g = Shut
  PROVE  Does(c, <<End>>, W, A, B)
<1>1. End.do = "end"
  BY DEF End
<1>2. ~EndsCall(End)
  BY <1>1 DEF EndsCall
<1>3. PICK V, F : V = {} /\ F = {Shut}
  OBVIOUS
<1>4. \A K : A \subseteq K => Changes(c, End, K, V, F)
  BY <1>1, <1>3 DEF Changes
<1>5. Does(c, <<End>>, V, A, F)
  BY <1>2, <1>4, SingleDoes
<1>6. V \subseteq W /\ A \subseteq A /\ B \subseteq Post(A, V, F)
  BY <1>3 DEF Post
<1> QED BY <1>5, <1>6, DoesWeaker

\* A step of the host.
LEMMA HostDoes ==
  ASSUME NEW c, NEW w, w.do = "host", w.step # "logits", Touches(w), NEW V, NEW F, NEW A,
         \A K : A \subseteq K => HostChanges(c, w, K, V, F),
         NEW W, NEW B, V \subseteq W, \A g \in B : g \in F \/ (g \in A /\ g[1] \notin V)
  PROVE  Does(c, <<w>>, W, A, B)
<1>1. ~EndsCall(w)
  BY DEF EndsCall
<1>2. \A K : A \subseteq K => Changes(c, w, K, V, F)
  BY DEF Changes
<1>3. Does(c, <<w>>, V, A, F)
  BY <1>1, <1>2, SingleDoes
<1>4. A \subseteq A /\ B \subseteq Post(A, V, F)
  BY DEF Post
<1> QED BY <1>3, <1>4, DoesWeaker

\* The host moves a layer's length to the chunk's end.
LEMMA LenDoes ==
  ASSUME NEW c, NEW l \in Layer, NEW W, NEW A, NEW B,
         LenIs(l, c.start_pos) \in A, <<Lens, l>> \in W,
         Sets(<<Lens, l>>, LenIs(l, c.start_pos + c.T), A, B)
  PROVE  Does(c, <<Host("len", l, 0, {}, {})>>, W, A, B)
<1>1. PICK w : w = Host("len", l, 0, {}, {})
  OBVIOUS
<1>2. w.do = "host" /\ w.step = "len" /\ w.l = l
  BY <1>1 DEF Host
<1>3. ~EndsCall(w)
  BY <1>2 DEF EndsCall
<1>4. PICK V, F : V = {<<Lens, l>>} /\ F = {LenIs(l, c.start_pos + c.T)}
  OBVIOUS
<1>5. ASSUME NEW K, A \subseteq K PROVE Changes(c, w, K, V, F)
  <2>1. LenIs(l, c.start_pos) \in K
    BY <1>5
  <2> QED BY <1>2, <1>4, <2>1 DEF Changes, LenChanges
<1>6. Does(c, <<w>>, V, A, F)
  BY <1>3, <1>5, SingleDoes
<1>7. V \subseteq W /\ A \subseteq A /\ B \subseteq Post(A, V, F)
  BY <1>4 DEF Post, Sets
<1>8. Does(c, <<w>>, W, A, B)
  BY <1>6, <1>7, DoesWeaker
<1> QED BY <1>1, <1>8

\* The host scales the queries in place.
LEMMA TauDoes ==
  ASSUME NEW c, c.start_pos \in Nat, "q_normed" \in c.arrays, NEW l, NEW W, NEW A, NEW B,
         Now(c, "q_normed", l, "qn") \in A, <<Scratch, "q_normed">> \in W,
         Sets(<<Scratch, "q_normed">>, Now(c, "q_normed", l, "q"), A, B)
  PROVE  Does(c, <<Host("tau", l, 0, {}, {"q_normed"})>>, W, A, B)
<1>1. PICK w : w = Host("tau", l, 0, {}, {"q_normed"})
  OBVIOUS
<1>2. w.do = "host" /\ w.step = "tau" /\ w.l = l /\ w.step # "logits" /\ w.writes = {"q_normed"}
  BY <1>1 DEF Host
<1>3. Touches(w)
  BY <1>2 DEF Touches
<1>4. PICK V, F : V = {<<Scratch, "q_normed">>} /\ F = {Now(c, "q_normed", l, "q")}
  OBVIOUS
<1>5. ASSUME NEW K, A \subseteq K PROVE HostChanges(c, w, K, V, F)
  <2>1. Now(c, "q_normed", l, "qn") \in K
    BY <1>5
  <2>2. TauChanges(c, w, K, V, F)
    BY <1>2, <1>4, <2>1 DEF TauChanges, Now
  <2> QED BY <1>2, <2>2 DEF HostChanges
<1>6. V \subseteq W /\ \A g \in B : g \in F \/ (g \in A /\ g[1] \notin V)
  BY <1>4 DEF Sets
<1>7. Does(c, <<w>>, W, A, B)
  BY <1>2, <1>3, <1>5, <1>6, HostDoes
<1> QED BY <1>1, <1>7

\* The host reads a row of router logits and names its experts.
LEMMA RouteDoes ==
  ASSUME NEW c, NEW l, NEW t, NEW m \in Nat \ {0}, NEW p \in Nat, NEW W, NEW A, NEW B,
         Fact("router_logits", m, l, "ro", p) \in A, <<HostSide, "topk">> \in W,
         Sets(<<HostSide, "topk">>, TopK(<<l, "ro", p>>), A, B)
  PROVE  Does(c, <<Host("route", l, t, {"router_logits"}, {})>>, W, A, B)
<1>1. PICK w : w = Host("route", l, t, {"router_logits"}, {})
  OBVIOUS
<1>2. w.do = "host" /\ w.step = "route" /\ w.l = l /\ w.step # "logits"
      /\ w.reads = {"router_logits"}
  BY <1>1 DEF Host
<1>3. Touches(w)
  BY <1>2 DEF Touches
<1>4. PICK V, F : V = {<<HostSide, "topk">>} /\ F = {TopK(<<l, "ro", p>>)}
  OBVIOUS
<1>5. ASSUME NEW K, A \subseteq K PROVE HostChanges(c, w, K, V, F)
  <2>1. Fact("router_logits", m, l, "ro", p) \in K
    BY <1>5
  <2>2. RouteChanges(c, w, K, V, F)
    BY <1>2, <1>4, <2>1 DEF RouteChanges
  <2> QED BY <1>2, <2>2 DEF HostChanges
<1>6. V \subseteq W /\ \A g \in B : g \in F \/ (g \in A /\ g[1] \notin V)
  BY <1>4 DEF Sets
<1>7. Does(c, <<w>>, W, A, B)
  BY <1>2, <1>3, <1>5, <1>6, HostDoes
<1> QED BY <1>1, <1>7

\* The host adds the expert and shared sums of row t, after the rows before it.
LEMMA MixDoes ==
  ASSUME NEW c, NEW l, NEW t \in 0..c.T - 1, NEW off \in Nat, NEW m1 \in Nat \ {0},
         NEW m2 \in Nat \ {0},
         NEW W, NEW A, NEW B,
         Fact("routed_raw", m1, l, "re", off + t) \in A,
         Fact("shared_raw", m2, l, "sh", off + t) \in A,
         OutPart(t, l, "m", off) \subseteq A, <<HostSide, "out_host">> \in W,
         Sets(<<HostSide, "out_host">>, OutFact(t + 1, l, "m", off), A, B)
  PROVE  Does(c, <<Host("mix", l, t, {"routed_raw", "shared_raw"}, {})>>, W, A, B)
<1>1. PICK w : w = Host("mix", l, t, {"routed_raw", "shared_raw"}, {})
  OBVIOUS
<1>2. /\ w.do = "host" /\ w.step = "mix" /\ w.l = l /\ w.t = t /\ w.step # "logits"
      /\ w.reads = {"routed_raw", "shared_raw"}
  BY <1>1 DEF Host
<1>3. Touches(w)
  BY <1>2 DEF Touches
<1>4. PICK V, F : V = {<<HostSide, "out_host">>} /\ F = {OutFact(t + 1, l, "m", off)}
  OBVIOUS
<1>5. ASSUME NEW K, A \subseteq K PROVE HostChanges(c, w, K, V, F)
  <2>1. MixedAt(K, l, off + t) /\ OutPart(t, l, "m", off) \subseteq K
    BY <1>5 DEF MixedAt
  <2>2. MixChanges(c, w, K, V, F)
    BY <1>2, <1>4, <2>1 DEF MixChanges
  <2> QED BY <1>2, <2>2 DEF HostChanges
<1>6. V \subseteq W /\ \A g \in B : g \in F \/ (g \in A /\ g[1] \notin V)
  BY <1>4 DEF Sets
<1>7. Does(c, <<w>>, W, A, B)
  BY <1>2, <1>3, <1>5, <1>6, HostDoes
<1> QED BY <1>1, <1>7

\* The host copies the mixed rows to the GPU's buffer.
LEMMA MemcpyDoes ==
  ASSUME NEW c, "mlp_out" \in c.arrays, NEW l, NEW m \in Nat, NEW k, NEW kind, NEW off \in Nat,
         NEW W, NEW A, NEW B,
         OutFact(m, k, kind, off) \in A, <<Scratch, "mlp_out">> \in W,
         Sets(<<Scratch, "mlp_out">>, Fact("mlp_out", m, k, kind, off), A, B)
  PROVE  Does(c, <<Host("memcpy", l, 0, {}, {"mlp_out"})>>, W, A, B)
<1>1. PICK w : w = Host("memcpy", l, 0, {}, {"mlp_out"})
  OBVIOUS
<1>2. w.do = "host" /\ w.step = "memcpy" /\ w.step # "logits" /\ w.writes = {"mlp_out"}
  BY <1>1 DEF Host
<1>3. Touches(w)
  BY <1>2 DEF Touches
<1>4. PICK V, F : V = {<<Scratch, "mlp_out">>} /\ F = {Fact("mlp_out", m, k, kind, off)}
  OBVIOUS
<1>5. ASSUME NEW K, A \subseteq K PROVE HostChanges(c, w, K, V, F)
  <2>1. OutFact(m, k, kind, off) \in K
    BY <1>5
  <2>2. MemcpyChanges(c, w, K, V, F)
    BY <1>2, <1>4, <2>1 DEF MemcpyChanges
  <2> QED BY <1>2, <2>2 DEF HostChanges
<1>6. V \subseteq W /\ \A g \in B : g \in F \/ (g \in A /\ g[1] \notin V)
  BY <1>4 DEF Sets
<1>7. Does(c, <<w>>, W, A, B)
  BY <1>2, <1>3, <1>5, <1>6, HostDoes
<1> QED BY <1>1, <1>7

\* The host takes the final norm of the last layer's rows.
LEMMA FinalDoes ==
  ASSUME NEW c, c.start_pos \in Nat, "final" \in c.arrays, NEW W, NEW A, NEW B,
         Now(c, "x", NumLayers, "x") \in A, <<Scratch, "final">> \in W,
         Sets(<<Scratch, "final">>, Now(c, "final", NumLayers, "fn"), A, B)
  PROVE  Does(c, <<Host("final", NumLayers, 0, {"x"}, {"final"})>>, W, A, B)
<1>1. PICK w : w = Host("final", NumLayers, 0, {"x"}, {"final"})
  OBVIOUS
<1>2. w.do = "host" /\ w.step = "final" /\ w.step # "logits" /\ w.writes = {"final"}
  BY <1>1 DEF Host
<1>3. Touches(w)
  BY <1>2 DEF Touches
<1>4. PICK V, F : V = {<<Scratch, "final">>} /\ F = {Now(c, "final", NumLayers, "fn")}
  OBVIOUS
<1>5. ASSUME NEW K, A \subseteq K PROVE HostChanges(c, w, K, V, F)
  <2>1. Now(c, "x", NumLayers, "x") \in K
    BY <1>5
  <2>2. FinalChanges(c, w, K, V, F)
    BY <1>4, <2>1 DEF FinalChanges, Now
  <2> QED BY <1>2, <2>2 DEF HostChanges
<1>6. V \subseteq W /\ \A g \in B : g \in F \/ (g \in A /\ g[1] \notin V)
  BY <1>4 DEF Sets
<1>7. Does(c, <<w>>, W, A, B)
  BY <1>2, <1>3, <1>5, <1>6, HostDoes
<1> QED BY <1>1, <1>7

-----------------------------------------------------------------------------
(* The real model's half layers: attention, then the feed-forward part.    *)

RealCall(c) == c.T \in Nat \ {0} /\ c.start_pos \in Nat /\ c.arrays = Buffers

\* As Sets, for rows N of array out, through the scratch rows xrow and yrow.
RowSets(xrow, yrow, out, N, A, B) ==
  \A g \in B : \/ g \in N
               \/ g \in A /\ g[1] # <<Scratch, out>> /\ g[1] # <<Scratch, xrow>>
                  /\ g[1] # <<Scratch, yrow>>

\* Row t of a product over all the rows of the chunk.
LEMMA RowDoes ==
  ASSUME NEW c, RealCall(c), NEW l, NEW t \in 0..c.T - 1, NEW in, NEW from,
         NEW out \in Buffers, NEW to, to # "next",
         NEW xrow \in Buffers, NEW yrow \in Buffers, out # xrow, out # yrow,
         NEW W, NEW A, NEW B, {Scratch} \X Buffers \subseteq W,
         Now(c, in, l, from) \in A, RowsDone(c, t, out, l, to) \subseteq A,
         RowSets(xrow, yrow, out, RowsDone(c, t + 1, out, l, to), A, B)
  PROVE  Does(c, MatvecRow(l, t, in, from, out, to, xrow, yrow), W, A, B)
<1>1. c.T \in Nat \ {0} /\ c.start_pos \in Nat /\ c.arrays = Buffers
  BY DEF RealCall
<1>2. PICK off \in Nat : off = c.start_pos
  BY <1>1
<1>3. Fact(in, c.T, l, from, off) \in A /\ Part(out, t, l, to, off) \subseteq A
  BY <1>2 DEF Now, RowsDone
<1>4. <<Scratch, xrow>> \in W /\ <<Scratch, yrow>> \in W /\ <<Scratch, out>> \in W
  OBVIOUS
<1>5. \A g \in B : \/ g = Fact(out, t + 1, l, to, off)
                   \/ g \in A /\ g[1] # <<Scratch, out>> /\ g[1] # <<Scratch, xrow>>
                      /\ g[1] # <<Scratch, yrow>>
  <2>1. t + 1 # 0
    BY <1>1
  <2> QED BY <1>2, <2>1 DEF RowSets, RowsDone, Part
<1> QED BY <1>1, <1>3, <1>4, <1>5, MatvecRowDoes

\* The names of the buffers.
LEMMA BufferNames ==
  /\ "normed" \in Buffers /\ "q_raw" \in Buffers /\ "k_raw" \in Buffers /\ "v_raw" \in Buffers
  /\ "r_raw" \in Buffers /\ "k_sconv" \in Buffers /\ "v_sconv" \in Buffers
  /\ "q_normed" \in Buffers
  /\ "k_normed" \in Buffers /\ "rel_logits" \in Buffers /\ "attn_concat" \in Buffers
  /\ "attn_out" \in Buffers
  /\ "attn_sconv_out" \in Buffers /\ "normed2" \in Buffers /\ "g_full" \in Buffers
  /\ "u_full" \in Buffers
  /\ "h_full" \in Buffers /\ "y_full" \in Buffers /\ "router_logits" \in Buffers
  /\ "gbuf" \in Buffers
  /\ "ubuf" \in Buffers /\ "hbuf" \in Buffers /\ "shared_raw" \in Buffers
  /\ "routed_raw" \in Buffers
  /\ "mlp_out" \in Buffers /\ "mlp_sconv_out" \in Buffers /\ "final" \in Buffers
  /\ "logits_buf" \in Buffers
  /\ "xrow" \in Buffers /\ "yrow_q" \in Buffers /\ "yrow_k" \in Buffers /\ "yrow_v" \in Buffers
  /\ "yrow_r" \in Buffers /\ "yrow" \in Buffers
  /\ "x" \notin Buffers
BY DEF Buffers

\* What attention may write.
AttnWrites(l) ==
  ({Scratch} \X Buffers)
  \cup {<<HostSide, "shut">>, <<l, "k">>, <<l, "v">>, <<l, "k_hist">>, <<l, "v_hist">>, <<Lens, l>>}

AttnBefore(c, l) ==
  {HistAt(l, "k_hist", "k", c.start_pos), HistAt(l, "v_hist", "v", c.start_pos),
   CellsAt(l, "k", "ks", c.start_pos), CellsAt(l, "v", "vs", c.start_pos), LenIs(l, c.start_pos)}

AttnAfter(c, l) ==
  {HistAt(l, "k_hist", "k", c.start_pos + c.T), HistAt(l, "v_hist", "v", c.start_pos + c.T),
   CellsAt(l, "k", "ks", c.start_pos + c.T), CellsAt(l, "v", "vs", c.start_pos + c.T),
   LenIs(l, c.start_pos + c.T)}

\* The projections of every row.
LEMMA ProjectionsDo ==
  ASSUME NEW c, RealCall(c), NEW l \in Layer
  PROVE  Does(c, ForEach(c.T, LAMBDA t :
                MatvecRow(l, t, "normed", "n", "q_raw", "qr", "xrow", "yrow_q")
                \o MatvecRow(l, t, "normed", "n", "k_raw", "k", "xrow", "yrow_k")
                \o MatvecRow(l, t, "normed", "n", "v_raw", "v", "xrow", "yrow_v")
                \o MatvecRow(l, t, "normed", "n", "r_raw", "rr", "xrow", "yrow_r")),
              AttnWrites(l), {Now(c, "normed", l, "n")} \cup AttnBefore(c, l),
              {Now(c, "q_raw", l, "qr"), Now(c, "k_raw", l, "k"), Now(c, "v_raw", l, "v"),
               Now(c, "r_raw", l, "rr")} \cup AttnBefore(c, l))
<1>1. PICK n \in Nat \ {0} : \E W :
      n = c.T /\ W = AttnWrites(l)
  BY DEF RealCall
<1>2. PICK W :
        n = c.T /\ W = AttnWrites(l)
  BY <1>1
<1>3. PICK p : p = [k \in 1..n |->
        MatvecRow(l, k - 1, "normed", "n", "q_raw", "qr", "xrow", "yrow_q")
        \o MatvecRow(l, k - 1, "normed", "n", "k_raw", "k", "xrow", "yrow_k")
        \o MatvecRow(l, k - 1, "normed", "n", "v_raw", "v", "xrow", "yrow_v")
        \o MatvecRow(l, k - 1, "normed", "n", "r_raw", "rr", "xrow", "yrow_r")]
  OBVIOUS
<1>4. PICK C : C = {Now(c, "normed", l, "n")} \cup AttnBefore(c, l)
  OBVIOUS
<1>5. PICK h : h = [t \in 0..n |->
        C \cup RowsDone(c, t, "q_raw", l, "qr") \cup RowsDone(c, t, "k_raw", l, "k")
        \cup RowsDone(c, t, "v_raw", l, "v") \cup RowsDone(c, t, "r_raw", l, "rr")]
  OBVIOUS
<1>6. {Scratch} \X Buffers \subseteq W
  BY <1>2 DEF AttnWrites
<1>7. \A g \in C : \A b : b # "normed" => g[1] # <<Scratch, b>>
  BY <1>4, Sizes DEF AttnBefore, Now, Fact, HistAt, CellsAt, Cached, LenIs, Lens, Scratch, Layer
<1>8. ASSUME NEW k \in 1..n PROVE Does(c, p[k], W, h[k - 1], h[k])
  <2>1. PICK t \in 0..c.T - 1 : t = k - 1 /\ t + 1 = k
    BY <1>2
  <2>2. PICK A0, A1, A2, A3, A4 :
          /\ A0 = C \cup RowsDone(c, t, "q_raw", l, "qr") \cup RowsDone(c, t, "k_raw", l, "k")
                  \cup RowsDone(c, t, "v_raw", l, "v") \cup RowsDone(c, t, "r_raw", l, "rr")
          /\ A1 = C \cup RowsDone(c, t + 1, "q_raw", l, "qr") \cup RowsDone(c, t, "k_raw", l, "k")
                  \cup RowsDone(c, t, "v_raw", l, "v") \cup RowsDone(c, t, "r_raw", l, "rr")
          /\ A2 = C \cup RowsDone(c, t + 1, "q_raw", l, "qr") \cup RowsDone(c, t + 1, "k_raw", l, "k")
                  \cup RowsDone(c, t, "v_raw", l, "v") \cup RowsDone(c, t, "r_raw", l, "rr")
          /\ A3 = C \cup RowsDone(c, t + 1, "q_raw", l, "qr") \cup RowsDone(c, t + 1, "k_raw", l, "k")
                  \cup RowsDone(c, t + 1, "v_raw", l, "v") \cup RowsDone(c, t, "r_raw", l, "rr")
          /\ A4 = C \cup RowsDone(c, t + 1, "q_raw", l, "qr") \cup RowsDone(c, t + 1, "k_raw", l, "k")
                  \cup RowsDone(c, t + 1, "v_raw", l, "v") \cup RowsDone(c, t + 1, "r_raw", l, "rr")
    OBVIOUS
  <2>3. Now(c, "normed", l, "n") \in A0 \cap A1 \cap A2 \cap A3
    BY <1>4, <2>2
  <2>4. Does(c, MatvecRow(l, t, "normed", "n", "q_raw", "qr", "xrow", "yrow_q"), W, A0, A1)
    <3>1. RowSets("xrow", "yrow_q", "q_raw", RowsDone(c, t + 1, "q_raw", l, "qr"), A0, A1)
      BY <1>7, <2>2 DEF RowSets, RowsDone, Part, Fact
    <3>2. RowsDone(c, t, "q_raw", l, "qr") \subseteq A0
      BY <2>2
    <3> QED BY <1>6, <2>3, <3>1, <3>2, BufferNames, RowDoes
  <2>5. Does(c, MatvecRow(l, t, "normed", "n", "k_raw", "k", "xrow", "yrow_k"), W, A1, A2)
    <3>1. RowSets("xrow", "yrow_k", "k_raw", RowsDone(c, t + 1, "k_raw", l, "k"), A1, A2)
      BY <1>7, <2>2 DEF RowSets, RowsDone, Part, Fact
    <3>2. RowsDone(c, t, "k_raw", l, "k") \subseteq A1
      BY <2>2
    <3> QED BY <1>6, <2>3, <3>1, <3>2, BufferNames, RowDoes
  <2>6. Does(c, MatvecRow(l, t, "normed", "n", "v_raw", "v", "xrow", "yrow_v"), W, A2, A3)
    <3>1. RowSets("xrow", "yrow_v", "v_raw", RowsDone(c, t + 1, "v_raw", l, "v"), A2, A3)
      BY <1>7, <2>2 DEF RowSets, RowsDone, Part, Fact
    <3>2. RowsDone(c, t, "v_raw", l, "v") \subseteq A2
      BY <2>2
    <3> QED BY <1>6, <2>3, <3>1, <3>2, BufferNames, RowDoes
  <2>7. Does(c, MatvecRow(l, t, "normed", "n", "r_raw", "rr", "xrow", "yrow_r"), W, A3, A4)
    <3>1. RowSets("xrow", "yrow_r", "r_raw", RowsDone(c, t + 1, "r_raw", l, "rr"), A3, A4)
      BY <1>7, <2>2 DEF RowSets, RowsDone, Part, Fact
    <3>2. RowsDone(c, t, "r_raw", l, "rr") \subseteq A3
      BY <2>2
    <3> QED BY <1>6, <2>3, <3>1, <3>2, BufferNames, RowDoes
  <2>8. Does(c, MatvecRow(l, t, "normed", "n", "q_raw", "qr", "xrow", "yrow_q")
                \o MatvecRow(l, t, "normed", "n", "k_raw", "k", "xrow", "yrow_k")
                \o MatvecRow(l, t, "normed", "n", "v_raw", "v", "xrow", "yrow_v")
                \o MatvecRow(l, t, "normed", "n", "r_raw", "rr", "xrow", "yrow_r"), W, A0, A4)
    BY <2>4, <2>5, <2>6, <2>7, ConcatDoes
  <2>9. h[k - 1] = A0 /\ h[k] = A4
    BY <1>2, <1>5, <2>1, <2>2
  <2> QED BY <1>3, <2>1, <2>8, <2>9
<1>9. Does(c, FlattenSeq(p), W, h[0], h[n])
  <2>1. Len(p) = n
    BY <1>3
  <2> QED BY <1>8, <2>1, FlattenDoes
<1>10. PICK B : B = {Now(c, "q_raw", l, "qr"), Now(c, "k_raw", l, "k"), Now(c, "v_raw", l, "v"),
                     Now(c, "r_raw", l, "rr")} \cup AttnBefore(c, l)
  OBVIOUS
<1>11. h[0] \subseteq C /\ B \subseteq h[n]
  BY <1>2, <1>4, <1>5, <1>10 DEF RowsDone, Part, Now
<1>12. Does(c, FlattenSeq(p), W, C, B)
  <2>1. W \subseteq W /\ B \subseteq Post(C, W, h[n])
    BY <1>11 DEF Post
  <2> QED BY <1>9, <1>11, <2>1, DoesWeaker
<1> QED BY <1>2, <1>3, <1>4, <1>10, <1>12 DEF ForEach

MatvecRows(n, l, in, from, out, to, xrow, yrow) ==
  ForEach(n, LAMBDA t : MatvecRow(l, t, in, from, out, to, xrow, yrow))

\* Row after row of one product, which nothing of A but its own rows speaks of.
LEMMA RowsDo ==
  ASSUME NEW c, RealCall(c), NEW l, NEW in, NEW from, NEW out \in Buffers, NEW to, to # "next",
         NEW xrow \in Buffers, NEW yrow \in Buffers, out # xrow, out # yrow,
         NEW W, NEW A, {Scratch} \X Buffers \subseteq W, Now(c, in, l, from) \in A,
         \A g \in A : \A b \in {out, xrow, yrow} : g[1] # <<Scratch, b>>,
         NEW B, \A g \in B : g \in A \/ g = Now(c, out, l, to)
  PROVE  Does(c, MatvecRows(c.T, l, in, from, out, to, xrow, yrow), W, A, B)
<1>1. PICK n \in Nat \ {0} : n = c.T
  BY DEF RealCall
<1>2. PICK p : p = [k \in 1..n |-> MatvecRow(l, k - 1, in, from, out, to, xrow, yrow)]
  OBVIOUS
<1>3. PICK h : h = [t \in 0..n |-> A \cup RowsDone(c, t, out, l, to)]
  OBVIOUS
<1>4. ASSUME NEW k \in 1..n PROVE Does(c, p[k], W, h[k - 1], h[k])
  <2>1. PICK t \in 0..c.T - 1 : t = k - 1 /\ t + 1 = k
    BY <1>1
  <2>2. PICK A0, A1 : A0 = A \cup RowsDone(c, t, out, l, to)
                      /\ A1 = A \cup RowsDone(c, t + 1, out, l, to)
    OBVIOUS
  <2>3. Now(c, in, l, from) \in A0 /\ RowsDone(c, t, out, l, to) \subseteq A0
    BY <2>2
  <2>4. RowSets(xrow, yrow, out, RowsDone(c, t + 1, out, l, to), A0, A1)
    BY <2>2 DEF RowSets, RowsDone, Part, Fact
  <2>5. Does(c, MatvecRow(l, t, in, from, out, to, xrow, yrow), W, A0, A1)
    BY <2>3, <2>4, RowDoes
  <2>6. h[k - 1] = A0 /\ h[k] = A1
    BY <1>1, <1>3, <2>1, <2>2
  <2> QED BY <1>2, <2>1, <2>5, <2>6
<1>5. Does(c, FlattenSeq(p), W, h[0], h[n])
  <2>1. Len(p) = n
    BY <1>2
  <2> QED BY <1>4, <2>1, FlattenDoes
<1>6. h[0] = A /\ h[n] = A \cup {Now(c, out, l, to)}
  BY <1>1, <1>3 DEF RowsDone, Part, Now
<1>7. PICK r, C : /\ r = MatvecRows(c.T, l, in, from, out, to, xrow, yrow)
                  /\ C = A \cup {Now(c, out, l, to)}
  OBVIOUS
<1>8. Does(c, r, W, A, C)
  BY <1>1, <1>2, <1>5, <1>6, <1>7 DEF ForEach, MatvecRows
<1>9. B \subseteq C
  BY <1>7
<1>10. B \subseteq Post(A, W, C)
  BY <1>9 DEF Post
<1>11. Does(c, r, W, A, B)
  BY <1>8, <1>10, DoesWeaker
<1> QED BY <1>7, <1>11

\* The end of a batch, a step of the host and the beginning of the next.
LEMMA SyncDoes ==
  ASSUME NEW c, NEW w, NEW W, NEW A, NEW B, Does(c, <<w>>, W, A, B), <<HostSide, "shut">> \in W,
         \A g \in B : g[1] # <<HostSide, "shut">>
  PROVE  Does(c, <<End, w, Begin>>, W, A, B)
<1>1. Does(c, <<End>>, W, A, A)
  BY EndDoes
<1>2. Does(c, <<Begin>>, W, B, B)
  BY BeginDoes
<1>3. Does(c, <<w>> \o <<Begin>>, W, A, B)
  BY <1>2, ConcatDoes
<1>4. Does(c, <<w, Begin>>, W, A, B)
  BY <1>3, PairIsConcat
<1>5. Does(c, <<End>> \o <<w, Begin>>, W, A, B)
  BY <1>1, <1>4, ConcatDoes
<1> QED BY <1>5, TripleIsConcat

\* Instructions one after the other.
LEMMA PairDoes ==
  ASSUME NEW c, NEW W, NEW v1, NEW v2, NEW A0, NEW A1, NEW A2,
         Does(c, <<v1>>, W, A0, A1), Does(c, <<v2>>, W, A1, A2)
  PROVE  Does(c, <<v1, v2>>, W, A0, A2)
<1>1. Does(c, <<v1>> \o <<v2>>, W, A0, A2)
  BY ConcatDoes
<1> QED BY <1>1, PairIsConcat

\* Three instructions in a row.
LEMMA TripleDoes ==
  ASSUME NEW c, NEW W, NEW v1, NEW v2, NEW v3, NEW A0, NEW A1, NEW A2, NEW A3,
         Does(c, <<v1>>, W, A0, A1), Does(c, <<v2>>, W, A1, A2), Does(c, <<v3>>, W, A2, A3)
  PROVE  Does(c, <<v1, v2, v3>>, W, A0, A3)
<1>1. Does(c, <<v2, v3>>, W, A1, A3)
  BY PairDoes
<1>2. Does(c, <<v1>> \o <<v2, v3>>, W, A0, A3)
  BY <1>1, ConcatDoes
<1> QED BY <1>2, TripleIsConcat

\* Four instructions in a row.
LEMMA QuadDoes ==
  ASSUME NEW c, NEW W, NEW v1, NEW v2, NEW v3, NEW v4, NEW A0, NEW A1, NEW A2, NEW A3, NEW A4,
         Does(c, <<v1>>, W, A0, A1), Does(c, <<v2>>, W, A1, A2),
         Does(c, <<v3>>, W, A2, A3), Does(c, <<v4>>, W, A3, A4)
  PROVE  Does(c, <<v1, v2, v3, v4>>, W, A0, A4)
<1>1. Does(c, <<v2, v3, v4>>, W, A1, A4)
  BY TripleDoes
<1>2. Does(c, <<v1>> \o <<v2, v3, v4>>, W, A0, A4)
  BY <1>1, ConcatDoes
<1> QED BY <1>2, QuadIsConcat

\* Six instructions in a row.
LEMMA SextDoes ==
  ASSUME NEW c, NEW W, NEW v1, NEW v2, NEW v3, NEW v4, NEW v5, NEW v6,
         NEW A0, NEW A1, NEW A2, NEW A3, NEW A4, NEW A5, NEW A6,
         Does(c, <<v1>>, W, A0, A1), Does(c, <<v2>>, W, A1, A2), Does(c, <<v3>>, W, A2, A3),
         Does(c, <<v4>>, W, A3, A4), Does(c, <<v5>>, W, A4, A5), Does(c, <<v6>>, W, A5, A6)
  PROVE  Does(c, <<v1, v2, v3, v4, v5, v6>>, W, A0, A6)
<1>1. Does(c, <<v3, v4, v5, v6>>, W, A2, A6)
  BY QuadDoes
<1>2. Does(c, <<v2>> \o <<v3, v4, v5, v6>>, W, A1, A6)
  BY <1>1, ConcatDoes
<1>3. Does(c, <<v2, v3, v4, v5, v6>>, W, A1, A6)
  BY <1>2, QuintIsConcat
<1>4. Does(c, <<v1>> \o <<v2, v3, v4, v5, v6>>, W, A0, A6)
  BY <1>3, ConcatDoes
<1> QED BY <1>4, SextIsConcat

\* From the projections to the queries before their scaling and the relative logits.
LEMMA AttnMiddleDoes ==
  ASSUME NEW c, RealCall(c), NEW l \in Layer, NEW z, NEW A, NEW B, NEW E,
         Does(c, z, AttnWrites(l), E, A),
         A = {Now(c, "q_raw", l, "qr"), Now(c, "k_raw", l, "k"), Now(c, "v_raw", l, "v"),
              Now(c, "r_raw", l, "rr")} \cup AttnBefore(c, l),
         B = {Now(c, "q_normed", l, "qn"), Now(c, "rel_logits", l, "r")} \cup AttnAfter(c, l)
  PROVE  Does(c, z \o Sconv(l, "k_hist", "k_raw", "k", "k_sconv", "kc")
                 \o Sconv(l, "v_hist", "v_raw", "v", "v_sconv", "vs")
                 \o Roll(l, "k_hist", "k_raw") \o Roll(l, "v_hist", "v_raw")
                 \o <<Map(l, <<"q_raw">>, <<"qr">>, "q_normed", "qn"),
                      Map(l, <<"k_sconv">>, <<"kc">>, "k_normed", "ks"),
                      Dispatch("store", l, <<"k_normed">>, <<>>, "k", ""),
                      Dispatch("store", l, <<"v_sconv">>, <<>>, "v", ""),
                      Host("len", l, 0, {}, {}),
                      Map(l, <<"r_raw">>, <<"rr">>, "rel_logits", "r")>>,
              AttnWrites(l), E, B)
<1>1. PICK W : W = AttnWrites(l)
  OBVIOUS
<1>2. /\ {Scratch} \X Buffers \subseteq W /\ Writable(c) = Buffers \cup {"x"}
      /\ <<l, "k">> \in W /\ <<l, "v">> \in W /\ <<l, "k_hist">> \in W /\ <<l, "v_hist">> \in W
      /\ <<Lens, l>> \in W
      /\ c.start_pos \in Nat /\ c.T \in Nat
  BY <1>1 DEF AttnWrites, Writable, RealCall
<1>3. PICK q, k, v, r, kh, vh, kc, vc, len :
        /\ q = Now(c, "q_raw", l, "qr") /\ k = Now(c, "k_raw", l, "k")
        /\ v = Now(c, "v_raw", l, "v") /\ r = Now(c, "r_raw", l, "rr")
        /\ kh = HistAt(l, "k_hist", "k", c.start_pos)
        /\ vh = HistAt(l, "v_hist", "v", c.start_pos)
        /\ kc = CellsAt(l, "k", "ks", c.start_pos) /\ vc = CellsAt(l, "v", "vs", c.start_pos)
        /\ len = LenIs(l, c.start_pos)
  OBVIOUS
<1>4. PICK ks, vs, qn, kn, r2, kh2, vh2, kc2, vc2, len2 :
        /\ ks = Now(c, "k_sconv", l, "kc") /\ vs = Now(c, "v_sconv", l, "vs")
        /\ qn = Now(c, "q_normed", l, "qn") /\ kn = Now(c, "k_normed", l, "ks")
        /\ r2 = Now(c, "rel_logits", l, "r")
        /\ kh2 = HistAt(l, "k_hist", "k", c.start_pos + c.T)
        /\ vh2 = HistAt(l, "v_hist", "v", c.start_pos + c.T)
        /\ kc2 = CellsAt(l, "k", "ks", c.start_pos + c.T)
        /\ vc2 = CellsAt(l, "v", "vs", c.start_pos + c.T)
        /\ len2 = LenIs(l, c.start_pos + c.T)
  OBVIOUS
<1>5. /\ q[1] = <<Scratch, "q_raw">> /\ k[1] = <<Scratch, "k_raw">>
      /\ v[1] = <<Scratch, "v_raw">> /\ r[1] = <<Scratch, "r_raw">>
      /\ kh[1] = <<l, "k_hist">> /\ vh[1] = <<l, "v_hist">> /\ kc[1] = <<l, "k">>
      /\ vc[1] = <<l, "v">>
      /\ len[1] = <<Lens, l>>
  BY <1>3 DEF Now, Fact, HistAt, CellsAt, Cached, LenIs
<1>6. /\ ks[1] = <<Scratch, "k_sconv">> /\ vs[1] = <<Scratch, "v_sconv">>
      /\ qn[1] = <<Scratch, "q_normed">> /\ kn[1] = <<Scratch, "k_normed">>
      /\ r2[1] = <<Scratch, "rel_logits">>
      /\ kh2[1] = <<l, "k_hist">> /\ vh2[1] = <<l, "v_hist">>
      /\ kc2[1] = <<l, "k">> /\ vc2[1] = <<l, "v">> /\ len2[1] = <<Lens, l>>
  BY <1>4 DEF Now, Fact, HistAt, CellsAt, Cached, LenIs
<1>7. l \in Nat /\ l # Scratch /\ l # Lens /\ Scratch # Lens
  <2>1. l \in Nat
    BY Sizes DEF Layer
  <2>2. Scratch = -1 /\ Lens = -3
    BY DEF Scratch, Lens
  <2> QED BY <2>1, <2>2
<1>8. PICK A1, A2, A3, A4, A5, A6, A7, A8, A9 :
        /\ A1 = {q, k, v, r, ks, kh, vh, kc, vc, len}
        /\ A2 = {q, k, v, r, ks, vs, kh, vh, kc, vc, len}
        /\ A3 = {q, v, r, ks, vs, kh2, vh, kc, vc, len}
        /\ A4 = {q, r, ks, vs, kh2, vh2, kc, vc, len}
        /\ A5 = {qn, r, ks, vs, kh2, vh2, kc, vc, len}
        /\ A6 = {qn, r, kn, vs, kh2, vh2, kc, vc, len}
        /\ A7 = {qn, r, vs, kh2, vh2, kc2, vc, len}
        /\ A8 = {qn, r, kh2, vh2, kc2, vc2, len}
        /\ A9 = {qn, r, kh2, vh2, kc2, vc2, len2}
  OBVIOUS
<1>9. A = {q, k, v, r, kh, vh, kc, vc, len}
  BY <1>3 DEF AttnBefore
<1>10. B = {qn, r2, kh2, vh2, kc2, vc2, len2}
  BY <1>4 DEF AttnAfter
<1>11. Does(c, Sconv(l, "k_hist", "k_raw", "k", "k_sconv", "kc"), W, A, A1)
  <2>1. Sets(<<Scratch, "k_sconv">>, ks, A, A1)
    <3>1. \A g \in A : g[1] # <<Scratch, "k_sconv">>
      BY <1>5, <1>7, <1>9
    <3>2. \A g \in A1 : g = ks \/ g \in A
      BY <1>8, <1>9
    <3> QED BY <3>1, <3>2 DEF Sets
  <2>2. k \in A /\ kh \in A
    BY <1>9
  <2> QED BY <1>2, <1>3, <1>4, <2>1, <2>2, BufferNames, SconvDoes DEF HistNames
<1>12. Does(c, Sconv(l, "v_hist", "v_raw", "v", "v_sconv", "vs"), W, A1, A2)
  <2>1. Sets(<<Scratch, "v_sconv">>, vs, A1, A2)
    BY <1>5, <1>6, <1>7, <1>8 DEF Sets
  <2>2. v \in A1 /\ vh \in A1
    BY <1>8
  <2> QED BY <1>2, <1>3, <1>4, <2>1, <2>2, BufferNames, SconvDoes DEF HistNames
<1>13. Does(c, Roll(l, "k_hist", "k_raw"), W, A2, A3)
  <2>1. Sets(<<l, "k_hist">>, kh2, A2, A3)
    BY <1>5, <1>6, <1>7, <1>8 DEF Sets
  <2>2. k \in A2 /\ kh \in A2
    BY <1>8
  <2> QED BY <1>2, <1>3, <1>4, <2>1, <2>2, RollDoes DEF HistNames
<1>14. Does(c, Roll(l, "v_hist", "v_raw"), W, A3, A4)
  <2>1. Sets(<<l, "v_hist">>, vh2, A3, A4)
    BY <1>5, <1>6, <1>7, <1>8 DEF Sets
  <2>2. v \in A3 /\ vh \in A3
    BY <1>8
  <2> QED BY <1>2, <1>3, <1>4, <2>1, <2>2, RollDoes DEF HistNames
<1>15. Does(c, <<Map(l, <<"q_raw">>, <<"qr">>, "q_normed", "qn")>>, W, A4, A5)
  <2>1. Sets(<<Scratch, "q_normed">>, qn, A4, A5)
    BY <1>5, <1>6, <1>7, <1>8 DEF Sets
  <2>2. q \in A4
    BY <1>8
  <2> QED BY <1>2, <1>3, <1>4, <2>1, <2>2, BufferNames, MapDoes DEF Now
<1>16. Does(c, <<Map(l, <<"k_sconv">>, <<"kc">>, "k_normed", "ks")>>, W, A5, A6)
  <2>1. Sets(<<Scratch, "k_normed">>, kn, A5, A6)
    BY <1>5, <1>6, <1>7, <1>8 DEF Sets
  <2>2. ks \in A5
    BY <1>8
  <2> QED BY <1>2, <1>3, <1>4, <2>1, <2>2, BufferNames, MapDoes DEF Now
<1>17. Does(c, <<Dispatch("store", l, <<"k_normed">>, <<>>, "k", "")>>, W, A6, A7)
  <2>1. Sets(<<l, "k">>, kc2, A6, A7)
    BY <1>5, <1>6, <1>7, <1>8 DEF Sets
  <2>2. kn \in A6 /\ kc \in A6
    BY <1>8
  <2> QED BY <1>2, <1>3, <1>4, <2>1, <2>2, StoreDoes
<1>18. Does(c, <<Dispatch("store", l, <<"v_sconv">>, <<>>, "v", "")>>, W, A7, A8)
  <2>1. Sets(<<l, "v">>, vc2, A7, A8)
    BY <1>5, <1>6, <1>7, <1>8 DEF Sets
  <2>2. vs \in A7 /\ vc \in A7
    BY <1>8
  <2> QED BY <1>2, <1>3, <1>4, <2>1, <2>2, StoreDoes
<1>19. Does(c, <<Host("len", l, 0, {}, {})>>, W, A8, A9)
  <2>1. Sets(<<Lens, l>>, len2, A8, A9)
    BY <1>5, <1>6, <1>7, <1>8 DEF Sets
  <2>2. len \in A8
    BY <1>8
  <2> QED BY <1>2, <1>3, <1>4, <2>1, <2>2, LenDoes
<1>20. Does(c, <<Map(l, <<"r_raw">>, <<"rr">>, "rel_logits", "r")>>, W, A9, B)
  <2>1. Sets(<<Scratch, "rel_logits">>, r2, A9, B)
    <3>1. \A g \in B : g = r2 \/ g \in A9
      BY <1>8, <1>10
    <3>2. \A g \in B : g = r2 \/ g[1] # <<Scratch, "rel_logits">>
      BY <1>6, <1>7, <1>10
    <3> QED BY <3>1, <3>2 DEF Sets
  <2>2. r \in A9
    BY <1>8
  <2> QED BY <1>2, <1>3, <1>4, <2>1, <2>2, BufferNames, MapDoes DEF Now
<1>21. PICK p : p = <<Map(l, <<"q_raw">>, <<"qr">>, "q_normed", "qn"),
                      Map(l, <<"k_sconv">>, <<"kc">>, "k_normed", "ks"),
                      Dispatch("store", l, <<"k_normed">>, <<>>, "k", ""),
                      Dispatch("store", l, <<"v_sconv">>, <<>>, "v", ""),
                      Host("len", l, 0, {}, {}),
                      Map(l, <<"r_raw">>, <<"rr">>, "rel_logits", "r")>>
  OBVIOUS
<1>22. Does(c, p, W, A4, B)
  <2>1. PICK v1, v2, v3, v4, v5, v6 :
          /\ v1 = Map(l, <<"q_raw">>, <<"qr">>, "q_normed", "qn")
          /\ v2 = Map(l, <<"k_sconv">>, <<"kc">>, "k_normed", "ks")
          /\ v3 = Dispatch("store", l, <<"k_normed">>, <<>>, "k", "")
          /\ v4 = Dispatch("store", l, <<"v_sconv">>, <<>>, "v", "")
          /\ v5 = Host("len", l, 0, {}, {})
          /\ v6 = Map(l, <<"r_raw">>, <<"rr">>, "rel_logits", "r")
    OBVIOUS
  <2>2. /\ Does(c, <<v1>>, W, A4, A5) /\ Does(c, <<v2>>, W, A5, A6) /\ Does(c, <<v3>>, W, A6, A7)
        /\ Does(c, <<v4>>, W, A7, A8) /\ Does(c, <<v5>>, W, A8, A9) /\ Does(c, <<v6>>, W, A9, B)
    BY <1>15, <1>16, <1>17, <1>18, <1>19, <1>20, <2>1
  <2>3. Does(c, <<v1, v2, v3, v4, v5, v6>>, W, A4, B)
    BY <2>2, SextDoes
  <2> QED BY <1>21, <2>1, <2>3
<1>23. Does(c, z \o Sconv(l, "k_hist", "k_raw", "k", "k_sconv", "kc")
                 \o Sconv(l, "v_hist", "v_raw", "v", "v_sconv", "vs")
                 \o Roll(l, "k_hist", "k_raw"), W, E, A3)
  BY <1>1, <1>11, <1>12, <1>13, ConcatDoes
<1>24. Does(c, z \o Sconv(l, "k_hist", "k_raw", "k", "k_sconv", "kc")
                 \o Sconv(l, "v_hist", "v_raw", "v", "v_sconv", "vs")
                 \o Roll(l, "k_hist", "k_raw") \o Roll(l, "v_hist", "v_raw") \o p, W, E, B)
  BY <1>14, <1>22, <1>23, ConcatDoes
<1> QED BY <1>1, <1>21, <1>24

\* real_attn_forward_chunk_gpu: the rows of attention over the whole text, and the cache
\* and the two histories moved on.
LEMMA AttentionDoes ==
  ASSUME NEW c, RealCall(c), NEW l \in Layer, NEW A, NEW B,
         A = {Now(c, "normed", l, "n")} \cup AttnBefore(c, l),
         B = {Now(c, "attn_out", l, "a")} \cup AttnAfter(c, l)
  PROVE  Does(c, Attention(l, c.T), AttnWrites(l), A, B)
<1>1. PICK W : W = AttnWrites(l)
  OBVIOUS
<1>2. /\ {Scratch} \X Buffers \subseteq W /\ Writable(c) = Buffers \cup {"x"}
      /\ c.start_pos \in Nat /\ c.T \in Nat /\ <<HostSide, "shut">> \in W /\ c.arrays = Buffers
  BY <1>1 DEF AttnWrites, Writable, RealCall
<1>3. PICK A1, A2, A3, A4 :
        /\ A1 = {Now(c, "q_raw", l, "qr"), Now(c, "k_raw", l, "k"), Now(c, "v_raw", l, "v"),
                 Now(c, "r_raw", l, "rr")} \cup AttnBefore(c, l)
        /\ A2 = {Now(c, "q_normed", l, "qn"), Now(c, "rel_logits", l, "r")} \cup AttnAfter(c, l)
        /\ A3 = {Now(c, "q_normed", l, "q"), Now(c, "rel_logits", l, "r")} \cup AttnAfter(c, l)
        /\ A4 = {Now(c, "attn_concat", l, "ac")} \cup AttnAfter(c, l)
  OBVIOUS
<1>4. \A g \in AttnAfter(c, l) :
        (\A b : g[1] # <<Scratch, b>>) /\ g[1] # <<HostSide, "shut">>
  BY Sizes DEF AttnAfter, HistAt, CellsAt, Cached, LenIs, Lens, Scratch, HostSide, Layer
<1>5. PICK z : z = ForEach(c.T, LAMBDA t :
                MatvecRow(l, t, "normed", "n", "q_raw", "qr", "xrow", "yrow_q")
                \o MatvecRow(l, t, "normed", "n", "k_raw", "k", "xrow", "yrow_k")
                \o MatvecRow(l, t, "normed", "n", "v_raw", "v", "xrow", "yrow_v")
                \o MatvecRow(l, t, "normed", "n", "r_raw", "rr", "xrow", "yrow_r"))
  OBVIOUS
<1>6. Does(c, z, AttnWrites(l), A, A1)
  BY <1>3, <1>5, ProjectionsDo
<1>7. PICK q : q = z \o Sconv(l, "k_hist", "k_raw", "k", "k_sconv", "kc")
                 \o Sconv(l, "v_hist", "v_raw", "v", "v_sconv", "vs")
                 \o Roll(l, "k_hist", "k_raw") \o Roll(l, "v_hist", "v_raw")
                 \o <<Map(l, <<"q_raw">>, <<"qr">>, "q_normed", "qn"),
                      Map(l, <<"k_sconv">>, <<"kc">>, "k_normed", "ks"),
                      Dispatch("store", l, <<"k_normed">>, <<>>, "k", ""),
                      Dispatch("store", l, <<"v_sconv">>, <<>>, "v", ""),
                      Host("len", l, 0, {}, {}),
                      Map(l, <<"r_raw">>, <<"rr">>, "rel_logits", "r")>>
  OBVIOUS
<1>8. Does(c, q, W, A, A2)
  BY <1>1, <1>3, <1>6, <1>7, AttnMiddleDoes
<1>9. Does(c, TauSync(l), W, A2, A3)
  <2>1. PICK w : w = Host("tau", l, 0, {}, {"q_normed"})
    OBVIOUS
  <2>2. Sets(<<Scratch, "q_normed">>, Now(c, "q_normed", l, "q"), A2, A3)
    BY <1>3, <1>4 DEF Sets, Now, Fact
  <2>3. Now(c, "q_normed", l, "qn") \in A2
    BY <1>3
  <2>4. Does(c, <<w>>, W, A2, A3)
    BY <1>2, <2>1, <2>2, <2>3, BufferNames, TauDoes
  <2>5. \A g \in A3 : g[1] # <<HostSide, "shut">>
    BY <1>3, <1>4 DEF Now, Fact, Scratch, HostSide
  <2>6. Does(c, <<End, w, Begin>>, W, A2, A3)
    BY <1>2, <2>4, <2>5, SyncDoes
  <2> QED BY <2>1, <2>6 DEF TauSync
<1>10. PICK d : d = <<Dispatch("attn", l, <<"q_normed", "rel_logits">>, <<>>, "attn_concat", "ac")>>
  OBVIOUS
<1>11. Does(c, d, W, A3, A4)
  <2>1. Sets(<<Scratch, "attn_concat">>, Now(c, "attn_concat", l, "ac"), A3, A4)
    BY <1>3, <1>4 DEF Sets, Now, Fact
  <2>2. /\ Now(c, "q_normed", l, "q") \in A3 /\ Now(c, "rel_logits", l, "r") \in A3
        /\ CellsAt(l, "k", "ks", c.start_pos + c.T) \in A3
        /\ CellsAt(l, "v", "vs", c.start_pos + c.T) \in A3
    BY <1>3 DEF AttnAfter
  <2> QED BY <1>2, <1>10, <2>1, <2>2, BufferNames, AttnDoes
<1>12. PICK r : r = MatvecRows(c.T, l, "attn_concat", "ac", "attn_out", "a", "xrow", "yrow")
  OBVIOUS
<1>13. Does(c, r, W, A4, B)
  <2>1. \A g \in A4 : \A b \in {"attn_out", "xrow", "yrow"} : g[1] # <<Scratch, b>>
    BY <1>3, <1>4 DEF Now, Fact
  <2>2. Now(c, "attn_concat", l, "ac") \in A4
    BY <1>3
  <2>3. \A g \in B : g \in A4 \/ g = Now(c, "attn_out", l, "a")
    BY <1>3
  <2> QED BY <1>2, <1>12, <2>1, <2>2, <2>3, BufferNames, RowsDo
<1>14. Does(c, q \o TauSync(l) \o d \o r, W, A, B)
  BY <1>8, <1>9, <1>11, <1>13, ConcatDoes
<1>15. Attention(l, c.T) = q \o TauSync(l) \o d \o r
  BY <1>5, <1>7, <1>10, <1>12 DEF Attention, MatvecRows
<1> QED BY <1>1, <1>14, <1>15

\* One row through a product of the expert that op says.
LEMMA ExpertRowDoes ==
  ASSUME NEW c, NEW op \in {"matvec", "routed"}, NEW l, NEW a, NEW from, NEW out \in c.arrays,
         NEW to, to # "next",
         NEW m \in Nat \ {0}, NEW p \in Nat, NEW W, NEW A, NEW B,
         op = "routed" => TopK(<<l, "ro", p>>) \in A,
         Fact(a, m, l, from, p) \in A, <<Scratch, out>> \in W,
         Sets(<<Scratch, out>>, Fact(out, 1, l, to, p), A, B)
  PROVE  Does(c, <<Dispatch(op, l, <<a>>, <<from>>, out, to)>>, W, A, B)
<1>1. PICK d : d = [op |-> op, l |-> l, in |-> <<a>>, from |-> <<from>>, out |-> out,
                    to |-> to, experts |-> Bad]
  OBVIOUS
<1>2. /\ d.op = op /\ d.l = l /\ d.out = out /\ d.to = to
      /\ DOMAIN d.in = {1} /\ d.in[1] = a /\ d.from[1] = from
  BY <1>1
<1>3. PICK f, ar, e : f = Fact(out, 1, l, to, p) /\ ar = <<Scratch, out>> /\ e = <<l, "ro", p>>
  OBVIOUS
<1>4. ASSUME NEW K, A \subseteq K PROVE Makes(c, d, K, e, f)
  <2>1. Fact(a, m, l, from, p) \in K
    BY <1>4
  <2>2. FirstRows(d, K, p)
    BY <1>2, <2>1 DEF FirstRows
  <2> QED BY <1>2, <1>3, <2>2 DEF Makes, MatvecMakes, RoutedMakes
<1>5. ar = Target(d) /\ ar \in W /\ Sets(ar, f, A, B)
  BY <1>2, <1>3 DEF Target
<1>6. op = "routed" => TopK(e) \in A
  BY <1>3
<1> QED BY <1>1, <1>4, <1>5, <1>6, DispatchIn

\* One row through a product of two inputs.
LEMMA PairMatvecDoes ==
  ASSUME NEW c, NEW l, NEW a, NEW fa, NEW b, NEW fb, NEW out \in c.arrays, NEW to, to # "next",
         NEW ma \in Nat \ {0}, NEW mb \in Nat \ {0}, NEW p \in Nat, NEW W, NEW A, NEW B,
         Fact(a, ma, l, fa, p) \in A, Fact(b, mb, l, fb, p) \in A, <<Scratch, out>> \in W,
         Sets(<<Scratch, out>>, Fact(out, 1, l, to, p), A, B)
  PROVE  Does(c, <<Dispatch("matvec", l, <<a, b>>, <<fa, fb>>, out, to)>>, W, A, B)
<1>1. PICK d : d = [op |-> "matvec", l |-> l, in |-> <<a, b>>, from |-> <<fa, fb>>, out |-> out,
                    to |-> to, experts |-> Bad]
  OBVIOUS
<1>2. /\ d.op = "matvec" /\ d.l = l /\ d.out = out /\ d.to = to
      /\ DOMAIN d.in = {1, 2} /\ d.in[1] = a /\ d.from[1] = fa /\ d.in[2] = b /\ d.from[2] = fb
  BY <1>1
<1>3. PICK f, ar : f = Fact(out, 1, l, to, p) /\ ar = <<Scratch, out>>
  OBVIOUS
<1>4. ASSUME NEW K, A \subseteq K PROVE Makes(c, d, K, Bad, f)
  <2>1. Fact(a, ma, l, fa, p) \in K /\ Fact(b, mb, l, fb, p) \in K
    BY <1>4
  <2>2. FirstRows(d, K, p)
    BY <1>2, <2>1 DEF FirstRows
  <2> QED BY <1>2, <1>3, <2>2 DEF Makes, MatvecMakes
<1>5. ar = Target(d) /\ ar \in W /\ Sets(ar, f, A, B)
  BY <1>2, <1>3 DEF Target
<1> QED BY <1>1, <1>4, <1>5, DispatchIn

\* One expert on the row in xt.
LEMMA ExpertDoes ==
  ASSUME NEW c, RealCall(c), NEW l, NEW xt, NEW op \in {"matvec", "routed"},
         NEW out \in Buffers, NEW to, to # "next", NEW m \in Nat \ {0}, NEW p \in Nat,
         NEW W, {Scratch} \X Buffers \subseteq W, NEW A, NEW B,
         op = "routed" => TopK(<<l, "ro", p>>) \in A,
         Fact(xt, m, l, "n2", p) \in A, xt \notin {"gbuf", "ubuf", "hbuf"},
         \A g \in B : \/ g = Fact(out, 1, l, to, p)
                      \/ g \in A /\ \A b \in {"gbuf", "ubuf", "hbuf", out} : g[1] # <<Scratch, b>>
  PROVE  Does(c, Expert(l, xt, op, out, to), W, A, B)
<1>1. c.arrays = Buffers /\ <<Scratch, out>> \in W /\ <<Scratch, "gbuf">> \in W
      /\ <<Scratch, "ubuf">> \in W /\ <<Scratch, "hbuf">> \in W
  BY BufferNames DEF RealCall
<1>2. PICK top, gf, uf, hf, of, xf :
        /\ top = TopK(<<l, "ro", p>>) /\ gf = Fact("gbuf", 1, l, "g", p)
        /\ uf = Fact("ubuf", 1, l, "u", p) /\ hf = Fact("hbuf", 1, l, "hm", p)
        /\ of = Fact(out, 1, l, to, p) /\ xf = Fact(xt, m, l, "n2", p)
  OBVIOUS
<1>3. /\ top[1] = <<HostSide, "topk">> /\ gf[1] = <<Scratch, "gbuf">>
      /\ uf[1] = <<Scratch, "ubuf">>
      /\ hf[1] = <<Scratch, "hbuf">> /\ of[1] = <<Scratch, out>> /\ xf[1] = <<Scratch, xt>>
      /\ Scratch # HostSide
  BY <1>2 DEF TopK, Fact, Scratch, HostSide
<1>4. PICK D : D = {g \in A : \A b \in {"gbuf", "ubuf", "hbuf"} : g[1] # <<Scratch, b>>}
  OBVIOUS
<1>5. PICK A1, A2, A3 : A1 = D \cup {gf} /\ A2 = D \cup {gf, uf} /\ A3 = D \cup {hf}
  OBVIOUS
<1>6. D \subseteq A /\ (op = "routed" => top \in D) /\ xf \in D
      /\ \A g \in D : g[1] # <<Scratch, "gbuf">> /\ g[1] # <<Scratch, "ubuf">> /\ g[1] # <<Scratch, "hbuf">>
  BY <1>2, <1>3, <1>4
<1>7. 1 \in Nat \ {0}
  OBVIOUS
<1>8. PICK v1, v2, v3, v4 :
        /\ v1 = Dispatch(op, l, <<xt>>, <<"n2">>, "gbuf", "g")
        /\ v2 = Dispatch(op, l, <<xt>>, <<"n2">>, "ubuf", "u")
        /\ v3 = Dispatch("matvec", l, <<"gbuf", "ubuf">>, <<"g", "u">>, "hbuf", "hm")
        /\ v4 = Dispatch(op, l, <<"hbuf">>, <<"hm">>, out, to)
  OBVIOUS
<1>9. Does(c, <<v1>>, W, A, A1)
  <2>1. Sets(<<Scratch, "gbuf">>, gf, A, A1)
    BY <1>5, <1>6 DEF Sets
  <2>2. xf \in A /\ (op = "routed" => top \in A)
    BY <1>6
  <2> QED BY <1>1, <1>2, <1>8, <2>1, <2>2, BufferNames, ExpertRowDoes
<1>10. Does(c, <<v2>>, W, A1, A2)
  <2>1. Sets(<<Scratch, "ubuf">>, uf, A1, A2)
    BY <1>3, <1>5, <1>6 DEF Sets
  <2>2. xf \in A1 /\ (op = "routed" => top \in A1)
    BY <1>5, <1>6
  <2> QED BY <1>1, <1>2, <1>8, <2>1, <2>2, BufferNames, ExpertRowDoes
<1>11. Does(c, <<v3>>, W, A2, A3)
  <2>1. Sets(<<Scratch, "hbuf">>, hf, A2, A3)
    BY <1>3, <1>5, <1>6 DEF Sets
  <2>2. gf \in A2 /\ uf \in A2
    BY <1>5
  <2> QED BY <1>1, <1>2, <1>7, <1>8, <2>1, <2>2, BufferNames, PairMatvecDoes
<1>12. Does(c, <<v4>>, W, A3, B)
  <2>1. Sets(<<Scratch, out>>, of, A3, B)
    BY <1>2, <1>4, <1>5 DEF Sets
  <2>2. hf \in A3 /\ (op = "routed" => top \in A3)
    BY <1>5, <1>6
  <2> QED BY <1>1, <1>2, <1>7, <1>8, <2>1, <2>2, ExpertRowDoes
<1>13. Does(c, <<v1, v2, v3, v4>>, W, A, B)
  BY <1>9, <1>10, <1>11, <1>12, QuadDoes
<1> QED BY <1>8, <1>13 DEF Expert

MoeWrites ==
  ({Scratch} \X Buffers)
  \cup {<<HostSide, "shut">>, <<HostSide, "topk">>, <<HostSide, "out_host">>}

MoeDone(c, l, t) == {Now(c, "normed2", l, "n2")} \cup OutPart(t, l, "m", c.start_pos)

\* real_mlp_moe_forward_gpu for token t: its experts, routed from its own row.
LEMMA MoeTokenDoes ==
  ASSUME NEW c, RealCall(c), NEW l, NEW t \in 0..c.T - 1, NEW A, NEW B,
         A = MoeDone(c, l, t), B = MoeDone(c, l, t + 1)
  PROVE  Does(c, MoeToken(l, t), MoeWrites, A, B)
<1>1. PICK W : W = MoeWrites
  OBVIOUS
<1>2. PICK off \in Nat, p \in Nat, n \in Nat \ {0} : off = c.start_pos /\ p = off + t /\ n = c.T
  BY DEF RealCall
<1>3. PICK xt, m : xt = (IF t = 0 THEN "normed2" ELSE "xrow") /\ m = IF t = 0 THEN n ELSE 1
  OBVIOUS
<1>4. /\ {Scratch} \X Buffers \subseteq W /\ c.arrays = Buffers /\ t \in Nat /\ t < n
      /\ <<HostSide, "shut">> \in W /\ <<HostSide, "topk">> \in W
      /\ <<HostSide, "out_host">> \in W
      /\ m \in Nat \ {0}
  BY <1>1, <1>2, <1>3 DEF MoeWrites, RealCall
<1>5. PICK nf, xf, rf, sf, top, ef, of, O :
        /\ nf = Fact("normed2", n, l, "n2", off) /\ xf = Fact(xt, m, l, "n2", p)
        /\ rf = Fact("router_logits", 1, l, "ro", p) /\ sf = Fact("shared_raw", 1, l, "sh", p)
        /\ top = TopK(<<l, "ro", p>>) /\ ef = Fact("routed_raw", 1, l, "re", p)
        /\ of = OutFact(t + 1, l, "m", off) /\ O = OutPart(t, l, "m", off)
  OBVIOUS
<1>6. /\ nf[1] = <<Scratch, "normed2">> /\ xf[1] = <<Scratch, xt>>
      /\ rf[1] = <<Scratch, "router_logits">> /\ sf[1] = <<Scratch, "shared_raw">>
      /\ top[1] = <<HostSide, "topk">> /\ ef[1] = <<Scratch, "routed_raw">>
      /\ of[1] = <<HostSide, "out_host">> /\ \A g \in O : g[1] = <<HostSide, "out_host">>
  BY <1>5 DEF Fact, TopK, OutFact, OutPart
<1>7. Scratch # HostSide
  BY DEF Scratch, HostSide
<1>8. PICK C1, C2, C3, C4, C5 :
        /\ C1 = {nf, xf} \cup O /\ C2 = {nf, xf, rf} \cup O /\ C3 = {nf, xf, rf, sf} \cup O
        /\ C4 = {nf, xf, sf, top} \cup O /\ C5 = {nf, sf, ef} \cup O
  OBVIOUS
<1>9. A = {nf} \cup O /\ B = {nf, of}
  BY <1>2, <1>4, <1>5 DEF MoeDone, Now, OutPart
<1>10. 1 \in Nat \ {0}
  OBVIOUS
<1>11. Does(c, RowIn(t, "normed2", "xrow"), W, A, C1)
  <2>1. CASE t = 0
    <3>1. xf = nf
      BY <1>2, <1>3, <1>5, <2>1
    <3>2. RowIn(t, "normed2", "xrow") = <<>>
      BY <2>1 DEF RowIn
    <3>3. A = C1
      BY <1>8, <1>9, <3>1
    <3> QED BY <3>2, <3>3, EmptyDoes
  <2>2. CASE t # 0
    <3>1. RowIn(t, "normed2", "xrow") = <<Dispatch("row_in", t, <<"normed2">>, <<>>, "xrow", "")>>
      BY <2>2 DEF RowIn
    <3>2. xf = Fact("xrow", 1, l, "n2", off + t) /\ xf[1] = <<Scratch, "xrow">>
      BY <1>2, <1>3, <1>5, <1>6, <2>2
    <3>3. Sets(<<Scratch, "xrow">>, xf, A, C1)
      BY <1>6, <1>7, <1>8, <1>9 DEF Sets
    <3>4. Fact("normed2", n, l, "n2", off) \in A /\ <<Scratch, "xrow">> \in W
          /\ "xrow" \in c.arrays
      BY <1>4, <1>5, <1>9, BufferNames
    <3>5. Does(c, <<Dispatch("row_in", t, <<"normed2">>, <<>>, "xrow", "")>>, W, A, C1)
      BY <1>4, <3>2, <3>3, <3>4, RowInDoes
    <3> QED BY <3>1, <3>5
  <2> QED BY <2>1, <2>2
<1>12. Does(c, <<Matvec(l, xt, "n2", "router_logits", "ro")>>, W, C1, C2)
  <2>1. Sets(<<Scratch, "router_logits">>, rf, C1, C2)
    BY <1>3, <1>6, <1>7, <1>8 DEF Sets
  <2>2. xf \in C1
    BY <1>8
  <2> QED BY <1>4, <1>5, <2>1, <2>2, BufferNames, MatvecDoes
<1>13. Does(c, Expert(l, xt, "matvec", "shared_raw", "sh"), W, C2, C3)
  <2>1. \A g \in C3 : \/ g = sf
                      \/ g \in C2 /\ \A b \in {"gbuf", "ubuf", "hbuf", "shared_raw"} : g[1] # <<Scratch, b>>
    BY <1>3, <1>6, <1>7, <1>8
  <2>2. xf \in C2 /\ xt \notin {"gbuf", "ubuf", "hbuf"}
    BY <1>3, <1>8
  <2> QED BY <1>4, <1>5, <2>1, <2>2, BufferNames, ExpertDoes
<1>14. PICK s1, s2 :
         /\ s1 = <<End, Host("route", l, t, {"router_logits"}, {}), Begin>>
         /\ s2 = <<End, Host("mix", l, t, {"routed_raw", "shared_raw"}, {}), Begin>>
  OBVIOUS
<1>15. Does(c, s1, W, C3, C4)
  <2>1. PICK w : w = Host("route", l, t, {"router_logits"}, {})
    OBVIOUS
  <2>2. Sets(<<HostSide, "topk">>, top, C3, C4)
    BY <1>6, <1>7, <1>8 DEF Sets
  <2>3. rf \in C3
    BY <1>8
  <2>4. Does(c, <<w>>, W, C3, C4)
    BY <1>4, <1>5, <1>10, <2>1, <2>2, <2>3, RouteDoes
  <2>5. \A g \in C4 : g[1] # <<HostSide, "shut">>
    BY <1>6, <1>7, <1>8
  <2>6. Does(c, <<End, w, Begin>>, W, C3, C4)
    BY <1>4, <2>4, <2>5, SyncDoes
  <2> QED BY <1>14, <2>1, <2>6
<1>16. Does(c, Expert(l, xt, "routed", "routed_raw", "re"), W, C4, C5)
  <2>1. \A g \in C5 : \/ g = ef
                      \/ g \in C4 /\ \A b \in {"gbuf", "ubuf", "hbuf", "routed_raw"} : g[1] # <<Scratch, b>>
    BY <1>6, <1>7, <1>8
  <2>2. xf \in C4 /\ top \in C4 /\ xt \notin {"gbuf", "ubuf", "hbuf"}
    BY <1>3, <1>8
  <2> QED BY <1>4, <1>5, <2>1, <2>2, BufferNames, ExpertDoes
<1>17. Does(c, s2, W, C5, B)
  <2>1. PICK w : w = Host("mix", l, t, {"routed_raw", "shared_raw"}, {})
    OBVIOUS
  <2>2. Sets(<<HostSide, "out_host">>, of, C5, B)
    BY <1>6, <1>7, <1>8, <1>9 DEF Sets
  <2>3. ef \in C5 /\ sf \in C5 /\ OutPart(t, l, "m", off) \subseteq C5
    BY <1>5, <1>8
  <2>4. Does(c, <<w>>, W, C5, B)
    BY <1>2, <1>4, <1>5, <1>10, <2>1, <2>2, <2>3, MixDoes
  <2>5. \A g \in B : g[1] # <<HostSide, "shut">>
    BY <1>6, <1>7, <1>9
  <2>6. Does(c, <<End, w, Begin>>, W, C5, B)
    BY <1>4, <2>4, <2>5, SyncDoes
  <2> QED BY <1>14, <2>1, <2>6
<1>18. PICK q : q = RowIn(t, "normed2", "xrow")
                    \o <<Matvec(l, xt, "n2", "router_logits", "ro")>>
                    \o Expert(l, xt, "matvec", "shared_raw", "sh")
                    \o s1
                    \o Expert(l, xt, "routed", "routed_raw", "re")
                    \o s2
  OBVIOUS
<1>19. Does(c, q, W, A, B)
  BY <1>11, <1>12, <1>13, <1>15, <1>16, <1>17, <1>18, ConcatDoes
<1>20. q = MoeToken(l, t)
  BY <1>3, <1>14, <1>18 DEF MoeToken
<1> QED BY <1>1, <1>19, <1>20

\* real_mlp_moe_forward_gpu makes the chunk's layer outputs of the normed rows.
LEMMA MoeMlpDoes ==
  ASSUME NEW c, RealCall(c), NEW l, NEW A, NEW B,
         A = {Now(c, "normed2", l, "n2")}, B = {Now(c, "mlp_out", l, "m")}
  PROVE  Does(c, MoeMlp(l, c.T), MoeWrites, A, B)
<1>1. PICK W, n, off :
        W = MoeWrites /\ n = c.T /\ off = c.start_pos /\ n \in Nat \ {0} /\ off \in Nat
  BY DEF RealCall
<1>2. PICK p : p = [k \in 1..n |-> MoeToken(l, k - 1)]
  OBVIOUS
<1>3. PICK h : h = [t \in 0..n |-> MoeDone(c, l, t)]
  OBVIOUS
<1>4. ASSUME NEW k \in 1..n PROVE Does(c, p[k], W, h[k - 1], h[k])
  <2>1. PICK t \in 0..c.T - 1 : t = k - 1 /\ t + 1 = k
    BY <1>1
  <2>2. Does(c, MoeToken(l, t), W, MoeDone(c, l, t), MoeDone(c, l, t + 1))
    BY <1>1, MoeTokenDoes
  <2>3. h[k - 1] = MoeDone(c, l, t) /\ h[k] = MoeDone(c, l, t + 1)
    BY <1>1, <1>3, <2>1
  <2> QED BY <1>2, <2>1, <2>2, <2>3
<1>5. Does(c, FlattenSeq(p), W, h[0], h[n])
  <2>1. Len(p) = n
    BY <1>1, <1>2
  <2> QED BY <1>1, <1>4, <2>1, FlattenDoes
<1>6. h[0] = A /\ OutFact(n, l, "m", off) \in h[n]
  BY <1>1, <1>3 DEF MoeDone, OutPart
<1>7. Does(c, <<Host("memcpy", l, 0, {}, {"mlp_out"})>>, W, h[n], B)
  <2>1. c.arrays = Buffers /\ <<Scratch, "mlp_out">> \in W
    BY <1>1, BufferNames DEF RealCall, MoeWrites
  <2>2. Sets(<<Scratch, "mlp_out">>, Fact("mlp_out", n, l, "m", off), h[n], B)
    BY <1>1 DEF Sets, Now
  <2> QED BY <1>1, <1>6, <2>1, <2>2, BufferNames, MemcpyDoes
<1>8. PICK r : r = FlattenSeq(p)
  OBVIOUS
<1>9. Does(c, r \o <<Host("memcpy", l, 0, {}, {"mlp_out"})>>, W, A, B)
  BY <1>5, <1>6, <1>7, <1>8, ConcatDoes
<1>10. MoeMlp(l, c.T) = r \o <<Host("memcpy", l, 0, {}, {"mlp_out"})>>
  BY <1>1, <1>2, <1>8 DEF MoeMlp, ForEach
<1> QED BY <1>1, <1>9, <1>10

\* real_mlp_dense_forward_gpu.
LEMMA DenseMlpDoes ==
  ASSUME NEW c, RealCall(c), NEW l, NEW A, NEW B,
         A = {Now(c, "normed2", l, "n2")}, B = {Now(c, "mlp_out", l, "m")}
  PROVE  Does(c, DenseMlp(l, c.T), MoeWrites, A, B)
<1>1. PICK W, n : W = MoeWrites /\ n = c.T /\ n \in Nat \ {0}
  BY DEF RealCall
<1>2. /\ {Scratch} \X Buffers \subseteq W /\ c.arrays = Buffers /\ c.start_pos \in Nat
      /\ Writable(c) = Buffers \cup {"x"}
  BY <1>1 DEF MoeWrites, RealCall, Writable
<1>3. PICK n2, g, u, hm, y, m :
        /\ n2 = Now(c, "normed2", l, "n2") /\ g = Now(c, "g_full", l, "g")
        /\ u = Now(c, "u_full", l, "u") /\ hm = Now(c, "h_full", l, "hm")
        /\ y = Now(c, "y_full", l, "y") /\ m = Now(c, "mlp_out", l, "m")
  OBVIOUS
<1>4. /\ n2[1] = <<Scratch, "normed2">> /\ g[1] = <<Scratch, "g_full">>
      /\ u[1] = <<Scratch, "u_full">> /\ hm[1] = <<Scratch, "h_full">>
      /\ y[1] = <<Scratch, "y_full">> /\ m[1] = <<Scratch, "mlp_out">>
  BY <1>3 DEF Now, Fact
<1>5. PICK A1, A2, A3 : A1 = {g, u} /\ A2 = {hm} /\ A3 = {y}
  OBVIOUS
<1>6. PICK p : p = [k \in 1..n |->
        MatvecRow(l, k - 1, "normed2", "n2", "g_full", "g", "xrow", "yrow_q")
        \o MatvecRow(l, k - 1, "normed2", "n2", "u_full", "u", "xrow", "yrow_k")]
  OBVIOUS
<1>7. PICK h : h = [t \in 0..n |-> {n2} \cup RowsDone(c, t, "g_full", l, "g") \cup RowsDone(c, t, "u_full", l, "u")]
  OBVIOUS
<1>8. ASSUME NEW k \in 1..n PROVE Does(c, p[k], W, h[k - 1], h[k])
  <2>1. PICK t \in 0..c.T - 1 : t = k - 1 /\ t + 1 = k
    BY <1>1
  <2>2. PICK C0, C1, C2 :
          /\ C0 = {n2} \cup RowsDone(c, t, "g_full", l, "g") \cup RowsDone(c, t, "u_full", l, "u")
          /\ C1 = {n2} \cup RowsDone(c, t + 1, "g_full", l, "g") \cup RowsDone(c, t, "u_full", l, "u")
          /\ C2 = {n2} \cup RowsDone(c, t + 1, "g_full", l, "g") \cup RowsDone(c, t + 1, "u_full", l, "u")
    OBVIOUS
  <2>3. Does(c, MatvecRow(l, t, "normed2", "n2", "g_full", "g", "xrow", "yrow_q"), W, C0, C1)
    <3>1. RowSets("xrow", "yrow_q", "g_full", RowsDone(c, t + 1, "g_full", l, "g"), C0, C1)
      BY <1>4, <2>2 DEF RowSets, RowsDone, Part, Fact
    <3>2. RowsDone(c, t, "g_full", l, "g") \subseteq C0 /\ n2 \in C0
      BY <2>2
    <3> QED BY <1>2, <1>3, <3>1, <3>2, BufferNames, RowDoes
  <2>4. Does(c, MatvecRow(l, t, "normed2", "n2", "u_full", "u", "xrow", "yrow_k"), W, C1, C2)
    <3>1. RowSets("xrow", "yrow_k", "u_full", RowsDone(c, t + 1, "u_full", l, "u"), C1, C2)
      BY <1>4, <2>2 DEF RowSets, RowsDone, Part, Fact
    <3>2. RowsDone(c, t, "u_full", l, "u") \subseteq C1 /\ n2 \in C1
      BY <2>2
    <3> QED BY <1>2, <1>3, <3>1, <3>2, BufferNames, RowDoes
  <2>5. Does(c, MatvecRow(l, t, "normed2", "n2", "g_full", "g", "xrow", "yrow_q")
                \o MatvecRow(l, t, "normed2", "n2", "u_full", "u", "xrow", "yrow_k"), W, C0, C2)
    BY <2>3, <2>4, ConcatDoes
  <2>6. h[k - 1] = C0 /\ h[k] = C2
    BY <1>1, <1>7, <2>1, <2>2
  <2> QED BY <1>6, <2>1, <2>5, <2>6
<1>9. Does(c, FlattenSeq(p), W, h[0], h[n])
  <2>1. Len(p) = n
    BY <1>1, <1>6
  <2> QED BY <1>1, <1>8, <2>1, FlattenDoes
<1>10. h[0] = A /\ A1 \subseteq h[n]
  BY <1>1, <1>3, <1>5, <1>7 DEF RowsDone, Part, Now
<1>11. PICK r : r = FlattenSeq(p)
  OBVIOUS
<1>12. Does(c, r, W, A, A1)
  <2>1. W \subseteq W /\ A \subseteq A /\ A1 \subseteq Post(A, W, h[n])
    BY <1>10 DEF Post
  <2> QED BY <1>9, <1>10, <1>11, <2>1, DoesWeaker
<1>13. Does(c, <<Map(l, <<"g_full", "u_full">>, <<"g", "u">>, "h_full", "hm")>>, W, A1, A2)
  <2>1. Sets(<<Scratch, "h_full">>, hm, A1, A2)
    BY <1>5 DEF Sets
  <2>2. /\ Fact("g_full", c.T, l, "g", c.start_pos) \in A1
        /\ Fact("u_full", c.T, l, "u", c.start_pos) \in A1
        /\ hm = Fact("h_full", c.T, l, "hm", c.start_pos) /\ "hm" # "next"
    BY <1>3, <1>5 DEF Now
  <2>3. "h_full" \in Writable(c) /\ <<Scratch, "h_full">> \in W
    BY <1>2, BufferNames
  <2> QED BY <1>2, <2>1, <2>2, <2>3, PairMapDoes
<1>14. Does(c, MatvecRows(c.T, l, "h_full", "hm", "y_full", "y", "xrow", "yrow"), W, A2, A3)
  <2>1. \A f \in A2 : \A b \in {"y_full", "xrow", "yrow"} : f[1] # <<Scratch, b>>
    BY <1>4, <1>5
  <2>2. Now(c, "h_full", l, "hm") \in A2 /\ \A f \in A3 : f \in A2 \/ f = Now(c, "y_full", l, "y")
    BY <1>3, <1>5
  <2> QED BY <1>2, <2>1, <2>2, BufferNames, RowsDo
<1>15. Does(c, <<Map(l, <<"y_full">>, <<"y">>, "mlp_out", "m")>>, W, A3, B)
  <2>1. Sets(<<Scratch, "mlp_out">>, m, A3, B)
    BY <1>3 DEF Sets
  <2>2. Fact("y_full", c.T, l, "y", c.start_pos) \in A3
        /\ m = Fact("mlp_out", c.T, l, "m", c.start_pos)
    BY <1>3, <1>5 DEF Now
  <2> QED BY <1>2, <2>1, <2>2, BufferNames, MapDoes
<1>16. PICK q : q = r \o <<Map(l, <<"g_full", "u_full">>, <<"g", "u">>, "h_full", "hm")>>
                      \o MatvecRows(c.T, l, "h_full", "hm", "y_full", "y", "xrow", "yrow")
                      \o <<Map(l, <<"y_full">>, <<"y">>, "mlp_out", "m")>>
  OBVIOUS
<1>17. Does(c, q, W, A, B)
  BY <1>12, <1>13, <1>14, <1>15, <1>16, ConcatDoes
<1>18. q = DenseMlp(l, c.T)
  BY <1>1, <1>6, <1>11, <1>16 DEF DenseMlp, ForEach, MatvecRows
<1> QED BY <1>1, <1>17, <1>18

-----------------------------------------------------------------------------
(* The real model's layers, and its whole program.                         *)

\* What layer l keeps of the first m tokens of the text.
LayerFacts(l, m) ==
  {HistAt(l, "k_hist", "k", m), HistAt(l, "v_hist", "v", m), HistAt(l, "attn_hist", "a", m),
   HistAt(l, "mlp_hist", "m", m), CellsAt(l, "k", "ks", m), CellsAt(l, "v", "vs", m), LenIs(l, m)}

LayerWrites(l) ==
  ({Scratch} \X (TinyArrays \cup {"x"}))
  \cup {<<HostSide, "shut">>, <<HostSide, "topk">>, <<HostSide, "out_host">>}
  \cup ({l} \X CacheNames) \cup {<<Lens, l>>}

\* The parts of a program, each in its own context.
LEMMA LayerParts ==
  ASSUME NEW l \in Layer
  PROVE  /\ AttnWrites(l) \subseteq LayerWrites(l) /\ MoeWrites \subseteq LayerWrites(l)
         /\ \A b \in Buffers \cup {"x"} : <<Scratch, b>> \in LayerWrites(l)
         /\ \A b \in CacheNames : <<l, b>> \in LayerWrites(l)
BY DEF AttnWrites, MoeWrites, LayerWrites, CacheNames, HistNames, TinyArrays

\* real_decoder_layer_forward_gpu.
LEMMA LayerDoes ==
  ASSUME NEW c, RealCall(c), NEW l \in Layer, NEW A, NEW B,
         A = {Now(c, "x", l, "x")} \cup LayerFacts(l, c.start_pos),
         B = {Now(c, "x", l + 1, "x")} \cup LayerFacts(l, c.start_pos + c.T)
  PROVE  Does(c, DecoderLayer(l, c.T), LayerWrites(l), A, B)
<1>1. PICK W, V, M : W = LayerWrites(l) /\ V = AttnWrites(l) /\ M = MoeWrites
  OBVIOUS
<1>2. /\ V \subseteq W /\ M \subseteq W /\ \A b \in Buffers \cup {"x"} : <<Scratch, b>> \in W
      /\ \A b \in CacheNames : <<l, b>> \in W
  BY <1>1, LayerParts
<1>3. /\ c.start_pos \in Nat /\ c.T \in Nat /\ c.arrays = Buffers
      /\ Writable(c) = Buffers \cup {"x"}
      /\ "attn_hist" \in HistNames /\ "mlp_hist" \in HistNames
      /\ "attn_hist" \in CacheNames /\ "mlp_hist" \in CacheNames
  BY DEF RealCall, Writable, HistNames, CacheNames
<1>4. PICK x0, n, ao, as, xh, n2, m, ms, x1 :
        /\ x0 = Now(c, "x", l, "x") /\ n = Now(c, "normed", l, "n")
        /\ ao = Now(c, "attn_out", l, "a") /\ as = Now(c, "attn_sconv_out", l, "as")
        /\ xh = Now(c, "x", l, "h") /\ n2 = Now(c, "normed2", l, "n2")
        /\ m = Now(c, "mlp_out", l, "m") /\ ms = Now(c, "mlp_sconv_out", l, "ms")
        /\ x1 = Now(c, "x", l + 1, "x")
  OBVIOUS
<1>5. PICK ah, mh, ah2, mh2, ab, aa :
        /\ ah = HistAt(l, "attn_hist", "a", c.start_pos)
        /\ mh = HistAt(l, "mlp_hist", "m", c.start_pos)
        /\ ah2 = HistAt(l, "attn_hist", "a", c.start_pos + c.T)
        /\ mh2 = HistAt(l, "mlp_hist", "m", c.start_pos + c.T)
        /\ ab = AttnBefore(c, l) /\ aa = AttnAfter(c, l)
  OBVIOUS
<1>6. /\ x0[1] = <<Scratch, "x">> /\ n[1] = <<Scratch, "normed">>
      /\ ao[1] = <<Scratch, "attn_out">>
      /\ as[1] = <<Scratch, "attn_sconv_out">> /\ xh[1] = <<Scratch, "x">>
      /\ n2[1] = <<Scratch, "normed2">> /\ m[1] = <<Scratch, "mlp_out">>
      /\ ms[1] = <<Scratch, "mlp_sconv_out">> /\ x1[1] = <<Scratch, "x">>
  BY <1>4 DEF Now, Fact
<1>7. /\ ah[1] = <<l, "attn_hist">> /\ mh[1] = <<l, "mlp_hist">>
      /\ ah2[1] = <<l, "attn_hist">> /\ mh2[1] = <<l, "mlp_hist">>
  BY <1>5 DEF HistAt, Cached
<1>8. /\ l # Scratch /\ l # Lens /\ l # HostSide /\ Scratch # Lens /\ Scratch # HostSide
      /\ Lens # HostSide
  <2>1. l \in Nat
    BY Sizes DEF Layer
  <2> QED BY <2>1 DEF Scratch, Lens, HostSide
<1>9. \A g \in aa : /\ \A b : g[1] # <<Scratch, b>>
                    /\ g[1] # <<l, "attn_hist">> /\ g[1] # <<l, "mlp_hist">>
                    /\ g[1] \notin M
  BY <1>1, <1>5, <1>8 DEF AttnAfter, HistAt, CellsAt, Cached, LenIs, MoeWrites
<1>10. \A g \in ab : \A b : g[1] # <<Scratch, b>>
  BY <1>5, <1>8 DEF AttnBefore, HistAt, CellsAt, Cached, LenIs
<1>11. x0[1] \notin V /\ ah[1] \notin V /\ mh[1] \notin V /\ xh[1] \notin M /\ ah2[1] \notin M
       /\ mh[1] \notin M
  <2>1. "x" \notin Buffers
    BY BufferNames
  <2> QED BY <1>1, <1>6, <1>7, <1>8, <2>1 DEF AttnWrites, MoeWrites
<1>12. PICK C1, C2, C3, C4, C5, C6, C7, C8, C9 :
         /\ C1 = {x0, n, ah, mh} \cup ab
         /\ C2 = {x0, ao, ah, mh} \cup aa
         /\ C3 = {x0, ao, as, ah, mh} \cup aa
         /\ C4 = {x0, as, ah2, mh} \cup aa
         /\ C5 = {xh, ah2, mh} \cup aa
         /\ C6 = {xh, n2, ah2, mh} \cup aa
         /\ C7 = {xh, m, ah2, mh} \cup aa
         /\ C8 = {xh, m, ms, ah2, mh} \cup aa
         /\ C9 = {xh, ms, ah2, mh2} \cup aa
  OBVIOUS
<1>13. A = {x0, ah, mh} \cup ab /\ B = {x1, ah2, mh2} \cup aa
  BY <1>4, <1>5 DEF LayerFacts, AttnBefore, AttnAfter
<1>14. Does(c, <<Map(l, <<"x">>, <<"x">>, "normed", "n")>>, W, A, C1)
  <2>1. Sets(<<Scratch, "normed">>, n, A, C1)
    BY <1>6, <1>7, <1>8, <1>10, <1>12, <1>13 DEF Sets
  <2>2. x0 \in A
    BY <1>13
  <2> QED BY <1>2, <1>3, <1>4, <2>1, <2>2, BufferNames, MapDoes DEF Now
<1>15. Does(c, Attention(l, c.T), W, C1, C2)
  <2>1. PICK K, L : K = {n} \cup ab /\ L = {ao} \cup aa
    OBVIOUS
  <2>2. Does(c, Attention(l, c.T), V, K, L)
    BY <1>1, <1>4, <1>5, <2>1, AttentionDoes
  <2>3. K \subseteq C1 /\ C2 \subseteq Post(C1, V, L)
    BY <1>11, <1>12, <2>1 DEF Post
  <2> QED BY <1>2, <2>2, <2>3, DoesWeaker
<1>16. Does(c, Sconv(l, "attn_hist", "attn_out", "a", "attn_sconv_out", "as"), W, C2, C3)
  <2>1. Sets(<<Scratch, "attn_sconv_out">>, as, C2, C3)
    <3>1. \A g \in C3 : g = as \/ g \in C2
      BY <1>12
    <3>2. x0[1] # <<Scratch, "attn_sconv_out">> /\ ao[1] # <<Scratch, "attn_sconv_out">>
      BY <1>6
    <3>3. ah[1] # <<Scratch, "attn_sconv_out">> /\ mh[1] # <<Scratch, "attn_sconv_out">>
      BY <1>7, <1>8
    <3>4. \A g \in C3 : g = as \/ g[1] # <<Scratch, "attn_sconv_out">>
      BY <1>9, <1>12, <3>2, <3>3
    <3> QED BY <3>1, <3>4 DEF Sets
  <2>2. ao \in C2 /\ ah \in C2
    BY <1>12
  <2> QED BY <1>2, <1>3, <1>4, <1>5, <2>1, <2>2, BufferNames, SconvDoes
<1>17. Does(c, Roll(l, "attn_hist", "attn_out"), W, C3, C4)
  <2>1. Sets(<<l, "attn_hist">>, ah2, C3, C4)
    <3>1. \A g \in C4 : g = ah2 \/ g \in C3
      BY <1>12
    <3>2. x0[1] # <<l, "attn_hist">> /\ as[1] # <<l, "attn_hist">>
      BY <1>6, <1>8
    <3>3. mh[1] # <<l, "attn_hist">>
      BY <1>7
    <3>4. \A g \in C4 : g = ah2 \/ g[1] # <<l, "attn_hist">>
      BY <1>9, <1>12, <3>2, <3>3
    <3> QED BY <3>1, <3>4 DEF Sets
  <2>2. ao \in C3 /\ ah \in C3
    BY <1>12
  <2> QED BY <1>2, <1>3, <1>4, <1>5, <2>1, <2>2, RollDoes
<1>18. Does(c, <<Map(l, <<"x", "attn_sconv_out">>, <<"x", "as">>, "x", "h")>>, W, C4, C5)
  <2>1. Sets(<<Scratch, "x">>, xh, C4, C5)
    <3>1. \A g \in C5 : g = xh \/ g \in C4
      BY <1>12
    <3>2. \A g \in C5 : g = xh \/ g[1] # <<Scratch, "x">>
      BY <1>6, <1>7, <1>8, <1>9, <1>12
    <3> QED BY <3>1, <3>2 DEF Sets
  <2>2. x0 \in C4 /\ as \in C4 /\ "h" # "next"
    BY <1>12
  <2> QED BY <1>2, <1>3, <1>4, <2>1, <2>2, PairMapDoes DEF Now
<1>19. Does(c, <<Map(l, <<"x">>, <<"h">>, "normed2", "n2")>>, W, C5, C6)
  <2>1. Sets(<<Scratch, "normed2">>, n2, C5, C6)
    <3>1. \A g \in C6 : g = n2 \/ g \in C5
      BY <1>12
    <3>2. \A g \in C6 : g = n2 \/ g[1] # <<Scratch, "normed2">>
      BY <1>6, <1>7, <1>8, <1>9, <1>12
    <3> QED BY <3>1, <3>2 DEF Sets
  <2>2. xh \in C5
    BY <1>12
  <2> QED BY <1>2, <1>3, <1>4, <2>1, <2>2, BufferNames, MapDoes DEF Now
<1>20. PICK mlp : mlp = IF l \in Sparse THEN MoeMlp(l, c.T) ELSE DenseMlp(l, c.T)
  OBVIOUS
<1>21. Does(c, mlp, W, C6, C7)
  <2>1. PICK K, L : K = {n2} /\ L = {m}
    OBVIOUS
  <2>2. Does(c, mlp, M, K, L)
    BY <1>1, <1>4, <1>20, <2>1, MoeMlpDoes, DenseMlpDoes
  <2>3. K \subseteq C6 /\ C7 \subseteq Post(C6, M, L)
    BY <1>9, <1>11, <1>12, <2>1 DEF Post
  <2> QED BY <1>2, <2>2, <2>3, DoesWeaker
<1>22. Does(c, Sconv(l, "mlp_hist", "mlp_out", "m", "mlp_sconv_out", "ms"), W, C7, C8)
  <2>1. Sets(<<Scratch, "mlp_sconv_out">>, ms, C7, C8)
    <3>1. \A g \in C8 : g = ms \/ g \in C7
      BY <1>12
    <3>2. \A g \in C8 : g = ms \/ g[1] # <<Scratch, "mlp_sconv_out">>
      BY <1>6, <1>7, <1>8, <1>9, <1>12
    <3> QED BY <3>1, <3>2 DEF Sets
  <2>2. m \in C7 /\ mh \in C7
    BY <1>12
  <2> QED BY <1>2, <1>3, <1>4, <1>5, <2>1, <2>2, BufferNames, SconvDoes
<1>23. Does(c, Roll(l, "mlp_hist", "mlp_out"), W, C8, C9)
  <2>1. Sets(<<l, "mlp_hist">>, mh2, C8, C9)
    <3>1. \A g \in C9 : g = mh2 \/ g \in C8
      BY <1>12
    <3>2. \A g \in C9 : g = mh2 \/ g[1] # <<l, "mlp_hist">>
      BY <1>6, <1>7, <1>8, <1>9, <1>12
    <3> QED BY <3>1, <3>2 DEF Sets
  <2>2. m \in C8 /\ mh \in C8
    BY <1>12
  <2> QED BY <1>2, <1>3, <1>4, <1>5, <2>1, <2>2, RollDoes
<1>24. Does(c, <<Map(l, <<"x", "mlp_sconv_out">>, <<"h", "ms">>, "x", "next")>>, W, C9, B)
  <2>1. Sets(<<Scratch, "x">>, x1, C9, B)
    <3>1. \A g \in B : g = x1 \/ g \in C9
      BY <1>12, <1>13
    <3>2. \A g \in B : g = x1 \/ g[1] # <<Scratch, "x">>
      BY <1>6, <1>7, <1>8, <1>9, <1>12, <1>13
    <3> QED BY <3>1, <3>2 DEF Sets
  <2>2. xh \in C9 /\ ms \in C9
    BY <1>12
  <2> QED BY <1>2, <1>3, <1>4, <2>1, <2>2, PairMapDoes DEF Now
<1>25. PICK z : z = <<Map(l, <<"x">>, <<"x">>, "normed", "n")>>
                    \o Attention(l, c.T)
                    \o Sconv(l, "attn_hist", "attn_out", "a", "attn_sconv_out", "as")
                    \o Roll(l, "attn_hist", "attn_out")
  OBVIOUS
<1>26. Does(c, z, W, A, C4)
  BY <1>14, <1>15, <1>16, <1>17, <1>25, ConcatDoes
<1>27. PICK y : y = <<Map(l, <<"x", "attn_sconv_out">>, <<"x", "as">>, "x", "h"),
                      Map(l, <<"x">>, <<"h">>, "normed2", "n2")>>
  OBVIOUS
<1>28. Does(c, y, W, C4, C6)
  BY <1>18, <1>19, <1>27, PairDoes
<1>29. PICK r : r = z \o y \o mlp
                    \o Sconv(l, "mlp_hist", "mlp_out", "m", "mlp_sconv_out", "ms")
                    \o Roll(l, "mlp_hist", "mlp_out")
                    \o <<Map(l, <<"x", "mlp_sconv_out">>, <<"h", "ms">>, "x", "next")>>
  OBVIOUS
<1>30. Does(c, r, W, A, B)
  BY <1>21, <1>22, <1>23, <1>24, <1>26, <1>28, <1>29, ConcatDoes
<1>31. r = DecoderLayer(l, c.T)
  BY <1>20, <1>25, <1>27, <1>29 DEF DecoderLayer
<1> QED BY <1>1, <1>30, <1>31

\* What the layers keep when the chunk has been through the first n of them.
Kept(c, n) == UNION {LayerFacts(l, IF l < n THEN c.start_pos + c.T ELSE c.start_pos) : l \in Layer}

\* Where a call starts, x apart, and what it has made when only the logits are left to read.
Goal(c) == {Now(c, "logits_buf", NumLayers, "lg"), Shut} \cup Kept(c, NumLayers)

ProgramWrites ==
  ({Scratch} \X (TinyArrays \cup {"x"}))
  \cup {<<HostSide, "shut">>, <<HostSide, "topk">>, <<HostSide, "out_host">>}
  \cup (Layer \X CacheNames) \cup ({Lens} \X Layer)

\* The facts kept from layer to layer are about the cache, not a buffer or the host.
LEMMA KeptAt ==
  /\ \A l, m : \A g \in LayerFacts(l, m) : g[1] = <<Lens, l>> \/ \E b \in CacheNames : g[1] = <<l, b>>
  /\ \A c, n : \A g \in Kept(c, n) :
       \E l \in Layer : g \in LayerFacts(l, IF l < n THEN c.start_pos + c.T ELSE c.start_pos)
  /\ \A c, n : \A g \in Kept(c, n) :
       (\A b : g[1] # <<Scratch, b>>) /\ (\A b : g[1] # <<HostSide, b>>)
  /\ \A l \in Layer : l # Scratch /\ l # HostSide /\ l # Lens
  /\ Scratch # HostSide /\ Scratch # Lens /\ HostSide # Lens
<1>1. \A l, m : \A g \in LayerFacts(l, m) : g[1] = <<Lens, l>> \/ \E b \in CacheNames : g[1] = <<l, b>>
  <2> SUFFICES ASSUME NEW l, NEW m, NEW g \in LayerFacts(l, m)
               PROVE  g[1] = <<Lens, l>> \/ \E b \in CacheNames : g[1] = <<l, b>>
    OBVIOUS
  <2>1. /\ "k_hist" \in CacheNames /\ "v_hist" \in CacheNames /\ "attn_hist" \in CacheNames
        /\ "mlp_hist" \in CacheNames /\ "k" \in CacheNames /\ "v" \in CacheNames
    BY DEF CacheNames, HistNames
  <2>2. \/ g[1] = <<l, "k_hist">> \/ g[1] = <<l, "v_hist">> \/ g[1] = <<l, "attn_hist">>
        \/ g[1] = <<l, "mlp_hist">> \/ g[1] = <<l, "k">> \/ g[1] = <<l, "v">> \/ g[1] = <<Lens, l>>
    BY DEF LayerFacts, HistAt, CellsAt, Cached, LenIs
  <2> QED BY <2>1, <2>2
<1>2. \A c, n : \A g \in Kept(c, n) :
        \E l \in Layer : g \in LayerFacts(l, IF l < n THEN c.start_pos + c.T ELSE c.start_pos)
  BY DEF Kept
<1>3. /\ \A l \in Layer : l # Scratch /\ l # HostSide /\ l # Lens
      /\ Scratch # HostSide /\ Scratch # Lens /\ HostSide # Lens
  <2>1. \A l \in Layer : l \in Nat
    BY Sizes DEF Layer
  <2> QED BY <2>1 DEF Scratch, HostSide, Lens
<1>4. ASSUME NEW c, NEW n, NEW g \in Kept(c, n)
      PROVE  (\A b : g[1] # <<Scratch, b>>) /\ (\A b : g[1] # <<HostSide, b>>)
  <2>1. PICK l \in Layer : g \in LayerFacts(l, IF l < n THEN c.start_pos + c.T ELSE c.start_pos)
    BY <1>2
  <2>2. g[1] = <<Lens, l>> \/ \E b \in CacheNames : g[1] = <<l, b>>
    BY <1>1, <2>1
  <2> QED BY <1>3, <2>2
<1> QED BY <1>1, <1>2, <1>3, <1>4

\* What one layer does to what all of them keep.
LEMMA KeptNext ==
  ASSUME NEW c, NEW l \in Layer, NEW g \in Kept(c, l + 1)
  PROVE  \/ g \in LayerFacts(l, c.start_pos + c.T)
         \/ g \in Kept(c, l) /\ g[1] \notin LayerWrites(l)
<1>1. PICK k \in Layer : g \in LayerFacts(k, IF k < l + 1 THEN c.start_pos + c.T ELSE c.start_pos)
  BY KeptAt
<1>2. k \in Nat /\ l \in Nat
  BY Sizes DEF Layer
<1>3. CASE k = l
  BY <1>1, <1>2, <1>3
<1>4. CASE k # l
  <2>1. k < l + 1 <=> k < l
    BY <1>2, <1>4
  <2>2. g \in Kept(c, l)
    BY <1>1, <2>1 DEF Kept
  <2>3. g[1] = <<Lens, k>> \/ \E b \in CacheNames : g[1] = <<k, b>>
    BY <1>1, KeptAt
  <2>4. g[1] \notin LayerWrites(l)
    BY <1>4, <2>3, KeptAt DEF LayerWrites
  <2> QED BY <2>2, <2>4
<1> QED BY <1>3, <1>4

\* Before the layer, what it keeps.
LEMMA KeptHas ==
  ASSUME NEW c, NEW l \in Layer
  PROVE  LayerFacts(l, c.start_pos) \subseteq Kept(c, l)
<1>1. l \in Nat /\ ~(l < l)
  BY Sizes DEF Layer
<1> QED BY <1>1 DEF Kept

\* Layer after layer.
LEMMA LayersDo ==
  ASSUME NEW c, NEW p, Len(p) = NumLayers,
         \A l \in Layer : Does(c, p[l + 1], LayerWrites(l),
                               {Now(c, "x", l, "x")} \cup LayerFacts(l, c.start_pos),
                               {Now(c, "x", l + 1, "x")} \cup LayerFacts(l, c.start_pos + c.T))
  PROVE  Does(c, FlattenSeq(p), ProgramWrites, {Now(c, "x", 0, "x")} \cup Kept(c, 0),
              {Now(c, "x", NumLayers, "x")} \cup Kept(c, NumLayers))
<1>1. NumLayers \in Nat \ {0}
  BY ForwardAssumption
<1>2. PICK h : h = [n \in 0..NumLayers |-> {Now(c, "x", n, "x")} \cup Kept(c, n)]
  OBVIOUS
<1>3. ASSUME NEW k \in 1..NumLayers PROVE Does(c, p[k], ProgramWrites, h[k - 1], h[k])
  <2>1. PICK l \in Layer : l = k - 1 /\ l + 1 = k
    BY <1>1 DEF Layer
  <2>2. PICK A, B, V : /\ A = {Now(c, "x", l, "x")} \cup LayerFacts(l, c.start_pos)
                       /\ B = {Now(c, "x", l + 1, "x")} \cup LayerFacts(l, c.start_pos + c.T)
                       /\ V = LayerWrites(l)
    OBVIOUS
  <2>3. Does(c, p[k], V, A, B)
    BY <2>1, <2>2
  <2>4. V \subseteq ProgramWrites
    BY <2>2 DEF LayerWrites, ProgramWrites
  <2>5. h[k - 1] = {Now(c, "x", l, "x")} \cup Kept(c, l)
        /\ h[k] = {Now(c, "x", l + 1, "x")} \cup Kept(c, l + 1)
    BY <1>1, <1>2, <2>1
  <2>6. A \subseteq h[k - 1]
    BY <2>2, <2>5, KeptHas
  <2>7. h[k] \subseteq Post(h[k - 1], V, B)
    <3> SUFFICES ASSUME NEW g \in h[k] PROVE g \in Post(h[k - 1], V, B)
      OBVIOUS
    <3>1. g = Now(c, "x", l + 1, "x") \/ g \in Kept(c, l + 1)
      BY <2>5
    <3>2. CASE g \in Kept(c, l + 1)
      <4>1. g \in LayerFacts(l, c.start_pos + c.T) \/ (g \in Kept(c, l) /\ g[1] \notin LayerWrites(l))
        BY <3>2, KeptNext
      <4> QED BY <2>2, <2>5, <4>1 DEF Post
    <3> QED BY <2>2, <3>1, <3>2 DEF Post
  <2> QED BY <2>3, <2>4, <2>6, <2>7, DoesWeaker
<1>4. Does(c, FlattenSeq(p), ProgramWrites, h[0], h[NumLayers])
  BY <1>1, <1>3, FlattenDoes
<1>5. /\ h[0] = {Now(c, "x", 0, "x")} \cup Kept(c, 0)
      /\ h[NumLayers] = {Now(c, "x", NumLayers, "x")} \cup Kept(c, NumLayers)
  BY <1>1, <1>2
<1> QED BY <1>4, <1>5

\* A program reaches what it makes.
LEMMA DoesReaches ==
  ASSUME NEW c, NEW q, NEW A, NEW W, NEW B, Does(c, q, W, A, B)
  PROVE  Reaches(c, q, A, B)
<1>1. Reaches(c, q, A, Post(A, W, B))
  BY DEF Does
<1>2. B \subseteq Post(A, W, B) /\ A \subseteq A
  BY DEF Post
<1> QED BY <1>1, <1>2, ReachesWeaker

\* real_forward_chunk_gpu.
LEMMA ProgramReaches ==
  ASSUME NEW c, RealCall(c)
  PROVE  \E r : /\ Reaches(c, r, {Now(c, "x", 0, "x")} \cup Kept(c, 0), Goal(c))
                /\ Program(c.T) = r \o <<LastStep>>
<1>1. PICK n, W : n = c.T /\ n \in Nat \ {0} /\ W = ProgramWrites
  BY DEF RealCall
<1>2. /\ {Scratch} \X Buffers \subseteq W /\ <<HostSide, "shut">> \in W
      /\ c.arrays = Buffers /\ c.start_pos \in Nat
  BY <1>1 DEF ProgramWrites, RealCall, TinyArrays
<1>3. PICK xf, fn, lg, kept :
       /\ xf = Now(c, "x", NumLayers, "x") /\ fn = Now(c, "final", NumLayers, "fn")
       /\ lg = Now(c, "logits_buf", NumLayers, "lg") /\ kept = Kept(c, NumLayers)
  OBVIOUS
<1>4. PICK S, E : S = {Now(c, "x", 0, "x")} \cup Kept(c, 0) /\ E = {xf} \cup kept
  OBVIOUS
<1>5. /\ xf = Now(c, "x", NumLayers, "x") /\ fn = Now(c, "final", NumLayers, "fn")
      /\ lg = Now(c, "logits_buf", NumLayers, "lg") /\ kept = Kept(c, NumLayers)
      /\ S = {Now(c, "x", 0, "x")} \cup Kept(c, 0) /\ E = {xf} \cup kept
  BY <1>3, <1>4
<1>6. xf[1] = <<Scratch, "x">> /\ fn[1] = <<Scratch, "final">>
      /\ lg[1] = <<Scratch, "logits_buf">>
  BY <1>5 DEF Now, Fact
<1>7. \A g \in kept : (\A b : g[1] # <<Scratch, b>>) /\ (\A b : g[1] # <<HostSide, b>>)
  BY <1>5, KeptAt
<1>8. PICK A1, A2, G : A1 = {fn} \cup kept /\ A2 = {lg} \cup kept /\ G = Goal(c)
  OBVIOUS
<1>9. PICK p : p = [k \in 1..NumLayers |-> DecoderLayer(k - 1, n)]
  OBVIOUS
<1>10. Does(c, FlattenSeq(p), W, S, E)
  <2>1. Len(p) = NumLayers
    BY <1>9, ForwardAssumption
  <2>2. ASSUME NEW l \in Layer
        PROVE  Does(c, p[l + 1], LayerWrites(l), {Now(c, "x", l, "x")} \cup LayerFacts(l, c.start_pos),
                    {Now(c, "x", l + 1, "x")} \cup LayerFacts(l, c.start_pos + c.T))
    <3>1. p[l + 1] = DecoderLayer(l, c.T)
      BY <1>1, <1>9, ForwardAssumption DEF Layer
    <3>2. PICK A, B : /\ A = {Now(c, "x", l, "x")} \cup LayerFacts(l, c.start_pos)
                      /\ B = {Now(c, "x", l + 1, "x")} \cup LayerFacts(l, c.start_pos + c.T)
      OBVIOUS
    <3>3. Does(c, DecoderLayer(l, c.T), LayerWrites(l), A, B)
      BY <3>2, LayerDoes
    <3> QED BY <3>1, <3>2, <3>3
  <2> QED BY <1>1, <1>5, <2>1, <2>2, LayersDo
<1>11. PICK b, w, q :
         /\ b = <<Begin>> /\ w = <<End, Host("final", NumLayers, 0, {"x"}, {"final"}), Begin>>
         /\ q = MatvecRows(c.T, NumLayers, "final", "fn", "logits_buf", "lg", "xrow", "yrow")
  OBVIOUS
<1>12. Does(c, b, W, S, S)
  <2>1. \A g \in S : g[1] # <<HostSide, "shut">>
    BY <1>5, KeptAt DEF Now, Fact
  <2> QED BY <1>2, <1>11, <2>1, BeginDoes
<1>13. Does(c, w, W, E, A1)
  <2>1. PICK v : v = Host("final", NumLayers, 0, {"x"}, {"final"})
    OBVIOUS
  <2>2. Sets(<<Scratch, "final">>, fn, E, A1)
    BY <1>5, <1>7, <1>8 DEF Sets
  <2>3. xf \in E /\ <<Scratch, "final">> \in W
    BY <1>2, <1>5, BufferNames
  <2>4. Does(c, <<v>>, W, E, A1)
    BY <1>2, <1>5, <2>1, <2>2, <2>3, BufferNames, FinalDoes
  <2>5. \A g \in A1 : g[1] # <<HostSide, "shut">>
    BY <1>6, <1>7, <1>8, KeptAt
  <2>6. Does(c, <<End, v, Begin>>, W, E, A1)
    BY <1>2, <2>4, <2>5, SyncDoes
  <2> QED BY <1>11, <2>1, <2>6
<1>14. Does(c, q, W, A1, A2)
  <2>1. \A g \in A1 : \A d \in {"logits_buf", "xrow", "yrow"} : g[1] # <<Scratch, d>>
    BY <1>6, <1>7, <1>8
  <2>2. Now(c, "final", NumLayers, "fn") \in A1 /\ \A g \in A2 : g \in A1 \/ g = Now(c, "logits_buf", NumLayers, "lg")
    BY <1>5, <1>8
  <2> QED BY <1>2, <1>11, <2>1, <2>2, BufferNames, RowsDo
<1>15. Does(c, <<End>>, W, A2, G)
  <2>1. \A g \in G : g \in A2 \/ g = Shut
    BY <1>5, <1>8 DEF Goal
  <2> QED BY <2>1, EndDoes
<1>16. PICK r : r = b \o FlattenSeq(p) \o w \o q
  OBVIOUS
<1>17. Does(c, r, W, S, A2)
  BY <1>10, <1>12, <1>13, <1>14, <1>16, ConcatDoes
<1>18. PICK u : u = r \o <<End>>
  OBVIOUS
<1>19. Does(c, u, W, S, G)
  BY <1>15, <1>17, <1>18, ConcatDoes
<1>20. Program(n) = r \o <<End, LastStep>>
  <2>1. FlattenSeq(p) = ForEach(NumLayers, LAMBDA l : DecoderLayer(l, n))
    BY <1>9 DEF ForEach
  <2>2. q = ForEach(n, LAMBDA t : MatvecRow(NumLayers, t, "final", "fn", "logits_buf", "lg", "xrow", "yrow"))
    BY <1>1, <1>11 DEF MatvecRows
  <2> QED BY <1>11, <1>16, <2>1, <2>2 DEF Program, LastStep
<1>21. <<End, LastStep>> = <<End>> \o <<LastStep>>
  BY PairIsConcat
<1>22. r \o (<<End>> \o <<LastStep>>) = u \o <<LastStep>>
  <2>1. PICK X : r \in Seq(X)
    <3>1. Reaches(c, r, S, Post(S, W, A2))
      BY <1>17 DEF Does
    <3> QED BY <3>1 DEF Reaches
  <2>2. PICK U : U = X \cup {End, LastStep}
    OBVIOUS
  <2>3. r \in Seq(U) /\ <<End>> \in Seq(U) /\ <<LastStep>> \in Seq(U)
    BY <2>1, <2>2, SeqDef
  <2> QED BY <1>18, <2>3, ConcatAssociative
<1>23. Program(n) = u \o <<LastStep>>
  BY <1>20, <1>21, <1>22
<1>24. PICK y : y = Program(n)
  OBVIOUS
<1>25. y = u \o <<LastStep>>
  BY <1>23, <1>24
<1>26. PICK z : Reaches(c, z, S, G) /\ y = z \o <<LastStep>>
  <2>1. Reaches(c, u, S, G)
    BY ONLY <1>19, DoesReaches
  <2> QED BY <1>25, <2>1
<1>27. Reaches(c, z, {Now(c, "x", 0, "x")} \cup Kept(c, 0), Goal(c))
  BY <1>8, <1>26, <1>4
<1> QED BY <1>1, <1>24, <1>26, <1>27

-----------------------------------------------------------------------------
(* The tiny path: one operation at a time, with its arrays uploaded and    *)
(* its output read back.                                                   *)

DeviceNames == {"dev_a", "dev_b", "dev_c", "dev_d"}

\* The arrays with a row for every token.
RowArrays == TinyArrays \ DeviceNames

TinyCall(c) == c.T \in Nat \ {0} /\ c.start_pos \in Nat /\ c.arrays = RowArrays

\* The arrays of one operation.
OneWrites == ({Scratch} \X (DeviceNames \cup {"dev_out"})) \cup {<<HostSide, "shut">>}

\* The device arrays and the buffers of the tiny path, each told from the others.
LEMMA DeviceFacts ==
  /\ DOMAIN Devices = DeviceNames
  /\ Devices["dev_a"] = 1 /\ Devices["dev_b"] = 2 /\ Devices["dev_c"] = 3 /\ Devices["dev_d"] = 4
  /\ \A b \in Buffers : b \in TinyArrays /\ b \notin DeviceNames /\ b # "dev_out" /\ b \notin CacheNames
  /\ \A b \in DeviceNames : b \in TinyArrays
  /\ "dev_out" \in TinyArrays /\ "x_raw" \in TinyArrays /\ "q_scaled" \in TinyArrays
  /\ "gu" \in TinyArrays /\ "hrow" \in TinyArrays /\ "x" \notin TinyArrays
  /\ \A b \in Buffers \cup {"dev_out", "x_raw", "q_scaled", "gu", "hrow"} : b \in RowArrays
BY DEF RowArrays, Devices, DeviceNames, TinyArrays, Buffers, CacheNames, HistNames

\* The devices of one, two and four inputs.
LEMMA DevicesOf ==
  /\ SubSeq(<<"dev_a", "dev_b", "dev_c", "dev_d">>, 1, 1) = <<"dev_a">>
  /\ SubSeq(<<"dev_a", "dev_b", "dev_c", "dev_d">>, 1, 2) = <<"dev_a", "dev_b">>
  /\ SubSeq(<<"dev_a", "dev_b", "dev_c", "dev_d">>, 1, 4) = <<"dev_a", "dev_b", "dev_c", "dev_d">>
<1>1. PICK s : s = <<"dev_a", "dev_b", "dev_c", "dev_d">>
  OBVIOUS
<1>2. s \in Seq(DeviceNames) /\ Len(s) = 4 /\ \A j \in 1..4 : s[j] \in DeviceNames
  BY <1>1 DEF DeviceNames
<1>3. ASSUME NEW n \in 1..4, NEW p \in Seq(DeviceNames), Len(p) = n, \A j \in 1..n : p[j] = s[j]
      PROVE  SubSeq(s, 1, n) = p
  <2>1. /\ SubSeq(s, 1, n) \in Seq(DeviceNames) /\ Len(SubSeq(s, 1, n)) = n
        /\ \A j \in 1..n : SubSeq(s, 1, n)[j] = s[j]
    <3>1. PICK m \in Int : m = 1
      OBVIOUS
    <3>2. \A j \in m..n : s[j] \in DeviceNames
      BY <1>2, <3>1
    <3>3. /\ SubSeq(s, m, n) \in Seq(DeviceNames)
          /\ Len(SubSeq(s, m, n)) = IF m <= n THEN n - m + 1 ELSE 0
          /\ \A j \in 1..n - m + 1 : SubSeq(s, m, n)[j] = s[m + j - 1]
      BY <3>2, SubSeqProperties
    <3> QED BY <3>1, <3>3
  <2>2. PICK q : q = SubSeq(s, 1, n)
    OBVIOUS
  <2> QED BY <1>3, <2>1, <2>2, SeqEqual
<1>4. SubSeq(s, 1, 1) = <<"dev_a">>
  <2>1. PICK p : p = <<"dev_a">>
    OBVIOUS
  <2>2. PICK n \in 1..4 : n = 1
    OBVIOUS
  <2>3. p \in Seq(DeviceNames) /\ Len(p) = n /\ \A j \in 1..n : p[j] = s[j]
    BY <1>1, <2>1, <2>2 DEF DeviceNames
  <2>4. SubSeq(s, 1, n) = p
    BY <1>3, <2>3
  <2> QED BY <2>1, <2>2, <2>4
<1>5. SubSeq(s, 1, 2) = <<"dev_a", "dev_b">>
  <2>1. PICK p : p = <<"dev_a", "dev_b">>
    OBVIOUS
  <2>2. PICK n \in 1..4 : n = 2
    OBVIOUS
  <2>3. p \in Seq(DeviceNames) /\ Len(p) = n /\ \A j \in 1..n : p[j] = s[j]
    BY <1>1, <2>1, <2>2 DEF DeviceNames
  <2>4. SubSeq(s, 1, n) = p
    BY <1>3, <2>3
  <2> QED BY <2>1, <2>2, <2>4
<1>6. SubSeq(s, 1, 4) = s
  BY <1>2, <1>3
<1> QED BY <1>1, <1>4, <1>5, <1>6

\* As Sets, for an operation of the small model.
OneSets(ar, f, A, B) ==
  \A g \in B : g = f \/ g = Shut \/ (g \in A /\ g[1] \notin OneWrites /\ g[1] # ar)

OneDispatch(op, l, in, from, to) ==
  [op |-> op, l |-> l, in |-> SubSeq(<<"dev_a", "dev_b", "dev_c", "dev_d">>, 1, Len(in)), from |-> from,
   out |-> "dev_out", to |-> to, experts |-> Bad]

\* An operation that makes of A the facts U about what it uploads, of them D about dev_out,
\* and of that and the rows P before it f about its output.
Serves(c, op, l, in, t, from, out, ot, to, A, U, D, P, e, f) ==
  /\ op \notin {"roll", "store"} /\ (op = "routed" => TopK(e) \in A)
  /\ \A K : A \subseteq K => UploadChanges(c, Upload(l, in, t), K, {Scratch} \X DeviceNames, U)
  /\ \A K : U \subseteq K => Makes(c, OneDispatch(op, l, in, from, to), K, e, D)
  /\ \A K : D \in K /\ P \subseteq K =>
       ReadBackChanges(c, ReadBack(l, out, ot), K, {<<Scratch, out>>}, {f})
  /\ \A g \in P : g \in A /\ g[1] \notin OneWrites
  /\ \A g \in U : g[1] \in {Scratch} \X DeviceNames
  /\ D[1] = <<Scratch, "dev_out">>

\* A one-op call: upload, dispatch and read back do what the dispatch makes.
LEMMA CallDoes ==
  ASSUME NEW c, NEW op, NEW l, NEW in, NEW t, NEW from, NEW out, NEW ot, NEW to, NEW A, NEW U,
         NEW D,
         NEW P, NEW e, NEW f, Serves(c, op, l, in, t, from, out, ot, to, A, U, D, P, e, f),
         NEW W, NEW B, OneWrites \subseteq W, <<Scratch, out>> \in W,
         OneSets(<<Scratch, out>>, f, A, B)
  PROVE  Does(c, Call(op, l, in, t, from, out, ot, to), W, A, B)
<1>1. PICK d, V, E, F, ar : /\ d = OneDispatch(op, l, in, from, to)
                            /\ V = {Scratch} \X DeviceNames
                            /\ ar = <<Scratch, out>> /\ E = {ar} /\ F = {f}
  OBVIOUS
<1>2. /\ op \notin {"roll", "store"} /\ (op = "routed" => TopK(e) \in A)
      /\ \A K : A \subseteq K => UploadChanges(c, Upload(l, in, t), K, V, U)
      /\ \A K : U \subseteq K => Makes(c, d, K, e, D)
      /\ \A K : D \in K /\ P \subseteq K => ReadBackChanges(c, ReadBack(l, out, ot), K, E, F)
      /\ \A g \in P : g \in A /\ g[1] \notin OneWrites
      /\ \A g \in U : g[1] \in V
      /\ D[1] = <<Scratch, "dev_out">>
  BY <1>1 DEF Serves
<1>3. ar \in W /\ \A g \in B : g = f \/ g = Shut \/ (g \in A /\ g[1] \notin OneWrites /\ g[1] # ar)
  BY <1>1 DEF OneSets
<1>4. d.op = op /\ d.out = "dev_out"
  BY <1>1 DEF OneDispatch
<1>5. PICK devs : devs = SubSeq(<<"dev_a", "dev_b", "dev_c", "dev_d">>, 1, Len(in))
  OBVIOUS
<1>6. d = [op |-> op, l |-> l, in |-> devs, from |-> from, out |-> "dev_out", to |-> to, experts |-> Bad]
  BY <1>1, <1>5 DEF OneDispatch
<1>7. PICK Q : Q = {g \in A : g[1] \notin OneWrites}
  OBVIOUS
<1>8. Scratch # HostSide /\ V \subseteq W /\ <<HostSide, "shut">> \in W
      /\ <<Scratch, "dev_out">> \in W
      /\ <<Scratch, "dev_out">> \notin V
  BY <1>7, <1>1 DEF OneWrites, Scratch, HostSide, DeviceNames
<1>9. \A g \in Q : g \in A /\ g[1] \notin V /\ g[1] # <<Scratch, "dev_out">> /\ g[1] # <<HostSide, "shut">>
  <2>1. V \subseteq OneWrites /\ <<Scratch, "dev_out">> \in OneWrites
        /\ <<HostSide, "shut">> \in OneWrites
    BY <1>1 DEF OneWrites
  <2> QED BY <1>7, <2>1
<1>10. PICK A1, A2, A3 : A1 = U \cup Q /\ A2 = {D} \cup Q /\ A3 = {D, Shut} \cup Q
  OBVIOUS
<1>11. PICK u, r : u = Upload(l, in, t) /\ r = ReadBack(l, out, ot)
  OBVIOUS
<1>12. /\ u.do = "host" /\ u.step = "upload" /\ u.step # "logits" /\ Touches(u)
       /\ r.do = "host" /\ r.step = "readback" /\ r.step # "logits" /\ Touches(r)
  <2>1. /\ u.do = "host" /\ u.step = "upload" /\ u.writes = DeviceNames
        /\ r.do = "host" /\ r.step = "readback" /\ r.writes = {out}
    BY <1>11, DeviceFacts DEF Upload, ReadBack
  <2> QED BY <2>1 DEF Touches, DeviceNames
<1>13. Does(c, <<u>>, W, A, A1)
  <2>1. ASSUME NEW K, A \subseteq K PROVE HostChanges(c, u, K, V, U)
    BY <1>11, <1>12, <1>2, <2>1 DEF HostChanges
  <2>2. \A g \in A1 : g \in U \/ (g \in A /\ g[1] \notin V)
    BY <1>9, <1>10
  <2> QED BY <1>8, <1>12, <2>1, <2>2, HostDoes
<1>14. Does(c, <<Begin>>, W, A1, A1)
  <2>1. \A g \in A1 : g[1] # <<HostSide, "shut">>
    BY <1>8, <1>9, <1>10, <1>1, <1>2
  <2> QED BY <1>8, <2>1, BeginDoes
<1>15. PICK w : w = Dispatch(op, l, devs, from, "dev_out", to)
  OBVIOUS
<1>16. Does(c, <<w>>, W, A1, A2)
  <2>1. \A K : A1 \subseteq K => Makes(c, d, K, e, D)
    BY <1>10, <1>2
  <2>2. op = "routed" => TopK(e) \in A1
    <3>1. TopK(e)[1] \notin OneWrites
      BY <1>8 DEF TopK, OneWrites
    <3> QED BY <1>7, <1>10, <1>2, <3>1
  <2>3. PICK b : b = <<Scratch, "dev_out">>
    OBVIOUS
  <2>4. b = Target(d) /\ b \in W /\ Sets(b, D, A1, A2)
    <3>1. Sets(b, D, A1, A2)
      BY <1>9, <1>10, <2>3 DEF Sets
    <3> QED BY <1>8, <1>2, <1>4, <2>3, <3>1 DEF Target
  <2> QED BY <1>15, <1>6, <2>1, <2>2, <2>4, DispatchIn
<1>17. Does(c, <<End>>, W, A2, A3)
  BY <1>10, EndDoes
<1>18. Does(c, <<r>>, W, A3, B)
  <2>1. ASSUME NEW K, A3 \subseteq K PROVE HostChanges(c, r, K, E, F)
    <3>1. D \in K /\ P \subseteq K
      BY <1>7, <1>10, <1>2, <2>1
    <3>2. ReadBackChanges(c, r, K, E, F)
      BY <1>11, <1>2, <3>1
    <3> QED BY <1>12, <3>2 DEF HostChanges
  <2>2. \A g \in B : g \in F \/ (g \in A3 /\ g[1] \notin E)
    <3>1. Shut[1] = <<HostSide, "shut">>
      BY DEF Shut
    <3>2. ar # <<HostSide, "shut">>
      BY <1>8, <1>1
    <3> QED BY <1>7, <1>10, <1>1, <1>3, <3>1, <3>2
  <2>3. E \subseteq W
    BY <1>1, <1>3
  <2> QED BY <1>12, <2>1, <2>2, <2>3, HostDoes
<1>19. Does(c, <<Begin, w, End>>, W, A1, A3)
  BY <1>14, <1>16, <1>17, TripleDoes
<1>20. PICK y : y = Run(op, l, in, from, to)
  OBVIOUS
<1>21. Does(c, y, W, A1, A3)
  BY <1>15, <1>19, <1>20, <1>5 DEF Run
<1>22. Does(c, <<u>> \o y \o <<r>>, W, A, B)
  BY <1>13, <1>18, <1>21, ConcatDoes
<1> QED BY <1>11, <1>20, <1>22 DEF Call

\* The devices that the inputs of an operation are uploaded to.
LEMMA DevicesAt ==
  \A n \in {1, 2, 4} : \A devs :
    devs = SubSeq(<<"dev_a", "dev_b", "dev_c", "dev_d">>, 1, n) =>
      /\ DOMAIN devs = 1..n
      /\ \A j \in 1..n : devs[j] \in DeviceNames /\ Devices[devs[j]] = j
<1>1. \A devs : devs = <<"dev_a">> => DOMAIN devs = 1..1 /\ devs[1] = "dev_a"
  OBVIOUS
<1>2. \A devs : devs = <<"dev_a", "dev_b">> => DOMAIN devs = 1..2 /\ devs[1] = "dev_a" /\ devs[2] = "dev_b"
  OBVIOUS
<1>3. \A devs : devs = <<"dev_a", "dev_b", "dev_c", "dev_d">> =>
        /\ DOMAIN devs = 1..4 /\ devs[1] = "dev_a" /\ devs[2] = "dev_b"
        /\ devs[3] = "dev_c" /\ devs[4] = "dev_d"
  OBVIOUS
<1>4. ASSUME NEW devs, DOMAIN devs = 1..1, devs[1] = "dev_a"
      PROVE  \A j \in 1..1 : devs[j] \in DeviceNames /\ Devices[devs[j]] = j
  BY <1>4, DeviceFacts DEF DeviceNames
<1>5. ASSUME NEW devs, DOMAIN devs = 1..2, devs[1] = "dev_a", devs[2] = "dev_b"
      PROVE  \A j \in 1..2 : devs[j] \in DeviceNames /\ Devices[devs[j]] = j
  BY <1>5, DeviceFacts DEF DeviceNames
<1>6. ASSUME NEW devs, DOMAIN devs = 1..4, devs[1] = "dev_a", devs[2] = "dev_b",
             devs[3] = "dev_c", devs[4] = "dev_d"
      PROVE  \A j \in 1..4 : devs[j] \in DeviceNames /\ Devices[devs[j]] = j
  BY <1>6, DeviceFacts DEF DeviceNames
<1> QED BY <1>1, <1>2, <1>3, <1>4, <1>5, <1>6, DevicesOf

\* An array of the chunk's rows, uploaded whole.
LEMMA WholeUpload ==
  ASSUME NEW c, NEW w, w.t = All, NEW K, NEW name, name \notin CacheNames, NEW b,
         NEW m \in Nat, NEW l, NEW kind, NEW off \in Nat, Fact(name, m, l, kind, off) \in K,
         NEW f, f = Fact(b, m, l, kind, off)
  PROVE  UploadMakes(c, w, K, name, b, f)
<1>1. PICK o \in Int : o = 0
  OBVIOUS
<1>2. /\ name \notin CacheNames /\ w.t = All
      /\ Fact(name, m, l, kind, off) \in K /\ f = Fact(b, m, l, kind, off)
  OBVIOUS
<1> QED BY <1>1, <1>2 DEF UploadMakes

\* Over all the rows of its inputs.
LEMMA MapCallDoes ==
  ASSUME NEW c, TinyCall(c), NEW n \in {1, 2}, NEW l, NEW in, DOMAIN in = 1..n, Len(in) = n,
         NEW from, NEW out \in Buffers \cup {"x"}, NEW to, NEW W, NEW A, NEW B, NEW f,
         \A j \in 1..n : in[j] \notin CacheNames /\ Now(c, in[j], l, from[j]) \in A,
         f = IF to = "next" THEN Now(c, out, l + 1, "x") ELSE Now(c, out, l, to),
         OneWrites \subseteq W, <<Scratch, out>> \in W, OneSets(<<Scratch, out>>, f, A, B)
  PROVE  Does(c, MapCall(l, in, from, out, to), W, A, B)
<1>1. PICK devs : devs = SubSeq(<<"dev_a", "dev_b", "dev_c", "dev_d">>, 1, Len(in))
  OBVIOUS
<1>2. DOMAIN devs = 1..n /\ \A j \in 1..n : devs[j] \in DeviceNames /\ Devices[devs[j]] = j
  <2>1. PICK k \in {1, 2, 4} : k = n
    OBVIOUS
  <2>2. devs = SubSeq(<<"dev_a", "dev_b", "dev_c", "dev_d">>, 1, k)
    BY <1>1, <2>1
  <2>3. DOMAIN devs = 1..k /\ \A j \in 1..k : devs[j] \in DeviceNames /\ Devices[devs[j]] = j
    BY ONLY k \in {1, 2, 4}, <2>2, DevicesAt
  <2> QED BY <2>1, <2>3
<1>3. PICK d : d = OneDispatch("map", l, in, from, to)
  OBVIOUS
<1>4. /\ d.op = "map" /\ d.l = l /\ d.in = devs /\ d.from = from /\ d.out = "dev_out" /\ d.to = to
  BY <1>1, <1>3 DEF OneDispatch
<1>5. PICK lo, kind : lo = (IF to = "next" THEN l + 1 ELSE l) /\ kind = IF to = "next" THEN "x" ELSE to
  OBVIOUS
<1>6. PICK D, U, P, ar : /\ D = Fact("dev_out", c.T, lo, kind, c.start_pos)
                         /\ U = {Fact(devs[j], c.T, l, from[j], c.start_pos) : j \in 1..n}
                         /\ P = {} /\ ar = <<Scratch, out>>
  OBVIOUS
<1>7. PICK V, E, F : V = {Scratch} \X DeviceNames /\ E = {ar} /\ F = {f}
  OBVIOUS
<1>8. /\ c.arrays = RowArrays /\ c.start_pos \in Nat /\ c.T \in Nat
      /\ f = Fact(out, c.T, lo, kind, c.start_pos)
      /\ 1 \in 1..n /\ Writable(c) = RowArrays \cup {"x"}
  BY <1>5 DEF TinyCall, Now, Writable
<1>9. PICK u, r : u = Upload(l, in, All) /\ r = ReadBack(l, out, All)
  OBVIOUS
<1>10. u.t = All /\ u.l = l /\ u.in = in /\ r.t = All /\ r.out = out
  BY <1>9 DEF Upload, ReadBack
<1>11. ASSUME NEW K, A \subseteq K PROVE UploadChanges(c, u, K, V, U)
  <2>1. ASSUME NEW j \in 1..n PROVE UploadMakes(c, u, K, in[j], devs[j], Fact(devs[j], c.T, l, from[j], c.start_pos))
    <3>1. Fact(in[j], c.T, l, from[j], c.start_pos) \in K /\ in[j] \notin CacheNames
      BY <1>11 DEF Now
    <3>2. PICK g : g = Fact(devs[j], c.T, l, from[j], c.start_pos)
      OBVIOUS
    <3>3. UploadMakes(c, u, K, in[j], devs[j], g)
      BY <1>8, <1>10, <3>1, <3>2, WholeUpload
    <3> QED BY <3>2, <3>3
  <2>2. ASSUME NEW g \in U
        PROVE  \E b \in DOMAIN Devices : Devices[b] \in DOMAIN u.in /\ UploadMakes(c, u, K, u.in[Devices[b]], b, g)
    <3>1. PICK j \in 1..n : g = Fact(devs[j], c.T, l, from[j], c.start_pos)
      BY <1>6
    <3>2. PICK b \in DeviceNames : b = devs[j] /\ Devices[b] = j
      BY <1>2
    <3>3. UploadMakes(c, u, K, in[j], b, g)
      BY <2>1, <3>1, <3>2
    <3> QED BY <1>10, <3>2, <3>3, DeviceFacts
  <2>3. DOMAIN Devices = DeviceNames
    BY <1>8, DeviceFacts
  <2> QED BY <1>7, <2>2, <2>3 DEF UploadChanges
<1>12. ASSUME NEW K, U \subseteq K PROVE Makes(c, d, K, Bad, D)
  <2>1. \A j \in DOMAIN d.in : Fact(d.in[j], c.T, d.l, d.from[j], c.start_pos) \in K
    BY <1>2, <1>4, <1>6, <1>12
  <2>2. MapMakes(c, d, K, D)
    BY <1>2, <1>4, <1>5, <1>6, <1>8, <2>1, DeviceFacts DEF MapMakes
  <2> QED BY <1>4, <2>2 DEF Makes
<1>13. ASSUME NEW K, D \in K, P \subseteq K PROVE ReadBackChanges(c, r, K, E, F)
  <2>1. D \in K
    BY <1>13
  <2>2. out \in Writable(c)
    BY <1>8, DeviceFacts
  <2> QED BY <1>6, <1>8, <1>10, <1>7, <2>1, <2>2 DEF ReadBackChanges
<1>14. /\ D[1] = <<Scratch, "dev_out">> /\ ar # <<HostSide, "shut">> /\ ar \in W
       /\ \A g \in U : g[1] \in V
       /\ \A g \in P : g \in A /\ g[1] \notin OneWrites
  <2>1. \A g \in U : g[1] \in V
    BY <1>2, <1>6, <1>7 DEF Fact
  <2>2. ar # <<HostSide, "shut">>
    BY <1>6 DEF Scratch, HostSide
  <2> QED BY <1>6, <2>1, <2>2 DEF Fact
<1>15. Serves(c, "map", l, in, All, from, out, All, to, A, U, D, P, Bad, f)
  BY <1>3, <1>6, <1>9, <1>11, <1>12, <1>13, <1>14, <1>7 DEF Serves
<1>16. Does(c, Call("map", l, in, All, from, out, All, to), W, A, B)
  BY <1>15, CallDoes
<1> QED BY <1>16 DEF MapCall

\* A one-op map over one array.
LEMMA MapOneDoes ==
  ASSUME NEW c, TinyCall(c), NEW l, NEW a, a \notin CacheNames, NEW from,
         NEW out \in Buffers \cup {"x"},
         NEW to, to # "next", NEW W, NEW A, NEW B, Now(c, a, l, from) \in A,
         OneWrites \subseteq W, <<Scratch, out>> \in W,
         OneSets(<<Scratch, out>>, Now(c, out, l, to), A, B)
  PROVE  Does(c, MapCall(l, <<a>>, <<from>>, out, to), W, A, B)
<1>1. PICK in, fs : in = <<a>> /\ fs = <<from>>
  OBVIOUS
<1>2. PICK n \in {1, 2} : n = 1 /\ DOMAIN in = 1..n /\ Len(in) = n
  BY <1>1
<1>3. \A j \in 1..n : in[j] \notin CacheNames /\ Now(c, in[j], l, fs[j]) \in A
  BY <1>1, <1>2
<1>4. Does(c, MapCall(l, in, fs, out, to), W, A, B)
  BY <1>2, <1>3, MapCallDoes
<1> QED BY <1>1, <1>4

\* A one-op map over two arrays, which may end the layer.
LEMMA MapTwoDoes ==
  ASSUME NEW c, TinyCall(c), NEW l, NEW a, a \notin CacheNames, NEW b, b \notin CacheNames,
         NEW fa, NEW fb, NEW out \in Buffers \cup {"x"}, NEW to, NEW W, NEW A, NEW B, NEW f,
         Now(c, a, l, fa) \in A, Now(c, b, l, fb) \in A,
         f = IF to = "next" THEN Now(c, out, l + 1, "x") ELSE Now(c, out, l, to),
         OneWrites \subseteq W, <<Scratch, out>> \in W, OneSets(<<Scratch, out>>, f, A, B)
  PROVE  Does(c, MapCall(l, <<a, b>>, <<fa, fb>>, out, to), W, A, B)
<1>1. PICK in, fs : in = <<a, b>> /\ fs = <<fa, fb>>
  OBVIOUS
<1>2. PICK n \in {1, 2} : n = 2 /\ DOMAIN in = 1..n /\ Len(in) = n
  BY <1>1
<1>3. \A j \in 1..n : in[j] \notin CacheNames /\ Now(c, in[j], l, fs[j]) \in A
  BY <1>1, <1>2
<1>4. Does(c, MapCall(l, in, fs, out, to), W, A, B)
  BY <1>2, <1>3, MapCallDoes
<1> QED BY <1>1, <1>4

\* One row of each input to row ot of the output, after the ot rows before it.
LEMMA RowCallDoes ==
  ASSUME NEW c, TinyCall(c), NEW op \in {"matvec", "routed"}, NEW n \in {1, 2}, NEW l, NEW in,
         DOMAIN in = 1..n, Len(in) = n,
         NEW t \in Nat, NEW from, NEW out \in TinyArrays, out \notin DeviceNames, out # "dev_out",
         NEW ot \in 0..c.T - 1, NEW to, to # "next", NEW off \in Nat, NEW base \in Nat,
         NEW W, NEW A, NEW B,
         op = "routed" => TopK(<<l, "ro", off + t>>) \in A,
         \A j \in 1..n : /\ in[j] \notin CacheNames
                         /\ \E m \in Nat : t < m /\ Fact(in[j], m, l, from[j], off) \in A,
         base + ot = off + t, Part(out, ot, l, to, base) \subseteq A,
         OneWrites \subseteq W, <<Scratch, out>> \in W,
         OneSets(<<Scratch, out>>, Fact(out, ot + 1, l, to, base), A, B)
  PROVE  Does(c, Call(op, l, in, t, from, out, ot, to), W, A, B)
<1>1. PICK devs : devs = SubSeq(<<"dev_a", "dev_b", "dev_c", "dev_d">>, 1, Len(in))
  OBVIOUS
<1>2. PICK d : d = OneDispatch(op, l, in, from, to)
  OBVIOUS
<1>3. DOMAIN devs = 1..n /\ \A j \in 1..n : devs[j] \in DeviceNames /\ Devices[devs[j]] = j
  <2>1. PICK k \in {1, 2, 4} : k = n
    OBVIOUS
  <2> QED BY <1>1, <2>1, DevicesAt
<1>4. /\ d.op = op /\ d.l = l /\ d.in = devs /\ d.from = from /\ d.out = "dev_out" /\ d.to = to
  BY <1>1, <1>2 DEF OneDispatch
<1>5. PICK p \in Nat : p = off + t
  OBVIOUS
<1>6. PICK D, U, P, f, e : /\ D = Fact("dev_out", 1, l, to, p)
                           /\ U = {Fact(devs[j], 1, l, from[j], p) : j \in 1..n}
                           /\ P = Part(out, ot, l, to, base) /\ f = Fact(out, ot + 1, l, to, base)
                           /\ e = <<l, "ro", p>>
  OBVIOUS
<1>7. PICK V, E, F : V = {Scratch} \X DeviceNames /\ E = {<<Scratch, out>>} /\ F = {f}
  OBVIOUS
<1>8. /\ c.arrays = RowArrays /\ out \in RowArrays /\ 1 \in 1..n /\ 1 \in Nat /\ 1 # 0
  BY DEF TinyCall, RowArrays
<1>9. PICK u, r : u = Upload(l, in, t) /\ r = ReadBack(l, out, ot)
  OBVIOUS
<1>10. u.t = t /\ u.l = l /\ u.in = in /\ r.t = ot /\ r.out = out
  BY <1>9 DEF Upload, ReadBack
<1>11. ASSUME NEW K, A \subseteq K PROVE UploadChanges(c, u, K, V, U)
  <2>1. ASSUME NEW j \in 1..n PROVE UploadMakes(c, u, K, in[j], devs[j], Fact(devs[j], 1, l, from[j], p))
    <3>1. PICK m \in Nat : t < m /\ Fact(in[j], m, l, from[j], off) \in A
      OBVIOUS
    <3>2. Fact(in[j], m, l, from[j], off) \in K /\ in[j] \notin CacheNames /\ t \in 0..m - 1
      BY <1>11, <3>1
    <3>3. PICK o \in Int : o = 0
      OBVIOUS
    <3>4. PICK h : h = Fact(devs[j], 1, l, from[j], p)
                   /\ h = Fact(devs[j], 1, l, from[j], off + u.t)
      BY <1>5, <1>10
    <3>5. u.t \in 0..m - 1
      BY <1>10, <3>2
    <3>6. UploadMakes(c, u, K, in[j], devs[j], h)
      BY <3>2, <3>4, <3>5, <3>3 DEF UploadMakes
    <3> QED BY <3>4, <3>6
  <2>2. ASSUME NEW g \in U
        PROVE  \E b \in DOMAIN Devices : Devices[b] \in DOMAIN u.in /\ UploadMakes(c, u, K, u.in[Devices[b]], b, g)
    <3>1. PICK j \in 1..n : g = Fact(devs[j], 1, l, from[j], p)
      BY <1>6
    <3>2. PICK b \in DeviceNames : b = devs[j] /\ Devices[b] = j
      BY <1>3
    <3>3. UploadMakes(c, u, K, in[j], b, g)
      BY <2>1, <3>1, <3>2
    <3> QED BY <1>10, <3>2, <3>3, DeviceFacts
  <2>3. DOMAIN Devices = DeviceNames
    BY <1>8, DeviceFacts
  <2> QED BY <1>7, <2>2, <2>3 DEF UploadChanges
<1>12. ASSUME NEW K, U \subseteq K PROVE Makes(c, d, K, e, D)
  <2>1. \A j \in DOMAIN d.in : Fact(d.in[j], 1, d.l, d.from[j], p) \in K
    BY <1>3, <1>4, <1>6, <1>12
  <2>2. FirstRows(d, K, p)
    <3>1. PICK one \in Nat \ {0} : one = 1
      OBVIOUS
    <3> QED BY <1>3, <1>4, <1>8, <2>1, <3>1 DEF FirstRows
  <2>3. CASE op = "matvec"
    <3>1. MatvecMakes(c, d, K, D)
      BY <1>4, <1>6, <1>8, <2>2, DeviceFacts DEF MatvecMakes
    <3> QED BY <1>4, <2>3, <3>1 DEF Makes
  <2>4. CASE op = "routed"
    <3>1. RoutedMakes(c, d, K, e, D)
      BY <1>4, <1>6, <1>8, <2>2, DeviceFacts DEF RoutedMakes
    <3> QED BY <1>4, <2>4, <3>1 DEF Makes
  <2> QED BY <2>3, <2>4
<1>13. ASSUME NEW K, D \in K, P \subseteq K PROVE ReadBackChanges(c, r, K, E, F)
  <2>1. Fact("dev_out", 1, l, to, base + ot) \in K /\ Part(out, ot, l, to, base) \subseteq K
    BY <1>5, <1>6, <1>13
  <2> QED BY <1>6, <1>7, <1>8, <1>10, <2>1 DEF ReadBackChanges
<1>14. /\ D[1] = <<Scratch, "dev_out">>
       /\ \A g \in U : g[1] \in V
       /\ \A g \in P : g \in A /\ g[1] \notin OneWrites
  <2>1. \A g \in U : g[1] \in V
    BY <1>3, <1>6, <1>7 DEF Fact
  <2>2. \A g \in P : g[1] = <<Scratch, out>>
    BY <1>6 DEF Part, Fact
  <2>3. <<Scratch, out>> \notin OneWrites
    BY DEF OneWrites, Scratch, HostSide
  <2> QED BY <1>6, <2>1, <2>2, <2>3 DEF Fact
<1>15. op = "routed" => TopK(e) \in A
  BY <1>5, <1>6
<1>16. Serves(c, op, l, in, t, from, out, ot, to, A, U, D, P, e, f)
  BY <1>2, <1>7, <1>9, <1>11, <1>12, <1>13, <1>14, <1>15 DEF Serves
<1> QED BY <1>6, <1>16, CallDoes

\* A one-op matvec, or expert, on row t, read back as row ot of its output.
LEMMA OneRowDoes ==
  ASSUME NEW c, TinyCall(c), NEW op \in {"matvec", "routed"}, NEW l, NEW a, a \notin CacheNames,
         NEW t \in Nat, NEW from, NEW out \in TinyArrays, out \notin DeviceNames, out # "dev_out",
         NEW ot \in 0..c.T - 1, NEW to, to # "next", NEW off \in Nat, NEW base \in Nat,
         NEW W, NEW A, NEW B,
         op = "routed" => TopK(<<l, "ro", off + t>>) \in A,
         NEW m \in Nat, t < m, Fact(a, m, l, from, off) \in A,
         base + ot = off + t, Part(out, ot, l, to, base) \subseteq A,
         OneWrites \subseteq W, <<Scratch, out>> \in W,
         OneSets(<<Scratch, out>>, Fact(out, ot + 1, l, to, base), A, B)
  PROVE  Does(c, Call(op, l, <<a>>, t, <<from>>, out, ot, to), W, A, B)
<1>1. PICK in, fs : in = <<a>> /\ fs = <<from>>
  OBVIOUS
<1>2. PICK n \in {1, 2} : n = 1 /\ DOMAIN in = 1..n /\ Len(in) = n
  BY <1>1
<1>3. \A j \in 1..n : in[j] \notin CacheNames /\ \E k \in Nat : t < k /\ Fact(in[j], k, l, fs[j], off) \in A
  BY <1>1, <1>2
<1>4. Does(c, Call(op, l, in, t, fs, out, ot, to), W, A, B)
  BY <1>2, <1>3, RowCallDoes
<1> QED BY <1>1, <1>4

\* A one-op matvec on two buffers of one row each.
LEMMA TwoRowsDo ==
  ASSUME NEW c, TinyCall(c), NEW l, NEW a, a \notin CacheNames, NEW b, b \notin CacheNames,
         NEW fa, NEW fb, NEW out \in TinyArrays, out \notin DeviceNames, out # "dev_out",
         NEW to, to # "next", NEW p \in Nat, NEW W, NEW A, NEW B,
         Fact(a, 1, l, fa, p) \in A, Fact(b, 1, l, fb, p) \in A,
         OneWrites \subseteq W, <<Scratch, out>> \in W,
         OneSets(<<Scratch, out>>, Fact(out, 1, l, to, p), A, B)
  PROVE  Does(c, Call("matvec", l, <<a, b>>, 0, <<fa, fb>>, out, 0, to), W, A, B)
<1>1. PICK in, fs : in = <<a, b>> /\ fs = <<fa, fb>>
  OBVIOUS
<1>2. PICK n \in {1, 2} : n = 2 /\ DOMAIN in = 1..n /\ Len(in) = n
  BY <1>1
<1>3. PICK t \in Nat, m \in Nat : t = 0 /\ m = 1 /\ t < m /\ p + t = p /\ t + 1 = 1
                                  /\ t \in 0..c.T - 1
  BY DEF TinyCall
<1>4. \A j \in 1..n : in[j] \notin CacheNames /\ \E k \in Nat : t < k /\ Fact(in[j], k, l, fs[j], p) \in A
  BY <1>1, <1>2, <1>3
<1>5. Part(out, t, l, to, p) \subseteq A
  BY <1>3 DEF Part
<1>6. PICK op \in {"matvec", "routed"} : op = "matvec" /\ op # "routed"
  OBVIOUS
<1>7. Does(c, Call(op, l, in, t, fs, out, t, to), W, A, B)
  BY <1>2, <1>3, <1>4, <1>5, <1>6, RowCallDoes
<1> QED BY <1>1, <1>3, <1>6, <1>7

\* The queries, scaled by the host.
LEMMA ScaleDoes ==
  ASSUME NEW c, TinyCall(c), NEW l,
         NEW W, NEW A, NEW B,
         Now(c, "q_normed", l, "qn") \in A, <<Scratch, "q_scaled">> \in W,
         Sets(<<Scratch, "q_scaled">>, Now(c, "q_scaled", l, "q"), A, B)
  PROVE  Does(c, <<Host("scale", l, 0, {"q_normed"}, {"q_scaled"})>>, W, A, B)
<1>1. PICK w : w = Host("scale", l, 0, {"q_normed"}, {"q_scaled"})
  OBVIOUS
<1>2. /\ w.do = "host" /\ w.step = "scale" /\ w.l = l /\ w.step # "logits"
      /\ w.reads = {"q_normed"}
  BY <1>1 DEF Host
<1>3. Touches(w)
  BY <1>2 DEF Touches
<1>4. PICK V, F : V = {<<Scratch, "q_scaled">>} /\ F = {Now(c, "q_scaled", l, "q")}
  OBVIOUS
<1>5. ASSUME NEW K, A \subseteq K PROVE HostChanges(c, w, K, V, F)
  <2>1. Now(c, "q_normed", l, "qn") \in K /\ "q_scaled" \in c.arrays /\ c.start_pos \in Nat
    BY <1>5, DeviceFacts DEF TinyCall
  <2>2. ScaleChanges(c, w, K, V, F)
    BY <1>2, <1>4, <2>1 DEF ScaleChanges, Now
  <2> QED BY <1>2, <2>2 DEF HostChanges
<1>6. V \subseteq W /\ \A g \in B : g \in F \/ (g \in A /\ g[1] \notin V)
  BY <1>4 DEF Sets
<1>7. Does(c, <<w>>, W, A, B)
  BY <1>2, <1>3, <1>5, <1>6, HostDoes
<1> QED BY <1>1, <1>7

\* The gate and up rows of one product.
LEMMA GatherDoes ==
  ASSUME NEW c, TinyCall(c), NEW l, NEW m \in Nat \ {0}, NEW p \in Nat,
         NEW W, NEW A, NEW B,
         Fact("gu", m, l, "gu", p) \in A, <<Scratch, "gbuf">> \in W, <<Scratch, "ubuf">> \in W,
         \A g \in B : \/ g = Fact("gbuf", 1, l, "g", p) \/ g = Fact("ubuf", 1, l, "u", p)
                      \/ g \in A /\ g[1] # <<Scratch, "gbuf">> /\ g[1] # <<Scratch, "ubuf">>
  PROVE  Does(c, <<Host("gather", l, 0, {"gu"}, {"gbuf", "ubuf"})>>, W, A, B)
<1>1. PICK w : w = Host("gather", l, 0, {"gu"}, {"gbuf", "ubuf"})
  OBVIOUS
<1>2. /\ w.do = "host" /\ w.step = "gather" /\ w.l = l /\ w.step # "logits"
      /\ w.reads = {"gu"}
  BY <1>1 DEF Host
<1>3. Touches(w)
  BY <1>2 DEF Touches
<1>4. PICK V, F : V = {<<Scratch, "gbuf">>, <<Scratch, "ubuf">>}
                  /\ F = {Fact("gbuf", 1, l, "g", p), Fact("ubuf", 1, l, "u", p)}
  OBVIOUS
<1>5. ASSUME NEW K, A \subseteq K PROVE HostChanges(c, w, K, V, F)
  <2>1. Fact("gu", m, l, "gu", p) \in K /\ {"gbuf", "ubuf"} \subseteq c.arrays
    BY <1>5, BufferNames, DeviceFacts DEF TinyCall
  <2>2. GatherChanges(c, w, K, V, F)
    BY <1>2, <1>4, <2>1 DEF GatherChanges
  <2> QED BY <1>2, <2>2 DEF HostChanges
<1>6. V \subseteq W /\ \A g \in B : g \in F \/ (g \in A /\ g[1] \notin V)
  BY <1>4 DEF Sets
<1>7. Does(c, <<w>>, W, A, B)
  BY <1>2, <1>3, <1>5, <1>6, HostDoes
<1> QED BY <1>1, <1>7

\* The activation of a shared expert, times gamma.
LEMMA GammaDoes ==
  ASSUME NEW c, TinyCall(c), NEW l, NEW t, NEW m \in Nat \ {0}, NEW p \in Nat,
         NEW W, NEW A, NEW B,
         Fact("hbuf", m, l, "hm", p) \in A, <<Scratch, "hbuf">> \in W,
         Sets(<<Scratch, "hbuf">>, Fact("hbuf", 1, l, "hg", p), A, B)
  PROVE  Does(c, <<Host("gamma", l, t, {"hbuf"}, {"hbuf"})>>, W, A, B)
<1>1. PICK w : w = Host("gamma", l, t, {"hbuf"}, {"hbuf"})
  OBVIOUS
<1>2. /\ w.do = "host" /\ w.step = "gamma" /\ w.l = l /\ w.t = t /\ w.step # "logits"
      /\ w.reads = {"hbuf"}
  BY <1>1 DEF Host
<1>3. Touches(w)
  BY <1>2 DEF Touches
<1>4. PICK V, F : V = {<<Scratch, "hbuf">>} /\ F = {Fact("hbuf", 1, l, "hg", p)}
  OBVIOUS
<1>5. ASSUME NEW K, A \subseteq K PROVE HostChanges(c, w, K, V, F)
  <2>1. Fact("hbuf", m, l, "hm", p) \in K /\ "hbuf" \in c.arrays
    BY <1>5, BufferNames, DeviceFacts DEF TinyCall
  <2>2. GammaChanges(c, w, K, V, F)
    BY <1>2, <1>4, <2>1 DEF GammaChanges
  <2> QED BY <1>2, <2>2 DEF HostChanges
<1>6. V \subseteq W /\ \A g \in B : g \in F \/ (g \in A /\ g[1] \notin V)
  BY <1>4 DEF Sets
<1>7. Does(c, <<w>>, W, A, B)
  BY <1>2, <1>3, <1>5, <1>6, HostDoes
<1> QED BY <1>1, <1>7

\* Row t of the dense FFN.
LEMMA GscaleDoes ==
  ASSUME NEW c, TinyCall(c), NEW l, NEW t \in 0..c.T - 1, NEW m \in Nat \ {0}, NEW off \in Nat,
         NEW W, NEW A, NEW B,
         Fact("yrow", m, l, "y", off + t) \in A, Part("mlp_out", t, l, "m", off) \subseteq A,
         <<Scratch, "mlp_out">> \in W,
         Sets(<<Scratch, "mlp_out">>, Fact("mlp_out", t + 1, l, "m", off), A, B)
  PROVE  Does(c, <<Host("gscale", l, t, {"yrow"}, {"mlp_out"})>>, W, A, B)
<1>1. PICK w : w = Host("gscale", l, t, {"yrow"}, {"mlp_out"})
  OBVIOUS
<1>2. /\ w.do = "host" /\ w.step = "gscale" /\ w.l = l /\ w.t = t /\ w.step # "logits"
      /\ w.reads = {"yrow"}
  BY <1>1 DEF Host
<1>3. Touches(w)
  BY <1>2 DEF Touches
<1>4. PICK V, F : V = {<<Scratch, "mlp_out">>} /\ F = {Fact("mlp_out", t + 1, l, "m", off)}
  OBVIOUS
<1>5. ASSUME NEW K, A \subseteq K PROVE HostChanges(c, w, K, V, F)
  <2>1. /\ Fact("yrow", m, l, "y", off + t) \in K /\ Part("mlp_out", t, l, "m", off) \subseteq K
        /\ "mlp_out" \in c.arrays
    BY <1>5, BufferNames, DeviceFacts DEF TinyCall
  <2>2. GscaleChanges(c, w, K, V, F)
    BY <1>2, <1>4, <2>1 DEF GscaleChanges, NextMlpRow
  <2> QED BY <1>2, <2>2 DEF HostChanges
<1>6. V \subseteq W /\ \A g \in B : g \in F \/ (g \in A /\ g[1] \notin V)
  BY <1>4 DEF Sets
<1>7. Does(c, <<w>>, W, A, B)
  BY <1>2, <1>3, <1>5, <1>6, HostDoes
<1> QED BY <1>1, <1>7

\* Row t of the mixture of experts.
LEMMA BlendDoes ==
  ASSUME NEW c, TinyCall(c), NEW l, NEW t \in 0..c.T - 1, NEW off \in Nat,
         NEW m1 \in Nat \ {0}, NEW m2 \in Nat \ {0},
         NEW W, NEW A, NEW B,
         Fact("routed_raw", m1, l, "re", off + t) \in A, Fact("shared_raw", m2, l, "sh", off + t) \in A,
         Part("mlp_out", t, l, "m", off) \subseteq A, <<Scratch, "mlp_out">> \in W,
         Sets(<<Scratch, "mlp_out">>, Fact("mlp_out", t + 1, l, "m", off), A, B)
  PROVE  Does(c, <<Host("blend", l, t, {"routed_raw", "shared_raw"}, {"mlp_out"})>>, W, A, B)
<1>1. PICK w : w = Host("blend", l, t, {"routed_raw", "shared_raw"}, {"mlp_out"})
  OBVIOUS
<1>2. /\ w.do = "host" /\ w.step = "blend" /\ w.l = l /\ w.t = t /\ w.step # "logits"
      /\ w.reads = {"routed_raw", "shared_raw"}
  BY <1>1 DEF Host
<1>3. Touches(w)
  BY <1>2 DEF Touches
<1>4. PICK V, F : V = {<<Scratch, "mlp_out">>} /\ F = {Fact("mlp_out", t + 1, l, "m", off)}
  OBVIOUS
<1>5. ASSUME NEW K, A \subseteq K PROVE HostChanges(c, w, K, V, F)
  <2>1. /\ MixedAt(K, l, off + t) /\ Part("mlp_out", t, l, "m", off) \subseteq K
        /\ "mlp_out" \in c.arrays
    BY <1>5, BufferNames, DeviceFacts DEF TinyCall, MixedAt
  <2>2. BlendChanges(c, w, K, V, F)
    BY <1>2, <1>4, <2>1 DEF BlendChanges, NextMlpRow
  <2> QED BY <1>2, <2>2 DEF HostChanges
<1>6. V \subseteq W /\ \A g \in B : g \in F \/ (g \in A /\ g[1] \notin V)
  BY <1>4 DEF Sets
<1>7. Does(c, <<w>>, W, A, B)
  BY <1>2, <1>3, <1>5, <1>6, HostDoes
<1> QED BY <1>1, <1>7

\* Row t of the final norm, times mup.
LEMMA MupDoes ==
  ASSUME NEW c, TinyCall(c), NEW t \in 0..c.T - 1,
         NEW W, NEW A, NEW B,
         Now(c, "final", NumLayers, "fn") \in A, <<Scratch, "hrow">> \in W,
         Sets(<<Scratch, "hrow">>, Fact("hrow", 1, NumLayers, "hd", c.start_pos + t), A, B)
  PROVE  Does(c, <<Host("mup", NumLayers, t, {"final"}, {"hrow"})>>, W, A, B)
<1>1. PICK w : w = Host("mup", NumLayers, t, {"final"}, {"hrow"})
  OBVIOUS
<1>2. /\ w.do = "host" /\ w.step = "mup" /\ w.l = NumLayers /\ w.t = t /\ w.step # "logits"
      /\ w.reads = {"final"}
  BY <1>1 DEF Host
<1>3. Touches(w)
  BY <1>2 DEF Touches
<1>4. PICK V, F : V = {<<Scratch, "hrow">>}
                  /\ F = {Fact("hrow", 1, NumLayers, "hd", c.start_pos + t)}
  OBVIOUS
<1>5. ASSUME NEW K, A \subseteq K PROVE HostChanges(c, w, K, V, F)
  <2>1. /\ Now(c, "final", NumLayers, "fn") \in K /\ "hrow" \in c.arrays
        /\ c.start_pos \in Nat /\ c.T \in Nat
    BY <1>5, DeviceFacts DEF TinyCall
  <2>2. MupChanges(c, w, K, V, F)
    BY <1>2, <1>4, <2>1 DEF MupChanges, Now
  <2> QED BY <1>2, <2>2 DEF HostChanges
<1>6. V \subseteq W /\ \A g \in B : g \in F \/ (g \in A /\ g[1] \notin V)
  BY <1>4 DEF Sets
<1>7. Does(c, <<w>>, W, A, B)
  BY <1>2, <1>3, <1>5, <1>6, HostDoes
<1> QED BY <1>1, <1>7

\* The copy of the chunk's rows to the cache.
LEMMA HostStoreDoes ==
  ASSUME NEW c, TinyCall(c), NEW l \in Layer, NEW W, NEW A, NEW B, NEW kc, NEW vc, NEW len,
         kc = CellsAt(l, "k", "ks", c.start_pos + c.T), vc = CellsAt(l, "v", "vs", c.start_pos + c.T),
         len = LenIs(l, c.start_pos + c.T),
         Now(c, "k_normed", l, "ks") \in A, Now(c, "v_sconv", l, "vs") \in A,
         CellsAt(l, "k", "ks", c.start_pos) \in A, CellsAt(l, "v", "vs", c.start_pos) \in A,
         LenIs(l, c.start_pos) \in A,
         <<l, "k">> \in W, <<l, "v">> \in W, <<Lens, l>> \in W,
         \A g \in B : \/ g \in {kc, vc, len}
                      \/ g \in A /\ g[1] # <<l, "k">> /\ g[1] # <<l, "v">> /\ g[1] # <<Lens, l>>
  PROVE  Does(c, <<Host("store", l, 0, {"k_normed", "v_sconv"}, {})>>, W, A, B)
<1>1. PICK w : w = Host("store", l, 0, {"k_normed", "v_sconv"}, {})
  OBVIOUS
<1>2. /\ w.do = "host" /\ w.step = "store" /\ w.l = l /\ w.step # "logits"
      /\ w.reads = {"k_normed", "v_sconv"}
  BY <1>1 DEF Host
<1>3. Touches(w)
  BY <1>2 DEF Touches
<1>4. PICK V, F : V = {<<l, "k">>, <<l, "v">>, <<Lens, l>>} /\ F = {kc, vc, len}
  OBVIOUS
<1>5. ASSUME NEW K, A \subseteq K PROVE HostChanges(c, w, K, V, F)
  <2>1. /\ Now(c, "k_normed", l, "ks") \in K /\ Now(c, "v_sconv", l, "vs") \in K
        /\ CellsAt(l, "k", "ks", c.start_pos) \in K /\ CellsAt(l, "v", "vs", c.start_pos) \in K
        /\ LenIs(l, c.start_pos) \in K
    BY <1>5
  <2>2. StoreMakes(c, l, "k", "k_normed", K, kc) /\ StoreMakes(c, l, "v", "v_sconv", K, vc)
    BY <2>1 DEF StoreMakes, Now, CellsAt
  <2>3. StoreChanges(c, w, K, V, F)
    BY <1>2, <1>4, <2>1, <2>2 DEF StoreChanges
  <2> QED BY <1>2, <2>3 DEF HostChanges
<1>6. V \subseteq W /\ \A g \in B : g \in F \/ (g \in A /\ g[1] \notin V)
  BY <1>4
<1>7. Does(c, <<w>>, W, A, B)
  BY <1>2, <1>3, <1>5, <1>6, HostDoes
<1> QED BY <1>1, <1>7

\* The roll of a history by the host.
LEMMA HostRollDoes ==
  ASSUME NEW c, TinyCall(c), NEW l \in Layer, NEW hist \in HistNames, NEW in, in # "x", NEW kind,
         NEW W, NEW A, NEW B,
         Now(c, in, l, kind) \in A, HistAt(l, hist, kind, c.start_pos) \in A, <<l, hist>> \in W,
         Sets(<<l, hist>>, HistAt(l, hist, kind, c.start_pos + c.T), A, B)
  PROVE  Does(c, <<[do |-> "host", step |-> "roll", l |-> l, reads |-> {in}, writes |-> {},
                    hist |-> hist, in |-> in]>>, W, A, B)
<1>1. PICK w : w = [do |-> "host", step |-> "roll", l |-> l, reads |-> {in}, writes |-> {},
                    hist |-> hist, in |-> in]
  OBVIOUS
<1>2. /\ w.do = "host" /\ w.step = "roll" /\ w.l = l /\ w.step # "logits"
      /\ w.reads = {in} /\ w.hist = hist /\ w.in = in
  BY <1>1
<1>3. Touches(w)
  BY <1>2 DEF Touches
<1>4. PICK f, V, F : f = HistAt(l, hist, kind, c.start_pos + c.T) /\ V = {<<l, hist>>} /\ F = {f}
  OBVIOUS
<1>5. ASSUME NEW K, A \subseteq K PROVE HostChanges(c, w, K, V, F)
  <2>1. Now(c, in, l, kind) \in K /\ HistAt(l, hist, kind, c.start_pos) \in K
    BY <1>5
  <2>2. RollMakes(c, l, hist, in, K, f)
    <3>1. Km1 \in Nat
      BY Sizes
    <3> QED BY <1>4, <2>1, <3>1 DEF RollMakes, Now, HistAt, TinyCall
  <2>3. HistChanges(c, w, K, V, F)
    BY <1>2, <1>4, <2>2 DEF HistChanges
  <2> QED BY <1>2, <2>3 DEF HostChanges
<1>6. V \subseteq W /\ \A g \in B : g \in F \/ (g \in A /\ g[1] \notin V)
  BY <1>4 DEF Sets
<1>7. Does(c, <<w>>, W, A, B)
  BY <1>2, <1>3, <1>5, <1>6, HostDoes
<1> QED BY <1>1, <1>7

\* What a read-back of all the rows makes of the kernel's output.
LEMMA AllReadBack ==
  ASSUME NEW c, TinyCall(c), NEW l, NEW out \in Buffers, NEW to, NEW D,
         D = Now(c, "dev_out", l, to),
         NEW f, f = Now(c, out, l, to)
  PROVE  \A K : D \in K => ReadBackChanges(c, ReadBack(l, out, All), K, {<<Scratch, out>>}, {f})
<1> SUFFICES ASSUME NEW K, D \in K
             PROVE  ReadBackChanges(c, ReadBack(l, out, All), K, {<<Scratch, out>>}, {f})
  OBVIOUS
<1>1. PICK r, E, F : r = ReadBack(l, out, All) /\ E = {<<Scratch, out>>} /\ F = {f}
  OBVIOUS
<1>2. r.t = All /\ r.out = out
  BY <1>1 DEF ReadBack
<1>3. out \in Writable(c) /\ c.T \in Nat /\ c.start_pos \in Nat
  BY DeviceFacts DEF TinyCall, Writable
<1>4. ReadBackChanges(c, r, K, E, F)
  BY <1>1, <1>2, <1>3 DEF ReadBackChanges, Now
<1> QED BY <1>1, <1>4

\* gpu_sconv_step's operation: the rows and the history that they follow.
LEMMA ConvCallDoes ==
  ASSUME NEW c, TinyCall(c), NEW l \in Layer, NEW hist \in HistNames, NEW a \in Buffers, NEW from,
         NEW out \in Buffers, NEW to, NEW W, NEW A, NEW B,
         Now(c, a, l, from) \in A, HistAt(l, hist, from, c.start_pos) \in A,
         OneWrites \subseteq W, <<Scratch, out>> \in W,
         OneSets(<<Scratch, out>>, Now(c, out, l, to), A, B)
  PROVE  Does(c, Call("conv", l, <<a, hist>>, All, <<from>>, out, All, to), W, A, B)
<1>1. PICK in, fs : in = <<a, hist>> /\ fs = <<from>>
  OBVIOUS
<1>2. PICK n \in {1, 2, 4} : n = 2 /\ Len(in) = n /\ DOMAIN in = 1..n /\ in[1] = a
                             /\ in[2] = hist /\ fs[1] = from
  BY <1>1
<1>3. PICK devs : devs = SubSeq(<<"dev_a", "dev_b", "dev_c", "dev_d">>, 1, Len(in))
  OBVIOUS
<1>4. PICK d : d = OneDispatch("conv", l, in, fs, to)
  OBVIOUS
<1>5. /\ d.op = "conv" /\ d.l = l /\ d.in = devs /\ d.from = fs /\ d.out = "dev_out" /\ d.to = to
      /\ d.in[1] = "dev_a" /\ d.in[2] = "dev_b" /\ d.from[1] = from
  <2>1. devs[1] = "dev_a" /\ devs[2] = "dev_b"
    BY <1>2, <1>3, DevicesOf
  <2> QED BY <1>2, <1>3, <1>4, <2>1 DEF OneDispatch
<1>6. PICK fa, fb, D, U, P, f :
        /\ fa = Now(c, "dev_a", l, from) /\ fb = Fact("dev_b", Km1, l, from, c.start_pos - Km1)
        /\ D = Now(c, "dev_out", l, to) /\ U = {fa, fb} /\ P = {} /\ f = Now(c, out, l, to)
  OBVIOUS
<1>7. PICK V, E, F : V = {Scratch} \X DeviceNames /\ E = {<<Scratch, out>>} /\ F = {f}
  OBVIOUS
<1>8. /\ c.arrays = RowArrays /\ c.start_pos \in Nat /\ c.T \in Nat /\ Km1 \in Nat
      /\ a \notin CacheNames /\ a \notin {"k", "v"} /\ "dev_out" \in Writable(c)
      /\ hist \in CacheNames /\ hist \notin {"k", "v"}
  <2>1. hist \in CacheNames /\ hist \notin {"k", "v"} /\ {"k", "v"} \subseteq CacheNames
    BY DEF CacheNames, HistNames
  <2> QED BY <2>1, Sizes, DeviceFacts DEF TinyCall, Writable
<1>9. PICK u : u = Upload(l, in, All)
  OBVIOUS
<1>10. u.t = All /\ u.l = l /\ u.in = in
  BY <1>9 DEF Upload
<1>11. ASSUME NEW K, A \subseteq K PROVE UploadChanges(c, u, K, V, U)
  <2>1. UploadMakes(c, u, K, a, "dev_a", fa)
    <3>1. Now(c, a, l, from) \in K
      BY <1>11
    <3> QED BY <1>6, <1>8, <1>10, <3>1, WholeUpload DEF Now
  <2>2. UploadMakes(c, u, K, hist, "dev_b", fb)
    <3>1. Cached(l, hist, Km1, from, c.start_pos - Km1) \in K
      BY <1>11 DEF HistAt
    <3>2. PICK o \in Int : o = c.start_pos - Km1
      BY <1>8
    <3>3. PICK z \in Nat : z = 0
      OBVIOUS
    <3> QED BY <1>6, <1>8, <1>10, <3>1, <3>2, <3>3 DEF UploadMakes
  <2>3. ASSUME NEW g \in U
        PROVE  \E b \in DOMAIN Devices : Devices[b] \in DOMAIN u.in /\ UploadMakes(c, u, K, u.in[Devices[b]], b, g)
    <3>1. PICK b1 \in DeviceNames, b2 \in DeviceNames :
            b1 = "dev_a" /\ b2 = "dev_b" /\ Devices[b1] = 1 /\ Devices[b2] = 2
      BY DeviceFacts DEF DeviceNames
    <3>2. 1 \in DOMAIN in /\ 2 \in DOMAIN in
      BY <1>2
    <3> QED BY <1>2, <1>6, <1>10, <2>1, <2>2, <3>1, <3>2, DeviceFacts
  <2>4. DOMAIN Devices = DeviceNames
    BY <1>8, DeviceFacts
  <2> QED BY <1>7, <2>3, <2>4 DEF UploadChanges
<1>12. ASSUME NEW K, U \subseteq K PROVE Makes(c, d, K, Bad, D)
  <2>1. fa \in K /\ fb \in K
    BY <1>6, <1>12
  <2>2. SconvMakes(c, d, K, <<Scratch, d.in[2]>>, D)
    BY <1>5, <1>6, <1>8, <2>1 DEF SconvMakes, Now, Fact
  <2> QED BY <1>5, <2>2 DEF Makes
<1>13. \A K : D \in K => ReadBackChanges(c, ReadBack(l, out, All), K, E, F)
  BY <1>6, <1>7, AllReadBack
<1>14. \A g \in U : g[1] \in V
  BY <1>6, <1>7 DEF Now, Fact, DeviceNames
<1>15. D[1] = <<Scratch, "dev_out">>
  BY <1>6 DEF Now, Fact
<1>16. Serves(c, "conv", l, in, All, fs, out, All, to, A, U, D, P, Bad, f)
  BY <1>4, <1>6, <1>7, <1>9, <1>11, <1>12, <1>13, <1>14, <1>15 DEF Serves
<1>17. Does(c, Call("conv", l, in, All, fs, out, All, to), W, A, B)
  BY <1>6, <1>16, CallDoes
<1> QED BY <1>1, <1>17

\* Attention over uploaded copies of the cache.
LEMMA BandedCallDoes ==
  ASSUME NEW c, TinyCall(c), NEW l \in Layer, NEW q \in TinyArrays, q \notin CacheNames,
         NEW r \in Buffers,
         NEW out \in Buffers, NEW to, NEW W, NEW A, NEW B,
         Now(c, q, l, "q") \in A, Now(c, r, l, "r") \in A,
         CellsAt(l, "k", "ks", c.start_pos + c.T) \in A,
         CellsAt(l, "v", "vs", c.start_pos + c.T) \in A,
         OneWrites \subseteq W, <<Scratch, out>> \in W,
         OneSets(<<Scratch, out>>, Now(c, out, l, to), A, B)
  PROVE  Does(c, Call("banded", l, <<q, r, "k", "v">>, All, <<>>, out, All, to), W, A, B)
<1>1. PICK in, fs : in = <<q, r, "k", "v">> /\ fs = <<>>
  OBVIOUS
<1>2. PICK n \in {1, 2, 4} : /\ n = 4 /\ Len(in) = n /\ DOMAIN in = 1..n
                             /\ in[1] = q /\ in[2] = r /\ in[3] = "k" /\ in[4] = "v"
  BY <1>1
<1>3. PICK devs : devs = SubSeq(<<"dev_a", "dev_b", "dev_c", "dev_d">>, 1, Len(in))
  OBVIOUS
<1>4. PICK d : d = OneDispatch("banded", l, in, fs, to)
  OBVIOUS
<1>5. /\ d.op = "banded" /\ d.l = l /\ d.in = devs /\ d.from = fs /\ d.out = "dev_out"
      /\ d.to = to
      /\ d.in[1] = "dev_a" /\ d.in[2] = "dev_b" /\ d.in[3] = "dev_c" /\ d.in[4] = "dev_d"
  <2>1. devs[1] = "dev_a" /\ devs[2] = "dev_b" /\ devs[3] = "dev_c" /\ devs[4] = "dev_d"
    BY <1>2, <1>3, DevicesOf
  <2> QED BY <1>2, <1>3, <1>4, <2>1 DEF OneDispatch
<1>6. PICK end \in Nat : end = c.start_pos + c.T
  BY DEF TinyCall
<1>7. PICK fq, fr, fk, fv, D, U, P, f :
        /\ fq = Now(c, "dev_a", l, "q") /\ fr = Now(c, "dev_b", l, "r")
        /\ fk = Fact("dev_c", end, l, "ks", 0) /\ fv = Fact("dev_d", end, l, "vs", 0)
        /\ D = Now(c, "dev_out", l, to) /\ U = {fq, fr, fk, fv} /\ P = {}
        /\ f = Now(c, out, l, to)
  OBVIOUS
<1>8. PICK V, E, F : V = {Scratch} \X DeviceNames /\ E = {<<Scratch, out>>} /\ F = {f}
  OBVIOUS
<1>9. /\ c.arrays = RowArrays /\ c.start_pos \in Nat /\ c.T \in Nat
      /\ r \notin CacheNames /\ "dev_out" \in Writable(c) /\ "k" \in {"k", "v"}
      /\ "v" \in {"k", "v"}
  BY DeviceFacts DEF TinyCall, Writable
<1>10. PICK u : u = Upload(l, in, All)
  OBVIOUS
<1>11. u.t = All /\ u.l = l /\ u.in = in
  BY <1>10 DEF Upload
<1>12. ASSUME NEW K, A \subseteq K PROVE UploadChanges(c, u, K, V, U)
  <2>1. PICK o \in Int, z \in Nat : o = 0 /\ z = 0
    OBVIOUS
  <2>2. \A b, x1, kind : /\ x1 \notin CacheNames /\ Now(c, x1, l, kind) \in A
                         => UploadMakes(c, u, K, x1, b, Now(c, b, l, kind))
    <3> SUFFICES ASSUME NEW b, NEW x1, NEW kind, x1 \notin CacheNames, Now(c, x1, l, kind) \in A
                 PROVE  UploadMakes(c, u, K, x1, b, Now(c, b, l, kind))
      OBVIOUS
    <3>1. Now(c, x1, l, kind) \in K
      BY <1>12
    <3> QED BY <1>9, <1>11, <2>1, <3>1, WholeUpload DEF Now
  <2>3. \A b, x1, kind : /\ x1 \in {"k", "v"} /\ CellsAt(l, x1, kind, end) \in A
                         => UploadMakes(c, u, K, x1, b, Fact(b, end, l, kind, 0))
    <3> SUFFICES ASSUME NEW b, NEW x1 \in {"k", "v"}, NEW kind, CellsAt(l, x1, kind, end) \in A
                 PROVE  UploadMakes(c, u, K, x1, b, Fact(b, end, l, kind, 0))
      OBVIOUS
    <3>1. Cached(l, x1, c.start_pos + c.T, kind, 0) \in K
      BY <1>6, <1>12 DEF CellsAt
    <3> QED BY <1>6, <1>11, <2>1, <3>1 DEF UploadMakes
  <2>4. /\ UploadMakes(c, u, K, q, "dev_a", fq) /\ UploadMakes(c, u, K, r, "dev_b", fr)
        /\ UploadMakes(c, u, K, "k", "dev_c", fk) /\ UploadMakes(c, u, K, "v", "dev_d", fv)
    BY <1>6, <1>7, <1>9, <2>2, <2>3
  <2>5. ASSUME NEW g \in U
        PROVE  \E b \in DOMAIN Devices : Devices[b] \in DOMAIN u.in /\ UploadMakes(c, u, K, u.in[Devices[b]], b, g)
    <3>1. PICK b1 \in DeviceNames, b2 \in DeviceNames, b3 \in DeviceNames, b4 \in DeviceNames :
            /\ b1 = "dev_a" /\ b2 = "dev_b" /\ b3 = "dev_c" /\ b4 = "dev_d"
            /\ Devices[b1] = 1 /\ Devices[b2] = 2 /\ Devices[b3] = 3 /\ Devices[b4] = 4
      BY DeviceFacts DEF DeviceNames
    <3>2. 1 \in DOMAIN in /\ 2 \in DOMAIN in /\ 3 \in DOMAIN in /\ 4 \in DOMAIN in
      BY <1>2
    <3> QED BY <1>2, <1>7, <1>11, <2>4, <3>1, <3>2, DeviceFacts
  <2>6. DOMAIN Devices = DeviceNames
    BY <1>9, DeviceFacts
  <2> QED BY <1>8, <2>5, <2>6 DEF UploadChanges
<1>13. ASSUME NEW K, U \subseteq K PROVE Makes(c, d, K, Bad, D)
  <2>1. fq \in K /\ fr \in K /\ fk \in K /\ fv \in K
    BY <1>7, <1>13
  <2>2. AttnMakes(c, d, K, <<Scratch, d.in[3]>>, <<Scratch, d.in[4]>>, D)
    BY <1>5, <1>6, <1>7, <1>9, <2>1 DEF AttnMakes, Now, Fact
  <2> QED BY <1>5, <2>2 DEF Makes
<1>14. \A K : D \in K => ReadBackChanges(c, ReadBack(l, out, All), K, E, F)
  BY <1>7, <1>8, AllReadBack
<1>15. \A g \in U : g[1] \in V
  BY <1>7, <1>8 DEF Now, Fact, DeviceNames
<1>16. D[1] = <<Scratch, "dev_out">>
  BY <1>7 DEF Now, Fact
<1>17. Serves(c, "banded", l, in, All, fs, out, All, to, A, U, D, P, Bad, f)
  BY <1>4, <1>7, <1>8, <1>10, <1>12, <1>13, <1>14, <1>15, <1>16 DEF Serves
<1>18. Does(c, Call("banded", l, in, All, fs, out, All, to), W, A, B)
  BY <1>7, <1>17, CallDoes
<1> QED BY <1>1, <1>18

\* gpu_sconv_step: the rows, and the history moved on.
LEMMA SconvStepDoes ==
  ASSUME NEW c, TinyCall(c), NEW l \in Layer, NEW hist \in HistNames, NEW a \in Buffers, NEW from,
         NEW out \in Buffers, out # a, NEW to, NEW W, NEW A, NEW B,
         Now(c, a, l, from) \in A, HistAt(l, hist, from, c.start_pos) \in A,
         OneWrites \subseteq W, <<Scratch, out>> \in W, <<l, hist>> \in W,
         \A g \in B : \/ g = Now(c, out, l, to) \/ g = HistAt(l, hist, from, c.start_pos + c.T) \/ g = Shut
                      \/ g \in A /\ g[1] \notin OneWrites /\ g[1] # <<Scratch, out>> /\ g[1] # <<l, hist>>
  PROVE  Does(c, gpu_sconv_step(l, hist, a, from, out, to), W, A, B)
<1>1. PICK f, h, h2, fa, ar, ht : /\ f = Now(c, out, l, to)
                                  /\ h = HistAt(l, hist, from, c.start_pos)
                                  /\ h2 = HistAt(l, hist, from, c.start_pos + c.T)
                                  /\ fa = Now(c, a, l, from)
                                  /\ ar = <<Scratch, out>> /\ ht = <<l, hist>>
  OBVIOUS
<1>2. PICK A1 : A1 = {f, Shut} \cup {g \in A : g[1] \notin OneWrites /\ g[1] # ar}
  OBVIOUS
<1>3. l # Scratch /\ l # HostSide /\ Scratch # HostSide
  BY KeptAt
<1>4. /\ f[1] = ar /\ h[1] = ht /\ fa[1] = <<Scratch, a>> /\ Shut[1] = <<HostSide, "shut">>
  BY <1>1 DEF Now, Fact, HistAt, Cached, Shut
<1>5. /\ fa \in A1 /\ h \in A1 /\ f[1] # ht /\ Shut[1] # ht
  <2>1. fa[1] \notin OneWrites /\ fa[1] # ar
    BY <1>1, <1>3, <1>4, DeviceFacts DEF OneWrites
  <2>2. h[1] \notin OneWrites /\ h[1] # ar
    BY <1>1, <1>3, <1>4 DEF OneWrites
  <2> QED BY <1>1, <1>2, <1>3, <1>4, <2>1, <2>2
<1>6. Does(c, Call("conv", l, <<a, hist>>, All, <<from>>, out, All, to), W, A, A1)
  <2>1. OneSets(ar, f, A, A1)
    BY <1>2 DEF OneSets
  <2> QED BY <1>1, <2>1, ConvCallDoes
<1>7. PICK w : w = [do |-> "host", step |-> "roll", l |-> l, reads |-> {a}, writes |-> {},
                    hist |-> hist, in |-> a]
  OBVIOUS
<1>8. Does(c, <<w>>, W, A1, B)
  <2>1. Sets(ht, h2, A1, B)
    BY <1>1, <1>2, <1>5 DEF Sets
  <2>2. a # "x"
    BY BufferNames
  <2> QED BY <1>1, <1>5, <1>7, <2>1, <2>2, HostRollDoes
<1>9. PICK y, z : y = Call("conv", l, <<a, hist>>, All, <<from>>, out, All, to) /\ z = <<w>>
  OBVIOUS
<1>10. Does(c, y \o z, W, A, B)
  BY <1>6, <1>8, <1>9, ConcatDoes
<1> QED BY <1>7, <1>9, <1>10 DEF gpu_sconv_step

-----------------------------------------------------------------------------
(* The tiny path's half layers.                                            *)

\* What attention and the FFN may write, of the arrays of the small model.
TinyAttnWrites(l) ==
  ({Scratch} \X TinyArrays)
  \cup {<<HostSide, "shut">>, <<l, "k">>, <<l, "v">>, <<l, "k_hist">>, <<l, "v_hist">>, <<Lens, l>>}
TinyFfnWrites == ({Scratch} \X TinyArrays) \cup {<<HostSide, "shut">>, <<HostSide, "topk">>}

\* As Sets, for rows N of array out, by an operation of the small model.
OneRowSets(out, N, A, B) ==
  \A g \in B : g \in N \/ g = Shut \/ (g \in A /\ g[1] \notin OneWrites /\ g[1] # <<Scratch, out>>)

\* Row t of a product over all the rows of the chunk.
LEMMA TinyRowDoes ==
  ASSUME NEW c, TinyCall(c), NEW l, NEW t \in 0..c.T - 1, NEW in \in Buffers, NEW from,
         NEW out \in Buffers, NEW to, to # "next", NEW W, NEW A, NEW B,
         OneWrites \subseteq W, <<Scratch, out>> \in W,
         Now(c, in, l, from) \in A, RowsDone(c, t, out, l, to) \subseteq A,
         OneRowSets(out, RowsDone(c, t + 1, out, l, to), A, B)
  PROVE  Does(c, gpu_matvec_one(l, in, t, from, out, t, to), W, A, B)
<1>1. PICK off \in Nat, m \in Nat : off = c.start_pos /\ m = c.T /\ t < m /\ t \in Nat
                                    /\ t + 1 # 0
  BY DEF TinyCall
<1>2. Fact(in, m, l, from, off) \in A /\ Part(out, t, l, to, off) \subseteq A
  BY <1>1 DEF Now, RowsDone
<1>3. OneSets(<<Scratch, out>>, Fact(out, t + 1, l, to, off), A, B)
  BY <1>1 DEF OneRowSets, OneSets, RowsDone, Part
<1>4. /\ in \notin CacheNames /\ out \in TinyArrays /\ out \notin DeviceNames /\ out # "dev_out"
      /\ "matvec" \in {"matvec", "routed"} /\ "matvec" # "routed"
  BY DeviceFacts
<1>5. Does(c, Call("matvec", l, <<in>>, t, <<from>>, out, t, to), W, A, B)
  BY <1>1, <1>2, <1>3, <1>4, OneRowDoes
<1> QED BY <1>5 DEF gpu_matvec_one

OneRows(n, l, in, from, out, to) == ForEach(n, LAMBDA t : gpu_matvec_one(l, in, t, from, out, t, to))

\* Row after row of one product, which nothing of A but its own rows speaks of.
LEMMA TinyRowsDo ==
  ASSUME NEW c, TinyCall(c), NEW l, NEW in \in Buffers, NEW from, NEW out \in Buffers, NEW to,
         to # "next",
         NEW W, NEW A, OneWrites \subseteq W, <<Scratch, out>> \in W, Now(c, in, l, from) \in A,
         \A g \in A : g[1] \notin OneWrites /\ g[1] # <<Scratch, out>>,
         NEW B, \A g \in B : g \in A \/ g = Now(c, out, l, to)
  PROVE  Does(c, OneRows(c.T, l, in, from, out, to), W, A, B)
<1>1. PICK n \in Nat \ {0} : n = c.T
  BY DEF TinyCall
<1>2. PICK p : p = [k \in 1..n |-> gpu_matvec_one(l, in, k - 1, from, out, k - 1, to)]
  OBVIOUS
<1>3. PICK h : h = [t \in 0..n |-> A \cup RowsDone(c, t, out, l, to)]
  OBVIOUS
<1>4. ASSUME NEW k \in 1..n PROVE Does(c, p[k], W, h[k - 1], h[k])
  <2>1. PICK t \in 0..c.T - 1 : t = k - 1 /\ t + 1 = k
    BY <1>1
  <2>2. PICK A0, A1 : A0 = A \cup RowsDone(c, t, out, l, to)
                      /\ A1 = A \cup RowsDone(c, t + 1, out, l, to)
    OBVIOUS
  <2>3. Now(c, in, l, from) \in A0 /\ RowsDone(c, t, out, l, to) \subseteq A0
    BY <2>2
  <2>4. OneRowSets(out, RowsDone(c, t + 1, out, l, to), A0, A1)
    BY <2>2 DEF OneRowSets
  <2>5. Does(c, gpu_matvec_one(l, in, t, from, out, t, to), W, A0, A1)
    BY <2>3, <2>4, TinyRowDoes
  <2>6. h[k - 1] = A0 /\ h[k] = A1
    BY <1>1, <1>3, <2>1, <2>2
  <2> QED BY <1>2, <2>1, <2>5, <2>6
<1>5. Does(c, FlattenSeq(p), W, h[0], h[n])
  <2>1. Len(p) = n
    BY <1>2
  <2> QED BY <1>4, <2>1, FlattenDoes
<1>6. h[0] = A /\ h[n] = A \cup {Now(c, out, l, to)}
  BY <1>1, <1>3 DEF RowsDone, Part, Now
<1>7. PICK r, C : /\ r = OneRows(c.T, l, in, from, out, to)
                  /\ C = A \cup {Now(c, out, l, to)}
  OBVIOUS
<1>8. Does(c, r, W, A, C)
  BY <1>1, <1>2, <1>5, <1>6, <1>7 DEF ForEach, OneRows
<1>9. B \subseteq C
  BY <1>7
<1>10. B \subseteq Post(A, W, C)
  BY <1>9 DEF Post
<1>11. Does(c, r, W, A, B)
  BY <1>8, <1>10, DoesWeaker
<1> QED BY <1>7, <1>11

\* The projections of every row.
LEMMA TinyProjectionsDo ==
  ASSUME NEW c, TinyCall(c), NEW l \in Layer
  PROVE  Does(c, ForEach(c.T, LAMBDA t :
                gpu_matvec_one(l, "normed", t, "n", "q_raw", t, "qr")
                \o gpu_matvec_one(l, "normed", t, "n", "k_raw", t, "k")
                \o gpu_matvec_one(l, "normed", t, "n", "v_raw", t, "v")
                \o gpu_matvec_one(l, "normed", t, "n", "r_raw", t, "rr")),
              TinyAttnWrites(l), {Now(c, "normed", l, "n")} \cup AttnBefore(c, l),
              {Now(c, "q_raw", l, "qr"), Now(c, "k_raw", l, "k"), Now(c, "v_raw", l, "v"),
               Now(c, "r_raw", l, "rr")} \cup AttnBefore(c, l))
<1>1. PICK n \in Nat \ {0} : n = c.T
  BY DEF TinyCall
<1>2. PICK W : W = TinyAttnWrites(l)
  OBVIOUS
<1>3. PICK p : p = [k \in 1..n |->
        gpu_matvec_one(l, "normed", k - 1, "n", "q_raw", k - 1, "qr")
        \o gpu_matvec_one(l, "normed", k - 1, "n", "k_raw", k - 1, "k")
        \o gpu_matvec_one(l, "normed", k - 1, "n", "v_raw", k - 1, "v")
        \o gpu_matvec_one(l, "normed", k - 1, "n", "r_raw", k - 1, "rr")]
  OBVIOUS
<1>4. PICK C : C = {Now(c, "normed", l, "n")} \cup AttnBefore(c, l)
  OBVIOUS
<1>5. PICK h : h = [t \in 0..n |->
        C \cup RowsDone(c, t, "q_raw", l, "qr") \cup RowsDone(c, t, "k_raw", l, "k")
        \cup RowsDone(c, t, "v_raw", l, "v") \cup RowsDone(c, t, "r_raw", l, "rr")]
  OBVIOUS
<1>6. OneWrites \subseteq W /\ \A b \in Buffers : <<Scratch, b>> \in W
  BY <1>2 DEF OneWrites, TinyAttnWrites, TinyArrays, DeviceNames, Devices
<1>7. \A g \in C : g[1] \notin OneWrites /\ \A b : b # "normed" => g[1] # <<Scratch, b>>
  <2>1. l # Scratch /\ l # HostSide /\ l # Lens /\ Scratch # HostSide /\ Scratch # Lens
        /\ HostSide # Lens
    BY KeptAt
  <2>2. \A g \in AttnBefore(c, l) : \E b : g[1] = <<l, b>> \/ g[1] = <<Lens, b>>
    BY DEF AttnBefore, HistAt, CellsAt, Cached, LenIs
  <2>3. Now(c, "normed", l, "n")[1] = <<Scratch, "normed">>
    BY DEF Now, Fact
  <2>4. \A b : <<l, b>> \notin OneWrites /\ <<Lens, b>> \notin OneWrites
    BY <2>1 DEF OneWrites
  <2>5. <<Scratch, "normed">> \notin OneWrites
    BY <2>1, BufferNames, DeviceFacts DEF OneWrites
  <2>6. ASSUME NEW g \in AttnBefore(c, l) PROVE g[1] \notin OneWrites /\ \A b : g[1] # <<Scratch, b>>
    <3>1. PICK b : g[1] = <<l, b>> \/ g[1] = <<Lens, b>>
      BY <2>2
    <3>2. g[1] \notin OneWrites
      BY <2>4, <3>1
    <3> QED BY <2>1, <3>1, <3>2
  <2>7. PICK g0 : g0 = Now(c, "normed", l, "n") /\ g0[1] \notin OneWrites
                  /\ g0[1] = <<Scratch, "normed">>
    BY <2>3, <2>5
  <2>8. \A g \in C : g = g0 \/ g \in AttnBefore(c, l)
    BY <1>4, <2>7
  <2> QED BY <2>6, <2>7, <2>8
<1>8. \A b \in {"q_raw", "k_raw", "v_raw", "r_raw"} : <<Scratch, b>> \notin OneWrites
  <2>1. Scratch # HostSide
    BY KeptAt
  <2> QED BY <2>1, BufferNames, DeviceFacts DEF OneWrites
<1>9. ASSUME NEW k \in 1..n PROVE Does(c, p[k], W, h[k - 1], h[k])
  <2>1. PICK t \in 0..c.T - 1 : t = k - 1 /\ t + 1 = k
    BY <1>1
  <2>2. PICK q0, q1, k0, k1, v0, v1, r0, r1 :
         /\ q0 = RowsDone(c, t, "q_raw", l, "qr") /\ q1 = RowsDone(c, t + 1, "q_raw", l, "qr")
         /\ k0 = RowsDone(c, t, "k_raw", l, "k") /\ k1 = RowsDone(c, t + 1, "k_raw", l, "k")
         /\ v0 = RowsDone(c, t, "v_raw", l, "v") /\ v1 = RowsDone(c, t + 1, "v_raw", l, "v")
         /\ r0 = RowsDone(c, t, "r_raw", l, "rr") /\ r1 = RowsDone(c, t + 1, "r_raw", l, "rr")
    OBVIOUS
  <2>3. /\ \A g \in q0 \cup q1 : g[1] = <<Scratch, "q_raw">>
        /\ \A g \in k0 \cup k1 : g[1] = <<Scratch, "k_raw">>
        /\ \A g \in v0 \cup v1 : g[1] = <<Scratch, "v_raw">>
        /\ \A g \in r0 \cup r1 : g[1] = <<Scratch, "r_raw">>
    BY <2>2 DEF RowsDone, Part, Fact
  <2>4. PICK A0, A1, A2, A3, A4 :
          /\ A0 = C \cup q0 \cup k0 \cup v0 \cup r0
          /\ A1 = C \cup q1 \cup k0 \cup v0 \cup r0
          /\ A2 = C \cup q1 \cup k1 \cup v0 \cup r0
          /\ A3 = C \cup q1 \cup k1 \cup v1 \cup r0
          /\ A4 = C \cup q1 \cup k1 \cup v1 \cup r1
    OBVIOUS
  <2>5. Now(c, "normed", l, "n") \in A0 \cap A1 \cap A2 \cap A3
    BY <1>4, <2>4
  <2>6. Does(c, gpu_matvec_one(l, "normed", t, "n", "q_raw", t, "qr"), W, A0, A1)
    <3>1. OneRowSets("q_raw", q1, A0, A1)
      BY <1>7, <1>8, <2>4, <2>3 DEF OneRowSets
    <3> QED BY <1>6, <2>4, <2>5, <2>2, <3>1, BufferNames, TinyRowDoes
  <2>7. Does(c, gpu_matvec_one(l, "normed", t, "n", "k_raw", t, "k"), W, A1, A2)
    <3>1. OneRowSets("k_raw", k1, A1, A2)
      BY <1>7, <1>8, <2>4, <2>3 DEF OneRowSets
    <3> QED BY <1>6, <2>4, <2>5, <2>2, <3>1, BufferNames, TinyRowDoes
  <2>8. Does(c, gpu_matvec_one(l, "normed", t, "n", "v_raw", t, "v"), W, A2, A3)
    <3>1. OneRowSets("v_raw", v1, A2, A3)
      BY <1>7, <1>8, <2>4, <2>3 DEF OneRowSets
    <3> QED BY <1>6, <2>4, <2>5, <2>2, <3>1, BufferNames, TinyRowDoes
  <2>9. Does(c, gpu_matvec_one(l, "normed", t, "n", "r_raw", t, "rr"), W, A3, A4)
    <3>1. OneRowSets("r_raw", r1, A3, A4)
      BY <1>7, <1>8, <2>4, <2>3 DEF OneRowSets
    <3> QED BY <1>6, <2>4, <2>5, <2>2, <3>1, BufferNames, TinyRowDoes
  <2>10. Does(c, gpu_matvec_one(l, "normed", t, "n", "q_raw", t, "qr")
                 \o gpu_matvec_one(l, "normed", t, "n", "k_raw", t, "k")
                 \o gpu_matvec_one(l, "normed", t, "n", "v_raw", t, "v")
                 \o gpu_matvec_one(l, "normed", t, "n", "r_raw", t, "rr"), W, A0, A4)
    BY <2>6, <2>7, <2>8, <2>9, ConcatDoes
  <2>11. h[k - 1] = A0 /\ h[k] = A4
    BY <1>1, <1>5, <2>1, <2>4, <2>2
  <2> QED BY <1>3, <2>1, <2>10, <2>11
<1>10. Does(c, FlattenSeq(p), W, h[0], h[n])
  <2>1. Len(p) = n
    BY <1>3
  <2> QED BY <1>9, <2>1, FlattenDoes
<1>11. PICK B : B = {Now(c, "q_raw", l, "qr"), Now(c, "k_raw", l, "k"), Now(c, "v_raw", l, "v"),
                     Now(c, "r_raw", l, "rr")} \cup AttnBefore(c, l)
  OBVIOUS
<1>12. h[0] \subseteq C /\ B \subseteq h[n]
  BY <1>1, <1>4, <1>5, <1>11 DEF RowsDone, Part, Now
<1>13. Does(c, FlattenSeq(p), W, C, B)
  <2>1. W \subseteq W /\ B \subseteq Post(C, W, h[n])
    BY <1>12 DEF Post
  <2> QED BY <1>10, <1>12, <2>1, DoesWeaker
<1> QED BY <1>1, <1>2, <1>3, <1>4, <1>11, <1>13 DEF ForEach

\* What no operation of the small model writes on the way to its result.
LEMMA ClearNames ==
  /\ \A b \in Buffers \cup {"x", "x_raw", "q_scaled", "gu", "hrow"} : <<Scratch, b>> \notin OneWrites
  /\ \A l \in Layer : \A b : <<l, b>> \notin OneWrites
  /\ \A b : <<Lens, b>> \notin OneWrites
  /\ <<HostSide, "topk">> \notin OneWrites
<1>1. /\ \A l \in Layer : l # Scratch /\ l # HostSide /\ l # Lens
      /\ Scratch # HostSide /\ Scratch # Lens /\ HostSide # Lens
  BY KeptAt
<1>2. \A b \in Buffers \cup {"x", "x_raw", "q_scaled", "gu", "hrow"} : b \notin DeviceNames \cup {"dev_out"}
  <2>1. \A b \in {"x", "x_raw", "q_scaled", "gu", "hrow"} : b \notin DeviceNames \cup {"dev_out"}
    BY DEF DeviceNames
  <2> QED BY <2>1, DeviceFacts
<1>3. \A b \in Buffers \cup {"x", "x_raw", "q_scaled", "gu", "hrow"} : <<Scratch, b>> \notin OneWrites
  BY <1>1, <1>2 DEF OneWrites
<1>4. \A l \in Layer : \A b : <<l, b>> \notin OneWrites
  BY <1>1 DEF OneWrites
<1>5. \A b : <<Lens, b>> \notin OneWrites
  BY <1>1 DEF OneWrites
<1>6. <<HostSide, "topk">> \notin OneWrites
  BY <1>1 DEF OneWrites
<1> QED BY <1>3, <1>4, <1>5, <1>6

\* What a one-op call writes is among what each half of a tiny layer does.
LEMMA TinyWrites ==
  ASSUME NEW l
  PROVE  /\ OneWrites \subseteq TinyAttnWrites(l) /\ OneWrites \subseteq TinyFfnWrites
         /\ \A b \in TinyArrays : <<Scratch, b>> \in TinyAttnWrites(l) /\ <<Scratch, b>> \in TinyFfnWrites
         /\ <<l, "k_hist">> \in TinyAttnWrites(l) /\ <<l, "v_hist">> \in TinyAttnWrites(l)
         /\ <<l, "k">> \in TinyAttnWrites(l) /\ <<l, "v">> \in TinyAttnWrites(l)
         /\ <<Lens, l>> \in TinyAttnWrites(l) /\ <<HostSide, "topk">> \in TinyFfnWrites
<1>1. DeviceNames \cup {"dev_out"} \subseteq TinyArrays
  BY DeviceFacts
<1>2. OneWrites \subseteq TinyAttnWrites(l) /\ OneWrites \subseteq TinyFfnWrites
  BY <1>1 DEF OneWrites, TinyAttnWrites, TinyFfnWrites
<1> QED BY <1>2 DEF TinyAttnWrites, TinyFfnWrites

\* gpu_attn_forward_chunk.
LEMMA TinyAttentionDoes ==
  ASSUME NEW c, TinyCall(c), NEW l \in Layer, NEW A, NEW B,
         A = {Now(c, "normed", l, "n")} \cup AttnBefore(c, l),
         B = {Now(c, "attn_out", l, "a")} \cup AttnAfter(c, l)
  PROVE  Does(c, TinyAttention(l, c.T), TinyAttnWrites(l), A, B)
<1>1. PICK W : W = TinyAttnWrites(l)
  OBVIOUS
<1>2. /\ OneWrites \subseteq W /\ \A b \in Buffers \cup {"q_scaled"} : <<Scratch, b>> \in W
  BY <1>1, TinyWrites, DeviceFacts
<1>3. /\ <<l, "k_hist">> \in W /\ <<l, "v_hist">> \in W /\ <<l, "k">> \in W /\ <<l, "v">> \in W
      /\ <<Lens, l>> \in W
  BY <1>1, TinyWrites
<1>4. PICK q, k, v, r, kh, vh, kc, vc, len :
        /\ q = Now(c, "q_raw", l, "qr") /\ k = Now(c, "k_raw", l, "k")
        /\ v = Now(c, "v_raw", l, "v") /\ r = Now(c, "r_raw", l, "rr")
        /\ kh = HistAt(l, "k_hist", "k", c.start_pos)
        /\ vh = HistAt(l, "v_hist", "v", c.start_pos)
        /\ kc = CellsAt(l, "k", "ks", c.start_pos) /\ vc = CellsAt(l, "v", "vs", c.start_pos)
        /\ len = LenIs(l, c.start_pos)
  OBVIOUS
<1>5. PICK ks, vs, qn, kn, qs, rl, ac, ao :
        /\ ks = Now(c, "k_sconv", l, "kc") /\ vs = Now(c, "v_sconv", l, "vs")
        /\ qn = Now(c, "q_normed", l, "qn") /\ kn = Now(c, "k_normed", l, "ks")
        /\ qs = Now(c, "q_scaled", l, "q") /\ rl = Now(c, "rel_logits", l, "r")
        /\ ac = Now(c, "attn_concat", l, "ac") /\ ao = Now(c, "attn_out", l, "a")
  OBVIOUS
<1>6. PICK kh2, vh2, kc2, vc2, len2 :
        /\ kh2 = HistAt(l, "k_hist", "k", c.start_pos + c.T)
        /\ vh2 = HistAt(l, "v_hist", "v", c.start_pos + c.T)
        /\ kc2 = CellsAt(l, "k", "ks", c.start_pos + c.T)
        /\ vc2 = CellsAt(l, "v", "vs", c.start_pos + c.T)
        /\ len2 = LenIs(l, c.start_pos + c.T)
  OBVIOUS
<1>7. /\ q[1] = <<Scratch, "q_raw">> /\ k[1] = <<Scratch, "k_raw">>
      /\ v[1] = <<Scratch, "v_raw">> /\ r[1] = <<Scratch, "r_raw">>
      /\ kh[1] = <<l, "k_hist">> /\ vh[1] = <<l, "v_hist">> /\ kc[1] = <<l, "k">>
      /\ vc[1] = <<l, "v">>
      /\ len[1] = <<Lens, l>>
  BY <1>4 DEF Now, Fact, HistAt, CellsAt, Cached, LenIs
<1>8. /\ ks[1] = <<Scratch, "k_sconv">> /\ vs[1] = <<Scratch, "v_sconv">>
      /\ qn[1] = <<Scratch, "q_normed">> /\ kn[1] = <<Scratch, "k_normed">>
      /\ qs[1] = <<Scratch, "q_scaled">> /\ rl[1] = <<Scratch, "rel_logits">>
      /\ ac[1] = <<Scratch, "attn_concat">> /\ ao[1] = <<Scratch, "attn_out">>
  BY <1>5 DEF Now, Fact
<1>9. /\ kh2[1] = <<l, "k_hist">> /\ vh2[1] = <<l, "v_hist">>
      /\ kc2[1] = <<l, "k">> /\ vc2[1] = <<l, "v">> /\ len2[1] = <<Lens, l>>
  BY <1>6 DEF HistAt, CellsAt, Cached, LenIs
<1>10. l # Scratch /\ l # Lens /\ Scratch # Lens
  BY KeptAt
<1>11. /\ \A b \in Buffers \cup {"q_scaled"} : <<Scratch, b>> \notin OneWrites
       /\ \A b : <<l, b>> \notin OneWrites /\ <<Lens, b>> \notin OneWrites
  BY ClearNames
<1>12. /\ q[1] \notin OneWrites /\ k[1] \notin OneWrites /\ v[1] \notin OneWrites
       /\ r[1] \notin OneWrites
       /\ kh[1] \notin OneWrites /\ vh[1] \notin OneWrites /\ kc[1] \notin OneWrites
       /\ vc[1] \notin OneWrites
       /\ len[1] \notin OneWrites
  BY <1>7, <1>11, BufferNames
<1>13. /\ ks[1] \notin OneWrites /\ vs[1] \notin OneWrites /\ qn[1] \notin OneWrites
       /\ kn[1] \notin OneWrites /\ qs[1] \notin OneWrites /\ rl[1] \notin OneWrites
       /\ ac[1] \notin OneWrites /\ ao[1] \notin OneWrites
  BY <1>8, <1>11, BufferNames
<1>14. /\ kh2[1] \notin OneWrites /\ vh2[1] \notin OneWrites /\ kc2[1] \notin OneWrites
       /\ vc2[1] \notin OneWrites /\ len2[1] \notin OneWrites
  BY <1>9, <1>11
<1>15. PICK A1, A2, A3, A4, A5, A6, A7, A8, A9 :
        /\ A1 = {q, k, v, r, kh, vh, kc, vc, len}
        /\ A2 = {q, ks, v, r, kh2, vh, kc, vc, len}
        /\ A3 = {q, ks, vs, r, kh2, vh2, kc, vc, len}
        /\ A4 = {qn, ks, vs, r, kh2, vh2, kc, vc, len}
        /\ A5 = {qn, kn, vs, r, kh2, vh2, kc, vc, len}
        /\ A6 = {qn, r, kh2, vh2, kc2, vc2, len2}
        /\ A7 = {qs, r, kh2, vh2, kc2, vc2, len2}
        /\ A8 = {qs, rl, kh2, vh2, kc2, vc2, len2}
        /\ A9 = {ac, kh2, vh2, kc2, vc2, len2}
  OBVIOUS
<1>16. B = {ao, kh2, vh2, kc2, vc2, len2}
  BY <1>5, <1>6 DEF AttnAfter
<1>17. PICK p1, p2, p3, p4, p5 :
         /\ p1 = ForEach(c.T, LAMBDA t :
                   gpu_matvec_one(l, "normed", t, "n", "q_raw", t, "qr")
                   \o gpu_matvec_one(l, "normed", t, "n", "k_raw", t, "k")
                   \o gpu_matvec_one(l, "normed", t, "n", "v_raw", t, "v")
                   \o gpu_matvec_one(l, "normed", t, "n", "r_raw", t, "rr"))
         /\ p2 = gpu_sconv_step(l, "k_hist", "k_raw", "k", "k_sconv", "kc")
         /\ p3 = gpu_sconv_step(l, "v_hist", "v_raw", "v", "v_sconv", "vs")
         /\ p4 = MapCall(l, <<"q_raw">>, <<"qr">>, "q_normed", "qn")
         /\ p5 = MapCall(l, <<"k_sconv">>, <<"kc">>, "k_normed", "ks")
  OBVIOUS
<1>18. PICK p6, p7, p8, p9 :
         /\ p6 = <<Host("store", l, 0, {"k_normed", "v_sconv"}, {}), Host("scale", l, 0, {"q_normed"}, {"q_scaled"})>>
         /\ p7 = MapCall(l, <<"r_raw">>, <<"rr">>, "rel_logits", "r")
         /\ p8 = Call("banded", l, <<"q_scaled", "rel_logits", "k", "v">>, All, <<>>, "attn_concat", All, "ac")
         /\ p9 = OneRows(c.T, l, "attn_concat", "ac", "attn_out", "a")
  OBVIOUS
<1>19. TinyAttention(l, c.T) = p1 \o p2 \o p3 \o p4 \o p5 \o p6 \o p7 \o p8 \o p9
  BY <1>17, <1>18 DEF TinyAttention, OneRows
<1>20. Does(c, p1, W, A, A1)
  <2>1. A1 = {Now(c, "q_raw", l, "qr"), Now(c, "k_raw", l, "k"), Now(c, "v_raw", l, "v"),
              Now(c, "r_raw", l, "rr")} \cup AttnBefore(c, l)
    BY <1>4, <1>15 DEF AttnBefore
  <2> QED BY <1>1, <1>17, <2>1, TinyProjectionsDo
<1>21. Does(c, p2, W, A1, A2)
  <2>1. \A g \in A2 : \/ g = ks \/ g = kh2 \/ g = Shut
                      \/ g \in A1 /\ g[1] \notin OneWrites /\ g[1] # <<Scratch, "k_sconv">> /\ g[1] # <<l, "k_hist">>
    <3>1. \A g \in A2 : g = ks \/ g = kh2 \/ g \in {q, v, r, vh, kc, vc, len}
      BY <1>15
    <3>2. \A g \in {q, v, r, vh, kc, vc, len} :
            g \in A1 /\ g[1] # <<Scratch, "k_sconv">> /\ g[1] # <<l, "k_hist">>
      BY <1>7, <1>10, <1>15
    <3>3. \A g \in {q, v, r, vh, kc, vc, len} : g[1] \notin OneWrites
      BY <1>12
    <3> QED BY <3>1, <3>2, <3>3
  <2>2. k \in A1 /\ kh \in A1
    BY <1>15
  <2> QED BY <1>2, <1>3, <1>4, <1>5, <1>6, <1>17, <2>1, <2>2, BufferNames, SconvStepDoes
             DEF HistNames
<1>22. Does(c, p3, W, A2, A3)
  <2>1. \A g \in A3 : \/ g = vs \/ g = vh2 \/ g = Shut
                      \/ g \in A2 /\ g[1] \notin OneWrites /\ g[1] # <<Scratch, "v_sconv">> /\ g[1] # <<l, "v_hist">>
    <3>1. \A g \in A3 : g = vs \/ g = vh2 \/ g \in {q, ks, r, kh2, kc, vc, len}
      BY <1>15
    <3>2. \A g \in {q, ks, r, kh2, kc, vc, len} :
            g \in A2 /\ g[1] # <<Scratch, "v_sconv">> /\ g[1] # <<l, "v_hist">>
      BY <1>7, <1>8, <1>9, <1>10, <1>15
    <3>3. \A g \in {q, ks, r, kh2, kc, vc, len} : g[1] \notin OneWrites
      BY <1>12, <1>13, <1>14
    <3> QED BY <3>1, <3>2, <3>3
  <2>2. v \in A2 /\ vh \in A2
    BY <1>15
  <2> QED BY <1>2, <1>3, <1>4, <1>5, <1>6, <1>17, <2>1, <2>2, BufferNames, SconvStepDoes
             DEF HistNames
<1>23. Does(c, p4, W, A3, A4)
  <2>1. OneSets(<<Scratch, "q_normed">>, qn, A3, A4)
    <3>1. \A g \in A4 : g = qn \/ g \in {ks, vs, r, kh2, vh2, kc, vc, len}
      BY <1>15
    <3>2. \A g \in {ks, vs, r, kh2, vh2, kc, vc, len} : g \in A3 /\ g[1] # <<Scratch, "q_normed">>
      BY <1>7, <1>8, <1>9, <1>10, <1>15
    <3>3. \A g \in {ks, vs, r, kh2, vh2, kc, vc, len} : g[1] \notin OneWrites
      BY <1>12, <1>13, <1>14
    <3> QED BY <3>1, <3>2, <3>3 DEF OneSets
  <2>2. q \in A3 /\ "q_raw" \notin CacheNames
    BY <1>15, BufferNames, DeviceFacts
  <2> QED BY <1>2, <1>4, <1>5, <1>17, <2>1, <2>2, BufferNames, MapOneDoes
<1>24. Does(c, p5, W, A4, A5)
  <2>1. OneSets(<<Scratch, "k_normed">>, kn, A4, A5)
    <3>1. \A g \in A5 : g = kn \/ g \in {qn, vs, r, kh2, vh2, kc, vc, len}
      BY <1>15
    <3>2. \A g \in {qn, vs, r, kh2, vh2, kc, vc, len} : g \in A4 /\ g[1] # <<Scratch, "k_normed">>
      BY <1>7, <1>8, <1>9, <1>10, <1>15
    <3>3. \A g \in {qn, vs, r, kh2, vh2, kc, vc, len} : g[1] \notin OneWrites
      BY <1>12, <1>13, <1>14
    <3> QED BY <3>1, <3>2, <3>3 DEF OneSets
  <2>2. ks \in A4 /\ "k_sconv" \notin CacheNames
    BY <1>15, BufferNames, DeviceFacts
  <2> QED BY <1>2, <1>5, <1>17, <2>1, <2>2, BufferNames, MapOneDoes
<1>25. Does(c, p6, W, A5, A7)
  <2>1. PICK v1, v2 : /\ v1 = Host("store", l, 0, {"k_normed", "v_sconv"}, {})
                      /\ v2 = Host("scale", l, 0, {"q_normed"}, {"q_scaled"})
    OBVIOUS
  <2>2. Does(c, <<v1>>, W, A5, A6)
    <3>1. \A g \in A6 : \/ g \in {kc2, vc2, len2}
                        \/ g \in A5 /\ g[1] # <<l, "k">> /\ g[1] # <<l, "v">> /\ g[1] # <<Lens, l>>
      BY <1>7, <1>8, <1>9, <1>10, <1>15
    <3>2. kn \in A5 /\ vs \in A5 /\ kc \in A5 /\ vc \in A5 /\ len \in A5
      BY <1>15
    <3> QED BY <1>3, <1>4, <1>5, <1>6, <2>1, <3>1, <3>2, HostStoreDoes
  <2>3. Does(c, <<v2>>, W, A6, A7)
    <3>1. Sets(<<Scratch, "q_scaled">>, qs, A6, A7)
      BY <1>7, <1>9, <1>10, <1>15 DEF Sets
    <3>2. qn \in A6
      BY <1>15
    <3> QED BY <1>2, <1>5, <2>1, <3>1, <3>2, ScaleDoes
  <2>4. Does(c, <<v1, v2>>, W, A5, A7)
    BY <2>2, <2>3, PairDoes
  <2> QED BY <1>18, <2>1, <2>4
<1>26. Does(c, p7, W, A7, A8)
  <2>1. OneSets(<<Scratch, "rel_logits">>, rl, A7, A8)
    <3>1. \A g \in A8 : g = rl \/ g \in {qs, kh2, vh2, kc2, vc2, len2}
      BY <1>15
    <3>2. \A g \in {qs, kh2, vh2, kc2, vc2, len2} : g \in A7 /\ g[1] # <<Scratch, "rel_logits">>
      BY <1>8, <1>9, <1>10, <1>15
    <3>3. \A g \in {qs, kh2, vh2, kc2, vc2, len2} : g[1] \notin OneWrites
      BY <1>13, <1>14
    <3> QED BY <3>1, <3>2, <3>3 DEF OneSets
  <2>2. r \in A7 /\ "r_raw" \notin CacheNames
    BY <1>15, BufferNames, DeviceFacts
  <2> QED BY <1>2, <1>4, <1>5, <1>18, <2>1, <2>2, BufferNames, MapOneDoes
<1>27. Does(c, p8, W, A8, A9)
  <2>1. OneSets(<<Scratch, "attn_concat">>, ac, A8, A9)
    <3>1. \A g \in A9 : g = ac \/ g \in {kh2, vh2, kc2, vc2, len2}
      BY <1>15
    <3>2. \A g \in {kh2, vh2, kc2, vc2, len2} : g \in A8 /\ g[1] # <<Scratch, "attn_concat">>
      BY <1>9, <1>10, <1>15
    <3>3. \A g \in {kh2, vh2, kc2, vc2, len2} : g[1] \notin OneWrites
      BY <1>14
    <3> QED BY <3>1, <3>2, <3>3 DEF OneSets
  <2>2. qs \in A8 /\ rl \in A8 /\ kc2 \in A8 /\ vc2 \in A8
    BY <1>15
  <2>3. "q_scaled" \in TinyArrays /\ "q_scaled" \notin CacheNames
    BY DeviceFacts DEF CacheNames, HistNames
  <2> QED BY <1>2, <1>5, <1>6, <1>18, <2>1, <2>2, <2>3, BufferNames, BandedCallDoes
<1>28. Does(c, p9, W, A9, B)
  <2>1. \A g \in A9 : g[1] \notin OneWrites /\ g[1] # <<Scratch, "attn_out">>
    <3>1. \A g \in A9 : g[1] # <<Scratch, "attn_out">>
      BY <1>8, <1>9, <1>10, <1>15
    <3>2. \A g \in A9 : g[1] \notin OneWrites
      BY <1>13, <1>14, <1>15
    <3> QED BY <3>1, <3>2
  <2>2. ac \in A9 /\ \A g \in B : g \in A9 \/ g = ao
    BY <1>15, <1>16
  <2> QED BY <1>2, <1>5, <1>18, <2>1, <2>2, BufferNames, TinyRowsDo
<1>29. Does(c, p1 \o p2 \o p3 \o p4 \o p5, W, A, A5)
  BY <1>20, <1>21, <1>22, <1>23, <1>24, ConcatDoes
<1>30. PICK z : z = p1 \o p2 \o p3 \o p4 \o p5
  OBVIOUS
<1>31. Does(c, z \o p6 \o p7 \o p8 \o p9, W, A, B)
  BY <1>25, <1>26, <1>27, <1>28, <1>29, <1>30, ConcatDoes
<1> QED BY <1>1, <1>19, <1>30, <1>31

\* OneRowDoes for the first row of its output.
LEMMA FirstRowDoes ==
  ASSUME NEW c, TinyCall(c), NEW op \in {"matvec", "routed"}, NEW l, NEW a, a \notin CacheNames,
         NEW t \in Nat, NEW from, NEW out \in TinyArrays, out \notin DeviceNames, out # "dev_out",
         NEW to, to # "next", NEW off \in Nat, NEW p \in Nat, p = off + t,
         NEW W, NEW A, NEW B,
         op = "routed" => TopK(<<l, "ro", p>>) \in A,
         NEW m \in Nat, t < m, Fact(a, m, l, from, off) \in A,
         OneWrites \subseteq W, <<Scratch, out>> \in W,
         OneSets(<<Scratch, out>>, Fact(out, 1, l, to, p), A, B)
  PROVE  Does(c, Call(op, l, <<a>>, t, <<from>>, out, 0, to), W, A, B)
<1>1. PICK ot \in 0..c.T - 1 : ot = 0 /\ ot + 1 = 1 /\ p + ot = off + t
  BY DEF TinyCall
<1>2. Part(out, ot, l, to, p) \subseteq A
  BY <1>1 DEF Part
<1>3. OneSets(<<Scratch, out>>, Fact(out, ot + 1, l, to, p), A, B)
  BY <1>1
<1>4. op = "routed" => TopK(<<l, "ro", off + t>>) \in A
  OBVIOUS
<1>5. Does(c, Call(op, l, <<a>>, t, <<from>>, out, ot, to), W, A, B)
  BY <1>1, <1>2, <1>3, <1>4, OneRowDoes
<1> QED BY <1>1, <1>5

\* A gated FFN on token t, with or without gamma on its activation.
LEMMA GatedDoes ==
  ASSUME NEW c, TinyCall(c), NEW op \in {"matvec", "routed"}, NEW l \in Layer,
         NEW t \in 0..c.T - 1,
         NEW mid, NEW hm,
         \/ mid = <<>> /\ hm = "hm"
         \/ mid = <<Host("gamma", l, t, {"hbuf"}, {"hbuf"})>> /\ hm = "hg",
         NEW out \in Buffers, out \notin {"normed2", "gbuf", "ubuf", "hbuf"}, NEW to, to # "next",
         NEW p \in Nat, p = c.start_pos + t, NEW W, W = TinyFfnWrites, NEW A, NEW B,
         op = "routed" => TopK(<<l, "ro", p>>) \in A, Now(c, "normed2", l, "n2") \in A,
         \A g \in B : \/ g = Fact(out, 1, l, to, p) \/ g = Shut
                      \/ /\ g \in A /\ g[1] \notin OneWrites
                         /\ \A b \in {"gu", "gbuf", "ubuf", "hbuf", out} : g[1] # <<Scratch, b>>
  PROVE  Does(c, Gated(op, l, t, mid, hm, out, to), W, A, B)
<1>1. /\ OneWrites \subseteq W /\ <<Scratch, "gu">> \in W /\ <<Scratch, "gbuf">> \in W
      /\ <<Scratch, "ubuf">> \in W /\ <<Scratch, "hbuf">> \in W /\ <<Scratch, out>> \in W
  BY TinyWrites, BufferNames, DeviceFacts
<1>2. PICK one \in Nat \ {0}, zero \in Nat : one = 1 /\ zero = 0 /\ p = p + zero /\ zero < one
  OBVIOUS
<1>3. PICK N : N = {"gu", "gbuf", "ubuf", "hbuf", out}
  OBVIOUS
<1>4. PICK Q : Q = {g \in A : g[1] \notin OneWrites /\ \A b \in N : g[1] # <<Scratch, b>>}
  OBVIOUS
<1>5. PICK gu, gf, uf, hf, hg, f, n2 :
        /\ gu = Fact("gu", 1, l, "gu", p) /\ gf = Fact("gbuf", 1, l, "g", p)
        /\ uf = Fact("ubuf", 1, l, "u", p)
        /\ hf = Fact("hbuf", 1, l, "hm", p) /\ hg = Fact("hbuf", 1, l, hm, p)
        /\ f = Fact(out, 1, l, to, p)
        /\ n2 = Now(c, "normed2", l, "n2")
  OBVIOUS
<1>6. /\ gu[1] = <<Scratch, "gu">> /\ gf[1] = <<Scratch, "gbuf">> /\ uf[1] = <<Scratch, "ubuf">>
      /\ hf[1] = <<Scratch, "hbuf">> /\ hg[1] = <<Scratch, "hbuf">>
      /\ n2[1] = <<Scratch, "normed2">>
  BY <1>5 DEF Fact, Now
<1>7. n2 \in Q /\ (op = "routed" => TopK(<<l, "ro", p>>) \in Q)
  <2>1. n2[1] \notin OneWrites /\ \A b \in N : n2[1] # <<Scratch, b>>
    BY <1>3, <1>6, ClearNames, BufferNames
  <2>2. TopK(<<l, "ro", p>>)[1] = <<HostSide, "topk">>
    BY DEF TopK
  <2>3. \A b : <<HostSide, "topk">> # <<Scratch, b>>
    BY KeptAt
  <2> QED BY <1>4, <1>5, <2>1, <2>2, <2>3, ClearNames
<1>8. PICK A1, A2, A3, A4 : /\ A1 = {gu} \cup Q /\ A2 = {gf, uf} \cup Q
                            /\ A3 = {hf} \cup Q /\ A4 = {hg} \cup Q
  OBVIOUS
<1>9. /\ gu[1] \notin OneWrites /\ gf[1] \notin OneWrites /\ uf[1] \notin OneWrites
      /\ hf[1] \notin OneWrites /\ hg[1] \notin OneWrites
  BY <1>6, ClearNames, BufferNames
<1>10. \A g \in Q : /\ g \in A /\ g[1] \notin OneWrites /\ g[1] # <<Scratch, "gu">> /\ g[1] # <<Scratch, "gbuf">>
                    /\ g[1] # <<Scratch, "ubuf">> /\ g[1] # <<Scratch, "hbuf">>
                    /\ g[1] # <<Scratch, out>>
  BY <1>3, <1>4
<1>11. /\ "gu" \in TinyArrays /\ "gu" \notin DeviceNames /\ "gu" # "dev_out"
       /\ "hbuf" \in TinyArrays /\ "hbuf" \notin DeviceNames /\ "hbuf" # "dev_out"
       /\ out \in TinyArrays /\ out \notin DeviceNames /\ out # "dev_out"
       /\ "normed2" \notin CacheNames /\ "gbuf" \notin CacheNames /\ "ubuf" \notin CacheNames
       /\ "hbuf" \notin CacheNames
  <2>1. "gu" \notin DeviceNames
    BY DEF DeviceNames
  <2> QED BY <2>1, DeviceFacts, BufferNames
<1>12. Does(c, Call(op, l, <<"normed2">>, t, <<"n2">>, "gu", 0, "gu"), W, A, A1)
  <2>1. OneSets(<<Scratch, "gu">>, gu, A, A1)
    BY <1>8, <1>10 DEF OneSets
  <2>2. PICK m \in Nat, off \in Nat, s \in Nat : m = c.T /\ off = c.start_pos /\ s = t /\ s < m
                                                 /\ p = off + s
    BY DEF TinyCall
  <2>3. Fact("normed2", m, l, "n2", off) \in A
    BY <2>2 DEF Now
  <2>4. Does(c, Call(op, l, <<"normed2">>, s, <<"n2">>, "gu", 0, "gu"), W, A, A1)
    BY <1>1, <1>5, <1>11, <2>1, <2>2, <2>3, FirstRowDoes
  <2> QED BY <2>2, <2>4
<1>13. Does(c, <<Host("gather", l, 0, {"gu"}, {"gbuf", "ubuf"})>>, W, A1, A2)
  <2>1. \A g \in A2 : g = gf \/ g = uf \/ (g \in A1 /\ g[1] # <<Scratch, "gbuf">> /\ g[1] # <<Scratch, "ubuf">>)
    BY <1>8, <1>10
  <2>2. Fact("gu", one, l, "gu", p) \in A1
    BY <1>2, <1>5, <1>8
  <2> QED BY <1>1, <1>5, <2>1, <2>2, GatherDoes
<1>14. Does(c, Call("matvec", l, <<"gbuf", "ubuf">>, 0, <<"g", "u">>, "hbuf", 0, "hm"), W, A2, A3)
  <2>1. OneSets(<<Scratch, "hbuf">>, hf, A2, A3)
    BY <1>8, <1>10 DEF OneSets
  <2>2. gf \in A2 /\ uf \in A2
    BY <1>8
  <2> QED BY <1>1, <1>5, <1>11, <2>1, <2>2, TwoRowsDo
<1>15. Does(c, mid, W, A3, A4)
  <2>1. CASE mid = <<>> /\ hm = "hm"
    <3>1. A3 = A4
      BY <1>5, <1>8, <2>1
    <3> QED BY <2>1, <3>1, EmptyDoes
  <2>2. CASE mid = <<Host("gamma", l, t, {"hbuf"}, {"hbuf"})>> /\ hm = "hg"
    <3>1. Sets(<<Scratch, "hbuf">>, Fact("hbuf", 1, l, "hg", p), A3, A4)
      BY <1>5, <1>8, <1>10, <2>2 DEF Sets
    <3>2. Fact("hbuf", one, l, "hm", p) \in A3
      BY <1>2, <1>5, <1>8
    <3> QED BY <1>1, <2>2, <3>1, <3>2, GammaDoes
  <2> QED BY <2>1, <2>2
<1>16. Does(c, Call(op, l, <<"hbuf">>, 0, <<hm>>, out, 0, to), W, A4, B)
  <2>1. OneSets(<<Scratch, out>>, f, A4, B)
    <3>1. \A g \in B : g = f \/ g = Shut \/ g \in Q
      BY <1>3, <1>4, <1>5
    <3> QED BY <1>8, <1>10, <3>1 DEF OneSets
  <2>2. Fact("hbuf", one, l, hm, p) \in A4 /\ (op = "routed" => TopK(<<l, "ro", p>>) \in A4)
    BY <1>2, <1>5, <1>7, <1>8
  <2>3. Does(c, Call(op, l, <<"hbuf">>, zero, <<hm>>, out, 0, to), W, A4, B)
    BY <1>1, <1>2, <1>5, <1>11, <2>1, <2>2, FirstRowDoes
  <2> QED BY <1>2, <2>3
<1>17. PICK p1, p2, p3, p4 :
         /\ p1 = Call(op, l, <<"normed2">>, t, <<"n2">>, "gu", 0, "gu")
         /\ p2 = <<Host("gather", l, 0, {"gu"}, {"gbuf", "ubuf"})>>
         /\ p3 = Call("matvec", l, <<"gbuf", "ubuf">>, 0, <<"g", "u">>, "hbuf", 0, "hm")
         /\ p4 = Call(op, l, <<"hbuf">>, 0, <<hm>>, out, 0, to)
  OBVIOUS
<1>18. Does(c, p1 \o p2 \o p3 \o mid \o p4, W, A, B)
  BY <1>12, <1>13, <1>14, <1>15, <1>16, <1>17, ConcatDoes
<1> QED BY <1>17, <1>18 DEF Gated

\* What the FFN of a layer has made of its first t rows.
FfnDone(c, l, t) == {Now(c, "normed2", l, "n2")} \cup RowsDone(c, t, "mlp_out", l, "m")

\* What the feed-forward loop keeps is untouched by a one-op call.
LEMMA FfnAt ==
  ASSUME NEW c, NEW l, NEW t, NEW g \in FfnDone(c, l, t)
  PROVE  /\ g[1] = <<Scratch, "normed2">> \/ g[1] = <<Scratch, "mlp_out">>
         /\ g[1] \notin OneWrites
<1>1. g[1] = <<Scratch, "normed2">> \/ g[1] = <<Scratch, "mlp_out">>
  BY DEF FfnDone, Now, RowsDone, Part, Fact
<1> QED BY <1>1, ClearNames, BufferNames

\* gpu_mlp_dense_forward.
LEMMA TinyDenseDoes ==
  ASSUME NEW c, TinyCall(c), NEW l \in Layer, NEW t \in 0..c.T - 1, NEW W, W = TinyFfnWrites,
         NEW A, NEW B,
         A = FfnDone(c, l, t), B = FfnDone(c, l, t + 1)
  PROVE  Does(c, TinyDense(l, t), W, A, B)
<1>1. PICK p \in Nat, off \in Nat, s \in 0..c.T - 1 : p = c.start_pos + t /\ off = c.start_pos
                                                      /\ s = t /\ s + 1 # 0
  BY DEF TinyCall
<1>2. PICK f, n2, m : /\ f = Fact("yrow", 1, l, "y", p) /\ n2 = Now(c, "normed2", l, "n2")
                      /\ m = Fact("mlp_out", t + 1, l, "m", off)
  OBVIOUS
<1>3. PICK A1 : A1 = {f} \cup A
  OBVIOUS
<1>4. Does(c, Gated("matvec", l, t, <<>>, "hm", "yrow", "y"), W, A, A1)
  <2>1. PICK op \in {"matvec", "routed"} : \E mid, hm :
        op = "matvec" /\ op # "routed" /\ mid = <<>> /\ hm = "hm"
    OBVIOUS
  <2>2. PICK mid, hm :
          op = "matvec" /\ op # "routed" /\ mid = <<>> /\ hm = "hm"
    BY <2>1
  <2>3. \A g \in A1 : \/ g = f
                      \/ /\ g \in A /\ g[1] \notin OneWrites
                         /\ \A b \in {"gu", "gbuf", "ubuf", "hbuf", "yrow"} : g[1] # <<Scratch, b>>
    BY <1>3, FfnAt
  <2>4. n2 \in A
    BY <1>2 DEF FfnDone
  <2>5. Does(c, Gated(op, l, t, mid, hm, "yrow", "y"), W, A, A1)
    BY <1>1, <1>2, <2>2, <2>3, <2>4, BufferNames, GatedDoes
  <2> QED BY <2>2, <2>5
<1>5. Does(c, <<Host("gscale", l, t, {"yrow"}, {"mlp_out"})>>, W, A1, B)
  <2>1. Sets(<<Scratch, "mlp_out">>, m, A1, B)
    <3>1. \A g \in B : g = m \/ g = n2
      BY <1>1, <1>2 DEF FfnDone, RowsDone, Part
    <3>2. n2 \in A1 /\ n2[1] = <<Scratch, "normed2">>
      BY <1>2, <1>3 DEF FfnDone, Now, Fact
    <3> QED BY <3>1, <3>2 DEF Sets
  <2>2. PICK one \in Nat \ {0} : one = 1
    OBVIOUS
  <2>3. Fact("yrow", one, l, "y", off + t) \in A1 /\ Part("mlp_out", t, l, "m", off) \subseteq A1
    BY <1>1, <1>2, <1>3, <2>2 DEF FfnDone, RowsDone
  <2>4. <<Scratch, "mlp_out">> \in W
    BY TinyWrites, BufferNames, DeviceFacts
  <2> QED BY <1>1, <1>2, <2>1, <2>3, <2>4, GscaleDoes
<1>6. PICK p1, p2 : /\ p1 = Gated("matvec", l, t, <<>>, "hm", "yrow", "y")
                    /\ p2 = <<Host("gscale", l, t, {"yrow"}, {"mlp_out"})>>
  OBVIOUS
<1>7. Does(c, p1 \o p2, W, A, B)
  BY <1>4, <1>5, <1>6, ConcatDoes
<1> QED BY <1>6, <1>7 DEF TinyDense

\* gpu_mlp_moe_forward.
LEMMA TinyMoeDoes ==
  ASSUME NEW c, TinyCall(c), NEW l \in Layer, NEW t \in 0..c.T - 1, NEW W, W = TinyFfnWrites,
         NEW A, NEW B,
         A = FfnDone(c, l, t), B = FfnDone(c, l, t + 1)
  PROVE  Does(c, TinyMoe(l, t), W, A, B)
<1>1. PICK off \in Nat, s \in Nat, n \in Nat : off = c.start_pos /\ s = t /\ n = c.T /\ s < n
                                               /\ s + 1 # 0
  BY DEF TinyCall
<1>2. PICK p \in Nat : p = off + s
  OBVIOUS
<1>3. p = off + s /\ off = c.start_pos /\ s = t /\ n = c.T /\ s < n /\ s + 1 # 0
  BY <1>1, <1>2
<1>4. PICK ro, tk, re, sh, n2, m :
        /\ ro = Fact("router_logits", 1, l, "ro", p) /\ tk = TopK(<<l, "ro", p>>)
        /\ re = Fact("routed_raw", 1, l, "re", p) /\ sh = Fact("shared_raw", 1, l, "sh", p)
        /\ n2 = Now(c, "normed2", l, "n2") /\ m = Fact("mlp_out", t + 1, l, "m", off)
  OBVIOUS
<1>5. PICK A1, A2, A3, A4 : A1 = {ro} \cup A /\ A2 = {tk} \cup A /\ A3 = {re} \cup A
                            /\ A4 = {re, sh} \cup A
  OBVIOUS
<1>6. /\ re[1] = <<Scratch, "routed_raw">> /\ re[1] \notin OneWrites
      /\ tk[1] = <<HostSide, "topk">> /\ n2[1] = <<Scratch, "normed2">>
      /\ \A b : <<Scratch, b>> # <<HostSide, "topk">>
  <2>1. re[1] = <<Scratch, "routed_raw">> /\ tk[1] = <<HostSide, "topk">>
        /\ n2[1] = <<Scratch, "normed2">>
    BY <1>4 DEF Fact, TopK, Now
  <2> QED BY <2>1, ClearNames, BufferNames, KeptAt
<1>7. /\ n2 \in A
      /\ OneWrites \subseteq W /\ <<Scratch, "router_logits">> \in W /\ <<HostSide, "topk">> \in W
      /\ <<Scratch, "mlp_out">> \in W
  BY <1>4, TinyWrites, BufferNames, DeviceFacts DEF FfnDone
<1>8. PICK one \in Nat \ {0} : one = 1
  OBVIOUS
<1>9. Does(c, gpu_matvec_one(l, "normed2", t, "n2", "router_logits", 0, "ro"), W, A, A1)
  <2>1. PICK op \in {"matvec", "routed"} : op = "matvec" /\ op # "routed"
    OBVIOUS
  <2>2. OneSets(<<Scratch, "router_logits">>, ro, A, A1)
    BY <1>5, FfnAt DEF OneSets
  <2>3. /\ "router_logits" \in TinyArrays /\ "router_logits" \notin DeviceNames
        /\ "router_logits" # "dev_out"
        /\ "normed2" \notin CacheNames
    BY BufferNames, DeviceFacts
  <2>4. Fact("normed2", n, l, "n2", off) \in A
    BY <1>3, <1>4, <1>7 DEF Now
  <2>5. Does(c, Call(op, l, <<"normed2">>, s, <<"n2">>, "router_logits", 0, "ro"), W, A, A1)
    BY <1>3, <1>4, <1>7, <2>1, <2>2, <2>3, <2>4, FirstRowDoes
  <2> QED BY <1>3, <2>1, <2>5 DEF gpu_matvec_one
<1>10. Does(c, <<Host("route", l, t, {"router_logits"}, {})>>, W, A1, A2)
  <2>1. Sets(<<HostSide, "topk">>, tk, A1, A2)
    <3>1. \A g \in A : g[1] # <<HostSide, "topk">>
      BY <1>6, FfnAt
    <3> QED BY <1>5, <3>1 DEF Sets
  <2>2. Fact("router_logits", one, l, "ro", p) \in A1
    BY <1>4, <1>5, <1>8
  <2> QED BY <1>4, <1>7, <2>1, <2>2, RouteDoes
<1>11. Does(c, Gated("routed", l, t, <<>>, "hm", "routed_raw", "re"), W, A2, A3)
  <2>1. PICK op \in {"matvec", "routed"} : \E mid, hm :
        op = "routed" /\ mid = <<>> /\ hm = "hm"
    OBVIOUS
  <2>2. PICK mid, hm :
          op = "routed" /\ mid = <<>> /\ hm = "hm"
    BY <2>1
  <2>3. \A g \in A3 : \/ g = re
                      \/ /\ g \in A2 /\ g[1] \notin OneWrites
                         /\ \A b \in {"gu", "gbuf", "ubuf", "hbuf", "routed_raw"} : g[1] # <<Scratch, b>>
    BY <1>5, FfnAt
  <2>4. n2 \in A2 /\ tk \in A2
    BY <1>5, <1>7
  <2>5. Does(c, Gated(op, l, t, mid, hm, "routed_raw", "re"), W, A2, A3)
    BY <1>3, <1>4, <2>2, <2>3, <2>4, BufferNames, GatedDoes
  <2> QED BY <2>2, <2>5
<1>12. PICK gamma : gamma = Host("gamma", l, t, {"hbuf"}, {"hbuf"})
  OBVIOUS
<1>13. Does(c, Gated("matvec", l, t, <<gamma>>, "hg", "shared_raw", "sh"), W, A3, A4)
  <2>1. PICK op \in {"matvec", "routed"} : \E mid, hm :
        op = "matvec" /\ op # "routed" /\ mid = <<gamma>> /\ hm = "hg"
    OBVIOUS
  <2>2. PICK mid, hm :
          op = "matvec" /\ op # "routed" /\ mid = <<gamma>> /\ hm = "hg"
    BY <2>1
  <2>3. \A g \in A4 : \/ g = sh
                      \/ /\ g \in A3 /\ g[1] \notin OneWrites
                         /\ \A b \in {"gu", "gbuf", "ubuf", "hbuf", "shared_raw"} : g[1] # <<Scratch, b>>
    BY <1>5, <1>6, FfnAt
  <2>4. n2 \in A3
    BY <1>5, <1>7
  <2>5. Does(c, Gated(op, l, t, mid, hm, "shared_raw", "sh"), W, A3, A4)
    BY <1>3, <1>4, <1>12, <2>2, <2>3, <2>4, BufferNames, GatedDoes
  <2> QED BY <2>2, <2>5
<1>14. Does(c, <<Host("blend", l, t, {"routed_raw", "shared_raw"}, {"mlp_out"})>>, W, A4, B)
  <2>1. Sets(<<Scratch, "mlp_out">>, m, A4, B)
    <3>1. \A g \in B : g = m \/ g = n2
      BY <1>3, <1>4 DEF FfnDone, RowsDone, Part
    <3> QED BY <1>5, <1>6, <1>7, <3>1 DEF Sets
  <2>2. Fact("routed_raw", one, l, "re", off + t) \in A4
        /\ Fact("shared_raw", one, l, "sh", off + t) \in A4
    BY <1>3, <1>4, <1>5, <1>8
  <2>3. Part("mlp_out", t, l, "m", off) \subseteq A4
    BY <1>3, <1>5 DEF FfnDone, RowsDone
  <2> QED BY <1>3, <1>4, <1>7, <2>1, <2>2, <2>3, BlendDoes
<1>15. PICK p1, p2, p3, p4, p5 :
         /\ p1 = gpu_matvec_one(l, "normed2", t, "n2", "router_logits", 0, "ro")
         /\ p2 = <<Host("route", l, t, {"router_logits"}, {})>>
         /\ p3 = Gated("routed", l, t, <<>>, "hm", "routed_raw", "re")
         /\ p4 = Gated("matvec", l, t, <<gamma>>, "hg", "shared_raw", "sh")
         /\ p5 = <<Host("blend", l, t, {"routed_raw", "shared_raw"}, {"mlp_out"})>>
  OBVIOUS
<1>16. Does(c, p1 \o p2 \o p3 \o p4 \o p5, W, A, B)
  BY <1>9, <1>10, <1>11, <1>13, <1>14, <1>15, ConcatDoes
<1> QED BY <1>12, <1>15, <1>16 DEF TinyMoe

-----------------------------------------------------------------------------
(* The tiny path's layers, and its whole program.                          *)

\* The FFN of a layer, token by token.
LEMMA TinyFfnDoes ==
  ASSUME NEW c, TinyCall(c), NEW l \in Layer, NEW A, NEW B,
         A = {Now(c, "normed2", l, "n2")}, B = {Now(c, "mlp_out", l, "m")}
  PROVE  Does(c, ForEach(c.T, LAMBDA t : IF l \in Sparse THEN TinyMoe(l, t) ELSE TinyDense(l, t)),
              TinyFfnWrites, A, B)
<1>1. PICK n \in Nat \ {0} : n = c.T
  BY DEF TinyCall
<1>2. PICK W : W = TinyFfnWrites
  OBVIOUS
<1>3. PICK p : p = [k \in 1..n |-> IF l \in Sparse THEN TinyMoe(l, k - 1) ELSE TinyDense(l, k - 1)]
  OBVIOUS
<1>4. PICK h : h = [t \in 0..n |-> FfnDone(c, l, t)]
  OBVIOUS
<1>5. ASSUME NEW k \in 1..n PROVE Does(c, p[k], W, h[k - 1], h[k])
  <2>1. PICK t \in 0..c.T - 1 : t = k - 1 /\ t + 1 = k
    BY <1>1
  <2>2. PICK A0, A1 : A0 = FfnDone(c, l, t) /\ A1 = FfnDone(c, l, t + 1)
    OBVIOUS
  <2>3. Does(c, TinyMoe(l, t), W, A0, A1) /\ Does(c, TinyDense(l, t), W, A0, A1)
    BY <1>2, <2>2, TinyMoeDoes, TinyDenseDoes
  <2>4. h[k - 1] = A0 /\ h[k] = A1
    BY <1>1, <1>4, <2>1, <2>2
  <2>5. p[k] = TinyMoe(l, t) \/ p[k] = TinyDense(l, t)
    BY <1>3, <2>1
  <2> QED BY <2>3, <2>4, <2>5
<1>6. Does(c, FlattenSeq(p), W, h[0], h[n])
  <2>1. Len(p) = n
    BY <1>3
  <2> QED BY <1>5, <2>1, FlattenDoes
<1>7. h[0] \subseteq A /\ B \subseteq h[n]
  BY <1>1, <1>4 DEF FfnDone, RowsDone, Part, Now
<1>8. Does(c, FlattenSeq(p), W, A, B)
  <2>1. B \subseteq Post(A, W, h[n])
    BY <1>7 DEF Post
  <2> QED BY <1>6, <1>7, <2>1, DoesWeaker
<1> QED BY <1>1, <1>2, <1>3, <1>8 DEF ForEach

\* A tiny layer writes what its two halves do.
LEMMA TinyLayerParts ==
  ASSUME NEW l \in Layer
  PROVE  /\ TinyAttnWrites(l) \subseteq LayerWrites(l) /\ TinyFfnWrites \subseteq LayerWrites(l)
         /\ OneWrites \subseteq LayerWrites(l)
<1>1. TinyAttnWrites(l) \subseteq LayerWrites(l)
  BY DEF TinyAttnWrites, LayerWrites, CacheNames, HistNames
<1>2. TinyFfnWrites \subseteq LayerWrites(l)
  BY DEF TinyFfnWrites, LayerWrites
<1> QED BY <1>1, <1>2, TinyWrites

\* gpu_decoder_layer_forward.
LEMMA TinyLayerDoes ==
  ASSUME NEW c, TinyCall(c), NEW l \in Layer, NEW A, NEW B,
         A = {Now(c, "x", l, "x")} \cup LayerFacts(l, c.start_pos),
         B = {Now(c, "x", l + 1, "x")} \cup LayerFacts(l, c.start_pos + c.T)
  PROVE  Does(c, TinyLayer(l, c.T), LayerWrites(l), A, B)
<1>1. PICK W, V, M : W = LayerWrites(l) /\ V = TinyAttnWrites(l) /\ M = TinyFfnWrites
  OBVIOUS
<1>2. /\ V \subseteq W /\ M \subseteq W /\ OneWrites \subseteq W
      /\ \A b \in Buffers \cup {"x"} : <<Scratch, b>> \in W
      /\ \A b \in CacheNames : <<l, b>> \in W
  BY <1>1, TinyLayerParts, LayerParts
<1>3. /\ "attn_hist" \in HistNames /\ "mlp_hist" \in HistNames
      /\ "attn_hist" \in CacheNames /\ "mlp_hist" \in CacheNames /\ "x" \notin CacheNames
      /\ "attn_sconv_out" \notin CacheNames /\ "mlp_sconv_out" \notin CacheNames
  BY DEF HistNames, CacheNames
<1>4. PICK x0, n, ao, as, xh, n2, m, ms, x1 :
        /\ x0 = Now(c, "x", l, "x") /\ n = Now(c, "normed", l, "n")
        /\ ao = Now(c, "attn_out", l, "a") /\ as = Now(c, "attn_sconv_out", l, "as")
        /\ xh = Now(c, "x", l, "h") /\ n2 = Now(c, "normed2", l, "n2")
        /\ m = Now(c, "mlp_out", l, "m") /\ ms = Now(c, "mlp_sconv_out", l, "ms")
        /\ x1 = Now(c, "x", l + 1, "x")
  OBVIOUS
<1>5. PICK ah, mh, ah2, mh2, ab, aa :
        /\ ah = HistAt(l, "attn_hist", "a", c.start_pos)
        /\ mh = HistAt(l, "mlp_hist", "m", c.start_pos)
        /\ ah2 = HistAt(l, "attn_hist", "a", c.start_pos + c.T)
        /\ mh2 = HistAt(l, "mlp_hist", "m", c.start_pos + c.T)
        /\ ab = AttnBefore(c, l) /\ aa = AttnAfter(c, l)
  OBVIOUS
<1>6. /\ x0[1] = <<Scratch, "x">> /\ n[1] = <<Scratch, "normed">>
      /\ ao[1] = <<Scratch, "attn_out">>
      /\ as[1] = <<Scratch, "attn_sconv_out">> /\ xh[1] = <<Scratch, "x">>
      /\ n2[1] = <<Scratch, "normed2">> /\ m[1] = <<Scratch, "mlp_out">>
      /\ ms[1] = <<Scratch, "mlp_sconv_out">> /\ x1[1] = <<Scratch, "x">>
  BY <1>4 DEF Now, Fact
<1>7. /\ ah[1] = <<l, "attn_hist">> /\ mh[1] = <<l, "mlp_hist">>
      /\ ah2[1] = <<l, "attn_hist">> /\ mh2[1] = <<l, "mlp_hist">>
  BY <1>5 DEF HistAt, Cached
<1>8. /\ l # Scratch /\ l # Lens /\ l # HostSide /\ Scratch # Lens /\ Scratch # HostSide
      /\ Lens # HostSide
  BY KeptAt
<1>9. \A g \in aa : /\ \A b : g[1] # <<Scratch, b>>
                    /\ g[1] # <<l, "attn_hist">> /\ g[1] # <<l, "mlp_hist">>
                    /\ g[1] \notin M
  BY <1>1, <1>5, <1>8 DEF AttnAfter, HistAt, CellsAt, Cached, LenIs, TinyFfnWrites
<1>10. \A g \in ab : \A b : g[1] # <<Scratch, b>>
  BY <1>5, <1>8 DEF AttnBefore, HistAt, CellsAt, Cached, LenIs
<1>11. \A g \in ab \cup aa : g[1] \notin OneWrites
  <2>1. \A g \in ab \cup aa : \E b : g[1] = <<l, b>> \/ g[1] = <<Lens, b>>
    BY <1>5 DEF AttnBefore, AttnAfter, HistAt, CellsAt, Cached, LenIs
  <2> QED BY <2>1, ClearNames
<1>12. /\ x0[1] \notin OneWrites /\ n[1] \notin OneWrites /\ ao[1] \notin OneWrites
       /\ as[1] \notin OneWrites
       /\ xh[1] \notin OneWrites /\ n2[1] \notin OneWrites /\ m[1] \notin OneWrites
       /\ ms[1] \notin OneWrites
       /\ x1[1] \notin OneWrites /\ ah[1] \notin OneWrites /\ mh[1] \notin OneWrites
       /\ ah2[1] \notin OneWrites /\ mh2[1] \notin OneWrites
  BY <1>6, <1>7, ClearNames, BufferNames
<1>13. x0[1] \notin V /\ ah[1] \notin V /\ mh[1] \notin V /\ xh[1] \notin M /\ ah2[1] \notin M
       /\ mh[1] \notin M
  <2>1. "x" \notin TinyArrays
    BY DeviceFacts
  <2> QED BY <1>1, <1>6, <1>7, <1>8, <2>1 DEF TinyAttnWrites, TinyFfnWrites
<1>14. PICK C1, C2, C3, C4, C5, C6, C7 :
         /\ C1 = {x0, n, ah, mh} \cup ab
         /\ C2 = {x0, ao, ah, mh} \cup aa
         /\ C3 = {x0, as, ah2, mh} \cup aa
         /\ C4 = {xh, ah2, mh} \cup aa
         /\ C5 = {xh, n2, ah2, mh} \cup aa
         /\ C6 = {xh, m, ah2, mh} \cup aa
         /\ C7 = {xh, ms, ah2, mh2} \cup aa
  OBVIOUS
<1>15. A = {x0, ah, mh} \cup ab /\ B = {x1, ah2, mh2} \cup aa
  BY <1>4, <1>5 DEF LayerFacts, AttnBefore, AttnAfter
<1>16. PICK p1, p2, p3, p4, p5, p6, p7, p8 :
         /\ p1 = MapCall(l, <<"x">>, <<"x">>, "normed", "n")
         /\ p2 = TinyAttention(l, c.T)
         /\ p3 = gpu_sconv_step(l, "attn_hist", "attn_out", "a", "attn_sconv_out", "as")
         /\ p4 = MapCall(l, <<"x", "attn_sconv_out">>, <<"x", "as">>, "x", "h")
         /\ p5 = MapCall(l, <<"x">>, <<"h">>, "normed2", "n2")
         /\ p6 = ForEach(c.T, LAMBDA t : IF l \in Sparse THEN TinyMoe(l, t) ELSE TinyDense(l, t))
         /\ p7 = gpu_sconv_step(l, "mlp_hist", "mlp_out", "m", "mlp_sconv_out", "ms")
         /\ p8 = MapCall(l, <<"x", "mlp_sconv_out">>, <<"h", "ms">>, "x", "next")
  OBVIOUS
<1>17. Does(c, p1, W, A, C1)
  <2>1. OneSets(<<Scratch, "normed">>, n, A, C1)
    <3>1. \A g \in C1 : g = n \/ g \in A
      BY <1>14, <1>15
    <3>2. \A g \in C1 : g = n \/ g[1] # <<Scratch, "normed">>
      BY <1>6, <1>7, <1>8, <1>10, <1>14
    <3>3. \A g \in C1 : g[1] \notin OneWrites
      BY <1>11, <1>12, <1>14
    <3> QED BY <3>1, <3>2, <3>3 DEF OneSets
  <2>2. x0 \in A
    BY <1>15
  <2> QED BY <1>2, <1>3, <1>4, <1>16, <2>1, <2>2, BufferNames, MapOneDoes
<1>18. Does(c, p2, W, C1, C2)
  <2>1. PICK K, L : K = {n} \cup ab /\ L = {ao} \cup aa
    OBVIOUS
  <2>2. Does(c, p2, V, K, L)
    BY <1>1, <1>4, <1>5, <1>16, <2>1, TinyAttentionDoes
  <2>3. K \subseteq C1 /\ C2 \subseteq Post(C1, V, L)
    BY <1>13, <1>14, <2>1 DEF Post
  <2> QED BY <1>2, <2>2, <2>3, DoesWeaker
<1>19. Does(c, p3, W, C2, C3)
  <2>1. \A g \in C3 : \/ g = as \/ g = ah2 \/ g = Shut
                      \/ g \in C2 /\ g[1] \notin OneWrites /\ g[1] # <<Scratch, "attn_sconv_out">> /\ g[1] # <<l, "attn_hist">>
    <3>1. \A g \in C3 : g = as \/ g = ah2 \/ g = x0 \/ g = mh \/ g \in aa
      BY <1>14
    <3>2. \A g : g = x0 \/ g = mh \/ g \in aa => g \in C2 /\ g[1] \notin OneWrites
      BY <1>11, <1>12, <1>14
    <3>3. \A g : g = x0 \/ g = mh \/ g \in aa => g[1] # <<Scratch, "attn_sconv_out">> /\ g[1] # <<l, "attn_hist">>
      BY <1>6, <1>7, <1>8, <1>9
    <3> QED BY <3>1, <3>2, <3>3
  <2>2. ao \in C2 /\ ah \in C2
    BY <1>14
  <2> QED BY <1>2, <1>3, <1>4, <1>5, <1>16, <2>1, <2>2, BufferNames, SconvStepDoes
<1>20. Does(c, p4, W, C3, C4)
  <2>1. OneSets(<<Scratch, "x">>, xh, C3, C4)
    <3>1. \A g \in C4 : g = xh \/ g \in C3
      BY <1>14
    <3>2. \A g \in C4 : g = xh \/ g[1] # <<Scratch, "x">>
      BY <1>7, <1>8, <1>9, <1>14
    <3>3. \A g \in C4 : g[1] \notin OneWrites
      BY <1>11, <1>12, <1>14
    <3> QED BY <3>1, <3>2, <3>3 DEF OneSets
  <2>2. x0 \in C3 /\ as \in C3 /\ "h" # "next"
    BY <1>14
  <2> QED BY <1>2, <1>3, <1>4, <1>16, <2>1, <2>2, MapTwoDoes
<1>21. Does(c, p5, W, C4, C5)
  <2>1. OneSets(<<Scratch, "normed2">>, n2, C4, C5)
    <3>1. \A g \in C5 : g = n2 \/ g \in C4
      BY <1>14
    <3>2. \A g \in C5 : g = n2 \/ g[1] # <<Scratch, "normed2">>
      BY <1>6, <1>7, <1>8, <1>9, <1>14
    <3>3. \A g \in C5 : g[1] \notin OneWrites
      BY <1>11, <1>12, <1>14
    <3> QED BY <3>1, <3>2, <3>3 DEF OneSets
  <2>2. xh \in C4
    BY <1>14
  <2> QED BY <1>2, <1>3, <1>4, <1>16, <2>1, <2>2, BufferNames, MapOneDoes
<1>22. Does(c, p6, W, C5, C6)
  <2>1. PICK K, L : K = {n2} /\ L = {m}
    OBVIOUS
  <2>2. Does(c, p6, M, K, L)
    BY <1>1, <1>4, <1>16, <2>1, TinyFfnDoes
  <2>3. K \subseteq C5 /\ C6 \subseteq Post(C5, M, L)
    BY <1>9, <1>13, <1>14, <2>1 DEF Post
  <2> QED BY <1>2, <2>2, <2>3, DoesWeaker
<1>23. Does(c, p7, W, C6, C7)
  <2>1. \A g \in C7 : \/ g = ms \/ g = mh2 \/ g = Shut
                      \/ g \in C6 /\ g[1] \notin OneWrites /\ g[1] # <<Scratch, "mlp_sconv_out">> /\ g[1] # <<l, "mlp_hist">>
    <3>1. \A g \in C7 : g = ms \/ g = mh2 \/ g = xh \/ g = ah2 \/ g \in aa
      BY <1>14
    <3>2. \A g : g = xh \/ g = ah2 \/ g \in aa => g \in C6 /\ g[1] \notin OneWrites
      BY <1>11, <1>12, <1>14
    <3>3. \A g : g = xh \/ g = ah2 \/ g \in aa => g[1] # <<Scratch, "mlp_sconv_out">> /\ g[1] # <<l, "mlp_hist">>
      BY <1>6, <1>7, <1>8, <1>9
    <3> QED BY <3>1, <3>2, <3>3
  <2>2. m \in C6 /\ mh \in C6
    BY <1>14
  <2> QED BY <1>2, <1>3, <1>4, <1>5, <1>16, <2>1, <2>2, BufferNames, SconvStepDoes
<1>24. Does(c, p8, W, C7, B)
  <2>1. OneSets(<<Scratch, "x">>, x1, C7, B)
    <3>1. \A g \in B : g = x1 \/ g \in C7
      BY <1>14, <1>15
    <3>2. \A g \in B : g = x1 \/ g[1] # <<Scratch, "x">>
      BY <1>7, <1>8, <1>9, <1>15
    <3>3. \A g \in B : g[1] \notin OneWrites
      BY <1>11, <1>12, <1>15
    <3> QED BY <3>1, <3>2, <3>3 DEF OneSets
  <2>2. xh \in C7 /\ ms \in C7
    BY <1>14
  <2> QED BY <1>2, <1>3, <1>4, <1>16, <2>1, <2>2, MapTwoDoes
<1>25. TinyLayer(l, c.T) = p1 \o p2 \o p3 \o p4 \o p5 \o p6 \o p7 \o p8
  BY <1>16 DEF TinyLayer
<1>26. Does(c, p1 \o p2 \o p3 \o p4, W, A, C4)
  BY <1>17, <1>18, <1>19, <1>20, ConcatDoes
<1>27. PICK z : z = p1 \o p2 \o p3 \o p4
  OBVIOUS
<1>28. Does(c, z \o p5 \o p6 \o p7 \o p8, W, A, B)
  BY <1>21, <1>22, <1>23, <1>24, <1>26, <1>27, ConcatDoes
<1> QED BY <1>1, <1>25, <1>27, <1>28

\* Where the rows of the logits stand when t of them are done.
LogitsDone(c, t) ==
  {Now(c, "final", NumLayers, "fn"), Shut} \cup RowsDone(c, t, "logits_buf", NumLayers, "lg") \cup Kept(c, NumLayers)

\* What the logits loop keeps is untouched by the call for its next row.
LEMMA LogitsAt ==
  ASSUME NEW c, NEW t, NEW g \in LogitsDone(c, t)
  PROVE  \/ g = Shut
         \/ /\ g[1] # <<Scratch, "hrow">> /\ g[1] \notin OneWrites
            /\ g = Now(c, "final", NumLayers, "fn") \/ g[1] = <<Scratch, "logits_buf">> \/ g \in Kept(c, NumLayers)
<1>1. CASE g = Now(c, "final", NumLayers, "fn")
  <2>1. g[1] = <<Scratch, "final">>
    BY <1>1 DEF Now, Fact
  <2> QED BY <1>1, <2>1, ClearNames, BufferNames
<1>2. CASE g \in RowsDone(c, t, "logits_buf", NumLayers, "lg")
  <2>1. g[1] = <<Scratch, "logits_buf">>
    BY <1>2 DEF RowsDone, Part, Fact
  <2> QED BY <2>1, ClearNames, BufferNames
<1>3. CASE g \in Kept(c, NumLayers)
  <2>1. g[1] # <<Scratch, "hrow">>
    BY <1>3, KeptAt
  <2>2. PICK l \in Layer : g \in LayerFacts(l, IF l < NumLayers THEN c.start_pos + c.T ELSE c.start_pos)
    BY <1>3, KeptAt
  <2>3. g[1] = <<Lens, l>> \/ \E b : g[1] = <<l, b>>
    BY <2>2, KeptAt
  <2>4. g[1] \notin OneWrites
    BY <2>3, ClearNames
  <2> QED BY <1>3, <2>1, <2>4
<1>4. g = Shut \/ g = Now(c, "final", NumLayers, "fn") \/ g \in RowsDone(c, t, "logits_buf", NumLayers, "lg")
      \/ g \in Kept(c, NumLayers)
  BY DEF LogitsDone
<1> QED BY <1>1, <1>2, <1>3, <1>4

\* One row of the logits: the final row divided by mup, times the embedding.
LogitsRow(t) ==
  <<Host("mup", NumLayers, t, {"final"}, {"hrow"})>>
  \o gpu_matvec_one(NumLayers, "hrow", 0, "hd", "logits_buf", t, "lg")

\* The logits of row t, after those of the rows before it.
LEMMA LogitsRowDoes ==
  ASSUME NEW c, TinyCall(c), NEW t \in 0..c.T - 1, NEW W, NEW A, NEW B,
         A = LogitsDone(c, t), B = LogitsDone(c, t + 1), OneWrites \subseteq W,
         <<Scratch, "hrow">> \in W, <<Scratch, "logits_buf">> \in W
  PROVE  Does(c, LogitsRow(t), W, A, B)
<1>1. PICK p \in Nat, base \in Nat, ot \in 0..c.T - 1, z \in Nat :
        p = c.start_pos + t /\ base = c.start_pos /\ ot = t /\ z = 0 /\ base + ot = p + z /\ ot + 1 # 0
  BY DEF TinyCall
<1>2. PICK one \in Nat : one = 1 /\ z < one
  BY <1>1
<1>3. PICK hd, f, fn : /\ hd = Fact("hrow", 1, NumLayers, "hd", p)
                       /\ f = Fact("logits_buf", ot + 1, NumLayers, "lg", base)
                       /\ fn = Now(c, "final", NumLayers, "fn")
  OBVIOUS
<1>4. PICK M : M = {hd} \cup A
  OBVIOUS
<1>5. PICK p1, p2 : /\ p1 = <<Host("mup", NumLayers, t, {"final"}, {"hrow"})>>
                    /\ p2 = gpu_matvec_one(NumLayers, "hrow", 0, "hd", "logits_buf", t, "lg")
  OBVIOUS
<1>6. <<Scratch, "hrow">> # Shut[1]
  BY DEF Shut, Scratch, HostSide
<1>7. Does(c, p1, W, A, M)
  <2>1. \A g \in A : g[1] # <<Scratch, "hrow">>
    BY <1>6, LogitsAt
  <2>2. Sets(<<Scratch, "hrow">>, hd, A, M)
    BY <1>4, <2>1 DEF Sets
  <2>3. fn \in A
    BY <1>3 DEF LogitsDone
  <2> QED BY <1>1, <1>3, <1>5, <2>2, <2>3, MupDoes
<1>8. Does(c, p2, W, M, B)
  <2>1. Part("logits_buf", ot, NumLayers, "lg", base) \subseteq M
    BY <1>1, <1>4 DEF LogitsDone, RowsDone
  <2>2. OneSets(<<Scratch, "logits_buf">>, f, M, B)
    <3> SUFFICES ASSUME NEW g \in B
                 PROVE  g = f \/ g = Shut \/ (g \in M /\ g[1] \notin OneWrites /\ g[1] # <<Scratch, "logits_buf">>)
      BY DEF OneSets
    <3>1. g = f \/ g = Shut \/ g = fn \/ g \in Kept(c, NumLayers)
      BY <1>1, <1>3 DEF LogitsDone, RowsDone, Part
    <3>2. g = Shut \/ g[1] \notin OneWrites
      BY LogitsAt
    <3>3. g = fn \/ g \in Kept(c, NumLayers) => g \in M
      BY <1>3, <1>4 DEF LogitsDone
    <3>4. fn[1] # <<Scratch, "logits_buf">>
      BY <1>3 DEF Now, Fact
    <3>5. g \in Kept(c, NumLayers) => g[1] # <<Scratch, "logits_buf">>
      BY KeptAt
    <3> QED BY <3>1, <3>2, <3>3, <3>4, <3>5
  <2>3. hd \in M /\ hd = Fact("hrow", one, NumLayers, "hd", p)
    BY <1>2, <1>3, <1>4
  <2>4. PICK op \in {"matvec", "routed"}, in, out \in TinyArrays : \E l, from, to :
        /\ op = "matvec" /\ op # "routed" /\ in = "hrow" /\ in \notin CacheNames
        /\ out = "logits_buf"
        /\ out \notin DeviceNames /\ out # "dev_out" /\ l = NumLayers /\ from = "hd" /\ to = "lg"
        /\ to # "next"
    <3>1. "hrow" \notin CacheNames
      BY DEF CacheNames, HistNames
    <3>2. "logits_buf" \in Buffers
      BY BufferNames
    <3> QED BY <3>1, <3>2, DeviceFacts
  <2>5. PICK l, from, to :
          /\ op = "matvec" /\ op # "routed" /\ in = "hrow" /\ in \notin CacheNames
          /\ out = "logits_buf"
          /\ out \notin DeviceNames /\ out # "dev_out" /\ l = NumLayers /\ from = "hd"
          /\ to = "lg"
          /\ to # "next"
    BY <2>4
  <2>6. /\ Fact(in, one, l, from, p) \in M /\ Part(out, ot, l, to, base) \subseteq M
        /\ <<Scratch, out>> \in W
        /\ OneSets(<<Scratch, out>>, Fact(out, ot + 1, l, to, base), M, B)
    BY <1>3, <2>1, <2>2, <2>3, <2>5
  <2>7. Does(c, Call(op, l, <<in>>, z, <<from>>, out, ot, to), W, M, B)
    BY <1>1, <1>2, <2>5, <2>6, OneRowDoes
  <2> QED BY <1>1, <1>5, <2>5, <2>7 DEF gpu_matvec_one
<1>9. Does(c, p1 \o p2, W, A, B)
  BY <1>7, <1>8, ConcatDoes
<1> QED BY <1>5, <1>9 DEF LogitsRow

\* The logits of every row of the chunk: what the call must leave.
LEMMA LogitsRowsDo ==
  ASSUME NEW c, TinyCall(c), NEW W, NEW A, NEW B,
         A = {Now(c, "final", NumLayers, "fn"), Shut} \cup Kept(c, NumLayers), B = Goal(c),
         OneWrites \subseteq W, <<Scratch, "hrow">> \in W, <<Scratch, "logits_buf">> \in W
  PROVE  Does(c, ForEach(c.T, LogitsRow), W, A, B)
<1>1. PICK n \in Nat \ {0} : n = c.T
  BY DEF TinyCall
<1>2. PICK p : p = [k \in 1..n |-> LogitsRow(k - 1)]
  OBVIOUS
<1>3. PICK h : h = [t \in 0..n |-> LogitsDone(c, t)]
  OBVIOUS
<1>4. ASSUME NEW k \in 1..n PROVE Does(c, p[k], W, h[k - 1], h[k])
  <2>1. PICK t \in 0..c.T - 1 : t = k - 1 /\ t + 1 = k
    BY <1>1
  <2>2. PICK A0, A1 : A0 = LogitsDone(c, t) /\ A1 = LogitsDone(c, t + 1)
    OBVIOUS
  <2>3. Does(c, LogitsRow(t), W, A0, A1)
    BY <2>2, LogitsRowDoes
  <2>4. h[k - 1] = A0 /\ h[k] = A1
    BY <1>1, <1>3, <2>1, <2>2
  <2> QED BY <1>2, <2>1, <2>3, <2>4
<1>5. Does(c, FlattenSeq(p), W, h[0], h[n])
  <2>1. Len(p) = n
    BY <1>2
  <2> QED BY <1>4, <2>1, FlattenDoes
<1>6. h[0] \subseteq A
  BY <1>1, <1>3 DEF LogitsDone, RowsDone, Part
<1>7. B \subseteq h[n]
  BY <1>1, <1>3 DEF LogitsDone, RowsDone, Part, Now, Goal
<1>8. Does(c, FlattenSeq(p), W, A, B)
  <2>1. PICK u, K, L, M, N : u = FlattenSeq(p) /\ K = h[0] /\ L = h[n] /\ M = A /\ N = B
    OBVIOUS
  <2>2. K \subseteq M /\ N \subseteq L
    BY <1>6, <1>7, <2>1
  <2>3. W \subseteq W /\ N \subseteq Post(M, W, L)
    BY <2>2 DEF Post
  <2>4. Does(c, u, W, K, L)
    BY <1>5, <2>1
  <2>5. Does(c, u, W, M, N)
    BY ONLY <2>2, <2>3, <2>4, DoesWeaker
  <2> QED BY <2>1, <2>5
<1> QED BY <1>1, <1>2, <1>8 DEF ForEach

\* model_forward_chunk_gpu.
LEMMA TinyProgramReaches ==
  ASSUME NEW c, TinyCall(c)
  PROVE  \E r : /\ Reaches(c, r, {Now(c, "x_raw", 0, "e")} \cup Kept(c, 0), Goal(c))
                /\ TinyProgram(c.T) = r \o <<LastStep>>
<1>1. PICK n, W : n = c.T /\ n \in Nat \ {0} /\ W = ProgramWrites
  BY DEF TinyCall
<1>2. /\ OneWrites \subseteq W /\ \A b \in TinyArrays \cup {"x"} : <<Scratch, b>> \in W
  BY <1>1, DeviceFacts DEF ProgramWrites, OneWrites
<1>3. PICK e, x0, xf, fn, k0, kept :
        /\ e = Now(c, "x_raw", 0, "e") /\ x0 = Now(c, "x", 0, "x")
        /\ xf = Now(c, "x", NumLayers, "x")
        /\ fn = Now(c, "final", NumLayers, "fn") /\ k0 = Kept(c, 0) /\ kept = Kept(c, NumLayers)
  OBVIOUS
<1>4. PICK Z, S, E, F, G : /\ Z = {e} \cup k0 /\ S = {x0} \cup k0 /\ E = {xf} \cup kept
                           /\ F = {fn, Shut} \cup kept /\ G = Goal(c)
  OBVIOUS
<1>5. \A g \in k0 \cup kept : g[1] \notin OneWrites /\ \A b : g[1] # <<Scratch, b>>
  <2>1. \A m : \A g \in Kept(c, m) : g[1] \notin OneWrites
    <3> SUFFICES ASSUME NEW m, NEW g \in Kept(c, m) PROVE g[1] \notin OneWrites
      OBVIOUS
    <3>1. PICK l \in Layer : g \in LayerFacts(l, IF l < m THEN c.start_pos + c.T ELSE c.start_pos)
      BY KeptAt
    <3>2. g[1] = <<Lens, l>> \/ \E b : g[1] = <<l, b>>
      BY <3>1, KeptAt
    <3> QED BY <3>2, ClearNames
  <2> QED BY <1>3, <2>1, KeptAt
<1>6. PICK p1, p, p2, p3 :
        /\ p1 = MapCall(0, <<"x_raw">>, <<"e">>, "x", "x")
        /\ p = [k \in 1..NumLayers |-> TinyLayer(k - 1, n)]
        /\ p2 = MapCall(NumLayers, <<"x">>, <<"x">>, "final", "fn")
        /\ p3 = ForEach(c.T, LogitsRow)
  OBVIOUS
<1>7. "x_raw" \notin CacheNames /\ "x" \notin CacheNames
  BY DEF CacheNames, HistNames
<1>8. Does(c, p1, W, Z, S)
  <2>1. OneSets(<<Scratch, "x">>, x0, Z, S)
    BY <1>4, <1>5 DEF OneSets
  <2>2. e \in Z /\ "x" # "next"
    BY <1>4
  <2> QED BY <1>2, <1>3, <1>6, <1>7, <2>1, <2>2, MapOneDoes
<1>9. Does(c, FlattenSeq(p), W, S, E)
  <2>1. Len(p) = NumLayers
    BY <1>6, ForwardAssumption
  <2>2. ASSUME NEW l \in Layer
        PROVE  Does(c, p[l + 1], LayerWrites(l), {Now(c, "x", l, "x")} \cup LayerFacts(l, c.start_pos),
                    {Now(c, "x", l + 1, "x")} \cup LayerFacts(l, c.start_pos + c.T))
    <3>1. p[l + 1] = TinyLayer(l, c.T)
      BY <1>1, <1>6, ForwardAssumption DEF Layer
    <3>2. PICK A, B : /\ A = {Now(c, "x", l, "x")} \cup LayerFacts(l, c.start_pos)
                      /\ B = {Now(c, "x", l + 1, "x")} \cup LayerFacts(l, c.start_pos + c.T)
      OBVIOUS
    <3>3. Does(c, TinyLayer(l, c.T), LayerWrites(l), A, B)
      BY <3>2, TinyLayerDoes
    <3> QED BY <3>1, <3>2, <3>3
  <2> QED BY <1>1, <1>3, <1>4, <2>1, <2>2, LayersDo
<1>10. Does(c, p2, W, E, F)
  <2>1. fn[1] = <<Scratch, "final">>
    BY <1>3 DEF Now, Fact
  <2>2. OneSets(<<Scratch, "final">>, fn, E, F)
    BY <1>4, <1>5 DEF OneSets
  <2>3. xf \in E /\ "fn" # "next" /\ "final" \in Buffers \cup {"x"} /\ <<Scratch, "final">> \in W
    BY <1>2, <1>4, BufferNames, DeviceFacts
  <2> QED BY <1>2, <1>3, <1>6, <1>7, <2>2, <2>3, MapOneDoes
<1>11. Does(c, p3, W, F, G)
  BY <1>2, <1>3, <1>4, <1>6, BufferNames, DeviceFacts, LogitsRowsDo
<1>12. PICK r : r = p1 \o FlattenSeq(p) \o p2 \o p3
  OBVIOUS
<1>13. Does(c, r, W, Z, G)
  BY <1>8, <1>9, <1>10, <1>11, <1>12, ConcatDoes
<1>14. PICK y : y = TinyProgram(n)
  OBVIOUS
<1>15. y = r \o <<LastStep>>
  <2>1. FlattenSeq(p) = ForEach(NumLayers, LAMBDA l : TinyLayer(l, n))
    BY <1>6 DEF ForEach
  <2>2. p3 = ForEach(n, LAMBDA t :
               <<Host("mup", NumLayers, t, {"final"}, {"hrow"})>>
               \o gpu_matvec_one(NumLayers, "hrow", 0, "hd", "logits_buf", t, "lg"))
    BY <1>1, <1>6 DEF ForEach, LogitsRow
  <2> QED BY <1>6, <1>12, <1>14, <2>1, <2>2 DEF TinyProgram, LastStep
<1>16. PICK z : Reaches(c, z, Z, G) /\ y = z \o <<LastStep>>
  <2>1. Reaches(c, r, Z, G)
    BY ONLY <1>13, DoesReaches
  <2> QED BY <1>15, <2>1
<1>17. Reaches(c, z, {Now(c, "x_raw", 0, "e")} \cup Kept(c, 0), Goal(c))
  BY <1>3, <1>4, <1>16
<1> QED BY <1>1, <1>14, <1>16, <1>17
=============================================================================
