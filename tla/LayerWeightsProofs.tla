-------------------------- MODULE LayerWeightsProofs --------------------------
(***************************************************************************)
(* Three arguments, for any number of layers, experts, rows and threads.   *)
(*                                                                         *)
(* The selection: moe_route_select picks the best TopK experts, all        *)
(* different.  Each scan holds the best unused expert among those already  *)
(* looked at, and counting leaves one unused before every pass.            *)
(*                                                                         *)
(* The arena of layer_weights: every block that is filled is WellPlaced,   *)
(* its rows lie inside it and no element is written twice, because the     *)
(* offset r * w + c determines r and c.  The blocks follow one another, so *)
(* what is filled stays in place while the rest is filled, and when the    *)
(* layer is used every field reads the row the oracle reads.  The sum of a *)
(* sparse layer then holds the picks and the shared experts in order, each *)
(* under the weight of its own logit.                                      *)
(*                                                                         *)
(* The shared memory of the kernels: all the simdgroups are between the    *)
(* same two barriers, and between any two barriers of a kernel the cells   *)
(* are touched in one way only: every cell is read, or cell g is written   *)
(* by simdgroup g, or all of them by simdgroup 0.                          *)
(***************************************************************************)
EXTENDS LayerWeights, Threadgroup, FiniteSetTheorems, SequenceTheorems, TLAPS

\* Expert numbers are integers, and None is none of them.
LEMMA ExpertType == Expert \subseteq Int /\ None \notin Expert /\ None \in Int
BY RouteAssumption DEF Expert, None

\* Before the last pass some expert is free: the used ones are fewer than all.
LEMMA SomeExpertFree ==
  ASSUME used \subseteq Expert, Cardinality(used) < NumRouted
  PROVE  \E e \in Expert : e \notin used
<1>1. IsFiniteSet(Expert) /\ Cardinality(Expert) = NumRouted
  <2>1. 0 \in Int /\ NumRouted - 1 \in Int /\ NumRouted > 0
    BY RouteAssumption
  <2>2. IsFiniteSet(0..NumRouted - 1)
        /\ Cardinality(0..NumRouted - 1) = IF 0 > NumRouted - 1 THEN 0 ELSE (NumRouted - 1) - 0 + 1
    BY <2>1, FS_Interval
  <2> QED BY <2>1, <2>2, RouteAssumption DEF Expert
<1>2. used # Expert
  BY <1>1, RouteAssumption
<1>3. QED
  BY <1>2

\* The invariant holds before the first turn.
LEMMA RouteInitInv == RouteInit => RouteIInv
<1> SUFFICES ASSUME RouteInit PROVE RouteIInv
  OBVIOUS
<1>1. RouteTypeOK
  BY RouteAssumption DEF RouteInit, RouteTypeOK
<1>2. RouteIsTopK
  BY RouteAssumption DEF RouteInit, RouteIsTopK, PicksDistinct, PicksBest
<1>3. ScanInv
  BY RouteAssumption DEF RouteInit, ScanInv
<1>4. used = {topk_idx[p] : p \in 0..j - 1} /\ Cardinality(used) = j
  <2>1. 0..j - 1 = {}
    BY DEF RouteInit
  <2> QED BY <2>1, FS_EmptySet DEF RouteInit
<1>5. QED
  BY <1>1, <1>2, <1>3, <1>4 DEF RouteIInv

\* One candidate more keeps the scan's invariant and touches no pick.
LEMMA ConsiderPreserved ==
  ASSUME RouteIInv, Consider
  PROVE  RouteIInv'
<1> USE RouteAssumption, ExpertType DEF RouteIInv
<1>1. /\ j < TopK /\ i < NumRouted /\ i' = i + 1
      /\ best' = IF i \notin used /\ Beats(i) THEN i ELSE best
      /\ UNCHANGED <<scores, used, topk_idx, j>>
  BY DEF Consider
<1>2. i \in Expert /\ i \in Int
  BY <1>1 DEF RouteTypeOK, Expert
<1>3. RouteTypeOK'
  BY <1>1, <1>2 DEF RouteTypeOK
<1>4. RouteIsTopK'
  BY <1>1 DEF RouteIsTopK, PicksDistinct, PicksBest, NoBetter
<1>5. ScanInv'
  <2>1. ASSUME best' = None, NEW e \in 0..i' - 1 PROVE e \in used
    <3>1. best = None /\ i \in used
      BY <1>1, <1>2, <2>1 DEF Beats
    <3>2. e \in 0..i - 1 \/ e = i
      BY <1>1, <1>2, <2>1
    <3> QED BY <3>1, <3>2 DEF ScanInv
  <2>2. ASSUME best' # None PROVE best' \notin used
    BY <1>1, <2>2 DEF ScanInv
  <2>3. ASSUME best' # None, \A e \in Expert : scores[e] # NaN,
               NEW e \in 0..i' - 1, e \notin used
        PROVE  NoBetter(e, best')
    <3>1. e \in 0..i - 1 \/ e = i
      BY <1>1, <1>2, <2>3
    <3>2. e \in Expert
      BY <1>2, <3>1 DEF Expert
    <3>3. \A d \in Expert : scores[d] \in Int /\ scores[d] # NaN
      BY <2>3 DEF RouteTypeOK
    <3>4. CASE best = None
      <4>1. e = i /\ best' = i
        BY <1>1, <2>3, <3>1, <3>4 DEF ScanInv
      <4> QED BY <1>2, <3>3, <4>1 DEF NoBetter
    <3>5. CASE best # None
      <4>1. best \in Expert /\ best \in Int
        BY <3>5 DEF RouteTypeOK
      <4>2. e \in 0..i - 1 => NoBetter(e, best) /\ e < i
        BY <2>3, <3>5, <1>2 DEF ScanInv
      <4>3. best < i
        BY <3>5, <4>1, <1>2 DEF ScanInv
      <4>4. best' = i => scores[i] > scores[best]
        <5> SUFFICES ASSUME best' = i PROVE scores[i] > scores[best]
          OBVIOUS
        <5>1. best # i
          BY <1>2, <4>1, <4>3
        <5>2. Beats(i)
          BY <1>1, <5>1
        <5> QED BY <3>5, <5>2 DEF Beats, Greater
      <4>5. best' = best /\ e = i => ~(scores[i] > scores[best])
        BY <1>1, <1>2, <2>3, <3>3, <3>5, <4>1, <4>3 DEF Beats, Greater
      <4>6. best' = i \/ best' = best
        BY <1>1
      <4>7. CASE e = i
        BY <1>2, <3>3, <4>1, <4>3, <4>5, <4>6, <4>7 DEF NoBetter
      <4>8. CASE e \in 0..i - 1
        BY <1>2, <3>2, <3>3, <4>1, <4>2, <4>4, <4>6, <4>8 DEF NoBetter
      <4> QED BY <3>1, <4>7, <4>8
    <3> QED BY <3>4, <3>5
  <2>4. (best' # None => best' < i')
    BY <1>1, <1>2 DEF ScanInv, RouteTypeOK
  <2> QED BY <1>1, <2>1, <2>2, <2>3, <2>4 DEF ScanInv, NoBetter
<1>6. QED
  BY <1>1, <1>3, <1>4, <1>5

\* A pass takes the best free expert, which its scan has found.
LEMMA TakePreserved ==
  ASSUME RouteIInv, Take
  PROVE  RouteIInv'
<1> USE RouteAssumption, ExpertType DEF RouteIInv
<1>1. /\ j < TopK /\ i = NumRouted
      /\ topk_idx' = [topk_idx EXCEPT ![j] = best]
      /\ used' = used \cup {best}
      /\ j' = j + 1 /\ i' = 0 /\ best' = None
      /\ UNCHANGED scores
  BY DEF Take
<1>2. j \in Nat /\ j \in 0..TopK - 1 /\ j < NumRouted
  BY <1>1 DEF RouteTypeOK
<1>3. best \in Expert /\ best \notin used
  <2>1. PICK e \in Expert : e \notin used
    BY <1>2, SomeExpertFree DEF RouteTypeOK
  <2>2. e \in 0..i - 1
    BY <1>1 DEF Expert
  <2>3. best # None
    BY <2>1, <2>2 DEF ScanInv
  <2> QED BY <2>3 DEF ScanInv, RouteTypeOK
<1>4. /\ topk_idx'[j] = best
      /\ \A p \in 0..j - 1 : topk_idx'[p] = topk_idx[p]
      /\ 0..j' - 1 = (0..j - 1) \cup {j}
  BY <1>1, <1>2 DEF RouteTypeOK
<1>5. RouteTypeOK'
  BY <1>1, <1>2, <1>3 DEF RouteTypeOK
<1>6. PicksDistinct'
  BY <1>1, <1>2, <1>3, <1>4 DEF RouteIsTopK, PicksDistinct
<1>7. PicksBest'
  <2> SUFFICES ASSUME \A e \in Expert : scores[e] # NaN,
                      NEW p \in 0..j' - 1, NEW e \in Expert,
                      \A q \in 0..p - 1 : topk_idx'[q] # e
               PROVE  NoBetter(e, topk_idx'[p])
    BY <1>1 DEF PicksBest, NoBetter
  <2>1. CASE p \in 0..j - 1
    <3>1. \A q \in 0..p - 1 : topk_idx[q] # e
      BY <1>2, <1>4, <2>1
    <3> QED BY <1>4, <2>1, <3>1 DEF RouteIsTopK, PicksBest
  <2>2. CASE p = j
    <3>1. e \notin used
      BY <1>4, <2>2
    <3>2. e \in 0..i - 1
      BY <1>1 DEF Expert
    <3>3. best # None
      BY <1>3
    <3> QED BY <1>4, <2>2, <3>1, <3>2, <3>3 DEF ScanInv
  <2> QED BY <1>4, <2>1, <2>2
<1>8. ScanInv'
  BY <1>1 DEF ScanInv
<1>9. used' = {topk_idx'[p] : p \in 0..j' - 1}
  BY <1>1, <1>4
<1>10. Cardinality(used') = j'
  <2>1. IsFiniteSet(used)
    <3>1. IsFiniteSet(Expert)
      BY FS_Interval DEF Expert
    <3> QED BY <3>1, FS_Subset DEF RouteTypeOK
  <2>2. Cardinality(used \cup {best}) = Cardinality(used) + 1
    BY <1>3, <2>1, FS_AddElement
  <2> QED BY <1>1, <2>2
<1>11. QED
  BY <1>5, <1>6, <1>7, <1>8, <1>9, <1>10 DEF RouteIsTopK

\* The invariant of the selection, for any number of experts and any scores.
THEOREM RouteInvariant == RouteSpec => []RouteIInv
<1>1. RouteInit => RouteIInv
  BY RouteInitInv
<1>2. RouteIInv /\ [RouteNext]_routeVars => RouteIInv'
  <2> SUFFICES ASSUME RouteIInv, [RouteNext]_routeVars PROVE RouteIInv'
    OBVIOUS
  <2>1. CASE Consider
    BY <2>1, ConsiderPreserved
  <2>2. CASE Take
    BY <2>2, TakePreserved
  <2>3. CASE UNCHANGED routeVars
    BY <2>3 DEF routeVars, RouteIInv, RouteTypeOK, RouteIsTopK, PicksDistinct,
                PicksBest, ScanInv, NoBetter
  <2> QED BY <2>1, <2>2, <2>3 DEF RouteNext, Routed
<1>3. QED
  BY <1>1, <1>2, PTL DEF RouteSpec

\* moe_route_select returns different experts, and (when no score is NaN) the best
\* ones in order of score, ties going to the lower number.
THEOREM RouteTopK == RouteSpec => []RouteIsTopK
<1>1. RouteIInv => RouteIsTopK
  BY DEF RouteIInv
<1>2. QED
  BY <1>1, RouteInvariant, PTL

-----------------------------------------------------------------------------
(* Rows of w floats, one after the other.                                  *)

\* An address is a row and a column in one way only.
LEMMA RowUnique ==
  ASSUME NEW w \in Nat, NEW r \in Int, NEW s \in Int,
         NEW c \in 0..w - 1, NEW d \in 0..w - 1, r * w + c = s * w + d
  PROVE  r = s /\ c = d
<1>1. ~(r < s)
  <2> SUFFICES ASSUME r < s PROVE FALSE
    OBVIOUS
  <2>1. (s - r - 1) * w >= 0
    OBVIOUS
  <2>2. (s - r - 1) * w = s * w - r * w - w
    OBVIOUS
  <2> QED BY <2>1, <2>2
<1>2. ~(s < r)
  <2> SUFFICES ASSUME s < r PROVE FALSE
    OBVIOUS
  <2>1. (r - s - 1) * w >= 0
    OBVIOUS
  <2>2. (r - s - 1) * w = r * w - s * w - w
    OBVIOUS
  <2> QED BY <2>1, <2>2
<1> QED BY <1>1, <1>2

\* n rows end where the next block begins.
LEMMA RowInside ==
  ASSUME NEW w \in Nat, NEW n \in Nat, NEW r \in 0..n - 1, NEW c \in 0..w - 1
  PROVE  r * w + c \in 0..n * w - 1
<1>1. r * w \in Nat
  OBVIOUS
<1>2. (n - r - 1) * w >= 0
  OBVIOUS
<1>3. (n - r - 1) * w = n * w - r * w - w
  OBVIOUS
<1> QED BY <1>1, <1>2, <1>3

\* Division takes an address apart again.
LEMMA DivMod ==
  ASSUME NEW w \in Nat, NEW r \in Nat, NEW c \in 0..w - 1
  PROVE  (r * w + c) \div w = r /\ (r * w + c) % w = c
<1>1. r * w \in Nat /\ w > 0
  OBVIOUS
<1>2. PICK a \in Int : a = (r * w + c) \div w
  BY <1>1
<1>3. PICK b \in 0..w - 1 : b = (r * w + c) % w
  BY <1>1
<1>4. a * w + b = r * w + c
  BY <1>1, <1>2, <1>3
<1> QED BY <1>2, <1>3, <1>4, RowUnique

-----------------------------------------------------------------------------
(* The blocks that real_fill_layer writes.                                 *)

Attn5 == {"wq", "wk", "wv", "wr", "wo"}
Seven == Attn5 \cup {"w13", "w2"}

\* A matrix has a number of rows, and of floats in each.
LEMMA Dims ==
  ASSUME NEW l
  PROVE  /\ QDim(l) \in Nat /\ KvDim(l) \in Nat /\ RDim(l) \in Nat
         /\ Inter(l) \in Nat /\ Stacks(l) \in Nat /\ Hidden \in Nat
         /\ \A m \in Attn5 \cup {"gate", "up", "w2"} :
              QTensor(l)[m][1] \in Nat /\ QTensor(l)[m][2] \in Nat /\ Size(l, m) \in Nat
         /\ QTensor(l).gate[1] = Inter(l) /\ QTensor(l).up[1] = Inter(l)
         /\ QTensor(l)["gate"][1] = Inter(l) /\ QTensor(l)["up"][1] = Inter(l)
         /\ QTensor(l).gate[2] = Hidden
         /\ QTensor(l)["gate"][2] = Hidden /\ QTensor(l)["up"][2] = Hidden
         /\ QTensor(l)["w2"][1] = Hidden /\ QTensor(l)["w2"][2] = Inter(l)
<1> USE LayerAssumption DEF LayerAssumption
<1>1. /\ QDim(l) \in Nat /\ KvDim(l) \in Nat /\ RDim(l) \in Nat
      /\ Inter(l) \in Nat /\ Stacks(l) \in Nat /\ Hidden \in Nat
  BY DEF QDim, KvDim, RDim, Inter, Stacks
<1>2. ASSUME NEW m \in Attn5 \cup {"gate", "up", "w2"}
      PROVE  QTensor(l)[m][1] \in Nat /\ QTensor(l)[m][2] \in Nat
  BY <1>1 DEF QTensor, Attn5
<1>3. ASSUME NEW a \in Nat, NEW b \in Nat PROVE a * b \in Nat
  OBVIOUS
<1> QED BY <1>1, <1>2, <1>3 DEF QTensor, Size

\* What the writes of a block have to be: inside it, and no address written with two
\* different floats.
WellPlaced(writes, floats) ==
  /\ \A w \in writes : w[1] \in 0..floats - 1
  /\ \A v, w \in writes : v[1] = w[1] => v[2] = w[2]

\* dequantize_row by dequantize_row, a matrix of rows.
LEMMA AllRowsAre ==
  ASSUME NEW l, NEW m \in Attn5
  PROVE  /\ \A r \in 0..QTensor(l)[m][1] - 1, c \in 0..QTensor(l)[m][2] - 1 :
              <<r * QTensor(l)[m][2] + c, Float(l, m, r, c)>> \in AllRows(l, m)
         /\ \A w \in AllRows(l, m) :
              \E r \in 0..QTensor(l)[m][1] - 1, c \in 0..QTensor(l)[m][2] - 1 :
                w = <<r * QTensor(l)[m][2] + c, Float(l, m, r, c)>>
BY DEF AllRows, RowAt

\* Each matrix of the attention half fills its block.
LEMMA AllRowsPlaced ==
  ASSUME NEW l, NEW m \in Attn5
  PROVE  WellPlaced(AllRows(l, m), Size(l, m))
<1> DEFINE R == QTensor(l)[m][1]
           C == QTensor(l)[m][2]
<1>1. R \in Nat /\ C \in Nat /\ Size(l, m) = R * C
  BY Dims DEF Size
<1>2. \A w \in AllRows(l, m) : \E r \in 0..R - 1, c \in 0..C - 1 :
        w = <<r * C + c, Float(l, m, r, c)>>
  BY AllRowsAre
<1> HIDE DEF R, C
<1>3. ASSUME NEW w \in AllRows(l, m) PROVE w[1] \in 0..Size(l, m) - 1
  <2>1. PICK r \in 0..R - 1, c \in 0..C - 1 : w = <<r * C + c, Float(l, m, r, c)>>
    BY <1>2
  <2>2. r * C + c \in 0..R * C - 1
    BY <1>1, RowInside
  <2> QED BY <1>1, <2>1, <2>2
<1>4. ASSUME NEW v \in AllRows(l, m), NEW w \in AllRows(l, m), v[1] = w[1]
      PROVE  v[2] = w[2]
  <2>1. PICK r \in 0..R - 1, c \in 0..C - 1 : v = <<r * C + c, Float(l, m, r, c)>>
    BY <1>2
  <2>2. PICK s \in 0..R - 1, d \in 0..C - 1 : w = <<s * C + d, Float(l, m, s, d)>>
    BY <1>2
  <2>3. r * C + c = s * C + d
    BY <1>4, <2>1, <2>2
  <2>4. r = s /\ c = d
    BY <1>1, <2>3, RowUnique
  <2> QED BY <2>1, <2>2, <2>4
<1> QED BY <1>3, <1>4 DEF WellPlaced

\* Stack s's row r is row s * n + r of the block, and of the tensor.
LEMMA StackedAre ==
  ASSUME NEW l
  PROVE  /\ \A s \in 0..Stacks(l) - 1, r \in 0..Hidden - 1, c \in 0..Inter(l) - 1 :
              <<(s * Hidden + r) * Inter(l) + c, Float(l, "w2", s * Hidden + r, c)>>
                \in Stacked(l, "w2")
         /\ \A w \in Stacked(l, "w2") :
              \E s \in 0..Stacks(l) - 1, r \in 0..Hidden - 1, c \in 0..Inter(l) - 1 :
                w = <<(s * Hidden + r) * Inter(l) + c, Float(l, "w2", s * Hidden + r, c)>>
<1>1. ASSUME NEW a, NEW rw
      PROVE  RowAt(a, l, "w2", rw) = {<<a + c, Float(l, "w2", rw, c)>> : c \in 0..Inter(l) - 1}
  BY Dims DEF RowAt
<1>2. QTensor(l)["w2"][1] = Hidden /\ QTensor(l)["w2"][2] = Inter(l)
  BY Dims
<1>3. ASSUME NEW w
      PROVE  w \in Stacked(l, "w2") <=>
               \E s \in 0..Stacks(l) - 1, r \in 0..Hidden - 1 :
                 w \in RowAt((s * Hidden + r) * Inter(l), l, "w2", s * Hidden + r)
  BY <1>2 DEF Stacked, Stride
<1>4. ASSUME NEW s \in 0..Stacks(l) - 1, NEW r \in 0..Hidden - 1, NEW c \in 0..Inter(l) - 1
      PROVE  <<(s * Hidden + r) * Inter(l) + c, Float(l, "w2", s * Hidden + r, c)>>
               \in Stacked(l, "w2")
  BY <1>1, <1>3
<1>5. ASSUME NEW w \in Stacked(l, "w2")
      PROVE  \E s \in 0..Stacks(l) - 1, r \in 0..Hidden - 1, c \in 0..Inter(l) - 1 :
               w = <<(s * Hidden + r) * Inter(l) + c, Float(l, "w2", s * Hidden + r, c)>>
  <2>1. PICK s \in 0..Stacks(l) - 1, r \in 0..Hidden - 1 :
          w \in RowAt((s * Hidden + r) * Inter(l), l, "w2", s * Hidden + r)
    BY <1>3
  <2> QED BY <1>1, <2>1
<1> QED BY <1>4, <1>5

\* The down projections fill their block.
LEMMA StackedPlaced ==
  ASSUME NEW l
  PROVE  WellPlaced(Stacked(l, "w2"), Stacks(l) * Size(l, "w2"))
<1> DEFINE S == Stacks(l)
           C == Inter(l)
<1>1. S \in Nat /\ C \in Nat /\ Hidden \in Nat /\ Size(l, "w2") = Hidden * C
  BY Dims DEF Size
<1>2. \A w \in Stacked(l, "w2") :
        \E s \in 0..S - 1, r \in 0..Hidden - 1, c \in 0..C - 1 :
          w = <<(s * Hidden + r) * C + c, Float(l, "w2", s * Hidden + r, c)>>
  BY StackedAre
<1> HIDE DEF S, C
<1>3. S * Hidden \in Nat /\ S * Size(l, "w2") = (S * Hidden) * C
  BY <1>1
<1>4. ASSUME NEW w \in Stacked(l, "w2")
      PROVE  \E q \in 0..S * Hidden - 1, c \in 0..C - 1 :
               w = <<q * C + c, Float(l, "w2", q, c)>>
  <2>1. PICK s \in 0..S - 1, r \in 0..Hidden - 1, c \in 0..C - 1 :
          w = <<(s * Hidden + r) * C + c, Float(l, "w2", s * Hidden + r, c)>>
    BY <1>2
  <2>2. s * Hidden + r \in 0..S * Hidden - 1
    BY <1>1, RowInside
  <2> QED BY <2>1, <2>2
<1>5. ASSUME NEW w \in Stacked(l, "w2") PROVE w[1] \in 0..S * Size(l, "w2") - 1
  <2>1. PICK q \in 0..S * Hidden - 1, c \in 0..C - 1 : w = <<q * C + c, Float(l, "w2", q, c)>>
    BY <1>4
  <2>2. q * C + c \in 0..(S * Hidden) * C - 1
    BY <1>1, <1>3, RowInside
  <2> QED BY <1>3, <2>1, <2>2
<1>6. ASSUME NEW v \in Stacked(l, "w2"), NEW w \in Stacked(l, "w2"), v[1] = w[1]
      PROVE  v[2] = w[2]
  <2>1. PICK q \in 0..S * Hidden - 1, c \in 0..C - 1 : v = <<q * C + c, Float(l, "w2", q, c)>>
    BY <1>4
  <2>2. PICK p \in 0..S * Hidden - 1, d \in 0..C - 1 : w = <<p * C + d, Float(l, "w2", p, d)>>
    BY <1>4
  <2>3. q * C + c = p * C + d
    BY <1>6, <2>1, <2>2
  <2>4. q = p /\ c = d
    BY <1>1, <1>3, <2>3, RowUnique
  <2> QED BY <2>1, <2>2, <2>4
<1> QED BY <1>5, <1>6 DEF WellPlaced, S

\* Gate row k is row 2k of the block and up row k the one after it, stack after stack.
LEMMA InterleavedAre ==
  ASSUME NEW l
  PROVE  /\ \A s \in 0..Stacks(l) - 1, r \in 0..Inter(l) - 1, c \in 0..Hidden - 1 :
              /\ <<(s * 2 * Inter(l) + 2 * r) * Hidden + c,
                   Float(l, "gate", s * Inter(l) + r, c)>> \in Interleaved(l)
              /\ <<(s * 2 * Inter(l) + (2 * r + 1)) * Hidden + c,
                   Float(l, "up", s * Inter(l) + r, c)>> \in Interleaved(l)
         /\ \A w \in Interleaved(l) :
              \E s \in 0..Stacks(l) - 1, r \in 0..Inter(l) - 1, c \in 0..Hidden - 1 :
                \/ w = <<(s * 2 * Inter(l) + 2 * r) * Hidden + c,
                         Float(l, "gate", s * Inter(l) + r, c)>>
                \/ w = <<(s * 2 * Inter(l) + (2 * r + 1)) * Hidden + c,
                         Float(l, "up", s * Inter(l) + r, c)>>
<1>1. ASSUME NEW a, NEW rw, NEW m \in {"gate", "up"}
      PROVE  RowAt(a, l, m, rw) = {<<a + c, Float(l, m, rw, c)>> : c \in 0..Hidden - 1}
  BY <1>1, Dims DEF RowAt
<1>2. /\ QTensor(l).gate[1] = Inter(l) /\ QTensor(l).gate[2] = Hidden
      /\ QTensor(l)["gate"][1] = Inter(l) /\ QTensor(l)["up"][1] = Inter(l)
  BY Dims
<1>3. ASSUME NEW w
      PROVE  w \in Interleaved(l) <=>
               \E s \in 0..Stacks(l) - 1, r \in 0..Inter(l) - 1 :
                 \/ w \in RowAt((s * 2 * Inter(l) + 2 * r) * Hidden, l, "gate", s * Inter(l) + r)
                 \/ w \in RowAt((s * 2 * Inter(l) + (2 * r + 1)) * Hidden, l, "up", s * Inter(l) + r)
  <2> DEFINE n == QTensor(l).gate[1]
             h == QTensor(l).gate[2]
             Pair(s, r) == RowAt((s * 2 * n + 2 * r) * h, l, "gate", s * Stride(l, "gate") + r)
                             \cup RowAt((s * 2 * n + (2 * r + 1)) * h, l, "up",
                                       s * Stride(l, "up") + r)
  <2>1. Interleaved(l) = UNION {Pair(s, r) : s \in 0..Stacks(l) - 1, r \in 0..n - 1}
    BY DEF Interleaved
  <2>2. \A s, r : Pair(s, r) =
          RowAt((s * 2 * Inter(l) + 2 * r) * Hidden, l, "gate", s * Inter(l) + r)
            \cup RowAt((s * 2 * Inter(l) + (2 * r + 1)) * Hidden, l, "up", s * Inter(l) + r)
    BY <1>2, Zenon DEF Stride
  <2>3. n = Inter(l)
    BY <1>2
  <2> HIDE DEF n, Pair
  <2> QED BY <2>1, <2>2, <2>3
<1>4. ASSUME NEW s \in 0..Stacks(l) - 1, NEW r \in 0..Inter(l) - 1, NEW c \in 0..Hidden - 1
      PROVE  /\ <<(s * 2 * Inter(l) + 2 * r) * Hidden + c,
                  Float(l, "gate", s * Inter(l) + r, c)>> \in Interleaved(l)
             /\ <<(s * 2 * Inter(l) + (2 * r + 1)) * Hidden + c,
                  Float(l, "up", s * Inter(l) + r, c)>> \in Interleaved(l)
  BY <1>1, <1>3
<1>5. ASSUME NEW w \in Interleaved(l)
      PROVE  \E s \in 0..Stacks(l) - 1, r \in 0..Inter(l) - 1, c \in 0..Hidden - 1 :
               \/ w = <<(s * 2 * Inter(l) + 2 * r) * Hidden + c,
                        Float(l, "gate", s * Inter(l) + r, c)>>
               \/ w = <<(s * 2 * Inter(l) + (2 * r + 1)) * Hidden + c,
                        Float(l, "up", s * Inter(l) + r, c)>>
  <2>1. PICK s \in 0..Stacks(l) - 1, r \in 0..Inter(l) - 1 :
          \/ w \in RowAt((s * 2 * Inter(l) + 2 * r) * Hidden, l, "gate", s * Inter(l) + r)
          \/ w \in RowAt((s * 2 * Inter(l) + (2 * r + 1)) * Hidden, l, "up", s * Inter(l) + r)
    BY <1>3
  <2> QED BY <1>1, <2>1
<1> QED BY <1>4, <1>5

\* The gate and up projections fill their block.
LEMMA InterleavedPlaced ==
  ASSUME NEW l
  PROVE  WellPlaced(Interleaved(l), Stacks(l) * 2 * Size(l, "gate"))
<1> DEFINE S == Stacks(l)
           N == Inter(l)
<1>1. S \in Nat /\ N \in Nat /\ Hidden \in Nat /\ Size(l, "gate") = N * Hidden
  BY Dims DEF Size
<1>2. \A w \in Interleaved(l) :
        \E s \in 0..S - 1, r \in 0..N - 1, c \in 0..Hidden - 1 :
          \/ w = <<(s * 2 * N + 2 * r) * Hidden + c, Float(l, "gate", s * N + r, c)>>
          \/ w = <<(s * 2 * N + (2 * r + 1)) * Hidden + c, Float(l, "up", s * N + r, c)>>
  BY InterleavedAre
<1> HIDE DEF S, N
<1>3. S * N \in Nat /\ 2 * (S * N) \in Nat /\ S * 2 * Size(l, "gate") = (2 * (S * N)) * Hidden
  BY <1>1
<1>4. ASSUME NEW w \in Interleaved(l)
      PROVE  \E k \in 0..S * N - 1, c \in 0..Hidden - 1 :
               \/ w = <<(2 * k) * Hidden + c, Float(l, "gate", k, c)>>
               \/ w = <<(2 * k + 1) * Hidden + c, Float(l, "up", k, c)>>
  <2>1. PICK s \in 0..S - 1, r \in 0..N - 1, c \in 0..Hidden - 1 :
          \/ w = <<(s * 2 * N + 2 * r) * Hidden + c, Float(l, "gate", s * N + r, c)>>
          \/ w = <<(s * 2 * N + (2 * r + 1)) * Hidden + c, Float(l, "up", s * N + r, c)>>
    BY <1>2
  <2>2. s * N + r \in 0..S * N - 1
    BY <1>1, RowInside
  <2>3. s * 2 * N + 2 * r = 2 * (s * N + r) /\ s * 2 * N + (2 * r + 1) = 2 * (s * N + r) + 1
    BY <1>1
  <2> QED BY <2>1, <2>2, <2>3
<1>5. ASSUME NEW w \in Interleaved(l) PROVE w[1] \in 0..S * 2 * Size(l, "gate") - 1
  <2>1. PICK k \in 0..S * N - 1, c \in 0..Hidden - 1 :
          \/ w = <<(2 * k) * Hidden + c, Float(l, "gate", k, c)>>
          \/ w = <<(2 * k + 1) * Hidden + c, Float(l, "up", k, c)>>
    BY <1>4
  <2>2. 2 * k \in 0..2 * (S * N) - 1 /\ 2 * k + 1 \in 0..2 * (S * N) - 1
    BY <1>3
  <2>3. /\ (2 * k) * Hidden + c \in 0..(2 * (S * N)) * Hidden - 1
        /\ (2 * k + 1) * Hidden + c \in 0..(2 * (S * N)) * Hidden - 1
    BY <1>1, <1>3, <2>2, RowInside
  <2> QED BY <1>3, <2>1, <2>3
<1>6. ASSUME NEW v \in Interleaved(l), NEW w \in Interleaved(l), v[1] = w[1]
      PROVE  v[2] = w[2]
  <2>1. PICK k \in 0..S * N - 1, c \in 0..Hidden - 1 :
          \/ v = <<(2 * k) * Hidden + c, Float(l, "gate", k, c)>>
          \/ v = <<(2 * k + 1) * Hidden + c, Float(l, "up", k, c)>>
    BY <1>4
  <2>2. PICK p \in 0..S * N - 1, d \in 0..Hidden - 1 :
          \/ w = <<(2 * p) * Hidden + d, Float(l, "gate", p, d)>>
          \/ w = <<(2 * p + 1) * Hidden + d, Float(l, "up", p, d)>>
    BY <1>4
  <2>3. k \in Int /\ p \in Int /\ 2 * k # 2 * p + 1 /\ 2 * k + 1 # 2 * p
    BY <1>3
  <2>4. /\ (2 * k) * Hidden + c = (2 * p) * Hidden + d => 2 * k = 2 * p /\ c = d
        /\ (2 * k + 1) * Hidden + c = (2 * p + 1) * Hidden + d => 2 * k + 1 = 2 * p + 1 /\ c = d
        /\ (2 * k) * Hidden + c # (2 * p + 1) * Hidden + d
        /\ (2 * k + 1) * Hidden + c # (2 * p) * Hidden + d
    BY <1>1, <2>3, RowUnique
  <2>5. CASE v = <<(2 * k) * Hidden + c, Float(l, "gate", k, c)>>
    <3>1. w = <<(2 * p) * Hidden + d, Float(l, "gate", p, d)>>
      BY <1>6, <2>2, <2>4, <2>5
    <3>2. k = p /\ c = d
      BY <1>6, <2>3, <2>4, <2>5, <3>1
    <3> QED BY <2>5, <3>1, <3>2
  <2>6. CASE v = <<(2 * k + 1) * Hidden + c, Float(l, "up", k, c)>>
    <3>1. w = <<(2 * p + 1) * Hidden + d, Float(l, "up", p, d)>>
      BY <1>6, <2>2, <2>4, <2>6
    <3>2. k = p /\ c = d
      BY <1>6, <2>3, <2>4, <2>6, <3>1
    <3> QED BY <2>6, <3>1, <3>2
  <2> QED BY <2>1, <2>5, <2>6
<1> QED BY <1>5, <1>6 DEF WellPlaced, S
-----------------------------------------------------------------------------
(* What the forward pass finds.                                            *)

\* The block of a field in the arena: its writes, its size and where it starts.
Block(l, f) ==
  CASE f \in Attn5 -> AllRows(l, f)
    [] f = "w13" -> Interleaved(l)
    [] f = "w2" -> Stacked(l, "w2")

Floats(l, f) ==
  CASE f \in Attn5 -> Size(l, f)
    [] f = "w13" -> Stacks(l) * 2 * Size(l, "gate")
    [] f = "w2" -> Stacks(l) * Size(l, "w2")

\* The blocks filled before each phase.
FilledBy(p) ==
  CASE p = "wq" -> {}
    [] p = "wk" -> {"wq"}
    [] p = "wv" -> {"wq", "wk"}
    [] p = "wr" -> {"wq", "wk", "wv"}
    [] p = "wo" -> {"wq", "wk", "wv", "wr"}
    [] p = "w13" -> Attn5
    [] p = "w2" -> Attn5 \cup {"w13"}
    [] OTHER -> Seven

Start(l, p) ==
  CASE p = "wq" -> 0
    [] p = "wk" -> Floats(l, "wq")
    [] p = "wv" -> Floats(l, "wq") + Floats(l, "wk")
    [] p = "wr" -> Floats(l, "wq") + Floats(l, "wk") + Floats(l, "wv")
    [] p = "wo" -> Floats(l, "wq") + Floats(l, "wk") + Floats(l, "wv") + Floats(l, "wr")
    [] p = "w13" -> Floats(l, "wq") + Floats(l, "wk") + Floats(l, "wv") + Floats(l, "wr")
                      + Floats(l, "wo")
    [] p = "w2" -> Floats(l, "wq") + Floats(l, "wk") + Floats(l, "wv") + Floats(l, "wr")
                      + Floats(l, "wo") + Floats(l, "w13")
    [] OTHER -> Floats(l, "wq") + Floats(l, "wk") + Floats(l, "wv") + Floats(l, "wr")
                      + Floats(l, "wo") + Floats(l, "w13") + Floats(l, "w2")

\* The field points at its block, and the block is in the arena.
Filled(f) ==
  /\ lw[f] = <<"arena", Start(layer, f)>>
  /\ \A w \in Block(layer, f) :
       /\ Start(layer, f) + w[1] \in DOMAIN arena
       /\ arena[Start(layer, f) + w[1]] = w[2]

RowsPlaced ==
  IF streamed THEN \A f \in Seven : Filled(f) ELSE lw = OracleLayer(layer)

\* Every float of a matrix, of the gate and up rows of `blocks` stacks, and of their
\* down rows, is where index arithmetic puts it.
FieldRight(f) ==
  \A r \in 0..QTensor(layer)[f][1] - 1, c \in 0..QTensor(layer)[f][2] - 1 :
    At(f, r * QTensor(layer)[f][2] + c) = Float(layer, f, r, c)

GateUpRight(f, blocks) ==
  \A s \in 0..blocks - 1, r \in 0..Inter(layer) - 1, c \in 0..Hidden - 1 :
    /\ At(f, (s * 2 * Inter(layer) + 2 * r) * Hidden + c)
         = Float(layer, "gate", s * Inter(layer) + r, c)
    /\ At(f, (s * 2 * Inter(layer) + (2 * r + 1)) * Hidden + c)
         = Float(layer, "up", s * Inter(layer) + r, c)

DownRight(f, m, blocks) ==
  \A s \in 0..blocks - 1, d \in 0..Hidden - 1, c \in 0..Inter(layer) - 1 :
    At(f, (s * Hidden + d) * Inter(layer) + c) = Float(layer, m, s * Hidden + d, c)

\* linear finds its matrix.
LEMMA FieldMatrix ==
  ASSUME NEW f, FieldRight(f)
  PROVE  MatrixRight(f)
<1> DEFINE C == QTensor(layer)[f][2]
<1> SUFFICES ASSUME NEW o \in 0..QTensor(layer)[f][1] - 1
             PROVE  [c \in 0..C - 1 |-> At(f, o * C + c)]
                      = [c \in 0..C - 1 |-> Float(layer, f, o, c)]
  BY DEF MatrixRight, Row, IsRow
<1>1. \A c \in 0..C - 1 : At(f, o * C + c) = Float(layer, f, o, c)
  BY DEF FieldRight
<1> HIDE DEF C
<1> QED BY <1>1, Zenon

\* The FFN of a block finds its gate, up and down rows.
LEMMA FieldsFfn ==
  ASSUME NEW w13, NEW w2, NEW down, NEW blocks \in Int, NEW s \in 0..blocks - 1,
         GateUpRight(w13, blocks), DownRight(w2, down, blocks)
  PROVE  GatedFfn(w13, w2, down, s)
<1> DEFINE n == Inter(layer)
<1>1. n \in Nat /\ Hidden \in Nat /\ s \in Nat
  BY Dims
<1>2. ASSUME NEW r \in 0..n - 1
      PROVE  /\ w13_row(w13, s, 2 * n, FALSE, r) = IsRow("gate", s * n + r, Hidden)
             /\ w13_row(w13, s, 2 * n, TRUE, r) = IsRow("up", s * n + r, Hidden)
  <2>1. \A c \in 0..Hidden - 1 :
          /\ At(w13, (s * 2 * n + 2 * r) * Hidden + c) = Float(layer, "gate", s * n + r, c)
          /\ At(w13, (s * 2 * n + (2 * r + 1)) * Hidden + c) = Float(layer, "up", s * n + r, c)
    BY DEF GateUpRight
  <2>2. s * (2 * n) + (2 * r + 0) = s * 2 * n + 2 * r
        /\ s * (2 * n) + (2 * r + 1) = s * 2 * n + (2 * r + 1)
    BY <1>1
  <2>3. /\ w13_row(w13, s, 2 * n, FALSE, r)
             = [c \in 0..Hidden - 1 |-> At(w13, (s * (2 * n) + (2 * r + 0)) * Hidden + c)]
        /\ w13_row(w13, s, 2 * n, TRUE, r)
             = [c \in 0..Hidden - 1 |-> At(w13, (s * (2 * n) + (2 * r + 1)) * Hidden + c)]
    BY Zenon DEF w13_row, Row
  <2> HIDE DEF n
  <2> QED BY <2>1, <2>2, <2>3, Zenon DEF IsRow
<1>3. ASSUME NEW d \in 0..Hidden - 1
      PROVE  Row(w2, s * Hidden + d, n) = IsRow(down, s * Hidden + d, n)
  <2>1. \A c \in 0..n - 1 :
          At(w2, (s * Hidden + d) * n + c) = Float(layer, down, s * Hidden + d, c)
    BY DEF DownRight
  <2> HIDE DEF n
  <2> QED BY <2>1, Zenon DEF Row, IsRow
<1> QED BY <1>2, <1>3, Zenon DEF GatedFfn

\* A field of the arena reads what its block was written with.
LEMMA ReadArena ==
  ASSUME NEW f, Filled(f), NEW w \in Block(layer, f)
  PROVE  At(f, w[1]) = w[2]
BY DEF Filled, At

\* In real mode every matrix of a filled layer is found.
LEMMA ArenaRight ==
  ASSUME \A f \in Seven : Filled(f)
  PROVE  /\ \A f \in Attn5 : FieldRight(f)
         /\ GateUpRight("w13", Stacks(layer)) /\ DownRight("w2", "w2", Stacks(layer))
<1>1. ASSUME NEW f \in Attn5 PROVE FieldRight(f)
  <2>1. Filled(f) /\ Block(layer, f) = AllRows(layer, f)
    <3>1. f \in Seven
      BY DEF Seven
    <3>2. f # "w13" /\ f # "w2"
      BY DEF Attn5
    <3> QED BY <3>1, <3>2, Zenon DEF Block
  <2> SUFFICES ASSUME NEW r \in 0..QTensor(layer)[f][1] - 1,
                      NEW c \in 0..QTensor(layer)[f][2] - 1
               PROVE  At(f, r * QTensor(layer)[f][2] + c) = Float(layer, f, r, c)
    BY DEF FieldRight
  <2>2. <<r * QTensor(layer)[f][2] + c, Float(layer, f, r, c)>> \in Block(layer, f)
    BY <2>1, AllRowsAre
  <2>3. At(f, <<r * QTensor(layer)[f][2] + c, Float(layer, f, r, c)>>[1])
          = <<r * QTensor(layer)[f][2] + c, Float(layer, f, r, c)>>[2]
    BY <2>1, <2>2, ReadArena
  <2> QED BY <2>3
<1>2. GateUpRight("w13", Stacks(layer))
  <2>1. Filled("w13") /\ Block(layer, "w13") = Interleaved(layer)
    BY DEF Seven, Block, Attn5
  <2> SUFFICES ASSUME NEW s \in 0..Stacks(layer) - 1, NEW r \in 0..Inter(layer) - 1,
                      NEW c \in 0..Hidden - 1
               PROVE  /\ At("w13", (s * 2 * Inter(layer) + 2 * r) * Hidden + c)
                           = Float(layer, "gate", s * Inter(layer) + r, c)
                      /\ At("w13", (s * 2 * Inter(layer) + (2 * r + 1)) * Hidden + c)
                           = Float(layer, "up", s * Inter(layer) + r, c)
    BY DEF GateUpRight
  <2> DEFINE g == <<(s * 2 * Inter(layer) + 2 * r) * Hidden + c,
                    Float(layer, "gate", s * Inter(layer) + r, c)>>
             u == <<(s * 2 * Inter(layer) + (2 * r + 1)) * Hidden + c,
                    Float(layer, "up", s * Inter(layer) + r, c)>>
  <2>2. g \in Block(layer, "w13") /\ u \in Block(layer, "w13")
    BY <2>1, InterleavedAre
  <2>3. At("w13", g[1]) = g[2] /\ At("w13", u[1]) = u[2]
    BY <2>1, <2>2, ReadArena
  <2> QED BY <2>3
<1>3. DownRight("w2", "w2", Stacks(layer))
  <2>1. Filled("w2") /\ Block(layer, "w2") = Stacked(layer, "w2")
    BY DEF Seven, Block, Attn5
  <2> SUFFICES ASSUME NEW s \in 0..Stacks(layer) - 1, NEW d \in 0..Hidden - 1,
                      NEW c \in 0..Inter(layer) - 1
               PROVE  At("w2", (s * Hidden + d) * Inter(layer) + c)
                        = Float(layer, "w2", s * Hidden + d, c)
    BY DEF DownRight
  <2> DEFINE g == <<(s * Hidden + d) * Inter(layer) + c,
                    Float(layer, "w2", s * Hidden + d, c)>>
  <2>2. g \in Block(layer, "w2")
    BY <2>1, StackedAre
  <2>3. At("w2", g[1]) = g[2]
    BY <2>1, <2>2, ReadArena
  <2> QED BY <2>3
<1> QED BY <1>1, <1>2, <1>3

\* In oracle mode a field is the tensor of its name, and the tensor is interleaved and
\* stacked as the arena would be.
LEMMA OracleRight ==
  ASSUME lw = OracleLayer(layer)
  PROVE  /\ \A f \in Attn5 : FieldRight(f)
         /\ GateUpRight("w13", Stacks(layer)) /\ DownRight("w2", "w2", Stacks(layer))
         /\ layer \in Sparse => \A blocks \in Nat :
              /\ GateUpRight("experts_w13", blocks)
              /\ DownRight("experts_w2", "experts_w2", blocks)
<1>1. ASSUME NEW f \in Fields, f \in {"experts_w13", "experts_w2"} => layer \in Sparse,
             NEW o \in Int
      PROVE  At(f, o) = OnDisk(layer, f, o)
  <2>1. lw[f] = <<f, 0>>
    BY <1>1 DEF OracleLayer
  <2>2. f # "null" /\ f # "arena" /\ 0 + o = o
    BY DEF Fields
  <2>3. lw[f][1] = f /\ lw[f][2] + o = o
    BY <2>1, <2>2
  <2> QED BY <2>2, <2>3, Zenon DEF At
<1>2. ASSUME NEW f \in Attn5 PROVE FieldRight(f)
  <2> DEFINE C == QTensor(layer)[f][2]
  <2> SUFFICES ASSUME NEW r \in 0..QTensor(layer)[f][1] - 1, NEW c \in 0..C - 1
               PROVE  At(f, r * C + c) = Float(layer, f, r, c)
    BY DEF FieldRight
  <2>1. C \in Nat /\ r \in Nat /\ r * C + c \in Int
    BY Dims
  <2>2. C = IF f = "wo" THEN QDim(layer) ELSE Hidden
    BY DEF QTensor, Attn5
  <2>3. f \in Fields \ {"experts_w13", "experts_w2", "w13", "w2"}
    BY DEF Attn5, Fields
  <2>4. OnDisk(layer, f, r * C + c) = Float(layer, f, (r * C + c) \div C, (r * C + c) % C)
    BY <2>2, <2>3 DEF OnDisk
  <2> HIDE DEF C
  <2>5. (r * C + c) \div C = r /\ (r * C + c) % C = c
    BY <2>1, DivMod
  <2> QED BY <1>1, <2>1, <2>3, <2>4, <2>5
<1>3. ASSUME NEW f \in {"w13", "experts_w13"}, f = "experts_w13" => layer \in Sparse,
             NEW blocks \in Nat
      PROVE  GateUpRight(f, blocks)
  <2> DEFINE n == Inter(layer)
  <2> SUFFICES ASSUME NEW s \in 0..blocks - 1, NEW r \in 0..n - 1, NEW c \in 0..Hidden - 1,
                      NEW b \in {0, 1}
               PROVE  At(f, (s * 2 * n + (2 * r + b)) * Hidden + c)
                        = Float(layer, IF b = 0 THEN "gate" ELSE "up", s * n + r, c)
    <3>1. \A s \in 0..blocks - 1, r \in 0..n - 1, c \in 0..Hidden - 1, b \in {0, 1} :
            At(f, (s * 2 * n + (2 * r + b)) * Hidden + c)
              = Float(layer, IF b = 0 THEN "gate" ELSE "up", s * n + r, c)
      OBVIOUS
    <3>2. \A r \in 0..n - 1 : 2 * r + 0 = 2 * r
      OBVIOUS
    <3>3. ASSUME NEW s \in 0..blocks - 1, NEW r \in 0..n - 1, NEW c \in 0..Hidden - 1
          PROVE  /\ At(f, (s * 2 * n + 2 * r) * Hidden + c) = Float(layer, "gate", s * n + r, c)
                 /\ At(f, (s * 2 * n + (2 * r + 1)) * Hidden + c)
                      = Float(layer, "up", s * n + r, c)
      <4>1. /\ At(f, (s * 2 * n + (2 * r + 0)) * Hidden + c)
                 = Float(layer, IF 0 = 0 THEN "gate" ELSE "up", s * n + r, c)
            /\ At(f, (s * 2 * n + (2 * r + 1)) * Hidden + c)
                 = Float(layer, IF 1 = 0 THEN "gate" ELSE "up", s * n + r, c)
        BY <3>1
      <4> HIDE DEF n
      <4> QED BY <3>2, <4>1
    <3> QED BY <3>3 DEF GateUpRight
  <2>1. n \in Nat /\ Hidden \in Nat /\ s \in Nat /\ r \in Nat /\ 2 * n \in Nat
    BY Dims
  <2> HIDE DEF n
  <2> DEFINE c2 == 2 * r + b
             rw == s * (2 * n) + c2
  <2>2. c2 \in 0..2 * n - 1 /\ rw \in Nat /\ s * 2 * n + (2 * r + b) = rw
    <3>1. c2 \in 0..2 * n - 1
      BY <2>1
    <3>2. s * (2 * n) \in Nat /\ s * 2 * n = s * (2 * n)
      BY <2>1
    <3> QED BY <3>1, <3>2
  <2>3. c2 % 2 = b /\ c2 \div 2 = r
    <3>1. c2 = r * 2 + b /\ b \in 0..2 - 1
      OBVIOUS
    <3> QED BY <2>1, <3>1, DivMod
  <2> HIDE DEF c2
  <2>4. rw \div (2 * n) = s /\ rw % (2 * n) = c2
    BY <2>1, <2>2, DivMod
  <2> HIDE DEF rw
  <2>5. (rw * Hidden + c) \div Hidden = rw /\ (rw * Hidden + c) % Hidden = c
    BY <2>1, <2>2, DivMod
  <2>6. rw * Hidden + c \in Int
    BY <2>1, <2>2
  <2>7. OnDisk(layer, f, rw * Hidden + c)
          = Float(layer, IF c2 % 2 = 0 THEN "gate" ELSE "up", s * n + c2 \div 2, c)
    BY <2>4, <2>5, Zenon DEF OnDisk, n
  <2>8. f \in Fields /\ (f \in {"experts_w13", "experts_w2"} => layer \in Sparse)
    BY <1>3 DEF Fields
  <2> QED BY <1>1, <2>2, <2>3, <2>6, <2>7, <2>8
<1>4. ASSUME NEW f \in {"w2", "experts_w2"}, f = "experts_w2" => layer \in Sparse,
             NEW blocks \in Nat
      PROVE  DownRight(f, f, blocks)
  <2> DEFINE n == Inter(layer)
  <2> SUFFICES ASSUME NEW s \in 0..blocks - 1, NEW d \in 0..Hidden - 1, NEW c \in 0..n - 1
               PROVE  At(f, (s * Hidden + d) * n + c) = Float(layer, f, s * Hidden + d, c)
    BY DEF DownRight
  <2>1. n \in Nat /\ Hidden \in Nat /\ s \in Nat /\ d \in Nat
    BY Dims
  <2>2. f \in Fields /\ (f \in {"experts_w13", "experts_w2"} => layer \in Sparse)
    BY <1>4 DEF Fields
  <2> DEFINE rw == s * Hidden + d
  <2>3. rw \in Nat
    BY <2>1
  <2>4. \A o : OnDisk(layer, f, o) = Float(layer, f, o \div n, o % n)
    BY DEF OnDisk
  <2> HIDE DEF n, rw
  <2>5. (rw * n + c) \div n = rw /\ (rw * n + c) % n = c
    BY <2>1, <2>3, DivMod
  <2>6. rw * n + c \in Int
    BY <2>1, <2>3
  <2> QED BY <1>1, <2>2, <2>4, <2>5, <2>6 DEF rw
<1>5. Stacks(layer) \in Nat
  BY Dims
<1> QED BY <1>2, <1>3, <1>4, <1>5

\* Whichever mode: the matrices of the layer in hand are found.
LEMMA RowsFound ==
  ASSUME RowsPlaced
  PROVE  /\ \A f \in Attn5 : MatrixRight(f)
         /\ \A s \in 0..Stacks(layer) - 1 : GatedFfn("w13", "w2", "w2", s)
<1>1. /\ \A f \in Attn5 : FieldRight(f)
      /\ GateUpRight("w13", Stacks(layer)) /\ DownRight("w2", "w2", Stacks(layer))
  BY ArenaRight, OracleRight DEF RowsPlaced
<1>2. Stacks(layer) \in Int
  BY Dims
<1> QED BY <1>1, <1>2, FieldMatrix, FieldsFfn

\* In oracle mode so are those of any routed expert.
LEMMA ExpertFound ==
  ASSUME RowsPlaced, ~streamed, layer \in Sparse, NEW e \in Nat
  PROVE  GatedFfn("experts_w13", "experts_w2", "experts_w2", e)
<1>1. e + 1 \in Nat /\ e \in 0..(e + 1) - 1
  OBVIOUS
<1>2. GateUpRight("experts_w13", e + 1) /\ DownRight("experts_w2", "experts_w2", e + 1)
  BY <1>1, OracleRight DEF RowsPlaced
<1> QED BY <1>1, <1>2, FieldsFfn
-----------------------------------------------------------------------------
(* The blocks follow each other in the arena.                              *)

NextOf(f) ==
  CASE f = "wq" -> "wk" [] f = "wk" -> "wv" [] f = "wv" -> "wr" [] f = "wr" -> "wo"
    [] f = "wo" -> "w13" [] f = "w13" -> "w2" [] f = "w2" -> "bind"

\* Sizes are natural numbers, and a layer's size is the sum of its seven blocks.
LEMMA FloatsType ==
  ASSUME NEW l
  PROVE  /\ \A f \in Seven : Floats(l, f) \in Nat
         /\ LayerFloats(l) = Floats(l, "wq") + Floats(l, "wk") + Floats(l, "wv")
                               + Floats(l, "wr") + Floats(l, "wo") + Floats(l, "w13")
                               + Floats(l, "w2")
<1>1. /\ Stacks(l) \in Nat /\ Size(l, "gate") \in Nat /\ Size(l, "w2") \in Nat
      /\ \A f \in Attn5 : Size(l, f) \in Nat
  BY Dims
<1>2. /\ \A f \in Attn5 : Floats(l, f) = Size(l, f)
      /\ Floats(l, "w13") = Stacks(l) * 2 * Size(l, "gate")
      /\ Floats(l, "w2") = Stacks(l) * Size(l, "w2")
  BY DEF Floats, Attn5
<1>3. Floats(l, "w13") \in Nat /\ Floats(l, "w2") \in Nat
  BY <1>1, <1>2
<1> QED BY <1>1, <1>2, <1>3 DEF Seven, Attn5, LayerFloats

\* Each block begins where the one before it ends, none after the end of the layer.
LEMMA Offsets ==
  ASSUME NEW l, NEW f \in Seven
  PROVE  /\ Start(l, f) \in Nat
         /\ Start(l, NextOf(f)) = Start(l, f) + Floats(l, f)
         /\ Start(l, f) + Floats(l, f) <= LayerFloats(l)
         /\ \A g \in FilledBy(f) : Start(l, g) \in Nat /\ Start(l, g) + Floats(l, g) <= Start(l, f)
         /\ FilledBy(f) \subseteq Seven /\ f \notin FilledBy(f)
         /\ FilledBy(NextOf(f)) = FilledBy(f) \cup {f}
<1>1. /\ \A g \in Seven : Floats(l, g) \in Nat
      /\ LayerFloats(l) = Floats(l, "wq") + Floats(l, "wk") + Floats(l, "wv")
                            + Floats(l, "wr") + Floats(l, "wo") + Floats(l, "w13")
                            + Floats(l, "w2")
  BY FloatsType
<1>2. CASE f = "wq" BY <1>1, <1>2 DEF Start, NextOf, FilledBy, Seven, Attn5
<1>3. CASE f = "wk" BY <1>1, <1>3 DEF Start, NextOf, FilledBy, Seven, Attn5
<1>4. CASE f = "wv" BY <1>1, <1>4 DEF Start, NextOf, FilledBy, Seven, Attn5
<1>5. CASE f = "wr" BY <1>1, <1>5 DEF Start, NextOf, FilledBy, Seven, Attn5
<1>6. CASE f = "wo" BY <1>1, <1>6 DEF Start, NextOf, FilledBy, Seven, Attn5
<1>7. CASE f = "w13" BY <1>1, <1>7 DEF Start, NextOf, FilledBy, Seven, Attn5
<1>8. CASE f = "w2" BY <1>1, <1>8 DEF Start, NextOf, FilledBy, Seven, Attn5
<1> QED BY <1>2, <1>3, <1>4, <1>5, <1>6, <1>7, <1>8 DEF Seven, Attn5

\* Every block is written inside its bounds, without contradiction.
LEMMA BlockPlaced ==
  ASSUME NEW l, NEW f \in Seven
  PROVE  WellPlaced(Block(l, f), Floats(l, f))
<1>1. CASE f \in Attn5
  <2>1. f # "w13" /\ f # "w2"
    BY <1>1 DEF Attn5
  <2>2. Block(l, f) = AllRows(l, f) /\ Floats(l, f) = Size(l, f)
    BY <1>1, <2>1, Zenon DEF Block, Floats
  <2> QED BY <1>1, <2>2, AllRowsPlaced
<1>2. CASE f = "w13"
  BY <1>2, InterleavedPlaced DEF Block, Floats, Attn5
<1>3. CASE f = "w2"
  BY <1>3, StackedPlaced DEF Block, Floats, Attn5
<1> QED BY <1>1, <1>2, <1>3 DEF Seven

-----------------------------------------------------------------------------
(* The inductive invariant.                                                *)

Filling == Seven \cup {"bind"}
Mixing == {"routed", "gate", "up", "down"}
Using == {"attn", "dense", "router", "select", "mixed"} \cup Mixing

LayerTypeInv ==
  /\ streamed \in BOOLEAN /\ died \in {"no", "read"}
  /\ phase \in {"size", "layer", "dead"} \cup Filling \cup Using
  /\ layer \in 0..NumLayers /\ (phase # "size" => layer \in Layer)
  /\ max_floats \in Nat
  /\ DOMAIN lw = Fields /\ DOMAIN slab = {"gate", "up", "down"}
  /\ phase \in Filling \cup {"size"} => streamed

\* The arena is as large as the largest layer; the blocks filled so far lie one after
\* the other at its start.
ArenaInv ==
  /\ phase = "size" => \A l \in 0..layer - 1 : LayerFloats(l) <= max_floats
  /\ phase # "size" /\ streamed =>
       DOMAIN arena = 0..max_floats - 1 /\ \A l \in Layer : LayerFloats(l) <= max_floats
  /\ phase \in Filling =>
       arena_used = Start(layer, phase) /\ \A f \in FilledBy(phase) : Filled(f)
  /\ phase \in Using => RowsPlaced

\* The k-th summand of a sparse layer's output: the picks in order, then the shared
\* experts, each under the weight of its own logit.
Summand(k) ==
  IF k <= TopK THEN <<<<layer, "routed", topk_idx[k - 1]>>, <<layer, topk_idx[k - 1]>>>>
  ELSE <<<<layer, "shared", k - 1 - TopK>>, <<layer, NumRouted + (k - 1 - TopK)>>>>
Summands == (Layer \X {"routed", "shared"} \X Int) \X (Layer \X Int)

InSlab(b) == slab[b] = <<layer, b, topk_idx[Len(out)]>>

MixInv ==
  /\ phase = "dense" => layer \notin Sparse
  /\ phase \in {"router", "select"} \cup Mixing => layer \in Sparse
  /\ phase \in Using /\ streamed /\ layer \in Sparse => cur_layer = layer
  /\ phase = "select" => out = <<>>
  /\ phase \in Mixing =>
       /\ j = TopK
       /\ weights = [n \in 0..TopK + NumShared - 1 |->
                       <<layer, IF n < TopK THEN topk_idx[n] ELSE NumRouted + (n - TopK)>>]
       /\ out \in Seq(Summands) /\ Len(out) \in 0..TopK + NumShared
       /\ \A k \in 1..Len(out) : out[k] = Summand(k)
  /\ phase \in Mixing \ {"routed"} => streamed /\ Len(out) < TopK /\ InSlab("gate")
  /\ phase \in {"up", "down"} => InSlab("up")
  /\ phase = "down" => InSlab("down")

LayerIInv == RouteIInv /\ LayerTypeInv /\ ArenaInv /\ MixInv /\ MixesEachOnce

\* The counts of the configuration.
LEMMA Counts ==
  /\ TopK \in Nat /\ NumRouted \in Nat /\ NumShared \in Nat /\ NumLayers \in Nat \ {0}
  /\ Layer \subseteq Nat /\ 0 \in Layer
BY RouteAssumption, LayerAssumption DEF LayerAssumption, Layer

\* What is placed stays placed while nobody writes the arena or the fields.
LEMMA PlacedKept ==
  ASSUME UNCHANGED <<streamed, layer, lw, arena>>
  PROVE  RowsPlaced <=> RowsPlaced'
BY DEF RowsPlaced, Filled

\* The selection's invariant, while it is not running.
LEMMA RouteKept ==
  ASSUME RouteIInv, UNCHANGED routeVars
  PROVE  RouteIInv'
BY DEF routeVars, RouteIInv, RouteTypeOK, RouteIsTopK, PicksDistinct, PicksBest, ScanInv,
       NoBetter

\* The invariant holds before the first layer is sized.
LEMMA LayersInitInv == LayersInit => LayerIInv
<1> SUFFICES ASSUME LayersInit PROVE LayerIInv
  OBVIOUS
<1>1. RouteIInv
  BY RouteInitInv DEF LayersInit
<1>2. /\ streamed \in BOOLEAN /\ phase = (IF streamed THEN "size" ELSE "layer")
      /\ died = "no" /\ layer = 0 /\ max_floats = 0 /\ DOMAIN lw = Fields
      /\ DOMAIN slab = {"gate", "up", "down"}
  BY DEF LayersInit
<1>3. LayerTypeInv
  BY <1>2, Counts DEF LayerTypeInv, Filling, Using, Seven, Attn5, Mixing
<1>4. ArenaInv
  BY <1>2 DEF ArenaInv, Filling, Using, Seven, Attn5, Mixing
<1>5. MixInv /\ MixesEachOnce
  BY <1>2 DEF MixInv, MixesEachOnce, Using, Mixing
<1> QED BY <1>1, <1>3, <1>4, <1>5 DEF LayerIInv

\* real_load sizes the arena for one more layer.
LEMMA SizeLayerKeeps ==
  ASSUME LayerIInv, SizeLayer
  PROVE  LayerIInv'
<1>1. /\ phase = "size" /\ layer < NumLayers
      /\ max_floats' = IF LayerFloats(layer) > max_floats THEN LayerFloats(layer) ELSE max_floats
      /\ layer' = layer + 1
      /\ UNCHANGED routeVars
      /\ UNCHANGED <<streamed, phase, died, arena, arena_used, lw, cur_layer, slab, weights, out>>
  BY DEF SizeLayer
<1>2. /\ streamed \in BOOLEAN /\ died \in {"no", "read"} /\ layer \in 0..NumLayers
      /\ max_floats \in Nat /\ DOMAIN lw = Fields /\ DOMAIN slab = {"gate", "up", "down"}
      /\ streamed /\ \A l \in 0..layer - 1 : LayerFloats(l) <= max_floats
  BY <1>1 DEF LayerIInv, LayerTypeInv, ArenaInv
<1>3. \A l : LayerFloats(l) \in Nat
  BY FloatsType DEF Seven, Attn5
<1>4. RouteIInv'
  BY <1>1, RouteKept DEF LayerIInv
<1>5. max_floats' \in Nat /\ layer' \in 0..NumLayers
      /\ \A l \in 0..layer' - 1 : LayerFloats(l) <= max_floats'
  <2>1. max_floats' \in Nat /\ max_floats <= max_floats' /\ LayerFloats(layer) <= max_floats'
    BY <1>1, <1>2, <1>3
  <2>2. ASSUME NEW l \in 0..layer' - 1 PROVE LayerFloats(l) <= max_floats'
    <3>1. l \in 0..layer - 1 \/ l = layer
      BY <1>1, <1>2
    <3> QED BY <1>2, <1>3, <2>1, <3>1
  <2> QED BY <1>1, <1>2, <2>1, <2>2, Counts
<1>6. LayerTypeInv'
  BY <1>1, <1>2, <1>5 DEF LayerTypeInv
<1>7. ArenaInv'
  BY <1>1, <1>5 DEF ArenaInv, Filling, Using, Seven, Attn5, Mixing
<1>8. MixInv' /\ MixesEachOnce'
  BY <1>1 DEF MixInv, MixesEachOnce, Using, Mixing
<1> QED BY <1>4, <1>6, <1>7, <1>8 DEF LayerIInv

\* The arena is allocated with the size of the largest layer; nothing is filled yet.
LEMMA AllocArenaKeeps ==
  ASSUME LayerIInv, AllocArena
  PROVE  LayerIInv'
<1>1. /\ phase = "size" /\ layer = NumLayers /\ phase' = "layer" /\ layer' = 0
      /\ arena' = [a \in 0..max_floats - 1 |-> Junk]
      /\ UNCHANGED routeVars
      /\ UNCHANGED <<streamed, died, max_floats, arena_used, lw, cur_layer, slab, weights, out>>
  BY DEF AllocArena
<1>2. RouteIInv'
  BY <1>1, RouteKept DEF LayerIInv
<1>3. LayerTypeInv'
  BY <1>1, Counts DEF LayerIInv, LayerTypeInv, Filling, Using, Seven, Attn5, Mixing
<1>4. ArenaInv'
  <2>1. \A l \in Layer : LayerFloats(l) <= max_floats
    BY <1>1 DEF LayerIInv, ArenaInv, Layer
  <2>2. DOMAIN arena' = 0..max_floats - 1
    BY <1>1
  <2> QED BY <1>1, <2>1, <2>2 DEF ArenaInv, Filling, Using, Seven, Attn5, Mixing
<1>5. MixInv' /\ MixesEachOnce'
  BY <1>1 DEF MixInv, MixesEachOnce, Using, Mixing
<1> QED BY <1>2, <1>3, <1>4, <1>5 DEF LayerIInv

\* The cursor is back at the start of the arena.
LEMMA FillLayerKeeps ==
  ASSUME LayerIInv, FillLayer
  PROVE  LayerIInv'
<1>1. /\ phase = "layer" /\ streamed /\ phase' = "wq" /\ arena_used' = 0
      /\ lw' = [f \in Fields |-> Null]
      /\ UNCHANGED routeVars
      /\ UNCHANGED <<streamed, died, layer, max_floats, arena, cur_layer, slab, weights, out>>
  BY DEF FillLayer
<1>2. RouteIInv'
  BY <1>1, RouteKept DEF LayerIInv
<1>3. LayerTypeInv'
  BY <1>1 DEF LayerIInv, LayerTypeInv, Filling, Using, Seven, Attn5, Mixing
<1>4. ArenaInv'
  BY <1>1 DEF LayerIInv, ArenaInv, Filling, Using, Seven, Attn5, Mixing, Start, FilledBy
<1>5. MixInv' /\ MixesEachOnce'
  BY <1>1 DEF MixInv, MixesEachOnce, Using, Mixing
<1> QED BY <1>2, <1>3, <1>4, <1>5 DEF LayerIInv

\* The fields point into the checkpoint.
LEMMA UseLayerKeeps ==
  ASSUME LayerIInv, UseLayer
  PROVE  LayerIInv'
<1>1. /\ phase = "layer" /\ ~streamed /\ phase' = "attn" /\ lw' = OracleLayer(layer)
      /\ UNCHANGED routeVars
      /\ UNCHANGED <<streamed, died, layer, max_floats, arena, arena_used, cur_layer, slab,
                     weights, out>>
  BY DEF UseLayer
<1>2. RouteIInv'
  BY <1>1, RouteKept DEF LayerIInv
<1>3. LayerTypeInv'
  BY <1>1 DEF LayerIInv, LayerTypeInv, Filling, Using, Seven, Attn5, Mixing, OracleLayer
<1>4. ArenaInv'
  <2>1. RowsPlaced'
    BY <1>1 DEF RowsPlaced, OracleLayer, Null
  <2> QED BY <1>1, <2>1 DEF LayerIInv, ArenaInv, Filling, Using, Seven, Attn5, Mixing
<1>5. MixInv' /\ MixesEachOnce'
  BY <1>1 DEF MixInv, MixesEachOnce, Using, Mixing
<1> QED BY <1>2, <1>3, <1>4, <1>5 DEF LayerIInv

\* A block goes into the arena after the ones before it: there is room, they are left
\* alone, and the block is what was written.
LEMMA DequantizeKeeps ==
  ASSUME LayerIInv, NEW f \in Seven, phase = f,
         Dequantize(f, Floats(layer, f), Block(layer, f), NextOf(f))
  PROVE  LayerIInv'
<1> DEFINE F == Floats(layer, f)
           B == Block(layer, f)
<1>1. /\ layer \in Layer /\ streamed /\ max_floats \in Nat /\ died \in {"no", "read"}
      /\ DOMAIN lw = Fields /\ DOMAIN slab = {"gate", "up", "down"}
      /\ arena_used = Start(layer, f) /\ DOMAIN arena = 0..max_floats - 1
      /\ LayerFloats(layer) <= max_floats
      /\ \A l \in Layer : LayerFloats(l) <= max_floats
      /\ \A g \in FilledBy(f) : Filled(g)
  <2>1. phase \in Filling /\ phase # "size"
    BY DEF Filling, Seven, Attn5
  <2> QED BY <2>1 DEF LayerIInv, LayerTypeInv, ArenaInv
<1>2. /\ arena_used \in Nat /\ F \in Nat /\ arena_used + F <= LayerFloats(layer)
      /\ Start(layer, NextOf(f)) = arena_used + F
      /\ \A g \in FilledBy(f) : /\ Start(layer, g) \in Nat
                                /\ Start(layer, g) + Floats(layer, g) <= arena_used
      /\ FilledBy(f) \subseteq Seven /\ f \notin FilledBy(f)
      /\ FilledBy(NextOf(f)) = FilledBy(f) \cup {f}
      /\ LayerFloats(layer) \in Nat
  <2>1. F \in Nat /\ LayerFloats(layer) \in Nat
    BY FloatsType DEF Seven, Attn5
  <2>2. /\ Start(layer, f) \in Nat
        /\ Start(layer, NextOf(f)) = Start(layer, f) + F
        /\ Start(layer, f) + F <= LayerFloats(layer)
        /\ \A g \in FilledBy(f) : /\ Start(layer, g) \in Nat
                                  /\ Start(layer, g) + Floats(layer, g) <= Start(layer, f)
        /\ FilledBy(f) \subseteq Seven /\ f \notin FilledBy(f)
        /\ FilledBy(NextOf(f)) = FilledBy(f) \cup {f}
    BY Offsets
  <2> QED BY <1>1, <2>1, <2>2, Zenon
<1>3. /\ \A w \in B : w[1] \in 0..F - 1
      /\ \A v, w \in B : v[1] = w[1] => v[2] = w[2]
  BY BlockPlaced DEF WellPlaced
<1>4. ~(arena_used + F > max_floats)
  BY <1>1, <1>2
<1> HIDE DEF F, B
<1>5. /\ arena' = [a \in DOMAIN arena |->
                    IF {w \in B : w[1] + arena_used = a} = {} THEN arena[a]
                    ELSE (CHOOSE w \in {w \in B : w[1] + arena_used = a} : TRUE)[2]]
      /\ arena_used' = arena_used + F
      /\ lw' = [lw EXCEPT ![f] = <<"arena", arena_used>>]
      /\ phase' = NextOf(f) /\ died' = died
      /\ UNCHANGED routeVars
      /\ UNCHANGED <<streamed, layer, max_floats, cur_layer, slab, weights, out>>
  BY <1>4, Zenon DEF Dequantize, F, B
<1>6. NextOf(f) \in Filling /\ NextOf(f) # "size" /\ f \in Fields
  BY DEF NextOf, Filling, Seven, Attn5, Fields
<1>7. DOMAIN arena' = 0..max_floats - 1
  BY <1>1, <1>5
<1>8. ASSUME NEW w \in B
      PROVE  arena_used + w[1] \in DOMAIN arena' /\ arena'[arena_used + w[1]] = w[2]
  <2>1. w[1] \in 0..F - 1 /\ arena_used + w[1] \in 0..max_floats - 1
    BY <1>1, <1>2, <1>3
  <2> DEFINE a == arena_used + w[1]
             hits == {v \in B : v[1] + arena_used = a}
  <2>2. w \in hits
    BY <1>2, <2>1
  <2>3. PICK u \in hits : u = (CHOOSE v \in hits : TRUE)
    BY <2>2
  <2>4. u \in B /\ u[1] \in 0..F - 1 /\ u[1] + arena_used = a
    BY <1>3, <2>3
  <2>5. u[2] = w[2]
    BY <1>2, <1>3, <2>1, <2>4
  <2>6. a \in DOMAIN arena /\ hits # {}
    BY <1>1, <2>1, <2>2
  <2>7. arena'[a] = (CHOOSE v \in hits : TRUE)[2]
    <3> HIDE DEF a
    <3> QED BY <1>5, <2>6
  <2> QED BY <1>1, <1>7, <2>3, <2>5, <2>6, <2>7
<1>9. ASSUME NEW a \in 0..arena_used - 1, a \in DOMAIN arena
      PROVE  a \in DOMAIN arena' /\ arena'[a] = arena[a]
  <2>1. {w \in B : w[1] + arena_used = a} = {}
    BY <1>2, <1>3
  <2> QED BY <1>1, <1>5, <1>7, <1>9, <2>1
<1>10. Filled(f)'
  <2>1. lw'[f] = <<"arena", Start(layer, f)>>
    BY <1>1, <1>5, <1>6
  <2> QED BY <1>1, <1>5, <1>8, <2>1 DEF Filled, B
<1>11. ASSUME NEW g \in FilledBy(f) PROVE Filled(g)'
  <2>1. g # f /\ g \in Seven /\ Filled(g)
    BY <1>1, <1>2
  <2>2. g \in Fields /\ lw'[g] = <<"arena", Start(layer, g)>>
    BY <1>1, <1>5, <2>1 DEF Filled, Seven, Attn5, Fields
  <2>3. ASSUME NEW w \in Block(layer, g)
        PROVE  /\ Start(layer, g) + w[1] \in DOMAIN arena'
               /\ arena'[Start(layer, g) + w[1]] = w[2]
    <3>1. w[1] \in 0..Floats(layer, g) - 1
      BY <2>1, BlockPlaced DEF WellPlaced
    <3>2. /\ Start(layer, g) \in Nat /\ Floats(layer, g) \in Nat
          /\ Start(layer, g) + Floats(layer, g) <= arena_used
      BY <1>2, <2>1, FloatsType
    <3>3. Start(layer, g) + w[1] \in 0..arena_used - 1
      BY <1>2, <3>1, <3>2
    <3>4. /\ Start(layer, g) + w[1] \in DOMAIN arena
          /\ arena[Start(layer, g) + w[1]] = w[2]
      BY <2>1 DEF Filled
    <3> QED BY <1>9, <3>3, <3>4
  <2> QED BY <1>5, <2>2, <2>3 DEF Filled
<1>12. RouteIInv'
  BY <1>5, RouteKept DEF LayerIInv
<1>13. LayerTypeInv'
  BY <1>1, <1>5, <1>6, Counts DEF LayerTypeInv, Layer
<1>14. ArenaInv'
  <2>1. NextOf(f) \notin Using
    BY DEF NextOf, Using, Mixing, Seven, Attn5
  <2>2. \A g \in FilledBy(phase') : Filled(g)'
    BY <1>2, <1>5, <1>10, <1>11
  <2>3. arena_used' = Start(layer', phase')
    BY <1>2, <1>5
  <2> QED BY <1>1, <1>5, <1>6, <1>7, <2>1, <2>2, <2>3 DEF ArenaInv
<1>15. MixInv' /\ MixesEachOnce'
  <2>1. NextOf(f) \notin Using
    BY DEF NextOf, Using, Mixing, Seven, Attn5
  <2> QED BY <1>5, <2>1 DEF MixInv, MixesEachOnce, Using, Mixing
<1> QED BY <1>12, <1>13, <1>14, <1>15 DEF LayerIInv

\* real_fill_layer's blocks, one after the other.
LEMMA FillKeeps ==
  ASSUME LayerIInv, FillAllRows \/ FillW13 \/ FillW2
  PROVE  LayerIInv'
<1>1. CASE FillAllRows
  <2>1. phase \in Attn5 /\ Dequantize(phase, Size(layer, phase), AllRows(layer, phase), After[phase])
    BY <1>1 DEF FillAllRows, After, Attn5
  <2>2. phase # "w13" /\ phase # "w2" /\ phase \in Seven /\ After[phase] = NextOf(phase)
    BY <2>1 DEF Attn5, Seven, After, NextOf
  <2>3. Floats(layer, phase) = Size(layer, phase) /\ Block(layer, phase) = AllRows(layer, phase)
    BY <2>1, <2>2, Zenon DEF Floats, Block
  <2> QED BY <2>1, <2>2, <2>3, DequantizeKeeps
<1>2. CASE FillW13
  <2>1. phase = "w13" /\ "w13" \in Seven /\ "w2" = NextOf("w13")
        /\ Floats(layer, "w13") = Stacks(layer) * 2 * Size(layer, "gate")
        /\ Block(layer, "w13") = Interleaved(layer)
    BY <1>2 DEF FillW13, Seven, NextOf, Floats, Block, Attn5
  <2> QED BY <1>2, <2>1, DequantizeKeeps DEF FillW13
<1>3. CASE FillW2
  <2>1. phase = "w2" /\ "w2" \in Seven /\ "bind" = NextOf("w2")
        /\ Floats(layer, "w2") = Stacks(layer) * Size(layer, "w2")
        /\ Block(layer, "w2") = Stacked(layer, "w2")
    BY <1>3 DEF FillW2, Seven, NextOf, Floats, Block, Attn5
  <2> QED BY <1>3, <2>1, DequantizeKeeps DEF FillW2
<1> QED BY <1>1, <1>2, <1>3

\* real_exps is told the layer whose experts it will read.
LEMMA BindExpertsKeeps ==
  ASSUME LayerIInv, BindExperts
  PROVE  LayerIInv'
<1>1. /\ phase = "bind" /\ phase' = "attn"
      /\ cur_layer' = (IF layer \in Sparse THEN layer ELSE cur_layer)
      /\ UNCHANGED routeVars
      /\ UNCHANGED <<streamed, died, layer, max_floats, arena, arena_used, lw, slab,
                     weights, out>>
  BY DEF BindExperts
<1>2. RouteIInv'
  BY <1>1, RouteKept DEF LayerIInv
<1>3. LayerTypeInv'
  BY <1>1 DEF LayerIInv, LayerTypeInv, Filling, Using, Seven, Attn5, Mixing
<1>4. ArenaInv'
  <2>1. streamed /\ FilledBy("bind") = Seven /\ \A f \in FilledBy(phase) : Filled(f)
    BY <1>1 DEF LayerIInv, LayerTypeInv, ArenaInv, Filling, FilledBy
  <2>2. RowsPlaced'
    BY <1>1, <2>1, PlacedKept DEF RowsPlaced
  <2> QED BY <1>1, <2>2 DEF LayerIInv, ArenaInv, Filling, Using, Seven, Attn5, Mixing
<1>5. MixInv' /\ MixesEachOnce'
  BY <1>1 DEF MixInv, MixesEachOnce, Using, Mixing
<1> QED BY <1>2, <1>3, <1>4, <1>5 DEF LayerIInv

\* A step of the forward pass that writes no weights.
UsingStep ==
  /\ phase \in Using /\ phase' \in Using
  /\ UNCHANGED <<streamed, died, layer, max_floats, arena, arena_used, lw, cur_layer>>
  /\ DOMAIN slab' = DOMAIN slab

\* A step of the forward pass that writes neither the arena nor a field keeps the rows.
LEMMA UsingKeeps ==
  ASSUME LayerIInv, UsingStep
  PROVE  LayerTypeInv' /\ ArenaInv'
<1> USE DEF UsingStep
<1>1. /\ phase' # "size" /\ phase' \notin Filling /\ phase # "size"
  BY DEF Using, Filling, Seven, Attn5, Mixing
<1>2. RowsPlaced'
  BY PlacedKept DEF LayerIInv, ArenaInv
<1>3. LayerTypeInv'
  BY <1>1 DEF LayerIInv, LayerTypeInv
<1>4. ArenaInv'
  BY <1>1, <1>2 DEF LayerIInv, ArenaInv
<1> QED BY <1>3, <1>4

\* The attention rows are read; the layer turns to its dense or its routed part.
LEMMA AttentionKeeps ==
  ASSUME LayerIInv, Attention
  PROVE  LayerIInv'
<1>1. /\ phase = "attn" /\ phase' = (IF layer \in Sparse THEN "router" ELSE "dense")
      /\ UNCHANGED routeVars
      /\ UNCHANGED <<streamed, died, layer, max_floats, arena, arena_used, lw, cur_layer, slab,
                     weights, out>>
  BY DEF Attention
<1>2. phase \in Using /\ phase' \in {"router", "dense"}
  BY <1>1 DEF Using
<1>3. LayerTypeInv' /\ ArenaInv'
  BY <1>1, <1>2, UsingKeeps DEF UsingStep, Using
<1>4. MixInv' /\ MixesEachOnce'
  BY <1>1, <1>2 DEF LayerIInv, MixInv, MixesEachOnce, Using, Mixing
<1> QED BY <1>1, <1>3, <1>4, RouteKept DEF LayerIInv

\* The dense FFN finds its rows.
LEMMA MlpDenseKeeps ==
  ASSUME LayerIInv, MlpDenseForward
  PROVE  LayerIInv'
<1>1. /\ phase = "dense" /\ phase' = "mixed"
      /\ out' = <<<<Ffn("dense", 0, GatedFfn("w13", "w2", "w2", 0)), "dense_global_scale">>>>
      /\ UNCHANGED routeVars
      /\ UNCHANGED <<streamed, died, layer, max_floats, arena, arena_used, lw, cur_layer, slab,
                     weights>>
  BY DEF MlpDenseForward
<1>2. LayerTypeInv' /\ ArenaInv'
  BY <1>1, UsingKeeps DEF UsingStep, Using
<1>3. layer \notin Sparse
  BY <1>1 DEF LayerIInv, MixInv
<1>4. GatedFfn("w13", "w2", "w2", 0)
  <2>1. RowsPlaced /\ Stacks(layer) = 1
    BY <1>1, <1>3 DEF LayerIInv, ArenaInv, Using, Stacks
  <2>2. 0 \in 0..Stacks(layer) - 1
    BY <2>1
  <2> QED BY <2>1, <2>2, RowsFound
<1>5. MixesEachOnce'
  BY <1>1, <1>3, <1>4 DEF MixesEachOnce, Ffn
<1>6. MixInv'
  BY <1>1, <1>3 DEF MixInv, Using, Mixing
<1> QED BY <1>1, <1>2, <1>5, <1>6, RouteKept DEF LayerIInv

\* mlp_moe_forward begins: a new selection, an empty output.
LEMMA MoeBeginKeeps ==
  ASSUME LayerIInv, MoeBegin
  PROVE  LayerIInv'
<1>1. /\ phase = "router" /\ phase' = "select" /\ out' = <<>>
      /\ scores' \in [Expert -> Scores \cup {NaN}]
      /\ used' = {} /\ topk_idx' = [p \in 0..TopK - 1 |-> None]
      /\ j' = 0 /\ i' = 0 /\ best' = None
      /\ UNCHANGED <<streamed, died, layer, max_floats, arena, arena_used, lw, cur_layer, slab,
                     weights>>
  BY DEF MoeBegin
<1>2. RouteInit'
  BY <1>1 DEF RouteInit
<1>3. RouteIInv'
  BY <1>2, RouteInitInv, PTL
<1>4. LayerTypeInv' /\ ArenaInv'
  BY <1>1, UsingKeeps DEF UsingStep, Using
<1>5. MixInv' /\ MixesEachOnce'
  BY <1>1 DEF LayerIInv, MixInv, MixesEachOnce, Using, Mixing
<1> QED BY <1>3, <1>4, <1>5 DEF LayerIInv

\* A turn of the selection.
LEMMA SelectKeeps ==
  ASSUME LayerIInv, Select
  PROVE  LayerIInv'
<1>1. /\ phase = "select" /\ (Consider \/ Take)
      /\ UNCHANGED <<streamed, phase, died, layer, max_floats, arena, arena_used, lw, cur_layer,
                     slab, weights, out>>
  BY DEF Select, layerVars
<1>2. RouteIInv'
  BY <1>1, ConsiderPreserved, TakePreserved DEF LayerIInv
<1>3. LayerTypeInv' /\ ArenaInv'
  BY <1>1, UsingKeeps DEF UsingStep, Using
<1>4. MixInv' /\ MixesEachOnce'
  BY <1>1 DEF LayerIInv, MixInv, MixesEachOnce, Using, Mixing
<1> QED BY <1>2, <1>3, <1>4 DEF LayerIInv

\* The weights, in the order of the summands.
LEMMA MixWeightsKeeps ==
  ASSUME LayerIInv, MixWeights
  PROVE  LayerIInv'
<1>1. /\ phase = "select" /\ j = TopK /\ phase' = "routed"
      /\ weights' = [n \in 0..TopK + NumShared - 1 |->
                       <<layer, IF n < TopK THEN topk_idx[n] ELSE NumRouted + (n - TopK)>>]
      /\ UNCHANGED routeVars
      /\ UNCHANGED <<streamed, died, layer, max_floats, arena, arena_used, lw, cur_layer, slab, out>>
  BY DEF MixWeights
<1>2. LayerTypeInv' /\ ArenaInv'
  BY <1>1, UsingKeeps DEF UsingStep, Using, Mixing
<1>3. out = <<>> /\ Len(out) = 0 /\ out \in Seq(Summands)
      /\ layer \in Sparse /\ (streamed => cur_layer = layer)
  BY <1>1 DEF LayerIInv, MixInv, Using
<1>4. j' = TopK /\ topk_idx' = topk_idx
  BY <1>1 DEF routeVars
<1>5. 0 \in 0..TopK + NumShared /\ Summands' = Summands
  BY <1>1, Counts DEF Summands
<1>6. MixInv'
  BY <1>1, <1>3, <1>4, <1>5 DEF MixInv, Using, Mixing
<1>7. MixesEachOnce'
  BY <1>1 DEF MixesEachOnce
<1> QED BY <1>1, <1>2, <1>6, <1>7, RouteKept DEF LayerIInv

\* What holds while the experts are mixed.
LEMMA MixFacts ==
  ASSUME LayerIInv, phase \in Mixing
  PROVE  /\ layer \in Sparse /\ layer \in Layer /\ (streamed => cur_layer = layer)
         /\ j = TopK
         /\ weights = [n \in 0..TopK + NumShared - 1 |->
                         <<layer, IF n < TopK THEN topk_idx[n] ELSE NumRouted + (n - TopK)>>]
         /\ out \in Seq(Summands) /\ Len(out) \in 0..TopK + NumShared
         /\ \A k \in 1..Len(out) : out[k] = Summand(k)
         /\ \A p \in 0..TopK - 1 : topk_idx[p] \in Expert
         /\ DOMAIN slab = {"gate", "up", "down"} /\ phase \in Using /\ RowsPlaced
<1>1. phase \in Using /\ phase # "size"
  BY DEF Using, Mixing
<1>2. /\ layer \in Sparse /\ layer \in Layer /\ (streamed => cur_layer = layer)
      /\ j = TopK
      /\ weights = [n \in 0..TopK + NumShared - 1 |->
                      <<layer, IF n < TopK THEN topk_idx[n] ELSE NumRouted + (n - TopK)>>]
      /\ out \in Seq(Summands) /\ Len(out) \in 0..TopK + NumShared
      /\ \A k \in 1..Len(out) : out[k] = Summand(k)
  BY <1>1 DEF LayerIInv, LayerTypeInv, MixInv
<1>3. \A p \in 0..TopK - 1 : topk_idx[p] \in Expert
  BY <1>2 DEF LayerIInv, RouteIInv, RouteIsTopK, PicksDistinct
<1>4. DOMAIN slab = {"gate", "up", "down"} /\ RowsPlaced
  BY <1>1 DEF LayerIInv, LayerTypeInv, ArenaInv
<1> QED BY <1>1, <1>2, <1>3, <1>4

\* A read of one of the expert's three matrices.
LEMMA ReadSlabKeeps ==
  ASSUME LayerIInv, NEW b, NEW prev,
         \/ b = "gate" /\ prev = "routed"
         \/ b = "up" /\ prev = "gate"
         \/ b = "down" /\ prev = "up",
         ReadSlab(b, prev)
  PROVE  LayerIInv'
<1>1. /\ phase = prev /\ phase' = b /\ streamed /\ Len(out) < TopK
      /\ slab' = [slab EXCEPT ![b] = <<cur_layer, b, topk_idx[Len(out)]>>]
      /\ UNCHANGED routeVars
      /\ UNCHANGED <<streamed, died, layer, max_floats, arena, arena_used, lw, cur_layer, weights,
                     out>>
  BY DEF ReadSlab, Added
<1>2. /\ phase \in Mixing /\ phase' \in Mixing \ {"routed"} /\ b \in {"gate", "up", "down"}
      /\ phase \in Using /\ phase' \in Using
  BY <1>1 DEF Mixing, Using
<1>3. DOMAIN slab = {"gate", "up", "down"} /\ cur_layer = layer /\ j = TopK
      /\ layer \in Sparse
      /\ weights = [n \in 0..TopK + NumShared - 1 |->
                      <<layer, IF n < TopK THEN topk_idx[n] ELSE NumRouted + (n - TopK)>>]
      /\ out \in Seq(Summands) /\ Len(out) \in 0..TopK + NumShared
      /\ \A k \in 1..Len(out) : out[k] = Summand(k)
  BY <1>1, <1>2, MixFacts
<1>4. DOMAIN slab' = DOMAIN slab
  BY <1>1
<1>5. LayerTypeInv' /\ ArenaInv'
  BY <1>1, <1>2, <1>4, UsingKeeps DEF UsingStep
<1>6. InSlab(b)' /\ \A a \in {"gate", "up", "down"} : a # b /\ InSlab(a) => InSlab(a)'
  BY <1>1, <1>2, <1>3 DEF InSlab, routeVars
<1>7. /\ prev # "routed" => InSlab("gate")
      /\ prev \in {"up", "down"} => InSlab("up")
  BY <1>1, <1>2 DEF LayerIInv, MixInv
<1>8. j' = j /\ topk_idx' = topk_idx /\ Summands' = Summands
      /\ \A k \in 1..Len(out) : Summand(k)' = Summand(k)
  BY <1>1 DEF routeVars, Summands, Summand
<1>9. MixInv'
  <2>1. /\ InSlab("gate")' /\ (b \in {"up", "down"} => InSlab("up")')
        /\ (b = "down" => InSlab("down")')
    BY <1>6, <1>7
  <2>2. /\ phase' # "dense" /\ phase' # "select"
    BY <1>1, <1>2
  <2> QED BY <1>1, <1>2, <1>3, <1>8, <2>1, <2>2 DEF MixInv
<1>10. MixesEachOnce'
  BY <1>1, <1>2 DEF MixesEachOnce
<1> QED BY <1>1, <1>5, <1>9, <1>10, RouteKept DEF LayerIInv

\* A failed read of an expert's rows ends the process with everything as it was.
LEMMA ReadFailsKeeps ==
  ASSUME LayerIInv, ReadFails
  PROVE  LayerIInv'
<1>1. /\ phase # "size" /\ streamed /\ phase' = "dead" /\ died' = "read"
      /\ UNCHANGED routeVars
      /\ UNCHANGED <<streamed, layer, max_floats, arena, arena_used, lw, cur_layer, slab, weights,
                     out>>
  BY DEF ReadFails
<1>2. LayerTypeInv'
  BY <1>1 DEF LayerIInv, LayerTypeInv, Filling, Using, Seven, Attn5, Mixing
<1>3. ArenaInv'
  BY <1>1 DEF LayerIInv, ArenaInv, Filling, Using, Seven, Attn5, Mixing
<1>4. MixInv' /\ MixesEachOnce'
  BY <1>1 DEF MixInv, MixesEachOnce, Using, Mixing
<1> QED BY <1>1, <1>2, <1>3, <1>4, RouteKept DEF LayerIInv

\* A feed-forward network and its weight make a summand.
LEMMA SummandType ==
  ASSUME NEW l \in Layer, NEW kind \in {"routed", "shared"}, NEW e \in Int, NEW w \in Int
  PROVE  <<<<l, kind, e>>, <<l, w>>>> \in Summands
BY DEF Summands

\* After the picks come the shared experts.
LEMMA SharedSummand ==
  ASSUME NEW k \in Int, NEW x \in Int, ~(k <= TopK), k - 1 - TopK = x
  PROVE  Summand(k) = <<<<layer, "shared", x>>, <<layer, NumRouted + x>>>>
<1>1. Summand(k) = <<<<layer, "shared", k - 1 - TopK>>, <<layer, NumRouted + (k - 1 - TopK)>>>>
  BY Zenon DEF Summand
<1> QED BY <1>1

\* The next summand is added.
LEMMA AddKeeps ==
  ASSUME LayerIInv, phase \in Mixing, NEW ffn, NEW weight, Add(ffn, weight, "routed"),
         Len(out) < TopK + NumShared, <<ffn, weight>> = Summand(Len(out) + 1)
  PROVE  LayerIInv'
<1>1. /\ out' = Append(out, Summand(Len(out) + 1)) /\ phase' = "routed"
      /\ UNCHANGED routeVars
      /\ UNCHANGED <<streamed, died, layer, max_floats, arena, arena_used, lw, cur_layer, slab,
                     weights>>
  BY DEF Add
<1>2. /\ layer \in Sparse /\ layer \in Layer /\ (streamed => cur_layer = layer)
      /\ j = TopK /\ phase \in Using
      /\ weights = [n \in 0..TopK + NumShared - 1 |->
                      <<layer, IF n < TopK THEN topk_idx[n] ELSE NumRouted + (n - TopK)>>]
      /\ out \in Seq(Summands) /\ Len(out) \in 0..TopK + NumShared
      /\ \A k \in 1..Len(out) : out[k] = Summand(k)
      /\ \A p \in 0..TopK - 1 : topk_idx[p] \in Expert
  BY MixFacts
<1>3. Len(out) \in Nat /\ Len(out) + 1 \in 0..TopK + NumShared
  BY <1>2, Counts
<1>4. Summand(Len(out) + 1) \in Summands
  <2>1. CASE Len(out) + 1 <= TopK
    <3>1. (Len(out) + 1) - 1 \in 0..TopK - 1
      BY <1>3, <2>1, Counts
    <3>2. topk_idx[(Len(out) + 1) - 1] \in Int
      BY <1>2, <3>1, ExpertType
    <3>3. Summand(Len(out) + 1)
            = <<<<layer, "routed", topk_idx[(Len(out) + 1) - 1]>>,
                <<layer, topk_idx[(Len(out) + 1) - 1]>>>>
      BY <2>1 DEF Summand
    <3> QED BY <1>2, <3>2, <3>3, SummandType
  <2>2. CASE ~(Len(out) + 1 <= TopK)
    <3>1. (Len(out) + 1) - 1 - TopK \in Int /\ NumRouted + ((Len(out) + 1) - 1 - TopK) \in Int
      BY <1>3, Counts
    <3>2. Summand(Len(out) + 1)
            = <<<<layer, "shared", (Len(out) + 1) - 1 - TopK>>,
                <<layer, NumRouted + ((Len(out) + 1) - 1 - TopK)>>>>
      <4>1. Len(out) + 1 \in Int
        BY <1>3
      <4> QED BY <2>2, <3>1, <4>1, SharedSummand, Zenon
    <3> QED BY <1>2, <3>1, <3>2, SummandType
  <2> QED BY <2>1, <2>2
<1> DEFINE next == Summand(Len(out) + 1)
<1>5. /\ out' \in Seq(Summands) /\ Len(out') = Len(out) + 1
      /\ \A k \in 1..Len(out) : out'[k] = out[k]
      /\ out'[Len(out) + 1] = next
  <2>1. next \in Summands /\ out' = Append(out, next) /\ out \in Seq(Summands)
    BY <1>1, <1>2, <1>4
  <2> HIDE DEF next
  <2> QED BY <2>1
<1>6. \A k \in 1..Len(out') : out'[k] = Summand(k)
  <2> SUFFICES ASSUME NEW k \in 1..Len(out') PROVE out'[k] = Summand(k)
    OBVIOUS
  <2>1. k \in 1..Len(out) \/ k = Len(out) + 1
    BY <1>3, <1>5
  <2>2. CASE k \in 1..Len(out)
    BY <1>2, <1>5, <2>2
  <2>3. CASE k = Len(out) + 1
    BY <1>5, <2>3
  <2> QED BY <2>1, <2>2, <2>3
<1>7. j' = j /\ topk_idx' = topk_idx /\ Summands' = Summands
      /\ \A k \in 1..Len(out') : Summand(k)' = Summand(k)
  BY <1>1 DEF routeVars, Summands, Summand
<1>8. LayerTypeInv' /\ ArenaInv'
  BY <1>1, <1>2, UsingKeeps DEF UsingStep, Using, Mixing
<1>9. MixInv'
  <2>1. Len(out') \in 0..TopK + NumShared
    BY <1>3, <1>5
  <2>2. \A k \in 1..Len(out') : out'[k] = Summand(k)'
    BY <1>6, <1>7
  <2>3. weights' = [n \in 0..TopK + NumShared - 1 |->
                      <<layer', IF n < TopK THEN topk_idx'[n] ELSE NumRouted + (n - TopK)>>]
    BY <1>1, <1>2, <1>7
  <2> QED BY <1>1, <1>2, <1>5, <1>7, <2>1, <2>2, <2>3 DEF MixInv, Using, Mixing
<1>10. MixesEachOnce'
  BY <1>1 DEF MixesEachOnce
<1> QED BY <1>1, <1>8, <1>9, <1>10, RouteKept DEF LayerIInv

\* A routed expert read from the container.
LEMMA StreamedExpertKeeps ==
  ASSUME LayerIInv, StreamedExpert
  PROVE  LayerIInv'
<1>1. phase = "down" /\ phase \in Mixing
      /\ Add(Ffn("routed", slab["gate"][3],
                 \A b \in DOMAIN slab : slab[b] = <<layer, b, slab["gate"][3]>>),
             weights[Added], "routed")
  BY DEF StreamedExpert, Mixing
<1>2. Len(out) < TopK /\ InSlab("gate") /\ InSlab("up") /\ InSlab("down")
  BY <1>1 DEF LayerIInv, MixInv, Mixing
<1>3. /\ DOMAIN slab = {"gate", "up", "down"} /\ Len(out) \in Nat
      /\ weights = [n \in 0..TopK + NumShared - 1 |->
                      <<layer, IF n < TopK THEN topk_idx[n] ELSE NumRouted + (n - TopK)>>]
  BY <1>1, MixFacts, Counts
<1>4. slab["gate"][3] = topk_idx[Len(out)]
      /\ \A b \in DOMAIN slab : slab[b] = <<layer, b, topk_idx[Len(out)]>>
  BY <1>2, <1>3 DEF InSlab
<1>5. Len(out) < TopK + NumShared /\ Len(out) \in 0..TopK + NumShared - 1
  BY <1>2, <1>3, Counts
<1>6. weights[Len(out)] = <<layer, topk_idx[Len(out)]>>
  BY <1>2, <1>3, <1>5
<1>7. <<<<layer, "routed", topk_idx[Len(out)]>>, <<layer, topk_idx[Len(out)]>>>>
        = Summand(Len(out) + 1)
  <2>1. (Len(out) + 1) - 1 = Len(out) /\ Len(out) + 1 <= TopK
    BY <1>2, <1>3, Counts
  <2> QED BY <2>1 DEF Summand
<1>8. Add(<<layer, "routed", topk_idx[Len(out)]>>, <<layer, topk_idx[Len(out)]>>, "routed")
  BY <1>1, <1>4, <1>6 DEF Ffn, Added
<1> QED BY <1>1, <1>5, <1>7, <1>8, AddKeeps

\* A routed expert in the checkpoint.
LEMMA OracleExpertKeeps ==
  ASSUME LayerIInv, OracleExpert
  PROVE  LayerIInv'
<1>1. phase = "routed" /\ phase \in Mixing /\ ~streamed /\ Len(out) < TopK
      /\ Add(Ffn("routed", topk_idx[Len(out)],
                 GatedFfn("experts_w13", "experts_w2", "experts_w2", topk_idx[Len(out)])),
             weights[Len(out)], "routed")
  BY DEF OracleExpert, Mixing, Added
<1>2. /\ Len(out) \in Nat /\ layer \in Sparse /\ RowsPlaced
      /\ weights = [n \in 0..TopK + NumShared - 1 |->
                      <<layer, IF n < TopK THEN topk_idx[n] ELSE NumRouted + (n - TopK)>>]
      /\ \A p \in 0..TopK - 1 : topk_idx[p] \in Expert
  BY <1>1, MixFacts, Counts
<1>3. Len(out) < TopK + NumShared /\ Len(out) \in 0..TopK + NumShared - 1
      /\ Len(out) \in 0..TopK - 1
  BY <1>1, <1>2, Counts
<1>4. weights[Len(out)] = <<layer, topk_idx[Len(out)]>>
  BY <1>1, <1>2, <1>3
<1>5. GatedFfn("experts_w13", "experts_w2", "experts_w2", topk_idx[Len(out)])
  <2>1. topk_idx[Len(out)] \in Nat
    BY <1>2, <1>3, Counts DEF Expert
  <2> QED BY <1>1, <1>2, <2>1, ExpertFound
<1>6. <<<<layer, "routed", topk_idx[Len(out)]>>, <<layer, topk_idx[Len(out)]>>>>
        = Summand(Len(out) + 1)
  <2>1. (Len(out) + 1) - 1 = Len(out) /\ Len(out) + 1 <= TopK
    BY <1>1, <1>2, Counts
  <2> QED BY <2>1 DEF Summand
<1>7. Add(<<layer, "routed", topk_idx[Len(out)]>>, <<layer, topk_idx[Len(out)]>>, "routed")
  BY <1>1, <1>4, <1>5 DEF Ffn
<1> QED BY <1>1, <1>3, <1>6, <1>7, AddKeeps

\* A shared expert, under its own weight.
LEMMA SharedExpertKeeps ==
  ASSUME LayerIInv, SharedExpert
  PROVE  LayerIInv'
<1> DEFINE s == Len(out) - TopK
<1>1. phase = "routed" /\ phase \in Mixing /\ Len(out) \in TopK..TopK + NumShared - 1
      /\ Add(Ffn("shared", s, GatedFfn("w13", "w2", "w2", s)), weights[TopK + s], "routed")
  BY DEF SharedExpert, Mixing, Added, Gamma
<1>2. /\ Len(out) \in Nat /\ layer \in Sparse /\ RowsPlaced
      /\ weights = [n \in 0..TopK + NumShared - 1 |->
                      <<layer, IF n < TopK THEN topk_idx[n] ELSE NumRouted + (n - TopK)>>]
  BY <1>1, MixFacts, Counts
<1>3. /\ Len(out) < TopK + NumShared /\ TopK + s = Len(out) /\ ~(Len(out) < TopK)
      /\ Len(out) \in 0..TopK + NumShared - 1 /\ s \in 0..NumShared - 1
  BY <1>1, <1>2, Counts
<1>4. weights[TopK + s] = <<layer, NumRouted + s>>
  BY <1>2, <1>3
<1>5. GatedFfn("w13", "w2", "w2", s)
  <2>1. Stacks(layer) = NumShared
    BY <1>2 DEF Stacks
  <2> QED BY <1>2, <1>3, <2>1, RowsFound
<1>6. <<<<layer, "shared", s>>, <<layer, NumRouted + s>>>> = Summand(Len(out) + 1)
  <2>1. (Len(out) + 1) - 1 - TopK = s /\ ~(Len(out) + 1 <= TopK)
    BY <1>1, <1>2, Counts
  <2> QED BY <2>1 DEF Summand
<1>7. Add(<<layer, "shared", s>>, <<layer, NumRouted + s>>, "routed")
  BY <1>1, <1>4, <1>5 DEF Ffn
<1> QED BY <1>1, <1>3, <1>6, <1>7, AddKeeps

\* All of them have been added.
LEMMA MoeEndsKeeps ==
  ASSUME LayerIInv, MoeEnds
  PROVE  LayerIInv'
<1>1. /\ phase = "routed" /\ phase \in Mixing /\ phase' = "mixed" /\ Len(out) = TopK + NumShared
      /\ UNCHANGED routeVars
      /\ UNCHANGED <<streamed, died, layer, max_floats, arena, arena_used, lw, cur_layer, slab,
                     weights, out>>
  BY DEF MoeEnds, Added, Mixing
<1>2. /\ layer \in Sparse /\ (streamed => cur_layer = layer) /\ phase \in Using
      /\ \A k \in 1..Len(out) : out[k] = Summand(k)
  BY <1>1, MixFacts
<1>3. LayerTypeInv' /\ ArenaInv'
  BY <1>1, <1>2, UsingKeeps DEF UsingStep, Using
<1>4. MixInv'
  BY <1>1, <1>2 DEF MixInv, Using, Mixing
<1>5. ASSUME NEW p \in 0..TopK - 1
      PROVE  \E n \in 1..Len(out) :
               out[n] = <<<<layer, "routed", topk_idx[p]>>, <<layer, topk_idx[p]>>>>
  <2>1. p + 1 \in 1..Len(out) /\ p + 1 <= TopK /\ p + 1 - 1 = p
    BY <1>1, Counts
  <2>2. out[p + 1] = <<<<layer, "routed", topk_idx[p]>>, <<layer, topk_idx[p]>>>>
    <3>1. out[p + 1] = Summand(p + 1)
      BY <1>2, <2>1
    <3>2. Summand(p + 1) = <<<<layer, "routed", topk_idx[p]>>, <<layer, topk_idx[p]>>>>
      BY <2>1 DEF Summand
    <3> QED BY <3>1, <3>2
  <2> QED BY <2>1, <2>2
<1>6. ASSUME NEW s \in 0..NumShared - 1
      PROVE  \E n \in 1..Len(out) :
               out[n] = <<<<layer, "shared", s>>, <<layer, NumRouted + s>>>>
  <2>1. TopK + s + 1 \in 1..Len(out) /\ ~(TopK + s + 1 <= TopK) /\ (TopK + s + 1) - 1 - TopK = s
    BY <1>1, Counts
  <2>2. out[TopK + s + 1] = <<<<layer, "shared", s>>, <<layer, NumRouted + s>>>>
    <3>1. out[TopK + s + 1] = Summand(TopK + s + 1)
      BY <1>2, <2>1
    <3>2. Summand(TopK + s + 1) = <<<<layer, "shared", s>>, <<layer, NumRouted + s>>>>
      <4>1. TopK + s + 1 \in Int /\ s \in Int
        BY Counts
      <4> QED BY <2>1, <4>1, SharedSummand, Zenon
    <3> QED BY <3>1, <3>2
  <2> QED BY <2>1, <2>2
<1>7. MixesEachOnce'
  BY <1>1, <1>2, <1>5, <1>6 DEF MixesEachOnce, Added, routeVars
<1> QED BY <1>1, <1>3, <1>4, <1>7, RouteKept DEF LayerIInv

\* The next layer fills the arena anew.
LEMMA NextLayerKeeps ==
  ASSUME LayerIInv, NextLayer
  PROVE  LayerIInv'
<1>1. /\ phase = "mixed" /\ phase' = "layer" /\ layer' = (layer + 1) % NumLayers
      /\ UNCHANGED routeVars
      /\ UNCHANGED <<streamed, died, max_floats, arena, arena_used, lw, cur_layer, slab, weights,
                     out>>
  BY DEF NextLayer
<1>2. layer' \in Layer /\ layer' \in 0..NumLayers
  <2>1. layer + 1 \in Nat
    BY <1>1, Counts DEF LayerIInv, LayerTypeInv
  <2>2. (layer + 1) % NumLayers \in 0..NumLayers - 1
    BY <2>1, Counts
  <2> QED BY <1>1, <2>2, Counts DEF Layer
<1>3. LayerTypeInv'
  BY <1>1, <1>2 DEF LayerIInv, LayerTypeInv, Filling, Using, Seven, Attn5, Mixing
<1>4. ArenaInv'
  BY <1>1 DEF LayerIInv, ArenaInv, Filling, Using, Seven, Attn5, Mixing
<1>5. MixInv' /\ MixesEachOnce'
  BY <1>1 DEF MixInv, MixesEachOnce, Using, Mixing
<1> QED BY <1>1, <1>3, <1>4, <1>5, RouteKept DEF LayerIInv

\* A step that changes nothing.
LEMMA LayerStutterKeeps ==
  ASSUME LayerIInv, UNCHANGED vars
  PROVE  LayerIInv'
<1>1. /\ UNCHANGED routeVars
      /\ UNCHANGED <<scores, used, topk_idx, j, i, best>>
      /\ UNCHANGED <<streamed, phase, died, layer, max_floats, arena, arena_used, lw, cur_layer,
                     slab, weights, out>>
  BY DEF vars, layerVars, routeVars
<1>2. LayerTypeInv'
  BY <1>1 DEF LayerIInv, LayerTypeInv
<1>3. ArenaInv'
  BY <1>1 DEF LayerIInv, ArenaInv, RowsPlaced, Filled
<1>4. MixInv'
  BY <1>1 DEF LayerIInv, MixInv, InSlab, Summand
<1>5. MixesEachOnce'
  BY <1>1 DEF LayerIInv, MixesEachOnce, Added
<1> QED BY <1>1, <1>2, <1>3, <1>4, <1>5, RouteKept DEF LayerIInv

\* Every step keeps the invariant.
LEMMA LayerStepKeeps == LayerIInv /\ [Next]_vars => LayerIInv'
<1> SUFFICES ASSUME LayerIInv, [Next]_vars PROVE LayerIInv'
  OBVIOUS
<1>1. CASE SizeLayer BY <1>1, SizeLayerKeeps
<1>2. CASE AllocArena BY <1>2, AllocArenaKeeps
<1>3. CASE FillLayer BY <1>3, FillLayerKeeps
<1>4. CASE UseLayer BY <1>4, UseLayerKeeps
<1>5. CASE FillAllRows \/ FillW13 \/ FillW2 BY <1>5, FillKeeps
<1>6. CASE BindExperts BY <1>6, BindExpertsKeeps
<1>7. CASE Attention BY <1>7, AttentionKeeps
<1>8. CASE MlpDenseForward BY <1>8, MlpDenseKeeps
<1>9. CASE MoeBegin BY <1>9, MoeBeginKeeps
<1>10. CASE Select BY <1>10, SelectKeeps
<1>11. CASE MixWeights BY <1>11, MixWeightsKeeps
<1>12. CASE ReadSlab("gate", "routed") BY <1>12, ReadSlabKeeps
<1>13. CASE ReadSlab("up", "gate") BY <1>13, ReadSlabKeeps
<1>14. CASE ReadSlab("down", "up") BY <1>14, ReadSlabKeeps
<1>15. CASE ReadFails BY <1>15, ReadFailsKeeps
<1>16. CASE StreamedExpert BY <1>16, StreamedExpertKeeps
<1>17. CASE OracleExpert BY <1>17, OracleExpertKeeps
<1>18. CASE SharedExpert BY <1>18, SharedExpertKeeps
<1>19. CASE MoeEnds BY <1>19, MoeEndsKeeps
<1>20. CASE NextLayer BY <1>20, NextLayerKeeps
<1>21. CASE Dead \/ UNCHANGED vars
  <2>1. UNCHANGED vars
    BY <1>21 DEF Dead
  <2> QED BY <2>1, LayerStutterKeeps
<1> QED BY <1>1, <1>2, <1>3, <1>4, <1>5, <1>6, <1>7, <1>8, <1>9, <1>10, <1>11, <1>12, <1>13,
           <1>14, <1>15, <1>16, <1>17, <1>18, <1>19, <1>20, <1>21 DEF Next

\* The inductive invariant of a layer's weights, for any dimensions.
LEMMA LayerInvariant == Spec => []LayerIInv
BY LayersInitInv, LayerStepKeeps, PTL DEF Spec

\* real_fill_layer puts every row of every matrix where the forward pass looks for it,
\* for any dimensions and whatever the arena held before, and never runs out of arena.
THEOREM LayerRows == Spec => []LayerRowsRight
<1>1. LayerIInv => LayerRowsRight
  <2> SUFFICES ASSUME LayerIInv PROVE LayerRowsRight
    OBVIOUS
  <2>1. died # "arena"
    BY DEF LayerIInv, LayerTypeInv
  <2>2. phase \in {"attn", "dense", "router", "mixed"} => RowsPlaced
    BY DEF LayerIInv, ArenaInv, Using
  <2> QED BY <2>1, <2>2, RowsFound DEF LayerRowsRight, Attn5
<1> QED BY <1>1, LayerInvariant, PTL

\* mlp_moe_forward adds every chosen expert and every shared expert once, each computed
\* with its own matrices of this layer and under its own weight.
THEOREM LayerMixes == Spec => []MixesEachOnce
<1>1. LayerIInv => MixesEachOnce
  BY DEF LayerIInv
<1> QED BY <1>1, LayerInvariant, PTL

\* moe_route_select keeps its promise inside the layers, selection after selection.
THEOREM LayerRoutes == Spec => []RouteIsTopK
<1>1. LayerIInv => RouteIsTopK
  BY DEF LayerIInv, RouteIInv
<1> QED BY <1>1, LayerInvariant, PTL

-----------------------------------------------------------------------------
(* The kernels (Threadgroup).                                              *)

\* What a statement does to the cells of threadgroup memory.
Clears == {"low", "zero"}
Stashes == {"stash max", "stash sum", "stash"}
Reads == {"gather max", "gather sum", "fold"}

Access(a, s) ==
  \/ s \in Clears /\ a[2] = 0 /\ a[3] = "write"
  \/ s \in Stashes /\ a[1] = a[2] /\ a[3] = "write"
  \/ s \in Reads /\ a[3] = "read"

\* No barrier from statement h up to, and without, statement g.
Unfenced(h, g) == \A m \in h..g - 1 : Program[m] # "barrier"

\* The simdgroups are between the same two barriers, and what was touched since the
\* first was touched by a statement after it.
RaceInv ==
  /\ kernel \in Kernels
  /\ pc \in [Simdgroups -> 1..Len(Program) + 1]
  /\ \A a, b \in Simdgroups : Unfenced(pc[a], pc[b])
  /\ \A a \in touched :
       /\ a[2] \in Simdgroups
       /\ \E h \in 1..pc[a[2]] - 1 : Access(a, Program[h]) /\ Unfenced(h, pc[a[2]])


\* The statements of all the kernels.
Words ==
  {"sum", "max", "exp", "scan", "merge", "low", "zero", "stash max", "stash sum", "stash",
   "gather max", "gather sum", "fold", "write", "barrier"}

\* The kernels' statements, one after the other.
PlainProgram == <<"sum", "zero", "barrier", "stash sum", "barrier", "gather sum", "write">>
SoftmaxProgram ==
  <<"max", "low", "barrier", "stash max", "barrier", "gather max", "barrier", "exp",
    "zero", "barrier", "stash sum", "barrier", "gather sum", "write">>
AttentionProgram == <<"scan", "merge", "stash", "barrier", "fold", "write">>

\* Their entries.
LEMMA Entries ==
  /\ PlainProgram \in Seq(Words) /\ Len(PlainProgram) = 7
  /\ PlainProgram[1] = "sum" /\ PlainProgram[2] = "zero"
  /\ PlainProgram[3] = "barrier" /\ PlainProgram[4] = "stash sum"
  /\ PlainProgram[5] = "barrier" /\ PlainProgram[6] = "gather sum"
  /\ PlainProgram[7] = "write"
  /\ SoftmaxProgram \in Seq(Words) /\ Len(SoftmaxProgram) = 14
  /\ SoftmaxProgram[1] = "max" /\ SoftmaxProgram[2] = "low"
  /\ SoftmaxProgram[3] = "barrier" /\ SoftmaxProgram[4] = "stash max"
  /\ SoftmaxProgram[5] = "barrier" /\ SoftmaxProgram[6] = "gather max"
  /\ SoftmaxProgram[7] = "barrier" /\ SoftmaxProgram[8] = "exp"
  /\ SoftmaxProgram[9] = "zero" /\ SoftmaxProgram[10] = "barrier"
  /\ SoftmaxProgram[11] = "stash sum" /\ SoftmaxProgram[12] = "barrier"
  /\ SoftmaxProgram[13] = "gather sum" /\ SoftmaxProgram[14] = "write"
  /\ AttentionProgram \in Seq(Words) /\ Len(AttentionProgram) = 6
  /\ AttentionProgram[1] = "scan" /\ AttentionProgram[2] = "merge"
  /\ AttentionProgram[3] = "stash" /\ AttentionProgram[4] = "barrier"
  /\ AttentionProgram[5] = "fold" /\ AttentionProgram[6] = "write"
BY DEF PlainProgram, SoftmaxProgram, AttentionProgram, Words

\* The sequence s is what q has after its first k entries.
Fits(s, q, k) == \A h \in 1..Len(s) : s[h] = q[k + h]

\* Two pieces that follow each other in q, joined.
LEMMA JoinFits ==
  ASSUME NEW S, NEW q, NEW r \in Seq(S), NEW u \in Seq(S), NEW m, NEW n,
         Len(r) = m, Fits(r, q, 0), Len(u) = n, Fits(u, q, m)
  PROVE  r \o u \in Seq(S) /\ Len(r \o u) = m + n /\ Fits(r \o u, q, 0)
<1> DEFINE p == r \o u
<1>1. p \in Seq(S) /\ Len(p) = Len(r) + Len(u)
  BY ConcatProperties, Zenon
<1>2. \A h \in 1..Len(r) + Len(u) : p[h] = IF h <= Len(r) THEN r[h] ELSE u[h - Len(r)]
  BY ConcatProperties, Zenon
<1>3. Len(r) \in Nat /\ Len(u) \in Nat
  OBVIOUS
<1> HIDE DEF p
<1>4. ASSUME NEW h \in 1..Len(p) PROVE p[h] = q[0 + h]
  <2>1. CASE h <= Len(r)
    <3>1. h \in 1..Len(r) /\ h \in 1..Len(r) + Len(u) /\ 0 + h = h
      BY <1>1, <1>3, <2>1
    <3> QED BY <1>2, <2>1, <3>1 DEF Fits
  <2>2. CASE ~(h <= Len(r))
    <3>1. h - Len(r) \in 1..Len(u) /\ h \in 1..Len(r) + Len(u) /\ Len(r) + (h - Len(r)) = 0 + h
      BY <1>1, <1>3, <2>2
    <3>2. u[h - Len(r)] = q[Len(r) + (h - Len(r))]
      BY <3>1, Zenon DEF Fits
    <3> QED BY <1>2, <2>2, <3>1, <3>2
  <2> QED BY <2>1, <2>2
<1>5. Fits(p, q, 0)
  BY <1>4 DEF Fits
<1> QED BY <1>1, <1>5, Zenon DEF p

\* Pieces of one, two and five entries.
LEMMA ShortFits ==
  ASSUME NEW s, NEW q, NEW k \in Nat
  PROVE  /\ Len(s) = 1 /\ s[1] = q[k + 1] => Fits(s, q, k)
         /\ Len(s) = 2 /\ s[1] = q[k + 1] /\ s[2] = q[k + 2] => Fits(s, q, k)
         /\ /\ Len(s) = 5 /\ s[1] = q[k + 1] /\ s[2] = q[k + 2] /\ s[3] = q[k + 3]
            /\ s[4] = q[k + 4] /\ s[5] = q[k + 5]
            => Fits(s, q, k)
<1>1. ASSUME Len(s) = 1, s[1] = q[k + 1] PROVE Fits(s, q, k)
  <2> SUFFICES ASSUME NEW h \in 1..1 PROVE s[h] = q[k + h]
    BY <1>1 DEF Fits
  <2>1. h = 1
    OBVIOUS
  <2> QED BY <1>1, <2>1, Zenon
<1>2. ASSUME Len(s) = 2, s[1] = q[k + 1], s[2] = q[k + 2] PROVE Fits(s, q, k)
  <2> SUFFICES ASSUME NEW h \in 1..2 PROVE s[h] = q[k + h]
    BY <1>2 DEF Fits
  <2>1. h = 1 \/ h = 2
    OBVIOUS
  <2> QED BY <1>2, <2>1, Zenon
<1>3. ASSUME Len(s) = 5, s[1] = q[k + 1], s[2] = q[k + 2], s[3] = q[k + 3],
             s[4] = q[k + 4], s[5] = q[k + 5]
      PROVE  Fits(s, q, k)
  <2> SUFFICES ASSUME NEW h \in 1..5 PROVE s[h] = q[k + h]
    BY <1>3 DEF Fits
  <2>1. h = 1 \/ h = 2 \/ h = 3 \/ h = 4 \/ h = 5
    OBVIOUS
  <2> QED BY <1>3, <2>1, Zenon
<1> QED BY <1>1, <1>2, <1>3

\* What is joined to make the program q: w at place k.
Piece(w, q, n, k) == w \in Seq(Words) /\ Len(w) = n /\ Fits(w, q, k)

\* The pieces the programs are joined from.
LEMMA Pieces ==
  /\ Piece(<<"sum">>, PlainProgram, 1, 0) /\ Piece(ReduceSum, PlainProgram, 5, 1)
  /\ Piece(<<"write">>, PlainProgram, 1, 6)
  /\ Piece(<<"max">>, SoftmaxProgram, 1, 0) /\ Piece(ReduceMax, SoftmaxProgram, 5, 1)
  /\ Piece(<<"barrier", "exp">>, SoftmaxProgram, 2, 6)
  /\ Piece(ReduceSum, SoftmaxProgram, 5, 8) /\ Piece(<<"write">>, SoftmaxProgram, 1, 13)
<1>1. ASSUME NEW w \in Words PROVE <<w>> \in Seq(Words) /\ Len(<<w>>) = 1 /\ <<w>>[1] = w
  OBVIOUS
<1>2. /\ ReduceMax \in Seq(Words) /\ Len(ReduceMax) = 5
      /\ ReduceMax[1] = "low" /\ ReduceMax[2] = "barrier" /\ ReduceMax[3] = "stash max"
      /\ ReduceMax[4] = "barrier" /\ ReduceMax[5] = "gather max"
  BY DEF ReduceMax, Words
<1>3. /\ ReduceSum \in Seq(Words) /\ Len(ReduceSum) = 5
      /\ ReduceSum[1] = "zero" /\ ReduceSum[2] = "barrier" /\ ReduceSum[3] = "stash sum"
      /\ ReduceSum[4] = "barrier" /\ ReduceSum[5] = "gather sum"
  BY DEF ReduceSum, Words
<1> DEFINE between == <<"barrier", "exp">>
<1>4. between \in Seq(Words) /\ Len(between) = 2 /\ between[1] = "barrier" /\ between[2] = "exp"
  BY DEF Words
<1>5. "sum" \in Words /\ "max" \in Words /\ "write" \in Words
  BY DEF Words
<1> HIDE DEF between
<1>6. Piece(between, SoftmaxProgram, 2, 6)
  <2>1. between[1] = SoftmaxProgram[7] /\ between[2] = SoftmaxProgram[8]
    BY <1>4, Entries
  <2>2. between[1] = SoftmaxProgram[6 + 1] /\ between[2] = SoftmaxProgram[6 + 2]
    BY <2>1
  <2> QED BY <1>4, <2>2, ShortFits DEF Piece
<1>7. Piece(ReduceMax, SoftmaxProgram, 5, 1)
  <2>1. /\ ReduceMax[1] = SoftmaxProgram[2] /\ ReduceMax[2] = SoftmaxProgram[3]
        /\ ReduceMax[3] = SoftmaxProgram[4] /\ ReduceMax[4] = SoftmaxProgram[5]
        /\ ReduceMax[5] = SoftmaxProgram[6]
    BY <1>2, Entries
  <2>2. /\ ReduceMax[1] = SoftmaxProgram[1 + 1] /\ ReduceMax[2] = SoftmaxProgram[1 + 2]
        /\ ReduceMax[3] = SoftmaxProgram[1 + 3] /\ ReduceMax[4] = SoftmaxProgram[1 + 4]
        /\ ReduceMax[5] = SoftmaxProgram[1 + 5]
    BY <2>1
  <2> QED BY <1>2, <2>2, ShortFits DEF Piece
<1>8. Piece(ReduceSum, PlainProgram, 5, 1)
  <2>1. /\ ReduceSum[1] = PlainProgram[2] /\ ReduceSum[2] = PlainProgram[3]
        /\ ReduceSum[3] = PlainProgram[4] /\ ReduceSum[4] = PlainProgram[5]
        /\ ReduceSum[5] = PlainProgram[6]
    BY <1>3, Entries
  <2>2. /\ ReduceSum[1] = PlainProgram[1 + 1] /\ ReduceSum[2] = PlainProgram[1 + 2]
        /\ ReduceSum[3] = PlainProgram[1 + 3] /\ ReduceSum[4] = PlainProgram[1 + 4]
        /\ ReduceSum[5] = PlainProgram[1 + 5]
    BY <2>1
  <2> QED BY <1>3, <2>2, ShortFits DEF Piece
<1>9. Piece(ReduceSum, SoftmaxProgram, 5, 8)
  <2>1. /\ ReduceSum[1] = SoftmaxProgram[9] /\ ReduceSum[2] = SoftmaxProgram[10]
        /\ ReduceSum[3] = SoftmaxProgram[11] /\ ReduceSum[4] = SoftmaxProgram[12]
        /\ ReduceSum[5] = SoftmaxProgram[13]
    BY <1>3, Entries
  <2>2. /\ ReduceSum[1] = SoftmaxProgram[8 + 1] /\ ReduceSum[2] = SoftmaxProgram[8 + 2]
        /\ ReduceSum[3] = SoftmaxProgram[8 + 3] /\ ReduceSum[4] = SoftmaxProgram[8 + 4]
        /\ ReduceSum[5] = SoftmaxProgram[8 + 5]
    BY <2>1
  <2> QED BY <1>3, <2>2, ShortFits DEF Piece
<1>10. ASSUME NEW w \in Words, NEW q, NEW k \in Nat, w = q[k + 1] PROVE Piece(<<w>>, q, 1, k)
  BY <1>1, <1>10, ShortFits DEF Piece
<1>11. /\ Piece(<<"sum">>, PlainProgram, 1, 0) /\ Piece(<<"write">>, PlainProgram, 1, 6)
       /\ Piece(<<"max">>, SoftmaxProgram, 1, 0) /\ Piece(<<"write">>, SoftmaxProgram, 1, 13)
  <2>1. /\ "sum" = PlainProgram[1] /\ "write" = PlainProgram[7]
        /\ "max" = SoftmaxProgram[1] /\ "write" = SoftmaxProgram[14]
    BY Entries
  <2>2. /\ "sum" = PlainProgram[0 + 1] /\ "write" = PlainProgram[6 + 1]
        /\ "max" = SoftmaxProgram[0 + 1] /\ "write" = SoftmaxProgram[13 + 1]
        /\ 0 \in Nat /\ 6 \in Nat /\ 13 \in Nat
    BY <2>1
  <2> QED BY <1>5, <1>10, <2>2, Zenon
<1> QED BY <1>6, <1>7, <1>8, <1>9, <1>11 DEF between

\* They are what the inlined reductions give.
LEMMA StatementsAre ==
  /\ Statements("rmsnorm") = PlainProgram /\ Statements("matvec") = PlainProgram
  /\ Statements("softmax") = SoftmaxProgram
  /\ Statements("banded_attn") = AttentionProgram
<1>1. ASSUME NEW r, NEW u, NEW q, NEW m \in Nat, NEW n \in Nat, Piece(r, q, m, 0), Piece(u, q, n, m)
      PROVE  Piece(r \o u, q, m + n, 0)
  <2>1. /\ r \in Seq(Words) /\ Len(r) = m /\ Fits(r, q, 0)
        /\ u \in Seq(Words) /\ Len(u) = n /\ Fits(u, q, m)
    BY <1>1 DEF Piece
  <2>2. r \o u \in Seq(Words) /\ Len(r \o u) = m + n /\ Fits(r \o u, q, 0)
    BY <2>1, JoinFits
  <2> QED BY <2>2, Zenon DEF Piece
<1>2. /\ 1 + 5 = 6 /\ 6 + 1 = 7 /\ 6 + 2 = 8 /\ 8 + 5 = 13 /\ 13 + 1 = 14
      /\ 1 \in Nat /\ 2 \in Nat /\ 5 \in Nat /\ 6 \in Nat /\ 8 \in Nat /\ 13 \in Nat
  OBVIOUS
<1>3. <<"sum">> \o ReduceSum \o <<"write">> = PlainProgram
  <2>1. Piece(<<"sum">> \o ReduceSum, PlainProgram, 6, 0)
    BY <1>1, <1>2, Pieces, Zenon
  <2> DEFINE p == <<"sum">> \o ReduceSum \o <<"write">>
  <2>2. Piece(p, PlainProgram, 7, 0)
    BY <1>1, <1>2, <2>1, Pieces, Zenon
  <2> HIDE DEF p
  <2>3. p = PlainProgram
    <3>1. PlainProgram \in Seq(Words) /\ Len(PlainProgram) = 7
      BY Entries
    <3>2. p \in Seq(Words) /\ Len(p) = 7 /\ \A h \in 1..7 : p[h] = PlainProgram[0 + h]
      BY <2>2 DEF Piece, Fits
    <3>3. \A h \in 1..7 : p[h] = PlainProgram[h]
      BY <3>2
    <3> QED BY <3>1, <3>2, <3>3, SeqEqual
  <2> QED BY <2>3, Zenon DEF p
<1>4. <<"max">> \o ReduceMax \o <<"barrier", "exp">> \o ReduceSum \o <<"write">> = SoftmaxProgram
  <2>1. Piece(<<"max">> \o ReduceMax, SoftmaxProgram, 6, 0)
    BY <1>1, <1>2, Pieces, Zenon
  <2>2. Piece(<<"max">> \o ReduceMax \o <<"barrier", "exp">>, SoftmaxProgram, 8, 0)
    BY <1>1, <1>2, <2>1, Pieces, Zenon
  <2>3. Piece(<<"max">> \o ReduceMax \o <<"barrier", "exp">> \o ReduceSum, SoftmaxProgram, 13, 0)
    BY <1>1, <1>2, <2>2, Pieces, Zenon
  <2> DEFINE p == <<"max">> \o ReduceMax \o <<"barrier", "exp">> \o ReduceSum \o <<"write">>
  <2>4. Piece(p, SoftmaxProgram, 14, 0)
    BY <1>1, <1>2, <2>3, Pieces, Zenon
  <2> HIDE DEF p
  <2>5. p = SoftmaxProgram
    <3>1. SoftmaxProgram \in Seq(Words) /\ Len(SoftmaxProgram) = 14
      BY Entries
    <3>2. p \in Seq(Words) /\ Len(p) = 14 /\ \A h \in 1..14 : p[h] = SoftmaxProgram[0 + h]
      BY <2>4 DEF Piece, Fits
    <3>3. \A h \in 1..14 : p[h] = SoftmaxProgram[h]
      BY <3>2
    <3> QED BY <3>1, <3>2, <3>3, SeqEqual
  <2> QED BY <2>5, Zenon DEF p
<1>5. /\ Statements("rmsnorm") = <<"sum">> \o ReduceSum \o <<"write">>
      /\ Statements("matvec") = <<"sum">> \o ReduceSum \o <<"write">>
      /\ Statements("softmax") =
           <<"max">> \o ReduceMax \o <<"barrier", "exp">> \o ReduceSum \o <<"write">>
      /\ Statements("banded_attn") = <<"scan", "merge", "stash", "barrier", "fold", "write">>
  BY Zenon DEF Statements
<1> QED BY <1>3, <1>4, <1>5 DEF AttentionProgram

\* Two statements between the same two barriers touch the cells in the same way.
LEMMA SectionsAgree ==
  ASSUME kernel \in Kernels, NEW h \in 1..Len(Program), NEW g \in 1..Len(Program),
         h <= g, Unfenced(h, g)
  PROVE  /\ Program[h] \in Clears => Program[g] \notin Stashes \cup Reads
         /\ Program[h] \in Stashes => Program[g] \notin Clears \cup Reads
         /\ Program[h] \in Reads => Program[g] \notin Clears \cup Stashes
<1>1. \A m \in Int : Program[m] = "barrier" => ~(h <= m /\ m < g)
  BY DEF Unfenced
<1>2. CASE Program = PlainProgram
  <2>1. Len(PlainProgram) = 7 /\ PlainProgram[3] = "barrier" /\ PlainProgram[5] = "barrier"
    BY Entries
  <2>2. \A m \in 1..7 :
          /\ PlainProgram[m] \in Clears => m = 2
          /\ PlainProgram[m] \in Stashes => m = 4
          /\ PlainProgram[m] \in Reads => m = 6
    <3> TAKE m \in 1..7
    <3>1. m = 1 \/ m = 2 \/ m = 3 \/ m = 4 \/ m = 5 \/ m = 6 \/ m = 7
      OBVIOUS
    <3> QED BY <3>1, Entries DEF Clears, Stashes, Reads
  <2>3. ~(h <= 3 /\ 3 < g) /\ ~(h <= 5 /\ 5 < g)
    BY <1>1, <1>2, <2>1
  <2> QED BY <1>2, <2>1, <2>2, <2>3
<1>3. CASE Program = SoftmaxProgram
  <2>1. /\ Len(SoftmaxProgram) = 14 /\ SoftmaxProgram[3] = "barrier"
        /\ SoftmaxProgram[5] = "barrier" /\ SoftmaxProgram[7] = "barrier"
        /\ SoftmaxProgram[10] = "barrier" /\ SoftmaxProgram[12] = "barrier"
    BY Entries
  <2>2. \A m \in 1..14 :
          /\ SoftmaxProgram[m] \in Clears => m \in {2, 9}
          /\ SoftmaxProgram[m] \in Stashes => m \in {4, 11}
          /\ SoftmaxProgram[m] \in Reads => m \in {6, 13}
    <3> TAKE m \in 1..14
    <3>1. m = 1 \/ m = 2 \/ m = 3 \/ m = 4 \/ m = 5 \/ m = 6 \/ m = 7
          \/ m = 8 \/ m = 9 \/ m = 10 \/ m = 11 \/ m = 12 \/ m = 13 \/ m = 14
      OBVIOUS
    <3> QED BY <3>1, Entries DEF Clears, Stashes, Reads
  <2>3. /\ ~(h <= 3 /\ 3 < g) /\ ~(h <= 5 /\ 5 < g) /\ ~(h <= 7 /\ 7 < g)
        /\ ~(h <= 10 /\ 10 < g) /\ ~(h <= 12 /\ 12 < g)
    BY <1>1, <1>3, <2>1
  <2> QED BY <1>3, <2>1, <2>2, <2>3
<1>4. CASE Program = AttentionProgram
  <2>1. Len(AttentionProgram) = 6 /\ AttentionProgram[4] = "barrier"
    BY Entries
  <2>2. \A m \in 1..6 :
          /\ AttentionProgram[m] \notin Clears
          /\ AttentionProgram[m] \in Stashes => m = 3
          /\ AttentionProgram[m] \in Reads => m = 5
    <3> TAKE m \in 1..6
    <3>1. m = 1 \/ m = 2 \/ m = 3 \/ m = 4 \/ m = 5 \/ m = 6
      OBVIOUS
    <3> QED BY <3>1, Entries DEF Clears, Stashes, Reads
  <2>3. ~(h <= 4 /\ 4 < g)
    BY <1>1, <1>4, <2>1
  <2> QED BY <1>4, <2>1, <2>2, <2>3
<1> QED BY <1>2, <1>3, <1>4, StatementsAre DEF Kernels, Program

\* A program has a length, and its barriers and the other statements that touch
\* threadgroup memory are different ones.
LEMMA ProgramFacts ==
  /\ kernel \in Kernels => Len(Program) \in Nat
  /\ "barrier" \notin Clears \cup Stashes \cup Reads
<1>1. "barrier" \notin Clears \cup Stashes \cup Reads
  BY DEF Clears, Stashes, Reads
<1>2. ASSUME kernel \in Kernels PROVE Len(Program) \in Nat
  <2>1. Program \in {PlainProgram, SoftmaxProgram, AttentionProgram}
    BY <1>2, StatementsAre DEF Kernels, Program
  <2>2. Len(PlainProgram) \in Nat /\ Len(SoftmaxProgram) \in Nat /\ Len(AttentionProgram) \in Nat
    <3>1. Len(PlainProgram) = 7 /\ Len(SoftmaxProgram) = 14 /\ Len(AttentionProgram) = 6
      BY Entries
    <3> QED BY <3>1
  <2> QED BY <2>1, <2>2, Zenon
<1> QED BY <1>1, <1>2

\* Two accesses to a cell by different simdgroups, between two barriers, are reads.
LEMMA AccessesAgree ==
  ASSUME RaceInv, NEW a \in touched, NEW b \in touched, a[1] = b[1], a[2] # b[2],
         NEW h \in 1..pc[a[2]] - 1, Access(a, Program[h]), Unfenced(h, pc[a[2]]),
         NEW g \in 1..pc[b[2]] - 1, Access(b, Program[g]), h <= g
  PROVE  a[3] = "read" /\ b[3] = "read"
<1>1. /\ a[2] \in Simdgroups /\ b[2] \in Simdgroups /\ kernel \in Kernels
      /\ pc[a[2]] \in 1..Len(Program) + 1 /\ pc[b[2]] \in 1..Len(Program) + 1
      /\ Unfenced(pc[a[2]], pc[b[2]])
  BY DEF RaceInv
<1>2. Len(Program) \in Nat
  BY <1>1, ProgramFacts
<1>3. h \in 1..Len(Program) /\ g \in 1..Len(Program)
  BY <1>1, <1>2
<1>4. Unfenced(h, g)
  <2> SUFFICES ASSUME NEW m \in h..g - 1 PROVE Program[m] # "barrier"
    BY DEF Unfenced
  <2>1. m \in h..pc[a[2]] - 1 \/ m \in pc[a[2]]..pc[b[2]] - 1
    BY <1>1, <1>2, <1>3
  <2> QED BY <1>1, <2>1 DEF Unfenced
<1>5. /\ Program[h] \in Clears => Program[g] \notin Stashes \cup Reads
      /\ Program[h] \in Stashes => Program[g] \notin Clears \cup Reads
      /\ Program[h] \in Reads => Program[g] \notin Clears \cup Stashes
  BY <1>1, <1>3, <1>4, SectionsAgree
<1> QED BY <1>5 DEF Access

\* So the invariant excludes a race.
LEMMA RaceInvExcludes == RaceInv => NoSharedRace
<1> SUFFICES ASSUME RaceInv, NEW a \in touched, NEW b \in touched, a[1] = b[1], a[2] # b[2]
             PROVE  a[3] = "read" /\ b[3] = "read"
  BY DEF NoSharedRace
<1>1. PICK h \in 1..pc[a[2]] - 1 : Access(a, Program[h]) /\ Unfenced(h, pc[a[2]])
  BY DEF RaceInv
<1>2. PICK g \in 1..pc[b[2]] - 1 : Access(b, Program[g]) /\ Unfenced(g, pc[b[2]])
  BY DEF RaceInv
<1>3. h <= g \/ g <= h
  OBVIOUS
<1>4. CASE h <= g
  BY <1>1, <1>2, <1>4, AccessesAgree
<1>5. CASE g <= h
  BY <1>1, <1>2, <1>5, AccessesAgree
<1> QED BY <1>3, <1>4, <1>5

\* A simdgroup past a statement that is no barrier, which touched what that
\* statement touches, is between the same two barriers still.
LEMMA AdvanceKeeps ==
  ASSUME RaceInv, NEW sg \in Simdgroups, Advance(sg), UNCHANGED row,
         pc[sg] <= Len(Program), Program[pc[sg]] # "barrier",
         \A a \in touched' : a \in touched \/ (a[2] = sg /\ Access(a, Program[pc[sg]]))
  PROVE  RaceInv'
<1> DEFINE P == Program
           G == Simdgroups
           L == Len(P)
<1>1. /\ kernel \in Kernels /\ kernel' = kernel /\ ntg' = ntg /\ L \in Nat
      /\ pc \in [G -> 1..L + 1] /\ pc' = [pc EXCEPT ![sg] = @ + 1]
  BY ProgramFacts DEF RaceInv, row, Advance
<1>2. Program' = P /\ Simdgroups' = G
  BY <1>1 DEF Program, Simdgroups
<1>3. \A h, g : Unfenced(h, g)' <=> \A m \in h..g - 1 : P[m] # "barrier"
  BY <1>2 DEF Unfenced
<1>4. \A h, g : Unfenced(h, g) <=> \A m \in h..g - 1 : P[m] # "barrier"
  BY DEF Unfenced
<1>5. \A a, b \in G : \A m \in pc[a]..pc[b] - 1 : P[m] # "barrier"
  BY <1>4 DEF RaceInv
<1>6. \A a \in touched : /\ a[2] \in G
                         /\ \E h \in 1..pc[a[2]] - 1 :
                              Access(a, P[h]) /\ \A m \in h..pc[a[2]] - 1 : P[m] # "barrier"
  BY <1>4 DEF RaceInv
<1>7. sg \in G /\ pc[sg] <= L /\ P[pc[sg]] # "barrier"
  OBVIOUS
<1> HIDE DEF P, G, L
<1>8. pc'[sg] = pc[sg] + 1 /\ \A a \in G : a # sg => pc'[a] = pc[a]
  BY <1>1, <1>7
<1>9. pc' \in [G -> 1..L + 1]
  BY <1>1, <1>7
<1>10. ASSUME NEW a \in G, NEW b \in G, NEW m \in pc'[a]..pc'[b] - 1 PROVE P[m] # "barrier"
  <2>1. pc[a] \in Nat /\ pc[b] \in Nat /\ pc[sg] \in Nat
    BY <1>1, <1>7
  <2>2. m \in pc[a]..pc[b] - 1 \/ m = pc[sg]
    BY <1>7, <1>8, <2>1
  <2> QED BY <1>5, <1>7, <2>2
<1>11. ASSUME NEW a \in touched'
       PROVE  /\ a[2] \in G
              /\ \E h \in 1..pc'[a[2]] - 1 :
                   Access(a, P[h]) /\ \A m \in h..pc'[a[2]] - 1 : P[m] # "barrier"
  <2>1. CASE a \in touched
    <3>1. PICK h \in 1..pc[a[2]] - 1 :
            Access(a, P[h]) /\ \A m \in h..pc[a[2]] - 1 : P[m] # "barrier"
      BY <1>6, <2>1
    <3>2. a[2] \in G /\ pc[a[2]] \in Nat /\ pc[sg] \in Nat
      BY <1>1, <1>6, <1>7, <2>1
    <3>3. h \in 1..pc'[a[2]] - 1
      BY <1>8, <3>2
    <3>4. ASSUME NEW m \in h..pc'[a[2]] - 1 PROVE P[m] # "barrier"
      <4>1. m \in h..pc[a[2]] - 1 \/ m = pc[sg]
        BY <1>8, <3>2
      <4> QED BY <1>7, <3>1, <4>1
    <3> QED BY <3>1, <3>2, <3>3, <3>4
  <2>2. CASE a[2] = sg /\ Access(a, P[pc[sg]])
    <3>1. pc[sg] \in Nat /\ pc[sg] >= 1
      BY <1>1, <1>7
    <3>2. pc[sg] \in 1..pc'[a[2]] - 1 /\ \A m \in pc[sg]..pc'[a[2]] - 1 : m = pc[sg]
      BY <1>8, <2>2, <3>1
    <3> QED BY <1>7, <2>2, <3>2
  <2> QED BY <2>1, <2>2 DEF P
<1>12. Len(Program)' = L
  BY <1>2 DEF L
<1>13. \A a, b \in G : Unfenced(pc[a], pc[b])'
  BY <1>3, <1>10 DEF Unfenced
<1> QED BY <1>1, <1>2, <1>3, <1>9, <1>11, <1>12, <1>13 DEF RaceInv

\* Every step keeps the invariant.
LEMMA RaceStep == RaceInv /\ [GroupNext]_groupVars => RaceInv'
<1> SUFFICES ASSUME RaceInv, [GroupNext]_groupVars PROVE RaceInv'
  OBVIOUS
<1>1. ASSUME NEW sg, NEW w, AtStatement(sg, w), w # "barrier"
      PROVE  pc[sg] <= Len(Program) /\ Program[pc[sg]] = w /\ Program[pc[sg]] # "barrier"
  BY <1>1 DEF AtStatement
<1>2. ASSUME NEW sg \in Simdgroups, Private(sg) PROVE RaceInv'
  <2>1. Advance(sg) /\ UNCHANGED row /\ touched' = touched
    BY <1>2 DEF Private
  <2>2. \E w : AtStatement(sg, w) /\ w # "barrier"
    BY <1>2 DEF Private
  <2> QED BY <1>1, <2>1, <2>2, AdvanceKeeps
<1>3. ASSUME NEW sg \in Simdgroups, Clear(sg) PROVE RaceInv'
  <2>1. Advance(sg) /\ UNCHANGED row
    BY <1>3 DEF Clear
  <2>2. PICK w \in Clears : AtStatement(sg, w)
    BY <1>3 DEF Clear, Clears
  <2>3. pc[sg] <= Len(Program) /\ Program[pc[sg]] = w /\ Program[pc[sg]] # "barrier"
    BY <1>1, <2>2, ProgramFacts
  <2>4. \A a \in touched' : a \in touched \/ (a[2] = sg /\ Access(a, w))
    <3>1. \A c \in Lanes : <<c, sg, "write">>[2] = sg /\ <<c, sg, "write">>[3] = "write"
      OBVIOUS
    <3> QED BY <1>3, <2>2, <3>1 DEF Clear, Access
  <2> QED BY <2>1, <2>3, <2>4, AdvanceKeeps
<1>4. ASSUME NEW sg \in Simdgroups, Stash(sg) PROVE RaceInv'
  <2>1. Advance(sg) /\ UNCHANGED row /\ touched' = touched \cup {<<sg, sg, "write">>}
    BY <1>4 DEF Stash
  <2>2. PICK w \in Stashes : AtStatement(sg, w)
    BY <1>4 DEF Stash, Stashes
  <2>3. pc[sg] <= Len(Program) /\ Program[pc[sg]] = w /\ Program[pc[sg]] # "barrier"
    BY <1>1, <2>2, ProgramFacts
  <2>4. \A a \in touched' : a \in touched \/ (a[2] = sg /\ Access(a, w))
    BY <2>1, <2>2 DEF Access
  <2> QED BY <2>1, <2>3, <2>4, AdvanceKeeps
<1>5. ASSUME NEW sg \in Simdgroups, Gather(sg) PROVE RaceInv'
  <2>1. Advance(sg) /\ UNCHANGED row /\ touched' = touched \cup {<<c, sg, "read">> : c \in Lanes}
    BY <1>5 DEF Gather
  <2>2. PICK w \in Reads : AtStatement(sg, w)
    BY <1>5 DEF Gather, Reads
  <2>3. pc[sg] <= Len(Program) /\ Program[pc[sg]] = w /\ Program[pc[sg]] # "barrier"
    BY <1>1, <2>2, ProgramFacts
  <2>4. \A a \in touched' : a \in touched \/ (a[2] = sg /\ Access(a, w))
    <3>1. \A c \in Lanes : <<c, sg, "read">>[2] = sg /\ <<c, sg, "read">>[3] = "read"
      OBVIOUS
    <3> QED BY <2>1, <2>2, <3>1 DEF Access
  <2> QED BY <2>1, <2>3, <2>4, AdvanceKeeps
<1>6. ASSUME NEW sg \in Simdgroups, Fold(sg) PROVE RaceInv'
  <2>1. Advance(sg) /\ UNCHANGED row
    BY <1>6 DEF Fold
  <2>2. "fold" \in Reads /\ AtStatement(sg, "fold")
    BY <1>6 DEF Fold, Reads
  <2>3. pc[sg] <= Len(Program) /\ Program[pc[sg]] = "fold" /\ Program[pc[sg]] # "barrier"
    BY <1>1, <2>2, ProgramFacts
  <2>4. \A a \in touched' : a \in touched \/ (a[2] = sg /\ Access(a, "fold"))
    <3>1. \A g \in Simdgroups : <<g, sg, "read">>[2] = sg /\ <<g, sg, "read">>[3] = "read"
      OBVIOUS
    <3> QED BY <1>6, <2>2, <3>1 DEF Fold, Access
  <2> QED BY <2>1, <2>3, <2>4, AdvanceKeeps
<1>7. ASSUME NEW sg \in Simdgroups, Write(sg) PROVE RaceInv'
  <2>1. Advance(sg) /\ UNCHANGED row /\ touched' = touched /\ AtStatement(sg, "write")
    BY <1>7 DEF Write
  <2> QED BY <1>1, <2>1, AdvanceKeeps
<1>8. CASE Barrier
  <2>1. /\ \A sg \in Simdgroups : pc[sg] <= Len(Program) /\ Program[pc[sg]] = "barrier"
        /\ pc' = [sg \in Simdgroups |-> pc[sg] + 1] /\ touched' = {} /\ UNCHANGED row
    BY <1>8 DEF Barrier, AtStatement
  <2>2. /\ kernel' = kernel /\ Program' = Program /\ Simdgroups' = Simdgroups
        /\ kernel \in Kernels /\ Len(Program) \in Nat
        /\ pc \in [Simdgroups -> 1..Len(Program) + 1]
    BY <2>1, ProgramFacts DEF row, Program, Simdgroups, RaceInv
  <2>3. \A a, b \in Simdgroups : pc[a] = pc[b]
    <3> SUFFICES ASSUME NEW a \in Simdgroups, NEW b \in Simdgroups, pc[a] < pc[b] PROVE FALSE
      BY <2>2
    <3>1. pc[a] \in pc[a]..pc[b] - 1
      BY <2>2
    <3> QED BY <2>1, <3>1 DEF RaceInv, Unfenced
  <2>4. \A a, b \in Simdgroups : ~(\E m \in Int : m \in pc'[a]..pc'[b] - 1)
    BY <2>1, <2>2, <2>3
  <2>5. \A a, b \in Simdgroups : Unfenced(pc[a], pc[b])'
    BY <2>1, <2>2, <2>4 DEF Unfenced
  <2>6. pc' \in [Simdgroups -> 1..Len(Program) + 1]
    BY <2>1, <2>2
  <2> QED BY <2>1, <2>2, <2>5, <2>6 DEF RaceInv
<1>9. CASE UNCHANGED groupVars
  BY <1>9 DEF groupVars, row, RaceInv, Unfenced, Program, Simdgroups
<1> QED BY <1>2, <1>3, <1>4, <1>5, <1>6, <1>7, <1>8, <1>9 DEF GroupNext

\* No two simdgroups of a threadgroup race for a cell of threadgroup memory, in any of
\* the four kernels, however many simdgroups there are and however long the row is.
THEOREM KernelsNeverRace == GroupSpec => []NoSharedRace
<1>1. GroupInit => RaceInv
  <2> SUFFICES ASSUME GroupInit PROVE RaceInv
    OBVIOUS
  <2>1. kernel \in Kernels /\ touched = {} /\ pc = [sg \in Simdgroups |-> 1] /\ Len(Program) \in Nat
    BY ProgramFacts DEF GroupInit
  <2>2. \A a, b \in Simdgroups : Unfenced(pc[a], pc[b])
    BY <2>1 DEF Unfenced
  <2> QED BY <2>1, <2>2 DEF RaceInv
<1> QED BY <1>1, RaceStep, RaceInvExcludes, PTL DEF GroupSpec
==============================================================================
