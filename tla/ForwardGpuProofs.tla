--------------------------- MODULE ForwardGpuProofs ---------------------------
(***************************************************************************)
(* On the GPU the cache and the logits follow the text as on the CPU, for  *)
(* every number of layers, kernel size, window, capacity and chunk, on the *)
(* real path and on the tiny one.                                          *)
(*                                                                         *)
(* The argument: ForwardProofs shows of each call's program that, step by  *)
(* step, its instructions make facts about the arrays (Reaches), the last  *)
(* of them that every layer's cache has grown by the chunk and the logits  *)
(* are those of its positions (Goal).  Here each kernel and each step of   *)
(* the host is shown to make what its rule says (GpuSound, HostSound).     *)
(* While a call is in progress there are facts that hold of the arrays     *)
(* now, dispatches queued that lead from them to others (Chain), and a     *)
(* rest of the program that leads from those to the goal (InProgress): an  *)
(* instruction encoded lengthens the chain, a dispatch executed shortens   *)
(* it, and the host touches arrays only when it is empty.  Facts about     *)
(* lengths and the router's choice are the host's alone, and hold whatever *)
(* is queued; a dispatch carries the experts it was encoded with.          *)
(***************************************************************************)
EXTENDS ForwardProofs

-----------------------------------------------------------------------------
(* What a fact says of the state, and when a step leaves it true.          *)

\* The shape of the arrays in it, and of the cache.
CallShape ==
  /\ T \in Nat \ {0} /\ start_pos \in Nat /\ cap \in Nat /\ start_pos + T <= cap
  /\ path \in {"real", "tiny"}
  /\ DOMAIN mem = IF path = "real" THEN Buffers ELSE TinyArrays
  /\ \A b \in DOMAIN mem \ DOMAIN Devices : DOMAIN mem[b] = Rows
  /\ path = "real" => DOMAIN out_host = Rows
  /\ ~overrun

LayerShape ==
  /\ DOMAIN layers = Layer
  /\ \A l \in Layer : CacheNames \cup {"len"} \subseteq DOMAIN layers[l]

\* A step that changes no array but those of W.
OnlyWrites(W) ==
  /\ DOMAIN mem' = DOMAIN mem
  /\ \A b \in DOMAIN mem \cup {"x"} : Content(b)' = Content(b) \/ <<Scratch, b>> \in W
  /\ \A l \in Layer : \A b \in CacheNames : layers'[l][b] = layers[l][b] \/ <<l, b>> \in W
  /\ \A l \in Layer : layers'[l].len = layers[l].len \/ <<Lens, l>> \in W
  /\ out_host' = out_host \/ <<HostSide, "out_host">> \in W
  /\ topk_idx' = topk_idx \/ <<HostSide, "topk">> \in W
  /\ encoding' => encoding \/ <<HostSide, "shut">> \in W

\* The three places that are no layer are apart.
LEMMA Places ==
  /\ Scratch \notin Layer /\ HostSide \notin Layer /\ Lens \notin Layer
  /\ Scratch # HostSide /\ Scratch # Lens /\ HostSide # Lens
BY KeptAt

\* What a fact about a buffer says.
LEMMA FactHolds ==
  ASSUME NEW b, NEW m, NEW l, NEW kind, NEW off
  PROVE  /\ Holds(Fact(b, m, l, kind, off)) <=>
              /\ b \in DOMAIN mem \cup {"x"}
              /\ \A j \in 0..m - 1 : Content(b)[j] = Frame(l, kind, off + j)
         /\ ~OfHost(Fact(b, m, l, kind, off))
<1>1. PICK f : f = Fact(b, m, l, kind, off)
  OBVIOUS
<1>2. f[1] = <<Scratch, b>> /\ f[1][1] = Scratch /\ f[1][2] = b /\ f[2] = m /\ f[3] = l
      /\ f[4] = kind /\ f[5] = off
  BY <1>1 DEF Fact
<1> QED BY <1>1, <1>2, Places DEF Holds, Are, OfHost

\* What a fact about a layer's cache says.
LEMMA CachedHolds ==
  ASSUME NEW l \in Layer, NEW b, NEW m, NEW kind, NEW off
  PROVE  /\ Holds(Cached(l, b, m, kind, off)) <=>
              /\ b \in CacheNames
              /\ \A j \in 0..m - 1 : layers[l][b][j] = Frame(l, kind, off + j)
              /\ b \in HistNames => IsHist(layers[l][b])
         /\ ~OfHost(Cached(l, b, m, kind, off))
<1>1. PICK f : f = Cached(l, b, m, kind, off)
  OBVIOUS
<1>2. f[1] = <<l, b>> /\ f[1][1] = l /\ f[1][2] = b /\ f[2] = m /\ f[3] = l /\ f[4] = kind
      /\ f[5] = off
  BY <1>1 DEF Cached
<1>3. l # Scratch /\ l # HostSide /\ l # Lens
  BY Places
<1>4. Are(layers[l][b], f) <=> \A j \in 0..m - 1 : layers[l][b][j] = Frame(l, kind, off + j)
  BY <1>2 DEF Are
<1>5. Holds(f) <=> b \in CacheNames /\ Are(layers[l][b], f) /\ (b \in HistNames => IsHist(layers[l][b]))
  BY <1>2, <1>3 DEF Holds
<1>6. ~OfHost(f)
  BY <1>2, <1>3 DEF OfHost
<1> QED BY <1>1, <1>4, <1>5, <1>6

\* What the facts about the host's own state say.
LEMMA HostFactsHold ==
  ASSUME NEW m, NEW l, NEW kind, NEW off, NEW e
  PROVE  /\ Holds(OutFact(m, l, kind, off)) <=> \A j \in 0..m - 1 : out_host[j] = Frame(l, kind, off + j)
         /\ ~OfHost(OutFact(m, l, kind, off))
         /\ Holds(TopK(e)) <=> topk_idx = e
         /\ OfHost(TopK(e))
         /\ Holds(LenIs(l, m)) <=> l \in Layer /\ layers[l].len = m
         /\ OfHost(LenIs(l, m))
         /\ Holds(Shut) <=> ~encoding
         /\ ~OfHost(Shut)
<1>1. PICK f, g, h, s : f = OutFact(m, l, kind, off) /\ g = TopK(e) /\ h = LenIs(l, m) /\ s = Shut
  OBVIOUS
<1>2. /\ f[1] = <<HostSide, "out_host">> /\ f[2] = m /\ f[3] = l /\ f[4] = kind /\ f[5] = off
      /\ f[1][1] = HostSide
  BY <1>1 DEF OutFact
<1>3. g[1] = <<HostSide, "topk">> /\ g[2] = e /\ g[1][1] = HostSide
  BY <1>1 DEF TopK
<1>4. h[1] = <<Lens, l>> /\ h[2] = m /\ h[1][1] = Lens /\ h[1][2] = l
  BY <1>1 DEF LenIs
<1>5. s[1] = <<HostSide, "shut">> /\ s[1][1] = HostSide
  BY <1>1 DEF Shut
<1>6. Holds(f) <=> \A j \in 0..m - 1 : out_host[j] = Frame(l, kind, off + j)
  BY <1>2, Places DEF Holds, Are
<1>7. Holds(g) <=> topk_idx = e
  BY <1>3, Places DEF Holds
<1>8. Holds(h) <=> l \in Layer /\ layers[l].len = m
  BY <1>4, Places DEF Holds
<1>9. Holds(s) <=> ~encoding
  BY <1>5, Places DEF Holds
<1>10. ~OfHost(f) /\ OfHost(g) /\ OfHost(h) /\ ~OfHost(s)
  BY <1>2, <1>3, <1>4, <1>5, Places DEF OfHost
<1> QED BY <1>1, <1>6, <1>7, <1>8, <1>9, <1>10

\* The same of the next state.
HoldsRules ==
  /\ \A b, m, l, kind, off :
       Holds(Fact(b, m, l, kind, off)) <=>
         /\ b \in DOMAIN mem \cup {"x"}
         /\ \A j \in 0..m - 1 : Content(b)[j] = Frame(l, kind, off + j)
  /\ \A l \in Layer : \A b, m, kind, off :
       Holds(Cached(l, b, m, kind, off)) <=>
         /\ b \in CacheNames
         /\ \A j \in 0..m - 1 : layers[l][b][j] = Frame(l, kind, off + j)
         /\ b \in HistNames => IsHist(layers[l][b])
  /\ \A m, l, kind, off :
       Holds(OutFact(m, l, kind, off)) <=> \A j \in 0..m - 1 : out_host[j] = Frame(l, kind, off + j)
  /\ \A e : Holds(TopK(e)) <=> topk_idx = e
  /\ \A l, m : Holds(LenIs(l, m)) <=> l \in Layer /\ layers[l].len = m
  /\ Holds(Shut) <=> ~encoding

\* The three together, of the state before a step ...
LEMMA HoldsNow == HoldsRules
<1>1. \A b, m, l, kind, off :
        Holds(Fact(b, m, l, kind, off)) <=>
          /\ b \in DOMAIN mem \cup {"x"}
          /\ \A j \in 0..m - 1 : Content(b)[j] = Frame(l, kind, off + j)
  BY FactHolds
<1>2. \A l \in Layer : \A b, m, kind, off :
        Holds(Cached(l, b, m, kind, off)) <=>
          /\ b \in CacheNames
          /\ \A j \in 0..m - 1 : layers[l][b][j] = Frame(l, kind, off + j)
          /\ b \in HistNames => IsHist(layers[l][b])
  <2> TAKE l \in Layer
  <2> TAKE b, m, kind, off
  <2> QED BY CachedHolds
<1>3. \A m, l, kind, off :
        Holds(OutFact(m, l, kind, off)) <=> \A j \in 0..m - 1 : out_host[j] = Frame(l, kind, off + j)
  BY HostFactsHold
<1>4. /\ \A e : Holds(TopK(e)) <=> topk_idx = e
      /\ \A l, m : Holds(LenIs(l, m)) <=> l \in Layer /\ layers[l].len = m
      /\ Holds(Shut) <=> ~encoding
  BY HostFactsHold
<1> QED BY <1>1, <1>2, <1>3, <1>4 DEF HoldsRules

\* ... and of the state after it.
LEMMA HoldsNext == HoldsRules'
BY HoldsNow, PTL

\* What a fact about a buffer says after a step.
LEMMA FactNext ==
  ASSUME NEW b, NEW m, NEW l, NEW kind, NEW off
  PROVE  Holds(Fact(b, m, l, kind, off))' <=>
              /\ b \in DOMAIN mem' \cup {"x"}
              /\ \A j \in 0..m - 1 : Content(b)'[j] = Frame(l, kind, off + j)
BY HoldsNext DEF HoldsRules

\* What a fact about a layer's cache says after a step.
LEMMA CachedNext ==
  ASSUME NEW l \in Layer, NEW b, NEW m, NEW kind, NEW off
  PROVE  Holds(Cached(l, b, m, kind, off))' <=>
              /\ b \in CacheNames
              /\ \A j \in 0..m - 1 : layers'[l][b][j] = Frame(l, kind, off + j)
              /\ b \in HistNames => IsHist(layers'[l][b])
BY HoldsNext DEF HoldsRules, IsHist

\* What no step writes stays true.
LEMMA HoldsStill ==
  ASSUME NEW W, OnlyWrites(W), NEW f, Holds(f), f[1] \notin W
  PROVE  Holds(f)'
<1>1. PICK a, b : f[1] = <<a, b>>
  BY DEF Holds
<1>2. f[1][1] = a /\ f[1][2] = b /\ <<a, b>> \notin W
  BY <1>1
<1>3. CASE a = Scratch
  <2>1. b \in DOMAIN mem \cup {"x"} /\ Are(Content(b), f)
    BY <1>2, <1>3 DEF Holds
  <2>2. Content(b)' = Content(b)
    BY <1>2, <1>3, <2>1 DEF OnlyWrites
  <2>3. b \in DOMAIN mem' \cup {"x"} /\ Are(Content(b)', f)
    BY <2>1, <2>2 DEF OnlyWrites
  <2> QED BY <1>1, <1>2, <1>3, <2>3, Places DEF Holds, Are
<1>4. CASE a \in Layer
  <2>1. b \in CacheNames /\ Are(layers[a][b], f) /\ (b \in HistNames => IsHist(layers[a][b]))
    BY <1>2, <1>4, Zenon DEF Holds
  <2>2. layers'[a][b] = layers[a][b]
    BY <1>2, <1>4, <2>1 DEF OnlyWrites
  <2>3. Are(layers'[a][b], f) /\ (b \in HistNames => IsHist(layers'[a][b]))
    BY <2>1, <2>2
  <2> QED BY <1>1, <1>2, <1>4, <2>1, <2>3, Places DEF Holds, Are, IsHist
<1>5. CASE a = Lens
  <2>1. b \in Layer /\ layers[b].len = f[2]
    BY <1>2, <1>5 DEF Holds
  <2>2. layers'[b].len = f[2]
    BY <1>2, <1>5, <2>1 DEF OnlyWrites
  <2> QED BY <1>1, <1>2, <1>5, <2>1, <2>2, Places DEF Holds
<1>6. CASE a = HostSide
  <2>1. /\ b = "out_host" => Are(out_host, f)
        /\ b = "topk" => topk_idx = f[2]
        /\ b = "shut" => ~encoding
    BY <1>1, <1>6 DEF Holds
  <2>2. /\ b = "out_host" => out_host' = out_host
        /\ b = "topk" => topk_idx' = topk_idx
        /\ b = "shut" => (encoding' => encoding)
    BY <1>2, <1>6 DEF OnlyWrites
  <2>3. /\ b = "out_host" => Are(out_host', f)
        /\ b = "topk" => topk_idx' = f[2]
        /\ b = "shut" => ~encoding'
    BY <2>1, <2>2
  <2> QED BY <1>1, <1>2, <1>6, <2>3, Places DEF Holds, Are
<1>7. CASE a # Scratch /\ a \notin Layer /\ a # Lens /\ a # HostSide
  BY <1>1, <1>2, <1>7 DEF Holds
<1> QED BY <1>3, <1>4, <1>5, <1>6, <1>7

-----------------------------------------------------------------------------
(* Every kernel makes what its rule says of the arrays it reads.           *)

InCall(c) ==
  c.T = T /\ c.start_pos = start_pos /\ c.arrays = DOMAIN mem \ DOMAIN Devices

\* Of the facts K, those about arrays hold.
Known(K) == \A g \in K : OfHost(g) \/ Holds(g)

\* A step of the GPU does what its dispatch makes.
Sound(ar, f) == f[1] = ar /\ Holds(f)' /\ OnlyWrites({ar}) /\ CallShape' /\ LayerShape'

OnlyMem == UNCHANGED <<cap, layers, overrun, T, start_pos, encoding, topk_idx, out_host, path>>

\* A known fact about a buffer, read as its rows.
LEMMA KnownFact ==
  ASSUME NEW K, Known(K), NEW b, NEW m, NEW l, NEW kind, NEW off, Fact(b, m, l, kind, off) \in K
  PROVE  /\ b \in DOMAIN mem \cup {"x"}
         /\ \A j \in 0..m - 1 : Content(b)[j] = Frame(l, kind, off + j)
BY FactHolds DEF Known

\* A known fact about a layer's cache, read as its rows.
LEMMA KnownCached ==
  ASSUME NEW K, Known(K), NEW l \in Layer, NEW b, NEW m, NEW kind, NEW off,
         Cached(l, b, m, kind, off) \in K
  PROVE  /\ b \in CacheNames
         /\ \A j \in 0..m - 1 : layers[l][b][j] = Frame(l, kind, off + j)
         /\ b \in HistNames => IsHist(layers[l][b])
BY CachedHolds DEF Known

\* All the rows of one array.
LEMMA ScratchWrites ==
  ASSUME CallShape, LayerShape, OnlyMem, NEW b \in (DOMAIN mem \ DOMAIN Devices) \cup {"x"},
         NEW rows, DOMAIN rows = Rows, Write(b, rows)
  PROVE  /\ OnlyWrites({<<Scratch, b>>}) /\ Content(b)' = rows
         /\ b \in DOMAIN mem' \cup {"x"} /\ CallShape' /\ LayerShape'
<1>1. "x" \notin DOMAIN mem
  BY DEF CallShape, Buffers, TinyArrays, Devices
<1>2. DOMAIN mem' = DOMAIN mem
  BY DEF Write
<1>3. Content(b)' = rows
  BY <1>1 DEF Write, Content
<1>4. \A a \in DOMAIN mem \cup {"x"} : a # b => Content(a)' = Content(a)
  BY <1>1 DEF Write, Content
<1>5. \A a \in DOMAIN mem : a # b => mem'[a] = mem[a]
  BY DEF Write
<1>6. b \in DOMAIN mem => mem'[b] = rows
  BY <1>1 DEF Write
<1>7. OnlyWrites({<<Scratch, b>>})
  BY <1>2, <1>4 DEF OnlyWrites, OnlyMem
<1>8. \A a \in DOMAIN mem \ DOMAIN Devices : DOMAIN mem'[a] = Rows
  BY <1>5, <1>6 DEF CallShape
<1>9. Rows' = Rows
  BY DEF OnlyMem, Rows
<1>10. CallShape'
  BY <1>2, <1>8, <1>9 DEF CallShape, OnlyMem
<1> QED BY <1>2, <1>3, <1>7, <1>10 DEF LayerShape, OnlyMem

\* One row of one array.
LEMMA RowWrites ==
  ASSUME CallShape, LayerShape, OnlyMem, NEW b \in DOMAIN mem \ DOMAIN Devices, NEW k, NEW f,
         mem' = [mem EXCEPT ![b][k] = f], x' = x
  PROVE  /\ OnlyWrites({<<Scratch, b>>}) /\ (k \in Rows => Content(b)'[k] = f)
         /\ \A j \in Rows : j # k => Content(b)'[j] = Content(b)[j]
         /\ b \in DOMAIN mem' \cup {"x"} /\ CallShape' /\ LayerShape'
<1>1. "x" \notin DOMAIN mem
  BY DEF CallShape, Buffers, TinyArrays, Devices
<1>2. DOMAIN mem' = DOMAIN mem
  OBVIOUS
<1>3. mem'[b] = [mem[b] EXCEPT ![k] = f]
  OBVIOUS
<1>4. DOMAIN mem[b] = Rows
  BY DEF CallShape
<1>5. \A a \in DOMAIN mem : a # b => mem'[a] = mem[a]
  OBVIOUS
<1>6. \A a \in DOMAIN mem \cup {"x"} : a # b => Content(a)' = Content(a)
  BY <1>1, <1>5 DEF Content
<1>7. Content(b) = mem[b] /\ Content(b)' = mem'[b]
  BY <1>1 DEF Content
<1>8. (k \in Rows => Content(b)'[k] = f) /\ \A j \in Rows : j # k => Content(b)'[j] = Content(b)[j]
  BY <1>3, <1>4, <1>7
<1>9. OnlyWrites({<<Scratch, b>>})
  BY <1>2, <1>6 DEF OnlyWrites, OnlyMem
<1>10. \A a \in DOMAIN mem \ DOMAIN Devices : DOMAIN mem'[a] = Rows
  BY <1>3, <1>4, <1>5 DEF CallShape
<1>11. Rows' = Rows
  BY DEF OnlyMem, Rows
<1>12. CallShape'
  BY <1>2, <1>10, <1>11 DEF CallShape, OnlyMem
<1> QED BY <1>2, <1>8, <1>9, <1>12 DEF LayerShape, OnlyMem

\* A kernel given the frames of one position makes that position's frame.
LEMMA ComputedIs ==
  ASSUME NEW d, 1 \in DOMAIN d.in, NEW p, NEW k,
         \A j \in DOMAIN d.in : Content(d.in[j])[k] = <<d.l, d.from[j], p>>
  PROVE  Computed(d, k) = IF d.to = "next" THEN <<d.l + 1, "x", p>> ELSE <<d.l, d.to, p>>
<1>1. Content(d.in[1])[k][3] = p
  OBVIOUS
<1> QED BY <1>1 DEF Computed

\* All the rows of a result are right.
LEMMA AllSound ==
  ASSUME CallShape, LayerShape, OnlyMem, NEW b \in (DOMAIN mem \ DOMAIN Devices) \cup {"x"},
         NEW rows, DOMAIN rows = Rows, Write(b, rows), NEW l, NEW kind, NEW off,
         \A t \in Rows : rows[t] = Frame(l, kind, off + t)
  PROVE  Sound(<<Scratch, b>>, Fact(b, T, l, kind, off))
<1>1. PICK f, ar : f = Fact(b, T, l, kind, off) /\ ar = <<Scratch, b>>
  OBVIOUS
<1>2. /\ OnlyWrites({ar}) /\ Content(b)' = rows
      /\ b \in DOMAIN mem' \cup {"x"} /\ CallShape' /\ LayerShape'
  BY <1>1, ScratchWrites
<1>3. Holds(f)'
  <2>1. PICK m : m = T
    OBVIOUS
  <2>2. b \in DOMAIN mem' \cup {"x"} /\ \A j \in 0..m - 1 : Content(b)'[j] = Frame(l, kind, off + j)
    BY <1>2, <2>1 DEF Rows
  <2>3. Holds(Fact(b, m, l, kind, off))'
    BY <2>2, FactNext
  <2>4. f = Fact(b, m, l, kind, off)
    BY <1>1, <2>1
  <2> QED BY <2>3, <2>4
<1>4. f[1] = ar
  BY <1>1 DEF Fact
<1>5. Sound(ar, f)
  BY <1>2, <1>3, <1>4 DEF Sound
<1> QED BY <1>1, <1>5

\* One row is, after the rows before it.
LEMMA RowSound ==
  ASSUME CallShape, LayerShape, OnlyMem, NEW b \in DOMAIN mem \ DOMAIN Devices, NEW k \in Rows,
         NEW v, mem' = [mem EXCEPT ![b][k] = v], x' = x, NEW l, NEW kind, NEW off,
         \A j \in 0..k - 1 : Content(b)[j] = Frame(l, kind, off + j), v = Frame(l, kind, off + k)
  PROVE  Sound(<<Scratch, b>>, Fact(b, k + 1, l, kind, off))
<1>1. PICK f, ar : f = Fact(b, k + 1, l, kind, off) /\ ar = <<Scratch, b>>
  OBVIOUS
<1>2. /\ OnlyWrites({ar}) /\ Content(b)'[k] = v
      /\ \A j \in Rows : j # k => Content(b)'[j] = Content(b)[j]
      /\ b \in DOMAIN mem' \cup {"x"} /\ CallShape' /\ LayerShape'
  BY <1>1, RowWrites, ZenonT(40)
<1>3. Holds(f)'
  <2>1. PICK m : m = k + 1
    OBVIOUS
  <2>2. ASSUME NEW j \in 0..m - 1 PROVE Content(b)'[j] = Frame(l, kind, off + j)
    <3>1. k \in Nat /\ k < T /\ T \in Nat
      BY DEF Rows, CallShape
    <3>2. j = k \/ (j \in 0..k - 1 /\ j \in Rows /\ j # k)
      BY <2>1, <3>1 DEF Rows
    <3> QED BY <1>2, <3>2
  <2>3. Holds(Fact(b, m, l, kind, off))'
    BY <1>2, <2>2, FactNext
  <2>4. f = Fact(b, m, l, kind, off)
    BY <1>1, <2>1
  <2> QED BY <2>3, <2>4
<1>4. f[1] = ar
  BY <1>1 DEF Fact
<1>5. Sound(ar, f)
  BY <1>2, <1>3, <1>4 DEF Sound
<1> QED BY <1>1, <1>5

\* The map kernel makes what MapMakes says.
LEMMA MapSound ==
  ASSUME CallShape, LayerShape, NEW c, InCall(c), NEW d, d = Head(batch), UNCHANGED path, GpuMap,
         NEW K, Known(K), NEW e, NEW f, Makes(c, d, K, e, f)
  PROVE  Sound(Target(d), f)
<1>1. /\ d.op = "map" /\ Write(d.out, [t \in Rows |-> Computed(d, t)]) /\ OnlyMem
  BY DEF GpuMap, GpuScratch, Retire, OnlyMem
<1>2. MapMakes(c, d, K, f) /\ Target(d) = <<Scratch, d.out>>
  BY <1>1 DEF Makes, Target
<1>3. PICK off \in Nat :
        /\ d.out \in Writable(c) /\ 1 \in DOMAIN d.in
        /\ \A j \in DOMAIN d.in : Fact(d.in[j], c.T, d.l, d.from[j], off) \in K
        /\ f = IF d.to = "next" THEN Fact(d.out, c.T, d.l + 1, "x", off)
               ELSE Fact(d.out, c.T, d.l, d.to, off)
  BY <1>2 DEF MapMakes
<1>4. PICK lo, kind : lo = (IF d.to = "next" THEN d.l + 1 ELSE d.l) /\ kind = IF d.to = "next" THEN "x" ELSE d.to
  OBVIOUS
<1>5. f = Fact(d.out, T, lo, kind, off) /\ d.out \in (DOMAIN mem \ DOMAIN Devices) \cup {"x"}
  BY <1>3, <1>4 DEF InCall, Writable
<1>6. PICK rows : rows = [t \in Rows |-> Computed(d, t)]
  OBVIOUS
<1>7. ASSUME NEW t \in Rows PROVE rows[t] = Frame(lo, kind, off + t)
  <2>1. t \in 0..T - 1 /\ t \in Nat
    BY DEF Rows, CallShape
  <2>2. PICK p : p = off + t /\ ~(p < 0)
    BY <2>1
  <2>3. ASSUME NEW j \in DOMAIN d.in PROVE Content(d.in[j])[t] = <<d.l, d.from[j], p>>
    <3>1. Content(d.in[j])[t] = Frame(d.l, d.from[j], off + t)
      BY <1>3, <2>1, KnownFact DEF InCall
    <3> QED BY <2>2, <3>1 DEF Frame
  <2>4. Computed(d, t) = IF d.to = "next" THEN <<d.l + 1, "x", p>> ELSE <<d.l, d.to, p>>
    <3>1. 1 \in DOMAIN d.in
      BY <1>3
    <3>2. \A j \in DOMAIN d.in : Content(d.in[j])[t] = <<d.l, d.from[j], p>>
      BY <2>3
    <3> QED BY ONLY <3>1, <3>2, ComputedIs
  <2>5. Computed(d, t) = <<lo, kind, p>>
    <3>1. CASE d.to = "next"
      BY <1>4, <2>4, <3>1
    <3>2. CASE d.to # "next"
      BY <1>4, <2>4, <3>2
    <3> QED BY <3>1, <3>2
  <2> QED BY <1>6, <2>2, <2>5 DEF Frame
<1>8. DOMAIN rows = Rows /\ Write(d.out, rows)
  BY <1>1, <1>6
<1>9. PICK b \in (DOMAIN mem \ DOMAIN Devices) \cup {"x"} : b = d.out
  BY <1>5
<1>10. Sound(<<Scratch, b>>, Fact(b, T, lo, kind, off))
  BY <1>1, <1>7, <1>8, <1>9, AllSound
<1> QED BY <1>2, <1>5, <1>9, <1>10

\* Row 0 of a product.
LEMMA FirstRowsKnown ==
  ASSUME CallShape, NEW d, NEW K, Known(K), NEW p \in Nat, FirstRows(d, K, p), d.to # "next"
  PROVE  Computed(d, 0) = <<d.l, d.to, p>>
<1>1. ASSUME NEW j \in DOMAIN d.in PROVE Content(d.in[j])[0] = <<d.l, d.from[j], p>>
  <2>1. PICK m \in Nat \ {0} : Fact(d.in[j], m, d.l, d.from[j], p) \in K
    BY DEF FirstRows
  <2>2. 0 \in 0..m - 1 /\ p + 0 = p /\ ~(p < 0)
    OBVIOUS
  <2>3. Content(d.in[j])[0] = Frame(d.l, d.from[j], p + 0)
    BY <2>1, <2>2, KnownFact
  <2> QED BY <2>2, <2>3 DEF Frame
<1>2. PICK k : k = 0
  OBVIOUS
<1>3. 1 \in DOMAIN d.in /\ \A j \in DOMAIN d.in : Content(d.in[j])[k] = <<d.l, d.from[j], p>>
  BY <1>1, <1>2 DEF FirstRows
<1>4. Computed(d, k) = IF d.to = "next" THEN <<d.l + 1, "x", p>> ELSE <<d.l, d.to, p>>
  BY ONLY <1>3, ComputedIs
<1> QED BY <1>2, <1>4

\* Writing row 0 makes a fact of one row.
LEMMA FirstRowSound ==
  ASSUME CallShape, LayerShape, OnlyMem, NEW b \in DOMAIN mem \ DOMAIN Devices,
         NEW v, WriteRow(b, 0, v), NEW l, NEW kind, NEW p \in Nat, v = <<l, kind, p>>
  PROVE  Sound(<<Scratch, b>>, Fact(b, 1, l, kind, p))
<1>1. PICK k \in Rows : k = 0 /\ k + 1 = 1
  BY DEF CallShape, Rows
<1>2. \A j \in 0..k - 1 : Content(b)[j] = Frame(l, kind, p + j)
  BY <1>1
<1>3. v = Frame(l, kind, p + k)
  BY <1>1 DEF Frame
<1>4. mem' = [mem EXCEPT ![b][k] = v] /\ x' = x
  BY <1>1 DEF WriteRow
<1>5. Sound(<<Scratch, b>>, Fact(b, k + 1, l, kind, p))
  BY <1>2, <1>3, <1>4, RowSound
<1> QED BY <1>1, <1>5

\* The matvec kernel makes what MatvecMakes says.
LEMMA MatvecSound ==
  ASSUME CallShape, LayerShape, NEW c, InCall(c), NEW d, d = Head(batch), UNCHANGED path,
         GpuMatvec,
         NEW K, Known(K), NEW e, NEW f, Makes(c, d, K, e, f)
  PROVE  Sound(Target(d), f)
<1>1. /\ d.op = "matvec" /\ WriteRow(d.out, 0, Computed(d, 0)) /\ OnlyMem
  BY DEF GpuMatvec, GpuScratch, Retire, OnlyMem
<1>2. MatvecMakes(c, d, K, f) /\ Target(d) = <<Scratch, d.out>>
  BY <1>1 DEF Makes, Target
<1>3. PICK p \in Nat :
        d.out \in c.arrays /\ d.to # "next" /\ FirstRows(d, K, p) /\ f = Fact(d.out, 1, d.l, d.to, p)
  BY <1>2 DEF MatvecMakes
<1>4. PICK b \in DOMAIN mem \ DOMAIN Devices : b = d.out
  BY <1>3 DEF InCall
<1>5. PICK v, l, kind : v = Computed(d, 0) /\ l = d.l /\ kind = d.to
  OBVIOUS
<1>6. v = <<l, kind, p>> /\ WriteRow(b, 0, v)
  BY <1>1, <1>3, <1>4, <1>5, FirstRowsKnown
<1>7. Sound(<<Scratch, b>>, Fact(b, 1, l, kind, p))
  BY <1>1, <1>6, FirstRowSound
<1> QED BY <1>2, <1>3, <1>4, <1>5, <1>7

\* The expert kernel makes what RoutedMakes says, of the experts it was encoded with.
LEMMA RoutedSound ==
  ASSUME CallShape, LayerShape, NEW c, InCall(c), NEW d, d = Head(batch), UNCHANGED path,
         GpuRouted,
         NEW K, Known(K), NEW f, Makes(c, d, K, d.experts, f)
  PROVE  Sound(Target(d), f)
<1>1. /\ d.op = "routed" /\ OnlyMem
      /\ WriteRow(d.out, 0, IF d.experts = <<d.l, "ro", Computed(d, 0)[3]>> THEN Computed(d, 0) ELSE Bad)
  BY DEF GpuRouted, GpuScratch, Retire, OnlyMem
<1>2. RoutedMakes(c, d, K, d.experts, f) /\ Target(d) = <<Scratch, d.out>>
  BY <1>1 DEF Makes, Target
<1>3. PICK p \in Nat :
        /\ d.out \in c.arrays /\ d.to # "next" /\ FirstRows(d, K, p)
        /\ d.experts = <<d.l, "ro", p>> /\ f = Fact(d.out, 1, d.l, d.to, p)
  BY <1>2 DEF RoutedMakes
<1>4. PICK b \in DOMAIN mem \ DOMAIN Devices : b = d.out
  BY <1>3 DEF InCall
<1>5. PICK v, l, kind : v = Computed(d, 0) /\ l = d.l /\ kind = d.to
  OBVIOUS
<1>6. v = <<l, kind, p>>
  BY <1>3, <1>5, FirstRowsKnown
<1>7. v[3] = p
  BY <1>6
<1>8. WriteRow(b, 0, v)
  BY <1>1, <1>3, <1>4, <1>5, <1>7
<1>9. Sound(<<Scratch, b>>, Fact(b, 1, l, kind, p))
  BY <1>1, <1>6, <1>8, FirstRowSound
<1> QED BY <1>2, <1>3, <1>4, <1>5, <1>9

\* Row l of an array through a row of its own.
LEMMA RowInSound ==
  ASSUME CallShape, LayerShape, NEW c, InCall(c), NEW d, d = Head(batch), UNCHANGED path,
         GpuRowIn,
         NEW K, Known(K), NEW e, NEW f, Makes(c, d, K, e, f)
  PROVE  Sound(Target(d), f)
<1>1. /\ d.op = "row_in" /\ OnlyMem /\ WriteRow(d.out, 0, Content(d.in[1])[d.l])
  BY DEF GpuRowIn, GpuScratch, Retire, OnlyMem
<1>2. RowInMakes(c, d, K, f) /\ Target(d) = <<Scratch, d.out>>
  BY <1>1 DEF Makes, Target
<1>3. PICK m \in Nat, off \in Nat : \E l, kind :
      /\ d.out \in c.arrays /\ d.l \in 0..m - 1
      /\ Fact(d.in[1], m, l, kind, off) \in K
      /\ f = Fact(d.out, 1, l, kind, off + d.l)
  BY <1>2 DEF RowInMakes
<1>4. PICK l, kind :
        /\ d.out \in c.arrays /\ d.l \in 0..m - 1
        /\ Fact(d.in[1], m, l, kind, off) \in K
        /\ f = Fact(d.out, 1, l, kind, off + d.l)
  BY <1>3
<1>5. PICK b \in DOMAIN mem \ DOMAIN Devices : b = d.out
  BY <1>4 DEF InCall
<1>6. PICK p \in Nat : p = off + d.l /\ ~(p < 0)
  BY <1>4
<1>7. PICK v : v = Content(d.in[1])[d.l]
  OBVIOUS
<1>8. v = <<l, kind, p>>
  <2>1. Content(d.in[1])[d.l] = Frame(l, kind, off + d.l)
    BY <1>4, KnownFact
  <2> QED BY <1>6, <1>7, <2>1 DEF Frame
<1>9. WriteRow(b, 0, v)
  BY <1>1, <1>5, <1>7
<1>10. Sound(<<Scratch, b>>, Fact(b, 1, l, kind, p))
  BY <1>1, <1>8, <1>9, FirstRowSound
<1> QED BY <1>2, <1>4, <1>5, <1>6, <1>10

\* And back, after the rows before it.
LEMMA RowOutSound ==
  ASSUME CallShape, LayerShape, NEW c, InCall(c), NEW d, d = Head(batch), UNCHANGED path,
         GpuRowOut,
         NEW K, Known(K), NEW e, NEW f, Makes(c, d, K, e, f)
  PROVE  Sound(Target(d), f)
<1>1. /\ d.op = "row_out" /\ OnlyMem /\ WriteRow(d.out, d.l, Content(d.in[1])[0])
  BY DEF GpuRowOut, GpuScratch, Retire, OnlyMem
<1>2. RowOutMakes(c, d, K, f) /\ Target(d) = <<Scratch, d.out>>
  BY <1>1 DEF Makes, Target
<1>3. PICK m \in Nat \ {0}, off \in Nat : \E l, kind :
      /\ d.out \in c.arrays /\ d.l \in 0..c.T - 1
      /\ Fact(d.in[1], m, l, kind, off + d.l) \in K
      /\ Part(d.out, d.l, l, kind, off) \subseteq K
      /\ f = Fact(d.out, d.l + 1, l, kind, off)
  BY <1>2 DEF RowOutMakes
<1>4. PICK l, kind :
        /\ d.out \in c.arrays /\ d.l \in 0..c.T - 1
        /\ Fact(d.in[1], m, l, kind, off + d.l) \in K
        /\ Part(d.out, d.l, l, kind, off) \subseteq K
        /\ f = Fact(d.out, d.l + 1, l, kind, off)
  BY <1>3
<1>5. PICK b \in DOMAIN mem \ DOMAIN Devices : b = d.out
  BY <1>4 DEF InCall
<1>6. PICK k \in Rows : k = d.l
  BY <1>4 DEF InCall, Rows
<1>7. PICK v : v = Content(d.in[1])[0]
  OBVIOUS
<1>8. v = Frame(l, kind, off + k)
  <2>1. 0 \in 0..m - 1 /\ k \in Nat
    BY <1>6 DEF Rows
  <2>2. PICK p : p = off + k /\ p + 0 = p
    BY <2>1
  <2>3. Fact(d.in[1], m, l, kind, p) \in K
    BY <1>4, <1>6, <2>2
  <2>4. Content(d.in[1])[0] = Frame(l, kind, p + 0)
    BY <2>1, <2>3, KnownFact
  <2> QED BY <1>7, <2>2, <2>4
<1>9. \A j \in 0..k - 1 : Content(b)[j] = Frame(l, kind, off + j)
  <2>1. CASE k = 0
    BY <2>1
  <2>2. CASE k # 0
    <3>1. Fact(b, k, l, kind, off) \in K
      BY <1>4, <1>5, <1>6, <2>2 DEF Part
    <3> QED BY <3>1, KnownFact
  <2> QED BY <2>1, <2>2
<1>10. mem' = [mem EXCEPT ![b][k] = v] /\ x' = x
  BY <1>1, <1>5, <1>6, <1>7 DEF WriteRow
<1>11. Sound(<<Scratch, b>>, Fact(b, k + 1, l, kind, off))
  BY <1>1, <1>8, <1>9, <1>10, RowSound
<1> QED BY <1>2, <1>4, <1>5, <1>6, <1>11

\* sconv_apply over the last rows of a stream and its next ones, whatever arrays they
\* are in.
LEMMA SconvRows ==
  ASSUME T \in Nat, NEW l, NEW from, NEW to, NEW off \in Nat, NEW hist, NEW in,
         \A j \in 0..Km1 - 1 : hist[j] = Frame(l, from, off - Km1 + j),
         \A t \in Rows : in[t] = Frame(l, from, off + t)
  PROVE  \A t \in Rows : SconvOut(l, from, to, hist, in)[t] = Frame(l, to, off + t)
<1> SUFFICES ASSUME NEW t \in Rows
             PROVE  SconvOut(l, from, to, hist, in)[t] = Frame(l, to, off + t)
  OBVIOUS
<1>1. t \in Nat /\ t < T /\ Km1 \in Nat
  BY Sizes DEF Rows
<1>2. PICK p \in Nat : p = off + t /\ ~(p < 0) /\ p >= 0
  BY <1>1
<1>3. in[t] = Frame(l, from, p)
  BY <1>2
<1>4. in[t] = <<l, from, p>> /\ in[t][3] = p
  BY <1>2, <1>3 DEF Frame
<1>5. ASSUME NEW j \in 0..Km1 PROVE Buf(hist, in)[t + j] = Frame(l, from, p - Km1 + j)
  <2>1. PICK n \in 0..Km1 + T - 1 : n = t + j
    BY <1>1
  <2>2. Buf(hist, in)[n] = IF n < Km1 THEN hist[n] ELSE in[n - Km1]
    BY DEF Buf
  <2>3. PICK r : r = p - Km1 + j
    OBVIOUS
  <2>4. CASE n < Km1
    <3>1. n \in 0..Km1 - 1 /\ off - Km1 + n = r
      BY <1>1, <1>2, <2>1, <2>3, <2>4
    <3> QED BY <2>1, <2>2, <2>3, <2>4, <3>1
  <2>5. CASE ~(n < Km1)
    <3>1. n - Km1 \in Rows /\ off + (n - Km1) = r
      BY <1>1, <1>2, <2>1, <2>3, <2>5 DEF Rows
    <3> QED BY <2>1, <2>2, <2>3, <2>5, <3>1
  <2> QED BY <2>4, <2>5
<1>6. Derive(l, from, to, in[t]) = <<l, to, p>>
  BY <1>2, <1>4 DEF Derive, Frame
<1>7. SconvOut(l, from, to, hist, in)[t] = Derive(l, from, to, in[t])
  BY <1>4, <1>5 DEF SconvOut
<1> QED BY <1>2, <1>6, <1>7 DEF Frame

\* The two convolution kernels make what SconvMakes says.
LEMMA SconvSound ==
  ASSUME CallShape, LayerShape, NEW c, InCall(c), NEW d, d = Head(batch), UNCHANGED path,
         GpuSconv \/ GpuConv,
         NEW K, Known(K), NEW e, NEW f, Makes(c, d, K, e, f)
  PROVE  Sound(Target(d), f)
<1>1. PICK hist, in :
        /\ in = Content(d.in[1])
        /\ hist = IF d.op = "sconv" THEN layers[d.l][d.in[2]] ELSE Content(d.in[2])
  OBVIOUS
<1>2. /\ d.op \in {"sconv", "conv"} /\ OnlyMem
      /\ Write(d.out, SconvOut(d.l, d.from[1], d.to, hist, in))
  <2>1. CASE GpuSconv
    BY <1>1, <2>1 DEF GpuSconv, GpuScratch, Retire, OnlyMem
  <2>2. CASE GpuConv
    BY <1>1, <2>2 DEF GpuConv, GpuScratch, Retire, OnlyMem
  <2> QED BY <2>1, <2>2
<1>3. PICK ar : /\ SconvMakes(c, d, K, ar, f) /\ Target(d) = <<Scratch, d.out>>
                /\ d.op = "sconv" => ar = <<d.l, d.in[2]>> /\ d.l \in Layer
                /\ d.op = "conv" => ar = <<Scratch, d.in[2]>>
  BY <1>2 DEF Makes, Target
<1>4. PICK off \in Nat :
        /\ d.out \in Writable(c)
        /\ Fact(d.in[1], c.T, d.l, d.from[1], off) \in K
        /\ <<ar, Km1, d.l, d.from[1], off - Km1>> \in K
        /\ f = Fact(d.out, c.T, d.l, d.to, off)
  BY <1>3 DEF SconvMakes
<1>5. PICK l, from, to : l = d.l /\ from = d.from[1] /\ to = d.to
  OBVIOUS
<1>6. \A t \in Rows : in[t] = Frame(l, from, off + t)
  BY <1>1, <1>4, <1>5, KnownFact DEF InCall, Rows
<1>7. \A j \in 0..Km1 - 1 : hist[j] = Frame(l, from, off - Km1 + j)
  <2>1. PICK o : o = off - Km1
    OBVIOUS
  <2>2. CASE d.op = "sconv"
    <3>1. Cached(d.l, d.in[2], Km1, d.from[1], o) \in K
      BY <1>3, <1>4, <2>1, <2>2 DEF Cached
    <3> QED BY <1>1, <1>3, <1>5, <2>1, <2>2, <3>1, KnownCached
  <2>3. CASE d.op = "conv"
    <3>1. Fact(d.in[2], Km1, d.l, d.from[1], o) \in K
      BY <1>3, <1>4, <2>1, <2>3 DEF Fact
    <3> QED BY <1>1, <1>5, <2>1, <2>3, <3>1, KnownFact
  <2> QED BY <1>2, <2>2, <2>3
<1>8. PICK rows : rows = SconvOut(l, from, to, hist, in)
  OBVIOUS
<1>9. DOMAIN rows = Rows /\ \A t \in Rows : rows[t] = Frame(l, to, off + t)
  <2>1. \A t \in Rows : rows[t] = Frame(l, to, off + t)
    BY <1>6, <1>7, <1>8, SconvRows DEF CallShape
  <2> QED BY <1>8, <2>1 DEF SconvOut
<1>10. PICK b \in (DOMAIN mem \ DOMAIN Devices) \cup {"x"} : b = d.out
  BY <1>4 DEF InCall, Writable
<1>11. Write(b, rows)
  BY <1>2, <1>5, <1>8, <1>10
<1>12. Sound(<<Scratch, b>>, Fact(b, T, l, to, off))
  BY <1>2, <1>9, <1>11, AllSound
<1> QED BY <1>3, <1>4, <1>5, <1>10, <1>12 DEF InCall

\* Attention over cells that are right up to the end of the chunk.
LEMMA AttnRows ==
  ASSUME CallShape, NEW l \in Layer, NEW q, NEW r, NEW k, NEW v,
         \A t \in Rows : q[t] = <<l, "q", start_pos + t>> /\ r[t] = <<l, "r", start_pos + t>>,
         \A cell \in 0..start_pos + T - 1 : k[cell] = <<l, "ks", cell>> /\ v[cell] = <<l, "vs", cell>>
  PROVE  \A t \in Rows : AttnOut(l, q, r, k, v)[t] = <<l, "a", start_pos + t>>
<1> SUFFICES ASSUME NEW t \in Rows
             PROVE  AttnOut(l, q, r, k, v)[t] = <<l, "a", start_pos + t>>
  OBVIOUS
<1>1. start_pos + t \in Nat /\ start_pos + t < start_pos + T /\ cap \in Nat
      /\ start_pos + T <= cap
  BY DEF Rows, CallShape
<1>2. KvLo(l, start_pos + t) \in Nat
      /\ KvLo(l, start_pos + t)..(start_pos + t) = Attended(l, start_pos + t)
  BY <1>1, SpanIsAttended
<1>3. \A cell \in KvLo(l, start_pos + t)..(start_pos + t) :
        cell \in 0..start_pos + T - 1 /\ cell \in Cells
  BY <1>1, <1>2 DEF Cells, CallShape
<1> QED BY <1>2, <1>3 DEF AttnOut

\* The two attention kernels make what AttnMakes says.
LEMMA AttnSound ==
  ASSUME CallShape, LayerShape, NEW c, InCall(c), NEW d, d = Head(batch), UNCHANGED path,
         GpuAttn \/ GpuBanded,
         NEW K, Known(K), NEW e, NEW f, Makes(c, d, K, e, f)
  PROVE  Sound(Target(d), f)
<1>1. PICK q, r, k, v :
        /\ q = Content(d.in[1]) /\ r = Content(d.in[2])
        /\ k = IF d.op = "attn" THEN layers[d.l].k ELSE Content(d.in[3])
        /\ v = IF d.op = "attn" THEN layers[d.l].v ELSE Content(d.in[4])
  OBVIOUS
<1>2. /\ d.op \in {"attn", "banded"} /\ OnlyMem
      /\ Write(d.out, [t \in Rows |-> Derive(d.l, "a", d.to, AttnOut(d.l, q, r, k, v)[t])])
  <2>1. CASE GpuAttn
    BY <1>1, <2>1 DEF GpuAttn, GpuScratch, Retire, OnlyMem
  <2>2. CASE GpuBanded
    BY <1>1, <2>2 DEF GpuBanded, GpuScratch, Retire, OnlyMem
  <2> QED BY <2>1, <2>2
<1>3. PICK ka, va : /\ AttnMakes(c, d, K, ka, va, f) /\ Target(d) = <<Scratch, d.out>>
                    /\ d.op = "attn" => ka = <<d.l, "k">> /\ va = <<d.l, "v">>
                    /\ d.op = "banded" => ka = <<Scratch, d.in[3]>> /\ va = <<Scratch, d.in[4]>>
  BY <1>2 DEF Makes, Target
<1>4. /\ d.out \in Writable(c) /\ d.l \in Layer
      /\ Fact(d.in[1], c.T, d.l, "q", c.start_pos) \in K
      /\ Fact(d.in[2], c.T, d.l, "r", c.start_pos) \in K
      /\ <<ka, c.start_pos + c.T, d.l, "ks", 0>> \in K
      /\ <<va, c.start_pos + c.T, d.l, "vs", 0>> \in K
      /\ f = Fact(d.out, c.T, d.l, d.to, c.start_pos)
  BY <1>3 DEF AttnMakes
<1>5. PICK l \in Layer : \E to :
      l = d.l /\ to = d.to
  BY <1>4
<1>6. PICK to :
        l = d.l /\ to = d.to
  BY <1>5
<1>7. ASSUME NEW t \in Rows PROVE q[t] = <<l, "q", start_pos + t>> /\ r[t] = <<l, "r", start_pos + t>>
  <2>1. t \in 0..T - 1 /\ ~(start_pos + t < 0)
    BY DEF Rows, CallShape
  <2>2. q[t] = Frame(l, "q", start_pos + t) /\ r[t] = Frame(l, "r", start_pos + t)
    BY <1>1, <1>4, <1>6, <2>1, KnownFact DEF InCall
  <2> QED BY <2>1, <2>2 DEF Frame
<1>8. ASSUME NEW cell \in 0..start_pos + T - 1
      PROVE  k[cell] = <<l, "ks", cell>> /\ v[cell] = <<l, "vs", cell>>
  <2>1. PICK n, z :
          n = start_pos + T /\ z = 0 /\ z + cell = cell /\ ~(cell < 0) /\ cell \in 0..n - 1
    BY DEF CallShape
  <2>2. k[cell] = Frame(l, "ks", z + cell) /\ v[cell] = Frame(l, "vs", z + cell)
    <3>1. CASE d.op = "attn"
      <4>1. Cached(l, "k", n, "ks", z) \in K /\ Cached(l, "v", n, "vs", z) \in K
        BY <1>3, <1>4, <1>6, <2>1, <3>1 DEF Cached, InCall
      <4> QED BY <1>1, <1>6, <2>1, <3>1, <4>1, KnownCached
    <3>2. CASE d.op = "banded"
      <4>1. Fact(d.in[3], n, l, "ks", z) \in K /\ Fact(d.in[4], n, l, "vs", z) \in K
        BY <1>3, <1>4, <1>6, <2>1, <3>2 DEF Fact, InCall
      <4> QED BY <1>1, <2>1, <3>2, <4>1, KnownFact
    <3> QED BY <1>2, <3>1, <3>2
  <2> QED BY <2>1, <2>2 DEF Frame
<1>9. PICK out : out = AttnOut(l, q, r, k, v)
  OBVIOUS
<1>10. PICK rows : rows = [t \in Rows |-> Derive(l, "a", to, out[t])]
  OBVIOUS
<1>11. ASSUME NEW t \in Rows PROVE rows[t] = Frame(l, to, start_pos + t)
  <2>1. out[t] = <<l, "a", start_pos + t>>
    BY <1>7, <1>8, <1>9, AttnRows
  <2>2. PICK p \in Nat : p = start_pos + t /\ p >= 0 /\ ~(p < 0)
    BY DEF Rows, CallShape
  <2>3. Derive(l, "a", to, out[t]) = <<l, to, p>>
    BY <2>1, <2>2 DEF Derive, Frame
  <2> QED BY <1>10, <2>2, <2>3 DEF Frame
<1>12. PICK b \in (DOMAIN mem \ DOMAIN Devices) \cup {"x"} : b = d.out
  BY <1>4 DEF InCall, Writable
<1>13. DOMAIN rows = Rows /\ Write(b, rows)
  BY <1>2, <1>6, <1>9, <1>10, <1>12
<1>14. Sound(<<Scratch, b>>, Fact(b, T, l, to, start_pos))
  BY <1>2, <1>11, <1>13, AllSound
<1> QED BY <1>3, <1>4, <1>6, <1>12, <1>14 DEF InCall

OnlyCache == UNCHANGED <<cap, x, mem, T, start_pos, encoding, topk_idx, out_host, path>> /\ ~overrun'

\* One array of one layer's cache.
LEMMA CacheWrites ==
  ASSUME CallShape, LayerShape, OnlyCache, NEW l \in Layer, NEW b \in CacheNames, NEW rows,
         layers' = [layers EXCEPT ![l][b] = rows]
  PROVE  /\ OnlyWrites({<<l, b>>}) /\ layers'[l][b] = rows
         /\ CallShape' /\ LayerShape'
<1>1. "len" \notin CacheNames
  BY DEF CacheNames, HistNames
<1>2. DOMAIN layers = Layer /\ CacheNames \cup {"len"} \subseteq DOMAIN layers[l]
  BY DEF LayerShape
<1>3. layers'[l] = [layers[l] EXCEPT ![b] = rows]
  BY <1>2
<1>4. \A k \in Layer : k # l => layers'[k] = layers[k]
  BY <1>2
<1>5. DOMAIN layers' = Layer /\ DOMAIN layers'[l] = DOMAIN layers[l]
  BY <1>2, <1>3
<1>6. layers'[l][b] = rows
  BY <1>2, <1>3
<1>7. \A a \in CacheNames \cup {"len"} : a # b => layers'[l][a] = layers[l][a]
  BY <1>2, <1>3
<1>8. LayerShape'
  <2>1. \A k \in Layer : CacheNames \cup {"len"} \subseteq DOMAIN layers'[k]
    BY <1>4, <1>5 DEF LayerShape
  <2> QED BY <1>5, <2>1 DEF LayerShape
<1>9. Content("x")' = Content("x") /\ \A a : Content(a)' = Content(a)
  BY DEF OnlyCache, Content
<1>10. \A k \in Layer : \A a \in CacheNames : layers'[k][a] = layers[k][a] \/ <<k, a>> = <<l, b>>
  BY <1>4, <1>7
<1>11. \A k \in Layer : layers'[k].len = layers[k].len
  BY <1>1, <1>4, <1>7
<1>12. OnlyWrites({<<l, b>>})
  BY <1>9, <1>10, <1>11 DEF OnlyWrites, OnlyCache
<1>13. CallShape'
  BY DEF CallShape, OnlyCache, Rows
<1> QED BY <1>6, <1>8, <1>12, <1>13

\* sepia_sconv_hist_roll_f32 leaves the last rows of the stream, however few are new.
LEMMA RollRows ==
  ASSUME T \in Nat, NEW l, NEW kind, NEW off \in Nat, NEW hist, NEW in,
         \A j \in 0..Km1 - 1 : hist[j] = Frame(l, kind, off - Km1 + j),
         \A t \in Rows : in[t] = Frame(l, kind, off + t)
  PROVE  /\ \A j \in 0..Km1 - 1 : HistRoll(hist, in)[j] = Frame(l, kind, off + T - Km1 + j)
         /\ IsHist(HistRoll(hist, in))
<1>1. Km1 \in Nat
  BY Sizes
<1>2. ASSUME NEW j \in 0..Km1 - 1
      PROVE  HistRoll(hist, in)[j] = Frame(l, kind, off + T - Km1 + j)
  <2>1. PICK r : r = off + T - Km1 + j
    OBVIOUS
  <2>2. CASE T >= Km1
    <3>1. PICK t \in Rows : t = T - Km1 + j /\ off + t = r
      BY <1>1, <2>1, <2>2 DEF Rows
    <3>2. HistRoll(hist, in)[j] = in[t]
      BY <2>2, <3>1 DEF HistRoll
    <3> QED BY <2>1, <3>1, <3>2
  <2>3. CASE ~(T >= Km1) /\ j < Km1 - T
    <3>1. PICK n \in 0..Km1 - 1 : n = T + j /\ off - Km1 + n = r
      BY <1>1, <2>1, <2>3
    <3>2. HistRoll(hist, in)[j] = hist[n]
      BY <2>3, <3>1 DEF HistRoll
    <3> QED BY <2>1, <3>1, <3>2
  <2>4. CASE ~(T >= Km1) /\ ~(j < Km1 - T)
    <3>1. PICK t \in Rows : t = j - (Km1 - T) /\ off + t = r
      BY <1>1, <2>1, <2>4 DEF Rows
    <3>2. HistRoll(hist, in)[j] = in[t]
      BY <2>4, <3>1 DEF HistRoll
    <3> QED BY <2>1, <3>1, <3>2
  <2> QED BY <2>2, <2>3, <2>4
<1>3. IsHist(HistRoll(hist, in))
  BY DEF IsHist, HistRoll
<1> QED BY <1>2, <1>3

\* The first m rows are frames of l and kind, from off on.
Follows(rows, m, l, kind, off) == \A j \in 0..m - 1 : rows[j] = Frame(l, kind, off + j)

\* The memcpy of the rows of a chunk after the cells of the earlier ones.
LEMMA StoredRows ==
  ASSUME CallShape, NEW l, NEW kind, NEW cells, NEW in,
         Follows(cells, start_pos, l, kind, 0), Follows(in, T, l, kind, start_pos)
  PROVE  Follows(Stored(cells, in), start_pos + T, l, kind, 0)
<1>1. start_pos \in Nat /\ T \in Nat /\ cap \in Nat /\ start_pos + T <= cap
  BY DEF CallShape
<1>2. PICK rows, n, z : rows = Stored(cells, in) /\ n = start_pos + T /\ z = 0
  OBVIOUS
<1>3. ASSUME NEW cell \in 0..n - 1 PROVE rows[cell] = Frame(l, kind, z + cell)
  <2>1. cell \in Cells /\ cell \in 0..start_pos + T - 1 /\ z + cell = cell
    BY <1>1, <1>2 DEF Cells
  <2>2. CASE cell < start_pos
    <3>1. ~\E t \in Rows : CellOf(t) = cell
      BY <1>1, <2>2 DEF Rows, CellOf
    <3>2. cells[cell] = Frame(l, kind, cell)
      BY <1>1, <2>1, <2>2 DEF Follows
    <3> QED BY <1>2, <2>1, <3>1, <3>2 DEF Stored
  <2>3. CASE ~(cell < start_pos)
    <3>1. cell - start_pos \in Rows /\ CellOf(cell - start_pos) = cell
      BY <1>1, <2>1, <2>3 DEF Rows, CellOf
    <3>2. PICK u \in Rows : u = (CHOOSE t \in Rows : CellOf(t) = cell) /\ CellOf(u) = cell
      BY <3>1
    <3>3. rows[cell] = in[u]
      BY <1>2, <2>1, <3>1, <3>2 DEF Stored
    <3>4. start_pos + u = cell
      BY <1>1, <3>2 DEF CellOf
    <3>5. in[u] = Frame(l, kind, start_pos + u)
      BY <3>2 DEF Follows, Rows
    <3> QED BY <2>1, <3>3, <3>4, <3>5
  <2> QED BY <2>2, <2>3
<1>4. Follows(rows, n, l, kind, z)
  BY <1>3 DEF Follows
<1> QED BY <1>2, <1>4

\* A history rolled on, by the kernel or by the host.
LEMMA HistSound ==
  ASSUME CallShape, LayerShape, OnlyCache, NEW c, InCall(c), NEW l, NEW b, NEW in,
         layers' = [layers EXCEPT ![l][b] = HistRoll(@, Content(in))],
         NEW K, Known(K), NEW f, RollMakes(c, l, b, in, K, f)
  PROVE  Sound(<<l, b>>, f)
<1>1. PICK off \in Nat : \E kind :
      /\ l \in Layer /\ b \in HistNames
      /\ Cached(l, b, Km1, kind, off - Km1) \in K
      /\ Fact(in, c.T, l, kind, off) \in K
      /\ f = Cached(l, b, Km1, kind, off + c.T - Km1)
  BY DEF RollMakes
<1>2. PICK kind :
        /\ l \in Layer /\ b \in HistNames
        /\ Cached(l, b, Km1, kind, off - Km1) \in K
        /\ Fact(in, c.T, l, kind, off) \in K
        /\ f = Cached(l, b, Km1, kind, off + c.T - Km1)
  BY <1>1
<1>3. b \in CacheNames
  BY <1>2 DEF CacheNames
<1>4. PICK hist, new, rows : hist = layers[l][b] /\ new = Content(in)
                             /\ rows = HistRoll(hist, new)
  OBVIOUS
<1>5. \A j \in 0..Km1 - 1 : hist[j] = Frame(l, kind, off - Km1 + j)
  <2>1. PICK o : o = off - Km1
    OBVIOUS
  <2>2. \A j \in 0..Km1 - 1 : hist[j] = Frame(l, kind, o + j)
    BY <1>2, <1>4, <2>1, KnownCached
  <2> QED BY <2>1, <2>2
<1>6. \A t \in Rows : new[t] = Frame(l, kind, off + t)
  BY <1>2, <1>4, KnownFact DEF InCall, Rows
<1>7. PICK o : o = off + c.T - Km1
  OBVIOUS
<1>8. IsHist(rows) /\ \A j \in 0..Km1 - 1 : rows[j] = Frame(l, kind, o + j)
  <2>1. IsHist(rows) /\ \A j \in 0..Km1 - 1 : rows[j] = Frame(l, kind, off + T - Km1 + j)
    BY <1>4, <1>5, <1>6, RollRows, SMTT(30) DEF CallShape
  <2> QED BY <1>7, <2>1 DEF InCall
<1>9. layers' = [layers EXCEPT ![l][b] = rows]
  BY <1>2, <1>3, <1>4 DEF LayerShape
<1>10. PICK where : where = <<l, b>>
  OBVIOUS
<1>11. OnlyWrites({where}) /\ layers'[l][b] = rows /\ CallShape' /\ LayerShape'
  BY <1>2, <1>3, <1>9, <1>10, CacheWrites
<1>12. PICK m : m = Km1
  OBVIOUS
<1>13. Holds(Cached(l, b, m, kind, o))'
  BY <1>2, <1>3, <1>8, <1>11, <1>12, CachedNext
<1>14. f = Cached(l, b, m, kind, o) /\ f[1] = where
  BY <1>2, <1>7, <1>10, <1>12 DEF Cached
<1> QED BY <1>10, <1>11, <1>13, <1>14 DEF Sound

\* The roll kernel makes what RollMakes says.
LEMMA RollSound ==
  ASSUME CallShape, LayerShape, NEW c, InCall(c), NEW d, d = Head(batch), UNCHANGED path, GpuRoll,
         NEW K, Known(K), NEW e, NEW f, Makes(c, d, K, e, f)
  PROVE  Sound(Target(d), f)
<1>1. /\ d.op = "roll" /\ OnlyCache
      /\ layers' = [layers EXCEPT ![d.l][d.out] = HistRoll(@, Content(d.in[1]))]
  BY DEF GpuRoll, GpuCache, Retire, OnlyCache, CallShape
<1>2. RollMakes(c, d.l, d.out, d.in[1], K, f) /\ Target(d) = <<d.l, d.out>>
  BY <1>1 DEF Makes, Target
<1>3. PICK l, b, in : l = d.l /\ b = d.out /\ in = d.in[1]
  OBVIOUS
<1>4. layers' = [layers EXCEPT ![l][b] = HistRoll(@, Content(in))]
  BY <1>1, <1>3
<1>5. Sound(<<l, b>>, f)
  BY <1>1, <1>2, <1>3, <1>4, HistSound
<1> QED BY <1>2, <1>3, <1>5

\* The store kernel makes what StoreMakes says.
LEMMA StoreSound ==
  ASSUME CallShape, LayerShape, NEW c, InCall(c), NEW d, d = Head(batch), UNCHANGED path,
         GpuStore,
         NEW K, Known(K), NEW e, NEW f, Makes(c, d, K, e, f)
  PROVE  Sound(Target(d), f)
<1>1. /\ d.op = "store" /\ OnlyCache
      /\ layers' = [layers EXCEPT ![d.l][d.out] = Stored(@, Content(d.in[1]))]
  <2>1. ~(start_pos + T > cap) /\ ~overrun
    BY DEF CallShape
  <2>2. ~overrun'
    BY <2>1, Zenon DEF GpuStore
  <2> QED BY <2>2 DEF GpuStore, GpuCache, Retire, OnlyCache
<1>2. OnlyCache
  BY <1>1
<1>3. StoreMakes(c, d.l, d.out, d.in[1], K, f) /\ Target(d) = <<d.l, d.out>>
  BY <1>1 DEF Makes, Target
<1>4. PICK kind :
        /\ d.l \in Layer /\ d.out \in {"k", "v"}
        /\ Cached(d.l, d.out, c.start_pos, kind, 0) \in K
        /\ Fact(d.in[1], c.T, d.l, kind, c.start_pos) \in K
        /\ f = Cached(d.l, d.out, c.start_pos + c.T, kind, 0)
  BY <1>3 DEF StoreMakes
<1>5. PICK l \in Layer, b \in {"k", "v"} : \E in :
      l = d.l /\ b = d.out /\ in = d.in[1]
  BY <1>4
<1>6. PICK in :
        l = d.l /\ b = d.out /\ in = d.in[1]
  BY <1>5
<1>7. b \in CacheNames /\ b \notin HistNames
  BY DEF CacheNames, HistNames
<1>8. PICK cells, new, rows : cells = layers[l][b] /\ new = Content(in)
                              /\ rows = Stored(cells, new)
  OBVIOUS
<1>9. PICK z : z = 0
  OBVIOUS
<1>10. Follows(cells, start_pos, l, kind, z)
  <2>1. Cached(l, b, start_pos, kind, z) \in K
    BY <1>4, <1>6, <1>9 DEF InCall
  <2> QED BY <1>8, <2>1, KnownCached DEF Follows
<1>11. Follows(new, T, l, kind, start_pos)
  <2>1. Fact(in, T, l, kind, start_pos) \in K
    BY <1>4, <1>6 DEF InCall
  <2> QED BY <1>8, <2>1, KnownFact DEF Follows
<1>12. PICK n : n = start_pos + T
  OBVIOUS
<1>13. \A cell \in 0..n - 1 : rows[cell] = Frame(l, kind, z + cell)
  <2>1. Follows(rows, n, l, kind, z)
    BY <1>8, <1>10, <1>11, <1>12, <1>9, StoredRows
  <2> QED BY <2>1 DEF Follows
<1>14. layers' = [layers EXCEPT ![l][b] = rows]
  BY <1>1, <1>6, <1>7, <1>8 DEF LayerShape
<1>15. PICK where : where = <<l, b>>
  OBVIOUS
<1>16. OnlyWrites({where}) /\ layers'[l][b] = rows /\ CallShape' /\ LayerShape'
  BY <1>2, <1>7, <1>14, <1>15, CacheWrites
<1>17. Holds(Cached(l, b, n, kind, z))'
  BY <1>7, <1>13, <1>16, CachedNext
<1>18. f = Cached(l, b, n, kind, z) /\ f[1] = where
  BY <1>4, <1>6, <1>12, <1>15, <1>9 DEF Cached, InCall
<1> QED BY <1>3, <1>6, <1>15, <1>16, <1>17, <1>18 DEF Sound

\* Whatever the GPU runs next does what it makes.
LEMMA GpuSound ==
  ASSUME CallShape, LayerShape, NEW c, InCall(c), NEW d, d = Head(batch), UNCHANGED path,
         \/ GpuMap \/ GpuMatvec \/ GpuRouted \/ GpuRowIn \/ GpuRowOut \/ GpuSconv \/ GpuAttn
         \/ GpuRoll \/ GpuStore \/ GpuConv \/ GpuBanded,
         NEW K, Known(K), NEW f, Makes(c, d, K, d.experts, f)
  PROVE  Sound(Target(d), f)
<1>1. CASE GpuMap
  BY <1>1, MapSound
<1>2. CASE GpuMatvec
  BY <1>2, MatvecSound
<1>3. CASE GpuRouted
  BY <1>3, RoutedSound
<1>4. CASE GpuRowIn
  BY <1>4, RowInSound
<1>5. CASE GpuRowOut
  BY <1>5, RowOutSound
<1>6. CASE GpuSconv \/ GpuConv
  BY <1>6, SconvSound
<1>7. CASE GpuAttn \/ GpuBanded
  BY <1>7, AttnSound
<1>8. CASE GpuRoll
  BY <1>8, RollSound
<1>9. CASE GpuStore
  BY <1>9, StoreSound
<1> QED BY <1>1, <1>2, <1>3, <1>4, <1>5, <1>6, <1>7, <1>8, <1>9

-----------------------------------------------------------------------------
(* Every step of the host makes what its rule says.                        *)

AllHold(K) == \A g \in K : Holds(g)

\* A step of the host does what its instruction says.
Advances(W, F) == (\A f \in F : Holds(f)') /\ OnlyWrites(W) /\ CallShape' /\ LayerShape'

\* Where every fact holds, those of the GPU do.
LEMMA AllKnown == \A K : AllHold(K) => Known(K)
BY DEF AllHold, Known

\* A step sound for one array and one fact, as a step of the host.
LEMMA SoundAdvances ==
  ASSUME NEW w, NEW f, Sound(w, f), NEW W, W = {w}, NEW F, F = {f}
  PROVE  Advances(W, F)
BY DEF Sound, Advances

\* What an instruction of the host may change.
LEMMA ChangesOf ==
  ASSUME NEW c, NEW w, NEW K, NEW W, NEW F, Changes(c, w, K, W, F), w.do = "host"
  PROVE  /\ w.step = "len" => LenChanges(c, w, K, W, F)
         /\ w.step # "len" => HostChanges(c, w, K, W, F)
<1>1. w.step = "len" => ~HostChanges(c, w, K, W, F)
  BY DEF HostChanges
<1> QED BY <1>1 DEF Changes

\* The first m rows of one array.
LEMMA PartSound ==
  ASSUME CallShape, LayerShape, OnlyMem, NEW b \in (DOMAIN mem \ DOMAIN Devices) \cup {"x"},
         NEW rows, DOMAIN rows = Rows, Write(b, rows), NEW m, NEW l, NEW kind, NEW off,
         \A t \in 0..m - 1 : rows[t] = Frame(l, kind, off + t)
  PROVE  Sound(<<Scratch, b>>, Fact(b, m, l, kind, off))
<1>1. PICK f, w : f = Fact(b, m, l, kind, off) /\ w = <<Scratch, b>>
  OBVIOUS
<1>2. /\ OnlyWrites({w}) /\ Content(b)' = rows
      /\ b \in DOMAIN mem' \cup {"x"} /\ CallShape' /\ LayerShape'
  BY <1>1, ScratchWrites
<1>3. Holds(f)'
  <2>1. b \in DOMAIN mem' \cup {"x"} /\ \A j \in 0..m - 1 : Content(b)'[j] = Frame(l, kind, off + j)
    BY <1>2
  <2>2. Holds(Fact(b, m, l, kind, off))'
    BY <2>1, FactNext
  <2> QED BY <1>1, <2>2
<1>4. f[1] = w
  BY <1>1 DEF Fact
<1>5. Sound(w, f)
  BY <1>2, <1>3, <1>4 DEF Sound
<1> QED BY <1>1, <1>5

\* The residual stream x is no buffer of its own.
LEMMA NotX == ASSUME CallShape PROVE "x" \notin DOMAIN mem /\ \A b \in DOMAIN mem : b # "x" /\ Content(b) = mem[b]
<1>1. "x" \notin DOMAIN mem
  BY DEF CallShape, Buffers, TinyArrays, Devices
<1> QED BY <1>1 DEF Content

\* What the host derives from a frame is the frame of the next kind.
LEMMA DeriveFrame ==
  ASSUME NEW l, NEW from, NEW to, NEW p \in Nat, NEW f, f = Frame(l, from, p)
  PROVE  Derive(l, from, to, f) = Frame(l, to, p) /\ Derive(l, from, to, f) = <<l, to, p>>
<1>1. ~(p < 0) /\ p >= 0
  OBVIOUS
<1>2. f = <<l, from, p>> /\ f[3] = p
  BY <1>1 DEF Frame
<1> QED BY <1>1, <1>2 DEF Derive, Frame

\* An array whose rows the host derives from those of another.
LEMMA DerivedSound ==
  ASSUME CallShape, LayerShape, OnlyMem, NEW b \in DOMAIN mem \ DOMAIN Devices,
         NEW l, NEW from, NEW to, NEW in, NEW off \in Nat,
         \A t \in Rows : in[t] = Frame(l, from, off + t),
         mem' = [mem EXCEPT ![b] = [t \in Rows |-> Derive(l, from, to, in[t])]], x' = x
  PROVE  Sound(<<Scratch, b>>, Fact(b, T, l, to, off))
<1>1. PICK rows : rows = [t \in Rows |-> Derive(l, from, to, in[t])]
  OBVIOUS
<1>2. ASSUME NEW t \in 0..T - 1 PROVE rows[t] = Frame(l, to, off + t)
  <2>1. t \in Rows /\ off + t \in Nat
    BY DEF Rows
  <2>2. Derive(l, from, to, in[t]) = Frame(l, to, off + t)
    BY <2>1, DeriveFrame
  <2> QED BY <1>1, <2>1, <2>2
<1>3. DOMAIN rows = Rows /\ Write(b, rows)
  BY <1>1, NotX DEF Write
<1> QED BY <1>2, <1>3, PartSound

\* The host's scaling of the queries makes what TauChanges says.
LEMMA TauSound ==
  ASSUME CallShape, LayerShape, NEW c, InCall(c), NEW w, w = Head(todo), UNCHANGED path, HostTau,
         NEW K, AllHold(K), NEW W, NEW F, Changes(c, w, K, W, F)
  PROVE  Advances(W, F)
<1>1. /\ w.do = "host" /\ w.step = "tau" /\ OnlyMem /\ x' = x
      /\ mem' = [mem EXCEPT !["q_normed"] = [t \in Rows |-> Derive(w.l, "qn", "q", mem["q_normed"][t])]]
  BY DEF HostTau, HostStep, Do, OnlyMem, forwardVars
<1>2. TauChanges(c, w, K, W, F)
  BY <1>1, ChangesOf DEF HostChanges
<1>3. PICK off \in Nat :
        /\ "q_normed" \in c.arrays /\ Fact("q_normed", c.T, w.l, "qn", off) \in K
        /\ W = {<<Scratch, "q_normed">>} /\ F = {Fact("q_normed", c.T, w.l, "q", off)}
  BY <1>2 DEF TauChanges
<1>4. PICK b \in DOMAIN mem \ DOMAIN Devices : \E l :
      b = "q_normed" /\ l = w.l
  BY <1>3 DEF InCall
<1>5. PICK l :
        b = "q_normed" /\ l = w.l
  BY <1>4
<1>6. PICK in : in = mem[b] /\ in = Content(b)
  BY <1>5, NotX
<1>7. \A t \in Rows : in[t] = Frame(l, "qn", off + t)
  BY <1>3, <1>5, <1>6, AllKnown, KnownFact DEF InCall, Rows
<1>8. mem' = [mem EXCEPT ![b] = [t \in Rows |-> Derive(l, "qn", "q", in[t])]]
  BY <1>1, <1>5, <1>6
<1>9. Sound(<<Scratch, b>>, Fact(b, T, l, "q", off))
  BY <1>1, <1>7, <1>8, DerivedSound
<1>10. PICK where, f : where = <<Scratch, b>> /\ f = Fact(b, T, l, "q", off)
  OBVIOUS
<1>11. W = {where} /\ F = {f}
  BY <1>3, <1>5, <1>10 DEF InCall
<1> QED BY <1>9, <1>10, <1>11, SoundAdvances

\* The tiny path's copy of the scaled queries makes what ScaleChanges says.
LEMMA ScaleSound ==
  ASSUME CallShape, LayerShape, NEW c, InCall(c), NEW w, w = Head(todo), UNCHANGED path,
         HostScale,
         NEW K, AllHold(K), NEW W, NEW F, Changes(c, w, K, W, F)
  PROVE  Advances(W, F)
<1>1. /\ w.do = "host" /\ w.step = "scale" /\ OnlyMem /\ x' = x
      /\ mem' = [mem EXCEPT !["q_scaled"] = [t \in Rows |-> Derive(w.l, "qn", "q", mem["q_normed"][t])]]
  BY DEF HostScale, TinyArray, TinyHost, HostStep, Do, OnlyMem
<1>2. ScaleChanges(c, w, K, W, F)
  BY <1>1, ChangesOf DEF HostChanges
<1>3. PICK off \in Nat :
        /\ "q_scaled" \in c.arrays /\ Fact("q_normed", c.T, w.l, "qn", off) \in K
        /\ W = {<<Scratch, "q_scaled">>} /\ F = {Fact("q_scaled", c.T, w.l, "q", off)}
  BY <1>2 DEF ScaleChanges
<1>4. PICK b \in DOMAIN mem \ DOMAIN Devices : \E l :
      b = "q_scaled" /\ l = w.l
  BY <1>3 DEF InCall
<1>5. PICK l :
        b = "q_scaled" /\ l = w.l
  BY <1>4
<1>6. PICK in : in = mem["q_normed"] /\ in = Content("q_normed")
  BY DEF Content
<1>7. \A t \in Rows : in[t] = Frame(l, "qn", off + t)
  BY <1>3, <1>5, <1>6, AllKnown, KnownFact DEF InCall, Rows
<1>8. mem' = [mem EXCEPT ![b] = [t \in Rows |-> Derive(l, "qn", "q", in[t])]]
  BY <1>1, <1>5, <1>6
<1>9. Sound(<<Scratch, b>>, Fact(b, T, l, "q", off))
  BY <1>1, <1>7, <1>8, DerivedSound
<1>10. PICK where, f : where = <<Scratch, b>> /\ f = Fact(b, T, l, "q", off)
  OBVIOUS
<1>11. W = {where} /\ F = {f}
  BY <1>3, <1>5, <1>10 DEF InCall
<1> QED BY <1>9, <1>10, <1>11, SoundAdvances

\* The final norm makes what FinalChanges says.
LEMMA FinalSound ==
  ASSUME CallShape, LayerShape, NEW c, InCall(c), NEW w, w = Head(todo), UNCHANGED path,
         HostFinal,
         NEW K, AllHold(K), NEW W, NEW F, Changes(c, w, K, W, F)
  PROVE  Advances(W, F)
<1>1. /\ w.do = "host" /\ w.step = "final" /\ OnlyMem /\ x' = x
      /\ mem' = [mem EXCEPT !["final"] = [t \in Rows |-> Derive(NumLayers, "x", "fn", x[t])]]
  BY DEF HostFinal, HostStep, Do, OnlyMem, forwardVars
<1>2. FinalChanges(c, w, K, W, F)
  BY <1>1, ChangesOf DEF HostChanges
<1>3. PICK off \in Nat :
        /\ "final" \in c.arrays /\ Fact("x", c.T, NumLayers, "x", off) \in K
        /\ W = {<<Scratch, "final">>} /\ F = {Fact("final", c.T, NumLayers, "fn", off)}
  BY <1>2 DEF FinalChanges
<1>4. PICK b \in DOMAIN mem \ DOMAIN Devices : \E l :
      b = "final" /\ l = NumLayers
  BY <1>3 DEF InCall
<1>5. PICK l :
        b = "final" /\ l = NumLayers
  BY <1>4
<1>6. PICK in : in = x /\ in = Content("x")
  BY DEF Content
<1>7. \A t \in Rows : in[t] = Frame(l, "x", off + t)
  BY <1>3, <1>5, <1>6, AllKnown, KnownFact DEF InCall, Rows
<1>8. mem' = [mem EXCEPT ![b] = [t \in Rows |-> Derive(l, "x", "fn", in[t])]]
  BY <1>1, <1>5, <1>6
<1>9. Sound(<<Scratch, b>>, Fact(b, T, l, "fn", off))
  BY <1>1, <1>7, <1>8, DerivedSound
<1>10. PICK where, f : where = <<Scratch, b>> /\ f = Fact(b, T, l, "fn", off)
  OBVIOUS
<1>11. W = {where} /\ F = {f}
  BY <1>3, <1>5, <1>10 DEF InCall
<1> QED BY <1>9, <1>10, <1>11, SoundAdvances

\* The copy of the mixed rows makes what MemcpyChanges says.
LEMMA MemcpySound ==
  ASSUME CallShape, LayerShape, NEW c, InCall(c), NEW w, w = Head(todo), UNCHANGED path,
         HostMemcpy,
         path = "real", NEW K, AllHold(K), NEW W, NEW F, Changes(c, w, K, W, F)
  PROVE  Advances(W, F)
<1>1. /\ w.do = "host" /\ w.step = "memcpy" /\ OnlyMem /\ x' = x
      /\ mem' = [mem EXCEPT !["mlp_out"] = out_host]
  BY DEF HostMemcpy, HostStep, Do, OnlyMem, forwardVars
<1>2. MemcpyChanges(c, w, K, W, F)
  BY <1>1, ChangesOf DEF HostChanges
<1>3. PICK m, off \in Nat : \E l, kind :
      /\ "mlp_out" \in c.arrays /\ OutFact(m, l, kind, off) \in K
      /\ W = {<<Scratch, "mlp_out">>} /\ F = {Fact("mlp_out", m, l, kind, off)}
  BY <1>2 DEF MemcpyChanges
<1>4. PICK l, kind :
        /\ "mlp_out" \in c.arrays /\ OutFact(m, l, kind, off) \in K
        /\ W = {<<Scratch, "mlp_out">>} /\ F = {Fact("mlp_out", m, l, kind, off)}
  BY <1>3
<1>5. PICK b \in DOMAIN mem \ DOMAIN Devices : b = "mlp_out"
  BY <1>4 DEF InCall
<1>6. \A t \in 0..m - 1 : out_host[t] = Frame(l, kind, off + t)
  BY <1>4, HoldsNow DEF AllHold, HoldsRules
<1>7. DOMAIN out_host = Rows /\ Write(b, out_host)
  <2>1. DOMAIN out_host = Rows
    BY DEF CallShape
  <2> QED BY <1>1, <1>5, <2>1, NotX DEF Write
<1>8. PICK rows : rows = out_host
  OBVIOUS
<1>9. Sound(<<Scratch, b>>, Fact(b, m, l, kind, off))
  BY <1>1, <1>6, <1>7, <1>8, PartSound
<1>10. PICK where, f : where = <<Scratch, b>> /\ f = Fact(b, m, l, kind, off)
  OBVIOUS
<1>11. W = {where} /\ F = {f}
  BY <1>4, <1>5, <1>10
<1> QED BY <1>9, <1>10, <1>11, SoundAdvances

\* Only state of the host's own changes.
OnlyHost == UNCHANGED <<cap, layers, overrun, T, start_pos, x, mem, encoding, path>>

\* The router's choice makes what RouteChanges says.
LEMMA RouteSound ==
  ASSUME CallShape, LayerShape, NEW c, InCall(c), NEW w, w = Head(todo), UNCHANGED path,
         HostRoute,
         NEW K, AllHold(K), NEW W, NEW F, Changes(c, w, K, W, F)
  PROVE  Advances(W, F)
<1>1. /\ w.do = "host" /\ w.step = "route" /\ OnlyHost /\ out_host' = out_host
      /\ topk_idx' = mem["router_logits"][0]
  BY DEF HostRoute, HostStep, Do, OnlyHost, forwardVars
<1>2. RouteChanges(c, w, K, W, F)
  BY <1>1, ChangesOf DEF HostChanges
<1>3. PICK m \in Nat \ {0}, p \in Nat : \E l :
      /\ Fact("router_logits", m, l, "ro", p) \in K
      /\ W = {<<HostSide, "topk">>} /\ F = {TopK(<<l, "ro", p>>)}
  BY <1>2 DEF RouteChanges
<1>4. PICK l :
        /\ Fact("router_logits", m, l, "ro", p) \in K
        /\ W = {<<HostSide, "topk">>} /\ F = {TopK(<<l, "ro", p>>)}
  BY <1>3
<1>5. PICK e, f, where : e = <<l, "ro", p>> /\ f = TopK(e) /\ where = <<HostSide, "topk">>
  OBVIOUS
<1>6. topk_idx' = e
  <2>1. 0 \in 0..m - 1 /\ p + 0 = p /\ ~(p < 0)
    OBVIOUS
  <2>2. Content("router_logits")[0] = Frame(l, "ro", p + 0)
    BY <1>4, <2>1, AllKnown, KnownFact
  <2> QED BY <1>1, <1>5, <2>1, <2>2 DEF Frame, Content
<1>7. Holds(f)'
  BY <1>5, <1>6, HoldsNext DEF HoldsRules
<1>8. OnlyWrites({where})
  BY <1>1, <1>5 DEF OnlyWrites, OnlyHost, Content
<1>9. CallShape' /\ LayerShape'
  BY <1>1 DEF OnlyHost, CallShape, LayerShape, Rows
<1>10. W = {where} /\ F = {f}
  BY <1>4, <1>5
<1> QED BY <1>7, <1>8, <1>9, <1>10 DEF Advances

\* The two rows that a token's experts left.
LEMMA MixedIs ==
  ASSUME CallShape, NEW K, Known(K), NEW l, NEW p \in Nat, MixedAt(K, l, p)
  PROVE  Mixed(l) = Frame(l, "m", p)
<1>1. PICK m1 \in Nat \ {0}, m2 \in Nat \ {0} :
        Fact("routed_raw", m1, l, "re", p) \in K /\ Fact("shared_raw", m2, l, "sh", p) \in K
  BY DEF MixedAt
<1>2. 0 \in 0..m1 - 1 /\ 0 \in 0..m2 - 1 /\ p + 0 = p /\ ~(p < 0)
  OBVIOUS
<1>3. Content("routed_raw")[0] = Frame(l, "re", p + 0)
      /\ Content("shared_raw")[0] = Frame(l, "sh", p + 0)
  BY <1>1, <1>2, KnownFact
<1>4. Content("routed_raw") = mem["routed_raw"] /\ Content("shared_raw") = mem["shared_raw"]
  BY DEF Content
<1>5. mem["routed_raw"][0] = <<l, "re", p>> /\ mem["shared_raw"][0] = <<l, "sh", p>>
  BY <1>2, <1>3, <1>4 DEF Frame
<1>6. mem["routed_raw"][0][3] = p
  BY <1>5
<1> QED BY <1>2, <1>5, <1>6 DEF Mixed, Frame

\* The weighted sum of a row makes what MixChanges says.
LEMMA MixSound ==
  ASSUME CallShape, LayerShape, NEW c, InCall(c), NEW w, w = Head(todo), UNCHANGED path, HostMix,
         path = "real", NEW K, AllHold(K), NEW W, NEW F, Changes(c, w, K, W, F)
  PROVE  Advances(W, F)
<1>1. /\ w.do = "host" /\ w.step = "mix" /\ OnlyHost /\ topk_idx' = topk_idx
      /\ out_host' = [out_host EXCEPT ![w.t] = Mixed(w.l)]
  BY DEF HostMix, HostStep, Do, OnlyHost, forwardVars
<1>2. MixChanges(c, w, K, W, F)
  BY <1>1, ChangesOf DEF HostChanges
<1>3. PICK off \in Nat :
        /\ w.t \in 0..c.T - 1
        /\ MixedAt(K, w.l, off + w.t) /\ OutPart(w.t, w.l, "m", off) \subseteq K
        /\ W = {<<HostSide, "out_host">>} /\ F = {OutFact(w.t + 1, w.l, "m", off)}
  BY <1>2 DEF MixChanges
<1>4. PICK k \in Rows : \E l :
      k = w.t /\ l = w.l
  BY <1>3 DEF InCall, Rows
<1>5. PICK l :
        k = w.t /\ l = w.l
  BY <1>4
<1>6. PICK m, v : m = k + 1 /\ v = Mixed(l)
  OBVIOUS
<1>7. PICK f, where : f = OutFact(m, l, "m", off) /\ where = <<HostSide, "out_host">>
  OBVIOUS
<1>8. v = Frame(l, "m", off + k)
  <2>1. PICK p \in Nat : p = off + k
    BY DEF Rows
  <2>2. MixedAt(K, l, p)
    BY <1>3, <1>5, <2>1
  <2> QED BY <1>6, <2>1, <2>2, AllKnown, MixedIs
<1>9. \A j \in 0..k - 1 : out_host[j] = Frame(l, "m", off + j)
  <2>1. CASE k = 0
    BY <2>1
  <2>2. CASE k # 0
    <3>1. OutFact(k, l, "m", off) \in K
      BY <1>3, <1>5, <2>2 DEF OutPart
    <3> QED BY <3>1, HoldsNow DEF AllHold, HoldsRules
  <2> QED BY <2>1, <2>2
<1>10. DOMAIN out_host = Rows /\ out_host' = [out_host EXCEPT ![k] = v]
  <2>1. DOMAIN out_host = Rows
    BY DEF CallShape
  <2> QED BY <1>1, <1>5, <1>6, <2>1
<1>11. ASSUME NEW j \in 0..m - 1 PROVE out_host'[j] = Frame(l, "m", off + j)
  <2>1. k \in Nat /\ k < T /\ T \in Nat
    BY DEF Rows, CallShape
  <2>2. j = k \/ (j \in 0..k - 1 /\ j \in Rows /\ j # k)
    BY <1>6, <2>1 DEF Rows
  <2> QED BY <1>8, <1>9, <1>10, <2>2
<1>12. Holds(f)'
  <2>1. Holds(OutFact(m, l, "m", off))'
    BY <1>11, HoldsNext DEF HoldsRules
  <2> QED BY <1>7, <2>1
<1>13. OnlyWrites({where})
  BY <1>1, <1>7 DEF OnlyWrites, OnlyHost, Content
<1>14. CallShape' /\ LayerShape'
  BY <1>1, <1>10 DEF OnlyHost, CallShape, LayerShape, Rows
<1>15. W = {where} /\ F = {f}
  BY <1>3, <1>5, <1>6, <1>7
<1> QED BY <1>12, <1>13, <1>14, <1>15 DEF Advances

\* One row of an array the host writes.
LEMMA SetRowSound ==
  ASSUME CallShape, LayerShape, OnlyMem, x' = x, NEW b \in DOMAIN mem \ DOMAIN Devices,
         NEW k \in Rows, NEW v, SetRow(b, k, v), NEW l, NEW kind, NEW off \in Nat,
         NEW K, Known(K), Part(b, k, l, kind, off) \subseteq K, v = Frame(l, kind, off + k)
  PROVE  Sound(<<Scratch, b>>, Fact(b, k + 1, l, kind, off))
<1>1. \A j \in 0..k - 1 : Content(b)[j] = Frame(l, kind, off + j)
  <2>1. CASE k = 0
    BY <2>1
  <2>2. CASE k # 0
    <3>1. Fact(b, k, l, kind, off) \in K
      BY <2>2 DEF Part
    <3> QED BY <3>1, KnownFact
  <2> QED BY <2>1, <2>2
<1>2. mem' = [mem EXCEPT ![b][k] = v]
  BY DEF SetRow
<1> QED BY <1>1, <1>2, RowSound

\* A row derived from the first of an array.
LEMMA DerivedFirst ==
  ASSUME CallShape, NEW K, Known(K), NEW a \in DOMAIN mem, NEW m \in Nat \ {0}, NEW l, NEW from,
         NEW p \in Nat, Fact(a, m, l, from, p) \in K
  PROVE  \A to : /\ Derive(l, from, to, mem[a][0]) = Frame(l, to, p)
                 /\ Derive(l, from, to, mem[a][0]) = <<l, to, p>>
<1>1. PICK f : f = mem[a][0] /\ 0 \in 0..m - 1 /\ p + 0 = p
  OBVIOUS
<1>2. Content(a)[0] = Frame(l, from, p + 0) /\ Content(a) = mem[a]
  BY <1>1, KnownFact, NotX
<1>3. f = Frame(l, from, p)
  BY <1>1, <1>2
<1> QED BY <1>1, <1>3, DeriveFrame

\* The scaled row of an expert-free layer makes what GscaleChanges says.
LEMMA GscaleSound ==
  ASSUME CallShape, LayerShape, NEW c, InCall(c), NEW w, w = Head(todo), UNCHANGED path,
         HostGscale,
         NEW K, AllHold(K), NEW W, NEW F, Changes(c, w, K, W, F)
  PROVE  Advances(W, F)
<1>1. /\ w.do = "host" /\ w.step = "gscale" /\ OnlyMem /\ x' = x
      /\ SetRow("mlp_out", w.t, Derive(w.l, "y", "m", mem["yrow"][0]))
  BY DEF HostGscale, TinyArray, TinyHost, HostStep, Do, OnlyMem
<1>2. GscaleChanges(c, w, K, W, F)
  BY <1>1, ChangesOf DEF HostChanges
<1>3. PICK off \in Nat, m \in Nat \ {0} :
        NextMlpRow(c, w, K, W, F, off) /\ Fact("yrow", m, w.l, "y", off + w.t) \in K
  BY <1>2 DEF GscaleChanges
<1>4. /\ "mlp_out" \in c.arrays /\ w.t \in 0..c.T - 1
      /\ Part("mlp_out", w.t, w.l, "m", off) \subseteq K
      /\ W = {<<Scratch, "mlp_out">>} /\ F = {Fact("mlp_out", w.t + 1, w.l, "m", off)}
  BY <1>3 DEF NextMlpRow
<1>5. PICK b \in DOMAIN mem \ DOMAIN Devices, k \in Rows : \E l :
      b = "mlp_out" /\ k = w.t /\ l = w.l
  BY <1>4 DEF InCall, Rows
<1>6. PICK l :
        b = "mlp_out" /\ k = w.t /\ l = w.l
  BY <1>5
<1>7. PICK v : v = Derive(l, "y", "m", mem["yrow"][0])
  OBVIOUS
<1>8. v = Frame(l, "m", off + k)
  <2>1. PICK p \in Nat : p = off + k
    BY DEF Rows
  <2>2. Fact("yrow", m, l, "y", p) \in K
    BY <1>3, <1>6, <2>1
  <2>3. "yrow" \in DOMAIN mem
    <3>1. "yrow" \in DOMAIN mem \cup {"x"}
      BY <2>2, AllKnown, KnownFact
    <3> QED BY <3>1
  <2> QED BY <1>7, <2>1, <2>2, <2>3, AllKnown, DerivedFirst
<1>9. SetRow(b, k, v)
  BY <1>1, <1>6, <1>7
<1>10. Part(b, k, l, "m", off) \subseteq K
  BY <1>4, <1>6
<1>11. Sound(<<Scratch, b>>, Fact(b, k + 1, l, "m", off))
  BY <1>1, <1>8, <1>9, <1>10, AllKnown, SetRowSound
<1>12. PICK where, f : where = <<Scratch, b>> /\ f = Fact(b, k + 1, l, "m", off)
  OBVIOUS
<1>13. W = {where} /\ F = {f}
  BY <1>4, <1>6, <1>12
<1> QED BY <1>11, <1>12, <1>13, SoundAdvances

\* The weighted sum of a token's experts makes what BlendChanges says.
LEMMA BlendSound ==
  ASSUME CallShape, LayerShape, NEW c, InCall(c), NEW w, w = Head(todo), UNCHANGED path,
         HostBlend,
         NEW K, AllHold(K), NEW W, NEW F, Changes(c, w, K, W, F)
  PROVE  Advances(W, F)
<1>1. /\ w.do = "host" /\ w.step = "blend" /\ OnlyMem /\ x' = x
      /\ SetRow("mlp_out", w.t, Mixed(w.l))
  BY DEF HostBlend, TinyArray, TinyHost, HostStep, Do, OnlyMem
<1>2. BlendChanges(c, w, K, W, F)
  BY <1>1, ChangesOf DEF HostChanges
<1>3. PICK off \in Nat : NextMlpRow(c, w, K, W, F, off) /\ MixedAt(K, w.l, off + w.t)
  BY <1>2 DEF BlendChanges
<1>4. /\ "mlp_out" \in c.arrays /\ w.t \in 0..c.T - 1
      /\ Part("mlp_out", w.t, w.l, "m", off) \subseteq K
      /\ W = {<<Scratch, "mlp_out">>} /\ F = {Fact("mlp_out", w.t + 1, w.l, "m", off)}
  BY <1>3 DEF NextMlpRow
<1>5. PICK b \in DOMAIN mem \ DOMAIN Devices, k \in Rows : \E l :
      b = "mlp_out" /\ k = w.t /\ l = w.l
  BY <1>4 DEF InCall, Rows
<1>6. PICK l :
        b = "mlp_out" /\ k = w.t /\ l = w.l
  BY <1>5
<1>7. PICK v : v = Mixed(l)
  OBVIOUS
<1>8. v = Frame(l, "m", off + k)
  <2>1. PICK p \in Nat : p = off + k
    BY DEF Rows
  <2>2. MixedAt(K, l, p)
    BY <1>3, <1>6, <2>1
  <2> QED BY <1>7, <2>1, <2>2, AllKnown, MixedIs
<1>9. SetRow(b, k, v)
  BY <1>1, <1>6, <1>7
<1>10. Part(b, k, l, "m", off) \subseteq K
  BY <1>4, <1>6
<1>11. Sound(<<Scratch, b>>, Fact(b, k + 1, l, "m", off))
  BY <1>1, <1>8, <1>9, <1>10, AllKnown, SetRowSound
<1>12. PICK where, f : where = <<Scratch, b>> /\ f = Fact(b, k + 1, l, "m", off)
  OBVIOUS
<1>13. W = {where} /\ F = {f}
  BY <1>4, <1>6, <1>12
<1> QED BY <1>11, <1>12, <1>13, SoundAdvances

\* The weight on a hidden row makes what GammaChanges says.
LEMMA GammaSound ==
  ASSUME CallShape, LayerShape, NEW c, InCall(c), NEW w, w = Head(todo), UNCHANGED path,
         HostGamma,
         NEW K, AllHold(K), NEW W, NEW F, Changes(c, w, K, W, F)
  PROVE  Advances(W, F)
<1>1. /\ w.do = "host" /\ w.step = "gamma" /\ OnlyMem /\ x' = x
      /\ SetRow("hbuf", 0, Derive(w.l, "hm", "hg", mem["hbuf"][0]))
  BY DEF HostGamma, TinyArray, TinyHost, HostStep, Do, OnlyMem
<1>2. GammaChanges(c, w, K, W, F)
  BY <1>1, ChangesOf DEF HostChanges
<1>3. PICK m \in Nat \ {0}, p \in Nat :
        /\ "hbuf" \in c.arrays /\ Fact("hbuf", m, w.l, "hm", p) \in K
        /\ W = {<<Scratch, "hbuf">>} /\ F = {Fact("hbuf", 1, w.l, "hg", p)}
  BY <1>2 DEF GammaChanges
<1>4. PICK b \in DOMAIN mem \ DOMAIN Devices : \E l :
      b = "hbuf" /\ l = w.l
  BY <1>3 DEF InCall
<1>5. PICK l :
        b = "hbuf" /\ l = w.l
  BY <1>4
<1>6. PICK v : v = Derive(l, "hm", "hg", mem["hbuf"][0])
  OBVIOUS
<1>7. v = <<l, "hg", p>>
  <2>1. "hbuf" \in DOMAIN mem /\ Fact("hbuf", m, l, "hm", p) \in K
    BY <1>3, <1>5
  <2> QED BY <1>6, <2>1, AllKnown, DerivedFirst
<1>8. WriteRow(b, 0, v)
  BY <1>1, <1>5, <1>6 DEF WriteRow, SetRow
<1>9. Sound(<<Scratch, b>>, Fact(b, 1, l, "hg", p))
  BY <1>1, <1>7, <1>8, FirstRowSound
<1>10. PICK where, f : where = <<Scratch, b>> /\ f = Fact(b, 1, l, "hg", p)
  OBVIOUS
<1>11. W = {where} /\ F = {f}
  BY <1>3, <1>5, <1>10
<1> QED BY <1>9, <1>10, <1>11, SoundAdvances

\* The row scaled for the logits makes what MupChanges says.
LEMMA MupSound ==
  ASSUME CallShape, LayerShape, NEW c, InCall(c), NEW w, w = Head(todo), UNCHANGED path, HostMup,
         NEW K, AllHold(K), NEW W, NEW F, Changes(c, w, K, W, F)
  PROVE  Advances(W, F)
<1>1. /\ w.do = "host" /\ w.step = "mup" /\ OnlyMem /\ x' = x
      /\ SetRow("hrow", 0, Derive(NumLayers, "fn", "hd", mem["final"][w.t]))
  BY DEF HostMup, TinyArray, TinyHost, HostStep, Do, OnlyMem
<1>2. MupChanges(c, w, K, W, F)
  BY <1>1, ChangesOf DEF HostChanges
<1>3. PICK m, off \in Nat :
        /\ "hrow" \in c.arrays /\ w.t \in 0..m - 1 /\ Fact("final", m, NumLayers, "fn", off) \in K
        /\ W = {<<Scratch, "hrow">>} /\ F = {Fact("hrow", 1, NumLayers, "hd", off + w.t)}
  BY <1>2 DEF MupChanges
<1>4. PICK b \in DOMAIN mem \ DOMAIN Devices, j \in 0..m - 1, p \in Nat :
        b = "hrow" /\ j = w.t /\ p = off + j
  BY <1>3 DEF InCall
<1>5. PICK l : l = NumLayers
  OBVIOUS
<1>6. PICK v : v = Derive(l, "fn", "hd", mem["final"][j])
  OBVIOUS
<1>7. v = <<l, "hd", p>>
  <2>1. PICK f : f = mem["final"][j] /\ mem["final"] = Content("final")
    BY DEF Content
  <2>2. Content("final")[j] = Frame(l, "fn", off + j)
    BY <1>3, <1>4, <1>5, AllKnown, KnownFact
  <2>3. f = Frame(l, "fn", p)
    BY <1>4, <2>1, <2>2
  <2> QED BY <1>6, <2>1, <2>3, DeriveFrame
<1>8. WriteRow(b, 0, v)
  BY <1>1, <1>4, <1>6, <1>5 DEF WriteRow, SetRow
<1>9. Sound(<<Scratch, b>>, Fact(b, 1, l, "hd", p))
  BY <1>1, <1>7, <1>8, FirstRowSound
<1>10. PICK where, f : where = <<Scratch, b>> /\ f = Fact(b, 1, l, "hd", p)
  OBVIOUS
<1>11. W = {where} /\ F = {f}
  BY <1>3, <1>4, <1>10, <1>5
<1> QED BY <1>9, <1>10, <1>11, SoundAdvances

\* Splitting the gate and up rows makes what GatherChanges says.
LEMMA GatherSound ==
  ASSUME CallShape, LayerShape, NEW c, InCall(c), NEW w, w = Head(todo), UNCHANGED path,
         HostGather,
         NEW K, AllHold(K), NEW W, NEW F, Changes(c, w, K, W, F)
  PROVE  Advances(W, F)
<1>1. /\ w.do = "host" /\ w.step = "gather" /\ OnlyMem /\ x' = x
      /\ mem' = [mem EXCEPT !["gbuf"][0] = Derive(w.l, "gu", "g", mem["gu"][0]),
                            !["ubuf"][0] = Derive(w.l, "gu", "u", mem["gu"][0])]
  BY DEF HostGather, TinyArray, TinyHost, HostStep, Do, OnlyMem
<1>2. GatherChanges(c, w, K, W, F)
  BY <1>1, ChangesOf DEF HostChanges
<1>3. PICK m \in Nat \ {0}, p \in Nat :
        /\ {"gbuf", "ubuf"} \subseteq c.arrays /\ Fact("gu", m, w.l, "gu", p) \in K
        /\ W = {<<Scratch, "gbuf">>, <<Scratch, "ubuf">>}
        /\ F = {Fact("gbuf", 1, w.l, "g", p), Fact("ubuf", 1, w.l, "u", p)}
  BY <1>2 DEF GatherChanges
<1>4. PICK l : l = w.l
  OBVIOUS
<1>5. PICK vg, vu : vg = Derive(l, "gu", "g", mem["gu"][0])
                    /\ vu = Derive(l, "gu", "u", mem["gu"][0])
  OBVIOUS
<1>6. vg = Frame(l, "g", p) /\ vu = Frame(l, "u", p)
  <2>1. Fact("gu", m, l, "gu", p) \in K
    BY <1>3, <1>4
  <2>2. "gu" \in DOMAIN mem
    <3>1. "gu" \in DOMAIN mem \cup {"x"}
      BY <2>1, AllKnown, KnownFact
    <3> QED BY <3>1
  <2> QED BY <1>5, <2>1, <2>2, AllKnown, DerivedFirst
<1>7. {"gbuf", "ubuf"} \subseteq DOMAIN mem \ DOMAIN Devices
  BY <1>3 DEF InCall
<1>8. /\ DOMAIN mem' = DOMAIN mem
      /\ mem'["gbuf"] = [mem["gbuf"] EXCEPT ![0] = vg]
      /\ mem'["ubuf"] = [mem["ubuf"] EXCEPT ![0] = vu]
      /\ \A b \in DOMAIN mem : b # "gbuf" /\ b # "ubuf" => mem'[b] = mem[b]
  BY <1>1, <1>4, <1>5, <1>7
<1>9. DOMAIN mem["gbuf"] = Rows /\ DOMAIN mem["ubuf"] = Rows /\ 0 \in Rows
  BY <1>7 DEF CallShape, Rows
<1>10. mem'["gbuf"][0] = vg /\ mem'["ubuf"][0] = vu
  BY <1>8, <1>9
<1>11. \A b \in DOMAIN mem \ DOMAIN Devices : DOMAIN mem'[b] = Rows
  BY <1>8, <1>9 DEF CallShape
<1>12. CallShape' /\ LayerShape'
  <2>1. Rows' = Rows /\ UNCHANGED <<cap, layers, overrun, T, start_pos, out_host, path>>
    BY <1>1 DEF OnlyMem, Rows
  <2> QED BY <1>8, <1>11, <2>1 DEF CallShape, LayerShape
<1>13. PICK ag, au : ag = <<Scratch, "gbuf">> /\ au = <<Scratch, "ubuf">>
  OBVIOUS
<1>14. \A b \in DOMAIN mem \cup {"x"} : Content(b)' = Content(b) \/ <<Scratch, b>> \in W
  <2>1. ASSUME NEW b \in DOMAIN mem \cup {"x"}, b # "gbuf",
               b # "ubuf" PROVE Content(b)' = Content(b)
    BY <1>1, <1>8, <2>1 DEF Content
  <2> QED BY <1>3, <2>1
<1>15. OnlyWrites(W)
  BY <1>1, <1>8, <1>14 DEF OnlyWrites, OnlyMem
<1>16. ASSUME NEW b \in {"gbuf", "ubuf"}, NEW kind, NEW v, v = Frame(l, kind, p), mem'[b][0] = v
       PROVE  Holds(Fact(b, 1, l, kind, p))'
  <2>1. b \in DOMAIN mem' \cup {"x"} /\ Content(b)' = mem'[b]
    BY <1>7, <1>8 DEF Content
  <2>2. ASSUME NEW j \in 0..1 - 1 PROVE Content(b)'[j] = Frame(l, kind, p + j)
    <3>1. j = 0 /\ p + j = p
      OBVIOUS
    <3> QED BY <1>16, <2>1, <3>1
  <2>3. PICK n : n = 1
    OBVIOUS
  <2>4. Holds(Fact(b, n, l, kind, p))'
    BY <2>1, <2>2, <2>3, FactNext
  <2> QED BY <2>3, <2>4
<1>17. PICK fg, fu : fg = Fact("gbuf", 1, l, "g", p) /\ fu = Fact("ubuf", 1, l, "u", p)
  OBVIOUS
<1>18. Holds(fg)' /\ Holds(fu)'
  <2>1. Holds(Fact("gbuf", 1, l, "g", p))'
    BY <1>6, <1>10, <1>16
  <2>2. Holds(Fact("ubuf", 1, l, "u", p))'
    BY <1>6, <1>10, <1>16
  <2> QED BY <1>17, <2>1, <2>2
<1>19. F = {fg, fu}
  BY <1>3, <1>4, <1>17
<1> QED BY <1>12, <1>15, <1>18, <1>19 DEF Advances

\* Reading the device's output makes what ReadBackChanges says.
LEMMA ReadBackSound ==
  ASSUME CallShape, LayerShape, NEW c, InCall(c), NEW w, w = Head(todo), UNCHANGED path,
         HostReadBack,
         path = "tiny", NEW K, AllHold(K), NEW W, NEW F, Changes(c, w, K, W, F)
  PROVE  Advances(W, F)
<1>1. /\ w.do = "host" /\ w.step = "readback" /\ OnlyMem
      /\ IF w.t = All THEN Write(w.out, mem["dev_out"])
         ELSE SetRow(w.out, w.t, mem["dev_out"][0]) /\ UNCHANGED x
  BY DEF HostReadBack, TinyHost, HostStep, Do, OnlyMem
<1>2. ReadBackChanges(c, w, K, W, F)
  BY <1>1, ChangesOf DEF HostChanges
<1>3. PICK m, off \in Nat : \E l, kind :
      /\ W = {<<Scratch, w.out>>}
      /\ \/ /\ w.t = All /\ w.out \in Writable(c)
            /\ Fact("dev_out", m, l, kind, off) \in K
            /\ F = {Fact(w.out, m, l, kind, off)}
         \/ /\ w.t \in 0..c.T - 1 /\ w.out \in c.arrays /\ m # 0
            /\ Part(w.out, w.t, l, kind, off) \subseteq K
            /\ Fact("dev_out", m, l, kind, off + w.t) \in K
            /\ F = {Fact(w.out, w.t + 1, l, kind, off)}
  BY <1>2 DEF ReadBackChanges
<1>4. PICK l, kind :
        /\ W = {<<Scratch, w.out>>}
        /\ \/ /\ w.t = All /\ w.out \in Writable(c)
              /\ Fact("dev_out", m, l, kind, off) \in K
              /\ F = {Fact(w.out, m, l, kind, off)}
           \/ /\ w.t \in 0..c.T - 1 /\ w.out \in c.arrays /\ m # 0
              /\ Part(w.out, w.t, l, kind, off) \subseteq K
              /\ Fact("dev_out", m, l, kind, off + w.t) \in K
              /\ F = {Fact(w.out, w.t + 1, l, kind, off)}
  BY <1>3
<1>5. "dev_out" \in DOMAIN mem \ DOMAIN Devices
  BY DEF CallShape, TinyArrays, Devices
<1>6. PICK rows : rows = mem["dev_out"] /\ rows = Content("dev_out") /\ DOMAIN rows = Rows
  BY <1>5, NotX DEF CallShape
<1>7. CASE /\ w.t = All /\ w.out \in Writable(c)
           /\ Fact("dev_out", m, l, kind, off) \in K
           /\ F = {Fact(w.out, m, l, kind, off)}
  <2>1. PICK b \in (DOMAIN mem \ DOMAIN Devices) \cup {"x"} : b = w.out
    BY <1>7 DEF InCall, Writable
  <2>2. \A t \in 0..m - 1 : rows[t] = Frame(l, kind, off + t)
    BY <1>6, <1>7, AllKnown, KnownFact
  <2>3. Write(b, rows)
    BY <1>1, <1>6, <1>7, <2>1
  <2>4. Sound(<<Scratch, b>>, Fact(b, m, l, kind, off))
    BY <1>1, <1>6, <2>2, <2>3, PartSound
  <2>5. PICK where, f : where = <<Scratch, b>> /\ f = Fact(b, m, l, kind, off)
    OBVIOUS
  <2>6. W = {where} /\ F = {f}
    BY <1>4, <1>7, <2>1, <2>5
  <2> QED BY <2>4, <2>5, <2>6, SoundAdvances
<1>8. CASE /\ w.t \in 0..c.T - 1 /\ w.out \in c.arrays /\ m # 0
           /\ Part(w.out, w.t, l, kind, off) \subseteq K
           /\ Fact("dev_out", m, l, kind, off + w.t) \in K
           /\ F = {Fact(w.out, w.t + 1, l, kind, off)}
  <2>1. PICK b \in DOMAIN mem \ DOMAIN Devices, k \in Rows : b = w.out /\ k = w.t
    BY <1>8 DEF InCall, Rows
  <2>2. k # All
    BY DEF All, Rows
  <2>3. PICK v : v = rows[0]
    OBVIOUS
  <2>4. SetRow(b, k, v) /\ x' = x
    BY <1>1, <1>6, <2>1, <2>2, <2>3
  <2>5. PICK p \in Nat : p = off + k /\ p + 0 = p
    BY DEF Rows
  <2>6. v = Frame(l, kind, p)
    <3>1. Fact("dev_out", m, l, kind, p) \in K /\ 0 \in 0..m - 1
      BY <1>8, <2>1, <2>5
    <3>2. rows[0] = Frame(l, kind, p + 0)
      BY <1>6, <3>1, AllKnown, KnownFact
    <3> QED BY <2>3, <2>5, <3>2
  <2>7. Part(b, k, l, kind, off) \subseteq K
    BY <1>8, <2>1
  <2>8. Sound(<<Scratch, b>>, Fact(b, k + 1, l, kind, off))
    BY <1>1, <2>4, <2>5, <2>6, <2>7, AllKnown, SetRowSound
  <2>9. PICK where, f : where = <<Scratch, b>> /\ f = Fact(b, k + 1, l, kind, off)
    OBVIOUS
  <2>10. W = {where} /\ F = {f}
    BY <1>4, <1>8, <2>1, <2>9
  <2> QED BY <2>8, <2>9, <2>10, SoundAdvances
<1> QED BY <1>4, <1>7, <1>8

\* A history rolled by the host makes what HistChanges says.
LEMMA HostRollSound ==
  ASSUME CallShape, LayerShape, NEW c, InCall(c), NEW w, w = Head(todo), UNCHANGED path, HostRoll,
         NEW K, AllHold(K), NEW W, NEW F, Changes(c, w, K, W, F)
  PROVE  Advances(W, F)
<1>1. /\ w.do = "host" /\ w.step = "roll"
      /\ layers' = [layers EXCEPT ![w.l][w.hist] = HistRoll(@, mem[w.in])]
  BY DEF HostRoll, TinyHost, HostStep, Do
<1>2. OnlyCache
  BY DEF HostRoll, TinyHost, OnlyCache, CallShape
<1>3. HistChanges(c, w, K, W, F)
  BY <1>1, ChangesOf DEF HostChanges
<1>4. PICK f : /\ W = {<<w.l, w.hist>>} /\ w.in # "x"
               /\ RollMakes(c, w.l, w.hist, w.in, K, f) /\ F = {f}
  BY <1>3 DEF HistChanges
<1>5. PICK l, b, in : l = w.l /\ b = w.hist /\ in = w.in
  OBVIOUS
<1>6. Content(in) = mem[in]
  BY <1>4, <1>5 DEF Content
<1>7. layers' = [layers EXCEPT ![l][b] = HistRoll(@, Content(in))]
  BY <1>1, <1>5, <1>6
<1>8. Sound(<<l, b>>, f)
  BY <1>2, <1>4, <1>5, <1>7, AllKnown, HistSound
<1>9. PICK where : where = <<l, b>>
  OBVIOUS
<1> QED BY <1>4, <1>5, <1>8, <1>9, SoundAdvances

\* What an upload copies.
LEMMA UploadedIs ==
  ASSUME NEW l, NEW name, NEW t
  PROVE  /\ name \in {"k", "v"} =>
              \A j \in 0..start_pos + T - 1 : Uploaded(l, name, t)[j] = layers[l][name][j]
         /\ name \in HistNames => Uploaded(l, name, t) = layers[l][name]
         /\ name \notin CacheNames /\ t = All => Uploaded(l, name, t) = Content(name)
         /\ name \notin CacheNames /\ t # All => Uploaded(l, name, t)[0] = Content(name)[t]
<1>1. \A a \in {"k", "v"} : a \notin HistNames
  BY DEF HistNames
<1> QED BY <1>1 DEF Uploaded, HistNames, CacheNames

\* What is uploaded is what UploadMakes says of its source.
LEMMA UploadedFollows ==
  ASSUME CallShape, NEW c, InCall(c), NEW K, Known(K), NEW w, NEW name, NEW b, NEW f,
         UploadMakes(c, w, K, name, b, f)
  PROVE  \E m, l, kind, off :
           /\ f = Fact(b, m, l, kind, off)
           /\ \A j \in 0..m - 1 : Uploaded(w.l, name, w.t)[j] = Frame(l, kind, off + j)
<1>1. PICK m \in Nat, off \in Nat, o \in Int : \E l, kind :
      \/ /\ name \in {"k", "v"} /\ w.l \in Layer
         /\ Cached(w.l, name, c.start_pos + c.T, kind, 0) \in K
         /\ f = Fact(b, c.start_pos + c.T, w.l, kind, 0)
      \/ /\ name \in HistNames /\ w.l \in Layer
         /\ Cached(w.l, name, Km1, kind, o) \in K
         /\ f = Fact(b, Km1, w.l, kind, o)
      \/ /\ name \notin CacheNames /\ w.t = All
         /\ Fact(name, m, l, kind, off) \in K /\ f = Fact(b, m, l, kind, off)
      \/ /\ name \notin CacheNames /\ w.t \in 0..m - 1
         /\ Fact(name, m, l, kind, off) \in K /\ f = Fact(b, 1, l, kind, off + w.t)
  BY DEF UploadMakes
<1>2. PICK l, kind :
        \/ /\ name \in {"k", "v"} /\ w.l \in Layer
           /\ Cached(w.l, name, c.start_pos + c.T, kind, 0) \in K
           /\ f = Fact(b, c.start_pos + c.T, w.l, kind, 0)
        \/ /\ name \in HistNames /\ w.l \in Layer
           /\ Cached(w.l, name, Km1, kind, o) \in K
           /\ f = Fact(b, Km1, w.l, kind, o)
        \/ /\ name \notin CacheNames /\ w.t = All
           /\ Fact(name, m, l, kind, off) \in K /\ f = Fact(b, m, l, kind, off)
        \/ /\ name \notin CacheNames /\ w.t \in 0..m - 1
           /\ Fact(name, m, l, kind, off) \in K /\ f = Fact(b, 1, l, kind, off + w.t)
  BY <1>1
<1>3. PICK rows : rows = Uploaded(w.l, name, w.t)
  OBVIOUS
<1>4. CASE /\ name \in {"k", "v"} /\ w.l \in Layer
           /\ Cached(w.l, name, c.start_pos + c.T, kind, 0) \in K
           /\ f = Fact(b, c.start_pos + c.T, w.l, kind, 0)
  <2>1. PICK n, z, q : n = start_pos + T /\ z = 0 /\ q = w.l /\ q \in Layer
    BY <1>4
  <2>2. Cached(q, name, n, kind, z) \in K /\ f = Fact(b, n, q, kind, z)
    BY <1>4, <2>1 DEF InCall
  <2>3. \A j \in 0..n - 1 : layers[q][name][j] = Frame(q, kind, z + j)
    BY <2>1, <2>2, KnownCached
  <2>4. \A j \in 0..start_pos + T - 1 : Uploaded(w.l, name, w.t)[j] = layers[w.l][name][j]
    <3>1. name \in {"k", "v"}
      BY <1>4
    <3> QED BY ONLY <3>1, UploadedIs
  <2>5. \A j \in 0..n - 1 : rows[j] = layers[q][name][j]
    <3>1. start_pos \in Nat /\ T \in Nat
      BY DEF CallShape
    <3>2. ASSUME NEW j \in 0..n - 1 PROVE rows[j] = layers[q][name][j]
      <4>1. j \in 0..start_pos + T - 1
        BY <2>1, <3>1
      <4> QED BY <1>3, <2>1, <2>4, <4>1
    <3> QED BY <3>2
  <2>6. \A j \in 0..n - 1 : rows[j] = Frame(q, kind, z + j)
    BY <2>3, <2>5
  <2> QED BY <1>3, <2>2, <2>6
<1>5. CASE /\ name \in HistNames /\ w.l \in Layer
           /\ Cached(w.l, name, Km1, kind, o) \in K
           /\ f = Fact(b, Km1, w.l, kind, o)
  <2>1. PICK n, q : n = Km1 /\ q = w.l /\ q \in Layer
    BY <1>5
  <2>2. Cached(q, name, n, kind, o) \in K /\ f = Fact(b, n, q, kind, o)
    BY <1>5, <2>1
  <2>3. \A j \in 0..n - 1 : layers[q][name][j] = Frame(q, kind, o + j)
    BY <2>1, <2>2, KnownCached
  <2>4. rows = layers[q][name]
    BY <1>3, <1>5, <2>1, UploadedIs
  <2> QED BY <1>3, <2>2, <2>3, <2>4
<1>6. CASE /\ name \notin CacheNames /\ w.t = All
           /\ Fact(name, m, l, kind, off) \in K /\ f = Fact(b, m, l, kind, off)
  <2>1. rows = Content(name)
    BY <1>3, <1>6, UploadedIs
  <2>2. \A j \in 0..m - 1 : rows[j] = Frame(l, kind, off + j)
    BY <1>6, <2>1, KnownFact
  <2> QED BY <1>3, <1>6, <2>2
<1>7. CASE /\ name \notin CacheNames /\ w.t \in 0..m - 1
           /\ Fact(name, m, l, kind, off) \in K /\ f = Fact(b, 1, l, kind, off + w.t)
  <2>1. w.t # All
    BY <1>7 DEF All
  <2>2. rows[0] = Content(name)[w.t]
    BY <1>3, <1>7, <2>1, UploadedIs
  <2>3. PICK p, n : p = off + w.t /\ n = 1 /\ p \in Nat
    BY <1>7
  <2>4. rows[0] = Frame(l, kind, p)
    BY <1>7, <2>2, <2>3, KnownFact
  <2>5. ASSUME NEW j \in 0..n - 1 PROVE rows[j] = Frame(l, kind, p + j)
    <3>1. j = 0 /\ p + j = p
      BY <2>3
    <3> QED BY <2>4, <3>1
  <2>6. f = Fact(b, n, l, kind, p)
    BY <1>7, <2>3
  <2> QED BY <1>3, <2>5, <2>6
<1> QED BY <1>2, <1>4, <1>5, <1>6, <1>7

\* Filling the device arrays makes what UploadChanges says.
LEMMA UploadSound ==
  ASSUME CallShape, LayerShape, NEW c, InCall(c), NEW w, w = Head(todo), UNCHANGED path,
         HostUpload,
         path = "tiny", NEW K, AllHold(K), NEW W, NEW F, Changes(c, w, K, W, F)
  PROVE  Advances(W, F)
<1>1. /\ w.do = "host" /\ w.step = "upload" /\ OnlyMem /\ x' = x
      /\ mem' = [b \in DOMAIN mem |->
                   IF b \in DOMAIN Devices /\ Devices[b] \in DOMAIN w.in
                   THEN Uploaded(w.l, w.in[Devices[b]], w.t) ELSE mem[b]]
  BY DEF HostUpload, TinyArray, TinyHost, HostStep, Do, OnlyMem
<1>2. UploadChanges(c, w, K, W, F)
  BY <1>1, ChangesOf DEF HostChanges
<1>3. /\ W = {Scratch} \X DOMAIN Devices
      /\ \A f \in F : \E b \in DOMAIN Devices :
           Devices[b] \in DOMAIN w.in /\ UploadMakes(c, w, K, w.in[Devices[b]], b, f)
  BY <1>2 DEF UploadChanges
<1>4. DOMAIN Devices \subseteq DOMAIN mem
  BY DEF CallShape, TinyArrays
<1>5. DOMAIN mem' = DOMAIN mem /\ \A b \in DOMAIN mem \ DOMAIN Devices : mem'[b] = mem[b]
  BY <1>1
<1>6. \A b \in DOMAIN mem \cup {"x"} : Content(b)' = Content(b) \/ b \in DOMAIN Devices
  BY <1>1, <1>5 DEF Content
<1>7. OnlyWrites(W)
  BY <1>1, <1>3, <1>5, <1>6 DEF OnlyWrites, OnlyMem
<1>8. CallShape' /\ LayerShape'
  <2>1. Rows' = Rows /\ UNCHANGED <<cap, layers, overrun, T, start_pos, out_host, path>>
    BY <1>1 DEF OnlyMem, Rows
  <2> QED BY <1>5, <2>1 DEF CallShape, LayerShape
<1>9. ASSUME NEW f \in F PROVE Holds(f)'
  <2>1. PICK b \in DOMAIN Devices :
          Devices[b] \in DOMAIN w.in /\ UploadMakes(c, w, K, w.in[Devices[b]], b, f)
    BY <1>3
  <2>2. PICK name : name = w.in[Devices[b]]
    OBVIOUS
  <2>3. PICK m, l, kind, off :
          /\ f = Fact(b, m, l, kind, off)
          /\ \A j \in 0..m - 1 : Uploaded(w.l, name, w.t)[j] = Frame(l, kind, off + j)
    BY <2>1, <2>2, AllKnown, UploadedFollows
  <2>4. Content(b)' = Uploaded(w.l, name, w.t) /\ b \in DOMAIN mem'
    BY <1>1, <1>4, <1>5, <2>1, <2>2, NotX DEF Content
  <2>5. b \in DOMAIN mem' \cup {"x"} /\ \A j \in 0..m - 1 : Content(b)'[j] = Frame(l, kind, off + j)
    BY <2>3, <2>4
  <2> QED BY <2>3, <2>5, FactNext
<1> QED BY <1>7, <1>8, <1>9 DEF Advances

\* layers[l].len, after a chunk.
LEMMA LenSound ==
  ASSUME CallShape, LayerShape, NEW c, InCall(c), NEW w, w = Head(todo), UNCHANGED path, HostLen,
         NEW K, \A g \in K : OfHost(g) => Holds(g), NEW W, NEW F, Changes(c, w, K, W, F)
  PROVE  Advances(W, F)
<1>1. /\ w.do = "host" /\ w.step = "len"
      /\ layers' = [layers EXCEPT ![w.l].len = IF start_pos + T > @ THEN start_pos + T ELSE @]
      /\ UNCHANGED <<cap, overrun, T, start_pos, x, mem, encoding, topk_idx, out_host, path>>
  BY DEF HostLen, HostStep, Do
<1>2. /\ w.l \in Layer /\ LenIs(w.l, c.start_pos) \in K
      /\ W = {<<Lens, w.l>>} /\ F = {LenIs(w.l, c.start_pos + c.T)}
  BY <1>1, ChangesOf DEF LenChanges
<1>3. PICK l, s, n, f :
        l = w.l /\ s = c.start_pos /\ n = start_pos + T /\ f = LenIs(l, n) /\ l \in Layer
  BY <1>2
<1>4. layers[l].len = start_pos /\ n > start_pos
  <2>1. Holds(LenIs(l, s))
    <3>1. LenIs(l, s) \in K /\ OfHost(LenIs(l, s))
      BY <1>2, <1>3 DEF LenIs, OfHost
    <3> QED BY <3>1
  <2> QED BY <1>3, <2>1, HoldsNow DEF HoldsRules, InCall, CallShape
<1>5. DOMAIN layers = Layer /\ CacheNames \cup {"len"} \subseteq DOMAIN layers[l]
      /\ "len" \notin CacheNames
  BY <1>3 DEF LayerShape, CacheNames, HistNames
<1>6. layers' = [layers EXCEPT ![l].len = n]
  BY <1>1, <1>3, <1>4, <1>5
<1>7. /\ DOMAIN layers' = Layer /\ layers'[l].len = n /\ DOMAIN layers'[l] = DOMAIN layers[l]
      /\ \A b \in CacheNames : layers'[l][b] = layers[l][b]
      /\ \A k \in Layer : k # l => layers'[k] = layers[k]
  BY <1>3, <1>5, <1>6
<1>8. LayerShape'
  BY <1>7 DEF LayerShape
<1>9. CallShape'
  BY <1>1 DEF CallShape, Rows
<1>10. PICK where : where = <<Lens, l>>
  OBVIOUS
<1>11. OnlyWrites({where})
  <2>1. \A k \in Layer : layers'[k].len = layers[k].len \/ <<Lens, k>> = where
    BY <1>7, <1>10
  <2>2. \A k \in Layer : \A b \in CacheNames : layers'[k][b] = layers[k][b]
    BY <1>7
  <2> QED BY <1>1, <2>1, <2>2 DEF OnlyWrites, Content
<1>12. Holds(f)'
  <2>1. Holds(LenIs(l, n))'
    BY <1>3, <1>7, HoldsNext DEF HoldsRules
  <2> QED BY <1>3, <2>1
<1>13. W = {where} /\ F = {f}
  BY <1>2, <1>3, <1>10 DEF InCall
<1> QED BY <1>8, <1>9, <1>11, <1>12, <1>13 DEF Advances

\* The batch opens, and closes.
LEMMA BatchSound ==
  ASSUME CallShape, LayerShape, NEW c, InCall(c), NEW w, w = Head(todo), UNCHANGED path,
         BeginBatch \/ EndBatch, NEW K, NEW W, NEW F, Changes(c, w, K, W, F)
  PROVE  Advances(W, F)
<1>1. UNCHANGED <<cap, layers, overrun, T, start_pos, x, mem, topk_idx, out_host, path>>
  BY DEF BeginBatch, EndBatch, forwardVars
<1>2. CallShape' /\ LayerShape'
  BY <1>1 DEF CallShape, LayerShape, Rows
<1>3. CASE BeginBatch
  <2>1. w.do = "begin"
    BY <1>3 DEF BeginBatch, Do
  <2>2. W = {<<HostSide, "shut">>} /\ F = {}
    BY <2>1 DEF Changes
  <2>3. OnlyWrites(W)
    BY <1>1, <2>2 DEF OnlyWrites, Content
  <2> QED BY <1>2, <2>2, <2>3 DEF Advances
<1>4. CASE EndBatch
  <2>1. w.do = "end" /\ ~encoding'
    BY <1>4 DEF EndBatch, Do
  <2>2. W = {} /\ F = {Shut}
    BY <2>1 DEF Changes
  <2>3. OnlyWrites(W)
    BY <1>1, <2>1 DEF OnlyWrites, Content
  <2>4. Holds(Shut)'
    BY <2>1, HoldsNext DEF HoldsRules
  <2> QED BY <1>2, <2>2, <2>3, <2>4 DEF Advances
<1> QED BY <1>3, <1>4

\* The cells that a store with fact f leaves.
StoreLeaves(l, cells, in, f) ==
  \E n, kind, z :
    /\ l \in Layer /\ cells \in {"k", "v"} /\ f = Cached(l, cells, n, kind, z)
    /\ \A j \in 0..n - 1 : Stored(layers[l][cells], Content(in))[j] = Frame(l, kind, z + j)

\* What a store leaves in the cells, of the kernel or of the host.
LEMMA StoreFollows ==
  ASSUME CallShape, NEW c, InCall(c), NEW l, NEW cells, NEW in, NEW K, Known(K), NEW f,
         StoreMakes(c, l, cells, in, K, f)
  PROVE  StoreLeaves(l, cells, in, f)
<1>1. PICK kind :
        /\ l \in Layer /\ cells \in {"k", "v"}
        /\ Cached(l, cells, c.start_pos, kind, 0) \in K
        /\ Fact(in, c.T, l, kind, c.start_pos) \in K
        /\ f = Cached(l, cells, c.start_pos + c.T, kind, 0)
  BY DEF StoreMakes
<1>2. PICK old, new, rows, n, z :
        old = layers[l][cells] /\ new = Content(in) /\ rows = Stored(old, new) /\ n = start_pos + T /\ z = 0
  OBVIOUS
<1>3. Follows(old, start_pos, l, kind, z)
  <2>1. Cached(l, cells, start_pos, kind, z) \in K
    BY <1>1, <1>2 DEF InCall
  <2> QED BY <1>1, <1>2, <2>1, KnownCached DEF Follows
<1>4. Follows(new, T, l, kind, start_pos)
  <2>1. Fact(in, T, l, kind, start_pos) \in K
    BY <1>1 DEF InCall
  <2> QED BY <1>2, <2>1, KnownFact DEF Follows
<1>5. Follows(rows, n, l, kind, z)
  BY <1>2, <1>3, <1>4, StoredRows
<1>6. f = Cached(l, cells, n, kind, z)
  BY <1>1, <1>2 DEF InCall
<1> QED BY <1>1, <1>2, <1>5, <1>6 DEF Follows, StoreLeaves

\* Storing the chunk's keys and values makes what StoreChanges says.
LEMMA HostStoreSound ==
  ASSUME CallShape, LayerShape, NEW c, InCall(c), NEW w, w = Head(todo), UNCHANGED path,
         HostStore,
         NEW K, AllHold(K), NEW W, NEW F, Changes(c, w, K, W, F)
  PROVE  Advances(W, F)
<1>1. /\ w.do = "host" /\ w.step = "store"
      /\ layers' = [layers EXCEPT
           ![w.l].k = Stored(@, mem["k_normed"]), ![w.l].v = Stored(@, mem["v_sconv"]),
           ![w.l].len = IF start_pos + T > @ THEN start_pos + T ELSE @]
      /\ UNCHANGED <<cap, T, start_pos, x, mem, encoding, topk_idx, out_host, path>>
  BY DEF HostStore, TinyHost, HostStep, Do
<1>2. ~overrun'
  <2>1. ~(start_pos + T > cap) /\ ~overrun
    BY DEF CallShape
  <2> QED BY <2>1, Zenon DEF HostStore
<1>3. StoreChanges(c, w, K, W, F)
  BY <1>1, ChangesOf DEF HostChanges
<1>4. PICK kc, vc :
        /\ LenIs(w.l, c.start_pos) \in K
        /\ StoreMakes(c, w.l, "k", "k_normed", K, kc) /\ StoreMakes(c, w.l, "v", "v_sconv", K, vc)
        /\ W = {<<w.l, "k">>, <<w.l, "v">>, <<Lens, w.l>>}
        /\ F = {kc, vc, LenIs(w.l, c.start_pos + c.T)}
  BY <1>3 DEF StoreChanges
<1>5. PICK l : l = w.l
  OBVIOUS
<1>6. PICK nk, kk, zk :
        /\ l \in Layer /\ kc = Cached(l, "k", nk, kk, zk)
        /\ \A j \in 0..nk - 1 : Stored(layers[l]["k"], Content("k_normed"))[j] = Frame(l, kk, zk + j)
  <2>1. PICK cells, in : cells = "k" /\ in = "k_normed"
    OBVIOUS
  <2>2. StoreMakes(c, l, cells, in, K, kc) /\ Known(K)
    BY <1>4, <1>5, <2>1, AllKnown
  <2>3. StoreLeaves(l, cells, in, kc)
    BY <2>2, StoreFollows
  <2> QED BY <2>1, <2>3 DEF StoreLeaves
<1>7. PICK nv, kv, zv :
        /\ vc = Cached(l, "v", nv, kv, zv)
        /\ \A j \in 0..nv - 1 : Stored(layers[l]["v"], Content("v_sconv"))[j] = Frame(l, kv, zv + j)
  <2>1. PICK cells, in : cells = "v" /\ in = "v_sconv"
    OBVIOUS
  <2>2. StoreMakes(c, l, cells, in, K, vc) /\ Known(K)
    BY <1>4, <1>5, <2>1, AllKnown
  <2>3. StoreLeaves(l, cells, in, vc)
    BY <2>2, StoreFollows
  <2> QED BY <2>1, <2>3 DEF StoreLeaves
<1>8. PICK s, n, fl : s = c.start_pos /\ n = start_pos + T /\ fl = LenIs(l, n)
  OBVIOUS
<1>9. layers[l].len = start_pos /\ n > start_pos
  <2>1. Holds(LenIs(l, s))
    BY <1>4, <1>5, <1>8 DEF AllHold
  <2> QED BY <1>8, <2>1, HoldsNow DEF HoldsRules, InCall, CallShape
<1>10. /\ DOMAIN layers = Layer /\ CacheNames \cup {"len"} \subseteq DOMAIN layers[l]
       /\ {"k", "v"} \subseteq CacheNames /\ {"k", "v"} \cap HistNames = {}
       /\ "len" \notin CacheNames
  BY <1>6 DEF LayerShape, CacheNames, HistNames
<1>11. PICK rk, rv : /\ rk = Stored(layers[l]["k"], Content("k_normed"))
                     /\ rv = Stored(layers[l]["v"], Content("v_sconv"))
  OBVIOUS
<1>12. layers' = [layers EXCEPT ![l].k = rk, ![l].v = rv, ![l].len = n]
  <2>1. rk = Stored(layers[l].k, mem["k_normed"]) /\ rv = Stored(layers[l].v, mem["v_sconv"])
    BY <1>11 DEF Content
  <2>2. l \in DOMAIN layers /\ {"k", "v", "len"} \subseteq DOMAIN layers[l]
    BY <1>6, <1>10
  <2> QED BY <1>1, <1>5, <1>8, <1>9, <2>1, <2>2
<1>13. /\ DOMAIN layers' = Layer /\ DOMAIN layers'[l] = DOMAIN layers[l]
       /\ layers'[l].len = n /\ layers'[l]["k"] = rk /\ layers'[l]["v"] = rv
       /\ \A b \in CacheNames : b # "k" /\ b # "v" => layers'[l][b] = layers[l][b]
       /\ \A k \in Layer : k # l => layers'[k] = layers[k]
  BY <1>6, <1>10, <1>12
<1>14. LayerShape'
  BY <1>13 DEF LayerShape
<1>15. CallShape'
  BY <1>1, <1>2 DEF CallShape, Rows
<1>16. OnlyWrites(W)
  <2>1. \A k \in Layer : layers'[k].len = layers[k].len \/ <<Lens, k>> \in W
    BY <1>4, <1>5, <1>13
  <2>2. \A k \in Layer : \A b \in CacheNames : layers'[k][b] = layers[k][b] \/ <<k, b>> \in W
    BY <1>4, <1>5, <1>13
  <2> QED BY <1>1, <2>1, <2>2 DEF OnlyWrites, Content
<1>17. Holds(kc)' /\ Holds(vc)'
  <2>1. Holds(Cached(l, "k", nk, kk, zk))'
    BY <1>6, <1>10, <1>11, <1>13, CachedNext
  <2>2. Holds(Cached(l, "v", nv, kv, zv))'
    BY <1>6, <1>7, <1>10, <1>11, <1>13, CachedNext
  <2> QED BY <1>6, <1>7, <2>1, <2>2
<1>18. Holds(fl)'
  <2>1. Holds(LenIs(l, n))'
    BY <1>6, <1>13, HoldsNext DEF HoldsRules
  <2> QED BY <1>8, <2>1
<1>19. F = {kc, vc, fl}
  BY <1>4, <1>5, <1>8 DEF InCall
<1> QED BY <1>14, <1>15, <1>16, <1>17, <1>18, <1>19 DEF Advances

\* Whatever the host does with nothing queued is what its instruction says.
LEMMA HostSound ==
  ASSUME CallShape, LayerShape, NEW c, InCall(c), NEW w, w = Head(todo), UNCHANGED path,
         \/ HostTau \/ HostRoute \/ HostFinal
         \/ path = "real" /\ (HostMix \/ HostMemcpy)
         \/ path = "tiny" /\ (HostUpload \/ HostReadBack)
         \/ HostRoll \/ HostStore \/ HostScale \/ HostGather \/ HostGamma \/ HostGscale
         \/ HostBlend \/ HostMup,
         NEW K, AllHold(K), NEW W, NEW F, Changes(c, w, K, W, F)
  PROVE  Advances(W, F)
<1>1. CASE HostTau
  BY <1>1, TauSound
<1>2. CASE HostRoute
  BY <1>2, RouteSound
<1>3. CASE HostFinal
  BY <1>3, FinalSound
<1>4. CASE path = "real" /\ HostMix
  BY <1>4, MixSound
<1>5. CASE path = "real" /\ HostMemcpy
  BY <1>5, MemcpySound
<1>6. CASE path = "tiny" /\ HostUpload
  BY <1>6, UploadSound
<1>7. CASE path = "tiny" /\ HostReadBack
  BY <1>7, ReadBackSound
<1>8. CASE HostRoll
  BY <1>8, HostRollSound
<1>9. CASE HostStore
  BY <1>9, HostStoreSound
<1>10. CASE HostScale
  BY <1>10, ScaleSound
<1>11. CASE HostGather
  BY <1>11, GatherSound
<1>12. CASE HostGamma
  BY <1>12, GammaSound
<1>13. CASE HostGscale
  BY <1>13, GscaleSound
<1>14. CASE HostBlend
  BY <1>14, BlendSound
<1>15. CASE HostMup
  BY <1>15, MupSound
<1> QED BY <1>1, <1>2, <1>3, <1>4, <1>5, <1>6, <1>7, <1>8, <1>9, <1>10, <1>11, <1>12, <1>13,
           <1>14, <1>15

-----------------------------------------------------------------------------
(* The queue: what its dispatches will have made.                          *)

\* The array facts of K are among those of L.
Within(K, L) == \A g \in K : OfHost(g) \/ g \in L

\* A queued dispatch turns the array facts K into L.
Queued(c, d, K, L) ==
  \E f : /\ Makes(c, d, K, d.experts, f)
         /\ \A g \in L : OfHost(g) \/ g = f \/ (g \in K /\ g[1] # Target(d))

\* The queue q leads from where the array facts A hold to where those of B do.
Chain(c, q, A, B) ==
  \E S, Ks :
    /\ q \in Seq(S) /\ Within(Ks[1], A) /\ Within(B, Ks[Len(q) + 1])
    /\ \A k \in 1..Len(q) : Queued(c, q[k], Ks[k], Ks[k + 1])

\* Less may be asked after the queue.
LEMMA ChainWeaker ==
  ASSUME NEW c, NEW q, NEW A, NEW B, NEW L, Chain(c, q, A, B), Within(L, B)
  PROVE  Chain(c, q, A, L)
<1>1. PICK S, Ks :
        /\ q \in Seq(S) /\ Within(Ks[1], A) /\ Within(B, Ks[Len(q) + 1])
        /\ \A k \in 1..Len(q) : Queued(c, q[k], Ks[k], Ks[k + 1])
  BY DEF Chain
<1>2. Within(L, Ks[Len(q) + 1])
  BY <1>1 DEF Within
<1> QED BY <1>1, <1>2 DEF Chain

\* With an empty queue, what holds after it holds now.
LEMMA EmptyChain ==
  ASSUME NEW c, NEW A, NEW B
  PROVE  Chain(c, <<>>, A, B) <=> Within(B, A)
<1>1. <<>> \in Seq({}) /\ Len(<<>>) = 0
  BY EmptySeq
<1>2. ASSUME Within(B, A) PROVE Chain(c, <<>>, A, B)
  <2>1. PICK Ks : Ks = [k \in {1} |-> A]
    OBVIOUS
  <2>2. Within(Ks[1], A) /\ Within(B, Ks[Len(<<>>) + 1])
    BY <1>1, <1>2, <2>1 DEF Within
  <2> QED BY <1>1, <2>2 DEF Chain
<1>3. ASSUME Chain(c, <<>>, A, B) PROVE Within(B, A)
  <2>1. PICK S, Ks : Within(Ks[1], A) /\ Within(B, Ks[Len(<<>>) + 1])
    BY <1>3 DEF Chain
  <2>2. Within(B, Ks[1])
    BY <1>1, <2>1
  <2> QED BY <2>1, <2>2 DEF Within
<1> QED BY <1>2, <1>3

\* Another dispatch queued.
LEMMA AppendChain ==
  ASSUME NEW c, NEW q, NEW d, NEW A, NEW K, NEW L, Chain(c, q, A, K), Queued(c, d, K, L)
  PROVE  Chain(c, Append(q, d), A, L)
<1>1. PICK S, Ks :
        /\ q \in Seq(S) /\ Within(Ks[1], A) /\ Within(K, Ks[Len(q) + 1])
        /\ \A k \in 1..Len(q) : Queued(c, q[k], Ks[k], Ks[k + 1])
  BY DEF Chain
<1>2. PICK n \in Nat : n = Len(q)
  BY <1>1, LenProperties
<1>3. q \in Seq(S \cup {d})
  BY <1>1, SeqDef
<1>4. PICK r : r = Append(q, d)
  OBVIOUS
<1>5. /\ r \in Seq(S \cup {d}) /\ Len(r) = n + 1
      /\ \A k \in 1..n : r[k] = q[k]
      /\ r[n + 1] = d
  BY <1>2, <1>3, <1>4, AppendProperties
<1>6. PICK Ms : Ms = [k \in 1..n + 2 |-> IF k <= n THEN Ks[k] ELSE IF k = n + 1 THEN K ELSE L]
  OBVIOUS
<1>7. Ms[n + 1] = K /\ Ms[n + 2] = L /\ \A k \in 1..n : Ms[k] = Ks[k]
  BY <1>6
<1>8. Within(Ms[1], A)
  <2>1. CASE n = 0
    BY <1>1, <1>2, <1>7, <2>1 DEF Within
  <2>2. CASE n # 0
    BY <1>1, <1>7, <2>2
  <2> QED BY <2>1, <2>2
<1>9. Within(L, Ms[Len(r) + 1])
  <2>1. Ms[Len(r) + 1] = L
    BY <1>5, <1>7
  <2> QED BY <2>1 DEF Within
<1>10. ASSUME NEW k \in 1..Len(r) PROVE Queued(c, r[k], Ms[k], Ms[k + 1])
  <2>1. CASE k = n + 1
    <3>1. r[k] = d /\ Ms[k] = K /\ Ms[k + 1] = L
      BY <1>5, <1>7, <2>1
    <3> QED BY <3>1
  <2>2. CASE k = n
    <3>1. r[k] = q[k] /\ Ms[k] = Ks[k] /\ Ms[k + 1] = K
      BY <1>5, <1>7, <2>2
    <3>2. Queued(c, q[k], Ks[k], Ks[k + 1])
      BY <1>1, <1>2, <2>2
    <3>3. Within(K, Ks[k + 1])
      BY <1>1, <1>2, <2>2
    <3>4. Queued(c, q[k], Ks[k], K)
      BY <3>2, <3>3 DEF Queued, Within
    <3> QED BY <3>1, <3>4
  <2>3. CASE k < n
    <3>1. k \in 1..n /\ k + 1 \in 1..n
      BY <1>5, <2>3
    <3>2. r[k] = q[k] /\ Ms[k] = Ks[k] /\ Ms[k + 1] = Ks[k + 1]
      BY <1>5, <1>7, <3>1
    <3> QED BY <1>1, <1>2, <3>1, <3>2
  <2> QED BY <1>5, <2>1, <2>2, <2>3
<1>11. Chain(c, r, A, L)
  BY <1>5, <1>8, <1>9, <1>10 DEF Chain
<1> QED BY <1>4, <1>11

\* The oldest dispatch of a queue.
LEMMA HeadChain ==
  ASSUME NEW c, NEW q, NEW A, NEW B, Chain(c, q, A, B), q # <<>>
  PROVE  \E K, M : Within(K, A) /\ Queued(c, Head(q), K, M) /\ Chain(c, Tail(q), M, B)
<1>1. PICK S, Ks :
        /\ q \in Seq(S) /\ Within(Ks[1], A) /\ Within(B, Ks[Len(q) + 1])
        /\ \A k \in 1..Len(q) : Queued(c, q[k], Ks[k], Ks[k + 1])
  BY DEF Chain
<1>2. PICK n \in Nat : n = Len(q)
  BY <1>1, LenProperties
<1>3. n # 0
  BY <1>1, <1>2, EmptySeq
<1>4. PICK r, d : r = Tail(q) /\ d = Head(q)
  OBVIOUS
<1>5. /\ d = q[1] /\ r \in Seq(S) /\ Len(r) = n - 1
      /\ \A k \in 1..n - 1 : r[k] = q[k + 1]
  BY <1>1, <1>2, <1>4, HeadTailProperties
<1>6. PICK Ms : Ms = [k \in 1..n |-> Ks[k + 1]]
  OBVIOUS
<1>7. Ms[1] = Ks[2] /\ Ms[Len(r) + 1] = Ks[Len(q) + 1]
  BY <1>2, <1>3, <1>5, <1>6
<1>8. ASSUME NEW k \in 1..Len(r) PROVE Queued(c, r[k], Ms[k], Ms[k + 1])
  <2>1. PICK j \in 1..n : j = k + 1
    BY <1>5
  <2>2. r[k] = q[j] /\ Ms[k] = Ks[j] /\ Ms[k + 1] = Ks[j + 1]
    BY <1>5, <1>6, <2>1
  <2> QED BY <1>1, <1>2, <2>2
<1>9. Chain(c, r, Ks[2], B)
  <2>1. Within(Ms[1], Ks[2])
    BY <1>7 DEF Within
  <2>2. Within(B, Ms[Len(r) + 1])
    BY <1>1, <1>7
  <2> QED BY <1>5, <1>8, <2>1, <2>2 DEF Chain
<1>10. Queued(c, d, Ks[1], Ks[2])
  <2>1. 1 \in 1..Len(q)
    BY <1>2, <1>3
  <2> QED BY <1>1, <1>5, <2>1
<1> QED BY <1>1, <1>4, <1>9, <1>10

\* A dispatch makes a fact of the array it writes, and that is no state of the host's.
LEMMA MakesTarget ==
  ASSUME NEW c, NEW d, NEW K, NEW e, NEW f, Makes(c, d, K, e, f)
  PROVE  /\ f[1] = Target(d) /\ ~OfHost(f)
         /\ \A g : OfHost(g) => g[1] # Target(d)
<1>1. /\ \A b, m, l, kind, off : Fact(b, m, l, kind, off)[1] = <<Scratch, b>>
      /\ \A b, m, l, kind, off : Cached(l, b, m, kind, off)[1] = <<l, b>>
  BY DEF Fact, Cached
<1>2. f[1] = Target(d) /\ (d.op \in {"roll", "store"} => d.l \in Layer)
  <2>1. CASE d.op \in {"roll", "store"}
    BY <1>1, <2>1 DEF Makes, RollMakes, StoreMakes, Target
  <2>2. CASE d.op \notin {"roll", "store"}
    <3>1. CASE d.op = "map"
      <4>1. PICK off : f = IF d.to = "next" THEN Fact(d.out, c.T, d.l + 1, "x", off)
                           ELSE Fact(d.out, c.T, d.l, d.to, off)
        BY <3>1 DEF Makes, MapMakes
      <4>2. f[1] = <<Scratch, d.out>>
        BY <4>1 DEF Fact
      <4> QED BY <2>2, <4>2 DEF Target
    <3>2. CASE d.op \in {"matvec", "routed"}
      BY <1>1, <2>2, <3>2 DEF Makes, MatvecMakes, RoutedMakes, Target
    <3>3. CASE d.op \in {"row_in", "row_out"}
      BY <1>1, <2>2, <3>3 DEF Makes, RowInMakes, RowOutMakes, Target
    <3>4. CASE d.op \in {"sconv", "conv"}
      <4>1. \E hist : SconvMakes(c, d, K, hist, f)
        BY <3>4 DEF Makes
      <4>2. f[1] = <<Scratch, d.out>>
        BY <1>1, <4>1 DEF SconvMakes
      <4> QED BY <2>2, <4>2 DEF Target
    <3>5. CASE d.op \in {"attn", "banded"}
      BY <1>1, <2>2, <3>5 DEF Makes, AttnMakes, Target
    <3> QED BY <2>2, <3>1, <3>2, <3>3, <3>4, <3>5 DEF Makes
  <2> QED BY <2>1, <2>2
<1>3. PICK a, b : Target(d) = <<a, b>> /\ (a = Scratch \/ a \in Layer)
  BY <1>2 DEF Target
<1>4. a # HostSide /\ a # Lens
  BY <1>3, Places
<1>5. \A g : OfHost(g) => g[1] # Target(d)
  BY <1>3, <1>4 DEF OfHost
<1> QED BY <1>2, <1>5

\* A dispatch as it is encoded, with the experts z.
Filled(w, z) == [w EXCEPT !.experts = z]

\* What is encoded is what its instruction says, with the experts chosen by now.
LEMMA EncodedMakes ==
  ASSUME NEW c, NEW w, DOMAIN w = DispatchFields, NEW K, NEW e, NEW f, Makes(c, w, K, e, f),
         NEW z, w.op = "routed" => z = e
  PROVE  Makes(c, Filled(w, z), K, Filled(w, z).experts, f) /\ Target(Filled(w, z)) = Target(w)
<1>1. PICK d : d = Filled(w, z)
  OBVIOUS
<1>2. /\ d.op = w.op /\ d.l = w.l /\ d.in = w.in /\ d.from = w.from /\ d.out = w.out
      /\ d.to = w.to
      /\ d.experts = z
  BY <1>1 DEF DispatchFields, Filled
<1>3. Target(d) = Target(w)
  BY <1>2 DEF Target
<1>4. Makes(c, d, K, z, f)
  <2>1. CASE w.op = "map"
    BY <1>2, <2>1 DEF Makes, MapMakes
  <2>2. CASE w.op = "matvec"
    BY <1>2, <2>2 DEF Makes, MatvecMakes, FirstRows
  <2>3. CASE w.op = "routed"
    BY <1>2, <2>3 DEF Makes, RoutedMakes, FirstRows
  <2>4. CASE w.op \in {"row_in", "row_out"}
    BY <1>2, <2>4 DEF Makes, RowInMakes, RowOutMakes
  <2>5. CASE w.op \in {"sconv", "conv"}
    BY <1>2, <2>5 DEF Makes, SconvMakes
  <2>6. CASE w.op \in {"attn", "banded"}
    BY <1>2, <2>6 DEF Makes, AttnMakes
  <2>7. CASE w.op \in {"roll", "store"}
    BY <1>2, <2>7 DEF Makes, RollMakes, StoreMakes
  <2> QED BY <2>1, <2>2, <2>3, <2>4, <2>5, <2>6, <2>7 DEF Makes
<1> QED BY <1>2, <1>3, <1>4, <1>1

-----------------------------------------------------------------------------
(* A call in progress, step by step.                                       *)

\* A call in progress.  Where the array facts A hold, the dispatches of the queue make
\* those of B, from which what is left of the program reaches its goal; what B says of
\* the host's own state holds already.
InProgress(c, A, B) ==
  /\ InCall(c)
  /\ Known(A) /\ \A f \in B : OfHost(f) => Holds(f)
  /\ Chain(c, batch, A, B)
  /\ ToDo(c, todo, LastStep, B, Goal(c))

CallFollows == CallShape /\ LayerShape /\ \E c, A, B : InProgress(c, A, B)

\* The instruction that comes next, and where it is run.
LEMMA NextInstruction ==
  ASSUME NEW c, NEW A, NEW B, InProgress(c, A, B), ~EndsCall(Head(todo))
  PROVE  \E K, L, W, F :
           /\ K \subseteq B /\ Changes(c, Head(todo), K, W, F) /\ L \subseteq Post(K, W, F)
           /\ ToDo(c, Tail(todo), LastStep, L, Goal(c))
<1>1. EndsCall(LastStep)
  BY HostFields DEF EndsCall, LastStep
<1>2. Head(todo) # LastStep
  BY <1>1
<1>3. PICK K, L : K \subseteq B /\ Leads(c, Head(todo), K, L)
                  /\ ToDo(c, Tail(todo), LastStep, L, Goal(c))
  BY <1>2, TakeStep DEF InProgress
<1> QED BY <1>3 DEF Leads

\* A step of the host's with nothing queued that does what its instruction says.
LEMMA HostFollows ==
  ASSUME NEW c, NEW A, NEW B, InProgress(c, A, B), ~EndsCall(Head(todo)), batch = <<>>,
         \A K, W, F : AllHold(K) /\ Changes(c, Head(todo), K, W, F) => Advances(W, F),
         todo' = Tail(todo), batch' = <<>>, UNCHANGED <<T, start_pos>>
  PROVE  CallFollows'
<1>1. PICK K, L, W, F :
        /\ K \subseteq B /\ Changes(c, Head(todo), K, W, F) /\ L \subseteq Post(K, W, F)
        /\ ToDo(c, Tail(todo), LastStep, L, Goal(c))
  BY NextInstruction
<1>2. AllHold(B)
  <2>1. Chain(c, <<>>, A, B)
    BY DEF InProgress
  <2>2. Within(B, A)
    BY <2>1, EmptyChain
  <2> QED BY <2>2 DEF InProgress, Within, Known, AllHold
<1>3. AllHold(K)
  BY <1>1, <1>2 DEF AllHold
<1>4. Advances(W, F)
  BY <1>1, <1>3
<1>5. \A g \in L : Holds(g)'
  <2> TAKE g \in L
  <2>1. g \in F \/ (g \in K /\ g[1] \notin W)
    BY <1>1 DEF Post
  <2>2. CASE g \in F
    BY <1>4, <2>2 DEF Advances
  <2>3. CASE g \in K /\ g[1] \notin W
    BY <1>3, <1>4, <2>3, HoldsStill DEF Advances, AllHold
  <2> QED BY <2>1, <2>2, <2>3
<1>6. Chain(c, <<>>, L, L)
  BY EmptyChain DEF Within
<1>7. InCall(c)'
  <2>1. DOMAIN mem' = DOMAIN mem
    BY <1>4 DEF Advances, OnlyWrites
  <2> QED BY <2>1 DEF InProgress, InCall
<1>8. InProgress(c, L, L)'
  BY <1>1, <1>5, <1>6, <1>7 DEF InProgress, Known
<1> QED BY <1>4, <1>8 DEF CallFollows, Advances

\* The lengths change with dispatches in the queue, which neither read nor write them.
LEMMA LenFollows ==
  ASSUME CallShape, LayerShape, NEW c, NEW A, NEW B, InProgress(c, A, B), UNCHANGED path, HostLen
  PROVE  CallFollows'
<1>1. /\ todo' = Tail(todo) /\ UNCHANGED <<batch, T, start_pos, mem>>
      /\ Head(todo).do = "host" /\ Head(todo).step = "len"
  BY DEF HostLen, HostStep, Do
<1>2. PICK K, L, W, F :
        /\ K \subseteq B /\ Changes(c, Head(todo), K, W, F) /\ L \subseteq Post(K, W, F)
        /\ ToDo(c, Tail(todo), LastStep, L, Goal(c))
  BY <1>1, NextInstruction DEF EndsCall
<1>3. Advances(W, F)
  <2>1. InCall(c) /\ \A g \in K : OfHost(g) => Holds(g)
    BY <1>2 DEF InProgress
  <2>2. PICK w : w = Head(todo)
    OBVIOUS
  <2> QED BY <1>2, <2>1, <2>2, LenSound
<1>4. PICK l : W = {<<Lens, l>>} /\ F = {LenIs(l, c.start_pos + c.T)}
  BY <1>1, <1>2, ChangesOf DEF LenChanges
<1>5. /\ \A g : ~OfHost(g) => g[1] \notin W
      /\ \A g \in F : OfHost(g)
  BY <1>4 DEF OfHost, LenIs
<1>6. Known(A)'
  <2> SUFFICES ASSUME NEW g \in A PROVE OfHost(g) \/ Holds(g)'
    BY DEF Known
  <2> QED BY <1>3, <1>5, HoldsStill DEF InProgress, Known, Advances
<1>7. Chain(c, batch, A, L)
  <2>1. Within(L, B)
    BY <1>2, <1>5 DEF Within, Post
  <2> QED BY <2>1, ChainWeaker DEF InProgress
<1>8. ASSUME NEW g \in L, OfHost(g) PROVE Holds(g)'
  <2>1. g \in F \/ (g \in B /\ g[1] \notin W)
    BY <1>2 DEF Post
  <2>2. CASE g \in F
    BY <1>3, <2>2 DEF Advances
  <2>3. CASE g \in B /\ g[1] \notin W
    BY <1>3, <1>8, <2>3, HoldsStill DEF InProgress, Advances
  <2> QED BY <2>1, <2>2, <2>3
<1>9. InCall(c)'
  BY <1>1 DEF InProgress, InCall
<1>10. InProgress(c, A, L)'
  BY <1>1, <1>2, <1>6, <1>7, <1>8, <1>9 DEF InProgress
<1> QED BY <1>3, <1>10 DEF CallFollows, Advances

\* What no step that only moves the program and the queue changes.
Still == UNCHANGED <<forwardVars, encoding, mem, topk_idx, out_host, path>>

\* A step that changes no array breaks no fact.
LEMMA StillHolds ==
  ASSUME CallShape, LayerShape, Still
  PROVE  CallShape' /\ LayerShape' /\ OnlyWrites({})
<1> USE DEF Still, forwardVars
<1>1. CallShape'
  BY DEF CallShape, Rows
<1>2. LayerShape'
  BY DEF LayerShape
<1>3. \A b : Content(b)' = Content(b)
  BY DEF Content
<1> QED BY <1>1, <1>2, <1>3 DEF OnlyWrites

\* An encoded dispatch names the experts that its instruction counts on.
LEMMA EncodeFollows ==
  ASSUME CallShape, LayerShape, NEW c, NEW A, NEW B, InProgress(c, A, B), UNCHANGED path,
         EncodeDispatch
  PROVE  CallFollows'
<1>1. PICK w, d : w = Head(todo).d /\ d = Filled(w, topk_idx)
  OBVIOUS
<1>2. Head(todo).do = "encode" /\ todo' = Tail(todo) /\ batch' = Append(batch, d) /\ Still
  BY <1>1 DEF EncodeDispatch, Do, Still, Filled
<1>3. PICK K, L, W, F :
        /\ K \subseteq B /\ Changes(c, Head(todo), K, W, F) /\ L \subseteq Post(K, W, F)
        /\ ToDo(c, Tail(todo), LastStep, L, Goal(c))
  BY <1>2, NextInstruction DEF EndsCall
<1>4. PICK e, f :
        /\ DOMAIN w = DispatchFields /\ W = {Target(w)} /\ F = {f}
        /\ w.op = "routed" => TopK(e) \in K
        /\ Makes(c, w, K, e, f)
  <2>1. PICK v : v = Head(todo) /\ v.do = "encode" /\ v.d = w /\ Changes(c, v, K, W, F)
    BY <1>1, <1>2, <1>3
  <2>2. /\ DOMAIN v.d = DispatchFields /\ W = {Target(v.d)}
        /\ \E e, f : (v.d.op = "routed" => TopK(e) \in K) /\ Makes(c, v.d, K, e, f) /\ F = {f}
    BY <2>1 DEF Changes
  <2>3. PICK e, f : (v.d.op = "routed" => TopK(e) \in K) /\ Makes(c, v.d, K, e, f) /\ F = {f}
    BY <2>2
  <2>4. DOMAIN w = DispatchFields /\ W = {Target(w)}
    BY <2>1, <2>2
  <2>5. (w.op = "routed" => TopK(e) \in K) /\ Makes(c, w, K, e, f)
    BY <2>1, <2>3
  <2> QED BY <2>3, <2>4, <2>5
<1>5. w.op = "routed" => topk_idx = e
  <2>1. w.op = "routed" => Holds(TopK(e))
    <3>1. OfHost(TopK(e))
      BY HostFactsHold
    <3> QED BY <1>3, <1>4, <3>1 DEF InProgress
  <2> QED BY <2>1, HoldsNow DEF HoldsRules
<1>6. Makes(c, d, K, d.experts, f) /\ Target(d) = Target(w)
  <2>1. PICK z : z = topk_idx
    OBVIOUS
  <2>2. /\ Makes(c, Filled(w, z), K, Filled(w, z).experts, f)
        /\ Target(Filled(w, z)) = Target(w)
    BY <1>4, <1>5, <2>1, EncodedMakes
  <2> QED BY <1>1, <2>1, <2>2
<1>7. Queued(c, d, K, L)
  BY <1>3, <1>4, <1>6 DEF Queued, Post
<1>8. Chain(c, Append(batch, d), A, L)
  <2>1. Chain(c, batch, A, K)
    BY <1>3, ChainWeaker DEF InProgress, Within
  <2> QED BY <1>7, <2>1, AppendChain
<1>9. CallShape' /\ LayerShape' /\ OnlyWrites({})
  BY <1>2, StillHolds
<1>10. Known(A)'
  <2> SUFFICES ASSUME NEW g \in A PROVE OfHost(g) \/ Holds(g)'
    BY DEF Known
  <2> QED BY <1>9, HoldsStill DEF InProgress, Known
<1>11. ASSUME NEW g \in L, OfHost(g) PROVE Holds(g)'
  <2>1. ~OfHost(f)
    BY <1>4, MakesTarget
  <2>2. g \in B
    BY <1>3, <1>4, <1>11, <2>1 DEF Post
  <2> QED BY <1>9, <1>11, <2>2, HoldsStill DEF InProgress
<1>12. InCall(c)'
  BY <1>2 DEF InProgress, InCall, Still, forwardVars
<1>13. InProgress(c, A, L)'
  BY <1>2, <1>3, <1>8, <1>10, <1>11, <1>12 DEF InProgress
<1> QED BY <1>9, <1>13 DEF CallFollows

\* Whenever the GPU executes a dispatch, it makes what its instruction says.
LEMMA GpuFollows ==
  ASSUME CallShape, LayerShape, NEW c, NEW A, NEW B, InProgress(c, A, B), UNCHANGED path,
         \/ GpuMap \/ GpuMatvec \/ GpuRouted \/ GpuRowIn \/ GpuRowOut \/ GpuSconv \/ GpuAttn
         \/ GpuRoll \/ GpuStore \/ GpuConv \/ GpuBanded
  PROVE  CallFollows'
<1>1. batch # <<>> /\ batch' = Tail(batch) /\ UNCHANGED <<todo, T, start_pos>>
  BY DEF GpuMap, GpuMatvec, GpuRouted, GpuRowIn, GpuRowOut, GpuSconv, GpuAttn, GpuRoll, GpuStore,
     GpuConv, GpuBanded, GpuScratch, GpuCache, Retire
<1>2. PICK K, M : Within(K, A) /\ Queued(c, Head(batch), K, M) /\ Chain(c, Tail(batch), M, B)
  BY <1>1, HeadChain DEF InProgress
<1>3. PICK d : d = Head(batch)
  OBVIOUS
<1>4. PICK f : /\ Makes(c, d, K, d.experts, f)
               /\ \A g \in M : OfHost(g) \/ g = f \/ (g \in K /\ g[1] # Target(d))
  BY <1>2, <1>3 DEF Queued
<1>5. Known(K)
  BY <1>2 DEF Within, Known, InProgress
<1>6. Sound(Target(d), f)
  <2>1. InCall(c)
    BY DEF InProgress
  <2> QED BY <1>3, <1>4, <1>5, <2>1, GpuSound
<1>7. PICK W : W = {Target(d)}
  OBVIOUS
<1>8. OnlyWrites(W) /\ CallShape' /\ LayerShape' /\ Holds(f)'
  BY <1>6, <1>7 DEF Sound
<1>9. Known(M)'
  <2> SUFFICES ASSUME NEW g \in M, ~OfHost(g) PROVE Holds(g)'
    BY DEF Known
  <2>1. CASE g = f
    BY <1>8, <2>1
  <2>2. CASE g \in K /\ g[1] # Target(d)
    BY <1>5, <1>7, <1>8, <2>2, HoldsStill DEF Known
  <2> QED BY <1>4, <2>1, <2>2
<1>10. ASSUME NEW g \in B, OfHost(g) PROVE Holds(g)'
  <2>1. g[1] \notin W
    BY <1>4, <1>7, <1>10, MakesTarget
  <2> QED BY <1>8, <1>10, <2>1, HoldsStill DEF InProgress
<1>11. InCall(c)'
  <2>1. DOMAIN mem' = DOMAIN mem
    BY <1>8 DEF OnlyWrites
  <2> QED BY <1>1, <2>1 DEF InProgress, InCall
<1>12. InProgress(c, M, B)'
  BY <1>1, <1>2, <1>9, <1>10, <1>11 DEF InProgress
<1> QED BY <1>8, <1>12 DEF CallFollows

-----------------------------------------------------------------------------
(* Between calls.                                                          *)

\* Layer l's part of the cache after m rows of the text.
LayerFollows(l, m) ==
  /\ layers[l].k_hist = HistoryOf(l, "k", m) /\ layers[l].v_hist = HistoryOf(l, "v", m)
  /\ layers[l].attn_hist = HistoryOf(l, "a", m) /\ layers[l].mlp_hist = HistoryOf(l, "m", m)
  /\ \A p \in 0..m - 1 : layers[l].k[p] = <<l, "ks", p>> /\ layers[l].v[p] = <<l, "vs", p>>
  /\ layers[l].len = m

\* That is what the facts of the layer say.
LayerRules == \A l \in Layer : \A m \in Nat : AllHold(LayerFacts(l, m)) <=> LayerFollows(l, m)

\* One history, and one array of cells.
LEMMA HistHolds ==
  ASSUME NEW l \in Layer, NEW b \in HistNames, NEW kind, NEW m \in Nat
  PROVE  Holds(HistAt(l, b, kind, m)) <=> layers[l][b] = HistoryOf(l, kind, m)
<1>1. Km1 \in Nat
  BY Sizes
<1>2. PICK z \in Int : z = m - Km1
  BY <1>1
<1>3. Holds(Cached(l, b, Km1, kind, z)) <=>
        /\ b \in CacheNames
        /\ \A j \in 0..Km1 - 1 : layers[l][b][j] = Frame(l, kind, z + j)
        /\ b \in HistNames => IsHist(layers[l][b])
  BY HoldsNow DEF HoldsRules
<1>4. b \in CacheNames
  BY DEF CacheNames
<1>5. PICK rows, h : rows = layers[l][b] /\ h = HistoryOf(l, kind, m)
  OBVIOUS
<1>6. h = [j \in 0..Km1 - 1 |-> Frame(l, kind, z + j)]
  BY <1>2, <1>5 DEF HistoryOf
<1>7. IsHist(rows) /\ (\A j \in 0..Km1 - 1 : rows[j] = Frame(l, kind, z + j)) <=> rows = h
  <2>1. ASSUME IsHist(rows), \A j \in 0..Km1 - 1 : rows[j] = Frame(l, kind, z + j) PROVE rows = h
    BY <1>6, <2>1 DEF IsHist
  <2>2. ASSUME rows = h PROVE IsHist(rows) /\ \A j \in 0..Km1 - 1 : rows[j] = Frame(l, kind, z + j)
    BY <1>6, <2>2 DEF IsHist
  <2> QED BY <2>1, <2>2
<1> QED BY <1>2, <1>3, <1>4, <1>5, <1>7 DEF HistAt

\* The fact about the first m cells of a cache, read as its cells.
LEMMA CellsHold ==
  ASSUME NEW l \in Layer, NEW b \in {"k", "v"}, NEW kind, NEW m \in Nat
  PROVE  Holds(CellsAt(l, b, kind, m)) <=> \A p \in 0..m - 1 : layers[l][b][p] = <<l, kind, p>>
<1>1. PICK z \in Int : z = 0
  OBVIOUS
<1>2. Holds(Cached(l, b, m, kind, z)) <=>
        /\ b \in CacheNames
        /\ \A j \in 0..m - 1 : layers[l][b][j] = Frame(l, kind, z + j)
        /\ b \in HistNames => IsHist(layers[l][b])
  BY HoldsNow DEF HoldsRules
<1>3. b \in CacheNames /\ b \notin HistNames
  BY DEF CacheNames, HistNames
<1>4. ASSUME NEW j \in 0..m - 1 PROVE Frame(l, kind, z + j) = <<l, kind, j>>
  BY <1>1 DEF Frame
<1> QED BY <1>1, <1>2, <1>3, <1>4 DEF CellsAt

\* What the facts of a layer say, of the state before a step ...
LEMMA LayerNow == LayerRules
<1> SUFFICES ASSUME NEW l \in Layer, NEW m \in Nat
             PROVE  AllHold(LayerFacts(l, m)) <=> LayerFollows(l, m)
  BY DEF LayerRules
<1>1. AllHold(LayerFacts(l, m)) <=>
        /\ Holds(HistAt(l, "k_hist", "k", m)) /\ Holds(HistAt(l, "v_hist", "v", m))
        /\ Holds(HistAt(l, "attn_hist", "a", m)) /\ Holds(HistAt(l, "mlp_hist", "m", m))
        /\ Holds(CellsAt(l, "k", "ks", m)) /\ Holds(CellsAt(l, "v", "vs", m))
        /\ Holds(LenIs(l, m))
  BY DEF AllHold, LayerFacts
<1>2. Holds(LenIs(l, m)) <=> layers[l].len = m
  BY HoldsNow DEF HoldsRules
<1>3. /\ Holds(HistAt(l, "k_hist", "k", m)) <=> layers[l].k_hist = HistoryOf(l, "k", m)
      /\ Holds(HistAt(l, "v_hist", "v", m)) <=> layers[l].v_hist = HistoryOf(l, "v", m)
      /\ Holds(HistAt(l, "attn_hist", "a", m)) <=> layers[l].attn_hist = HistoryOf(l, "a", m)
      /\ Holds(HistAt(l, "mlp_hist", "m", m)) <=> layers[l].mlp_hist = HistoryOf(l, "m", m)
  <2>1. \A b \in HistNames : \A kind : Holds(HistAt(l, b, kind, m)) <=> layers[l][b] = HistoryOf(l, kind, m)
    BY HistHolds
  <2>2. {"k_hist", "v_hist", "attn_hist", "mlp_hist"} \subseteq HistNames
    BY DEF HistNames
  <2> QED BY <2>1, <2>2
<1>4. /\ Holds(CellsAt(l, "k", "ks", m)) <=> \A p \in 0..m - 1 : layers[l].k[p] = <<l, "ks", p>>
      /\ Holds(CellsAt(l, "v", "vs", m)) <=> \A p \in 0..m - 1 : layers[l].v[p] = <<l, "vs", p>>
  <2>1. \A b \in {"k", "v"} : \A kind :
          Holds(CellsAt(l, b, kind, m)) <=> \A p \in 0..m - 1 : layers[l][b][p] = <<l, kind, p>>
    BY CellsHold
  <2> QED BY <2>1
<1> QED BY <1>1, <1>2, <1>3, <1>4 DEF LayerFollows

\* ... and of the state after it.
LEMMA LayerNext == LayerRules'
BY LayerNow, PTL

\* Between calls every layer's cache has followed the text.
IdleFollows ==
  /\ LayerShape /\ layers[0].len \in 0..cap
  /\ \A l \in Layer : LayerFollows(l, layers[0].len)

\* The inductive invariant of both models.
PathsInv ==
  /\ CallInv
  /\ path \in {"real", "tiny"} /\ cap \in 0..MaxCap /\ ~overrun
  /\ pc \in {"none", "idle", "attn"}
  /\ ~encoding => batch = <<>>
  /\ pc # "attn" => ~encoding /\ todo = <<>> /\ batch = <<>>
  /\ pc = "idle" => IdleFollows
  /\ pc = "attn" => CallFollows

\* A new cache has followed a text that has not begun.
LEMMA CreateFollows ==
  ASSUME NEW n \in Nat, CacheCreate(n)
  PROVE  IdleFollows'
<1>1. Km1 \in Nat /\ NumLayers \in Nat \ {0}
  BY Sizes, ForwardAssumption
<1>2. PICK rec :
        rec = [len |-> 0,
               k |-> [j \in 0..n - 1 |-> Zero], v |-> [j \in 0..n - 1 |-> Zero],
               k_hist |-> EmptyHist, v_hist |-> EmptyHist,
               attn_hist |-> EmptyHist, mlp_hist |-> EmptyHist]
  OBVIOUS
<1>3. layers' = [l \in Layer |-> rec] /\ cap' = n
  BY <1>2 DEF CacheCreate
<1>4. \A l, kind : HistoryOf(l, kind, 0) = EmptyHist
  <2>1. \A j \in 0..Km1 - 1 : 0 - Km1 + j < 0
    BY <1>1
  <2> QED BY <2>1 DEF HistoryOf, EmptyHist, Frame
<1>5. \A l \in Layer : LayerFollows(l, 0)'
  <2> TAKE l \in Layer
  <2>1. layers'[l] = rec
    BY <1>3
  <2>2. rec.k_hist = EmptyHist /\ rec.v_hist = EmptyHist /\ rec.attn_hist = EmptyHist
        /\ rec.mlp_hist = EmptyHist /\ rec.len = 0
    BY <1>2
  <2>3. \A p \in 0..0 - 1 : FALSE
    OBVIOUS
  <2> QED BY <1>4, <2>1, <2>2, <2>3 DEF LayerFollows
<1>6. 0 \in Layer
  BY <1>1 DEF Layer
<1>7. layers'[0].len = 0 /\ layers'[0].len \in 0..cap'
  BY <1>2, <1>3, <1>6
<1>8. LayerShape'
  <2>1. DOMAIN rec = CacheNames \cup {"len"}
    BY <1>2 DEF CacheNames, HistNames
  <2> QED BY <1>3, <2>1 DEF LayerShape
<1> QED BY <1>5, <1>7, <1>8 DEF IdleFollows

\* A call that starts with one more array filled finds its program's first facts true.
LEMMA StartFollows ==
  ASSUME PathsInv, pc = "idle", NEW c, c.T \in Nat \ {0}, c.start_pos = layers[0].len,
         UNCHANGED layers, batch' = batch, CallShape', InCall(c)', NEW f, Holds(f)',
         ToDo(c, todo', LastStep, {f} \cup Kept(c, 0), Goal(c))
  PROVE  CallFollows'
<1>1. IdleFollows /\ batch = <<>>
  BY DEF PathsInv
<1>2. LayerShape'
  BY <1>1 DEF IdleFollows, LayerShape
<1>3. PICK s \in Nat : s = c.start_pos
  <2>1. cap \in Nat /\ layers[0].len \in 0..cap
    BY <1>1, ForwardAssumption DEF PathsInv, IdleFollows
  <2> QED BY <2>1
<1>4. \A l \in Layer : LayerFollows(l, s)'
  <2>1. \A l \in Layer : LayerFollows(l, s)
    BY <1>1, <1>3 DEF IdleFollows
  <2> QED BY <2>1 DEF LayerFollows
<1>5. \A l \in Layer : \A g \in LayerFacts(l, s) : Holds(g)'
  BY <1>4, LayerNext DEF LayerRules, AllHold
<1>6. \A g \in Kept(c, 0) : Holds(g)'
  <2> TAKE g \in Kept(c, 0)
  <2>1. PICK l \in Layer : g \in LayerFacts(l, IF l < 0 THEN c.start_pos + c.T ELSE c.start_pos)
    BY KeptAt
  <2>2. ~(l < 0)
    BY Sizes DEF Layer
  <2> QED BY <1>3, <1>5, <2>1, <2>2
<1>7. PICK A : A = {f} \cup Kept(c, 0)
  OBVIOUS
<1>8. \A g \in A : Holds(g)'
  BY <1>6, <1>7
<1>9. Chain(c, <<>>, A, A)
  BY EmptyChain DEF Within
<1>10. InProgress(c, A, A)'
  BY <1>1, <1>7, <1>8, <1>9 DEF InProgress, Known
<1> QED BY <1>2, <1>10 DEF CallFollows

\* real_forward_chunk_gpu starts with the embeddings in x.
LEMMA RealFollows ==
  ASSUME PathsInv, path = "real", path' = path, NEW n \in 0..MaxCap, NextChunkGpu(n)
  PROVE  CallFollows'
<1>1. PICK s : s = layers[0].len
  OBVIOUS
<1>2. /\ pc = "idle" /\ n \in Nat \ {0} /\ s + n <= cap
      /\ T' = n /\ start_pos' = s /\ todo' = Program(n)
      /\ x' = [t \in 0..n - 1 |-> Embed(s + t)]
      /\ mem' = [b \in Buffers |-> [t \in 0..n - 1 |-> Bad]]
      /\ out_host' = [t \in 0..n - 1 |-> Bad]
      /\ UNCHANGED <<cap, layers, overrun, batch>>
  <2>1. x' = [t \in 0..n - 1 |-> Embed([k \in 0..n - 1 |-> s + k][t])]
    BY <1>1 DEF NextChunkGpu, ForwardGpu, Forward
  <2>2. x' = [t \in 0..n - 1 |-> Embed(s + t)]
    BY <2>1
  <2> QED BY <1>1, <2>2, ForwardAssumption DEF NextChunkGpu, ForwardGpu, Forward
<1>3. s \in Nat /\ cap \in Nat /\ ~overrun
  BY <1>1, <1>2, ForwardAssumption DEF PathsInv, IdleFollows
<1>4. PICK c : c = [T |-> n, start_pos |-> s, arrays |-> Buffers]
  OBVIOUS
<1>5. c.T = n /\ c.start_pos = s /\ c.arrays = Buffers /\ RealCall(c)
  BY <1>2, <1>3, <1>4 DEF RealCall
<1>6. DOMAIN mem' = Buffers /\ Buffers \cap DOMAIN Devices = {}
  BY <1>2, DeviceFacts
<1>7. CallShape'
  BY <1>2, <1>3, <1>6 DEF CallShape, Rows
<1>8. InCall(c)'
  BY <1>2, <1>5, <1>6 DEF InCall
<1>9. PICK f : f = Now(c, "x", 0, "x")
  OBVIOUS
<1>10. Holds(f)'
  <2>1. \A t \in 0..n - 1 : Content("x")'[t] = Frame(0, "x", s + t)
    BY <1>2, <1>3 DEF Content, Embed, Frame
  <2>2. Holds(Fact("x", n, 0, "x", s))'
    BY <2>1, FactNext
  <2> QED BY <1>5, <1>9, <2>2 DEF Now
<1>11. ToDo(c, todo', LastStep, {f} \cup Kept(c, 0), Goal(c))
  BY <1>2, <1>5, <1>9, ProgramReaches DEF ToDo
<1> QED BY <1>1, <1>2, <1>5, <1>7, <1>8, <1>10, <1>11, StartFollows

\* model_forward_chunk_gpu starts with the rows of the embedding in x_raw.
LEMMA TinyFollows ==
  ASSUME PathsInv, path = "tiny", path' = path, NEW n \in 0..MaxCap, NextChunkTiny(n)
  PROVE  CallFollows'
<1>1. PICK s : s = layers[0].len
  OBVIOUS
<1>2. /\ pc = "idle" /\ n \in Nat \ {0} /\ s + n <= cap
      /\ T' = n /\ start_pos' = s /\ todo' = TinyProgram(n)
      /\ DOMAIN mem' = TinyArrays /\ \A b \in TinyArrays : DOMAIN mem'[b] = 0..n - 1
      /\ \A t \in 0..n - 1 : mem'["x_raw"][t] = <<0, "e", s + t>>
      /\ UNCHANGED <<cap, layers, overrun, batch>>
  <2>1. mem' = [b \in TinyArrays |->
                  [t \in 0..n - 1 |->
                     IF b = "x_raw" THEN <<0, "e", [k \in 0..n - 1 |-> s + k][t]>> ELSE Bad]]
    BY <1>1 DEF NextChunkTiny, ForwardTiny
  <2>2. \A t \in 0..n - 1 : mem'["x_raw"][t] = <<0, "e", s + t>>
    BY <2>1, DeviceFacts
  <2>3. DOMAIN mem' = TinyArrays /\ \A b \in TinyArrays : DOMAIN mem'[b] = 0..n - 1
    BY <2>1
  <2>4. /\ pc = "idle" /\ n > 0 /\ s + n <= cap
        /\ T' = n /\ start_pos' = s /\ todo' = TinyProgram(n)
        /\ UNCHANGED <<cap, layers, overrun, batch>>
    BY <1>1 DEF NextChunkTiny, ForwardTiny
  <2>5. n \in Nat \ {0}
    BY <2>4, ForwardAssumption
  <2> QED BY <2>2, <2>3, <2>4, <2>5
<1>3. s \in Nat /\ cap \in Nat /\ ~overrun
  BY <1>1, <1>2, ForwardAssumption DEF PathsInv, IdleFollows
<1>4. PICK c : c = [T |-> n, start_pos |-> s, arrays |-> RowArrays]
  OBVIOUS
<1>5. c.T = n /\ c.start_pos = s /\ c.arrays = RowArrays /\ TinyCall(c)
  BY <1>2, <1>3, <1>4 DEF TinyCall
<1>6. RowArrays = TinyArrays \ DOMAIN Devices
  BY DeviceFacts DEF RowArrays
<1>7. CallShape'
  BY <1>2, <1>3 DEF CallShape, Rows
<1>8. InCall(c)'
  BY <1>2, <1>5, <1>6 DEF InCall
<1>9. PICK f : f = Now(c, "x_raw", 0, "e")
  OBVIOUS
<1>10. Holds(f)'
  <2>1. \A t \in 0..n - 1 : Content("x_raw")'[t] = Frame(0, "e", s + t)
    <3> TAKE t \in 0..n - 1
    <3>1. ~(s + t < 0)
      BY <1>2, <1>3
    <3>2. Frame(0, "e", s + t) = <<0, "e", s + t>>
      BY <3>1 DEF Frame
    <3>3. Content("x_raw")' = mem'["x_raw"]
      BY DEF Content
    <3> QED BY <1>2, <3>2, <3>3
  <2>2. Holds(Fact("x_raw", n, 0, "e", s))'
    BY <1>2, <2>1, FactNext, DeviceFacts
  <2> QED BY <1>5, <1>9, <2>2 DEF Now
<1>11. ToDo(c, todo', LastStep, {f} \cup Kept(c, 0), Goal(c))
  BY <1>2, <1>5, <1>9, TinyProgramReaches DEF ToDo
<1> QED BY <1>1, <1>2, <1>5, <1>7, <1>8, <1>10, <1>11, StartFollows

\* When the logits are read, nothing is queued, the cache has followed the text to the
\* end of the chunk, and the rows are those of its positions.
LEMMA LogitsFollow ==
  ASSUME PathsInv, HostLogits
  PROVE  /\ pc = "attn" /\ CallShape /\ LayerShape
         /\ batch = <<>> /\ ~encoding /\ Tail(todo) = <<>>
         /\ \A l \in Layer : LayerFollows(l, start_pos + T)
         /\ logits' = [t \in 0..T - 1 |-> start_pos + t]
<1>1. /\ todo # <<>> /\ Head(todo).do = "host" /\ Head(todo).step = "logits"
      /\ logits' = [t \in Rows |->
           LET f == mem["logits_buf"][t] IN IF f = <<NumLayers, "lg", f[3]>> THEN f[3] ELSE BadToken]
  BY DEF HostLogits, HostStep, Do
<1>2. pc = "attn" /\ CallFollows /\ Left(todo, Queue)
  BY <1>1 DEF PathsInv, CallInv
<1>3. PICK c, A, B : InProgress(c, A, B)
  BY <1>2 DEF CallFollows
<1>4. EndsCall(Head(todo))
  BY <1>1 DEF EndsCall
<1>5. Tail(todo) = <<>> /\ Goal(c) \subseteq B
  BY <1>3, <1>4, TakeStep DEF InProgress, Leads
<1>6. batch = <<>>
  BY <1>2, <1>4, TakeFirst DEF Queue
<1>7. \A g \in Goal(c) : Holds(g)
  <2>1. Within(B, A)
    BY <1>3, <1>6, EmptyChain DEF InProgress
  <2> QED BY <1>3, <1>5, <2>1 DEF InProgress, Known, Within
<1>8. c.T = T /\ c.start_pos = start_pos /\ T \in Nat \ {0} /\ start_pos \in Nat
  BY <1>2, <1>3 DEF CallFollows, CallShape, InProgress, InCall
<1>9. PICK m \in Nat : m = start_pos + T
  BY <1>8
<1>10. \A l \in Layer : LayerFollows(l, m)
  <2> SUFFICES ASSUME NEW l \in Layer PROVE AllHold(LayerFacts(l, m))
    BY LayerNow DEF LayerRules
  <2>1. l < NumLayers
    BY Sizes DEF Layer
  <2>2. LayerFacts(l, m) \subseteq Kept(c, NumLayers)
    BY <1>8, <1>9, <2>1 DEF Kept
  <2> QED BY <1>7, <2>2 DEF AllHold, Goal
<1>11. ~encoding
  BY <1>7, HoldsNow DEF HoldsRules, Goal
<1>12. \A t \in Rows : mem["logits_buf"][t] = <<NumLayers, "lg", start_pos + t>>
  <2>1. Holds(Fact("logits_buf", T, NumLayers, "lg", start_pos))
    BY <1>7, <1>8 DEF Goal, Now
  <2>2. \A t \in 0..T - 1 : Content("logits_buf")[t] = Frame(NumLayers, "lg", start_pos + t)
    BY <2>1, HoldsNow DEF HoldsRules
  <2>3. ASSUME NEW t \in 0..T - 1 PROVE Frame(NumLayers, "lg", start_pos + t) = <<NumLayers, "lg", start_pos + t>>
    <3>1. ~(start_pos + t < 0)
      BY <1>8
    <3> QED BY <3>1 DEF Frame
  <2>4. Content("logits_buf") = mem["logits_buf"]
    BY DEF Content
  <2> QED BY <2>2, <2>3, <2>4 DEF Rows
<1>13. logits' = [t \in 0..T - 1 |-> start_pos + t]
  BY <1>1, <1>12 DEF Rows
<1> QED BY <1>2, <1>5, <1>6, <1>9, <1>10, <1>11, <1>13 DEF CallFollows

-----------------------------------------------------------------------------
(* Every step, and what follows.                                           *)

\* A step inside a call keeps the invariant if it keeps the call's.
LEMMA CallStepFollows ==
  ASSUME PathsInv, CallInv', CallFollows', pc = "attn", UNCHANGED <<pc, cap, path>>,
         ~encoding' => batch' = <<>>
  PROVE  PathsInv'
<1>1. ~overrun'
  BY DEF CallFollows, CallShape
<1> QED BY <1>1 DEF PathsInv

\* The host's steps that touch what is shared find nothing queued.
LEMMA TouchFollows ==
  ASSUME PathsInv, CallInv', UNCHANGED path, HostStep(Head(todo).step),
         Head(todo).step # "len", Head(todo).step # "logits",
         \/ HostTau \/ HostRoute \/ HostFinal
         \/ path = "real" /\ (HostMix \/ HostMemcpy)
         \/ path = "tiny" /\ (HostUpload \/ HostReadBack)
         \/ HostRoll \/ HostStore \/ HostScale \/ HostGather \/ HostGamma \/ HostGscale
         \/ HostBlend \/ HostMup
  PROVE  PathsInv'
<1>1. /\ todo # <<>> /\ Head(todo).do = "host" /\ todo' = Tail(todo)
      /\ UNCHANGED <<pc, cap, T, start_pos, encoding, batch>>
  BY DEF HostTau, HostRoute, HostFinal, HostMix, HostMemcpy, HostUpload, HostReadBack, HostRoll,
     HostStore, HostScale, HostGather, HostGamma, HostGscale, HostBlend, HostMup, TinyArray,
     TinyHost, HostStep, Do, forwardVars
<1>2. pc = "attn" /\ CallFollows /\ Left(todo, Queue)
  BY <1>1 DEF PathsInv, CallInv
<1>3. PICK c, A, B : InProgress(c, A, B)
  BY <1>2 DEF CallFollows
<1>4. CallShape /\ LayerShape /\ InCall(c) /\ ~EndsCall(Head(todo))
  BY <1>2, <1>3 DEF CallFollows, InProgress, EndsCall
<1>5. batch = <<>>
  <2>1. PICK K, L, W, F : Changes(c, Head(todo), K, W, F)
    BY <1>3, <1>4, NextInstruction
  <2>2. Touches(Head(todo))
    BY <1>1, <2>1 DEF Changes
  <2>3. Head(todo) = LastStep => EndsCall(Head(todo))
    BY HostFields DEF EndsCall, LastStep
  <2> QED BY <1>2, <1>4, <2>2, <2>3, TakeFirst DEF Queue
<1>6. PICK w : w = Head(todo)
  OBVIOUS
<1>7. \A K, W, F : AllHold(K) /\ Changes(c, w, K, W, F) => Advances(W, F)
  <2> TAKE K, W, F
  <2> QED BY <1>4, <1>6, HostSound
<1>8. CallFollows'
  BY <1>1, <1>3, <1>4, <1>5, <1>6, <1>7, HostFollows
<1> QED BY <1>1, <1>2, <1>5, <1>8, CallStepFollows

\* Opening and closing a batch, and taking an instruction that touches nothing shared.
LEMMA QueueFollows ==
  ASSUME PathsInv, CallInv', UNCHANGED path, BeginBatch \/ EndBatch \/ EncodeDispatch \/ HostLen
  PROVE  PathsInv'
<1>1. todo # <<>> /\ UNCHANGED <<pc, cap>>
  BY DEF BeginBatch, EndBatch, EncodeDispatch, HostLen, HostStep, Do, forwardVars
<1>2. pc = "attn" /\ CallFollows
  BY <1>1 DEF PathsInv, CallInv
<1>3. PICK c, A, B : InProgress(c, A, B)
  BY <1>2 DEF CallFollows
<1>4. CallShape /\ LayerShape /\ InCall(c)
  BY <1>2, <1>3 DEF CallFollows, InProgress
<1>5. CASE EncodeDispatch
  <2>1. encoding'
    BY <1>5 DEF EncodeDispatch
  <2> QED BY <1>1, <1>2, <1>3, <1>4, <1>5, <2>1, EncodeFollows, CallStepFollows
<1>6. CASE HostLen
  <2>1. UNCHANGED <<encoding, batch>>
    BY <1>6 DEF HostLen
  <2> QED BY <1>1, <1>2, <1>3, <1>4, <1>6, <2>1, LenFollows, CallStepFollows DEF PathsInv
<1>7. CASE BeginBatch \/ EndBatch
  <2>1. /\ batch = <<>> /\ batch' = <<>> /\ todo' = Tail(todo)
        /\ Head(todo).do \in {"begin", "end"} /\ UNCHANGED <<T, start_pos>>
    BY <1>7 DEF BeginBatch, EndBatch, Do, PathsInv, forwardVars
  <2>2. PICK w : w = Head(todo)
    OBVIOUS
  <2>3. \A K, W, F : AllHold(K) /\ Changes(c, w, K, W, F) => Advances(W, F)
    <3> TAKE K, W, F
    <3> QED BY <1>4, <1>7, <2>2, BatchSound
  <2>4. CallFollows'
    BY <1>3, <1>4, <2>1, <2>2, <2>3, HostFollows DEF EndsCall
  <2> QED BY <1>1, <1>2, <2>1, <2>4, CallStepFollows
<1> QED BY <1>5, <1>6, <1>7

\* The GPU's steps.
LEMMA DispatchFollows ==
  ASSUME PathsInv, CallInv', UNCHANGED path,
         \/ GpuMap \/ GpuMatvec \/ GpuRouted \/ GpuRowIn \/ GpuRowOut \/ GpuSconv \/ GpuAttn
         \/ GpuRoll \/ GpuStore \/ GpuConv \/ GpuBanded
  PROVE  PathsInv'
<1>1. batch # <<>> /\ UNCHANGED <<pc, cap, encoding>>
  BY DEF GpuMap, GpuMatvec, GpuRouted, GpuRowIn, GpuRowOut, GpuSconv, GpuAttn, GpuRoll, GpuStore,
     GpuConv, GpuBanded, GpuScratch, GpuCache, Retire
<1>2. pc = "attn" /\ CallFollows /\ encoding'
  BY <1>1 DEF PathsInv
<1>3. PICK c, A, B : InProgress(c, A, B)
  BY <1>2 DEF CallFollows
<1>4. CallShape /\ LayerShape
  BY <1>2 DEF CallFollows
<1>5. CallFollows'
  BY <1>3, <1>4, GpuFollows
<1> QED BY <1>1, <1>2, <1>5, CallStepFollows

\* The end of a call.
LEMMA EndFollows ==
  ASSUME PathsInv, CallInv', UNCHANGED path, HostLogits
  PROVE  PathsInv'
<1>1. /\ pc' = "idle" /\ todo' = Tail(todo)
      /\ UNCHANGED <<cap, layers, overrun, encoding, batch>>
  BY DEF HostLogits, HostStep, Do
<1>2. /\ CallShape /\ LayerShape /\ batch = <<>> /\ ~encoding /\ Tail(todo) = <<>>
      /\ \A l \in Layer : LayerFollows(l, start_pos + T)
  BY LogitsFollow
<1>3. PICK m \in Nat : m = start_pos + T /\ m <= cap
  BY <1>2 DEF CallShape
<1>4. 0 \in Layer
  BY Sizes DEF Layer
<1>5. layers[0].len = m
  BY <1>2, <1>3, <1>4 DEF LayerFollows
<1>6. cap \in Nat
  BY <1>2 DEF CallShape
<1>7. \A l \in Layer : LayerFollows(l, m)'
  BY <1>1, <1>2, <1>3 DEF LayerFollows
<1>8. IdleFollows'
  <2>1. layers'[0].len = m /\ m \in 0..cap'
    BY <1>1, <1>3, <1>5, <1>6
  <2>2. LayerShape'
    BY <1>1, <1>2 DEF LayerShape
  <2> QED BY <1>7, <2>1, <2>2 DEF IdleFollows
<1> QED BY <1>1, <1>2, <1>8 DEF PathsInv

\* Every step of either model keeps PathsInv.
LEMMA PathsStep == PathsInv /\ [PathsNext]_<<forwardGpuVars, path>> => PathsInv'
<1> SUFFICES ASSUME PathsInv, [PathsNext]_<<forwardGpuVars, path>> PROVE PathsInv'
  OBVIOUS
<1>1. CallInv'
  BY CallStep DEF PathsInv
<1>2. UNCHANGED path
  BY DEF PathsNext
<1>3. ASSUME NEW n \in 0..MaxCap, CacheCreate(n), UNCHANGED gpuVars PROVE PathsInv'
  <2>1. /\ pc = "none" /\ pc' = "idle" /\ cap' = n /\ UNCHANGED <<overrun, todo, encoding, batch>>
    BY <1>3 DEF CacheCreate, gpuVars
  <2>2. n \in Nat
    BY ForwardAssumption
  <2>3. IdleFollows'
    BY <1>3, <2>2, CreateFollows
  <2> QED BY <1>1, <1>2, <2>1, <2>3 DEF PathsInv
<1>4. CASE CacheFree /\ UNCHANGED gpuVars
  <2>1. /\ pc = "idle" /\ pc' = "none" /\ cap' = 0 /\ UNCHANGED <<overrun, todo, encoding, batch>>
    BY <1>4 DEF CacheFree, gpuVars
  <2> QED BY <1>1, <1>2, <2>1, ForwardAssumption DEF PathsInv
<1>5. ASSUME NEW n \in 0..MaxCap,
             \/ path = "real" /\ NextChunkGpu(n)
             \/ path = "tiny" /\ NextChunkTiny(n)
      PROVE  PathsInv'
  <2>1. pc = "idle" /\ pc' = "attn" /\ UNCHANGED <<cap, encoding, batch>>
    BY <1>5 DEF NextChunkGpu, ForwardGpu, Forward, NextChunkTiny, ForwardTiny
  <2>2. CallFollows'
    BY <1>2, <1>5, RealFollows, TinyFollows
  <2>3. ~overrun'
    BY <2>2 DEF CallFollows, CallShape
  <2> QED BY <1>1, <1>2, <2>1, <2>2, <2>3 DEF PathsInv
<1>6. CASE BeginBatch \/ EndBatch \/ EncodeDispatch \/ HostLen
  BY <1>1, <1>2, <1>6, QueueFollows
<1>7. CASE \/ HostTau \/ HostRoute \/ HostFinal
           \/ path = "real" /\ (HostMix \/ HostMemcpy)
           \/ path = "tiny" /\ (HostUpload \/ HostReadBack)
           \/ HostRoll \/ HostStore \/ HostScale \/ HostGather \/ HostGamma \/ HostGscale
           \/ HostBlend \/ HostMup
  <2>1. /\ HostStep(Head(todo).step)
        /\ Head(todo).step # "len" /\ Head(todo).step # "logits"
    BY <1>7 DEF HostTau, HostRoute, HostFinal, HostMix, HostMemcpy, HostUpload, HostReadBack,
       HostRoll, HostStore, HostScale, HostGather, HostGamma, HostGscale, HostBlend, HostMup,
       TinyArray, TinyHost, HostStep
  <2> QED BY <1>1, <1>2, <1>7, <2>1, TouchFollows
<1>8. CASE HostLogits
  BY <1>1, <1>2, <1>8, EndFollows
<1>9. CASE \/ GpuMap \/ GpuMatvec \/ GpuRouted \/ GpuRowIn \/ GpuRowOut \/ GpuSconv \/ GpuAttn
           \/ GpuRoll \/ GpuStore \/ GpuConv \/ GpuBanded
  BY <1>1, <1>2, <1>9, DispatchFollows
<1>10. CASE UNCHANGED <<forwardGpuVars, path>>
  <2> USE <1>10 DEF forwardGpuVars, forwardVars, gpuVars
  <2>1. \A f : Holds(f)' = Holds(f)
    BY DEF Holds, Are, Content
  <2>2. CallShape' = CallShape /\ LayerShape' = LayerShape
    BY DEF CallShape, LayerShape, Rows
  <2>3. \A c, A, B : InProgress(c, A, B) => InProgress(c, A, B)'
    BY <2>1 DEF InProgress, InCall, Known
  <2>4. CallFollows => CallFollows'
    BY <2>2, <2>3 DEF CallFollows
  <2>5. IdleFollows => IdleFollows'
    BY DEF IdleFollows, LayerShape, LayerFollows
  <2> QED BY <1>1, <2>4, <2>5 DEF PathsInv
<1> QED
  <2>1. CASE path = "real" /\ ForwardGpuNext
    BY <1>3, <1>4, <1>5, <1>6, <1>7, <1>8, <1>9, <2>1 DEF ForwardGpuNext
  <2>2. CASE path = "tiny" /\ TinyNext
    BY <1>3, <1>4, <1>5, <1>6, <1>7, <1>8, <1>9, <2>2 DEF TinyNext
  <2> QED BY <1>10, <2>1, <2>2 DEF PathsNext

\* The invariant holds before the first call.
LEMMA PathsInitial == PathsInit => PathsInv
<1>1. PathsInit => CallInv
  BY DEF PathsInit, ForwardGpuInit, CallInv
<1> QED BY <1>1, ForwardAssumption DEF PathsInit, ForwardGpuInit, ForwardInit, PathsInv

\* The inductive invariant, for any number of layers, any kernel size and window, any
\* layers sliding or sparse, and any chunks.
THEOREM PathsInvariant == PathsSpec => []PathsInv
BY PathsInitial, PathsStep, PTL DEF PathsSpec

\* Between the calls of either model nothing is encoded, and the GPU's cache and
\* histories hold the rows of the text that the CPU's do: real_forward_chunk_gpu and
\* model_forward_chunk_gpu leave the state that the next chunk counts on.
THEOREM GpuCacheIsTheTexts == PathsSpec => []GpuCacheFollowsText
<1>1. PathsInv => GpuCacheFollowsText
  <2> SUFFICES ASSUME PathsInv, pc = "idle"
               PROVE  /\ ~encoding /\ batch = <<>> /\ todo = <<>>
                      /\ HistoriesFollowText /\ CacheFollowsText /\ ~overrun
    BY DEF GpuCacheFollowsText
  <2>1. /\ ~encoding /\ batch = <<>> /\ todo = <<>> /\ ~overrun
        /\ layers[0].len \in 0..cap /\ cap \in Nat
        /\ \A l \in Layer : LayerFollows(l, layers[0].len)
    BY ForwardAssumption DEF PathsInv, IdleFollows
  <2>2. HistoriesFollowText
    BY <2>1 DEF HistoriesFollowText, AttnRead, MlpRead, LayerFollows
  <2>3. CacheFollowsText
    BY <2>1 DEF CacheFollowsText, AttnRead, LayerFollows
  <2> QED BY <2>1, <2>2, <2>3
<1> QED BY <1>1, PathsInvariant, PTL

\* Whatever the interleaving of the host and the GPU, the logits of a chunk's rows are
\* those of its own positions: both GPU forward passes implement TextModel, as the CPU's
\* does (ForwardComputesText).
THEOREM GpuComputesText == PathsSpec => ComputesText
<1>1. PathsInit => Text!TextInit
  BY DEF PathsInit, ForwardGpuInit, ForwardInit, Text!TextInit, Text!Closed
<1>2. PathsInv /\ [PathsNext]_<<forwardGpuVars, path>> => [Text!TextNext]_(Text!textVars)
  <2> SUFFICES ASSUME PathsInv, [PathsNext]_<<forwardGpuVars, path>>
               PROVE  Text!TextNext \/ UNCHANGED Text!textVars
    OBVIOUS
  <2>1. ASSUME NEW n \in 0..MaxCap, CacheCreate(n) PROVE Text!Open
    BY <2>1, ForwardAssumption DEF CacheCreate, Text!Open, Layer
  <2>2. ASSUME NEW n \in 0..MaxCap, NextChunkGpu(n) \/ NextChunkTiny(n)
        PROVE  UNCHANGED Text!textVars
    BY <2>2 DEF NextChunkGpu, ForwardGpu, Forward, NextChunkTiny, ForwardTiny, Text!textVars
  <2>3. CASE CacheFree
    BY <2>3 DEF CacheFree, Text!Close, Text!Closed, Text!TextNext
  <2>4. CASE HostLogits
    <3>1. /\ pc = "attn" /\ pc' = "idle" /\ layers' = layers
          /\ CallShape /\ layers[0].len = start_pos + T
          /\ logits' = [t \in 0..T - 1 |-> start_pos + t]
      <4>1. 0 \in Layer
        BY Sizes DEF Layer
      <4> QED BY <2>4, <4>1, LogitsFollow DEF HostLogits, LayerFollows
    <3>2. T \in 0..MaxCap /\ start_pos \in Nat
      BY <3>1, ForwardAssumption DEF CallShape, PathsInv
    <3>3. Text!Read(T)
      BY <3>1, <3>2 DEF Text!Read, Text!Closed
    <3> QED BY <3>2, <3>3 DEF Text!TextNext
  <2>5. ASSUME todo # <<>> \/ batch # <<>>, UNCHANGED <<pc, start_pos, logits>>
        PROVE  UNCHANGED Text!textVars
    <3>1. pc = "attn"
      BY <2>5 DEF PathsInv
    <3> QED BY <2>5, <3>1 DEF Text!textVars
  <2>6. CASE BeginBatch \/ EncodeDispatch \/ EndBatch
    BY <2>5, <2>6 DEF BeginBatch, EncodeDispatch, EndBatch, Do, forwardVars
  <2>7. CASE HostLen \/ HostTau \/ HostRoute \/ HostMix \/ HostMemcpy \/ HostFinal
    BY <2>5, <2>7 DEF HostLen, HostTau, HostRoute, HostMix, HostMemcpy, HostFinal, HostStep, Do,
       forwardVars
  <2>8. CASE \/ HostUpload \/ HostReadBack \/ HostRoll \/ HostStore \/ HostScale
             \/ HostGather \/ HostGamma \/ HostGscale \/ HostBlend \/ HostMup
    BY <2>5, <2>8 DEF HostUpload, HostReadBack, HostRoll, HostStore, HostScale, HostGather,
       HostGamma, HostGscale, HostBlend, HostMup, TinyArray, TinyHost, HostStep, Do
  <2>9. CASE \/ GpuMap \/ GpuMatvec \/ GpuRouted \/ GpuRowIn \/ GpuRowOut \/ GpuSconv \/ GpuAttn
             \/ GpuRoll \/ GpuStore \/ GpuConv \/ GpuBanded
    BY <2>5, <2>9 DEF GpuMap, GpuMatvec, GpuRouted, GpuRowIn, GpuRowOut, GpuSconv, GpuAttn,
       GpuRoll, GpuStore, GpuConv, GpuBanded, GpuScratch, GpuCache, Retire
  <2>10. CASE UNCHANGED <<forwardGpuVars, path>>
    BY <2>10 DEF forwardGpuVars, forwardVars, Text!textVars
  <2> QED
    <3>1. CASE path = "real" /\ ForwardGpuNext
      BY <2>1, <2>2, <2>3, <2>4, <2>6, <2>7, <2>9, <3>1 DEF ForwardGpuNext, Text!TextNext
    <3>2. CASE path = "tiny" /\ TinyNext
      BY <2>1, <2>2, <2>3, <2>4, <2>6, <2>7, <2>8, <2>9, <3>2 DEF TinyNext, Text!TextNext
    <3> QED BY <2>10, <3>1, <3>2 DEF PathsNext
<1> QED BY <1>1, <1>2, PathsInvariant, PTL DEF PathsSpec, ComputesText
=============================================================================
