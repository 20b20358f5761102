--------------------------- MODULE RealLoadProofs ---------------------------
(***************************************************************************)
(* For any index, budget and page size the store's slots are laid out      *)
(* soundly and no read of the loader leaves its part or its region; and    *)
(* for any manifest and configuration, what real_load accepts lies inside  *)
(* the mapped file, every row and stack that the manifest states of it.    *)
(*                                                                         *)
(* The first is division with remainder; the second is what each phase of  *)
(* real_load has established, and the arithmetic of a row in a stack.      *)
(***************************************************************************)
EXTENDS RealLoad, TLAPS

\* Division with remainder.
LEMMA DivMod ==
  ASSUME NEW a \in Nat, NEW k \in Nat \ {0}
  PROVE  /\ a \div k \in Nat /\ a % k \in 0..k - 1
         /\ a = (a \div k) * k + (a % k)
<1>1. a \div k \in Nat
  OBVIOUS
<1>2. a % k \in 0..k - 1
  OBVIOUS
<1>3. a = (a \div k) * k + (a % k)
  OBVIOUS
<1> QED BY <1>1, <1>2, <1>3

\* Multiplication by a size is monotonic.
LEMMA TimesMono ==
  ASSUME NEW a \in Int, NEW b \in Int, NEW w \in Nat, a <= b
  PROVE  a * w <= b * w
BY Z3

\* A multiple of a page ends on a page.
LEMMA TimesMod ==
  ASSUME NEW q \in Nat, NEW k \in Nat \ {0}
  PROVE  (q * k) % k = 0
BY Z3

\* What ends on a page is a multiple of it.
LEMMA Multiple ==
  ASSUME NEW a \in Nat, NEW k \in Nat \ {0}, a % k = 0
  PROVE  \E q \in Nat : a = q * k
<1>1. a \div k \in Nat /\ a = (a \div k) * k + (a % k)
  BY DivMod
<1> DEFINE q == a \div k
<1>2. q \in Nat /\ a = q * k + 0
  BY <1>1
<1> HIDE DEF q
<1>3. a = q * k
  BY <1>2
<1> QED BY <1>2, <1>3

\* Rounding up to whole pages loses nothing and ends on a page.
LEMMA RoundUpLemma ==
  ASSUME NEW n \in Nat
  PROVE  RoundUp(n) \in Nat /\ RoundUp(n) >= n /\ RoundUp(n) % Page = 0
<1> DEFINE q == (n + Page - 1) \div Page
<1>1. n + Page - 1 \in Nat /\ Page \in Nat \ {0}
  BY LayoutAssumption
<1>2. q \in Nat /\ n + Page - 1 = q * Page + ((n + Page - 1) % Page)
      /\ (n + Page - 1) % Page \in 0..Page - 1
  BY <1>1, DivMod
<1> HIDE DEF q
<1>3. q * Page >= n /\ q * Page \in Nat
  BY <1>1, <1>2
<1>4. (q * Page) % Page = 0
  BY <1>1, <1>2, TimesMod
<1>5. QED
  BY <1>3, <1>4 DEF RoundUp, q

-----------------------------------------------------------------------------
(* expert_store_init's arithmetic: k slots to a slab, n slots in all, each *)
(* of w bytes.                                                             *)

\* A slot's slab is one of those that were allocated.
LEMMA SlabExists ==
  ASSUME NEW n \in Nat \ {0}, NEW k \in Nat \ {0}, NEW i \in 0..n - 1
  PROVE  i \div k \in 0..((n + k - 1) \div k) - 1
<1> DEFINE s == i \div k
           m == (n + k - 1) \div k
<1>1. s \in Nat /\ i % k \in 0..k - 1 /\ i = s * k + (i % k)
  BY DivMod
<1>2. m \in Nat /\ (n + k - 1) % k \in 0..k - 1 /\ n + k - 1 = m * k + ((n + k - 1) % k)
  <2>1. n + k - 1 \in Nat
    OBVIOUS
  <2> QED BY <2>1, DivMod
<1> HIDE DEF s, m
<1>3. s * k < m * k
  <2>1. m * k >= n /\ s * k <= i
    BY <1>1, <1>2
  <2> QED BY <2>1, <1>1, <1>2
<1>4. ~(m <= s)
  BY <1>1, <1>2, <1>3, TimesMono
<1> QED BY <1>1, <1>2, <1>4 DEF s, m

\* A slot's place in its slab is one of those that the slab was sized for.
LEMMA PlaceExists ==
  ASSUME NEW n \in Nat \ {0}, NEW k \in Nat \ {0}, NEW i \in 0..n - 1
  PROVE  i % k \in Nat /\ SlotsInSlab(i \div k, n, k) \in Int
         /\ (i % k) + 1 <= SlotsInSlab(i \div k, n, k)
<1>1. i \div k \in Nat /\ i % k \in 0..k - 1 /\ i = (i \div k) * k + (i % k)
  BY DivMod
<1> DEFINE s == i \div k
<1>2. s \in Nat /\ s * k \in Nat /\ i = s * k + (i % k)
  BY <1>1
<1> HIDE DEF s
<1>3. (i % k) + 1 <= n - s * k
  BY <1>1, <1>2
<1> QED BY <1>1, <1>2, <1>3 DEF SlotsInSlab, s

\* Two slots of one slab have different places in it, in their own order.
LEMMA PlacesApart ==
  ASSUME NEW k \in Nat \ {0}, NEW a \in Nat, NEW b \in Nat, a < b,
         a \div k = b \div k
  PROVE  (a % k) + 1 <= b % k
<1>1. /\ a % k \in Nat /\ a = (a \div k) * k + (a % k)
      /\ b % k \in Nat /\ b = (b \div k) * k + (b % k)
      /\ a \div k \in Nat
  BY DivMod
<1> DEFINE s == a \div k
<1>2. s * k \in Nat /\ a = s * k + (a % k) /\ b = s * k + (b % k)
  BY <1>1
<1> HIDE DEF s
<1> QED BY <1>1, <1>2

\* The number of slots fits the budget unless it is the least possible.
LEMMA WithinBudget ==
  ASSUME NEW b \in Nat, NEW w \in Nat \ {0}, NEW pairs \in Nat,
         NEW n, n = AtLeastOne(Smaller(b \div w, pairs))
  PROVE  n \in Nat \ {0} /\ (n * w <= b \/ n = 1)
<1> DEFINE q == b \div w
<1>1. q \in Nat /\ b % w \in 0..w - 1 /\ b = q * w + (b % w)
  BY DivMod
<1> HIDE DEF q
<1>2. n \in Nat \ {0} /\ (n <= q \/ n = 1)
  BY <1>1 DEF AtLeastOne, Smaller, q
<1>3. CASE n <= q
  <2>1. n * w <= q * w
    BY <1>1, <1>2, <1>3, TimesMono
  <2> QED BY <1>1, <1>2, <2>1
<1> QED BY <1>2, <1>3

-----------------------------------------------------------------------------
(* The invariant.                                                          *)

\* Nothing is established before the first entry, and nothing is claimed.
LEMMA LayoutInitInv == LayoutInit => LayoutIInv
BY LayoutAssumption DEF LayoutInit, LayoutIInv, LayoutTypeOK, EntriesParsed, EntriesChecked,
   Accepted, ReadsStayInside, StoreLaidOut, Entry

\* An entry that is parsed is in range and no larger than the largest.
LEMMA ParsePreserved ==
  ASSUME LayoutIInv, ParseEntry \/ ParseEnds
  PROVE  LayoutIInv'
<1> USE LayoutAssumption DEF LayoutIInv, LayoutTypeOK, At, Accept, Reject, inputs, Entry, Accepted
<1>1. /\ phase = "parse" /\ phase' \in {"parse", "check", "dead"}
      /\ UNCHANGED <<offset, nbytes, part_size>>
  BY DEF ParseEntry, ParseEnds
<1>2. LayoutTypeOK'
  <2>1. CASE ParseEntry
    <3>1. e \in Entry /\ nbytes[e] \in Int
      BY <2>1 DEF ParseEntry
    <3> QED BY <1>1, <2>1, <3>1 DEF ParseEntry
  <2>2. CASE ParseEnds
    BY <1>1, <2>2 DEF ParseEnds
  <2> QED BY <2>1, <2>2
<1>3. EntriesParsed'
  <2> SUFFICES ASSUME phase' # "dead", NEW i \in Entry, Accepted("parse", i)'
               PROVE  offset[i] >= 0 /\ nbytes[i] >= 0 /\ nbytes[i] <= max_slab_bytes'
    BY <1>1 DEF EntriesParsed
  <2>1. CASE ParseEntry
    <3>1. e < Entries /\ e' = e + 1 /\ phase' = "parse" /\ offset[e] >= 0 /\ nbytes[e] >= 0
          /\ max_slab_bytes' = IF nbytes[e] > max_slab_bytes THEN nbytes[e] ELSE max_slab_bytes
      BY <1>1, <2>1 DEF ParseEntry
    <3>2. i < e => offset[i] >= 0 /\ nbytes[i] >= 0 /\ nbytes[i] <= max_slab_bytes
      BY <1>1 DEF EntriesParsed
    <3>3. i < e \/ i = e
      BY <3>1
    <3>4. nbytes[e] \in Int /\ nbytes[i] \in Int
      BY <3>1
    <3> QED BY <3>1, <3>2, <3>3, <3>4
  <2>2. CASE ParseEnds
    BY <1>1, <2>2 DEF ParseEnds, EntriesParsed
  <2> QED BY <2>1, <2>2
<1>4. EntriesChecked'
  <2>1. CASE ParseEntry
    BY <1>1, <2>1 DEF ParseEntry, EntriesChecked
  <2>2. CASE ParseEnds
    BY <1>1, <2>2 DEF ParseEnds, EntriesChecked
  <2> QED BY <2>1, <2>2
<1>5. ReadsStayInside' /\ StoreLaidOut'
  BY <1>1 DEF ReadsStayInside, StoreLaidOut
<1> QED BY <1>2, <1>3, <1>4, <1>5

\* An entry that is checked lies inside its part.
LEMMA CheckPreserved ==
  ASSUME LayoutIInv, CheckEntry \/ CheckEnds
  PROVE  LayoutIInv'
<1> USE LayoutAssumption DEF LayoutIInv, LayoutTypeOK, At, Accept, Reject, inputs, Entry, Accepted
<1>1. /\ phase = "check" /\ phase' \in {"check", "init", "dead"}
      /\ UNCHANGED <<offset, nbytes, part_size, max_slab_bytes>>
  BY DEF CheckEntry, OutOfPart, CheckEnds
<1>2. LayoutTypeOK'
  BY <1>1 DEF CheckEntry, OutOfPart, CheckEnds
<1>3. EntriesParsed'
  BY <1>1 DEF EntriesParsed
<1>4. EntriesChecked'
  <2>1. CASE CheckEntry
    <3>1. phase' = "check" => e' = e + 1 /\ ~(offset[e] + nbytes[e] > part_size[e]) /\ e < Entries
      BY <1>1, <2>1 DEF CheckEntry, OutOfPart
    <3>2. phase' # "init"
      BY <1>1, <2>1 DEF CheckEntry, OutOfPart
    <3> SUFFICES ASSUME phase' = "check", NEW i \in Entry, i < e'
                 PROVE  offset[i] + nbytes[i] <= part_size[i]
      BY <1>1, <3>2 DEF EntriesChecked
    <3>3. i < e \/ i = e
      BY <3>1
    <3>4. offset[i] \in Int /\ nbytes[i] \in Int /\ part_size[i] \in Int
      OBVIOUS
    <3> QED BY <1>1, <3>1, <3>3, <3>4 DEF EntriesChecked
  <2>2. CASE CheckEnds
    BY <1>1, <2>2 DEF CheckEnds, EntriesChecked
  <2> QED BY <2>1, <2>2
<1>5. ReadsStayInside' /\ StoreLaidOut'
  BY <1>1 DEF ReadsStayInside, StoreLaidOut
<1> QED BY <1>2, <1>3, <1>4, <1>5

\* expert_store_init: the layout and the bounds of every read.
LEMMA StorePreserved ==
  ASSUME LayoutIInv, NEW b \in 0..MaxBudget, NEW t \in 1..MaxTopk, NEW pairs \in 0..MaxPairs,
         StoreInit(b, t, pairs)
  PROVE  LayoutIInv'
<1> USE LayoutAssumption DEF LayoutIInv, LayoutTypeOK, inputs
<1>1. /\ phase = "init" /\ phase' \in {"disabled", "dead", "serving"}
      /\ budget' = b /\ topk' = t
      /\ UNCHANGED <<e, max_slab_bytes, offset, nbytes, part_size>>
  BY DEF StoreInit
<1>2. LayoutTypeOK' /\ EntriesParsed' /\ EntriesChecked'
  BY <1>1 DEF EntriesParsed, EntriesChecked
<1>3. CASE phase' # "serving"
  BY <1>1, <1>2, <1>3 DEF ReadsStayInside, StoreLaidOut
<1>4. CASE phase' = "serving"
  <2> DEFINE w == slot_bytes'
             k == slots_per_slab'
             n == n_slots'
  <2>1. /\ region_bytes' = RoundUp(AtLeastOne(max_slab_bytes))
        /\ w = region_bytes' * 3
        /\ k = AtLeastOne(SlabBytes \div w)
        /\ n = AtLeastOne(Smaller(b \div w, pairs))
        /\ ~(n < t)
        /\ n_slabs' = (n + k - 1) \div k
        /\ slab_size' = [s \in 0..n_slabs' - 1 |-> SlotsInSlab(s, n, k) * w]
        /\ slab_idx' = [i \in 0..n - 1 |-> i \div k]
        /\ base_off' = [i \in 0..n - 1 |-> (i % k) * w]
    BY <1>1, <1>4 DEF StoreInit
  <2>2. region_bytes' \in Nat \ {0} /\ region_bytes' >= max_slab_bytes /\ region_bytes' % Page = 0
    <3>1. AtLeastOne(max_slab_bytes) \in Nat \ {0} /\ AtLeastOne(max_slab_bytes) >= max_slab_bytes
      BY DEF AtLeastOne
    <3> DEFINE a == AtLeastOne(max_slab_bytes)
    <3>2. a \in Nat /\ a >= 1 /\ a >= max_slab_bytes /\ region_bytes' = RoundUp(a)
      BY <2>1, <3>1
    <3> HIDE DEF a
    <3>3. RoundUp(a) \in Nat /\ RoundUp(a) >= a /\ RoundUp(a) % Page = 0
      BY <3>2, RoundUpLemma
    <3> QED BY <3>2, <3>3
  <2>3. w \in Nat \ {0}
    BY <2>1, <2>2
  <2>4. k \in Nat \ {0}
    <3>1. SlabBytes \div w \in Nat
      BY <2>3, DivMod
    <3> QED BY <2>1, <3>1 DEF AtLeastOne
  <2>5. n \in Nat \ {0} /\ (n * w <= b \/ n = 1)
    <3>1. b \in Nat /\ pairs \in Nat
      OBVIOUS
    <3> QED BY <2>1, <2>3, <3>1, WithinBudget
  <2>6. w % Page = 0
    <3>1. PICK q \in Nat : region_bytes' = q * Page
      BY <2>2, Multiple
    <3>2. w = (q * 3) * Page /\ q * 3 \in Nat
      BY <2>1, <3>1
    <3> QED BY <3>2, TimesMod
  <2> HIDE DEF w, k, n
  <2>7. ReadsStayInside'
    <3>1. ASSUME NEW i \in Entry
          PROVE  /\ offset[i] >= 0 /\ nbytes[i] >= 0 /\ nbytes[i] <= max_slab_bytes
                 /\ offset[i] + nbytes[i] <= part_size[i]
      BY <1>1 DEF EntriesParsed, EntriesChecked, Accepted
    <3>2. \A i \in Entry : nbytes[i] <= region_bytes'
      BY <2>2, <3>1
    <3>3. 3 * region_bytes' = slot_bytes'
      BY <2>1, <2>2 DEF w
    <3> QED BY <1>1, <3>1, <3>2, <3>3 DEF ReadsStayInside, Entry
  <2>8. SlotsInSlabs'
    <3> SUFFICES ASSUME NEW i \in 0..n - 1
                 PROVE  /\ slab_idx'[i] \in 0..n_slabs' - 1
                        /\ base_off'[i] >= 0
                        /\ base_off'[i] + w <= slab_size'[slab_idx'[i]]
                        /\ base_off'[i] % Page = 0
      BY DEF SlotsInSlabs, Slots, n, w
    <3>1. slab_idx'[i] = i \div k /\ base_off'[i] = (i % k) * w
      BY <2>1
    <3>2. i \div k \in 0..n_slabs' - 1
      BY <2>1, <2>4, <2>5, SlabExists
    <3>3. i % k \in Nat /\ SlotsInSlab(i \div k, n, k) \in Int
          /\ (i % k) + 1 <= SlotsInSlab(i \div k, n, k)
      BY <2>4, <2>5, PlaceExists
    <3>4. slab_size'[i \div k] = SlotsInSlab(i \div k, n, k) * w
      BY <2>1, <3>2
    <3> DEFINE p == i % k
               c == SlotsInSlab(i \div k, n, k)
    <3>5. p \in Nat /\ c \in Int /\ p + 1 <= c
      BY <3>3
    <3> HIDE DEF p, c
    <3>6. (p + 1) * w <= c * w /\ p * w >= 0 /\ (p + 1) * w = p * w + w
      BY <2>3, <3>5, TimesMono
    <3>7. (p * w) % Page = 0
      <4>1. PICK q \in Nat : w = q * Page
        BY <2>3, <2>6, Multiple
      <4>2. p * w = (p * q) * Page /\ p * q \in Nat
        BY <3>5, <4>1
      <4> QED BY <4>2, TimesMod
    <3> QED BY <3>1, <3>2, <3>4, <3>6, <3>7 DEF p, c
  <2>9. SlotsApart'
    <3> SUFFICES ASSUME NEW a \in 0..n - 1, NEW d \in 0..n - 1, a < d, a \div k = d \div k
                 PROVE  (a % k) * w + w <= (d % k) * w
      BY <2>1 DEF SlotsApart, Slots, n, w
    <3>1. (a % k) + 1 <= d % k
      <4>1. a \in Nat /\ d \in Nat
        BY <2>5
      <4> QED BY <2>4, <4>1, PlacesApart
    <3>2. a % k \in Nat /\ d % k \in Nat
      BY <2>4, DivMod
    <3> DEFINE p == a % k
               q == d % k
    <3>3. p \in Nat /\ q \in Nat /\ p + 1 <= q
      BY <3>1, <3>2
    <3> HIDE DEF p, q
    <3>4. (p + 1) * w <= q * w /\ (p + 1) * w = p * w + w
      BY <2>3, <3>3, TimesMono
    <3> QED BY <3>4 DEF p, q
  <2>10. SizedRight'
    BY <1>1, <2>1, <2>5 DEF SizedRight, n, w
  <2> QED BY <1>2, <2>7, <2>8, <2>9, <2>10 DEF StoreLaidOut
<1> QED BY <1>3, <1>4

\* For every index, page size, slab size and budget.
THEOREM LayoutInvariant == LayoutSpec => []LayoutIInv
<1>1. LayoutIInv /\ [LayoutNext]_layoutVars => LayoutIInv'
  <2> SUFFICES ASSUME LayoutIInv, [LayoutNext]_layoutVars PROVE LayoutIInv'
    OBVIOUS
  <2>1. CASE UNCHANGED layoutVars
    BY <2>1 DEF layoutVars, inputs, storeVars, LayoutIInv, LayoutTypeOK, EntriesParsed,
                EntriesChecked, Accepted, ReadsStayInside, StoreLaidOut, SlotsInSlabs,
                SlotsApart, SizedRight, Slots
  <2>2. CASE SlabAllocFails
    BY <2>2 DEF SlabAllocFails, inputs, LayoutIInv, LayoutTypeOK, EntriesParsed,
                EntriesChecked, ReadsStayInside, StoreLaidOut
  <2> QED BY <2>1, <2>2, ParsePreserved, CheckPreserved, StorePreserved DEF LayoutNext, Running
<1>2. QED
  BY <1>1, LayoutInitInv, PTL DEF LayoutSpec

\* Slots lie inside their slabs, share no byte, suffice for a token and respect the
\* budget, whatever the sizes.
THEOREM LayoutStore == LayoutSpec => []StoreLaidOut
<1>1. LayoutIInv => StoreLaidOut
  BY DEF LayoutIInv
<1>2. QED
  BY <1>1, LayoutInvariant, PTL

\* No read of the loader leaves its part of the container or its region of a slot.
THEOREM LayoutReads == LayoutSpec => []ReadsStayInside
<1>1. LayoutIInv => ReadsStayInside
  BY DEF LayoutIInv
<1>2. QED
  BY <1>1, LayoutInvariant, PTL

-----------------------------------------------------------------------------
(* real_load does to the index and the store what ExpertLayout says, and   *)
(* nothing else touches them.                                              *)

\* Every step of real_load is a step of the layout or leaves it alone.
LEMMA LoadStepsLayout == [Next]_vars => [LayoutNext]_layoutVars
<1> SUFFICES ASSUME [Next]_vars PROVE LayoutNext \/ UNCHANGED layoutVars
  OBVIOUS
<1>1. CASE IndexLoad
  BY <1>1 DEF IndexLoad, LayoutNext
<1>2. CASE CheckSlots
  BY <1>2 DEF CheckSlots, LayoutNext
<1>3. CASE \E b \in 0..MaxBudget, t \in 1..MaxTopk, pairs \in 0..MaxPairs : InitStore(b, t, pairs)
  BY <1>3, Zenon DEF InitStore, LayoutNext
<1>4. CASE Fails \/ MapResident \/ ManifestLoad \/ IndexAgrees \/ OpenParts
  BY <1>4, Zenon DEF Fails, MapResident, ManifestLoad, IndexAgrees, OpenParts
<1>5. CASE ResolveTop \/ ResolveLayer \/ Allocate \/ WrapResident
  BY <1>5, Zenon DEF ResolveTop, ResolveLayer, Allocate, WrapResident
<1>6. CASE BuildGpuLayer \/ BuildGpuUnembed \/ StartPool \/ Loaded \/ UNCHANGED vars
  BY <1>6 DEF BuildGpuLayer, BuildGpuUnembed, StartPool, Loaded, vars
<1> QED BY <1>1, <1>2, <1>3, <1>4, <1>5, <1>6, Zenon DEF Next

\* Whatever order real_load does its work in, its index and its store are those of
\* ExpertLayout.
THEOREM LoadImplementsLayout == LoadSpec => LayoutSpec
<1>1. LoadInit => LayoutInit
  BY DEF LoadInit
<1>2. QED
  BY <1>1, LoadStepsLayout, PTL DEF LoadSpec, LayoutSpec

\* The store that real_load lays out is sound.
THEOREM LoadStore == LoadSpec => []StoreLaidOut
BY LoadImplementsLayout, LayoutStore

\* No read of an expert leaves its part or its region after real_load.
THEOREM LoadReads == LoadSpec => []ReadsStayInside
BY LoadImplementsLayout, LayoutReads

-----------------------------------------------------------------------------
(* What each phase of real_load establishes stays true in the next ones.   *)

\* What was found out about the manifest stays true while it is not read again.
LEMMA ChecksKept ==
  ASSUME UNCHANGED manifest
  PROVE  /\ ManifestTyped <=> ManifestTyped'
         /\ TopOk <=> TopOk'
         /\ \A l : LayerOk(l) <=> LayerOk(l)'
         /\ \A l : GpuLayerOk(l) <=> GpuLayerOk(l)'
         /\ \A name : Present(name) <=> Present(name)'
<1>1. \A name : Present(name) <=> Present(name)'
  BY DEF Present
<1>2. \A name : (F32Ok(name) <=> F32Ok(name)') /\ (QuantOk(name) <=> QuantOk(name)')
                /\ (StackedOk(name) <=> StackedOk(name)')
  BY <1>1 DEF F32Ok, QuantOk, StackedOk
<1>3. TopOk <=> TopOk'
  BY <1>2 DEF TopOk
<1>4. \A l : LayerOk(l) <=> LayerOk(l)'
  BY <1>2 DEF LayerOk
<1>5. \A l : GpuLayerOk(l) <=> GpuLayerOk(l)'
  BY DEF GpuLayerOk
<1>6. ManifestTyped <=> ManifestTyped'
  BY <1>1 DEF ManifestTyped
<1> QED BY <1>1, <1>3, <1>4, <1>5, <1>6

\* The invariant holds before real_load begins.
LEMMA LoadInitInv == LoadInit => LoadIInv
BY LoadAssumption DEF LoadInit, LoadIInv, LoadTypeOK, ManifestBounded, TensorsResolved,
   OffsetsChecked, Resolved

\* What a step of real_load has checked is established from the next phase on; nothing
\* that is checked changes after it.
LEMMA LoadStepKeeps == LoadIInv /\ [Next]_vars => LoadIInv'
<1> SUFFICES ASSUME LoadIInv, [Next]_vars PROVE LoadIInv'
  OBVIOUS
<1>1. UNCHANGED <<gpu, manifest>>
  BY Zenon DEF Next, Fails, MapResident, ManifestLoad, IndexLoad, IndexAgrees, OpenParts,
     CheckSlots, ResolveTop, ResolveLayer, Allocate, WrapResident, BuildGpuLayer, BuildGpuUnembed,
     InitStore, StartPool, Loaded, Step, vars, loadVars, loadInputs
<1>2. /\ ManifestTyped' /\ (TopOk <=> TopOk') /\ gpu' = gpu
      /\ \A l : (LayerOk(l) <=> LayerOk(l)') /\ (GpuLayerOk(l) <=> GpuLayerOk(l)')
      /\ \A name : (Present(name) <=> Present(name)') /\ manifest' = manifest
  BY <1>1, ChecksKept DEF LoadIInv, LoadTypeOK
<1> USE DEF LoadIInv, LoadTypeOK, ManifestBounded, TensorsResolved, OffsetsChecked, Resolved, Step
<1>3. CASE UNCHANGED vars
  BY <1>2, <1>3 DEF vars, loadVars
<1>4. CASE Fails \/ MapResident \/ IndexAgrees \/ OpenParts
  BY <1>2, <1>4 DEF Fails, MapResident, IndexAgrees, OpenParts
<1>5. CASE ManifestLoad
  BY <1>2, <1>5 DEF ManifestLoad
<1>6. CASE IndexLoad
  BY <1>2, <1>6 DEF IndexLoad
<1>7. CASE CheckSlots
  BY <1>2, <1>7 DEF CheckSlots
<1>8. CASE ResolveTop
  BY <1>2, <1>8 DEF ResolveTop
<1>9. CASE ResolveLayer
  BY <1>2, <1>9, LoadAssumption DEF ResolveLayer
<1>10. CASE Allocate
  BY <1>2, <1>10, LoadAssumption DEF Allocate
<1>11. CASE WrapResident
  BY <1>2, <1>11 DEF WrapResident
<1>12. CASE BuildGpuLayer
  BY <1>2, <1>12, LoadAssumption DEF BuildGpuLayer
<1>13. CASE BuildGpuUnembed
  BY <1>2, <1>13 DEF BuildGpuUnembed
<1>14. CASE \E b \in 0..MaxBudget, t \in 1..MaxTopk, pairs \in 0..MaxPairs : InitStore(b, t, pairs)
  BY <1>2, <1>14 DEF InitStore
<1>15. CASE StartPool \/ Loaded
  BY <1>2, <1>15 DEF StartPool, Loaded, vars, loadVars
<1> QED BY <1>3, <1>4, <1>5, <1>6, <1>7, <1>8, <1>9, <1>10, <1>11, <1>12, <1>13, <1>14, <1>15
        DEF Next

\* For any manifest, index and configuration.
LEMMA LoadInvariant == LoadSpec => []LoadIInv
BY LoadInitInv, LoadStepKeeps, PTL DEF LoadSpec

-----------------------------------------------------------------------------
(* From the sizes that are checked to the rows that are read.              *)

\* Row r of matrix s of a stack begins at row s * rows + r of the whole.
LEMMA RowInStack ==
  ASSUME NEW rows \in Nat, NEW stacks \in Nat, NEW s \in 0..stacks - 1, NEW r \in 0..rows - 1
  PROVE  s * rows + r \in Nat /\ s * rows + r + 1 <= stacks * rows
<1>1. (s + 1) * rows <= stacks * rows
  BY TimesMono
<1>2. (s + 1) * rows = s * rows + rows /\ s * rows \in Nat /\ stacks * rows \in Nat
  OBVIOUS
<1> DEFINE a == s * rows
           m == stacks * rows
<1>3. a \in Nat /\ m \in Nat /\ a + rows <= m
  BY <1>1, <1>2
<1> HIDE DEF a, m
<1>4. a + r \in Nat /\ a + r + 1 <= m
  BY <1>3
<1> QED BY <1>4 DEF a, m

\* What m rows of w bytes fill, row k is inside of.
LEMMA RowOfMany ==
  ASSUME NEW off \in Int, NEW n \in Int, NEW w \in Int, NEW m \in Int, NEW k \in Nat,
         Inside(off, n), n = m * w, k + 1 <= m
  PROVE  Inside(off + k * w, w)
<1>1. w >= 0
  <2>1. n >= 0 /\ m >= 1
    BY DEF Inside
  <2>2. CASE w < 0
    <3>1. m * w < 0
      BY <2>1, <2>2
    <3> QED BY <2>1, <3>1
  <2> QED BY <2>2
<1>2. (k + 1) * w <= m * w /\ (k + 1) * w = k * w + w /\ k * w >= 0 /\ k * w \in Int
  BY <1>1, TimesMono
<1> DEFINE a == k * w
<1>3. a + w <= n /\ a >= 0 /\ a \in Int
  BY <1>2
<1> HIDE DEF a
<1>4. Inside(off + a, w)
  BY <1>1, <1>3, LoadAssumption DEF Inside
<1> QED BY <1>4 DEF a

\* A row of a type that has rows takes a whole number of bytes.
LEMMA RowBytesType ==
  ASSUME NEW type, NEW ne \in Int, HasRowBytes(type, ne)
  PROVE  RowBytes(type, ne) \in Int
<1>1. TypeSizes[type][1] \in Nat \ {0} /\ TypeSizes[type][2] \in Nat
  BY LoadAssumption DEF HasRowBytes
<1>2. ne \div TypeSizes[type][1] \in Int
  BY <1>1
<1> QED BY <1>1, <1>2 DEF RowBytes

\* What ResolvedInside asks of one tensor.
RowsInside(t, rows) ==
  LET stacks == IF Len(t.shape) = 3 THEN t.shape[3] ELSE 1
  IN  \A s \in 0..stacks - 1, r \in 0..rows - 1 :
        Inside(t.offset + (s * rows + r) * RowBytes(t.type, t.shape[1]),
               RowBytes(t.type, t.shape[1]))

\* A tensor of the manifest, with integers in it.
TensorTyped(t) == t.shape \in Seq(Int) /\ t.offset \in Int /\ t.nbytes \in Int

\* A matrix that resident_qtensor accepts has its rows inside the file.
LEMMA QuantRowsInside ==
  ASSUME NEW name, QuantOk(name), TensorTyped(manifest[name]), ValidEntry(manifest[name])
  PROVE  RowsInside(manifest[name], manifest[name].shape[2])
<1> DEFINE t == manifest[name]
           w == RowBytes(t.type, t.shape[1])
           rows == t.shape[2]
<1>1. /\ Len(t.shape) = 2 /\ HasRowBytes(t.type, t.shape[1]) /\ t.nbytes = w * rows
      /\ t.shape \in Seq(Int) /\ t.offset \in Int /\ t.nbytes \in Int
      /\ Inside(t.offset, t.nbytes)
  BY DEF QuantOk, TensorTyped, ValidEntry, InFile, Inside, MatrixBytes
<1>2. t.shape[1] \in Int /\ rows \in Int
  BY <1>1
<1>3. w \in Int
  BY <1>1, <1>2, RowBytesType
<1> HIDE DEF t, w, rows
<1>4. ASSUME NEW s \in 0..0, NEW r \in 0..rows - 1
      PROVE  Inside(t.offset + (s * rows + r) * w, w)
  <2>1. s * rows + r = r /\ r \in Nat /\ r + 1 <= rows /\ t.nbytes = rows * w
    BY <1>1, <1>2, <1>3
  <2>2. Inside(t.offset + r * w, w)
    BY <1>1, <1>2, <1>3, <2>1, RowOfMany
  <2> QED BY <2>1, <2>2
<1> QED BY <1>1, <1>4 DEF RowsInside, t, w, rows

\* A stack that resident_qtensor_stacked accepts has the rows of all its matrices inside
\* the file: their byte stride is the size of one of them.
LEMMA StackRowsInside ==
  ASSUME NEW name, StackedOk(name), TensorTyped(manifest[name]), ValidEntry(manifest[name]),
         NumShared \in Nat \ {0}
  PROVE  RowsInside(manifest[name], manifest[name].shape[2])
<1> DEFINE t == manifest[name]
           w == RowBytes(t.type, t.shape[1])
           rows == t.shape[2]
<1>1. /\ Len(t.shape) = 3 /\ t.shape[3] = NumShared /\ HasRowBytes(t.type, t.shape[1])
      /\ t.nbytes % NumShared = 0 /\ t.nbytes \div NumShared = w * rows
      /\ t.shape \in Seq(Int) /\ t.offset \in Int /\ t.nbytes \in Int
      /\ Inside(t.offset, t.nbytes)
  BY DEF StackedOk, TensorTyped, ValidEntry, InFile, Inside, MatrixBytes, StackStride
<1>2. t.shape[1] \in Int /\ rows \in Int
  BY <1>1
<1>3. w \in Int
  BY <1>1, <1>2, RowBytesType
<1>4. t.nbytes = (w * rows) * NumShared
  <2>1. t.nbytes \in Nat
    BY <1>1 DEF Inside
  <2>2. t.nbytes = (t.nbytes \div NumShared) * NumShared + (t.nbytes % NumShared)
    BY <2>1, DivMod
  <2>3. (t.nbytes \div NumShared) * NumShared \in Int
    BY <2>1, DivMod
  <2> QED BY <1>1, <2>2, <2>3
<1> HIDE DEF t, w, rows
<1>5. ASSUME NEW s \in 0..NumShared - 1, NEW r \in 0..rows - 1
      PROVE  Inside(t.offset + (s * rows + r) * w, w)
  <2>1. rows \in Nat
    BY <1>2
  <2> DEFINE k == s * rows + r
             m == NumShared * rows
  <2>2. k \in Nat /\ m \in Int /\ k + 1 <= m
    BY <2>1, RowInStack
  <2>3. t.nbytes = m * w
    BY <1>2, <1>3, <1>4, <2>1
  <2> HIDE DEF k, m
  <2>4. Inside(t.offset + k * w, w)
    BY <1>1, <1>3, <2>2, <2>3, RowOfMany
  <2> QED BY <2>4 DEF k
<1> QED BY <1>1, <1>5 DEF RowsInside, t, w, rows

\* What a kernel reads of an F32 tensor is a number of floats.
LEMMA KernelFloatsType ==
  ASSUME NEW l, NEW n \in DOMAIN KernelFloats(l)
  PROVE  KernelFloats(l)[n] \in Nat
<1>1. Dh(l) \in Nat
  BY LoadAssumption DEF Dh
<1>2. KvDim(l) \in Nat
  <2>1. KvHeads \in Nat /\ SwaKvHeads \in Nat
    BY LoadAssumption
  <2> QED BY <1>1, <2>1 DEF KvDim
<1>3. /\ Hidden \in Nat /\ KvDim(l) * KernelSize \in Nat /\ Hidden * KernelSize \in Nat
      /\ DRel * (IF l \in Sliding THEN Window ELSE RelExtent) \in Nat
      /\ (NumRouted + NumShared) * Hidden \in Nat
  <2>1. KernelSize \in Nat /\ Hidden \in Nat /\ DRel \in Nat /\ Window \in Nat
        /\ RelExtent \in Nat /\ NumRouted \in Nat /\ NumShared \in Nat
    BY LoadAssumption
  <2>2. (IF l \in Sliding THEN Window ELSE RelExtent) \in Nat
    BY <2>1
  <2>3. NumRouted + NumShared \in Nat
    BY <2>1
  <2> QED BY <1>2, <2>1, <2>2, <2>3
<1> QED BY <1>1, <1>3 DEF KernelFloats

\* A tensor is one of the top ones or one of a layer's, and its own check accepted it.
LEMMA EveryTensorOk ==
  ASSUME TopOk, \A l \in Layer : LayerOk(l), NEW name \in Names
  PROVE  \/ name[2] \in F32Of(name[1]) \cup TopF32 /\ F32Ok(name)
         \/ QuantOk(name)
         \/ StackedOk(name) /\ NumShared \in Nat \ {0}
<1>1. CASE \E n \in TopF32 \cup TopQuant : name = <<-1, n>>
  <2>1. PICK n \in TopF32 \cup TopQuant : name = <<-1, n>>
    BY <1>1
  <2>2. name[2] = n
    BY <2>1
  <2> QED BY <2>1, <2>2 DEF TopOk
<1>2. CASE \E l \in Layer : \E n \in F32Of(l) \cup QuantOf(l) \cup StackedOf(l) : name = <<l, n>>
  <2>1. PICK l \in Layer : \E n \in F32Of(l) \cup QuantOf(l) \cup StackedOf(l) : name = <<l, n>>
    BY <1>2
  <2>2. PICK n \in F32Of(l) \cup QuantOf(l) \cup StackedOf(l) : name = <<l, n>>
    BY <2>1
  <2>3. name[1] = l /\ name[2] = n /\ LayerOk(l)
    BY <2>2
  <2>4. CASE n \in F32Of(l)
    BY <2>2, <2>3, <2>4 DEF LayerOk
  <2>5. CASE n \in QuantOf(l)
    BY <2>2, <2>3, <2>5 DEF LayerOk
  <2>6. CASE n \in StackedOf(l)
    <3>1. Sparse # {}
      BY <2>6 DEF StackedOf
    <3> QED BY <2>2, <2>3, <2>6, <3>1, LoadAssumption DEF LayerOk
  <2> QED BY <2>2, <2>4, <2>5, <2>6
<1>3. \/ \E n \in TopF32 \cup TopQuant : name = <<-1, n>>
      \/ \E l \in Layer : \E n \in F32Of(l) \cup QuantOf(l) \cup StackedOf(l) : name = <<l, n>>
  BY DEF Names
<1> QED BY <1>1, <1>2, <1>3

\* What is resolved lies inside the file, row by row.
LEMMA HostReadsInside ==
  ASSUME LoadIInv, load = "ready", NEW name \in Names
  PROVE  /\ Present(name)
         /\ LET t == manifest[name]
                stacks == IF Len(t.shape) = 3 THEN t.shape[3] ELSE 1
                rows == IF name[2] \in F32Of(name[1]) \cup TopF32 THEN 0 ELSE t.shape[2]
            IN  /\ Inside(t.offset, t.nbytes)
                /\ \A s \in 0..stacks - 1, r \in 0..rows - 1 :
                     Inside(t.offset + (s * rows + r) * RowBytes(t.type, t.shape[1]),
                            RowBytes(t.type, t.shape[1]))
<1>1. TopOk /\ \A l \in Layer : LayerOk(l)
  BY DEF LoadIInv, TensorsResolved, Resolved, Layer
<1>2. Present(name)
  BY <1>1, EveryTensorOk DEF F32Ok, QuantOk, StackedOk
<1>3. ValidEntry(manifest[name]) /\ TensorTyped(manifest[name])
  BY <1>2 DEF LoadIInv, ManifestBounded, LoadTypeOK, ManifestTyped, TensorTyped
<1>4. Inside(manifest[name].offset, manifest[name].nbytes)
  BY <1>3 DEF ValidEntry, InFile, Inside
<1>5. CASE name[2] \in F32Of(name[1]) \cup TopF32
  BY <1>2, <1>4, <1>5
<1>6. CASE name[2] \notin F32Of(name[1]) \cup TopF32
  <2>1. RowsInside(manifest[name], manifest[name].shape[2])
    BY <1>1, <1>3, <1>6, EveryTensorOk, QuantRowsInside, StackRowsInside
  <2> QED BY <1>2, <1>4, <1>6, <2>1, Zenon DEF RowsInside
<1> QED BY <1>5, <1>6

\* What a kernel is given begins on an even byte and holds the floats it reads.
LEMMA KernelsReadInside ==
  ASSUME LoadIInv, load = "ready", gpu, NEW l \in Layer,
         NEW n \in F32Of(l) \cup QuantOf(l) \cup StackedOf(l)
  PROVE  LET t == manifest[<<l, n>>]
         IN  n \in KernelF32(l) \cup QuantOf(l) \cup StackedOf(l) =>
               /\ t.offset % 2 = 0
               /\ n \in KernelF32(l) => Inside(t.offset, KernelFloats(l)[n] * FloatBytes)
<1> DEFINE t == manifest[<<l, n>>]
<1>1. GpuLayerOk(l) /\ LayerOk(l)
  BY DEF LoadIInv, OffsetsChecked, TensorsResolved, Resolved, Layer
<1>2. ASSUME n \in KernelF32(l)
      PROVE  t.offset % 2 = 0 /\ Inside(t.offset, KernelFloats(l)[n] * FloatBytes)
  <2>1. KernelMayRead(t.offset, KernelFloats(l)[n] * FloatBytes)
    BY <1>1, <1>2 DEF GpuLayerOk
  <2>2. KernelFloats(l)[n] \in Nat
    BY <1>2, KernelFloatsType DEF KernelF32
  <2>3. KernelFloats(l)[n] * FloatBytes \in Nat
    BY <2>2, LoadAssumption
  <2> QED BY <2>1, <2>3 DEF KernelMayRead, Inside
<1>3. ASSUME n \in QuantOf(l) PROVE t.offset % 2 = 0
  <2>1. KernelMayRead(t.offset, MatrixBytes(t))
    BY <1>1, <1>3 DEF GpuLayerOk
  <2> QED BY <2>1 DEF KernelMayRead
<1>4. ASSUME n \in StackedOf(l) PROVE t.offset % 2 = 0
  <2>1. 0 \in 0..NumShared - 1
    <3>1. Sparse # {}
      BY <1>4 DEF StackedOf
    <3> QED BY <3>1, LoadAssumption
  <2>2. KernelMayRead(t.offset + 0 * StackStride(t), MatrixBytes(t))
    BY <1>1, <1>4, <2>1 DEF GpuLayerOk
  <2>3. t.offset \in Int /\ t.nbytes \in Nat
    <3>1. Present(<<l, n>>) /\ <<l, n>> \in Names
      <4>1. StackedOk(<<l, n>>)
        BY <1>1, <1>4, Zenon DEF LayerOk
      <4>2. <<l, n>> \in {<<l, k>> : k \in F32Of(l) \cup QuantOf(l) \cup StackedOf(l)}
        OBVIOUS
      <4>3. <<l, n>> \in Names
        BY <4>2, Zenon DEF Names
      <4> QED BY <4>1, <4>3, Zenon DEF StackedOk
    <3>2. ManifestTyped /\ ValidEntry(t)
      BY <3>1 DEF LoadIInv, ManifestBounded, LoadTypeOK
    <3> QED BY <3>1, <3>2 DEF ManifestTyped, ValidEntry, InFile
  <2>4. StackStride(t) \in Int
    BY <2>1, <2>3, LoadAssumption DEF StackStride
  <2>5. t.offset + 0 * StackStride(t) = t.offset
    BY <2>3, <2>4
  <2> QED BY <2>2, <2>5 DEF KernelMayRead
<1> QED BY <1>2, <1>3, <1>4

\* When real_load returns, all that the forward pass reaches without another check lies
\* inside the mapped file, whatever the manifest says and whatever the dimensions are.
THEOREM LoadResolves == LoadSpec => []ResolvedInside
<1>1. LoadIInv => ResolvedInside
  <2> SUFFICES ASSUME LoadIInv, load = "ready" PROVE ResolvedInside
    BY DEF ResolvedInside
  <2> QED BY HostReadsInside, KernelsReadInside, Zenon DEF ResolvedInside
<1>2. QED
  BY <1>1, LoadInvariant, PTL
=============================================================================
