---------------------------- MODULE ExpertLayout ----------------------------
(***************************************************************************)
(* From the expert index to the store: index_load and real_load check      *)
(* every expert matrix of the container, and expert_store_init divides the *)
(* budget into slots, three regions each, laid out in slabs.  Every byte   *)
(* that the loader reads, and every byte that it writes, is fixed by this. *)
(* Sizes are in bytes; the arithmetic of the code does not reach the end   *)
(* of its 64-bit types for any file that fits on a disk.                   *)
(***************************************************************************)
EXTENDS Integers

CONSTANTS
  Entries,     \* how many matrices: gate, up and down of every expert
  Page,        \* getpagesize()
  SlabBytes,   \* SEPIA_EXPERT_SLAB_BYTES
  MaxFile, MaxBytes, MaxBudget, MaxPairs, MaxTopk  \* bounds on the inputs

ASSUME LayoutAssumption ==
  /\ Entries \in Nat /\ Page \in Nat \ {0} /\ SlabBytes \in Nat
  /\ MaxFile \in Nat /\ MaxBytes \in Nat /\ MaxBudget \in Nat /\ MaxPairs \in Nat
  /\ MaxTopk \in Nat \ {0}

VARIABLES
  phase,   \* "parse", "check", "init", then "serving", "disabled" or "dead"
  e,       \* the entry that comes next
  offset, nbytes,  \* the index file: abs_offset and nbytes of each entry
  want,            \* what config.json's shapes say each entry's size is
  part_size,       \* the size of the part that holds it
  max_slab_bytes,
  budget, topk,
  region_bytes, slot_bytes, slots_per_slab, n_slots, n_slabs,
  slab_size,            \* the bytes allocated for each slab
  slab_idx, base_off    \* of each slot

inputs == <<offset, nbytes, want, part_size>>
storeVars == <<budget, topk, region_bytes, slot_bytes, slots_per_slab, n_slots, n_slabs,
               slab_size, slab_idx, base_off>>
layoutVars == <<phase, e, max_slab_bytes, inputs, storeVars>>

Entry == 0..Entries - 1
Slots == 0..n_slots - 1
Empty == [s \in {} |-> 0]

LayoutInit ==
  /\ phase = "parse" /\ e = 0 /\ max_slab_bytes = 0
  /\ offset \in [Entry -> -1..MaxFile] /\ nbytes \in [Entry -> -1..MaxBytes]
  /\ want \in [Entry -> 0..MaxBytes] /\ part_size \in [Entry -> 0..MaxFile]
  /\ budget = 0 /\ topk = 0
  /\ region_bytes = 0 /\ slot_bytes = 0 /\ slots_per_slab = 0 /\ n_slots = 0 /\ n_slabs = 0
  /\ slab_size = Empty /\ slab_idx = Empty /\ base_off = Empty

\* The loops over the entries: from one phase to the next.
At(p) == phase = p /\ UNCHANGED <<inputs, storeVars>>

Accept == e' = e + 1 /\ UNCHANGED phase

Reject == phase' = "dead" /\ UNCHANGED <<e, max_slab_bytes>>

\* index_parse_slot on one entry.
ParseEntry ==
  /\ At("parse") /\ e < Entries
  /\ IF offset[e] < 0 \/ nbytes[e] < 0 THEN Reject
     ELSE /\ Accept
          /\ max_slab_bytes' = IF nbytes[e] > max_slab_bytes THEN nbytes[e] ELSE max_slab_bytes

ParseEnds ==
  /\ At("parse") /\ e = Entries
  /\ phase' = "check" /\ e' = 0 /\ UNCHANGED max_slab_bytes

\* Mutant: an entry that begins inside its part but runs past its end.
BeginsOutOfPart(i) == offset[i] > part_size[i]

OutOfPart(i) == offset[i] + nbytes[i] > part_size[i]

\* real_load on one entry.
CheckEntry ==
  /\ At("check") /\ e < Entries
  /\ IF OutOfPart(e) \/ nbytes[e] # want[e] THEN Reject
     ELSE Accept /\ UNCHANGED max_slab_bytes

CheckEnds ==
  /\ At("check") /\ e = Entries
  /\ phase' = "init" /\ UNCHANGED <<e, max_slab_bytes>>

RoundUp(n) == ((n + Page - 1) \div Page) * Page

AtLeastOne(n) == IF n < 1 THEN 1 ELSE n

Smaller(m, n) == IF m < n THEN m ELSE n

\* Mutant: the last slab has as many slots as the others, as far as they go.
SlotsInSlabShort(s, n, k) == IF s = ((n + k - 1) \div k) - 1 THEN n % k ELSE k

SlotsInSlab(s, n, k) == IF s = ((n + k - 1) \div k) - 1 THEN n - s * k ELSE k

\* expert_store_init, for a budget, a top-k and a number of (layer, expert) pairs.
StoreInit(b, t, pairs) ==
  /\ phase = "init"
  /\ budget' = b /\ topk' = t
  /\ UNCHANGED <<e, max_slab_bytes, inputs>>
  /\ IF pairs = 0
     THEN /\ phase' = "disabled"
          /\ UNCHANGED <<region_bytes, slot_bytes, slots_per_slab, n_slots, n_slabs,
                         slab_size, slab_idx, base_off>>
     ELSE /\ region_bytes' = RoundUp(AtLeastOne(max_slab_bytes))
          /\ slot_bytes' = region_bytes' * 3
          /\ slots_per_slab' = AtLeastOne(SlabBytes \div slot_bytes')
          /\ n_slots' = AtLeastOne(Smaller(b \div slot_bytes', pairs))
          /\ phase' = IF n_slots' < t THEN "dead" ELSE "serving"
          /\ n_slabs' = (n_slots' + slots_per_slab' - 1) \div slots_per_slab'
          /\ slab_size' = [s \in 0..n_slabs' - 1 |->
                             SlotsInSlab(s, n_slots', slots_per_slab') * slot_bytes']
          /\ slab_idx' = [i \in 0..n_slots' - 1 |-> i \div slots_per_slab']
          /\ base_off' = [i \in 0..n_slots' - 1 |-> (i % slots_per_slab') * slot_bytes']

\* A slab cannot be allocated.
SlabAllocFails ==
  /\ phase = "init" /\ phase' = "dead"
  /\ UNCHANGED <<e, max_slab_bytes, inputs, storeVars>>

Running == phase \in {"serving", "disabled", "dead"} /\ UNCHANGED layoutVars

LayoutNext ==
  \/ ParseEntry \/ ParseEnds \/ CheckEntry \/ CheckEnds
  \/ \E b \in 0..MaxBudget, t \in 1..MaxTopk, pairs \in 0..MaxPairs : StoreInit(b, t, pairs)
  \/ SlabAllocFails
  \/ Running

LayoutSpec == LayoutInit /\ [][LayoutNext]_layoutVars

-----------------------------------------------------------------------------
(* Properties.                                                             *)

\* Every slot lies inside the slab that was allocated for it and starts on a page,
\* which is what its one mlock covers.
SlotsInSlabs ==
  \A i \in Slots :
    /\ slab_idx[i] \in 0..n_slabs - 1
    /\ base_off[i] >= 0 /\ base_off[i] + slot_bytes <= slab_size[slab_idx[i]]
    /\ base_off[i] % Page = 0

\* Two slots share no byte.
SlotsApart ==
  \A a, b \in Slots : a < b /\ slab_idx[a] = slab_idx[b] =>
    base_off[a] + slot_bytes <= base_off[b]

\* The slots of one token never run out, and the store takes no more memory than it
\* was given unless that is less than a single slot.
SizedRight == n_slots >= topk /\ (n_slots * slot_bytes <= budget \/ n_slots = 1)

StoreLaidOut == phase = "serving" => SlotsInSlabs /\ SlotsApart /\ SizedRight

\* Whatever matrix is read into whatever region of a slot comes from inside its
\* part and stays inside the region.
ReadsStayInside ==
  phase = "serving" => \A i \in Entry :
    /\ offset[i] >= 0 /\ nbytes[i] >= 0
    /\ offset[i] + nbytes[i] <= part_size[i]
    /\ nbytes[i] <= region_bytes /\ 3 * region_bytes = slot_bytes

LayoutTypeOK ==
  /\ phase \in {"parse", "check", "init", "serving", "disabled", "dead"}
  /\ e \in 0..Entries /\ max_slab_bytes \in Nat
  /\ offset \in [Entry -> Int] /\ nbytes \in [Entry -> Int]
  /\ part_size \in [Entry -> Nat]

\* The entries that a loop has accepted: the ones before e, and all of them in the
\* phases after it.
Accepted(loop, i) == phase # loop \/ i < e

EntriesParsed ==
  phase \in {"parse", "check", "init"} =>
    \A i \in Entry : Accepted("parse", i) =>
      offset[i] >= 0 /\ nbytes[i] >= 0 /\ nbytes[i] <= max_slab_bytes

EntriesChecked ==
  phase \in {"check", "init"} =>
    \A i \in Entry : Accepted("check", i) => offset[i] + nbytes[i] <= part_size[i]

LayoutIInv ==
  LayoutTypeOK /\ EntriesParsed /\ EntriesChecked /\ ReadsStayInside /\ StoreLaidOut
=============================================================================
