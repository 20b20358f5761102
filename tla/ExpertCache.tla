----------------------------- MODULE ExpertCache -----------------------------
(***************************************************************************)
(* The GPU expert store of sepia.c: a fixed set of slots on an intrusive   *)
(* doubly linked LRU list, a (layer, expert) -> slot table, generation     *)
(* stamps that keep a slot from being reused while the GPU or a loader     *)
(* thread may still need it, and a once-per-slot mlock that degrades.      *)
(* Only the thread that owns the GPU ever runs this code, so each function *)
(* is one step.  What it asks the loader pool to read is `job'.            *)
(***************************************************************************)
EXTENDS Integers, Sequences, FiniteSets, ProcessLife

CONSTANTS Layers,    \* MoE layers with an index entry
          Experts,   \* routed experts of a layer
          NSlots,    \* st->n_slots
          TopK,      \* num_experts_per_tok
          MaxGen,    \* bound on gen_completed (the code's is 2^64 - 1)
          NoPair     \* "layer = -1, expert = -1"

ASSUME CacheAssumption ==
  /\ IsFiniteSet(Experts)
  /\ TopK \in Nat \ {0}
  /\ TopK <= Cardinality(Experts)
  /\ NoPair \notin Layers \X Experts
  /\ MaxGen \in Nat

\* expert_store_init dies unless the budget holds one token's experts.
ASSUME StoreHoldsTopK == NSlots \in Nat /\ NSlots >= TopK

Slots == 0..NSlots - 1
Nil == -1
Pairs == Layers \X Experts

VARIABLES
  owner,         \* sl->layer, sl->expert
  safe_gen,      \* sl->safe_gen
  lru,           \* lru_prev / lru_next of every slot, lru_head, lru_tail
  table,         \* st->table: a slot or Nil for every pair
  gen_completed,
  mlocked, mlock_disabled,
  layer,         \* the layer of the MoE call in progress
  todo,          \* its selected experts that are not resolved yet, in order
  resolved       \* what this call was given so far: <<expert, slot>> pairs

storeVars == <<owner, safe_gen, lru, table, mlocked, mlock_disabled>>
callVars == <<layer, todo, resolved>>
cacheVars == <<storeVars, gen_completed, callVars, alive>>

-----------------------------------------------------------------------------
(* The list operations, on a record of the two link arrays and both ends.  *)

Unlink(l, s) ==
  LET p == l.prev[s]
      n == l.next[s]
      nexts == IF p >= 0 THEN [l.next EXCEPT ![p] = n] ELSE l.next
      prevs == IF n >= 0 THEN [l.prev EXCEPT ![n] = p] ELSE l.prev
  IN  [head |-> IF p >= 0 THEN l.head ELSE n,
       tail |-> IF n >= 0 THEN l.tail ELSE p,
       next |-> [nexts EXCEPT ![s] = Nil],
       prev |-> [prevs EXCEPT ![s] = Nil]]

\* expert_cache_lru_push_head
PushHead(l, s) ==
  LET h == l.head
      prevs == [l.prev EXCEPT ![s] = Nil]
  IN  [head |-> s,
       tail |-> IF l.tail < 0 THEN s ELSE l.tail,
       next |-> [l.next EXCEPT ![s] = h],
       prev |-> IF h >= 0 THEN [prevs EXCEPT ![h] = s] ELSE prevs]

\* Mutant: the slot is not moved.
LeaveInPlace(l, s) == l

MoveToHead(l, s) == PushHead(Unlink(l, s), s)

\* A slot whose bytes neither the GPU nor a loader thread can still need.
Evictable(s) == owner[s] = NoPair \/ safe_gen[s] <= gen_completed

\* The slots met walking lru_prev from lru_tail.
Back[k \in 0..NSlots] ==
  IF k = 0 THEN lru.tail
  ELSE IF Back[k - 1] = Nil THEN Nil ELSE lru.prev[Back[k - 1]]

\* Mutant: the most recently used slot is the victim.
EvictHead == lru.head

\* expert_cache_evict_or_get_free: from the tail toward the head, the first
\* evictable slot; the tail itself if a whole walk finds none.
EvictOrGetFree ==
  LET found == {k \in 0..NSlots - 1 : Back[k] # Nil /\ Evictable(Back[k])}
  IN  IF found = {} THEN lru.tail
      ELSE Back[CHOOSE k \in found : \A i \in found : k <= i]

-----------------------------------------------------------------------------
\* expert_store_init: the list runs 0..n_slots-1, nothing is resident.
StoreInit ==
  /\ owner = [s \in Slots |-> NoPair]
  /\ safe_gen = [s \in Slots |-> 0]
  /\ lru = [head |-> 0, tail |-> NSlots - 1,
            prev |-> [s \in Slots |-> s - 1],
            next |-> [s \in Slots |-> IF s = NSlots - 1 THEN Nil ELSE s + 1]]
  /\ table = [p \in Pairs |-> Nil]
  /\ gen_completed = 0
  /\ mlocked = [s \in Slots |-> FALSE] /\ mlock_disabled = FALSE

CacheInit ==
  /\ StoreInit
  /\ layer \in Layers /\ todo = <<>> /\ resolved = {}
  /\ alive = TRUE

\* An MoE layer selected topk distinct experts (moe_route_select).
Selections == {s \in [1..TopK -> Experts] : \A i, j \in 1..TopK : s[i] = s[j] => i = j}

SelectExperts(l, sel) ==
  /\ alive
  /\ todo = <<>> /\ resolved = {}
  /\ layer' = l /\ todo' = sel
  /\ UNCHANGED <<storeVars, gen_completed, resolved, alive>>

\* Every access, hit or miss, protects the slot until the next real_gpu_end.
Stamp(s) == safe_gen' = [safe_gen EXCEPT ![s] = gen_completed + 1]

Resolve(s) ==
  /\ todo' = Tail(todo)
  /\ resolved' = resolved \cup {<<Head(todo), s>>}
  /\ UNCHANGED layer

\* expert_cache_get on a pair in the table.
CacheHit ==
  LET s == table[<<layer, Head(todo)>>] IN
  /\ alive /\ todo # <<>>
  /\ s >= 0
  /\ Stamp(s)
  /\ lru' = MoveToHead(lru, s)
  /\ Resolve(s)
  /\ UNCHANGED <<owner, table, gen_completed, mlocked, mlock_disabled, alive>>

\* expert_slot_mlock_once: one attempt per slot until the first failure.
MlockOnce(s) ==
  \/ /\ mlocked[s] \/ mlock_disabled
     /\ UNCHANGED <<mlocked, mlock_disabled>>
  \/ /\ ~mlocked[s] /\ ~mlock_disabled
     /\ \/ mlocked' = [mlocked EXCEPT ![s] = TRUE] /\ UNCHANGED mlock_disabled
        \/ mlock_disabled' = TRUE /\ UNCHANGED mlocked

\* Mutant: the evicted pair keeps its table entry.
RetableStale(s, p) == table' = [table EXCEPT ![p] = s]

\* The table loses the victim's old pair and gains the new one.
Retable(s, p) ==
  table' = [q \in Pairs |-> IF q = p THEN s ELSE IF q = owner[s] THEN Nil ELSE table[q]]

\* expert_cache_get on a pair that is not in the table: the victim is `s', and
\* the loader pool is asked to fill it.
CacheMiss(s) ==
  LET p == <<layer, Head(todo)>> IN
  /\ alive /\ todo # <<>>
  /\ table[p] < 0
  /\ s = EvictOrGetFree
  /\ Retable(s, p)
  /\ owner' = [owner EXCEPT ![s] = p]
  /\ Stamp(s)
  /\ MlockOnce(s)
  /\ lru' = MoveToHead(lru, s)
  /\ Resolve(s)
  /\ UNCHANGED <<gen_completed, alive>>

\* real_gpu_end, with no lookup left to do: SYNC #2 of the call, or one of the
\* step's other syncs when no MoE call is in progress.
GpuEndOk ==
  /\ alive /\ todo = <<>>
  /\ gen_completed < MaxGen
  /\ gen_completed' = gen_completed + 1
  /\ resolved' = {}
  /\ UNCHANGED <<storeVars, layer, todo, alive>>

\* A failed sepia_gpu_end makes every caller of real_gpu_end die; a loader
\* thread may die in a pread at any time.
ProcessDies ==
  /\ Die
  /\ UNCHANGED <<storeVars, gen_completed, callVars>>

\* The bound on gen_completed, or a death, ends a behaviour.
CacheStopped == (gen_completed = MaxGen /\ resolved # {} /\ todo = <<>>) \/ ~alive

CacheNext ==
  \/ \E l \in Layers, sel \in Selections : SelectExperts(l, sel)
  \/ CacheHit
  \/ \E s \in Slots : CacheMiss(s)
  \/ GpuEndOk
  \/ ProcessDies
  \/ CacheStopped /\ UNCHANGED cacheVars

CacheSpec == CacheInit /\ [][CacheNext]_cacheVars

-----------------------------------------------------------------------------
(* Properties.                                                             *)

CacheTypeOK ==
  /\ owner \in [Slots -> Pairs \cup {NoPair}]
  /\ safe_gen \in [Slots -> 0..MaxGen + 1]
  /\ lru.head \in Slots /\ lru.tail \in Slots
  /\ lru.prev \in [Slots -> Slots \cup {Nil}]
  /\ lru.next \in [Slots -> Slots \cup {Nil}]
  /\ table \in [Pairs -> Slots \cup {Nil}]
  /\ gen_completed \in 0..MaxGen
  /\ mlocked \in [Slots -> BOOLEAN] /\ mlock_disabled \in BOOLEAN
  /\ layer \in Layers
  /\ todo \in UNION {[1..n -> Experts] : n \in 0..TopK}
  /\ resolved \in SUBSET (Experts \X Slots)
  /\ alive \in BOOLEAN

\* The lookup table and the slots' owners are inverse to each other: no pair
\* maps to a slot that holds another pair's bytes, no slot's owner is unfindable.
TableMatchesOwners ==
  \A p \in Pairs, s \in Slots : table[p] = s <=> owner[s] = p

\* The list as the slots met walking lru_next from lru_head.
Forward[k \in 1..NSlots] == IF k = 1 THEN lru.head ELSE lru.next[Forward[k - 1]]

\* However often slots are unlinked and pushed, the list keeps every slot once,
\* reads the same in both directions and ends where lru_tail says.
ListWellFormed ==
  /\ \A s \in Slots : \E k \in 1..NSlots : Forward[k] = s
  /\ lru.prev[lru.head] = Nil
  /\ lru.next[lru.tail] = Nil
  /\ \A k \in 2..NSlots : lru.prev[Forward[k]] = Forward[k - 1]
  /\ Forward[NSlots] = lru.tail

\* The list is in order of use: slots that were never used stay behind the resident
\* ones, and slots that may be reused behind the protected ones.
OrderInv ==
  \A i, k \in 1..NSlots : i < k =>
    /\ owner[Forward[k]] # NoPair => owner[Forward[i]] # NoPair
    /\ ~Evictable(Forward[k]) => ~Evictable(Forward[i])

\* A resident slot is unpinned only when mlock has failed before.
ResidentPinned == \A s \in Slots : owner[s] # NoPair => mlocked[s] \/ mlock_disabled

\* What is protected from eviction is exactly what the call in progress was given,
\* and that is fewer than topk slots while a lookup is still to be made.
CallInv ==
  /\ \A i, k \in 1..Len(todo) : todo[i] = todo[k] => i = k
  /\ \A r \in resolved, i \in 1..Len(todo) : r[1] # todo[i]
  /\ Cardinality(resolved) + Len(todo) <= TopK
  /\ \A s \in Slots : ~Evictable(s) => \E r \in resolved : r[2] = s
  /\ \A s \in Slots : safe_gen[s] <= gen_completed + 1

\* List, table, slots, pins and the call in progress agree after any sequence of
\* hits, misses and evictions.
StoreInv ==
  /\ CacheTypeOK /\ TableMatchesOwners /\ ListWellFormed /\ OrderInv
  /\ ResidentPinned /\ CallInv

\* An expert resolved earlier in a token's loop still owns its slot when the
\* loop ends: a later miss of the same loop never takes it ("silently
\* overwriting one expert's weights with another's mid-token").
ResolvedStayResident ==
  \A r \in resolved : owner[r[2]] = <<layer, r[1]>> /\ safe_gen[r[2]] > gen_completed

\* The fallback of expert_cache_evict_or_get_free is never taken: whenever an
\* expert is still to be resolved, at most topk - 1 slots are protected.
FallbackUnreachable == todo # <<>> => \E s \in Slots : Evictable(s)

\* The pairs in the store, most recently used first: the slots without one are always
\* at the end of the list.
ResidentPlaces == {k \in 1..NSlots : owner[Forward[k]] # NoPair}
ResidentOrder == [k \in 1..Cardinality(ResidentPlaces) |-> owner[Forward[k]]]

Lru == INSTANCE LruCache WITH
  Capacity <- NSlots,
  recent <- ResidentOrder,
  pinned <- {<<layer, r[1]>> : r \in resolved}

\* The store is a plain LRU cache that never drops a pair in use: protected
\* slots are always ahead of the victim, so the walk never has to pass one.
ImplementsLru == Lru!LruSpec
=============================================================================
