------------------------------ MODULE LruCache -------------------------------
(***************************************************************************)
(* What the GPU expert store promises: a cache of at most Capacity         *)
(* (layer, expert) pairs in strict least-recently-used order, which never  *)
(* drops a pair looked up since the last time the GPU was known idle.      *)
(***************************************************************************)
EXTENDS Naturals, Sequences

CONSTANTS Pairs,     \* the cacheable (layer, expert) pairs
          Capacity   \* how many of them fit

VARIABLES recent,    \* the resident pairs, most recently used first
          pinned     \* pairs looked up since the GPU last finished its work

lruVars == <<recent, pinned>>

Resident == {recent[i] : i \in 1..Len(recent)}

LruInit == recent = <<>> /\ pinned = {}

\* The pair at place i is looked up: it comes first, those before it move down.
Hit(i) ==
  /\ recent' = [k \in 1..Len(recent) |-> IF k = 1 THEN recent[i]
                                        ELSE IF k <= i THEN recent[k - 1] ELSE recent[k]]
  /\ pinned' = pinned \cup {recent[i]}

\* A new pair comes first, before the n - 1 most recently used ones.
Enters(p, n) ==
  /\ p \notin Resident
  /\ recent' = [k \in 1..n |-> IF k = 1 THEN p ELSE recent[k - 1]]
  /\ pinned' = pinned \cup {p}

Install(p) == Len(recent) < Capacity /\ Enters(p, Len(recent) + 1)

\* The least recently used pair makes room, and it must not be pinned.
Replace(p) ==
  Len(recent) = Capacity /\ recent[Capacity] \notin pinned /\ Enters(p, Capacity)

GpuIdle == pinned' = {} /\ UNCHANGED recent

LruNext ==
  \/ GpuIdle
  \/ \E i \in 1..Len(recent) : Hit(i)
  \/ \E p \in Pairs : Install(p) \/ Replace(p)

LruSpec == LruInit /\ [][LruNext]_lruVars
=============================================================================
