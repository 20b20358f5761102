----------------------------- MODULE Threadgroup -----------------------------
(***************************************************************************)
(* One threadgroup of a Metal kernel that reduces over a row: rmsnorm,     *)
(* matvec and softmax (metal/ops.metal) and banded attention               *)
(* (metal/banded_attn.metal).  The lanes of a simdgroup run together; the  *)
(* simdgroups of the threadgroup run in any order between two barriers and *)
(* meet in threadgroup memory.                                             *)
(*                                                                         *)
(* A float that stands for a sum is the bag of its terms.  <<i, b>> is     *)
(* exp(x_i - b), so that a product with exp(a - c) moves the base; the     *)
(* plain terms of rmsnorm and matvec have base 0.  Rounding is left out.      *)
(***************************************************************************)
EXTENDS Integers, Sequences, Bags, Functions, FiniteSetsExt

CONSTANTS
  SimdWidth,    \* lanes of a simdgroup: 32
  MaxWidth,     \* threads of a threadgroup: 1024
  MaxRow        \* bound: elements of a row

ASSUME ThreadgroupAssumption ==
  /\ SimdWidth \in Nat \ {0}
  /\ MaxWidth <= SimdWidth * SimdWidth   \* one cell of shmem per simdgroup

VARIABLES
  kernel,
  ntg,          \* threads_per_threadgroup
  kv_lo, kv_hi, \* the row: 0..n-1, or the keys attended to
  score,        \* x[i], or the score of key i
  pc,           \* by simdgroup: its next statement
  reg,          \* by thread: its running maximum and sum
  shmem,        \* shmem, or shmem_m with shmem_l (and shmem_acc)
  touched,      \* accesses to shmem since the last barrier
  result        \* what the row's elements were normalised with

groupVars == <<kernel, ntg, kv_lo, kv_hi, score, pc, reg, shmem, touched, result>>

Low == -1       \* -INFINITY, below every score
Kernels == {"rmsnorm", "matvec", "softmax", "banded_attn"}
Window == kv_lo..kv_hi
Simdgroups == 0..(ntg \div SimdWidth) - 1
Lanes == 0..SimdWidth - 1
Thread(sg, lane) == sg * SimdWidth + lane
Threads == 0..ntg - 1
ThreadsOf(sg) == {Thread(sg, lane) : lane \in Lanes}

\* sepia_gpu_attn_width, sepia_gpu_reduce_width: doubled until it covers n.
Width(n) == Min({w \in {SimdWidth * 2^k : k \in 0..MaxWidth} : w >= n \/ w >= MaxWidth})

-----------------------------------------------------------------------------
(* Floats.                                                                 *)

NotANumber == SetToBag({<<"nan">>})
Uninitialised == [m |-> 99, l |-> SetToBag({<<"junk">>})]
Nothing == [m |-> Low, l |-> EmptyBag]
Term(i, base) == SetToBag({<<i, base>>})

MaxOf(a, b) == IF a < b THEN b ELSE a
SumOver(f) == FoldFunction((+), EmptyBag, f)
IsTerm(t) == Len(t) = 2

\* l * exp(from - to): exp(-INF) is 0, and -INF - (-INF) is not a number.
Rescaled(l, from, to) ==
  IF to = Low THEN NotANumber
  ELSE LET kept == {t \in BagToSet(l) : from # Low \/ ~IsTerm(t)}
           moved(t) == IF IsTerm(t) THEN <<t[1], t[2] + to - from>> ELSE t
           back(t) == IF IsTerm(t) THEN <<t[1], t[2] - to + from>> ELSE t
       IN  [t \in {moved(u) : u \in kept} |-> l[back(t)]]

\* The online-softmax merge of two partial results.
Merged(a, b) ==
  LET new_m == MaxOf(a.m, b.m)
  IN  [m |-> new_m, l |-> Rescaled(a.l, a.m, new_m) (+) Rescaled(b.l, b.m, new_m)]

-----------------------------------------------------------------------------
(* The private loops: thread t takes every ntg-th element from kv_lo + t.  *)

Share(t) == {i \in Window : i >= kv_lo + t /\ (i - kv_lo - t) % ntg = 0}

PlainSum(t) == SumOver([i \in Share(t) |-> Term(i, 0)])
ExpSum(t, max_val) == SumOver([i \in Share(t) |-> Term(i, max_val)])
LargestOf(t) == Max({Low} \cup {score[i] : i \in Share(t)})

OneKey(i) == [m |-> score[i], l |-> Term(i, score[i])]
AttnScan(t) ==
  MapThenFoldSet(Merged, Nothing, OneKey, LAMBDA s : CHOOSE x \in s : TRUE, Share(t))

-----------------------------------------------------------------------------
(* The simd-wide operations: every lane has the result.                    *)

SimdMax(sg) == Max({reg[t].m : t \in ThreadsOf(sg)})
SimdSum(sg) == SumOver([t \in ThreadsOf(sg) |-> reg[t].l])

\* Mutant: the empty simdgroup is not guarded against.
CorrUnguarded(l, m, m_sg) == Rescaled(l, m, m_sg)
Corr(l, m, m_sg) == IF m_sg = Low THEN EmptyBag ELSE Rescaled(l, m, m_sg)
SimdMerge(sg) ==
  [m |-> SimdMax(sg),
   l |-> SumOver([t \in ThreadsOf(sg) |-> Corr(reg[t].l, reg[t].m, SimdMax(sg))])]

-----------------------------------------------------------------------------
(* The kernels, statement by statement; both reductions are inlined.       *)

ReduceMax == <<"low", "barrier", "stash max", "barrier", "gather max">>
ReduceSum == <<"zero", "barrier", "stash sum", "barrier", "gather sum">>

\* Mutant: no barrier between the reductions of softmax.
StatementsUnfenced(k) ==
  IF k = "softmax" THEN <<"max">> \o ReduceMax \o <<"exp">> \o ReduceSum \o <<"write">>
  ELSE CASE k = "banded_attn" -> <<"scan", "merge", "stash", "barrier", "fold", "write">>
         [] OTHER -> <<"sum">> \o ReduceSum \o <<"write">>

Statements(k) ==
  CASE k = "rmsnorm"     -> <<"sum">> \o ReduceSum \o <<"write">>
    [] k = "matvec"      -> <<"sum">> \o ReduceSum \o <<"write">>
    [] k = "softmax"     -> <<"max">> \o ReduceMax \o <<"barrier", "exp">> \o ReduceSum \o <<"write">>
    [] k = "banded_attn" -> <<"scan", "merge", "stash", "barrier", "fold", "write">>

Program == Statements(kernel)
AtStatement(sg, s) == pc[sg] <= Len(Program) /\ Program[pc[sg]] = s
Advance(sg) == pc' = [pc EXCEPT ![sg] = @ + 1]

row == <<kernel, ntg, kv_lo, kv_hi, score>>

GroupInit ==
  /\ kernel \in Kernels
  /\ kv_lo \in (IF kernel = "banded_attn" THEN 0..1 ELSE {0})
  /\ kv_hi \in kv_lo..(kv_lo + MaxRow - 1)
  /\ ntg \in {Width(n) : n \in (IF kernel = "banded_attn" THEN kv_hi - kv_lo + 1..MaxRow
                                ELSE {kv_hi - kv_lo + 1})}
  /\ score \in {[i \in Window |-> IF i = peak THEN 1 ELSE 0] : peak \in Window}
  /\ pc = [sg \in Simdgroups |-> 1]
  /\ reg = [t \in Threads |-> Nothing]
  /\ shmem = [cell \in Lanes |-> Uninitialised]
  /\ touched = {}
  /\ result = [i \in {} |-> Nothing]

\* Statements on a thread's own registers.
Private(sg) ==
  /\ \/ AtStatement(sg, "sum") /\ reg' = [t \in Threads |->
           IF t \in ThreadsOf(sg) THEN [reg[t] EXCEPT !.l = PlainSum(t)] ELSE reg[t]]
     \/ AtStatement(sg, "max") /\ reg' = [t \in Threads |->
           IF t \in ThreadsOf(sg) THEN [reg[t] EXCEPT !.m = LargestOf(t)] ELSE reg[t]]
     \/ AtStatement(sg, "exp") /\ reg' = [t \in Threads |->
           IF t \in ThreadsOf(sg) THEN [reg[t] EXCEPT !.l = ExpSum(t, reg[t].m)] ELSE reg[t]]
     \/ AtStatement(sg, "scan") /\ reg' = [t \in Threads |->
           IF t \in ThreadsOf(sg) THEN AttnScan(t) ELSE reg[t]]
     \/ AtStatement(sg, "merge") /\ reg' = [t \in Threads |->
           IF t \in ThreadsOf(sg) THEN SimdMerge(sg) ELSE reg[t]]
  /\ Advance(sg)
  /\ UNCHANGED <<row, shmem, touched, result>>

\* if (sgitg == 0) shmem[tiisg] = 0 (or -INFINITY).
Clear(sg) ==
  /\ AtStatement(sg, "zero") \/ AtStatement(sg, "low")
  /\ IF sg = 0
     THEN /\ shmem' = [cell \in Lanes |-> Nothing]
          /\ touched' = touched \cup {<<cell, sg, "write">> : cell \in Lanes}
     ELSE UNCHANGED <<shmem, touched>>
  /\ Advance(sg)
  /\ UNCHANGED <<row, reg, result>>

\* if (tiisg == 0) shmem[sgitg] = val, the simdgroup's result.
Stash(sg) ==
  /\ \/ AtStatement(sg, "stash max") /\ shmem' = [shmem EXCEPT ![sg].m = SimdMax(sg)]
     \/ AtStatement(sg, "stash sum") /\ shmem' = [shmem EXCEPT ![sg].l = SimdSum(sg)]
     \/ AtStatement(sg, "stash") /\ shmem' = [shmem EXCEPT ![sg] = reg[Thread(sg, 0)]]
  /\ touched' = touched \cup {<<sg, sg, "write">>}
  /\ Advance(sg)
  /\ UNCHANGED <<row, reg, result>>

\* val = shmem[tiisg]; return simd_sum(val) (or simd_max).
Gather(sg) ==
  /\ \/ /\ AtStatement(sg, "gather max")
        /\ LET all == Max({shmem[cell].m : cell \in Lanes})
           IN  reg' = [t \in Threads |-> IF t \in ThreadsOf(sg) THEN [reg[t] EXCEPT !.m = all] ELSE reg[t]]
     \/ /\ AtStatement(sg, "gather sum")
        /\ LET all == SumOver([cell \in Lanes |-> shmem[cell].l])
           IN  reg' = [t \in Threads |-> IF t \in ThreadsOf(sg) THEN [reg[t] EXCEPT !.l = all] ELSE reg[t]]
  /\ touched' = touched \cup {<<cell, sg, "read">> : cell \in Lanes}
  /\ Advance(sg)
  /\ UNCHANGED <<row, shmem, result>>

\* threadgroup_barrier: nobody passes before everybody is there.
Barrier ==
  /\ \A sg \in Simdgroups : AtStatement(sg, "barrier")
  /\ pc' = [sg \in Simdgroups |-> pc[sg] + 1]
  /\ touched' = {}
  /\ UNCHANGED <<row, reg, shmem, result>>

\* if (tpitg.x == 0): thread 0 folds the simdgroups' partial results in order.
Folded == FoldFunction(LAMBDA b, a : Merged(a, b), shmem[0], [sg \in Simdgroups \ {0} |-> shmem[sg]])
Fold(sg) ==
  /\ AtStatement(sg, "fold")
  /\ IF sg = 0
     THEN /\ reg' = [reg EXCEPT ![0] = Folded]
          /\ touched' = touched \cup {<<g, sg, "read">> : g \in Simdgroups}
     ELSE UNCHANGED <<reg, touched>>
  /\ Advance(sg)
  /\ UNCHANGED <<row, shmem, result>>

\* The result: every thread its own elements, or thread 0 the one of the row.
Write(sg) ==
  /\ AtStatement(sg, "write")
  /\ LET writers == IF kernel \in {"rmsnorm", "softmax"} THEN ThreadsOf(sg)
                    ELSE ThreadsOf(sg) \cap {0}
         elements(t) == IF kernel \in {"rmsnorm", "softmax"} THEN Share(t) ELSE {kv_lo}
     IN  result' = [i \in DOMAIN result \cup UNION {elements(t) : t \in writers} |->
                   IF i \in DOMAIN result THEN result[i]
                   ELSE reg[CHOOSE t \in writers : i \in elements(t)]]
  /\ Advance(sg)
  /\ UNCHANGED <<row, reg, shmem, touched>>

Returned == \A sg \in Simdgroups : pc[sg] > Len(Program)

GroupNext ==
  \/ \E sg \in Simdgroups :
       Private(sg) \/ Clear(sg) \/ Stash(sg) \/ Gather(sg) \/ Fold(sg) \/ Write(sg)
  \/ Barrier
  \/ Returned /\ UNCHANGED groupVars

GroupSpec == GroupInit /\ [][GroupNext]_groupVars

-----------------------------------------------------------------------------
(* Properties.                                                             *)

\* Between two barriers no cell of threadgroup memory is written by one
\* simdgroup and touched by another: no result depends on their order.
NoSharedRace ==
  \A a, b \in touched : a[1] = b[1] /\ a[2] # b[2] => a[3] = "read" /\ b[3] = "read"

\* When the threadgroup is done, each element it had to write was computed
\* from every element of the row exactly once, relative to the row's maximum
\* where the kernel has one, for rows narrower and wider than the
\* threadgroup and with simdgroups that got no element at all.
RowMax == IF kernel \in {"rmsnorm", "matvec"} THEN Low ELSE Max({score[i] : i \in Window})
RowReduced ==
  Returned =>
    /\ DOMAIN result = IF kernel \in {"rmsnorm", "softmax"} THEN Window ELSE {kv_lo}
    /\ \A i \in DOMAIN result :
         result[i] = [m |-> RowMax,
                   l |-> SetToBag({<<j, MaxOf(RowMax, 0)>> : j \in Window})]
=============================================================================
