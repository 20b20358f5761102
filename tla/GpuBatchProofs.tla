--------------------------- MODULE GpuBatchProofs -----------------------------
(***************************************************************************)
(* Batched encoding keeps its promises for any set of dispatches and any   *)
(* number of command buffers: sepia_gpu_end drains the queue, and flushes  *)
(* are invisible to the stream of dispatches.                              *)
(***************************************************************************)
EXTENDS GpuBatch, SequenceTheorems, Induction

-----------------------------------------------------------------------------
(* The invariant.                                                          *)

Buffers == [ops : Seq(Ops), awaited : BOOLEAN, current : BOOLEAN]

\* The types as sets of sequences, and which buffer is waited for.
GpuIInv ==
  /\ available \in BOOLEAN /\ faulted \in BOOLEAN
  /\ batch \in Seq(Ops) \cup {NoBatch}
  /\ committed \in Seq(Buffers)
  /\ cbStatus \in {"running", "completed", "error"}
  /\ hostAt \in {"host", "ending"}
  /\ hostAt = "ending" => batch = NoBatch
  /\ batch # NoBatch => available
  /\ AwaitedLast /\ EndDrains

\* Any call, without the bound on the stream.
HostCall ==
  \/ GpuStartup \/ Begin \/ BeginFails \/ (\E op \in Ops : Dispatch(op)) \/ Flush
  \/ DispatchFails \/ EndCommit \/ EndReturn \/ NoActiveBatch \/ GpuShutdown

\* The bound only takes calls away.
LEMMA BoundedHost == [HostNext \/ GpuNext]_gpuVars => [HostCall \/ GpuNext]_gpuVars
BY DEF HostNext, HostCall

\* Nothing is encoded, committed or waited for at first.
LEMMA GpuInitInv == GpuInit => GpuIInv
<1> SUFFICES ASSUME GpuInit PROVE GpuIInv
  OBVIOUS
<1> USE DEF GpuInit
<1>1. committed \in Seq(Buffers) /\ Len(committed) = 0
  OBVIOUS
<1>2. AwaitedLast /\ EndDrains
  BY <1>1 DEF AwaitedLast, EndDrains
<1>3. QED
  BY <1>1, <1>2 DEF GpuIInv

\* Committing puts the open batch behind everything on the queue.
LEMMA CommitLemma ==
  ASSUME committed \in Seq(Buffers), batch \in Seq(Ops), NEW a \in BOOLEAN, Commit(a)
  PROVE  /\ committed' \in Seq(Buffers) /\ Len(committed') = Len(committed) + 1
         /\ Len(committed) \in Nat
         /\ \A i \in 1..Len(committed) : committed'[i] = committed[i]
         /\ committed'[Len(committed) + 1].ops = batch
         /\ committed'[Len(committed) + 1].awaited = a
<1> DEFINE last == [ops |-> batch, awaited |-> a, current |-> TRUE]
<1>1. last \in Buffers /\ last.ops = batch /\ last.awaited = a
  BY DEF Buffers
<1>2. committed' = Append(committed, last)
  BY DEF Commit
<1> HIDE DEF last
<1>3. /\ committed' \in Seq(Buffers) /\ Len(committed') = Len(committed) + 1
      /\ Len(committed) \in Nat
      /\ \A i \in 1..Len(committed) : committed'[i] = committed[i]
      /\ committed'[Len(committed) + 1] = last
  BY <1>1, <1>2, AppendProperties, LenProperties
<1>4. QED
  BY <1>1, <1>3

\* Retiring the oldest buffer leaves the others, one place further ahead.
LEMMA RetireLemma ==
  ASSUME committed \in Seq(Buffers), committed # <<>>, committed' = Tail(committed)
  PROVE  /\ committed' \in Seq(Buffers) /\ Len(committed') = Len(committed) - 1
         /\ Len(committed) \in Nat \ {0}
         /\ \A i \in 1..Len(committed) - 1 : committed'[i] = committed[i + 1]
BY HeadTailProperties, LenProperties, EmptySeq

\* Every call of the host and every step of the GPU keeps the invariant.
LEMMA GpuNextPreserved == GpuIInv /\ [HostCall \/ GpuNext]_gpuVars => GpuIInv'
<1> SUFFICES ASSUME GpuIInv, [HostCall \/ GpuNext]_gpuVars PROVE GpuIInv'
  OBVIOUS
<1> USE DEF GpuIInv
<1>1. /\ Len(committed) \in Nat
      /\ \A i \in 1..Len(committed) : committed[i] \in Buffers
  BY LenProperties, ElementOfSeq
<1>2. CASE /\ Host /\ UNCHANGED <<committed, cbStatus, hostAt>> /\ gpuRet' # "end"
           /\ available' \in BOOLEAN /\ faulted' \in BOOLEAN
           /\ batch' \in Seq(Ops) \cup {NoBatch} /\ (batch' # NoBatch => available')
  BY <1>2 DEF Host, AwaitedLast, EndDrains
<1>3. CASE GpuStartup
  BY <1>2, <1>3 DEF GpuStartup
<1>4. CASE Begin
  <2>1. /\ Host /\ available /\ batch' = <<>> /\ faulted' = FALSE /\ gpuRet' = "begin"
        /\ UNCHANGED <<available, cbStatus, hostAt>>
        /\ committed' = [i \in 1..Len(committed) |-> [committed[i] EXCEPT !.current = FALSE]]
    BY <1>4 DEF Begin
  <2>2. \A i \in 1..Len(committed) : /\ [committed[i] EXCEPT !.current = FALSE] \in Buffers
                                     /\ [committed[i] EXCEPT !.current = FALSE].awaited = committed[i].awaited
    BY <1>1 DEF Buffers
  <2>3. /\ committed' \in Seq(Buffers) /\ Len(committed') = Len(committed)
        /\ \A i \in 1..Len(committed) : committed'[i].awaited = committed[i].awaited
    <3>1. committed' \in [1..Len(committed) -> Buffers]
      BY <2>1, <2>2
    <3>2. \A i \in 1..Len(committed) : committed'[i].awaited = committed[i].awaited
      BY <2>1, <2>2
    <3>3. QED
      BY <1>1, <3>1, <3>2
  <2>4. AwaitedLast'
    <3>1. hostAt = "host" /\ hostAt' = "host" /\ gpuRet' # "end"
      BY <2>1 DEF Host
    <3>2. \A i \in 1..Len(committed) : ~committed[i].awaited
      BY <3>1 DEF AwaitedLast
    <3>3. QED
      BY <2>3, <3>1, <3>2 DEF AwaitedLast
  <2>5. EndDrains' /\ hostAt' = "host" /\ <<>> \in Seq(Ops)
    BY <2>1 DEF Host, EndDrains
  <2>6. QED
    BY <2>1, <2>3, <2>4, <2>5
<1>5. CASE BeginFails
  BY <1>2, <1>5 DEF BeginFails
<1>6. ASSUME NEW op \in Ops, Dispatch(op) PROVE GpuIInv'
  <2>1. batch' \in Seq(Ops)
    BY <1>6, AppendProperties DEF Dispatch
  <2>2. QED
    BY <1>2, <1>6, <2>1 DEF Dispatch
<1>7. CASE DispatchFails
  BY <1>2, <1>7 DEF DispatchFails
<1>8. CASE Flush
  <2>1. /\ Host /\ batch \in Seq(Ops) /\ Commit(FALSE)
        /\ batch' \in {<<>>, NoBatch} /\ gpuRet' # "end"
        /\ UNCHANGED <<available, cbStatus, hostAt, faulted>>
    BY <1>8 DEF Flush
  <2>2. /\ committed' \in Seq(Buffers) /\ Len(committed') = Len(committed) + 1
        /\ \A i \in 1..Len(committed) : committed'[i] = committed[i]
        /\ committed'[Len(committed) + 1].awaited = FALSE
    <3>1. FALSE \in BOOLEAN
      OBVIOUS
    <3>2. QED
      BY <2>1, <3>1, CommitLemma
  <2>3. AwaitedLast'
    BY <1>1, <2>1, <2>2 DEF AwaitedLast, Host
  <2>4. EndDrains' /\ hostAt' = "host" /\ <<>> \in Seq(Ops)
    BY <2>1 DEF Host, EndDrains
  <2>5. available'
    <3>1. batch # NoBatch /\ available' = available
      BY <1>8 DEF Flush
    <3>2. QED
      BY <3>1, Zenon
  <2>6. QED
    BY <2>1, <2>2, <2>3, <2>4, <2>5
<1>9. CASE EndCommit
  <2>1. /\ Host /\ batch \in Seq(Ops) /\ Commit(TRUE) /\ batch' = NoBatch
        /\ cbStatus' = "running" /\ hostAt' = "ending" /\ gpuRet' = "none"
        /\ UNCHANGED <<available, faulted>>
    BY <1>9 DEF EndCommit, CloseBatch
  <2>2. /\ committed' \in Seq(Buffers) /\ Len(committed') = Len(committed) + 1
        /\ \A i \in 1..Len(committed) : committed'[i] = committed[i]
        /\ committed'[Len(committed) + 1].awaited = TRUE
    <3>1. TRUE \in BOOLEAN
      OBVIOUS
    <3>2. QED
      BY <2>1, <3>1, CommitLemma
  <2>3. AwaitedLast'
    <3>1. committed' # <<>>
      BY <1>1, <2>2
    <3>2. \A i \in 1..Len(committed) : ~committed[i].awaited
      BY <2>1 DEF AwaitedLast, Host
    <3>3. \A i \in 1..Len(committed') : committed'[i].awaited <=> i = Len(committed')
      BY <1>1, <2>2, <3>2
    <3>4. QED
      BY <2>1, <3>1, <3>3 DEF AwaitedLast
  <2>4. QED
    BY <2>1, <2>2, <2>3 DEF EndDrains
<1>10. CASE EndReturn
  <2>1. /\ hostAt = "ending" /\ cbStatus # "running" /\ hostAt' = "host"
        /\ UNCHANGED <<available, batch, committed, cbStatus, faulted>>
    BY <1>10 DEF EndReturn
  <2>2. committed = <<>>
    BY <2>1 DEF AwaitedLast
  <2>3. QED
    BY <2>1, <2>2 DEF AwaitedLast, EndDrains
<1>11. CASE NoActiveBatch
  BY <1>2, <1>11 DEF NoActiveBatch
<1>12. CASE GpuShutdown
  BY <1>2, <1>12 DEF GpuShutdown
<1>13. CASE GpuRun
  <2>1. /\ committed # <<>> /\ committed[1].ops # <<>>
        /\ committed' = [committed EXCEPT ![1].ops = Tail(@)]
        /\ UNCHANGED <<available, batch, cbStatus, hostAt, gpuRet, faulted>>
    BY <1>13 DEF GpuRun
  <2>2. 1 \in 1..Len(committed) /\ committed[1] \in Buffers
    BY <1>1, <2>1
  <2>3. Tail(committed[1].ops) \in Seq(Ops)
    BY <2>1, <2>2, HeadTailProperties DEF Buffers
  <2>4. [committed[1] EXCEPT !.ops = Tail(@)] \in Buffers
    BY <2>2, <2>3 DEF Buffers
  <2>5. /\ committed' \in Seq(Buffers) /\ Len(committed') = Len(committed)
        /\ \A i \in 1..Len(committed) : committed'[i] =
             IF i = 1 THEN [committed[1] EXCEPT !.ops = Tail(@)] ELSE committed[i]
    BY <2>1, <2>2, <2>4, ExceptSeq
  <2>6. [committed[1] EXCEPT !.ops = Tail(@)].awaited = committed[1].awaited
    BY <2>2 DEF Buffers
  <2>7. \A i \in 1..Len(committed) : committed'[i].awaited = committed[i].awaited
    BY <2>5, <2>6
  <2>8. committed' # <<>>
    BY <2>2, <2>5
  <2>9. QED
    BY <2>1, <2>5, <2>7, <2>8 DEF AwaitedLast, EndDrains
<1>14. ASSUME NEW st \in {"completed", "error"}, Retire(st), committed # <<>>, faulted' \in BOOLEAN
       PROVE  GpuIInv'
  <2>1. /\ committed' = Tail(committed)
        /\ cbStatus' = IF committed[1].awaited THEN st ELSE cbStatus
        /\ UNCHANGED <<available, batch, hostAt, gpuRet>>
    BY <1>14 DEF Retire
  <2>2. /\ committed' \in Seq(Buffers) /\ Len(committed') = Len(committed) - 1
        /\ Len(committed) \in Nat \ {0}
        /\ \A i \in 1..Len(committed) - 1 : committed'[i] = committed[i + 1]
    BY <1>14, <2>1, RetireLemma
  <2>3. gpuRet # "end"
    BY <1>14 DEF EndDrains
  <2>4. CASE committed[1].awaited
    <3>1. hostAt = "ending" /\ cbStatus = "running" /\ 1 = Len(committed)
      BY <2>2, <2>4 DEF AwaitedLast
    <3>2. committed' = <<>> /\ cbStatus' = st
      BY <2>1, <2>2, <2>4, <3>1, EmptySeq
    <3>3. Len(committed') = 0 /\ cbStatus' # "running" /\ hostAt' = "ending" /\ gpuRet' = gpuRet
      BY <1>14, <2>1, <3>1, <3>2
    <3>4. AwaitedLast' /\ EndDrains'
      BY <2>3, <3>2, <3>3 DEF AwaitedLast, EndDrains
    <3>5. QED
      BY <1>14, <2>1, <2>2, <3>2, <3>4
  <2>5. CASE ~committed[1].awaited
    <3>1. cbStatus' = cbStatus
      BY <2>1, <2>5
    <3>2. hostAt = "ending" => cbStatus = "running" /\ Len(committed) # 1
      BY <1>14, <2>2, <2>5 DEF AwaitedLast
    <3>3. hostAt = "ending" => committed' # <<>>
      BY <2>2, <3>2
    <3>4. \A i \in 1..Len(committed') : committed'[i].awaited
            <=> hostAt = "ending" /\ cbStatus = "running" /\ i = Len(committed')
      <4> TAKE i \in 1..Len(committed')
      <4>1. i + 1 \in 1..Len(committed) /\ committed'[i] = committed[i + 1]
        BY <2>2
      <4>2. QED
        BY <2>2, <4>1 DEF AwaitedLast
    <3>5. AwaitedLast' /\ EndDrains'
      BY <2>1, <2>3, <3>1, <3>2, <3>3, <3>4 DEF AwaitedLast, EndDrains
    <3>6. QED
      BY <1>14, <2>1, <2>2, <3>1, <3>5
  <2>6. QED
    BY <2>4, <2>5
<1>15. CASE GpuComplete
  BY <1>14, <1>15 DEF GpuComplete
<1>16. CASE GpuFault
  <2>1. faulted' \in BOOLEAN
    <3>1. committed # <<>> /\ committed[1] \in Buffers
      BY <1>1, <1>16 DEF GpuFault
    <3>2. QED
      BY <1>16, <3>1 DEF GpuFault, Buffers
  <2>2. QED
    BY <1>14, <1>16, <2>1 DEF GpuFault
<1>17. CASE UNCHANGED gpuVars
  BY <1>17 DEF gpuVars, AwaitedLast, EndDrains
<1>18. QED
  BY <1>3, <1>4, <1>5, <1>6, <1>7, <1>8, <1>9, <1>10, <1>11, <1>12, <1>13, <1>15, <1>16, <1>17
     DEF HostCall, GpuNext

\* Batched encoding keeps its invariant for any set of dispatches and any number
\* of command buffers in flight.
THEOREM GpuInvariant == GpuSpec => []GpuIInv
BY GpuInitInv, GpuNextPreserved, BoundedHost, PTL DEF GpuSpec

\* The invariant in the words of the module.
LEMMA GpuIInvBatch == GpuIInv => BatchInv
<1> SUFFICES ASSUME GpuIInv PROVE GpuTypeOK
  BY DEF GpuIInv, BatchInv
<1>1. \A i \in 1..Len(committed) : /\ DOMAIN committed[i] = {"ops", "awaited", "current"}
                                   /\ committed[i].ops \in Seq(Ops)
  <2> TAKE i \in 1..Len(committed)
  <2>1. committed[i] \in Buffers
    BY ElementOfSeq DEF GpuIInv
  <2>2. QED
    BY <2>1 DEF Buffers
<1>2. \A s \in Seq(Ops) : \A k \in 1..Len(s) : s[k] \in Ops
  BY ElementOfSeq
<1>3. QED
  BY <1>1, <1>2 DEF GpuIInv, GpuTypeOK

\* sepia_gpu_end reports success only with an empty queue, since the buffer it
\* waits for is the last one committed.
THEOREM GpuDrains == GpuSpec => []BatchInv
BY GpuIInvBatch, GpuInvariant, PTL

-----------------------------------------------------------------------------
(* The stream of dispatches that are encoded and not executed yet.         *)

QueueTyped == committed \in Seq(Buffers)

\* Flat is defined by its recursion.
FlatDefined ==
  /\ Flat[0] = <<>>
  /\ \A i \in 1..Len(committed) : Flat[i] = Flat[i - 1] \o committed[i].ops
  /\ \A i \in 0..Len(committed) : Flat[i] \in Seq(Ops)

\* A buffer holds a sequence of dispatches.
LEMMA OpsTyped ==
  ASSUME committed \in Seq(Buffers), NEW i \in 1..Len(committed)
  PROVE  committed[i].ops \in Seq(Ops)
<1>1. committed[i] \in Buffers
  BY ElementOfSeq
<1>2. QED
  BY <1>1 DEF Buffers

\* Concatenation is associative on sequences of dispatches.
LEMMA OpsAssociative ==
  ASSUME NEW s \in Seq(Ops), NEW t \in Seq(Ops), NEW u \in Seq(Ops)
  PROVE  (s \o t) \o u = s \o (t \o u) /\ s \o t \in Seq(Ops)
BY ConcatAssociative, ConcatProperties

\* The pieces c[1], c[2], ... have a function of their running concatenations, by
\* induction on the number of pieces.
LEMMA ConcatsExist ==
  ASSUME NEW N \in Nat, NEW c, \A i \in 1..N : c[i].ops \in Seq(Ops)
  PROVE  \E f : f = [i \in 0..N |-> IF i = 0 THEN <<>> ELSE f[i - 1] \o c[i].ops]
<1> DEFINE Solves(f, n) == f[0] = <<>> /\ \A i \in 1..n : f[i] = f[i - 1] \o c[i].ops
           T == {n \in 0..N : \E f \in [0..n -> Seq(Ops)] : Solves(f, n)}
<1>1. 0 \in T
  <2>1. [i \in 0..0 |-> <<>>] \in [0..0 -> Seq(Ops)] /\ Solves([i \in 0..0 |-> <<>>], 0)
    OBVIOUS
  <2> HIDE DEF Solves
  <2>2. QED
    BY <2>1
<1>2. ASSUME NEW n \in 0..N - 1, n \in T PROVE n + 1 \in T
  <2>1. PICK f \in [0..n -> Seq(Ops)] : Solves(f, n)
    BY <1>2
  <2>2. n + 1 \in 1..N /\ n + 1 \in 0..N /\ n \in 0..n /\ n \in Nat /\ 0 \in 0..n
    OBVIOUS
  <2>3. f[n] \o c[n + 1].ops \in Seq(Ops)
    BY <2>2, OpsAssociative
  <2> DEFINE x == f[n] \o c[n + 1].ops
             g == [i \in 0..n + 1 |-> IF i <= n THEN f[i] ELSE x]
  <2> HIDE DEF x
  <2>4. x \in Seq(Ops)
    BY <2>3 DEF x
  <2>5. g \in [0..n + 1 -> Seq(Ops)]
    BY <2>2, <2>4
  <2>6. g[0] = <<>>
    BY <2>1, <2>2
  <2>7. \A i \in 1..n : g[i] = f[i] /\ g[i - 1] = f[i - 1]
    BY <2>2
  <2>8. g[n + 1] = x /\ g[(n + 1) - 1] = f[n]
    BY <2>2
  <2> HIDE DEF g
  <2>9. \A i \in 1..n + 1 : g[i] = g[i - 1] \o c[i].ops
    <3> TAKE i \in 1..n + 1
    <3>1. CASE i = n + 1
      BY <2>8, <3>1 DEF x
    <3>2. CASE i \in 1..n
      BY <2>1, <2>7, <3>2
    <3>3. i = n + 1 \/ i \in 1..n
      BY <2>2
    <3>4. QED
      BY <3>1, <3>2, <3>3, Zenon
  <2>10. Solves(g, n + 1)
    BY <2>6, <2>9
  <2> HIDE DEF Solves
  <2>11. QED
    BY <2>2, <2>5, <2>10
<1>3. N \in T
  <2> HIDE DEF T
  <2>1. 0..N \subseteq T
    BY <1>1, <1>2, IntervalInduction
  <2>2. QED
    BY <2>1
<1>4. PICK f \in [0..N -> Seq(Ops)] : Solves(f, N)
  BY <1>3
<1> DEFINE h == [i \in 0..N |-> IF i = 0 THEN <<>> ELSE f[i - 1] \o c[i].ops]
<1>5. \A i \in 0..N : f[i] = h[i]
  <2> TAKE i \in 0..N
  <2>1. CASE i = 0
    BY <1>4, <2>1
  <2>2. CASE i \in 1..N
    <3>1. i # 0
      BY <2>2
    <3>2. h[i] = f[i - 1] \o c[i].ops
      BY <3>1, Zenon
    <3> HIDE DEF h
    <3>3. QED
      BY <1>4, <2>2, <3>2
  <2> HIDE DEF h, Solves
  <2>3. QED
    BY <2>1, <2>2
<1>6. f = h
  <2>1. f = [i \in 0..N |-> f[i]] /\ h = [i \in 0..N |-> h[i]]
    OBVIOUS
  <2> HIDE DEF h
  <2>2. QED
    BY <1>5, <2>1
<1>7. QED
  BY <1>6

\* What such a function is at each place, and that its values are sequences over
\* any set the pieces are over, by induction again.
LEMMA ConcatsTyped ==
  ASSUME NEW N \in Nat, NEW A, NEW c, \A i \in 1..N : c[i].ops \in Seq(A), NEW f,
         f = [i \in 0..N |-> IF i = 0 THEN <<>> ELSE f[i - 1] \o c[i].ops]
  PROVE  /\ f[0] = <<>>
         /\ \A i \in 1..N : f[i] = f[i - 1] \o c[i].ops
         /\ \A i \in 0..N : f[i] \in Seq(A)
<1> DEFINE T == {i \in 0..N : f[i] \in Seq(A)}
<1>1. \A i \in 0..N : f[i] = IF i = 0 THEN <<>> ELSE f[i - 1] \o c[i].ops
  OBVIOUS
<1>2. f[0] = <<>> /\ \A i \in 1..N : f[i] = f[i - 1] \o c[i].ops
  BY <1>1
<1>3. 0 \in T
  BY <1>2
<1>4. ASSUME NEW n \in 0..N - 1, n \in T PROVE n + 1 \in T
  <2>1. n + 1 \in 1..N /\ n + 1 \in 0..N /\ (n + 1) - 1 = n
    OBVIOUS
  <2>2. f[n] \in Seq(A) /\ c[n + 1].ops \in Seq(A)
    BY <1>4, <2>1
  <2>3. f[n + 1] = f[n] \o c[n + 1].ops
    BY <1>2, <2>1
  <2>4. f[n + 1] \in Seq(A)
    BY <2>2, <2>3, ConcatProperties
  <2>5. QED
    BY <2>1, <2>4
<1>5. 0..N \subseteq T
  <2> HIDE DEF T
  <2>1. QED
    BY <1>3, <1>4, IntervalInduction
<1>6. QED
  BY <1>2, <1>5

\* The equation Flat is defined by.
FlatSolves ==
  Flat = [i \in 0..Len(committed) |-> IF i = 0 THEN <<>> ELSE Flat[i - 1] \o committed[i].ops]

\* So Flat solves its equation ...
LEMMA FlatEquation == QueueTyped => FlatSolves
<1> SUFFICES ASSUME committed \in Seq(Buffers) PROVE FlatSolves
  BY DEF QueueTyped
<1>1. Len(committed) \in Nat /\ \A i \in 1..Len(committed) : committed[i].ops \in Seq(Ops)
  BY LenProperties, OpsTyped
<1>2. \E f : f = [i \in 0..Len(committed) |-> IF i = 0 THEN <<>> ELSE f[i - 1] \o committed[i].ops]
  BY <1>1, ConcatsExist
<1>3. Flat = [i \in 0..Len(committed) |-> IF i = 0 THEN <<>> ELSE Flat[i - 1] \o committed[i].ops]
  BY <1>2, Zenon DEF Flat
<1>4. QED
  BY <1>3 DEF FlatSolves

\* ... and is what its definition says at every place.
LEMMA FlatIsDefined == QueueTyped => FlatDefined
<1> SUFFICES ASSUME committed \in Seq(Buffers) PROVE FlatDefined
  BY DEF QueueTyped
<1>1. Len(committed) \in Nat /\ \A i \in 1..Len(committed) : committed[i].ops \in Seq(Ops)
  BY LenProperties, OpsTyped
<1>2. QED
  BY <1>1, FlatEquation, ConcatsTyped DEF QueueTyped, FlatSolves, FlatDefined

\* Two running concatenations: f is ahead of g by k pieces and by the prefix x at
\* place a, and they take the same pieces y from there on.
Ahead(f, g, y, x, a, k, n) ==
  /\ a \in Nat /\ k \in Nat /\ n \in Nat /\ a <= n /\ x \in Seq(Ops)
  /\ \A i \in a..n : g[i] \in Seq(Ops)
  /\ f[a + k] = x \o g[a]
  /\ \A i \in a..n - 1 :
       y[i] \in Seq(Ops) /\ f[i + k + 1] = f[i + k] \o y[i] /\ g[i + 1] = g[i] \o y[i]

\* Then f stays ahead by the same prefix.
LEMMA SamePieces ==
  ASSUME NEW f, NEW g, NEW y, NEW x, NEW a, NEW k, NEW n, Ahead(f, g, y, x, a, k, n)
  PROVE  f[n + k] = x \o g[n]
<1> USE DEF Ahead
<1> DEFINE T == {i \in a..n : f[i + k] = x \o g[i]}
<1>1. a \in T
  OBVIOUS
<1>2. ASSUME NEW i \in a..n - 1, i \in T PROVE i + 1 \in T
  <2>1. y[i] \in Seq(Ops) /\ f[i + k + 1] = f[i + k] \o y[i] /\ g[i + 1] = g[i] \o y[i]
    OBVIOUS
  <2>2. f[i + k] = x \o g[i] /\ g[i] \in Seq(Ops)
    BY <1>2
  <2>3. (x \o g[i]) \o y[i] = x \o (g[i] \o y[i])
    BY <2>1, <2>2, OpsAssociative
  <2>4. f[i + k + 1] = x \o g[i + 1]
    BY <2>1, <2>2, <2>3
  <2>5. (i + 1) + k = i + k + 1 /\ i + 1 \in a..n
    OBVIOUS
  <2>6. QED
    BY <2>4, <2>5
<1>3. a..n \subseteq T
  <2> HIDE DEF T
  <2>1. QED
    BY <1>1, <1>2, IntervalInduction
<1>4. QED
  BY <1>3


\* The two parts of the stream.
StreamParts ==
  /\ FlatDefined /\ Len(committed) \in Nat
  /\ Handed = Flat[Len(committed)] /\ Handed \in Seq(Ops)
  /\ Open \in Seq(Ops)
  /\ Pending = Handed \o Open

\* The invariant types the parts of the stream.
LEMMA StreamPartsHold == GpuIInv => StreamParts
<1> SUFFICES ASSUME GpuIInv PROVE StreamParts
  OBVIOUS
<1>1. Len(committed) \in Nat
  BY LenProperties DEF GpuIInv
<1>2. FlatDefined
  BY FlatIsDefined DEF QueueTyped, GpuIInv
<1>3. Open \in Seq(Ops)
  BY DEF Open, GpuIInv
<1>4. Handed = Flat[Len(committed)] /\ Handed \in Seq(Ops)
  BY <1>1, <1>2 DEF FlatDefined, Handed
<1>5. Pending = Handed \o Open
  BY DEF Pending
<1>6. QED
  BY <1>1, <1>2, <1>3, <1>4, <1>5 DEF StreamParts

\* The queue holds the same dispatches as long as its first n buffers do.
LEMMA SameFlat ==
  ASSUME FlatDefined, FlatDefined', NEW n \in Nat, n <= Len(committed), n <= Len(committed)',
         committed \in Seq(Buffers),
         \A i \in 1..n : committed'[i].ops = committed[i].ops
  PROVE  Flat'[n] = Flat[n]
<1> DEFINE f == Flat'
           g == Flat
           y == [i \in 0..n - 1 |-> committed[i + 1].ops]
<1>0. Len(committed) \in Nat /\ <<>> \in Seq(Ops)
  BY LenProperties
<1>1. \A i \in 0..n : g[i] \in Seq(Ops)
  BY <1>0 DEF FlatDefined
<1>2. f[0] = <<>> /\ g[0] = <<>>
  BY DEF FlatDefined
<1>3. ASSUME NEW i \in 0..n - 1
      PROVE  /\ y[i] \in Seq(Ops)
             /\ f[i + 0 + 1] = f[i + 0] \o y[i] /\ g[i + 1] = g[i] \o y[i]
  <2>1. i + 1 \in 1..n /\ i + 0 + 1 = i + 1 /\ i + 0 = i /\ (i + 1) - 1 = i
    OBVIOUS
  <2>2. i + 1 \in 1..Len(committed) /\ i + 1 \in 1..Len(committed)'
    BY <1>0, <2>1
  <2>3. committed[i + 1].ops \in Seq(Ops)
    BY <2>2, OpsTyped
  <2>4. g[i + 1] = g[i] \o committed[i + 1].ops
    BY <2>1, <2>2 DEF FlatDefined
  <2>5. f[i + 1] = f[i] \o committed'[i + 1].ops
    BY <2>1, <2>2 DEF FlatDefined
  <2>6. committed'[i + 1].ops = committed[i + 1].ops
    BY <2>1
  <2> HIDE DEF f, g
  <2>7. QED
    BY <2>1, <2>3, <2>4, <2>5, <2>6
<1> HIDE DEF f, g
<1>4. f[0 + 0] = <<>> \o g[0]
  BY <1>2
<1>5. f[n + 0] = <<>> \o g[n]
  <2> DEFINE z == 0
             e == <<>>
  <2>1. z \in Nat /\ z <= n /\ e \in Seq(Ops)
    BY <1>0
  <2>2. \A i \in z..n : g[i] \in Seq(Ops)
    BY <1>1
  <2>3. f[z + z] = e \o g[z]
    BY <1>4
  <2>4. \A i \in z..n - 1 :
          /\ y[i] \in Seq(Ops)
          /\ f[i + z + 1] = f[i + z] \o y[i] /\ g[i + 1] = g[i] \o y[i]
    BY <1>3
  <2> HIDE DEF z, e, y
  <2>5. Ahead(f, g, y, e, z, z, n)
    BY <2>1, <2>2, <2>3, <2>4 DEF Ahead
  <2>6. f[n + z] = e \o g[n]
    BY <2>5, SamePieces
  <2>7. QED
    BY <2>6 DEF z, e
<1>6. f[n] = g[n]
  <2>1. n \in 0..n /\ n + 0 = n
    OBVIOUS
  <2>2. g[n] \in Seq(Ops)
    BY <1>1, <2>1
  <2>3. QED
    BY <1>5, <2>1, <2>2, ConcatEmptySeq
<1>7. QED
  BY <1>6 DEF f, g

\* The part handed over depends on the queue alone.
LEMMA SameHanded == UNCHANGED committed => Handed' = Handed
BY DEF Handed, Flat

\* A dispatch goes to the end of the stream.
LEMMA DispatchEncodes ==
  ASSUME GpuIInv, NEW op \in Ops, Dispatch(op)
  PROVE  Stream!Encode(op)
<1>1. /\ batch # NoBatch /\ batch' = Append(batch, op)
      /\ committed' = committed /\ available' = available
  BY DEF Dispatch
<1>2. available /\ batch \in Seq(Ops) /\ Append(batch, op) # NoBatch
  BY <1>1, AppendProperties, GpuAssumption DEF GpuIInv
<1>3. Open = batch /\ Open' = Append(batch, op)
  BY <1>1, <1>2 DEF Open
<1>4. QED
  BY <1>1, <1>2, <1>3, SameHanded DEF Stream!Encode

\* A commit hands the open batch over, all of it.
LEMMA CommitHandsOver ==
  ASSUME GpuIInv, GpuIInv', batch # NoBatch, NEW a \in BOOLEAN, Commit(a),
         batch' \in {<<>>, NoBatch}, available' = available
  PROVE  Stream!HandOver
<1>1. committed \in Seq(Buffers) /\ batch \in Seq(Ops)
  BY DEF GpuIInv
<1>2. /\ Len(committed') = Len(committed) + 1
      /\ \A i \in 1..Len(committed) : committed'[i] = committed[i]
      /\ committed'[Len(committed) + 1].ops = batch
  BY <1>1, CommitLemma
<1>3. StreamParts /\ StreamParts'
  BY StreamPartsHold, PTL
<1>4. Flat'[Len(committed)] = Flat[Len(committed)]
  <2>1. FlatDefined /\ FlatDefined' /\ Len(committed) \in Nat
    BY <1>3 DEF StreamParts
  <2>2. Len(committed) <= Len(committed) /\ Len(committed) <= Len(committed)'
    BY <1>2, <2>1
  <2>3. QED
    BY <1>1, <1>2, <2>1, <2>2, SameFlat
<1>5. Flat'[Len(committed')] = Flat[Len(committed)] \o batch
  <2>1. Len(committed) + 1 \in 1..Len(committed') /\ (Len(committed) + 1) - 1 = Len(committed)
    BY <1>2, <1>3 DEF StreamParts
  <2>2. Flat'[Len(committed) + 1] = Flat'[(Len(committed) + 1) - 1] \o committed'[Len(committed) + 1].ops
    BY <1>3, <2>1 DEF StreamParts, FlatDefined
  <2>3. QED
    BY <1>2, <1>4, <2>1, <2>2
<1>6. Open' = <<>> /\ Open = batch
  BY DEF Open
<1>7. QED
  BY <1>3, <1>5, <1>6 DEF StreamParts, Stream!HandOver

\* Opening a batch adds nothing to the stream.
LEMMA BeginIsInvisible ==
  ASSUME GpuIInv, GpuIInv', Begin
  PROVE  UNCHANGED <<available, Handed, Open>>
<1>1. StreamParts /\ StreamParts'
  BY StreamPartsHold, PTL
<1>2. committed' = [i \in 1..Len(committed) |-> [committed[i] EXCEPT !.current = FALSE]]
  BY DEF Begin
<1>3. Len(committed') = Len(committed)
  <2>1. committed' \in Seq(Buffers) /\ committed \in Seq(Buffers)
    BY DEF GpuIInv
  <2>2. DOMAIN committed' = 1..Len(committed)
    BY <1>2
  <2>3. DOMAIN committed' = 1..Len(committed')
    BY <2>1, LenProperties
  <2>4. Len(committed) \in Nat /\ Len(committed') \in Nat
    BY <2>1, LenProperties
  <2>5. QED
    BY <2>2, <2>3, <2>4
<1>4. \A i \in 1..Len(committed) : committed'[i].ops = committed[i].ops
  <2> TAKE i \in 1..Len(committed)
  <2>1. committed[i] \in Buffers
    BY ElementOfSeq DEF GpuIInv
  <2>2. [committed[i] EXCEPT !.current = FALSE].ops = committed[i].ops
    BY <2>1 DEF Buffers
  <2>3. QED
    BY <1>2, <2>2
<1>5. Flat'[Len(committed)] = Flat[Len(committed)]
  <2>1. FlatDefined /\ FlatDefined' /\ Len(committed) \in Nat /\ committed \in Seq(Buffers)
    BY <1>1 DEF StreamParts, GpuIInv
  <2>2. Len(committed) <= Len(committed) /\ Len(committed) <= Len(committed)'
    BY <1>3, <2>1
  <2>3. QED
    BY <1>4, <2>1, <2>2, SameFlat
<1>6. Open' = <<>> /\ Open = <<>> /\ available' = available
  BY DEF Begin, Open
<1>7. QED
  BY <1>1, <1>3, <1>5, <1>6 DEF StreamParts

\* The oldest buffer's dispatches are the front of what was handed over: retiring
\* it takes them off.
LEMMA RetireTakesFront ==
  ASSUME GpuIInv, GpuIInv', committed # <<>>, NEW st, Retire(st)
  PROVE  /\ committed[1].ops \in Seq(Ops) /\ Handed' \in Seq(Ops)
         /\ Handed = committed[1].ops \o Handed'
         /\ UNCHANGED <<available, Open>>
<1>1. StreamParts /\ StreamParts'
  BY StreamPartsHold, PTL
<1>2. committed \in Seq(Buffers) /\ committed' = Tail(committed) /\ batch' = batch
  BY DEF GpuIInv, Retire
<1>3. /\ Len(committed') = Len(committed) - 1 /\ Len(committed) \in Nat \ {0}
      /\ \A i \in 1..Len(committed) - 1 : committed'[i] = committed[i + 1]
  BY <1>2, RetireLemma
<1> DEFINE f == Flat
           g == Flat'
           x == committed[1].ops
           n == Len(committed')
           y == [i \in 0..n - 1 |-> committed[i + 2].ops]
           z == 0
           k == 1
<1>4. n \in Nat /\ n + 1 = Len(committed)
  BY <1>3
<1>5. x \in Seq(Ops)
  BY <1>2, <1>3, OpsTyped
<1>6. /\ g[0] = <<>> /\ f[0] = <<>> /\ f[1] = f[0] \o x
      /\ \A i \in 0..n : g[i] \in Seq(Ops)
      /\ \A i \in 1..n : g[i] = g[i - 1] \o committed'[i].ops
      /\ \A i \in 1..n + 1 : f[i] = f[i - 1] \o committed[i].ops
  <2>1. 1 \in 1..Len(committed) /\ 1 - 1 = 0
    BY <1>3
  <2>2. /\ Flat[0] = <<>>
        /\ \A i \in 1..Len(committed) : Flat[i] = Flat[i - 1] \o committed[i].ops
    BY <1>1 DEF StreamParts, FlatDefined
  <2>3. /\ Flat'[0] = <<>>
        /\ \A i \in 1..Len(committed') : Flat'[i] = Flat'[i - 1] \o committed'[i].ops
        /\ \A i \in 0..Len(committed') : Flat'[i] \in Seq(Ops)
    BY <1>1 DEF StreamParts, FlatDefined
  <2>4. f[1] = f[0] \o x
    BY <2>1, <2>2
  <2>5. QED
    BY <1>4, <2>2, <2>3, <2>4
<1> HIDE DEF f, g, x, n
<1>7. f[z + k] = x \o g[z]
  <2>1. f[1] = x /\ x \o <<>> = x
    BY <1>5, <1>6, ConcatEmptySeq
  <2>2. QED
    BY <1>6, <2>1
<1>8. ASSUME NEW i \in z..n - 1
      PROVE  /\ y[i] \in Seq(Ops)
             /\ f[i + k + 1] = f[i + k] \o y[i] /\ g[i + 1] = g[i] \o y[i]
  <2>1. i + 1 \in 1..n /\ i + 2 \in 1..n + 1 /\ (i + 1) - 1 = i /\ (i + 2) - 1 = i + 1
    BY <1>4
  <2>2. g[i + 1] = g[i] \o committed'[i + 1].ops /\ f[i + 2] = f[i + 1] \o committed[i + 2].ops
    BY <1>6, <2>1
  <2>3. committed'[i + 1] = committed[i + 2]
    <3>1. i + 1 \in 1..Len(committed) - 1 /\ (i + 1) + 1 = i + 2
      BY <1>4, <2>1
    <3>2. QED
      BY <1>3, <3>1
  <2>4. committed[i + 2].ops \in Seq(Ops)
    BY <1>2, <1>4, <2>1, OpsTyped
  <2>5. i + k + 1 = i + 2 /\ i + k = i + 1
    OBVIOUS
  <2>6. QED
    BY <2>2, <2>3, <2>4, <2>5
<1>9. f[n + k] = x \o g[n]
  <2>1. z \in Nat /\ k \in Nat /\ z <= n /\ \A i \in z..n : g[i] \in Seq(Ops)
    BY <1>4, <1>6
  <2> HIDE DEF z, k, y
  <2>2. Ahead(f, g, y, x, z, k, n)
    BY <1>4, <1>5, <1>7, <1>8, <2>1 DEF Ahead
  <2>3. QED
    BY <2>2, SamePieces
<1>10. Handed = f[n + 1] /\ Handed' = g[n] /\ Handed' \in Seq(Ops)
  BY <1>1, <1>4 DEF StreamParts, f, g, n
<1>11. Handed = x \o Handed'
  BY <1>9, <1>10
<1>12. UNCHANGED <<available, Open>>
  BY <1>2 DEF Open, Retire
<1>13. QED
  BY <1>5, <1>10, <1>11, <1>12 DEF x

\* The oldest buffer's next dispatch is the first of the stream.
LEMMA RunExecutes ==
  ASSUME GpuIInv, GpuIInv', GpuRun
  PROVE  Stream!Execute
<1>1. StreamParts /\ StreamParts'
  BY StreamPartsHold, PTL
<1>2. /\ committed \in Seq(Buffers) /\ committed # <<>> /\ committed[1].ops # <<>>
      /\ committed' = [committed EXCEPT ![1].ops = Tail(@)] /\ batch' = batch
  BY DEF GpuIInv, GpuRun
<1> DEFINE f == Flat
           g == Flat'
           n == Len(committed)
           ops == committed[1].ops
           x == <<ops[1]>>
           y == [i \in 1..n - 1 |-> committed[i + 1].ops]
           a == 1
           z == 0
<1>3. n \in Nat \ {0} /\ committed[1] \in Buffers
  BY <1>2, EmptySeq, ElementOfSeq
<1>4. ops \in Seq(Ops) /\ ops # <<>> /\ Len(ops) \in Nat \ {0}
  BY <1>2, <1>3, EmptySeq DEF Buffers
<1>5. x \in Seq(Ops) /\ Tail(ops) \in Seq(Ops) /\ ops = x \o Tail(ops)
  <2> HIDE DEF ops
  <2>1. x \in Seq(Ops) /\ Len(x) = 1 /\ x[1] = ops[1]
    BY <1>4
  <2>2. /\ Tail(ops) \in Seq(Ops) /\ Len(Tail(ops)) = Len(ops) - 1
        /\ \A i \in 1..Len(Tail(ops)) : Tail(ops)[i] = ops[i + 1]
    BY <1>4, HeadTailProperties
  <2> HIDE DEF x
  <2>3. /\ x \o Tail(ops) \in Seq(Ops) /\ Len(x \o Tail(ops)) = Len(ops)
        /\ \A i \in 1..Len(ops) : (x \o Tail(ops))[i] = IF i <= 1 THEN x[i] ELSE Tail(ops)[i - 1]
    <3>1. 1 + (Len(ops) - 1) = Len(ops)
      BY <1>4
    <3> DEFINE t == Tail(ops)
    <3>2. t \in Seq(Ops) /\ Len(x) + Len(t) = Len(ops)
      BY <2>1, <2>2, <3>1
    <3> HIDE DEF t
    <3>3. /\ x \o t \in Seq(Ops) /\ Len(x \o t) = Len(x) + Len(t)
          /\ \A i \in 1..Len(x) + Len(t) : (x \o t)[i] = IF i <= Len(x) THEN x[i] ELSE t[i - Len(x)]
      BY <2>1, <3>2, ConcatProperties, Zenon
    <3>4. QED
      BY <2>1, <3>2, <3>3 DEF t
  <2>4. \A i \in 1..Len(ops) : (x \o Tail(ops))[i] = ops[i]
    BY <1>4, <2>1, <2>2, <2>3
  <2>5. QED
    BY <1>4, <2>1, <2>2, <2>3, <2>4, SeqEqual
<1>6. /\ Len(committed') = n
      /\ committed'[1].ops = Tail(ops)
      /\ \A i \in 2..n : committed'[i] = committed[i]
  <2>1. [committed[1] EXCEPT !.ops = Tail(@)] \in Buffers
    BY <1>3, <1>5 DEF Buffers
  <2>2. 1 \in 1..Len(committed)
    BY <1>3
  <2>3. /\ committed' \in Seq(Buffers) /\ Len(committed') = Len(committed)
        /\ \A i \in 1..Len(committed) : committed'[i] =
             IF i = 1 THEN [committed[1] EXCEPT !.ops = Tail(@)] ELSE committed[i]
    BY <1>2, <2>1, <2>2, ExceptSeq
  <2>4. [committed[1] EXCEPT !.ops = Tail(@)].ops = Tail(ops)
    BY <1>3 DEF Buffers
  <2>5. committed'[1].ops = Tail(ops)
    BY <2>2, <2>3, <2>4
  <2>6. \A i \in 2..n : i \in 1..Len(committed) /\ i # 1
    BY <1>3
  <2>7. QED
    BY <2>3, <2>5, <2>6
<1>7. /\ g[0] = <<>> /\ f[0] = <<>>
      /\ \A i \in 0..n : g[i] \in Seq(Ops)
      /\ \A i \in 1..n : g[i] = g[i - 1] \o committed'[i].ops
      /\ \A i \in 1..n : f[i] = f[i - 1] \o committed[i].ops
  BY <1>1, <1>6 DEF StreamParts, FlatDefined
<1> HIDE DEF f, g, n, ops, x
<1>8. f[a + z] = x \o g[a]
  <2>1. 1 \in 1..n /\ 1 - 1 = 0
    BY <1>3
  <2>2. g[1] = <<>> \o Tail(ops)
    BY <1>6, <1>7, <2>1
  <2>3. f[1] = <<>> \o ops
    BY <1>7, <2>1 DEF ops
  <2>4. g[1] = Tail(ops) /\ f[1] = ops
    BY <1>4, <1>5, <2>2, <2>3, ConcatEmptySeq
  <2>5. QED
    BY <1>5, <2>4
<1>9. ASSUME NEW i \in a..n - 1
      PROVE  /\ y[i] \in Seq(Ops)
             /\ f[i + z + 1] = f[i + z] \o y[i] /\ g[i + 1] = g[i] \o y[i]
  <2>1. i + 1 \in 2..n /\ i + 1 \in 1..n /\ (i + 1) - 1 = i
    BY <1>3
  <2>2. /\ g[i + 1] = g[i] \o committed[i + 1].ops
        /\ f[i + 1] = f[i] \o committed[i + 1].ops
    BY <1>6, <1>7, <2>1
  <2>3. committed[i + 1].ops \in Seq(Ops)
    BY <1>2, <2>1, OpsTyped DEF n
  <2>4. i + z + 1 = i + 1 /\ i + z = i
    OBVIOUS
  <2>5. QED
    BY <2>2, <2>3, <2>4
<1>10. f[n + z] = x \o g[n]
  <2>1. a \in Nat /\ z \in Nat /\ n \in Nat /\ a <= n /\ \A i \in a..n : g[i] \in Seq(Ops)
    BY <1>3, <1>7
  <2> HIDE DEF a, z, y
  <2>2. Ahead(f, g, y, x, a, z, n)
    BY <1>5, <1>8, <1>9, <2>1 DEF Ahead
  <2>3. QED
    BY <2>2, SamePieces
<1>11. Handed = f[n] /\ Handed' = g[n] /\ Handed' \in Seq(Ops)
  BY <1>1, <1>6 DEF StreamParts, f, g, n
<1>12. Handed = x \o Handed' /\ Handed' \in Seq(Ops)
  BY <1>3, <1>10, <1>11
<1>13. Handed # <<>> /\ Handed' = Tail(Handed)
  <2>1. x \in Seq(Ops) /\ Len(x) = 1
    BY <1>5 DEF x
  <2>2. /\ Handed \in Seq(Ops) /\ Len(Handed) = 1 + Len(Handed')
        /\ \A i \in 1..1 + Len(Handed') : Handed[i] = IF i <= 1 THEN x[i] ELSE Handed'[i - 1]
    <3> DEFINE p == Handed
               q == Handed'
    <3>1. p = x \o q /\ q \in Seq(Ops)
      BY <1>12
    <3> HIDE DEF p, q
    <3>2. /\ x \o q \in Seq(Ops) /\ Len(x \o q) = Len(x) + Len(q)
          /\ \A i \in 1..Len(x) + Len(q) : (x \o q)[i] = IF i <= Len(x) THEN x[i] ELSE q[i - Len(x)]
      BY <2>1, <3>1, ConcatProperties, Zenon
    <3>3. QED
      BY <2>1, <3>1, <3>2 DEF p, q
  <2>3. Len(Handed') \in Nat
    BY <1>12, LenProperties
  <2>4. Handed # <<>>
    BY <2>2, <2>3
  <2>5. /\ Tail(Handed) \in Seq(Ops) /\ Len(Tail(Handed)) = Len(Handed')
        /\ \A i \in 1..Len(Handed') : Tail(Handed)[i] = Handed[i + 1]
    BY <2>2, <2>3, <2>4, HeadTailProperties
  <2>6. \A i \in 1..Len(Handed') : Tail(Handed)[i] = Handed'[i]
    BY <2>2, <2>3, <2>5
  <2>7. QED
    BY <1>12, <2>4, <2>5, <2>6, SeqEqual
<1>14. UNCHANGED <<available, Open>>
  BY <1>2 DEF Open, GpuRun
<1>15. QED
  BY <1>13, <1>14 DEF Stream!Execute

\* What is left of a concatenation without its first part.
LEMMA PartsOfConcat ==
  ASSUME NEW s \in Seq(Ops), NEW t \in Seq(Ops)
  PROVE  /\ SubSeq(s \o t, Len(s) + 1, Len(s \o t)) = t
         /\ Len(s) \in Nat /\ Len(t) \in Nat /\ Len(s \o t) = Len(s) + Len(t)
<1> DEFINE u == s \o t
           m == Len(s)
           n == Len(t)
<1>1. /\ m \in Nat /\ n \in Nat
      /\ u \in Seq(Ops) /\ Len(u) = m + n
      /\ \A i \in 1..m + n : u[i] = IF i <= m THEN s[i] ELSE t[i - m]
  BY LenProperties, ConcatProperties
<1>2. \A i \in 1..m + n : u[i] \in Ops
  BY <1>1, ElementOfSeq
<1> HIDE DEF u
<1>3. SubSeq(u, m + 1, m + n) = t
  <2>1. m + 1 \in Int /\ m + n \in Int /\ \A i \in m + 1..m + n : u[i] \in Ops
    BY <1>1, <1>2
  <2>2. /\ SubSeq(u, m + 1, m + n) \in Seq(Ops)
        /\ Len(SubSeq(u, m + 1, m + n)) = IF m + 1 <= m + n THEN (m + n) - (m + 1) + 1 ELSE 0
        /\ \A i \in 1..(m + n) - (m + 1) + 1 : SubSeq(u, m + 1, m + n)[i] = u[(m + 1) + i - 1]
    BY <2>1, SubSeqProperties
  <2> DEFINE v == SubSeq(u, m + 1, m + n)
  <2> HIDE DEF v
  <2>3. v \in Seq(Ops) /\ Len(v) = n /\ \A i \in 1..n : v[i] = u[m + i]
    <3>1. \A i \in 1..n : i \in 1..(m + n) - (m + 1) + 1 /\ (m + 1) + i - 1 = m + i
      BY <1>1
    <3>2. (IF m + 1 <= m + n THEN (m + n) - (m + 1) + 1 ELSE 0) = n
      BY <1>1
    <3>3. QED
      BY <2>2, <3>1, <3>2 DEF v
  <2>4. \A i \in 1..n : v[i] = t[i]
    <3> TAKE i \in 1..n
    <3>1. m + i \in 1..m + n /\ ~(m + i <= m) /\ (m + i) - m = i
      BY <1>1
    <3>2. QED
      BY <1>1, <2>3, <3>1
  <2>5. v = t
    BY <2>3, <2>4, SeqEqual
  <2>6. QED
    BY <2>5 DEF v
<1>4. QED
  BY <1>1, <1>3 DEF u

\* A buffer that completes has nothing left to run.
LEMMA CompleteIsInvisible ==
  ASSUME GpuIInv, GpuIInv', GpuComplete
  PROVE  UNCHANGED <<available, Handed, Open>>
<1>1. committed # <<>> /\ committed[1].ops = <<>> /\ Retire("completed")
  BY DEF GpuComplete
<1>2. Handed' \in Seq(Ops) /\ Handed = <<>> \o Handed' /\ UNCHANGED <<available, Open>>
  BY <1>1, RetireTakesFront
<1>3. QED
  BY <1>2, ConcatEmptySeq

\* One that fails takes its dispatches off the front of what was handed over.
LEMMA FaultImplements ==
  ASSUME GpuIInv, GpuIInv', GpuFault
  PROVE  UNCHANGED <<available, Handed, Open>> \/ \E n \in 1..Len(Handed) : Stream!Fault(n)
<1>1. committed # <<>> /\ Retire("error")
  BY DEF GpuFault
<1> DEFINE x == committed[1].ops
           p == Handed
           q == Handed'
<1>2. x \in Seq(Ops) /\ q \in Seq(Ops) /\ p = x \o q /\ UNCHANGED <<available, Open>>
  BY <1>1, RetireTakesFront
<1>3. CASE x = <<>>
  <2>1. p = q
    <3> HIDE DEF p, q, x
    <3>1. QED
      BY <1>2, <1>3, ConcatEmptySeq
  <2>2. QED
    BY <1>2, <2>1
<1>4. CASE x # <<>>
  <2>1. Len(x) \in 1..Len(p) /\ SubSeq(p, Len(x) + 1, Len(p)) = q
    <3> HIDE DEF p, q, x
    <3>1. Len(x) \in Nat \ {0}
      BY <1>2, <1>4, EmptySeq
    <3>2. /\ SubSeq(x \o q, Len(x) + 1, Len(x \o q)) = q
          /\ Len(q) \in Nat /\ Len(x \o q) = Len(x) + Len(q)
      BY <1>2, PartsOfConcat
    <3>3. QED
      BY <1>2, <3>1, <3>2
  <2>2. Stream!Fault(Len(x))
    BY <1>2, <2>1 DEF Stream!Fault
  <2>3. QED
    BY <2>1, <2>2
<1>5. QED
  BY <1>3, <1>4

\* A shutdown drops the open batch and nothing else.
LEMMA ShutdownImplements ==
  ASSUME GpuIInv, GpuShutdown
  PROVE  Stream!GoDown \/ UNCHANGED <<available, Handed, Open>>
<1>1. available' = FALSE /\ batch' = NoBatch /\ committed' = committed
  BY DEF GpuShutdown
<1>2. Open' = <<>> /\ Handed' = Handed
  BY <1>1, SameHanded DEF Open
<1>3. CASE available
  BY <1>1, <1>2, <1>3 DEF Stream!GoDown
<1>4. CASE ~available
  BY <1>1, <1>2, <1>4 DEF GpuIInv, Open
<1>5. QED
  BY <1>3, <1>4

\* The steps that may not lose a dispatch do not: all but a fault are lossless, the
\* shutdown or invisible.
LEMMA KeptStep ==
  GpuIInv /\ GpuIInv' /\ [HostCall \/ GpuNext]_gpuVars
    => [GpuFault \/ Stream!Lossless \/ Stream!GoDown]_<<available, Handed, Open>>
<1> DEFINE Kept == [GpuFault \/ Stream!Lossless \/ Stream!GoDown]_<<available, Handed, Open>>
<1> SUFFICES ASSUME GpuIInv, GpuIInv', [HostCall \/ GpuNext]_gpuVars
             PROVE  Kept
  OBVIOUS
<1>1. ASSUME UNCHANGED <<available, committed, batch>> PROVE Kept
  BY <1>1, SameHanded DEF Open
<1>2. CASE BeginFails \/ DispatchFails \/ EndReturn \/ NoActiveBatch \/ UNCHANGED gpuVars
  BY <1>1, <1>2 DEF BeginFails, DispatchFails, EndReturn, NoActiveBatch, gpuVars
<1>3. CASE GpuStartup
  <2>1. /\ Open' = Open /\ Handed' = Handed /\ available \in BOOLEAN
        /\ available' = TRUE \/ available' = available
    BY <1>3, SameHanded DEF GpuStartup, Open, GpuIInv
  <2>2. QED
    BY <2>1 DEF Stream!Lossless, Stream!Start
<1>4. CASE Begin
  BY <1>4, BeginIsInvisible
<1>5. ASSUME NEW op \in Ops, Dispatch(op) PROVE Kept
  <2>1. Stream!Encode(op)
    BY <1>5, DispatchEncodes
  <2>2. QED
    BY <2>1 DEF Stream!Lossless
<1>6. CASE Flush
  <2>1. /\ batch # NoBatch /\ Commit(FALSE) /\ batch' \in {<<>>, NoBatch}
        /\ available' = available /\ FALSE \in BOOLEAN
    BY <1>6 DEF Flush
  <2>2. QED
    BY <2>1, CommitHandsOver DEF Stream!Lossless
<1>7. CASE EndCommit
  <2>1. /\ batch # NoBatch /\ Commit(TRUE) /\ batch' \in {<<>>, NoBatch}
        /\ available' = available /\ TRUE \in BOOLEAN
    BY <1>7 DEF EndCommit, CloseBatch
  <2>2. QED
    BY <2>1, CommitHandsOver DEF Stream!Lossless
<1>8. CASE GpuShutdown
  BY <1>8, ShutdownImplements
<1>9. CASE GpuRun
  BY <1>9, RunExecutes DEF Stream!Lossless
<1>10. CASE GpuComplete
  BY <1>10, CompleteIsInvisible
<1>11. QED
  BY <1>2, <1>3, <1>4, <1>5, <1>6, <1>7, <1>8, <1>9, <1>10 DEF HostCall, GpuNext

\* Every step of the host and of the GPU is one of the stream, or invisible in it.
LEMMA StreamStep ==
  GpuIInv /\ GpuIInv' /\ [HostCall \/ GpuNext]_gpuVars
    => [Stream!StreamNext]_(Stream!streamVars)
<1> SUFFICES ASSUME GpuIInv, GpuIInv', [HostCall \/ GpuNext]_gpuVars
             PROVE  Stream!StreamNext \/ UNCHANGED <<available, Handed, Open>>
  BY DEF Stream!streamVars
<1>1. GpuFault \/ Stream!Lossless \/ Stream!GoDown \/ UNCHANGED <<available, Handed, Open>>
  BY KeptStep
<1>2. QED
  BY <1>1, FaultImplements DEF Stream!StreamNext

\* At first the GPU is not up and the stream is empty.
LEMMA StreamStarts == GpuInit => Stream!StreamInit
<1> SUFFICES ASSUME GpuInit PROVE Stream!StreamInit
  OBVIOUS
<1>1. available = FALSE /\ Len(committed) = 0 /\ batch = NoBatch
  BY DEF GpuInit
<1>2. StreamParts
  BY GpuInitInv, StreamPartsHold
<1>3. QED
  BY <1>1, <1>2 DEF StreamParts, FlatDefined, Open, Stream!StreamInit

\* Batched encoding is one stream of dispatches, for any batches and flushes:
\* they run in the order they were encoded, and each of them does unless the
\* command buffer it was committed with fails or a shutdown finds it uncommitted.
THEOREM GpuImplementsStream == GpuSpec => ImplementsStream
BY StreamStarts, GpuInvariant, BoundedHost, StreamStep, KeptStep, PTL
   DEF GpuSpec, ImplementsStream, Stream!StreamSpec

-----------------------------------------------------------------------------
(* The set of dispatches in flight, for the host that encodes them.        *)

\* The stream consists of dispatches in flight.
LEMMA PendingInFlight == GpuIInv => \A i \in 1..Len(Pending) : Pending[i] \in InFlight
<1> SUFFICES ASSUME GpuIInv PROVE \A i \in 1..Len(Pending) : Pending[i] \in InFlight
  OBVIOUS
<1>1. StreamParts /\ QueueTyped
  BY StreamPartsHold DEF GpuIInv, QueueTyped
<1>2. \A s \in Seq(Ops) : (\A k \in 1..Len(s) : s[k] \in InFlight) => s \in Seq(InFlight)
  <2> TAKE s \in Seq(Ops)
  <2> HAVE \A k \in 1..Len(s) : s[k] \in InFlight
  <2>1. Len(s) \in Nat /\ s \in [1..Len(s) -> Ops]
    BY LenProperties
  <2>2. s \in [1..Len(s) -> InFlight]
    BY <2>1
  <2>3. QED
    BY <2>1, <2>2
<1>3. \A i \in 1..Len(committed) : committed[i].ops \in Seq(InFlight)
  <2> TAKE i \in 1..Len(committed)
  <2>1. committed[i].ops \in Seq(Ops)
    BY OpsTyped DEF GpuIInv
  <2>2. \A k \in 1..Len(committed[i].ops) : committed[i].ops[k] \in InFlight
    BY <2>1, ElementOfSeq DEF InFlight, InQueue
  <2>3. QED
    BY <1>2, <2>1, <2>2
<1>4. Open \in Seq(InFlight)
  <2>1. CASE batch = NoBatch
    BY <2>1 DEF Open
  <2>2. CASE batch # NoBatch
    <3>1. batch \in Seq(Ops)
      BY <2>2 DEF GpuIInv
    <3>2. \A k \in 1..Len(batch) : batch[k] \in InFlight
      BY <2>2, <3>1, ElementOfSeq DEF InFlight, InBatch
    <3>3. QED
      BY <1>2, <2>2, <3>1, <3>2 DEF Open
  <2>3. QED
    BY <2>1, <2>2
<1>5. Handed \in Seq(InFlight)
  <2>1. FlatSolves /\ Len(committed) \in Nat /\ Len(committed) \in 0..Len(committed)
    BY <1>1, FlatEquation DEF StreamParts
  <2> DEFINE A == InFlight
             f == Flat
             n == Len(committed)
  <2>2. f = [i \in 0..n |-> IF i = 0 THEN <<>> ELSE f[i - 1] \o committed[i].ops]
    BY <2>1 DEF FlatSolves
  <2>3. n \in Nat /\ \A i \in 1..n : committed[i].ops \in Seq(A)
    BY <1>3, <2>1
  <2> HIDE DEF A, f, n
  <2>4. \A i \in 0..n : f[i] \in Seq(A)
    BY <2>2, <2>3, ConcatsTyped
  <2>5. QED
    BY <2>1, <2>4 DEF A, f, n, Handed
<1>6. Pending \in Seq(InFlight)
  BY <1>1, <1>4, <1>5, ConcatProperties DEF StreamParts
<1>7. QED
  BY <1>6, ElementOfSeq

\* With no open batch and an empty queue nothing is in flight.
LEMMA NothingInFlight ==
  GpuIInv /\ batch = NoBatch /\ committed = <<>> => InFlight = {} /\ Pending = <<>>
<1> SUFFICES ASSUME GpuIInv, batch = NoBatch, committed = <<>> PROVE InFlight = {} /\ Pending = <<>>
  OBVIOUS
<1>1. Len(committed) = 0
  OBVIOUS
<1>2. InFlight = {}
  BY <1>1 DEF InFlight, InBatch, InQueue
<1>3. Handed = <<>> /\ Open = <<>> /\ Pending = Handed \o Open
  BY <1>1, StreamPartsHold DEF StreamParts, FlatDefined, Open
<1>4. QED
  BY <1>2, <1>3

\* Encoding a dispatch puts it in flight.
LEMMA DispatchInFlight ==
  ASSUME GpuIInv, NEW op \in Ops, Dispatch(op)
  PROVE  InFlight' = InFlight \cup {op}
<1>1. batch # NoBatch /\ batch' = Append(batch, op) /\ committed' = committed
  BY DEF Dispatch
<1>2. batch \in Seq(Ops)
  BY <1>1 DEF GpuIInv
<1>3. /\ batch' # NoBatch /\ Len(batch) \in Nat /\ Len(batch') = Len(batch) + 1
      /\ \A i \in 1..Len(batch) : batch'[i] = batch[i]
      /\ batch'[Len(batch) + 1] = op
  BY <1>1, <1>2, AppendProperties, LenProperties, GpuAssumption
<1>4. \A o : (\E k \in 1..Len(batch') : batch'[k] = o) <=> o = op \/ \E k \in 1..Len(batch) : batch[k] = o
  <2> TAKE o
  <2>1. ASSUME NEW k \in 1..Len(batch'), batch'[k] = o PROVE o = op \/ \E i \in 1..Len(batch) : batch[i] = o
    BY <1>3, <2>1
  <2>2. ASSUME NEW k \in 1..Len(batch), batch[k] = o PROVE \E i \in 1..Len(batch') : batch'[i] = o
    <3>1. k \in 1..Len(batch') /\ batch'[k] = o
      BY <1>3, <2>2
    <3>2. QED
      BY <3>1
  <2>3. Len(batch) + 1 \in 1..Len(batch')
    BY <1>3
  <2>4. QED
    BY <1>3, <2>1, <2>2, <2>3
<1>5. \A o : (InBatch(o)' <=> o = op \/ InBatch(o)) /\ (InQueue(o)' <=> InQueue(o))
  BY <1>1, <1>3, <1>4, Zenon DEF InBatch, InQueue
<1>6. QED
  BY <1>5 DEF InFlight

\* A commit moves the open batch's dispatches to the queue.
LEMMA CommitInFlight ==
  ASSUME GpuIInv, batch # NoBatch, NEW a \in BOOLEAN, Commit(a), batch' \in {<<>>, NoBatch}
  PROVE  InFlight' = InFlight
<1>1. /\ Len(committed') = Len(committed) + 1 /\ Len(committed) \in Nat
      /\ \A i \in 1..Len(committed) : committed'[i] = committed[i]
      /\ committed'[Len(committed) + 1].ops = batch
  BY CommitLemma DEF GpuIInv
<1>2. ASSUME NEW o PROVE
        (\E i \in 1..Len(committed') : \E k \in 1..Len(committed'[i].ops) : committed'[i].ops[k] = o)
          <=> \/ \E k \in 1..Len(batch) : batch[k] = o
              \/ \E i \in 1..Len(committed) : \E k \in 1..Len(committed[i].ops) : committed[i].ops[k] = o
  <2> DEFINE Holds(b) == \E k \in 1..Len(b.ops) : b.ops[k] = o
  <2>1. Holds(committed'[Len(committed) + 1]) <=> \E k \in 1..Len(batch) : batch[k] = o
    BY <1>1
  <2> HIDE DEF Holds
  <2>2. \A i : i \in 1..Len(committed') <=> i \in 1..Len(committed) \/ i = Len(committed) + 1
    BY <1>1
  <2>3. (\E i \in 1..Len(committed') : Holds(committed'[i]))
          <=> Holds(committed'[Len(committed) + 1]) \/ \E i \in 1..Len(committed) : Holds(committed[i])
    BY <1>1, <2>2
  <2>4. QED
    BY <2>1, <2>3 DEF Holds
<1>3. ~(batch' # NoBatch /\ \E k \in 1..Len(batch') : TRUE)
  OBVIOUS
<1>4. \A o : ~InBatch(o)' /\ (InQueue(o)' <=> InBatch(o) \/ InQueue(o))
  BY <1>2, <1>3, Zenon DEF InBatch, InQueue
<1>5. QED
  BY <1>4 DEF InFlight

\* Retiring a buffer with nothing left to run takes nothing out of flight.
LEMMA RetireInFlight ==
  ASSUME GpuIInv, committed # <<>>, NEW st, Retire(st)
  PROVE  InFlight' \subseteq InFlight /\ (committed[1].ops = <<>> => InFlight' = InFlight)
<1>1. committed \in Seq(Buffers) /\ committed' = Tail(committed) /\ batch' = batch
  BY DEF GpuIInv, Retire
<1>2. /\ Len(committed') = Len(committed) - 1 /\ Len(committed) \in Nat \ {0}
      /\ \A i \in 1..Len(committed) - 1 : committed'[i] = committed[i + 1]
  BY <1>1, RetireLemma
<1>3. ASSUME NEW o,
             \E i \in 1..Len(committed') : \E k \in 1..Len(committed'[i].ops) : committed'[i].ops[k] = o
      PROVE  \E i \in 1..Len(committed) : \E k \in 1..Len(committed[i].ops) : committed[i].ops[k] = o
  <2>1. PICK i \in 1..Len(committed') : \E k \in 1..Len(committed'[i].ops) : committed'[i].ops[k] = o
    BY <1>3
  <2>2. i + 1 \in 1..Len(committed) /\ committed'[i] = committed[i + 1]
    BY <1>2
  <2>3. QED
    BY <2>1, <2>2
<1>4. ASSUME NEW o, committed[1].ops = <<>>,
             \E i \in 1..Len(committed) : \E k \in 1..Len(committed[i].ops) : committed[i].ops[k] = o
      PROVE  \E i \in 1..Len(committed') : \E k \in 1..Len(committed'[i].ops) : committed'[i].ops[k] = o
  <2>1. PICK i \in 1..Len(committed) : \E k \in 1..Len(committed[i].ops) : committed[i].ops[k] = o
    BY <1>4
  <2>2. i # 1
    BY <1>4, <2>1
  <2>3. i - 1 \in 1..Len(committed') /\ committed'[i - 1] = committed[i]
    <3>1. i - 1 \in 1..Len(committed) - 1 /\ (i - 1) + 1 = i
      BY <1>2, <2>2
    <3>2. QED
      BY <1>2, <3>1
  <2>4. QED
    BY <2>1, <2>3
<1>5. \A o : InQueue(o)' => InQueue(o)
  BY <1>3, Zenon DEF InQueue
<1>6. committed[1].ops = <<>> => \A o : InQueue(o) => InQueue(o)'
  BY <1>4, Zenon DEF InQueue
<1>7. \A o : InBatch(o)' <=> InBatch(o)
  BY <1>1 DEF InBatch
<1>8. QED
  BY <1>5, <1>6, <1>7 DEF InFlight

\* Running the oldest buffer's next dispatch takes at most that one out of flight.
LEMMA RunInFlight ==
  ASSUME GpuIInv, GpuRun
  PROVE  /\ committed[1].ops[1] \in InFlight
         /\ InFlight' \subseteq InFlight
         /\ InFlight \subseteq InFlight' \cup {committed[1].ops[1]}
<1> DEFINE ops == committed[1].ops
           n == Len(committed)
<1>1. /\ committed \in Seq(Buffers) /\ committed # <<>> /\ ops # <<>>
      /\ committed' = [committed EXCEPT ![1].ops = Tail(@)] /\ batch' = batch
  BY DEF GpuIInv, GpuRun
<1>2. n \in Nat \ {0} /\ committed[1] \in Buffers /\ 1 \in 1..n
  BY <1>1, EmptySeq, ElementOfSeq
<1>3. /\ ops \in Seq(Ops) /\ Len(ops) \in Nat \ {0}
      /\ Tail(ops) \in Seq(Ops) /\ Len(Tail(ops)) = Len(ops) - 1
      /\ \A k \in 1..Len(ops) - 1 : Tail(ops)[k] = ops[k + 1]
  BY <1>1, <1>2, EmptySeq, HeadTailProperties DEF Buffers
<1>4. /\ Len(committed') = n /\ committed'[1].ops = Tail(ops)
      /\ \A i \in 1..n : i # 1 => committed'[i] = committed[i]
  <2>1. [committed[1] EXCEPT !.ops = Tail(@)] \in Buffers
    BY <1>2, <1>3 DEF Buffers
  <2>2. /\ Len(committed') = Len(committed)
        /\ \A i \in 1..Len(committed) : committed'[i] =
             IF i = 1 THEN [committed[1] EXCEPT !.ops = Tail(@)] ELSE committed[i]
    BY <1>1, <1>2, <2>1, ExceptSeq
  <2>3. [committed[1] EXCEPT !.ops = Tail(@)].ops = Tail(ops)
    BY <1>2 DEF Buffers
  <2>4. QED
    BY <1>2, <2>2, <2>3
<1>5. ops[1] \in InFlight
  <2>1. 1 \in 1..Len(ops) /\ ops[1] \in Ops
    BY <1>3, ElementOfSeq
  <2>2. QED
    BY <1>2, <2>1 DEF InFlight, InQueue
<1>6. ASSUME NEW o, NEW i \in 1..n, NEW k \in 1..Len(committed'[i].ops), committed'[i].ops[k] = o
      PROVE  \E m \in 1..Len(committed[i].ops) : committed[i].ops[m] = o
  <2>1. CASE i = 1
    <3>1. k + 1 \in 1..Len(ops) /\ ops[k + 1] = o
      <4>1. k \in 1..Len(Tail(ops)) /\ Tail(ops)[k] = o
        BY <1>4, <1>6, <2>1
      <4> HIDE DEF ops
      <4>2. QED
        BY <1>3, <4>1
    <3>2. QED
      BY <2>1, <3>1
  <2>2. CASE i # 1
    BY <1>4, <1>6, <2>2
  <2>3. QED
    BY <2>1, <2>2
<1>7. ASSUME NEW o, o # ops[1], NEW i \in 1..n, NEW k \in 1..Len(committed[i].ops), committed[i].ops[k] = o
      PROVE  \E m \in 1..Len(committed'[i].ops) : committed'[i].ops[m] = o
  <2>1. CASE i = 1
    <3>1. k # 1 /\ k \in 1..Len(ops)
      BY <1>7, <2>1
    <3>2. k - 1 \in 1..Len(ops) - 1 /\ (k - 1) + 1 = k
      BY <1>3, <3>1
    <3>3. k - 1 \in 1..Len(Tail(ops)) /\ Tail(ops)[k - 1] = o
      BY <1>3, <1>7, <2>1, <3>2
    <3>4. QED
      BY <1>4, <2>1, <3>3
  <2>2. CASE i # 1
    BY <1>4, <1>7, <2>2
  <2>3. QED
    BY <2>1, <2>2
<1>8. Len(committed') = Len(committed)
  BY <1>4
<1> HIDE DEF ops, n
<1>9. InFlight' \subseteq InFlight
  <2>1. ASSUME NEW o, InQueue(o)' PROVE InQueue(o)
    <3>1. PICK i \in 1..n : \E k \in 1..Len(committed'[i].ops) : committed'[i].ops[k] = o
      BY <1>8, <2>1 DEF InQueue, n
    <3>2. QED
      BY <1>6, <3>1, Zenon DEF InQueue, n
  <2>2. \A o : InBatch(o)' <=> InBatch(o)
    BY <1>1 DEF InBatch
  <2>3. QED
    BY <2>1, <2>2 DEF InFlight
<1>10. InFlight \subseteq InFlight' \cup {ops[1]}
  <2>1. ASSUME NEW o, o # ops[1], InQueue(o) PROVE InQueue(o)'
    <3>1. PICK i \in 1..n : \E k \in 1..Len(committed[i].ops) : committed[i].ops[k] = o
      BY <2>1 DEF InQueue, n
    <3>2. \E m \in 1..Len(committed'[i].ops) : committed'[i].ops[m] = o
      BY <1>7, <2>1, <3>1, Zenon
    <3>3. QED
      BY <1>8, <3>2, Zenon DEF InQueue, n
  <2>2. \A o : InBatch(o)' <=> InBatch(o)
    BY <1>1 DEF InBatch
  <2>3. QED
    BY <2>1, <2>2 DEF InFlight
<1>11. QED
  BY <1>5, <1>9, <1>10 DEF ops
=============================================================================
