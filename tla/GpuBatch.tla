------------------------------ MODULE GpuBatch -------------------------------
(***************************************************************************)
(* Batched encoding in sepia_metal.m: sepia_gpu_begin / flush / end, the   *)
(* dispatch functions, and the Metal command queue behind them.  All of    *)
(* the module's state belongs to one host thread; the GPU runs beside it.  *)
(* The command queue is external: it starts and finishes command buffers   *)
(* strictly in commit order, and a command buffer may fail at any point.   *)
(***************************************************************************)
EXTENDS Integers, Sequences

CONSTANTS Ops,        \* the dispatches the host encodes
          NoBatch,    \* g_batch_cb == nil
          MaxStream   \* bound on dispatches and buffers not executed yet

ASSUME GpuAssumption == MaxStream \in Nat \ {0} /\ NoBatch \notin Seq(Ops)

VARIABLES
  available,  \* g_available: sepia_gpu_init succeeded
  batch,      \* what the open command buffer holds, or NoBatch
  committed,  \* committed command buffers the GPU has not finished, in order;
              \* `awaited' marks the one sepia_gpu_end blocks on, `current'
              \* those committed since the last sepia_gpu_begin
  cbStatus,   \* status of the awaited buffer: "running", "completed", "error"
  hostAt,     \* "host", or "ending" inside waitUntilCompleted
  gpuRet,     \* what the last call of the API returned, by name
  faulted     \* some dispatch encoded since the last begin was lost to a fault

gpuVars == <<available, batch, committed, cbStatus, hostAt, gpuRet, faulted>>

GpuInit ==
  /\ available = FALSE
  /\ batch = NoBatch
  /\ committed = <<>>
  /\ cbStatus = "completed"
  /\ hostAt = "host"
  /\ gpuRet = "none"
  /\ faulted = FALSE

-----------------------------------------------------------------------------
(* The host's calls.  Each either succeeds or reports failure and returns. *)

Host == hostAt = "host"

\* sepia_gpu_init: a device, a queue and a compiled library, or nothing.
\* Once available, a second call returns 1 and does nothing.
GpuStartup ==
  /\ Host
  /\ \/ available' = TRUE /\ gpuRet' = "init"
     \/ ~available /\ available' = FALSE /\ gpuRet' = "init failed"
  /\ UNCHANGED <<batch, committed, cbStatus, hostAt, faulted>>

\* sepia_gpu_begin
Begin ==
  /\ Host
  /\ available /\ batch = NoBatch
  /\ batch' = <<>>
  /\ committed' = [i \in 1..Len(committed) |-> [committed[i] EXCEPT !.current = FALSE]]
  /\ faulted' = FALSE
  /\ gpuRet' = "begin"
  /\ UNCHANGED <<available, cbStatus, hostAt>>

\* ... when not initialized, a batch is already active, or no buffer is to be had.
BeginFails ==
  /\ Host
  /\ gpuRet' = "begin failed"
  /\ UNCHANGED <<available, batch, committed, cbStatus, hostAt, faulted>>

\* Any sepia_gpu_<op>: append the dispatch to the open batch.
Dispatch(op) ==
  /\ Host
  /\ batch # NoBatch
  /\ batch' = Append(batch, op)
  /\ gpuRet' = "dispatch"
  /\ UNCHANGED <<available, committed, cbStatus, hostAt, faulted>>

\* ... with no active batch, invalid arguments or no pipeline: nothing is encoded.
DispatchFails ==
  /\ Host
  /\ gpuRet' = "dispatch failed"
  /\ UNCHANGED <<available, batch, committed, cbStatus, hostAt, faulted>>

\* Mutants: end waits for no buffer; buffers overtake; a flush drops its batch.
CommitUnawaited(isAwaited) ==
  committed' = Append(committed, [ops |-> batch, awaited |-> FALSE, current |-> TRUE])
CommitInFront(isAwaited) ==
  committed' = <<[ops |-> batch, awaited |-> isAwaited, current |-> TRUE]>> \o committed

CommitAtEnd(isAwaited) ==
  committed' = IF isAwaited
               THEN Append(committed, [ops |-> batch, awaited |-> TRUE, current |-> TRUE])
               ELSE committed

Commit(isAwaited) ==
  committed' = Append(committed, [ops |-> batch, awaited |-> isAwaited, current |-> TRUE])

\* sepia_gpu_flush: commit without waiting and open the next buffer, which may
\* fail after the commit.
Flush ==
  /\ Host
  /\ batch # NoBatch
  /\ Commit(FALSE)
  /\ \/ batch' = <<>> /\ gpuRet' = "flush"
     \/ batch' = NoBatch /\ gpuRet' = "flush failed"
  /\ UNCHANGED <<available, cbStatus, hostAt, faulted>>

CloseBatch == batch' = NoBatch

\* sepia_gpu_end up to waitUntilCompleted.
EndCommit ==
  /\ Host
  /\ batch # NoBatch
  /\ Commit(TRUE)
  /\ CloseBatch
  /\ cbStatus' = "running"
  /\ hostAt' = "ending"
  /\ gpuRet' = "none"
  /\ UNCHANGED <<available, faulted>>

\* ... and after it: only the status of the buffer just committed is looked at.
EndReturn ==
  /\ hostAt = "ending"
  /\ cbStatus # "running"
  /\ hostAt' = "host"
  /\ gpuRet' = IF cbStatus = "completed" THEN "end" ELSE "end failed"
  /\ UNCHANGED <<available, batch, committed, cbStatus, faulted>>

\* sepia_gpu_flush or sepia_gpu_end with no active batch.
NoActiveBatch ==
  /\ Host
  /\ batch = NoBatch
  /\ gpuRet' \in {"flush failed", "end failed"}
  /\ UNCHANGED <<available, batch, committed, cbStatus, hostAt, faulted>>

\* sepia_gpu_shutdown drops the open batch; committed buffers still run.
GpuShutdown ==
  /\ Host
  /\ available' = FALSE
  /\ batch' = NoBatch
  /\ gpuRet' = "none"
  /\ UNCHANGED <<committed, cbStatus, hostAt, faulted>>

-----------------------------------------------------------------------------
(* The command queue and the GPU (external).                               *)

\* The oldest command buffer executes its next dispatch.
GpuRun ==
  /\ committed # <<>>
  /\ committed[1].ops # <<>>
  /\ committed' = [committed EXCEPT ![1].ops = Tail(@)]
  /\ UNCHANGED <<available, batch, cbStatus, hostAt, gpuRet, faulted>>

Retire(status) ==
  /\ committed' = Tail(committed)
  /\ cbStatus' = IF committed[1].awaited THEN status ELSE cbStatus
  /\ UNCHANGED <<available, batch, hostAt, gpuRet>>

GpuComplete ==
  /\ committed # <<>>
  /\ committed[1].ops = <<>>
  /\ Retire("completed")
  /\ UNCHANGED faulted

\* The oldest command buffer fails: what it has not executed never runs.
GpuFault ==
  /\ committed # <<>>
  /\ Retire("error")
  /\ faulted' = (faulted \/ (committed[1].current /\ committed[1].ops # <<>>))

-----------------------------------------------------------------------------
(* The module with any host that calls its functions in any order.         *)

\* Everything encoded and not executed yet, oldest first.
Flat[i \in 0..Len(committed)] == IF i = 0 THEN <<>> ELSE Flat[i - 1] \o committed[i].ops

Handed == Flat[Len(committed)]
Open == IF batch = NoBatch THEN <<>> ELSE batch
Pending == Handed \o Open

\* The bound on the model's host.
Room == Len(Pending) < MaxStream /\ Len(committed) < MaxStream

HostNext ==
  \/ GpuStartup \/ Begin \/ BeginFails
  \/ Room /\ ((\E op \in Ops : Dispatch(op)) \/ Flush)
  \/ DispatchFails \/ EndCommit \/ EndReturn \/ NoActiveBatch \/ GpuShutdown

GpuNext == GpuRun \/ GpuComplete \/ GpuFault

\* The GPU works off what is committed; the host returns from a finished wait.
GpuSpec ==
  /\ GpuInit /\ [][HostNext \/ GpuNext]_gpuVars
  /\ WF_gpuVars(GpuNext) /\ WF_gpuVars(EndReturn)

-----------------------------------------------------------------------------
(* Properties.                                                             *)

GpuTypeOK ==
  /\ available \in BOOLEAN /\ faulted \in BOOLEAN
  /\ batch = NoBatch \/ \A i \in 1..Len(batch) : batch[i] \in Ops
  /\ \A i \in 1..Len(committed) :
       /\ DOMAIN committed[i] = {"ops", "awaited", "current"}
       /\ \A k \in 1..Len(committed[i].ops) : committed[i].ops[k] \in Ops
  /\ cbStatus \in {"running", "completed", "error"}
  /\ hostAt \in {"host", "ending"}
  /\ hostAt = "ending" => batch = NoBatch

\* When sepia_gpu_end reports success nothing is left on the queue: the wait on
\* the last buffer covers every buffer flushed before it.
EndDrains == gpuRet = "end" => committed = <<>>

\* The buffer sepia_gpu_end waits for is the last one on the queue, and the wait
\* is over exactly when the queue is empty.
AwaitedLast ==
  /\ \A i \in 1..Len(committed) : committed[i].awaited
       <=> hostAt = "ending" /\ cbStatus = "running" /\ i = Len(committed)
  /\ hostAt = "ending" => (cbStatus = "running" <=> committed # <<>>)
  /\ gpuRet = "end" => hostAt = "host"

\* The dispatches encoded and not executed yet, as a set.
InBatch(op) == batch # NoBatch /\ \E k \in 1..Len(batch) : batch[k] = op
InQueue(op) ==
  \E i \in 1..Len(committed) : \E k \in 1..Len(committed[i].ops) : committed[i].ops[k] = op
InFlight == {op \in Ops : InBatch(op) \/ InQueue(op)}

\* Checked with the host that uses it, in MoeStep.
BatchInv == GpuTypeOK /\ EndDrains /\ AwaitedLast

\* waitUntilCompleted returns.
EndReturns == (hostAt = "ending") ~> (hostAt = "host")

\* Flushing is invisible but for timing: dispatches run in the order they were
\* encoded, and all of them do.  What a begin, flush or end was given is with the GPU
\* or in the open batch until it has run, but for a command buffer that fails, whose
\* rest is lost, and a shutdown, which drops the open batch.  The scratch buffers
\* gbuf, ubuf and hbuf, reused for every expert, rely on it.
Stream == INSTANCE GpuStream WITH up <- available, handed <- Handed, open <- Open

ImplementsStream ==
  /\ Stream!StreamSpec
  /\ [][GpuFault \/ Stream!Lossless \/ Stream!GoDown]_<<available, Handed, Open>>

\* sepia_gpu.h: end checks the command buffer's status and is the call to make
\* "once you need the results of everything dispatched since the matching
\* sepia_gpu_begin()", so its success should mean those results exist.
EndMeansExecuted == gpuRet = "end" => ~faulted
=============================================================================
