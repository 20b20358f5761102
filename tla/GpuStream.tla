------------------------------ MODULE GpuStream ------------------------------
(***************************************************************************)
(* What batched encoding promises the code that encodes: one stream of     *)
(* dispatches, executed in the order they were encoded whatever the        *)
(* batches and flushes in between.  Its older part is with the GPU, where  *)
(* only a fault loses any; its younger part is with the host, where only   *)
(* going down does.                                                        *)
(***************************************************************************)
EXTENDS Naturals, Sequences

CONSTANT Ops

VARIABLES
  up,      \* the GPU is available
  handed,  \* dispatches handed to the GPU and not executed yet, oldest first
  open     \* dispatches encoded after them and not handed over

streamVars == <<up, handed, open>>

StreamInit == up = FALSE /\ handed = <<>> /\ open = <<>>

Start == ~up /\ up' = TRUE /\ UNCHANGED <<handed, open>>

Encode(op) == up /\ open' = Append(open, op) /\ UNCHANGED <<up, handed>>

HandOver == handed' = handed \o open /\ open' = <<>> /\ UNCHANGED up

Execute == handed # <<>> /\ handed' = Tail(handed) /\ UNCHANGED <<up, open>>

Lossless == Start \/ (\E op \in Ops : Encode(op)) \/ HandOver \/ Execute

\* What was not handed over is dropped, and the GPU is not available any more.
GoDown == up /\ up' = FALSE /\ open' = <<>> /\ UNCHANGED handed

\* The first n dispatches handed over are lost with their command buffer.
Fault(n) == handed' = SubSeq(handed, n + 1, Len(handed)) /\ UNCHANGED <<up, open>>

StreamNext == Lossless \/ GoDown \/ \E n \in 1..Len(handed) : Fault(n)

StreamSpec == StreamInit /\ [][StreamNext]_streamVars
=============================================================================
