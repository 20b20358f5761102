----------------------------- MODULE ReadService -----------------------------
(***************************************************************************)
(* What the expert loader pool promises its caller, without threads, ring  *)
(* buffer or condition variables: a submitted job waits its turn, is read  *)
(* by one of at most NReaders readers, becomes ready, and is collected.    *)
(* Whatever ends the process ends the service.                             *)
(***************************************************************************)
EXTENDS Naturals, Sequences, FiniteSets

CONSTANTS Jobs,      \* the caller's job records (jobs[] of one MoE call)
          NReaders   \* how many jobs may be read at once

VARIABLES waiting,   \* jobs submitted and not yet started, oldest first
          reading,   \* jobs being read
          ready,     \* jobs whose bytes are all in place
          up         \* FALSE once the process has died

svcVars == <<waiting, reading, ready, up>>

Waiting == {waiting[i] : i \in 1..Len(waiting)}

SvcInit ==
  /\ waiting = <<>>
  /\ reading = {}
  /\ ready = {}
  /\ up = TRUE

\* A job that is nowhere in the service may be handed to it.
SvcSubmit(j) ==
  /\ up
  /\ j \notin Waiting \cup reading \cup ready
  /\ waiting' = Append(waiting, j)
  /\ UNCHANGED <<reading, ready, up>>

\* Jobs start strictly in the order they were submitted.
SvcStart ==
  /\ up
  /\ waiting # <<>>
  /\ Cardinality(reading) < NReaders
  /\ reading' = reading \cup {Head(waiting)}
  /\ waiting' = Tail(waiting)
  /\ UNCHANGED <<ready, up>>

SvcFinish(j) ==
  /\ up
  /\ j \in reading
  /\ reading' = reading \ {j}
  /\ ready' = ready \cup {j}
  /\ UNCHANGED <<waiting, up>>

\* The caller gets a job back only after its bytes are in place.
SvcCollect(j) ==
  /\ up
  /\ j \in ready
  /\ ready' = ready \ {j}
  /\ UNCHANGED <<waiting, reading, up>>

SvcEnd ==
  /\ up
  /\ up' = FALSE
  /\ UNCHANGED <<waiting, reading, ready>>

SvcNext ==
  \/ \E j \in Jobs : SvcSubmit(j) \/ SvcFinish(j) \/ SvcCollect(j)
  \/ SvcStart
  \/ SvcEnd

SvcSpec == SvcInit /\ [][SvcNext]_svcVars
=============================================================================
