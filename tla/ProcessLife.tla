---- MODULE ProcessLife ----
(***************************************************************************)
(* die() in sepia.c prints and calls exit(1): whichever thread calls it,   *)
(* every thread of the process stops where it is.  The loader pool and the *)
(* expert store live in one process, so both modules extend this one.      *)
(***************************************************************************)
VARIABLE alive    \* FALSE once some thread called die()

Die == alive /\ alive' = FALSE
====
