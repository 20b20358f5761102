------------------------------ MODULE MCMoeStep ------------------------------
(* One MoE layer of four experts, two of them per token, two slots: the     *)
(* smallest store expert_store_init accepts, so every call that misses       *)
(* evicts.  Two loader threads, one read a job; two MoE calls fit under      *)
(* MaxGen.  No symmetry: the run checks a liveness property too.             *)
EXTENDS MoeStep

CONSTANTS w1, w2, e1, e2, e3, e4

MCWorkers == {w1, w2}
MCJobs == {1, 2}
MCLayers == {1}
MCExperts == {e1, e2, e3, e4}
MCOps == [pick : 0..2, slot : 0..1]
=============================================================================
