---------------------------- MODULE MCLoaderPool -----------------------------
(* LoaderPool with two workers and three job records.                      *)
EXTENDS LoaderPool

CONSTANTS w1, w2, j1, j2, j3

MCWorkers == {w1, w2}
MCJobs == {j1, j2, j3}
=============================================================================
