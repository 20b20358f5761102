---------------------------- MODULE MCExpertCache ----------------------------
(* Two layers of three experts, three slots, two experts a token: a call    *)
(* may hit, miss, and evict what its own next lookup would have hit.        *)
EXTENDS ExpertCache, TLC

CONSTANTS e1, e2, e3

MCExperts == {e1, e2, e3}
MCLayers == {1, 2}
Symmetry == Permutations(MCExperts)
=============================================================================
