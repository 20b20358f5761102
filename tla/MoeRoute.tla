------------------------------ MODULE MoeRoute ------------------------------
(***************************************************************************)
(* moe_route_select's choice of experts: TopK passes over the scores, each *)
(* taking the best expert not taken before.  One step is one turn of the   *)
(* inner loop.  A score is an integer, or NaN, which no comparison holds   *)
(* of.  The weights that follow are a function of the picks.               *)
(***************************************************************************)
EXTENDS Integers, FiniteSets

CONSTANTS NumRouted,  \* cfg->n_routed_experts
          TopK,       \* cfg->num_experts_per_tok
          Scores,     \* what sigmoid(logit) + bias may be
          NaN

\* Nothing compares the two counts of the configuration: with fewer experts than
\* picks, the code would index used[-1].
ASSUME RouteAssumption ==
  /\ NumRouted \in Nat \ {0} /\ TopK \in 0..NumRouted
  /\ Scores \subseteq Int /\ NaN \notin Int

VARIABLES scores,   \* scores_for_choice
          used,     \* the experts marked used
          topk_idx, \* the picks, by pass
          j, i,     \* the two loop counters
          best

routeVars == <<scores, used, topk_idx, j, i, best>>

Expert == 0..NumRouted - 1
None == -1

\* a > b in C.
Greater(a, b) == a # NaN /\ b # NaN /\ a > b

RouteInit ==
  /\ scores \in [Expert -> Scores \cup {NaN}]
  /\ used = {} /\ topk_idx = [p \in 0..TopK - 1 |-> None]
  /\ j = 0 /\ i = 0 /\ best = None

\* Mutant: of equal scores the last one wins.
BeatsOrTies(e) == best = None \/ ~Greater(scores[best], scores[e])

Beats(e) == best = None \/ Greater(scores[e], scores[best])

\* One candidate.
Consider ==
  /\ j < TopK /\ i < NumRouted
  /\ i' = i + 1
  /\ best' = IF i \notin used /\ Beats(i) THEN i ELSE best
  /\ UNCHANGED <<scores, used, topk_idx, j>>

\* The end of a pass.
Take ==
  /\ j < TopK /\ i = NumRouted
  /\ topk_idx' = [topk_idx EXCEPT ![j] = best]
  /\ used' = used \cup {best}
  /\ j' = j + 1 /\ i' = 0 /\ best' = None
  /\ UNCHANGED scores

Routed == j = TopK /\ UNCHANGED routeVars

RouteNext == Consider \/ Take \/ Routed

RouteSpec == RouteInit /\ [][RouteNext]_routeVars

-----------------------------------------------------------------------------
(* Properties.                                                             *)

\* e is no better a choice than d: a lower score, or the same and a later number.
NoBetter(e, d) == scores[e] < scores[d] \/ (scores[e] = scores[d] /\ e >= d)

\* The picks so far are experts, all different, whatever the scores.
PicksDistinct ==
  /\ \A p \in 0..j - 1 : topk_idx[p] \in Expert
  /\ \A p, q \in 0..j - 1 : topk_idx[p] = topk_idx[q] => p = q

\* Without NaN, each pick is at least as good as everything not picked before it:
\* the picks are the TopK best, in order, ties to the lower number.
PicksBest ==
  (\A e \in Expert : scores[e] # NaN) =>
    \A p \in 0..j - 1 : \A e \in Expert :
      (\A q \in 0..p - 1 : topk_idx[q] # e) => NoBetter(e, topk_idx[p])

\* What the store and the mixing rely on.
RouteIsTopK == PicksDistinct /\ PicksBest

RouteTypeOK ==
  /\ scores \in [Expert -> Scores \cup {NaN}]
  /\ topk_idx \in [0..TopK - 1 -> Expert \cup {None}]
  /\ used \subseteq Expert
  /\ j \in 0..TopK /\ i \in 0..NumRouted /\ best \in Expert \cup {None}

\* The scan of a pass: the best of the free experts seen so far, if there is one.
ScanInv ==
  /\ best = None => \A e \in 0..i - 1 : e \in used
  /\ best # None =>
       /\ best \notin used /\ best < i
       /\ (\A e \in Expert : scores[e] # NaN) =>
            \A e \in 0..i - 1 : e \notin used => NoBetter(e, best)

RouteIInv ==
  /\ RouteTypeOK /\ RouteIsTopK /\ ScanInv
  /\ used = {topk_idx[p] : p \in 0..j - 1}
  /\ Cardinality(used) = j
=============================================================================
