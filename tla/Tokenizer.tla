------------------------------ MODULE Tokenizer ------------------------------
(***************************************************************************)
(* tokenizer.c: tokenizer_load fills the open-addressed pair table from    *)
(* the merges of the sidecar, then one tokenizer_encode cuts a text into   *)
(* pieces and merges each piece, pair by pair, through the table.  A token *)
(* is the sequence of code points it stands for, which is what             *)
(* tokenizer_decode writes; one code point is one byte token.              *)
(***************************************************************************)
EXTENDS Regex

\* A sidecar and a text: the code points, the merges in the order of their ranks,
\* and the cell at which the hash of each merge's pair starts.
CONSTANTS Inputs,
          MaxIds   \* max_ids: the caller's REAL_MAX_PROMPT_IDS

ASSUME TokenizerAssumption ==
  /\ MaxIds \in Nat
  /\ \A in \in Inputs : in.text \in Seq(CodePoint) /\ Len(in.home) = Len(in.merges)

VARIABLES
  phase,    \* "load", "scan", "search", "merge", then "done" or "dead"
  input,
  pairs,    \* the pair table: the merge in each cell, 0 if empty
  loaded,   \* merges inserted so far
  i,        \* where the next piece begins
  end,      \* where the piece in hand ends
  sym,      \* the piece in hand
  best,     \* best_i: the place of the merge to do next, 0 if there is none
  ids       \* the tokens written so far

tokVars == <<phase, input, pairs, loaded, i, end, sym, best, ids>>

text == input.text
merges == input.merges

\* Mutant: a table that the merges can fill.
CapFull(n) == Min({c \in {2^k : k \in 0..n} : c >= n})

CapFor(n) == Min({c \in {2^k : k \in 0..n + 1} : c >= 2 * n})

TokenizerInit ==
  /\ phase = "load" /\ input \in Inputs
  /\ pairs = [c \in 0..CapFor(Len(merges)) - 1 |-> 0]
  /\ loaded = 0 /\ i = 1 /\ end = 1 /\ sym = <<>> /\ best = 0 /\ ids = <<>>

-----------------------------------------------------------------------------
(* The pair table.                                                         *)

cap == Cardinality(DOMAIN pairs)

\* The cells from which no probe that begins at cell h goes on, and the first of
\* these that it meets.
Stop(h, stops) ==
  LET n == cap  from == h % n  rest == {c \in stops : c >= from}
  IN  IF rest # {} THEN Min(rest) ELSE Min(stops)

EmptyCells == {c \in DOMAIN pairs : pairs[c] = 0}

\* A bad header, a foreign regex, or trailing bytes.
LoadRefused ==
  /\ phase = "load" /\ loaded \in {0, Len(merges)}
  /\ phase' = "dead"
  /\ UNCHANGED <<input, pairs, loaded, i, end, sym, best, ids>>

Insert ==
  /\ phase = "load" /\ loaded < Len(merges)
  /\ loaded' = loaded + 1
  /\ pairs' = [pairs EXCEPT ![Stop(input.home[loaded'], EmptyCells)] = loaded']
  /\ UNCHANGED <<phase, input, i, end, sym, best, ids>>

Loaded ==
  /\ phase = "load" /\ loaded = Len(merges)
  /\ phase' = "scan"
  /\ UNCHANGED <<input, pairs, loaded, i, end, sym, best, ids>>

\* The cells at which pair_lookup stops, and whether it stops at all.
Stops(p) == {c \in DOMAIN pairs : pairs[c] = 0 \/ merges[pairs[c]] = p}

\* A pair that no merge has may hash to any cell; it meets an empty one.
Home(p) ==
  IF \E r \in 1..Len(merges) : merges[r] = p
  THEN input.home[CHOOSE r \in 1..Len(merges) : merges[r] = p] ELSE 0

\* pair_lookup: the rank of a pair, 0 if it is not in the table.
Lookup(p) == pairs[Stop(Home(p), Stops(p))]

-----------------------------------------------------------------------------
(* tokenizer_encode and tokenizer_bpe_piece.                               *)

\* The next piece, one token a byte.
Scan ==
  /\ phase = "scan" /\ i <= Len(text)
  /\ end' = NextPretoken(text, i)
  /\ end' > i
  /\ sym' = [k \in 1..end' - i |-> <<text[i + k - 1]>>]
  /\ phase' = "search"
  /\ UNCHANGED <<input, pairs, loaded, i, best, ids>>

EncodeReturns ==
  /\ phase = "scan" /\ i > Len(text)
  /\ phase' = "done"
  /\ UNCHANGED <<input, pairs, loaded, i, end, sym, best, ids>>

Pair(k) == <<sym[k], sym[k + 1]>>
Places == 1..Len(sym) - 1

\* Mutant: the rightmost of the lowest rank.
RightmostLowest(places) ==
  LET ranks == {<<Lookup(Pair(k)), -k>> : k \in places}
  IN  -(CHOOSE p \in ranks : \A q \in ranks : p[1] < q[1] \/ (p[1] = q[1] /\ p[2] <= q[2]))[2]

\* The leftmost of the lowest rank.
LeftmostLowest(places) ==
  LET ranks == {<<Lookup(Pair(k)), k>> : k \in places}
  IN  (CHOOSE p \in ranks : \A q \in ranks : p[1] < q[1] \/ (p[1] = q[1] /\ p[2] <= q[2]))[2]

\* One pass over the neighbours; it never returns if a probe does not.
Search ==
  /\ phase = "search"
  /\ \A k \in Places : Stops(Pair(k)) # {}
  /\ LET found == {k \in Places : Lookup(Pair(k)) # 0}
     IN  best' = IF found = {} THEN 0 ELSE LeftmostLowest(found)
  /\ phase' = "merge"
  /\ UNCHANGED <<input, pairs, loaded, i, end, sym, ids>>

Merge ==
  /\ phase = "merge" /\ best > 0
  /\ sym' = SubSeq(sym, 1, best - 1) \o <<sym[best] \o sym[best + 1]>>
              \o SubSeq(sym, best + 2, Len(sym))
  /\ phase' = "search"
  /\ UNCHANGED <<input, pairs, loaded, i, end, best, ids>>

PieceEnds ==
  /\ phase = "merge" /\ best = 0
  /\ IF Len(sym) > MaxIds - Len(ids)
     THEN phase' = "dead" /\ UNCHANGED <<i, ids>>
     ELSE phase' = "scan" /\ i' = end /\ ids' = ids \o sym
  /\ UNCHANGED <<input, pairs, loaded, end, sym, best>>

TokenizerNext ==
  LoadRefused \/ Insert \/ Loaded \/ Scan \/ Search \/ Merge \/ PieceEnds \/ EncodeReturns

TokenizerSpec == TokenizerInit /\ [][TokenizerNext]_tokVars /\ WF_tokVars(TokenizerNext)

-----------------------------------------------------------------------------
(* Properties.                                                             *)

\* Every piece is the match of SCANNER_REGEX at its place: the four attempts at a
\* word, the hand-made give-backs and the order of the branches are those of a
\* backtracking matcher.
PieceFollowsRegex == phase = "search" /\ best = 0 => end = MatchEnd(text, i)

\* GPT-2's loop, from the merges and not the table: the lowest-ranked pair that
\* occurs is merged at all its places, left to right, before the next is looked for.
Occurs(s, p) == \E k \in 1..Len(s) - 1 : <<s[k], s[k + 1]>> = p

RECURSIVE MergeAll(_, _)
MergeAll(s, p) ==
  IF Len(s) < 2 THEN s
  ELSE IF <<s[1], s[2]>> = p THEN <<s[1] \o s[2]>> \o MergeAll(SubSeq(s, 3, Len(s)), p)
  ELSE <<s[1]>> \o MergeAll(Tail(s), p)

RECURSIVE Gpt2(_)
Gpt2(s) ==
  LET ranks == {r \in 1..Len(merges) : Occurs(s, merges[r])}
  IN  IF ranks = {} THEN s ELSE Gpt2(MergeAll(s, merges[Min(ranks)]))

\* tokenizer_bpe_piece merges one place at a time, "leftmost on rank ties, matching
\* HF/GPT-2": a finished piece has the tokens of that loop, whatever the table's
\* collisions.
PieceMergedAsGpt2 ==
  phase = "merge" /\ best = 0 =>
    sym = Gpt2([k \in 1..end - i |-> <<text[i + k - 1]>>])

\* Encoding ends: the scanner always makes progress, every probe meets an empty cell.
Encodes == <>(phase \in {"done", "dead"})
=============================================================================
