----------------------------- MODULE MCTokenizer -----------------------------
(* Two families of inputs: every short text of all code points, and longer *)
(* ones of the code points whose matches backtrack, with no merges; and    *)
(* every word of two letters with every ordered table of a few merges.     *)
EXTENDS Tokenizer

CONSTANTS ShortText, LongText, WordLength, MergeCount

Texts(cps, n) == UNION {[1..k -> cps] : k \in 1..n}

Unmerged(t) == [text |-> t, merges |-> <<>>, home |-> <<>>]

\* Tables as they come out of training: a merge that uses a token comes after
\* every merge that makes it, and no pair has two ranks.
Ordered(ms) ==
  /\ IsInjective(ms)
  /\ \A p, r \in DOMAIN ms : ms[p][1] \o ms[p][2] \in {ms[r][1], ms[r][2]} => p < r

Made(ms) == {<<"a">>, <<"l">>} \cup {ms[r][1] \o ms[r][2] : r \in DOMAIN ms}

RECURSIVE Tables(_)
Tables(n) ==
  IF n = 0 THEN {<<>>}
  ELSE LET fewer == Tables(n - 1)
       IN  fewer \cup UNION {{ms2 \in {Append(ms, p) : p \in Made(ms) \X Made(ms)} : Ordered(ms2)}
                              : ms \in fewer}

\* All pairs hash to one cell near the table's end, so that every probe wraps; up to
\* exchanging the letters, the first merge begins with an a.
Merged(t, ms) == [text |-> t, merges |-> ms, home |-> [r \in DOMAIN ms |-> 7]]

MCInputs ==
  {Unmerged(t) : t \in Texts(CodePoint, ShortText)
                       \cup Texts({"a", "A", "m", " ", "n", "."}, LongText)
                       \cup Texts({"l", "S", "u", "'", "/", "1"}, LongText)}
    \cup {Merged(t, ms) : t \in [1..WordLength -> {"a", "l"}],
                          ms \in {ts \in Tables(MergeCount) : ts = <<>> \/ ts[1][1] = <<"a">>}}
=============================================================================
