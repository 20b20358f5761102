-------------------------------- MODULE Regex --------------------------------
(***************************************************************************)
(* SCANNER_REGEX itself, over Scanner's code points, under the semantics   *)
(* of a backtracking matcher: the ends of all matches, in the order in     *)
(* which the matcher would find them.                                      *)
(***************************************************************************)
EXTENDS Scanner, SequencesExt

\* Elements of a pattern: a greedy repetition of a class, an optional choice of
\* patterns, and a negative look-ahead at a class.
Rep(cps, low, high) == [kind |-> "rep", cps |-> cps, low |-> low, high |-> high]
Star(cps) == Rep(cps, 0, 1000)
Plus(cps) == Rep(cps, 1, 1000)
Maybe(cps) == Rep(cps, 0, 1)
One(cps) == Rep(cps, 1, 1)
Optional(patterns) == [kind |-> "opt", patterns |-> patterns]
NotBefore(cps) == [kind |-> "not", cps |-> cps]

Contraction ==
  Optional(<< <<One({"'"}), One({"s", "S"})>>, <<One({"'"}), One({"l"}), One({"l"})>> >>)

\* SCANNER_REGEX, one alternative a line.
Pattern == <<
  <<Maybe(CodePoint \ (Newline \cup Letter \cup Digit)), Star(NotLower), Plus(NotUpper), Contraction>>,
  <<Maybe(CodePoint \ (Newline \cup Letter \cup Digit)), Plus(NotLower), Star(NotUpper), Contraction>>,
  <<Rep(Digit, 1, 3)>>,
  <<Maybe({" "}), Plus(CodePoint \ (White \cup Letter \cup Digit)), Star(Newline \cup {"/"})>>,
  <<Star(White), Plus(Newline)>>,
  <<Plus(White), NotBefore(CodePoint \ White)>>,
  <<Plus(White)>> >>

RECURSIVE Ends(_, _, _)
Ends(s, i, p) ==
  IF p = <<>> THEN <<i>> ELSE
  LET e == Head(p) IN
  CASE e.kind = "rep" ->
         LET most == Max({k \in 0..Len(s) + 1 - i :
                            k <= e.high /\ \A j \in i..i + k - 1 : s[j] \in e.cps})
         IN  FlattenSeq([k \in 1..most - e.low + 1 |-> Ends(s, i + most + 1 - k, Tail(p))])
    [] e.kind = "opt" ->
         FlattenSeq([k \in 1..Len(e.patterns) |-> Ends(s, i, e.patterns[k] \o Tail(p))])
           \o Ends(s, i, Tail(p))
    [] e.kind = "not" -> IF i <= Len(s) /\ s[i] \in e.cps THEN <<>> ELSE Ends(s, i, Tail(p))

\* Where the match that begins at i ends.
MatchEnd(s, i) == Head(FlattenSeq([k \in 1..Len(Pattern) |-> Ends(s, i, Pattern[k])]))
=============================================================================
