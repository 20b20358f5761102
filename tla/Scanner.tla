------------------------------- MODULE Scanner -------------------------------
(***************************************************************************)
(* The pre-tokenizer of tokenizer.c: next_pretoken and its helpers, which  *)
(* unroll SCANNER_REGEX by hand.  A text is a sequence of code points, one *)
(* representative for each class of its tests: \n stands for \r too, 's    *)
(* for 't 'm 'd, 'll for 're 've, one letter, one mark and one number for  *)
(* all beyond ASCII.  A malformed byte is the classless ".", as utf8_next  *)
(* reads it.  Positions start at 1 and an end is the position after the    *)
(* match.                                                                  *)
(***************************************************************************)
EXTENDS Integers, Sequences, FiniteSetsExt

Lower == {"a", "s", "l"}      \* ASCII a-z: s as in 's 't 'm 'd, l as in 'll 're 've
Upper == {"A", "S"}           \* ASCII A-Z
Wide == {"u", "m"}            \* a letter, and a combining mark, beyond ASCII
Letter == Lower \cup Upper \cup {"u"}
Digit == {"1"}
Newline == {"n"}              \* \r and \n
White == {" ", "t"} \cup Newline
Plain == {"m", "'", "/", "."} \* neither white space, letter nor digit
CodePoint == Letter \cup Digit \cup White \cup Plain

NotLower == Upper \cup Wide   \* the letters and marks that are not a-z
NotUpper == Lower \cup Wide

NoEnd == 0                    \* the code's -1

\* The end of the longest run of code points of cps from i on.
RunEnd(s, i, cps) == Min({j \in i..Len(s) + 1 : j = Len(s) + 1 \/ s[j] \notin cps})

EndA(s, i) == RunEnd(s, i, NotLower)
EndAB(s, i) == RunEnd(s, EndA(s, i), NotUpper)
LastBoth(s, i) == {j \in i..EndA(s, i) - 1 : s[j] \in Wide}

\* Mutant: the first code point of both classes instead of the last.
Alt1EndFirst(s, i) ==
  IF EndAB(s, i) > EndA(s, i) THEN EndAB(s, i)
  ELSE IF LastBoth(s, i) # {} THEN Min(LastBoth(s, i)) + 1 ELSE NoEnd

\* A*B+: when nothing of class B follows the A run, the run gives code points
\* back until B+ can start.
Alt1End(s, i) ==
  IF EndAB(s, i) > EndA(s, i) THEN EndAB(s, i)
  ELSE IF LastBoth(s, i) # {} THEN Max(LastBoth(s, i)) + 1 ELSE NoEnd

\* A+B*
Alt2End(s, i) == IF EndA(s, i) = i THEN NoEnd ELSE EndAB(s, i)

MatchContraction(s, i) ==
  IF i + 1 > Len(s) \/ s[i] # "'" THEN 0
  ELSE IF s[i + 1] \in {"s", "S"} THEN 2
  ELSE IF i + 2 <= Len(s) /\ s[i + 1] = "l" /\ s[i + 2] = "l" THEN 3 ELSE 0

\* The first of several ends that is one.
FirstEnd(ends) == Head(SelectSeq(ends \o <<NoEnd>>, LAMBDA end : end # NoEnd) \o <<NoEnd>>)

WordEnd(s, i) ==
  LET prefixed(end) == IF s[i] \in Newline \cup Letter \cup Digit THEN NoEnd ELSE end
      end == FirstEnd(<<prefixed(Alt1End(s, i + 1)), Alt1End(s, i),
                        prefixed(Alt2End(s, i + 1)), Alt2End(s, i)>>)
  IN  IF end = NoEnd THEN NoEnd ELSE end + MatchContraction(s, end)

DigitsEnd(s, i) == IF s[i] \in Digit THEN Min({RunEnd(s, i, Digit), i + 3}) ELSE NoEnd

PlainEnd(s, i) ==
  LET from == IF s[i] = " " /\ i < Len(s) /\ s[i + 1] \in Plain THEN i + 1 ELSE i
      to == RunEnd(s, from, Plain)
  IN  IF to = from THEN NoEnd ELSE RunEnd(s, to, Newline \cup {"/"})

NewlinesEnd(s, i) ==
  LET ends == {j + 1 : j \in {k \in i..RunEnd(s, i, White) - 1 : s[k] \in Newline}}
  IN  IF ends = {} THEN NoEnd ELSE Max(ends)

\* All white space but the last, if anything else follows.
WhiteEnd(s, i) ==
  LET to == RunEnd(s, i, White)
  IN  IF to = i THEN NoEnd ELSE IF to <= Len(s) /\ to > i + 1 THEN to - 1 ELSE to

NextPretoken(s, i) ==
  FirstEnd(<<WordEnd(s, i), DigitsEnd(s, i), PlainEnd(s, i), NewlinesEnd(s, i),
             WhiteEnd(s, i), i + 1>>)
=============================================================================
