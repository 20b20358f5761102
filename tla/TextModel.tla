------------------------------ MODULE TextModel ------------------------------
(***************************************************************************)
(* What a forward pass promises.  The text is read in chunks, of any       *)
(* lengths; the logits row of every token of a chunk is the one that the   *)
(* whole text up to that token determines, whatever the earlier chunks     *)
(* were.  A logits row is named by the position it was computed for, a     *)
(* token by its position in the text.                                      *)
(***************************************************************************)
EXTENDS Integers

CONSTANT Longest \* the longest chunk

VARIABLES read,  \* positions read so far
          rows   \* the logits rows of the last chunk

textVars == <<read, rows>>

Closed == -1     \* no cache: nothing can be read

TextInit == read = Closed /\ rows = <<>>

Open == read' = 0 /\ UNCHANGED rows

Close == read' = Closed /\ UNCHANGED rows

Read(n) ==
  /\ read # Closed
  /\ read' = read + n
  /\ rows' = [t \in 0..n - 1 |-> read + t]

TextNext == Open \/ Close \/ \E n \in 0..Longest : Read(n)

TextSpec == TextInit /\ [][TextNext]_textVars
=============================================================================
