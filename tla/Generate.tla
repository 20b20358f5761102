------------------------------- MODULE Generate -------------------------------
(***************************************************************************)
(* The loops of sepia.c that drive a forward pass: run_self_test (teacher  *)
(* forcing, then greedy decoding), real_generate and its repeated runs,    *)
(* and real_print_top_logits.  Each owns its caches, counts the positions  *)
(* itself, and feeds the token it picks back in.  The GPU drivers are the  *)
(* same loops around the GPU forward pass.                                 *)
(***************************************************************************)
EXTENDS ForwardChunk, Sequences

CONSTANTS MaxPrompt,  \* bound on n_prompt
          MaxGen,     \* bound on n_gen, and on the self-test's n_decode
          MaxRepeat   \* bound on --repeat

\* An empty prompt has no last row to pick a token from; none of the loops
\* tests for one.
ASSUME GenerateAssumption ==
  /\ MaxPrompt \in Nat \ {0} /\ MaxGen \in Nat /\ MaxRepeat \in Nat \ {0}
  /\ MaxPrompt + MaxGen + 8 <= MaxCap

VARIABLES
  mode,          \* "self_test", "generate" or "logits_only"
  n_prompt, n_gen, n_repeat,
  eos,           \* the first position whose token is the end-of-text token
  at,            \* where the loop is
  run, i, pos,
  cur,           \* the logits row the next token is picked from
  printed,       \* the tokens picked in this run
  prefill_ok     \* every row of the teacher-forced pass matched

inputs == <<mode, n_prompt, n_gen, n_repeat, eos>>
loopVars == <<at, run, i, pos, cur, printed, prefill_ok>>
vars == <<forwardVars, inputs, loopVars>>

FullLen == n_prompt + n_gen

\* Mutant: the self-test's cache has no room for the last decoded token.
CapTight ==
  CASE mode = "generate" -> n_prompt + n_gen + 8
    [] mode = "logits_only" -> n_prompt
    [] mode = "self_test" -> IF FullLen > n_prompt THEN FullLen - 1 ELSE FullLen

\* The capacity each loop asks for.
Cap ==
  CASE mode = "generate" -> n_prompt + n_gen + 8
    [] mode = "logits_only" -> n_prompt
    [] mode = "self_test" -> FullLen

\* The first n tokens of the text.
FirstTokens(n) == [t \in 0..n - 1 |-> t]

\* argmax of a logits row: the token that follows its position.
Argmax(row) == IF row = BadToken THEN BadToken ELSE row + 1

Init ==
  /\ ForwardInit
  /\ mode \in {"self_test", "generate", "logits_only"}
  /\ n_prompt \in 1..MaxPrompt /\ n_gen \in 0..MaxGen
  /\ eos \in 0..MaxPrompt + MaxGen
  /\ n_repeat \in 1..MaxRepeat
  /\ mode # "generate" => eos = 0 /\ n_repeat = 1
  /\ at = IF mode = "self_test" THEN "teacher" ELSE "prompt"
  /\ run = 0 /\ i = 0 /\ pos = 0 /\ cur = BadToken /\ printed = <<>>
  /\ prefill_ok = FALSE

\* The driver moves, or a forward pass it called runs.
Drive(from, to) == at = from /\ at' = to /\ UNCHANGED inputs

OpenCache ==
  /\ at \in {"teacher", "prompt"}
  /\ CacheCreate(Cap)
  /\ UNCHANGED <<inputs, loopVars>>

TeacherForce ==
  /\ Drive("teacher", "teacher_forced")
  /\ Forward(FirstTokens(FullLen), FullLen, 0)
  /\ UNCHANGED <<run, i, pos, cur, printed, prefill_ok>>

TeacherCheck ==
  /\ Drive("teacher_forced", "prompt")
  /\ CacheFree
  /\ prefill_ok' = \A t \in 0..FullLen - 1 : Argmax(logits[t]) = t + 1
  /\ UNCHANGED <<run, i, pos, cur, printed>>

Prefill ==
  /\ Drive("prompt", "prefill")
  /\ Forward(FirstTokens(n_prompt), n_prompt, 0)
  /\ i' = 0 /\ pos' = n_prompt /\ printed' = <<>>
  /\ UNCHANGED <<run, cur, prefill_ok>>

\* Mutant: the token is picked from the prompt's first row.
FirstRow == IF at = "prefill" /\ n_prompt > 1 THEN 0 ELSE T - 1

\* The row a call leaves for the next pick: the prompt's last one, or the only one.
LastRow == IF at = "prefill" THEN n_prompt - 1 ELSE 0

TakeRow ==
  /\ at \in {"prefill", "decode"} /\ pc = "idle"
  /\ at' = "pick"
  /\ cur' = logits[LastRow]
  /\ UNCHANGED <<forwardVars, inputs, run, i, pos, printed, prefill_ok>>

\* Mutant: the end-of-text token does not stop the loop.
EosIgnored == FALSE

\* real_generate breaks at the end-of-text token; the self-test does not look.
EosPicked == mode = "generate" /\ Argmax(cur) = eos

LoopLimit == IF mode = "logits_only" THEN 0 ELSE n_gen

\* One turn of the decode loop: print the token and read it in turn.
Pick ==
  /\ Drive("pick", "decode")
  /\ i < LoopLimit /\ ~EosPicked
  /\ printed' = Append(printed, Argmax(cur))
  /\ Forward([t \in {0} |-> Argmax(cur)], 1, pos)
  /\ i' = i + 1 /\ pos' = pos + 1
  /\ UNCHANGED <<run, cur, prefill_ok>>

\* The turn that breaks.
PickEos ==
  /\ Drive("pick", "close")
  /\ i < LoopLimit /\ EosPicked
  /\ printed' = Append(printed, Argmax(cur))
  /\ UNCHANGED <<forwardVars, run, i, pos, cur, prefill_ok>>

LoopEnds ==
  /\ Drive("pick", "close")
  /\ i = LoopLimit
  /\ UNCHANGED <<forwardVars, run, i, pos, cur, printed, prefill_ok>>

\* Mutant: a run that was cut short is not counted.
RunUncounted == IF i < LoopLimit THEN run ELSE run + 1

NextRun == run + 1

MoreRuns(r) == mode = "generate" /\ r < n_repeat

\* cache_free; main starts the next run of --repeat, or ends.
CloseCache ==
  /\ at = "close"
  /\ CacheFree
  /\ run' = NextRun
  /\ at' = IF MoreRuns(run') THEN "prompt" ELSE "done"
  /\ UNCHANGED <<inputs, i, pos, cur, printed, prefill_ok>>

Compute == (Layers \/ Logits) /\ UNCHANGED <<inputs, loopVars>>

Step ==
  \/ OpenCache \/ TeacherForce \/ TeacherCheck \/ Prefill \/ TakeRow
  \/ Pick \/ PickEos \/ LoopEnds \/ CloseCache \/ Compute

Done == at = "done" /\ UNCHANGED vars

Next == Step \/ Done

\* One thread runs the loop to its end.
Spec == Init /\ [][Next]_vars /\ WF_vars(Step)

-----------------------------------------------------------------------------
(* Properties.                                                             *)

LoopTypeOK ==
  /\ at \in {"teacher", "teacher_forced", "prompt", "prefill", "pick", "decode",
            "close", "done"}
  /\ mode \in {"self_test", "generate", "logits_only"}
  /\ n_prompt \in 1..MaxPrompt /\ n_gen \in 0..MaxGen /\ eos \in Nat
  /\ n_repeat \in 1..MaxRepeat /\ (mode # "generate" => n_repeat = 1)
  /\ run \in 0..n_repeat /\ i \in 0..n_gen /\ pos \in Nat
  /\ cur \in Nat \cup {BadToken} /\ printed \in Seq(Nat) /\ prefill_ok \in BOOLEAN

TypeOK == ForwardTypeOK /\ LoopTypeOK

\* Every printed token is the one that the prompt and all the tokens printed
\* before it determine, in every run of --repeat: no run sees another's cache.
PrintsGreedyText == \A j \in 1..Len(printed) : printed[j] = n_prompt + j - 1

\* The forward pass that was called last read n tokens from position s.
Called(n, s) ==
  /\ pc # "none" /\ T = n /\ start_pos = s
  /\ pc = "idle" => layers[0].len = s + n /\ logits = [t \in 0..n - 1 |-> s + t]

Looping == {"prefill", "pick", "decode"}

\* What the cache holds, and what the picked row answers for, at each place.
PlaceInv ==
  /\ pc # "none" => cap = Cap
  /\ at \in {"teacher", "prompt"} => pc \in {"none", "idle"} /\ (pc = "idle" => layers[0].len = 0)
  /\ at \in {"teacher", "teacher_forced"} => mode = "self_test"
  /\ at = "teacher_forced" => Called(FullLen, 0)
  /\ at = "prefill" => Called(n_prompt, 0) /\ i = 0
  /\ at = "decode" => Called(1, pos - 1) /\ i > 0
  /\ at \in {"pick", "close"} => pc = "idle" /\ layers[0].len = pos
  /\ at = "pick" => cur = pos - 1
  /\ at \in Looping \cup {"close"} => pos = n_prompt + i /\ i <= LoopLimit
  /\ at = "done" => pc = "none"

\* What has been printed: one token a turn, and the end-of-text token only by the
\* turn that breaks.
PrintInv ==
  /\ at \in Looping => Len(printed) = i
  /\ at = "close" => Len(printed) \in {i, i + 1}
  /\ at \in {"close", "done"} /\ mode # "generate" => Len(printed) = LoopLimit
  /\ mode = "generate" => \A j \in 1..Len(printed) : printed[j] = eos =>
       at \notin Looping /\ j = Len(printed) /\ (at = "close" => j = i + 1)

RunInv ==
  /\ mode = "self_test" /\ at \notin {"teacher", "teacher_forced"} => prefill_ok
  /\ at # "done" => run < n_repeat

\* Inductive together with the forward pass's own invariant.
LoopInv == PlaceInv /\ PrintInv /\ RunInv

GenerateInv == TypeOK /\ PrintsGreedyText /\ NeverOverruns /\ LoopInv

\* The self-test accepts a correct forward pass: one chunk of the whole text and
\* prompt-then-single-tokens give the same rows.
SelfTestPasses ==
  at = "done" /\ mode = "self_test" =>
    /\ prefill_ok
    /\ Len(printed) = n_gen /\ \A j \in 1..n_gen : printed[j] = n_prompt + j - 1

\* Nothing is printed or computed after the end-of-text token.
NothingAfterEos ==
  mode = "generate" => \A j \in 1..Len(printed) : printed[j] = eos =>
    /\ j = Len(printed)
    /\ pc = "idle" => layers[0].len < n_prompt + j

\* Every loop keeps the contract the forward pass was verified under: chunks
\* continue the text where the cache ends, and there is room for them.
KeepsContract == ForwardInit /\ [][ForwardNext]_forwardVars

\* Every loop ends.
Finishes == <>(at = "done")
=============================================================================
