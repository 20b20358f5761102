----------------------------- MODULE MCRealLoad -----------------------------
(***************************************************************************)
(* RealLoad on a model of one dense and one sparse layer, with an error in *)
(* the manifest or in the expert index, never in both.  All matrices are   *)
(* in one part, or in parts of the same size.                              *)
(***************************************************************************)
EXTENDS RealLoad

MCTypeSizes == [f32 |-> <<1, 2>>, q |-> <<2, 2>>]

F32Entry(floats) == [type |-> "f32", shape |-> <<floats>>, offset |-> 0, nbytes |-> 2 * floats]
QuantEntry(rows) == [type |-> "q", shape |-> <<2, rows>>, offset |-> 0, nbytes |-> 2 * rows]
StackedEntry == [type |-> "q", shape |-> <<2, 1, 2>>, offset |-> 0, nbytes |-> 4]

Good ==
  [name \in {<<-1, n>> : n \in TopF32 \cup TopQuant}
            \cup UNION {{<<l, n>> : n \in F32Of(l) \cup QuantOf(l) \cup StackedOf(l)} :
                        l \in Layer} |->
     CASE name[2] \in TopQuant -> QuantEntry(2)
       [] name[2] \in TopF32 -> F32Entry(2)
       [] name[2] \in StackedOf(name[1]) -> StackedEntry
       [] name[2] \in QuantOf(name[1]) -> QuantEntry(1)
       [] name[2] \in DOMAIN KernelFloats(name[1]) -> F32Entry(KernelFloats(name[1])[name[2]])
       [] OTHER -> F32Entry(1)]

OddNames ==
  {<<-1, "token_embd">>, <<-1, "output">>, <<-1, "output_norm">>, <<0, "attn_norm">>,
   <<0, "attn_q">>, <<1, "ffn_gate_inp">>, <<1, "ffn_gate_shexp">>}

OddEntries ==
  {Absent}
  \cup [type : {"f32", "q", "other"},
        shape : {<<>>, <<2>>, <<6>>, <<2, 1>>, <<2, 2>>, <<1, 2>>, <<-2, -1>>,
                 <<2, 1, 2>>, <<2, 2, 2>>, <<2, 1, 1>>, <<1, 1, 1, 1, 1>>},
        offset : {-1, 0, 1, 4, 8, 10, 12, 13},
        nbytes : {-1, 0, 2, 3, 4, 8, 12}]

GoodManifest == manifest = Good
GoodEntries ==
  /\ offset = [x \in Entry |-> 0] /\ nbytes = [x \in Entry |-> 1]
  /\ want = [x \in Entry |-> 1] /\ part_size = [x \in Entry |-> 1]
GoodIndex == index_experts = NumRouted /\ indexed = Sparse

Init ==
  /\ \/ gpu = TRUE /\ GoodManifest /\ GoodIndex
     \/ gpu = FALSE /\ GoodManifest /\ GoodEntries /\ index_experts \in 1..2 /\ indexed \in SUBSET Layer
     \/ /\ \E name \in OddNames, entry \in OddEntries : manifest = [Good EXCEPT ![name] = entry]
        /\ gpu \in BOOLEAN /\ GoodEntries /\ GoodIndex
  /\ LoadInit
  /\ \A x, y \in Entry : part_size[x] = part_size[y]

Spec == Init /\ [][Next]_vars
=============================================================================
