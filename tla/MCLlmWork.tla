----------------------------- MODULE MCLlmWork -----------------------------
(* Small instances of LlmWork.  Extractions: nothing valid, a row and its   *)
(* correction, and rows of two benchmarks, which cannot both be stored.      *)
EXTENDS LlmWork

MCRow(b, s) == [benchmark |-> b, score |-> s]

MCOutputs ==
  { <<>>, <<MCRow("b1", 1), MCRow("b1", 2)>>, <<MCRow("b1", 2), MCRow("b2", 1)>> }

MCPosts == {MCRow("b1", 1), MCRow("b2", 1)}

Symmetry == Permutations(Caller)
=============================================================================
