------------------------- MODULE MCTrieDiffRefinement -------------------------
(* The refinement of DiffSpec checked on the inputs of MCTrieDiff.         *)
EXTENDS TrieDiffRefinement, MCTrieDiff

=============================================================================
