--------------------------- MODULE MCBuilderStore ---------------------------
(* Two tabs (or one) on one build, and the edits that tell the cases apart. *)
EXTENDS BuilderStore, TLC

CONSTANTS t1, t2, shape, value, plan, proposed, other

Symmetric == Permutations(Clients)
=============================================================================
