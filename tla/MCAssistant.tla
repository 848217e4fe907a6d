----------------------------- MODULE MCAssistant -----------------------------
(* The assistant's model with tabs that are alike.                          *)
EXTENDS Assistant, TLC

CONSTANTS t1, t2, c1

Symmetric == Permutations(Tabs)
=============================================================================
