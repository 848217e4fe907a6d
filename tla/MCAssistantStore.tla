-------------------------- MODULE MCAssistantStore --------------------------
(* Instances of AssistantStore for TLC. *)
EXTENDS AssistantStore

CONSTANTS b1, b2, m1, m2, o
=============================================================================
