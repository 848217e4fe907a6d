----------------------------- MODULE MCProposals -----------------------------
(* Two sessions over one build with a device proposals refer to. *)
EXTENDS Proposals, TLC

CONSTANTS s1, s2, device, cable, note, suggested

Symmetric == Permutations(Sessions)
=============================================================================
