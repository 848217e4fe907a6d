----------------------------- MODULE MCAutosave -----------------------------
(* One tab with autosave, and the edits that tell the cases apart. *)
EXTENDS Autosave

CONSTANTS t1, t2, shape, value, plan, proposed, other
=============================================================================
