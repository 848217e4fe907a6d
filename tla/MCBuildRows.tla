---------------------------- MODULE MCBuildRows ----------------------------
(* Instances of BuildRows for TLC. *)
EXTENDS BuildRows

CONSTANTS s1, s2, s3, l1, l2
=============================================================================
