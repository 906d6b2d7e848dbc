--------------------------- MODULE MCDynamicRoots ---------------------------
(* Instances of DynamicRoots for TLC. *)
EXTENDS DynamicRoots
=============================================================================
