------------------------- MODULE MCApprovalExecution -------------------------
(***************************************************************************)
(* ApprovalExecution for TLC.  Surfaces differ in nothing but their name,  *)
(* and so do helpers; no property of a run with SYMMETRY is a liveness     *)
(* property.                                                               *)
(***************************************************************************)
EXTENDS ApprovalExecution, TLC

Symmetry == Permutations(Surfaces) \cup Permutations(Helpers)
=============================================================================
