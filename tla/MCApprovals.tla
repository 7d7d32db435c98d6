---------------------------- MODULE MCApprovals ----------------------------
(***************************************************************************)
(* Small instances of Approvals.  Two HTTP requests: two browsers, or one  *)
(* that sends its decision twice.                                          *)
(***************************************************************************)
EXTENDS Approvals, TLC

RequestSymmetry == Permutations(Request)
=============================================================================
