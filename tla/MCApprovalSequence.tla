-------------------------- MODULE MCApprovalSequence --------------------------
(* ApprovalSequence with the longest route and three handlers that are alike. *)
EXTENDS ApprovalSequence, TLC

DeciderSymmetry == Permutations(Deciders)
===============================================================================
