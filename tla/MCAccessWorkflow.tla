--------------------------- MODULE MCAccessWorkflow ---------------------------
(* AccessWorkflow with two request handlers that are alike.                 *)
EXTENDS AccessWorkflow, TLC

ThreadSymmetry == Permutations(Threads)
===============================================================================
