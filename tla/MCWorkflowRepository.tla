------------------------- MODULE MCWorkflowRepository -------------------------
(* The run, its trail and its ticket on a small instance: two writers, two *)
(* projectors, versions up to 4.                                           *)
EXTENDS TicketProjection, TLC

HandlerSymmetry == Permutations(Writers) \cup Permutations(Projectors)
===============================================================================
