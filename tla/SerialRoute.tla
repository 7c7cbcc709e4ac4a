------------------------------- MODULE SerialRoute -------------------------------
(***************************************************************************)
(* What a serial approval route promises: the stages approve one after the *)
(* other, in their order and once each; the route is approved exactly when *)
(* the last one has approved; one refusal ends it there; and an ended      *)
(* route stays as it is.                                                   *)
(***************************************************************************)
EXTENDS Naturals

CONSTANT Stages

VARIABLES approved,   \* the stages that have approved
          verdict

Init == approved = {} /\ verdict = "PENDING"

Approve(s) ==
    /\ verdict = "PENDING"
    /\ approved = 1..(s - 1)
    /\ approved' = 1..s
    /\ verdict' = IF s = Stages THEN "APPROVED" ELSE "PENDING"

Reject ==
    /\ verdict = "PENDING"
    /\ verdict' = "REJECTED"
    /\ UNCHANGED approved

Next == Reject \/ \E s \in 1..Stages : Approve(s)

Spec == Init /\ [][Next]_<<approved, verdict>>
================================================================================
