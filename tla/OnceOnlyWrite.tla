----------------------------- MODULE OnceOnlyWrite -----------------------------
(***************************************************************************)
(* What the action gateway promises for one idempotency key, whatever      *)
(* crashes, retries, races and late messages there are: the external write *)
(* is sent at most once; its outcome is recorded at most once and only     *)
(* after it was sent; the enterprise system carries it out at most after   *)
(* it was sent; and a write recorded as FAILED is one that was refused and *)
(* never takes effect.                                                     *)
(***************************************************************************)
EXTENDS Naturals

CONSTANT Keys

VARIABLES sends,    \* how many times the write of a key was sent
          landed,   \* keys whose write took effect in the enterprise system
          refused,  \* keys whose write the enterprise system refused
          outcome   \* the durable outcome of a key

Outcomes == {"SUCCEEDED", "FAILED", "UNKNOWN", "VERIFICATION_FAILED"}

Init == /\ sends = [k \in Keys |-> 0]
        /\ landed = {}
        /\ refused = {}
        /\ outcome = [k \in Keys |-> "OPEN"]

Send(k) == /\ sends[k] = 0
           /\ sends' = [sends EXCEPT ![k] = 1]
           /\ UNCHANGED <<landed, refused, outcome>>

Land(k) == /\ sends[k] = 1
           /\ k \notin refused
           /\ landed' = landed \cup {k}
           /\ UNCHANGED <<sends, refused, outcome>>

Refuse(k) == /\ sends[k] = 1
             /\ k \notin landed
             /\ refused' = refused \cup {k}
             /\ UNCHANGED <<sends, landed, outcome>>

Settle(k, o) == /\ sends[k] = 1
                /\ outcome[k] = "OPEN"
                /\ o = "FAILED" => k \in refused
                /\ outcome' = [outcome EXCEPT ![k] = o]
                /\ UNCHANGED <<sends, landed, refused>>

Next == \E k \in Keys :
            \/ Send(k)
            \/ Land(k)
            \/ Refuse(k)
            \/ \E o \in Outcomes : Settle(k, o)

Spec == Init /\ [][Next]_<<sends, landed, refused, outcome>>
================================================================================
