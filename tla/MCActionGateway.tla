---------------------------- MODULE MCActionGateway ----------------------------
(* ActionGateway on a small instance: two callers that are alike, with two  *)
(* versions of one action, or with two keys, that ask for one resource.     *)
EXTENDS ActionGateway, TLC

CONSTANTS resource, k1

SameTarget == [p \in Proposals |-> resource]

CallerSymmetry == Permutations(Callers)

Unused(k) ==
    idem[k] = None /\ sends[k] = 0 /\ \A c \in Callers : call[c] # None => call[c].key # k

\* A second version and a second key are not explored together.
VersionsOrKeys ==
    (\A a \in Actions : latest[a] <= 1) \/ (\A k \in Keys \ {k1} : Unused(k))
================================================================================
