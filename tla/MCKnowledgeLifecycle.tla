-------------------------- MODULE MCKnowledgeLifecycle --------------------------
(* KnowledgeLifecycle, small: the jobs of one version with two workers, and  *)
(* two handlers that publish and retire two versions.                       *)
EXTENDS KnowledgeLifecycle, TLC

Symmetry == Permutations(Handlers) \cup Permutations(Documents)

Version == CHOOSE d \in Documents : TRUE
Handler == CHOOSE h \in Handlers : TRUE
Worker == CHOOSE w \in Workers : TRUE

Several == \/ \E d \in Documents \ {Version} : publication[d] # "NONE"
           \/ \E h \in Handlers \ {Handler} : ~Idle(h)

\* Several versions are uploaded, published and retired by several handlers, while one
\* worker tries each of their jobs once.
Focus ==
    Several =>
        /\ direct = {}
        /\ \A h \in Handlers : request[h].at \in {"idle", "publish", "cleanup"}
        /\ \A w \in Workers \ {Worker} : worker[w] = NoTask
        /\ \A d \in Documents : job[d].id <= 1 /\ job[d].attempts <= 1
================================================================================
