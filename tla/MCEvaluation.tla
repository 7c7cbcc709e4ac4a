------------------------------ MODULE MCEvaluation ------------------------------
(* Evaluation runs and their governance, small: several workers on one run, *)
(* two runs in one claim, and operators who act on what one worker did.     *)
EXTENDS EvaluationGovernance

Sole == CHOOSE w \in Workers : TRUE
Governed == bad # [b \in BadCases |-> NoBadCase] \/ command # [h \in Handlers |-> NoCommand]
            \/ Current(baseline) # {}

\* The operators act while no two workers disturb each other (what they read of a
\* completed run no longer changes then), on the first case of the first run.
Focus ==
    /\ \A b \in BadCases : bad[b].status # "NONE" => b = <<1, 1>>
    /\ \A r \in Runs : results[r][2].status \in {"NONE", "PASSED"}
    /\ \A w \in Workers : worker[w].case = 2 => worker[w].result.status \in {"NONE", "PASSED"}
    /\ Governed =>
        /\ crashes = 0
        /\ \A r \in Runs : ~run[r].due /\ lock[r] = None /\ spent[r] = 0 /\ run[r].attempts <= 1
        /\ \A w \in Workers : worker[w].at # "idle" => w = Sole

\* The runs follow each other: the next is created when the one before has been
\* abandoned in its last attempt, so that one claim may find them both, or has been
\* completed in its first; what they spend is left to the runs that are alone.
Staggered ==
    \A r \in Runs, q \in Runs :
        (q < r /\ run[r].status # "NONE") =>
            /\ \/ run[q].status \in {"RUNNING", "FAILED"} /\ run[q].attempts = MaxAttempts
               \/ Governed /\ run[r].of # None
            /\ \/ Governed
               \/ /\ \A w \in Workers : worker[w].run # q
                  /\ \A c \in Cases : results[q][c].status \in {"NONE", "PASSED"}
                  /\ \A c \in Cases : results[r][c].status \in {"NONE", "PASSED"}
            /\ run[r].attempts <= 1
            /\ crashes = 0 /\ spent[q] = 0 /\ spent[r] = 0

================================================================================
