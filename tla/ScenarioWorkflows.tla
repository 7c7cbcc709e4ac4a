---------------------------- MODULE ScenarioWorkflows ----------------------------
(***************************************************************************)
(* One run of any of the three plan scenarios: its pause, its execution    *)
(* and its human review, with requests that race and repeat, and crashes.  *)
(***************************************************************************)
EXTENDS LifecycleWorkflow, ProcurementWorkflow, MaintenanceWorkflow

HandlerStep(h) ==
    \/ LifecycleStep(h) \/ ProcurementStep(h) \/ MaintenanceStep(h)
    \/ Pause(h)
    \/ Claim(h) \/ Gateway(h) \/ ExecutionFails(h) \/ Release(h)

Next == HumanReview \/ Crash \/ \E h \in Handlers : HandlerStep(h)

Spec == Init /\ [][Next]_vars

\* A handler that has taken up a request goes on with it, and every approver
\* repeats his approval.
Continue(h) == ~At(h, "idle") /\ HandlerStep(h)
Repeat(s) == \E h \in Handlers : Decide(h, s, "APPROVED")
FairSpec ==
    /\ Spec
    /\ \A h \in Handlers : WF_vars(Continue(h))
    /\ \A s \in 1..3 : SF_vars(s <= scenario.stages /\ Repeat(s))

-----------------------------------------------------------------------------
\* Whatever is repeated, raced or interrupted, the write of a step is sent at
\* most once, after the whole route has approved it, and after the steps before
\* it have succeeded.
WritesInOrder ==
    \A i \in Order : sends[i] > 0 =>
        /\ sends[i] = 1
        /\ verdict = "APPROVED" /\ approved = scenario.stages
        /\ \A j \in 1..(i - 1) : idem[j] = "SUCCEEDED"

\* An approved run only completes after every step of its plan has succeeded,
\* or, without a plan, when a human has confirmed an uncertain write.
CompletedMeansDone ==
    run.state = "COMPLETED" /\ verdict = "APPROVED" =>
        \/ \A i \in Order : idem[i] = "SUCCEEDED"
        \/ ~HasPlan /\ sends[1] = 1 /\ idem[1] # "FAILED"
        \/ ~HasPlan /\ exec[1] = "EXECUTING"

\* Run, plan and steps tell one story, though an interrupted step is left as
\* it is: no plan is executing or finished behind a run that is not.
PlanFollowsRun ==
    HasPlan /\ verdict # "NONE" =>
        LET state == run.state IN
        /\ plan = "PENDING_APPROVAL" <=> verdict = "PENDING"
        /\ plan = "CANCELLED" <=> verdict = "REJECTED"
        /\ plan = "APPROVED" <=> state = "RUNNING"
        /\ plan = "EXECUTING" <=> state = "EXECUTING"
        /\ plan = "COMPLETED" <=> state = "COMPLETED" /\ verdict = "APPROVED"
        /\ plan = "WAITING_HUMAN" <=> state \in {"WAITING_HUMAN", "FAILED", "CANCELLED"}
        /\ (\A i \in Order : steps[i] = "SUCCEEDED") =>
              plan = IF state = "EXECUTING" THEN "EXECUTING" ELSE "COMPLETED"
        /\ plan = "COMPLETED" => \A i \in Order : steps[i] = "SUCCEEDED"

\* The pause was started again over a decided route of one stage, and the run has
\* gone on to execute: no request gets past this pause any more.
PausedForGood ==
    /\ Is("procurement") /\ scenario.stages = 1
    /\ checkpoint = "await" /\ run.state = "EXECUTING"

\* An approved run does not stay between the approval and a result: a repeated
\* approval executes it, resumes it, or hands it to a human, unless its pause is
\* one for good.
ApprovedRunsMoveOn ==
    run.state \in {"RUNNING", "EXECUTING"} ~>
        run.state \notin {"RUNNING", "EXECUTING"} \/ PausedForGood

================================================================================
