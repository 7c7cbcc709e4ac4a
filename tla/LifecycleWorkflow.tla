---------------------------- MODULE LifecycleWorkflow ----------------------------
(***************************************************************************)
(* The employee lifecycle scenario (scenarios/employee_lifecycle): one     *)
(* approval, then the steps of the plan one after the other, each in a     *)
(* gateway call between two transactions.  A plan that was interrupted     *)
(* between two steps is continued, one interrupted inside a step goes to a *)
(* human.                                                                  *)
(***************************************************************************)
EXTENDS ApprovalPause

\* The policy's outcome decides where the run goes; a plan is stored with the
\* task that is to approve it.
RouteLifecycle(target) ==
    /\ run' = [state |-> target, version |-> run.version + 2]
    /\ IF target = "WAITING_APPROVAL"
       THEN AddPlan("PENDING_APPROVAL") /\ verdict' = "PENDING"
       ELSE UNCHANGED <<progress, verdict>>

LifecycleTargets == {"WAITING_USER", "WAITING_APPROVAL", "WAITING_HUMAN", "COMPLETED"}

CreateLifecycle(h, target) ==
    /\ At(h, "idle") /\ Is("employee_lifecycle")
    /\ run.state = "CREATED"
    /\ RouteLifecycle(target)
    /\ UNCHANGED <<scenario, approved, checkpoint, active, keys, request, faults>>

ProvideLifecycle(h, target) ==
    /\ At(h, "idle") /\ Is("employee_lifecycle")
    /\ run.state = "WAITING_USER" /\ run.version < MaxVersion
    /\ RouteLifecycle(target)
    /\ UNCHANGED <<scenario, approved, checkpoint, active, keys, request, faults>>

\* _execute_approved_if_needed reads the run, then the registry.
LifecycleCheck(h) ==
    /\ At(h, "check") /\ Is("employee_lifecycle")
    /\ IF run.state \in {"RUNNING", "EXECUTING"}
       THEN request' = [request EXCEPT ![h].at = "active", ![h].version = run.version]
       ELSE Reply(h)
    /\ UNCHANGED <<scenario, run, route, progress, checkpoint, active, keys, faults>>

LifecycleActive(h) ==
    /\ At(h, "active") /\ Is("employee_lifecycle")
    /\ IF active THEN Reply(h) ELSE Goto(h, "claim")
    /\ UNCHANGED <<scenario, run, route, progress, checkpoint, active, keys, faults>>

CanBeginLifecycle(h) ==
    /\ run.version = request[h].version /\ run.state \in {"RUNNING", "EXECUTING"}
    /\ CanBegin

BeginLifecycle(h) ==
    /\ At(h, "begin") /\ Is("employee_lifecycle")
    /\ IF CanBeginLifecycle(h)
       THEN /\ plan' = "EXECUTING"
            /\ run' = [state |-> "EXECUTING",
                       version |-> run.version + (IF run.state = "RUNNING" THEN 1 ELSE 0)]
            /\ request' = [request EXCEPT ![h].at = "loop", ![h].version = run'.version]
       ELSE Goto(h, "release") /\ UNCHANGED <<run, plan>>
    /\ UNCHANGED <<scenario, route, steps, checkpoint, active, keys, faults>>

Interrupted == {i \in Order : steps[i] = "EXECUTING"}
Ready == {i \in Order : steps[i] = "PENDING"}

\* The next step is stored as executing before the gateway is called.
NextStep(h) ==
    /\ At(h, "loop")
    /\ Interrupted = {}
    /\ \E i \in Ready : /\ \A j \in Ready : i <= j
                        /\ CanStart(i)
                        /\ StartStep(i)
                        /\ request' = [request EXCEPT ![h].at = "gateway", ![h].step = i]
    /\ UNCHANGED <<scenario, run, route, plan, checkpoint, active, keys, faults>>

\* _require_human without a status: the step stays as it is.
InterruptedStep(h) ==
    /\ At(h, "loop")
    /\ Interrupted # {}
    /\ CanMove(request[h].version, "WAITING_HUMAN")
    /\ Move("WAITING_HUMAN")
    /\ plan' = "WAITING_HUMAN"
    /\ Goto(h, "release")
    /\ UNCHANGED <<scenario, route, steps, checkpoint, active, keys, faults>>

CompleteLifecycle(h) ==
    /\ At(h, "loop")
    /\ Interrupted \cup Ready = {}
    /\ CanComplete(steps) /\ CanMove(request[h].version, "COMPLETED")
    /\ Move("COMPLETED")
    /\ plan' = "COMPLETED"
    /\ Goto(h, "release")
    /\ UNCHANGED <<scenario, route, steps, checkpoint, active, keys, faults>>

\* A success is stored in a transaction of its own; the loop goes on.
FinishLifecycleStep(h) ==
    /\ At(h, "close") /\ Is("employee_lifecycle")
    /\ request[h].result = "SUCCEEDED"
    /\ CanFinish(request[h].step)
    /\ steps' = Finished(request[h].step, "SUCCEEDED")
    /\ Goto(h, "loop")
    /\ UNCHANGED <<scenario, run, route, plan, checkpoint, active, keys, faults>>

\* Mutant: a step whose result is unknown does not stop the plan.
HumanForFailuresOnly(h) ==
    /\ At(h, "close") /\ Is("employee_lifecycle")
    /\ request[h].result # "SUCCEEDED"
    /\ steps' = Finished(request[h].step, "SUCCEEDED")
    /\ Goto(h, "loop")
    /\ UNCHANGED <<scenario, run, route, plan, checkpoint, active, keys, faults>>

\* Any other outcome, and any exception, takes step, plan and run to a human.
LifecycleRequiresHuman(h) ==
    /\ request[h].at \in {"close", "raised"} /\ Is("employee_lifecycle")
    /\ request[h].result # "SUCCEEDED"
    /\ CanFinish(request[h].step) /\ CanMove(request[h].version, "WAITING_HUMAN")
    /\ steps' = Finished(request[h].step, IF At(h, "raised") THEN "FAILED"
                                          ELSE StepStatusOf(request[h].result))
    /\ plan' = "WAITING_HUMAN"
    /\ Move("WAITING_HUMAN")
    /\ Goto(h, "release")
    /\ UNCHANGED <<scenario, route, checkpoint, active, keys, faults>>

LifecycleStep(h) ==
    \/ \E target \in LifecycleTargets :
          CreateLifecycle(h, target) \/ ProvideLifecycle(h, target)
    \/ LifecycleCheck(h) \/ LifecycleActive(h) \/ BeginLifecycle(h)
    \/ NextStep(h) \/ InterruptedStep(h) \/ CompleteLifecycle(h)
    \/ FinishLifecycleStep(h) \/ LifecycleRequiresHuman(h)
================================================================================
