--------------------------- MODULE ProcurementWorkflow ---------------------------
(***************************************************************************)
(* The procurement scenario (scenarios/procurement): a serial route of     *)
(* approvals, then one purchase.  Step, plan and run change in the same    *)
(* transactions, and an execution that was interrupted goes to a human.    *)
(***************************************************************************)
EXTENDS ApprovalPause

\* Missing information, an error of the policy, or a plan with its route.
RouteProcurement(target) ==
    /\ run' = [state |-> target, version |-> run.version + 2]
    /\ IF target = "WAITING_APPROVAL"
       THEN AddPlan("PENDING_APPROVAL") /\ verdict' = "PENDING"
       ELSE UNCHANGED <<progress, verdict>>

ProcurementTargets == {"WAITING_USER", "WAITING_APPROVAL", "WAITING_HUMAN"}

CreateProcurement(h, target) ==
    /\ At(h, "idle") /\ Is("procurement")
    /\ run.state = "CREATED"
    /\ RouteProcurement(target)
    /\ UNCHANGED <<scenario, approved, checkpoint, active, keys, request, faults>>

ProvideProcurement(h, target) ==
    /\ At(h, "idle") /\ Is("procurement")
    /\ run.state = "WAITING_USER" /\ run.version < MaxVersion
    /\ RouteProcurement(target)
    /\ UNCHANGED <<scenario, approved, checkpoint, active, keys, request, faults>>

ProcurementCheck(h) ==
    /\ At(h, "check") /\ Is("procurement")
    /\ request' = [request EXCEPT ![h] =
          CASE run.state = "EXECUTING" -> [@ EXCEPT !.at = "active"]
            [] run.state = "RUNNING" -> [@ EXCEPT !.at = "claim", !.version = run.version]
            [] OTHER -> Idle]
    /\ UNCHANGED <<scenario, run, route, progress, checkpoint, active, keys, faults>>

\* is_active, and again require_inactive.
ProcurementActive(h) ==
    /\ At(h, "active") /\ Is("procurement")
    /\ IF active THEN Reply(h) ELSE Goto(h, "interrupt")
    /\ UNCHANGED <<scenario, run, route, progress, checkpoint, active, keys, faults>>

\* The run is read again: only one that still executes is handed to a human.
RecoverProcurement(h) ==
    /\ At(h, "interrupt") /\ Is("procurement")
    /\ IF run.state = "EXECUTING" /\ steps[1] = "EXECUTING"
       THEN /\ steps' = Finished(1, "RESULT_UNKNOWN")
            /\ plan' = "WAITING_HUMAN"
            /\ Move("WAITING_HUMAN")
       ELSE UNCHANGED <<run, progress>>
    /\ Reply(h)
    /\ UNCHANGED <<scenario, route, checkpoint, active, keys, faults>>

BeginProcurement(h) ==
    /\ At(h, "begin") /\ Is("procurement")
    /\ IF run.version = request[h].version /\ run.state = "RUNNING" /\ CanBegin /\ CanStart(1)
       THEN /\ plan' = "EXECUTING"
            /\ StartStep(1)
            /\ Move("EXECUTING")
            /\ request' = [request EXCEPT ![h].at = "gateway", ![h].step = 1,
                                          ![h].version = run'.version]
       ELSE Goto(h, "release") /\ UNCHANGED <<run, progress>>
    /\ UNCHANGED <<scenario, route, checkpoint, active, keys, faults>>

CompleteProcurement(h) ==
    /\ At(h, "close") /\ Is("procurement")
    /\ request[h].result = "SUCCEEDED"
    /\ CanFinish(1) /\ CanMove(request[h].version, "COMPLETED")
    /\ steps' = Finished(1, "SUCCEEDED") /\ CanComplete(steps')
    /\ plan' = "COMPLETED"
    /\ Move("COMPLETED")
    /\ Goto(h, "release")
    /\ UNCHANGED <<scenario, route, checkpoint, active, keys, faults>>

ProcurementRequiresHuman(h) ==
    /\ request[h].at \in {"close", "raised"} /\ Is("procurement")
    /\ request[h].result # "SUCCEEDED"
    /\ CanFinish(1) /\ CanMove(request[h].version, "WAITING_HUMAN")
    /\ steps' = Finished(1, IF At(h, "raised") THEN "FAILED" ELSE StepStatusOf(request[h].result))
    /\ plan' = "WAITING_HUMAN"
    /\ Move("WAITING_HUMAN")
    /\ Goto(h, "release")
    /\ UNCHANGED <<scenario, route, checkpoint, active, keys, faults>>

ProcurementStep(h) ==
    \/ \E target \in ProcurementTargets :
          CreateProcurement(h, target) \/ ProvideProcurement(h, target)
    \/ ProcurementCheck(h) \/ ProcurementActive(h) \/ RecoverProcurement(h)
    \/ BeginProcurement(h) \/ CompleteProcurement(h) \/ ProcurementRequiresHuman(h)
================================================================================
