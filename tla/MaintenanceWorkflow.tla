--------------------------- MODULE MaintenanceWorkflow ---------------------------
(***************************************************************************)
(* The equipment maintenance scenario (scenarios/equipment_maintenance):   *)
(* one approval of one action, without a plan.  The gateway call lies      *)
(* between two transactions of the run; of the exceptions it may raise,    *)
(* some take the run to a human and the others leave it executing.         *)
(***************************************************************************)
EXTENDS ApprovalPause

RouteMaintenance(target) ==
    /\ run' = [state |-> target, version |-> run.version + 2]
    /\ verdict' = IF target = "WAITING_APPROVAL" THEN "PENDING" ELSE verdict

MaintenanceTargets == {"WAITING_USER", "WAITING_APPROVAL", "WAITING_HUMAN", "COMPLETED"}

CreateMaintenance(h, target) ==
    /\ At(h, "idle") /\ Is("equipment_maintenance")
    /\ run.state = "CREATED"
    /\ RouteMaintenance(target)
    /\ UNCHANGED <<scenario, approved, progress, checkpoint, active, keys, request, faults>>

ProvideMaintenance(h, target) ==
    /\ At(h, "idle") /\ Is("equipment_maintenance")
    /\ run.state = "WAITING_USER" /\ run.version < MaxVersion
    /\ RouteMaintenance(target)
    /\ UNCHANGED <<scenario, approved, progress, checkpoint, active, keys, request, faults>>

MaintenanceCheck(h) ==
    /\ At(h, "check") /\ Is("equipment_maintenance")
    /\ request' = [request EXCEPT ![h] =
          CASE run.state = "EXECUTING" -> [@ EXCEPT !.at = "active"]
            [] run.state = "RUNNING" -> [@ EXCEPT !.at = "claim", !.version = run.version]
            [] OTHER -> Idle]
    /\ UNCHANGED <<scenario, run, route, progress, checkpoint, active, keys, faults>>

\* is_active, and again require_inactive.
MaintenanceActive(h) ==
    /\ At(h, "active") /\ Is("equipment_maintenance")
    /\ IF active THEN Reply(h) ELSE Goto(h, "interrupt")
    /\ UNCHANGED <<scenario, run, route, progress, checkpoint, active, keys, faults>>

\* Mutant: an execution that nobody is on is left as it is.
LeftExecuting(h) ==
    /\ At(h, "interrupt") /\ Is("equipment_maintenance")
    /\ Reply(h)
    /\ UNCHANGED <<scenario, run, route, progress, checkpoint, active, keys, faults>>

RecoverMaintenance(h) ==
    /\ At(h, "interrupt") /\ Is("equipment_maintenance")
    /\ IF run.state = "EXECUTING" THEN Move("WAITING_HUMAN") ELSE UNCHANGED run
    /\ Reply(h)
    /\ UNCHANGED <<scenario, route, progress, checkpoint, active, keys, faults>>

BeginMaintenance(h) ==
    /\ At(h, "begin") /\ Is("equipment_maintenance")
    /\ IF CanMove(request[h].version, "EXECUTING")
       THEN /\ Move("EXECUTING")
            /\ request' = [request EXCEPT ![h].at = "gateway", ![h].step = 1,
                                          ![h].version = run'.version]
       ELSE Goto(h, "release") /\ UNCHANGED run
    /\ UNCHANGED <<scenario, route, progress, checkpoint, active, keys, faults>>

TargetOf(outcome) ==
    CASE outcome = "SUCCEEDED"   -> "COMPLETED"
      [] outcome = "TOOL_FAILED" -> "FAILED"
      [] OTHER                   -> "WAITING_HUMAN"

FinishMaintenance(h) ==
    /\ At(h, "close") /\ Is("equipment_maintenance")
    /\ CanMove(request[h].version, TargetOf(request[h].result))
    /\ Move(TargetOf(request[h].result))
    /\ Goto(h, "release")
    /\ UNCHANGED <<scenario, route, progress, checkpoint, active, keys, faults>>

\* A refusal is caught; an error of the gateway's own database is not.
MaintenanceRaised(h) ==
    /\ At(h, "raised") /\ Is("equipment_maintenance")
    /\ IF request[h].result = "REFUSED"
       THEN CanMove(request[h].version, "WAITING_HUMAN") /\ Move("WAITING_HUMAN")
       ELSE UNCHANGED run
    /\ Goto(h, "release")
    /\ UNCHANGED <<scenario, route, progress, checkpoint, active, keys, faults>>

MaintenanceStep(h) ==
    \/ \E target \in MaintenanceTargets :
          CreateMaintenance(h, target) \/ ProvideMaintenance(h, target)
    \/ MaintenanceCheck(h) \/ MaintenanceActive(h) \/ RecoverMaintenance(h)
    \/ BeginMaintenance(h) \/ FinishMaintenance(h) \/ MaintenanceRaised(h)
================================================================================
