--------------------------------- MODULE PlanRun ---------------------------------
(***************************************************************************)
(* What the employee lifecycle, procurement and equipment maintenance      *)
(* workflows of backend/app/scenarios share: the stored run, its approvals *)
(* and its action plan (one MySQL database, one transaction per step       *)
(* here), the LangGraph checkpoint of the approval pause (SQLite, written  *)
(* on its own), the registry of running executions (memory), and one       *)
(* gateway call per step of the plan.  ApprovalSequence, WorkflowRepository *)
(* and ActionGateway model the transactions and the gateway in detail.     *)
(***************************************************************************)
EXTENDS EnterpriseCall

CONSTANTS Handlers,    \* request handlers of the one backend process
          Scenarios,   \* the kinds of run: scenario, stages, number of steps
          MaxVersion,  \* bound: no information and no note from this version on
          MaxFaults,   \* bound on crashes and on failures of the own database
          None

VARIABLES
    scenario,    \* the kind of this run
    run,         \* WorkflowRun: state and version
    approved,    \* how many stages have approved; a single task is one stage
    verdict,     \* the status of the task or of the sequence
    plan,        \* ActionPlanRecord.status; a maintenance order has no plan
    steps,       \* ActionPlanStepRecord.status
    checkpoint,  \* the graph: not started, paused at the approval, ended
    active,      \* ExecutionActivityRegistry: the run is claimed
    idem,        \* IdempotencyRecord.status, by step: the key names the step
    exec,        \* ActionExecutionRecord.status, by step
    sends,       \* history: how often the write of a step was sent
    request,     \* what each handler is doing
    faults       \* how many crashes and failures there were

route == <<approved, verdict>>
progress == <<plan, steps>>
keys == <<idem, exec, sends>>
vars == <<scenario, run, route, progress, checkpoint, active, keys, request, faults>>

Lifecycle == INSTANCE WorkflowLifecycle WITH state <- run.state, version <- run.version

Kinds == [key : {"employee_lifecycle", "procurement", "equipment_maintenance"},
          stages : Nat \ {0}, steps : Nat \ {0}]

\* Only procurement has a serial route, and only a lifecycle plan several steps.
ASSUME ScenarioAssumption ==
    /\ Scenarios \subseteq Kinds
    /\ \A s \in Scenarios : /\ s.key # "procurement" => s.stages = 1
                            /\ s.key # "employee_lifecycle" => s.steps = 1
ASSUME BoundsAssumption == MaxVersion \in Nat /\ MaxFaults \in Nat

Is(key) == scenario.key = key
Order == 1..scenario.steps
HasPlan == ~Is("equipment_maintenance")

Outcomes == {"SUCCEEDED", "TOOL_FAILED", "RESULT_UNKNOWN", "VERIFICATION_FAILED"}
PlanStatuses == {"NONE", "PENDING_APPROVAL", "APPROVED", "CANCELLED", "EXECUTING",
                 "COMPLETED", "WAITING_HUMAN"}
StepStatuses == {"NONE", "BLOCKED", "PENDING", "EXECUTING", "SUCCEEDED", "FAILED",
                 "RESULT_UNKNOWN", "VERIFICATION_FAILED"}
KeyStatuses == {"NONE", "IN_PROGRESS", "SUCCEEDED", "FAILED", "UNKNOWN", "VERIFICATION_FAILED"}
Phases == {"idle", "invoke", "decide", "recorded", "resume", "check", "active", "claim",
           "recover", "interrupt", "begin", "loop", "gateway", "start", "send", "finalize",
           "finish", "close", "raised", "release"}
\* "RECORDED": no decision of its own, only that the recorded one be resumed.
Orders == {"APPROVED", "REJECTED", "RECORDED"}
\* version: what the client has seen, later what the execution expects.  seen:
\* the checkpoint or the state of the run the handler has read.
Requests == [at : Phases, order : Orders \cup {None}, stage : Nat, version : Nat,
             seen : Lifecycle!WorkflowStates \cup {"none", "await", "end"}, step : Nat,
             result : Outcomes \cup {"none", "REFUSED", "ERROR"}]

Idle == [at |-> "idle", order |-> None, stage |-> 0, version |-> 0, seen |-> "none",
         step |-> 0, result |-> "none"]

TypeOK ==
    /\ scenario \in Scenarios
    /\ run \in [state : Lifecycle!WorkflowStates, version : Nat]
    /\ approved \in 0..scenario.stages
    /\ verdict \in {"NONE", "PENDING", "APPROVED", "REJECTED"}
    /\ plan \in PlanStatuses
    /\ steps \in [Order -> StepStatuses]
    /\ checkpoint \in {"none", "await", "end"}
    /\ active \in BOOLEAN
    /\ idem \in [Order -> KeyStatuses]
    /\ exec \in [Order -> Outcomes \cup {"NONE", "EXECUTING"}]
    /\ sends \in [Order -> Nat]
    /\ request \in [Handlers -> Requests]
    /\ faults \in 0..MaxFaults

Init ==
    /\ scenario \in Scenarios
    /\ run = [state |-> "CREATED", version |-> 0]
    /\ approved = 0
    /\ verdict = "NONE"
    /\ plan = "NONE"
    /\ steps = [i \in Order |-> "NONE"]
    /\ checkpoint = "none"
    /\ active = FALSE
    /\ idem = [i \in Order |-> "NONE"]
    /\ exec = [i \in Order |-> "NONE"]
    /\ sends = [i \in Order |-> 0]
    /\ request = [h \in Handlers |-> Idle]
    /\ faults = 0

-----------------------------------------------------------------------------
(* Steps a handler is made of.                                             *)

At(h, phase) == request[h].at = phase
Goto(h, phase) == request' = [request EXCEPT ![h].at = phase]
Reply(h) == request' = [request EXCEPT ![h] = Idle]

\* WorkflowRepository.transition inside a transaction of its caller.
CanMove(expected, target) ==
    run.version = expected /\ Lifecycle!CanTransition(run.state, target)
Move(target) == run' = [state |-> target, version |-> run.version + 1]
Progress == run' = [run EXCEPT !.version = @ + 1]

\* ActionPlanRepository.
Succeeded == {i \in Order : steps[i] = "SUCCEEDED"}
AddPlan(status) ==
    /\ plan' = status
    /\ steps' = [i \in Order |-> IF i = 1 THEN "PENDING" ELSE "BLOCKED"]

CanBegin == plan \in {"APPROVED", "EXECUTING"}
\* Each step depends on the one before it.
CanStart(i) == steps[i] = "PENDING" /\ (i > 1 => i - 1 \in Succeeded)
StartStep(i) == steps' = [steps EXCEPT ![i] = "EXECUTING"]
CanFinish(i) == steps[i] = "EXECUTING"

\* The step's outcome; a success unlocks the step that depends on it.
Finished(i, status) ==
    [j \in Order |-> IF j = i THEN status
                     ELSE IF j = i + 1 /\ status = "SUCCEEDED" THEN "PENDING"
                     ELSE steps[j]]
CanComplete(after) == \A i \in Order : after[i] = "SUCCEEDED"

-----------------------------------------------------------------------------
(* ActionGateway.execute for the step request[h].step.                     *)

Raise(h, error) == request' = [request EXCEPT ![h].at = "raised", ![h].result = error]
Return(h, outcome) == request' = [request EXCEPT ![h].at = "close", ![h].result = outcome]

\* A check before the key is reserved refuses the step.
Refuse(h) ==
    /\ At(h, "gateway")
    /\ Raise(h, "REFUSED")
    /\ UNCHANGED <<scenario, run, route, progress, checkpoint, active, keys, faults>>

\* PersistentIdempotencyStore.reserve: a new key, the replay of a success, or an
\* error.
Reserve(h) ==
    /\ At(h, "gateway")
    /\ LET k == request[h].step IN
       /\ idem' = [idem EXCEPT ![k] = IF @ = "NONE" THEN "IN_PROGRESS" ELSE @]
       /\ CASE idem[k] = "NONE" -> Goto(h, "start")
            [] idem[k] = "SUCCEEDED" -> Return(h, "SUCCEEDED")
            [] OTHER -> Raise(h, "ERROR")
    /\ UNCHANGED <<scenario, run, route, progress, checkpoint, active, exec, sends, faults>>

Start(h) ==
    /\ At(h, "start")
    /\ exec' = [exec EXCEPT ![request[h].step] = "EXECUTING"]
    /\ Goto(h, "send")
    /\ UNCHANGED <<scenario, run, route, progress, checkpoint, active, idem, sends, faults>>

\* The write is sent, answered or not, and verified or not.
Send(h, outcome) ==
    /\ At(h, "send")
    /\ sends' = [sends EXCEPT ![request[h].step] = @ + 1]
    /\ request' = [request EXCEPT ![h].at = "finalize", ![h].result = outcome]
    /\ UNCHANGED <<scenario, run, route, progress, checkpoint, active, idem, exec, faults>>

KeyStatusOf(outcome) ==
    CASE outcome = "TOOL_FAILED"    -> "FAILED"
      [] outcome = "RESULT_UNKNOWN" -> "UNKNOWN"
      [] OTHER                      -> outcome

Finalize(h) ==
    /\ At(h, "finalize")
    /\ idem' = [idem EXCEPT ![request[h].step] = KeyStatusOf(request[h].result)]
    /\ Goto(h, "finish")
    /\ UNCHANGED <<scenario, run, route, progress, checkpoint, active, exec, sends, faults>>

Finish(h) ==
    /\ At(h, "finish")
    /\ exec' = [exec EXCEPT ![request[h].step] = request[h].result]
    /\ Goto(h, "close")
    /\ UNCHANGED <<scenario, run, route, progress, checkpoint, active, idem, sends, faults>>

Fault == faults < MaxFaults /\ faults' = faults + 1

\* A transaction of the gateway fails: the exception leaves execute().
GatewayFails(h) ==
    /\ request[h].at \in {"gateway", "start", "finalize", "finish"}
    /\ Fault
    /\ Raise(h, "ERROR")
    /\ UNCHANGED <<scenario, run, route, progress, checkpoint, active, keys>>

\* The scenarios are composed with the MCP client and the gateway's token; what
\* a write can end in does not depend on which method the step calls.
SeenByTool == UNION {Seen("action_gateway", method) : method \in WriteMethods}
LifecycleAnswers == UNION {GatewayOutcomes(LifecycleToolStatus(s)) : s \in SeenByTool}
ProcurementAnswers ==
    UNION {GatewayOutcomes(ProcurementToolStatus(s, found)) : s \in SeenByTool, found \in BOOLEAN}
MaintenanceAnswers == UNION {GatewayOutcomes(MaintenanceToolStatus(s)) : s \in SeenByTool}
Answers ==
    CASE Is("employee_lifecycle")    -> LifecycleAnswers
      [] Is("procurement")           -> ProcurementAnswers
      [] Is("equipment_maintenance") -> MaintenanceAnswers

Gateway(h) ==
    \/ Refuse(h) \/ Reserve(h) \/ Start(h)
    \/ \E outcome \in Answers : Send(h, outcome)
    \/ Finalize(h) \/ Finish(h) \/ GatewayFails(h)

StepStatusOf(outcome) == IF outcome = "TOOL_FAILED" THEN "FAILED" ELSE outcome

-----------------------------------------------------------------------------
(* The claim of the run, which no two executions hold.                     *)

\* Mutant: the registry lets a second execution in.
ClaimAnyway(h) ==
    /\ At(h, "claim")
    /\ active' = TRUE
    /\ Goto(h, "begin")
    /\ UNCHANGED <<scenario, run, route, progress, checkpoint, keys, faults>>

Claim(h) ==
    /\ At(h, "claim")
    /\ IF active THEN Reply(h) /\ UNCHANGED active
                 ELSE Goto(h, "begin") /\ active' = TRUE
    /\ UNCHANGED <<scenario, run, route, progress, checkpoint, keys, faults>>

Release(h) ==
    /\ At(h, "release")
    /\ active' = FALSE
    /\ Reply(h)
    /\ UNCHANGED <<scenario, run, route, progress, checkpoint, keys, faults>>

\* A transaction of an execution fails: what it would have written is gone.
ExecutionFails(h) ==
    /\ request[h].at \in {"begin", "loop", "close", "raised"}
    /\ Fault
    /\ Goto(h, "release")
    /\ UNCHANGED <<scenario, run, route, progress, checkpoint, active, keys>>

\* The backend process dies.
Crash ==
    /\ \E h \in Handlers : ~At(h, "idle")
    /\ Fault
    /\ active' = FALSE
    /\ request' = [h \in Handlers |-> Idle]
    /\ UNCHANGED <<scenario, run, route, progress, checkpoint, keys>>

-----------------------------------------------------------------------------
(* HumanReviewService.decide.                                              *)

\* Mutant: any run without a plan can be confirmed.
AnyConfirmed == ~HasPlan

\* Success can only be confirmed of one action with an uncertain attempt.
Reconcilable == ~HasPlan /\ exec[1] \in {"EXECUTING", "RESULT_UNKNOWN", "VERIFICATION_FAILED"}

Review(target) ==
    /\ run.state = "WAITING_HUMAN"
    /\ target = "COMPLETED" => Reconcilable
    /\ Move(target)
    /\ UNCHANGED <<scenario, route, progress, checkpoint, active, keys, request, faults>>

Note ==
    /\ run.state = "WAITING_HUMAN" /\ run.version < MaxVersion
    /\ Progress
    /\ UNCHANGED <<scenario, route, progress, checkpoint, active, keys, request, faults>>

HumanReview == Note \/ \E target \in {"COMPLETED", "FAILED", "CANCELLED"} : Review(target)
================================================================================
