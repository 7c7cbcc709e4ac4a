------------------------- MODULE ScenarioWorkflowsProofs -------------------------
(***************************************************************************)
(* For any number of handlers, stages and steps: the writes of a run come  *)
(* once and in order, and run, plan, steps and keys agree.                 *)
(***************************************************************************)
EXTENDS ScenarioWorkflows, TLAPS

\* The phases of an execution, from its claim to the release; those in which
\* it owns the run; and those in which it is inside one step.
InStep == {"gateway", "start", "send", "finalize", "finish", "close", "raised"}
Executing == InStep \cup {"loop"}
Holding == Executing \cup {"begin", "release"}

\* The states of a run that has begun to execute, none of which it leaves for another one.
Past == {"EXECUTING", "WAITING_HUMAN", "COMPLETED", "FAILED", "CANCELLED"}

OneHolder ==
    \A g, h \in Handlers :
        request[g].at \in Holding =>
            /\ active
            /\ request[h].at \in Holding => g = h

RunFollowsVerdict ==
    /\ run.state \in {"CREATED", "WAITING_USER"} => verdict = "NONE"
    /\ run.state = "WAITING_APPROVAL" <=> verdict = "PENDING"
    /\ run.state \in {"RUNNING", "EXECUTING"} => verdict = "APPROVED"
    /\ verdict = "APPROVED" =>
          approved = scenario.stages /\ run.state \in Past \cup {"RUNNING"}
    /\ verdict = "REJECTED" => run.state = "COMPLETED"

StepsInOrder ==
    /\ \A i \in Order :
          /\ steps[i] \notin {"NONE", "BLOCKED"} => \A j \in 1..(i - 1) : steps[j] = "SUCCEEDED"
          /\ steps[i] = "SUCCEEDED" => idem[i] = "SUCCEEDED"
    /\ HasPlan /\ plan \in {"PENDING_APPROVAL", "CANCELLED", "APPROVED"} => steps[1] = "PENDING"

KeysAgree ==
    \A i \in Order :
        /\ idem[i] = "NONE" => sends[i] = 0
        /\ exec[i] \in {"RESULT_UNKNOWN", "VERIFICATION_FAILED"} =>
              sends[i] = 1 /\ idem[i] # "FAILED"

\* What the phase of a handler says of its run.
Waits(r) ==
    /\ r.at = "decide" => r.order \in {"APPROVED", "REJECTED"}
    /\ r.at \in {"active", "interrupt"} /\ ~Is("employee_lifecycle") => run.state \in Past
    /\ r.at = "interrupt" =>
          ~Is("employee_lifecycle") /\ \A g \in Handlers : request[g].at \notin Executing

\* What a write can end in: no exception of the MCP client is a refusal.
Ends == Outcomes \ {"TOOL_FAILED"}

\* What the phase of an execution says of run, step and key.
Owns(r) ==
    /\ r.at = "loop" => Is("employee_lifecycle")
    /\ r.at \in Executing => run.state = "EXECUTING" /\ run.version = r.version
    /\ r.at \in InStep => r.step \in Order /\ (HasPlan => steps[r.step] = "EXECUTING")
    /\ r.at \in {"start", "send", "finalize"} => idem[r.step] = "IN_PROGRESS"
    /\ r.at \in {"start", "send"} => sends[r.step] = 0
    /\ r.at \in {"send", "finalize", "finish"} => exec[r.step] = "EXECUTING"
    /\ r.at \in {"finalize", "finish"} => sends[r.step] = 1
    /\ r.at \in {"finalize", "finish", "close"} => r.result \in Ends
    /\ r.at = "finish" => idem[r.step] = KeyStatusOf(r.result)
    /\ r.at = "close" /\ r.result = "SUCCEEDED" => idem[r.step] = "SUCCEEDED"

HandlersAgree == \A h \in Handlers : Waits(request[h]) /\ Owns(request[h])

\* The conjuncts about the stored run, and all of them.
Stored == RunFollowsVerdict /\ StepsInOrder /\ KeysAgree
             /\ WritesInOrder /\ CompletedMeansDone /\ PlanFollowsRun
IInv == TypeOK /\ OneHolder /\ Stored /\ HandlersAgree

-----------------------------------------------------------------------------
LEMMA ScenarioFacts ==
    ASSUME TypeOK
    PROVE  /\ scenario \in Kinds /\ 1 \in Order
           /\ ~Is("employee_lifecycle") => Order = {1}
           /\ ~Is("procurement") => scenario.stages = 1
  <1>1. scenario \in Kinds /\ scenario.steps \in Nat \ {0}
    BY ScenarioAssumption DEF TypeOK, Kinds
  <1>2. 1 \in Order
    BY <1>1 DEF Order
  <1>3. ~Is("employee_lifecycle") => scenario.steps = 1
    BY ScenarioAssumption DEF TypeOK, Is
  <1>4. scenario.steps = 1 => Order = {1}
    BY DEF Order
  <1>5. ~Is("procurement") => scenario.stages = 1
    BY ScenarioAssumption DEF TypeOK, Is
  <1> QED BY <1>1, <1>2, <1>3, <1>4, <1>5

\* The client sees a result or its one exception, whichever method it calls.
LEMMA AnswersAreEnds ==
    ASSUME TypeOK PROVE Answers \subseteq Ends
  <1>1. SeenByTool \subseteq {"result", "McpToolInvocationError"}
    BY DEF SeenByTool, Seen, CallTool
  <1>2. ASSUME NEW s \in SeenByTool
        PROVE  /\ LifecycleToolStatus(s) \in {"SUCCEEDED", "UNKNOWN"}
               /\ MaintenanceToolStatus(s) \in {"SUCCEEDED", "UNKNOWN"}
               /\ \A found \in BOOLEAN : ProcurementToolStatus(s, found) \in {"SUCCEEDED", "UNKNOWN"}
    BY <1>1 DEF LifecycleToolStatus, MaintenanceToolStatus, ProcurementToolStatus, Rejected
  <1>3. ASSUME NEW status \in {"SUCCEEDED", "UNKNOWN"}
        PROVE  GatewayOutcomes(status) \subseteq Ends
    BY <1>3 DEF GatewayOutcomes, Ends, Outcomes
  <1>4. LifecycleAnswers \subseteq Ends
    BY <1>2, <1>3 DEF LifecycleAnswers
  <1>5. ProcurementAnswers \subseteq Ends
    BY <1>2, <1>3 DEF ProcurementAnswers
  <1>6. MaintenanceAnswers \subseteq Ends
    BY <1>2, <1>3 DEF MaintenanceAnswers
  <1>7. Is("employee_lifecycle") \/ Is("procurement") \/ Is("equipment_maintenance")
    BY ScenarioFacts DEF Kinds, Is
  <1> QED BY <1>4, <1>5, <1>6, <1>7 DEF Answers

LEMMA InitEstablishes == Init => IInv
  <1> SUFFICES ASSUME Init PROVE IInv
    OBVIOUS
  <1>1. TypeOK
    <2>1. scenario \in Kinds /\ 0 \in 0..scenario.stages /\ 0 \in 0..MaxFaults
      BY ScenarioAssumption, BoundsAssumption DEF Init, Kinds
    <2>2. Idle \in Requests
      BY DEF Idle, Requests, Phases
    <2>3. run \in [state : Lifecycle!WorkflowStates, version : Nat]
      BY DEF Init, Lifecycle!WorkflowStates
    <2> QED BY <2>1, <2>2, <2>3 DEF Init, TypeOK, PlanStatuses, StepStatuses, KeyStatuses
  <1>2. OneHolder /\ HandlersAgree
    BY DEF Init, OneHolder, HandlersAgree, Waits, Owns, Idle, Holding, Executing, InStep
  <1>3. Stored
    BY <1>1, ScenarioFacts DEF Init, Stored, RunFollowsVerdict, StepsInOrder, KeysAgree,
       WritesInOrder, CompletedMeansDone, PlanFollowsRun, Past
  <1> QED BY <1>1, <1>2, <1>3 DEF IInv

-----------------------------------------------------------------------------
(* Steps that change no more than what a handler is doing: stored run, plan *)
(* and keys stand.                                                          *)

\* r is a phase that h may be in next, as far as the registry and the run go.
Enters(h, r) ==
    /\ r \in Requests /\ r.at \notin Executing
    /\ Waits(r)
    /\ \/ r.at \in Holding /\ active' /\ (request[h].at \in Holding \/ ~active)
       \/ r.at \notin Holding /\ (active' = active \/ request[h].at \in Holding)

Quiet(h, r) ==
    /\ UNCHANGED <<scenario, run, route, progress, keys>>
    /\ request' = [request EXCEPT ![h] = r]
    /\ checkpoint' \in {"none", "await", "end"} /\ active' \in BOOLEAN
    /\ faults' \in 0..MaxFaults
    /\ Enters(h, r)

\* Stored run, plan and keys stand when none of them changes.
LEMMA StoredStands ==
    ASSUME Stored, UNCHANGED <<scenario, run, route, progress, keys>>
    PROVE  Stored' /\ Order' = Order /\ \A key : Is(key)' = Is(key)
  BY DEF Stored, route, progress, keys, RunFollowsVerdict, StepsInOrder, KeysAgree, WritesInOrder,
     CompletedMeansDone, PlanFollowsRun, Order, HasPlan, Is

LEMMA QuietStep ==
    ASSUME IInv, NEW h \in Handlers, NEW r, Quiet(h, r)
    PROVE  IInv'
  <1>1. /\ UNCHANGED <<scenario, run, approved, verdict, plan, steps, idem, exec, sends>>
        /\ Order' = Order /\ HasPlan' = HasPlan
        /\ Is("employee_lifecycle")' = Is("employee_lifecycle")
    BY DEF Quiet, route, progress, keys, Order, HasPlan, Is
  <1>2. /\ request' \in [Handlers -> Requests] /\ request'[h] = r
        /\ \A g \in Handlers \ {h} : request'[g] = request[g]
    BY DEF IInv, TypeOK, Quiet, Enters
  <1>3. TypeOK'
    BY <1>1, <1>2 DEF IInv, TypeOK, Quiet
  <1>4. OneHolder'
    BY <1>2 DEF IInv, OneHolder, Quiet, Enters
  <1>5. Stored'
    BY StoredStands DEF IInv, Quiet
  <1>6. \A g \in Handlers : request'[g].at \in Executing => request[g].at \in Executing
    BY <1>2 DEF Quiet, Enters
  <1>7. ASSUME NEW g \in Handlers PROVE Waits(request[g])' /\ Owns(request[g])'
    <2>1. request'[g] = (IF g = h THEN r ELSE request[g])
      BY <1>2
    <2>2. Waits(request[g])'
      BY <1>1, <1>6, <2>1 DEF Waits, IInv, HandlersAgree, Quiet, Enters
    <2>3. Owns(request[g])'
      <3>1. CASE g # h
        BY <1>1, <2>1, <3>1 DEF Owns, IInv, HandlersAgree
      <3>2. CASE g = h
        BY <2>1, <3>2 DEF Owns, Quiet, Enters, Executing, InStep
      <3> QED BY <3>1, <3>2
    <2> QED BY <2>2, <2>3
  <1> QED BY <1>3, <1>4, <1>5, <1>7 DEF IInv, HandlersAgree

\* The same for the forms most steps have.
Settles ==
    /\ UNCHANGED <<scenario, run, route, progress, active, keys>>
    /\ checkpoint' \in {"none", "await", "end"}
    /\ faults' \in 0..MaxFaults

LEMMA QuietReply ==
    ASSUME IInv, NEW h \in Handlers, Settles, Reply(h)
    PROVE  IInv'
  <1>1. Idle \in Requests /\ Idle.at = "idle"
    BY DEF Idle, Requests, Phases
  <1>2. Quiet(h, Idle)
    BY <1>1 DEF Settles, Reply, Quiet, Enters, Waits, Executing, InStep, Holding, IInv, TypeOK
  <1> QED BY <1>2, QuietStep

LEMMA QuietGoto ==
    ASSUME IInv, NEW h \in Handlers, Settles,
           NEW p \in {"idle", "invoke", "recorded", "resume", "check", "claim"}, Goto(h, p)
    PROVE  IInv'
  <1> DEFINE r == [request[h] EXCEPT !.at = p]
  <1>1. r \in Requests /\ r.at = p
    BY DEF IInv, TypeOK, Requests, Phases
  <1>2. request' = [request EXCEPT ![h] = r]
    BY DEF Goto
  <1>3. Quiet(h, r)
    BY <1>1, <1>2 DEF Settles, Quiet, Enters, Waits, Executing, InStep, Holding, IInv, TypeOK
  <1> QED BY <1>3, QuietStep

LEMMA QuietAfter ==
    ASSUME IInv, NEW h \in Handlers, Settles, After(h)
    PROVE  IInv'
  <1> DEFINE r == IF verdict = "APPROVED" THEN [Idle EXCEPT !.at = "check"] ELSE Idle
  <1>1. r \in Requests /\ r.at \in {"idle", "check"}
    BY DEF Idle, Requests, Phases
  <1>2. request' = [request EXCEPT ![h] = r]
    BY DEF After
  <1>3. Quiet(h, r)
    BY <1>1, <1>2 DEF Settles, Quiet, Enters, Waits, Executing, InStep, Holding, IInv, TypeOK
  <1> QED BY <1>3, QuietStep

\* A handler that has taken a snapshot of the pause.
LEMMA QuietReceive ==
    ASSUME IInv, NEW h \in Handlers, Settles, NEW s \in Nat, NEW order \in Orders,
           NEW phase \in {"decide", "recorded"}, Receive(h, s, order, phase),
           phase = "decide" => order # "RECORDED"
    PROVE  IInv'
  <1> DEFINE r == [Idle EXCEPT !.at = phase, !.order = order, !.stage = s,
                               !.version = run.version, !.seen = checkpoint]
  <1>1. r \in Requests /\ r.at = phase /\ r.order = order
    BY DEF Idle, Requests, Phases, IInv, TypeOK
  <1>2. request' = [request EXCEPT ![h] = r]
    BY DEF Receive
  <1>3. Quiet(h, r)
    BY <1>1, <1>2 DEF Settles, Quiet, Enters, Waits, Orders, Executing, InStep, Holding, IInv, TypeOK
  <1> QED BY <1>3, QuietStep

-----------------------------------------------------------------------------
(* The pause.                                                               *)

LEMMA PauseReads ==
    ASSUME IInv, NEW h \in Handlers,
           \/ Arm(h) \/ Invoke(h) \/ RepeatStage(h)
           \/ ResumeRecorded(h) \/ Resume(h) \/ DecisionFails(h)
           \/ \E s \in 1..scenario.stages, order \in Orders : Decide(h, s, order)
    PROVE  IInv'
  <1> USE DEF IInv, TypeOK
  <1>1. CASE Arm(h)
    BY <1>1, QuietGoto DEF Arm, Settles
  <1>2. CASE Invoke(h)
    BY <1>2, QuietReply DEF Invoke, Settles
  <1>3. CASE RepeatStage(h)
    <2>1. Settles
      BY <1>3 DEF RepeatStage, Settles
    <2> QED BY <1>3, <2>1, QuietReply, QuietGoto, QuietAfter DEF RepeatStage
  <1>4. CASE ResumeRecorded(h)
    <2>1. Settles
      BY <1>4 DEF ResumeRecorded, Settles
    <2> QED BY <1>4, <2>1, QuietReply, QuietGoto, QuietAfter DEF ResumeRecorded
  <1>5. CASE Resume(h)
    BY <1>5, QuietAfter DEF Resume, Settles
  <1>6. CASE DecisionFails(h)
    BY <1>6, BoundsAssumption, QuietReply DEF DecisionFails, Settles, Fault
  <1>7. ASSUME NEW s \in 1..scenario.stages, NEW order \in Orders, Decide(h, s, order)
        PROVE  IInv'
    <2>1. s \in Nat /\ 1 \in Nat
      BY ScenarioFacts DEF Kinds
    <2>2. CASE SequenceSnapshot(h, s, order)
      <3>1. Settles
        BY <2>2 DEF SequenceSnapshot, Settles
      <3> QED BY <2>1, <2>2, <3>1, QuietReply, QuietReceive, QuietAfter DEF SequenceSnapshot
    <2>3. CASE SingleSnapshot(h, order)
      <3>1. Settles
        BY <2>3 DEF SingleSnapshot, Settles
      <3> QED BY <2>1, <2>3, <3>1, QuietReply, QuietReceive, QuietAfter DEF SingleSnapshot
    <2> QED BY <1>7, <2>2, <2>3 DEF Decide
  <1> QED BY <1>1, <1>2, <1>3, <1>4, <1>5, <1>6, <1>7

\* A waiting run is held by nobody, and none of its writes has been sent.
LEMMA NobodyExecutes ==
    ASSUME IInv, run.state # "EXECUTING"
    PROVE  \A g \in Handlers : request[g].at \notin Executing
  BY DEF IInv, HandlersAgree, Owns

\* Steps of a handler that is outside the execution and leaves run and plan
\* outside it too.
LEMMA OutsideStep ==
    ASSUME IInv,
           \A g \in Handlers : request'[g] = request[g] \/ request'[g].at \in {"idle", "resume"},
           run.state \notin Past \cup {"RUNNING"} \/ run.state = "WAITING_HUMAN",
           run.state \in Past => run'.state \in Past,
           UNCHANGED <<scenario, checkpoint, active, keys, faults>>
    PROVE  OneHolder' /\ HandlersAgree'
  <1>1. OneHolder'
    BY DEF IInv, OneHolder, Holding, Executing, InStep
  <1>2. \A g \in Handlers : request[g].at \notin Executing /\ request'[g].at \notin Executing
    BY NobodyExecutes DEF Past, Executing, InStep
  <1>3. ASSUME NEW g \in Handlers PROVE Waits(request[g])' /\ Owns(request[g])'
    <2>1. Owns(request[g])'
      BY <1>2 DEF Owns, Executing, InStep
    <2>2. Waits(request[g])'
      BY <1>2 DEF Waits, IInv, HandlersAgree, Is
    <2> QED BY <2>1, <2>2
  <1> QED BY <1>1, <1>3 DEF HandlersAgree

-----------------------------------------------------------------------------
(* Decisions, intake and human review: steps on the stored run before and   *)
(* after its execution.                                                     *)

LEMMA VerdictKeeps ==
    ASSUME IInv, verdict = "PENDING", NEW order \in {"APPROVED", "REJECTED"}, Verdict(order),
           UNCHANGED <<scenario, steps, keys>>
    PROVE  /\ Stored' /\ run.state = "WAITING_APPROVAL"
           /\ run' \in [state : Lifecycle!WorkflowStates, version : Nat]
           /\ approved' \in 0..scenario.stages
           /\ verdict' \in {"NONE", "PENDING", "APPROVED", "REJECTED"}
           /\ plan' \in PlanStatuses
  <1> USE DEF keys
  <1>1. run.state = "WAITING_APPROVAL" /\ run.version \in Nat /\ scenario.stages \in Nat
    BY ScenarioFacts DEF IInv, TypeOK, Stored, RunFollowsVerdict, Kinds
  <1>2. /\ Order' = Order /\ HasPlan' = HasPlan /\ 1 \in Order
        /\ verdict' = order
        /\ order = "APPROVED" => approved' = scenario.stages
        /\ run' = [state |-> IF order = "APPROVED" THEN "RUNNING" ELSE "COMPLETED",
                   version |-> run.version + 1]
    BY ScenarioFacts DEF Order, HasPlan, Is, Verdict, Move, IInv
  <1>3. HasPlan => /\ plan = "PENDING_APPROVAL" /\ steps[1] = "PENDING"
                   /\ plan' = IF order = "APPROVED" THEN "APPROVED" ELSE "CANCELLED"
    BY DEF IInv, Stored, PlanFollowsRun, StepsInOrder, Verdict
  <1>4. \A i \in Order : sends[i] = 0
    BY DEF IInv, TypeOK, Stored, WritesInOrder
  <1>5. RunFollowsVerdict'
    BY <1>2 DEF RunFollowsVerdict, Past
  <1>6. StepsInOrder' /\ KeysAgree'
    BY <1>2, <1>3 DEF IInv, Stored, StepsInOrder, KeysAgree
  <1>7. WritesInOrder' /\ CompletedMeansDone'
    BY <1>2, <1>4 DEF WritesInOrder, CompletedMeansDone
  <1>8. PlanFollowsRun'
    BY <1>2, <1>3 DEF PlanFollowsRun
  <1>9. approved' \in 0..scenario.stages /\ plan' \in PlanStatuses
    BY <1>1 DEF IInv, TypeOK, Verdict, PlanStatuses
  <1> QED BY <1>1, <1>2, <1>5, <1>6, <1>7, <1>8, <1>9 DEF Stored, Lifecycle!WorkflowStates

LEMMA SingleDecisionKeeps ==
    ASSUME IInv, NEW h \in Handlers, SingleDecision(h)
    PROVE  IInv'
  <1>1. CASE CanDecide(h)
    <2>1. Verdict(request[h].order) /\ request[h].order \in {"APPROVED", "REJECTED"}
      BY <1>1 DEF SingleDecision, At, IInv, HandlersAgree, Waits
    <2>2. /\ Stored' /\ run.state = "WAITING_APPROVAL"
          /\ run' \in [state : Lifecycle!WorkflowStates, version : Nat]
          /\ approved' \in 0..scenario.stages
          /\ verdict' \in {"NONE", "PENDING", "APPROVED", "REJECTED"}
          /\ plan' \in PlanStatuses
      BY <1>1, <2>1, VerdictKeeps DEF CanDecide, SingleDecision
    <2>3. Goto(h, "resume") /\ UNCHANGED <<scenario, steps, checkpoint, active, keys, faults>>
      BY <1>1 DEF SingleDecision
    <2>4. /\ request' \in [Handlers -> Requests]
          /\ \A g \in Handlers : request'[g] = request[g] \/ request'[g].at = "resume"
      BY <2>3 DEF Goto, IInv, TypeOK, Requests, Phases
    <2>5. TypeOK'
      BY <2>2, <2>3, <2>4 DEF IInv, TypeOK, keys, Order
    <2>6. OneHolder' /\ HandlersAgree'
      BY <2>2, <2>3, <2>4, OutsideStep DEF Past
    <2> QED BY <2>2, <2>5, <2>6 DEF IInv
  <1>2. CASE ~CanDecide(h)
    <2>1. Settles
      BY <1>2 DEF SingleDecision, Settles, progress, IInv, TypeOK
    <2> QED BY <1>2, <2>1, QuietGoto, QuietReply DEF SingleDecision
  <1> QED BY <1>1, <1>2

LEMMA ApproveStageKeeps ==
    ASSUME IInv, NEW h \in Handlers, ApproveStage(h)
    PROVE  IInv'
  <1>1. /\ verdict = "PENDING" /\ run.state = "WAITING_APPROVAL"
        /\ approved' = approved + 1 /\ approved + 1 < scenario.stages
        /\ run' = [run EXCEPT !.version = @ + 1]
        /\ Reply(h)
        /\ UNCHANGED <<scenario, verdict, plan, steps, checkpoint, active, keys, faults>>
    BY DEF ApproveStage, CanDecide, Progress, progress
  <1>2. run'.state = run.state /\ run' \in [state : Lifecycle!WorkflowStates, version : Nat]
    BY <1>1 DEF IInv, TypeOK
  <1>3. approved' \in 0..scenario.stages
    BY <1>1, ScenarioFacts DEF IInv, TypeOK, Kinds
  <1>4. /\ request' \in [Handlers -> Requests]
        /\ \A g \in Handlers : request'[g] = request[g] \/ request'[g].at = "idle"
    BY <1>1 DEF Reply, IInv, TypeOK, Requests, Idle, Phases
  <1>5. TypeOK'
    BY <1>1, <1>2, <1>3, <1>4 DEF IInv, TypeOK, keys, Order
  <1>6. Stored'
    <2> Order' = Order /\ HasPlan' = HasPlan
      BY <1>1 DEF Order, HasPlan, Is
    <2>1. RunFollowsVerdict' /\ StepsInOrder' /\ KeysAgree'
      BY <1>1, <1>2 DEF IInv, Stored, RunFollowsVerdict, StepsInOrder, KeysAgree, keys
    <2>2. WritesInOrder' /\ CompletedMeansDone' /\ PlanFollowsRun'
      BY <1>1, <1>2 DEF IInv, Stored, WritesInOrder, CompletedMeansDone, PlanFollowsRun, keys
    <2> QED BY <2>1, <2>2 DEF Stored
  <1>7. OneHolder' /\ HandlersAgree'
    BY <1>1, <1>2, <1>4, OutsideStep DEF Past
  <1> QED BY <1>5, <1>6, <1>7 DEF IInv

LEMMA EndRouteKeeps ==
    ASSUME IInv, NEW h \in Handlers, EndRoute(h)
    PROVE  IInv'
  <1>1. /\ Verdict(request[h].order) /\ request[h].order \in {"APPROVED", "REJECTED"}
        /\ Goto(h, "resume") /\ UNCHANGED <<scenario, steps, checkpoint, active, keys, faults>>
    BY DEF EndRoute, At, IInv, HandlersAgree, Waits
  <1>2. /\ Stored' /\ run.state = "WAITING_APPROVAL"
        /\ run' \in [state : Lifecycle!WorkflowStates, version : Nat]
        /\ approved' \in 0..scenario.stages
        /\ verdict' \in {"NONE", "PENDING", "APPROVED", "REJECTED"}
        /\ plan' \in PlanStatuses
    BY <1>1, VerdictKeeps DEF CanDecide, EndRoute
  <1>3. /\ request' \in [Handlers -> Requests]
        /\ \A g \in Handlers : request'[g] = request[g] \/ request'[g].at = "resume"
    BY <1>1 DEF Goto, IInv, TypeOK, Requests, Phases
  <1>4. TypeOK'
    BY <1>1, <1>2, <1>3 DEF IInv, TypeOK, keys, Order
  <1>5. OneHolder' /\ HandlersAgree'
    BY <1>1, <1>2, <1>3, OutsideStep DEF Past
  <1> QED BY <1>2, <1>4, <1>5 DEF IInv

\* What intake does in the three scenarios.
Routes(target) ==
    /\ run.state \in {"CREATED", "WAITING_USER"}
    /\ run' = [state |-> target, version |-> run.version + 2]
    /\ IF target = "WAITING_APPROVAL"
       THEN /\ verdict' = "PENDING"
            /\ IF HasPlan THEN AddPlan("PENDING_APPROVAL") ELSE UNCHANGED progress
       ELSE UNCHANGED <<progress, verdict>>
    /\ UNCHANGED <<scenario, approved, checkpoint, active, keys, request, faults>>

LEMMA RoutesKeep ==
    ASSUME IInv, NEW target \in {"WAITING_USER", "WAITING_APPROVAL", "WAITING_HUMAN", "COMPLETED"},
           Routes(target)
    PROVE  IInv'
  <1> USE DEF Routes, progress, keys
  <1>1. verdict = "NONE" /\ Order' = Order /\ HasPlan' = HasPlan /\ 1 \in Order
    BY ScenarioFacts DEF IInv, Stored, RunFollowsVerdict, Order, HasPlan, Is
  <1>2. /\ run'.state = target
        /\ verdict' = IF target = "WAITING_APPROVAL" THEN "PENDING" ELSE "NONE"
        /\ UNCHANGED <<idem, exec, sends>>
    BY <1>1
  <1>3. target = "WAITING_APPROVAL" /\ HasPlan =>
           plan' = "PENDING_APPROVAL" /\ steps'[1] = "PENDING"
    BY <1>1 DEF AddPlan
  <1>4. TypeOK'
    <2>1. run' \in [state : Lifecycle!WorkflowStates, version : Nat]
      BY DEF IInv, TypeOK, Lifecycle!WorkflowStates
    <2>2. plan' \in PlanStatuses /\ steps' \in [Order -> StepStatuses]
      BY DEF IInv, TypeOK, AddPlan, PlanStatuses, StepStatuses
    <2> QED BY <1>1, <1>2, <2>1, <2>2 DEF IInv, TypeOK
  <1>5. \A i \in Order : sends[i] = 0
    BY <1>1 DEF IInv, TypeOK, Stored, WritesInOrder
  <1>6. RunFollowsVerdict'
    BY <1>2 DEF RunFollowsVerdict
  <1>7. StepsInOrder'
    <2>1. CASE target = "WAITING_APPROVAL" /\ HasPlan
      BY <1>1, <1>3, <2>1 DEF StepsInOrder, AddPlan
    <2>2. CASE ~(target = "WAITING_APPROVAL" /\ HasPlan)
      <3>1. UNCHANGED <<plan, steps, idem>>
        BY <2>2
      <3> QED BY <1>1, <3>1 DEF StepsInOrder, IInv, Stored
    <2> QED BY <2>1, <2>2
  <1>8. KeysAgree'
    BY <1>1, <1>2 DEF KeysAgree, IInv, Stored
  <1>9. WritesInOrder' /\ CompletedMeansDone'
    BY <1>1, <1>2, <1>5 DEF WritesInOrder, CompletedMeansDone
  <1>10. PlanFollowsRun'
    BY <1>1, <1>2, <1>3 DEF PlanFollowsRun
  <1>11. OneHolder' /\ HandlersAgree'
    BY OutsideStep DEF Past
  <1> QED BY <1>4, <1>6, <1>7, <1>8, <1>9, <1>10, <1>11 DEF IInv, Stored

LEMMA IntakeKeeps ==
    ASSUME IInv, NEW h \in Handlers,
           \/ \E target \in LifecycleTargets :
                 CreateLifecycle(h, target) \/ ProvideLifecycle(h, target)
           \/ \E target \in ProcurementTargets :
                 CreateProcurement(h, target) \/ ProvideProcurement(h, target)
           \/ \E target \in MaintenanceTargets :
                 CreateMaintenance(h, target) \/ ProvideMaintenance(h, target)
    PROVE  IInv'
  <1>1. ASSUME NEW target \in LifecycleTargets,
               CreateLifecycle(h, target) \/ ProvideLifecycle(h, target)
        PROVE  Routes(target)
    BY <1>1 DEF CreateLifecycle, ProvideLifecycle, RouteLifecycle, Routes, HasPlan, Is
  <1>2. ASSUME NEW target \in ProcurementTargets,
               CreateProcurement(h, target) \/ ProvideProcurement(h, target)
        PROVE  Routes(target)
    BY <1>2 DEF CreateProcurement, ProvideProcurement, RouteProcurement, Routes, HasPlan, Is
  <1>3. ASSUME NEW target \in MaintenanceTargets,
               CreateMaintenance(h, target) \/ ProvideMaintenance(h, target)
        PROVE  Routes(target)
    BY <1>3 DEF CreateMaintenance, ProvideMaintenance, RouteMaintenance, Routes, HasPlan, Is, progress
  <1> QED BY <1>1, <1>2, <1>3, RoutesKeep DEF LifecycleTargets, ProcurementTargets, MaintenanceTargets

LEMMA ReviewKeeps ==
    ASSUME IInv, HumanReview
    PROVE  IInv'
  <1> USE DEF route, progress, keys
  <1>1. /\ run.state = "WAITING_HUMAN"
        /\ UNCHANGED <<scenario, approved, verdict, plan, steps, checkpoint, active,
                       idem, exec, sends, request, faults>>
        /\ Order' = Order /\ HasPlan' = HasPlan
        /\ run'.state \in {"WAITING_HUMAN", "COMPLETED", "FAILED", "CANCELLED"}
        /\ run' \in [state : Lifecycle!WorkflowStates, version : Nat]
        /\ run'.state = "COMPLETED" => Reconcilable
    BY DEF HumanReview, Note, Review, Progress, Move, IInv, TypeOK, Order, HasPlan, Is,
       Lifecycle!WorkflowStates
  <1>2. TypeOK'
    BY <1>1 DEF IInv, TypeOK
  <1>3. RunFollowsVerdict' /\ StepsInOrder' /\ KeysAgree' /\ WritesInOrder'
    BY <1>1 DEF IInv, Stored, RunFollowsVerdict, StepsInOrder, KeysAgree, WritesInOrder, Past
  <1>4. CompletedMeansDone'
    <2>1. SUFFICES ASSUME Reconcilable PROVE CompletedMeansDone'
      BY <1>1 DEF CompletedMeansDone
    <2>2. ~HasPlan /\ 1 \in Order
      BY <2>1, ScenarioFacts DEF Reconcilable, IInv
    <2> QED BY <1>1, <2>1, <2>2 DEF Reconcilable, CompletedMeansDone, IInv, Stored, KeysAgree
  <1>5. PlanFollowsRun'
    BY <1>1 DEF IInv, Stored, PlanFollowsRun, RunFollowsVerdict, Reconcilable
  <1>6. OneHolder' /\ HandlersAgree'
    BY <1>1, OutsideStep DEF Past
  <1> QED BY <1>2, <1>3, <1>4, <1>5, <1>6 DEF IInv, Stored

LEMMA CrashKeeps ==
    ASSUME IInv, Crash
    PROVE  IInv'
  <1>1. /\ UNCHANGED <<scenario, run, route, progress, checkpoint, keys>>
        /\ active' = FALSE /\ faults' \in 0..MaxFaults
        /\ \A h \in Handlers : request'[h] = Idle
        /\ request' \in [Handlers -> Requests]
    BY BoundsAssumption DEF Crash, Fault, IInv, TypeOK, Idle, Requests, Phases
  <1>2. TypeOK'
    BY <1>1 DEF IInv, TypeOK, route, progress, keys, Order
  <1>3. OneHolder' /\ HandlersAgree'
    BY <1>1 DEF OneHolder, HandlersAgree, Waits, Owns, Idle, Holding, Executing, InStep
  <1> QED BY <1>1, <1>2, <1>3, StoredStands DEF IInv

-----------------------------------------------------------------------------
(* The registry: checks, claim and release.                                 *)

\* An execution that fails, or is not begun, releases its claim.
LEMMA QuietRelease ==
    ASSUME IInv, NEW h \in Handlers, Settles, request[h].at \in Holding, Goto(h, "release")
    PROVE  IInv'
  <1> DEFINE r == [request[h] EXCEPT !.at = "release"]
  <1>1. r \in Requests /\ r.at = "release"
    BY DEF IInv, TypeOK, Requests, Phases
  <1>2. active
    BY DEF IInv, OneHolder
  <1>3. Quiet(h, r)
    BY <1>1, <1>2 DEF Goto, Settles, Quiet, Enters, Waits, Executing, InStep, Holding
  <1> QED BY <1>3, QuietStep

LEMMA ChecksKeep ==
    ASSUME IInv, NEW h \in Handlers,
           \/ LifecycleCheck(h) \/ LifecycleActive(h)
           \/ ProcurementCheck(h) \/ ProcurementActive(h)
           \/ MaintenanceCheck(h) \/ MaintenanceActive(h)
    PROVE  IInv'
  <1>1. Settles
    BY DEF LifecycleCheck, LifecycleActive, ProcurementCheck, ProcurementActive,
       MaintenanceCheck, MaintenanceActive, Settles, IInv, TypeOK
  <1>2. ASSUME NEW r \in Requests, r.at \in {"idle", "active", "claim"},
               r.at = "active" /\ ~Is("employee_lifecycle") => run.state \in Past,
               request' = [request EXCEPT ![h] = r]
        PROVE  IInv'
    <2>1. Quiet(h, r)
      BY <1>1, <1>2 DEF Settles, Quiet, Enters, Waits, Executing, InStep, Holding, IInv, TypeOK
    <2> QED BY <2>1, QuietStep
  <1>3. CASE LifecycleCheck(h)
    <2> DEFINE r == [request[h] EXCEPT !.at = "active", !.version = run.version]
    <2>1. r \in Requests /\ r.at = "active"
      BY DEF IInv, TypeOK, Requests, Phases
    <2>2. CASE request' = [request EXCEPT ![h].at = "active", ![h].version = run.version]
      <3>1. request' = [request EXCEPT ![h] = r]
        BY <2>2
      <3> QED BY <1>2, <1>3, <2>1, <3>1 DEF LifecycleCheck
    <2> QED BY <1>1, <1>3, <2>2, QuietReply DEF LifecycleCheck
  <1>4. CASE ProcurementCheck(h) \/ MaintenanceCheck(h)
    <2> DEFINE a == [request[h] EXCEPT !.at = "active"]
               c == [request[h] EXCEPT !.at = "claim", !.version = run.version]
    <2>1. /\ a \in Requests /\ a.at = "active"
          /\ c \in Requests /\ c.at = "claim"
          /\ Idle \in Requests /\ Idle.at = "idle"
      BY DEF IInv, TypeOK, Requests, Phases, Idle
    <2>2. \/ run.state = "EXECUTING" /\ request' = [request EXCEPT ![h] = a]
          \/ request' = [request EXCEPT ![h] = c]
          \/ request' = [request EXCEPT ![h] = Idle]
      BY <1>4 DEF ProcurementCheck, MaintenanceCheck
    <2> QED BY <1>2, <2>1, <2>2 DEF Past
  <1>5. CASE LifecycleActive(h)
    BY <1>1, <1>5, QuietReply, QuietGoto DEF LifecycleActive
  <1>6. CASE ProcurementActive(h) \/ MaintenanceActive(h)
    <2>1. At(h, "active") /\ ~Is("employee_lifecycle")
      BY <1>6 DEF ProcurementActive, MaintenanceActive, Is
    <2>2. CASE ~active /\ Goto(h, "interrupt")
      <3> DEFINE r == [request[h] EXCEPT !.at = "interrupt"]
      <3>1. r \in Requests /\ r.at = "interrupt"
        BY DEF IInv, TypeOK, Requests, Phases
      <3>2. \A g \in Handlers : request[g].at \notin Executing
        BY <2>2 DEF IInv, OneHolder, Holding
      <3>3. run.state \in Past
        BY <2>1 DEF At, IInv, HandlersAgree, Waits
      <3>4. Waits(r)
        BY <2>1, <3>1, <3>2, <3>3 DEF Waits
      <3>5. Quiet(h, r)
        BY <1>1, <2>2, <3>1, <3>4 DEF Goto, Settles, Quiet, Enters, Executing, InStep, Holding,
           IInv, TypeOK
      <3> QED BY <3>5, QuietStep
    <2> QED BY <1>1, <1>6, <2>2, QuietReply DEF ProcurementActive, MaintenanceActive
  <1> QED BY <1>3, <1>4, <1>5, <1>6

LEMMA ClaimsKeep ==
    ASSUME IInv, NEW h \in Handlers, Claim(h) \/ Release(h) \/ ExecutionFails(h)
    PROVE  IInv'
  <1>1. CASE Claim(h) /\ active
    BY <1>1, QuietReply DEF Claim, Settles, IInv, TypeOK
  <1>2. CASE Claim(h) /\ ~active
    <2> DEFINE r == [request[h] EXCEPT !.at = "begin"]
    <2>1. r \in Requests /\ r.at = "begin"
      BY DEF IInv, TypeOK, Requests, Phases
    <2>2. Quiet(h, r)
      BY <1>2, <2>1 DEF Claim, Goto, Quiet, Enters, Waits, Executing, InStep, Holding, IInv, TypeOK
    <2> QED BY <2>2, QuietStep
  <1>3. CASE Release(h)
    <2>1. Idle \in Requests /\ Idle.at = "idle"
      BY DEF Idle, Requests, Phases
    <2>2. Quiet(h, Idle)
      BY <1>3, <2>1 DEF Release, Reply, At, Quiet, Enters, Waits, Executing, InStep, Holding,
         IInv, TypeOK
    <2> QED BY <2>2, QuietStep
  <1>4. CASE ExecutionFails(h)
    <2>1. Settles /\ request[h].at \in Holding
      BY <1>4, BoundsAssumption DEF ExecutionFails, Fault, Settles, Holding, Executing, InStep,
         IInv, TypeOK
    <2> QED BY <1>4, <2>1, QuietRelease DEF ExecutionFails
  <1> QED BY <1>1, <1>2, <1>3, <1>4

-----------------------------------------------------------------------------
(* Steps of the one execution that holds the claim.                         *)

\* A handler inside the execution owns the run, which its approvals released.
LEMMA OwnedRun ==
    ASSUME IInv, NEW h \in Handlers, request[h].at \in Executing
    PROVE  /\ run.state = "EXECUTING" /\ run.version = request[h].version
           /\ verdict = "APPROVED" /\ approved = scenario.stages
           /\ HasPlan => plan = "EXECUTING"
           /\ request[h].at \in InStep =>
                 LET k == request[h].step IN
                 /\ k \in Order /\ (HasPlan => steps[k] = "EXECUTING")
                 /\ ~Is("employee_lifecycle") => k = 1
                 /\ \A j \in 1..(k - 1) : steps[j] = "SUCCEEDED" /\ idem[j] = "SUCCEEDED"
  <1>1. /\ run.state = "EXECUTING" /\ run.version = request[h].version
        /\ verdict = "APPROVED" /\ approved = scenario.stages
        /\ HasPlan => plan = "EXECUTING"
    BY DEF IInv, HandlersAgree, Owns, Stored, RunFollowsVerdict, PlanFollowsRun
  <1>2. ASSUME request[h].at \in InStep
        PROVE  LET k == request[h].step IN
               /\ k \in Order /\ (HasPlan => steps[k] = "EXECUTING")
               /\ ~Is("employee_lifecycle") => k = 1
               /\ \A j \in 1..(k - 1) : steps[j] = "SUCCEEDED" /\ idem[j] = "SUCCEEDED"
    <2> DEFINE k == request[h].step
    <2>1. k \in Order /\ (HasPlan => steps[k] = "EXECUTING")
      BY <1>2 DEF IInv, HandlersAgree, Owns
    <2>2. ~Is("employee_lifecycle") => k = 1
      BY <2>1, ScenarioFacts DEF IInv
    <2>3. scenario.steps \in Nat /\ \A j \in 1..(k - 1) : j \in Order
      BY <2>1, ScenarioFacts DEF IInv, Kinds, Order
    <2>4. CASE HasPlan
      <3>1. \A j \in 1..(k - 1) : steps[j] = "SUCCEEDED"
        BY <2>1, <2>4 DEF IInv, Stored, StepsInOrder
      <3>2. \A j \in 1..(k - 1) : idem[j] = "SUCCEEDED"
        BY <2>3, <3>1 DEF IInv, Stored, StepsInOrder
      <3> QED BY <2>1, <2>2, <3>1, <3>2
    <2>5. CASE ~HasPlan
      BY <2>1, <2>2, <2>5 DEF HasPlan, Is
    <2> QED BY <2>4, <2>5
  <1> QED BY <1>1, <1>2

\* A step of the holder that keeps the claim says nothing about the others,
\* who wait outside.
LEMMA HolderStep ==
    ASSUME IInv, NEW h \in Handlers,
           request[h].at \in Holding, request'[h].at \in Holding,
           \A g \in Handlers \ {h} : request'[g] = request[g],
           UNCHANGED <<scenario, active>>,
           run.state \in Past => run'.state \in Past,
           request'[h].at \in Executing =>
               request[h].at \in Executing \/ Is("employee_lifecycle") \/ run.state \notin Past,
           Owns(request[h])'
    PROVE  OneHolder' /\ HandlersAgree'
  <1>1. \A g \in Handlers \ {h} : request[g].at \notin Holding /\ request'[g] = request[g]
    BY DEF IInv, OneHolder
  <1>2. OneHolder'
    BY <1>1 DEF IInv, OneHolder
  <1>3. Waits(request[h])'
    BY DEF Waits, Holding, Executing, InStep
  <1>4. ASSUME NEW g \in Handlers \ {h} PROVE Waits(request[g])' /\ Owns(request[g])'
    <2>1. Owns(request[g])'
      BY <1>1 DEF Owns, Holding, Executing, InStep
    <2>2. Is("employee_lifecycle")' = Is("employee_lifecycle") /\ request'[g] = request[g]
      BY <1>1 DEF Is
    <2>3. Waits(request[g])
      BY DEF IInv, HandlersAgree
    <2>4. request[g].at = "interrupt" => \A f \in Handlers : request'[f].at \notin Executing
      BY <1>1, <2>3 DEF Waits, Holding
    <2> QED BY <2>1, <2>2, <2>3, <2>4 DEF Waits
  <1> QED BY <1>2, <1>3, <1>4 DEF HandlersAgree

\* A step of the gateway changes at most the key of the step it executes, never
\* the key of a success, and keeps run and plan.
LEMMA KeyStep ==
    ASSUME IInv, NEW h \in Handlers, request[h].at \in InStep, request'[h].at \in InStep,
           \A g \in Handlers \ {h} : request'[g] = request[g],
           request' \in [Handlers -> Requests],
           UNCHANGED <<scenario, run, route, progress, checkpoint, active>>,
           faults' \in 0..MaxFaults,
           idem' \in [Order -> KeyStatuses],
           exec' \in [Order -> Outcomes \cup {"NONE", "EXECUTING"}],
           sends' \in [Order -> Nat],
           \A i \in Order : idem[i] = "SUCCEEDED" => idem'[i] = "SUCCEEDED",
           \A i \in Order : sends'[i] = sends[i] \/ (i = request[h].step /\ sends'[i] = 1),
           KeysAgree', Owns(request[h])'
    PROVE  IInv'
  <1> DEFINE k == request[h].step
  <1>1. /\ UNCHANGED <<run, approved, verdict, plan, steps>>
        /\ Order' = Order /\ HasPlan' = HasPlan
    BY DEF route, progress, Order, HasPlan, Is
  <1>2. /\ run.state = "EXECUTING" /\ verdict = "APPROVED" /\ approved = scenario.stages
        /\ \A j \in 1..(k - 1) : idem[j] = "SUCCEEDED"
        /\ k \in Order /\ Order = 1..scenario.steps /\ scenario.steps \in Nat
    BY OwnedRun, ScenarioFacts DEF Executing, IInv, Kinds, Order
  <1>3. TypeOK'
    BY <1>1 DEF IInv, TypeOK
  <1>4. OneHolder' /\ HandlersAgree'
    BY HolderStep DEF Holding, Executing
  <1>5. RunFollowsVerdict' /\ CompletedMeansDone' /\ PlanFollowsRun'
    BY <1>1, <1>2 DEF IInv, Stored, RunFollowsVerdict, CompletedMeansDone, PlanFollowsRun
  <1>6. StepsInOrder'
    BY <1>1 DEF IInv, Stored, StepsInOrder
  <1>7. WritesInOrder'
    <2> SUFFICES ASSUME NEW i \in Order, sends'[i] > 0
                 PROVE  /\ sends'[i] = 1
                        /\ verdict = "APPROVED" /\ approved = scenario.stages
                        /\ \A j \in 1..(i - 1) : idem'[j] = "SUCCEEDED"
      BY <1>1 DEF WritesInOrder
    <2>1. \A j \in 1..(i - 1) : j \in Order
      BY <1>2
    <2>2. sends'[i] = 1 /\ \A j \in 1..(i - 1) : idem[j] = "SUCCEEDED"
      BY <1>2 DEF IInv, Stored, WritesInOrder
    <2> QED BY <1>2, <2>1, <2>2
  <1> QED BY <1>3, <1>4, <1>5, <1>6, <1>7 DEF IInv, Stored

LEMMA GatewayKeeps ==
    ASSUME IInv, NEW h \in Handlers, Gateway(h)
    PROVE  IInv'
  <1> DEFINE k == request[h].step
  <1> USE DEF At
  <1>1. /\ request \in [Handlers -> Requests] /\ request[h] \in Requests /\ faults \in 0..MaxFaults
        /\ idem \in [Order -> KeyStatuses]
        /\ exec \in [Order -> Outcomes \cup {"NONE", "EXECUTING"}]
        /\ sends \in [Order -> Nat]
        /\ KeysAgree /\ Owns(request[h])
    BY DEF IInv, TypeOK, Stored, HandlersAgree
  <1>2. /\ request[h].at \in InStep /\ k \in Order
        /\ run.version = request[h].version /\ run.state = "EXECUTING"
        /\ HasPlan => steps[k] = "EXECUTING"
    BY OwnedRun DEF Gateway, Refuse, Reserve, Start, Send, Finalize, Finish, GatewayFails,
       InStep, Executing
  <1>3. CASE Refuse(h) \/ GatewayFails(h)
    <2>1. /\ UNCHANGED <<scenario, run, route, progress, checkpoint, active, idem, exec, sends>>
          /\ faults' \in 0..MaxFaults
          /\ Raise(h, "REFUSED") \/ Raise(h, "ERROR")
      BY <1>1, <1>3, BoundsAssumption DEF Refuse, GatewayFails, Fault, keys
    <2>2. /\ request' \in [Handlers -> Requests]
          /\ request'[h].at = "raised" /\ request'[h].step = k
          /\ request'[h].version = request[h].version
          /\ \A g \in Handlers \ {h} : request'[g] = request[g]
      BY <1>1, <2>1 DEF Raise, Requests, Phases
    <2>3. KeysAgree' /\ Owns(request[h])'
      BY <1>1, <1>2, <2>1, <2>2 DEF KeysAgree, Owns, Order, HasPlan, Is, progress, Executing, InStep
    <2> QED BY <1>1, <1>2, <2>1, <2>2, <2>3, KeyStep DEF InStep
  <1>4. CASE Reserve(h)
    <2>1. /\ UNCHANGED <<scenario, run, route, progress, checkpoint, active, exec, sends, faults>>
          /\ idem' = [idem EXCEPT ![k] = IF @ = "NONE" THEN "IN_PROGRESS" ELSE @]
          /\ \/ idem[k] = "NONE" /\ Goto(h, "start")
             \/ idem[k] = "SUCCEEDED" /\ Return(h, "SUCCEEDED")
             \/ idem[k] \notin {"NONE", "SUCCEEDED"} /\ Raise(h, "ERROR")
      BY <1>4 DEF Reserve
    <2>2. /\ request' \in [Handlers -> Requests]
          /\ request'[h].step = k /\ request'[h].version = request[h].version
          /\ \/ idem[k] = "NONE" /\ request'[h].at = "start"
             \/ /\ idem[k] = "SUCCEEDED"
                /\ request'[h].at = "close" /\ request'[h].result = "SUCCEEDED"
             \/ request'[h].at = "raised"
          /\ \A g \in Handlers \ {h} : request'[g] = request[g]
      BY <1>1, <2>1 DEF Goto, Return, Raise, Requests, Phases, Outcomes
    <2>3. /\ idem' \in [Order -> KeyStatuses]
          /\ \A i \in Order : idem'[i] = idem[i] \/ (i = k /\ idem[i] = "NONE" /\ idem'[i] = "IN_PROGRESS")
          /\ idem[k] = "NONE" => idem'[k] = "IN_PROGRESS"
          /\ idem[k] # "NONE" => idem'[k] = idem[k]
      BY <1>1, <1>2, <2>1 DEF KeyStatuses
    <2>4. KeysAgree'
      BY <1>1, <2>1, <2>3 DEF KeysAgree, Order
    <2>5. sends[k] = 0 \/ idem[k] # "NONE"
      BY <1>1, <1>2 DEF KeysAgree
    <2>6. Owns(request[h])'
      BY <1>2, <2>1, <2>2, <2>3, <2>5 DEF Owns, Order, HasPlan, Is, progress, Executing, InStep,
         Ends, Outcomes
    <2> QED BY <1>1, <1>2, <2>1, <2>2, <2>3, <2>4, <2>6, KeyStep DEF InStep
  <1>5. CASE Start(h)
    <2>1. /\ UNCHANGED <<scenario, run, route, progress, checkpoint, active, idem, sends, faults>>
          /\ exec' = [exec EXCEPT ![k] = "EXECUTING"]
          /\ request[h].at = "start"
      BY <1>5 DEF Start
    <2>2. /\ request' \in [Handlers -> Requests]
          /\ request'[h].at = "send" /\ request'[h].step = k
          /\ request'[h].version = request[h].version
          /\ \A g \in Handlers \ {h} : request'[g] = request[g]
      BY <1>1, <1>5 DEF Start, Goto, Requests, Phases
    <2>3. /\ exec' \in [Order -> Outcomes \cup {"NONE", "EXECUTING"}]
          /\ exec'[k] = "EXECUTING" /\ \A i \in Order \ {k} : exec'[i] = exec[i]
      BY <1>1, <1>2, <2>1
    <2>4. KeysAgree'
      BY <1>1, <2>1, <2>3 DEF KeysAgree, Order
    <2>5. Owns(request[h])'
      BY <1>1, <1>2, <2>1, <2>2, <2>3 DEF Owns, Order, HasPlan, Is, progress, Executing, InStep
    <2> QED BY <1>1, <1>2, <2>1, <2>2, <2>3, <2>4, <2>5, KeyStep DEF InStep
  <1>6. ASSUME NEW outcome \in Answers, Send(h, outcome) PROVE IInv'
    <2>1. /\ UNCHANGED <<scenario, run, route, progress, checkpoint, active, idem, exec, faults>>
          /\ sends' = [sends EXCEPT ![k] = @ + 1]
          /\ request[h].at = "send" /\ outcome \in Ends
      BY <1>6, AnswersAreEnds DEF Send, IInv
    <2>2. /\ request' \in [Handlers -> Requests]
          /\ request'[h].at = "finalize" /\ request'[h].step = k /\ request'[h].result = outcome
          /\ request'[h].version = request[h].version
          /\ \A g \in Handlers \ {h} : request'[g] = request[g]
      BY <1>1, <1>6, <2>1 DEF Send, Requests, Phases, Ends
    <2>3. sends[k] = 0 /\ idem[k] = "IN_PROGRESS" /\ exec[k] = "EXECUTING"
      BY <1>1, <2>1 DEF Owns
    <2>4. /\ sends' \in [Order -> Nat]
          /\ sends'[k] = 1 /\ \A i \in Order \ {k} : sends'[i] = sends[i]
      BY <1>1, <1>2, <2>1, <2>3
    <2>5. KeysAgree'
      BY <1>1, <2>1, <2>3, <2>4 DEF KeysAgree, Order
    <2>6. Owns(request[h])'
      BY <1>2, <2>1, <2>2, <2>3, <2>4 DEF Owns, Order, HasPlan, Is, progress, Executing, InStep
    <2> QED BY <1>1, <1>2, <2>1, <2>2, <2>4, <2>5, <2>6, KeyStep DEF InStep
  <1>7. CASE Finalize(h)
    <2>1. /\ UNCHANGED <<scenario, run, route, progress, checkpoint, active, exec, sends, faults>>
          /\ idem' = [idem EXCEPT ![k] = KeyStatusOf(request[h].result)]
          /\ request[h].at = "finalize" /\ request[h].result \in Ends
      BY <1>1, <1>7 DEF Finalize, Owns
    <2>2. /\ request' \in [Handlers -> Requests]
          /\ request'[h].at = "finish" /\ request'[h].step = k
          /\ request'[h].result = request[h].result /\ request'[h].version = request[h].version
          /\ \A g \in Handlers \ {h} : request'[g] = request[g]
      BY <1>1, <1>7 DEF Finalize, Goto, Requests, Phases
    <2>3. sends[k] = 1 /\ idem[k] = "IN_PROGRESS" /\ exec[k] = "EXECUTING"
      BY <1>1, <2>1 DEF Owns
    <2>4. KeyStatusOf(request[h].result) \in KeyStatuses \ {"NONE"}
      BY <2>1 DEF KeyStatusOf, Ends, Outcomes, KeyStatuses
    <2>5. /\ idem' \in [Order -> KeyStatuses]
          /\ idem'[k] = KeyStatusOf(request[h].result)
          /\ \A i \in Order \ {k} : idem'[i] = idem[i]
      BY <1>1, <1>2, <2>1, <2>4
    <2>6. KeysAgree'
      BY <1>1, <2>1, <2>3, <2>4, <2>5 DEF KeysAgree, Order
    <2>7. Owns(request[h])'
      BY <1>2, <2>1, <2>2, <2>3, <2>5 DEF Owns, Order, HasPlan, Is, progress, Executing, InStep
    <2> QED BY <1>1, <1>2, <2>1, <2>2, <2>3, <2>5, <2>6, <2>7, KeyStep DEF InStep
  <1>8. CASE Finish(h)
    <2>1. /\ UNCHANGED <<scenario, run, route, progress, checkpoint, active, idem, sends, faults>>
          /\ exec' = [exec EXCEPT ![k] = request[h].result]
          /\ request[h].at = "finish" /\ request[h].result \in Ends
      BY <1>1, <1>8 DEF Finish, Owns
    <2>2. /\ request' \in [Handlers -> Requests]
          /\ request'[h].at = "close" /\ request'[h].step = k
          /\ request'[h].result = request[h].result /\ request'[h].version = request[h].version
          /\ \A g \in Handlers \ {h} : request'[g] = request[g]
      BY <1>1, <1>8 DEF Finish, Goto, Requests, Phases
    <2>3. sends[k] = 1 /\ idem[k] = KeyStatusOf(request[h].result)
      BY <1>1, <2>1 DEF Owns
    <2>4. /\ exec' \in [Order -> Outcomes \cup {"NONE", "EXECUTING"}]
          /\ exec'[k] = request[h].result /\ \A i \in Order \ {k} : exec'[i] = exec[i]
      BY <1>1, <1>2, <2>1 DEF Ends
    <2>5. request[h].result \in {"RESULT_UNKNOWN", "VERIFICATION_FAILED"} => idem[k] # "FAILED"
      BY <2>3 DEF KeyStatusOf
    <2>6. KeysAgree'
      BY <1>1, <2>1, <2>3, <2>4, <2>5 DEF KeysAgree, Order
    <2>7. request[h].result = "SUCCEEDED" => idem[k] = "SUCCEEDED"
      BY <2>3 DEF KeyStatusOf
    <2>8. Owns(request[h])'
      BY <1>2, <2>1, <2>2, <2>7 DEF Owns, Order, HasPlan, Is, progress, Executing, InStep
    <2> QED BY <1>1, <1>2, <2>1, <2>2, <2>4, <2>6, <2>8, KeyStep DEF InStep
  <1> QED BY <1>3, <1>4, <1>5, <1>6, <1>7, <1>8 DEF Gateway

-----------------------------------------------------------------------------
(* Steps of the execution on run and plan.                                  *)

\* What such a step has to show: the keys stand, and it begins or ends approved.
LEMMA RunStep ==
    ASSUME IInv, NEW h \in Handlers, request[h].at \in Holding, request'[h].at \in Holding,
           \A g \in Handlers \ {h} : request'[g] = request[g],
           request' \in [Handlers -> Requests],
           UNCHANGED <<scenario, route, checkpoint, active, keys, faults>>,
           run.state \in {"RUNNING", "EXECUTING"},
           run' \in [state : Past, version : Nat],
           plan' \in PlanStatuses, steps' \in [Order -> StepStatuses],
           request'[h].at \in Executing =>
               request[h].at \in Executing \/ Is("employee_lifecycle") \/ run.state \notin Past,
           Owns(request[h])',
           StepsInOrder', CompletedMeansDone', PlanFollowsRun'
    PROVE  IInv'
  <1>1. /\ UNCHANGED <<approved, verdict, idem, exec, sends>>
        /\ Order' = Order /\ HasPlan' = HasPlan
    BY DEF route, keys, Order, HasPlan, Is
  <1>2. verdict = "APPROVED" /\ approved = scenario.stages
    BY DEF IInv, Stored, RunFollowsVerdict
  <1>3. run' \in [state : Lifecycle!WorkflowStates, version : Nat] /\ run'.state \in Past
    BY DEF Past, Lifecycle!WorkflowStates
  <1>4. TypeOK'
    BY <1>1, <1>3 DEF IInv, TypeOK
  <1>5. OneHolder' /\ HandlersAgree'
    BY <1>3, HolderStep
  <1>6. RunFollowsVerdict'
    BY <1>1, <1>2, <1>3 DEF RunFollowsVerdict, Past
  <1>7. KeysAgree' /\ WritesInOrder'
    BY <1>1 DEF IInv, Stored, KeysAgree, WritesInOrder
  <1> QED BY <1>4, <1>5, <1>6, <1>7 DEF IInv, Stored

\* A finished step keeps the order of the plan: only a success, which its key
\* confirms, unlocks the next step.
LEMMA FinishedStep ==
    ASSUME IInv, NEW k \in Order, steps[k] = "EXECUTING",
           NEW status \in StepStatuses \ {"NONE", "BLOCKED"},
           status = "SUCCEEDED" => idem[k] = "SUCCEEDED",
           steps' = Finished(k, status), UNCHANGED <<scenario, keys>>,
           plan' \notin {"PENDING_APPROVAL", "CANCELLED", "APPROVED"}
    PROVE  /\ steps' \in [Order -> StepStatuses]
           /\ steps'[k] = status
           /\ StepsInOrder'
  <1>1. /\ steps \in [Order -> StepStatuses] /\ Order' = Order /\ idem' = idem
        /\ Order = 1..scenario.steps /\ scenario.steps \in Nat
    BY ScenarioFacts DEF IInv, TypeOK, Order, keys, Kinds
  <1>2. /\ DOMAIN steps' = Order
        /\ steps'[k] = status
        /\ \A j \in Order \ {k} :
              steps'[j] = IF j = k + 1 /\ status = "SUCCEEDED" THEN "PENDING" ELSE steps[j]
    BY <1>1 DEF Finished
  <1>3. steps' \in [Order -> StepStatuses]
    BY <1>1 DEF Finished, StepStatuses
  <1>4. ASSUME NEW i \in Order, NEW j \in 1..(i - 1),
               steps'[i] \notin {"NONE", "BLOCKED"}
        PROVE  steps'[j] = "SUCCEEDED"
    <2>1. j \in Order /\ j < i
      BY <1>1
    <2>2. \A a \in Order : steps[a] \notin {"NONE", "BLOCKED"} =>
             \A b \in 1..(a - 1) : steps[b] = "SUCCEEDED"
      BY DEF IInv, Stored, StepsInOrder
    <2>3. CASE i = k
      <3>1. steps[j] = "SUCCEEDED" /\ j # k /\ j # k + 1
        BY <1>1, <2>1, <2>2, <2>3
      <3> QED BY <1>2, <2>1, <3>1
    <2>4. CASE i = k + 1 /\ status = "SUCCEEDED"
      <3>1. CASE j = k
        BY <1>2, <2>4, <3>1
      <3>2. CASE j # k
        <4>1. j \in 1..(k - 1) /\ j # k + 1
          BY <1>1, <2>1, <2>4, <3>2
        <4>2. steps[j] = "SUCCEEDED"
          BY <2>2, <4>1
        <4> QED BY <1>2, <2>1, <3>2, <4>1, <4>2
      <3> QED BY <3>1, <3>2
    <2>5. CASE i # k /\ ~(i = k + 1 /\ status = "SUCCEEDED")
      <3>1. steps[i] \notin {"NONE", "BLOCKED"}
        BY <1>2, <1>4, <2>5
      <3>2. \A b \in 1..(i - 1) : steps[b] = "SUCCEEDED"
        BY <2>2, <3>1
      <3>3. j # k /\ steps[j] = "SUCCEEDED"
        BY <3>2
      <3>4. j # k + 1 \/ status # "SUCCEEDED"
        <4>1. j = k + 1 => k \in 1..(i - 1)
          BY <1>1, <2>1
        <4> QED BY <3>2, <4>1
      <3> QED BY <1>2, <2>1, <3>3, <3>4
    <2> QED BY <2>3, <2>4, <2>5
  <1>5. ASSUME NEW i \in Order, steps'[i] = "SUCCEEDED" PROVE idem[i] = "SUCCEEDED"
    BY <1>2, <1>5 DEF IInv, Stored, StepsInOrder
  <1> QED BY <1>1, <1>2, <1>3, <1>4, <1>5 DEF StepsInOrder

LEMMA BeginsKeep ==
    ASSUME IInv, NEW h \in Handlers,
           BeginLifecycle(h) \/ BeginProcurement(h) \/ BeginMaintenance(h)
    PROVE  IInv'
  <1> USE DEF At
  <1>1. /\ request[h].at = "begin" /\ run.version \in Nat /\ 1 \in Order
        /\ UNCHANGED <<scenario, route, checkpoint, active, keys, faults>>
        /\ Order' = Order /\ HasPlan' = HasPlan /\ \A key : Is(key)' = Is(key)
    BY ScenarioFacts DEF BeginLifecycle, BeginProcurement, BeginMaintenance, IInv, TypeOK,
       Order, HasPlan, Is
  <1>2. CASE Goto(h, "release") /\ UNCHANGED <<run, progress>>
    <2>1. Settles /\ request[h].at \in Holding
      BY <1>1, <1>2 DEF Settles, Holding, IInv, TypeOK
    <2> QED BY <1>2, <2>1, QuietRelease
  <1>3. CASE BeginLifecycle(h) /\ CanBeginLifecycle(h)
    <2>1. /\ run.state \in {"RUNNING", "EXECUTING"} /\ run.version = request[h].version
          /\ plan' = "EXECUTING" /\ steps' = steps
          /\ run' = [state |-> "EXECUTING",
                     version |-> run.version + (IF run.state = "RUNNING" THEN 1 ELSE 0)]
          /\ request' = [request EXCEPT ![h].at = "loop", ![h].version = run'.version]
          /\ Is("employee_lifecycle")
      BY <1>3 DEF BeginLifecycle, CanBeginLifecycle
    <2>2. /\ run' \in [state : Past, version : Nat]
          /\ run'.state = "EXECUTING" /\ run'.version \in Nat
      BY <1>1, <2>1 DEF Past
    <2>3. /\ request' \in [Handlers -> Requests]
          /\ request'[h].at = "loop" /\ request'[h].version = run'.version
          /\ \A g \in Handlers \ {h} : request'[g] = request[g]
      <3> DEFINE v == run'.version
      <3>1. v \in Nat /\ request \in [Handlers -> Requests] /\ request[h] \in Requests
        BY <2>2 DEF IInv, TypeOK
      <3>2. request' = [request EXCEPT ![h].at = "loop", ![h].version = v]
        BY <2>1
      <3> HIDE DEF v
      <3> QED
        <4>1. /\ request' \in [Handlers -> Requests]
              /\ request'[h].at = "loop" /\ request'[h].version = v
              /\ \A g \in Handlers \ {h} : request'[g] = request[g]
          BY <3>1, <3>2 DEF Requests, Phases
        <4> QED BY <4>1 DEF v
    <2>4. Owns(request[h])'
      BY <1>1, <2>1, <2>2, <2>3 DEF Owns, InStep
    <2>5. verdict = "APPROVED" /\ verdict' = verdict
      BY <1>1, <2>1 DEF IInv, Stored, RunFollowsVerdict, route
    <2>6. StepsInOrder' /\ CompletedMeansDone'
      BY <1>1, <2>1, <2>2 DEF IInv, Stored, StepsInOrder, CompletedMeansDone, keys
    <2>7. PlanFollowsRun'
      BY <1>1, <2>1, <2>2, <2>5 DEF PlanFollowsRun
    <2>8. plan' \in PlanStatuses /\ steps' \in [Order -> StepStatuses]
      BY <2>1 DEF IInv, TypeOK, PlanStatuses
    <2> QED BY <1>1, <2>1, <2>2, <2>3, <2>4, <2>6, <2>7, <2>8, RunStep DEF Holding, Executing
  <1>4. CASE BeginProcurement(h) /\ ~(Goto(h, "release") /\ UNCHANGED <<run, progress>>)
    <2>1. /\ run.state = "RUNNING" /\ run.version = request[h].version
          /\ plan' = "EXECUTING" /\ steps' = [steps EXCEPT ![1] = "EXECUTING"]
          /\ steps[1] = "PENDING" /\ Is("procurement")
          /\ run' = [state |-> "EXECUTING", version |-> run.version + 1]
          /\ request' = [request EXCEPT ![h].at = "gateway", ![h].step = 1,
                                        ![h].version = run'.version]
      BY <1>4 DEF BeginProcurement, CanStart, StartStep, Move
    <2>2. run' \in [state : Past, version : Nat] /\ run'.state = "EXECUTING"
      BY <1>1, <2>1 DEF Past
    <2>3. /\ request' \in [Handlers -> Requests]
          /\ request'[h].at = "gateway" /\ request'[h].version = run'.version
          /\ request'[h].step = 1
          /\ \A g \in Handlers \ {h} : request'[g] = request[g]
      BY <2>1, <2>2 DEF IInv, TypeOK, Requests, Phases
    <2>4. /\ steps' \in [Order -> StepStatuses] /\ steps'[1] = "EXECUTING"
          /\ Order = {1}
      BY <1>1, <2>1, ScenarioFacts DEF IInv, TypeOK, StepStatuses, Is
    <2>5. Owns(request[h])'
      BY <1>1, <2>1, <2>2, <2>3, <2>4 DEF Owns, InStep
    <2>6. verdict = "APPROVED" /\ verdict' = verdict
      BY <1>1, <2>1 DEF IInv, Stored, RunFollowsVerdict, route
    <2>7. StepsInOrder'
      BY <1>1, <2>1, <2>4 DEF StepsInOrder
    <2>8. CompletedMeansDone' /\ PlanFollowsRun'
      BY <1>1, <2>1, <2>2, <2>4, <2>6 DEF CompletedMeansDone, PlanFollowsRun
    <2>9. plan' \in PlanStatuses /\ run.state \notin Past
      BY <2>1 DEF PlanStatuses, Past
    <2> QED BY <1>1, <2>1, <2>2, <2>3, <2>4, <2>5, <2>7, <2>8, <2>9, RunStep
            DEF Holding, Executing, InStep
  <1>5. CASE BeginMaintenance(h) /\ CanMove(request[h].version, "EXECUTING")
    <2>1. /\ run.version = request[h].version /\ Is("equipment_maintenance")
          /\ run' = [state |-> "EXECUTING", version |-> run.version + 1]
          /\ request' = [request EXCEPT ![h].at = "gateway", ![h].step = 1,
                                        ![h].version = run'.version]
          /\ UNCHANGED progress
      BY <1>5 DEF BeginMaintenance, CanMove, Move
    <2>2. run.state = "RUNNING"
      BY <1>5 DEF CanMove, Lifecycle!CanTransition, Lifecycle!AllowedTargets, IInv, TypeOK,
         Lifecycle!WorkflowStates
    <2>3. run' \in [state : Past, version : Nat] /\ run'.state = "EXECUTING"
      BY <1>1, <2>1 DEF Past
    <2>4. /\ request' \in [Handlers -> Requests]
          /\ request'[h].at = "gateway" /\ request'[h].version = run'.version
          /\ request'[h].step = 1
          /\ \A g \in Handlers \ {h} : request'[g] = request[g]
      BY <2>1, <2>3 DEF IInv, TypeOK, Requests, Phases
    <2>5. ~HasPlan
      BY <2>1 DEF HasPlan
    <2>6. Owns(request[h])'
      BY <1>1, <2>3, <2>4, <2>5 DEF Owns, InStep
    <2>7. StepsInOrder' /\ CompletedMeansDone' /\ PlanFollowsRun'
      BY <1>1, <2>1, <2>3, <2>5 DEF IInv, Stored, StepsInOrder, CompletedMeansDone,
         PlanFollowsRun, progress, keys
    <2>8. plan' \in PlanStatuses /\ steps' \in [Order -> StepStatuses] /\ run.state \notin Past
      BY <2>1, <2>2 DEF IInv, TypeOK, Past, progress
    <2> QED BY <1>1, <2>2, <2>3, <2>4, <2>6, <2>7, <2>8, RunStep DEF Holding, Executing, InStep
  <1> QED BY <1>2, <1>3, <1>4, <1>5
          DEF BeginLifecycle, BeginProcurement, BeginMaintenance, progress

LEMMA LoopKeeps ==
    ASSUME IInv, NEW h \in Handlers,
           NextStep(h) \/ InterruptedStep(h) \/ CompleteLifecycle(h)
    PROVE  IInv'
  <1> USE DEF At
  <1>1. /\ request[h].at = "loop" /\ Is("employee_lifecycle") /\ HasPlan
        /\ run \in [state : Lifecycle!WorkflowStates, version : Nat] /\ run.version \in Nat
        /\ run.state = "EXECUTING" /\ run.version = request[h].version
        /\ verdict = "APPROVED" /\ plan = "EXECUTING"
        /\ steps \in [Order -> StepStatuses]
        /\ request \in [Handlers -> Requests] /\ request[h] \in Requests
    BY OwnedRun DEF NextStep, InterruptedStep, CompleteLifecycle, Executing, IInv, TypeOK,
       HandlersAgree, Owns, HasPlan, Is
  <1>2. /\ UNCHANGED <<scenario, route, checkpoint, active, keys, faults>>
        /\ UNCHANGED <<verdict, idem>>
        /\ Order' = Order /\ HasPlan' = HasPlan /\ \A key : Is(key)' = Is(key)
    BY DEF NextStep, InterruptedStep, CompleteLifecycle, Order, HasPlan, Is, route, keys
  <1>3. CASE NextStep(h)
    <2> PICK i \in Ready : /\ CanStart(i) /\ StartStep(i)
                           /\ request' = [request EXCEPT ![h].at = "gateway", ![h].step = i]
      BY <1>3 DEF NextStep
    <2>1. /\ i \in Order /\ steps[i] = "PENDING" /\ i \in Nat
          /\ steps' = [steps EXCEPT ![i] = "EXECUTING"]
          /\ UNCHANGED <<run, plan>>
      BY <1>3 DEF NextStep, Ready, StartStep, Order
    <2>2. /\ steps' \in [Order -> StepStatuses] /\ steps'[i] = "EXECUTING"
          /\ \A j \in Order \ {i} : steps'[j] = steps[j]
      BY <1>1, <2>1 DEF StepStatuses
    <2>3. /\ request' \in [Handlers -> Requests]
          /\ request'[h].at = "gateway" /\ request'[h].step = i
          /\ request'[h].version = request[h].version
          /\ \A g \in Handlers \ {h} : request'[g] = request[g]
      BY <1>1, <2>1 DEF Requests, Phases
    <2>4. Owns(request[h])'
      BY <1>1, <1>2, <2>1, <2>2, <2>3 DEF Owns, InStep
    <2>5. StepsInOrder'
      <3>1. ASSUME NEW j \in Order, steps'[j] \notin {"NONE", "BLOCKED"}, NEW b \in 1..(j - 1)
            PROVE  steps'[b] = "SUCCEEDED"
        <4>1. steps[j] \notin {"NONE", "BLOCKED"}
          BY <2>1, <2>2, <3>1
        <4>2. steps[b] = "SUCCEEDED" /\ b \in Order
          BY <4>1, ScenarioFacts DEF IInv, Stored, StepsInOrder, Order, Kinds
        <4> QED BY <2>1, <2>2, <4>2
      <3>2. ASSUME NEW j \in Order, steps'[j] = "SUCCEEDED" PROVE idem[j] = "SUCCEEDED"
        BY <2>2, <3>2 DEF IInv, Stored, StepsInOrder
      <3> QED BY <1>1, <1>2, <2>1, <3>1, <3>2 DEF StepsInOrder
    <2>6. CompletedMeansDone' /\ PlanFollowsRun'
      BY <1>1, <1>2, <2>1, <2>2 DEF CompletedMeansDone, PlanFollowsRun
    <2>7. run' \in [state : Past, version : Nat] /\ plan' \in PlanStatuses
      BY <1>1, <2>1 DEF Past, PlanStatuses
    <2> QED BY <1>1, <1>2, <2>1, <2>2, <2>3, <2>4, <2>5, <2>6, <2>7, RunStep
            DEF Holding, Executing, InStep
  <1>4. CASE InterruptedStep(h) \/ CompleteLifecycle(h)
    <2>1. /\ steps' = steps /\ Goto(h, "release")
          /\ run'.version = run.version + 1 /\ plan' = run'.state
          /\ run' \in [state : Past, version : Nat]
          /\ \/ run'.state = "COMPLETED" /\ CanComplete(steps)
             \/ run'.state = "WAITING_HUMAN" /\ Interrupted # {}
      BY <1>1, <1>4 DEF InterruptedStep, CompleteLifecycle, Move, Past
    <2>2. /\ request' \in [Handlers -> Requests] /\ request'[h].at = "release"
          /\ \A g \in Handlers \ {h} : request'[g] = request[g]
      BY <1>1, <2>1 DEF Goto, Requests, Phases
    <2>3. Owns(request[h])'
      BY <2>2 DEF Owns, Executing, InStep
    <2>4. StepsInOrder' /\ plan' \in PlanStatuses
      BY <1>1, <1>2, <2>1 DEF IInv, Stored, StepsInOrder, PlanStatuses
    <2>5. CompletedMeansDone' /\ PlanFollowsRun'
      <3>1. CASE run'.state = "COMPLETED" /\ CanComplete(steps)
        BY <1>1, <1>2, <2>1, <3>1 DEF CanComplete, IInv, Stored, StepsInOrder,
           CompletedMeansDone, PlanFollowsRun
      <3>2. CASE run'.state = "WAITING_HUMAN" /\ Interrupted # {}
        BY <1>1, <1>2, <2>1, <3>2 DEF Interrupted, CompletedMeansDone, PlanFollowsRun
      <3> QED BY <2>1, <3>1, <3>2
    <2> QED BY <1>1, <1>2, <2>1, <2>2, <2>3, <2>4, <2>5, RunStep DEF Holding, Executing, InStep
  <1> QED BY <1>3, <1>4

\* Success, and failure or doubt, of a step of a plan.
LEMMA PlanStepEnds ==
    ASSUME IInv, NEW h \in Handlers,
           \/ FinishLifecycleStep(h) \/ LifecycleRequiresHuman(h)
           \/ CompleteProcurement(h) \/ ProcurementRequiresHuman(h)
    PROVE  IInv'
  <1> DEFINE k == request[h].step
  <1> USE DEF At
  <1>1. /\ request[h].at \in {"close", "raised"} /\ HasPlan
        /\ run.version \in Nat /\ run.state = "EXECUTING" /\ run.version = request[h].version
        /\ verdict = "APPROVED" /\ plan = "EXECUTING"
        /\ k \in Order /\ steps[k] = "EXECUTING" /\ (~Is("employee_lifecycle") => k = 1)
        /\ request \in [Handlers -> Requests] /\ request[h] \in Requests
    BY OwnedRun DEF FinishLifecycleStep, LifecycleRequiresHuman, CompleteProcurement,
       ProcurementRequiresHuman, Executing, InStep, IInv, TypeOK, HasPlan, Is
  <1>2. /\ request[h].at = "close" => request[h].result \in Ends
        /\ request[h].at = "close" /\ request[h].result = "SUCCEEDED" => idem[k] = "SUCCEEDED"
    BY DEF IInv, HandlersAgree, Owns
  <1>3. /\ UNCHANGED <<scenario, route, checkpoint, active, keys, faults>>
        /\ UNCHANGED <<verdict, idem>>
        /\ Order' = Order /\ HasPlan' = HasPlan /\ \A key : Is(key)' = Is(key)
    BY DEF FinishLifecycleStep, LifecycleRequiresHuman, CompleteProcurement,
       ProcurementRequiresHuman, Order, HasPlan, Is, route, keys
  <1>4. CASE FinishLifecycleStep(h)
    <2>1. /\ steps' = Finished(k, "SUCCEEDED") /\ idem[k] = "SUCCEEDED"
          /\ Goto(h, "loop") /\ UNCHANGED <<run, plan>> /\ Is("employee_lifecycle")
      BY <1>2, <1>4 DEF FinishLifecycleStep
    <2>2. steps' \in [Order -> StepStatuses] /\ StepsInOrder'
      BY <1>1, <1>3, <2>1, FinishedStep DEF StepStatuses
    <2>3. /\ request' \in [Handlers -> Requests]
          /\ request'[h].at = "loop" /\ request'[h].version = request[h].version
          /\ \A g \in Handlers \ {h} : request'[g] = request[g]
      BY <1>1, <2>1 DEF Goto, Requests, Phases
    <2>4. Owns(request[h])'
      BY <1>1, <1>3, <2>1, <2>3 DEF Owns, InStep
    <2>5. CompletedMeansDone' /\ PlanFollowsRun'
      BY <1>1, <1>3, <2>1 DEF CompletedMeansDone, PlanFollowsRun
    <2>6. run' \in [state : Past, version : Nat] /\ plan' \in PlanStatuses
      BY <1>1, <2>1 DEF IInv, TypeOK, Past, PlanStatuses
    <2> QED BY <1>1, <1>3, <2>2, <2>3, <2>4, <2>5, <2>6, RunStep DEF Holding, Executing, InStep
  <1>5. CASE LifecycleRequiresHuman(h) \/ ProcurementRequiresHuman(h)
    <2> DEFINE status == IF At(h, "raised") THEN "FAILED" ELSE StepStatusOf(request[h].result)
    <2>1. /\ steps' = Finished(k, status) /\ request[h].result # "SUCCEEDED"
          /\ plan' = "WAITING_HUMAN" /\ Goto(h, "release")
          /\ run' = [state |-> "WAITING_HUMAN", version |-> run.version + 1]
      BY <1>1, <1>5 DEF LifecycleRequiresHuman, ProcurementRequiresHuman, Move, Is
    <2>2. status \in StepStatuses \ {"NONE", "BLOCKED", "SUCCEEDED"}
      BY <1>1, <1>2, <2>1 DEF StepStatusOf, Ends, Outcomes, StepStatuses
    <2>3. steps' \in [Order -> StepStatuses] /\ StepsInOrder' /\ steps'[k] # "SUCCEEDED"
      <3> HIDE DEF status
      <3> QED BY <1>1, <1>3, <2>1, <2>2, FinishedStep
    <2>4. /\ request' \in [Handlers -> Requests] /\ request'[h].at = "release"
          /\ \A g \in Handlers \ {h} : request'[g] = request[g]
      BY <1>1, <2>1 DEF Goto, Requests, Phases
    <2>5. Owns(request[h])'
      BY <2>4 DEF Owns, Executing, InStep
    <2>6. run' \in [state : Past, version : Nat] /\ run'.state = "WAITING_HUMAN"
      BY <1>1, <2>1 DEF Past
    <2>7. CompletedMeansDone' /\ PlanFollowsRun' /\ plan' \in PlanStatuses
      BY <1>1, <1>3, <2>1, <2>3, <2>6 DEF CompletedMeansDone, PlanFollowsRun, PlanStatuses
    <2> QED BY <1>1, <1>3, <2>3, <2>4, <2>5, <2>6, <2>7, RunStep DEF Holding, Executing, InStep
  <1>6. CASE CompleteProcurement(h)
    <2>1. /\ steps' = Finished(k, "SUCCEEDED") /\ idem[k] = "SUCCEEDED"
          /\ plan' = "COMPLETED" /\ Goto(h, "release") /\ CanComplete(steps)'
          /\ run' = [state |-> "COMPLETED", version |-> run.version + 1]
      BY <1>1, <1>2, <1>3, <1>6 DEF CompleteProcurement, CanComplete, Move, Is
    <2>2. steps' \in [Order -> StepStatuses] /\ StepsInOrder'
      BY <1>1, <1>3, <2>1, FinishedStep DEF StepStatuses
    <2>3. /\ request' \in [Handlers -> Requests] /\ request'[h].at = "release"
          /\ \A g \in Handlers \ {h} : request'[g] = request[g]
      BY <1>1, <2>1 DEF Goto, Requests, Phases
    <2>4. Owns(request[h])'
      BY <2>3 DEF Owns, Executing, InStep
    <2>5. run' \in [state : Past, version : Nat] /\ run'.state = "COMPLETED"
      BY <1>1, <2>1 DEF Past
    <2>6. \A i \in Order : steps'[i] = "SUCCEEDED" /\ idem'[i] = "SUCCEEDED"
      BY <1>3, <2>1, <2>2 DEF CanComplete, StepsInOrder
    <2>7. CompletedMeansDone' /\ PlanFollowsRun' /\ plan' \in PlanStatuses
      BY <1>1, <1>3, <2>1, <2>5, <2>6 DEF CompletedMeansDone, PlanFollowsRun, PlanStatuses
    <2> QED BY <1>1, <1>3, <2>2, <2>3, <2>4, <2>5, <2>7, RunStep DEF Holding, Executing, InStep
  <1> QED BY <1>4, <1>5, <1>6

\* The result of a maintenance order, which has no plan.
LEMMA MaintenanceEnds ==
    ASSUME IInv, NEW h \in Handlers, FinishMaintenance(h) \/ MaintenanceRaised(h)
    PROVE  IInv'
  <1> USE DEF At
  <1>1. /\ request[h].at \in {"close", "raised"} /\ ~HasPlan
        /\ run.version \in Nat /\ run.state = "EXECUTING" /\ request[h].step = 1
        /\ Order = {1} /\ request \in [Handlers -> Requests]
        /\ Goto(h, "release") /\ UNCHANGED progress
        /\ UNCHANGED <<scenario, route, checkpoint, active, keys, faults>>
        /\ UNCHANGED <<verdict, idem, plan, steps>>
        /\ Order' = Order /\ HasPlan' = HasPlan
    BY OwnedRun, ScenarioFacts DEF FinishMaintenance, MaintenanceRaised, Executing, InStep,
       IInv, TypeOK, HasPlan, Is, Order, route, keys, progress
  <1>2. CASE run' = run
    <2>1. Settles /\ request[h].at \in Holding
      BY <1>1, <1>2 DEF Settles, Holding, Executing, InStep, IInv, TypeOK
    <2> QED BY <1>1, <2>1, QuietRelease
  <1>3. CASE run' # run
    <2>1. /\ run' \in [state : Past, version : Nat]
          /\ run'.state = "COMPLETED" => request[h].at = "close" /\ request[h].result = "SUCCEEDED"
      BY <1>1, <1>3 DEF FinishMaintenance, MaintenanceRaised, TargetOf, Move, Past
    <2>2. run'.state = "COMPLETED" => idem[1] = "SUCCEEDED"
      BY <1>1, <2>1 DEF IInv, HandlersAgree, Owns
    <2>3. /\ request' \in [Handlers -> Requests] /\ request'[h].at = "release"
          /\ \A g \in Handlers \ {h} : request'[g] = request[g]
      BY <1>1 DEF Goto, IInv, TypeOK, Requests, Phases
    <2>4. Owns(request[h])'
      BY <2>3 DEF Owns, Executing, InStep
    <2>5. StepsInOrder' /\ CompletedMeansDone' /\ PlanFollowsRun'
      BY <1>1, <2>2 DEF IInv, Stored, StepsInOrder, CompletedMeansDone, PlanFollowsRun
    <2>6. plan' \in PlanStatuses /\ steps' \in [Order -> StepStatuses]
      BY <1>1 DEF IInv, TypeOK
    <2> QED BY <1>1, <2>1, <2>3, <2>4, <2>5, <2>6, RunStep DEF Holding, Executing, InStep
  <1> QED BY <1>2, <1>3

\* An execution that nobody is on is handed to a human by one who has found the
\* registry empty: no other execution has begun since.
LEMMA RecoveriesKeep ==
    ASSUME IInv, NEW h \in Handlers, RecoverProcurement(h) \/ RecoverMaintenance(h)
    PROVE  IInv'
  <1> USE DEF At
  <1>1. /\ request[h].at = "interrupt" /\ Reply(h) /\ 1 \in Order
        /\ UNCHANGED <<scenario, route, checkpoint, active, keys, faults>>
        /\ UNCHANGED <<approved, verdict, idem, exec, sends>>
        /\ Order' = Order /\ HasPlan' = HasPlan /\ \A key : Is(key)' = Is(key)
        /\ request \in [Handlers -> Requests] /\ run.version \in Nat
    BY ScenarioFacts DEF RecoverProcurement, RecoverMaintenance, Order, HasPlan, Is, route, keys,
       IInv, TypeOK
  <1>2. \A g \in Handlers : request[g].at \notin Executing
    BY <1>1 DEF IInv, HandlersAgree, Waits
  <1>3. CASE UNCHANGED <<run, progress>>
    <2>1. Settles
      BY <1>1, <1>3 DEF Settles, IInv, TypeOK
    <2> QED BY <1>1, <2>1, QuietReply
  <1>4. CASE ~UNCHANGED <<run, progress>>
    <2>1. /\ run.state = "EXECUTING"
          /\ run' = [state |-> "WAITING_HUMAN", version |-> run.version + 1]
          /\ \/ /\ HasPlan /\ steps[1] = "EXECUTING"
                /\ steps' = Finished(1, "RESULT_UNKNOWN") /\ plan' = "WAITING_HUMAN"
             \/ ~HasPlan /\ UNCHANGED <<plan, steps>>
      BY <1>4 DEF RecoverProcurement, RecoverMaintenance, Move, HasPlan, Is, CanFinish, progress
    <2>2. run'.state = "WAITING_HUMAN" /\ run' \in [state : Lifecycle!WorkflowStates, version : Nat]
      BY <1>1, <2>1 DEF Lifecycle!WorkflowStates
    <2>3. verdict = "APPROVED" /\ approved = scenario.stages
      BY <2>1 DEF IInv, Stored, RunFollowsVerdict
    <2>4. /\ request' \in [Handlers -> Requests]
          /\ \A g \in Handlers : request'[g] = request[g] \/ request'[g].at = "idle"
      BY <1>1 DEF Reply, Idle, Requests, Phases
    <2>5. /\ steps' \in [Order -> StepStatuses] /\ StepsInOrder' /\ plan' \in PlanStatuses
          /\ HasPlan => plan' = "WAITING_HUMAN" /\ steps'[1] = "RESULT_UNKNOWN"
      <3>1. CASE HasPlan
        BY <1>1, <2>1, <3>1, FinishedStep DEF StepStatuses, PlanStatuses
      <3>2. CASE ~HasPlan
        BY <1>1, <2>1, <3>2 DEF IInv, TypeOK, Stored, StepsInOrder
      <3> QED BY <3>1, <3>2
    <2>6. TypeOK'
      BY <1>1, <2>2, <2>4, <2>5 DEF IInv, TypeOK
    <2>7. RunFollowsVerdict' /\ KeysAgree' /\ WritesInOrder'
      BY <1>1, <2>2, <2>3 DEF IInv, Stored, RunFollowsVerdict, KeysAgree, WritesInOrder, Past
    <2>8. CompletedMeansDone' /\ PlanFollowsRun'
      BY <1>1, <2>2, <2>3, <2>5 DEF CompletedMeansDone, PlanFollowsRun
    <2>9. OneHolder'
      BY <1>1, <2>4 DEF IInv, OneHolder, Holding, Executing, InStep
    <2>10. HandlersAgree'
      <3>1. \A g \in Handlers : request'[g].at \notin Executing
        BY <1>2, <2>4 DEF Executing, InStep
      <3>2. \A g \in Handlers : Waits(request[g])' /\ Owns(request[g])'
        BY <1>1, <2>2, <2>4, <3>1 DEF IInv, HandlersAgree, Waits, Owns, Past, Executing, InStep
      <3> QED BY <3>2 DEF HandlersAgree
    <2> QED BY <2>5, <2>6, <2>7, <2>8, <2>9, <2>10 DEF IInv, Stored
  <1> QED BY <1>3, <1>4

-----------------------------------------------------------------------------
LEMMA InvariantIsInductive == IInv /\ [Next]_vars => IInv'
  <1> SUFFICES ASSUME IInv, [Next]_vars PROVE IInv'
    OBVIOUS
  <1>1. CASE HumanReview
    BY <1>1, ReviewKeeps
  <1>2. CASE Crash
    BY <1>2, CrashKeeps
  <1>3. ASSUME NEW h \in Handlers, HandlerStep(h) PROVE IInv'
    <2>1. CASE Pause(h)
      BY <2>1, PauseReads, SingleDecisionKeeps, ApproveStageKeeps, EndRouteKeeps DEF Pause
    <2>2. CASE LifecycleStep(h)
      BY <2>2, IntakeKeeps, ChecksKeep, BeginsKeep, LoopKeeps, PlanStepEnds DEF LifecycleStep
    <2>3. CASE ProcurementStep(h)
      BY <2>3, IntakeKeeps, ChecksKeep, RecoveriesKeep, BeginsKeep, PlanStepEnds
         DEF ProcurementStep
    <2>4. CASE MaintenanceStep(h)
      BY <2>4, IntakeKeeps, ChecksKeep, RecoveriesKeep, BeginsKeep, MaintenanceEnds
         DEF MaintenanceStep
    <2>5. CASE Claim(h) \/ ExecutionFails(h) \/ Release(h)
      BY <2>5, ClaimsKeep
    <2>6. CASE Gateway(h)
      BY <2>6, GatewayKeeps
    <2> QED BY <1>3, <2>1, <2>2, <2>3, <2>4, <2>5, <2>6 DEF HandlerStep
  <1>4. CASE UNCHANGED vars
    <2>1. /\ UNCHANGED <<scenario, run, route, progress, checkpoint, active, keys, request, faults>>
          /\ Order' = Order /\ HasPlan' = HasPlan /\ \A key : Is(key)' = Is(key)
      BY <1>4 DEF vars, Order, HasPlan, Is
    <2>2. Stored'
      BY <2>1, StoredStands DEF IInv
    <2>3. TypeOK' /\ OneHolder' /\ HandlersAgree'
      BY <2>1 DEF IInv, TypeOK, OneHolder, HandlersAgree, Waits, Owns, route, progress, keys
    <2> QED BY <2>2, <2>3 DEF IInv
  <1> QED BY <1>1, <1>2, <1>3, <1>4 DEF Next

LEMMA InvariantHolds == Spec => []IInv
  BY InitEstablishes, InvariantIsInductive, PTL DEF Spec

\* Every variable keeps its type, with any scenario, number of handlers, crashes
\* and failures (PlanRun).
THEOREM ScenarioTypes == Spec => []TypeOK
  <1>1. IInv => TypeOK
    BY DEF IInv
  <1> QED BY <1>1, InvariantHolds, PTL

\* However many handlers decide, repeat and resume, and wherever they crash: the
\* write of a step is sent at most once, after all stages of the approval and
\* all steps before it (ActionPlanRepository, IdempotencyStore, the registry).
THEOREM WritesAreInOrder == Spec => []WritesInOrder
  <1>1. IInv => WritesInOrder
    BY DEF IInv, Stored
  <1> QED BY <1>1, InvariantHolds, PTL

\* A run that ends as completed after its approval has done what was approved,
\* or a human has said so of a write that was sent.
THEOREM CompletedRunsAreDone == Spec => []CompletedMeansDone
  <1>1. IInv => CompletedMeansDone
    BY DEF IInv, Stored
  <1> QED BY <1>1, InvariantHolds, PTL

\* The plan and its steps never contradict the run they belong to, though they
\* are rows of their own.
THEOREM PlansFollowRuns == Spec => []PlanFollowsRun
  <1>1. IInv => PlanFollowsRun
    BY DEF IInv, Stored
  <1> QED BY <1>1, InvariantHolds, PTL

\* No two executions of a run are under way at once, and nobody moves the run
\* under one that is (ExecutionActivityRegistry, require_inactive).
ExecutionsExclude ==
    \A g, h \in Handlers :
        request[g].at \in Executing =>
            /\ run.state = "EXECUTING" /\ run.version = request[g].version
            /\ request[h].at \in Executing => g = h

\* The claim of the registry and the checks of an interrupted execution exclude
\* each other for any number of handlers.
THEOREM OneExecution == Spec => []ExecutionsExclude
  <1>1. IInv => ExecutionsExclude
    BY DEF IInv, OneHolder, HandlersAgree, Owns, ExecutionsExclude, Holding
  <1> QED BY <1>1, InvariantHolds, PTL

-----------------------------------------------------------------------------
(* The gateway of the scenarios keeps the promise of OnceOnlyWrite.         *)

\* The keys of any run of these scenarios: a key names the step of a plan.
StepKeys == UNION {1..s.steps : s \in Scenarios}

Sent == [k \in StepKeys |-> IF k \in Order THEN sends[k] ELSE 0]
Concluded ==
    [k \in StepKeys |->
        IF k \in Order /\ idem[k] \notin {"NONE", "IN_PROGRESS"} THEN idem[k] ELSE "OPEN"]

\* What the enterprise system does with a write it has got is no part of this
\* model: nothing lands here, and nothing counts as refused.
Promise == INSTANCE OnceOnlyWrite WITH
    Keys <- StepKeys, sends <- Sent, landed <- {}, refused <- {}, outcome <- Concluded

\* Only the gateway changes a key, and only at three of its steps.
LEMMA KeysStand ==
    ASSUME [Next]_vars,
           \A h \in Handlers :
              /\ ~Reserve(h) /\ ~Finalize(h)
              /\ \A outcome \in Answers : ~Send(h, outcome)
    PROVE  UNCHANGED <<scenario, idem, sends>>
  <1> USE DEF keys
  <1>1. CASE HumanReview \/ Crash \/ UNCHANGED vars
    BY <1>1 DEF HumanReview, Note, Review, Crash, vars
  <1>2. ASSUME NEW h \in Handlers, HandlerStep(h) PROVE UNCHANGED <<scenario, idem, sends>>
    <2>1. CASE Pause(h)
      BY <2>1 DEF Pause, Arm, Invoke, Decide, SequenceSnapshot, SingleSnapshot, SingleDecision,
         ApproveStage, EndRoute, RepeatStage, ResumeRecorded, Resume, DecisionFails
    <2>2. CASE LifecycleStep(h)
      BY <2>2 DEF LifecycleStep, CreateLifecycle, ProvideLifecycle, LifecycleCheck,
         LifecycleActive, BeginLifecycle, NextStep, InterruptedStep, CompleteLifecycle,
         FinishLifecycleStep, LifecycleRequiresHuman
    <2>3. CASE ProcurementStep(h)
      BY <2>3 DEF ProcurementStep, CreateProcurement, ProvideProcurement, ProcurementCheck,
         ProcurementActive, RecoverProcurement, BeginProcurement, CompleteProcurement,
         ProcurementRequiresHuman
    <2>4. CASE MaintenanceStep(h)
      BY <2>4 DEF MaintenanceStep, CreateMaintenance, ProvideMaintenance, MaintenanceCheck,
         MaintenanceActive, RecoverMaintenance, BeginMaintenance, FinishMaintenance,
         MaintenanceRaised
    <2>5. CASE Claim(h) \/ ExecutionFails(h) \/ Release(h)
      BY <2>5 DEF Claim, ExecutionFails, Release
    <2>6. CASE Gateway(h)
      BY <2>6 DEF Gateway, Refuse, Start, Finish, GatewayFails
    <2> QED BY <1>2, <2>1, <2>2, <2>3, <2>4, <2>5, <2>6 DEF HandlerStep
  <1> QED BY <1>1, <1>2 DEF Next

LEMMA ScenarioStepKeepsPromise ==
    ASSUME IInv, [Next]_vars
    PROVE  [Promise!Next]_<<Sent, {}, {}, Concluded>>
  <1> USE DEF At
  <1>1. Order \subseteq StepKeys
    BY DEF IInv, TypeOK, Order, StepKeys
  <1>2. CASE UNCHANGED <<scenario, idem, sends>>
    BY <1>2 DEF Sent, Concluded, Order
  <1>3. ASSUME NEW h \in Handlers, Reserve(h) PROVE UNCHANGED <<Sent, Concluded>>
    <2>1. /\ Order' = Order /\ sends' = sends /\ idem \in [Order -> KeyStatuses]
          /\ idem' = [idem EXCEPT ![request[h].step] = IF @ = "NONE" THEN "IN_PROGRESS" ELSE @]
      BY <1>3 DEF Reserve, Order, IInv, TypeOK
    <2>2. \A k \in Order : idem'[k] = idem[k] \/ (idem[k] = "NONE" /\ idem'[k] = "IN_PROGRESS")
      BY <2>1
    <2> QED BY <2>1, <2>2 DEF Sent, Concluded
  <1>4. ASSUME NEW h \in Handlers, NEW outcome \in Answers, Send(h, outcome)
        PROVE  Promise!Next
    <2> DEFINE i == request[h].step
    <2>1. i \in Order /\ sends[i] = 0
      BY <1>4 DEF Send, IInv, HandlersAgree, Owns, InStep
    <2>2. /\ Order' = Order /\ idem' = idem /\ sends \in [Order -> Nat]
          /\ sends' = [sends EXCEPT ![i] = @ + 1]
      BY <1>4 DEF Send, Order, IInv, TypeOK
    <2>3. Sent[i] = 0 /\ Sent' = [Sent EXCEPT ![i] = 1] /\ Concluded' = Concluded
      BY <1>1, <2>1, <2>2 DEF Sent, Concluded
    <2>4. Promise!Send(i)
      BY <2>3 DEF Promise!Send
    <2> QED BY <1>1, <2>1, <2>4 DEF Promise!Next
  <1>5. ASSUME NEW h \in Handlers, Finalize(h)
        PROVE  Promise!Next
    <2> DEFINE i == request[h].step
               o == KeyStatusOf(request[h].result)
    <2>1. /\ i \in Order /\ sends[i] = 1 /\ idem[i] = "IN_PROGRESS"
          /\ request[h].result \in Ends
      BY <1>5 DEF Finalize, IInv, HandlersAgree, Owns, InStep
    <2>2. /\ Order' = Order /\ sends' = sends /\ idem \in [Order -> KeyStatuses]
          /\ idem' = [idem EXCEPT ![i] = o]
      BY <1>5 DEF Finalize, Order, IInv, TypeOK
    <2>3. o \in Promise!Outcomes \ {"FAILED"} /\ o \notin {"NONE", "IN_PROGRESS"}
      BY <2>1 DEF KeyStatusOf, Ends, Outcomes, Promise!Outcomes
    <2>4. /\ Sent[i] = 1 /\ Sent' = Sent
          /\ Concluded[i] = "OPEN" /\ Concluded' = [Concluded EXCEPT ![i] = o]
      <3> HIDE DEF o
      <3> QED BY <1>1, <2>1, <2>2, <2>3 DEF Sent, Concluded
    <2>5. Promise!Settle(i, o)
      BY <2>3, <2>4 DEF Promise!Settle
    <2> QED BY <1>1, <2>1, <2>3, <2>5 DEF Promise!Next
  <1> QED BY <1>2, <1>3, <1>4, <1>5, KeysStand

\* Whatever handlers, crashes and scenarios there are, every write of a run is
\* sent at most once and concluded at most once, after it was sent, and none is
\* ever recorded as FAILED: through this client a refusal cannot be told from a
\* lost answer (ActionGateway.execute, StreamableHttpMcpToolCaller).
THEOREM ScenariosWriteOnce == Spec => Promise!Spec
  <1>1. Init => Promise!Init
    BY DEF Init, Promise!Init, Sent, Concluded
  <1>2. IInv /\ [Next]_vars => [Promise!Next]_<<Sent, {}, {}, Concluded>>
    BY ScenarioStepKeepsPromise
  <1> QED BY <1>1, <1>2, InvariantHolds, PTL DEF Spec, Promise!Spec
================================================================================
