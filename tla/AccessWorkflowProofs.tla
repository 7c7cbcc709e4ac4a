------------------------- MODULE AccessWorkflowProofs -------------------------
(***************************************************************************)
(* For any number of request handlers: a write in flight keeps its run     *)
(* EXECUTING, a run is executed at most once, runs follow the lifecycle,   *)
(* the gateway inside the workflow is the one of ActionGateway, what the   *)
(* machine concludes is true, and what is interrupted can be recovered.    *)
(*                                                                         *)
(* The argument: the claim on the run belongs to one handler at a time     *)
(* (Claims); a run leaves RUNNING for good when it is executed (Once), so  *)
(* a handler that has found the run EXECUTING and no claim on it knows     *)
(* that no handler is in the gateway and that none will enter it again     *)
(* (Recovery), however late it acts on what it found.  A verdict rests on  *)
(* what ActionGatewayProofs proves of the gateway's records (Verdict); the *)
(* recovery on the order in which checkpoints were made (Graph).           *)
(***************************************************************************)
EXTENDS AccessWorkflow, TLAPS

Claiming == {"begin", "gateway", "release"}
Unsent == {"approvals", "proposals", "state", "reserve", "start", "send"}
Unexecuted == {"CREATED", "WAITING_APPROVAL", "RUNNING"}

Shapes ==
    /\ run \in [state : Lifecycle!WorkflowStates, version : Nat]
    /\ starts \in Nat
    /\ active \in BOOLEAN
    /\ approval \in [Gateway!Proposals -> {"PENDING", "APPROVED", "REJECTED"}]
    /\ latest \in [{Action} -> Nat]
    /\ sends \in [{Key} -> Nat]
    /\ pc \in [Threads -> Gateway!Phases]
    /\ call = [t \in Threads |-> call[t]]
    /\ result = [t \in Threads |-> result[t]]
    /\ request = [t \in Threads |-> request[t]]
    /\ \A t \in Threads : "at" \in DOMAIN request[t]

\* Handlers only work on a stored request, and are in the gateway exactly while
\* their request says so.
Calls ==
    /\ run.state # "CREATED" => latest[Action] >= 1
    /\ \A t \in Threads :
        /\ request[t].at # "idle" => run.state # "CREATED"
        /\ pc[t] # "idle" <=> request[t].at = "gateway"
        /\ pc[t] = "idle" => call[t] = None /\ result[t] = None

Claims ==
    /\ \A t \in Threads : request[t].at \in Claiming => active = TRUE
    /\ \A t, u \in Threads :
        request[t].at \in Claiming /\ request[u].at \in Claiming => t = u

Once ==
    /\ approval[Proposal] = "PENDING" => run.state \in {"CREATED", "WAITING_APPROVAL"}
    /\ starts <= 1
    /\ run.state \in Unexecuted => starts = 0
    /\ run.state = "EXECUTING" => starts = 1
    /\ starts = 0 => sends[Key] = 0
    /\ sends[Key] <= 1
    /\ \A t \in Threads : pc[t] \in Unsent => sends[Key] = 0

Recovery ==
    \A t \in Threads :
        /\ request[t].at = "gateway" => run.state = "EXECUTING"
        /\ request[t].at \in {"recover", "interrupt"} => run.state \notin Unexecuted
        /\ request[t].at = "interrupt" => \A u \in Threads : request[u].at # "gateway"

Inv == Shapes /\ Calls /\ Claims /\ Once /\ Recovery

-----------------------------------------------------------------------------
(* What the steps do to the phases of the handlers                         *)

\* Handler t goes to a phase; the other handlers stay where they are.
Becomes(t, phase) ==
    /\ request' = [u \in Threads |-> request'[u]]
    /\ \A u \in Threads : "at" \in DOMAIN request'[u]
    /\ request'[t].at = phase
    /\ \A u \in Threads \ {t} : request'[u].at = request[u].at

LEMMA PhaseSteps ==
    ASSUME Shapes, NEW t \in Threads, NEW phase
    PROVE  /\ Goto(t, phase) => Becomes(t, phase)
           /\ Continue(t, phase) => Becomes(t, phase)
           /\ Reply(t) => Becomes(t, "idle")
           /\ \A unsaved : Flush(t, unsaved) => Becomes(t, "flush")
           /\ \A d, version : ResumeWith(t, d, version) => Becomes(t, "resume")
  <1> USE DEF Shapes, Becomes
  <1>1. Goto(t, phase) => Becomes(t, phase)
    BY DEF Goto
  <1>2. Continue(t, phase) => Becomes(t, phase)
    BY DEF Continue
  <1>3. Reply(t) => Becomes(t, "idle")
    <2>1. "at" \in DOMAIN Idle /\ Idle.at = "idle"
      BY DEF Idle
    <2> QED BY <2>1 DEF Reply
  <1>4. ASSUME NEW unsaved, Flush(t, unsaved) PROVE Becomes(t, "flush")
    BY <1>4 DEF Flush, Idle
  <1>5. ASSUME NEW d, NEW version, ResumeWith(t, d, version) PROVE Becomes(t, "resume")
    BY <1>5 DEF ResumeWith
  <1> QED BY <1>1, <1>2, <1>3, <1>4, <1>5

-----------------------------------------------------------------------------
(* The invariant, by what a step does to the phases                        *)

\* What the invariant speaks of in the gateway.
used == <<latest, approval, pc, call, result, sends>>

USE DEF Gateway!durable, Gateway!threads, Gateway!enterprise

LEMMA ProposalIsKnown == Proposal \in Gateway!Proposals
  BY DEF Proposal, Gateway!Proposals

LEMMA InitEstablishesInv == Init => Inv
  <1> SUFFICES ASSUME Init PROVE Inv
    OBVIOUS
  <1>1. /\ \A t \in Threads : request[t] = Idle /\ pc[t] = "idle" /\ call[t] = None
                             /\ result[t] = None
        /\ "at" \in DOMAIN Idle /\ Idle.at = "idle"
        /\ run.state = "CREATED" /\ starts = 0 /\ sends[Key] = 0
    BY DEF Init, Gateway!Init, Idle
  <1>2. active \in BOOLEAN
    BY DEF Init
  <1>3. Shapes
    BY <1>1, <1>2 DEF Shapes, Init, Gateway!Init, Gateway!Phases, Lifecycle!WorkflowStates
  <1>4. Calls /\ Claims /\ Once /\ Recovery
    BY <1>1 DEF Calls, Claims, Once, Recovery, Claiming, Unsent
  <1> QED BY <1>3, <1>4 DEF Inv

\* No handler changes its phase, and nothing else the invariant speaks of moves.
LEMMA SamePhases ==
    ASSUME Inv, request' = [t \in Threads |-> request'[t]],
           \A t \in Threads : request'[t].at = request[t].at /\ "at" \in DOMAIN request'[t],
           UNCHANGED <<used, run, starts, active>>
    PROVE  Inv'
  BY DEF Inv, Shapes, Calls, Claims, Once, Recovery, used

\* A handler without the claim goes on with a stored request, or is done.
LEMMA QuietStep ==
    ASSUME Inv, NEW t \in Threads,
           NEW phase \in Phases \ (Claiming \cup {"recover", "interrupt"}),
           Becomes(t, phase), request[t].at \notin Claiming, run.state # "CREATED",
           UNCHANGED <<used, run, starts, active>>
    PROVE  Inv'
  <1> USE DEF Becomes, Claiming
  <1>1. Shapes'
    BY DEF Inv, Shapes, used
  <1>2. Calls'
    BY DEF Inv, Calls, used
  <1>3. Claims'
    BY DEF Inv, Claims
  <1>4. Once' /\ Recovery'
    BY DEF Inv, Once, Recovery, used
  <1> QED BY <1>1, <1>2, <1>3, <1>4 DEF Inv

\* The claim is given up.
LEMMA ReleaseStep ==
    ASSUME Inv, NEW t \in Threads, request[t].at \in {"begin", "release"},
           Becomes(t, "flush"), active' = FALSE, UNCHANGED <<used, run, starts>>
    PROVE  Inv'
  <1> USE DEF Becomes, Claiming
  <1>1. Shapes'
    BY DEF Inv, Shapes, used
  <1>2. Calls'
    BY DEF Inv, Calls, used
  <1>3. Claims'
    BY DEF Inv, Claims
  <1>4. Once' /\ Recovery'
    BY DEF Inv, Once, Recovery, used
  <1> QED BY <1>1, <1>2, <1>3, <1>4 DEF Inv

\* The run moves on from its execution, or is left as it is, and no handler is
\* in the gateway afterwards.
LEMMA EndStep ==
    ASSUME Inv, NEW t \in Threads, NEW phase \in {"flush", "release"},
           Becomes(t, phase), request[t].at \in {"interrupt", "gateway"},
           phase = "release" <=> request[t].at = "gateway",
           run' \in [state : Lifecycle!WorkflowStates, version : Nat],
           run'.state \notin Unexecuted, run'.state = "EXECUTING" => run.state = "EXECUTING",
           approval[Proposal] # "PENDING",
           pc'[t] = "idle" /\ call'[t] = None /\ result'[t] = None,
           \A u \in Threads \ {t} : pc'[u] = pc[u] /\ call'[u] = call[u] /\ result'[u] = result[u],
           pc' = [u \in Threads |-> pc'[u]],
           call' = [u \in Threads |-> call'[u]],
           result' = [u \in Threads |-> result'[u]],
           UNCHANGED <<latest, approval, sends, starts, active>>
    PROVE  Inv'
  <1> USE DEF Becomes, Claiming
  <1>0. pc' \in [Threads -> Gateway!Phases]
    <2>1. \A u \in Threads : pc'[u] \in Gateway!Phases
      BY DEF Inv, Shapes, Gateway!Phases
    <2> QED BY <2>1
  <1>1. Shapes'
    BY <1>0 DEF Inv, Shapes
  <1>2. \A u \in Threads : request'[u].at # "gateway"
    BY DEF Inv, Claims, Recovery
  <1>3. Calls'
    BY DEF Inv, Calls, Unexecuted, Recovery
  <1>4. Claims'
    BY DEF Inv, Claims
  <1>5. Once'
    BY DEF Inv, Once, Unexecuted, Unsent
  <1>6. Recovery'
    BY <1>2 DEF Inv, Recovery
  <1> QED BY <1>1, <1>3, <1>4, <1>5, <1>6 DEF Inv

-----------------------------------------------------------------------------
(* The invariant, action by action                                         *)

LEMMA StartPreservesInv ==
    ASSUME Inv, NEW t \in Threads, Start(t)
    PROVE  Inv'
  <1>1. /\ Becomes(t, "flush") /\ request[t].at = "idle" /\ run.state = "CREATED"
        /\ run' = [state |-> "WAITING_APPROVAL", version |-> 2]
        /\ latest' = [latest EXCEPT ![Action] = @ + 1]
        /\ UNCHANGED <<approval, pc, call, result, sends, starts, active>>
    BY PhaseSteps DEF Start, At, StopAt, Gateway!Propose, Inv
  <1> USE DEF Becomes, Claiming
  <1>2. Shapes'
    BY <1>1 DEF Inv, Shapes, Lifecycle!WorkflowStates
  <1>3. Calls'
    BY <1>1 DEF Inv, Shapes, Calls
  <1>4. Claims'
    BY <1>1 DEF Inv, Claims
  <1>5. Once'
    BY <1>1 DEF Inv, Once, Unexecuted
  <1>6. Recovery'
    BY <1>1 DEF Inv, Recovery, Unexecuted, Calls
  <1> QED BY <1>2, <1>3, <1>4, <1>5, <1>6 DEF Inv

\* Receiving the request, routing it, resuming the graph and leaving.
LEMMA RoutingPreservesInv ==
    ASSUME Inv, NEW t \in Threads,
           \/ \E o \in Orders : DecideAndResume(t, o)
           \/ ReadCheckpoint(t) \/ CheckActive(t) \/ ResumeGraph(t) \/ Leave(t)
    PROVE  Inv'
  <1> USE DEF At, Claiming, Phases
  <1>0. request[t].at # "idle" => run.state # "CREATED"
    BY DEF Inv, Calls
  <1>1. ASSUME NEW o \in Orders, DecideAndResume(t, o) PROVE Inv'
    <2>1. Becomes(t, "checkpoint")
      BY <1>1 DEF DecideAndResume, Becomes, Idle, Inv, Shapes
    <2> QED BY <1>1, <2>1, QuietStep DEF DecideAndResume, gateway, business, used
  <1>2. CASE ReadCheckpoint(t)
    <2>1. \E phase \in {"active", "idle", "decide"} : Becomes(t, phase)
      BY <1>2, PhaseSteps DEF ReadCheckpoint, Inv
    <2> QED BY <1>0, <1>2, <2>1, QuietStep DEF ReadCheckpoint, gateway, business, used
  <1>3. CASE CheckActive(t)
    <2>1. \E phase \in {"idle", "resume"} : Becomes(t, phase)
      BY <1>3, PhaseSteps DEF CheckActive, Inv
    <2> QED BY <1>0, <1>3, <2>1, QuietStep DEF CheckActive, gateway, business, used
  <1>4. CASE ResumeGraph(t)
    <2>1. \E phase \in {"node", "flush", "idle"} : Becomes(t, phase)
      <3>1. CASE request' = [request EXCEPT ![t].at = "node", ![t].decision = None,
                  ![t].unsaved = Created(t, "execute", request[t].version)]
        BY <3>1 DEF Becomes, Inv, Shapes
      <3>2. CASE request' = [request EXCEPT ![t].at = "node", ![t].decision = None,
                                        ![t].version = checkpoint.version]
        BY <3>2 DEF Becomes, Inv, Shapes
      <3> QED BY <1>4, <3>1, <3>2, PhaseSteps DEF ResumeGraph, StopAt, Inv
    <2> QED BY <1>0, <1>4, <2>1, QuietStep DEF ResumeGraph, gateway, business, used
  <1>5. CASE Leave(t)
    <2>1. Becomes(t, "idle")
      BY <1>5, PhaseSteps DEF Leave, Inv
    <2> QED BY <1>0, <1>5, <2>1, QuietStep DEF Leave, gateway, business, used
  <1> QED BY <1>1, <1>2, <1>3, <1>4, <1>5

LEMMA DecideTaskPreservesInv ==
    ASSUME Inv, NEW t \in Threads, DecideTask(t)
    PROVE  Inv'
  <1> USE DEF At, Claiming, Phases
  <1>0. request[t].at = "decide" /\ run.state # "CREATED"
    BY DEF Inv, Calls, DecideTask
  <1>1. CASE UNCHANGED <<approval, business>>
    <2>1. \E phase \in {"resume", "idle"} : Becomes(t, phase)
      BY <1>0, <1>1, PhaseSteps DEF DecideTask, Inv
    <2> QED BY <1>0, <1>1, <2>1, QuietStep DEF DecideTask, business, used
  <1>2. ASSUME NEW d \in Decisions, NEW target \in {"RUNNING", "COMPLETED"}, NEW type, NEW version,
               approval[Proposal] = "PENDING",
               approval' = [approval EXCEPT ![Proposal] = d],
               Move(target, type), ResumeWith(t, d, version)
        PROVE  Inv'
    <2> USE DEF Becomes
    <2>1. /\ Becomes(t, "resume")
          /\ run' = [state |-> target, version |-> run.version + 1] /\ starts' = starts
          /\ UNCHANGED <<latest, pc, call, result, sends, active>>
      <3>1. UNCHANGED <<latest, pc, call, result, sends, active>>
        BY DEF DecideTask
      <3>2. Becomes(t, "resume")
        BY <1>2, PhaseSteps DEF Inv
      <3>3. starts' = starts
        BY <1>2 DEF Move, Inv, Shapes
      <3> QED BY <1>2, <3>1, <3>2, <3>3 DEF Move
    <2>2. /\ run.state = "WAITING_APPROVAL" /\ starts = 0 /\ approval'[Proposal] = d
          /\ \A u \in Threads : request[u].at \notin {"gateway", "recover", "interrupt"}
      BY <1>0, <1>2, ProposalIsKnown DEF Inv, Shapes, Once, Unexecuted, Recovery
    <2>3. Shapes'
      <3>1. run' \in [state : Lifecycle!WorkflowStates, version : Nat]
        BY <2>1 DEF Inv, Shapes, Lifecycle!WorkflowStates
      <3>2. approval' \in [Gateway!Proposals -> {"PENDING", "APPROVED", "REJECTED"}]
        BY <1>2 DEF Inv, Shapes, Decisions
      <3> QED BY <2>1, <3>1, <3>2 DEF Inv, Shapes
    <2>4. Calls'
      BY <1>0, <2>1 DEF Inv, Calls
    <2>5. Claims'
      BY <1>0, <2>1 DEF Inv, Claims
    <2>6. Once'
      BY <1>2, <2>1, <2>2 DEF Inv, Once, Unexecuted, Decisions
    <2>7. Recovery'
      BY <1>0, <2>1, <2>2 DEF Inv, Recovery
    <2> QED BY <2>3, <2>4, <2>5, <2>6, <2>7 DEF Inv
  <1>3. CASE ~UNCHANGED <<approval, business>>
    <2> DEFINE d == request[t].decision
               target == IF d = "APPROVED" THEN "RUNNING" ELSE "COMPLETED"
    <2>1. /\ approval[Proposal] = "PENDING" /\ d \in Decisions
          /\ approval' = [approval EXCEPT ![Proposal] = d]
          /\ Move(target, ApprovalEvent(d)) /\ ResumeWith(t, d, run.version + 1)
      BY <1>3 DEF DecideTask
    <2>2. target \in {"RUNNING", "COMPLETED"}
      OBVIOUS
    <2> HIDE DEF d, target
    <2> QED BY <1>2, <2>1, <2>2
  <1> QED BY <1>1, <1>3

\* The node that executes: what it finds, and the two ways it goes on.
LEMMA EnterPreservesInv ==
    ASSUME Inv, NEW t \in Threads, EnterExecute(t)
    PROVE  Inv'
  <1> USE DEF At, Claiming, Phases
  <1>0. /\ request[t].at = "node" /\ run.state # "CREATED"
        /\ UNCHANGED <<used, run, starts, active>>
    BY DEF EnterExecute, Inv, Calls, gateway, business, used
  <1>1. CASE run.state = "EXECUTING"
    <2>1. Becomes(t, "recover")
      <3>1. request' = [request EXCEPT ![t].at = "recover", ![t].version = 0]
        BY <1>1 DEF EnterExecute
      <3> QED BY <3>1 DEF Becomes, Inv, Shapes
    <2> USE DEF Becomes
    <2>2. Shapes'
      BY <1>0, <2>1 DEF Inv, Shapes, used
    <2>3. Calls'
      BY <1>0, <2>1 DEF Inv, Calls, used
    <2>4. Claims'
      BY <1>0, <2>1 DEF Inv, Claims
    <2>5. Once' /\ Recovery'
      BY <1>0, <1>1, <2>1 DEF Inv, Once, Recovery, Unexecuted, used
    <2> QED BY <2>2, <2>3, <2>4, <2>5 DEF Inv
  <1>2. CASE run.state # "EXECUTING"
    <2>1. Becomes(t, "claim")
      BY <1>2, PhaseSteps DEF EnterExecute, Inv
    <2> QED BY <1>0, <2>1, QuietStep
  <1> QED BY <1>1, <1>2

\* Finding no claim on a run that has left RUNNING: no handler is in the
\* gateway.
LEMMA RequireInactivePreservesInv ==
    ASSUME Inv, NEW t \in Threads, RequireInactive(t)
    PROVE  Inv'
  <1> USE DEF At, Claiming, Phases
  <1>0. /\ request[t].at = "recover" /\ run.state # "CREATED"
        /\ UNCHANGED <<used, run, starts, active>>
    BY DEF RequireInactive, Inv, Calls, gateway, business, used
  <1>1. CASE active
    <2>1. Becomes(t, "flush")
      BY <1>1, PhaseSteps DEF RequireInactive, Raise, Inv
    <2> QED BY <1>0, <2>1, QuietStep
  <1>2. CASE ~active
    <2>1. Becomes(t, "interrupt")
      BY <1>2, PhaseSteps DEF RequireInactive, Inv
    <2> USE DEF Becomes
    <2>2. Shapes'
      BY <1>0, <2>1 DEF Inv, Shapes, used
    <2>3. Calls'
      BY <1>0, <2>1 DEF Inv, Calls, used
    <2>4. Claims'
      BY <1>0, <2>1 DEF Inv, Claims
    <2>5. \A u \in Threads : request[u].at # "gateway"
      BY <1>2 DEF Inv, Claims
    <2>6. Once' /\ Recovery'
      BY <1>0, <2>1, <2>5 DEF Inv, Once, Recovery, used
    <2> QED BY <2>2, <2>3, <2>4, <2>6 DEF Inv
  <1> QED BY <1>1, <1>2

LEMMA DecidedWhenExecuted ==
    ASSUME Inv, run.state \notin {"CREATED", "WAITING_APPROVAL"}
    PROVE  approval[Proposal] # "PENDING"
  BY DEF Inv, Once

LEMMA InterruptPreservesInv ==
    ASSUME Inv, NEW t \in Threads, Interrupt(t)
    PROVE  Inv'
  <1> USE DEF At, Claiming, Phases
  <1>0. /\ request[t].at = "interrupt" /\ run.state # "CREATED"
        /\ UNCHANGED <<gateway, checkpoint, active>> /\ Becomes(t, "flush")
    BY PhaseSteps DEF Interrupt, StopAt, Raise, Inv, Calls
  <1>1. CASE run.state = "EXECUTING"
            /\ Move("WAITING_HUMAN", "ACTION_EXECUTION_INTERRUPTED_REQUIRES_HUMAN")
    <2>1. /\ run' = [state |-> "WAITING_HUMAN", version |-> run.version + 1]
          /\ starts' = starts
      BY <1>1 DEF Move, Inv, Shapes
    <2>2. pc[t] = "idle" /\ call[t] = None /\ result[t] = None
      BY <1>0 DEF Inv, Calls
    <2>3. run' \in [state : Lifecycle!WorkflowStates, version : Nat]
      BY <2>1 DEF Inv, Shapes, Lifecycle!WorkflowStates
    <2>4. /\ pc' = [u \in Threads |-> pc'[u]] /\ call' = [u \in Threads |-> call'[u]]
          /\ result' = [u \in Threads |-> result'[u]]
      BY <1>0 DEF Inv, Shapes, gateway
    <2> QED BY <1>0, <1>1, <2>1, <2>2, <2>3, <2>4, EndStep, DecidedWhenExecuted
            DEF gateway, Unexecuted
  <1>2. CASE UNCHANGED business
    BY <1>0, <1>2, QuietStep DEF gateway, business, used
  <1> QED BY <1>1, <1>2 DEF Interrupt

LEMMA ClaimPreservesInv ==
    ASSUME Inv, NEW t \in Threads, Claim(t)
    PROVE  Inv'
  <1> USE DEF At, Claiming, Phases
  <1>0. /\ request[t].at = "claim" /\ run.state # "CREATED"
        /\ UNCHANGED <<used, run, starts>>
    BY DEF Claim, Inv, Calls, gateway, business, used
  <1>1. CASE active
    <2>1. Becomes(t, "flush") /\ UNCHANGED active
      BY <1>1, PhaseSteps DEF Claim, Raise, Inv
    <2> QED BY <1>0, <2>1, QuietStep
  <1>2. CASE ~active
    <2>1. Becomes(t, "begin") /\ active' = TRUE
      BY <1>2, PhaseSteps DEF Claim, Inv
    <2> USE DEF Becomes
    <2>2. Shapes'
      BY <1>0, <2>1 DEF Inv, Shapes, used
    <2>3. Calls'
      BY <1>0, <2>1 DEF Inv, Calls, used
    <2>4. Claims'
      BY <1>2, <2>1 DEF Inv, Claims
    <2>5. Once' /\ Recovery'
      BY <1>0, <2>1 DEF Inv, Once, Recovery, used
    <2> QED BY <2>2, <2>3, <2>4, <2>5 DEF Inv
  <1> QED BY <1>1, <1>2

\* Executing is possible only from RUNNING, which the run then leaves for good.
LEMMA BeginPreservesInv ==
    ASSUME Inv, NEW t \in Threads, Begin(t)
    PROVE  Inv'
  <1> USE DEF At, Claiming, Phases
  <1>0. request[t].at = "begin" /\ run.state # "CREATED"
    BY DEF Begin, Inv, Calls
  <1>1. CASE ~CanBegin(t)
    <2>1. Becomes(t, "flush") /\ active' = FALSE /\ UNCHANGED <<gateway, business>>
      BY <1>1, PhaseSteps DEF Begin, Inv
    <2> QED BY <1>0, <2>1, ReleaseStep DEF gateway, business, used
  <1>2. CASE CanBegin(t)
    <2>1. /\ Becomes(t, "gateway")
          /\ Move("EXECUTING", "ACTION_EXECUTION_STARTED")
          /\ UNCHANGED active
      <3>1. request' = [request EXCEPT ![t].at = "gateway", ![t].version = run.version + 1]
        BY <1>2 DEF Begin
      <3>2. Becomes(t, "gateway")
        BY <3>1 DEF Becomes, Inv, Shapes
      <3> QED BY <1>2, <3>2 DEF Begin
    <2>2. PICK authorized \in BOOLEAN : Gateway!Execute(t, Proposal, Proposal, Key, authorized)
      BY <1>2 DEF Begin
    <2>3. run.state = "RUNNING"
      BY <1>2 DEF CanBegin, CanMove, Lifecycle!CanTransition, Lifecycle!AllowedTargets
    <2>4. /\ run' = [state |-> "EXECUTING", version |-> run.version + 1]
          /\ starts' = starts + 1 /\ starts = 0
      BY <2>1, <2>3 DEF Move, Inv, Once, Unexecuted
    <2>5. \E phase \in {"approvals", "returned"} : pc' = [pc EXCEPT ![t] = phase]
      BY <2>2 DEF Gateway!Execute, Gateway!Goto, Gateway!Yield
    <2>6. /\ call' = [u \in Threads |-> call'[u]] /\ result' = [u \in Threads |-> result'[u]]
          /\ \A u \in Threads \ {t} : call'[u] = call[u] /\ result'[u] = result[u]
          /\ UNCHANGED <<latest, approval, sends>>
      BY <2>2 DEF Gateway!Execute, Gateway!Goto, Gateway!Yield, Inv, Shapes
    <2> USE DEF Becomes
    <2>7. Shapes'
      <3>1. run' \in [state : Lifecycle!WorkflowStates, version : Nat]
        BY <2>4 DEF Inv, Shapes, Lifecycle!WorkflowStates
      <3>2. pc' \in [Threads -> Gateway!Phases]
        BY <2>5 DEF Inv, Shapes, Gateway!Phases
      <3> QED BY <2>1, <2>4, <2>6, <3>1, <3>2 DEF Inv, Shapes
    <2>8. Calls'
      BY <1>0, <2>1, <2>4, <2>5, <2>6 DEF Inv, Shapes, Calls
    <2>9. Claims'
      BY <1>0, <2>1 DEF Inv, Claims
    <2>10. Once'
      <3>1. approval[Proposal] # "PENDING" /\ sends[Key] = 0
        BY <2>3, <2>4 DEF Inv, Once
      <3>2. starts' = 1 /\ run'.state = "EXECUTING"
        BY <2>4
      <3> QED BY <2>6, <3>1, <3>2 DEF Once, Unexecuted
    <2>11. Recovery'
      BY <1>0, <2>1, <2>3, <2>4 DEF Inv, Recovery, Unexecuted
    <2> QED BY <2>7, <2>8, <2>9, <2>10, <2>11 DEF Inv
  <1> QED BY <1>1, <1>2

\* A step inside the gateway keeps its caller there, and only sending counts.
LEMMA GatewayStepEffect ==
    ASSUME Inv, NEW t \in Threads, GatewayStep(t)
    PROVE  /\ \E phase \in Gateway!Phases \ {"idle"} :
                /\ pc' = [pc EXCEPT ![t] = phase]
                /\ phase \in Unsent => pc[t] \in Unsent
                /\ \/ UNCHANGED sends
                   \/ /\ pc[t] = "send" /\ phase \notin Unsent
                      /\ sends' = [sends EXCEPT ![call[t].key] = @ + 1]
           /\ result' = result \/ \E r : result' = [result EXCEPT ![t] = r]
           /\ UNCHANGED <<latest, approval, call>>
  <1> USE DEF Gateway!Goto, Gateway!Yield, Gateway!Hold, Gateway!Phases, Unsent
  <1>1. CASE Gateway!CheckApproval(t)
    BY <1>1 DEF Gateway!CheckApproval
  <1>2. CASE Gateway!CheckVersion(t)
    BY <1>2 DEF Gateway!CheckVersion
  <1>3. CASE Gateway!CheckState(t)
    BY <1>3 DEF Gateway!CheckState
  <1>4. CASE Gateway!Reserve(t)
    BY <1>4 DEF Gateway!Reserve
  <1>5. CASE Gateway!Start(t)
    BY <1>5 DEF Gateway!Start
  <1>6. CASE Gateway!Send(t)
    <2>1. pc' = [pc EXCEPT ![t] = "await"] /\ pc[t] = "send"
      BY <1>6 DEF Gateway!Send
    <2>2. sends' = [sends EXCEPT ![call[t].key] = @ + 1]
      BY <1>6 DEF Gateway!Send
    <2>3. UNCHANGED <<latest, approval, call, result>>
      BY <1>6 DEF Gateway!Send
    <2>4. "await" \in Gateway!Phases \ {"idle"} /\ "await" \notin Unsent
      OBVIOUS
    <2> QED
      <3> HIDE DEF Gateway!Phases, Unsent
      <3> QED BY <2>1, <2>2, <2>3, <2>4
  <1>7. CASE Gateway!Receive(t)
    BY <1>7 DEF Gateway!Receive, Gateway!GiveUp
  <1>8. CASE Gateway!Verify(t)
    BY <1>8 DEF Gateway!Verify
  <1>9. CASE Gateway!Finalize(t)
    BY <1>9 DEF Gateway!Finalize
  <1>10. CASE Gateway!Finish(t)
    BY <1>10 DEF Gateway!Finish
  <1>11. CASE Gateway!StepFails(t)
    BY <1>11 DEF Gateway!StepFails
  <1> QED
    BY <1>1, <1>2, <1>3, <1>4, <1>5, <1>6, <1>7, <1>8, <1>9, <1>10, <1>11
    DEF GatewayStep

LEMMA GatewayStepPreservesInv ==
    ASSUME Inv, NEW t \in Threads, GatewayStep(t)
    PROVE  Inv'
  <1>0. /\ request[t].at = "gateway"
        /\ UNCHANGED <<latest, approval, call, run, starts, active, request>>
    BY GatewayStepEffect DEF GatewayStep, At, business
  <1>1. PICK phase \in Gateway!Phases \ {"idle"} :
            /\ pc' = [pc EXCEPT ![t] = phase]
            /\ phase \in Unsent => pc[t] \in Unsent
            /\ \/ UNCHANGED sends
               \/ /\ pc[t] = "send" /\ phase \notin Unsent
                  /\ sends' = [sends EXCEPT ![call[t].key] = @ + 1]
    BY GatewayStepEffect
  <1>2. /\ result' = [u \in Threads |-> result'[u]]
        /\ \A u \in Threads \ {t} : result'[u] = result[u]
    BY GatewayStepEffect DEF Inv, Shapes
  <1>3. pc' \in [Threads -> Gateway!Phases] /\ pc[t] # "idle" /\ pc'[t] = phase
    BY <1>0, <1>1 DEF Inv, Shapes, Calls
  <1>4. sends' \in [{Key} -> Nat]
    BY <1>1 DEF Inv, Shapes
  <1>5. \A u \in Threads \ {t} : request[u].at # "gateway" /\ pc[u] = "idle" /\ pc'[u] = "idle"
    BY <1>0, <1>1, <1>3 DEF Inv, Shapes, Calls, Claims, Claiming
  <1>6. Shapes'
    BY <1>0, <1>2, <1>3, <1>4 DEF Inv, Shapes
  <1>7. Calls'
    BY <1>0, <1>1, <1>2, <1>3 DEF Inv, Shapes, Calls
  <1>8. Claims' /\ Recovery'
    BY <1>0 DEF Inv, Claims, Recovery
  <1>9. Once'
    <2>1. /\ approval'[Proposal] = "PENDING" => run'.state \in {"CREATED", "WAITING_APPROVAL"}
          /\ starts' <= 1
          /\ run'.state \in Unexecuted => starts' = 0
      BY <1>0 DEF Inv, Once
    <2>2. run.state = "EXECUTING"
      BY <1>0 DEF Inv, Recovery
    <2>3. CASE UNCHANGED sends
      BY <1>0, <1>1, <1>3, <1>5, <2>1, <2>3 DEF Inv, Once, Unsent
    <2>4. CASE /\ pc[t] = "send" /\ phase \notin Unsent
               /\ sends' = [sends EXCEPT ![call[t].key] = @ + 1]
      <3>1. sends[Key] = 0 /\ sends'[Key] <= 1
        BY <1>3, <2>4 DEF Inv, Once, Unsent, Shapes
      <3>2. \A u \in Threads : pc'[u] \notin Unsent
        BY <1>3, <1>5, <2>4 DEF Unsent
      <3>3. starts' # 0
        BY <1>0, <2>2 DEF Inv, Once
      <3>4. ~(run'.state = "EXECUTING" /\ starts' # 1)
        BY <1>0 DEF Inv, Once
      <3> QED BY <2>1, <3>1, <3>2, <3>3, <3>4 DEF Once
    <2> QED BY <1>1, <2>3, <2>4
  <1> QED BY <1>6, <1>7, <1>8, <1>9 DEF Inv

\* The gateway's outcome, or its exception, ends the execution.
LEMMA FinishPreservesInv ==
    ASSUME Inv, NEW t \in Threads, Finish(t) \/ FinishFails(t)
    PROVE  Inv'
  <1> USE DEF At, Claiming
  <1>0. /\ request[t].at = "gateway" /\ run.state = "EXECUTING"
        /\ approval[Proposal] # "PENDING"
        /\ UNCHANGED <<checkpoint, active>> /\ Gateway!Return(t)
    BY DecidedWhenExecuted DEF Finish, FinishFails, Inv, Recovery
  <1>1. Becomes(t, "release")
    <2>1. CASE request' = [request EXCEPT ![t].at = "release", ![t].version = 0]
      BY <2>1 DEF Becomes, Inv, Shapes
    <2>2. CASE request' = [request EXCEPT ![t].at = "release", ![t].version = 0,
                                          ![t].ok = FALSE]
      BY <2>2 DEF Becomes, Inv, Shapes
    <2> QED BY <2>1, <2>2 DEF Finish, FinishFails
  <1>2. /\ pc'[t] = "idle" /\ call'[t] = None /\ result'[t] = None
        /\ \A u \in Threads \ {t} : pc'[u] = pc[u] /\ call'[u] = call[u] /\ result'[u] = result[u]
        /\ pc' = [u \in Threads |-> pc'[u]]
        /\ call' = [u \in Threads |-> call'[u]]
        /\ result' = [u \in Threads |-> result'[u]]
        /\ UNCHANGED <<latest, approval, sends>>
    BY <1>0 DEF Gateway!Return, Inv, Shapes
  <1>3. /\ run' \in [state : Lifecycle!WorkflowStates, version : Nat]
        /\ run'.state \notin Unexecuted
        /\ starts' = starts
    <2>1. CASE UNCHANGED business
      BY <1>0, <2>1 DEF business, Inv, Shapes, Unexecuted
    <2>2. CASE Move(TargetState(result[t]), EventOf(result[t]))
      <3>1. TargetState(result[t]) \in {"COMPLETED", "FAILED", "WAITING_HUMAN"}
        BY DEF TargetState
      <3>2. run' = [state |-> TargetState(result[t]), version |-> run.version + 1]
        BY <2>2 DEF Move
      <3>3. starts' = starts
        BY <2>2, <3>1 DEF Move, Inv, Shapes
      <3> HIDE DEF TargetState
      <3> QED BY <3>1, <3>2, <3>3 DEF Inv, Shapes, Unexecuted, Lifecycle!WorkflowStates
    <2> QED BY <2>1, <2>2 DEF Finish, FinishFails
  <1> QED BY <1>0, <1>1, <1>2, <1>3, EndStep

LEMMA ReleasePreservesInv ==
    ASSUME Inv, NEW t \in Threads, Release(t)
    PROVE  Inv'
  <1>1. Becomes(t, "flush")
    BY PhaseSteps DEF Release, StopAt, Raise, Inv
  <1> QED BY <1>1, ReleaseStep DEF Release, At, gateway, business, used

LEMMA SavePreservesInv ==
    ASSUME Inv, NEW t \in Threads, Save(t)
    PROVE  Inv'
  <1>1. request' = [request EXCEPT ![t].unsaved = Tail(@)]
    BY DEF Save
  <1>2. /\ request' = [u \in Threads |-> request'[u]]
        /\ \A u \in Threads : request'[u].at = request[u].at /\ "at" \in DOMAIN request'[u]
    BY <1>1 DEF Inv, Shapes
  <1> QED BY <1>2, SamePhases DEF Save, gateway, business, used

LEMMA StepFailsPreservesInv ==
    ASSUME Inv, NEW t \in Threads, StepFails(t)
    PROVE  Inv'
  <1> USE DEF Claiming, Phases
  <1>0. /\ request[t].at \in {"checkpoint", "decide", "node", "interrupt", "begin"}
        /\ run.state # "CREATED" /\ UNCHANGED <<used, run, starts>>
        /\ active' = (active /\ request[t].at # "begin")
        /\ Becomes(t, "flush")
    BY PhaseSteps DEF StepFails, Raise, At, gateway, business, used, Inv, Calls
  <1>1. CASE request[t].at = "begin"
    BY <1>0, <1>1, ReleaseStep
  <1>2. CASE request[t].at # "begin"
    <2>1. active' = active
      BY <1>0, <1>2, Zenon DEF Inv, Shapes
    <2> QED BY <1>0, <1>2, <2>1, QuietStep
  <1> QED BY <1>1, <1>2

LEMMA HumanReviewPreservesInv ==
    ASSUME Inv, NEW o \in {"COMPLETED", "FAILED", "CANCELLED", "WAITING_HUMAN"}, HumanReview(o)
    PROVE  Inv'
  <1>1. /\ run.state = "WAITING_HUMAN" /\ UNCHANGED <<used, active, request>>
        /\ run' = [state |-> o, version |-> run.version + 1]
    BY DEF HumanReview, Move, gateway, used
  <1>2. starts' = starts
    BY DEF HumanReview, Move, Inv, Shapes
  <1>3. Shapes'
    BY <1>1, <1>2 DEF Inv, Shapes, Lifecycle!WorkflowStates, used
  <1>4. Calls' /\ Claims'
    BY <1>1 DEF Inv, Calls, Claims, used
  <1>5. Once' /\ Recovery'
    BY <1>1, <1>2 DEF Inv, Once, Recovery, Unexecuted, used
  <1> QED BY <1>3, <1>4, <1>5 DEF Inv

\* The process dies: nobody holds the claim any more.
LEMMA CrashPreservesInv ==
    ASSUME Inv, Crash
    PROVE  Inv'
  <1>1. /\ \A t \in Threads : request'[t].at = "idle" /\ "at" \in DOMAIN request'[t]
                           /\ pc'[t] = "idle" /\ call'[t] = None /\ result'[t] = None
        /\ request' = [t \in Threads |-> request'[t]]
        /\ call' = [t \in Threads |-> call'[t]]
        /\ result' = [t \in Threads |-> result'[t]]
        /\ pc' \in [Threads -> Gateway!Phases]
        /\ active' = FALSE /\ UNCHANGED <<latest, approval, sends, run, starts>>
    BY DEF Crash, Idle, business, Gateway!Phases
  <1>2. Shapes'
    BY <1>1 DEF Inv, Shapes
  <1>3. Calls' /\ Claims'
    BY <1>1 DEF Inv, Calls, Claims, Claiming
  <1>4. Once' /\ Recovery'
    BY <1>1 DEF Inv, Once, Recovery, Unsent
  <1> QED BY <1>2, <1>3, <1>4 DEF Inv

LEMMA EnterprisePreservesInv ==
    ASSUME Inv, Enterprise
    PROVE  Inv'
  <1>1. UNCHANGED <<used, run, starts, active, request>>
    BY DEF Enterprise, business, used, Gateway!Handle, Gateway!Commit, Gateway!Lose,
           Gateway!Deactivate, Gateway!Revoke
  <1> QED BY <1>1, SamePhases DEF Inv, Shapes

LEMMA NextPreservesInv == Inv /\ [Next]_vars => Inv'
  <1> SUFFICES ASSUME Inv, [Next]_vars PROVE Inv'
    OBVIOUS
  <1>1. ASSUME NEW t \in Threads, Handler(t) PROVE Inv'
    <2>1. CASE \/ Start(t) \/ DecideTask(t) \/ EnterExecute(t) \/ RequireInactive(t)
               \/ Interrupt(t) \/ Claim(t) \/ Begin(t) \/ GatewayStep(t)
      BY <2>1, StartPreservesInv, DecideTaskPreservesInv, EnterPreservesInv,
         RequireInactivePreservesInv, InterruptPreservesInv, ClaimPreservesInv,
         BeginPreservesInv, GatewayStepPreservesInv
    <2>2. CASE Finish(t) \/ FinishFails(t) \/ Release(t) \/ Save(t) \/ StepFails(t)
      BY <2>2, FinishPreservesInv, ReleasePreservesInv, SavePreservesInv,
         StepFailsPreservesInv
    <2>3. CASE \/ \E o \in Orders : DecideAndResume(t, o)
               \/ ReadCheckpoint(t) \/ CheckActive(t) \/ ResumeGraph(t) \/ Leave(t)
      BY <2>3, RoutingPreservesInv
    <2> QED BY <1>1, <2>1, <2>2, <2>3 DEF Handler
  <1>2. CASE UNCHANGED vars
    BY <1>2, SamePhases DEF vars, gateway, business, used, Inv, Shapes
  <1> QED BY <1>1, <1>2, HumanReviewPreservesInv, CrashPreservesInv, EnterprisePreservesInv
          DEF Next

LEMMA Invariance == Spec => []Inv
  BY InitEstablishesInv, NextPreservesInv, PTL DEF Spec

-----------------------------------------------------------------------------
(* What follows for every number of handlers                               *)

\* While a handler is inside the gateway nobody takes its run out of EXECUTING.
THEOREM WritesInFlightAreExecuting == Spec => []InFlightIsExecuting
  <1>1. Inv => InFlightIsExecuting
    BY DEF Inv, Calls, Recovery, InFlightIsExecuting
  <1> QED BY <1>1, Invariance, PTL

\* A run is taken to EXECUTING at most once, and its write sent at most once.
THEOREM RunExecutesOnce == Spec => []ExecutesOnce
  <1>1. Inv => ExecutesOnce
    <2> SUFFICES ASSUME Inv PROVE ExecutesOnce
      OBVIOUS
    <2>1. starts \in Nat /\ sends[Key] \in Nat
      BY DEF Inv, Shapes
    <2>2. starts <= 1 /\ sends[Key] <= 1 /\ (starts = 0 => sends[Key] = 0)
      BY DEF Inv, Once
    <2> QED BY <2>1, <2>2 DEF ExecutesOnce
  <1> QED BY <1>1, Invariance, PTL

\* Whoever moves the run, it follows the lifecycle one version at a time.
LEMMA StepFollowsLifecycle ==
    [Next]_vars => [run.state = "CREATED" \/ Lifecycle!Next]_run
  <1> SUFFICES ASSUME Next, run' # run PROVE run.state = "CREATED" \/ Lifecycle!Next
    BY DEF vars, business
  <1> USE DEF business
  <1>1. ASSUME NEW target \in Lifecycle!WorkflowStates, NEW type, Move(target, type),
               \/ Lifecycle!CanTransition(run.state, target)
               \/ target = run.state /\ run.state \notin Lifecycle!TerminalStates
        PROVE  Lifecycle!Next
    BY <1>1 DEF Move, Lifecycle!Next, Lifecycle!Transition, Lifecycle!Progress
  <1> HIDE DEF business
  <1>2. ASSUME NEW t \in Threads, Handler(t) PROVE run.state = "CREATED" \/ Lifecycle!Next
    <2> USE DEF business, Lifecycle!WorkflowStates
    <2>1. CASE Start(t)
      BY <2>1 DEF Start
    <2>2. CASE DecideTask(t)
      <3> DEFINE d == request[t].decision
                 target == IF d = "APPROVED" THEN "RUNNING" ELSE "COMPLETED"
      <3>1. CanMove(request[t].expected, target) /\ Move(target, ApprovalEvent(d))
        BY <2>2 DEF DecideTask
      <3>2. target \in Lifecycle!WorkflowStates
        OBVIOUS
      <3> HIDE DEF d, target
      <3> QED BY <1>1, <3>1, <3>2 DEF CanMove
    <2>3. CASE Interrupt(t)
      <3>1. /\ run.state = "EXECUTING"
            /\ Move("WAITING_HUMAN", "ACTION_EXECUTION_INTERRUPTED_REQUIRES_HUMAN")
        BY <2>3 DEF Interrupt
      <3> QED BY <1>1, <3>1 DEF Lifecycle!CanTransition, Lifecycle!AllowedTargets
    <2>4. CASE Begin(t)
      <3>1. CanBegin(t) /\ Move("EXECUTING", "ACTION_EXECUTION_STARTED")
        BY <2>4 DEF Begin
      <3> QED BY <1>1, <3>1 DEF CanBegin, CanMove
    <2>5. CASE Finish(t)
      <3>1. /\ CanMove(request[t].version, TargetState(result[t]))
            /\ Move(TargetState(result[t]), EventOf(result[t]))
        BY <2>5 DEF Finish
      <3>2. TargetState(result[t]) \in Lifecycle!WorkflowStates
        BY DEF TargetState
      <3> QED BY <1>1, <3>1, <3>2 DEF CanMove
    <2>6. CASE \/ \E o \in Orders : DecideAndResume(t, o)
               \/ ReadCheckpoint(t) \/ CheckActive(t) \/ ResumeGraph(t) \/ EnterExecute(t)
               \/ RequireInactive(t) \/ Claim(t) \/ GatewayStep(t) \/ Release(t)
               \/ Save(t) \/ Leave(t) \/ StepFails(t) \/ FinishFails(t)
      BY <2>6 DEF DecideAndResume, ReadCheckpoint, CheckActive, ResumeGraph, EnterExecute,
                  RequireInactive, Claim, GatewayStep, Release, Save, Leave, StepFails,
                  FinishFails
    <2> QED BY <1>2, <2>1, <2>2, <2>3, <2>4, <2>5, <2>6 DEF Handler
  <1>3. ASSUME NEW o \in {"COMPLETED", "FAILED", "CANCELLED", "WAITING_HUMAN"}, HumanReview(o)
        PROVE  Lifecycle!Next
    <2>1. /\ run.state = "WAITING_HUMAN"
          /\ \E type : Move(o, type)
      BY <1>3 DEF HumanReview
    <2> QED BY <1>1, <2>1 DEF Lifecycle!WorkflowStates, Lifecycle!TerminalStates,
               Lifecycle!CanTransition, Lifecycle!AllowedTargets
  <1>4. CASE Crash \/ Enterprise
    BY <1>4 DEF Crash, Enterprise, business
  <1> QED BY <1>2, <1>3, <1>4 DEF Next

THEOREM RunAlwaysFollowsLifecycle == Spec => RunFollowsLifecycle
  BY StepFollowsLifecycle, PTL DEF Spec, RunFollowsLifecycle

-----------------------------------------------------------------------------
(* The gateway inside the workflow                                         *)

LEMMA HandlerUsesGateway ==
    ASSUME Inv, NEW t \in Threads, Handler(t)
    PROVE  Gateway!Next \/ UNCHANGED Gateway!vars
  <1> USE DEF Gateway!vars, gateway
  <1>1. CASE Start(t)
    BY <1>1 DEF Start, Gateway!Next
  <1>2. CASE DecideTask(t)
    <2>1. CASE UNCHANGED approval
      BY <1>2, <2>1 DEF DecideTask
    <2>2. CASE ~UNCHANGED approval
      <3>1. PICK d \in Decisions : /\ approval[Proposal] = "PENDING"
                                   /\ approval' = [approval EXCEPT ![Proposal] = d]
        BY <1>2, <2>2 DEF DecideTask
      <3>2. latest[Action] >= 1
        BY <1>2 DEF DecideTask, At, Inv, Calls
      <3>3. Proposal.version = 1 /\ Proposal.action = Action
        BY DEF Proposal
      <3>4. Gateway!Decide(Proposal, d)
        BY <1>2, <3>1, <3>2, <3>3 DEF DecideTask, Gateway!Decide, Inv, Shapes
      <3> QED BY <3>4, ProposalIsKnown DEF Gateway!Next, Decisions
    <2> QED BY <2>1, <2>2
  <1>3. CASE Begin(t)
    <2>1. CASE UNCHANGED gateway
      BY <2>1
    <2>2. CASE \E authorized \in BOOLEAN :
                    Gateway!Execute(t, Proposal, Proposal, Key, authorized)
      <3>1. Gateway!CallerStep(t)
        BY <2>2, ProposalIsKnown DEF Gateway!CallerStep
      <3> QED BY <3>1 DEF Gateway!Next
    <2> QED BY <1>3, <2>1, <2>2 DEF Begin
  <1>4. CASE GatewayStep(t) \/ Finish(t) \/ FinishFails(t)
    <2>1. Gateway!CallerStep(t)
      BY <1>4 DEF GatewayStep, Finish, FinishFails, Gateway!CallerStep
    <2> QED BY <2>1 DEF Gateway!Next
  <1>5. CASE \/ \E o \in Orders : DecideAndResume(t, o)
             \/ ReadCheckpoint(t) \/ CheckActive(t) \/ ResumeGraph(t) \/ EnterExecute(t)
             \/ RequireInactive(t) \/ Interrupt(t) \/ Claim(t) \/ Release(t)
             \/ Save(t) \/ Leave(t) \/ StepFails(t)
    BY <1>5 DEF DecideAndResume, ReadCheckpoint, CheckActive, ResumeGraph, EnterExecute,
                RequireInactive, Interrupt, Claim, Release, Save, Leave, StepFails
  <1> QED BY <1>1, <1>2, <1>3, <1>4, <1>5 DEF Handler

\* A crash ends the calls in the gateway; if there were none, it leaves it alone.
LEMMA CrashUsesGateway ==
    ASSUME Inv, Crash
    PROVE  Gateway!Next \/ UNCHANGED Gateway!vars
  <1>1. CASE \E t \in Threads : pc[t] # "idle"
    BY <1>1 DEF Crash, Gateway!Crash, Gateway!Next
  <1>2. CASE \A t \in Threads : pc[t] = "idle"
    <2>1. pc = [t \in Threads |-> "idle"]
      BY <1>2 DEF Inv, Shapes
    <2>2. call = [t \in Threads |-> None] /\ result = [t \in Threads |-> None]
      BY <1>2 DEF Inv, Shapes, Calls
    <2> QED BY <2>1, <2>2 DEF Crash, Gateway!vars
  <1> QED BY <1>1, <1>2

LEMMA EnterpriseUsesGateway ==
    ASSUME Enterprise
    PROVE  Gateway!Next
  BY DEF Enterprise, Gateway!Next

\* Inside the workflow the gateway takes only the steps ActionGateway allows.
THEOREM WorkflowUsesGateway == Spec => UsesGateway
  <1>1. Init => Gateway!Init
    BY DEF Init
  <1>2. Inv /\ [Next]_vars => [Gateway!Next]_Gateway!vars
    <2> SUFFICES ASSUME Inv, [Next]_vars PROVE Gateway!Next \/ UNCHANGED Gateway!vars
      OBVIOUS
    <2>1. CASE UNCHANGED vars
      BY <2>1 DEF vars, gateway, Gateway!vars
    <2>2. ASSUME NEW o, HumanReview(o) PROVE UNCHANGED Gateway!vars
      BY <2>2 DEF HumanReview, gateway, Gateway!vars
    <2> QED BY <2>1, <2>2, HandlerUsesGateway, CrashUsesGateway, EnterpriseUsesGateway DEF Next
  <1> QED BY <1>1, <1>2, Invariance, PTL DEF Spec, UsesGateway, Gateway!Spec

-----------------------------------------------------------------------------
(* What the gateway's own proofs say of the gateway inside the workflow    *)

Proved == INSTANCE ActionGatewayProofs WITH
    Callers <- Threads, Actions <- {Action}, MaxVersion <- 1, Keys <- {Key},
    Targets <- {Target}, TargetOf <- [p \in {Proposal} |-> Target]

\* ActionGatewayProofs assumes of its constants what the workflow gives it.
LEMMA GatewayConstants ==
    /\ Proved!Proposals = {Proposal}
    /\ 1 \in Nat
    /\ [p \in {Proposal} |-> Target] \in [Proved!Proposals -> {Target}]
    /\ None \notin Proved!Calls
    /\ None \notin Proved!IdempotencyRecords
    /\ None \notin {Target} \cup {"OK", "REJECTED"}
  <1>1. Proved!Proposals = {Proposal}
    <2>1. Proved!Proposals = [action : {Action}, version : {1}]
      BY DEF Proved!Proposals
    <2>2. Proposal \in [action : {Action}, version : {1}]
      BY DEF Proposal
    <2>3. ASSUME NEW p \in [action : {Action}, version : {1}] PROVE p = Proposal
      BY <2>3 DEF Proposal
    <2> QED BY <2>1, <2>2, <2>3
  <1>2. /\ Proved!Calls = Gateway!Calls
        /\ Proved!IdempotencyRecords = Gateway!IdempotencyRecords
    BY DEF Proved!Calls, Gateway!Calls, Proved!IdempotencyRecords, Gateway!IdempotencyRecords,
           Proved!Proposals, Gateway!Proposals, Proved!FinalStatuses, Gateway!FinalStatuses
  <1>3. [p \in {Proposal} |-> Target] \in [Proved!Proposals -> {Target}]
    BY <1>1
  <1>4. None \notin {Target} \cup {"OK", "REJECTED"}
    BY NoneAssumption
  <1> QED BY <1>1, <1>2, <1>3, <1>4, NoneAssumption

\* The gateway of the workflow is the gateway that was proved about.
LEMMA OneGateway ==
    /\ Gateway!Init => Proved!Init
    /\ Gateway!Next => Proved!Next
    /\ UNCHANGED Gateway!vars => UNCHANGED Proved!vars
  <1>1. Gateway!Init => Proved!Init
    BY Zenon DEF Gateway!Init, Proved!Init, Gateway!Proposals, Proved!Proposals
  <1>2. Gateway!Next => Proved!Next
    BY DEF Gateway!Next, Proved!Next, Gateway!CallerStep, Proved!CallerStep,
       Gateway!Proposals, Proved!Proposals, Gateway!Requests, Proved!Requests,
       Gateway!Propose, Proved!Propose, Gateway!Decide, Proved!Decide,
       Gateway!Execute, Proved!Execute, Gateway!CheckApproval, Proved!CheckApproval,
       Gateway!CheckVersion, Proved!CheckVersion, Gateway!CheckState, Proved!CheckState,
       Gateway!Reserve, Proved!Reserve, Gateway!Start, Proved!Start, Gateway!Send, Proved!Send,
       Gateway!Receive, Proved!Receive, Gateway!Verify, Proved!Verify,
       Gateway!Finalize, Proved!Finalize, Gateway!Finish, Proved!Finish,
       Gateway!StepFails, Proved!StepFails, Gateway!Return, Proved!Return,
       Gateway!Handle, Proved!Handle, Gateway!Commit, Proved!Commit, Gateway!Lose, Proved!Lose,
       Gateway!Deactivate, Proved!Deactivate, Gateway!Revoke, Proved!Revoke,
       Gateway!Crash, Proved!Crash, Gateway!ApprovalMatches, Proved!ApprovalMatches,
       Gateway!Reservable, Proved!Reservable, Gateway!Replayable, Proved!Replayable,
       Gateway!Confirmed, Proved!Confirmed, Gateway!GiveUp, Proved!GiveUp,
       Gateway!Hold, Proved!Hold, Gateway!Goto, Proved!Goto, Gateway!Yield, Proved!Yield,
       Gateway!Open, Proved!Open, Gateway!Locked, Proved!Locked,
       Gateway!IdempotencyStatusOf, Proved!IdempotencyStatusOf,
       Proved!durable, Proved!threads, Proved!enterprise
  <1>3. UNCHANGED Gateway!vars => UNCHANGED Proved!vars
    BY DEF Gateway!vars, Proved!vars
  <1> QED BY <1>1, <1>2, <1>3

\* The inductive invariant of ActionGatewayProofs holds inside the workflow.
LEMMA GatewayInvariance == Spec => []Proved!IInv
  <1>1. Proved!Init => Proved!IInv
    BY GatewayConstants, Proved!InitEstablishesIInv
  <1>2. Proved!IInv /\ [Proved!Next]_(Proved!vars) => Proved!IInv'
    BY GatewayConstants, Proved!NextPreservesIInv
  <1>3. /\ Gateway!Init => Proved!Init
        /\ [Gateway!Next]_(Gateway!vars) => [Proved!Next]_(Proved!vars)
    BY OneGateway
  <1> QED BY <1>1, <1>2, <1>3, WorkflowUsesGateway, PTL DEF UsesGateway, Gateway!Spec

\* Whatever the workflow, its recoveries and its reviewers do, and whenever they
\* crash: the write of the request keeps the promise of OnceOnlyWrite, that it is
\* sent once and concluded once, and as FAILED only if the enterprise system
\* has refused it for good.
THEOREM WorkflowIsOnceOnly == Spec => Proved!ImplementsOnceOnlyWrite
  <1>1. Proved!Spec => Proved!ImplementsOnceOnlyWrite
    BY GatewayConstants, Proved!RefinesOnceOnlyWrite
  <1>2. /\ Gateway!Init => Proved!Init
        /\ [Gateway!Next]_(Gateway!vars) => [Proved!Next]_(Proved!vars)
    BY OneGateway
  <1> QED BY <1>1, <1>2, WorkflowUsesGateway, PTL DEF UsesGateway, Gateway!Spec, Proved!Spec

-----------------------------------------------------------------------------
(* What the machine concludes on its own                                   *)

ByPeople == {"APPROVAL_REJECTED", "HUMAN_REVIEW_CONCLUDED"}

\* A failure that the gateway reports, or that the run rests on, is recorded
\* with the write; what a success rests on stays in the history of the access.
Verdict ==
    /\ \A t \in Threads :
        pc[t] = "returned" /\ result[t] = "TOOL_FAILED" => exec[Key] = "TOOL_FAILED"
    /\ event \notin ByPeople =>
        /\ run.state = "COMPLETED" => Target \in held
        /\ run.state = "FAILED" => exec[Key] = "TOOL_FAILED"

\* A recorded failure was the enterprise's own refusal of the one request that
\* was sent: nothing of it is, or ever will be, in the enterprise system.
LEMMA FailureIsRefusal ==
    ASSUME Proved!IInv, exec[Key] = "TOOL_FAILED"
    PROVE  external[Key] = None /\ wire = {}
  <1>1. idem[Key] # None /\ idem[Key].status = "FAILED"
    BY DEF Proved!IInv, Proved!KeyInv, Proved!Attempts, Proved!Outcomes,
           Proved!IdempotencyStatusOf
  <1>2. reply[Key] = "REJECTED"
    BY <1>1 DEF Proved!IInv, Proved!KeyInv, Proved!IsFinal
  <1>3. external[Key] = None
    BY <1>2 DEF Proved!IInv, Proved!KeyInv
  <1>4. \A m \in wire : m.key = Key
    BY DEF Proved!IInv, Proved!TypeOK, Proved!Requests
  <1> QED BY <1>2, <1>3, <1>4 DEF Proved!IInv, Proved!WireInv

\* Whatever the gateway does, an access that has been there has been there, and
\* a failure stays on record.
LEMMA GatewayKeepsHistory ==
    ASSUME Proved!IInv, Gateway!Next \/ UNCHANGED Gateway!vars
    PROVE  held \subseteq held' /\ (exec[Key] = "TOOL_FAILED" => exec'[Key] = "TOOL_FAILED")
  <1> DEFINE Kept == held \subseteq held' /\ (exec[Key] = "TOOL_FAILED" => exec'[Key] = "TOOL_FAILED")
  <1>1. exec \in [{Key} -> Proved!ExecutionStatuses]
    BY DEF Proved!IInv, Proved!TypeOK
  <1>2. ASSUME NEW c \in Threads, Gateway!Start(c) \/ Gateway!Finish(c) PROVE Kept
    BY <1>1, <1>2 DEF Gateway!Start, Gateway!Finish
  <1>3. ASSUME NEW c \in Threads, Gateway!CallerStep(c) PROVE Kept
    <2>1. CASE \E p, q \in Gateway!Proposals, k \in {Key}, authorized \in BOOLEAN :
                    Gateway!Execute(c, p, q, k, authorized)
      BY <2>1 DEF Gateway!Execute
    <2>2. CASE \/ Gateway!CheckApproval(c) \/ Gateway!CheckVersion(c) \/ Gateway!CheckState(c)
               \/ Gateway!Reserve(c) \/ Gateway!Send(c) \/ Gateway!Receive(c)
               \/ Gateway!Verify(c) \/ Gateway!Finalize(c) \/ Gateway!StepFails(c)
               \/ Gateway!Return(c)
      <3>1. UNCHANGED <<held, exec>>
        BY <2>2 DEF Gateway!CheckApproval, Gateway!CheckVersion, Gateway!CheckState,
           Gateway!Reserve, Gateway!Send, Gateway!Receive, Gateway!Verify,
           Gateway!Finalize, Gateway!StepFails, Gateway!Return
      <3> QED BY <3>1
    <2> QED BY <1>2, <1>3, <2>1, <2>2 DEF Gateway!CallerStep
  <1>4. ASSUME NEW m \in Gateway!Requests, Gateway!Handle(m) \/ Gateway!Commit(m) \/ Gateway!Lose(m)
        PROVE Kept
    BY <1>4 DEF Gateway!Handle, Gateway!Commit, Gateway!Lose
  <1>5. ASSUME NEW a \in {Action}, Gateway!Propose(a) PROVE Kept
    BY <1>5 DEF Gateway!Propose
  <1>6. ASSUME NEW p \in Gateway!Proposals, NEW d \in {"APPROVED", "REJECTED"},
               Gateway!Decide(p, d)
        PROVE  Kept
    BY <1>6 DEF Gateway!Decide
  <1>7. ASSUME NEW x \in {Target}, Gateway!Deactivate(x) \/ Gateway!Revoke(x) PROVE Kept
    BY <1>7 DEF Gateway!Deactivate, Gateway!Revoke
  <1>8. ASSUME Gateway!Crash \/ UNCHANGED Gateway!vars PROVE Kept
    BY <1>8 DEF Gateway!Crash, Gateway!vars
  <1> HIDE DEF Kept
  <1>9. Kept
    BY <1>3, <1>4, <1>5, <1>6, <1>7, <1>8 DEF Gateway!Next
  <1> QED BY <1>9 DEF Kept

\* Only the step that records the outcome makes the gateway report it.
LEMMA FailureIsRecorded ==
    ASSUME Proved!IInv, NEW t \in Threads, GatewayStep(t),
           pc'[t] = "returned", result'[t] = "TOOL_FAILED"
    PROVE  exec'[Key] = "TOOL_FAILED"
  <1> USE DEF Gateway!Goto, Gateway!Yield, Gateway!Hold, Gateway!GiveUp
  <1>1. /\ pc \in [Threads -> Proved!Phases]
        /\ exec \in [{Key} -> Proved!ExecutionStatuses]
        /\ DOMAIN result = Threads
    BY DEF Proved!IInv, Proved!TypeOK
  <1>2. CASE Gateway!Finish(t)
    <2>1. call[t].key = Key
      <3>1. pc[t] # "idle"
        BY <1>2 DEF Gateway!Finish
      <3> QED BY <3>1 DEF Proved!IInv, Proved!CallInv, Proved!Calls
    <2> QED BY <1>1, <1>2, <2>1 DEF Gateway!Finish
  <1>3. CASE \/ Gateway!CheckApproval(t) \/ Gateway!CheckVersion(t) \/ Gateway!CheckState(t)
             \/ Gateway!Reserve(t) \/ Gateway!Start(t) \/ Gateway!Send(t)
    BY <1>1, <1>3 DEF Gateway!CheckApproval, Gateway!CheckVersion, Gateway!CheckState,
       Gateway!Reserve, Gateway!Start, Gateway!Send
  <1>4. CASE Gateway!Receive(t) \/ Gateway!Verify(t) \/ Gateway!Finalize(t) \/ Gateway!StepFails(t)
    BY <1>1, <1>4 DEF Gateway!Receive, Gateway!Verify, Gateway!Finalize, Gateway!StepFails
  <1> QED BY <1>2, <1>3, <1>4 DEF GatewayStep

\* The gateway goes on under a run that stays as it is.
LEMMA GatewayKeepsVerdict ==
    ASSUME Inv, Verdict, UNCHANGED <<run, event>>,
           held \subseteq held', exec[Key] = "TOOL_FAILED" => exec'[Key] = "TOOL_FAILED",
           \A t \in Threads : pc'[t] = "returned" /\ result'[t] = "TOOL_FAILED" =>
                \/ exec'[Key] = "TOOL_FAILED"
                \/ pc[t] = "returned" /\ result[t] = "TOOL_FAILED"
    PROVE  Verdict'
  BY DEF Verdict

\* The run is moved while the gateway, but for a call that begins or is over,
\* stands still.
LEMMA MoveKeepsVerdict ==
    ASSUME Inv, Verdict, NEW target, NEW type, Move(target, type),
           held \subseteq held', exec[Key] = "TOOL_FAILED" => exec'[Key] = "TOOL_FAILED",
           \A t \in Threads : pc'[t] = "returned" /\ result'[t] = "TOOL_FAILED" =>
                pc[t] = "returned" /\ result[t] = "TOOL_FAILED",
           type \notin ByPeople => /\ target = "COMPLETED" => Target \in held
                                   /\ target = "FAILED" => exec[Key] = "TOOL_FAILED"
    PROVE  Verdict'
  <1>1. run'.state = target /\ event' = type
    BY DEF Move
  <1> QED BY <1>1 DEF Verdict

LEMMA InitEstablishesVerdict == Init => Verdict
  <1> SUFFICES ASSUME Init PROVE Verdict
    OBVIOUS
  <1>1. run.state = "CREATED" /\ \A t \in Threads : pc[t] = "idle"
    BY DEF Init, Gateway!Init
  <1> QED BY <1>1 DEF Verdict

LEMMA NextKeepsVerdict == Inv /\ Proved!IInv /\ Verdict /\ [Next]_vars => Verdict'
  <1> SUFFICES ASSUME Inv, Proved!IInv, Verdict, [Next]_vars PROVE Verdict'
    OBVIOUS
  <1>1. held \subseteq held' /\ (exec[Key] = "TOOL_FAILED" => exec'[Key] = "TOOL_FAILED")
    <2>1. CASE UNCHANGED vars
      BY <2>1 DEF vars, gateway
    <2>2. ASSUME NEW o, HumanReview(o) PROVE UNCHANGED Gateway!vars
      BY <2>2 DEF HumanReview, gateway, Gateway!vars
    <2>3. CASE Next
      BY <2>2, <2>3, HandlerUsesGateway, CrashUsesGateway, EnterpriseUsesGateway,
         GatewayKeepsHistory DEF Next
    <2> QED BY <2>1, <2>3
  <1>2. ASSUME NEW t \in Threads, Handler(t) PROVE Verdict'
    <2>1. CASE Start(t)
      <3>1. run'.state = "WAITING_APPROVAL" /\ UNCHANGED <<pc, result>>
        BY <2>1 DEF Start, Gateway!Propose
      <3> QED BY <1>1, <3>1 DEF Verdict
    <2>2. CASE DecideTask(t) /\ ~UNCHANGED business
      <3> DEFINE d == request[t].decision
                 target == IF d = "APPROVED" THEN "RUNNING" ELSE "COMPLETED"
      <3>1. Move(target, ApprovalEvent(d)) /\ UNCHANGED <<pc, result>>
        BY <2>2 DEF DecideTask
      <3>2. /\ target = "COMPLETED" => ApprovalEvent(d) \in ByPeople
            /\ target # "FAILED"
        BY DEF ApprovalEvent, ByPeople
      <3> HIDE DEF d, target
      <3> QED BY <1>1, <3>1, <3>2, MoveKeepsVerdict
    <2>3. CASE Interrupt(t) /\ ~UNCHANGED business
      <3>1. /\ Move("WAITING_HUMAN", "ACTION_EXECUTION_INTERRUPTED_REQUIRES_HUMAN")
            /\ UNCHANGED <<pc, result>>
        BY <2>3 DEF Interrupt, gateway
      <3> QED BY <1>1, <3>1, MoveKeepsVerdict
    <2>4. CASE Begin(t) /\ ~UNCHANGED business
      <3>1. Move("EXECUTING", "ACTION_EXECUTION_STARTED")
        BY <2>4 DEF Begin
      <3>2. PICK authorized \in BOOLEAN : Gateway!Execute(t, Proposal, Proposal, Key, authorized)
        BY <2>4 DEF Begin
      <3>3. \A u \in Threads : pc'[u] = "returned" /\ result'[u] = "TOOL_FAILED" =>
                pc[u] = "returned" /\ result[u] = "TOOL_FAILED"
        <4>1. DOMAIN pc = Threads /\ DOMAIN result = Threads
          BY DEF Inv, Shapes
        <4> QED BY <3>2, <4>1 DEF Gateway!Execute, Gateway!Goto, Gateway!Yield
      <3> QED BY <1>1, <3>1, <3>3, MoveKeepsVerdict
    <2>5. CASE Finish(t) /\ ~UNCHANGED business
      <3>1. /\ Move(TargetState(result[t]), EventOf(result[t]))
            /\ pc[t] = "returned" /\ Gateway!Return(t)
        BY <2>5 DEF Finish
      <3>2. \A u \in Threads : pc'[u] = "returned" /\ result'[u] = "TOOL_FAILED" =>
                pc[u] = "returned" /\ result[u] = "TOOL_FAILED"
        <4>1. DOMAIN pc = Threads /\ DOMAIN result = Threads
          BY DEF Inv, Shapes
        <4> QED BY <3>1, <4>1 DEF Gateway!Return
      <3>3. TargetState(result[t]) = "COMPLETED" => Target \in held
        <4>1. SUFFICES ASSUME result[t] \in {"SUCCEEDED", "REPLAYED", "ALREADY_SATISFIED"}
                       PROVE  Target \in held
          BY DEF TargetState
        <4>2. /\ call[t] \in Proved!Calls
              /\ [p \in {Proposal} |-> Target][call[t].proposal] \in held
          BY <3>1, <4>1 DEF Proved!IInv, Proved!CallInv
        <4>3. call[t].proposal = Proposal
          BY <4>2, GatewayConstants DEF Proved!Calls
        <4> QED BY <4>2, <4>3
      <3>4. TargetState(result[t]) = "FAILED" => exec[Key] = "TOOL_FAILED"
        BY <3>1 DEF TargetState, Verdict
      <3> QED BY <1>1, <3>1, <3>2, <3>3, <3>4, MoveKeepsVerdict
    <2>6. CASE GatewayStep(t)
      <3>1. \A u \in Threads : pc'[u] = "returned" /\ result'[u] = "TOOL_FAILED" =>
                \/ exec'[Key] = "TOOL_FAILED"
                \/ pc[u] = "returned" /\ result[u] = "TOOL_FAILED"
        <4> TAKE u \in Threads
        <4>1. CASE u = t
          BY <2>6, <4>1, FailureIsRecorded
        <4>2. CASE u # t
          BY <2>6, <4>2, GatewayStepEffect DEF Inv, Shapes
        <4> QED BY <4>1, <4>2
      <3> QED BY <1>1, <2>6, <3>1, GatewayKeepsVerdict DEF GatewayStep, business
    <2>7. CASE (Finish(t) /\ UNCHANGED business) \/ FinishFails(t)
      <3>1. Gateway!Return(t) /\ UNCHANGED business
        BY <2>7 DEF Finish, FinishFails
      <3>2. DOMAIN pc = Threads /\ DOMAIN result = Threads
        BY DEF Inv, Shapes
      <3> QED BY <1>1, <3>1, <3>2, GatewayKeepsVerdict DEF Gateway!Return, business
    <2>8. CASE \/ \E o \in Orders : DecideAndResume(t, o)
               \/ ReadCheckpoint(t) \/ CheckActive(t) \/ ResumeGraph(t) \/ EnterExecute(t)
               \/ RequireInactive(t) \/ Claim(t) \/ Release(t)
               \/ Save(t) \/ Leave(t) \/ StepFails(t)
      <3>1. UNCHANGED <<run, event, pc, result>>
        BY <2>8 DEF DecideAndResume, ReadCheckpoint, CheckActive, ResumeGraph, EnterExecute,
                    RequireInactive, Claim, Release, Save, Leave, StepFails, gateway, business
      <3> QED BY <1>1, <3>1, GatewayKeepsVerdict
    <2>9. CASE (DecideTask(t) \/ Interrupt(t) \/ Begin(t)) /\ UNCHANGED business
      <3>1. UNCHANGED <<run, event>>
        BY <2>9 DEF business
      <3>2. UNCHANGED <<pc, result>>
        <4>1. ~Move("EXECUTING", "ACTION_EXECUTION_STARTED")
          BY <2>9, <3>1 DEF Move, Inv, Shapes
        <4> QED BY <2>9, <4>1 DEF DecideTask, Interrupt, Begin, gateway
      <3> QED BY <1>1, <3>1, <3>2, GatewayKeepsVerdict
    <2> QED BY <1>2, <2>1, <2>2, <2>3, <2>4, <2>5, <2>6, <2>7, <2>8, <2>9 DEF Handler
  <1>3. ASSUME NEW o \in {"COMPLETED", "FAILED", "CANCELLED", "WAITING_HUMAN"}, HumanReview(o)
        PROVE  Verdict'
    <2>1. PICK type : /\ Move(o, type)
                      /\ type \in ByPeople \/ o = "WAITING_HUMAN"
      BY <1>3 DEF HumanReview, ByPeople
    <2> QED BY <1>1, <1>3, <2>1, MoveKeepsVerdict DEF HumanReview, gateway
  <1>4. CASE Crash
    BY <1>1, <1>4, GatewayKeepsVerdict DEF Crash, business
  <1>5. CASE Enterprise
    BY <1>1, <1>5, GatewayKeepsVerdict DEF Enterprise, business, Gateway!Handle, Gateway!Commit,
       Gateway!Lose, Gateway!Deactivate, Gateway!Revoke
  <1>6. CASE UNCHANGED vars
    BY <1>1, <1>6, GatewayKeepsVerdict DEF vars, gateway, business
  <1> QED BY <1>2, <1>3, <1>4, <1>5, <1>6 DEF Next

\* What the machine concludes without a person is the truth about the
\* enterprise system (_finish, _TARGET_BY_OUTCOME): a completed run's access has
\* been there, a failed run's request never granted it and is nowhere under way.
THEOREM VerdictsAreHonest == Spec => []VerdictIsHonest
  <1>1. Spec => []Verdict
    BY InitEstablishesVerdict, NextKeepsVerdict, Invariance, GatewayInvariance, PTL DEF Spec
  <1>2. Proved!IInv /\ Verdict => VerdictIsHonest
    BY FailureIsRefusal DEF Verdict, VerdictIsHonest, ByPeople
  <1> QED BY <1>1, <1>2, GatewayInvariance, PTL

-----------------------------------------------------------------------------
(* What an interruption leaves behind                                      *)

Over == {"WAITING_HUMAN", "COMPLETED", "FAILED", "CANCELLED"}
OnGraph == {"decide", "active", "resume", "node", "recover", "interrupt", "claim",
            "begin", "gateway", "release"}

Saves == [node : {"await", "execute", "end"}, version : Nat, id : Nat]
Rows == [at : Phases, decision : Orders \cup {None}, expected : Nat,
         seen : Lifecycle!WorkflowStates \cup {None}, version : Nat,
         unsaved : Seq(Saves), ok : BOOLEAN]

\* The checkpoint at the approval is the first ever made, and only a run that
\* has left its execution behind has one at the end of its graph.
Founded(c, state) ==
    /\ c.node = "await" => c.id = 1
    /\ c.node \in {"execute", "end"} => c.id > 1
    /\ c.node = "end" => state \in Over

Positions ==
    /\ checkpoint \in [node : {"none", "await", "execute", "end"}, version : Nat, id : Nat]
    /\ clock \in Nat
    /\ run.state = "CREATED" => checkpoint.node = "none" /\ clock = 0
    /\ run.state # "CREATED" => clock >= 1
    /\ checkpoint.node = "none" => run.state \in {"CREATED", "WAITING_APPROVAL"}
    /\ Founded(checkpoint, run.state)

\* What a handler that is past reading the checkpoint relies on.
Rests(row, node, decided, state) ==
    /\ row.at = "idle" => row.unsaved = <<>>
    /\ row.at \in OnGraph => node # "none"
    /\ row.at = "active" => node \in {"execute", "end"}
    /\ row.at = "resume" => \/ row.decision = "APPROVED"
                            \/ row.decision = "REJECTED" /\ decided = "REJECTED"
                            \/ node \in {"execute", "end"}
    /\ row.at = "release" /\ row.ok => state \in Over
    /\ \A i \in 1..Len(row.unsaved) : Founded(row.unsaved[i], state)

Graph ==
    /\ Positions
    /\ request \in [Threads -> Rows]
    /\ \A t \in Threads : Rests(request[t], checkpoint.node, approval[Proposal], run.state)
    /\ active = TRUE => \E t \in Threads : request[t].at \in Claiming
    /\ run.state \in {"RUNNING", "EXECUTING"} => approval[Proposal] = "APPROVED"
    /\ approval[Proposal] = "REJECTED" => run.state = "COMPLETED"

LEMMA AppendFounded ==
    ASSUME NEW u \in Seq(Saves), NEW c \in Saves, NEW state,
           \A i \in 1..Len(u) : Founded(u[i], state), Founded(c, state)
    PROVE  /\ Append(u, c) \in Seq(Saves)
           /\ \A i \in 1..Len(Append(u, c)) : Founded(Append(u, c)[i], state)
  <1>1. Append(u, c) \in Seq(Saves) /\ Len(Append(u, c)) = Len(u) + 1
    OBVIOUS
  <1>2. ASSUME NEW i \in 1..Len(Append(u, c)) PROVE Founded(Append(u, c)[i], state)
    <2>1. Append(u, c)[i] = IF i <= Len(u) THEN u[i] ELSE c
      OBVIOUS
    <2>2. i <= Len(u) => i \in 1..Len(u)
      BY <1>1
    <2> QED BY <2>1, <2>2
  <1> QED BY <1>1, <1>2

LEMMA TailFounded ==
    ASSUME NEW u \in Seq(Saves), NEW state, u # <<>>,
           \A i \in 1..Len(u) : Founded(u[i], state)
    PROVE  /\ Tail(u) \in Seq(Saves)
           /\ \A i \in 1..Len(Tail(u)) : Founded(Tail(u)[i], state)
           /\ Head(u) \in Saves /\ Founded(Head(u), state)
  <1>1. Tail(u) \in Seq(Saves) /\ Len(Tail(u)) = Len(u) - 1 /\ Len(u) \in Nat /\ Len(u) >= 1
    OBVIOUS
  <1>2. ASSUME NEW i \in 1..Len(Tail(u)) PROVE Founded(Tail(u)[i], state)
    <2>1. Tail(u)[i] = u[i + 1] /\ i + 1 \in 1..Len(u)
      BY <1>1
    <2> QED BY <2>1
  <1>3. Head(u) = u[1] /\ 1 \in 1..Len(u)
    BY <1>1
  <1> QED BY <1>1, <1>2, <1>3

\* What a checkpoint and a handler rest on stays, whoever else moves on.
Persists(node, next) ==
    /\ node # "none" => next # "none"
    /\ node \in {"execute", "end"} => next \in {"execute", "end"}

LEMMA FoundedStays ==
    ASSUME NEW c, NEW state, NEW next, Founded(c, state), state \in Over => next \in Over
    PROVE  Founded(c, next)
  BY DEF Founded

LEMMA RestsStays ==
    ASSUME NEW row \in Rows, NEW node, NEW node2, NEW d, NEW d2, NEW state, NEW state2,
           Rests(row, node, d, state), Persists(node, node2),
           d = "REJECTED" => d2 = "REJECTED", state \in Over => state2 \in Over
    PROVE  Rests(row, node2, d2, state2)
  <1>1. \A i \in 1..Len(row.unsaved) : Founded(row.unsaved[i], state2)
    BY FoundedStays DEF Rests
  <1> QED BY <1>1 DEF Rests, Persists

\* What the rest of the state may do in any step.
Progresses ==
    /\ Positions'
    /\ Persists(checkpoint.node, checkpoint'.node)
    /\ approval[Proposal] = "REJECTED" => approval'[Proposal] = "REJECTED"
    /\ run.state \in Over => run'.state \in Over
    /\ run'.state \in {"RUNNING", "EXECUTING"} => approval'[Proposal] = "APPROVED"
    /\ approval'[Proposal] = "REJECTED" => run'.state = "COMPLETED"

\* One handler's row is replaced.
LEMMA RowStep ==
    ASSUME Inv, Graph, Progresses, NEW t \in Threads, NEW row \in Rows,
           request' = [request EXCEPT ![t] = row],
           Rests(row, checkpoint'.node, approval'[Proposal], run'.state),
           active' = TRUE =>
                \/ row.at \in Claiming
                \/ active = TRUE /\ request[t].at \notin Claiming
    PROVE  Graph'
  <1>1. request' \in [Threads -> Rows] /\ request'[t] = row
        /\ \A u \in Threads \ {t} : request'[u] = request[u]
    BY DEF Graph
  <1>2. ASSUME NEW u \in Threads
        PROVE  Rests(request'[u], checkpoint'.node, approval'[Proposal], run'.state)
    <2>1. CASE u = t
      BY <1>1, <2>1
    <2>2. CASE u # t
      BY <1>1, <2>2, RestsStays DEF Graph, Progresses
    <2> QED BY <2>1, <2>2
  <1>3. active' = TRUE => \E u \in Threads : request'[u].at \in Claiming
    BY <1>1 DEF Graph
  <1> QED BY <1>1, <1>2, <1>3 DEF Graph, Progresses

\* No handler's row is replaced.
LEMMA StillStep ==
    ASSUME Inv, Graph, Progresses, UNCHANGED <<request, active>>
    PROVE  Graph'
  <1>1. ASSUME NEW u \in Threads
        PROVE  Rests(request[u], checkpoint'.node, approval'[Proposal], run'.state)
    BY RestsStays DEF Graph, Progresses
  <1> QED BY <1>1 DEF Graph, Progresses

\* The durable state and the clock stand still.
LEMMA NothingElse ==
    ASSUME Graph, UNCHANGED <<run, approval, checkpoint>>, clock' \in Nat,
           run.state = "CREATED" => clock' = clock, clock' >= clock
    PROVE  Progresses
  BY DEF Graph, Progresses, Positions, Persists

\* The graph run of a handler ends, with a checkpoint it has just created or not.
LEMMA FlushStep ==
    ASSUME Inv, Graph, Progresses, NEW t \in Threads, NEW u \in Seq(Saves), Flush(t, u),
           \A i \in 1..Len(u) : Founded(u[i], run'.state),
           active' = TRUE => active = TRUE /\ request[t].at \notin Claiming
    PROVE  Graph'
  <1> DEFINE row == [Idle EXCEPT !.at = "flush", !.unsaved = u]
  <1>1. row \in Rows /\ row.at = "flush" /\ row.unsaved = u
    BY DEF Idle, Rows, Phases
  <1>2. Rests(row, checkpoint'.node, approval'[Proposal], run'.state)
    BY <1>1 DEF Rests, OnGraph
  <1>3. request' = [request EXCEPT ![t] = row]
    BY DEF Flush
  <1> HIDE DEF row
  <1> QED BY <1>1, <1>2, <1>3, RowStep

LEMMA OwnCheckpoints ==
    ASSUME Graph, run.state \in Over => run'.state \in Over, NEW t \in Threads
    PROVE  /\ request[t].unsaved \in Seq(Saves)
           /\ \A i \in 1..Len(request[t].unsaved) : Founded(request[t].unsaved[i], run'.state)
  <1>1. request[t] \in Rows /\ Rests(request[t], checkpoint.node, approval[Proposal], run.state)
    BY DEF Graph
  <1>2. \A i \in 1..Len(request[t].unsaved) : Founded(request[t].unsaved[i], run.state)
    BY <1>1 DEF Rests
  <1> QED BY <1>1, <1>2, FoundedStays DEF Rows

LEMMA RaiseStep ==
    ASSUME Inv, Graph, Progresses, NEW t \in Threads, Raise(t),
           active' = TRUE => active = TRUE /\ request[t].at \notin Claiming
    PROVE  Graph'
  BY FlushStep, OwnCheckpoints DEF Raise, Progresses

LEMMA StopStep ==
    ASSUME Inv, Graph, Progresses, NEW t \in Threads, NEW node \in {"await", "end"},
           StopAt(t, node), node = "await" => clock = 0,
           node = "end" => clock >= 1 /\ run'.state \in Over,
           active' = TRUE => active = TRUE /\ request[t].at \notin Claiming
    PROVE  Graph'
  <1> DEFINE c == [node |-> node, version |-> 0, id |-> clock + 1]
  <1>1. c \in Saves /\ Founded(c, run'.state)
    BY DEF Saves, Founded, Graph, Positions
  <1>2. Flush(t, Append(request[t].unsaved, c))
    BY DEF StopAt, Created
  <1> HIDE DEF c
  <1>3. /\ request[t].unsaved \in Seq(Saves)
        /\ \A i \in 1..Len(request[t].unsaved) : Founded(request[t].unsaved[i], run'.state)
    BY OwnCheckpoints DEF Progresses
  <1> QED BY <1>1, <1>2, <1>3, AppendFounded, FlushStep

LEMMA ReplyStep ==
    ASSUME Inv, Graph, Progresses, NEW t \in Threads, Reply(t),
           request[t].at \notin Claiming, UNCHANGED active
    PROVE  Graph'
  <1>1. Idle \in Rows /\ Idle.at = "idle" /\ Idle.unsaved = <<>>
    BY DEF Idle, Rows, Phases
  <1>2. Rests(Idle, checkpoint'.node, approval'[Proposal], run'.state)
    BY <1>1 DEF Rests, OnGraph
  <1> QED BY <1>1, <1>2, RowStep DEF Reply

\* A row is what its fields are.
LEMMA RowFields ==
    ASSUME Graph, NEW t \in Threads
    PROVE  /\ request[t] \in Rows
           /\ request[t].at \in Phases /\ request[t].decision \in Orders \cup {None}
           /\ request[t].expected \in Nat /\ request[t].version \in Nat
           /\ request[t].seen \in Lifecycle!WorkflowStates \cup {None}
           /\ request[t].ok \in BOOLEAN
           /\ Rests(request[t], checkpoint.node, approval[Proposal], run.state)
  <1>1. request[t] \in Rows /\ Rests(request[t], checkpoint.node, approval[Proposal], run.state)
    BY DEF Graph
  <1> QED BY <1>1 DEF Rows

\* A handler goes on with its checkpoints as they are.
LEMMA GoStep ==
    ASSUME Inv, Graph, Progresses, NEW t \in Threads, NEW row \in Rows,
           request' = [request EXCEPT ![t] = row], row.unsaved = request[t].unsaved,
           row.at # "idle",
           row.at \in OnGraph => checkpoint'.node # "none",
           row.at = "active" => checkpoint'.node \in {"execute", "end"},
           row.at = "resume" => \/ row.decision = "APPROVED"
                                \/ row.decision = "REJECTED" /\ approval'[Proposal] = "REJECTED"
                                \/ checkpoint'.node \in {"execute", "end"},
           row.at = "release" /\ row.ok => run'.state \in Over,
           active' = TRUE =>
                \/ row.at \in Claiming
                \/ active = TRUE /\ request[t].at \notin Claiming
    PROVE  Graph'
  <1>1. \A i \in 1..Len(row.unsaved) : Founded(row.unsaved[i], run'.state)
    BY OwnCheckpoints DEF Progresses
  <1>2. Rests(row, checkpoint'.node, approval'[Proposal], run'.state)
    BY <1>1 DEF Rests
  <1> QED BY <1>2, RowStep

LEMMA GotoStep ==
    ASSUME Inv, Graph, Progresses, NEW t \in Threads, NEW phase \in Phases \ {"idle", "active", "release"},
           Goto(t, phase), phase \in OnGraph => checkpoint'.node # "none",
           phase = "resume" => checkpoint'.node \in {"execute", "end"},
           active' = TRUE =>
                \/ phase \in Claiming
                \/ active = TRUE /\ request[t].at \notin Claiming
    PROVE  Graph'
  <1> DEFINE row == [request[t] EXCEPT !.at = phase]
  <1>1. /\ row \in Rows /\ row.at = phase /\ row.unsaved = request[t].unsaved
        /\ request' = [request EXCEPT ![t] = row]
    BY RowFields DEF Goto, Rows
  <1> HIDE DEF row
  <1> QED BY <1>1, GoStep

LEMMA StartKeepsGraph ==
    ASSUME Inv, Graph, NEW t \in Threads, Start(t)
    PROVE  Graph'
  <1>1. /\ request[t].at = "idle" /\ run.state = "CREATED"
        /\ run'.state = "WAITING_APPROVAL" /\ clock' = clock + 1
        /\ StopAt(t, "await")
        /\ UNCHANGED <<approval, checkpoint, active>>
    BY DEF Start, At, Gateway!Propose, StopAt, Tick
  <1>2. clock = 0
    BY <1>1 DEF Graph, Positions
  <1>3. Progresses
    BY <1>1, <1>2 DEF Graph, Progresses, Positions, Persists, Founded, Over
  <1> QED BY <1>1, <1>2, <1>3, StopStep DEF Claiming

\* The steps of a handler that only read what is stored.
LEMMA ReadsKeepGraph ==
    ASSUME Inv, Graph, NEW t \in Threads,
           \/ \E o \in Orders : DecideAndResume(t, o)
           \/ ReadCheckpoint(t) \/ CheckActive(t) \/ EnterExecute(t) \/ Leave(t)
    PROVE  Graph'
  <1> USE DEF At, Claiming, Phases, OnGraph
  <1>0. /\ UNCHANGED <<run, approval, checkpoint, clock, active>>
        /\ clock \in Nat /\ run.state \in Lifecycle!WorkflowStates /\ run.version \in Nat
    <2>1. UNCHANGED <<run, approval, checkpoint, clock, active>>
      BY DEF DecideAndResume, ReadCheckpoint, CheckActive, EnterExecute, Leave, gateway, business
    <2>2. clock \in Nat /\ run.state \in Lifecycle!WorkflowStates /\ run.version \in Nat
      BY DEF Inv, Shapes, Graph, Positions
    <2> QED BY <2>1, <2>2
  <1>1. Progresses
    BY <1>0, NothingElse
  <1>2. ASSUME NEW o \in Orders, DecideAndResume(t, o) PROVE Graph'
    <2> DEFINE row == [Idle EXCEPT !.at = "checkpoint",
                !.decision = o, !.expected = run.version, !.seen = run.state]
    <2>1. row \in Rows /\ row.at = "checkpoint" /\ row.unsaved = <<>>
      <3>1. Idle \in Rows /\ Idle.unsaved = <<>>
        BY DEF Rows, Idle
      <3> QED BY <1>0, <3>1 DEF Rows
    <2>2. request' = [request EXCEPT ![t] = row] /\ request[t].at = "idle"
      BY <1>2 DEF DecideAndResume
    <2> HIDE DEF row
    <2>3. Rests(row, checkpoint'.node, approval'[Proposal], run'.state)
      BY <2>1 DEF Rests
    <2> QED BY <1>0, <1>1, <2>1, <2>2, <2>3, RowStep
  <1>3. ASSUME NEW phase \in {"active", "decide"}, Continue(t, phase), request[t].at = "checkpoint",
               checkpoint.node # "none", phase = "active" => checkpoint.node = "execute"
        PROVE  Graph'
    <2> DEFINE row == [request[t] EXCEPT !.at = phase, !.seen = None]
    <2>1. /\ row \in Rows /\ row.at = phase /\ row.unsaved = request[t].unsaved
          /\ request' = [request EXCEPT ![t] = row]
      BY <1>3, RowFields DEF Continue, Rows
    <2> HIDE DEF row
    <2> QED BY <1>0, <1>1, <1>3, <2>1, GoStep
  <1>4. CASE ReadCheckpoint(t)
    <2>1. request[t].at = "checkpoint"
      BY <1>4 DEF ReadCheckpoint
    <2>2. CASE Reply(t)
      BY <1>0, <1>1, <2>1, <2>2, ReplyStep
    <2>3. CASE Continue(t, "active") /\ checkpoint.node = "execute"
      BY <1>3, <2>1, <2>3
    <2>4. CASE Continue(t, "decide") /\ checkpoint.node = "await"
      BY <1>3, <2>1, <2>4
    <2> QED BY <1>4, <2>2, <2>3, <2>4 DEF ReadCheckpoint, Interrupted
  <1>6. CASE CheckActive(t)
    <2>1. request[t].at = "active" /\ checkpoint.node \in {"execute", "end"}
      BY <1>6, RowFields DEF CheckActive, Rests
    <2>2. CASE Goto(t, "resume")
      BY <1>0, <1>1, <2>1, <2>2, GotoStep
    <2> QED BY <1>0, <1>1, <1>6, <2>1, <2>2, ReplyStep DEF CheckActive
  <1>7. CASE EnterExecute(t)
    <2>1. request[t].at = "node" /\ checkpoint.node # "none"
      BY <1>7, RowFields DEF EnterExecute, Rests
    <2>2. CASE Goto(t, "claim")
      BY <1>0, <1>1, <2>1, <2>2, GotoStep
    <2>3. CASE request' = [request EXCEPT ![t].at = "recover", ![t].version = 0]
      <3> DEFINE row == [request[t] EXCEPT !.at = "recover", !.version = 0]
      <3>1. /\ row \in Rows /\ row.at = "recover" /\ row.unsaved = request[t].unsaved
            /\ request' = [request EXCEPT ![t] = row]
        BY <2>3, RowFields DEF Rows
      <3> HIDE DEF row
      <3> QED BY <1>0, <1>1, <2>1, <3>1, GoStep
    <2> QED BY <1>7, <2>2, <2>3 DEF EnterExecute
  <1>8. CASE Leave(t)
    BY <1>0, <1>1, <1>8, ReplyStep DEF Leave
  <1> QED BY <1>2, <1>4, <1>6, <1>7, <1>8

LEMMA DecideTaskKeepsGraph ==
    ASSUME Inv, Graph, NEW t \in Threads, DecideTask(t)
    PROVE  Graph'
  <1> USE DEF At, Claiming, Phases, OnGraph
  <1>0. /\ request[t].at = "decide" /\ checkpoint.node # "none" /\ run.version \in Nat
        /\ approval \in [Gateway!Proposals -> {"PENDING", "APPROVED", "REJECTED"}]
        /\ clock \in Nat /\ UNCHANGED <<checkpoint, clock, active>>
    BY RowFields DEF DecideTask, Rests, Inv, Shapes, Graph, Positions
  <1>1. ASSUME NEW d \in Decisions, NEW version \in Nat, ResumeWith(t, d, version),
               approval'[Proposal] = d, Progresses
        PROVE  Graph'
    <2> DEFINE row == [request[t] EXCEPT !.at = "resume", !.decision = d, !.expected = 0,
                                         !.version = version]
    <2>1. d \in {"APPROVED", "REJECTED"} /\ d \in Orders \cup {None}
      BY DEF Decisions, Orders
    <2>2. /\ row \in Rows /\ row.at = "resume" /\ row.decision = d
          /\ row.unsaved = request[t].unsaved
          /\ request' = [request EXCEPT ![t] = row]
      BY <1>1, <2>1, RowFields DEF ResumeWith, Rows
    <2> HIDE DEF row
    <2> QED BY <1>0, <1>1, <2>1, <2>2, GoStep
  <1>2. CASE UNCHANGED <<approval, business>>
    <2>1. Progresses
      BY <1>0, <1>2, NothingElse DEF business
    <2>2. CASE Reply(t)
      BY <1>0, <2>1, <2>2, ReplyStep
    <2>3. CASE ResumeWith(t, approval[Proposal], run.version) /\ approval[Proposal] # "PENDING"
      <3>1. approval[Proposal] \in Decisions /\ approval'[Proposal] = approval[Proposal]
        BY <1>0, <1>2, <2>3, ProposalIsKnown DEF Decisions
      <3> QED BY <1>0, <1>1, <2>1, <2>3, <3>1
    <2>4. ASSUME NEW d \in Decisions, approval[Proposal] = "PENDING"
          PROVE  approval' # [approval EXCEPT ![Proposal] = d]
      BY <1>0, <1>2, <2>4, ProposalIsKnown DEF Decisions
    <2> QED BY <1>2, <2>2, <2>3, <2>4 DEF DecideTask
  <1>3. CASE ~UNCHANGED <<approval, business>>
    <2> DEFINE d == request[t].decision
               target == IF d = "APPROVED" THEN "RUNNING" ELSE "COMPLETED"
    <2>1. /\ approval[Proposal] = "PENDING" /\ d \in Decisions
          /\ approval' = [approval EXCEPT ![Proposal] = d]
          /\ Move(target, ApprovalEvent(d)) /\ ResumeWith(t, d, run.version + 1)
      BY <1>3 DEF DecideTask
    <2>2. /\ approval'[Proposal] = d
          /\ run'.state = IF d = "APPROVED" THEN "RUNNING" ELSE "COMPLETED"
      BY <1>0, <2>1, ProposalIsKnown DEF Move
    <2> HIDE DEF d, target
    <2>3. d \in {"APPROVED", "REJECTED"}
      BY <2>1 DEF Decisions
    <2>4. run.state = "WAITING_APPROVAL"
      <3>1. run.state \in {"CREATED", "WAITING_APPROVAL"} /\ run.state # "CREATED"
        BY <1>0, <2>1 DEF Inv, Once, Calls
      <3> QED BY <3>1
    <2>5. Progresses
      BY <1>0, <2>1, <2>2, <2>3, <2>4 DEF Progresses, Graph, Positions, Persists, Founded, Over
    <2> QED BY <1>0, <1>1, <2>1, <2>2, <2>5
  <1> QED BY <1>2, <1>3

LEMMA ResumeGraphKeepsGraph ==
    ASSUME Inv, Graph, NEW t \in Threads, ResumeGraph(t)
    PROVE  Graph'
  <1> USE DEF At, Claiming, Phases, OnGraph
  <1>0. /\ request[t].at = "resume" /\ run.state # "CREATED"
        /\ UNCHANGED <<run, approval, checkpoint, active>>
        /\ clock \in Nat /\ clock >= 1 /\ checkpoint.version \in Nat
        /\ checkpoint.node # "none"
    BY RowFields DEF ResumeGraph, Rests, Inv, Calls, Graph, Positions, gateway, business
  <1>1. Progresses
    <2>1. clock' = clock \/ clock' = clock + 1
      BY DEF ResumeGraph, StopAt, Tick
    <2> QED BY <1>0, <2>1, NothingElse
  <1>2. CASE /\ checkpoint.node = "await" /\ request[t].decision = "APPROVED"
             /\ request' = [request EXCEPT ![t].at = "node", ![t].decision = None,
                                ![t].unsaved = Created(t, "execute", request[t].version)]
    <2> DEFINE c == [node |-> "execute", version |-> request[t].version, id |-> clock + 1]
               u == Append(request[t].unsaved, c)
               row == [request[t] EXCEPT !.at = "node", !.decision = None, !.unsaved = u]
    <2>1. c \in Saves /\ Founded(c, run'.state)
      BY <1>0, RowFields DEF Saves, Founded
    <2>2. /\ u \in Seq(Saves)
          /\ \A i \in 1..Len(u) : Founded(u[i], run'.state)
      <3> HIDE DEF c
      <3> QED BY <2>1, OwnCheckpoints, AppendFounded, <1>1 DEF Progresses
    <2>3. request' = [request EXCEPT ![t] = [request[t] EXCEPT !.at = "node", !.decision = None,
                                                               !.unsaved = u]]
      BY <1>2, RowFields DEF Created, Rows
    <2> HIDE DEF u
    <2>4. /\ row \in Rows /\ row.at = "node" /\ row.unsaved = u
          /\ request' = [request EXCEPT ![t] = row]
      BY <2>2, <2>3, RowFields DEF Rows
    <2> HIDE DEF row
    <2>5. Rests(row, checkpoint'.node, approval'[Proposal], run'.state)
      BY <1>0, <2>2, <2>4 DEF Rests
    <2> QED BY <1>0, <1>1, <2>4, <2>5, RowStep
  <1>3. CASE checkpoint.node = "await" /\ request[t].decision # "APPROVED" /\ StopAt(t, "end")
    <2>1. approval[Proposal] = "REJECTED"
      BY <1>0, <1>3, RowFields DEF Rests
    <2>2. run'.state \in Over
      BY <1>0, <2>1 DEF Graph, Over
    <2> QED BY <1>0, <1>1, <1>3, <2>2, StopStep
  <1>4. CASE /\ checkpoint.node = "execute"
             /\ request' = [request EXCEPT ![t].at = "node", ![t].decision = None,
                                           ![t].version = checkpoint.version]
    <2> DEFINE row == [request[t] EXCEPT !.at = "node", !.decision = None,
                                         !.version = checkpoint.version]
    <2>1. /\ row \in Rows /\ row.at = "node" /\ row.unsaved = request[t].unsaved
          /\ request' = [request EXCEPT ![t] = row]
      BY <1>0, <1>4, RowFields DEF Rows
    <2> HIDE DEF row
    <2> QED BY <1>0, <1>1, <2>1, GoStep
  <1>5. CASE Reply(t)
    BY <1>0, <1>1, <1>5, ReplyStep
  <1> QED BY <1>2, <1>3, <1>4, <1>5 DEF ResumeGraph

LEMMA RecoveryKeepsGraph ==
    ASSUME Inv, Graph, NEW t \in Threads, RequireInactive(t) \/ Interrupt(t) \/ Claim(t)
    PROVE  Graph'
  <1> USE DEF At, Claiming, Phases, OnGraph
  <1>0. /\ request[t].at \in {"recover", "interrupt", "claim"} /\ checkpoint.node # "none"
        /\ run.state # "CREATED" /\ clock \in Nat /\ clock >= 1
        /\ UNCHANGED <<approval, checkpoint>>
    BY RowFields DEF RequireInactive, Interrupt, Claim, Rests, Inv, Calls, Graph, Positions, gateway
  <1>1. CASE RequireInactive(t) \/ Claim(t)
    <2>1. Progresses
      <3>1. UNCHANGED <<run, clock>>
        BY <1>1 DEF RequireInactive, Claim, Raise, business
      <3> QED BY <1>0, <3>1, NothingElse
    <2>2. CASE Raise(t) /\ UNCHANGED active
      BY <1>0, <2>1, <2>2, RaiseStep
    <2>3. CASE Goto(t, "interrupt") /\ UNCHANGED active
      BY <1>0, <2>1, <2>3, GotoStep
    <2>4. CASE Goto(t, "begin")
      BY <1>0, <2>1, <2>4, GotoStep
    <2> QED BY <1>1, <2>2, <2>3, <2>4 DEF RequireInactive, Claim
  <1>2. CASE /\ run.state = "EXECUTING" /\ UNCHANGED active
             /\ Move("WAITING_HUMAN", "ACTION_EXECUTION_INTERRUPTED_REQUIRES_HUMAN")
             /\ StopAt(t, "end")
    <2>1. run'.state = "WAITING_HUMAN" /\ clock' = clock + 1
      BY <1>2 DEF Move, StopAt, Tick
    <2>2. Progresses
      BY <1>0, <1>2, <2>1 DEF Progresses, Graph, Positions, Persists, Founded, Over
    <2> QED BY <1>0, <1>2, <2>1, <2>2, StopStep DEF Over
  <1>3. CASE Interrupt(t) /\ UNCHANGED business
    <2>1. UNCHANGED <<run, active>> /\ (clock' = clock \/ clock' = clock + 1)
      BY <1>3 DEF Interrupt, business, StopAt, Raise, Tick
    <2>2. Progresses
      BY <1>0, <2>1, NothingElse
    <2>3. CASE StopAt(t, "end") /\ run.state = "WAITING_HUMAN"
      BY <1>0, <2>1, <2>2, <2>3, StopStep DEF Over
    <2>4. CASE Raise(t)
      BY <1>0, <2>1, <2>2, <2>4, RaiseStep
    <2>5. ~Move("WAITING_HUMAN", "ACTION_EXECUTION_INTERRUPTED_REQUIRES_HUMAN")
      BY <1>3 DEF Move, business, Inv, Shapes
    <2> QED BY <1>3, <2>3, <2>4, <2>5 DEF Interrupt
  <1> QED BY <1>1, <1>2, <1>3 DEF Interrupt

LEMMA BeginKeepsGraph ==
    ASSUME Inv, Graph, NEW t \in Threads, Begin(t)
    PROVE  Graph'
  <1> USE DEF At, Claiming, Phases, OnGraph
  <1>0. /\ request[t].at = "begin" /\ checkpoint.node # "none" /\ run.version \in Nat
        /\ clock \in Nat /\ UNCHANGED <<checkpoint, clock>>
    BY RowFields DEF Begin, Rests, Inv, Shapes, Graph, Positions
  <1>1. CASE ~CanBegin(t)
    <2>1. /\ Flush(t, request[t].unsaved) /\ active' = FALSE
          /\ UNCHANGED <<run, approval>>
      BY <1>1 DEF Begin, gateway, business
    <2>2. Progresses
      BY <1>0, <2>1, NothingElse
    <2> QED BY <1>0, <2>1, <2>2, RaiseStep DEF Raise
  <1>2. CASE CanBegin(t)
    <2>1. run.state = "RUNNING" /\ run'.state = "EXECUTING"
      BY <1>2 DEF Begin, CanBegin, CanMove, Lifecycle!CanTransition, Lifecycle!AllowedTargets, Move
    <2>2. /\ UNCHANGED approval
          /\ request' = [request EXCEPT ![t].at = "gateway", ![t].version = run.version + 1]
      BY <1>2 DEF Begin, Gateway!Execute
    <2>3. Progresses
      BY <1>0, <2>1, <2>2 DEF Progresses, Graph, Positions, Persists, Founded, Over
    <2>4. PICK v \in Nat : v = run.version + 1
      BY <1>0
    <2> DEFINE row == [request[t] EXCEPT !.at = "gateway", !.version = v]
    <2>5. /\ row \in Rows /\ row.at = "gateway" /\ row.unsaved = request[t].unsaved
          /\ request' = [request EXCEPT ![t] = row]
      BY <2>2, <2>4, RowFields DEF Rows
    <2> HIDE DEF row
    <2> QED BY <1>0, <2>3, <2>5, GoStep
  <1> QED BY <1>1, <1>2

LEMMA FinishKeepsGraph ==
    ASSUME Inv, Graph, NEW t \in Threads, Finish(t) \/ FinishFails(t)
    PROVE  Graph'
  <1> USE DEF At, Claiming, Phases, OnGraph
  <1>0. /\ request[t].at = "gateway" /\ checkpoint.node # "none" /\ run.state = "EXECUTING"
        /\ clock \in Nat /\ UNCHANGED <<approval, checkpoint, clock, active>>
    BY RowFields DEF Finish, FinishFails, Rests, Inv, Recovery, Graph, Positions, Gateway!Return
  <1>1. CASE UNCHANGED business /\ request' = [request EXCEPT ![t].at = "release",
                                        ![t].version = 0, ![t].ok = FALSE]
    <2>1. Progresses
      BY <1>0, <1>1, NothingElse DEF business
    <2> DEFINE row == [request[t] EXCEPT !.at = "release", !.version = 0, !.ok = FALSE]
    <2>2. /\ row \in Rows /\ row.at = "release" /\ row.ok = FALSE
          /\ row.unsaved = request[t].unsaved
          /\ request' = [request EXCEPT ![t] = row]
      BY <1>1, RowFields DEF Rows
    <2> HIDE DEF row
    <2> QED BY <1>0, <2>1, <2>2, GoStep
  <1>2. CASE /\ Move(TargetState(result[t]), EventOf(result[t]))
             /\ request' = [request EXCEPT ![t].at = "release", ![t].version = 0]
    <2>1. run'.state \in {"COMPLETED", "FAILED", "WAITING_HUMAN"}
      BY <1>2 DEF Move, TargetState
    <2>2. Progresses
      BY <1>0, <2>1 DEF Progresses, Graph, Positions, Persists, Founded, Over
    <2> DEFINE row == [request[t] EXCEPT !.at = "release", !.version = 0]
    <2>3. /\ row \in Rows /\ row.at = "release"
          /\ row.unsaved = request[t].unsaved
          /\ request' = [request EXCEPT ![t] = row]
      BY <1>2, RowFields DEF Rows
    <2> HIDE DEF row
    <2>4. run'.state \in Over
      BY <2>1 DEF Over
    <2> QED BY <1>0, <2>2, <2>3, <2>4, GoStep
  <1> QED BY <1>1, <1>2 DEF Finish, FinishFails

LEMMA ReleaseKeepsGraph ==
    ASSUME Inv, Graph, NEW t \in Threads, Release(t) \/ StepFails(t)
    PROVE  Graph'
  <1> USE DEF At, Claiming, Phases, OnGraph
  <1>0. /\ request[t].at \in {"checkpoint", "decide", "node", "interrupt", "begin", "release"}
        /\ run.state # "CREATED" /\ clock \in Nat /\ clock >= 1
        /\ UNCHANGED <<run, approval, checkpoint>> /\ (clock' = clock \/ clock' = clock + 1)
    BY DEF Release, StepFails, StopAt, Raise, Tick, Inv, Calls, Graph, Positions, gateway, business
  <1>1. Progresses
    BY <1>0, NothingElse
  <1>2. CASE Release(t)
    <2>1. active' = FALSE /\ request[t].at = "release"
      BY <1>2 DEF Release
    <2>2. CASE request[t].ok /\ StopAt(t, "end")
      <3>1. run'.state \in Over
        BY <1>0, <2>1, <2>2, RowFields DEF Rests
      <3> QED BY <1>0, <1>1, <2>1, <2>2, <3>1, StopStep
    <2>3. CASE Raise(t)
      BY <1>1, <2>1, <2>3, RaiseStep
    <2> QED BY <1>2, <2>2, <2>3 DEF Release
  <1>3. CASE StepFails(t)
    <2>1. Raise(t) /\ active' = (active /\ request[t].at # "begin") /\ request[t].at # "release"
      BY <1>3 DEF StepFails
    <2>2. active' = TRUE => active = TRUE /\ request[t].at \notin Claiming
      <3>1. request[t].at \notin {"gateway", "release"}
        BY <1>3 DEF StepFails
      <3>2. active \in BOOLEAN
        BY DEF Inv, Shapes
      <3>3. active' = TRUE => active = TRUE /\ request[t].at # "begin"
        BY <2>1, <3>2, Zenon
      <3> QED BY <3>1, <3>3
    <2> QED BY <1>1, <2>1, <2>2, RaiseStep
  <1> QED BY <1>2, <1>3

LEMMA SaveKeepsGraph ==
    ASSUME Inv, Graph, NEW t \in Threads, Save(t)
    PROVE  Graph'
  <1> DEFINE u == request[t].unsaved
             c == Head(u)
  <1>1. /\ u # <<>> /\ checkpoint' = IF c.id > checkpoint.id THEN c ELSE checkpoint
        /\ UNCHANGED <<run, approval, clock, active>>
    BY DEF Save, gateway, business
  <1>2. u \in Seq(Saves) /\ \A i \in 1..Len(u) : Founded(u[i], run.state)
    BY RowFields DEF Rests, Rows
  <1>3. /\ Tail(u) \in Seq(Saves)
        /\ \A i \in 1..Len(Tail(u)) : Founded(Tail(u)[i], run.state)
        /\ c \in Saves /\ Founded(c, run.state)
    BY <1>1, <1>2, TailFounded
  <1>4. request' = [request EXCEPT ![t] = [request[t] EXCEPT !.unsaved = Tail(u)]]
    BY DEF Save
  <1>5. run.state # "CREATED" /\ request[t].at # "idle"
    <2>1. request[t].at # "idle" => run.state # "CREATED"
      BY DEF Inv, Calls
    <2>2. request[t].at # "idle"
      BY <1>1, RowFields DEF Rests
    <2> QED BY <2>1, <2>2
  <1> HIDE DEF u, c
  <1>6. Progresses
    <2>1. Positions'
      BY <1>1, <1>3, <1>5 DEF Graph, Positions, Saves, Founded
    <2>2. Persists(checkpoint.node, checkpoint'.node)
      BY <1>1, <1>3 DEF Graph, Positions, Saves, Founded, Persists
    <2> QED BY <1>1, <2>1, <2>2 DEF Progresses, Graph
  <1> DEFINE row == [request[t] EXCEPT !.unsaved = Tail(u)]
  <1>7. /\ row \in Rows /\ row.at = request[t].at /\ row.decision = request[t].decision
        /\ row.ok = request[t].ok /\ row.unsaved = Tail(u)
    BY <1>3, RowFields DEF Rows
  <1>8. request' = [request EXCEPT ![t] = row]
    BY <1>4
  <1> HIDE DEF row
  <1>9. Rests(row, checkpoint'.node, approval'[Proposal], run'.state)
    <2>1. Persists(checkpoint.node, checkpoint'.node)
      BY <1>6 DEF Progresses
    <2> QED BY <1>1, <1>3, <1>5, <1>7, <2>1, RowFields DEF Rests, Persists, OnGraph
  <1>10. active' = TRUE => \/ row.at \in Claiming
                           \/ active = TRUE /\ request[t].at \notin Claiming
    BY <1>1, <1>7
  <1> QED BY <1>6, <1>7, <1>8, <1>9, <1>10, RowStep

\* The gateway, the enterprise system and the reviewer leave handlers alone.
LEMMA OthersKeepGraph ==
    ASSUME Inv, Graph,
           \/ \E t \in Threads : GatewayStep(t)
           \/ \E o \in {"COMPLETED", "FAILED", "CANCELLED", "WAITING_HUMAN"} : HumanReview(o)
           \/ Enterprise \/ UNCHANGED vars
    PROVE  Graph'
  <1>0. clock \in Nat
    BY DEF Graph, Positions
  <1>1. ASSUME NEW t \in Threads, GatewayStep(t) PROVE Graph'
    <2>1. UNCHANGED <<run, approval, checkpoint, clock, active, request>>
      BY <1>1, GatewayStepEffect DEF GatewayStep, business
    <2> QED BY <1>0, <2>1, NothingElse, StillStep
  <1>2. ASSUME NEW o \in {"COMPLETED", "FAILED", "CANCELLED", "WAITING_HUMAN"}, HumanReview(o)
        PROVE  Graph'
    <2>1. /\ run.state = "WAITING_HUMAN" /\ run'.state = o
          /\ UNCHANGED <<approval, checkpoint, clock, active, request>>
      BY <1>2 DEF HumanReview, Move, gateway
    <2>2. Progresses
      BY <2>1 DEF Progresses, Graph, Positions, Persists, Founded, Over
    <2> QED BY <2>1, <2>2, StillStep
  <1>3. CASE Enterprise \/ UNCHANGED vars
    <2>1. UNCHANGED <<run, approval, checkpoint, clock, active, request>>
      BY <1>3 DEF Enterprise, vars, gateway, business, Gateway!Handle, Gateway!Commit,
         Gateway!Lose, Gateway!Deactivate, Gateway!Revoke
    <2> QED BY <1>0, <2>1, NothingElse, StillStep
  <1> QED BY <1>1, <1>2, <1>3

LEMMA CrashKeepsGraph ==
    ASSUME Inv, Graph, Crash
    PROVE  Graph'
  <1>1. /\ request' = [t \in Threads |-> Idle] /\ active' = FALSE
        /\ UNCHANGED <<run, approval, checkpoint, clock>>
    BY DEF Crash, business
  <1>2. Idle \in Rows /\ Idle.at = "idle" /\ Idle.unsaved = <<>>
    BY DEF Idle, Rows, Phases
  <1>3. ASSUME NEW node, NEW d, NEW state PROVE Rests(Idle, node, d, state)
    BY <1>2 DEF Rests, OnGraph
  <1>4. Positions'
    BY <1>1 DEF Graph, Positions
  <1> QED BY <1>1, <1>2, <1>3, <1>4 DEF Graph

LEMMA InitEstablishesGraph == Init => Graph
  <1> SUFFICES ASSUME Init PROVE Graph
    OBVIOUS
  <1>1. /\ request = [t \in Threads |-> Idle] /\ active = FALSE
        /\ run.state = "CREATED" /\ clock = 0
        /\ checkpoint = [node |-> "none", version |-> 0, id |-> 0]
        /\ approval[Proposal] = "PENDING"
    BY ProposalIsKnown DEF Init, Gateway!Init
  <1>2. Idle \in Rows /\ Idle.at = "idle" /\ Idle.unsaved = <<>>
    BY DEF Idle, Rows, Phases
  <1>3. ASSUME NEW node, NEW d, NEW state PROVE Rests(Idle, node, d, state)
    BY <1>2 DEF Rests, OnGraph
  <1>4. Positions
    BY <1>1 DEF Positions, Founded
  <1> QED BY <1>1, <1>2, <1>3, <1>4 DEF Graph

LEMMA NextKeepsGraph == Inv /\ Graph /\ [Next]_vars => Graph'
  <1> SUFFICES ASSUME Inv, Graph, [Next]_vars PROVE Graph'
    OBVIOUS
  <1>1. ASSUME NEW t \in Threads, Handler(t) PROVE Graph'
    <2>1. CASE \/ Start(t) \/ DecideTask(t) \/ ResumeGraph(t) \/ RequireInactive(t)
               \/ Interrupt(t) \/ Claim(t) \/ Begin(t) \/ GatewayStep(t)
      BY <2>1, StartKeepsGraph, DecideTaskKeepsGraph, ResumeGraphKeepsGraph,
         RecoveryKeepsGraph, BeginKeepsGraph, OthersKeepGraph
    <2>2. CASE Finish(t) \/ FinishFails(t) \/ Release(t) \/ Save(t) \/ StepFails(t)
      BY <2>2, FinishKeepsGraph, ReleaseKeepsGraph, SaveKeepsGraph
    <2>3. CASE \/ \E o \in Orders : DecideAndResume(t, o)
               \/ ReadCheckpoint(t) \/ CheckActive(t) \/ EnterExecute(t) \/ Leave(t)
      BY <2>3, ReadsKeepGraph
    <2> QED BY <1>1, <2>1, <2>2, <2>3 DEF Handler
  <1> QED BY <1>1, OthersKeepGraph, CrashKeepsGraph DEF Next

\* A run that a crash or an exception left EXECUTING can always be recovered: the
\* graph has not been taken to its end, whatever checkpoints were saved late or
\* lost, the approval stands, and nobody holds the claim (decide_and_resume,
\* recover_interrupted_execution).
THEOREM InterruptionsAreRecoverable == Spec => []InterruptionIsRecoverable
  <1>1. Spec => []Graph
    BY InitEstablishesGraph, NextKeepsGraph, Invariance, PTL DEF Spec
  <1>2. Graph => InterruptionIsRecoverable
    <2> SUFFICES ASSUME Graph, Quiet, run.state = "EXECUTING"
                 PROVE  /\ checkpoint.node \in {"await", "execute"}
                        /\ approval[Proposal] = "APPROVED"
                        /\ ~active
      BY DEF InterruptionIsRecoverable
    <2>1. checkpoint.node \in {"await", "execute"}
      BY DEF Graph, Positions, Founded, Over
    <2>2. approval[Proposal] = "APPROVED"
      BY DEF Graph
    <2>3. active # TRUE
      BY DEF Graph, Quiet, At, Claiming
    <2> QED BY <2>1, <2>2, <2>3
  <1> QED BY <1>1, <1>2, PTL
================================================================================
