----------------------------- MODULE AccessWorkflow -----------------------------
(***************************************************************************)
(* One access request after another part of BizOrch has understood it:     *)
(* scenarios/access_management/{workflow,execution}.py, the in-process     *)
(* activity registry, the LangGraph checkpoint of the run, human review,   *)
(* and the ActionGateway underneath.  The durable run (MySQL) and the      *)
(* durable graph position (SQLite) are committed separately: a handler     *)
(* reads one and then the other, and writes one long before the other.     *)
(***************************************************************************)
EXTENDS Naturals, Sequences

CONSTANTS Threads,        \* request handlers of the one backend process
          Action, Key,    \* the proposed action and the key derived from it
          Target,         \* the access it asks for
          MaxVersion,     \* bound: no human review once the run has this version
          MaxCheckpoints, \* bound on the checkpoints ever created
          None

ASSUME BoundsAssumption == MaxVersion \in Nat /\ MaxCheckpoints \in Nat

VARIABLES
    latest, approval, idem, exec, pc, call, result,    \* ActionGateway's
    wire, reply, granted, held, external, eligible, sends,   \* ActionGateway's
    run,         \* WorkflowRun: state and version
    event,       \* the type of the run's last audit event
    starts,      \* how many times it was taken to EXECUTING
    checkpoint,  \* the latest saved graph checkpoint
    clock,       \* checkpoint ids grow with their time of creation
    active,      \* ExecutionActivityRegistry: the run is claimed
    request      \* what each handler is doing

\* The proposal is stored as version 1 and never revised.
Proposal == [action |-> Action, version |-> 1]

Gateway == INSTANCE ActionGateway WITH
    Callers <- Threads, Actions <- {Action}, MaxVersion <- 1, Keys <- {Key},
    Targets <- {Target}, TargetOf <- [p \in {Proposal} |-> Target]

Lifecycle == INSTANCE WorkflowLifecycle WITH state <- run.state, version <- run.version

ASSUME NoneAssumption ==
    /\ None \notin Gateway!Calls
    /\ None \notin Gateway!IdempotencyRecords
    /\ None \notin {Target, "OK", "REJECTED"}

gateway == <<latest, approval, idem, exec, pc, call, result,
             wire, reply, granted, held, external, eligible, sends>>
business == <<run, event, starts>>
vars == <<gateway, business, checkpoint, clock, active, request>>

\* node is where the graph continues, version the one its execution expects.
Checkpoints == [node : {"none", "await", "execute", "end"},
                version : 0..MaxVersion, id : 0..MaxCheckpoints]

Events == {"NONE", "APPROVAL_REQUESTED", "APPROVAL_APPROVED", "APPROVAL_REJECTED",
           "ACTION_EXECUTION_STARTED", "ACTION_SUCCEEDED", "ACTION_REPLAYED",
           "ACTION_ALREADY_SATISFIED", "ACTION_TOOL_FAILED", "ACTION_RESULT_UNKNOWN",
           "ACTION_VERIFICATION_FAILED", "ACTION_PRECONDITION_REQUIRES_HUMAN",
           "ACTION_EXECUTION_INTERRUPTED_REQUIRES_HUMAN",
           "HUMAN_REVIEW_NOTE_RECORDED", "HUMAN_REVIEW_CONCLUDED"}

Decisions == {"APPROVED", "REJECTED"}
\* "RECORDED": no decision of its own, only that the recorded one be resumed.
Orders == Decisions \cup {"RECORDED"}
Phases == {"idle", "checkpoint", "decide", "active", "resume", "node",
           "recover", "interrupt", "claim", "begin", "gateway", "release", "flush"}

\* decision and expected come with the HTTP request; seen is the state of the
\* run in the snapshot; version the one a later step relies on; unsaved the
\* checkpoints this graph run has created and its background writer has not
\* saved yet.
Requests == [at : Phases, decision : Orders \cup {None}, expected : 0..MaxVersion,
             seen : Lifecycle!WorkflowStates \cup {None}, version : 0..MaxVersion,
             unsaved : UNION {[1..n -> Checkpoints] : n \in 0..2}, ok : BOOLEAN]

Idle == [at |-> "idle", decision |-> None, expected |-> 0, seen |-> None,
         version |-> 0, unsaved |-> <<>>, ok |-> TRUE]

TypeOK ==
    /\ Gateway!TypeOK
    /\ run \in [state : Lifecycle!WorkflowStates, version : 0..MaxVersion]
    /\ event \in Events
    /\ starts \in Nat
    /\ checkpoint \in Checkpoints
    /\ clock \in 0..MaxCheckpoints
    /\ active \in BOOLEAN
    /\ request \in [Threads -> Requests]

\* WorkflowRepository.create has committed nothing yet.
Init ==
    /\ Gateway!Init
    /\ run = [state |-> "CREATED", version |-> 0]
    /\ event = "NONE"
    /\ starts = 0
    /\ checkpoint = [node |-> "none", version |-> 0, id |-> 0]
    /\ clock = 0
    /\ active = FALSE
    /\ request = [t \in Threads |-> Idle]

-----------------------------------------------------------------------------
(* Steps a handler is made of                                              *)

At(t, phase) == request[t].at = phase

Goto(t, phase) == request' = [request EXCEPT ![t].at = phase]

Reply(t) == request' = [request EXCEPT ![t] = Idle]

\* The graph run is over; what is left is to save its checkpoints.
Flush(t, unsaved) ==
    request' = [request EXCEPT ![t] = [Idle EXCEPT !.at = "flush", !.unsaved = unsaved]]

\* A node returned: the graph creates a checkpoint ...
Created(t, node, version) ==
    Append(request[t].unsaved, [node |-> node, version |-> version, id |-> clock + 1])

Tick == clock < MaxCheckpoints /\ clock' = clock + 1

\* Mutant: the exception of a node is swallowed and the graph goes on to its end.
RaiseAsReturn(t) == Tick /\ Flush(t, Created(t, "end", 0))

\* A node that raised creates no checkpoint.
Raise(t) == Flush(t, request[t].unsaved) /\ UNCHANGED clock

\* ... at which it stops.
StopAt(t, node) == Tick /\ Flush(t, Created(t, node, 0))

\* WorkflowRepository.transition inside a transaction of its caller.
CanMove(expected, target) ==
    /\ run.version = expected
    /\ Lifecycle!CanTransition(run.state, target)

Move(target, type) ==
    /\ run' = [state |-> target, version |-> run.version + 1]
    /\ event' = type
    /\ starts' = starts + (IF target = "EXECUTING" THEN 1 ELSE 0)

-----------------------------------------------------------------------------
(* start                                                                   *)

\* intake: one transaction creates the run, its proposal and its approval task
\* and takes the run to WAITING_APPROVAL; the graph then stops at the approval.
Start(t) ==
    /\ At(t, "idle")
    /\ run.state = "CREATED"
    /\ Gateway!Propose(Action)
    /\ run' = [state |-> "WAITING_APPROVAL", version |-> 2]
    /\ event' = "APPROVAL_REQUESTED"
    /\ StopAt(t, "await")
    /\ UNCHANGED <<starts, checkpoint, active>>

-----------------------------------------------------------------------------
(* decide_and_resume                                                       *)

\* The approver's decision, or the repair of a recorded one
\* (resume_recorded_approval), arrives and snapshot reads the run.  The version he
\* sends is the one his page shows; an older one than the run's is refused by
\* DecideTask whatever else happens, so the present one stands for all.
DecideAndResume(t, order) ==
    /\ At(t, "idle")
    /\ run.state # "CREATED"
    /\ request' = [request EXCEPT ![t] = [Idle EXCEPT !.at = "checkpoint",
            !.decision = order, !.expected = run.version, !.seen = run.state]]
    /\ UNCHANGED <<gateway, business, checkpoint, clock, active>>

Interrupted(t) == checkpoint.node = "execute" /\ request[t].seen = "EXECUTING"

Continue(t, phase) ==
    request' = [request EXCEPT ![t].at = phase, ![t].seen = None]

\* snapshot then reads the checkpoint, and the request is routed on both: a finished graph
\* answers, an interrupted execution is looked into, a waiting one goes on, and
\* anything else is refused.
ReadCheckpoint(t) ==
    /\ At(t, "checkpoint")
    /\ \/ /\ Interrupted(t)
          /\ IF approval[Proposal] = "APPROVED" /\ request[t].decision # "REJECTED"
             THEN Continue(t, "active") ELSE Reply(t)
       \/ checkpoint.node = "await" /\ Continue(t, "decide")
       \/ ~Interrupted(t) /\ checkpoint.node # "await" /\ Reply(t)
    /\ UNCHANGED <<gateway, business, checkpoint, clock, active>>

\* is_active: a write this process is still running is left alone.
CheckActive(t) ==
    /\ At(t, "active")
    /\ IF active THEN Reply(t) ELSE Goto(t, "resume")
    /\ UNCHANGED <<gateway, business, checkpoint, clock, active>>

\* The graph will be resumed with decision d and the run's version.
ResumeWith(t, d, version) ==
    request' = [request EXCEPT ![t].at = "resume", ![t].decision = d,
                               ![t].expected = 0, ![t].version = version]

\* A task that is already decided must match, and the run's present version is
\* taken; a recorded decision is only resumed while the run is where the
\* decision has left it.
Matches(t, d) ==
    IF request[t].decision = "RECORDED"
    THEN run.state = IF d = "APPROVED" THEN "RUNNING" ELSE "COMPLETED"
    ELSE request[t].decision = d

ApprovalEvent(d) == IF d = "APPROVED" THEN "APPROVAL_APPROVED" ELSE "APPROVAL_REJECTED"

\* The decision and the transition of the run are one transaction.
DecideTask(t) ==
    /\ At(t, "decide")
    /\ LET d == request[t].decision
           recorded == approval[Proposal]
           target == IF d = "APPROVED" THEN "RUNNING" ELSE "COMPLETED"
           open == d \in Decisions /\ CanMove(request[t].expected, target)
       IN \/ /\ recorded = "PENDING" /\ open
             /\ approval' = [approval EXCEPT ![Proposal] = d]
             /\ Move(target, ApprovalEvent(d))
             /\ ResumeWith(t, d, run.version + 1)
          \/ /\ recorded # "PENDING" /\ Matches(t, recorded)
             /\ ResumeWith(t, recorded, run.version)
             /\ UNCHANGED <<approval, business>>
          \/ /\ IF recorded = "PENDING" THEN ~open ELSE ~Matches(t, recorded)
             /\ Reply(t)
             /\ UNCHANGED <<approval, business>>
    /\ UNCHANGED <<latest, idem, exec, pc, call, result, wire, reply, granted,
                   held, external, eligible, sends, checkpoint, clock, active>>

-----------------------------------------------------------------------------
(* The graph                                                               *)

\* graph.invoke loads the latest checkpoint anew and continues from there;
\* _await_approval then _route_after_approval.
ResumeGraph(t) ==
    /\ At(t, "resume")
    /\ \/ /\ checkpoint.node = "await"
          /\ request[t].decision = "APPROVED"
          /\ Tick
          /\ request' = [request EXCEPT ![t].at = "node", ![t].decision = None,
                  ![t].unsaved = Created(t, "execute", request[t].version)]
       \/ checkpoint.node = "await" /\ request[t].decision # "APPROVED" /\ StopAt(t, "end")
       \/ /\ checkpoint.node = "execute"
          /\ request' = [request EXCEPT ![t].at = "node", ![t].decision = None,
                                        ![t].version = checkpoint.version]
          /\ UNCHANGED clock
       \/ checkpoint.node = "end" /\ Reply(t) /\ UNCHANGED clock
    /\ UNCHANGED <<gateway, business, checkpoint, active>>

\* _execute: what it finds decides between recovery and execution.
EnterExecute(t) ==
    /\ At(t, "node")
    /\ IF run.state = "EXECUTING"
       THEN request' = [request EXCEPT ![t].at = "recover", ![t].version = 0]
       ELSE Goto(t, "claim")
    /\ UNCHANGED <<gateway, business, checkpoint, clock, active>>

\* Mutant: recovery does not ask whether the write is still running.
RecoverAnyway(t) ==
    /\ At(t, "recover")
    /\ Goto(t, "interrupt")
    /\ UNCHANGED <<gateway, business, checkpoint, clock, active>>

\* recover_interrupted_execution: require_inactive ...
RequireInactive(t) ==
    /\ At(t, "recover")
    /\ IF active THEN Raise(t) ELSE Goto(t, "interrupt") /\ UNCHANGED clock
    /\ UNCHANGED <<gateway, business, checkpoint, active>>

\* Mutant: the state the node saw is not read again.
InterruptAsSeen(t) ==
    /\ At(t, "interrupt")
    /\ Move("WAITING_HUMAN", "ACTION_EXECUTION_INTERRUPTED_REQUIRES_HUMAN")
    /\ StopAt(t, "end")
    /\ UNCHANGED <<gateway, checkpoint, active>>

\* ... then, in one transaction, the run is handed to a human, unless another
\* handler has already done so.
Interrupt(t) ==
    /\ At(t, "interrupt")
    /\ \/ /\ run.state = "EXECUTING"
          /\ Move("WAITING_HUMAN", "ACTION_EXECUTION_INTERRUPTED_REQUIRES_HUMAN")
          /\ StopAt(t, "end")
       \/ /\ run.state = "WAITING_HUMAN"
          /\ StopAt(t, "end")
          /\ UNCHANGED business
       \/ /\ run.state \notin {"EXECUTING", "WAITING_HUMAN"}
          /\ Raise(t)
          /\ UNCHANGED business
    /\ UNCHANGED <<gateway, checkpoint, active>>

\* ExecutionActivityRegistry.claim.
Claim(t) ==
    /\ At(t, "claim")
    /\ IF active THEN Raise(t) /\ UNCHANGED active
                 ELSE Goto(t, "begin") /\ active' = TRUE /\ UNCHANGED clock
    /\ UNCHANGED <<gateway, business, checkpoint>>

\* Mutant: only the version is compared, not the state.
CanBeginAtVersion(t) == run.version = request[t].version

CanBegin(t) == CanMove(request[t].version, "EXECUTING")

\* EXECUTING is committed before the gateway is called.
Begin(t) ==
    /\ At(t, "begin")
    /\ \/ /\ CanBegin(t)
          /\ Move("EXECUTING", "ACTION_EXECUTION_STARTED")
          /\ \E authorized \in BOOLEAN :
                Gateway!Execute(t, Proposal, Proposal, Key, authorized)
          /\ request' = [request EXCEPT ![t].at = "gateway", ![t].version = run.version + 1]
          /\ UNCHANGED active
       \/ /\ ~CanBegin(t)
          /\ Flush(t, request[t].unsaved)
          /\ active' = FALSE
          /\ UNCHANGED <<gateway, business>>
    /\ UNCHANGED <<checkpoint, clock>>

GatewayStep(t) ==
    /\ At(t, "gateway")
    /\ \/ Gateway!CheckApproval(t) \/ Gateway!CheckVersion(t) \/ Gateway!CheckState(t)
       \/ Gateway!Reserve(t) \/ Gateway!Start(t) \/ Gateway!Send(t)
       \/ Gateway!Receive(t) \/ Gateway!Verify(t) \/ Gateway!Finalize(t)
       \/ Gateway!Finish(t) \/ Gateway!StepFails(t)
    /\ UNCHANGED <<business, checkpoint, clock, active, request>>

\* Mutant: a write that timed out counts as failed.
TargetStateTimeoutFails(r) ==
    CASE r \in {"SUCCEEDED", "REPLAYED", "ALREADY_SATISFIED"} -> "COMPLETED"
      [] r \in {"TOOL_FAILED", "RESULT_UNKNOWN"}              -> "FAILED"
      [] OTHER                                                -> "WAITING_HUMAN"

\* _TARGET_BY_OUTCOME and the exceptions caught around the gateway call.
TargetState(r) ==
    CASE r \in {"SUCCEEDED", "REPLAYED", "ALREADY_SATISFIED"} -> "COMPLETED"
      [] r = "TOOL_FAILED"                                    -> "FAILED"
      [] OTHER                                                -> "WAITING_HUMAN"

EventOf(r) == IF r = "DENIED" THEN "ACTION_PRECONDITION_REQUIRES_HUMAN"
                              ELSE "ACTION_" \o r

\* _finish: the outcome becomes the state of the run; an exception that is not
\* caught leaves the run EXECUTING.  Either way the claim is given up next.
Finish(t) ==
    /\ At(t, "gateway")
    /\ pc[t] = "returned"
    /\ \/ /\ result[t] # "ERROR"
          /\ CanMove(request[t].version, TargetState(result[t]))
          /\ Move(TargetState(result[t]), EventOf(result[t]))
          /\ request' = [request EXCEPT ![t].at = "release", ![t].version = 0]
       \/ /\ result[t] = "ERROR" \/ ~CanMove(request[t].version, TargetState(result[t]))
          /\ request' = [request EXCEPT ![t].at = "release", ![t].version = 0, ![t].ok = FALSE]
          /\ UNCHANGED business
    /\ Gateway!Return(t)
    /\ UNCHANGED <<checkpoint, clock, active>>

\* The claim is released; the node returns, or raises.
Release(t) ==
    /\ At(t, "release")
    /\ active' = FALSE
    /\ IF request[t].ok THEN StopAt(t, "end") ELSE Raise(t)
    /\ UNCHANGED <<gateway, business, checkpoint>>

\* The background writer saves checkpoints in the order they were created; the
\* latest by id is the one a later read returns.
Save(t) ==
    /\ request[t].unsaved # <<>>
    /\ LET c == Head(request[t].unsaved)
       IN checkpoint' = IF c.id > checkpoint.id THEN c ELSE checkpoint
    /\ request' = [request EXCEPT ![t].unsaved = Tail(@)]
    /\ UNCHANGED <<gateway, business, clock, active>>

\* A graph run returns only when its checkpoints are saved.
Leave(t) ==
    /\ At(t, "flush") /\ request[t].unsaved = <<>>
    /\ Reply(t)
    /\ UNCHANGED <<gateway, business, checkpoint, clock, active>>

\* A read or a transaction fails: nothing of it is committed.
StepFails(t) ==
    /\ request[t].at \in {"checkpoint", "decide", "node", "interrupt", "begin"}
    /\ Raise(t)
    /\ active' = (active /\ ~At(t, "begin"))
    /\ UNCHANGED <<gateway, business, checkpoint>>

\* The transaction of _finish fails.
FinishFails(t) ==
    /\ At(t, "gateway")
    /\ pc[t] = "returned"
    /\ request' = [request EXCEPT ![t].at = "release", ![t].version = 0, ![t].ok = FALSE]
    /\ Gateway!Return(t)
    /\ UNCHANGED <<business, checkpoint, clock, active>>

-----------------------------------------------------------------------------
(* Around the handlers                                                     *)

\* HumanReviewService.decide: a note, or a conclusion; success may only be
\* confirmed over an execution record that is uncertain.
HumanReview(outcome) ==
    /\ run.state = "WAITING_HUMAN"
    /\ run.version < MaxVersion
    /\ outcome = "COMPLETED" =>
            exec[Key] \in {"EXECUTING", "RESULT_UNKNOWN", "VERIFICATION_FAILED"}
    /\ IF outcome = "WAITING_HUMAN"
       THEN Move("WAITING_HUMAN", "HUMAN_REVIEW_NOTE_RECORDED")
       ELSE Move(outcome, "HUMAN_REVIEW_CONCLUDED")
    /\ UNCHANGED <<gateway, checkpoint, clock, active, request>>

\* The backend process dies and a new one starts: handlers, unsaved checkpoints
\* and the registry are gone.
Crash ==
    /\ \E t \in Threads : ~At(t, "idle")
    /\ request' = [t \in Threads |-> Idle]
    /\ active' = FALSE
    /\ pc' = [t \in Threads |-> "idle"]
    /\ call' = [t \in Threads |-> None]
    /\ result' = [t \in Threads |-> None]
    /\ UNCHANGED <<latest, approval, idem, exec, wire, reply, granted, held, external,
                   eligible, sends, business, checkpoint, clock>>

Enterprise ==
    /\ \/ \E m \in Gateway!Requests : Gateway!Handle(m) \/ Gateway!Commit(m) \/ Gateway!Lose(m)
       \/ Gateway!Deactivate(Target) \/ Gateway!Revoke(Target)
    /\ UNCHANGED <<business, checkpoint, clock, active, request>>

Handler(t) ==
    \/ Start(t)
    \/ \E o \in Orders : DecideAndResume(t, o)
    \/ ReadCheckpoint(t) \/ CheckActive(t) \/ DecideTask(t)
    \/ ResumeGraph(t) \/ EnterExecute(t) \/ RequireInactive(t) \/ Interrupt(t)
    \/ Claim(t) \/ Begin(t) \/ GatewayStep(t) \/ Finish(t) \/ Release(t)
    \/ Save(t) \/ Leave(t) \/ StepFails(t) \/ FinishFails(t)

Next ==
    \/ \E t \in Threads : Handler(t)
    \/ \E o \in {"COMPLETED", "FAILED", "CANCELLED", "WAITING_HUMAN"} : HumanReview(o)
    \/ Crash
    \/ Enterprise

Spec == Init /\ [][Next]_vars

-----------------------------------------------------------------------------
(* Properties                                                              *)

Quiet == \A t \in Threads : At(t, "idle")

\* No one - a second approval request, a recovery, a reviewer - takes the run
\* out of EXECUTING while some handler is still inside the gateway with its
\* write: what looks interrupted really is.
InFlightIsExecuting == \A t \in Threads : pc[t] # "idle" => run.state = "EXECUTING"

\* However often a decision is repeated, resumed after a crash or raced, and
\* however stale the checkpoint it resumes from, the run is executed once.
ExecutesOnce == starts <= 1 /\ sends[Key] <= starts

\* What the machine concludes on its own is the truth about the enterprise
\* system: COMPLETED means the access has been there, FAILED that this request never
\* granted it and no longer can.
VerdictIsHonest ==
    event \notin {"APPROVAL_REJECTED", "HUMAN_REVIEW_CONCLUDED"} =>
        /\ run.state = "COMPLETED" => Target \in held
        /\ run.state = "FAILED" => external[Key] = None /\ wire = {}

\* A run left EXECUTING by a crash or an exception is never out of reach: its
\* checkpoint still leads a repeated approval to the recovery.
InterruptionIsRecoverable ==
    Quiet /\ run.state = "EXECUTING" =>
        /\ checkpoint.node \in {"await", "execute"}
        /\ approval[Proposal] = "APPROVED"
        /\ ~active

\* Decisions, executions, recoveries and reviewers together only ever move the
\* run along the lifecycle, one version at a time.
RunFollowsLifecycle == [][run.state = "CREATED" \/ Lifecycle!Next]_run

\* Inside the workflow the gateway behaves as ActionGateway specifies it, so
\* what is proved there holds here.
UsesGateway == Gateway!Spec

\* What the event of an interrupted execution says, "execution_result_not_
\* durable": no result of the write has been stored.
InterruptedMeansNoResult ==
    event = "ACTION_EXECUTION_INTERRUPTED_REQUIRES_HUMAN" =>
        ~(Gateway!IsFinal(Key) /\ idem[Key].status \in {"SUCCEEDED", "FAILED"})

\* "Recover the crash window after MySQL commit but before graph resume": an
\* approved run nobody is working on can be resumed from its checkpoint.
ApprovedRunIsResumable ==
    Quiet /\ run.state \in {"RUNNING", "EXECUTING"} =>
        \/ checkpoint.node = "await"
        \/ checkpoint.node = "execute" /\ run.state = "EXECUTING"
================================================================================
