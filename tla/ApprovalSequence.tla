---------------------------- MODULE ApprovalSequence ----------------------------
(***************************************************************************)
(* The serial approval route of backend/app/approval/sequences.py and the  *)
(* transaction sequence_checkpoint.py wraps around it: one decision moves  *)
(* the stage, its successors, the route, the action plan and the workflow  *)
(* run together.  Every decision is a database transaction that checks the *)
(* snapshot it has read and then sends updates, most of them conditional,  *)
(* to rows that others may have changed since.                             *)
(***************************************************************************)
EXTENDS Naturals

CONSTANTS Stages,     \* number of stages of the route
          Deciders,   \* request handlers with a transaction of their own
          None

ASSUME StagesAssumption == Stages \in Nat /\ Stages >= 1

VARIABLES stages,    \* ApprovalTask.status by stage_order
          sequence,  \* ApprovalSequence: status and current_stage_order
          plan,      \* ActionPlanRecord.status
          run,       \* WorkflowRun: state and version
          txn        \* per handler: its request and what it has read

durable == <<stages, sequence, plan, run>>
vars == <<durable, txn>>

StageStatuses == {"QUEUED", "PENDING", "APPROVED", "REJECTED", "CANCELLED"}
Sequences == [status : {"PENDING", "APPROVED", "REJECTED"}, current : (1..Stages) \cup {None}]
PlanStatuses == {"PENDING_APPROVAL", "APPROVED", "CANCELLED"}
Runs == [state : {"WAITING_APPROVAL", "RUNNING", "COMPLETED"}, version : Nat]
Snapshots == [stages : [1..Stages -> StageStatuses], sequence : Sequences,
              plan : PlanStatuses, run : Runs]
Transactions == [stage : 1..Stages, decision : {"APPROVE", "REJECT"}, read : Snapshots]

ASSUME NoneAssumption == None \notin 1..Stages /\ None \notin Transactions

TypeOK ==
    /\ stages \in [1..Stages -> StageStatuses]
    /\ sequence \in Sequences
    /\ plan \in PlanStatuses
    /\ run \in Runs
    /\ txn \in [Deciders -> Transactions \cup {None}]

\* create_for_plan, and the run taken to WAITING_APPROVAL in the same
\* transaction: only the first stage is visible.
Init ==
    /\ stages = [s \in 1..Stages |-> IF s = 1 THEN "PENDING" ELSE "QUEUED"]
    /\ sequence = [status |-> "PENDING", current |-> 1]
    /\ plan = "PENDING_APPROVAL"
    /\ run = [state |-> "WAITING_APPROVAL", version |-> 2]
    /\ txn = [d \in Deciders |-> None]

-----------------------------------------------------------------------------
\* A handler's transaction takes its snapshot; a request whose expected version
\* is not the version read is refused, so the two are one here.
Read(d, s, decision) ==
    /\ txn[d] = None
    /\ txn' = [txn EXCEPT ![d] =
            [stage |-> s, decision |-> decision,
             read |-> [stages |-> stages, sequence |-> sequence,
                       plan |-> plan, run |-> run]]]
    /\ UNCHANGED durable

\* What decide_and_resume and decide check on the snapshot.
Accepted(d, decision) ==
    /\ txn[d] # None /\ txn[d].decision = decision
    /\ txn[d].read.run.state = "WAITING_APPROVAL"
    /\ txn[d].read.stages[txn[d].stage] = "PENDING"
    /\ txn[d].read.sequence = [status |-> "PENDING", current |-> txn[d].stage]

\* The conditional updates of the task, the sequence and the run each change
\* one row.
Current(d) ==
    /\ stages[txn[d].stage] = "PENDING"
    /\ sequence = [status |-> "PENDING", current |-> txn[d].stage]
    /\ run.version = txn[d].read.run.version

Close(d) == txn' = [txn EXCEPT ![d] = None]

\* A stage that is not the last one: its successor becomes visible and the run
\* records progress.
ApproveStage(d) ==
    /\ Accepted(d, "APPROVE") /\ Current(d)
    /\ LET s == txn[d].stage
       IN /\ s < Stages
          /\ stages[s + 1] = "QUEUED"
          /\ stages' = [stages EXCEPT ![s] = "APPROVED", ![s + 1] = "PENDING"]
          /\ sequence' = [sequence EXCEPT !.current = s + 1]
    /\ run' = [run EXCEPT !.version = @ + 1]
    /\ UNCHANGED plan
    /\ Close(d)

\* Mutant: the route is finished but the plan is left waiting.
FinishRouteOnly(d, status, planStatus, state) ==
    /\ sequence' = [status |-> status, current |-> None]
    /\ run' = [state |-> state, version |-> run.version + 1]
    /\ UNCHANGED plan

\* _finish_approved, _finish_rejected: the route ends, and with it the plan's
\* and the run's wait; the plan must have been read PENDING_APPROVAL.
FinishRoute(d, status, planStatus, state) ==
    /\ txn[d].read.plan = "PENDING_APPROVAL"
    /\ sequence' = [status |-> status, current |-> None]
    /\ plan' = planStatus
    /\ run' = [state |-> state, version |-> run.version + 1]

ApproveLast(d) ==
    /\ Accepted(d, "APPROVE") /\ Current(d)
    /\ txn[d].stage = Stages
    /\ stages' = [stages EXCEPT ![Stages] = "APPROVED"]
    /\ FinishRoute(d, "APPROVED", "APPROVED", "RUNNING")
    /\ Close(d)

\* Mutant: later stages are left as they are.
CancelNone(s) == [stages EXCEPT ![s] = "REJECTED"]

\* Mutant: every other stage is cancelled.
CancelOthers(s) == [i \in 1..Stages |-> IF i = s THEN "REJECTED" ELSE "CANCELLED"]

\* The stage is refused and the stages still queued behind it are cancelled.
CancelLater(s) ==
    [i \in 1..Stages |->
        IF i = s THEN "REJECTED"
        ELSE IF i > s /\ stages[i] = "QUEUED" THEN "CANCELLED" ELSE stages[i]]

Reject(d) ==
    /\ Accepted(d, "REJECT") /\ Current(d)
    /\ stages' = CancelLater(txn[d].stage)
    /\ FinishRoute(d, "REJECTED", "CANCELLED", "COMPLETED")
    /\ Close(d)

\* A check fails, an update finds its row changed, or the handler dies: the
\* transaction leaves nothing behind.
Rollback(d) ==
    /\ txn[d] # None
    /\ Close(d)
    /\ UNCHANGED durable

Next ==
    \E d \in Deciders :
        \/ \E s \in 1..Stages, decision \in {"APPROVE", "REJECT"} : Read(d, s, decision)
        \/ ApproveStage(d) \/ ApproveLast(d) \/ Reject(d) \/ Rollback(d)

Spec == Init /\ [][Next]_vars

-----------------------------------------------------------------------------
(* Properties                                                              *)

PendingRoute ==
    /\ sequence.current \in 1..Stages
    /\ \A s \in 1..Stages :
        stages[s] = IF s < sequence.current THEN "APPROVED"
                    ELSE IF s = sequence.current THEN "PENDING" ELSE "QUEUED"

ApprovedRoute ==
    /\ sequence.current = None
    /\ \A s \in 1..Stages : stages[s] = "APPROVED"

RejectedRoute ==
    /\ sequence.current = None
    /\ \E r \in 1..Stages : \A s \in 1..Stages :
        stages[s] = IF s < r THEN "APPROVED"
                    ELSE IF s = r THEN "REJECTED" ELSE "CANCELLED"

\* _require_status_invariants, which the code checks whenever it loads a route:
\* stages race, are refused half way or abandoned, and it never has to raise.
StatusInvariants ==
    /\ sequence.status = "PENDING" => PendingRoute
    /\ sequence.status = "APPROVED" => ApprovedRoute
    /\ sequence.status = "REJECTED" => RejectedRoute

\* The route, the plan and the run end together: no plan is executable and no
\* run RUNNING unless every stage has approved, and none is left waiting for a
\* route that has ended.
RouteRunAndPlanAgree ==
    <<sequence.status, plan, run.state>> \in
        {<<"PENDING", "PENDING_APPROVAL", "WAITING_APPROVAL">>,
         <<"APPROVED", "APPROVED", "RUNNING">>,
         <<"REJECTED", "CANCELLED", "COMPLETED">>}

\* A decision, once committed, stands: neither a racing nor a later handler
\* turns it.
DecisionsStand ==
    [][\A s \in 1..Stages :
        stages[s] \in {"APPROVED", "REJECTED", "CANCELLED"} => stages'[s] = stages[s]]_stages

\* To the rest of BizOrch it is the route of SerialRoute.
Route == INSTANCE SerialRoute WITH
    approved <- {s \in 1..Stages : stages[s] = "APPROVED"},
    verdict <- sequence.status

ImplementsSerialRoute == Route!Spec
================================================================================
