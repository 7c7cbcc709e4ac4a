------------------------- MODULE ApprovalSequenceProofs -------------------------
(***************************************************************************)
(* Proofs about ApprovalSequence for any number of stages and handlers.    *)
(* The inductive invariant adds one fact to the properties: a handler      *)
(* whose snapshot has the run's present version has read the present rows, *)
(* because every decision takes a version.  The version check therefore    *)
(* decides every race.                                                     *)
(***************************************************************************)
EXTENDS ApprovalSequence, TLAPS

Present == [stages |-> stages, sequence |-> sequence, plan |-> plan, run |-> run]

SnapshotInv ==
    \A d \in Deciders : txn[d] # None =>
        /\ txn[d].read.run.version <= run.version
        /\ txn[d].read.run.version = run.version => txn[d].read = Present

IInv == TypeOK /\ StatusInvariants /\ RouteRunAndPlanAgree /\ SnapshotInv

LEMMA InitEstablishesIInv == Init => IInv
  <1> SUFFICES ASSUME Init PROVE IInv
    OBVIOUS
  <1>1. TypeOK
    BY StagesAssumption DEF Init, TypeOK, StageStatuses, Sequences, PlanStatuses, Runs
  <1>2. StatusInvariants
    BY StagesAssumption DEF Init, StatusInvariants, PendingRoute
  <1>3. RouteRunAndPlanAgree /\ SnapshotInv
    BY DEF Init, RouteRunAndPlanAgree, SnapshotInv
  <1> QED BY <1>1, <1>2, <1>3 DEF IInv

\* What a decision that goes through has in its hands.
LEMMA DecisionFacts ==
    ASSUME IInv, NEW d \in Deciders, NEW decision \in {"APPROVE", "REJECT"},
           Accepted(d, decision), Current(d)
    PROVE  /\ txn[d] \in Transactions /\ txn[d].stage \in 1..Stages
           /\ run.state = "WAITING_APPROVAL" /\ plan = "PENDING_APPROVAL"
           /\ sequence = [status |-> "PENDING", current |-> txn[d].stage]
           /\ PendingRoute
  <1>1. txn[d] \in Transactions
    BY DEF IInv, TypeOK, Accepted
  <1>2. sequence = [status |-> "PENDING", current |-> txn[d].stage] /\ PendingRoute
    BY DEF Current, IInv, StatusInvariants
  <1>3. run.state = "WAITING_APPROVAL" /\ plan = "PENDING_APPROVAL"
    BY <1>2 DEF IInv, RouteRunAndPlanAgree
  <1> QED BY <1>1, <1>2, <1>3 DEF Transactions

\* A committed decision takes a version, which makes every open snapshot stale.
LEMMA VersionOutdatesSnapshots ==
    ASSUME IInv, NEW d \in Deciders, txn' = [txn EXCEPT ![d] = None],
           run'.version = run.version + 1
    PROVE  SnapshotInv'
  <1>1. run.version \in Nat
    BY DEF IInv, TypeOK, Runs
  <1> SUFFICES ASSUME NEW e \in Deciders, txn'[e] # None
               PROVE  /\ txn'[e].read.run.version <= run'.version
                      /\ txn'[e].read.run.version # run'.version
    BY DEF SnapshotInv
  <1>2. txn'[e] = txn[e] /\ txn[e] # None /\ txn[e] \in Transactions
    BY DEF IInv, TypeOK
  <1>3. txn[e].read.run.version \in Nat
    BY <1>2 DEF Transactions, Snapshots, Runs
  <1>4. txn[e].read.run.version <= run.version
    BY <1>2 DEF IInv, SnapshotInv
  <1> QED BY <1>1, <1>2, <1>3, <1>4

LEMMA ReadKeepsIInv ==
    ASSUME IInv, NEW d \in Deciders, NEW s \in 1..Stages,
           NEW decision \in {"APPROVE", "REJECT"}, Read(d, s, decision)
    PROVE  IInv'
  <1>1. TypeOK'
    BY DEF IInv, TypeOK, Read, durable, Transactions, Snapshots
  <1>2. StatusInvariants' /\ RouteRunAndPlanAgree'
    BY DEF IInv, Read, durable, StatusInvariants, RouteRunAndPlanAgree,
           PendingRoute, ApprovedRoute, RejectedRoute
  <1>3. SnapshotInv'
    BY DEF IInv, TypeOK, Runs, Read, durable, SnapshotInv, Present
  <1> QED BY <1>1, <1>2, <1>3 DEF IInv

LEMMA RollbackKeepsIInv ==
    ASSUME IInv, NEW d \in Deciders, Rollback(d)
    PROVE  IInv'
  <1>1. TypeOK'
    BY DEF IInv, TypeOK, Rollback, Close, durable
  <1>2. StatusInvariants' /\ RouteRunAndPlanAgree'
    BY DEF IInv, Rollback, durable, StatusInvariants, RouteRunAndPlanAgree,
           PendingRoute, ApprovedRoute, RejectedRoute
  <1>3. SnapshotInv'
    BY DEF IInv, TypeOK, Rollback, Close, durable, SnapshotInv, Present
  <1> QED BY <1>1, <1>2, <1>3 DEF IInv

LEMMA ApproveStageKeepsIInv ==
    ASSUME IInv, NEW d \in Deciders, ApproveStage(d)
    PROVE  IInv'
  <1> DEFINE s == txn[d].stage
  <1>1. /\ s \in 1..Stages /\ s + 1 \in 1..Stages
        /\ run.state = "WAITING_APPROVAL" /\ plan = "PENDING_APPROVAL"
        /\ sequence = [status |-> "PENDING", current |-> s] /\ PendingRoute
    BY DecisionFacts, StagesAssumption DEF ApproveStage
  <1>2. /\ stages' = [stages EXCEPT ![s] = "APPROVED", ![s + 1] = "PENDING"]
        /\ sequence' = [status |-> "PENDING", current |-> s + 1]
        /\ run' = [run EXCEPT !.version = @ + 1] /\ plan' = plan
        /\ txn' = [txn EXCEPT ![d] = None]
    BY <1>1 DEF ApproveStage, Close
  <1>3. TypeOK'
    BY <1>1, <1>2 DEF IInv, TypeOK, StageStatuses, Sequences, Runs
  <1>4. StatusInvariants'
    <2>1. \A i \in 1..Stages :
            stages'[i] = IF i < s + 1 THEN "APPROVED"
                         ELSE IF i = s + 1 THEN "PENDING" ELSE "QUEUED"
      BY <1>1, <1>2, StagesAssumption DEF IInv, TypeOK, PendingRoute
    <2> QED BY <1>1, <1>2, <2>1 DEF StatusInvariants, PendingRoute
  <1>5. RouteRunAndPlanAgree'
    BY <1>1, <1>2 DEF IInv, TypeOK, Runs, RouteRunAndPlanAgree
  <1>6. run'.version = run.version + 1
    BY <1>2 DEF IInv, TypeOK, Runs
  <1>7. SnapshotInv'
    BY <1>2, <1>6, VersionOutdatesSnapshots
  <1> QED BY <1>3, <1>4, <1>5, <1>7 DEF IInv

LEMMA ApproveLastKeepsIInv ==
    ASSUME IInv, NEW d \in Deciders, ApproveLast(d)
    PROVE  IInv'
  <1>1. /\ txn[d].stage = Stages /\ Stages \in 1..Stages
        /\ sequence = [status |-> "PENDING", current |-> Stages] /\ PendingRoute
    BY DecisionFacts DEF ApproveLast
  <1>2. /\ stages' = [stages EXCEPT ![Stages] = "APPROVED"]
        /\ sequence' = [status |-> "APPROVED", current |-> None]
        /\ plan' = "APPROVED"
        /\ run' = [state |-> "RUNNING", version |-> run.version + 1]
        /\ txn' = [txn EXCEPT ![d] = None]
    BY DEF ApproveLast, FinishRoute, Close
  <1>3. TypeOK'
    BY <1>1, <1>2 DEF IInv, TypeOK, StageStatuses, Sequences, PlanStatuses, Runs
  <1>4. StatusInvariants'
    <2>1. \A i \in 1..Stages : stages'[i] = "APPROVED"
      BY <1>1, <1>2, StagesAssumption DEF IInv, TypeOK, PendingRoute
    <2> QED BY <1>2, <2>1 DEF StatusInvariants, ApprovedRoute
  <1>5. RouteRunAndPlanAgree'
    BY <1>2 DEF RouteRunAndPlanAgree
  <1>6. SnapshotInv'
    BY <1>2, VersionOutdatesSnapshots
  <1> QED BY <1>3, <1>4, <1>5, <1>6 DEF IInv

LEMMA RejectKeepsIInv ==
    ASSUME IInv, NEW d \in Deciders, Reject(d)
    PROVE  IInv'
  <1> DEFINE s == txn[d].stage
  <1>1. s \in 1..Stages /\ sequence = [status |-> "PENDING", current |-> s] /\ PendingRoute
    BY DecisionFacts DEF Reject
  <1>2. /\ stages' = CancelLater(s)
        /\ sequence' = [status |-> "REJECTED", current |-> None]
        /\ plan' = "CANCELLED"
        /\ run' = [state |-> "COMPLETED", version |-> run.version + 1]
        /\ txn' = [txn EXCEPT ![d] = None]
    BY DEF Reject, FinishRoute, Close
  <1>3. TypeOK'
    BY <1>1, <1>2 DEF IInv, TypeOK, StageStatuses, Sequences, PlanStatuses, Runs, CancelLater
  <1>4. StatusInvariants'
    <2>1. \A i \in 1..Stages :
            stages'[i] = IF i < s THEN "APPROVED"
                         ELSE IF i = s THEN "REJECTED" ELSE "CANCELLED"
      BY <1>1, <1>2 DEF CancelLater, PendingRoute
    <2> QED BY <1>1, <1>2, <2>1 DEF StatusInvariants, RejectedRoute
  <1>5. RouteRunAndPlanAgree'
    BY <1>2 DEF RouteRunAndPlanAgree
  <1>6. SnapshotInv'
    BY <1>2, VersionOutdatesSnapshots
  <1> QED BY <1>3, <1>4, <1>5, <1>6 DEF IInv

LEMMA StutterKeepsIInv == IInv /\ UNCHANGED vars => IInv'
  BY DEF vars, durable, IInv, TypeOK, StatusInvariants, PendingRoute, ApprovedRoute,
         RejectedRoute, RouteRunAndPlanAgree, SnapshotInv, Present

LEMMA NextPreservesIInv == IInv /\ [Next]_vars => IInv'
  BY ReadKeepsIInv, RollbackKeepsIInv, ApproveStageKeepsIInv, ApproveLastKeepsIInv,
     RejectKeepsIInv, StutterKeepsIInv DEF Next

LEMMA Invariance == Spec => []IInv
  BY InitEstablishesIInv, NextPreservesIInv, PTL DEF Spec

\* Every variable keeps its type, for any number of stages and handlers.
THEOREM TypeCorrect == Spec => []TypeOK
  <1>1. IInv => TypeOK
    BY DEF IInv
  <1> QED BY <1>1, Invariance, PTL

\* _require_status_invariants never finds a route inconsistent.
THEOREM RouteStaysConsistent == Spec => []StatusInvariants
  <1>1. IInv => StatusInvariants
    BY DEF IInv
  <1> QED BY <1>1, Invariance, PTL

\* The route, the plan and the run always end together.
THEOREM RouteRunAndPlanEndTogether == Spec => []RouteRunAndPlanAgree
  <1>1. IInv => RouteRunAndPlanAgree
    BY DEF IInv
  <1> QED BY <1>1, Invariance, PTL

\* How each decision changes the stages and the route.
LEMMA StageEffects ==
    ASSUME IInv, [Next]_vars
    PROVE  \/ UNCHANGED <<stages, sequence>>
           \/ \E s \in 1..Stages :
                /\ PendingRoute /\ sequence.current = s /\ sequence.status = "PENDING"
                /\ stages[s] = "PENDING"
                /\ \/ /\ s < Stages
                      /\ stages' = [stages EXCEPT ![s] = "APPROVED", ![s + 1] = "PENDING"]
                      /\ sequence'.status = "PENDING"
                   \/ /\ s = Stages
                      /\ stages' = [stages EXCEPT ![s] = "APPROVED"]
                      /\ sequence'.status = "APPROVED"
                   \/ stages' = CancelLater(s) /\ sequence'.status = "REJECTED"
  <1>1. ASSUME NEW d \in Deciders, ApproveStage(d)
        PROVE  \E s \in 1..Stages :
                /\ PendingRoute /\ sequence.current = s /\ sequence.status = "PENDING"
                /\ stages[s] = "PENDING" /\ s < Stages
                /\ stages' = [stages EXCEPT ![s] = "APPROVED", ![s + 1] = "PENDING"]
                /\ sequence'.status = "PENDING"
    BY <1>1, DecisionFacts DEF ApproveStage, Current
  <1>2. ASSUME NEW d \in Deciders, ApproveLast(d)
        PROVE  \E s \in 1..Stages :
                /\ PendingRoute /\ sequence.current = s /\ sequence.status = "PENDING"
                /\ stages[s] = "PENDING" /\ s = Stages
                /\ stages' = [stages EXCEPT ![s] = "APPROVED"]
                /\ sequence'.status = "APPROVED"
    BY <1>2, DecisionFacts DEF ApproveLast, Current, FinishRoute
  <1>3. ASSUME NEW d \in Deciders, Reject(d)
        PROVE  \E s \in 1..Stages :
                /\ PendingRoute /\ sequence.current = s /\ sequence.status = "PENDING"
                /\ stages[s] = "PENDING"
                /\ stages' = CancelLater(s) /\ sequence'.status = "REJECTED"
    BY <1>3, DecisionFacts DEF Reject, Current, FinishRoute
  <1>4. \/ \E d \in Deciders : ApproveStage(d) \/ ApproveLast(d) \/ Reject(d)
        \/ UNCHANGED <<stages, sequence>>
    BY DEF Next, Read, Rollback, durable, vars
  <1> QED BY <1>1, <1>2, <1>3, <1>4

\* A committed decision is never turned, whoever races it.
THEOREM DecisionsAlwaysStand == Spec => DecisionsStand
  <1>1. IInv /\ [Next]_vars =>
          [\A s \in 1..Stages :
              stages[s] \in {"APPROVED", "REJECTED", "CANCELLED"}
                => stages'[s] = stages[s]]_stages
    <2> SUFFICES ASSUME IInv, [Next]_vars, NEW i \in 1..Stages,
                        stages[i] \in {"APPROVED", "REJECTED", "CANCELLED"}
                 PROVE  stages'[i] = stages[i]
      OBVIOUS
    <2>1. CASE UNCHANGED <<stages, sequence>>
      BY <2>1
    <2>2. CASE ~UNCHANGED <<stages, sequence>>
      <3>1. PICK s \in 1..Stages :
                /\ PendingRoute /\ sequence.current = s /\ stages[s] = "PENDING"
                /\ \/ /\ s < Stages
                      /\ stages' = [stages EXCEPT ![s] = "APPROVED", ![s + 1] = "PENDING"]
                   \/ stages' = [stages EXCEPT ![s] = "APPROVED"]
                   \/ stages' = CancelLater(s)
        BY <2>2, StageEffects
      <3>2. i # s /\ i < s
        BY <3>1 DEF PendingRoute
      <3> QED BY <3>1, <3>2, StagesAssumption DEF CancelLater, IInv, TypeOK
    <2> QED BY <2>1, <2>2
  <1> QED BY <1>1, Invariance, PTL DEF Spec, DecisionsStand

\* The transactions of the repository implement the serial route.
THEOREM RefinesSerialRoute == Spec => ImplementsSerialRoute
  <1> DEFINE Approved == {s \in 1..Stages : stages[s] = "APPROVED"}
  <1>1. Init => Route!Init
    <2> SUFFICES ASSUME Init PROVE Route!Init
      OBVIOUS
    <2>1. \A s \in 1..Stages : stages[s] # "APPROVED"
      BY DEF Init
    <2> QED BY <2>1 DEF Init, Route!Init
  <1>2. IInv /\ [Next]_vars => [Route!Next]_<<Approved, sequence.status>>
    <2> SUFFICES ASSUME IInv, [Next]_vars, ~UNCHANGED <<stages, sequence>>
                 PROVE  Route!Next
      BY DEF IInv
    <2>1. PICK s \in 1..Stages :
            /\ PendingRoute /\ sequence.current = s /\ sequence.status = "PENDING"
            /\ stages[s] = "PENDING"
            /\ \/ /\ s < Stages
                  /\ stages' = [stages EXCEPT ![s] = "APPROVED", ![s + 1] = "PENDING"]
                  /\ sequence'.status = "PENDING"
               \/ /\ s = Stages
                  /\ stages' = [stages EXCEPT ![s] = "APPROVED"]
                  /\ sequence'.status = "APPROVED"
               \/ stages' = CancelLater(s) /\ sequence'.status = "REJECTED"
      BY StageEffects
    <2>2. Approved = 1..(s - 1) /\ stages \in [1..Stages -> StageStatuses]
      BY <2>1, StagesAssumption DEF PendingRoute, IInv, TypeOK
    <2>3. CASE stages' = CancelLater(s) /\ sequence'.status = "REJECTED"
      <3>1. Approved' = Approved
        BY <2>1, <2>2, <2>3 DEF CancelLater, PendingRoute
      <3> QED BY <2>1, <2>3, <3>1 DEF Route!Next, Route!Reject
    <2>4. CASE /\ s < Stages
               /\ stages' = [stages EXCEPT ![s] = "APPROVED", ![s + 1] = "PENDING"]
               /\ sequence'.status = "PENDING"
      <3>1. Approved' = 1..s
        BY <2>1, <2>2, <2>4, StagesAssumption DEF PendingRoute
      <3>2. Route!Approve(s)
        BY <2>1, <2>2, <2>4, <3>1 DEF Route!Approve
      <3> QED BY <3>2 DEF Route!Next
    <2>5. CASE /\ s = Stages
               /\ stages' = [stages EXCEPT ![s] = "APPROVED"]
               /\ sequence'.status = "APPROVED"
      <3>1. Approved' = 1..s
        BY <2>1, <2>2, <2>5, StagesAssumption DEF PendingRoute
      <3>2. Route!Approve(s)
        BY <2>1, <2>2, <2>5, <3>1 DEF Route!Approve
      <3> QED BY <3>2 DEF Route!Next
    <2> QED BY <2>1, <2>3, <2>4, <2>5
  <1> QED BY <1>1, <1>2, Invariance, PTL DEF Spec, ImplementsSerialRoute, Route!Spec
================================================================================
