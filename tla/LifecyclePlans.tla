----------------------------- MODULE LifecyclePlans -----------------------------
(***************************************************************************)
(* The steps BizOrch sends to the enterprise system: the plan templates of *)
(* the employee lifecycle, what the latest-state checkers of the three     *)
(* scenarios read before a write is sent, and what their verifiers read    *)
(* after it.  Check, write and verification are separate requests, and     *)
(* others come in between.  All of them see the accesses that are in force *)
(* when they are read: t is that time.                                     *)
(***************************************************************************)
EXTENDS EnterpriseWrites, Sequences, TLC

\* The key of the gateway for the step of a plan.
StepKey(type, i) == <<type, i>>

\* The job of a step that names none.
AnyJob == CHOOSE j \in Jobs : TRUE

\* A command without content.
Command(op) ==
    [op |-> op, key |-> None, job |-> AnyJob, bindings |-> {}, tasks |-> {}, version |-> 0,
     accountVersion |-> None, request |-> None, days |-> 0, requester |-> None, item |-> 0,
     amount |-> 0]

\* _sequential_steps: each step depends on the one before it, and its key names
\* its place.
SequentialSteps(type, definitions) ==
    [i \in DOMAIN definitions |-> [definitions[i] EXCEPT !.key = StepKey(type, i)]]

\* The versions of the new employee and account are those their creation gives.
OnboardingDefinitions(job) ==
    <<[Command("create_pending_employee") EXCEPT !.job = job],
      Command("create_disabled_corporate_account"),
      [Command("assign_baseline_access_package") EXCEPT !.job = job,
          !.bindings = Package[job]],
      [Command("create_asset_assignment_task") EXCEPT !.job = job],
      [Command("activate_employee_and_account") EXCEPT !.version = 1,
          !.accountVersion = 1]>>

OnboardingSteps(job) == SequentialSteps("ONBOARDING", OnboardingDefinitions(job))

\* Mutant: the access that the target job keeps is revoked too.
TransferRevokesAll(d, t, job) ==
    <<[Command("update_employee_assignment") EXCEPT !.job = job,
          !.version = d.employee.version],
      [Command("revoke_obsolete_baseline_access") EXCEPT !.bindings = InForce(d, t)],
      [Command("grant_target_baseline_access") EXCEPT !.job = job,
          !.bindings = Package[job] \ InForce(d, t)],
      [Command("create_asset_adjustment_task") EXCEPT !.job = job],
      [Command("verify_employee_transfer_consistency") EXCEPT !.job = job]>>

\* d is the profile the plan is built on at the time t: only the difference between
\* the accesses in force then and the package of the job is changed.
TransferDefinitions(d, t, job) ==
    <<[Command("update_employee_assignment") EXCEPT !.job = job,
          !.version = d.employee.version],
      [Command("revoke_obsolete_baseline_access") EXCEPT
          !.bindings = InForce(d, t) \ Package[job]],
      [Command("grant_target_baseline_access") EXCEPT !.job = job,
          !.bindings = Package[job] \ InForce(d, t)],
      [Command("create_asset_adjustment_task") EXCEPT !.job = job],
      [Command("verify_employee_transfer_consistency") EXCEPT !.job = job]>>

TransferSteps(d, t, job) == SequentialSteps("TRANSFER", TransferDefinitions(d, t, job))

AccountVersion(d) == IF d.account.status = "NONE" THEN None ELSE d.account.version

OffboardingDefinitions(d, t) ==
    <<[Command("disable_corporate_account") EXCEPT !.accountVersion = AccountVersion(d)],
      [Command("revoke_all_employee_access") EXCEPT !.bindings = InForce(d, t)],
      [Command("create_asset_return_task") EXCEPT !.tasks = {task.key : task \in d.tasks}],
      [Command("mark_employee_inactive") EXCEPT !.version = d.employee.version],
      Command("verify_employee_offboarding_consistency")>>

OffboardingSteps(d, t) == SequentialSteps("OFFBOARDING", OffboardingDefinitions(d, t))

Steps(plan) == {plan[i] : i \in DOMAIN plan}

-----------------------------------------------------------------------------
(* What the gateway's latest-state check reads, by request type.           *)

TypeOf(c) == c.key[1]

\* The actions a request of each type is carried out by.
ActionsByRequestType ==
    [ONBOARDING |->
         {"create_pending_employee", "create_disabled_corporate_account",
          "assign_baseline_access_package", "create_asset_assignment_task",
          "activate_employee_and_account"},
     TRANSFER |->
         {"update_employee_assignment", "revoke_obsolete_baseline_access",
          "grant_target_baseline_access", "create_asset_adjustment_task",
          "verify_employee_transfer_consistency"},
     OFFBOARDING |->
         {"disable_corporate_account", "revoke_all_employee_access",
          "create_asset_return_task", "mark_employee_inactive",
          "verify_employee_offboarding_consistency"},
     ACCESS |-> {"grant_application_access"},
     PURCHASE |-> {"create_request_and_reserve_budget"},
     ORDER |-> {"create_maintenance_work_order"}]

\* An access request is created by other clients: no step of BizOrch does it.
ASSUME ActionsAssumption ==
    \A c \in Commands :
        /\ \A type \in DOMAIN ActionsByRequestType :
              TypeOf(c) = type => c.op \in ActionsByRequestType[type]
        /\ TypeOf(c) \notin DOMAIN ActionsByRequestType => c.op = "create_access_request"

\* One plan of each type is sent for the employee, built on the facts at first; an
\* employee who is unknown then is offboarded by a later plan.  No policy lets a job
\* without an active package pass, and the active ones have roles in them.
ASSUME PlansAssumption ==
    \A s \in Scenarios :
        /\ \E job \in Jobs : \A c \in s.offered :
              TypeOf(c) = "ONBOARDING" => c \in Steps(OnboardingSteps(job)) /\ Package[job] # {}
        /\ \E job \in Jobs : \A c \in s.offered :
              TypeOf(c) = "TRANSFER" => c \in Steps(TransferSteps(s.facts, 0, job))
        /\ \A c \in s.offered :
              TypeOf(c) = "OFFBOARDING" =>
                  /\ \E i \in 1..5 : c.key = StepKey("OFFBOARDING", i)
                  /\ \/ s.facts.employee.status = "NONE"
                     \/ c \in Steps(OffboardingSteps(s.facts, 0))

\* An offboarding is planned on tasks none of which is a return: while there is
\* one, another offboarding is open, or the employee is gone.
ASSUME ReturnsAssumption ==
    \A s \in Scenarios : \A c, d \in s.offered :
        c.op = "create_asset_return_task" /\ d.op = c.op => d.key \notin c.tasks

NoTask(d, type) == \A t \in d.tasks : t.type # type

OnboardingExecutable(c, d) ==
    /\ IF c.op = "create_pending_employee" THEN d.employee.status = "NONE" ELSE Pending(d)
    /\ c.op = "create_disabled_corporate_account" => d.account.status = "NONE"
    /\ c.op = "create_asset_assignment_task" => NoTask(d, "PROVISION")

ActivationExecutable(c, d, t) ==
    c.op = "activate_employee_and_account" =>
        /\ d.account = [status |-> "DISABLED", version |-> c.accountVersion]
        /\ d.employee.version = c.version
        /\ InForce(d, t) # {}
        /\ ~NoTask(d, "PROVISION")

TransferExecutable(c, d, t) ==
    /\ AtWork(d)
    /\ c.op = "update_employee_assignment" => d.employee.version = c.version
    /\ c.op = "revoke_obsolete_baseline_access" => c.bindings \subseteq InForce(d, t)
    /\ c.op = "grant_target_baseline_access" => c.bindings \subseteq Package[c.job]
    /\ c.op = "create_asset_adjustment_task" => NoTask(d, "ADJUST")

OffboardingExecutable(c, d, t) ==
    /\ IF c.op = "verify_employee_offboarding_consistency"
       THEN d.employee.status = "INACTIVE" ELSE AtWork(d)
    /\ c.op = "disable_corporate_account" => AccountVersion(d) = c.accountVersion
    /\ c.op = "revoke_all_employee_access" => InForce(d, t) = c.bindings
    /\ c.op = "create_asset_return_task" =>
          {task.key : task \in d.tasks} = c.tasks /\ NoTask(d, "RETURN")
    /\ c.op = "mark_employee_inactive" =>
          d.employee.version = c.version /\ d.account.status # "ACTIVE" /\ InForce(d, t) = {}

\* AccessLatestStateChecker
AccessExecutable(c, d, t) == AtWork(d) /\ c.bindings \cap InForce(d, t) = {}

\* Cost centre and policy as approved, and no similar purchase of the requester.
PurchaseExecutable(c, d) ==
    /\ d.center.version = c.version
    /\ Budget - d.center.reserved >= c.amount
    /\ \A p \in d.purchases : p.requester = c.requester => p.item # c.item

OrderExecutable(c, d) ==
    d.equipment.version = c.version /\ d.equipment.status \in {"RUNNING", "DEGRADED"}

Executable(c, d, t) ==
    CASE TypeOf(c) = "ONBOARDING"  -> OnboardingExecutable(c, d) /\ ActivationExecutable(c, d, t)
      [] TypeOf(c) = "TRANSFER"    -> TransferExecutable(c, d, t)
      [] TypeOf(c) = "OFFBOARDING" -> OffboardingExecutable(c, d, t)
      [] TypeOf(c) = "ACCESS"      -> AccessExecutable(c, d, t)
      [] TypeOf(c) = "PURCHASE"    -> PurchaseExecutable(c, d)
      [] TypeOf(c) = "ORDER"       -> OrderExecutable(c, d)
      [] OTHER                     -> TRUE

-----------------------------------------------------------------------------
(* What the gateway's verification reads after the write.                  *)

NoOpenRequest(d) == OpenRequests(d) = {}

OnboardingConfirmed(c, d, t) ==
    CASE c.op = "create_pending_employee" -> Pending(d) /\ d.employee.job = c.job
      [] c.op = "create_disabled_corporate_account" -> d.account.status = "DISABLED"
      [] c.op = "assign_baseline_access_package" -> InForce(d, t) = c.bindings
      [] c.op = "create_asset_assignment_task" ->
             \E task \in d.tasks : task.type = "PROVISION" /\ task.job = c.job
      [] c.op = "activate_employee_and_account" ->
             AtWork(d) /\ d.account.status = "ACTIVE" /\ NoOpenRequest(d)

TransferConfirmed(c, d, t) ==
    CASE c.op = "update_employee_assignment" ->
             AtWork(d) /\ d.employee.job = c.job /\ d.employee.version = c.version + 1
      [] c.op = "revoke_obsolete_baseline_access" -> InForce(d, t) \cap c.bindings = {}
      [] c.op = "grant_target_baseline_access" -> c.bindings \subseteq InForce(d, t)
      [] c.op = "create_asset_adjustment_task" ->
             \E task \in d.tasks : task.type = "ADJUST" /\ task.job = c.job
      [] c.op = "verify_employee_transfer_consistency" ->
             InForce(d, t) = Package[d.employee.job] /\ d.employee.job = c.job /\ NoOpenRequest(d)

OffboardingConfirmed(c, d, t) ==
    CASE c.op = "disable_corporate_account" -> NoAccountInUse(d)
      [] c.op = "revoke_all_employee_access" -> InForce(d, t) = {}
      [] c.op = "create_asset_return_task" -> ~NoTask(d, "RETURN")
      [] c.op = "mark_employee_inactive" ->
             d.employee.status = "INACTIVE" /\ NoAccountInUse(d) /\ InForce(d, t) = {}
      [] c.op = "verify_employee_offboarding_consistency" ->
             /\ d.employee.status = "INACTIVE" /\ NoAccountInUse(d) /\ InForce(d, t) = {}
             /\ NoOpenRequest(d)

\* verify_application_access
AccessConfirmed(c, d, t) == c.bindings \subseteq InForce(d, t)

\* The purchase is there, and since its approval the cost centre has reserved
\* nothing else: every reservation takes a new version.
PurchaseConfirmed(c, d) ==
    /\ \E p \in d.purchases : p.key = c.key
    /\ d.center.version = c.version + 1

OrderConfirmed(c, d) ==
    /\ c.key \in d.orders
    /\ d.equipment = [status |-> "MAINTENANCE_PENDING", version |-> c.version + 1]

Confirmed(c, d, t) ==
    CASE TypeOf(c) = "ONBOARDING"  -> OnboardingConfirmed(c, d, t)
      [] TypeOf(c) = "TRANSFER"    -> TransferConfirmed(c, d, t)
      [] TypeOf(c) = "OFFBOARDING" -> OffboardingConfirmed(c, d, t)
      [] TypeOf(c) = "ACCESS"      -> AccessConfirmed(c, d, t)
      [] TypeOf(c) = "PURCHASE"    -> PurchaseConfirmed(c, d)
      [] TypeOf(c) = "ORDER"       -> OrderConfirmed(c, d)
      [] OTHER                     -> TRUE

-----------------------------------------------------------------------------
Commits(h) == txn[h] # None /\ txn'[h] = None /\ db' # db

\* A write that takes accesses away names one that has run out: the row is still
\* set active, which is all the write looks at.
TakesLapsed(c, read) ==
    /\ c.op \in {"revoke_obsolete_baseline_access", "revoke_all_employee_access"}
    /\ c.bindings \cap Lapsed(read, now) # {}

\* A grant of accesses that were in force already leaves these as they are.
LeavesInForce(c, read) ==
    /\ c.op = "grant_application_access" /\ AtWork(read)
    /\ \A b \in InForce(read, now) :
          db'.access[b] = db.access[b] /\ db'.until[b] = db.until[b]

\* The check of the gateway may be out of date when the write arrives: the
\* enterprise system tests in the transaction of the write what the check has
\* tested, but for a second provision or adjustment task, and for an access that
\* runs out: the check would refuse to take it away.  A grant of what is in force
\* already, which the check refuses as well, changes nothing of it.
WritesRecheck ==
    [][\A h \in Handlers :
        Commits(h) /\ txn[h].command.op \notin
                         {"create_asset_assignment_task", "create_asset_adjustment_task"} =>
            LET c == txn[h].command
                read == txn[h].read IN
            Executable(c, read, now) \/ TakesLapsed(c, read) \/ LeavesInForce(c, read)]_vars

\* A write that was based on the database as it is can be verified right after
\* it, unless another lifecycle request of the employee was open; only the last
\* step of a transfer counts an access that has run out, which the verification
\* does not see: it is confirmed exactly if there is none.
ConfirmedAtCommit ==
    [][\A h \in Handlers :
        Commits(h) /\ txn[h].read = db /\ txn[h].began = now
            /\ Cardinality(OpenRequests(db)) <= 1 =>
            LET c == txn[h].command IN
            Confirmed(c, db', now) <=>
                ~(/\ c.op = "verify_employee_transfer_consistency"
                  /\ Lapsed(db', now) # {})]_vars

\* The first n steps of a plan are all that was ever carried out.
Alone(type, n) == CarriedOut(db) = {StepKey(type, i) : i \in 1..n}

\* The accesses that have run out and are in the way of a step of a plan: those it
\* is to take away, and those the plan does not know and the write finds set.
InTheWay(c, lapsed) ==
    CASE c.op = "revoke_obsolete_baseline_access" -> lapsed \cap c.bindings
      [] c.op = "revoke_all_employee_access" -> lapsed
      [] c.op = "verify_employee_transfer_consistency" -> lapsed \ Package[c.job]
      [] OTHER -> {}

\* No plan defeats itself: once its first step is done and nothing interferes, each
\* step passes the check of the gateway and is carried out when its turn comes,
\* exactly if no access that has run out is in its way.  With one that is, the
\* plan stops there: none of its steps clears the row.
PlanGoesOn ==
    \A h \in Handlers :
        txn[h] # None =>
            LET c == txn[h].command IN
            /\ TypeOf(c) \in {"ONBOARDING", "TRANSFER", "OFFBOARDING"}
            /\ c.key[2] > 1 /\ Alone(TypeOf(c), c.key[2] - 1)
            /\ txn[h].read = db
            => (Executable(c, db, now) /\ Accepts(c, db, db)
                  <=> InTheWay(c, Lapsed(db, now)) = {})
===============================================================================
