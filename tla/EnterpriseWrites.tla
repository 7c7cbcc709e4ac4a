---------------------------- MODULE EnterpriseWrites ----------------------------
(***************************************************************************)
(* The writes of the simulated enterprise system (enterprise_system/app):  *)
(* onboarding, transfer and offboarding of one employee, application       *)
(* access, maintenance orders of one machine and purchases of one cost     *)
(* centre.  Each request is one MySQL transaction at REPEATABLE READ: what *)
(* it reads is a snapshot, its guards test the snapshot, and its flush     *)
(* sends updates by primary key of the columns it has changed to rows that *)
(* others may have changed since.  Only a unique key, or the condition of  *)
(* an UPDATE, sees those.                                                  *)
(*                                                                         *)
(* An access is granted for some days, and time alone ends it: its row     *)
(* stays set active.  What is read of an access for others goes by the     *)
(* clock, what a lifecycle write tests goes by the row.                    *)
(*                                                                         *)
(* Departments, jobs, packages, applications, managers and policies have   *)
(* no write operation: they are constants here, and always executable.     *)
(***************************************************************************)
EXTENDS Integers, FiniteSets, FiniteSetsExt

CONSTANTS Handlers,   \* request handlers with a transaction of their own
          Scenarios,  \* the database at first, and the commands sent to it
          Jobs, Bindings,
          Package,    \* job -> its baseline access package
          Budget,     \* budget_total - spent_amount of the cost centre
          MaxNow,     \* bound: how far the clock goes
          None

VARIABLES db,       \* the committed database
          offered,  \* the commands of this behaviour, each sent any number of times
          txn,      \* handler -> its command, what it has read, and when it began
          now       \* the clock, in days
vars == <<db, offered, txn, now>>

Operations ==
    {"create_pending_employee", "create_disabled_corporate_account",
     "assign_baseline_access_package", "create_asset_assignment_task",
     "activate_employee_and_account", "update_employee_assignment",
     "revoke_obsolete_baseline_access", "grant_target_baseline_access",
     "create_asset_adjustment_task", "verify_employee_transfer_consistency",
     "disable_corporate_account", "revoke_all_employee_access",
     "create_asset_return_task", "mark_employee_inactive",
     "verify_employee_offboarding_consistency", "create_access_request",
     "grant_application_access", "create_maintenance_work_order",
     "create_request_and_reserve_budget"}

Commands == UNION {s.offered : s \in Scenarios}
Keys == {c.key : c \in Commands}
AccountVersions == Nat \cup {None}

\* version, accountVersion, bindings and tasks are the facts the command was
\* approved on; the other fields are its content.
CommandFields ==
    [op : Operations, key : Keys, job : Jobs, bindings : SUBSET Bindings,
     tasks : SUBSET Keys, version : Nat, accountVersion : AccountVersions,
     request : Keys \cup {None}, days : Nat, requester : {c.requester : c \in Commands},
     item : {c.item : c \in Commands}, amount : Nat]

ASSUME EnterpriseAssumption ==
    /\ Commands \subseteq CommandFields
    /\ Package \in [Jobs -> SUBSET Bindings]
    /\ Budget \in Nat
    /\ None \notin Keys \cup Nat
    /\ \A c \in Commands : c.op = "create_access_request" => c.request \in Keys
    /\ \A c \in Commands : c.op = "grant_application_access" => c.days > 0

Employees == [status : {"NONE", "PENDING_ONBOARDING", "ACTIVE", "INACTIVE"},
              job : Jobs, version : Nat]
Accounts == [status : {"NONE", "DISABLED", "ACTIVE"}, version : Nat]
Access == [Bindings -> {"none", "active", "inactive"}]
Until == [Bindings -> Nat \cup {None}]
AssetTasks == [type : {"PROVISION", "ADJUST", "RETURN"}, job : Jobs, key : Keys]
LifecycleRequests == [type : {"ONBOARDING", "TRANSFER", "OFFBOARDING"}, key : Keys,
                      status : {"EXECUTING", "COMPLETED"}]
AccessRequests == [id : Keys, bindings : SUBSET Bindings, days : Nat,
                   status : {"CREATED", "GRANTED"}]
Equipment == [status : {"RUNNING", "DEGRADED", "MAINTENANCE_PENDING"}, version : Nat]
CostCenters == [reserved : Nat, version : Nat]
\* access is the active column of the rows, until their expires_at: None is the
\* date in 2099 of a baseline access.
Database ==
    [employee : Employees, account : Accounts, access : Access, until : Until,
     tasks : SUBSET AssetTasks, requests : SUBSET LifecycleRequests,
     accessRequests : SUBSET AccessRequests, equipment : Equipment,
     orders : SUBSET Keys, center : CostCenters, purchases : SUBSET Commands,
     keys : SUBSET Keys]

TypeOK ==
    /\ db \in Database
    /\ offered \in {s.offered : s \in Scenarios}
    /\ txn \in [Handlers -> [command : Commands, read : Database, began : Nat] \cup {None}]
    /\ now \in Nat

\* The employee is unknown, or one of the seeded ones: at work, with an account
\* of version 1 or without one, and with some access, which may have run out.
Seeded(e, a, j, bindings, until) ==
    [employee |-> [status |-> e, job |-> j, version |-> IF e = "NONE" THEN 0 ELSE 1],
     account |-> [status |-> a, version |-> IF a = "NONE" THEN 0 ELSE 1],
     access |-> [b \in Bindings |-> IF b \in bindings THEN "active" ELSE "none"],
     until |-> until,
     tasks |-> {}, requests |-> {}, accessRequests |-> {},
     equipment |-> [status |-> "RUNNING", version |-> 1], orders |-> {},
     center |-> [reserved |-> 0, version |-> 1], purchases |-> {}, keys |-> {}]

ASSUME SeedAssumption ==
    \A s \in Scenarios :
        \E e \in {"NONE", "ACTIVE"}, a \in {"NONE", "ACTIVE"}, j \in Jobs, b \in SUBSET Bindings :
            /\ s.facts = Seeded(e, a, j, b, s.facts.until) /\ s.facts.until \in Until
            /\ e = "NONE" => a = "NONE" /\ b = {}

\* A key names one command, and an employee is activated by one plan at most: a
\* second onboarding ends at its first step, which finds the employee.
ASSUME CommandAssumption ==
    \A s \in Scenarios : \A c, d \in s.offered :
        \/ c.key = d.key
        \/ c.op = "activate_employee_and_account" /\ d.op = c.op
        => c = d

Init ==
    /\ \E s \in Scenarios : db = s.facts /\ offered = s.offered
    /\ txn = [h \in Handlers |-> None]
    /\ now = 0

-----------------------------------------------------------------------------
\* The rows set active, whether they have run out or not: what a lifecycle write
\* looks at.
Active(d) == {b \in Bindings : d.access[b] = "active"}

\* _is_active: what the views show as active at the time t, and so all that a
\* plan, a policy, the check before a write and the verification after it see.
InForce(d, t) == {b \in Active(d) : d.until[b] = None \/ d.until[b] > t}

\* Run out, and still set active.
Lapsed(d, t) == Active(d) \ InForce(d, t)

Pending(d) == d.employee.status = "PENDING_ONBOARDING"
AtWork(d) == d.employee.status = "ACTIVE"
HasTask(d, type) == \E t \in d.tasks : t.type = type /\ t.job = d.employee.job
OpenRequests(d) == {r \in d.requests : r.status = "EXECUTING"}
OpenOf(d, type) == {r \in OpenRequests(d) : r.type = type}

\* UserAccessRecord rows of the snapshot that are set active, or inactive.
Granted(read, bindings) ==
    [b \in Bindings |-> IF b \in bindings /\ read.access[b] # "active"
                        THEN "active" ELSE db.access[b]]
Withdrawn(bindings) == [b \in Bindings |-> IF b \in bindings THEN "inactive" ELSE db.access[b]]
\* expires_at of rows is set; unlike active it is always sent, for a date that was
\* read has no time zone and never equals the new one.
Dated(bindings, expiry) == [b \in Bindings |-> IF b \in bindings THEN expiry ELSE db.until[b]]
\* A row the snapshot does not have is inserted: it must still not exist.
NoRowSince(read, d, bindings) ==
    \A b \in bindings : read.access[b] = "none" => d.access[b] = "none"

Opened(c, type) == db.requests \cup {[type |-> type, key |-> c.key, status |-> "EXECUTING"]}

\* Mutant: the request is left open.
LeftOpen(r) == db.requests

Completed(r) == {IF q.key = r.key THEN [q EXCEPT !.status = "COMPLETED"] ELSE q : q \in db.requests}
\* Mutant: every asset task is one of the onboarding.
TaskedProvision(c, type, job) ==
    db.tasks \cup {[type |-> "PROVISION", job |-> job, key |-> c.key]}

Tasked(c, type, job) == db.tasks \cup {[type |-> type, job |-> job, key |-> c.key]}

\* What a purchase was approved on was read from the committed database before
\* the command was sent.
ReadBefore(c) ==
    c.op = "create_request_and_reserve_budget" => c.version <= db.center.version

\* The first read of a request fixes the snapshot of its transaction.
Begin(h, c) ==
    /\ txn[h] = None
    /\ ReadBefore(c)
    /\ txn' = [txn EXCEPT ![h] = [command |-> c, read |-> db, began |-> now]]
    /\ UNCHANGED <<db, offered, now>>

\* A replayed answer, a refusal, a violated unique key, or a lost connection.
Rollback(h) ==
    /\ txn[h] # None
    /\ txn' = [txn EXCEPT ![h] = None]
    /\ UNCHANGED <<db, offered, now>>

\* A day passes: nothing is written, and accesses may run out.
Tick ==
    /\ now < MaxNow
    /\ now' = now + 1
    /\ UNCHANGED <<db, offered, txn>>

\* Mutant: the record of the key is neither looked up nor unique.
SaveUnchecked(h, after) ==
    /\ db' = [after EXCEPT !.keys = @ \cup {txn[h].command.key}]
    /\ txn' = [txn EXCEPT ![h] = None]
    /\ UNCHANGED <<offered, now>>

\* _find_replay finds no record of the key, and neither does the insert of one.
NewKeyIn(c, read, d) == c.key \notin read.keys \cup d.keys

Save(h, after) ==
    LET c == txn[h].command IN
    /\ NewKeyIn(c, txn[h].read, db)
    /\ db' = [after EXCEPT !.keys = @ \cup {c.key}]
    /\ txn' = [txn EXCEPT ![h] = None]
    /\ UNCHANGED <<offered, now>>

Is(h, op) == txn[h] # None /\ txn[h].command.op = op

-----------------------------------------------------------------------------
(* Each write tests the snapshot read and, where a unique key or a condition *)
(* of its update does, the database d it is sent to; then it is made.        *)

\* Onboarding.
EmployeeCreatable(read, d) == read.employee.status = "NONE" /\ d.employee.status = "NONE"

CreatePendingEmployee(h) ==
    /\ Is(h, "create_pending_employee")
    /\ LET c == txn[h].command IN
       /\ EmployeeCreatable(txn[h].read, db)
       /\ Save(h, [db EXCEPT !.employee = [status |-> "PENDING_ONBOARDING", job |-> c.job,
                                           version |-> 1],
                             !.requests = Opened(c, "ONBOARDING")])

AccountCreatable(read, d) ==
    Pending(read) /\ read.account.status = "NONE" /\ d.account.status = "NONE"

CreateDisabledCorporateAccount(h) ==
    /\ Is(h, "create_disabled_corporate_account")
    /\ AccountCreatable(txn[h].read, db)
    /\ Save(h, [db EXCEPT !.account = [status |-> "DISABLED", version |-> 1]])

PackageAssignable(c, read, d) ==
    /\ Pending(read)
    /\ c.job = read.employee.job /\ c.bindings = Package[c.job]
    /\ \A b \in c.bindings : read.access[b] = "none"
    /\ NoRowSince(read, d, c.bindings)

AssignBaselineAccessPackage(h) ==
    /\ Is(h, "assign_baseline_access_package")
    /\ LET c == txn[h].command
           read == txn[h].read IN
       /\ PackageAssignable(c, read, db)
       /\ Save(h, [db EXCEPT !.access = Granted(read, c.bindings),
                             !.until = Dated(c.bindings, None)])

AssignmentTaskable(c, read) == Pending(read) /\ c.job = read.employee.job

CreateAssetAssignmentTask(h) ==
    /\ Is(h, "create_asset_assignment_task")
    /\ LET c == txn[h].command IN
       /\ AssignmentTaskable(c, txn[h].read)
       /\ Save(h, [db EXCEPT !.tasks = Tasked(c, "PROVISION", c.job)])

BaselineComplete(d) ==
    /\ Package[d.employee.job] # {}
    /\ Active(d) = Package[d.employee.job]

Activatable(c, read) ==
    /\ Pending(read)
    /\ read.employee.version = c.version
    /\ read.account.status = "DISABLED" /\ read.account.version = c.accountVersion
    /\ BaselineComplete(read)
    /\ HasTask(read, "PROVISION")
    /\ OpenOf(read, "ONBOARDING") # {}

ActivateEmployeeAndAccount(h) ==
    /\ Is(h, "activate_employee_and_account")
    /\ LET c == txn[h].command
           read == txn[h].read IN
       /\ Activatable(c, read)
       /\ \E r \in OpenOf(read, "ONBOARDING") :
             Save(h, [db EXCEPT !.employee.status = "ACTIVE",
                                !.employee.version = read.employee.version + 1,
                                !.account = [status |-> "ACTIVE",
                                             version |-> read.account.version + 1],
                                !.requests = Completed(r)])

-----------------------------------------------------------------------------
\* Transfer.
Reassignable(c, read) ==
    AtWork(read) /\ read.employee.version = c.version /\ OpenRequests(read) = {}

\* Mutant: the whole row is written back as it was read, not its changed columns.
WriteWholeEmployee(h) ==
    /\ Is(h, "update_employee_assignment")
    /\ LET c == txn[h].command
           read == txn[h].read IN
       /\ Reassignable(c, read)
       /\ Save(h, [db EXCEPT !.employee = [status |-> "ACTIVE", job |-> c.job,
                                           version |-> read.employee.version + 1],
                             !.requests = Opened(c, "TRANSFER")])

UpdateEmployeeAssignment(h) ==
    /\ Is(h, "update_employee_assignment")
    /\ LET c == txn[h].command
           read == txn[h].read IN
       /\ Reassignable(c, read)
       /\ Save(h, [db EXCEPT !.employee.job = c.job,
                             !.employee.version = read.employee.version + 1,
                             !.requests = Opened(c, "TRANSFER")])

Revocable(c, read) == AtWork(read) /\ c.bindings \subseteq Active(read)

RevokeObsoleteBaselineAccess(h) ==
    /\ Is(h, "revoke_obsolete_baseline_access")
    /\ LET c == txn[h].command IN
       /\ Revocable(c, txn[h].read)
       /\ Save(h, [db EXCEPT !.access = Withdrawn(c.bindings)])

Grantable(c, read, d) ==
    /\ AtWork(read)
    /\ c.job = read.employee.job /\ c.bindings \subseteq Package[c.job]
    /\ NoRowSince(read, d, c.bindings)

GrantTargetBaselineAccess(h) ==
    /\ Is(h, "grant_target_baseline_access")
    /\ LET c == txn[h].command
           read == txn[h].read IN
       /\ Grantable(c, read, db)
       /\ Save(h, [db EXCEPT !.access = Granted(read, c.bindings),
                             !.until = Dated(c.bindings, None)])

AdjustmentTaskable(c, read) == AtWork(read) /\ c.job = read.employee.job

CreateAssetAdjustmentTask(h) ==
    /\ Is(h, "create_asset_adjustment_task")
    /\ LET c == txn[h].command IN
       /\ AdjustmentTaskable(c, txn[h].read)
       /\ Save(h, [db EXCEPT !.tasks = Tasked(c, "ADJUST", c.job)])

TransferConsistent(c, read) ==
    /\ AtWork(read)
    /\ c.job = read.employee.job
    /\ Active(read) = Package[c.job]
    /\ HasTask(read, "ADJUST")
    /\ OpenOf(read, "TRANSFER") # {}

VerifyEmployeeTransferConsistency(h) ==
    /\ Is(h, "verify_employee_transfer_consistency")
    /\ LET c == txn[h].command
           read == txn[h].read IN
       /\ TransferConsistent(c, read)
       /\ \E r \in OpenOf(read, "TRANSFER") : Save(h, [db EXCEPT !.requests = Completed(r)])

-----------------------------------------------------------------------------
\* Offboarding.
AccountDisableable(c, read) ==
    /\ AtWork(read)
    /\ IF c.accountVersion = None THEN read.account.status = "NONE"
       ELSE read.account.status # "NONE" /\ read.account.version = c.accountVersion
    /\ OpenRequests(read) = {}

DisableCorporateAccount(h) ==
    /\ Is(h, "disable_corporate_account")
    /\ LET c == txn[h].command
           read == txn[h].read IN
       /\ AccountDisableable(c, read)
       /\ Save(h, [db EXCEPT
             !.account = IF read.account.status = "ACTIVE"
                         THEN [status |-> "DISABLED", version |-> read.account.version + 1]
                         ELSE @,
             !.requests = Opened(c, "OFFBOARDING")])

AllRevocable(c, read) == AtWork(read) /\ c.bindings = Active(read)

RevokeAllEmployeeAccess(h) ==
    /\ Is(h, "revoke_all_employee_access")
    /\ LET c == txn[h].command IN
       /\ AllRevocable(c, txn[h].read)
       /\ Save(h, [db EXCEPT !.access = Withdrawn(c.bindings)])

ReturnTaskable(c, read) == AtWork(read) /\ c.tasks = {t.key : t \in read.tasks}

CreateAssetReturnTask(h) ==
    /\ Is(h, "create_asset_return_task")
    /\ LET c == txn[h].command
           read == txn[h].read IN
       /\ ReturnTaskable(c, read)
       /\ Save(h, [db EXCEPT !.tasks = Tasked(c, "RETURN", read.employee.job)])

\* Mutant: the account is not looked at.
AnyAccount(d) == TRUE

NoAccountInUse(d) == d.account.status # "ACTIVE"

Deactivatable(c, read) ==
    /\ AtWork(read)
    /\ read.employee.version = c.version
    /\ NoAccountInUse(read)
    /\ Active(read) = {}

MarkEmployeeInactive(h) ==
    /\ Is(h, "mark_employee_inactive")
    /\ LET c == txn[h].command
           read == txn[h].read IN
       /\ Deactivatable(c, read)
       /\ Save(h, [db EXCEPT !.employee.status = "INACTIVE",
                             !.employee.version = read.employee.version + 1])

OffboardingConsistent(read) ==
    /\ read.employee.status = "INACTIVE"
    /\ NoAccountInUse(read)
    /\ Active(read) = {}
    /\ \E t \in read.tasks : t.type = "RETURN"
    /\ OpenOf(read, "OFFBOARDING") # {}

VerifyEmployeeOffboardingConsistency(h) ==
    /\ Is(h, "verify_employee_offboarding_consistency")
    /\ LET read == txn[h].read IN
       /\ OffboardingConsistent(read)
       /\ \E r \in OpenOf(read, "OFFBOARDING") : Save(h, [db EXCEPT !.requests = Completed(r)])

-----------------------------------------------------------------------------
\* Application access, maintenance and purchases.
RequestCreatable(c, read, d) ==
    AtWork(read) /\ \A r \in read.accessRequests \cup d.accessRequests : r.id # c.request

CreateAccessRequest(h) ==
    /\ Is(h, "create_access_request")
    /\ LET c == txn[h].command IN
       /\ RequestCreatable(c, txn[h].read, db)
       /\ Save(h, [db EXCEPT !.accessRequests = @ \cup
             {[id |-> c.request, bindings |-> c.bindings, days |-> c.days,
               status |-> "CREATED"]}])

MatchingRequest(c, d) ==
    \/ c.request = None
    \/ \E r \in d.accessRequests :
          r.id = c.request /\ r.bindings = c.bindings /\ r.days = c.days

AccessGrantable(c, read, d) ==
    AtWork(read) /\ MatchingRequest(c, read) /\ NoRowSince(read, d, c.bindings)

\* An access in force is left as it is (ALREADY_PRESENT), whatever was asked for;
\* another is set active from the time t at which the handler reads the clock.
GrantApplicationAccess(h) ==
    /\ Is(h, "grant_application_access")
    /\ LET c == txn[h].command
           read == txn[h].read IN
       /\ AccessGrantable(c, read, db)
       /\ \E t \in txn[h].began .. now : Save(h, [db EXCEPT
             !.access = Granted(read, c.bindings),
             !.until = Dated(c.bindings \ InForce(read, t), t + c.days),
             !.accessRequests = {IF r.id = c.request THEN [r EXCEPT !.status = "GRANTED"]
                                 ELSE r : r \in @}])

Orderable(c, read) ==
    read.equipment.version = c.version /\ read.equipment.status \in {"RUNNING", "DEGRADED"}

CreateMaintenanceWorkOrder(h) ==
    /\ Is(h, "create_maintenance_work_order")
    /\ LET c == txn[h].command
           read == txn[h].read IN
       /\ Orderable(c, read)
       /\ Save(h, [db EXCEPT !.orders = @ \cup {c.key},
                             !.equipment = [status |-> "MAINTENANCE_PENDING",
                                            version |-> read.equipment.version + 1]])

\* The run stands for the key: a run has one proposal, and both are unique.
NotPurchased(c, d) == \A p \in d.purchases : p.key # c.key

\* _require_no_duplicate: among the open purchases of the same requester.
NoSimilarPurchase(c, d) ==
    \A p \in d.purchases : p.requester = c.requester => p.item # c.item

\* Mutant: the UPDATE names only the version.
SameVersion(c, d) == d.center.version = c.version

\* Mutant: the UPDATE names only the amount.
StillAvailable(c, d) == Budget - d.center.reserved >= c.amount

\* The one condition that is tested on the row as it is when it is written.
Reservable(c, d) ==
    /\ d.center.version = c.version
    /\ Budget - d.center.reserved >= c.amount

Purchasable(c, read, d) ==
    /\ NotPurchased(c, read)
    /\ NoSimilarPurchase(c, read)
    /\ Reservable(c, d)
    /\ NotPurchased(c, d)

CreateRequestAndReserveBudget(h) ==
    /\ Is(h, "create_request_and_reserve_budget")
    /\ LET c == txn[h].command IN
       /\ Purchasable(c, txn[h].read, db)
       /\ db' = [db EXCEPT !.center = [reserved |-> @.reserved + c.amount,
                                       version |-> @.version + 1],
                           !.purchases = @ \cup {c}]
       /\ txn' = [txn EXCEPT ![h] = None]
       /\ UNCHANGED <<offered, now>>

-----------------------------------------------------------------------------
Onboarding(h) ==
    \/ CreatePendingEmployee(h) \/ CreateDisabledCorporateAccount(h)
    \/ AssignBaselineAccessPackage(h) \/ CreateAssetAssignmentTask(h)
    \/ ActivateEmployeeAndAccount(h)
Transfer(h) ==
    \/ UpdateEmployeeAssignment(h) \/ RevokeObsoleteBaselineAccess(h)
    \/ GrantTargetBaselineAccess(h) \/ CreateAssetAdjustmentTask(h)
    \/ VerifyEmployeeTransferConsistency(h)
Offboarding(h) ==
    \/ DisableCorporateAccount(h) \/ RevokeAllEmployeeAccess(h)
    \/ CreateAssetReturnTask(h) \/ MarkEmployeeInactive(h)
    \/ VerifyEmployeeOffboardingConsistency(h)
Others(h) ==
    \/ CreateAccessRequest(h) \/ GrantApplicationAccess(h)
    \/ CreateMaintenanceWorkOrder(h) \/ CreateRequestAndReserveBudget(h)

\* A write of c that has read `read` can be made in the database d.
Accepts(c, read, d) ==
    /\ c.op # "create_request_and_reserve_budget" => NewKeyIn(c, read, d)
    /\ c.op = "create_pending_employee" => EmployeeCreatable(read, d)
    /\ c.op = "create_disabled_corporate_account" => AccountCreatable(read, d)
    /\ c.op = "assign_baseline_access_package" => PackageAssignable(c, read, d)
    /\ c.op = "create_asset_assignment_task" => AssignmentTaskable(c, read)
    /\ c.op = "activate_employee_and_account" => Activatable(c, read)
    /\ c.op = "update_employee_assignment" => Reassignable(c, read)
    /\ c.op = "revoke_obsolete_baseline_access" => Revocable(c, read)
    /\ c.op = "grant_target_baseline_access" => Grantable(c, read, d)
    /\ c.op = "create_asset_adjustment_task" => AdjustmentTaskable(c, read)
    /\ c.op = "verify_employee_transfer_consistency" => TransferConsistent(c, read)
    /\ c.op = "disable_corporate_account" => AccountDisableable(c, read)
    /\ c.op = "revoke_all_employee_access" => AllRevocable(c, read)
    /\ c.op = "create_asset_return_task" => ReturnTaskable(c, read)
    /\ c.op = "mark_employee_inactive" => Deactivatable(c, read)
    /\ c.op = "verify_employee_offboarding_consistency" => OffboardingConsistent(read)
    /\ c.op = "create_access_request" => RequestCreatable(c, read, d)
    /\ c.op = "grant_application_access" => AccessGrantable(c, read, d)
    /\ c.op = "create_maintenance_work_order" => Orderable(c, read)
    /\ c.op = "create_request_and_reserve_budget" => Purchasable(c, read, d)

Next ==
    \/ Tick
    \/ \E h \in Handlers :
          \/ \E c \in offered : Begin(h, c)
          \/ Rollback(h)
          \/ Onboarding(h) \/ Transfer(h) \/ Offboarding(h) \/ Others(h)

Spec == Init /\ [][Next]_vars

-----------------------------------------------------------------------------
\* What is reserved is the sum of the purchases, and never more than the budget,
\* however many purchases were checked against the same remaining budget.
BudgetBalances ==
    /\ db.center.reserved = SumFunction([p \in db.purchases |-> p.amount])
    /\ db.center.reserved <= Budget

\* No two open purchases of one requester name the same item, although the check
\* for a similar one only reads the snapshot of its transaction.  Two requesters of
\* the cost centre may each buy it.
NoSimilarPurchases ==
    \A p, q \in db.purchases : p.requester = q.requester /\ p.item = q.item => p = q

\* The keys of everything that was ever carried out.
CarriedOut(d) == d.keys \cup {p.key : p \in d.purchases}

\* Every change of the database is the effect of one command whose key was
\* never used before: two transactions with one key never both take effect.
OncePerKey ==
    [][db' # db => \E k \in Keys \ CarriedOut(db) : CarriedOut(db') = CarriedOut(db) \cup {k}]_vars

\* An employee goes to work with everything the onboarding promises as it is in
\* the database then, whatever was committed since the activation read it.
ActivatedIsComplete ==
    [][Pending(db) /\ AtWork(db') =>
         /\ db'.account.status = "ACTIVE"
         /\ BaselineComplete(db')
         /\ HasTask(db', "PROVISION")
         /\ \A r \in db'.requests : r.type = "ONBOARDING" => r.status = "COMPLETED"]_vars

\* A late write never brings an employee back: pending, at work, gone.
EmployeeOnlyAdvances ==
    [][db'.employee.status # db.employee.status =>
         <<db.employee.status, db'.employee.status>> \in
            {<<"NONE", "PENDING_ONBOARDING">>, <<"PENDING_ONBOARDING", "ACTIVE">>,
             <<"ACTIVE", "INACTIVE">>}]_vars

===============================================================================
