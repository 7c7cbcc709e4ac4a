------------------------- MODULE EnterpriseWritesProofs -------------------------
(***************************************************************************)
(* For any number of handlers, commands and retries: what the transactions *)
(* of the enterprise system keep of one another though each tests its own  *)
(* snapshot.                                                               *)
(***************************************************************************)
EXTENDS RequestPolicies, FiniteSetTheorems, WellFoundedInduction, TLAPS

Records == [command : Commands, read : Database, began : Nat]

\* The offered commands are all of one scenario, and a transaction is on one.
Offered ==
    /\ offered \in {s.offered : s \in Scenarios}
    /\ \A h \in Handlers : txn[h] # None => txn[h].command \in offered

TypesHold == TypeOK /\ Offered

LEMMA SeededIsTyped ==
    ASSUME NEW e \in {"NONE", "ACTIVE"}, NEW a \in {"NONE", "ACTIVE"}, NEW j \in Jobs,
           NEW b \in SUBSET Bindings, NEW until \in Until
    PROVE  Seeded(e, a, j, b, until) \in Database
  <1> DEFINE d == Seeded(e, a, j, b, until)
  <1>1. d.employee \in Employees /\ d.account \in Accounts /\ d.access \in Access
        /\ d.until \in Until
    BY DEF Seeded, Employees, Accounts, Access
  <1>2. d.equipment \in Equipment /\ d.center \in CostCenters
    BY DEF Seeded, Equipment, CostCenters
  <1> QED BY <1>1, <1>2 DEF Seeded, Database

\* The database begins as one of the seeded ones.
LEMMA InitIsSeeded ==
    ASSUME Init
    PROVE  \E e \in {"NONE", "ACTIVE"}, a \in {"NONE", "ACTIVE"}, j \in Jobs,
              b \in SUBSET Bindings, until \in Until :
               db = Seeded(e, a, j, b, until) /\ (e = "NONE" => a = "NONE" /\ b = {})
  <1>1. PICK s \in Scenarios : db = s.facts
    BY DEF Init
  <1> QED BY <1>1, SeedAssumption

LEMMA InitTypes == Init => TypesHold
  <1> SUFFICES ASSUME Init PROVE TypesHold
    OBVIOUS
  <1>1. db \in Database
    BY InitIsSeeded, SeededIsTyped
  <1>2. offered \in {s.offered : s \in Scenarios} /\ \A h \in Handlers : txn[h] = None
    BY DEF Init
  <1> QED BY <1>1, <1>2 DEF Init, TypesHold, TypeOK, Offered

\* What a transaction is on.
LEMMA Transaction ==
    ASSUME TypesHold, NEW h \in Handlers, txn[h] # None
    PROVE  /\ txn[h].command \in CommandFields /\ txn[h].command \in Commands
           /\ txn[h].command \in offered
           /\ txn[h].read \in Database /\ db \in Database
           /\ txn[h].began \in Nat /\ now \in Nat
  BY EnterpriseAssumption DEF TypesHold, TypeOK, Offered

-----------------------------------------------------------------------------
(* What the steps have in common, seen from employee, access and requests.   *)

Purchase == "create_request_and_reserve_budget"
Activation == "activate_employee_and_account"

\* An employee is created, activated, changed at work, or nothing happens to him.
EmployeeEffect(h, d) ==
    LET read == txn[h].read IN
    \/ d.employee = db.employee
    \/ db.employee.status = "NONE" /\ d.employee.status = "PENDING_ONBOARDING"
    \/ /\ txn[h].command.op = Activation /\ Pending(read)
       /\ d.employee.status = "ACTIVE" /\ d.employee.job = db.employee.job
    \/ AtWork(read) /\ d.employee.status \in {db.employee.status, "INACTIVE"}

\* Before an employee is at work, only his baseline package is given to him, and
\* for good.
AccessEffect(h, d) ==
    LET read == txn[h].read
        package == Package[read.employee.job] IN
    \/ d.access = db.access /\ d.until = db.until
    \/ AtWork(read)
    \/ /\ Pending(read)
       /\ \A b \in package : read.access[b] = "none" /\ db.access[b] = "none"
       /\ d.access = [b \in Bindings |-> IF b \in package THEN "active" ELSE db.access[b]]
       /\ d.until = [b \in Bindings |-> IF b \in package THEN None ELSE db.until[b]]

\* A request is opened, one is completed, or the requests stand.
RequestEffect(h, d) ==
    LET c == txn[h].command IN
    \/ d.requests = db.requests
    \/ /\ db.employee.status = "NONE" /\ Pending(d)
       /\ d.requests = Opened(c, "ONBOARDING")
    \/ \E type \in {"TRANSFER", "OFFBOARDING"} : d.requests = Opened(c, type)
    \/ \E r \in OpenRequests(txn[h].read) : d.requests = Completed(r)

\* d is what a step may make of the database, but for its keys and its purchases.
Allowed(h, d) ==
    /\ d \in Database
    /\ EmployeeEffect(h, d) /\ AccessEffect(h, d) /\ RequestEffect(h, d)
    /\ db.tasks \subseteq d.tasks

\* The key is recorded and nothing is reserved, or a purchase is made.
KeyEffect(h) ==
    LET c == txn[h].command IN
    \/ /\ c.op # Purchase
       /\ c.key \notin db.keys /\ db'.keys = db.keys \cup {c.key}
       /\ db'.center = db.center /\ db'.purchases = db.purchases
    \/ /\ c.op = Purchase
       /\ NotPurchased(c, db) /\ NoSimilarPurchase(c, txn[h].read) /\ Reservable(c, db)
       /\ db'.keys = db.keys /\ db'.purchases = db.purchases \cup {c}
       /\ db'.center = [reserved |-> db.center.reserved + c.amount,
                        version |-> db.center.version + 1]

Effect(h) ==
    /\ txn[h] # None
    /\ txn' = [txn EXCEPT ![h] = None] /\ offered' = offered /\ now' = now
    /\ Allowed(h, db') /\ KeyEffect(h)

\* A saved step adds its key to what its operation has changed.
LEMMA SaveEffect ==
    ASSUME TypesHold, NEW h \in Handlers, txn[h] # None, txn[h].command.op # Purchase,
           NEW after, Allowed(h, after), after.keys = db.keys,
           after.center = db.center, after.purchases = db.purchases, Save(h, after)
    PROVE  Effect(h)
  <1>1. txn[h].command.key \in Keys /\ after \in Database
    BY Transaction DEF CommandFields, Allowed
  <1>2. /\ db' \in Database /\ db'.keys = db.keys \cup {txn[h].command.key}
        /\ db'.employee = after.employee /\ db'.access = after.access
        /\ db'.until = after.until
        /\ db'.tasks = after.tasks /\ db'.requests = after.requests
        /\ db'.center = db.center /\ db'.purchases = db.purchases
        /\ txn[h].command.key \notin db.keys
        /\ txn' = [txn EXCEPT ![h] = None] /\ offered' = offered /\ now' = now
    BY <1>1 DEF Save, Database, NewKeyIn
  <1>3. EmployeeEffect(h, db') /\ AccessEffect(h, db') /\ RequestEffect(h, db')
    BY <1>2 DEF Allowed, EmployeeEffect, AccessEffect, RequestEffect, Pending
  <1> QED BY <1>2, <1>3 DEF Effect, Allowed, KeyEffect

LEMMA CompletedIsTyped ==
    ASSUME TypesHold, NEW r
    PROVE  Completed(r) \in SUBSET LifecycleRequests
  <1>1. db.requests \subseteq LifecycleRequests
    BY DEF TypesHold, TypeOK, Database
  <1>2. ASSUME NEW q \in LifecycleRequests
        PROVE  [q EXCEPT !.status = "COMPLETED"] \in LifecycleRequests
    BY DEF LifecycleRequests
  <1> QED BY <1>1, <1>2 DEF Completed

LEMMA OpenedIsTyped ==
    ASSUME TypesHold, NEW c \in CommandFields,
           NEW type \in {"ONBOARDING", "TRANSFER", "OFFBOARDING"}
    PROVE  Opened(c, type) \in SUBSET LifecycleRequests
  BY DEF Opened, TypesHold, TypeOK, Database, LifecycleRequests, CommandFields

LEMMA TaskedIsTyped ==
    ASSUME TypesHold, NEW c \in CommandFields, NEW type \in {"PROVISION", "ADJUST", "RETURN"},
           NEW j \in Jobs
    PROVE  Tasked(c, type, j) \in SUBSET AssetTasks /\ db.tasks \subseteq Tasked(c, type, j)
  BY DEF Tasked, TypesHold, TypeOK, Database, AssetTasks, CommandFields

\* The steps of an onboarding.
LEMMA OnboardingEffect ==
    ASSUME TypesHold, NEW h \in Handlers, Onboarding(h)
    PROVE  Effect(h)
  <1> DEFINE c == txn[h].command
             read == txn[h].read
  <1> USE DEF Is
  <1>1. /\ txn[h] # None /\ c.op # Purchase
        /\ c \in CommandFields /\ c.job \in Jobs /\ c.bindings \subseteq Bindings
        /\ read \in Database /\ db \in Database /\ Package \in [Jobs -> SUBSET Bindings]
        /\ read.employee \in Employees /\ read.account \in Accounts /\ read.access \in Access
        /\ db.employee \in Employees /\ db.account \in Accounts /\ db.access \in Access
        /\ db.until \in Until
    BY Transaction, EnterpriseAssumption
       DEF Onboarding, CreatePendingEmployee, CreateDisabledCorporateAccount,
       AssignBaselineAccessPackage, CreateAssetAssignmentTask, ActivateEmployeeAndAccount,
       CommandFields, Database, Purchase
  <1>2. CASE CreatePendingEmployee(h)
    <2> DEFINE after == [db EXCEPT
          !.employee = [status |-> "PENDING_ONBOARDING", job |-> c.job, version |-> 1],
          !.requests = Opened(c, "ONBOARDING")]
    <2>1. /\ Allowed(h, after) /\ after.keys = db.keys
          /\ after.center = db.center /\ after.purchases = db.purchases
      BY <1>1, <1>2, OpenedIsTyped
         DEF CreatePendingEmployee, Allowed, EmployeeEffect, AccessEffect, RequestEffect,
         Database, Employees, Pending, EmployeeCreatable
    <2> QED BY <1>1, <1>2, <2>1, SaveEffect DEF CreatePendingEmployee
  <1>3. CASE CreateDisabledCorporateAccount(h)
    <2> DEFINE after == [db EXCEPT !.account = [status |-> "DISABLED", version |-> 1]]
    <2>1. /\ Allowed(h, after) /\ after.keys = db.keys
          /\ after.center = db.center /\ after.purchases = db.purchases
      BY <1>1, <1>3
         DEF CreateDisabledCorporateAccount, Allowed, EmployeeEffect, AccessEffect,
         RequestEffect, Database, Accounts
    <2> QED BY <1>1, <1>3, <2>1, SaveEffect DEF CreateDisabledCorporateAccount
  <1>4. CASE AssignBaselineAccessPackage(h)
    <2> DEFINE after == [db EXCEPT !.access = Granted(read, c.bindings),
                            !.until = Dated(c.bindings, None)]
    <2>1. /\ Pending(read) /\ c.bindings = Package[read.employee.job]
          /\ \A b \in c.bindings : read.access[b] = "none" /\ db.access[b] = "none"
      BY <1>4 DEF AssignBaselineAccessPackage, NoRowSince, PackageAssignable
    <2>2. /\ Granted(read, c.bindings) =
                [b \in Bindings |-> IF b \in c.bindings THEN "active" ELSE db.access[b]]
          /\ Granted(read, c.bindings) \in Access
      BY <1>1, <2>1 DEF Granted, Access
    <2>3. Dated(c.bindings, None) \in Until
      BY <1>1 DEF Dated, Until
    <2>8. /\ Allowed(h, after) /\ after.keys = db.keys
          /\ after.center = db.center /\ after.purchases = db.purchases
      BY <1>1, <2>1, <2>2, <2>3
         DEF Allowed, EmployeeEffect, AccessEffect, RequestEffect, Database, Dated
    <2> QED BY <1>1, <1>4, <2>8, SaveEffect DEF AssignBaselineAccessPackage
  <1>5. CASE CreateAssetAssignmentTask(h)
    <2> DEFINE after == [db EXCEPT !.tasks = Tasked(c, "PROVISION", c.job)]
    <2>1. /\ Allowed(h, after) /\ after.keys = db.keys
          /\ after.center = db.center /\ after.purchases = db.purchases
      BY <1>1, <1>5, TaskedIsTyped
         DEF CreateAssetAssignmentTask, Allowed, EmployeeEffect, AccessEffect,
         RequestEffect, Database
    <2> QED BY <1>1, <1>5, <2>1, SaveEffect DEF CreateAssetAssignmentTask
  <1>6. CASE ActivateEmployeeAndAccount(h)
    <2> DEFINE account == [status |-> "ACTIVE", version |-> read.account.version + 1]
    <2> PICK r \in OpenRequests(read) :
                 Save(h, [db EXCEPT !.employee.status = "ACTIVE",
                                    !.employee.version = read.employee.version + 1,
                                    !.account = account, !.requests = Completed(r)])
      BY <1>6 DEF ActivateEmployeeAndAccount, Activatable, OpenOf
    <2> DEFINE after == [db EXCEPT !.employee.status = "ACTIVE",
                                   !.employee.version = read.employee.version + 1,
                                   !.account = account, !.requests = Completed(r)]
    <2>1. Pending(read) /\ c.op = Activation
      BY <1>6 DEF ActivateEmployeeAndAccount, Activation, Activatable, OpenOf
    <2>2. /\ after.employee \in Employees /\ after.employee.status = "ACTIVE"
          /\ after.employee.job = db.employee.job
      <3>1. after.employee = [status |-> "ACTIVE", job |-> db.employee.job,
                               version |-> read.employee.version + 1]
        BY <1>1 DEF Database, Employees
      <3>2. read.employee.version + 1 \in Nat
        BY <1>1 DEF Employees
      <3> HIDE DEF after
      <3> QED BY <1>1, <3>1, <3>2 DEF Employees
    <2>3. account \in Accounts /\ Completed(r) \in SUBSET LifecycleRequests
      BY <1>1, CompletedIsTyped DEF Accounts
    <2>4. /\ after.requests = Completed(r) /\ after.access = db.access /\ after.until = db.until
          /\ after.tasks = db.tasks /\ after \in Database
      BY <1>1, <2>2, <2>3 DEF Database
    <2>5. /\ Allowed(h, after) /\ after.keys = db.keys
          /\ after.center = db.center /\ after.purchases = db.purchases
      BY <1>1, <2>1, <2>2, <2>4
         DEF Allowed, EmployeeEffect, AccessEffect, RequestEffect, Database
    <2> QED BY <1>1, <2>5, SaveEffect
  <1> QED BY <1>2, <1>3, <1>4, <1>5, <1>6 DEF Onboarding

\* The steps of a transfer.
LEMMA TransferEffect ==
    ASSUME TypesHold, NEW h \in Handlers, Transfer(h)
    PROVE  Effect(h)
  <1> DEFINE c == txn[h].command
             read == txn[h].read
  <1> USE DEF Is
  <1>1. /\ txn[h] # None /\ c.op # Purchase
        /\ c \in CommandFields /\ c.job \in Jobs /\ c.bindings \subseteq Bindings
        /\ read \in Database /\ db \in Database /\ Package \in [Jobs -> SUBSET Bindings]
        /\ read.employee \in Employees /\ read.account \in Accounts /\ read.access \in Access
        /\ db.employee \in Employees /\ db.account \in Accounts /\ db.access \in Access
        /\ db.until \in Until
    BY Transaction, EnterpriseAssumption
       DEF Transfer, UpdateEmployeeAssignment, RevokeObsoleteBaselineAccess,
       GrantTargetBaselineAccess, CreateAssetAdjustmentTask,
       VerifyEmployeeTransferConsistency, CommandFields, Database, Purchase
  <1>2. CASE UpdateEmployeeAssignment(h)
    <2> DEFINE after == [db EXCEPT !.employee.job = c.job,
                                !.employee.version = read.employee.version + 1,
                                !.requests = Opened(c, "TRANSFER")]
    <2>1. AtWork(read) /\ Opened(c, "TRANSFER") \in SUBSET LifecycleRequests
      BY <1>1, <1>2, OpenedIsTyped DEF UpdateEmployeeAssignment, Reassignable
    <2>2. after.employee \in Employees /\ after.employee.status = db.employee.status
      <3>1. after.employee = [status |-> db.employee.status, job |-> c.job,
                               version |-> read.employee.version + 1]
        BY <1>1 DEF Database, Employees
      <3>2. read.employee.version + 1 \in Nat
        BY <1>1 DEF Employees
      <3> HIDE DEF after
      <3> QED BY <1>1, <3>1, <3>2 DEF Employees
    <2>3. /\ after.requests = Opened(c, "TRANSFER") /\ after.access = db.access /\ after.until = db.until
          /\ after.tasks = db.tasks /\ after \in Database
      BY <1>1, <2>1, <2>2 DEF Database
    <2>8. /\ Allowed(h, after) /\ after.keys = db.keys
          /\ after.center = db.center /\ after.purchases = db.purchases
      BY <1>1, <2>1, <2>2, <2>3
         DEF Allowed, EmployeeEffect, AccessEffect, RequestEffect, Database
    <2> QED BY <1>1, <1>2, <2>8, SaveEffect DEF UpdateEmployeeAssignment
  <1>3. CASE RevokeObsoleteBaselineAccess(h)
    <2> DEFINE after == [db EXCEPT !.access = Withdrawn(c.bindings)]
    <2>1. /\ Allowed(h, after) /\ after.keys = db.keys
          /\ after.center = db.center /\ after.purchases = db.purchases
      BY <1>1, <1>3
         DEF RevokeObsoleteBaselineAccess, Allowed, EmployeeEffect, AccessEffect,
         RequestEffect, Database, Withdrawn, Access, Revocable
    <2> QED BY <1>1, <1>3, <2>1, SaveEffect DEF RevokeObsoleteBaselineAccess
  <1>4. CASE GrantTargetBaselineAccess(h)
    <2> DEFINE after == [db EXCEPT !.access = Granted(read, c.bindings),
                            !.until = Dated(c.bindings, None)]
    <2>1. /\ Allowed(h, after) /\ after.keys = db.keys
          /\ after.center = db.center /\ after.purchases = db.purchases
      BY <1>1, <1>4
         DEF GrantTargetBaselineAccess, Allowed, EmployeeEffect, AccessEffect,
         RequestEffect, Database, Granted, Access, Grantable, Dated, Until
    <2> QED BY <1>1, <1>4, <2>1, SaveEffect DEF GrantTargetBaselineAccess
  <1>5. CASE CreateAssetAdjustmentTask(h)
    <2> DEFINE after == [db EXCEPT !.tasks = Tasked(c, "ADJUST", c.job)]
    <2>1. /\ Allowed(h, after) /\ after.keys = db.keys
          /\ after.center = db.center /\ after.purchases = db.purchases
      BY <1>1, <1>5, TaskedIsTyped
         DEF CreateAssetAdjustmentTask, Allowed, EmployeeEffect, AccessEffect,
         RequestEffect, Database
    <2> QED BY <1>1, <1>5, <2>1, SaveEffect DEF CreateAssetAdjustmentTask
  <1>6. CASE VerifyEmployeeTransferConsistency(h)
    <2> PICK r \in OpenRequests(read) : Save(h, [db EXCEPT !.requests = Completed(r)])
      BY <1>6 DEF VerifyEmployeeTransferConsistency, TransferConsistent, OpenOf
    <2> DEFINE after == [db EXCEPT !.requests = Completed(r)]
    <2>1. /\ Allowed(h, after) /\ after.keys = db.keys
          /\ after.center = db.center /\ after.purchases = db.purchases
      BY <1>1, CompletedIsTyped
         DEF Allowed, EmployeeEffect, AccessEffect, RequestEffect, Database
    <2> QED BY <1>1, <2>1, SaveEffect
  <1> QED BY <1>2, <1>3, <1>4, <1>5, <1>6 DEF Transfer

\* The steps of an offboarding.
LEMMA OffboardingEffect ==
    ASSUME TypesHold, NEW h \in Handlers, Offboarding(h)
    PROVE  Effect(h)
  <1> DEFINE c == txn[h].command
             read == txn[h].read
  <1> USE DEF Is
  <1>1. /\ txn[h] # None /\ c.op # Purchase
        /\ c \in CommandFields /\ c.job \in Jobs /\ c.bindings \subseteq Bindings
        /\ read \in Database /\ db \in Database /\ Package \in [Jobs -> SUBSET Bindings]
        /\ read.employee \in Employees /\ read.account \in Accounts /\ read.access \in Access
        /\ db.employee \in Employees /\ db.account \in Accounts /\ db.access \in Access
        /\ db.until \in Until
    BY Transaction, EnterpriseAssumption
       DEF Offboarding, DisableCorporateAccount, RevokeAllEmployeeAccess,
       CreateAssetReturnTask, MarkEmployeeInactive, VerifyEmployeeOffboardingConsistency,
       CommandFields, Database, Purchase
  <1>2. CASE DisableCorporateAccount(h)
    <2> DEFINE after == [db EXCEPT
          !.account = IF read.account.status = "ACTIVE"
                      THEN [status |-> "DISABLED", version |-> read.account.version + 1] ELSE @,
          !.requests = Opened(c, "OFFBOARDING")]
    <2>1. Opened(c, "OFFBOARDING") \in SUBSET LifecycleRequests
      BY <1>1, OpenedIsTyped
    <2>2. after.account \in Accounts
      BY <1>1 DEF Database, Accounts
    <2>3. /\ after.requests = Opened(c, "OFFBOARDING") /\ after.access = db.access /\ after.until = db.until
          /\ after.tasks = db.tasks /\ after.employee = db.employee /\ after \in Database
      BY <1>1, <2>1, <2>2 DEF Database
    <2>8. /\ Allowed(h, after) /\ after.keys = db.keys
          /\ after.center = db.center /\ after.purchases = db.purchases
      BY <1>1, <2>1, <2>2, <2>3
         DEF Allowed, EmployeeEffect, AccessEffect, RequestEffect, Database
    <2> QED BY <1>1, <1>2, <2>8, SaveEffect DEF DisableCorporateAccount
  <1>3. CASE RevokeAllEmployeeAccess(h)
    <2> DEFINE after == [db EXCEPT !.access = Withdrawn(c.bindings)]
    <2>1. /\ Allowed(h, after) /\ after.keys = db.keys
          /\ after.center = db.center /\ after.purchases = db.purchases
      BY <1>1, <1>3
         DEF RevokeAllEmployeeAccess, Allowed, EmployeeEffect, AccessEffect, RequestEffect,
         Database, Withdrawn, Access, AllRevocable
    <2> QED BY <1>1, <1>3, <2>1, SaveEffect DEF RevokeAllEmployeeAccess
  <1>4. CASE CreateAssetReturnTask(h)
    <2> DEFINE after == [db EXCEPT !.tasks = Tasked(c, "RETURN", read.employee.job)]
    <2>1. /\ Allowed(h, after) /\ after.keys = db.keys
          /\ after.center = db.center /\ after.purchases = db.purchases
      BY <1>1, <1>4, TaskedIsTyped
         DEF CreateAssetReturnTask, Allowed, EmployeeEffect, AccessEffect, RequestEffect,
         Database, Employees
    <2> QED BY <1>1, <1>4, <2>1, SaveEffect DEF CreateAssetReturnTask
  <1>5. CASE MarkEmployeeInactive(h)
    <2> DEFINE after == [db EXCEPT !.employee.status = "INACTIVE",
                                !.employee.version = read.employee.version + 1]
    <2>1. AtWork(read)
      BY <1>5 DEF MarkEmployeeInactive, Deactivatable
    <2>2. after.employee \in Employees /\ after.employee.status = "INACTIVE"
      <3>1. after.employee = [status |-> "INACTIVE", job |-> db.employee.job,
                               version |-> read.employee.version + 1]
        BY <1>1 DEF Database, Employees
      <3>2. read.employee.version + 1 \in Nat
        BY <1>1 DEF Employees
      <3> HIDE DEF after
      <3> QED BY <1>1, <3>1, <3>2 DEF Employees
    <2>3. /\ after.requests = db.requests /\ after.access = db.access /\ after.until = db.until
          /\ after.tasks = db.tasks /\ after \in Database
      BY <1>1, <2>2 DEF Database
    <2>8. /\ Allowed(h, after) /\ after.keys = db.keys
          /\ after.center = db.center /\ after.purchases = db.purchases
      BY <1>1, <2>1, <2>2, <2>3
         DEF Allowed, EmployeeEffect, AccessEffect, RequestEffect, Database
    <2> QED BY <1>1, <1>5, <2>8, SaveEffect DEF MarkEmployeeInactive
  <1>6. CASE VerifyEmployeeOffboardingConsistency(h)
    <2> PICK r \in OpenRequests(read) : Save(h, [db EXCEPT !.requests = Completed(r)])
      BY <1>6 DEF VerifyEmployeeOffboardingConsistency, OffboardingConsistent, OpenOf
    <2> DEFINE after == [db EXCEPT !.requests = Completed(r)]
    <2>1. /\ Allowed(h, after) /\ after.keys = db.keys
          /\ after.center = db.center /\ after.purchases = db.purchases
      BY <1>1, CompletedIsTyped
         DEF Allowed, EmployeeEffect, AccessEffect, RequestEffect, Database
    <2> QED BY <1>1, <2>1, SaveEffect
  <1> QED BY <1>2, <1>3, <1>4, <1>5, <1>6 DEF Offboarding

\* Application access, maintenance and purchases.
LEMMA OthersEffect ==
    ASSUME TypesHold, NEW h \in Handlers, Others(h)
    PROVE  Effect(h)
  <1> DEFINE c == txn[h].command
             read == txn[h].read
  <1> USE DEF Is
  <1>1. /\ txn[h] # None
        /\ c \in CommandFields /\ c.key \in Keys /\ c.bindings \subseteq Bindings
        /\ c \in Commands /\ c.amount \in Nat
        /\ read \in Database /\ db \in Database
        /\ read.equipment \in Equipment /\ db.access \in Access
        /\ db.until \in Until /\ c.days \in Nat /\ c.request \in Keys \cup {None}
        /\ db.accessRequests \subseteq AccessRequests /\ db.center \in CostCenters
    BY Transaction
       DEF Others, CreateAccessRequest, GrantApplicationAccess, CreateMaintenanceWorkOrder,
           CreateRequestAndReserveBudget, CommandFields, Database
  <1>2. CASE CreateAccessRequest(h)
    <2> DEFINE new == [id |-> c.request, bindings |-> c.bindings, days |-> c.days,
                       status |-> "CREATED"]
               after == [db EXCEPT !.accessRequests = @ \cup {new}]
    <2>1. c.request \in Keys
      BY <1>1, <1>2, EnterpriseAssumption DEF CreateAccessRequest
    <2>2. new \in AccessRequests
      BY <1>1, <2>1 DEF AccessRequests
    <2>3. /\ Allowed(h, after) /\ after.keys = db.keys
          /\ after.center = db.center /\ after.purchases = db.purchases
      BY <1>1, <2>2 DEF Allowed, EmployeeEffect, AccessEffect, RequestEffect, Database
    <2> QED BY <1>1, <1>2, <2>3, SaveEffect DEF CreateAccessRequest, Purchase
  <1>3. CASE GrantApplicationAccess(h)
    <2> DEFINE granted == {IF r.id = c.request THEN [r EXCEPT !.status = "GRANTED"] ELSE r :
                              r \in db.accessRequests}
    <2> PICK t \in txn[h].began .. now : Save(h, [db EXCEPT
             !.access = Granted(read, c.bindings),
             !.until = Dated(c.bindings \ InForce(read, t), t + c.days),
             !.accessRequests = granted])
      BY <1>3 DEF GrantApplicationAccess
    <2> DEFINE after == [db EXCEPT !.access = Granted(read, c.bindings),
                                   !.until = Dated(c.bindings \ InForce(read, t), t + c.days),
                                   !.accessRequests = granted]
    <2>1. granted \subseteq AccessRequests
      <3>1. \A r \in AccessRequests : [r EXCEPT !.status = "GRANTED"] \in AccessRequests
        BY DEF AccessRequests
      <3> QED BY <1>1, <3>1
    <2>2. /\ Granted(read, c.bindings) \in Access
          /\ Dated(c.bindings \ InForce(read, t), t + c.days) \in Until
      <3>1. t + c.days \in Nat
        BY <1>1, Transaction
      <3> QED BY <1>1, <3>1 DEF Granted, Access, Dated, Until
    <2> HIDE DEF granted
    <2>3. /\ Allowed(h, after) /\ after.keys = db.keys
          /\ after.center = db.center /\ after.purchases = db.purchases
      BY <1>1, <1>3, <2>1, <2>2
         DEF GrantApplicationAccess, Allowed, EmployeeEffect, AccessEffect, RequestEffect, Database,
            AccessGrantable
    <2> QED BY <1>1, <1>3, <2>3, SaveEffect DEF GrantApplicationAccess, Purchase
  <1>4. CASE CreateMaintenanceWorkOrder(h)
    <2> DEFINE after == [db EXCEPT !.orders = @ \cup {c.key},
                            !.equipment = [status |-> "MAINTENANCE_PENDING",
                                           version |-> read.equipment.version + 1]]
    <2>1. after.equipment \in Equipment /\ after.orders \subseteq Keys
      BY <1>1 DEF Database, Equipment
    <2>2. /\ after.requests = db.requests /\ after.access = db.access /\ after.until = db.until
          /\ after.tasks = db.tasks /\ after.employee = db.employee /\ after \in Database
      BY <1>1, <2>1 DEF Database
    <2>3. /\ Allowed(h, after) /\ after.keys = db.keys
          /\ after.center = db.center /\ after.purchases = db.purchases
      BY <1>1, <2>2 DEF Allowed, EmployeeEffect, AccessEffect, RequestEffect, Database
    <2> QED BY <1>1, <1>4, <2>3, SaveEffect DEF CreateMaintenanceWorkOrder, Purchase
  <1>5. CASE CreateRequestAndReserveBudget(h)
    <2> DEFINE center == [reserved |-> db.center.reserved + c.amount,
                          version |-> db.center.version + 1]
    <2>0. center \in CostCenters
      BY <1>1 DEF CostCenters
    <2>1. /\ db' = [db EXCEPT !.center = center, !.purchases = @ \cup {c}]
          /\ UNCHANGED <<offered, now>> /\ txn' = [txn EXCEPT ![h] = None]
      BY <1>5 DEF CreateRequestAndReserveBudget
    <2> HIDE DEF center
    <2>3. /\ db' \in Database
          /\ db'.employee = db.employee /\ db'.access = db.access /\ db'.until = db.until
          /\ db'.requests = db.requests /\ db'.tasks = db.tasks
      BY <1>1, <2>0, <2>1 DEF Database
    <2>2. KeyEffect(h)
      BY <1>1, <1>5 DEF CreateRequestAndReserveBudget, KeyEffect, Database, CostCenters, Purchase,
         Purchasable
    <2> QED BY <1>1, <2>1, <2>2, <2>3
            DEF Effect, Allowed, EmployeeEffect, AccessEffect, RequestEffect
  <1> QED BY <1>2, <1>3, <1>4, <1>5 DEF Others

-----------------------------------------------------------------------------
(* Types, and the two facts on steps the rest is proved from.                *)

LEMMA EveryStep ==
    ASSUME TypesHold, Next
    PROVE  \/ Tick
           \/ \E h \in Handlers : \E c \in offered : Begin(h, c)
           \/ \E h \in Handlers : Rollback(h)
           \/ \E h \in Handlers : Effect(h)
  BY OnboardingEffect, TransferEffect, OffboardingEffect, OthersEffect DEF Next

LEMMA TypesKept == TypesHold /\ [Next]_vars => TypesHold'
  <1> SUFFICES ASSUME TypesHold, [Next]_vars PROVE TypesHold'
    OBVIOUS
  <1> USE DEF TypesHold, TypeOK, Offered
  <1>1. CASE UNCHANGED vars
    BY <1>1 DEF vars
  <1>2. ASSUME NEW h \in Handlers, NEW c \in offered, Begin(h, c) PROVE TypesHold'
    <2>1. [command |-> c, read |-> db, began |-> now] \in Records /\ c \in Commands
      BY DEF Records, Commands
    <2> QED BY <1>2, <2>1 DEF Begin, Records
  <1>3. ASSUME NEW h \in Handlers, Rollback(h) PROVE TypesHold'
    BY <1>3 DEF Rollback
  <1>4. ASSUME NEW h \in Handlers, Effect(h) PROVE TypesHold'
    BY <1>4 DEF Effect, Allowed
  <1>5. ASSUME Tick PROVE TypesHold'
    BY <1>5 DEF Tick
  <1> QED BY <1>1, <1>2, <1>3, <1>4, <1>5, EveryStep

\* The database stands, or a transaction has its effect on it.
LEMMA Writes ==
    ASSUME TypesHold, [Next]_vars
    PROVE  db' = db \/ \E h \in Handlers : Effect(h)
  BY EveryStep DEF vars, Begin, Rollback, Tick

\* A snapshot is taken of the committed database, and kept.
LEMMA Snapshots ==
    ASSUME TypesHold, [Next]_vars, NEW g \in Handlers, (txn[g] # None)'
    PROVE  \/ txn[g] # None /\ txn'[g] = txn[g]
           \/ \E c \in offered : /\ ReadBefore(c) /\ db' = db
                                 /\ now' = now
                                 /\ txn'[g] = [command |-> c, read |-> db, began |-> now]
  <1> USE DEF TypesHold, TypeOK
  <1>1. CASE UNCHANGED vars
    BY <1>1 DEF vars
  <1>2. ASSUME NEW h \in Handlers, NEW c \in offered, Begin(h, c)
        PROVE  \/ txn[g] # None /\ txn'[g] = txn[g]
               \/ /\ ReadBefore(c) /\ db' = db /\ now' = now
                  /\ txn'[g] = [command |-> c, read |-> db, began |-> now]
    BY <1>2 DEF Begin
  <1>3. ASSUME NEW h \in Handlers, Rollback(h) PROVE txn[g] # None /\ txn'[g] = txn[g]
    BY <1>3 DEF Rollback
  <1>4. ASSUME NEW h \in Handlers, Effect(h) PROVE txn[g] # None /\ txn'[g] = txn[g]
    BY <1>4 DEF Effect
  <1>5. ASSUME Tick PROVE txn[g] # None /\ txn'[g] = txn[g]
    BY <1>5 DEF Tick
  <1> QED BY <1>1, <1>2, <1>3, <1>4, <1>5, EveryStep

\* Whatever is written, the state stays in the types that TLC's runs use.
THEOREM EnterpriseTypes == Spec => []TypeOK
  <1>1. TypesHold => TypeOK
    BY DEF TypesHold
  <1> QED BY <1>1, InitTypes, TypesKept, PTL DEF Spec

-----------------------------------------------------------------------------
(* Purchases: the snapshot is checked, the row of the cost centre decides.   *)

\* Every reservation raises the version of the cost centre, and a command is
\* sent with a version that was read before its transaction began.
Behind(h) ==
    LET read == txn[h].read IN
    /\ read.center.version <= db.center.version
    /\ read.center.version = db.center.version =>
         read.center = db.center /\ read.purchases = db.purchases
    /\ txn[h].command.op = Purchase => txn[h].command.version <= read.center.version

Reserved == db.center.reserved <= Budget

PurchaseInv ==
    /\ Reserved /\ NoSimilarPurchases
    /\ \A h \in Handlers : txn[h] # None => Behind(h)

LEMMA InitPurchases == Init => PurchaseInv
  <1> SUFFICES ASSUME Init PROVE PurchaseInv
    OBVIOUS
  <1>1. db.center = [reserved |-> 0, version |-> 1] /\ db.purchases = {}
    BY InitIsSeeded DEF Seeded
  <1> QED BY <1>1, EnterpriseAssumption DEF Init, PurchaseInv, Reserved, NoSimilarPurchases

LEMMA PurchasesKept == TypesHold /\ PurchaseInv /\ [Next]_vars => PurchaseInv'
  <1> SUFFICES ASSUME TypesHold, PurchaseInv, [Next]_vars PROVE PurchaseInv'
    OBVIOUS
  <1>1. /\ db.center.version \in Nat /\ db.center.reserved \in Nat
        /\ \A h \in Handlers : txn[h] # None =>
              /\ txn[h].read.center.version \in Nat
              /\ txn[h].command.version \in Nat /\ txn[h].command.amount \in Nat
    BY Transaction DEF TypesHold, TypeOK, Database, CostCenters, CommandFields
  <1>2. /\ (Reserved /\ NoSimilarPurchases)'
        /\ \/ db'.center = db.center /\ db'.purchases = db.purchases
           \/ db'.center.version = db.center.version + 1
    <2>1. CASE db' = db
      BY <2>1 DEF PurchaseInv, Reserved, NoSimilarPurchases
    <2>2. ASSUME NEW h \in Handlers, Effect(h), txn[h].command.op # Purchase
          PROVE  db'.center = db.center /\ db'.purchases = db.purchases
      BY <2>2 DEF Effect, KeyEffect
    <2>3. ASSUME NEW h \in Handlers, Effect(h), txn[h].command.op = Purchase
          PROVE  (Reserved /\ NoSimilarPurchases)' /\ db'.center.version = db.center.version + 1
      <3> DEFINE c == txn[h].command
      <3>1. /\ txn[h] # None /\ Reservable(c, db) /\ NoSimilarPurchase(c, txn[h].read)
            /\ db'.purchases = db.purchases \cup {c}
            /\ db'.center = [reserved |-> db.center.reserved + c.amount,
                             version |-> db.center.version + 1]
        BY <2>3 DEF Effect, KeyEffect
      <3>2. Reserved'
        BY <1>1, <3>1, EnterpriseAssumption DEF Reservable, Reserved
      \* The version is the one of the snapshot: it shows the purchases there are.
      <3>3. txn[h].read.purchases = db.purchases
        BY <1>1, <2>3, <3>1 DEF PurchaseInv, Behind, Reservable
      <3>4. NoSimilarPurchases'
        BY <3>1, <3>3 DEF PurchaseInv, NoSimilarPurchases, NoSimilarPurchase
      <3> QED BY <3>1, <3>2, <3>4
    <2>4. CASE db'.center = db.center /\ db'.purchases = db.purchases
      BY <2>4 DEF PurchaseInv, Reserved, NoSimilarPurchases
    <2> QED BY <2>1, <2>2, <2>3, <2>4, Writes
  <1>3. ASSUME NEW g \in Handlers, (txn[g] # None)' PROVE Behind(g)'
    <2>1. CASE txn[g] # None /\ txn'[g] = txn[g]
      BY <1>1, <1>2, <2>1 DEF PurchaseInv, Behind
    <2>2. ASSUME NEW c \in offered, ReadBefore(c), db' = db,
                 txn'[g] = [command |-> c, read |-> db, began |-> now]
          PROVE  Behind(g)'
      BY <1>1, <2>2 DEF ReadBefore, Behind, Purchase
    <2> QED BY <1>3, <2>1, <2>2, Snapshots
  <1> QED BY <1>2, <1>3 DEF PurchaseInv

-----------------------------------------------------------------------------
(* Sums.  SumFunction is a recursive function over the subsets of its       *)
(* domain; an induction over them is an argument about a smallest one.      *)

\* A set of naturals that is not empty has a smallest element.
LEMMA SmallestIn ==
    ASSUME NEW N \in SUBSET Nat, N # {}
    PROVE  \E n \in N : \A m \in N : n <= m
  <1>1. PICK n \in N : \A m \in N : ~ (<<m, n>> \in OpToRel(<, Nat))
    BY NatLessThanWellFounded, WFMin, Zenon
  <1>2. ASSUME NEW m \in N, m < n PROVE <<m, n>> \in OpToRel(<, Nat)
    <2>1. <<m, n>> \in Nat \X Nat
      OBVIOUS
    <2> QED BY <2>1, <1>2 DEF OpToRel
  <1>3. \A m \in N : ~ (m < n)
    BY <1>1, <1>2, Zenon
  <1> QED BY <1>3

\* If some subset of a finite set is bad, there is a bad one that is good
\* without any of its elements.
LEMMA SmallestBad ==
    ASSUME NEW S, IsFiniteSet(S), NEW Bad \in SUBSET SUBSET S, Bad # {}
    PROVE  \E T \in Bad : \A x \in T : T \ {x} \notin Bad
  <1> DEFINE N == {Cardinality(T) : T \in Bad}
  <1>1. \A T \in SUBSET S : IsFiniteSet(T) /\ Cardinality(T) \in Nat
    BY FS_Subset, FS_CardinalityType
  <1>2. PICK n \in N : \A m \in N : n <= m
    <2>1. N \in SUBSET Nat /\ N # {}
      BY <1>1
    <2> QED BY <2>1, SmallestIn
  <1>3. PICK T \in Bad : n = Cardinality(T)
    BY <1>2
  <1>4. ASSUME NEW x \in T, T \ {x} \in Bad PROVE FALSE
    <2>1. Cardinality(T \ {x}) = Cardinality(T) - 1 /\ Cardinality(T) \in Nat
      BY <1>1, FS_RemoveElement
    <2>2. Cardinality(T \ {x}) \in N
      BY <1>4
    <2>3. n <= Cardinality(T \ {x})
      BY <2>2, <1>2
    <2> HIDE DEF N
    <2> QED BY <2>1, <2>3, <1>3
  <1> QED BY <1>4

\* The equation of the recursion, for the sets in D.
Pick(s) == CHOOSE x \in s : TRUE
Unfold(f, g, s) == IF s = {} THEN 0 ELSE f[Pick(s)] + g[s \ {Pick(s)}]
IsFold(f, D, g) == g = [s \in D |-> Unfold(f, g, s)]

\* It has a solution: one for the sets of up to n elements gives one for n + 1.
LEMMA FoldExists ==
    ASSUME NEW f, NEW S, IsFiniteSet(S)
    PROVE  \E g : IsFold(f, SUBSET S, g)
  <1> DEFINE Small(n) == {s \in SUBSET S : Cardinality(s) <= n}
             N == {n \in Nat : ~ \E g : IsFold(f, Small(n), g)}
  <1>1. \A T \in SUBSET S : IsFiniteSet(T) /\ Cardinality(T) \in Nat
    BY FS_Subset, FS_CardinalityType
  <1>2. SUFFICES ASSUME N # {} PROVE FALSE
    <2>1. Small(Cardinality(S)) = SUBSET S
      BY FS_Subset
    <2>2. Cardinality(S) \in Nat
      BY <1>1
    <2> QED BY <1>2, <2>1, <2>2
  <1>3. PICK n \in N : \A m \in N : n <= m
    BY <1>2, SmallestIn
  <1>4. CASE n = 0
    <2> DEFINE g == [s \in Small(0) |-> 0]
    <2>1. \A s \in Small(0) : s = {}
      BY <1>1, FS_EmptySet
    <2>2. g = [s \in Small(0) |-> Unfold(f, g, s)]
      BY <2>1 DEF Unfold
    <2> QED BY <2>2, <1>3, <1>4 DEF IsFold
  <1>5. CASE n # 0
    <2>1. n \in Nat /\ n - 1 \in Nat
      BY <1>5
    <2>2. n - 1 \notin N
      <3> SUFFICES ASSUME n - 1 \in N PROVE FALSE
        OBVIOUS
      <3>1. n <= n - 1
        BY <1>3
      <3> QED BY <2>1, <3>1
    <2>3. PICK g : IsFold(f, Small(n - 1), g)
      BY <2>1, <2>2
    <2> DEFINE h == [s \in Small(n) |-> Unfold(f, g, s)]
    <2>4. ASSUME NEW s \in Small(n), s # {}
          PROVE  s \ {Pick(s)} \in Small(n - 1) /\ s \ {Pick(s)} \in Small(n)
      <3>1. Pick(s) \in s
        BY <2>4 DEF Pick
      <3>2. Cardinality(s \ {Pick(s)}) = Cardinality(s) - 1
        BY <3>1, <1>1, FS_RemoveElement
      <3> QED BY <3>1, <3>2, <1>1
    <2>5. \A s \in Small(n - 1) : g[s] = Unfold(f, g, s)
      BY <2>3 DEF IsFold
    <2>6. \A s \in Small(n) : Unfold(f, g, s) = Unfold(f, h, s)
      BY <2>4, <2>5 DEF Unfold
    <2>7. IsFold(f, Small(n), h)
      BY <2>6 DEF IsFold
    <2> QED BY <2>7, <1>3
  <1> QED BY <1>4, <1>5

LEMMA SumIsFold ==
    ASSUME NEW f, NEW S, IsFiniteSet(S)
    PROVE  \E g : IsFold(f, SUBSET S, g) /\ SumFunctionOnSet(f, S) = g[S]
  <1>1. PICK g : IsFold(f, SUBSET S, g)
    BY FoldExists
  <1> QED BY <1>1 DEF SumFunctionOnSet, FoldFunctionOnSet, MapThenFoldSet, IsFold, Unfold, Pick

\* The order in which the elements are taken makes no difference.
LEMMA FoldAdds ==
    ASSUME NEW S, IsFiniteSet(S), NEW f, \A x \in S : f[x] \in Nat,
           NEW g, IsFold(f, SUBSET S, g)
    PROVE  g[S] \in Nat /\ \A x \in S : g[S] = f[x] + g[S \ {x}]
  <1>1. \A T \in SUBSET S : g[T] = Unfold(f, g, T)
    BY DEF IsFold
  <1>2. \A T \in SUBSET S : g[T] \in Nat
    <2> DEFINE Bad == {T \in SUBSET S : g[T] \notin Nat}
    <2> SUFFICES ASSUME Bad # {} PROVE FALSE
      OBVIOUS
    <2>1. PICK T \in Bad : \A x \in T : T \ {x} \notin Bad
      BY SmallestBad
    <2>2. T # {}
      <3>1. g[{}] = 0
        BY <1>1 DEF Unfold
      <3> QED BY <3>1
    <2>3. Pick(T) \in T
      BY <2>2 DEF Pick
    <2>4. g[T \ {Pick(T)}] \in Nat
      BY <2>1, <2>3
    <2> QED BY <1>1, <2>2, <2>3, <2>4 DEF Unfold
  <1>3. \A T \in SUBSET S : \A x \in T : g[T] = f[x] + g[T \ {x}]
    <2> DEFINE Bad == {T \in SUBSET S : \E x \in T : g[T] # f[x] + g[T \ {x}]}
    <2> SUFFICES ASSUME Bad # {} PROVE FALSE
      OBVIOUS
    <2>1. PICK T \in Bad : \A x \in T : T \ {x} \notin Bad
      BY SmallestBad
    <2>2. PICK x \in T : g[T] # f[x] + g[T \ {x}]
      BY <2>1
    <2> DEFINE y == Pick(T)
    <2>3. y \in T
      BY <2>2 DEF Pick
    <2>4. g[T] = f[y] + g[T \ {y}]
      BY <1>1, <2>3 DEF Unfold
    <2>5. x # y
      BY <2>2, <2>4
    <2>6. T \ {y} \notin Bad /\ T \ {x} \notin Bad
      BY <2>1, <2>3
    <2>7. (T \ {x}) \ {y} = (T \ {y}) \ {x}
      OBVIOUS
    <2>8. g[T \ {y}] = f[x] + g[(T \ {y}) \ {x}]
      BY <2>5, <2>6
    <2>9. g[T \ {x}] = f[y] + g[(T \ {y}) \ {x}]
      BY <2>3, <2>5, <2>6, <2>7
    <2>10. g[(T \ {y}) \ {x}] \in Nat /\ f[x] \in Nat /\ f[y] \in Nat
      BY <1>2, <2>3
    <2> HIDE DEF y, Bad
    <2> QED BY <2>2, <2>4, <2>8, <2>9, <2>10
  <1> QED BY <1>2, <1>3

\* The sum of no numbers, or of zeros.
LEMMA SumOfZeros ==
    ASSUME NEW S, IsFiniteSet(S), NEW f, \A x \in S : f[x] = 0
    PROVE  SumFunctionOnSet(f, S) = 0
  <1>1. PICK g : IsFold(f, SUBSET S, g) /\ SumFunctionOnSet(f, S) = g[S]
    BY SumIsFold
  <1>2. \A T \in SUBSET S : g[T] = Unfold(f, g, T)
    BY <1>1 DEF IsFold
  <1> DEFINE Bad == {T \in SUBSET S : g[T] # 0}
  <1> SUFFICES ASSUME Bad # {} PROVE FALSE
    BY <1>1
  <1>3. PICK T \in Bad : \A x \in T : T \ {x} \notin Bad
    BY SmallestBad
  <1>4. T # {}
    BY <1>2 DEF Unfold
  <1>5. Pick(T) \in T
    BY <1>4 DEF Pick
  <1>6. g[T \ {Pick(T)}] = 0 /\ f[Pick(T)] = 0
    BY <1>3, <1>5
  <1>7. g[T] = f[Pick(T)] + g[T \ {Pick(T)}]
    BY <1>2, <1>4 DEF Unfold
  <1> QED BY <1>6, <1>7

\* One more element adds its number.
LEMMA SumAdds ==
    ASSUME NEW S, IsFiniteSet(S), NEW f, \A x \in S : f[x] \in Nat, NEW x \in S,
           NEW h, \A y \in S \ {x} : f[y] = h[y]
    PROVE  SumFunctionOnSet(f, S) = f[x] + SumFunctionOnSet(h, S \ {x})
  <1>1. PICK R : R = S \ {x}
    OBVIOUS
  <1>2. IsFiniteSet(R) /\ R \in SUBSET S
    BY <1>1, FS_RemoveElement
  <1>3. PICK g : IsFold(f, SUBSET S, g) /\ SumFunctionOnSet(f, S) = g[S]
    BY SumIsFold
  <1>4. PICK k : IsFold(h, SUBSET R, k) /\ SumFunctionOnSet(h, R) = k[R]
    BY <1>2, SumIsFold
  <1>5. g[R] = k[R]
    <2> DEFINE Bad == {T \in SUBSET R : g[T] # k[T]}
    <2> SUFFICES ASSUME Bad # {} PROVE FALSE
      OBVIOUS
    <2>1. PICK T \in Bad : \A y \in T : T \ {y} \notin Bad
      BY <1>2, SmallestBad
    <2>2. g[T] = Unfold(f, g, T) /\ k[T] = Unfold(h, k, T)
      BY <1>2, <1>3, <1>4 DEF IsFold
    <2>3. T # {}
      BY <2>1, <2>2 DEF Unfold
    <2>4. Pick(T) \in T
      BY <2>3 DEF Pick
    <2>5. g[T \ {Pick(T)}] = k[T \ {Pick(T)}]
      BY <2>1, <2>4
    <2>6. f[Pick(T)] = h[Pick(T)]
      BY <1>1, <2>4
    <2> QED BY <2>1, <2>2, <2>3, <2>5, <2>6 DEF Unfold
  <1>6. g[S] = f[x] + g[S \ {x}]
    BY <1>3, FoldAdds
  <1> QED BY <1>1, <1>3, <1>4, <1>5, <1>6

-----------------------------------------------------------------------------
(* The balance: each purchase adds its amount to what is reserved.           *)

Balanced ==
    /\ IsFiniteSet(db.purchases)
    /\ db.center.reserved = SumFunction([p \in db.purchases |-> p.amount])

LEMMA InitBalanced == Init => Balanced
  <1> SUFFICES ASSUME Init PROVE Balanced
    OBVIOUS
  <1>1. db.center.reserved = 0 /\ db.purchases = {}
    BY InitIsSeeded DEF Seeded
  <1>2. IsFiniteSet({})
    BY FS_EmptySet
  <1>3. SumFunctionOnSet([p \in {} |-> p.amount], {}) = 0
    BY <1>2, SumOfZeros
  <1> QED BY <1>1, <1>2, <1>3 DEF Balanced, SumFunction

\* A purchase that is not among the others is one more amount.
LEMMA PurchaseAdds ==
    ASSUME NEW P \in SUBSET Commands, IsFiniteSet(P), NEW c \in Commands, c \notin P
    PROVE  /\ IsFiniteSet(P \cup {c})
           /\ SumFunction([p \in P \cup {c} |-> p.amount])
                 = c.amount + SumFunction([p \in P |-> p.amount])
  <1> DEFINE Q == P \cup {c}
             f == [p \in Q |-> p.amount]
             h == [p \in P |-> p.amount]
  <1>1. IsFiniteSet(Q)
    BY FS_AddElement
  <1>2. \A p \in Q : f[p] \in Nat
    BY EnterpriseAssumption DEF CommandFields
  <1>3. c \in Q /\ Q \ {c} = P /\ f[c] = c.amount
    OBVIOUS
  <1>4. \A p \in Q \ {c} : f[p] = h[p]
    BY <1>3
  <1>5. DOMAIN f = Q /\ DOMAIN h = P
    OBVIOUS
  <1> HIDE DEF Q, f, h
  <1>6. SumFunctionOnSet(f, Q) = f[c] + SumFunctionOnSet(h, Q \ {c})
    BY <1>1, <1>2, <1>3, <1>4, SumAdds
  <1>7. SumFunction(f) = c.amount + SumFunction(h)
    BY <1>3, <1>5, <1>6 DEF SumFunction
  <1> QED BY <1>1, <1>7 DEF Q, f, h

\* The insert fails on a key that is there: a purchase is never counted twice.
LEMMA BalanceKept == TypesHold /\ Balanced /\ [Next]_vars => Balanced'
  <1> SUFFICES ASSUME TypesHold, Balanced, [Next]_vars PROVE Balanced'
    OBVIOUS
  <1>1. CASE db' = db
    BY <1>1 DEF Balanced
  <1>2. ASSUME NEW h \in Handlers, Effect(h), txn[h].command.op # Purchase
        PROVE  Balanced'
    <2>1. db'.center = db.center /\ db'.purchases = db.purchases
      BY <1>2 DEF Effect, KeyEffect
    <2> QED BY <2>1 DEF Balanced
  <1>3. ASSUME NEW h \in Handlers, Effect(h), txn[h].command.op = Purchase
        PROVE  Balanced'
    <2> DEFINE c == txn[h].command
    <2>1. /\ txn[h] # None /\ NotPurchased(c, db)
          /\ db'.purchases = db.purchases \cup {c}
          /\ db'.center.reserved = db.center.reserved + c.amount
      BY <1>3 DEF Effect, KeyEffect
    <2>2. /\ c \in Commands /\ c.amount \in Nat
          /\ db.purchases \in SUBSET Commands /\ db.center.reserved \in Nat
      BY <2>1, Transaction DEF Database, CostCenters, CommandFields
    <2>3. c \notin db.purchases
      BY <2>1 DEF NotPurchased
    <2>4. PICK P : P = db.purchases
      OBVIOUS
    <2> HIDE DEF c
    <2>5. /\ IsFiniteSet(P \cup {c})
          /\ SumFunction([p \in P \cup {c} |-> p.amount])
                = c.amount + SumFunction([p \in P |-> p.amount])
      BY <2>2, <2>3, <2>4, PurchaseAdds DEF Balanced
    <2> QED BY <2>1, <2>2, <2>4, <2>5 DEF Balanced
  <1> QED BY <1>1, <1>2, <1>3, Writes

\* However many purchases were checked against the same remaining budget, what
\* is reserved is what they cost together, and never more than the budget.
THEOREM BudgetAlwaysBalances == Spec => []BudgetBalances
  <1>1. PurchaseInv /\ Balanced => BudgetBalances
    BY DEF PurchaseInv, Reserved, Balanced, BudgetBalances
  <1> QED BY <1>1, InitTypes, TypesKept, InitPurchases, PurchasesKept, InitBalanced,
             BalanceKept, PTL DEF Spec

\* No two purchases of one requester name the same item, although the check for a
\* similar one reads a snapshot.
THEOREM PurchasesDiffer == Spec => []NoSimilarPurchases
  <1>1. PurchaseInv => NoSimilarPurchases
    BY DEF PurchaseInv
  <1> QED BY <1>1, InitTypes, TypesKept, InitPurchases, PurchasesKept, PTL DEF Spec

-----------------------------------------------------------------------------
(* Keys: a key is recorded once, and it names one command.                   *)

Known ==
    /\ db.keys \subseteq {c.key : c \in {d \in offered : d.op # Purchase}}
    /\ db.purchases \subseteq {d \in offered : d.op = Purchase}

LEMMA InitKnown == Init => Known
  BY InitIsSeeded DEF Seeded, Known

LEMMA KnownKept == TypesHold /\ Known /\ [Next]_vars => Known'
  <1> SUFFICES ASSUME TypesHold, Known, [Next]_vars PROVE Known'
    OBVIOUS
  <1>1. offered' = offered
    BY EveryStep DEF vars, Begin, Rollback, Tick, Effect
  <1>2. CASE db' = db
    BY <1>1, <1>2 DEF Known
  <1>3. ASSUME NEW h \in Handlers, Effect(h) PROVE Known'
    <2>1. txn[h].command \in offered
      BY <1>3, Transaction DEF Effect
    <2> QED BY <1>1, <1>3, <2>1 DEF Effect, KeyEffect, Known
  <1> QED BY <1>2, <1>3, Writes

\* What the scenarios give: a key names one of the commands offered.
LEMMA OneCommandPerKey ==
    ASSUME TypesHold
    PROVE  \A c, d \in offered :
              c.key = d.key \/ (c.op = Activation /\ d.op = c.op) => c = d
  <1>1. PICK s \in Scenarios : offered = s.offered
    BY DEF TypesHold, TypeOK
  <1> QED BY <1>1, CommandAssumption DEF Activation

\* The key of a write is new, in its snapshot too.
LEMMA KeyOfEffect ==
    ASSUME TypesHold, Known, NEW h \in Handlers, Effect(h)
    PROVE  /\ txn[h].command.key \notin CarriedOut(db)
           /\ CarriedOut(db') = CarriedOut(db) \cup {txn[h].command.key}
  <1> DEFINE c == txn[h].command
  <1>1. c \in offered
    BY Transaction DEF Effect
  <1>2. \A d \in offered : d.key = c.key => d = c
    <2> HIDE DEF c
    <2> QED BY <1>1, OneCommandPerKey
  <1>3. CarriedOut(db') = CarriedOut(db) \cup {c.key}
    BY DEF Effect, KeyEffect, CarriedOut
  <1>4. CASE c.op # Purchase
    <2>1. c.key \notin db.keys
      BY <1>4 DEF Effect, KeyEffect
    <2>2. ASSUME NEW p \in db.purchases, p.key = c.key PROVE FALSE
      <3>1. p \in offered /\ p.op = Purchase
        BY DEF Known
      <3>2. p = c
        BY <1>2, <2>2, <3>1
      <3> QED BY <1>4, <3>1, <3>2
    <2> QED BY <1>3, <2>1, <2>2 DEF CarriedOut
  <1>5. CASE c.op = Purchase
    <2>1. \A p \in db.purchases : p.key # c.key
      BY <1>5 DEF Effect, KeyEffect, NotPurchased
    <2>2. ASSUME c.key \in db.keys PROVE FALSE
      <3>1. PICK d \in offered : d.op # Purchase /\ d.key = c.key
        BY <2>2 DEF Known
      <3>2. d = c
        BY <1>2, <3>1
      <3> QED BY <1>5, <3>1, <3>2
    <2> QED BY <1>3, <2>1, <2>2 DEF CarriedOut
  <1> QED BY <1>4, <1>5

LEMMA NewKey ==
    ASSUME TypesHold, Known, [Next]_vars, db' # db
    PROVE  \E k \in Keys \ CarriedOut(db) : CarriedOut(db') = CarriedOut(db) \cup {k}
  <1>1. PICK h \in Handlers : Effect(h)
    BY Writes
  <1>2. txn[h].command.key \in Keys
    BY <1>1, Transaction DEF Effect, CommandFields
  <1> QED BY <1>1, <1>2, KeyOfEffect

\* Every change of the database is one command whose key was never used before.
THEOREM KeysActOnce == Spec => OncePerKey
  <1>1. TypesHold /\ Known /\ [Next]_vars =>
          [db' # db => \E k \in Keys \ CarriedOut(db) :
                          CarriedOut(db') = CarriedOut(db) \cup {k}]_vars
    BY NewKey
  <1> QED BY <1>1, InitTypes, TypesKept, InitKnown, KnownKept, PTL DEF Spec, OncePerKey

-----------------------------------------------------------------------------
(* Employees: what a snapshot says of the employee is at most too early.     *)

Rank == [s \in {"NONE", "PENDING_ONBOARDING", "ACTIVE", "INACTIVE"} |->
            CASE s = "NONE" -> 0 [] s = "PENDING_ONBOARDING" -> 1
              [] s = "ACTIVE" -> 2 [] s = "INACTIVE" -> 3]

\* One activation was carried out: there is no other, and its key is used.
Activated == \E c \in offered : c.op = Activation /\ c.key \in db.keys

Earlier(read) ==
    /\ Rank[read.employee.status] <= Rank[db.employee.status]
    /\ Pending(read) => Pending(db) \/ Activated

EmployeeInv == \A h \in Handlers : txn[h] # None => Earlier(txn[h].read)

\* What becomes of the employee when the snapshots are at most too early.
Advance ==
    <<db.employee.status, db'.employee.status>> \in
        {<<"NONE", "PENDING_ONBOARDING">>, <<"PENDING_ONBOARDING", "ACTIVE">>,
         <<"ACTIVE", "INACTIVE">>}

LEMMA Ranks ==
    ASSUME TypesHold
    PROVE  /\ db.employee \in Employees
           /\ \A h \in Handlers : txn[h] # None => txn[h].read.employee \in Employees
           /\ \A e \in Employees : Rank[e.status] \in 0..3
  BY Transaction DEF TypesHold, TypeOK, Database, Employees, Rank

LEMMA EmployeeStep ==
    ASSUME TypesHold, EmployeeInv, NEW h \in Handlers, Effect(h)
    PROVE  \/ db'.employee = db.employee
           \/ db'.employee.status = db.employee.status /\ ~Pending(db)
           \/ /\ Advance
              /\ Pending(db) => /\ txn[h].command.op = Activation
                                /\ db'.employee.job = db.employee.job
  <1> DEFINE read == txn[h].read
             c == txn[h].command
  <1>1. /\ txn[h] # None /\ c \in offered /\ EmployeeEffect(h, db') /\ KeyEffect(h)
        /\ db'.employee \in Employees /\ db.employee \in Employees
        /\ read.employee \in Employees /\ Earlier(read)
    BY Ranks, Transaction DEF Effect, Allowed, Database, EmployeeInv
  <1>2. CASE db.employee.status = "NONE" /\ db'.employee.status = "PENDING_ONBOARDING"
    BY <1>2 DEF Advance, Pending
  <1>3. CASE /\ c.op = Activation /\ Pending(read)
             /\ db'.employee.status = "ACTIVE" /\ db'.employee.job = db.employee.job
    <2>1. c.key \notin db.keys
      BY <1>1, <1>3 DEF KeyEffect, Activation, Purchase
    <2>2. ~Activated
      BY <1>1, <1>3, <2>1, OneCommandPerKey DEF Activated
    <2>3. Pending(db)
      BY <1>1, <1>3, <2>2 DEF Earlier
    <2> QED BY <1>3, <2>3 DEF Advance, Pending
  <1>4. CASE AtWork(read) /\ db'.employee.status \in {db.employee.status, "INACTIVE"}
    <2>1. db.employee.status \in {"ACTIVE", "INACTIVE"}
      BY <1>1, <1>4 DEF Earlier, AtWork, Rank, Employees
    <2> QED BY <1>4, <2>1 DEF Advance, Pending
  <1> QED BY <1>1, <1>2, <1>3, <1>4 DEF EmployeeEffect

LEMMA EmployeeKept == TypesHold /\ EmployeeInv /\ [Next]_vars => EmployeeInv'
  <1> SUFFICES ASSUME TypesHold, EmployeeInv, [Next]_vars PROVE EmployeeInv'
    OBVIOUS
  <1>0. /\ offered' = offered /\ db.employee \in Employees
        /\ db'.employee \in Employees /\ TypesHold'
    BY EveryStep, TypesKept, Ranks
       DEF vars, Begin, Rollback, Tick, Effect, TypesHold, TypeOK, Database
  <1>1. /\ Rank[db.employee.status] <= Rank[db'.employee.status]
        /\ Pending(db) => Pending(db') \/ Activated'
        /\ db.keys \subseteq db'.keys
    <2>1. CASE db' = db
      BY <1>0, <2>1, Ranks
    <2>2. ASSUME NEW h \in Handlers, Effect(h)
          PROVE  /\ Rank[db.employee.status] <= Rank[db'.employee.status]
                 /\ Pending(db) => Pending(db') \/ Activated'
                 /\ db.keys \subseteq db'.keys
      <3>1. Rank[db.employee.status] <= Rank[db'.employee.status]
        BY <1>0, <2>2, EmployeeStep DEF Advance, Rank, Employees
      <3>2. db.keys \subseteq db'.keys
        BY <2>2 DEF Effect, KeyEffect
      <3>3. ASSUME Pending(db), ~Pending(db') PROVE Activated'
        <4>1. txn[h].command.op = Activation
          BY <2>2, <3>3, EmployeeStep DEF Pending
        <4>2. txn[h].command \in offered /\ txn[h].command.key \in db'.keys
          BY <2>2, <4>1, Transaction DEF Effect, KeyEffect, Activation, Purchase
        <4> QED BY <1>0, <4>1, <4>2 DEF Activated
      <3> QED BY <3>1, <3>2, <3>3
    <2> QED BY <2>1, <2>2, Writes
  <1>2. Activated => Activated'
    BY <1>0, <1>1 DEF Activated
  <1>3. ASSUME NEW g \in Handlers, (txn[g] # None)' PROVE Earlier(txn[g].read)'
    <2>1. CASE txn[g] # None /\ txn'[g] = txn[g]
      <3>1. Earlier(txn[g].read) /\ txn[g].read.employee \in Employees
        BY <2>1, Ranks DEF EmployeeInv
      <3>2. /\ Rank[txn[g].read.employee.status] \in Nat
            /\ Rank[db.employee.status] \in Nat /\ Rank[db'.employee.status] \in Nat
        BY <1>0, <3>1 DEF Employees, Rank
      <3> QED BY <1>1, <1>2, <2>1, <3>1, <3>2 DEF Earlier
    <2>2. ASSUME NEW c \in offered, db' = db, txn'[g] = [command |-> c, read |-> db, began |-> now]
          PROVE  Earlier(txn[g].read)'
      BY <1>1, <2>2 DEF Earlier
    <2> QED BY <1>3, <2>1, <2>2, Snapshots
  <1> QED BY <1>3 DEF EmployeeInv

LEMMA InitEmployee == Init => EmployeeInv
  BY DEF Init, EmployeeInv

\* An employee is pending, at work, gone: no late write brings him back.
THEOREM EmployeesOnlyAdvance == Spec => EmployeeOnlyAdvances
  <1>1. ASSUME TypesHold, EmployeeInv, [Next]_vars, db'.employee.status # db.employee.status
        PROVE  Advance
    BY <1>1, EmployeeStep, Writes
  <1>2. TypesHold /\ EmployeeInv /\ [Next]_vars =>
          [db'.employee.status # db.employee.status =>
             <<db.employee.status, db'.employee.status>> \in
                {<<"NONE", "PENDING_ONBOARDING">>, <<"PENDING_ONBOARDING", "ACTIVE">>,
                 <<"ACTIVE", "INACTIVE">>}]_vars
    BY <1>1 DEF Advance
  <1> QED BY <1>2, InitTypes, TypesKept, InitEmployee, EmployeeKept, PTL
          DEF Spec, EmployeeOnlyAdvances
-----------------------------------------------------------------------------
(* Onboarding: while an employee is pending, little else can happen to him.  *)

NoAccess == [b \in Bindings |-> "none"]
PackageOf(job) == [b \in Bindings |-> IF b \in Package[job] THEN "active" ELSE "none"]
OnboardingKeys(d) == {r.key : r \in {q \in d.requests : q.type = "ONBOARDING"}}

\* Nobody has access before he is known, and then his package or nothing; one
\* onboarding is requested.
Prepared ==
    /\ db.employee.status = "NONE" => db.access = NoAccess /\ OnboardingKeys(db) = {}
    /\ Pending(db) => db.access \in {NoAccess, PackageOf(db.employee.job)}
    /\ \A k, l \in OnboardingKeys(db) : k = l

\* What a snapshot shows of the onboarding is still so.
StillSo(read) ==
    /\ read.tasks \subseteq db.tasks
    /\ OnboardingKeys(read) \subseteq OnboardingKeys(db)
    /\ Pending(read) /\ Pending(db) =>
         /\ read.employee.job = db.employee.job
         /\ Active(read) \subseteq Active(db)

OnboardingInv ==
    /\ Prepared
    /\ \A h \in Handlers : txn[h] # None => StillSo(txn[h].read)

LEMMA InitOnboarding == Init => OnboardingInv
  <1> SUFFICES ASSUME Init PROVE OnboardingInv
    OBVIOUS
  <1>1. /\ db.requests = {} /\ db.employee.status # "PENDING_ONBOARDING"
        /\ db.employee.status = "NONE" => db.access = NoAccess
    BY InitIsSeeded DEF Seeded, NoAccess
  <1> QED BY <1>1 DEF Init, OnboardingInv, Prepared, OnboardingKeys, Pending

\* Requests keep their type and key.
LEMMA KeysOfRequests ==
    ASSUME TypesHold, NEW h \in Handlers, Effect(h)
    PROVE  /\ OnboardingKeys(db) \subseteq OnboardingKeys(db')
           /\ \/ OnboardingKeys(db') = OnboardingKeys(db)
              \/ db.employee.status = "NONE" /\ Pending(db')
           /\ OnboardingKeys(db') \subseteq OnboardingKeys(db) \cup {txn[h].command.key}
  <1> DEFINE c == txn[h].command
  <1>1. db.requests \subseteq LifecycleRequests /\ RequestEffect(h, db')
    BY Transaction DEF Effect, Allowed, Database
  <1>2. CASE db'.requests = db.requests
    BY <1>2 DEF OnboardingKeys
  <1>3. CASE /\ db.employee.status = "NONE" /\ Pending(db')
             /\ db'.requests = Opened(c, "ONBOARDING")
    BY <1>3 DEF OnboardingKeys, Opened
  <1>4. ASSUME NEW type \in {"TRANSFER", "OFFBOARDING"}, db'.requests = Opened(c, type)
        PROVE  OnboardingKeys(db') = OnboardingKeys(db)
    BY <1>4 DEF OnboardingKeys, Opened
  <1>5. ASSUME NEW r, db'.requests = Completed(r)
        PROVE  OnboardingKeys(db') = OnboardingKeys(db)
    <2>1. \A q \in LifecycleRequests : /\ [q EXCEPT !.status = "COMPLETED"].type = q.type
                                       /\ [q EXCEPT !.status = "COMPLETED"].key = q.key
      BY DEF LifecycleRequests
    <2> DEFINE Closed(q) == IF q.key = r.key THEN [q EXCEPT !.status = "COMPLETED"] ELSE q
    <2>2. \A q \in db.requests : Closed(q).type = q.type /\ Closed(q).key = q.key
      BY <1>1, <2>1
    <2>3. db'.requests = {Closed(q) : q \in db.requests}
      BY <1>5 DEF Completed
    <2> HIDE DEF Closed
    <2>4. ASSUME NEW k \in OnboardingKeys(db) PROVE k \in OnboardingKeys(db')
      <3>1. PICK q \in db.requests : q.type = "ONBOARDING" /\ q.key = k
        BY DEF OnboardingKeys
      <3>2. Closed(q) \in db'.requests
        BY <2>3, <3>1
      <3> QED BY <2>2, <3>1, <3>2 DEF OnboardingKeys
    <2>5. ASSUME NEW k \in OnboardingKeys(db') PROVE k \in OnboardingKeys(db)
      <3>1. PICK q \in db.requests : Closed(q).type = "ONBOARDING" /\ Closed(q).key = k
        BY <2>3 DEF OnboardingKeys
      <3> QED BY <2>2, <3>1 DEF OnboardingKeys
    <2> QED BY <2>4, <2>5
  <1> QED BY <1>1, <1>2, <1>3, <1>4, <1>5 DEF RequestEffect

\* While an employee is pending or unknown, only his package is given to him.
LEMMA AccessStep ==
    ASSUME TypesHold, EmployeeInv, OnboardingInv, NEW h \in Handlers, Effect(h),
           db.employee.status \in {"NONE", "PENDING_ONBOARDING"}
    PROVE  \/ db'.access = db.access
           \/ Pending(db) /\ db.access = NoAccess /\ db'.access = PackageOf(db.employee.job)
  <1> DEFINE read == txn[h].read
  <1>1. /\ txn[h] # None /\ AccessEffect(h, db') /\ Earlier(read) /\ StillSo(read)
        /\ read.employee \in Employees /\ db.employee \in Employees /\ db.access \in Access
        /\ db'.access \in Access
    BY Ranks, Transaction DEF Effect, Allowed, Database, EmployeeInv, OnboardingInv
  <1>2. ~AtWork(read)
    BY <1>1 DEF Earlier, AtWork, Rank, Employees
  <1>3. ASSUME Pending(read), db'.access # db.access
        PROVE  Pending(db) /\ read.employee.job = db.employee.job
    BY <1>1, <1>3 DEF Earlier, Pending, Rank, Employees, StillSo
  <1>4. CASE Pending(read) /\ db'.access # db.access
    <2> DEFINE package == Package[db.employee.job]
    <2>1. /\ Pending(db) /\ package \subseteq Bindings
          /\ \A b \in package : db.access[b] = "none"
          /\ db'.access = [b \in Bindings |-> IF b \in package THEN "active" ELSE db.access[b]]
      BY <1>1, <1>2, <1>3, <1>4, EnterpriseAssumption DEF AccessEffect, Employees
    <2>2. CASE db.access = NoAccess
      BY <2>1, <2>2 DEF NoAccess, PackageOf
    <2>3. CASE db.access = PackageOf(db.employee.job)
      <3>1. package = {}
        BY <2>1, <2>3 DEF PackageOf
      <3>2. db'.access = db.access
        BY <1>1, <2>1, <3>1 DEF Access
      <3> QED BY <3>2
    <2> QED BY <2>1, <2>2, <2>3 DEF OnboardingInv, Prepared
  <1> QED BY <1>1, <1>2, <1>4 DEF AccessEffect

LEMMA PreparedKept ==
    ASSUME TypesHold, EmployeeInv, OnboardingInv, NEW h \in Handlers, Effect(h)
    PROVE  Prepared'
  <1>1. /\ db.employee \in Employees /\ Prepared
        /\ \/ db'.employee = db.employee
           \/ db'.employee.status = db.employee.status /\ ~Pending(db)
           \/ Advance
    BY EmployeeStep, Ranks DEF OnboardingInv
  <1>2. ASSUME db'.employee.status = "NONE"
        PROVE  db'.access = NoAccess /\ OnboardingKeys(db') = {}
    <2>1. db.employee.status = "NONE"
      BY <1>1, <1>2 DEF Advance
    <2> QED BY <1>1, <1>2, <2>1, AccessStep, KeysOfRequests DEF Prepared, Pending
  <1>3. ASSUME Pending(db') PROVE db'.access \in {NoAccess, PackageOf(db'.employee.job)}
    <2>1. \/ Pending(db) /\ db'.employee = db.employee
          \/ db.employee.status = "NONE"
      BY <1>1, <1>3 DEF Advance, Pending
    <2> QED BY <1>1, <2>1, AccessStep DEF Prepared, Pending
  <1>4. \A k, l \in OnboardingKeys(db') : k = l
    BY <1>1, KeysOfRequests DEF Prepared
  <1> QED BY <1>2, <1>3, <1>4 DEF Prepared

LEMMA OnboardingKept ==
    TypesHold /\ EmployeeInv /\ OnboardingInv /\ [Next]_vars => OnboardingInv'
  <1> SUFFICES ASSUME TypesHold, EmployeeInv, OnboardingInv, [Next]_vars PROVE OnboardingInv'
    OBVIOUS
  <1>1. Prepared'
    <2>1. CASE db' = db
      BY <2>1 DEF OnboardingInv, Prepared
    <2> QED BY <2>1, PreparedKept, Writes
  <1>2. ASSUME NEW g \in Handlers, (txn[g] # None)' PROVE StillSo(txn[g].read)'
    <2>1. CASE txn[g] # None /\ txn'[g] = txn[g]
      <3> DEFINE read == txn[g].read
      <3>1. StillSo(read) /\ Earlier(read) /\ read.employee \in Employees
        BY <2>1, Ranks DEF OnboardingInv, EmployeeInv
      <3>2. CASE db' = db
        BY <2>1, <3>1, <3>2 DEF StillSo
      <3>3. ASSUME NEW h \in Handlers, Effect(h) PROVE StillSo(txn[g].read)'
        <4>1. db.tasks \subseteq db'.tasks /\ OnboardingKeys(db) \subseteq OnboardingKeys(db')
          BY <3>3, KeysOfRequests DEF Effect, Allowed
        <4>2. ASSUME Pending(read), Pending(db')
              PROVE  Pending(db) /\ db'.employee = db.employee /\ Active(db) \subseteq Active(db')
          <5>1. db.employee.status # "NONE" /\ db.employee \in Employees
            BY <3>1, <4>2, Ranks DEF Earlier, Pending, Rank, Employees
          <5>2. Pending(db) /\ db'.employee = db.employee
            BY <3>3, <4>2, <5>1, EmployeeStep DEF Advance, Pending
          <5>3. \/ db'.access = db.access
                \/ db.access = NoAccess
            BY <3>3, <5>2, AccessStep DEF Pending
          <5> QED BY <5>2, <5>3 DEF Active, NoAccess
        <4> QED BY <2>1, <3>1, <4>1, <4>2 DEF StillSo
      <3> QED BY <3>2, <3>3, Writes
    <2>2. ASSUME NEW c \in offered, db' = db, txn'[g] = [command |-> c, read |-> db, began |-> now]
          PROVE  StillSo(txn[g].read)'
      BY <2>2 DEF StillSo
    <2> QED BY <1>2, <2>1, <2>2, Snapshots
  <1> QED BY <1>1, <1>2 DEF OnboardingInv

\* None of the accesses that are set active runs out.
Lasting(d) == \A b \in Active(d) : d.until[b] = None

\* Nobody who has not been at work yet has a temporary access.
LastingInv ==
    /\ db.employee.status \in {"NONE", "PENDING_ONBOARDING"} => Lasting(db)
    /\ \A h \in Handlers : txn[h] # None /\ Pending(txn[h].read) => Lasting(txn[h].read)

LEMMA InitLasting == Init => LastingInv
  <1> SUFFICES ASSUME Init PROVE LastingInv
    OBVIOUS
  <1>1. db.employee.status \in {"NONE", "PENDING_ONBOARDING"} => Active(db) = {}
    BY InitIsSeeded DEF Seeded, Active
  <1> QED BY <1>1 DEF Init, LastingInv, Lasting

LEMMA LastingKept ==
    TypesHold /\ EmployeeInv /\ LastingInv /\ [Next]_vars => LastingInv'
  <1> SUFFICES ASSUME TypesHold, EmployeeInv, LastingInv, [Next]_vars PROVE LastingInv'
    OBVIOUS
  <1>1. ASSUME (db.employee.status \in {"NONE", "PENDING_ONBOARDING"})' PROVE Lasting(db)'
    <2>1. CASE db' = db
      BY <1>1, <2>1 DEF LastingInv, Lasting, Active
    <2>2. ASSUME NEW h \in Handlers, Effect(h) PROVE Lasting(db')
      <3> DEFINE read == txn[h].read
      <3>1. /\ txn[h] # None /\ AccessEffect(h, db') /\ Earlier(read)
            /\ read.employee \in Employees /\ db.employee \in Employees
            /\ db.access \in Access /\ db.until \in Until
        BY <2>2, Ranks, Transaction DEF Effect, Allowed, Database, EmployeeInv
      <3>2. db.employee.status \in {"NONE", "PENDING_ONBOARDING"}
        BY <1>1, <2>2, <3>1, EmployeeStep DEF Advance
      <3>3. ~AtWork(read)
        BY <3>1, <3>2 DEF Earlier, AtWork, Rank, Employees
      <3> QED BY <3>1, <3>2, <3>3 DEF AccessEffect, LastingInv, Lasting, Active
    <2> QED BY <2>1, <2>2, Writes
  <1>2. ASSUME NEW g \in Handlers, (txn[g] # None)', Pending(txn[g].read)'
        PROVE  Lasting(txn[g].read)'
    <2>1. CASE txn[g] # None /\ txn'[g] = txn[g]
      BY <1>2, <2>1 DEF LastingInv, Pending, Lasting, Active
    <2>2. ASSUME NEW c \in offered, db' = db,
                 txn'[g] = [command |-> c, read |-> db, began |-> now]
          PROVE  Lasting(txn[g].read)'
      BY <1>2, <2>2 DEF LastingInv, Pending, Lasting, Active
    <2> QED BY <1>2, <2>1, <2>2, Snapshots
  <1> QED BY <1>1, <1>2 DEF LastingInv

LEMMA OnlyActivation ==
    ASSUME TypesHold, NEW h \in Handlers, txn[h].command.op = Activation,
           Onboarding(h) \/ Transfer(h) \/ Offboarding(h) \/ Others(h)
    PROVE  ActivateEmployeeAndAccount(h)
  BY DEF Activation, Is, Onboarding, CreatePendingEmployee, CreateDisabledCorporateAccount,
     AssignBaselineAccessPackage, CreateAssetAssignmentTask, Transfer,
     UpdateEmployeeAssignment, RevokeObsoleteBaselineAccess, GrantTargetBaselineAccess,
     CreateAssetAdjustmentTask, VerifyEmployeeTransferConsistency, Offboarding,
     DisableCorporateAccount, RevokeAllEmployeeAccess, CreateAssetReturnTask,
     MarkEmployeeInactive, VerifyEmployeeOffboardingConsistency, Others,
     CreateAccessRequest, GrantApplicationAccess, CreateMaintenanceWorkOrder,
     CreateRequestAndReserveBudget

LEMMA ActivationIsComplete ==
    ASSUME TypesHold, EmployeeInv, OnboardingInv, [Next]_vars, Pending(db), AtWork(db')
    PROVE  /\ db'.account.status = "ACTIVE"
           /\ BaselineComplete(db')
           /\ HasTask(db', "PROVISION")
           /\ \A r \in db'.requests : r.type = "ONBOARDING" => r.status = "COMPLETED"
  <1>1. PICK h \in Handlers : Onboarding(h) \/ Transfer(h) \/ Offboarding(h) \/ Others(h)
    BY DEF Next, vars, Begin, Rollback, Tick, Pending, AtWork
  <1> DEFINE read == txn[h].read
  <1>2. Effect(h)
    BY <1>1, OnboardingEffect, TransferEffect, OffboardingEffect, OthersEffect
  <1>3. ActivateEmployeeAndAccount(h)
    BY <1>1, <1>2, EmployeeStep, OnlyActivation DEF Pending, AtWork
  <1>4. PICK r \in OpenRequests(read) :
           /\ r.type = "ONBOARDING"
           /\ Save(h, [db EXCEPT !.employee.status = "ACTIVE",
                                 !.employee.version = read.employee.version + 1,
                                 !.account = [status |-> "ACTIVE",
                                              version |-> read.account.version + 1],
                                 !.requests = Completed(r)])
    BY <1>3 DEF ActivateEmployeeAndAccount, Activatable, OpenOf
  <1>5. /\ Pending(read) /\ BaselineComplete(read) /\ HasTask(read, "PROVISION")
        /\ read \in Database /\ db \in Database /\ StillSo(read) /\ Prepared
        /\ read.employee.job = db.employee.job /\ Active(read) \subseteq Active(db)
    BY <1>2, <1>3, Transaction
       DEF ActivateEmployeeAndAccount, Effect, OnboardingInv, StillSo, Activatable, OpenOf
  <1>6. /\ db'.account.status = "ACTIVE" /\ db'.employee.job = db.employee.job
        /\ db'.access = db.access /\ db'.tasks = db.tasks /\ db'.requests = Completed(r)
    BY <1>4, <1>5 DEF Save, Database, Employees
  <1>7. BaselineComplete(db')
    <2>1. Active(db) # {}
      BY <1>5 DEF BaselineComplete
    <2>2. db.access = PackageOf(db.employee.job)
      BY <1>5, <2>1 DEF Prepared, Active, NoAccess
    <2>3. Active(db) = Package[db.employee.job]
      BY <1>5, <2>2, EnterpriseAssumption DEF Active, PackageOf, Database, Employees
    <2> QED BY <1>5, <1>6, <2>3 DEF BaselineComplete, Active
  <1>8. HasTask(db', "PROVISION")
    BY <1>5, <1>6 DEF HasTask, StillSo
  <1>9. ASSUME NEW q \in db'.requests, q.type = "ONBOARDING" PROVE q.status = "COMPLETED"
    <2>1. /\ db.requests \subseteq LifecycleRequests
          /\ r \in read.requests /\ r.key \in OnboardingKeys(read)
      BY <1>4, <1>5 DEF Database, OpenRequests, OnboardingKeys
    <2>2. \A p \in LifecycleRequests : [p EXCEPT !.status = "COMPLETED"].status = "COMPLETED"
      BY DEF LifecycleRequests
    <2>3. \A p \in db.requests : p.type = "ONBOARDING" => p.key = r.key
      BY <1>5, <2>1 DEF StillSo, Prepared, OnboardingKeys
    <2> QED BY <1>6, <1>9, <2>1, <2>2, <2>3 DEF Completed
  <1> QED BY <1>6, <1>7, <1>8, <1>9

\* An employee goes to work with everything the onboarding promises, as it is in
\* the database then: an activation tests a snapshot, and it is still so.
THEOREM ActivationsAreComplete == Spec => ActivatedIsComplete
  <1>1. TypesHold /\ EmployeeInv /\ OnboardingInv /\ [Next]_vars =>
          [Pending(db) /\ AtWork(db') =>
             /\ db'.account.status = "ACTIVE"
             /\ BaselineComplete(db')
             /\ HasTask(db', "PROVISION")
             /\ \A r \in db'.requests : r.type = "ONBOARDING" => r.status = "COMPLETED"]_vars
    BY ActivationIsComplete
  <1> QED BY <1>1, InitTypes, TypesKept, InitEmployee, EmployeeKept, InitOnboarding,
             OnboardingKept, PTL DEF Spec, ActivatedIsComplete

-----------------------------------------------------------------------------
(* Check, write and verification: what the gateway asks before and after a   *)
(* write, and what the transaction of the write knows of it.                 *)

Acts(h) == Onboarding(h) \/ Transfer(h) \/ Offboarding(h) \/ Others(h)
Return == "create_asset_return_task"

LEMMA ActsHaveEffect ==
    ASSUME TypesHold, NEW h \in Handlers, Acts(h)
    PROVE  Effect(h)
  BY OnboardingEffect, TransferEffect, OffboardingEffect, OthersEffect DEF Acts

\* A transaction that commits a change is the one that acts.
LEMMA CommitsAct ==
    ASSUME TypesHold, Next, NEW h \in Handlers, Commits(h)
    PROVE  Acts(h) /\ Effect(h)
  <1>1. PICK g \in Handlers : Acts(g)
    BY DEF Next, Commits, Begin, Rollback, Tick, Acts
  <1>2. Effect(g)
    BY <1>1, ActsHaveEffect
  <1>3. g = h
    BY <1>2 DEF Effect, Commits, TypesHold, TypeOK
  <1> QED BY <1>1, <1>2, <1>3

\* A command is carried out by an operation of its type.
LEMMA ActsOfItsType ==
    ASSUME TypesHold, NEW h \in Handlers, txn[h] # None, Acts(h)
    PROVE  LET type == TypeOf(txn[h].command) IN
           /\ type = "ONBOARDING" => Onboarding(h)
           /\ type = "TRANSFER" => Transfer(h)
           /\ type = "OFFBOARDING" => Offboarding(h)
           /\ type = "ACCESS" => GrantApplicationAccess(h)
           /\ type = "PURCHASE" => CreateRequestAndReserveBudget(h)
           /\ type = "ORDER" => CreateMaintenanceWorkOrder(h)
  <1> DEFINE op == txn[h].command.op
             type == TypeOf(txn[h].command)
  <1>1. \A t \in DOMAIN ActionsByRequestType : type = t => op \in ActionsByRequestType[t]
    BY Transaction, ActionsAssumption
  <1>2. /\ type = "ONBOARDING" => op \in ActionsByRequestType.ONBOARDING
        /\ type = "TRANSFER" => op \in ActionsByRequestType.TRANSFER
        /\ type = "OFFBOARDING" => op \in ActionsByRequestType.OFFBOARDING
        /\ type = "ACCESS" => op \in ActionsByRequestType.ACCESS
        /\ type = "PURCHASE" => op \in ActionsByRequestType.PURCHASE
        /\ type = "ORDER" => op \in ActionsByRequestType.ORDER
    BY <1>1 DEF ActionsByRequestType
  <1> HIDE DEF type
  <1>3. /\ Onboarding(h) => op \in ActionsByRequestType.ONBOARDING
        /\ Transfer(h) => op \in ActionsByRequestType.TRANSFER
        /\ Offboarding(h) => op \in ActionsByRequestType.OFFBOARDING
    BY DEF Is, ActionsByRequestType, Onboarding, CreatePendingEmployee,
       CreateDisabledCorporateAccount,
       AssignBaselineAccessPackage, CreateAssetAssignmentTask, ActivateEmployeeAndAccount,
       Transfer, UpdateEmployeeAssignment, RevokeObsoleteBaselineAccess,
       GrantTargetBaselineAccess, CreateAssetAdjustmentTask,
       VerifyEmployeeTransferConsistency, Offboarding, DisableCorporateAccount,
       RevokeAllEmployeeAccess, CreateAssetReturnTask, MarkEmployeeInactive,
       VerifyEmployeeOffboardingConsistency
  <1>4. Others(h) => \/ op = "create_access_request"
                     \/ op = "grant_application_access" /\ GrantApplicationAccess(h)
                     \/ op = "create_maintenance_work_order" /\ CreateMaintenanceWorkOrder(h)
                     \/ op = Purchase /\ CreateRequestAndReserveBudget(h)
    BY DEF Is, Others, Purchase, CreateAccessRequest, GrantApplicationAccess,
       CreateMaintenanceWorkOrder, CreateRequestAndReserveBudget
  <1> HIDE DEF op
  <1>5. op \notin ActionsByRequestType.ONBOARDING => ~Onboarding(h)
    BY <1>3
  <1> QED BY <1>2, <1>3, <1>4 DEF Acts, ActionsByRequestType, Purchase, type

-----------------------------------------------------------------------------
(* The invariant of the checks: returns are made by the commands that say so. *)

ReturnsOf(d) ==
    \A t \in d.tasks : t.type = "RETURN" => \E c \in offered : c.op = Return /\ c.key = t.key

ReturnInv == ReturnsOf(db) /\ \A h \in Handlers : txn[h] # None => ReturnsOf(txn[h].read)

LEMMA InitReturns == Init => ReturnInv
  <1> SUFFICES ASSUME Init PROVE ReturnInv
    OBVIOUS
  <1>1. db.tasks = {}
    BY InitIsSeeded DEF Seeded
  <1> QED BY <1>1 DEF Init, ReturnInv, ReturnsOf

\* The tasks stand, or one is added by the command that is to add it.
LEMMA TaskEffect ==
    ASSUME TypesHold, NEW h \in Handlers, Acts(h)
    PROVE  \/ db'.tasks = db.tasks
           \/ \E type \in {"PROVISION", "ADJUST", "RETURN"}, job \in Jobs :
                 /\ db'.tasks = Tasked(txn[h].command, type, job)
                 /\ type = "RETURN" => txn[h].command.op = Return
  <1> DEFINE c == txn[h].command
             read == txn[h].read
  <1>1. /\ txn[h] # None /\ db \in Database /\ c.job \in Jobs /\ read.employee.job \in Jobs
    BY ActsHaveEffect, Transaction DEF Effect, CommandFields, Database, Employees
  <1>2. CASE Onboarding(h)
    <2>1. \/ db'.tasks = db.tasks
          \/ db'.tasks = Tasked(c, "PROVISION", c.job)
      BY <1>1, <1>2
         DEF Onboarding, CreatePendingEmployee, CreateDisabledCorporateAccount,
         AssignBaselineAccessPackage, CreateAssetAssignmentTask, ActivateEmployeeAndAccount,
         Save, Database
    <2> QED BY <1>1, <2>1
  <1>3. CASE Transfer(h)
    <2>1. \/ db'.tasks = db.tasks
          \/ db'.tasks = Tasked(c, "ADJUST", c.job)
      BY <1>1, <1>3
         DEF Transfer, UpdateEmployeeAssignment, RevokeObsoleteBaselineAccess,
         GrantTargetBaselineAccess, CreateAssetAdjustmentTask,
         VerifyEmployeeTransferConsistency, Save, Database
    <2> QED BY <1>1, <2>1
  <1>4. CASE Offboarding(h)
    <2>1. \/ db'.tasks = db.tasks
          \/ db'.tasks = Tasked(c, "RETURN", read.employee.job) /\ c.op = Return
      BY <1>1, <1>4
         DEF Offboarding, DisableCorporateAccount, RevokeAllEmployeeAccess,
         CreateAssetReturnTask, MarkEmployeeInactive, VerifyEmployeeOffboardingConsistency,
         Save, Database, Is, Return
    <2> QED BY <1>1, <2>1
  <1>5. CASE Others(h)
    BY <1>1, <1>5
       DEF Others, CreateAccessRequest, GrantApplicationAccess, CreateMaintenanceWorkOrder,
       CreateRequestAndReserveBudget, Save, Database
  <1> QED BY <1>2, <1>3, <1>4, <1>5 DEF Acts

LEMMA ReturnsKept == TypesHold /\ ReturnInv /\ [Next]_vars => ReturnInv'
  <1> SUFFICES ASSUME TypesHold, ReturnInv, [Next]_vars PROVE ReturnInv'
    OBVIOUS
  <1>1. offered' = offered
    BY EveryStep DEF vars, Begin, Rollback, Tick, Effect
  <1>2. ReturnsOf(db)'
    <2>1. CASE db' = db
      BY <1>1, <2>1 DEF ReturnInv, ReturnsOf
    <2>2. ASSUME NEW h \in Handlers, Acts(h) PROVE ReturnsOf(db)'
      <3>1. txn[h].command \in offered
        BY <2>2, ActsHaveEffect, Transaction DEF Effect
      <3> QED BY <1>1, <2>2, <3>1, TaskEffect DEF ReturnInv, ReturnsOf, Tasked
    <2>3. db' = db \/ \E h \in Handlers : Acts(h)
      BY DEF Next, vars, Begin, Rollback, Tick, Acts
    <2> QED BY <2>1, <2>2, <2>3
  <1>3. ASSUME NEW g \in Handlers, (txn[g] # None)' PROVE ReturnsOf(txn[g].read)'
    <2>1. CASE txn[g] # None /\ txn'[g] = txn[g]
      BY <1>1, <2>1 DEF ReturnInv, ReturnsOf
    <2>2. ASSUME NEW c \in offered, txn'[g] = [command |-> c, read |-> db, began |-> now]
          PROVE  ReturnsOf(txn[g].read)'
      BY <1>1, <2>2 DEF ReturnInv, ReturnsOf
    <2> QED BY <1>3, <2>1, <2>2, Snapshots
  <1> QED BY <1>2, <1>3 DEF ReturnInv

-----------------------------------------------------------------------------
(* What the check has tested is tested again.                                *)

\* What is in force is set active, and what stays in force was so before.
LEMMA InForceIsActive ==
    ASSUME NEW d, NEW t
    PROVE  /\ InForce(d, t) \subseteq Active(d)
           /\ Active(d) = InForce(d, t) \cup Lapsed(d, t)
           /\ Lapsed(d, t) \cap InForce(d, t) = {}
           /\ Lasting(d) => InForce(d, t) = Active(d)
  BY DEF InForce, Lapsed, Lasting

LEMMA InForceEnds ==
    ASSUME NEW d \in Database, NEW t \in Nat, NEW u \in Nat, t <= u
    PROVE  InForce(d, u) \subseteq InForce(d, t)
  <1>1. d.until \in Until
    BY DEF Database
  <1>2. \A b \in Active(d) : d.until[b] \in Nat \cup {None}
    BY <1>1 DEF Active, Until
  <1> QED BY <1>2 DEF InForce

LEMMA OnboardingRechecks ==
    ASSUME TypesHold, LastingInv, NEW h \in Handlers, Onboarding(h),
           txn[h].command.op # "create_asset_assignment_task"
    PROVE  /\ OnboardingExecutable(txn[h].command, txn[h].read)
           /\ ActivationExecutable(txn[h].command, txn[h].read, now)
  <1> DEFINE c == txn[h].command
             read == txn[h].read
  <1> USE DEF Is, OnboardingExecutable, ActivationExecutable
  <1>1. CASE CreatePendingEmployee(h)
    BY <1>1 DEF CreatePendingEmployee, EmployeeCreatable
  <1>2. CASE CreateDisabledCorporateAccount(h)
    BY <1>2 DEF CreateDisabledCorporateAccount, AccountCreatable
  <1>3. CASE AssignBaselineAccessPackage(h)
    BY <1>3 DEF AssignBaselineAccessPackage, PackageAssignable
  <1>4. CASE CreateAssetAssignmentTask(h)
    BY <1>4 DEF CreateAssetAssignmentTask
  <1>5. CASE ActivateEmployeeAndAccount(h)
    <2>1. /\ c.op = "activate_employee_and_account" /\ Pending(read)
          /\ read.employee.version = c.version
          /\ read.account.status = "DISABLED" /\ read.account.version = c.accountVersion
          /\ BaselineComplete(read) /\ HasTask(read, "PROVISION") /\ txn[h] # None
      BY <1>5 DEF ActivateEmployeeAndAccount, Activatable, OpenOf
    <2>2. read.account = [status |-> "DISABLED", version |-> c.accountVersion]
      BY <2>1, Transaction DEF Database, Accounts
    \* The package is for good, so what is set active is in force.
    <2>3. InForce(read, now) # {}
      <3>1. Lasting(read) /\ Active(read) # {}
        BY <2>1 DEF LastingInv, BaselineComplete
      <3> QED BY <3>1, InForceIsActive
    <2> QED BY <2>1, <2>2, <2>3 DEF HasTask, NoTask
  <1> QED BY <1>1, <1>2, <1>3, <1>4, <1>5 DEF Onboarding

\* What a transfer revokes is set active, and the check would ask more.
LEMMA TransferRechecks ==
    ASSUME NEW h \in Handlers, Transfer(h),
           txn[h].command.op # "create_asset_adjustment_task"
    PROVE  \/ TransferExecutable(txn[h].command, txn[h].read, now)
           \/ TakesLapsed(txn[h].command, txn[h].read)
  <1> DEFINE c == txn[h].command
             read == txn[h].read
  <1>1. CASE RevokeObsoleteBaselineAccess(h)
    <2>1. /\ c.op = "revoke_obsolete_baseline_access" /\ AtWork(read)
          /\ c.bindings \subseteq Active(read)
      BY <1>1 DEF RevokeObsoleteBaselineAccess, Is, Revocable
    <2> QED BY <2>1, InForceIsActive DEF TransferExecutable, TakesLapsed
  <1>2. CASE ~RevokeObsoleteBaselineAccess(h)
    BY <1>2
       DEF Is, TransferExecutable, Transfer, UpdateEmployeeAssignment,
       GrantTargetBaselineAccess, CreateAssetAdjustmentTask,
       VerifyEmployeeTransferConsistency,
       Reassignable, Grantable, AdjustmentTaskable, TransferConsistent, OpenOf
  <1> QED BY <1>1, <1>2

LEMMA OffboardingRechecks ==
    ASSUME TypesHold, ReturnInv, NEW h \in Handlers, Offboarding(h)
    PROVE  \/ OffboardingExecutable(txn[h].command, txn[h].read, now)
           \/ TakesLapsed(txn[h].command, txn[h].read)
  <1> DEFINE c == txn[h].command
             read == txn[h].read
  <1> USE DEF Is, OffboardingExecutable
  <1>1. CASE DisableCorporateAccount(h)
    BY <1>1 DEF DisableCorporateAccount, AccountVersion, AccountDisableable
  <1>2. CASE RevokeAllEmployeeAccess(h)
    <2>1. /\ c.op = "revoke_all_employee_access" /\ AtWork(read)
          /\ c.bindings = Active(read)
      BY <1>2 DEF RevokeAllEmployeeAccess, AllRevocable
    <2> QED BY <2>1, InForceIsActive DEF TakesLapsed
  <1>3. CASE CreateAssetReturnTask(h)
    <2>1. /\ c.op = Return /\ txn[h] # None /\ AtWork(read)
          /\ c.tasks = {t.key : t \in read.tasks}
      BY <1>3 DEF CreateAssetReturnTask, Return, ReturnTaskable
    <2>2. ASSUME NEW t \in read.tasks, t.type = "RETURN" PROVE FALSE
      <3>1. PICK d \in offered : d.op = Return /\ d.key = t.key
        BY <2>1, <2>2 DEF ReturnInv, ReturnsOf
      <3>2. c \in offered /\ \E s \in Scenarios : offered = s.offered
        BY <2>1, Transaction DEF TypesHold, TypeOK
      <3> QED BY <2>1, <2>2, <3>1, <3>2, ReturnsAssumption DEF Return
    <2> QED BY <2>1, <2>2 DEF NoTask, Return
  <1>4. CASE MarkEmployeeInactive(h)
    BY <1>4, InForceIsActive DEF MarkEmployeeInactive, NoAccountInUse, Deactivatable
  <1>5. CASE VerifyEmployeeOffboardingConsistency(h)
    BY <1>5 DEF VerifyEmployeeOffboardingConsistency, OffboardingConsistent, OpenOf
  <1> QED BY <1>1, <1>2, <1>3, <1>4, <1>5 DEF Offboarding

\* A grant reads the clock before it is done: what is in force then was so when it
\* was read.
LEMMA GrantLeavesInForce ==
    ASSUME TypesHold, NEW h \in Handlers, GrantApplicationAccess(h)
    PROVE  LeavesInForce(txn[h].command, txn[h].read)
  <1> DEFINE c == txn[h].command
             read == txn[h].read
  <1>1. /\ txn[h] # None /\ c.op = "grant_application_access" /\ AtWork(read)
        /\ \E t \in txn[h].began .. now : \E requests : Save(h, [db EXCEPT
              !.access = Granted(read, c.bindings),
              !.until = Dated(c.bindings \ InForce(read, t), t + c.days),
              !.accessRequests = requests])
    BY DEF GrantApplicationAccess, Is, AccessGrantable
  <1>2. PICK t \in txn[h].began .. now : \E requests : Save(h, [db EXCEPT
              !.access = Granted(read, c.bindings),
              !.until = Dated(c.bindings \ InForce(read, t), t + c.days),
              !.accessRequests = requests])
    BY <1>1
  <1>3. /\ read \in Database /\ db \in Database /\ t \in Nat /\ now \in Nat /\ t <= now
        /\ InForce(read, now) \subseteq InForce(read, t)
    BY <1>1, Transaction, InForceEnds
  <1>4. /\ db'.access = Granted(read, c.bindings)
        /\ db'.until = Dated(c.bindings \ InForce(read, t), t + c.days)
    BY <1>2, <1>3 DEF Save, Database
  <1>5. ASSUME NEW b \in InForce(read, now)
        PROVE  db'.access[b] = db.access[b] /\ db'.until[b] = db.until[b]
    BY <1>3, <1>4, InForceIsActive DEF Granted, Dated, Active
  <1> QED BY <1>1, <1>5 DEF LeavesInForce

Rechecked(h) ==
    LET c == txn[h].command
        read == txn[h].read IN
    Executable(c, read, now) \/ TakesLapsed(c, read) \/ LeavesInForce(c, read)

LEMMA CommitsRecheck ==
    ASSUME TypesHold, LastingInv, PurchaseInv, ReturnInv, Next, NEW h \in Handlers, Commits(h),
           txn[h].command.op \notin
               {"create_asset_assignment_task", "create_asset_adjustment_task"}
    PROVE  Rechecked(h)
  <1> DEFINE c == txn[h].command
             type == TypeOf(c)
  <1> USE DEF Rechecked
  <1>1. Acts(h) /\ txn[h] # None
    BY CommitsAct DEF Commits
  <1>2. CASE type = "ONBOARDING"
    BY <1>1, <1>2, ActsOfItsType, OnboardingRechecks DEF Executable
  <1>3. CASE type = "TRANSFER"
    BY <1>1, <1>3, ActsOfItsType, TransferRechecks DEF Executable
  <1>4. CASE type = "OFFBOARDING"
    BY <1>1, <1>4, ActsOfItsType, OffboardingRechecks DEF Executable
  <1>5. CASE type = "ACCESS"
    BY <1>1, <1>5, ActsOfItsType, GrantLeavesInForce
  <1>6. CASE type = "PURCHASE"
    <2>1. /\ c.op = Purchase /\ Reservable(c, db) /\ NoSimilarPurchase(c, txn[h].read)
      BY <1>1, <1>6, ActsOfItsType DEF CreateRequestAndReserveBudget, Is, Purchase, Purchasable
    \* The version is the one of the snapshot: so is what is reserved.
    <2>2. txn[h].read.center = db.center
      <3>1. /\ db.center.version \in Nat /\ txn[h].read.center.version \in Nat
            /\ c.version \in Nat
        BY <1>1, Transaction DEF Database, CostCenters, CommandFields
      <3> QED BY <1>1, <2>1, <3>1 DEF PurchaseInv, Behind, Reservable
    <2>3. PurchaseExecutable(c, txn[h].read)
      BY <2>1, <2>2 DEF PurchaseExecutable, Reservable, NoSimilarPurchase
    <2> QED BY <1>6, <2>3 DEF Executable
  <1>7. CASE type = "ORDER"
    <2>1. OrderExecutable(c, txn[h].read)
      BY <1>1, <1>7, ActsOfItsType DEF CreateMaintenanceWorkOrder, OrderExecutable, Orderable
    <2> QED BY <1>7, <2>1 DEF Executable
  <1>8. CASE type \notin {"ONBOARDING", "TRANSFER", "OFFBOARDING", "ACCESS", "PURCHASE", "ORDER"}
    BY <1>8 DEF Executable
  <1> QED BY <1>2, <1>3, <1>4, <1>5, <1>6, <1>7, <1>8

\* Whatever happened since the check of the gateway, a write is only done if the
\* check would pass on what its transaction has read; but it takes accesses away
\* that have run out, which the check does not see, and a grant the check would
\* refuse, of what is in force, leaves that as it is.
THEOREM WritesAreRechecked == Spec => WritesRecheck
  <1>1. TypesHold /\ LastingInv /\ PurchaseInv /\ ReturnInv /\ [Next]_vars =>
          [\A h \in Handlers :
             Commits(h) /\ txn[h].command.op \notin
                              {"create_asset_assignment_task", "create_asset_adjustment_task"} =>
                LET c == txn[h].command
                    read == txn[h].read IN
                Executable(c, read, now) \/ TakesLapsed(c, read) \/ LeavesInForce(c, read)]_vars
    BY CommitsRecheck DEF Rechecked
  <1> QED BY <1>1, InitTypes, TypesKept, InitEmployee, EmployeeKept, InitLasting, LastingKept,
             InitPurchases, PurchasesKept, InitReturns, ReturnsKept, PTL
          DEF Spec, WritesRecheck

-----------------------------------------------------------------------------
(* What was written can be verified.                                         *)

FiniteRequests == IsFiniteSet(db.requests)

LEMMA InitFinite == Init => FiniteRequests
  BY InitIsSeeded, FS_EmptySet DEF Seeded, FiniteRequests

LEMMA FiniteKept == TypesHold /\ FiniteRequests /\ [Next]_vars => FiniteRequests'
  <1> SUFFICES ASSUME TypesHold, FiniteRequests, [Next]_vars PROVE FiniteRequests'
    OBVIOUS
  <1>1. CASE db' = db
    BY <1>1 DEF FiniteRequests
  <1>2. ASSUME NEW h \in Handlers, Effect(h) PROVE FiniteRequests'
    <2>1. ASSUME NEW type PROVE IsFiniteSet(Opened(txn[h].command, type))
      BY FS_AddElement DEF Opened, FiniteRequests
    <2>2. ASSUME NEW r PROVE IsFiniteSet(Completed(r))
      <3> DEFINE Closed(q) == IF q.key = r.key THEN [q EXCEPT !.status = "COMPLETED"] ELSE q
      <3>1. IsFiniteSet({Closed(q) : q \in db.requests})
        <4> DEFINE T == {Closed(q) : q \in db.requests}
                   f == [q \in db.requests |-> Closed(q)]
        <4> HIDE DEF Closed
        <4>1. f \in Surjection(db.requests, T)
          BY DEF Surjection
        <4> HIDE DEF f
        <4> QED BY <4>1, FS_Surjection DEF FiniteRequests
      <3> QED BY <3>1 DEF Completed
    <2>3. \/ db'.requests = db.requests
          \/ \E type \in {"ONBOARDING", "TRANSFER", "OFFBOARDING"} :
                db'.requests = Opened(txn[h].command, type)
          \/ \E r \in OpenRequests(txn[h].read) : db'.requests = Completed(r)
      BY <1>2 DEF Effect, Allowed, RequestEffect
    <2> QED BY <2>1, <2>2, <2>3 DEF FiniteRequests
  <1> QED BY <1>1, <1>2, Writes

\* When one request at most is open, none is when it is completed.
LEMMA NoneLeftOpen ==
    ASSUME TypesHold, FiniteRequests, Cardinality(OpenRequests(db)) <= 1,
           NEW r \in OpenRequests(db), NEW d, d.requests = Completed(r)
    PROVE  NoOpenRequest(d)
  <1>1. IsFiniteSet(OpenRequests(db))
    BY FS_Subset DEF FiniteRequests, OpenRequests
  <1>2. OpenRequests(db) \ {r} = {}
    <2>1. /\ IsFiniteSet(OpenRequests(db) \ {r})
          /\ Cardinality(OpenRequests(db) \ {r}) = Cardinality(OpenRequests(db)) - 1
      BY <1>1, FS_RemoveElement
    <2>2. Cardinality(OpenRequests(db) \ {r}) \in Nat /\ Cardinality(OpenRequests(db)) \in Nat
      BY <1>1, <2>1, FS_CardinalityType
    <2>3. Cardinality(OpenRequests(db) \ {r}) = 0
      BY <2>1, <2>2
    <2> QED BY <2>1, <2>3, FS_EmptySet
  <1>3. db.requests \subseteq LifecycleRequests
    BY DEF TypesHold, TypeOK, Database
  <1>4. ASSUME NEW q \in db.requests
        PROVE  (IF q.key = r.key THEN [q EXCEPT !.status = "COMPLETED"] ELSE q).status
                 # "EXECUTING"
    <2>1. [q EXCEPT !.status = "COMPLETED"].status = "COMPLETED"
      BY <1>3 DEF LifecycleRequests
    <2>2. q.key # r.key => q.status # "EXECUTING"
      BY <1>2 DEF OpenRequests
    <2> QED BY <2>1, <2>2
  <1> QED BY <1>4 DEF Completed, OpenRequests, NoOpenRequest

\* A transaction whose snapshot is the database as it is, taken today.
Current(h) ==
    /\ txn[h] # None /\ txn[h].read = db /\ txn[h].began = now
    /\ Cardinality(OpenRequests(db)) <= 1

\* A task is confirmed as soon as there is one like it.
LEMMA TaskConfirmed ==
    ASSUME NEW c, NEW d, NEW u, NEW t \in d.tasks
    PROVE  /\ /\ c.op = "create_asset_assignment_task"
              /\ t.type = "PROVISION" /\ t.job = c.job
              => OnboardingConfirmed(c, d, u)
           /\ /\ c.op = "create_asset_adjustment_task"
              /\ t.type = "ADJUST" /\ t.job = c.job
              => TransferConfirmed(c, d, u)
           /\ /\ c.op = "create_asset_return_task"
              /\ t.type = "RETURN"
              => OffboardingConfirmed(c, d, u)
  <1>1. ASSUME c.op = "create_asset_assignment_task", t.type = "PROVISION", t.job = c.job
        PROVE  OnboardingConfirmed(c, d, u)
    BY <1>1 DEF OnboardingConfirmed
  <1>2. ASSUME c.op = "create_asset_adjustment_task", t.type = "ADJUST", t.job = c.job
        PROVE  TransferConfirmed(c, d, u)
    BY <1>2 DEF TransferConfirmed
  <1>3. ASSUME c.op = "create_asset_return_task", t.type = "RETURN"
        PROVE  OffboardingConfirmed(c, d, u)
    BY <1>3 DEF OffboardingConfirmed, NoTask
  <1> QED BY <1>1, <1>2, <1>3

\* The last step of each plan is confirmed when no request is open any more.
LEMMA LastStepConfirmed ==
    ASSUME NEW c, NEW d, NEW u, NoOpenRequest(d)
    PROVE  /\ /\ c.op = Activation
              /\ AtWork(d) /\ d.account.status = "ACTIVE"
              => OnboardingConfirmed(c, d, u)
           /\ /\ c.op = "verify_employee_transfer_consistency"
              /\ Active(d) = Package[d.employee.job] /\ d.employee.job = c.job
              => (TransferConfirmed(c, d, u) <=> Lapsed(d, u) = {})
           /\ /\ c.op = "verify_employee_offboarding_consistency"
              /\ d.employee.status = "INACTIVE" /\ NoAccountInUse(d) /\ Active(d) = {}
              => OffboardingConfirmed(c, d, u)
  <1>1. ASSUME c.op = Activation, AtWork(d), d.account.status = "ACTIVE"
        PROVE  OnboardingConfirmed(c, d, u)
    BY <1>1 DEF OnboardingConfirmed, Activation
  <1>2. ASSUME c.op = "verify_employee_transfer_consistency",
               Active(d) = Package[d.employee.job], d.employee.job = c.job
        PROVE  TransferConfirmed(c, d, u) <=> Lapsed(d, u) = {}
    BY <1>2, InForceIsActive DEF TransferConfirmed
  <1>3. ASSUME c.op = "verify_employee_offboarding_consistency",
               d.employee.status = "INACTIVE", NoAccountInUse(d), Active(d) = {}
        PROVE  OffboardingConfirmed(c, d, u)
    BY <1>3, InForceIsActive DEF OffboardingConfirmed
  <1> QED BY <1>1, <1>2, <1>3

LEMMA OnboardingConfirms ==
    ASSUME TypesHold, OnboardingInv, FiniteRequests, NEW h \in Handlers, Onboarding(h), Current(h)
    PROVE  OnboardingConfirmed(txn[h].command, db', now)
  <1> DEFINE c == txn[h].command
  <1>1. /\ txn[h].read = db /\ db \in Database /\ c.bindings \subseteq Bindings
        /\ db.employee \in Employees /\ db.access \in Access
        /\ c.job \in Jobs /\ Package \in [Jobs -> SUBSET Bindings]
    BY Transaction, EnterpriseAssumption DEF Current, CommandFields, Database
  <1> USE DEF Is, Save
  <1>2. CASE CreatePendingEmployee(h)
    <2>1. c.op = "create_pending_employee" /\ Pending(db') /\ db'.employee.job = c.job
      BY <1>1, <1>2 DEF CreatePendingEmployee, Database, Pending
    <2> QED BY <2>1 DEF OnboardingConfirmed
  <1>3. CASE CreateDisabledCorporateAccount(h)
    <2>1. c.op = "create_disabled_corporate_account" /\ db'.account.status = "DISABLED"
      BY <1>1, <1>3 DEF CreateDisabledCorporateAccount, Database
    <2> QED BY <2>1 DEF OnboardingConfirmed
  <1>4. CASE AssignBaselineAccessPackage(h)
    <2>1. /\ c.op = "assign_baseline_access_package" /\ Pending(db)
          /\ c.bindings = Package[db.employee.job]
          /\ \A b \in c.bindings : db.access[b] = "none"
          /\ db'.access = Granted(db, c.bindings) /\ db'.until = Dated(c.bindings, None)
      BY <1>1, <1>4 DEF AssignBaselineAccessPackage, Database, PackageAssignable
    <2>2. db.access \in {NoAccess, PackageOf(db.employee.job)}
      BY <2>1 DEF OnboardingInv, Prepared
    \* Someone who is pending has no other access.
    <2>3. \A b \in Bindings : db.access[b] = "none"
      BY <1>1, <2>1, <2>2 DEF NoAccess, PackageOf
    <2>4. Active(db') = c.bindings /\ Lasting(db')
      BY <1>1, <2>1, <2>3 DEF Active, Granted, Lasting, Dated
    <2> QED BY <2>1, <2>4, InForceIsActive DEF OnboardingConfirmed
  <1>5. CASE CreateAssetAssignmentTask(h)
    <2>1. /\ c.op = "create_asset_assignment_task"
          /\ db'.tasks = Tasked(c, "PROVISION", c.job)
      BY <1>1, <1>5 DEF CreateAssetAssignmentTask, Database
    <2> DEFINE t == [type |-> "PROVISION", job |-> c.job, key |-> c.key]
    <2>2. t \in db'.tasks
      BY <2>1 DEF Tasked
    <2> QED BY <2>1, <2>2, TaskConfirmed
  <1>6. CASE ActivateEmployeeAndAccount(h)
    <2>1. PICK r \in OpenRequests(db) :
             Save(h, [db EXCEPT !.employee.status = "ACTIVE",
                                !.employee.version = db.employee.version + 1,
                                !.account = [status |-> "ACTIVE",
                                             version |-> db.account.version + 1],
                                !.requests = Completed(r)])
      BY <1>1, <1>6 DEF ActivateEmployeeAndAccount, Activatable, OpenOf
    <2>2. /\ c.op = Activation /\ AtWork(db') /\ db'.account.status = "ACTIVE"
          /\ db'.requests = Completed(r)
      BY <1>1, <1>6, <2>1 DEF ActivateEmployeeAndAccount, Database, Employees, AtWork, Activation
    <2>3. NoOpenRequest(db')
      BY <2>2, NoneLeftOpen DEF Current
    <2> QED BY <2>2, <2>3, LastStepConfirmed
  <1> QED BY <1>2, <1>3, <1>4, <1>5, <1>6 DEF Onboarding

LEMMA TransferConfirms ==
    ASSUME TypesHold, FiniteRequests, NEW h \in Handlers, Transfer(h), Current(h)
    PROVE  TransferConfirmed(txn[h].command, db', now) <=>
              ~(/\ txn[h].command.op = "verify_employee_transfer_consistency"
                /\ Lapsed(db', now) # {})
  <1> DEFINE c == txn[h].command
  <1>1. /\ txn[h].read = db /\ db \in Database /\ c.bindings \subseteq Bindings
        /\ db.employee \in Employees /\ db.access \in Access
        /\ c.job \in Jobs /\ Package \in [Jobs -> SUBSET Bindings]
    BY Transaction, EnterpriseAssumption DEF Current, CommandFields, Database
  <1> USE DEF Is, Save
  <1>2. CASE UpdateEmployeeAssignment(h)
    <2>1. /\ c.op = "update_employee_assignment" /\ AtWork(db) /\ db.employee.version = c.version
          /\ db'.employee = [db.employee EXCEPT !.job = c.job, !.version = db.employee.version + 1]
      BY <1>1, <1>2 DEF UpdateEmployeeAssignment, Database, Reassignable
    <2>2. /\ AtWork(db') /\ db'.employee.job = c.job
          /\ db'.employee.version = c.version + 1
      BY <1>1, <2>1 DEF Employees, AtWork
    <2> QED BY <2>1, <2>2 DEF TransferConfirmed
  <1>3. CASE RevokeObsoleteBaselineAccess(h)
    <2>1. /\ c.op = "revoke_obsolete_baseline_access" /\ db'.access = Withdrawn(c.bindings)
      BY <1>1, <1>3 DEF RevokeObsoleteBaselineAccess, Database
    <2>2. Active(db') \cap c.bindings = {}
      BY <2>1 DEF Active, Withdrawn
    <2> QED BY <2>1, <2>2, InForceIsActive DEF TransferConfirmed
  <1>4. CASE GrantTargetBaselineAccess(h)
    <2>1. /\ c.op = "grant_target_baseline_access" /\ db'.access = Granted(db, c.bindings)
          /\ db'.until = Dated(c.bindings, None)
      BY <1>1, <1>4 DEF GrantTargetBaselineAccess, Database
    <2>2. c.bindings \subseteq InForce(db', now)
      BY <1>1, <2>1 DEF Active, Granted, InForce, Dated
    <2> QED BY <2>1, <2>2 DEF TransferConfirmed
  <1>5. CASE CreateAssetAdjustmentTask(h)
    <2>1. /\ c.op = "create_asset_adjustment_task" /\ db'.tasks = Tasked(c, "ADJUST", c.job)
      BY <1>1, <1>5 DEF CreateAssetAdjustmentTask, Database
    <2> DEFINE t == [type |-> "ADJUST", job |-> c.job, key |-> c.key]
    <2>2. t \in db'.tasks
      BY <2>1 DEF Tasked
    <2>3. TransferConfirmed(c, db', now)
      BY <2>1, <2>2, TaskConfirmed
    <2> QED BY <2>1, <2>3
  <1>6. CASE VerifyEmployeeTransferConsistency(h)
    <2>1. PICK r \in OpenRequests(db) : Save(h, [db EXCEPT !.requests = Completed(r)])
      BY <1>1, <1>6 DEF VerifyEmployeeTransferConsistency, TransferConsistent, OpenOf
    <2>2. /\ c.op = "verify_employee_transfer_consistency" /\ c.job = db.employee.job
          /\ Active(db) = Package[c.job]
      BY <1>1, <1>6 DEF VerifyEmployeeTransferConsistency, TransferConsistent, OpenOf
    <2>3. /\ db'.requests = Completed(r) /\ db'.employee = db.employee
          /\ db'.access = db.access
      BY <1>1, <2>1 DEF Database
    <2>4. NoOpenRequest(db')
      BY <2>3, NoneLeftOpen DEF Current
    <2>5. Active(db') = Package[db'.employee.job] /\ db'.employee.job = c.job
      BY <2>2, <2>3 DEF Active
    <2> QED BY <2>2, <2>4, <2>5, LastStepConfirmed
  <1> QED BY <1>2, <1>3, <1>4, <1>5, <1>6 DEF Transfer

LEMMA OffboardingConfirms ==
    ASSUME TypesHold, FiniteRequests, NEW h \in Handlers, Offboarding(h), Current(h)
    PROVE  OffboardingConfirmed(txn[h].command, db', now)
  <1> DEFINE c == txn[h].command
  <1>1. /\ txn[h].read = db /\ db \in Database
        /\ db.employee \in Employees /\ db.account \in Accounts /\ db.access \in Access
    BY Transaction DEF Current, Database
  <1> USE DEF Is, Save
  <1>2. CASE DisableCorporateAccount(h)
    <2>1. /\ c.op = "disable_corporate_account"
          /\ db'.account = IF db.account.status = "ACTIVE"
                            THEN [status |-> "DISABLED", version |-> db.account.version + 1]
                            ELSE db.account
      BY <1>1, <1>2 DEF DisableCorporateAccount, Database
    <2> QED BY <2>1 DEF OffboardingConfirmed, NoAccountInUse
  <1>3. CASE RevokeAllEmployeeAccess(h)
    <2>1. /\ c.op = "revoke_all_employee_access" /\ c.bindings = Active(db)
          /\ db'.access = Withdrawn(c.bindings)
      BY <1>1, <1>3 DEF RevokeAllEmployeeAccess, Database, AllRevocable
    <2>2. Active(db') = {}
      BY <2>1 DEF Active, Withdrawn
    <2> QED BY <2>1, <2>2, InForceIsActive DEF OffboardingConfirmed
  <1>4. CASE CreateAssetReturnTask(h)
    <2>1. /\ c.op = "create_asset_return_task"
          /\ db'.tasks = Tasked(c, "RETURN", db.employee.job)
      BY <1>1, <1>4 DEF CreateAssetReturnTask, Database
    <2> DEFINE t == [type |-> "RETURN", job |-> db.employee.job, key |-> c.key]
    <2>2. t \in db'.tasks
      BY <2>1 DEF Tasked
    <2> QED BY <2>1, <2>2, TaskConfirmed
  <1>5. CASE MarkEmployeeInactive(h)
    <2>1. /\ c.op = "mark_employee_inactive" /\ NoAccountInUse(db) /\ Active(db) = {}
          /\ db'.employee.status = "INACTIVE"
          /\ db'.account = db.account /\ db'.access = db.access
      BY <1>1, <1>5 DEF MarkEmployeeInactive, Database, Employees, Deactivatable
    <2>2. Active(db') = {}
      BY <2>1 DEF Active
    <2> QED BY <2>1, <2>2, InForceIsActive DEF OffboardingConfirmed, NoAccountInUse
  <1>6. CASE VerifyEmployeeOffboardingConsistency(h)
    <2>1. PICK r \in OpenRequests(db) : Save(h, [db EXCEPT !.requests = Completed(r)])
      BY <1>1, <1>6 DEF VerifyEmployeeOffboardingConsistency, OffboardingConsistent, OpenOf
    <2>2. /\ c.op = "verify_employee_offboarding_consistency"
          /\ db.employee.status = "INACTIVE" /\ NoAccountInUse(db) /\ Active(db) = {}
      BY <1>1, <1>6 DEF VerifyEmployeeOffboardingConsistency, OffboardingConsistent, OpenOf
    <2>3. /\ db'.requests = Completed(r) /\ db'.employee = db.employee
          /\ db'.account = db.account /\ db'.access = db.access
      BY <1>1, <2>1 DEF Database
    <2>4. NoOpenRequest(db')
      BY <2>3, NoneLeftOpen DEF Current
    <2>5. db'.employee.status = "INACTIVE" /\ NoAccountInUse(db') /\ Active(db') = {}
      BY <2>2, <2>3 DEF NoAccountInUse, Active
    <2> QED BY <2>2, <2>4, <2>5, LastStepConfirmed
  <1> QED BY <1>2, <1>3, <1>4, <1>5, <1>6 DEF Offboarding

\* A grant that reads the clock on the day it began gives what was asked for.
LEMMA GrantConfirms ==
    ASSUME TypesHold, NEW h \in Handlers, GrantApplicationAccess(h), Current(h)
    PROVE  AccessConfirmed(txn[h].command, db', now)
  <1> DEFINE c == txn[h].command
  <1>1. /\ txn[h].read = db /\ txn[h].began = now /\ now \in Nat /\ db \in Database
        /\ c \in Commands /\ c.bindings \subseteq Bindings /\ c.days \in Nat /\ c.days > 0
        /\ db.access \in Access
    BY Transaction, EnterpriseAssumption
       DEF Current, CommandFields, Database, GrantApplicationAccess, Is
  <1>2. PICK t \in now .. now : \E requests : Save(h, [db EXCEPT
              !.access = Granted(db, c.bindings),
              !.until = Dated(c.bindings \ InForce(db, t), t + c.days),
              !.accessRequests = requests])
    BY <1>1 DEF GrantApplicationAccess
  <1>3. /\ db'.access = Granted(db, c.bindings)
        /\ db'.until = Dated(c.bindings \ InForce(db, now), now + c.days)
    <2>1. t = now
      BY <1>1
    <2> QED BY <1>1, <1>2, <2>1 DEF Save, Database
  <1>4. now + c.days > now
    BY <1>1
  <1>5. ASSUME NEW b \in c.bindings PROVE b \in InForce(db', now)
    <2>1. b \in Active(db')
      BY <1>1, <1>3 DEF Active, Granted
    <2>2. CASE b \in InForce(db, now)
      BY <1>1, <1>3, <2>1, <2>2 DEF InForce, Dated
    <2>3. CASE b \notin InForce(db, now)
      BY <1>1, <1>3, <1>4, <2>1, <2>3 DEF InForce, Dated
    <2> QED BY <2>2, <2>3
  <1> QED BY <1>5 DEF AccessConfirmed

LEMMA VerifiesTransfers ==
    ASSUME TypesHold, NEW h \in Handlers, txn[h] # None, TypeOf(txn[h].command) # "TRANSFER"
    PROVE  txn[h].command.op # "verify_employee_transfer_consistency"
  <1> DEFINE c == txn[h].command
             type == TypeOf(c)
  <1>1. /\ \A t \in DOMAIN ActionsByRequestType : type = t => c.op \in ActionsByRequestType[t]
        /\ type \notin DOMAIN ActionsByRequestType => c.op = "create_access_request"
    BY Transaction, ActionsAssumption
  <1> HIDE DEF type
  <1> QED BY <1>1 DEF ActionsByRequestType, type

\* What a write on a true snapshot leaves for the verification.
Confirms(h) ==
    LET c == txn[h].command IN
    Confirmed(c, db', now) <=>
        ~(/\ c.op = "verify_employee_transfer_consistency"
          /\ Lapsed(db', now) # {})

LEMMA CommitsConfirm ==
    ASSUME TypesHold, OnboardingInv, FiniteRequests, Next, NEW h \in Handlers, Commits(h),
           txn[h].read = db, txn[h].began = now, Cardinality(OpenRequests(db)) <= 1
    PROVE  Confirms(h)
  <1> DEFINE c == txn[h].command
             type == TypeOf(c)
  <1>1. Acts(h) /\ txn[h] # None /\ Current(h) /\ db \in Database
    BY CommitsAct, Transaction DEF Commits, Current
  <1>2. CASE type = "TRANSFER"
    BY <1>1, <1>2, ActsOfItsType, TransferConfirms DEF Confirmed, Confirms
  <1>3. SUFFICES ASSUME type # "TRANSFER" PROVE Confirmed(c, db', now)
    BY <1>1, <1>2, VerifiesTransfers DEF Confirms
  <1>4. CASE type = "ONBOARDING"
    BY <1>1, <1>4, ActsOfItsType, OnboardingConfirms DEF Confirmed
  <1>5. CASE type = "OFFBOARDING"
    BY <1>1, <1>5, ActsOfItsType, OffboardingConfirms DEF Confirmed
  <1>6. CASE type = "ACCESS"
    BY <1>1, <1>6, ActsOfItsType, GrantConfirms DEF Confirmed
  <1>7. CASE type = "PURCHASE"
    <2>0. CreateRequestAndReserveBudget(h)
      BY <1>1, <1>7, ActsOfItsType
    <2>1. /\ db.center.version = c.version /\ c \in db'.purchases
          /\ db'.center.version = db.center.version + 1
      BY <1>1, <2>0 DEF CreateRequestAndReserveBudget, Reservable, Database, Purchasable
    <2> QED BY <1>7, <2>1 DEF Confirmed, PurchaseConfirmed
  <1>8. CASE type = "ORDER"
    <2>0. CreateMaintenanceWorkOrder(h)
      BY <1>1, <1>8, ActsOfItsType
    <2>1. /\ db.equipment.version = c.version /\ c.key \in db'.orders
          /\ db'.equipment = [status |-> "MAINTENANCE_PENDING",
                               version |-> db.equipment.version + 1]
      BY <1>1, <2>0 DEF CreateMaintenanceWorkOrder, Save, Database, Current, Orderable, NewKeyIn
    <2> QED BY <1>8, <2>1 DEF Confirmed, OrderConfirmed
  <1>9. CASE type \notin {"ONBOARDING", "OFFBOARDING", "ACCESS", "PURCHASE", "ORDER"}
    BY <1>3, <1>9 DEF Confirmed
  <1> QED BY <1>4, <1>5, <1>6, <1>7, <1>8, <1>9

\* A write on a snapshot that was still true when it committed leaves what the
\* verification of the gateway asks for; only the last step of a transfer counts an
\* access that has run out, and the verification then refuses what it has done.
THEOREM WritesAreConfirmed == Spec => ConfirmedAtCommit
  <1>1. TypesHold /\ OnboardingInv /\ FiniteRequests /\ [Next]_vars =>
          [\A h \in Handlers :
             Commits(h) /\ txn[h].read = db /\ txn[h].began = now
                 /\ Cardinality(OpenRequests(db)) <= 1 =>
                LET c == txn[h].command IN
                Confirmed(c, db', now) <=>
                    ~(/\ c.op = "verify_employee_transfer_consistency"
                      /\ Lapsed(db', now) # {})]_vars
    BY CommitsConfirm DEF Confirms
  <1> QED BY <1>1, InitTypes, TypesKept, InitEmployee, EmployeeKept, InitOnboarding,
             OnboardingKept, InitFinite, FiniteKept, PTL DEF Spec, ConfirmedAtCommit

-----------------------------------------------------------------------------
(* What the policies let through can be carried out: the rules of a policy    *)
(* are read off its outcome, which none but the last of them has.              *)

\* If only the last rule has the outcome of the first that applies, no other applies.
LEMMA OnlyTheLast ==
    ASSUME NEW rules, NEW n \in Nat, n > 0, DOMAIN rules = 1..n, rules[n][1],
           \A i \in 1..n : rules[i][2] = FirstRule(rules) => i = n
    PROVE  \A i \in 1..n : rules[i][1] => i = n
  <1> DEFINE applies == {i \in DOMAIN rules : rules[i][1]}
             first == CHOOSE i \in applies : \A j \in applies : i <= j
  <1>1. \E i \in applies : \A j \in applies : i <= j
    <2>1. applies \in SUBSET Nat /\ n \in applies
      OBVIOUS
    <2> HIDE DEF applies
    <2> QED BY <2>1, SmallestIn
  <1>2. first \in applies /\ \A j \in applies : first <= j
    BY <1>1
  <1>3. FirstRule(rules) = rules[first][2]
    BY DEF FirstRule
  <1> HIDE DEF first
  <1> QED BY <1>2, <1>3

\* What the facts are when a policy sends a draft to approval.
LEMMA LifecycleApproved ==
    ASSUME NEW r \in LifecycleDrafts, NEW context, LifecycleOutcome(r, context) = NeedsApproval
    PROVE  /\ context.open = {}
           /\ r.type = "ONBOARDING" => context.profile.employee.status = "NONE"
           /\ r.type # "ONBOARDING" => AtWork(context.profile)
  <1> DEFINE employee == context.profile.employee
             open == context.open # {}
             known == r.type = "ONBOARDING" /\ employee.status # "NONE"
             away == r.type # "ONBOARDING" /\ ~AtWork(context.profile)
             rules ==
        <<<<r.flaw \in {"missing", "vague_reason"}, "NEEDS_INPUT">>,
          <<r.flaw = "other_date", "DENIED">>,
          <<open, "NO_ACTION">>,
          <<known, "NO_ACTION">>,
          <<r.type # "ONBOARDING" /\ employee.status = "NONE", "NEEDS_INPUT">>,
          <<away, "NO_ACTION">>,
          <<r.type # "OFFBOARDING" /\ r.flaw \in {"target", "location"}, "NEEDS_INPUT">>,
          <<r.type = "TRANSFER" /\ employee.job = r.job, "NO_ACTION">>,
          <<r.flaw = "approver", "HUMAN_REVIEW">>,
          <<r.type # "OFFBOARDING" /\ r.flaw = "outside_department", "NEEDS_INPUT">>,
          <<TRUE, "APPROVAL_REQUIRED">>>>
  <1>1. FirstRule(rules) = NeedsApproval
    BY DEF LifecycleOutcome
  <1> HIDE DEF open, known, away
  <1>2. /\ DOMAIN rules = 1..11 /\ rules[11][1]
        /\ \A i \in 1..11 : rules[i][2] = NeedsApproval => i = 11
    BY DEF NeedsApproval
  <1>3. rules[3][1] = open /\ rules[4][1] = known /\ rules[6][1] = away
    OBVIOUS
  <1> HIDE DEF rules
  <1>4. /\ 11 \in Nat /\ 11 > 0
        /\ \A i \in 1..11 : rules[i][2] = FirstRule(rules) => i = 11
    BY <1>1, <1>2
  <1>5. \A i \in 1..11 : rules[i][1] => i = 11
    BY <1>2, <1>4, OnlyTheLast, Zenon
  <1>6. ~ open /\ ~ known /\ ~ away
    BY <1>3, <1>5
  <1> QED BY <1>6 DEF open, known, away

LEMMA PurchaseApproved ==
    ASSUME NEW r \in PurchaseDrafts, NEW context, PurchaseOutcome(r, context) = NeedsApproval
    PROVE  /\ ~ (r.amount > Budget - context.center.reserved)
           /\ ~ SimilarOpenRequest(r, context.open)
  <1> DEFINE over == r.amount > Budget - context.center.reserved
             similar == SimilarOpenRequest(r, context.open)
             rules ==
        <<<<r.flaw = "missing", "MISSING_INFORMATION">>,
          <<r.flaw = "requester", "REQUESTER_INVALID">>,
          <<r.flaw = "policy", "POLICY_INACTIVE">>,
          <<InvalidDraft(r, {"item"}), "ITEM_INVALID">>,
          <<r.flaw = "cost_center", "COST_CENTER_INVALID">>,
          <<over, "BUDGET_INSUFFICIENT">>,
          <<InvalidDraft(r, {"date", "reason"}), "DATE_OR_REASON_INVALID">>,
          <<similar, "DUPLICATE_RISK">>,
          <<RouteRefused(r), "APPROVER_INVALID">>,
          <<TRUE, "NONE">>>>
  <1>1. FirstRule(rules) = "NONE"
    <2>1. PurchaseError(r, context) = "NONE"
      BY DEF PurchaseOutcome, NeedsApproval
    <2> QED BY <2>1 DEF PurchaseError
  <1> HIDE DEF over, similar
  <1>2. /\ DOMAIN rules = 1..10 /\ rules[10][1]
        /\ \A i \in 1..10 : rules[i][2] = "NONE" => i = 10
    OBVIOUS
  <1>3. rules[6][1] = over /\ rules[8][1] = similar
    OBVIOUS
  <1> HIDE DEF rules
  <1>4. /\ 10 \in Nat /\ 10 > 0
        /\ \A i \in 1..10 : rules[i][2] = FirstRule(rules) => i = 10
    BY <1>1, <1>2
  <1>5. \A i \in 1..10 : rules[i][1] => i = 10
    BY <1>2, <1>4, OnlyTheLast, Zenon
  <1>6. ~ over /\ ~ similar
    BY <1>3, <1>5
  <1> QED BY <1>6 DEF over, similar

LEMMA OrderApproved ==
    ASSUME NEW r \in OrderDrafts, NEW d, OrderOutcome(r, d) = NeedsApproval
    PROVE  d.equipment.status # "MAINTENANCE_PENDING"
  <1> DEFINE pending == d.equipment.status = "MAINTENANCE_PENDING"
             rules ==
        <<<<r.flaw \in {"unknown_equipment", "missing", "vague_fault"}, "NEEDS_INPUT">>,
          <<r.flaw = "danger", "HUMAN_REVIEW">>,
          <<pending, "NO_ACTION">>,
          <<r.flaw \in {"out_of_service", "manager"}, "HUMAN_REVIEW">>,
          <<TRUE, "APPROVAL_REQUIRED">>>>
  <1>1. FirstRule(rules) = NeedsApproval
    BY DEF OrderOutcome
  <1> HIDE DEF pending
  <1>2. /\ DOMAIN rules = 1..5 /\ rules[5][1]
        /\ \A i \in 1..5 : rules[i][2] = NeedsApproval => i = 5
    BY DEF NeedsApproval
  <1>3. rules[3][1] = pending
    OBVIOUS
  <1> HIDE DEF rules
  <1>4. /\ 5 \in Nat /\ 5 > 0
        /\ \A i \in 1..5 : rules[i][2] = FirstRule(rules) => i = 5
    BY <1>1, <1>2
  <1>5. \A i \in 1..5 : rules[i][1] => i = 5
    BY <1>2, <1>4, OnlyTheLast, Zenon
  <1>6. ~ pending
    BY <1>3, <1>5
  <1> QED BY <1>6 DEF pending

LEMMA AccessApproved ==
    ASSUME NEW r \in AccessDrafts, NEW context, AccessOutcome(r, context) = NeedsApproval
    PROVE  r.binding \notin context.roles
  <1> DEFINE held == r.binding \in context.roles
             rules ==
        <<<<r.flaw = "missing", "NEEDS_INPUT">>,
          <<held, "NO_ACTION">>,
          <<r.flaw = "too_long", "DENIED">>,
          <<r.flaw = "approver", "HUMAN_REVIEW">>,
          <<TRUE, "APPROVAL_REQUIRED">>>>
  <1>1. FirstRule(rules) = NeedsApproval
    BY DEF AccessOutcome
  <1> HIDE DEF held
  <1>2. /\ DOMAIN rules = 1..5 /\ rules[5][1]
        /\ \A i \in 1..5 : rules[i][2] = NeedsApproval => i = 5
    BY DEF NeedsApproval
  <1>3. rules[2][1] = held
    OBVIOUS
  <1> HIDE DEF rules
  <1>4. /\ 5 \in Nat /\ 5 > 0
        /\ \A i \in 1..5 : rules[i][2] = FirstRule(rules) => i = 5
    BY <1>1, <1>2
  <1>5. \A i \in 1..5 : rules[i][1] => i = 5
    BY <1>2, <1>4, OnlyTheLast, Zenon
  <1>6. ~ held
    BY <1>3, <1>5
  <1> QED BY <1>6 DEF held

LEMMA FirstStep ==
    ASSUME NEW type, NEW definitions, 1 \in DOMAIN definitions
    PROVE  SequentialSteps(type, definitions)[1] =
               [definitions[1] EXCEPT !.key = StepKey(type, 1)]
  BY DEF SequentialSteps

\* What their first commands say.
LEMMA FirstOfLifecycle ==
    ASSUME NEW r \in LifecycleDrafts, NEW d, NEW c, c = LifecycleSteps(r, d)[1]
    PROVE  /\ r.type = "ONBOARDING" => c.op = "create_pending_employee"
           /\ r.type = "TRANSFER" =>
                 c.op = "update_employee_assignment" /\ c.version = d.employee.version
           /\ r.type = "OFFBOARDING" =>
                 c.op = "disable_corporate_account" /\ c.accountVersion = AccountVersion(d)
  <1>1. CASE r.type = "ONBOARDING"
    <2>1. LifecycleSteps(r, d) = SequentialSteps("ONBOARDING", OnboardingDefinitions(r.job))
      BY <1>1 DEF LifecycleSteps, OnboardingSteps
    <2>2. /\ 1 \in DOMAIN OnboardingDefinitions(r.job)
          /\ OnboardingDefinitions(r.job)[1] =
                [Command("create_pending_employee") EXCEPT !.job = r.job]
      BY DEF OnboardingDefinitions
    <2>3. LifecycleSteps(r, d)[1] =
              [OnboardingDefinitions(r.job)[1] EXCEPT !.key = StepKey("ONBOARDING", 1)]
      BY <2>1, <2>2, FirstStep
    <2> QED BY <1>1, <2>2, <2>3 DEF Command
  <1>2. CASE r.type = "TRANSFER"
    <2>1. LifecycleSteps(r, d) = SequentialSteps("TRANSFER", TransferDefinitions(d, now, r.job))
      BY <1>2 DEF LifecycleSteps, TransferSteps
    <2>2. /\ 1 \in DOMAIN TransferDefinitions(d, now, r.job)
          /\ TransferDefinitions(d, now, r.job)[1] =
                [Command("update_employee_assignment") EXCEPT !.job = r.job,
                    !.version = d.employee.version]
      BY DEF TransferDefinitions
    <2>3. LifecycleSteps(r, d)[1] =
              [TransferDefinitions(d, now, r.job)[1] EXCEPT !.key = StepKey("TRANSFER", 1)]
      BY <2>1, <2>2, FirstStep
    <2> QED BY <1>2, <2>2, <2>3 DEF Command
  <1>3. CASE r.type = "OFFBOARDING"
    <2>1. LifecycleSteps(r, d) = SequentialSteps("OFFBOARDING", OffboardingDefinitions(d, now))
      BY <1>3 DEF LifecycleSteps, OffboardingSteps
    <2>2. /\ 1 \in DOMAIN OffboardingDefinitions(d, now)
          /\ OffboardingDefinitions(d, now)[1] =
                [Command("disable_corporate_account") EXCEPT
                    !.accountVersion = AccountVersion(d)]
      BY DEF OffboardingDefinitions
    <2>3. LifecycleSteps(r, d)[1] =
              [OffboardingDefinitions(d, now)[1] EXCEPT !.key = StepKey("OFFBOARDING", 1)]
      BY <2>1, <2>2, FirstStep
    <2> QED BY <1>3, <2>2, <2>3 DEF Command
  <1>4. r.type = "ONBOARDING" \/ r.type = "TRANSFER" \/ r.type = "OFFBOARDING"
    BY DEF LifecycleDrafts
  <1> QED BY <1>1, <1>2, <1>3, <1>4

\* The only command of a plan of one step.
LEMMA OnlyStep ==
    ASSUME NEW type, NEW definition
    PROVE  SequentialSteps(type, <<definition>>)[1] =
               [definition EXCEPT !.key = StepKey(type, 1)]
  <1> DEFINE definitions == <<definition>>
  <1>1. 1 \in DOMAIN definitions /\ definitions[1] = definition
    OBVIOUS
  <1> HIDE DEF definitions
  <1>2. SequentialSteps(type, definitions)[1] = [definition EXCEPT !.key = StepKey(type, 1)]
    BY <1>1, FirstStep
  <1> QED BY <1>2 DEF definitions

LEMMA FirstOfOthers ==
    ASSUME NEW r, NEW context, NEW d, NEW c
    PROVE  /\ c = PurchaseSteps(r, context)[1] =>
                 /\ c.op = Purchase /\ c.requester = r.requester
                 /\ c.item = r.item /\ c.amount = r.amount
                 /\ c.version = context.center.version
           /\ c = OrderSteps(d)[1] =>
                 /\ c.op = "create_maintenance_work_order"
                 /\ c.version = d.equipment.version
           /\ c = AccessSteps(r)[1] =>
                 /\ c.op = "grant_application_access" /\ c.bindings = {r.binding}
                 /\ c.request = None
  <1>1. ASSUME c = PurchaseSteps(r, context)[1]
        PROVE  /\ c.op = Purchase /\ c.requester = r.requester
               /\ c.item = r.item /\ c.amount = r.amount
               /\ c.version = context.center.version
    <2> DEFINE definition == [Command("create_request_and_reserve_budget") EXCEPT
                  !.requester = r.requester, !.item = r.item, !.amount = r.amount,
                  !.version = context.center.version]
    <2>1. PurchaseSteps(r, context)[1] = [definition EXCEPT !.key = StepKey("PURCHASE", 1)]
      BY OnlyStep DEF PurchaseSteps
    <2> QED BY <1>1, <2>1 DEF Command, Purchase
  <1>2. ASSUME c = OrderSteps(d)[1]
        PROVE  c.op = "create_maintenance_work_order" /\ c.version = d.equipment.version
    <2> DEFINE definition == [Command("create_maintenance_work_order") EXCEPT
                  !.version = d.equipment.version]
    <2>1. OrderSteps(d)[1] = [definition EXCEPT !.key = StepKey("ORDER", 1)]
      BY OnlyStep DEF OrderSteps
    <2> QED BY <1>2, <2>1 DEF Command
  <1>3. ASSUME c = AccessSteps(r)[1]
        PROVE  /\ c.op = "grant_application_access" /\ c.bindings = {r.binding}
               /\ c.request = None
    <2> DEFINE definition == [Command("grant_application_access") EXCEPT
                  !.bindings = {r.binding}, !.days = r.days]
    <2>1. AccessSteps(r)[1] = [definition EXCEPT !.key = StepKey("ACCESS", 1)]
      BY OnlyStep DEF AccessSteps
    <2> QED BY <1>3, <2>1 DEF Command
  <1> QED BY <1>1, <1>2, <1>3

\* What the facts are before the first command of a plan is carried out.
NeverStarted(c, d) ==
    /\ c.op = "create_pending_employee" => d.employee.status = "NONE"
    /\ c.op \in {"update_employee_assignment", "disable_corporate_account"} =>
          AtWork(d) /\ OpenRequests(d) = {}
    /\ c.op = "update_employee_assignment" => c.version = d.employee.version
    /\ c.op = "disable_corporate_account" => c.accountVersion = AccountVersion(d)
    /\ c.op = Purchase => /\ Reservable(c, d) /\ NoSimilarPurchase(c, d)
    /\ c.op = "create_maintenance_work_order" => Orderable(c, d)
    /\ c.op = "grant_application_access" =>
          c.bindings \cap InForce(d, now) = {} /\ c.request = None

ApprovedFirst ==
    {"create_pending_employee", "update_employee_assignment", "disable_corporate_account",
     Purchase, "create_maintenance_work_order", "grant_application_access"}

\* Two commands of one content.
LEMMA SameContent ==
    ASSUME NEW c \in CommandFields, NEW a, c = [a EXCEPT !.key = c.key]
    PROVE  /\ c.op = a.op /\ c.bindings = a.bindings /\ c.version = a.version
           /\ c.accountVersion = a.accountVersion /\ c.request = a.request
           /\ c.requester = a.requester /\ c.item = a.item /\ c.amount = a.amount
  <1>1. \A f \in {"op", "bindings", "version", "accountVersion", "request", "requester",
                 "item", "amount"} : f \in DOMAIN c
    BY DEF CommandFields
  <1> QED BY <1>1

\* What is sent to approval on the database d fits that database; only the
\* equipment may be the one of an earlier database e.
LEMMA ApprovedFits ==
    ASSUME NEW e, NEW d \in Database, NEW c \in CommandFields, NEW type,
           NEW a \in Approvable(type, e, d),
           c = [a EXCEPT !.key = c.key]
    PROVE  /\ c.op \in ApprovedFirst
           /\ c.op = "create_maintenance_work_order" \/ e = d => NeverStarted(c, d)
  <1>1. /\ c.op = a.op /\ c.bindings = a.bindings /\ c.version = a.version
        /\ c.accountVersion = a.accountVersion /\ c.request = a.request
        /\ c.requester = a.requester /\ c.item = a.item /\ c.amount = a.amount
    BY SameContent
  <1>2. ASSUME NEW r \in LifecycleDrafts,
               LifecycleOutcome(r, LifecycleContext(e, d)) = NeedsApproval,
               a = LifecycleSteps(r, e)[1]
        PROVE  /\ c.op \in ApprovedFirst \ {"create_maintenance_work_order"}
               /\ e = d => NeverStarted(c, d)
    <2>1. /\ OpenRequests(d) = {}
          /\ r.type = "ONBOARDING" => e.employee.status = "NONE"
          /\ r.type # "ONBOARDING" => AtWork(e)
      BY <1>2, LifecycleApproved DEF LifecycleContext
    <2>2. /\ r.type = "ONBOARDING" => a.op = "create_pending_employee"
          /\ r.type = "TRANSFER" =>
                a.op = "update_employee_assignment" /\ a.version = e.employee.version
          /\ r.type = "OFFBOARDING" =>
                a.op = "disable_corporate_account" /\ a.accountVersion = AccountVersion(e)
      BY <1>2, FirstOfLifecycle
    <2>3. /\ r.type = "ONBOARDING" => c.op = "create_pending_employee"
          /\ r.type = "TRANSFER" =>
                c.op = "update_employee_assignment" /\ c.version = e.employee.version
          /\ r.type = "OFFBOARDING" =>
                c.op = "disable_corporate_account" /\ c.accountVersion = AccountVersion(e)
      BY <1>1, <2>2
    <2>4. r.type = "ONBOARDING" \/ r.type = "TRANSFER" \/ r.type = "OFFBOARDING"
      BY DEF LifecycleDrafts
    <2> QED BY <2>1, <2>3, <2>4 DEF ApprovedFirst, NeverStarted, Purchase
  <1>3. ASSUME NEW r \in PurchaseDrafts,
               PurchaseOutcome(r, ProcurementContext(r, e, d)) = NeedsApproval,
               a = PurchaseSteps(r, ProcurementContext(r, e, d))[1]
        PROVE  c.op = Purchase /\ (e = d => NeverStarted(c, d))
    <2> DEFINE context == ProcurementContext(r, e, d)
    <2>1. /\ ~ (r.amount > Budget - context.center.reserved)
          /\ ~ SimilarOpenRequest(r, context.open)
      BY <1>3, PurchaseApproved
    <2>2. /\ context.center = e.center
          /\ context.open = {p \in d.purchases : p.requester = r.requester}
      BY DEF ProcurementContext
    <2>3. /\ a.op = Purchase /\ a.requester = r.requester
          /\ a.item = r.item /\ a.amount = r.amount
          /\ a.version = context.center.version
      BY <1>3, FirstOfOthers
    <2>4. /\ c.op = Purchase /\ c.requester = r.requester
          /\ c.item = r.item /\ c.amount = r.amount
          /\ c.version = context.center.version
      BY <1>1, <2>3
    <2> HIDE DEF context
    <2>5. c.amount \in Nat /\ Budget \in Nat /\ d.center.reserved \in Nat
      BY EnterpriseAssumption DEF CommandFields, Database, CostCenters
    <2>6. e = d => Reservable(c, d)
      BY <2>1, <2>2, <2>4, <2>5 DEF Reservable
    <2>7. NoSimilarPurchase(c, d)
      BY <2>1, <2>2, <2>4 DEF SimilarOpenRequest, NoSimilarPurchase
    <2> QED BY <2>4, <2>6, <2>7 DEF NeverStarted, Purchase
  <1>4. ASSUME NEW r \in OrderDrafts, MaintenanceConsistent(e, d),
               OrderOutcome(r, e) = NeedsApproval, a = OrderSteps(e)[1]
        PROVE  c.op = "create_maintenance_work_order" /\ NeverStarted(c, d)
    <2>1. e.equipment.status # "MAINTENANCE_PENDING" /\ e.equipment = d.equipment
      BY <1>4, OrderApproved DEF MaintenanceConsistent
    <2>2. a.op = "create_maintenance_work_order" /\ a.version = e.equipment.version
      BY <1>4, FirstOfOthers
    <2>3. c.op = "create_maintenance_work_order" /\ c.version = e.equipment.version
      BY <1>1, <2>2
    <2>4. Orderable(c, d)
      BY <2>1, <2>3 DEF Orderable, Database, Equipment
    <2> QED BY <2>3, <2>4 DEF NeverStarted, Purchase
  <1>5. ASSUME NEW r \in AccessDrafts, AccessOutcome(r, AccessContext(e, d)) = NeedsApproval,
               a = AccessSteps(r)[1]
        PROVE  c.op = "grant_application_access" /\ NeverStarted(c, d)
    <2>1. r.binding \notin InForce(d, now)
      BY <1>5, AccessApproved DEF AccessContext
    <2>2. /\ a.op = "grant_application_access" /\ a.bindings = {r.binding}
          /\ a.request = None
      BY <1>5, FirstOfOthers
    <2>3. /\ c.op = "grant_application_access" /\ c.bindings = {r.binding}
          /\ c.request = None
      BY <1>1, <2>2
    <2> QED BY <2>1, <2>3 DEF NeverStarted, Purchase
  <1>6. \/ \E r \in LifecycleDrafts :
              /\ LifecycleOutcome(r, LifecycleContext(e, d)) = NeedsApproval
              /\ a = LifecycleSteps(r, e)[1]
        \/ \E r \in PurchaseDrafts :
              /\ PurchaseOutcome(r, ProcurementContext(r, e, d)) = NeedsApproval
              /\ a = PurchaseSteps(r, ProcurementContext(r, e, d))[1]
        \/ \E r \in OrderDrafts :
              /\ MaintenanceConsistent(e, d) /\ OrderOutcome(r, e) = NeedsApproval
              /\ a = OrderSteps(e)[1]
        \/ \E r \in AccessDrafts :
              /\ AccessOutcome(r, AccessContext(e, d)) = NeedsApproval
              /\ a = AccessSteps(r)[1]
    BY DEF Approvable
  <1> QED BY <1>2, <1>3, <1>4, <1>5, <1>6 DEF ApprovedFirst, Purchase

\* The first command of a plan passes the check, and its write is accepted.
LEMMA FirstIsAccepted ==
    ASSUME NEW d \in Database, NEW c \in Commands, c.op \in ApprovedFirst, NeverStarted(c, d),
           c.key \notin CarriedOut(d), c.op = "grant_application_access" => AtWork(d)
    PROVE  Executable(c, d, now) /\ Accepts(c, d, d)
  <1>1. /\ c \in CommandFields
        /\ TypeOf(c) \notin DOMAIN ActionsByRequestType => c.op = "create_access_request"
        /\ \A type \in DOMAIN ActionsByRequestType :
              TypeOf(c) = type => c.op \in ActionsByRequestType[type]
    BY EnterpriseAssumption, ActionsAssumption
  <1>2. /\ TypeOf(c) = "ONBOARDING" => c.op = "create_pending_employee"
        /\ TypeOf(c) = "TRANSFER" => c.op = "update_employee_assignment"
        /\ TypeOf(c) = "OFFBOARDING" => c.op = "disable_corporate_account"
        /\ TypeOf(c) = "ACCESS" <=> c.op = "grant_application_access"
        /\ TypeOf(c) = "PURCHASE" => c.op = Purchase
        /\ TypeOf(c) = "ORDER" => c.op = "create_maintenance_work_order"
    <2> DEFINE type == TypeOf(c)
    <2> HIDE DEF type
    <2>1. /\ type \notin DOMAIN ActionsByRequestType => c.op = "create_access_request"
          /\ \A t \in DOMAIN ActionsByRequestType : type = t => c.op \in ActionsByRequestType[t]
      BY <1>1 DEF type
    <2> QED BY <2>1 DEF ActionsByRequestType, ApprovedFirst, Purchase, type
  <1>3. NewKeyIn(c, d, d) /\ NotPurchased(c, d)
    BY DEF NewKeyIn, NotPurchased, CarriedOut
  <1>4. Executable(c, d, now)
    <2>1. CASE c.op = "create_pending_employee"
      <3>1. d.employee.status = "NONE"
        BY <2>1 DEF NeverStarted
      <3>2. OnboardingExecutable(c, d) /\ ActivationExecutable(c, d, now)
        BY <2>1, <3>1 DEF OnboardingExecutable, ActivationExecutable
      <3> QED BY <1>2, <2>1, <3>2 DEF Executable, Purchase
    <2>2. CASE c.op = "update_employee_assignment"
      <3>1. AtWork(d) /\ d.employee.version = c.version
        BY <2>2 DEF NeverStarted
      <3>2. TransferExecutable(c, d, now)
        BY <2>2, <3>1 DEF TransferExecutable
      <3> QED BY <1>2, <2>2, <3>2 DEF Executable, Purchase
    <2>3. CASE c.op = "disable_corporate_account"
      <3>1. AtWork(d) /\ AccountVersion(d) = c.accountVersion
        BY <2>3 DEF NeverStarted
      <3>2. OffboardingExecutable(c, d, now)
        BY <2>3, <3>1 DEF OffboardingExecutable
      <3> QED BY <1>2, <2>3, <3>2 DEF Executable, Purchase
    <2>4. CASE c.op = Purchase
      <3>1. PurchaseExecutable(c, d)
        BY <2>4 DEF NeverStarted, PurchaseExecutable, Reservable, NoSimilarPurchase
      <3> QED BY <1>2, <2>4, <3>1 DEF Executable, Purchase
    <2>5. CASE c.op = "create_maintenance_work_order"
      <3>1. OrderExecutable(c, d)
        BY <2>5 DEF NeverStarted, OrderExecutable, Orderable
      <3> QED BY <1>2, <2>5, <3>1 DEF Executable, Purchase
    <2>6. CASE c.op = "grant_application_access"
      <3>1. AccessExecutable(c, d, now)
        BY <2>6 DEF NeverStarted, AccessExecutable
      <3> QED BY <1>2, <2>6, <3>1 DEF Executable, Purchase
    <2> QED BY <2>1, <2>2, <2>3, <2>4, <2>5, <2>6 DEF ApprovedFirst
  <1>5. Accepts(c, d, d)
    <2>1. c.op = "create_pending_employee" => EmployeeCreatable(d, d)
      BY DEF NeverStarted, EmployeeCreatable
    <2>2. c.op = "update_employee_assignment" => Reassignable(c, d)
      BY DEF NeverStarted, Reassignable
    <2>3. c.op = "disable_corporate_account" => AccountDisableable(c, d)
      <3>1. d.account.version \in Nat /\ None \notin Nat
        BY EnterpriseAssumption DEF Database, Accounts
      <3> QED BY <3>1 DEF NeverStarted, AccountDisableable, AccountVersion
    <2>4. c.op = Purchase => Purchasable(c, d, d)
      BY <1>3 DEF NeverStarted, Purchasable
    <2>5. c.op = "create_maintenance_work_order" => Orderable(c, d)
      BY DEF NeverStarted
    <2>6. c.op = "grant_application_access" => AccessGrantable(c, d, d)
      BY DEF NeverStarted, AccessGrantable, MatchingRequest, NoRowSince
    <2> QED BY <1>3, <2>1, <2>2, <2>3, <2>4, <2>5, <2>6 DEF Accepts, ApprovedFirst, Purchase
  <1> QED BY <1>4, <1>5

\* What a policy lets through, the check of the gateway and the enterprise
\* system let through as well while the facts stay as they were read.
THEOREM ApprovedIsExecutable == Spec => []ApprovableIsExecutable
  <1>1. TypesHold => ApprovableIsExecutable
    <2> SUFFICES ASSUME TypesHold, NEW h \in Handlers, txn[h] # None,
                        txn[h].read = db, txn[h].command.key \notin CarriedOut(db),
                        NEW e \in FirstReads(txn[h].command),
                        NEW a \in Approvable(TypeOf(txn[h].command), e, db),
                        txn[h].command = [a EXCEPT !.key = txn[h].command.key],
                        txn[h].command.op = "grant_application_access" => AtWork(db)
                 PROVE  /\ Executable(txn[h].command, db, now)
                        /\ Accepts(txn[h].command, db, db)
      BY DEF ApprovableIsExecutable
    <2> DEFINE c == txn[h].command
    <2>1. c \in Commands /\ c \in CommandFields /\ db \in Database
      BY Transaction
    <2>2. TypeOf(c) = "ORDER" => c.op = "create_maintenance_work_order"
      BY <2>1, ActionsAssumption DEF ActionsByRequestType
    <2>3. c.op = "create_maintenance_work_order" \/ e = db
      BY <2>2 DEF FirstReads
    <2>4. c.op \in ApprovedFirst /\ NeverStarted(c, db)
      BY <2>1, <2>3, ApprovedFits
    <2> QED BY <2>1, <2>4, FirstIsAccepted
  <1> QED BY <1>1, InitTypes, TypesKept, PTL DEF Spec

-----------------------------------------------------------------------------
(* The plans of the lifecycle: what their steps have made of the facts they  *)
(* were built on, as long as nothing else was carried out.                   *)

LEMMA StepKeysDiffer ==
    ASSUME NEW type, NEW other, NEW i, NEW j, StepKey(type, i) = StepKey(other, j)
    PROVE  type = other /\ i = j
  BY DEF StepKey

\* A command of a plan is one of its definitions with the key of its place.
LEMMA StepsAre ==
    ASSUME NEW type, NEW definitions, NEW c \in Steps(SequentialSteps(type, definitions))
    PROVE  \E i \in DOMAIN definitions : c = [definitions[i] EXCEPT !.key = StepKey(type, i)]
  BY DEF Steps, SequentialSteps

\* What the commands of a plan of each type say.
IsOnboardingStep(c, i, job) ==
    /\ c.key = StepKey("ONBOARDING", i)
    /\ i = 1 => c.op = "create_pending_employee" /\ c.job = job
    /\ i = 2 => c.op = "create_disabled_corporate_account"
    /\ i = 3 => /\ c.op = "assign_baseline_access_package" /\ c.job = job
                /\ c.bindings = Package[job]
    /\ i = 4 => c.op = "create_asset_assignment_task" /\ c.job = job
    /\ i = 5 => c.op = Activation /\ c.version = 1 /\ c.accountVersion = 1

IsTransferStep(c, i, f, job) ==
    /\ c.key = StepKey("TRANSFER", i)
    /\ i = 1 => /\ c.op = "update_employee_assignment" /\ c.job = job
                /\ c.version = f.employee.version
    /\ i = 2 => /\ c.op = "revoke_obsolete_baseline_access"
                /\ c.bindings = InForce(f, 0) \ Package[job]
    /\ i = 3 => /\ c.op = "grant_target_baseline_access" /\ c.job = job
                /\ c.bindings = Package[job] \ InForce(f, 0)
    /\ i = 4 => c.op = "create_asset_adjustment_task" /\ c.job = job
    /\ i = 5 => c.op = "verify_employee_transfer_consistency" /\ c.job = job

IsOffboardingStep(c, i, f) ==
    /\ c.key = StepKey("OFFBOARDING", i)
    /\ i = 1 => /\ c.op = "disable_corporate_account"
                /\ c.accountVersion = AccountVersion(f)
    /\ i = 2 => c.op = "revoke_all_employee_access" /\ c.bindings = InForce(f, 0)
    /\ i = 3 => c.op = Return /\ c.tasks = {task.key : task \in f.tasks}
    /\ i = 4 => c.op = "mark_employee_inactive" /\ c.version = f.employee.version
    /\ i = 5 => c.op = "verify_employee_offboarding_consistency"

LEMMA OnboardingCommands ==
    ASSUME NEW job, NEW c \in Steps(OnboardingSteps(job))
    PROVE  \E i \in 1..5 : IsOnboardingStep(c, i, job)
  <1> DEFINE definitions == OnboardingDefinitions(job)
  <1>1. PICK i \in DOMAIN definitions :
               c = [definitions[i] EXCEPT !.key = StepKey("ONBOARDING", i)]
    BY StepsAre DEF OnboardingSteps
  <1>2. /\ DOMAIN definitions = 1..5
        /\ definitions[1] = [Command("create_pending_employee") EXCEPT !.job = job]
        /\ definitions[2] = Command("create_disabled_corporate_account")
        /\ definitions[3] = [Command("assign_baseline_access_package") EXCEPT !.job = job,
                                !.bindings = Package[job]]
        /\ definitions[4] = [Command("create_asset_assignment_task") EXCEPT !.job = job]
        /\ definitions[5] = [Command("activate_employee_and_account") EXCEPT !.version = 1,
                                !.accountVersion = 1]
    BY DEF OnboardingDefinitions
  <1> HIDE DEF definitions
  <1>3. i \in 1..5
    BY <1>2
  <1>4. /\ c.key = StepKey("ONBOARDING", i)
        /\ i = 1 => c.op = "create_pending_employee" /\ c.job = job
        /\ i = 2 => c.op = "create_disabled_corporate_account"
        /\ i = 3 => /\ c.op = "assign_baseline_access_package" /\ c.job = job
                    /\ c.bindings = Package[job]
        /\ i = 4 => c.op = "create_asset_assignment_task" /\ c.job = job
        /\ i = 5 => c.op = Activation /\ c.version = 1 /\ c.accountVersion = 1
    <2>1. CASE i = 1
      BY <1>1, <1>2, <2>1 DEF Command
    <2>2. CASE i = 2
      BY <1>1, <1>2, <2>2 DEF Command
    <2>3. CASE i = 3
      <3>1. c = [[Command("assign_baseline_access_package") EXCEPT !.job = job,
                     !.bindings = Package[job]] EXCEPT !.key = StepKey("ONBOARDING", 3)]
        BY <1>1, <1>2, <2>3
      <3> QED BY <2>3, <3>1 DEF Command
    <2>4. CASE i = 4
      BY <1>1, <1>2, <2>4 DEF Command
    <2>5. CASE i = 5
      <3>1. c = [[Command("activate_employee_and_account") EXCEPT !.version = 1,
                     !.accountVersion = 1] EXCEPT !.key = StepKey("ONBOARDING", 5)]
        BY <1>1, <1>2, <2>5
      <3> QED BY <2>5, <3>1 DEF Command, Activation
    <2> QED BY <1>3, <2>1, <2>2, <2>3, <2>4, <2>5
  <1>5. IsOnboardingStep(c, i, job)
    BY <1>4 DEF IsOnboardingStep
  <1> QED BY <1>3, <1>5

LEMMA TransferCommands ==
    ASSUME NEW f, NEW job, NEW c \in Steps(TransferSteps(f, 0, job))
    PROVE  \E i \in 1..5 : IsTransferStep(c, i, f, job)
  <1> DEFINE definitions == TransferDefinitions(f, 0, job)
             revoked == InForce(f, 0) \ Package[job]
             granted == Package[job] \ InForce(f, 0)
  <1>1. PICK i \in DOMAIN definitions :
               c = [definitions[i] EXCEPT !.key = StepKey("TRANSFER", i)]
    BY StepsAre DEF TransferSteps
  <1>2. /\ DOMAIN definitions = 1..5
        /\ definitions[1] = [Command("update_employee_assignment") EXCEPT !.job = job,
                                !.version = f.employee.version]
        /\ definitions[2] = [Command("revoke_obsolete_baseline_access") EXCEPT
                                !.bindings = revoked]
        /\ definitions[3] = [Command("grant_target_baseline_access") EXCEPT !.job = job,
                                !.bindings = granted]
        /\ definitions[4] = [Command("create_asset_adjustment_task") EXCEPT !.job = job]
        /\ definitions[5] = [Command("verify_employee_transfer_consistency") EXCEPT
                                !.job = job]
    BY DEF TransferDefinitions
  <1> HIDE DEF definitions, revoked, granted
  <1>3. i \in 1..5
    BY <1>2
  <1>4. /\ c.key = StepKey("TRANSFER", i)
        /\ i = 1 => /\ c.op = "update_employee_assignment" /\ c.job = job
                    /\ c.version = f.employee.version
        /\ i = 2 => c.op = "revoke_obsolete_baseline_access" /\ c.bindings = revoked
        /\ i = 3 => /\ c.op = "grant_target_baseline_access" /\ c.job = job
                    /\ c.bindings = granted
        /\ i = 4 => c.op = "create_asset_adjustment_task" /\ c.job = job
        /\ i = 5 => c.op = "verify_employee_transfer_consistency" /\ c.job = job
    <2>1. CASE i = 1
      <3>1. c = [[Command("update_employee_assignment") EXCEPT !.job = job,
                     !.version = f.employee.version] EXCEPT !.key = StepKey("TRANSFER", 1)]
        BY <1>1, <1>2, <2>1
      <3> QED BY <2>1, <3>1 DEF Command
    <2>2. CASE i = 2
      BY <1>1, <1>2, <2>2 DEF Command
    <2>3. CASE i = 3
      <3>1. c = [[Command("grant_target_baseline_access") EXCEPT !.job = job,
                     !.bindings = granted] EXCEPT !.key = StepKey("TRANSFER", 3)]
        BY <1>1, <1>2, <2>3
      <3> QED BY <2>3, <3>1 DEF Command
    <2>4. CASE i = 4
      BY <1>1, <1>2, <2>4 DEF Command
    <2>5. CASE i = 5
      <3>1. c = [[Command("verify_employee_transfer_consistency") EXCEPT !.job = job]
                    EXCEPT !.key = StepKey("TRANSFER", 5)]
        BY <1>1, <1>2, <2>5
      <3> QED BY <2>5, <3>1 DEF Command
    <2> QED BY <1>3, <2>1, <2>2, <2>3, <2>4, <2>5
  <1>5. IsTransferStep(c, i, f, job)
    BY <1>4 DEF IsTransferStep, revoked, granted
  <1> QED BY <1>3, <1>5

LEMMA OffboardingCommands ==
    ASSUME NEW f, NEW c \in Steps(OffboardingSteps(f, 0))
    PROVE  \E i \in 1..5 : IsOffboardingStep(c, i, f)
  <1> DEFINE definitions == OffboardingDefinitions(f, 0)
             bindings == InForce(f, 0)
             keys == {task.key : task \in f.tasks}
  <1>1. PICK i \in DOMAIN definitions :
               c = [definitions[i] EXCEPT !.key = StepKey("OFFBOARDING", i)]
    BY StepsAre DEF OffboardingSteps
  <1>2. /\ DOMAIN definitions = 1..5
        /\ definitions[1] = [Command("disable_corporate_account") EXCEPT
                                !.accountVersion = AccountVersion(f)]
        /\ definitions[2] = [Command("revoke_all_employee_access") EXCEPT
                                !.bindings = bindings]
        /\ definitions[3] = [Command("create_asset_return_task") EXCEPT !.tasks = keys]
        /\ definitions[4] = [Command("mark_employee_inactive") EXCEPT
                                !.version = f.employee.version]
        /\ definitions[5] = Command("verify_employee_offboarding_consistency")
    BY DEF OffboardingDefinitions
  <1> HIDE DEF definitions, bindings, keys
  <1>3. i \in 1..5
    BY <1>2
  <1>4. /\ c.key = StepKey("OFFBOARDING", i)
        /\ i = 1 => /\ c.op = "disable_corporate_account"
                    /\ c.accountVersion = AccountVersion(f)
        /\ i = 2 => c.op = "revoke_all_employee_access" /\ c.bindings = bindings
        /\ i = 3 => c.op = Return /\ c.tasks = keys
        /\ i = 4 => c.op = "mark_employee_inactive" /\ c.version = f.employee.version
        /\ i = 5 => c.op = "verify_employee_offboarding_consistency"
    BY <1>1, <1>2, <1>3 DEF Command, Return
  <1>5. IsOffboardingStep(c, i, f)
    BY <1>4 DEF IsOffboardingStep, bindings, keys
  <1> QED BY <1>3, <1>5

\* The step of a plan is carried out in d.
Done(type, d, i) == StepKey(type, i) \in CarriedOut(d)

\* All that was carried out are steps of the plan, and not the last one.
Begun(type, d) == CarriedOut(d) \subseteq {StepKey(type, i) : i \in 1..4}

\* What the steps of the plans have made of the facts f.
OnboardingShape(f, job, d) ==
    LET done(i) == Done("ONBOARDING", d, i) IN
    /\ done(1) => f.employee.status = "NONE" /\ OpenOf(d, "ONBOARDING") # {}
    /\ d.employee = IF done(1) THEN [status |-> "PENDING_ONBOARDING", job |-> job,
                                     version |-> 1]
                    ELSE f.employee
    /\ d.account = IF done(2) THEN [status |-> "DISABLED", version |-> 1] ELSE f.account
    /\ IF done(3) THEN Active(d) = Package[job] ELSE d.access = f.access
    /\ IF done(4) THEN \E t \in d.tasks : t.type = "PROVISION" /\ t.job = job
       ELSE d.tasks = {}

\* What a transfer to the job takes and gives, going by the accesses in force.
ToRevoke(f, job) == InForce(f, 0) \ Package[job]
ToGrant(f, job) == Package[job] \ InForce(f, 0)

TransferredAccess(f, job, d) ==
    LET done(i) == Done("TRANSFER", d, i) IN
    \A b \in Bindings :
       /\ b \in Active(d) <=> \/ b \in Active(f) /\ ~(done(2) /\ b \in ToRevoke(f, job))
                              \/ done(3) /\ b \in ToGrant(f, job)
       /\ d.until[b] = IF done(3) /\ b \in ToGrant(f, job) THEN None ELSE f.until[b]

TransferredTasks(job, d) ==
    IF Done("TRANSFER", d, 4) THEN \E t \in d.tasks : t.type = "ADJUST" /\ t.job = job
    ELSE d.tasks = {}

TransferShape(f, job, d) ==
    LET done(i) == Done("TRANSFER", d, i) IN
    /\ done(1) => AtWork(f) /\ OpenOf(d, "TRANSFER") # {}
    /\ d.employee = IF done(1) THEN [status |-> "ACTIVE", job |-> job,
                                     version |-> f.employee.version + 1]
                    ELSE f.employee
    /\ TransferredAccess(f, job, d) /\ TransferredTasks(job, d)

OffboardingShape(f, d) ==
    LET done(i) == Done("OFFBOARDING", d, i) IN
    /\ done(1) \/ done(2) \/ done(3) \/ done(4) => AtWork(f)
    /\ done(1) => OpenOf(d, "OFFBOARDING") # {}
    /\ IF done(1) THEN NoAccountInUse(d) ELSE d.account = f.account
    /\ Active(d) = IF done(2) THEN {} ELSE Active(f)
    /\ d.until = f.until
    /\ IF done(3) THEN \E t \in d.tasks : t.type = "RETURN" ELSE d.tasks = {}
    /\ IF done(4) THEN d.employee.status = "INACTIVE" ELSE d.employee = f.employee

\* Nothing carried out in a snapshot is undone.
Older == \A h \in Handlers : txn[h] # None => CarriedOut(txn[h].read) \subseteq CarriedOut(db)

LEMMA InitOlder == Init => Older
  BY DEF Init, Older

LEMMA OlderKept == TypesHold /\ Older /\ [Next]_vars => Older'
  <1> SUFFICES ASSUME TypesHold, Older, [Next]_vars, NEW g \in Handlers, (txn[g] # None)'
               PROVE  CarriedOut(txn'[g].read) \subseteq CarriedOut(db')
    BY DEF Older
  <1>1. CarriedOut(db) \subseteq CarriedOut(db')
    BY Writes DEF Effect, KeyEffect, CarriedOut
  <1>2. CASE txn[g] # None /\ txn'[g] = txn[g]
    BY <1>1, <1>2 DEF Older
  <1>3. CASE \E c \in offered : /\ ReadBefore(c) /\ db' = db
                                /\ txn'[g] = [command |-> c, read |-> db, began |-> now]
    BY <1>3
  <1> QED BY <1>2, <1>3, Snapshots

\* What is known of the facts of a scenario.
LEMMA FactsAre ==
    ASSUME NEW s \in Scenarios
    PROVE  /\ s.facts \in Database /\ CarriedOut(s.facts) = {}
           /\ s.facts.employee.status \in {"NONE", "ACTIVE"}
           /\ s.facts.employee.status = "NONE" =>
                 s.facts.account.status = "NONE" /\ \A b \in Bindings : s.facts.access[b] = "none"
           /\ s.facts.tasks = {}
  <1>1. PICK e \in {"NONE", "ACTIVE"}, a \in {"NONE", "ACTIVE"}, j \in Jobs, x \in SUBSET Bindings :
               /\ s.facts = Seeded(e, a, j, x, s.facts.until) /\ s.facts.until \in Until
               /\ e = "NONE" => a = "NONE" /\ x = {}
    BY SeedAssumption
  <1>2. s.facts \in Database
    BY <1>1, SeededIsTyped
  <1> DEFINE until == s.facts.until
  <1>3. s.facts = Seeded(e, a, j, x, until)
    BY <1>1
  <1> HIDE DEF until
  <1> QED BY <1>1, <1>2, <1>3 DEF Seeded, CarriedOut

\* From d to e, the step i of a plan is carried out, and was not before.
Advances(type, d, e, i) ==
    /\ Begun(type, d) /\ ~Done(type, d, i)
    /\ \A j \in 1..4 : Done(type, e, j) <=> Done(type, d, j) \/ j = i

\* A write of a plan that has begun, seen from the snapshot and from the database.
LEMMA WriteAdvances ==
    ASSUME TypesHold, Known, Older, NEW h \in Handlers, Acts(h), NEW type, Begun(type, db')
    PROVE  /\ txn[h].command.key \in {StepKey(type, i) : i \in 1..4}
           /\ \A i \in 1..4 : txn[h].command.key = StepKey(type, i) =>
                 /\ Advances(type, db, db', i)
                 /\ Begun(type, txn[h].read) /\ ~Done(type, txn[h].read, i)
  <1> DEFINE c == txn[h].command
  <1>1. txn[h] # None /\ Effect(h)
    BY ActsHaveEffect DEF Effect
  <1>2. c.key \notin CarriedOut(db) /\ CarriedOut(db') = CarriedOut(db) \cup {c.key}
    BY <1>1, KeyOfEffect
  <1>3. CarriedOut(txn[h].read) \subseteq CarriedOut(db)
    BY <1>1 DEF Older
  <1>4. c.key \in {StepKey(type, i) : i \in 1..4}
    BY <1>2 DEF Begun
  <1>5. ASSUME NEW i \in 1..4, c.key = StepKey(type, i)
        PROVE  Advances(type, db, db', i)
    <2>1. Begun(type, db) /\ ~Done(type, db, i)
      BY <1>2, <1>5 DEF Begun, Done
    <2>2. ASSUME NEW j \in 1..4 PROVE Done(type, db', j) <=> Done(type, db, j) \/ j = i
      BY <1>2, <1>5, StepKeysDiffer DEF Done
    <2> QED BY <2>1, <2>2 DEF Advances
  <1>6. ASSUME NEW i \in 1..4, c.key = StepKey(type, i)
        PROVE  Begun(type, txn[h].read) /\ ~Done(type, txn[h].read, i)
    BY <1>2, <1>3, <1>6 DEF Begun, Done
  <1> QED BY <1>4, <1>5, <1>6

\* The four steps of a plan that an advance may add to.
LEMMA AdvancesBy ==
    ASSUME NEW type, NEW d, NEW e, NEW i \in 1..4, Advances(type, d, e, i)
    PROVE  /\ Begun(type, d) /\ ~Done(type, d, i)
           /\ Done(type, e, 1) <=> Done(type, d, 1) \/ i = 1
           /\ Done(type, e, 2) <=> Done(type, d, 2) \/ i = 2
           /\ Done(type, e, 3) <=> Done(type, d, 3) \/ i = 3
           /\ Done(type, e, 4) <=> Done(type, d, 4) \/ i = 4
  BY DEF Advances

\* A request that was opened is open, and a task that was made is there.
LEMMA OpenedIsOpen ==
    ASSUME NEW c, NEW type, NEW d, d.requests = Opened(c, type)
    PROVE  OpenOf(d, type) # {}
  <1> DEFINE r == [type |-> type, key |-> c.key, status |-> "EXECUTING"]
  <1>1. r \in d.requests
    BY DEF Opened
  <1>2. r.status = "EXECUTING" /\ r.type = type
    OBVIOUS
  <1> HIDE DEF r
  <1> QED BY <1>1, <1>2 DEF OpenOf, OpenRequests

LEMMA TaskedIsThere ==
    ASSUME NEW c, NEW type, NEW job, NEW d, d.tasks = Tasked(c, type, job)
    PROVE  \E t \in d.tasks : t.type = type /\ t.job = job
  <1> DEFINE t == [type |-> type, job |-> job, key |-> c.key]
  <1>1. t \in d.tasks
    BY DEF Tasked
  <1>2. t.type = type /\ t.job = job
    OBVIOUS
  <1> HIDE DEF t
  <1> QED BY <1>1, <1>2

LEMMA SameRequests ==
    ASSUME NEW d, NEW e, e.requests = d.requests, NEW type
    PROVE  OpenOf(e, type) = OpenOf(d, type)
  BY DEF OpenOf, OpenRequests

LEMMA SameAccess ==
    ASSUME NEW d, NEW e, e.access = d.access
    PROVE  Active(e) = Active(d)
  BY DEF Active

\* A write of an operation is made by the action of that name.
LEMMA OnboardingActs ==
    ASSUME NEW h \in Handlers, Onboarding(h)
    PROVE  LET op == txn[h].command.op IN
           /\ op = "create_pending_employee" => CreatePendingEmployee(h)
           /\ op = "create_disabled_corporate_account" => CreateDisabledCorporateAccount(h)
           /\ op = "assign_baseline_access_package" => AssignBaselineAccessPackage(h)
           /\ op = "create_asset_assignment_task" => CreateAssetAssignmentTask(h)
  BY DEF Onboarding, CreatePendingEmployee, CreateDisabledCorporateAccount,
     AssignBaselineAccessPackage, CreateAssetAssignmentTask, ActivateEmployeeAndAccount, Is

LEMMA TransferActs ==
    ASSUME NEW h \in Handlers, Transfer(h)
    PROVE  LET op == txn[h].command.op IN
           /\ op = "update_employee_assignment" => UpdateEmployeeAssignment(h)
           /\ op = "revoke_obsolete_baseline_access" => RevokeObsoleteBaselineAccess(h)
           /\ op = "grant_target_baseline_access" => GrantTargetBaselineAccess(h)
           /\ op = "create_asset_adjustment_task" => CreateAssetAdjustmentTask(h)
  BY DEF Transfer, UpdateEmployeeAssignment, RevokeObsoleteBaselineAccess,
     GrantTargetBaselineAccess, CreateAssetAdjustmentTask,
     VerifyEmployeeTransferConsistency, Is

LEMMA OffboardingActs ==
    ASSUME NEW h \in Handlers, Offboarding(h)
    PROVE  LET op == txn[h].command.op IN
           /\ op = "disable_corporate_account" => DisableCorporateAccount(h)
           /\ op = "revoke_all_employee_access" => RevokeAllEmployeeAccess(h)
           /\ op = "create_asset_return_task" => CreateAssetReturnTask(h)
           /\ op = "mark_employee_inactive" => MarkEmployeeInactive(h)
           /\ op = "verify_employee_offboarding_consistency" =>
                 VerifyEmployeeOffboardingConsistency(h)
  BY DEF Offboarding, DisableCorporateAccount, RevokeAllEmployeeAccess,
     CreateAssetReturnTask, MarkEmployeeInactive, VerifyEmployeeOffboardingConsistency, Is

\* The i-th write of an onboarding, on facts that have their shape, gives the next one.
LEMMA OnboardingAdvances ==
    ASSUME TypesHold, NEW s \in Scenarios, NEW job \in Jobs, NEW h \in Handlers, txn[h] # None,
           Onboarding(h), NEW i \in 1..4, IsOnboardingStep(txn[h].command, i, job),
           Advances("ONBOARDING", db, db', i), ~Done("ONBOARDING", txn[h].read, i),
           OnboardingShape(s.facts, job, db), OnboardingShape(s.facts, job, txn[h].read)
    PROVE  OnboardingShape(s.facts, job, db')
  <1> DEFINE c == txn[h].command
             read == txn[h].read
             f == s.facts
             type == "ONBOARDING"
  <1>1. /\ read \in Database /\ db \in Database /\ Package \in [Jobs -> SUBSET Bindings]
        /\ read.access \in Access /\ db.access \in Access /\ f.access \in Access
    BY Transaction, EnterpriseAssumption, FactsAre DEF Database
  <1>2. /\ Done(type, db', 1) <=> Done(type, db, 1) \/ i = 1
        /\ Done(type, db', 2) <=> Done(type, db, 2) \/ i = 2
        /\ Done(type, db', 3) <=> Done(type, db, 3) \/ i = 3
        /\ Done(type, db', 4) <=> Done(type, db, 4) \/ i = 4
        /\ ~Done(type, db, i)
    BY AdvancesBy
  <1>3. CASE i = 1
    <2>1. CreatePendingEmployee(h) /\ c.job = job
      BY <1>3, OnboardingActs DEF IsOnboardingStep
    <2>2. /\ db'.employee = [status |-> "PENDING_ONBOARDING", job |-> job, version |-> 1]
          /\ db'.account = db.account /\ db'.access = db.access /\ db'.tasks = db.tasks
          /\ db'.requests = Opened(c, type) /\ read.employee.status = "NONE"
      BY <1>1, <2>1 DEF CreatePendingEmployee, EmployeeCreatable, Save, Database
    <2>3. OpenOf(db', type) # {} /\ Active(db') = Active(db)
      BY <2>2, OpenedIsOpen, SameAccess
    <2>4. f.employee.status = "NONE"
      BY <1>3, <2>2 DEF OnboardingShape
    <2> QED BY <1>2, <1>3, <2>2, <2>3, <2>4 DEF OnboardingShape
  <1>4. CASE i = 2
    <2>1. CreateDisabledCorporateAccount(h)
      BY <1>4, OnboardingActs DEF IsOnboardingStep
    <2>2. /\ db'.account = [status |-> "DISABLED", version |-> 1]
          /\ db'.employee = db.employee /\ db'.access = db.access /\ db'.tasks = db.tasks
          /\ db'.requests = db.requests
      BY <1>1, <2>1 DEF CreateDisabledCorporateAccount, Save, Database
    <2>3. OpenOf(db', type) = OpenOf(db, type) /\ Active(db') = Active(db)
      BY <2>2, SameRequests, SameAccess
    <2> QED BY <1>2, <1>4, <2>2, <2>3 DEF OnboardingShape
  <1>5. CASE i = 3
    <2>1. AssignBaselineAccessPackage(h) /\ c.bindings = Package[job]
      BY <1>5, OnboardingActs DEF IsOnboardingStep
    <2>2. /\ db'.access = Granted(read, Package[job]) /\ Pending(read)
          /\ \A b \in Package[job] : read.access[b] = "none"
          /\ db'.employee = db.employee /\ db'.account = db.account /\ db'.tasks = db.tasks
          /\ db'.requests = db.requests
      BY <1>1, <2>1 DEF AssignBaselineAccessPackage, PackageAssignable, Save, Database
    <2>3. OpenOf(db', type) = OpenOf(db, type)
      BY <2>2, SameRequests
    \* Who is pending was unknown, and had no access.
    <2>4. f.employee.status = "NONE"
      BY <2>2, FactsAre DEF OnboardingShape, Pending
    <2>5. \A b \in Bindings : db.access[b] = "none"
      BY <1>2, <1>5, <2>4, FactsAre DEF OnboardingShape
    <2>6. Active(db') = Package[job]
      BY <1>1, <2>2, <2>5 DEF Active, Granted, Access
    <2> QED BY <1>2, <1>5, <2>2, <2>3, <2>6 DEF OnboardingShape
  <1>6. CASE i = 4
    <2>1. CreateAssetAssignmentTask(h) /\ c.job = job
      BY <1>6, OnboardingActs DEF IsOnboardingStep
    <2>2. /\ db'.tasks = Tasked(c, "PROVISION", job)
          /\ db'.employee = db.employee /\ db'.account = db.account /\ db'.access = db.access
          /\ db'.requests = db.requests
      BY <1>1, <2>1 DEF CreateAssetAssignmentTask, Save, Database
    <2>3. OpenOf(db', type) = OpenOf(db, type) /\ Active(db') = Active(db)
      BY <2>2, SameRequests, SameAccess
    <2>4. \E t \in db'.tasks : t.type = "PROVISION" /\ t.job = job
      BY <2>2, TaskedIsThere
    <2> QED BY <1>2, <1>6, <2>2, <2>3, <2>4 DEF OnboardingShape
  <1> QED BY <1>3, <1>4, <1>5, <1>6

LEMMA TransferAdvances ==
    ASSUME TypesHold, NEW s \in Scenarios, NEW job \in Jobs, NEW h \in Handlers, txn[h] # None,
           Transfer(h), NEW i \in 1..4, IsTransferStep(txn[h].command, i, s.facts, job),
           Advances("TRANSFER", db, db', i), ~Done("TRANSFER", txn[h].read, i),
           TransferShape(s.facts, job, db), TransferShape(s.facts, job, txn[h].read)
    PROVE  TransferShape(s.facts, job, db')
  <1> DEFINE c == txn[h].command
             read == txn[h].read
             f == s.facts
             type == "TRANSFER"
  <1>1. /\ read \in Database /\ db \in Database /\ Package \in [Jobs -> SUBSET Bindings]
        /\ db.employee \in Employees /\ read.access \in Access /\ db.access \in Access
        /\ f.access \in Access /\ db.until \in Until
    BY Transaction, EnterpriseAssumption, FactsAre DEF Database
  <1>2. /\ Done(type, db', 1) <=> Done(type, db, 1) \/ i = 1
        /\ Done(type, db', 2) <=> Done(type, db, 2) \/ i = 2
        /\ Done(type, db', 3) <=> Done(type, db, 3) \/ i = 3
        /\ Done(type, db', 4) <=> Done(type, db, 4) \/ i = 4
        /\ ~Done(type, db, i)
    BY AdvancesBy
  <1>3. CASE i = 1
    <2>1. UpdateEmployeeAssignment(h) /\ c.job = job /\ c.version = f.employee.version
      BY <1>3, TransferActs DEF IsTransferStep
    <2>2. /\ db'.employee = [db.employee EXCEPT !.job = job,
                                                !.version = read.employee.version + 1]
          /\ db'.account = db.account /\ db'.access = db.access /\ db'.tasks = db.tasks
          /\ db'.until = db.until
          /\ db'.requests = Opened(c, type)
          /\ AtWork(read) /\ read.employee.version = c.version
      BY <1>1, <2>1 DEF UpdateEmployeeAssignment, Reassignable, Save, Database, Employees
    <2>3. OpenOf(db', type) # {} /\ Active(db') = Active(db)
      BY <2>2, OpenedIsOpen, SameAccess
    <2>4. AtWork(f) /\ db.employee = f.employee
      BY <1>2, <1>3, <2>2 DEF TransferShape, AtWork
    <2>5. db'.employee = [status |-> "ACTIVE", job |-> job, version |-> f.employee.version + 1]
      <3>1. db'.employee = [status |-> db.employee.status, job |-> job,
                            version |-> read.employee.version + 1]
        BY <1>1, <2>2 DEF Employees
      <3> QED BY <2>1, <2>2, <2>4, <3>1 DEF AtWork
    <2>6. AtWork(f) /\ OpenOf(db', type) # {} /\ db'.employee.status = "ACTIVE"
      BY <2>3, <2>4, <2>5
    <2>7. TransferredAccess(f, job, db') /\ TransferredTasks(job, db')
      BY <1>2, <1>3, <2>2, <2>3 DEF TransferShape, TransferredAccess, TransferredTasks
    <2> QED BY <1>2, <1>3, <2>5, <2>6, <2>7 DEF TransferShape
  <1>4. CASE i = 2
    <2>1. RevokeObsoleteBaselineAccess(h) /\ c.bindings = ToRevoke(f, job)
      BY <1>4, TransferActs DEF IsTransferStep, ToRevoke
    <2>2. /\ db'.access = Withdrawn(c.bindings) /\ db'.until = db.until
          /\ db'.employee = db.employee /\ db'.account = db.account /\ db'.tasks = db.tasks
          /\ db'.requests = db.requests
      BY <1>1, <2>1 DEF RevokeObsoleteBaselineAccess, Save, Database
    <2>3. OpenOf(db', type) = OpenOf(db, type)
      BY <2>2, SameRequests
    <2>4. \A b \in Bindings : b \in Active(db') <=> b \in Active(db) /\ b \notin c.bindings
      BY <1>1, <2>2 DEF Active, Withdrawn, Access
    <2>5. ToRevoke(f, job) \cap ToGrant(f, job) = {}
      BY DEF ToRevoke, ToGrant
    <2>6. TransferredAccess(f, job, db')
      BY <1>2, <1>4, <2>1, <2>2, <2>4, <2>5 DEF TransferShape, TransferredAccess
    <2> QED BY <1>2, <1>4, <2>2, <2>3, <2>6 DEF TransferShape, TransferredTasks
  <1>5. CASE i = 3
    <2>1. /\ GrantTargetBaselineAccess(h) /\ c.bindings = ToGrant(f, job)
      BY <1>5, TransferActs DEF IsTransferStep, ToGrant
    <2>2. /\ db'.access = Granted(read, c.bindings) /\ db'.until = Dated(c.bindings, None)
          /\ db'.employee = db.employee /\ db'.account = db.account /\ db'.tasks = db.tasks
          /\ db'.requests = db.requests
      BY <1>1, <2>1 DEF GrantTargetBaselineAccess, Save, Database
    <2>3. OpenOf(db', type) = OpenOf(db, type)
      BY <2>2, SameRequests
    \* What was set active when it was read has run out, and is still set active.
    <2>4. \A b \in Bindings : b \in c.bindings /\ read.access[b] = "active" => b \in Active(db)
      <3> SUFFICES ASSUME NEW b \in Bindings, b \in c.bindings, read.access[b] = "active"
                   PROVE  b \in Active(db)
        OBVIOUS
      <3>1. b \in Active(read) /\ b \notin ToRevoke(f, job)
        BY <2>1 DEF Active, ToGrant, ToRevoke
      <3>2. b \in Active(f)
        BY <1>5, <3>1 DEF TransferShape, TransferredAccess, TransferredTasks
      <3> QED BY <3>1, <3>2 DEF TransferShape, TransferredAccess, TransferredTasks
    <2>5. \A b \in Bindings :
             /\ b \in Active(db') <=> b \in Active(db) \/ b \in c.bindings
             /\ db'.until[b] = IF b \in c.bindings THEN None ELSE db.until[b]
      BY <1>1, <2>2, <2>4 DEF Active, Granted, Access, Dated
    <2> QED BY <1>2, <1>5, <2>1, <2>2, <2>3, <2>5 DEF TransferShape, TransferredAccess, TransferredTasks
  <1>6. CASE i = 4
    <2>1. CreateAssetAdjustmentTask(h) /\ c.job = job
      BY <1>6, TransferActs DEF IsTransferStep
    <2>2. /\ db'.tasks = Tasked(c, "ADJUST", job)
          /\ db'.employee = db.employee /\ db'.account = db.account /\ db'.access = db.access
          /\ db'.until = db.until
          /\ db'.requests = db.requests
      BY <1>1, <2>1 DEF CreateAssetAdjustmentTask, Save, Database
    <2>3. OpenOf(db', type) = OpenOf(db, type) /\ Active(db') = Active(db)
      BY <2>2, SameRequests, SameAccess
    <2>4. \E t \in db'.tasks : t.type = "ADJUST" /\ t.job = job
      BY <2>2, TaskedIsThere
    <2> QED BY <1>2, <1>6, <2>2, <2>3, <2>4 DEF TransferShape, TransferredAccess, TransferredTasks
  <1> QED BY <1>3, <1>4, <1>5, <1>6

LEMMA OffboardingAdvances ==
    ASSUME TypesHold, NEW s \in Scenarios, NEW h \in Handlers, txn[h] # None,
           Offboarding(h), NEW i \in 1..4, IsOffboardingStep(txn[h].command, i, s.facts),
           Advances("OFFBOARDING", db, db', i), ~Done("OFFBOARDING", txn[h].read, i),
           OffboardingShape(s.facts, db), OffboardingShape(s.facts, txn[h].read)
    PROVE  OffboardingShape(s.facts, db')
  <1> DEFINE c == txn[h].command
             read == txn[h].read
             f == s.facts
             type == "OFFBOARDING"
  <1>1. /\ read \in Database /\ db \in Database
        /\ db.employee \in Employees /\ read.access \in Access /\ db.access \in Access
        /\ f.access \in Access /\ Active(f) \subseteq Bindings
    BY Transaction, FactsAre DEF Database, Active
  <1>2. /\ Done(type, db', 1) <=> Done(type, db, 1) \/ i = 1
        /\ Done(type, db', 2) <=> Done(type, db, 2) \/ i = 2
        /\ Done(type, db', 3) <=> Done(type, db, 3) \/ i = 3
        /\ Done(type, db', 4) <=> Done(type, db, 4) \/ i = 4
        /\ ~Done(type, db, i)
    BY AdvancesBy
  \* Nobody is offboarded who was not at work.
  <1>3. AtWork(read) => AtWork(f)
    BY DEF OffboardingShape, AtWork
  <1>4. CASE i = 1
    <2>1. DisableCorporateAccount(h)
      BY <1>4, OffboardingActs DEF IsOffboardingStep
    <2>2. /\ db'.account = IF read.account.status = "ACTIVE"
                           THEN [status |-> "DISABLED", version |-> read.account.version + 1]
                           ELSE db.account
          /\ db'.employee = db.employee /\ db'.access = db.access /\ db'.tasks = db.tasks
          /\ db'.until = db.until
          /\ db'.requests = Opened(c, type) /\ AtWork(read)
      BY <1>1, <2>1 DEF DisableCorporateAccount, AccountDisableable, Save, Database
    <2>3. OpenOf(db', type) # {} /\ Active(db') = Active(db)
      BY <2>2, OpenedIsOpen, SameAccess
    <2>4. read.account = db.account
      BY <1>2, <1>4 DEF OffboardingShape
    <2>5. NoAccountInUse(db')
      BY <2>2, <2>4 DEF NoAccountInUse
    <2> QED BY <1>2, <1>3, <1>4, <2>2, <2>3, <2>5 DEF OffboardingShape
  <1>5. CASE i = 2
    <2>1. RevokeAllEmployeeAccess(h)
      BY <1>5, OffboardingActs DEF IsOffboardingStep
    <2>2. /\ db'.access = Withdrawn(c.bindings) /\ db'.until = db.until
          /\ c.bindings = Active(read)
          /\ db'.employee = db.employee /\ db'.account = db.account /\ db'.tasks = db.tasks
          /\ db'.requests = db.requests /\ AtWork(read)
      BY <1>1, <2>1 DEF RevokeAllEmployeeAccess, AllRevocable, Save, Database
    <2>3. OpenOf(db', type) = OpenOf(db, type) /\ (NoAccountInUse(db') <=> NoAccountInUse(db))
      BY <2>2, SameRequests DEF NoAccountInUse
    <2>4. Active(db') = Active(db) \ c.bindings
      BY <1>1, <2>2 DEF Active, Withdrawn, Access
    <2>5. Active(read) = Active(db)
      BY <1>2, <1>5 DEF OffboardingShape
    <2>6. Active(db') = {}
      BY <2>2, <2>4, <2>5
    <2> QED BY <1>2, <1>3, <1>5, <2>2, <2>3, <2>6 DEF OffboardingShape
  <1>6. CASE i = 3
    <2>1. CreateAssetReturnTask(h)
      BY <1>6, OffboardingActs DEF IsOffboardingStep, Return
    <2>2. /\ db'.tasks = Tasked(c, "RETURN", read.employee.job)
          /\ db'.employee = db.employee /\ db'.account = db.account /\ db'.access = db.access
          /\ db'.until = db.until /\ db'.requests = db.requests /\ AtWork(read)
      BY <1>1, <2>1 DEF CreateAssetReturnTask, ReturnTaskable, Save, Database
    <2>3. /\ OpenOf(db', type) = OpenOf(db, type) /\ Active(db') = Active(db)
          /\ NoAccountInUse(db') <=> NoAccountInUse(db)
      BY <2>2, SameRequests, SameAccess DEF NoAccountInUse
    <2>4. \E t \in db'.tasks : t.type = "RETURN"
      BY <2>2, TaskedIsThere
    <2> QED BY <1>2, <1>3, <1>6, <2>2, <2>3, <2>4 DEF OffboardingShape
  <1>7. CASE i = 4
    <2>1. MarkEmployeeInactive(h)
      BY <1>7, OffboardingActs DEF IsOffboardingStep
    <2>2. /\ db'.employee.status = "INACTIVE"
          /\ db'.account = db.account /\ db'.access = db.access /\ db'.tasks = db.tasks
          /\ db'.until = db.until /\ db'.requests = db.requests /\ AtWork(read)
      BY <1>1, <2>1 DEF MarkEmployeeInactive, Deactivatable, Save, Database, Employees
    <2>3. /\ OpenOf(db', type) = OpenOf(db, type) /\ Active(db') = Active(db)
          /\ NoAccountInUse(db') <=> NoAccountInUse(db)
      BY <2>2, SameRequests, SameAccess DEF NoAccountInUse
    <2> QED BY <1>2, <1>3, <1>7, <2>2, <2>3 DEF OffboardingShape
  <1> QED BY <1>4, <1>5, <1>6, <1>7

\* What PlansAssumption says of one scenario.
Planned(s, job, target) ==
    \A c \in s.offered :
        /\ TypeOf(c) = "ONBOARDING" => c \in Steps(OnboardingSteps(job)) /\ Package[job] # {}
        /\ TypeOf(c) = "TRANSFER" => c \in Steps(TransferSteps(s.facts, 0, target))
        /\ TypeOf(c) = "OFFBOARDING" =>
              /\ \E i \in 1..5 : c.key = StepKey("OFFBOARDING", i)
              /\ s.facts.employee.status = "NONE" \/ c \in Steps(OffboardingSteps(s.facts, 0))

\* While a plan has begun and nothing else was carried out, d is what it has made.
AsPlanned(f, job, target, d) ==
    /\ Begun("ONBOARDING", d) => OnboardingShape(f, job, d)
    /\ Begun("TRANSFER", d) => TransferShape(f, target, d)
    /\ Begun("OFFBOARDING", d) => OffboardingShape(f, d)

PlansFollowed(s, job, target) ==
    /\ offered = s.offered /\ Planned(s, job, target)
    /\ AsPlanned(s.facts, job, target, db)
    /\ \A h \in Handlers : txn[h] # None => AsPlanned(s.facts, job, target, txn[h].read)

PlansInv == \E s \in Scenarios, job \in Jobs, target \in Jobs : PlansFollowed(s, job, target)

LEMMA InitPlans == Init => PlansInv
  <1> SUFFICES ASSUME Init PROVE PlansInv
    OBVIOUS
  <1>1. PICK s \in Scenarios : db = s.facts /\ offered = s.offered
    BY DEF Init
  <1>2. PICK job \in Jobs : \A c \in s.offered :
           TypeOf(c) = "ONBOARDING" => c \in Steps(OnboardingSteps(job)) /\ Package[job] # {}
    BY PlansAssumption
  <1>3. PICK target \in Jobs : \A c \in s.offered :
           TypeOf(c) = "TRANSFER" => c \in Steps(TransferSteps(s.facts, 0, target))
    BY PlansAssumption
  <1>4. Planned(s, job, target)
    BY <1>2, <1>3, PlansAssumption DEF Planned
  <1>5. \A type, i : ~Done(type, s.facts, i)
    BY FactsAre DEF Done
  <1>6. /\ OnboardingShape(s.facts, job, s.facts) /\ TransferShape(s.facts, target, s.facts)
        /\ OffboardingShape(s.facts, s.facts)
    <2>1. ~Done("TRANSFER", s.facts, 2) /\ ~Done("TRANSFER", s.facts, 3)
      BY <1>5
    <2>2. TransferredAccess(s.facts, target, s.facts)
      BY <2>1 DEF TransferredAccess
    <2> QED BY <1>5, <2>2, FactsAre
            DEF OnboardingShape, TransferShape, TransferredTasks, OffboardingShape
  <1>7. AsPlanned(s.facts, job, target, db)
    BY <1>1, <1>6 DEF AsPlanned
  <1>8. \A h \in Handlers : txn[h] = None
    BY DEF Init
  <1> QED BY <1>1, <1>4, <1>7, <1>8 DEF PlansInv, PlansFollowed

\* Who is offboarded with nothing carried out but the plan was known before it.
LEMMA OffboardingOnlyAtWork ==
    ASSUME NEW s \in Scenarios, NEW h \in Handlers, txn[h] # None, Offboarding(h),
           Begun("OFFBOARDING", txn[h].read), OffboardingShape(s.facts, txn[h].read),
           NEW i \in 1..4, ~Done("OFFBOARDING", txn[h].read, i)
    PROVE  s.facts.employee.status # "NONE"
  <1> DEFINE read == txn[h].read
  <1>1. AtWork(read) \/ read.employee.status = "INACTIVE"
    BY DEF Offboarding, DisableCorporateAccount, AccountDisableable, RevokeAllEmployeeAccess,
       AllRevocable, CreateAssetReturnTask, ReturnTaskable, MarkEmployeeInactive,
       Deactivatable, VerifyEmployeeOffboardingConsistency, OffboardingConsistent, AtWork
  <1>2. read.employee.status = "NONE" \/ AtWork(s.facts) \/ read.employee = s.facts.employee
    BY DEF OffboardingShape
  <1> QED BY <1>1, <1>2, FactsAre DEF AtWork

\* The command of a write whose plan has begun is the step its key names.
LEMMA PlansAct ==
    ASSUME TypesHold, Known, Older, NEW s \in Scenarios, NEW job \in Jobs, NEW target \in Jobs,
           PlansFollowed(s, job, target), NEW h \in Handlers, Acts(h)
    PROVE  AsPlanned(s.facts, job, target, db')
  <1> DEFINE c == txn[h].command
             read == txn[h].read
             f == s.facts
  <1>1. txn[h] # None /\ c \in s.offered /\ Planned(s, job, target)
    BY ActsHaveEffect, Transaction DEF Effect, PlansFollowed
  <1>2. AsPlanned(f, job, target, db) /\ AsPlanned(f, job, target, read)
    BY <1>1 DEF PlansFollowed
  <1>3. ASSUME NEW type, Begun(type, db')
        PROVE  \E i \in 1..4 :
                  /\ c.key = StepKey(type, i) /\ TypeOf(c) = type
                  /\ Advances(type, db, db', i) /\ Begun(type, db)
                  /\ Begun(type, read) /\ ~Done(type, read, i)
    <2>1. PICK i \in 1..4 : c.key = StepKey(type, i)
      BY <1>3, WriteAdvances
    <2>2. Advances(type, db, db', i) /\ Begun(type, read) /\ ~Done(type, read, i)
      BY <1>3, <2>1, WriteAdvances
    <2> QED BY <2>1, <2>2 DEF TypeOf, StepKey, Advances
  <1>4. ASSUME Begun("ONBOARDING", db') PROVE OnboardingShape(f, job, db')
    <2>1. PICK i \in 1..4 :
                  /\ c.key = StepKey("ONBOARDING", i) /\ TypeOf(c) = "ONBOARDING"
                  /\ Advances("ONBOARDING", db, db', i) /\ Begun("ONBOARDING", db)
                  /\ Begun("ONBOARDING", read) /\ ~Done("ONBOARDING", read, i)
      BY <1>3, <1>4
    <2>2. c \in Steps(OnboardingSteps(job))
      BY <1>1, <2>1 DEF Planned
    <2>3. PICK k \in 1..5 : IsOnboardingStep(c, k, job)
      BY <2>2, OnboardingCommands
    <2>4. IsOnboardingStep(c, i, job)
      BY <2>1, <2>3, StepKeysDiffer DEF IsOnboardingStep
    <2>5. Onboarding(h) /\ OnboardingShape(f, job, db) /\ OnboardingShape(f, job, read)
      BY <1>1, <1>2, <2>1, ActsOfItsType DEF AsPlanned
    <2> QED BY <1>1, <2>1, <2>4, <2>5, OnboardingAdvances
  <1>5. ASSUME Begun("TRANSFER", db') PROVE TransferShape(f, target, db')
    <2>1. PICK i \in 1..4 :
                  /\ c.key = StepKey("TRANSFER", i) /\ TypeOf(c) = "TRANSFER"
                  /\ Advances("TRANSFER", db, db', i) /\ Begun("TRANSFER", db)
                  /\ Begun("TRANSFER", read) /\ ~Done("TRANSFER", read, i)
      BY <1>3, <1>5
    <2>2. c \in Steps(TransferSteps(f, 0, target))
      BY <1>1, <2>1 DEF Planned
    <2>3. PICK k \in 1..5 : IsTransferStep(c, k, f, target)
      BY <2>2, TransferCommands
    <2>4. IsTransferStep(c, i, f, target)
      BY <2>1, <2>3, StepKeysDiffer DEF IsTransferStep
    <2>5. Transfer(h) /\ TransferShape(f, target, db) /\ TransferShape(f, target, read)
      BY <1>1, <1>2, <2>1, ActsOfItsType DEF AsPlanned
    <2> QED BY <1>1, <2>1, <2>4, <2>5, TransferAdvances
  <1>6. ASSUME Begun("OFFBOARDING", db') PROVE OffboardingShape(f, db')
    <2>1. PICK i \in 1..4 :
                  /\ c.key = StepKey("OFFBOARDING", i) /\ TypeOf(c) = "OFFBOARDING"
                  /\ Advances("OFFBOARDING", db, db', i) /\ Begun("OFFBOARDING", db)
                  /\ Begun("OFFBOARDING", read) /\ ~Done("OFFBOARDING", read, i)
      BY <1>3, <1>6
    <2>2. Offboarding(h) /\ OffboardingShape(f, db) /\ OffboardingShape(f, read)
      BY <1>1, <1>2, <2>1, ActsOfItsType DEF AsPlanned
    <2>3. f.employee.status # "NONE"
      BY <1>1, <2>1, <2>2, OffboardingOnlyAtWork
    <2>4. c \in Steps(OffboardingSteps(f, 0))
      BY <1>1, <2>1, <2>3 DEF Planned
    <2>5. PICK k \in 1..5 : IsOffboardingStep(c, k, f)
      BY <2>4, OffboardingCommands
    <2>6. IsOffboardingStep(c, i, f)
      BY <2>1, <2>5, StepKeysDiffer DEF IsOffboardingStep
    <2> QED BY <1>1, <2>1, <2>2, <2>6, OffboardingAdvances
  <1> QED BY <1>4, <1>5, <1>6 DEF AsPlanned

LEMMA PlansKept == TypesHold /\ Known /\ Older /\ PlansInv /\ [Next]_vars => PlansInv'
  <1> SUFFICES ASSUME TypesHold, Known, Older, PlansInv, [Next]_vars PROVE PlansInv'
    OBVIOUS
  <1>1. PICK s \in Scenarios, job \in Jobs, target \in Jobs : PlansFollowed(s, job, target)
    BY DEF PlansInv
  <1>2. offered' = offered
    BY EveryStep DEF vars, Begin, Rollback, Tick, Effect
  <1>3. AsPlanned(s.facts, job, target, db')
    <2>1. db' = db \/ \E h \in Handlers : Acts(h)
      BY DEF Next, vars, Begin, Rollback, Tick, Acts
    <2>2. AsPlanned(s.facts, job, target, db)
      BY <1>1 DEF PlansFollowed
    <2> QED BY <1>1, <2>1, <2>2, PlansAct
  <1>4. ASSUME NEW g \in Handlers, (txn[g] # None)'
        PROVE  AsPlanned(s.facts, job, target, txn'[g].read)
    <2>1. CASE txn[g] # None /\ txn'[g] = txn[g]
      BY <1>1, <2>1 DEF PlansFollowed
    <2>2. CASE \E c \in offered : /\ ReadBefore(c) /\ db' = db
                                  /\ txn'[g] = [command |-> c, read |-> db, began |-> now]
      BY <1>1, <2>2 DEF PlansFollowed
    <2> QED BY <1>4, <2>1, <2>2, Snapshots
  <1>5. PlansFollowed(s, job, target)'
    BY <1>1, <1>2, <1>3, <1>4 DEF PlansFollowed
  <1> QED BY <1>5 DEF PlansInv

\* When the steps before the k-th are all that was carried out.
LEMMA TurnOf ==
    ASSUME NEW c, NEW d, NEW type, NEW k \in 2..5, c.key = StepKey(type, k),
           CarriedOut(d) = {StepKey(type, i) : i \in 1..(k - 1)}
    PROVE  /\ Begun(type, d) /\ NewKeyIn(c, d, d)
           /\ Done(type, d, 1) /\ (Done(type, d, 2) <=> k > 2)
           /\ (Done(type, d, 3) <=> k > 3) /\ (Done(type, d, 4) <=> k > 4)
  <1>1. \A i \in 1..5 : Done(type, d, i) <=> i < k
    <2> SUFFICES ASSUME NEW i \in 1..5 PROVE Done(type, d, i) <=> i < k
      OBVIOUS
    <2>1. ASSUME i < k PROVE Done(type, d, i)
      BY <2>1 DEF Done
    <2>2. ASSUME Done(type, d, i) PROVE i < k
      <3>1. PICK j \in 1..(k - 1) : StepKey(type, i) = StepKey(type, j)
        BY <2>2 DEF Done
      <3> QED BY <3>1, StepKeysDiffer
    <2> QED BY <2>1, <2>2
  <1>2. NewKeyIn(c, d, d)
    <2>1. ~Done(type, d, k)
      BY <1>1
    <2> QED BY <2>1 DEF Done, NewKeyIn, CarriedOut
  <1> QED BY <1>1, <1>2 DEF Begun

LEMMA OnboardingGoesOn ==
    ASSUME NEW s \in Scenarios, NEW job \in Jobs, NEW d \in Database, NEW c, NEW k \in 2..5,
           IsOnboardingStep(c, k, job), Package[job] # {},
           CarriedOut(d) = {StepKey("ONBOARDING", i) : i \in 1..(k - 1)},
           OnboardingShape(s.facts, job, d), Lasting(d), NEW t
    PROVE  Executable(c, d, t) /\ Accepts(c, d, d) <=> InTheWay(c, Lapsed(d, t)) = {}
  <1> DEFINE f == s.facts
             type == "ONBOARDING"
  <1>1. c.key = StepKey(type, k) /\ TypeOf(c) = type
    BY DEF IsOnboardingStep, TypeOf, StepKey
  <1>2. /\ NewKeyIn(c, d, d) /\ Done(type, d, 1) /\ (Done(type, d, 2) <=> k > 2)
        /\ (Done(type, d, 3) <=> k > 3) /\ (Done(type, d, 4) <=> k > 4)
    BY <1>1, TurnOf
  <1>3. /\ Pending(d) /\ d.employee.job = job /\ d.employee.version = 1
        /\ OpenOf(d, type) # {}
        /\ f.account.status = "NONE" /\ \A b \in Bindings : f.access[b] = "none"
    BY <1>2, FactsAre DEF OnboardingShape, Pending
  <1>4. Package[job] \subseteq Bindings
    BY EnterpriseAssumption
  \* None of these steps is about accesses that have run out.
  <1>5. InTheWay(c, Lapsed(d, t)) = {}
    <2>1. c.op \in {"create_disabled_corporate_account", "assign_baseline_access_package",
                    "create_asset_assignment_task", Activation}
      BY DEF IsOnboardingStep
    <2> QED BY <2>1 DEF InTheWay, Activation
  <1> SUFFICES Executable(c, d, t) /\ Accepts(c, d, d)
    BY <1>5
  <1>6. CASE k = 2
    <2>1. /\ c.op = "create_disabled_corporate_account" /\ d.account.status = "NONE"
      BY <1>2, <1>3, <1>6 DEF IsOnboardingStep, OnboardingShape
    <2>2. OnboardingExecutable(c, d) /\ ActivationExecutable(c, d, t) /\ AccountCreatable(d, d)
      BY <1>3, <2>1 DEF OnboardingExecutable, ActivationExecutable, AccountCreatable
    <2> QED BY <1>1, <1>2, <2>1, <2>2 DEF Executable, Accepts
  <1>7. CASE k = 3
    <2>1. /\ c.op = "assign_baseline_access_package" /\ c.job = job
          /\ c.bindings = Package[job] /\ d.access = f.access
      BY <1>2, <1>7 DEF IsOnboardingStep, OnboardingShape
    <2>2. OnboardingExecutable(c, d) /\ ActivationExecutable(c, d, t) /\ PackageAssignable(c, d, d)
      BY <1>3, <1>4, <2>1
         DEF OnboardingExecutable, ActivationExecutable, PackageAssignable, NoRowSince
    <2> QED BY <1>1, <1>2, <2>1, <2>2 DEF Executable, Accepts
  <1>8. CASE k = 4
    <2>1. c.op = "create_asset_assignment_task" /\ c.job = job /\ d.tasks = {}
      BY <1>2, <1>8 DEF IsOnboardingStep, OnboardingShape
    <2>2. OnboardingExecutable(c, d) /\ ActivationExecutable(c, d, t) /\ AssignmentTaskable(c, d)
      BY <1>3, <2>1 DEF OnboardingExecutable, ActivationExecutable, AssignmentTaskable, NoTask
    <2> QED BY <1>1, <1>2, <2>1, <2>2 DEF Executable, Accepts
  <1>9. CASE k = 5
    <2>1. /\ c.op = Activation /\ c.version = 1 /\ c.accountVersion = 1
          /\ d.account = [status |-> "DISABLED", version |-> 1]
          /\ Active(d) = Package[job]
          /\ \E task \in d.tasks : task.type = "PROVISION" /\ task.job = job
      BY <1>2, <1>9 DEF IsOnboardingStep, OnboardingShape
    <2>2. BaselineComplete(d) /\ HasTask(d, "PROVISION") /\ ~NoTask(d, "PROVISION")
      BY <1>3, <2>1 DEF BaselineComplete, HasTask, NoTask
    <2>3. InForce(d, t) # {}
      BY <2>1, InForceIsActive
    <2>4. OnboardingExecutable(c, d) /\ ActivationExecutable(c, d, t) /\ Activatable(c, d)
      BY <1>3, <2>1, <2>2, <2>3
         DEF OnboardingExecutable, ActivationExecutable, Activatable, Activation
    <2> QED BY <1>1, <1>2, <2>1, <2>4 DEF Executable, Accepts, Activation
  <1> QED BY <1>6, <1>7, <1>8, <1>9

LEMMA TransferGoesOn ==
    ASSUME NEW s \in Scenarios, NEW job \in Jobs, NEW d \in Database, NEW c, NEW k \in 2..5,
           IsTransferStep(c, k, s.facts, job),
           CarriedOut(d) = {StepKey("TRANSFER", i) : i \in 1..(k - 1)},
           TransferShape(s.facts, job, d), NEW t \in Nat
    PROVE  Executable(c, d, t) /\ Accepts(c, d, d) <=> InTheWay(c, Lapsed(d, t)) = {}
  <1> DEFINE f == s.facts
             type == "TRANSFER"
  <1>1. c.key = StepKey(type, k) /\ TypeOf(c) = type
    BY DEF IsTransferStep, TypeOf, StepKey
  <1>2. /\ NewKeyIn(c, d, d) /\ Done(type, d, 1) /\ (Done(type, d, 2) <=> k > 2)
        /\ (Done(type, d, 3) <=> k > 3) /\ (Done(type, d, 4) <=> k > 4)
    BY <1>1, TurnOf
  <1>3. /\ AtWork(d) /\ d.employee.job = job /\ OpenOf(d, type) # {}
    BY <1>2 DEF TransferShape, AtWork
  <1>4. Package[job] \subseteq Bindings /\ Active(f) \subseteq Bindings
        /\ Active(d) \subseteq Bindings /\ InForce(f, 0) \subseteq Active(f)
    BY EnterpriseAssumption, InForceIsActive DEF Active
  <1>5. \A b \in Bindings :
           /\ b \in Active(d) <=> \/ b \in Active(f) /\ ~(k > 2 /\ b \in ToRevoke(f, job))
                                  \/ k > 3 /\ b \in ToGrant(f, job)
           /\ d.until[b] = IF k > 3 /\ b \in ToGrant(f, job) THEN None ELSE f.until[b]
    BY <1>2 DEF TransferShape, TransferredAccess
  <1>6. CASE k = 2
    <2>1. c.op = "revoke_obsolete_baseline_access" /\ c.bindings = ToRevoke(f, job)
      BY <1>6 DEF IsTransferStep, ToRevoke
    <2>2. c.bindings \subseteq Active(d)
      BY <1>4, <1>5, <1>6, <2>1 DEF ToRevoke
    <2>3. Revocable(c, d) /\ (TransferExecutable(c, d, t) <=> c.bindings \subseteq InForce(d, t))
      BY <1>3, <2>1, <2>2 DEF TransferExecutable, Revocable
    <2>4. c.bindings \subseteq InForce(d, t) <=> Lapsed(d, t) \cap c.bindings = {}
      BY <2>2, InForceIsActive
    <2>5. InTheWay(c, Lapsed(d, t)) = Lapsed(d, t) \cap c.bindings
      BY <2>1 DEF InTheWay
    <2>6. Accepts(c, d, d)
      BY <1>2, <2>1, <2>3 DEF Accepts
    <2>7. Executable(c, d, t) <=> TransferExecutable(c, d, t)
      BY <1>1 DEF Executable
    <2> QED BY <2>3, <2>4, <2>5, <2>6, <2>7
  <1>7. CASE k = 3
    <2>1. /\ c.op = "grant_target_baseline_access" /\ c.job = job
          /\ c.bindings = ToGrant(f, job)
      BY <1>7 DEF IsTransferStep, ToGrant
    <2>2. c.bindings \subseteq Package[job]
      BY <2>1 DEF ToGrant
    <2>3. TransferExecutable(c, d, t) /\ Grantable(c, d, d)
      BY <1>3, <2>1, <2>2 DEF TransferExecutable, Grantable, NoRowSince
    <2>4. InTheWay(c, Lapsed(d, t)) = {}
      BY <2>1 DEF InTheWay
    <2> QED BY <1>1, <1>2, <2>1, <2>3, <2>4 DEF Executable, Accepts
  <1>8. CASE k = 4
    <2>1. c.op = "create_asset_adjustment_task" /\ c.job = job /\ d.tasks = {}
      BY <1>2, <1>8 DEF IsTransferStep, TransferShape, TransferredTasks
    <2>2. TransferExecutable(c, d, t) /\ AdjustmentTaskable(c, d)
      BY <1>3, <2>1 DEF TransferExecutable, AdjustmentTaskable, NoTask
    <2>3. InTheWay(c, Lapsed(d, t)) = {}
      BY <2>1 DEF InTheWay
    <2> QED BY <1>1, <1>2, <2>1, <2>2, <2>3 DEF Executable, Accepts
  <1>9. CASE k = 5
    <2>1. /\ c.op = "verify_employee_transfer_consistency" /\ c.job = job
          /\ \E task \in d.tasks : task.type = "ADJUST" /\ task.job = job
      BY <1>2, <1>9 DEF IsTransferStep, TransferShape, TransferredTasks
    \* The package is there; what is there beyond it had run out at first.
    <2>2. Package[job] \subseteq Active(d)
      BY <1>4, <1>5, <1>9 DEF ToRevoke, ToGrant
    <2>3. Active(d) \ Package[job] = Lapsed(d, t) \ Package[job]
      <3>1. SUFFICES ASSUME NEW b \in Active(d), b \notin Package[job], b \in InForce(d, t)
                     PROVE  FALSE
        BY InForceIsActive
      <3>2. b \in Bindings /\ b \in Active(f) /\ b \notin InForce(f, 0) /\ d.until[b] = f.until[b]
        BY <1>4, <1>5, <1>9, <3>1 DEF ToRevoke, ToGrant
      <3>3. b \in InForce(f, t)
        BY <3>1, <3>2 DEF InForce
      <3> QED BY <3>2, <3>3, FactsAre, InForceEnds
    <2>4. Active(d) = Package[job] <=> Lapsed(d, t) \ Package[job] = {}
      BY <2>2, <2>3
    <2>5. TransferExecutable(c, d, t) /\ (TransferConsistent(c, d) <=> Active(d) = Package[job])
      BY <1>3, <2>1 DEF TransferExecutable, TransferConsistent, HasTask
    <2>6. InTheWay(c, Lapsed(d, t)) = Lapsed(d, t) \ Package[job]
      BY <2>1 DEF InTheWay
    <2>7. Accepts(c, d, d) <=> TransferConsistent(c, d)
      BY <1>2, <2>1 DEF Accepts
    <2>8. Executable(c, d, t) <=> TransferExecutable(c, d, t)
      BY <1>1 DEF Executable
    <2> QED BY <2>4, <2>5, <2>6, <2>7, <2>8
  <1> QED BY <1>6, <1>7, <1>8, <1>9

LEMMA OffboardingGoesOn ==
    ASSUME NEW s \in Scenarios, NEW d \in Database, NEW c, NEW k \in 2..5,
           IsOffboardingStep(c, k, s.facts),
           CarriedOut(d) = {StepKey("OFFBOARDING", i) : i \in 1..(k - 1)},
           OffboardingShape(s.facts, d), NEW t \in Nat
    PROVE  Executable(c, d, t) /\ Accepts(c, d, d) <=> InTheWay(c, Lapsed(d, t)) = {}
  <1> DEFINE f == s.facts
             type == "OFFBOARDING"
  <1>1. c.key = StepKey(type, k) /\ TypeOf(c) = type
    BY DEF IsOffboardingStep, TypeOf, StepKey
  <1>2. /\ NewKeyIn(c, d, d) /\ Done(type, d, 1) /\ (Done(type, d, 2) <=> k > 2)
        /\ (Done(type, d, 3) <=> k > 3) /\ (Done(type, d, 4) <=> k > 4)
    BY <1>1, TurnOf
  <1>3. /\ AtWork(f) /\ OpenOf(d, type) # {} /\ NoAccountInUse(d)
        /\ k < 5 => AtWork(d) /\ d.employee = f.employee
        /\ k = 5 => d.employee.status = "INACTIVE"
        /\ Active(d) = IF k > 2 THEN {} ELSE Active(f)
        /\ d.until = f.until
    BY <1>2 DEF OffboardingShape, AtWork
  <1>4. CASE k = 2
    <2>1. c.op = "revoke_all_employee_access" /\ c.bindings = InForce(f, 0)
      BY <1>4 DEF IsOffboardingStep
    <2>2. Active(d) = Active(f)
      BY <1>3, <1>4
    <2>3. InForce(d, t) \subseteq InForce(f, 0) /\ InForce(f, 0) \subseteq Active(f)
      <3>1. InForce(d, t) = InForce(f, t)
        BY <1>3, <2>2 DEF InForce
      <3> QED BY <3>1, FactsAre, InForceEnds, InForceIsActive
    <2>4. OffboardingExecutable(c, d, t) <=> InForce(d, t) = c.bindings
      BY <1>3, <1>4, <2>1 DEF OffboardingExecutable
    <2>5. AllRevocable(c, d) <=> c.bindings = Active(d)
      BY <1>3, <1>4 DEF AllRevocable
    \* The plan, the check and the write read the same set if nothing has run out.
    <2>6. InForce(d, t) = c.bindings /\ c.bindings = Active(d) <=> Lapsed(d, t) = {}
      BY <2>1, <2>2, <2>3, InForceIsActive
    <2>7. InTheWay(c, Lapsed(d, t)) = Lapsed(d, t)
      BY <2>1 DEF InTheWay
    <2>8. Accepts(c, d, d) <=> AllRevocable(c, d)
      BY <1>2, <2>1 DEF Accepts
    <2>9. Executable(c, d, t) <=> OffboardingExecutable(c, d, t)
      BY <1>1 DEF Executable
    <2> QED BY <2>4, <2>5, <2>6, <2>7, <2>8, <2>9
  <1>5. ASSUME k > 2 PROVE InForce(d, t) = {} /\ InTheWay(c, Lapsed(d, t)) = {}
    <2>1. Active(d) = {}
      BY <1>3, <1>5
    <2>2. c.op \in {Return, "mark_employee_inactive", "verify_employee_offboarding_consistency"}
      BY <1>5 DEF IsOffboardingStep
    <2> QED BY <2>1, <2>2, InForceIsActive DEF InTheWay, Return
  <1>6. CASE k = 3
    <2>1. c.op = Return /\ c.tasks = {} /\ d.tasks = {}
      BY <1>2, <1>6, FactsAre DEF IsOffboardingStep, OffboardingShape
    <2>2. OffboardingExecutable(c, d, t) /\ ReturnTaskable(c, d)
      BY <1>3, <1>6, <2>1 DEF OffboardingExecutable, ReturnTaskable, NoTask, Return
    <2> QED BY <1>1, <1>2, <1>5, <1>6, <2>1, <2>2 DEF Executable, Accepts, Return
  <1>7. CASE k = 4
    <2>1. c.op = "mark_employee_inactive" /\ c.version = f.employee.version
      BY <1>7 DEF IsOffboardingStep
    <2>2. OffboardingExecutable(c, d, t) /\ Deactivatable(c, d)
      BY <1>3, <1>5, <1>7, <2>1 DEF OffboardingExecutable, Deactivatable, NoAccountInUse
    <2> QED BY <1>1, <1>2, <1>5, <1>7, <2>1, <2>2 DEF Executable, Accepts
  <1>8. CASE k = 5
    <2>1. /\ c.op = "verify_employee_offboarding_consistency"
          /\ \E task \in d.tasks : task.type = "RETURN"
      BY <1>2, <1>8 DEF IsOffboardingStep, OffboardingShape
    <2>2. OffboardingExecutable(c, d, t) /\ OffboardingConsistent(d)
      BY <1>3, <1>8, <2>1 DEF OffboardingExecutable, OffboardingConsistent
    <2> QED BY <1>1, <1>2, <1>5, <1>8, <2>1, <2>2 DEF Executable, Accepts
  <1> QED BY <1>4, <1>6, <1>7, <1>8

\* No plan defeats itself: once begun, and as long as nothing interferes, each
\* step of it passes the check of the gateway and the guards of its write, exactly
\* if no access that has run out is in its way, however much time has passed.
THEOREM PlansGoOn == Spec => []PlanGoesOn
  <1>1. TypesHold /\ LastingInv /\ PlansInv => PlanGoesOn
    <2> SUFFICES ASSUME TypesHold, LastingInv, PlansInv, NEW h \in Handlers, txn[h] # None,
                        TypeOf(txn[h].command) \in {"ONBOARDING", "TRANSFER", "OFFBOARDING"},
                        txn[h].command.key[2] > 1,
                        Alone(TypeOf(txn[h].command), txn[h].command.key[2] - 1)
                 PROVE  Executable(txn[h].command, db, now) /\ Accepts(txn[h].command, db, db)
                           <=> InTheWay(txn[h].command, Lapsed(db, now)) = {}
      BY DEF PlanGoesOn
    <2> DEFINE c == txn[h].command
    <2>1. PICK s \in Scenarios, job \in Jobs, target \in Jobs : PlansFollowed(s, job, target)
      BY DEF PlansInv
    <2>2. /\ c \in s.offered /\ db \in Database /\ now \in Nat /\ Planned(s, job, target)
          /\ AsPlanned(s.facts, job, target, db)
      BY <2>1, Transaction DEF PlansFollowed
    <2>3. ASSUME NEW k \in 1..5, NEW type, c.key = StepKey(type, k)
          PROVE  /\ k \in 2..5 /\ TypeOf(c) = type
                 /\ CarriedOut(db) = {StepKey(type, i) : i \in 1..(k - 1)}
                 /\ Begun(type, db) /\ Done(type, db, 1)
      <3>1. k \in 2..5 /\ TypeOf(c) = type /\ c.key[2] = k
        BY <2>3 DEF StepKey, TypeOf
      <3>2. CarriedOut(db) = {StepKey(type, i) : i \in 1..(k - 1)}
        BY <3>1 DEF Alone
      <3> HIDE DEF c
      <3>3. Begun(type, db) /\ Done(type, db, 1)
        BY <2>3, <3>1, <3>2, TurnOf
      <3> QED BY <3>1, <3>2, <3>3
    <2>4. CASE TypeOf(c) = "ONBOARDING"
      <3>1. c \in Steps(OnboardingSteps(job)) /\ Package[job] # {}
        BY <2>2, <2>4 DEF Planned
      <3>2. PICK k \in 1..5 : IsOnboardingStep(c, k, job)
        BY <3>1, OnboardingCommands
      <3>3. c.key = StepKey("ONBOARDING", k)
        BY <3>2 DEF IsOnboardingStep
      <3>4. OnboardingShape(s.facts, job, db)
        BY <2>2, <2>3, <3>3 DEF AsPlanned
      \* Who is being onboarded has no temporary access.
      <3>5. Done("ONBOARDING", db, 1) /\ k \in 2..5
            /\ CarriedOut(db) = {StepKey("ONBOARDING", i) : i \in 1..(k - 1)}
        BY <2>3, <3>3
      <3>6. Lasting(db)
        BY <3>4, <3>5 DEF OnboardingShape, LastingInv
      <3> QED BY <2>2, <3>1, <3>2, <3>4, <3>5, <3>6, OnboardingGoesOn
    <2>5. CASE TypeOf(c) = "TRANSFER"
      <3>1. c \in Steps(TransferSteps(s.facts, 0, target))
        BY <2>2, <2>5 DEF Planned
      <3>2. PICK k \in 1..5 : IsTransferStep(c, k, s.facts, target)
        BY <3>1, TransferCommands
      <3>3. c.key = StepKey("TRANSFER", k)
        BY <3>2 DEF IsTransferStep
      <3>4. TransferShape(s.facts, target, db)
        BY <2>2, <2>3, <3>3 DEF AsPlanned
      <3> QED BY <2>2, <2>3, <3>2, <3>3, <3>4, TransferGoesOn
    <2>6. CASE TypeOf(c) = "OFFBOARDING"
      <3>1. PICK i \in 1..5 : c.key = StepKey("OFFBOARDING", i)
        BY <2>2, <2>6 DEF Planned
      <3>2. OffboardingShape(s.facts, db) /\ Done("OFFBOARDING", db, 1)
        BY <2>2, <2>3, <3>1 DEF AsPlanned
      <3>3. s.facts.employee.status # "NONE"
        BY <3>2 DEF OffboardingShape, AtWork
      <3>4. c \in Steps(OffboardingSteps(s.facts, 0))
        BY <2>2, <2>6, <3>3 DEF Planned
      <3>5. PICK k \in 1..5 : IsOffboardingStep(c, k, s.facts)
        BY <3>4, OffboardingCommands
      <3>6. c.key = StepKey("OFFBOARDING", k)
        BY <3>5 DEF IsOffboardingStep
      <3> QED BY <2>2, <2>3, <3>2, <3>5, <3>6, OffboardingGoesOn
    <2> QED BY <2>4, <2>5, <2>6
  <1> QED BY <1>1, InitTypes, TypesKept, InitKnown, KnownKept, InitOlder, OlderKept,
             InitPlans, PlansKept, InitEmployee, EmployeeKept, InitLasting, LastingKept, PTL DEF Spec

===============================================================================
