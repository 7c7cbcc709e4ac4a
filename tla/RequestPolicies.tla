----------------------------- MODULE RequestPolicies -----------------------------
(***************************************************************************)
(* The deterministic policies of the four scenarios, on the facts their    *)
(* context resolvers read, and the first command of what they send to      *)
(* approval.  Policy, latest-state check and enterprise write are three    *)
(* sets of rules written apart; here they meet on one database.            *)
(*                                                                         *)
(* A draft names what is asked for and at most one flaw of its text or of  *)
(* the facts that no write changes (departments, managers, policies).      *)
(***************************************************************************)
EXTENDS LifecyclePlans

\* The outcome of the first rule that applies; a rule is <<condition, outcome>>.
FirstRule(rules) ==
    LET applies == {i \in DOMAIN rules : rules[i][1]}
    IN  rules[CHOOSE i \in applies : \A j \in applies : i <= j][2]

LifecycleDrafts ==
    [type : {"ONBOARDING", "TRANSFER", "OFFBOARDING"}, job : Jobs,
     flaw : {"none", "missing", "vague_reason", "other_date", "target", "location",
             "approver", "outside_department"}]
PurchaseDrafts ==
    [requester : {c.requester : c \in Commands} \ {None},
     item : {c.item : c \in Commands} \ {0}, amount : {c.amount : c \in Commands},
     flaw : {"none", "missing", "requester", "policy", "item", "cost_center", "date",
             "reason", "approver", "self_approval"}]
OrderDrafts ==
    [flaw : {"none", "unknown_equipment", "missing", "vague_fault", "danger",
             "out_of_service", "manager"}]
AccessDrafts ==
    [binding : Bindings, days : {c.days : c \in Commands} \ {0},
     flaw : {"none", "missing", "too_long", "approver"}]

-----------------------------------------------------------------------------
(* Contexts: each fact is a request of its own, and others come in between. *)
(* e is the database of the first reads, l that of the last ones.           *)

\* The profile comes first, the open requests last.
LifecycleContext(e, l) == [profile |-> e, open |-> OpenRequests(l)]

\* query_open_procurement_requests: of this requester and cost centre.
ProcurementContext(r, e, l) ==
    [center |-> e.center, open |-> {p \in l.purchases : p.requester = r.requester}]

\* The equipment and its status must be of one version.
MaintenanceConsistent(e, l) == e.equipment = l.equipment

AccessContext(e, l) == [known |-> e.employee.status # "NONE", roles |-> InForce(l, now)]

-----------------------------------------------------------------------------
(* EmployeeLifecyclePolicyEngine.evaluate                                  *)

LifecycleOutcome(r, context) ==
    LET employee == context.profile.employee IN
    FirstRule(
        <<<<r.flaw \in {"missing", "vague_reason"}, "NEEDS_INPUT">>,
          <<r.flaw = "other_date", "DENIED">>,
          <<context.open # {}, "NO_ACTION">>,
          <<r.type = "ONBOARDING" /\ employee.status # "NONE", "NO_ACTION">>,
          <<r.type # "ONBOARDING" /\ employee.status = "NONE", "NEEDS_INPUT">>,
          <<r.type # "ONBOARDING" /\ ~AtWork(context.profile), "NO_ACTION">>,
          <<r.type # "OFFBOARDING" /\ r.flaw \in {"target", "location"}, "NEEDS_INPUT">>,
          <<r.type = "TRANSFER" /\ employee.job = r.job, "NO_ACTION">>,
          <<r.flaw = "approver", "HUMAN_REVIEW">>,
          <<r.type # "OFFBOARDING" /\ r.flaw = "outside_department", "NEEDS_INPUT">>,
          <<TRUE, "APPROVAL_REQUIRED">>>>)

LifecycleSteps(r, profile) ==
    CASE r.type = "ONBOARDING"  -> OnboardingSteps(r.job)
      [] r.type = "TRANSFER"    -> TransferSteps(profile, now, r.job)
      [] r.type = "OFFBOARDING" -> OffboardingSteps(profile, now)

-----------------------------------------------------------------------------
(* ProcurementPolicyEngine.evaluate raises the first error it finds.        *)

\* _validate_items, _validate_amount, _validate_reason and the desired date.
InvalidDraft(r, flaws) == r.flaw \in flaws \/ (r.amount = 0 /\ "item" \in flaws)

\* Mutant: the open requests are read and not compared.
NeverSimilar(r, open) == FALSE

\* Names are compared without punctuation and case, or as parts of each other.
SimilarOpenRequest(r, open) == \E p \in open : p.item = r.item

\* One to three stages of approvers at work, none twice and none the requester.
RouteRefused(r) == r.flaw \in {"approver", "self_approval"}

PurchaseError(r, context) ==
    FirstRule(
        <<<<r.flaw = "missing", "MISSING_INFORMATION">>,
          <<r.flaw = "requester", "REQUESTER_INVALID">>,
          <<r.flaw = "policy", "POLICY_INACTIVE">>,
          <<InvalidDraft(r, {"item"}), "ITEM_INVALID">>,
          <<r.flaw = "cost_center", "COST_CENTER_INVALID">>,
          <<r.amount > Budget - context.center.reserved, "BUDGET_INSUFFICIENT">>,
          <<InvalidDraft(r, {"date", "reason"}), "DATE_OR_REASON_INVALID">>,
          <<SimilarOpenRequest(r, context.open), "DUPLICATE_RISK">>,
          <<RouteRefused(r), "APPROVER_INVALID">>,
          <<TRUE, "NONE">>>>)

\* _policy_fields: the errors the requester can do something about.
AskedErrors ==
    {"MISSING_INFORMATION", "ITEM_INVALID", "COST_CENTER_INVALID", "DATE_OR_REASON_INVALID"}

PurchaseOutcome(r, context) ==
    LET error == PurchaseError(r, context)
    IN  IF error = "NONE" THEN "APPROVAL_REQUIRED"
        ELSE IF error \in AskedErrors THEN "NEEDS_INPUT" ELSE "HUMAN_REVIEW"

PurchaseSteps(r, context) ==
    SequentialSteps("PURCHASE",
        <<[Command("create_request_and_reserve_budget") EXCEPT
              !.requester = r.requester, !.item = r.item, !.amount = r.amount,
              !.version = context.center.version]>>)

-----------------------------------------------------------------------------
(* MaintenancePolicyEngine.evaluate and AccessPolicyEngine.evaluate         *)

OrderOutcome(r, d) ==
    FirstRule(
        <<<<r.flaw \in {"unknown_equipment", "missing", "vague_fault"}, "NEEDS_INPUT">>,
          <<r.flaw = "danger", "HUMAN_REVIEW">>,
          <<d.equipment.status = "MAINTENANCE_PENDING", "NO_ACTION">>,
          <<r.flaw \in {"out_of_service", "manager"}, "HUMAN_REVIEW">>,
          <<TRUE, "APPROVAL_REQUIRED">>>>)

OrderSteps(d) ==
    SequentialSteps("ORDER",
        <<[Command("create_maintenance_work_order") EXCEPT !.version = d.equipment.version]>>)

AccessOutcome(r, context) ==
    FirstRule(
        <<<<r.flaw = "missing", "NEEDS_INPUT">>,
          <<r.binding \in context.roles, "NO_ACTION">>,
          <<r.flaw = "too_long", "DENIED">>,
          <<r.flaw = "approver", "HUMAN_REVIEW">>,
          <<TRUE, "APPROVAL_REQUIRED">>>>)

AccessSteps(r) ==
    SequentialSteps("ACCESS",
        <<[Command("grant_application_access") EXCEPT !.bindings = {r.binding},
              !.days = r.days]>>)

-----------------------------------------------------------------------------
(* What is sent to approval, and what becomes of it.                        *)

NeedsApproval == "APPROVAL_REQUIRED"

\* The first commands of what the policies send to approval, by their content.
Approvable(type, e, l) ==
    {LifecycleSteps(r, e)[1] : r \in
        {r \in LifecycleDrafts :
            r.type = type /\ LifecycleOutcome(r, LifecycleContext(e, l)) = NeedsApproval}}
    \cup {PurchaseSteps(r, ProcurementContext(r, e, l))[1] : r \in
        {r \in PurchaseDrafts :
            /\ type = "PURCHASE"
            /\ PurchaseOutcome(r, ProcurementContext(r, e, l)) = NeedsApproval}}
    \cup {OrderSteps(e)[1] : r \in
        {r \in OrderDrafts :
            /\ type = "ORDER" /\ MaintenanceConsistent(e, l)
            /\ OrderOutcome(r, e) = NeedsApproval}}
    \cup {AccessSteps(r)[1] : r \in
        {r \in AccessDrafts :
            /\ type = "ACCESS" /\ AccessContext(e, l).known
            /\ AccessOutcome(r, AccessContext(e, l)) = NeedsApproval}}

\* The databases the context of a command may have been read from: for a
\* maintenance order also an earlier one, which another transaction still shows.
FirstReads(c) ==
    {db} \cup IF TypeOf(c) = "ORDER" THEN {txn[g].read : g \in {g \in Handlers : txn[g] # None}}
              ELSE {}

\* What a policy sends to approval can be carried out as long as the facts stay
\* as they were read: the latest-state check lets it pass, and the enterprise
\* system, which tests its own rules, does it.  The access policy alone does not
\* ask whether the employee is at work; both of the others do.
ApprovableIsExecutable ==
    \A h \in Handlers :
        txn[h] # None =>
            LET c == txn[h].command IN
            /\ txn[h].read = db
            /\ c.key \notin CarriedOut(db)
            /\ \E e \in FirstReads(c) : \E a \in Approvable(TypeOf(c), e, db) :
                  c = [a EXCEPT !.key = c.key]
            /\ c.op = "grant_application_access" => AtWork(db)
            => Executable(c, db, now) /\ Accepts(c, db, db)
================================================================================
