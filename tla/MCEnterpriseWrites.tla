-------------------------- MODULE MCEnterpriseWrites --------------------------
(* The plans of one employee, and requests of others, with their policies.  *)
EXTENDS RequestPolicies

CONSTANTS j1, j2, b1, b2, p1, p2

MCJobs == {j1, j2}
MCBindings == {b1, b2}
MCPackage == (j1 :> {b1}) @@ (j2 :> {b2})

\* Accesses that never run out; a temporary one of b2, in force and run out.
Lasting == [b \in MCBindings |-> None]
Temporary(days) == [Lasting EXCEPT ![b2] = days]

Unknown == Seeded("NONE", "NONE", j1, {}, Lasting)
WithAccount == Seeded("ACTIVE", "ACTIVE", j1, {}, Lasting)
WithAccess == Seeded("ACTIVE", "ACTIVE", j1, {b1}, Lasting)
WithoutAccount == Seeded("ACTIVE", "NONE", j1, {b1, b2}, Temporary(1))
WithLapsed == Seeded("ACTIVE", "ACTIVE", j2, {b1, b2}, [Lasting EXCEPT ![b1] = 0])

\* What the onboarding leaves of an unknown employee.
Onboarded ==
    [WithAccess EXCEPT !.employee.version = 2, !.account.version = 2,
                       !.tasks = {[type |-> "PROVISION", job |-> j1,
                                   key |-> StepKey("ONBOARDING", 4)]}]

AccessRequest(bindings) ==
    Steps(SequentialSteps("REQUEST",
        <<[Command("create_access_request") EXCEPT !.bindings = bindings, !.days = 1,
              !.request = StepKey("REQUEST", 1)]>>))
    \cup Steps(SequentialSteps("ACCESS",
        <<[Command("grant_application_access") EXCEPT !.bindings = bindings, !.days = 1,
              !.request = StepKey("REQUEST", 1)]>>))

\* The grant of an approved access request of BizOrch.
AccessGrant(b) == Steps(AccessSteps([binding |-> b, days |-> 1]))

Maintenance ==
    Steps(SequentialSteps("ORDER",
        <<[Command("create_maintenance_work_order") EXCEPT !.version = 1],
          [Command("create_maintenance_work_order") EXCEPT !.version = 1]>>))

\* Purchases approved before and after the first one, some of them of one item and
\* some of these by one requester.
Purchase(requester, item, amount, version) ==
    [Command("create_request_and_reserve_budget") EXCEPT !.requester = requester,
        !.item = item, !.amount = amount, !.version = version]
Purchases ==
    Steps(SequentialSteps("PURCHASE",
        <<Purchase(p1, 1, 2, 1), Purchase(p1, 1, 3, 1), Purchase(p2, 2, 1, 1),
          Purchase(p2, 2, 4, 2), Purchase(p2, 1, 2, 2)>>))

Scenario(facts, commands) == [facts |-> facts, offered |-> commands]
MCScenarios ==
    {Scenario(Unknown, Steps(OnboardingSteps(j1)) \cup Steps(OffboardingSteps(Onboarded, 0))),
     Scenario(WithAccess, Steps(TransferSteps(WithAccess, 0, j2)) \cup AccessRequest({b2})),
     Scenario(WithAccess, Steps(OffboardingSteps(WithAccess, 0)) \cup AccessGrant(b2)),
     Scenario(WithAccount, Steps(TransferSteps(WithAccount, 0, j2)) \cup AccessRequest({b1})),
     Scenario(WithoutAccount, Steps(TransferSteps(WithoutAccount, 0, j2))
                              \cup Steps(OffboardingSteps(WithoutAccount, 0))),
     Scenario(WithLapsed, Steps(TransferSteps(WithLapsed, 0, j1)) \cup AccessGrant(b1)),
     Scenario(WithLapsed, Steps(OffboardingSteps(WithLapsed, 0)) \cup AccessGrant(b1)),
     Scenario(Unknown, Maintenance \cup Purchases)}

HandlerSymmetry == Permutations(Handlers)
===============================================================================
