# A TLA+ verification of BizOrch

BizOrch lets a language model understand a business request and lets
deterministic code do the rest: policy, human approval, and writes to an
enterprise system that are sent at most once and verified by an independent read.
These modules model that deterministic part. They are written from the code
under `src/backend/app`, `src/enterprise_ops_mcp/app` and
`src/enterprise_system/app`; every definition that models code is mapped to its
lines in `PROJECT.json`.

## 1. The system

### Components

| component (directory) | state it keeps | operations | what makes it correct |
|---|---|---|---|
| workflow lifecycle and run store (`workflow/`) | `workflow_runs` (state, version), `workflow_events` in MySQL | create, get, transition, record_progress | one owner per version; only transitions of the table; the audit trail is the history |
| action gateway (`actions/`) | proposals by version, idempotency records, execution records (MySQL) | execute: authorise, check, reserve, start, send, verify, finalize, finish | a key is sent at most once; only an approved, current proposal is sent; a recorded success is real; outcomes are final |
| single-task approvals (`approval/repository.py`) | `approval_tasks`, `approval_decisions` | create, decide, require_approved | a decision is taken once and is bound to a version and a digest |
| serial approval routes (`approval/sequences.py`, `sequence_checkpoint.py`) | `approval_sequences`, its tasks, `action_plans`, the run | create_for_plan, decide, integrity check, decide and resume | stages decide in order; route, plan and run end together |
| access request workflow (`scenarios/access_management`) | the run, the LangGraph checkpoint (SQLite), the in-process activity registry | start, decide_and_resume, resume_recorded_approval, provide_information_and_resume, snapshot; execute, recover_interrupted_execution | executed at most once; an interruption always reaches a human or can be recovered |
| human review (`workflow/human_review.py`) | the run | decide, list_pending | concludes only runs that wait for a human |
| procurement, equipment, employee lifecycle (`scenarios/*`) | runs, tasks or routes, plans with their steps, the checkpoint of the pause | start, provide information, decide, resume, execute, recover; policy, plan template, latest-state check, verification | steps in order, each sent once; plan and run agree; an approved run moves on; what is approved can be carried out |
| approval pause (`approval/checkpoint.py`, `sequence_checkpoint.py`) | the LangGraph checkpoint (SQLite) | arm, decide_and_resume, resume_recorded_decision | a decision is resumed once, also after a crash between the two databases |
| tickets (`tickets/`) | `tickets`, `ticket_events`, `service_requests` | sync | a ticket is the projection of one moment of its run |
| knowledge base (`knowledge/`) | documents, chunks, index jobs (MySQL), vectors (Chroma), files | upload, publish, retire, retry, search; the worker's claim, renew, complete, fail | one published version; retired is terminal; every job ends |
| evaluation (`evaluation/`) | runs with leases, case results, usage, baselines, bad cases | submit, claim, record, complete, release; baseline, archive, repair, retest, verify, close | usage is accounted, a completed run is whole, every run ends; no case is verified without a passed retest |
| conversations (`conversations/`) | conversations, messages, tool calls | message turns | a turn is answered once |
| agents (`agents/`) | none | classify, extract, answer | only select a scenario and a draft |
| auth (`auth/`) | users, roles, sessions | login, logout, current user | outside this project |
| MCP server (`src/enterprise_ops_mcp`) and client (`integrations/`) | none | relays tool calls, checks scopes, turns answers into exceptions | a write that may have been carried out is never called refused |
| simulated enterprise system (`src/enterprise_system`) | employees, accounts, accesses, asset tasks, lifecycle requests, equipment, budgets, external idempotency records | nineteen writes, reads | a key is carried out once; the budget balances; an activation is complete; an employee only advances |
| frontend (`src/frontend`), deployment | none the backend relies on | | outside this project |

### How they interact

One uvicorn process (`start.py`) serves the API; every request is handled by a
thread of its own, so handlers of one run race on the database and share the
process's activity registry. A workflow handler reads the run from MySQL and
the graph position from the LangGraph checkpoint in SQLite, calls the gateway,
and the gateway calls the enterprise system through the MCP server over HTTP,
with a timeout. Index and evaluation workers are processes of their own that
poll the database. There is no global transaction: MySQL, SQLite, Chroma and
the enterprise's database are committed separately, and the process may die
between any two commits while its requests are still on the wire.

### What is hard

* Several handlers act on snapshots of the run, of the checkpoint and of an
  approval route that were read at different times.
* A write may be carried out although its caller timed out, may land late, or
  may be answered and then not committed (`main.py` commits in a dependency's
  teardown, after the answer).
* A crash separates the gateway's last commit from the workflow's, the
  workflow's commit from the checkpoint, and the checkpoint from the commit of
  the next node.
* Repeated requests, recovery and human review conclude the same run.
* The enterprise system tests its guards on a snapshot (MySQL, REPEATABLE READ)
  and writes by primary key: what keeps two requests apart is a unique key, a
  version in the condition of one `UPDATE`, or nothing.
* One rule is written three times: in the policy, in the check before the write and
  in the write itself; a request that one of them admits and another refuses stops
  after its approval.
* An access ends with time alone, and its row stays set active: what is read of it for
  a plan, a policy, a check or a verification goes by the clock, a lifecycle write by the row.
* Workers own runs and jobs by leases which expire while they work.

`PROJECT.json` lists each of these as a hazard at its line, with the properties
that cover it, or the reason why none does.

## 2. Modules

```
WorkflowLifecycle   <- abstract: state and version of one run
   ^ refinement            ^ action property
WorkflowRepository <- TicketProjection      AccessWorkflow --INSTANCE--> ActionGateway --refines--> OnceOnlyWrite
SerialRoute <--refines-- ApprovalSequence
KnowledgeLifecycle                          EvaluationRuns <- EvaluationGovernance

EnterpriseCall <- PlanRun <- ApprovalPause <- LifecycleWorkflow, ProcurementWorkflow, MaintenanceWorkflow <- ScenarioWorkflows
                                                                             ScenarioWorkflows --refines--> OnceOnlyWrite
EnterpriseWrites <- LifecyclePlans <- RequestPolicies                                        (<- : is extended by)
```

* **WorkflowLifecycle** is `workflow/state.py`: the table of transitions, and the
  two operations a caller sees, `Transition` and `Progress`.
* **WorkflowRepository** is `workflow/repository.py`: each operation is a
  read followed by a conditional `UPDATE` and an event `INSERT` in one
  transaction; handlers hold versions that others have overtaken. It implements
  WorkflowLifecycle (`ImplementsLifecycle`).
* **TicketProjection** composes it with `tickets/service.py`: `sync` projects the run,
  its trail and the ticket as its snapshot shows them (`SyncBegins`), and creates or updates
  the ticket when it commits. No version guards the ticket; the unique
  `(ticket_id, sequence)` of its events does what one would.
* **OnceOnlyWrite** promises, for one idempotency key: sent once, concluded once and
  only after it was sent, carried out only after it was sent, and concluded as FAILED
  only if the enterprise system refused it for good.
* **ActionGateway** is `actions/gateway.py` with its stores, the access grant's
  tool, checker and verifier, and the enterprise system's side of the write
  (`service.py`). One action per step of `execute()`, since each step is a
  transaction or a remote call of its own; `wire`, `reply` and `Open` model
  a request in transit, its answer and its uncommitted transaction; `Crash`
  forgets what is in memory. `held` and `sends` are history variables.
  It implements OnceOnlyWrite for every key (`ImplementsOnceOnlyWrite`).
* **AccessWorkflow** composes the gateway with one access request:
  `scenarios/access_management/workflow.py` and `execution.py`, the activity
  registry, the graph checkpoint and human review. A handler is a record of
  `request` whose `at` names the next commit or read; everything up to that point
  is one action. It instantiates ActionGateway on its own variables, takes the
  gateway's actions as its own and `UsesGateway` says it takes no others.
* **SerialRoute** promises: stages are approved one after the other, one
  rejection ends the route.
* **ApprovalSequence** is `approval/sequences.py` under the transaction of the
  coordinator: a handler takes a snapshot (`Read`), then its conditional updates
  apply to rows others may have changed. It implements SerialRoute.
* **EnterpriseCall** is the way of a write through the MCP client, the MCP server and
  its HTTP client: which exception a tool sees for which answer, and which outcome the
  gateway makes of it. It has no state.
* **PlanRun** is what the other three scenarios share: the run, its approvals as a count,
  its plan and steps (`scenarios/action_plans.py`), the checkpoint, the registry, and one
  gateway call per step, with the outcomes EnterpriseCall admits. What
  ActionGateway, WorkflowRepository and ApprovalSequence model in detail is one action here.
* **ApprovalPause** is the two checkpoint coordinators: arm the pause, decide
  and resume, resume a recorded decision; MySQL and SQLite are written in separate actions.
* **LifecycleWorkflow**, **ProcurementWorkflow**, **MaintenanceWorkflow** are the commands
  and executions of the scenarios; **ScenarioWorkflows** is their
  disjunction, the fairness and the properties. `scenario` is chosen at the start.
* **EnterpriseWrites** is the nineteen writes of `enterprise_system/app`: `Begin` takes the
  snapshot of a transaction, one action per operation tests it and commits, `Rollback`
  gives up. What an operation tests is an operator of its own (`Activatable`,
  `Purchasable`, ...) of the command, the snapshot and, where a unique key or the condition of
  an `UPDATE` tests it, the database; `Accepts` is all of them by operation. `offered` is the
  set of commands of a behaviour; every one of them may be sent any number of times, in any order.
  `now` is the clock in days, which `Tick` moves. An access has its `active` column (`access`)
  and its `expires_at` (`until`): `Active` is what `_active_access` reads, `InForce` what
  `_is_active` shows to everybody else, `Lapsed` the difference. A transaction knows when it
  `began`, since the handler of a grant reads the clock at some time between that and its commit.
* **LifecyclePlans** has the three plan templates, the latest-state checks before a
  write and the verifications after it (`scenarios/*/plans.py`, `execution.py`);
  **RequestPolicies** the policies of all four scenarios, each the list of its rules in the
  order of the code, of which the first that applies gives the outcome (`FirstRule`), and what
  they approve. They are functions of EnterpriseWrites' database, and of the time where they
  read accesses, so that the three sets of rules meet.
* **KnowledgeLifecycle** is `knowledge/service.py`, `repository.py` and
  `index_worker.py` for the versions of a source. A worker's claim, renewal, failure
  and completion are transactions; between them it embeds and writes a batch
  (`Upsert`) holding only its lease, which `Elapse` ends at any time. A handler that
  reads a document without a lock does so in an action of its own (`HasRead`), and its
  later write uses what it read. `retired` and `direct` are history variables.
* **EvaluationRuns** is `evaluation/repository.py`, `worker.py`, `service.py` and
  `usage.py`: a worker is a record whose `at` names its next transaction; `lock` is
  the row a conditional `UPDATE` keeps locked. `spent` is a history variable.
* **EvaluationGovernance** is `governance.py`: baselines and Bad Cases, written by
  handlers on what they have read (`view`).

`MC*` modules only name the finite constants and the constraints; `*Proofs` modules hold
the theorems.

### Modelling choices

* A MySQL transaction is atomic at its commit where it locks what it reads or
  checks it again in the `UPDATE`; where it relies on a snapshot the read is an
  action of its own. `build_engine` leaves the isolation level alone, so it is
  InnoDB's REPEATABLE READ: plain reads see the snapshot, an `UPDATE` sees the
  latest row and keeps it locked even if its condition does not match, and a lock that is
  not granted ends in a timeout. A transaction that fails for any reason (connection,
  deadlock, a lost race) is `StepFails`, `Rollback`, `ExecutionFails`, `GatewayFails` or
  `SyncFails`.
* LangGraph: `invoke` continues from the newest checkpoint by creation time; a
  background thread saves the checkpoints of a run in order, `invoke` returns
  only after they are saved; a node that raises leaves no checkpoint. Another
  handler's pending writes for an interrupted node are abstracted away.
* The digest of a proposal is its (action, version) pair: the code never stores
  two contents under one version. Wording, payloads and actors' names are left out;
  so are roles and ownership checks that only refuse. Time is modelled where something
  changes by it: leases, timeouts, and the accesses of the enterprise system.
* A handler's expected version in AccessWorkflow is the current version of the run: an older
  one is refused by `DecideTask`, and the recorded path does not use it.
* The proposal of an access request is always version 1.
* Each deployed image runs one backend process, so the registry is one set.
* Knowledge: a session does not reload an object it holds, so what `get_document`
  read before a lock is what the checks after the lock see. Only the newest
  job of a document is kept, since the unique `active_key` admits one active job and
  ended ones never change. Claim, renewal, completion, failure and retirement lock
  the rows they check; if the order of their locks makes a deadlock, the victim is
  `RequestFails` or `WorkerCrash`. `due` stands for `available_at` or
  `lease_expires_at` being past. The deployment starts one worker, but the lease code
  is written for several, and the model has several. Versions that came in by the
  direct `ingest_text` (no job, no superseding) are in the model and exempted by
  name from the properties that speak of uploads.
* MCP: `StreamableHttpMcpToolCaller` makes `McpToolInvocationError` of every error and of
  every timeout, so that a refusal by the enterprise system reaches the tools
  as an unknown result. The branches of the tools for the HTTP client's exceptions (`FAILED`,
  the read-back of procurement) are in EnterpriseCall as written; composed with the
  client, no write takes them, and `TOOL_FAILED` is no outcome of a scenario.
* Enterprise writes: departments, jobs, packages, applications, managers and policies
  have no write operation and are constants; similar items are equal items, and similar
  purchases are looked for among those of the same requester, as in `_require_no_duplicate`. A
  version in a command that creates a purchase is one the committed database has had
  (`ReadBefore`). A command that grants accesses renews those that are not in force, whether
  their row is inactive or has run out; the SQL that sets `expires_at` is always sent, since a
  date read from MySQL has no time zone and never equals the new one, while `active` is only
  sent when it changes.
* Policies: a draft names what is asked for and at most one flaw of its text or of the
  constant facts. The context is read at one moment, though the code reads it in
  several requests: what is stale at approval is what the check before the write is for.
* Evaluation: a case is executed in one action, which spends calls and gives a verdict;
  suites, executors and comparisons are pure and only give that verdict.

## 3. What the runs check

| run | question | result |
|---|---|---|
| `workflow_repository` | Two writers with stale versions, two projectors with stale snapshots: is there one event per version, in order, does the run follow its table, and is the ticket always the projection of one moment? | holds |
| `gateway` | Two versions of a proposal under one key, or two keys for the same access, with two callers, crashes, and late, lost or refused writes: is anything sent twice or unapproved, is every recorded or replayed success real, does the execution record never lead its key, do outcomes stay? | holds |
| `access_workflow` | Two handlers, repeated decisions, recovery, review, crash: is the run executed at most once, EXECUTING while a write is in flight, never concluded against the enterprise's state, and always recoverable after an interruption? | holds |
| `access_interrupted` | Is "execution_result_not_durable" (execution.py:364) true when it is written? | violated |
| `access_resume` | Can an approved run always be resumed, as workflow.py:339 says? | violated |
| `approval_sequence` | Three stages, three handlers with stale snapshots: do route, plan and run decide together and in order? | holds |
| `scenario_workflows` | A plan of two steps, purchases of one and two stages, a maintenance order; two handlers and one fault at any point: are writes sent once, approved and in order, do plan and run agree, does completed mean done, does an approved run move on? | holds |
| `enterprise_writes` | Plans of one employee racing with each other, with access requests and with time; orders and purchases: does the budget balance, is a key used once, is an activation complete, can a plan go on, is an approvable request executable, does the write test again what the check has tested, can it be verified? | holds |
| `knowledge` | One version with two workers, or two versions with two handlers: do document and job agree, is a searchable document complete, is at most one version published, does only the lease's owner conclude, does every job end? | holds |
| `knowledge_retired` | Is a retired version never published again, as service.py:434 says? | violated |
| `evaluation` | Two workers, expiring leases, a crash; operators on completed runs: is usage accounted, is a completed run whole, is a case verified only on a passed retest, is there one baseline, does every run end? | holds |
| `evaluation_claim` | Does `run_once` return (worker.py)? | violated |

The four violations are divergences between the code and what it says of itself,
see `findings`:

1. A crash after the gateway finalized the key and before `_finish` commits
   leaves an EXECUTING run with a durable result. Recovery hands it to a human
   with the reason that the result was not durable, and a reviewer who confirms
   the success is refused (`human_review.py:162-167`), because the stored execution
   is not uncertain.
2. A crash after the graph saved the checkpoint behind the approval and before
   EXECUTING is committed leaves a RUNNING run whose checkpoint says `execute`.
   Both operations that could resume it refuse it.
3. `publish_document` loads the draft without a lock and checks, after the lock, the
   object it had loaded. A draft retired in between is published, and the retirement's
   cleanup removes its vectors. The same cause lets a retry re-enqueue a retired
   document.
4. `claim_next_run` selects again after a lost conditional `UPDATE`, in the same
   transaction: its snapshot still shows the old row, so it selects and loses for ever,
   with the row locked.

### What the properties except, and what the runs found besides

* `ApprovedRunsMoveOn` excepts `PausedForGood`: two handlers that find no graph state both
  start it, and the slower one may save a pause over a decided one. For a purchase with
  one stage, a crash while it executes then leaves a run no request gets past;
  with two stages the repeated approval of the first stage does.
* Accesses that have run out (`employee_lifecycle_write_service.py:540` against
  `service.py:322`). The plan of an offboarding lists the accesses in force, and its
  second write wants the rows set active: of an employee with an access that has run out
  the account is disabled, the check of the second step passes, and the write is refused, as it
  will be whenever it is tried again, since no step clears the row. A transfer of such an
  employee stops at its last step, unless the access belongs to the new package, which renews it.
  If an access runs out after the plan was built, the check refuses the revocation of it.
  `PlanGoesOn` says that this is exactly when a plan stops (`InTheWay`); `WritesRecheck` excepts a
  revocation of an access that has run out, which the write would carry out and the check would
  refuse (`TakesLapsed`); `ConfirmedAtCommit` that the last step of a transfer, which
  counts the rows set active, cannot be confirmed exactly if one of them has run out.
* `PlanGoesOn`, `ConfirmedAtCommit`: two requests of one employee may both find no
  open one; no unique key keeps the second out. With two, the verifications fail.
  Likewise reachable, and in no property: two maintenance orders of one
  machine approved on one version, and an access granted while an offboarding finds none.
  `VerifyEmployeeOffboardingConsistency` reports the last one afterwards.
* `WritesRecheck` excepts the provision and the adjustment task: their writes do not look for an
  earlier one, though the check before them does. A grant of an access in force, which the
  check refuses, is answered as `ALREADY_PRESENT` by the write; the property then says that what
  is in force stays as it is (`LeavesInForce`).
* `ApprovableIsExecutable` leaves out that the access policy does not ask whether the
  employee is at work.
* Adjustment tasks are never closed, so that the policy sends every second transfer of an
  employee to a human.
* `EveryRunEnds` assumes what `evaluation_claim` refutes: that a worker leaves
  `claim_next_run`.

### Bounds

`MaxVersion` bounds the versions of a run: 4 lets a store run make three
transitions with every pair of stale readers; 6 lets an access run go through
approval, execution, recovery, and one review after WAITING_HUMAN (version
5); in ScenarioWorkflows it bounds only information and notes, which add nothing but
versions. `MaxCheckpoints = 4` allows an intake checkpoint, those of two competing
resumptions and their successors. Two handlers are enough for every race found
in the code: each check is made by one handler against one other's commit;
the theorems cover any number. Three stages give a first, a middle and a last.
`MaxFaults = 1` in ScenarioWorkflows: one crash or failure, at every point; each recovery ends
in a state where a second fault meets what the first one met, and the safety
properties are proved for any number. A plan of two steps has a step that unlocks and one that
is unlocked. In EnterpriseWrites two transactions overlap at a time while any number follow
each other; each of the eight scenarios is one employee's facts with the
plans or requests that concern the same rows, and onboarding is followed by the
offboarding of whom it has created. Two employees have an access that has run out, one has
one that does so while his plans go on (`MaxNow = 1`: a day is enough for every
access granted for one day to end, and plans are built before it and grants made on both sides of
it). Of the purchases offered, by two requesters, some pairs fit the budget of 5 and some do not.

Three runs narrow their instance with a CONSTRAINT, to put into one run what does not
meet. `gateway` (`VersionsOrKeys`): no path of `execute()` compares two keys and two
versions at once. `knowledge` (`Focus`): the jobs of one version compete with two workers
and one handler (`Batches = 2`: a job can be lost between batches; `MaxAttempts = 3` is the
code's value; `MaxJobs = 2` allows one manual retry), and as soon as a second version or
a second handler appears there is one worker which tries each job once. `evaluation` (`Focus`,
`Staggered`): operators act while no two workers disturb each other; several runs come one after the
other. A state outside a CONSTRAINT is not continued, so `EveryJobEnds` and
`EveryRunEnds` speak of the behaviours that stay inside.
`MaxAttempts = 2` for evaluation: a first attempt and a last one.
Handlers that are alike are a symmetry set where the run has no liveness property.
Deadlock is checked except in the violations and where a run may end with nothing left
to do: `scenario_workflows` (a completed run) and `evaluation` (all runs ended).

### Fairness

AccessWorkflow assumes none: nothing in it runs by itself. An interrupted run is
recovered when a person asks again, and the code gives no reason to suppose that one
does; `InterruptionIsRecoverable` says instead that such a request would succeed.

ScenarioWorkflows assumes that a handler that has taken up a request goes on
(`WF_vars(Continue(h))`: a thread of the server is scheduled, its calls have timeouts) and that
every approver who may decide repeats his approval again and again (`SF_vars` of `Repeat`). The
second one is a fact about people and not about the code: `ApprovedRunsMoveOn` says that
the code needs no more than that, which is what `resume_recorded_decision` is for.

The index worker and the evaluation worker do run by themselves: `run_loop` polls until it is
stopped, their calls have a timeout, and the containers are restarted unless stopped. So their
`FairSpec`s assume weak fairness of each worker's `Work` and of the passage of time (`Elapse`,
`Expire`). Requests and crashes are not fair; the index worker may crash for ever,
and `EveryJobEnds` still holds because a claim counts as an attempt before any work is done.

## 4. What is proved

All theorems hold for any number of handlers, keys, versions, stages, steps, commands and
faults; the assumptions are the named `ASSUME`s of the modules (the constants have their
types, `None` is no value of interest, and the five below of EnterpriseWrites and
LifecyclePlans), which TLC evaluates in the runs.

* **TicketProjectionProofs**: of WorkflowRepository, `TypeCorrect`, `AuditTrailCorrect`,
  `RefinesLifecycle`. The invariant adds that a handler's version is at most the run's
  and that the events are as many as the version: a successful `UPDATE` is then
  the only way to the next version. With the ticket, `TicketIsProjection`,
  `TicketSpecRefines`. `TInv` says that every
  snapshot is a prefix of the trail and that the ticket it has read is of no later moment than
  today's; two syncs that both would add events to one ticket then add the same sequence, so
  that the later fails.
* **ActionGatewayProofs**: `TypeCorrect`, `SentAtMostOnce`, `OnlyApprovedIsSent`,
  `SuccessIsAlwaysReal`, `ExecutionNeverLeads`, `OutcomesStayFinal`,
  `RefinesOnceOnlyWrite`. The invariant ties a caller past its reservation to
  the IN_PROGRESS record of its key, and makes that caller the only one: so a key
  is sent by whoever reserved it, and after a crash by nobody. What a caller
  believes of the outcome is tied to the answer and to `held`.
* **AccessWorkflowProofs**: `WritesInFlightAreExecuting`, `RunExecutesOnce`,
  `RunAlwaysFollowsLifecycle`, `WorkflowUsesGateway`, `VerdictsAreHonest`,
  `InterruptionsAreRecoverable`, `WorkflowIsOnceOnly`. The first invariant
  says that the registry's claim is exclusive, that a run leaves RUNNING for
  good, that EXECUTING was entered once, and that a handler which found the run
  EXECUTING and unclaimed knows that nobody is in the gateway or will enter it.
  Without the last part recovery could take a live run away.
  `VerdictsAreHonest` instantiates ActionGatewayProofs on the variables of the workflow: every
  step of the workflow is one of the gateway or none, so that the gateway's invariant
  holds here, and `Verdict` adds that a failure is only concluded from one that the
  gateway has recorded with the enterprise's refusal. `InterruptionsAreRecoverable`
  rests on `Graph`: the pause is the first checkpoint ever made, one behind the
  graph's end is made, or waits to be saved, only when the run has left its
  execution (`Founded`), a claim has its holder, and whatever a handler has read of the
  checkpoint and of the decision is still true where it uses it (`Rests`).
  `WorkflowIsOnceOnly` composes `WorkflowUsesGateway` with the gateway's
  `RefinesOnceOnlyWrite`: the workflow as a whole implements OnceOnlyWrite.
* **ApprovalSequenceProofs**: `TypeCorrect`, `RouteStaysConsistent`,
  `RouteRunAndPlanEndTogether`, `DecisionsAlwaysStand`, `RefinesSerialRoute`. The
  invariant says that a snapshot that differs from the rows is outdated by the
  version of the run, so its conditional updates miss.
* **ScenarioWorkflowsProofs**: `ScenarioTypes`, `WritesAreInOrder`, `CompletedRunsAreDone`,
  `PlansFollowRuns`, `OneExecution`, `ScenariosWriteOnce`. The invariant has a part on what is
  stored and one on the handlers. Stored: the run follows the verdict (`RunFollowsVerdict`); before a step that was ever
  unblocked all have succeeded (`StepsInOrder`); the key of a step, its execution record and
  its sends agree (`KeysAgree`). Handlers: one holds the registry (`OneHolder`); a handler on
  its way to recover a run knows that it is past its approval and that nobody
  executes it (`Waits`); and the holder between `begin` and `close` owns the EXECUTING run
  at the version it expects, its step and the key of that step (`Owns`). Without `Owns`
  a step could be sent by two handlers, and without `Waits` a recovery could take the run
  from a live one. `ScenariosWriteOnce` reads off `Owns` that the scenarios, too, implement
  OnceOnlyWrite for the keys of a plan. What the enterprise system does with a write is no part
  of PlanRun, so nothing lands under this mapping and nothing is refused; it then promises
  that no key is ever concluded as FAILED. That rests on EnterpriseCall's tables
  (`AnswersAreEnds`): the client has one exception for whatever goes wrong, and the gateway
  calls it UNKNOWN.
* **EnterpriseWritesProofs**: `EnterpriseTypes`, `BudgetAlwaysBalances`, `PurchasesDiffer`,
  `KeysActOnce`, `EmployeesOnlyAdvance`, `ActivationsAreComplete`, `WritesAreRechecked`,
  `WritesAreConfirmed`, `ApprovedIsExecutable`, `PlansGoOn`. Each operation is first
  shown to have one common effect on employee, access and its dates, requests and keys
  (`Effect`), then each invariant is kept by two facts: the database stands or has an effect
  (`Writes`), and a snapshot was the committed database when it was taken (`Snapshots`). The
  invariants say in what a snapshot can be behind: a purchase that meets its version saw the
  cost centre and all purchases as they are; an employee's status is at most too early, and
  if he was pending and is not, the one activation has used its key; his package, tasks and
  request are still there. `WritesAreRechecked` and `WritesAreConfirmed` go through check, write
  and verification of each of the nineteen operations. A recheck needs that return tasks are made by
  the commands for them (`ReturnInv`); a verification, that somebody who is pending
  has no access but his package and none that runs out (`LastingInv`), and that, where one
  request at most is open, its completion leaves none. That what is in force later was in
  force before (`InForceEnds`) is all they use of time.
  `ApprovedIsExecutable` compares the three sets of rules on every typed database and for
  every draft, and needs no more than the types. Its first step reads the facts off the
  outcome of a policy (`OnlyTheLast`: if only the last rule of a list has the outcome it gave,
  no other rule applied); its second (`FirstIsAccepted`) finds check and write among them.
  `PlansGoOn` needs to know what the steps of a plan have made of the facts the plan was built
  on, also in the snapshots of writes that are still open. `PlansInv` says it by three
  shapes (`OnboardingShape`, `TransferShape`, `OffboardingShape`), each a function of the
  steps that are done, in whatever order, as long as nothing but the plan was carried out. A
  write adds its step to a shape (`OnboardingAdvances`, ...), because what its
  snapshot showed carried out still is (`Older`), so that snapshot and database are both of
  the shape of the same plan. The shapes keep the dates of the accesses, from which follows
  which rows are `InTheWay` of a step: those set active that were not in force when the plan
  was built, and those that have run out since. `PlansInv` was checked by TLC on the run's instance first.
  `CommandAssumption`: a key names one command, and an employee has one activation,
  since a second onboarding ends at its first step. `SeedAssumption` is what
  the seeded databases have in common, with accesses that may have run out. `ActionsAssumption`: a request is carried out by the
  actions of its type (`_ACTIONS_BY_REQUEST_TYPE`). `PlansAssumption`: an onboarding,
  a transfer and an offboarding of a behaviour is each one plan of its template, on the profile
  it was built on; an onboarding is to a job whose package has roles in it. The policy
  refuses a job without an active package (`policy.py:154`), and the one package of the seed
  without roles is not active; an active one would let an onboarding begin and its last step
  fail, since the activation asks for an access. `ReturnsAssumption`: no
  offboarding is planned on tasks that include a return, since as long as there is one
  another offboarding is open or the employee is gone; the enterprise system
  does not test this again, only the check before the write does.
* **EvaluationGovernanceProofs**: `EvaluationTypes`, `UsageAlwaysAccounted`,
  `CompletedRunsAreWhole`, `VerifiedRestsOnPass`, `BaselineIsSingle`, all from one invariant
  (`Inv`). Usage: what a run has recorded and what its workers have not yet recorded together
  never exceed what was spent (`Accounted`), and the worker of the last attempt has a
  guard that bounds what the attempt may still spend (`Guarded`). Completion: a worker
  about to complete a run has read a result of each case, and none of them
  is ever replaced (`CompletionIsFounded`). Retests: a Bad Case, and the handler about to
  judge it, name a run that retests that case (`RetestsAreOfCase`).
* **KnowledgeLifecycleProofs**: `TypeCorrect`, `OnePublished`,
  `IndexStatusAlwaysFollows`, `SearchableAlwaysComplete`, `OwnersConclude`, for any number
  of versions, workers, handlers, batches and attempts. The invariant says what a
  handler's unlocked read still guarantees when it is used, that a worker
  at batch n has left the batches before it in the store unless the document was
  retired, and that an indexed document has them all.

The type invariants (`TypeOK`), `DecisionsStand`, `UsesGateway` and `ExecutionsExclude` are
proved and no longer part of a run; every invariant was checked with TLC before its proof.

Two of these proofs speak of sums (`UsageIsAccounted`, `BudgetBalances`). `SumFunction`
is a recursive function over the subsets of its domain. That the recursion has a solution, that the
order of the elements makes no difference (`FoldAdds`) and what one more element adds
(`SumAdds`) is not proved by an induction theorem, which would take an operator, but from a
smallest counterexample: `SmallestBad`, by the well-foundedness of < on the naturals.
Both modules prove these lemmas, since neither is about the other.

Every invariant and every safety property of a passing run is stated by a theorem. Only
model-checked are the three liveness properties (`ApprovedRunsMoveOn`, `EveryJobEnds`,
`EveryRunEnds`) and the four violations: liveness under fairness, ENABLED, RECURSIVE operators
and the library's induction theorems are out of the prover's reach.

`PlanGoesOn` and `ApprovableIsExecutable` say that a write can be made, and they say it by its
guards (`Accepts`), without ENABLED. What cannot be proved is that the guards are all there
is to it: that a handler whose command is accepted has a step that makes the write. The
actions show it by their form, a guard followed by `Save`, and TLC has found `Accepts` equal to
ENABLED of the handler's writes in every state of the instance of `enterprise_writes`.

## 5. Not modelled

* `AccessWorkflow` starts from a complete request: the WAITING_USER branch and
  an intake denied by policy are missing there; the policy itself is in RequestPolicies.
* Conversations: a turn is a transaction, then the agents, then a transaction; it decides which
  scenario is asked, and no write depends on it.
* Knowledge: stored files, who may see what, ranking, and the index version, which
  nothing in the code changes. `ingest_text` may die between its two commits and leave a
  published document unindexed; only another ingest of the same content recovers it.
* The payloads of the tools, the summaries and notices of the scenarios, and the answers of
  reads that no decision depends on.
* Agents, prompts, parsing, chunking, authentication, configuration, migrations and the
  frontend: text processing or I/O without state the workflows rely on.

## 6. Plan

1. PlanRun's gateway and approvals as refinements of ActionGateway and ApprovalSequence; so far
   its writes implement what both gateways promise (`ScenariosWriteOnce`).
2. The WAITING_USER branch of AccessWorkflow, with its recovery by version
   (`workflow.py:617`).
3. Conversations, if they come to carry state that a workflow relies on.
