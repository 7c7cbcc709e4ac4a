----------------------------- MODULE ActionGateway -----------------------------
(***************************************************************************)
(* backend/app/actions/gateway.py and the stores it drives: every external *)
(* write of BizOrch goes through execute(), which checks the proposal,     *)
(* reserves an idempotency key, records the attempt, calls the enterprise  *)
(* system, verifies the result by an independent read, and records the     *)
(* outcome.  Each of those steps is a transaction or a remote call of its  *)
(* own, so callers interleave between any two of them, and the process may *)
(* die between any two of them while its requests are still on the wire.   *)
(***************************************************************************)
EXTENDS Naturals

CONSTANTS Callers,      \* threads of the backend that may call execute()
          Actions,      \* action_id
          MaxVersion,   \* bound on the versions of one proposal
          Keys,         \* idempotency keys
          Targets,      \* enterprise resources a write makes active
          TargetOf,     \* the resource a proposal asks for
          None

Proposals == [action : Actions, version : 1..MaxVersion]
FinalStatuses == {"SUCCEEDED", "FAILED", "UNKNOWN", "VERIFICATION_FAILED"}
IdempotencyRecords ==
    [proposal : Proposals, status : FinalStatuses \cup {"IN_PROGRESS"}]
Calls == [proposal : Proposals, approval : Proposals, key : Keys]

ASSUME BoundAssumption == MaxVersion \in Nat
ASSUME TargetAssumption == TargetOf \in [Proposals -> Targets]
ASSUME NoneAssumption ==
    /\ None \notin Calls
    /\ None \notin IdempotencyRecords
    /\ None \notin Targets \cup {"OK", "REJECTED"}

VARIABLES
    latest,    \* ActionProposalRecord: the latest stored version of an action
    approval,  \* ApprovalTask.status of the task bound to a proposal's digest
    idem,      \* IdempotencyRecord, by key
    exec,      \* ActionExecutionRecord.status, by its unique idempotency key
    pc,        \* where a caller is inside execute()
    call,      \* the arguments of a caller
    result,    \* the gateway outcome a caller holds
    wire,      \* write requests sent and not yet settled in the enterprise
    reply,     \* the enterprise's answer to the write of a key
    granted,   \* resources active in the enterprise's committed state
    held,      \* history: resources that are or were active
    external,  \* ExternalIdempotencyRecord: the committed content of a key
    eligible,  \* resources whose employee, application and role allow a write
    sends      \* history: how many requests were sent under a key

durable == <<latest, approval, idem, exec>>
threads == <<pc, call, result>>
enterprise == <<wire, reply, granted, held, external, eligible>>
vars == <<latest, approval, idem, exec, pc, call, result,
          wire, reply, granted, held, external, eligible, sends>>

Outcomes == {"SUCCEEDED", "REPLAYED", "TOOL_FAILED", "RESULT_UNKNOWN",
             "VERIFICATION_FAILED"}
\* The exceptions execute() may raise, by what its callers make of them.
Raised == {"DENIED", "ALREADY_SATISFIED", "ERROR"}

ExecutionStatuses == (Outcomes \ {"REPLAYED"}) \cup {"NONE", "EXECUTING"}
Phases == {"idle", "approvals", "proposals", "state", "reserve", "start", "send",
           "await", "verify", "finalize", "finish", "returned"}
Requests == [key : Keys, proposal : Proposals, stage : {"sent", "open"}]

TypeOK ==
    /\ latest \in [Actions -> 0..MaxVersion]
    /\ approval \in [Proposals -> {"PENDING", "APPROVED", "REJECTED"}]
    /\ idem \in [Keys -> IdempotencyRecords \cup {None}]
    /\ exec \in [Keys -> ExecutionStatuses]
    /\ pc \in [Callers -> Phases]
    /\ call \in [Callers -> Calls \cup {None}]
    /\ result \in [Callers -> Outcomes \cup Raised \cup {None}]
    /\ wire \subseteq Requests
    /\ reply \in [Keys -> {None, "OK", "REJECTED"}]
    /\ granted \subseteq Targets
    /\ held \subseteq Targets
    /\ external \in [Keys -> Targets \cup {None}]
    /\ eligible \subseteq Targets
    /\ sends \in [Keys -> Nat]

Init ==
    /\ latest = [a \in Actions |-> 0]
    /\ approval = [p \in Proposals |-> "PENDING"]
    /\ idem = [k \in Keys |-> None]
    /\ exec = [k \in Keys |-> "NONE"]
    /\ pc = [c \in Callers |-> "idle"]
    /\ call = [c \in Callers |-> None]
    /\ result = [c \in Callers |-> None]
    /\ wire = {}
    /\ reply = [k \in Keys |-> None]
    /\ granted \in SUBSET Targets
    /\ held = granted
    /\ external = [k \in Keys |-> None]
    /\ eligible = Targets
    /\ sends = [k \in Keys |-> 0]

-----------------------------------------------------------------------------
(* Proposals and approvals, written by other parts of the backend          *)

\* ActionProposalRepository.add: versions are append-only.
Propose(a) ==
    /\ latest[a] < MaxVersion
    /\ latest' = [latest EXCEPT ![a] = @ + 1]
    /\ UNCHANGED <<approval, idem, exec, threads, enterprise, sends>>

\* ApprovalRepository.decide: UPDATE ... WHERE status = PENDING.
Decide(p, decision) ==
    /\ p.version <= latest[p.action]
    /\ approval[p] = "PENDING"
    /\ approval' = [approval EXCEPT ![p] = decision]
    /\ UNCHANGED <<latest, idem, exec, threads, enterprise, sends>>

-----------------------------------------------------------------------------
(* execute(), step by step                                                 *)

Goto(c, phase) == pc' = [pc EXCEPT ![c] = phase]

\* execute() returns an outcome, or raises: the caller holds r.
Yield(c, r) == /\ pc' = [pc EXCEPT ![c] = "returned"]
               /\ result' = [result EXCEPT ![c] = r]

\* A caller passes a stored proposal, an approval id and a key of its own
\* choice; an actor without the right to execute it, or a policy that forbids
\* it, ends the call at once.
Execute(c, p, q, k, authorized) ==
    /\ pc[c] = "idle"
    /\ p.version <= latest[p.action]
    /\ call' = [call EXCEPT ![c] = [proposal |-> p, approval |-> q, key |-> k]]
    /\ IF authorized THEN Goto(c, "approvals") /\ UNCHANGED result
                     ELSE Yield(c, "DENIED")
    /\ UNCHANGED <<durable, enterprise, sends>>

\* Mutant: the approval is only required to be approved.
ApprovalMatchesStatusOnly(c) == approval[call[c].approval] = "APPROVED"

\* require_approved: approved, and for this action, version and content.
ApprovalMatches(c) ==
    /\ approval[call[c].approval] = "APPROVED"
    /\ call[c].approval = call[c].proposal

CheckApproval(c) ==
    /\ pc[c] = "approvals"
    /\ IF ApprovalMatches(c) THEN Goto(c, "proposals") /\ UNCHANGED result
                             ELSE Yield(c, "DENIED")
    /\ UNCHANGED <<durable, call, enterprise, sends>>

\* require_current: only the latest stored version may be executed.
CheckVersion(c) ==
    /\ pc[c] = "proposals"
    /\ IF latest[call[c].proposal.action] = call[c].proposal.version
       THEN Goto(c, "state") /\ UNCHANGED result
       ELSE Yield(c, "DENIED")
    /\ UNCHANGED <<durable, call, enterprise, sends>>

\* require_current_and_executable: remote reads; one that fails or finds the
\* business facts changed raises.
CheckState(c) ==
    /\ pc[c] = "state"
    /\ LET t == TargetOf[call[c].proposal]
       IN \/ Yield(c, "DENIED")
          \/ t \in eligible \cap granted /\ Yield(c, "ALREADY_SATISFIED")
          \/ t \in eligible \ granted /\ Goto(c, "reserve") /\ UNCHANGED result
    /\ UNCHANGED <<durable, call, enterprise, sends>>

\* Mutant: a key that ended without success may be reserved again.
ReservableUnlessSucceeded(c) ==
    idem[call[c].key] # None =>
        /\ idem[call[c].key].proposal = call[c].proposal
        /\ idem[call[c].key].status # "SUCCEEDED"

\* The key has no record yet; the primary key decides between two inserts.
Reservable(c) == idem[call[c].key] = None

\* _resolve_existing: only a verified success of the same content is replayed.
Replayable(c) ==
    /\ idem[call[c].key] # None
    /\ idem[call[c].key].proposal = call[c].proposal
    /\ idem[call[c].key].status = "SUCCEEDED"

\* PersistentIdempotencyStore.reserve; a key with other content, in progress
\* or settled without success raises.
Reserve(c) ==
    /\ pc[c] = "reserve"
    /\ \/ /\ Reservable(c)
          /\ idem' = [idem EXCEPT ![call[c].key] =
                        [proposal |-> call[c].proposal, status |-> "IN_PROGRESS"]]
          /\ Goto(c, "start")
          /\ UNCHANGED result
       \/ Replayable(c) /\ Yield(c, "REPLAYED") /\ UNCHANGED idem
       \/ ~Reservable(c) /\ ~Replayable(c) /\ Yield(c, "ERROR") /\ UNCHANGED idem
    /\ UNCHANGED <<latest, approval, exec, call, enterprise, sends>>

\* ActionExecutionRepository.start: one attempt per idempotency key.
Start(c) ==
    /\ pc[c] = "start"
    /\ IF exec[call[c].key] = "NONE"
       THEN /\ exec' = [exec EXCEPT ![call[c].key] = "EXECUTING"]
            /\ Goto(c, "send")
            /\ UNCHANGED result
       ELSE Yield(c, "ERROR") /\ UNCHANGED exec
    /\ UNCHANGED <<latest, approval, idem, call, enterprise, sends>>

\* tool.execute: the request leaves for the enterprise system.
Send(c) ==
    /\ pc[c] = "send"
    /\ wire' = wire \cup {[key |-> call[c].key, proposal |-> call[c].proposal,
                           stage |-> "sent"]}
    /\ sends' = [sends EXCEPT ![call[c].key] = @ + 1]
    /\ Goto(c, "await")
    /\ UNCHANGED <<durable, call, result, reply, granted, held, external, eligible>>

Hold(c, r) == /\ pc' = [pc EXCEPT ![c] = "finalize"]
              /\ result' = [result EXCEPT ![c] = r]

\* Mutant: an answer that never came is taken for a refusal.
GiveUpAsFailed(c) == Hold(c, "TOOL_FAILED")

\* Mutant: a write that timed out is sent again.
SendAgain(c) == Goto(c, "send") /\ UNCHANGED result

\* No trustworthy answer: "external exceptions cannot prove no side effect".
GiveUp(c) == Hold(c, "RESULT_UNKNOWN")

\* The tool returns SUCCEEDED; a refusal becomes FAILED where the adapter knows
\* it for one, and an exception like any other where it does not; a timeout may
\* come before the answer does.
Receive(c) ==
    /\ pc[c] = "await"
    /\ \/ reply[call[c].key] = "OK" /\ Goto(c, "verify") /\ UNCHANGED result
       \/ reply[call[c].key] = "REJECTED" /\ Hold(c, "TOOL_FAILED")
       \/ GiveUp(c)
    /\ UNCHANGED <<durable, call, enterprise, sends>>

\* Mutant: the tool's own answer is believed.
ConfirmedUnread(c) == TRUE

\* The verifier's read finds the resource active.
Confirmed(c) == TargetOf[call[c].proposal] \in granted

\* verifier.verify: a read of its own, which may also fail.
Verify(c) ==
    /\ pc[c] = "verify"
    /\ \/ Confirmed(c) /\ Hold(c, "SUCCEEDED")
       \/ Hold(c, "VERIFICATION_FAILED")
    /\ UNCHANGED <<durable, call, enterprise, sends>>

IdempotencyStatusOf(outcome) ==
    CASE outcome = "TOOL_FAILED"    -> "FAILED"
      [] outcome = "RESULT_UNKNOWN" -> "UNKNOWN"
      [] OTHER                      -> outcome

\* Mutant: the execution record is closed before the key is.
FinalizeWithFinish(c) ==
    /\ pc[c] = "finalize"
    /\ exec' = [exec EXCEPT ![call[c].key] = result[c]]
    /\ Goto(c, "finish")
    /\ UNCHANGED <<latest, approval, idem, call, result, enterprise, sends>>

\* PersistentIdempotencyStore.finalize: UPDATE ... WHERE status = IN_PROGRESS.
Finalize(c) ==
    /\ pc[c] = "finalize"
    /\ IF idem[call[c].key] # None /\ idem[call[c].key].status = "IN_PROGRESS"
       THEN /\ idem' = [idem EXCEPT ![call[c].key].status = IdempotencyStatusOf(result[c])]
            /\ Goto(c, "finish")
            /\ UNCHANGED result
       ELSE Yield(c, "ERROR") /\ UNCHANGED idem
    /\ UNCHANGED <<latest, approval, exec, call, enterprise, sends>>

\* ActionExecutionRepository.finish: UPDATE ... WHERE status = EXECUTING, then
\* execute() returns.
Finish(c) ==
    /\ pc[c] = "finish"
    /\ IF exec[call[c].key] = "EXECUTING"
       THEN /\ exec' = [exec EXCEPT ![call[c].key] = result[c]]
            /\ Yield(c, result[c])
       ELSE Yield(c, "ERROR") /\ UNCHANGED exec
    /\ UNCHANGED <<latest, approval, idem, call, enterprise, sends>>

\* A read or transaction on the backend's own database fails: nothing of it is
\* committed, the exception leaves execute(), what earlier steps wrote stays.
StepFails(c) ==
    /\ pc[c] \in {"approvals", "proposals", "reserve", "start", "finalize", "finish"}
    /\ Yield(c, "ERROR")
    /\ UNCHANGED <<durable, call, enterprise, sends>>

Return(c) ==
    /\ pc[c] = "returned"
    /\ pc' = [pc EXCEPT ![c] = "idle"]
    /\ call' = [call EXCEPT ![c] = None]
    /\ result' = [result EXCEPT ![c] = None]
    /\ UNCHANGED <<durable, enterprise, sends>>

\* The backend process dies: every call in it is gone, its requests are not.
Crash ==
    /\ \E c \in Callers : pc[c] # "idle"
    /\ pc' = [c \in Callers |-> "idle"]
    /\ call' = [c \in Callers |-> None]
    /\ result' = [c \in Callers |-> None]
    /\ UNCHANGED <<durable, enterprise, sends>>

-----------------------------------------------------------------------------
(* The enterprise system                                                   *)

Open(m) == [m EXCEPT !.stage = "open"]

\* A transaction that already holds the row of the resource or of the key makes
\* a second one wait.
Locked(m) ==
    \E n \in wire : /\ n.stage = "open"
                    /\ n.key = m.key \/ TargetOf[n.proposal] = TargetOf[m.proposal]

\* grant_application_access: a known key is answered from its record, a refused
\* command is answered and forgotten, an accepted one is flushed and answered;
\* its commit is still to come.
Handle(m) ==
    /\ m \in wire /\ m.stage = "sent" /\ ~Locked(m)
    /\ LET t == TargetOf[m.proposal]
       IN \/ /\ external[m.key] = t
             /\ reply' = [reply EXCEPT ![m.key] = "OK"]
             /\ wire' = wire \ {m}
          \/ /\ external[m.key] # t
             /\ external[m.key] # None \/ t \notin eligible
             /\ reply' = [reply EXCEPT ![m.key] = "REJECTED"]
             /\ wire' = wire \ {m}
          \/ /\ external[m.key] = None /\ t \in eligible
             /\ reply' = [reply EXCEPT ![m.key] = "OK"]
             /\ wire' = (wire \ {m}) \cup {Open(m)}
    /\ UNCHANGED <<durable, threads, granted, held, external, eligible, sends>>

\* The transaction commits: the resource is active and the key is recorded.
Commit(m) ==
    /\ m \in wire /\ m.stage = "open"
    /\ wire' = wire \ {m}
    /\ granted' = granted \cup {TargetOf[m.proposal]}
    /\ held' = held \cup {TargetOf[m.proposal]}
    /\ external' = [external EXCEPT ![m.key] = TargetOf[m.proposal]]
    /\ UNCHANGED <<durable, threads, reply, eligible, sends>>

\* The request is lost on its way, or its transaction does not commit.
Lose(m) ==
    /\ m \in wire
    /\ wire' = wire \ {m}
    /\ UNCHANGED <<durable, threads, reply, granted, held, external, eligible, sends>>

\* The employee or application is deactivated, or the role withdrawn.
Deactivate(t) ==
    /\ t \in eligible
    /\ eligible' = eligible \ {t}
    /\ UNCHANGED <<durable, threads, wire, reply, granted, held, external, sends>>

\* Another workflow of the enterprise withdraws the resource, or it expires.
Revoke(t) ==
    /\ t \in granted
    /\ granted' = granted \ {t}
    /\ UNCHANGED <<durable, threads, wire, reply, held, external, eligible, sends>>

-----------------------------------------------------------------------------
CallerStep(c) ==
    \/ \E p, q \in Proposals, k \in Keys, authorized \in BOOLEAN :
            Execute(c, p, q, k, authorized)
    \/ CheckApproval(c) \/ CheckVersion(c) \/ CheckState(c)
    \/ Reserve(c) \/ Start(c) \/ Send(c) \/ Receive(c) \/ Verify(c)
    \/ Finalize(c) \/ Finish(c) \/ StepFails(c) \/ Return(c)

Next ==
    \/ \E c \in Callers : CallerStep(c)
    \/ \E a \in Actions : Propose(a)
    \/ \E p \in Proposals, d \in {"APPROVED", "REJECTED"} : Decide(p, d)
    \/ \E m \in Requests : Handle(m) \/ Commit(m) \/ Lose(m)
    \/ \E t \in Targets : Deactivate(t) \/ Revoke(t)
    \/ Crash

Spec == Init /\ [][Next]_vars

-----------------------------------------------------------------------------
(* Properties                                                              *)

IsFinal(k) == idem[k] # None /\ idem[k].status # "IN_PROGRESS"

\* Whatever callers race on a key, crash inside execute() or come back after an
\* uncertain outcome, at most one request is ever sent under it: a timeout or a
\* failed verification is never retried into a second write.
AtMostOneSend == \A k \in Keys : sends[k] <= 1

\* A request still on the wire, however late, was approved for exactly the
\* action and version it carries, and belongs to the key's reservation.
OnlyApprovedWrites ==
    \A m \in wire : /\ approval[m.proposal] = "APPROVED"
                    /\ idem[m.key] # None /\ idem[m.key].proposal = m.proposal

\* Success is only recorded, reported or replayed when the enterprise system has
\* really made the resource active that the proposal asked for, though it may
\* have been withdrawn again since.
SuccessIsReal ==
    /\ \A k \in Keys :
        idem[k] # None /\ idem[k].status = "SUCCEEDED"
            => TargetOf[idem[k].proposal] \in held
    /\ \A c \in Callers :
        pc[c] = "returned" /\ result[c] \in {"SUCCEEDED", "REPLAYED", "ALREADY_SATISFIED"}
            => TargetOf[call[c].proposal] \in held

\* A finished execution record agrees with its key: a crash between the two
\* commits can only leave the execution record behind, never ahead.
ExecutionFollowsKey ==
    \A k \in Keys : exec[k] \in Outcomes =>
        idem[k] # None /\ idem[k].status = IdempotencyStatusOf(exec[k])

\* A key's content never changes and its recorded outcome is never replaced.
OutcomesAreFinal ==
    [][\A k \in Keys : idem[k] # None =>
        /\ idem'[k] # None /\ idem'[k].proposal = idem[k].proposal
        /\ IsFinal(k) => idem'[k] = idem[k]]_idem

\* Seen from outside, the gateway keeps the promise of OnceOnlyWrite per key.
Promise == INSTANCE OnceOnlyWrite WITH
    landed <- {k \in Keys : external[k] # None},
    refused <- {k \in Keys : reply[k] = "REJECTED"},
    outcome <- [k \in Keys |-> IF IsFinal(k) THEN idem[k].status ELSE "OPEN"]

ImplementsOnceOnlyWrite == Promise!Spec
================================================================================
