----------------------------- MODULE EvaluationRuns -----------------------------
(***************************************************************************)
(* The queue of evaluation runs and the workers that execute them:         *)
(* backend/app/evaluation/repository.py, worker.py, service.py, usage.py.  *)
(* A worker owns a run by a lease and works in a chain of short             *)
(* transactions; the cases run between them.  MySQL gives a transaction a  *)
(* snapshot at its first SELECT and keeps it to the end (REPEATABLE READ,  *)
(* the default build_engine leaves alone); an UPDATE looks at the latest   *)
(* row, and keeps the row locked until the end of its transaction even if  *)
(* its conditions did not match.                                           *)
(***************************************************************************)
EXTENDS Naturals, FiniteSets, FiniteSetsExt

CONSTANTS Runs,         \* command keys, each names the run its command creates: 1..n, oldest first
          Cases,        \* the cases of the registered suite, in the order of the suite
          Workers,      \* worker processes
          MaxAttempts,  \* EvaluationRun.max_attempts
          Verdicts,     \* what a case that is executed may end with
          MaxCalls,     \* EvaluationUsageLimits.max_calls
          MaxCrashes,   \* bound on the processes that die
          None

ASSUME EvaluationAssumption ==
    /\ Runs \subseteq Nat /\ IsFiniteSet(Runs)
    /\ Cases \subseteq Nat /\ IsFiniteSet(Cases)
    /\ IsFiniteSet(Workers)
    /\ Verdicts \subseteq {"PASSED", "FAILED", "ERROR"}
    /\ MaxAttempts \in Nat \ {0}
    /\ MaxCalls \in Nat \ {0}
    /\ MaxCrashes \in Nat
    /\ None \notin Workers \cup Nat \cup (Runs \X Cases)

VARIABLES
    run,      \* the rows of evaluation_runs
    results,  \* the rows of evaluation_case_results
    lock,     \* the worker whose open transaction has the row of a run locked
    worker,   \* what a worker is doing
    spent,    \* history: the external calls ever made for a run
    crashes

runVars == <<run, results, lock, worker, spent, crashes>>

NoResult == [status |-> "NONE", calls |-> 0]
NoSummary == [passed |-> 0, failed |-> 0, skipped |-> 0]
\* due: lease_expires_at is past.  of: the Bad Case a run retests.
NoRun == [status |-> "NONE", version |-> 0, attempts |-> 0, owner |-> None, due |-> FALSE,
          cases |-> {}, calls |-> 0, summary |-> NoSummary, of |-> None]
NewRun(cases, badCase) ==
    [NoRun EXCEPT !.status = "PENDING", !.version = 1, !.cases = cases, !.of = badCase]
\* view: what the open transaction of the worker has read.  failed: the runs it
\* has marked FAILED and not committed.  guard: EvaluationUsageGuard._calls; made:
\* those of them the case at hand has made.
Idle == [at |-> "idle", run |-> None, view |-> None, failed |-> {}, retryable |-> TRUE,
         case |-> None, guard |-> 0, made |-> 0, result |-> NoResult]

InitRuns ==
    /\ run = [r \in Runs |-> NoRun]
    /\ results = [r \in Runs |-> [c \in Cases |-> NoResult]]
    /\ lock = [r \in Runs |-> None]
    /\ worker = [w \in Workers |-> Idle]
    /\ spent = [r \in Runs |-> 0]
    /\ crashes = 0

-----------------------------------------------------------------------------
\* EvaluationService.create_run: the command key is unique, a repeated command
\* finds the run it made.
CreateRun(r, cases) ==
    /\ run[r].status = "NONE"
    /\ run' = [run EXCEPT ![r] = NewRun(cases, None)]
    /\ UNCHANGED <<results, lock, worker, spent, crashes>>

Unlocked(w, r) == lock[r] \in {None, w}
Become(w, task) == worker' = [worker EXCEPT ![w] = task]
Release(w) == lock' = [r \in Runs |-> IF lock[r] = w THEN None ELSE lock[r]]

\* The first SELECT of claim_next_run takes the snapshot of its transaction.
BeginClaim(w) ==
    /\ worker[w].at = "idle"
    /\ Become(w, [Idle EXCEPT !.at = "claim", !.view = run])
    /\ UNCHANGED <<run, results, lock, spent, crashes>>

\* Mutant: a run whose worker has died is not taken up again.
PendingOnly(w) ==
    {r \in Runs \ worker[w].failed : worker[w].view[r].status = "PENDING"}

\* The rows the SELECT finds: in the snapshot, less what this transaction has changed.
Claimable(w) ==
    {r \in Runs \ worker[w].failed :
        LET row == worker[w].view[r] IN
        row.status = "PENDING" \/ (row.status = "RUNNING" /\ row.due)}
Candidate(w) == Min(Claimable(w))

\* The conditions of the UPDATE, on the latest row.
StillClaimable(w, r) ==
    /\ run[r].version = worker[w].view[r].version
    /\ run[r].status = worker[w].view[r].status
    /\ run[r].status = "RUNNING" => run[r].due

Exhausted(row) == [row EXCEPT !.status = "FAILED", !.owner = None, !.due = FALSE,
                              !.version = @ + 1]
Commit(w) == run' = [r \in Runs |-> IF r \in worker[w].failed THEN Exhausted(run[r]) ELSE run[r]]

\* claim_next_run finds nothing (any more).
NothingToClaim(w) ==
    /\ worker[w].at = "claim"
    /\ Claimable(w) = {}
    /\ Commit(w)
    /\ Become(w, Idle)
    /\ Release(w)
    /\ UNCHANGED <<results, spent, crashes>>

\* A candidate out of attempts is marked FAILED, if it still can be; the loop goes on.
MarkExhausted(w) ==
    /\ worker[w].at = "claim"
    /\ Claimable(w) # {}
    /\ LET r == Candidate(w) IN
       /\ worker[w].view[r].attempts >= MaxAttempts
       /\ Unlocked(w, r)
       /\ lock' = [lock EXCEPT ![r] = w]
       /\ worker' = IF StillClaimable(w, r)
                    THEN [worker EXCEPT ![w].failed = @ \cup {r}]
                    ELSE worker
    /\ UNCHANGED <<run, results, spent, crashes>>

\* run_once with the run it has claimed: begin_run restores the usage the run has
\* recorded, and the suite of this process is the one the run was created with,
\* or the run cannot be continued.
Begin(r) ==
    LET task == [Idle EXCEPT !.run = r, !.guard = run[r].calls] IN
    {[task EXCEPT !.at = IF run[r].calls <= MaxCalls THEN "next" ELSE "release"],
     [task EXCEPT !.at = "release", !.retryable = FALSE]}

\* The conditional UPDATE of the claim.  When it matches nothing the loop selects
\* again, from the same snapshot.
Claim(w) ==
    /\ worker[w].at = "claim"
    /\ Claimable(w) # {}
    /\ LET r == Candidate(w) IN
       /\ worker[w].view[r].attempts < MaxAttempts
       /\ Unlocked(w, r)
       /\ \/ /\ StillClaimable(w, r)
             /\ run' = [q \in Runs |->
                          IF q = r THEN [run[r] EXCEPT !.status = "RUNNING", !.owner = w, !.due = FALSE,
                                                       !.attempts = @ + 1, !.version = @ + 1]
                          ELSE IF q \in worker[w].failed THEN Exhausted(run[q]) ELSE run[q]]
             /\ \E task \in Begin(r) : Become(w, task)
             /\ Release(w)
          \/ /\ ~StillClaimable(w, r)
             /\ lock' = [lock EXCEPT ![r] = w]
             /\ UNCHANGED <<run, worker>>
    /\ UNCHANGED <<results, spent, crashes>>

HoldsLease(row, w) == row.status = "RUNNING" /\ row.owner = w /\ ~row.due
Allowed(guard) == MaxCalls - guard
Missing(r) == {c \in run[r].cases : results[r][c] = NoResult}

\* The next case without a result.  renew_lease is a conditional UPDATE; then the
\* case runs and makes its calls, each reserved before it is made (_reserve_call).
NextCase(w) ==
    /\ worker[w].at = "next"
    /\ LET r == worker[w].run IN
       /\ Missing(r) # {}
       /\ Unlocked(w, r)
       /\ \/ /\ HoldsLease(run[r], w)
             /\ run' = [run EXCEPT ![r].version = @ + 1]
             /\ \E n \in 0..Allowed(worker[w].guard) :
                   /\ Become(w, [worker[w] EXCEPT !.at = "case", !.case = Min(Missing(r)),
                                                  !.guard = @ + n, !.made = n])
                   /\ spent' = [spent EXCEPT ![r] = @ + n]
          \/ /\ ~HoldsLease(run[r], w)
             /\ Become(w, Idle)
             /\ UNCHANGED <<run, spent>>
    /\ UNCHANGED <<results, lock, crashes>>

\* What the executor returns, with the calls of this case: unless a deadline has
\* raised past the outcome that would have carried them.
Outcomes(made) ==
    {[status |-> v, calls |-> made] : v \in Verdicts}
    \cup {[status |-> "ERROR", calls |-> 0]}
    \cup {[status |-> "SKIPPED", calls |-> 0] : n \in {0} \cap {made}}

\* record_case_result, complete and release begin with a plain read of the lease.
ReadLease(w, task, next) ==
    LET r == task.run IN
    /\ Become(w, IF HoldsLease(run[r], w)
                 THEN [task EXCEPT !.at = next, !.view = [row |-> run[r], results |-> results[r]]]
                 ELSE Idle)
    /\ UNCHANGED <<run, results, lock, spent, crashes>>
RecordReads(w) ==
    /\ worker[w].at = "case"
    /\ \E result \in Outcomes(worker[w].made) :
          ReadLease(w, [worker[w] EXCEPT !.result = result], "insert")
CompleteReads(w) ==
    /\ worker[w].at = "next"
    /\ Missing(worker[w].run) = {}
    /\ ReadLease(w, worker[w], "finish")
ReleaseReads(w) ==
    /\ worker[w].at = "release"
    /\ ReadLease(w, worker[w], "unlease")

\* Mutant: no unique key on run and case.
NeverDuplicate(r, c) == FALSE

\* Result and usage are one transaction; the key (run_id, case_id) is unique, and a
\* row the snapshot does not show cannot be returned instead: the error gives the run up.
Duplicate(r, c) == results[r][c] # NoResult
Recorded(r, c, result) ==
    /\ results' = [results EXCEPT ![r][c] = result]
    /\ run' = [run EXCEPT ![r].calls = @ + result.calls]
Record(w) ==
    /\ worker[w].at = "insert"
    /\ LET r == worker[w].run
           c == worker[w].case
           goOn == [worker[w] EXCEPT !.at = "next", !.case = None, !.view = None,
                                     !.result = NoResult, !.made = 0]
       IN \/ /\ worker[w].view.results[c] # NoResult
             /\ Become(w, goOn)
             /\ UNCHANGED <<run, results>>
          \/ /\ worker[w].view.results[c] = NoResult
             /\ Unlocked(w, r)
             /\ ~Duplicate(r, c)
             /\ Recorded(r, c, worker[w].result)
             /\ Become(w, goOn)
          \/ /\ worker[w].view.results[c] = NoResult
             /\ Unlocked(w, r)
             /\ Duplicate(r, c)
             /\ Become(w, [goOn EXCEPT !.at = "release"])
             /\ UNCHANGED <<run, results>>
    /\ UNCHANGED <<lock, spent, crashes>>

With(r, seen, verdicts) == Cardinality({c \in run[r].cases : seen[c].status \in verdicts})

\* Mutant: errors are counted neither as passed nor as failed.
FailuresOnly(r, seen) == [passed |-> With(r, seen, {"PASSED"}),
                          failed |-> With(r, seen, {"FAILED"}),
                          skipped |-> With(r, seen, {"SKIPPED"})]

SummaryOf(r, seen) == [passed |-> With(r, seen, {"PASSED"}),
                       failed |-> With(r, seen, {"FAILED", "ERROR"}),
                       skipped |-> With(r, seen, {"SKIPPED"})]
AllThere(r, seen) == \A c \in run[r].cases : seen[c] # NoResult

\* rebuild_summary_and_complete writes by primary key, from what it has read.
Complete(w) ==
    /\ worker[w].at = "finish"
    /\ LET r == worker[w].run
           seen == worker[w].view
       IN /\ Unlocked(w, r)
          /\ run' = [run EXCEPT ![r] =
                       IF AllThere(r, seen.results)
                       THEN [@ EXCEPT !.summary = SummaryOf(r, seen.results), !.status = "COMPLETED",
                                      !.owner = None, !.due = FALSE, !.version = seen.row.version + 1]
                       ELSE [@ EXCEPT !.summary = SummaryOf(r, seen.results)]]
    /\ Become(w, Idle)
    /\ UNCHANGED <<results, lock, spent, crashes>>

\* release_or_fail_run writes by primary key, from what it has read.
GiveUp(w) ==
    /\ worker[w].at = "unlease"
    /\ LET r == worker[w].run
           seen == worker[w].view.row
           again == worker[w].retryable /\ seen.attempts < MaxAttempts
       IN /\ Unlocked(w, r)
          /\ run' = [run EXCEPT ![r].status = IF again THEN "PENDING" ELSE "FAILED",
                                ![r].owner = None, ![r].due = FALSE,
                                ![r].version = seen.version + 1]
    /\ Become(w, Idle)
    /\ UNCHANGED <<results, lock, spent, crashes>>

-----------------------------------------------------------------------------
\* The row the next statement of a worker has to lock.
Target(w) ==
    CASE worker[w].at = "claim" /\ Claimable(w) # {} -> Candidate(w)
      [] worker[w].at \in {"next", "insert", "finish", "unlease"} -> worker[w].run
      [] OTHER -> None

\* innodb_lock_wait_timeout: run_once tries to give the run up; a lock it cannot get
\* in the claim or in the release ends the process.
LockTimeout(w) ==
    /\ Target(w) \in Runs
    /\ ~Unlocked(w, Target(w))
    /\ IF worker[w].at \in {"claim", "unlease"}
       THEN Become(w, Idle) /\ Release(w)
       ELSE Become(w, [worker[w] EXCEPT !.at = "release"]) /\ UNCHANGED lock
    /\ UNCHANGED <<run, results, spent, crashes>>

\* The process dies, its transaction is rolled back, and another is started.
Crash(w) ==
    /\ worker[w].at # "idle"
    /\ crashes < MaxCrashes
    /\ crashes' = crashes + 1
    /\ Become(w, Idle)
    /\ Release(w)
    /\ UNCHANGED <<run, results, spent>>

Expire(r) ==
    /\ run[r].status = "RUNNING" /\ ~run[r].due
    /\ run' = [run EXCEPT ![r].due = TRUE]
    /\ UNCHANGED <<results, lock, worker, spent, crashes>>

Work(w) ==
    \/ BeginClaim(w) \/ NothingToClaim(w) \/ MarkExhausted(w) \/ Claim(w)
    \/ NextCase(w) \/ RecordReads(w) \/ Record(w) \/ CompleteReads(w) \/ Complete(w)
    \/ ReleaseReads(w) \/ GiveUp(w) \/ LockTimeout(w)

NextRuns ==
    \/ \E r \in Runs : CreateRun(r, Cases) \/ Expire(r)
    \/ \E w \in Workers : Work(w) \/ Crash(w)
================================================================================
