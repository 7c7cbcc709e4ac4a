-------------------------- MODULE EvaluationGovernance --------------------------
(***************************************************************************)
(* What operators do with evaluation runs: backend/app/evaluation/         *)
(* governance.py and comparison.py.  A completed run becomes the baseline; *)
(* failed evidence is archived as a Bad Case, repaired, retested by a run  *)
(* of its own, and verified.  Three of the commands read a row, check it   *)
(* and write it by primary key; the others are conditional UPDATEs.        *)
(***************************************************************************)
EXTENDS EvaluationRuns

CONSTANTS Handlers,     \* request handlers of the API
          MaxBadCase    \* bound on EvaluationBadCase.version

ASSUME GovernanceAssumption == MaxBadCase \in Nat

VARIABLES
    baseline,  \* the rows of evaluation_baselines: by run, is_current
    bad,       \* the rows of evaluation_bad_cases: by run and case of the evidence
    command    \* what a handler is doing

govVars == <<baseline, bad, command>>
vars == <<runVars, govVars>>

NoBadCase == [status |-> "NONE", version |-> 0, retest |-> None, retestStatus |-> "NONE"]
NoCommand == [at |-> "idle", run |-> None, case |-> None, view |-> None]
BadCases == Runs \X Cases

Init ==
    /\ InitRuns
    /\ baseline = [r \in Runs |-> "NONE"]
    /\ bad = [b \in BadCases |-> NoBadCase]
    /\ command = [h \in Handlers |-> NoCommand]

Current(rows) == {r \in Runs : rows[r] = "CURRENT"}
Do(h, c) == command' = [command EXCEPT ![h] = c]

\* The ORM writes the columns that differ from what it has loaded.
Written(new, loaded, latest) == IF new = loaded THEN latest ELSE new

-----------------------------------------------------------------------------
\* set_current_baseline: one transaction; the reads are its snapshot.
ReadBaseline(h, r) ==
    /\ command[h].at = "idle"
    /\ run[r].status = "COMPLETED"
    /\ Current(baseline) # {r}
    /\ Do(h, [NoCommand EXCEPT !.at = "baseline", !.run = r, !.view = Current(baseline)])
    /\ UNCHANGED <<runVars, baseline, bad>>

\* The row that was current is cleared, the row of the run is inserted or set; the
\* unique active_key refuses a second current row and the transaction is undone.
Switched(r, seen) == [q \in Runs |-> IF q = r THEN "CURRENT"
                                     ELSE IF q \in seen THEN "PAST" ELSE baseline[q]]
\* Mutant: no unique key on the current baseline.
NoKey(rows) == TRUE

UniqueKey(rows) == Cardinality(Current(rows)) <= 1
WriteBaseline(h) ==
    /\ command[h].at = "baseline"
    /\ LET rows == Switched(command[h].run, command[h].view) IN
       baseline' = IF UniqueKey(rows) THEN rows ELSE baseline
    /\ Do(h, NoCommand)
    /\ UNCHANGED <<runVars, bad>>

\* archive_bad_case: the evidence is unique, a second command returns the first's row.
Archive(b) ==
    /\ results[b[1]][b[2]].status \in {"FAILED", "ERROR"}
    /\ bad[b].status = "NONE"
    /\ bad' = [bad EXCEPT ![b] = [NoBadCase EXCEPT !.status = "OPEN", !.version = 1]]
    /\ UNCHANGED <<runVars, baseline, command>>

\* _transition: a conditional UPDATE on status and version.
Transition(b, from, to) ==
    /\ bad[b].status = from
    /\ bad[b].version < MaxBadCase
    /\ bad' = [bad EXCEPT ![b].status = to, ![b].version = @ + 1]
    /\ UNCHANGED <<runVars, baseline, command>>
StartWork(b) == Transition(b, "OPEN", "IN_PROGRESS")
MarkReady(b) == Transition(b, "IN_PROGRESS", "READY_FOR_RETEST")
Close(b) == Transition(b, "VERIFIED", "CLOSED")

\* create_retest checks state and version on a plain read ...
ReadForRetest(h, b, r) ==
    /\ command[h].at = "idle"
    /\ bad[b].status = "READY_FOR_RETEST"
    /\ bad[b].version < MaxBadCase
    /\ run[r].status = "NONE"
    /\ Do(h, [at |-> "retest", run |-> r, case |-> b, view |-> bad[b]])
    /\ UNCHANGED <<runVars, baseline, bad>>

\* ... inserts the run, refused if the key has been used since, and writes the row
\* by primary key.
CreateRetest(h) ==
    /\ command[h].at = "retest"
    /\ LET b == command[h].case
           r == command[h].run
       IN IF run[r].status = "NONE"
          THEN /\ run' = [run EXCEPT ![r] = NewRun({b[2]}, b)]
               /\ bad' = [bad EXCEPT ![b].retest = r, ![b].retestStatus =
                                         Written("PENDING", command[h].view.retestStatus, @),
                                     ![b].version = command[h].view.version + 1]
          ELSE UNCHANGED <<run, bad>>
    /\ Do(h, NoCommand)
    /\ UNCHANGED <<results, lock, worker, spent, crashes, baseline>>

\* verify_retest judges the newest retest it reads ...
ReadForVerify(h, b) ==
    /\ command[h].at = "idle"
    /\ bad[b].status = "READY_FOR_RETEST"
    /\ bad[b].version < MaxBadCase
    /\ bad[b].retest # None
    /\ run[bad[b].retest].status = "COMPLETED"
    /\ Do(h, [at |-> "verify", run |-> bad[b].retest, case |-> b, view |-> bad[b]])
    /\ UNCHANGED <<runVars, baseline, bad>>

\* Mutant: whatever has not failed has passed.
NotFailed(result) == result.status \notin {"FAILED", "ERROR"}

\* ... and writes the row by primary key.
Passed(result) == result.status = "PASSED"
Judge(h) ==
    /\ command[h].at = "verify"
    /\ LET b == command[h].case
           result == results[command[h].view.retest][b[2]]
       IN bad' = [bad EXCEPT ![b].status = IF Passed(result) THEN "VERIFIED" ELSE "IN_PROGRESS",
                             ![b].retestStatus = Written(result.status, command[h].view.retestStatus, @),
                             ![b].version = command[h].view.version + 1]
    /\ Do(h, NoCommand)
    /\ UNCHANGED <<runVars, baseline>>

-----------------------------------------------------------------------------
Govern ==
    \/ \E h \in Handlers : WriteBaseline(h) \/ CreateRetest(h) \/ Judge(h)
    \/ \E h \in Handlers, r \in Runs : ReadBaseline(h, r)
    \/ \E h \in Handlers, b \in BadCases, r \in Runs : ReadForRetest(h, b, r)
    \/ \E h \in Handlers, b \in BadCases : ReadForVerify(h, b)
    \/ \E b \in BadCases : Archive(b) \/ StartWork(b) \/ MarkReady(b) \/ Close(b)

Next == Govern \/ (NextRuns /\ UNCHANGED govVars)

Fairness == /\ \A w \in Workers : WF_vars(Work(w) /\ UNCHANGED govVars)
            /\ WF_vars((\E r \in Runs : Expire(r)) /\ UNCHANGED govVars)
Spec == Init /\ [][Next]_vars
FairSpec == Spec /\ Fairness

-----------------------------------------------------------------------------
\* What a run says it has used is the sum over its results, each counted once; it
\* never exceeds what was spent, and every attempt spends at most max_calls: a
\* worker that is taken over can only lose usage (record_case_result, begin_run).
UsageIsAccounted ==
    \A r \in Runs :
        /\ run[r].calls = SumFunction([c \in Cases |-> results[r][c].calls])
        /\ run[r].calls <= spent[r]
        /\ spent[r] <= MaxCalls * run[r].attempts

\* A completed run has one result for each of its cases and its summary counts each
\* of them once, whoever of several workers wrote it (rebuild_summary_and_complete).
CompletedIsWhole ==
    \A r \in Runs : run[r].status = "COMPLETED" =>
        LET s == run[r].summary IN
        /\ Missing(r) = {}
        /\ s.passed + s.failed + s.skipped = Cardinality(run[r].cases)

\* A Bad Case is verified or closed only if a run that retested it has passed its
\* case: a skipped case is no evidence (verify_retest).
VerifiedOnPass ==
    \A b \in BadCases : bad[b].status \in {"VERIFIED", "CLOSED"} =>
        \E r \in Runs : run[r].of = b /\ results[r][b[2]].status = "PASSED"

\* Once there is a current baseline there is always exactly one, however many
\* operators switch it at once (set_current_baseline).
OneBaseline == [][Current(baseline) # {} => Cardinality(Current(baseline')) = 1]_vars

\* Every run ends for good, however often its workers die, unless a worker never
\* leaves claim_next_run (see ClaimReturns): a lease that is not renewed expires,
\* the run is taken up again, and its attempts are bounded.
Ended(r) == run[r].status \in {"COMPLETED", "FAILED"}
EveryRunEnds ==
    (\A w \in Workers : []<>(worker[w].at # "claim")) =>
        <>[](\A r \in Runs : run[r].status = "NONE" \/ Ended(r))

\* run_once processes one run and returns, or returns because there is none: it
\* never stays in claim_next_run.
ClaimReturns == \A w \in Workers : (worker[w].at = "claim") ~> (worker[w].at # "claim")
================================================================================
