----------------------- MODULE EvaluationGovernanceProofs -----------------------
(***************************************************************************)
(* For any number of runs, cases, workers, attempts, calls and handlers:   *)
(* what evaluation runs have used, what completed runs say of their cases, *)
(* and what Bad Cases and baselines rest on.                               *)
(***************************************************************************)
EXTENDS EvaluationGovernance, FiniteSetTheorems, WellFoundedInduction, TLAPS

-----------------------------------------------------------------------------
(* Sums.  SumFunction is a recursive function over the subsets of its       *)
(* domain; an induction over them is an argument about a smallest one.      *)

\* A set of naturals that is not empty has a smallest element.
LEMMA SmallestIn ==
    ASSUME NEW N \in SUBSET Nat, N # {}
    PROVE  \E n \in N : \A m \in N : n <= m
  <1>1. PICK n \in N : \A m \in N : ~ (<<m, n>> \in OpToRel(<, Nat))
    BY NatLessThanWellFounded, WFMin, Zenon
  <1>2. ASSUME NEW m \in N, m < n PROVE <<m, n>> \in OpToRel(<, Nat)
    <2>1. <<m, n>> \in Nat \X Nat
      OBVIOUS
    <2> QED BY <2>1, <1>2 DEF OpToRel
  <1>3. \A m \in N : ~ (m < n)
    BY <1>1, <1>2, Zenon
  <1> QED BY <1>3

\* If some subset of a finite set is bad, there is a bad one that is good
\* without any of its elements.
LEMMA SmallestBad ==
    ASSUME NEW S, IsFiniteSet(S), NEW Bad \in SUBSET SUBSET S, Bad # {}
    PROVE  \E T \in Bad : \A x \in T : T \ {x} \notin Bad
  <1> DEFINE N == {Cardinality(T) : T \in Bad}
  <1>1. \A T \in SUBSET S : IsFiniteSet(T) /\ Cardinality(T) \in Nat
    BY FS_Subset, FS_CardinalityType
  <1>2. PICK n \in N : \A m \in N : n <= m
    <2>1. N \in SUBSET Nat /\ N # {}
      BY <1>1
    <2> QED BY <2>1, SmallestIn
  <1>3. PICK T \in Bad : n = Cardinality(T)
    BY <1>2
  <1>4. ASSUME NEW x \in T, T \ {x} \in Bad PROVE FALSE
    <2>1. Cardinality(T \ {x}) = Cardinality(T) - 1 /\ Cardinality(T) \in Nat
      BY <1>1, FS_RemoveElement
    <2>2. Cardinality(T \ {x}) \in N
      BY <1>4
    <2>3. n <= Cardinality(T \ {x})
      BY <2>2, <1>2
    <2> HIDE DEF N
    <2> QED BY <2>1, <2>3, <1>3
  <1> QED BY <1>4

\* The equation of the recursion, for the sets in D.
Pick(s) == CHOOSE x \in s : TRUE
Unfold(f, g, s) == IF s = {} THEN 0 ELSE f[Pick(s)] + g[s \ {Pick(s)}]
IsFold(f, D, g) == g = [s \in D |-> Unfold(f, g, s)]

\* It has a solution: one for the sets of up to n elements gives one for n + 1.
LEMMA FoldExists ==
    ASSUME NEW f, NEW S, IsFiniteSet(S)
    PROVE  \E g : IsFold(f, SUBSET S, g)
  <1> DEFINE Small(n) == {s \in SUBSET S : Cardinality(s) <= n}
             N == {n \in Nat : ~ \E g : IsFold(f, Small(n), g)}
  <1>1. \A T \in SUBSET S : IsFiniteSet(T) /\ Cardinality(T) \in Nat
    BY FS_Subset, FS_CardinalityType
  <1>2. SUFFICES ASSUME N # {} PROVE FALSE
    <2>1. Small(Cardinality(S)) = SUBSET S
      BY FS_Subset
    <2>2. Cardinality(S) \in Nat
      BY <1>1
    <2> QED BY <1>2, <2>1, <2>2
  <1>3. PICK n \in N : \A m \in N : n <= m
    BY <1>2, SmallestIn
  <1>4. CASE n = 0
    <2> DEFINE g == [s \in Small(0) |-> 0]
    <2>1. \A s \in Small(0) : s = {}
      BY <1>1, FS_EmptySet
    <2>2. g = [s \in Small(0) |-> Unfold(f, g, s)]
      BY <2>1 DEF Unfold
    <2> QED BY <2>2, <1>3, <1>4 DEF IsFold
  <1>5. CASE n # 0
    <2>1. n \in Nat /\ n - 1 \in Nat
      BY <1>5
    <2>2. n - 1 \notin N
      <3> SUFFICES ASSUME n - 1 \in N PROVE FALSE
        OBVIOUS
      <3>1. n <= n - 1
        BY <1>3
      <3> QED BY <2>1, <3>1
    <2>3. PICK g : IsFold(f, Small(n - 1), g)
      BY <2>1, <2>2
    <2> DEFINE h == [s \in Small(n) |-> Unfold(f, g, s)]
    <2>4. ASSUME NEW s \in Small(n), s # {}
          PROVE  s \ {Pick(s)} \in Small(n - 1) /\ s \ {Pick(s)} \in Small(n)
      <3>1. Pick(s) \in s
        BY <2>4 DEF Pick
      <3>2. Cardinality(s \ {Pick(s)}) = Cardinality(s) - 1
        BY <3>1, <1>1, FS_RemoveElement
      <3> QED BY <3>1, <3>2, <1>1
    <2>5. \A s \in Small(n - 1) : g[s] = Unfold(f, g, s)
      BY <2>3 DEF IsFold
    <2>6. \A s \in Small(n) : Unfold(f, g, s) = Unfold(f, h, s)
      BY <2>4, <2>5 DEF Unfold
    <2>7. IsFold(f, Small(n), h)
      BY <2>6 DEF IsFold
    <2> QED BY <2>7, <1>3
  <1> QED BY <1>4, <1>5

LEMMA SumIsFold ==
    ASSUME NEW f, NEW S, IsFiniteSet(S)
    PROVE  \E g : IsFold(f, SUBSET S, g) /\ SumFunctionOnSet(f, S) = g[S]
  <1>1. PICK g : IsFold(f, SUBSET S, g)
    BY FoldExists
  <1> QED BY <1>1 DEF SumFunctionOnSet, FoldFunctionOnSet, MapThenFoldSet, IsFold, Unfold, Pick

\* The order in which the elements are taken makes no difference.
LEMMA FoldAdds ==
    ASSUME NEW S, IsFiniteSet(S), NEW f, \A x \in S : f[x] \in Nat,
           NEW g, IsFold(f, SUBSET S, g)
    PROVE  g[S] \in Nat /\ \A x \in S : g[S] = f[x] + g[S \ {x}]
  <1>1. \A T \in SUBSET S : g[T] = Unfold(f, g, T)
    BY DEF IsFold
  <1>2. \A T \in SUBSET S : g[T] \in Nat
    <2> DEFINE Bad == {T \in SUBSET S : g[T] \notin Nat}
    <2> SUFFICES ASSUME Bad # {} PROVE FALSE
      OBVIOUS
    <2>1. PICK T \in Bad : \A x \in T : T \ {x} \notin Bad
      BY SmallestBad
    <2>2. T # {}
      <3>1. g[{}] = 0
        BY <1>1 DEF Unfold
      <3> QED BY <3>1
    <2>3. Pick(T) \in T
      BY <2>2 DEF Pick
    <2>4. g[T \ {Pick(T)}] \in Nat
      BY <2>1, <2>3
    <2> QED BY <1>1, <2>2, <2>3, <2>4 DEF Unfold
  <1>3. \A T \in SUBSET S : \A x \in T : g[T] = f[x] + g[T \ {x}]
    <2> DEFINE Bad == {T \in SUBSET S : \E x \in T : g[T] # f[x] + g[T \ {x}]}
    <2> SUFFICES ASSUME Bad # {} PROVE FALSE
      OBVIOUS
    <2>1. PICK T \in Bad : \A x \in T : T \ {x} \notin Bad
      BY SmallestBad
    <2>2. PICK x \in T : g[T] # f[x] + g[T \ {x}]
      BY <2>1
    <2> DEFINE y == Pick(T)
    <2>3. y \in T
      BY <2>2 DEF Pick
    <2>4. g[T] = f[y] + g[T \ {y}]
      BY <1>1, <2>3 DEF Unfold
    <2>5. x # y
      BY <2>2, <2>4
    <2>6. T \ {y} \notin Bad /\ T \ {x} \notin Bad
      BY <2>1, <2>3
    <2>7. (T \ {x}) \ {y} = (T \ {y}) \ {x}
      OBVIOUS
    <2>8. g[T \ {y}] = f[x] + g[(T \ {y}) \ {x}]
      BY <2>5, <2>6
    <2>9. g[T \ {x}] = f[y] + g[(T \ {y}) \ {x}]
      BY <2>3, <2>5, <2>6, <2>7
    <2>10. g[(T \ {y}) \ {x}] \in Nat /\ f[x] \in Nat /\ f[y] \in Nat
      BY <1>2, <2>3
    <2> HIDE DEF y, Bad
    <2> QED BY <2>2, <2>4, <2>8, <2>9, <2>10
  <1> QED BY <1>2, <1>3

\* The sum of naturals is a natural.
LEMMA SumIsNat ==
    ASSUME NEW S, IsFiniteSet(S), NEW f, \A x \in S : f[x] \in Nat
    PROVE  SumFunctionOnSet(f, S) \in Nat
  <1>1. PICK g : IsFold(f, SUBSET S, g) /\ SumFunctionOnSet(f, S) = g[S]
    BY SumIsFold
  <1>2. g[S] \in Nat
    BY <1>1, FoldAdds
  <1> QED BY <1>1, <1>2

\* The sum of no numbers, or of zeros.
LEMMA SumOfZeros ==
    ASSUME NEW S, IsFiniteSet(S), NEW f, \A x \in S : f[x] = 0
    PROVE  SumFunctionOnSet(f, S) = 0
  <1>1. PICK g : IsFold(f, SUBSET S, g) /\ SumFunctionOnSet(f, S) = g[S]
    BY SumIsFold
  <1>2. \A T \in SUBSET S : g[T] = Unfold(f, g, T)
    BY <1>1 DEF IsFold
  <1> DEFINE Bad == {T \in SUBSET S : g[T] # 0}
  <1> SUFFICES ASSUME Bad # {} PROVE FALSE
    BY <1>1
  <1>3. PICK T \in Bad : \A x \in T : T \ {x} \notin Bad
    BY SmallestBad
  <1>4. T # {}
    BY <1>2 DEF Unfold
  <1>5. Pick(T) \in T
    BY <1>4 DEF Pick
  <1>6. g[T \ {Pick(T)}] = 0 /\ f[Pick(T)] = 0
    BY <1>3, <1>5
  <1>7. g[T] = f[Pick(T)] + g[T \ {Pick(T)}]
    BY <1>2, <1>4 DEF Unfold
  <1> QED BY <1>6, <1>7

\* One more element adds its number.
LEMMA SumAdds ==
    ASSUME NEW S, IsFiniteSet(S), NEW f, \A x \in S : f[x] \in Nat, NEW x \in S,
           NEW h, \A y \in S \ {x} : f[y] = h[y]
    PROVE  SumFunctionOnSet(f, S) = f[x] + SumFunctionOnSet(h, S \ {x})
  <1>1. PICK R : R = S \ {x}
    OBVIOUS
  <1>2. IsFiniteSet(R) /\ R \in SUBSET S
    BY <1>1, FS_RemoveElement
  <1>3. PICK g : IsFold(f, SUBSET S, g) /\ SumFunctionOnSet(f, S) = g[S]
    BY SumIsFold
  <1>4. PICK k : IsFold(h, SUBSET R, k) /\ SumFunctionOnSet(h, R) = k[R]
    BY <1>2, SumIsFold
  <1>5. g[R] = k[R]
    <2> DEFINE Bad == {T \in SUBSET R : g[T] # k[T]}
    <2> SUFFICES ASSUME Bad # {} PROVE FALSE
      OBVIOUS
    <2>1. PICK T \in Bad : \A y \in T : T \ {y} \notin Bad
      BY <1>2, SmallestBad
    <2>2. g[T] = Unfold(f, g, T) /\ k[T] = Unfold(h, k, T)
      BY <1>2, <1>3, <1>4 DEF IsFold
    <2>3. T # {}
      BY <2>1, <2>2 DEF Unfold
    <2>4. Pick(T) \in T
      BY <2>3 DEF Pick
    <2>5. g[T \ {Pick(T)}] = k[T \ {Pick(T)}]
      BY <2>1, <2>4
    <2>6. f[Pick(T)] = h[Pick(T)]
      BY <1>1, <2>4
    <2> QED BY <2>1, <2>2, <2>3, <2>5, <2>6 DEF Unfold
  <1>6. g[S] = f[x] + g[S \ {x}]
    BY <1>3, FoldAdds
  <1> QED BY <1>1, <1>3, <1>4, <1>5, <1>6

\* A sum changes by as much as the one number that changes.
LEMMA SumChanges ==
    ASSUME NEW S, IsFiniteSet(S), NEW f \in [S -> Nat], NEW g \in [S -> Nat], NEW x \in S,
           \A y \in S \ {x} : f[y] = g[y]
    PROVE  SumFunction(g) + f[x] = SumFunction(f) + g[x]
  <1>1. \A y \in S : f[y] \in Nat /\ g[y] \in Nat
    OBVIOUS
  <1>2. SumFunctionOnSet(f, S) = f[x] + SumFunctionOnSet(f, S \ {x})
    BY <1>1, SumAdds
  <1>3. SumFunctionOnSet(g, S) = g[x] + SumFunctionOnSet(f, S \ {x})
    BY <1>1, SumAdds
  <1>4. SumFunctionOnSet(f, S \ {x}) \in Nat
    BY <1>1, FS_RemoveElement, SumIsNat
  <1> QED BY <1>1, <1>2, <1>3, <1>4 DEF SumFunction

-----------------------------------------------------------------------------
(* Types                                                                   *)

Results == [status : {"NONE", "PASSED", "FAILED", "ERROR", "SKIPPED"}, calls : Nat]
Summaries == [passed : Nat, failed : Nat, skipped : Nat]
RunRows == [status : {"NONE", "PENDING", "RUNNING", "COMPLETED", "FAILED"}, version : Nat,
            attempts : Nat, owner : Workers \cup {None}, due : BOOLEAN, cases : SUBSET Cases,
            calls : Nat, summary : Summaries, of : BadCases \cup {None}]
\* What a transaction has read: all runs to claim one, or its run with the results.
Readings == [row : RunRows, results : [Cases -> Results]]
Tasks == [at : {"idle", "claim", "next", "case", "insert", "finish", "release", "unlease"},
          run : Runs \cup {None}, view : {None} \cup [Runs -> RunRows] \cup Readings,
          failed : SUBSET Runs, retryable : BOOLEAN, case : Cases \cup {None}, guard : Nat,
          made : Nat, result : Results]
BadRows == [status : {"NONE", "OPEN", "IN_PROGRESS", "READY_FOR_RETEST", "VERIFIED", "CLOSED"},
            version : Nat, retest : Runs \cup {None},
            retestStatus : {"NONE", "PENDING", "PASSED", "FAILED", "ERROR", "SKIPPED"}]
Commands ==
    {NoCommand}
    \cup [at : {"baseline"}, run : Runs, case : {None}, view : SUBSET Runs]
    \cup [at : {"retest", "verify"}, run : Runs, case : BadCases, view : BadRows]

TypeOK ==
    /\ run \in [Runs -> RunRows]
    /\ results \in [Runs -> [Cases -> Results]]
    /\ lock \in [Runs -> Workers \cup {None}]
    /\ worker \in [Workers -> Tasks]
    /\ spent \in [Runs -> Nat]
    /\ crashes \in Nat
    /\ baseline \in [Runs -> {"NONE", "CURRENT", "PAST"}]
    /\ bad \in [BadCases -> BadRows]
    /\ command \in [Handlers -> Commands]

-----------------------------------------------------------------------------
(* The inductive invariant, by what its parts are about                    *)

Begun == {"next", "case", "insert", "finish", "release", "unlease"}

\* A run no command has created is untouched.
UncreatedIsEmpty ==
    \A r \in Runs : run[r].status = "NONE" =>
        run[r] = NoRun /\ results[r] = [c \in Cases |-> NoResult] /\ spent[r] = 0

\* What a worker is about to write to is a run that was created, and what it has
\* read is of the kind its step needs.
IsReal(t, rows) ==
    /\ t.at \in Begun => t.run \in Runs /\ rows[t.run].status # "NONE"
    /\ t.at \in {"case", "insert"} => t.case \in Cases
    /\ t.at \in {"insert", "finish", "unlease"} => t.view \in Readings
    /\ \A q \in t.failed : rows[q].status # "NONE"
TasksAreReal == \A w \in Workers : IsReal(worker[w], run)

\* The calls the workers have made for a run and not yet recorded.
Unrecorded(r, tasks) ==
    SumFunction([w \in Workers |-> IF tasks[w].run = r THEN tasks[w].made ELSE 0])
Used(recorded) == SumFunction([c \in Cases |-> recorded[c].calls])

\* What is recorded, and what may be, was spent; and only in attempts.
Accounted ==
    \A r \in Runs :
        /\ run[r].calls = Used(results[r])
        /\ run[r].calls + Unrecorded(r, worker) <= spent[r]
        /\ spent[r] <= MaxCalls * run[r].attempts

\* The guard of a worker bounds what it makes; as long as its attempt is the last
\* one, what its guard still allows is what its attempt may still spend.
IsGuarded(w, t, row, used) ==
    /\ t.at \in {"next", "case", "insert", "finish"} => t.guard <= MaxCalls
    /\ t.at = "insert" => t.result.calls <= t.made /\ t.result.status # "NONE"
    /\ t.at \in Begun /\ row.status = "RUNNING" /\ row.owner = w =>
           used + MaxCalls <= MaxCalls * row.attempts + t.guard
Guarded == \A w \in Workers : IsGuarded(w, worker[w], run[worker[w].run], spent[worker[w].run])

\* A result that is there says how its case ended.
ResultsAreJudged ==
    \A r \in Runs, c \in Cases : results[r][c].status = "NONE" => results[r][c] = NoResult

\* A worker that is to complete a run has read a result of each of its cases,
\* and each is still there.
IsFounded(t, cases, recorded) ==
    t.at = "finish" =>
        \A c \in cases : t.view.results[c] # NoResult /\ recorded[c] = t.view.results[c]
CompletionIsFounded ==
    \A w \in Workers :
        LET r == worker[w].run IN IsFounded(worker[w], run[r].cases, results[r])

\* A Bad Case and whoever is to judge it name runs that retest it.
RetestsAreOfCase ==
    /\ \A b \in BadCases : bad[b].retest # None => run[bad[b].retest].of = b
    /\ \A h \in Handlers : command[h].at = "verify" =>
           /\ command[h].view.retest # None
           /\ run[command[h].view.retest].of = command[h].case

Inv ==
    /\ TypeOK
    /\ UncreatedIsEmpty
    /\ TasksAreReal
    /\ Accounted
    /\ Guarded
    /\ ResultsAreJudged
    /\ CompletionIsFounded
    /\ CompletedIsWhole
    /\ RetestsAreOfCase
    /\ VerifiedOnPass
    /\ UniqueKey(baseline)

-----------------------------------------------------------------------------
(* Types are kept                                                          *)

LEMMA MinIsIn ==
    ASSUME NEW S \in SUBSET Nat, S # {}
    PROVE  Min(S) \in S
  BY SmallestIn DEF Min

LEMMA RecordsAreTyped ==
    /\ NoResult \in Results /\ NoSummary \in Summaries /\ NoRun \in RunRows /\ Idle \in Tasks
    /\ NoBadCase \in BadRows
    /\ \A cs \in SUBSET Cases, b \in BadCases \cup {None} : NewRun(cs, b) \in RunRows
  <1>1. NoResult \in Results /\ NoSummary \in Summaries
    BY DEF NoResult, Results, NoSummary, Summaries
  <1>2. NoRun \in RunRows
    BY <1>1 DEF NoRun, RunRows
  <1>3. Idle \in Tasks
    BY <1>1 DEF Idle, Tasks
  <1>4. NoBadCase \in BadRows
    BY DEF NoBadCase, BadRows
  <1>5. \A cs \in SUBSET Cases, b \in BadCases \cup {None} : NewRun(cs, b) \in RunRows
    BY <1>1 DEF NewRun, NoRun, RunRows
  <1> QED BY <1>1, <1>2, <1>3, <1>4, <1>5

LEMMA InitTypes == Init => TypeOK
  BY RecordsAreTyped DEF Init, InitRuns, TypeOK, Commands, BadCases

\* The run a claim selects is one of those it can select.
LEMMA CandidateIsClaimable ==
    ASSUME NEW w \in Workers, Claimable(w) # {}
    PROVE  Candidate(w) \in Claimable(w) /\ Candidate(w) \in Runs
  <1>1. Claimable(w) \in SUBSET Nat /\ Claimable(w) \subseteq Runs
    BY EvaluationAssumption DEF Claimable
  <1> QED BY <1>1, MinIsIn DEF Candidate

LEMMA MissingIsCase ==
    ASSUME TypeOK, NEW r \in Runs, Missing(r) # {}
    PROVE  Min(Missing(r)) \in Cases
  <1>1. Missing(r) \in SUBSET Cases
    BY DEF Missing, TypeOK, RunRows
  <1> QED BY <1>1, MinIsIn, EvaluationAssumption

LEMMA SummaryIsTyped ==
    ASSUME TypeOK, NEW r \in Runs, NEW seen
    PROVE  SummaryOf(r, seen) \in Summaries
  <1>1. \A verdicts : With(r, seen, verdicts) \in Nat
    <2> TAKE verdicts
    <2> DEFINE S == {c \in run[r].cases : seen[c].status \in verdicts}
    <2>1. S \in SUBSET Cases
      BY DEF TypeOK, RunRows
    <2>2. IsFiniteSet(S)
      BY <2>1, EvaluationAssumption, FS_Subset
    <2> QED BY <2>2, FS_CardinalityType DEF With
  <1> QED BY <1>1 DEF SummaryOf, Summaries

LEMMA ReleaseTypes ==
    ASSUME TypeOK, NEW w \in Workers, Release(w)
    PROVE  lock' \in [Runs -> Workers \cup {None}]
  BY DEF TypeOK, Release

LEMMA BecomeTypes ==
    ASSUME TypeOK, NEW w \in Workers, NEW t \in Tasks, Become(w, t)
    PROVE  worker' \in [Workers -> Tasks]
  BY DEF TypeOK, Become

\* The rows of runs as the steps write them.
LEMMA RowsAreTyped ==
    ASSUME NEW row \in RunRows
    PROVE  /\ Exhausted(row) \in RunRows
           /\ \A w \in Workers :
                 [row EXCEPT !.status = "RUNNING", !.owner = w, !.due = FALSE,
                             !.attempts = @ + 1, !.version = @ + 1] \in RunRows
           /\ [row EXCEPT !.version = @ + 1] \in RunRows
           /\ [row EXCEPT !.due = TRUE] \in RunRows
           /\ \A n \in Nat : [row EXCEPT !.calls = @ + n] \in RunRows
           /\ \A s \in Summaries : [row EXCEPT !.summary = s] \in RunRows
           /\ \A s \in Summaries, n \in Nat :
                 [row EXCEPT !.summary = s, !.status = "COMPLETED", !.owner = None,
                             !.due = FALSE, !.version = n + 1] \in RunRows
           /\ \A s \in {"PENDING", "FAILED"}, n \in Nat :
                 [row EXCEPT !.status = s, !.owner = None, !.due = FALSE,
                             !.version = n + 1] \in RunRows
  <1>0. /\ row = [status |-> row.status, version |-> row.version, attempts |-> row.attempts,
                  owner |-> row.owner, due |-> row.due, cases |-> row.cases, calls |-> row.calls,
                  summary |-> row.summary, of |-> row.of]
        /\ row.version \in Nat /\ row.version + 1 \in Nat
        /\ row.attempts \in Nat /\ row.attempts + 1 \in Nat
        /\ row.calls \in Nat
    BY DEF RunRows
  <1>1. Exhausted(row) \in RunRows
    BY <1>0 DEF RunRows, Exhausted
  <1>2. ASSUME NEW w \in Workers
        PROVE  [row EXCEPT !.status = "RUNNING", !.owner = w, !.due = FALSE,
                           !.attempts = @ + 1, !.version = @ + 1] \in RunRows
    BY <1>0 DEF RunRows
  <1>3. [row EXCEPT !.version = @ + 1] \in RunRows /\ [row EXCEPT !.due = TRUE] \in RunRows
    BY <1>0 DEF RunRows
  <1>4. ASSUME NEW n \in Nat
        PROVE  [row EXCEPT !.calls = @ + n] \in RunRows
    <2>1. row.calls + n \in Nat
      BY <1>0
    <2> QED BY <1>0, <2>1 DEF RunRows
  <1>5. ASSUME NEW s \in Summaries
        PROVE  [row EXCEPT !.summary = s] \in RunRows
    BY <1>0 DEF RunRows
  <1>6. ASSUME NEW s \in Summaries, NEW n \in Nat
        PROVE  [row EXCEPT !.summary = s, !.status = "COMPLETED", !.owner = None,
                           !.due = FALSE, !.version = n + 1] \in RunRows
    <2>1. n + 1 \in Nat
      OBVIOUS
    <2> QED BY <1>0, <2>1 DEF RunRows
  <1>7. ASSUME NEW s \in {"PENDING", "FAILED"}, NEW n \in Nat
        PROVE  [row EXCEPT !.status = s, !.owner = None, !.due = FALSE,
                           !.version = n + 1] \in RunRows
    <2>1. n + 1 \in Nat
      OBVIOUS
    <2> QED BY <1>0, <2>1 DEF RunRows
  <1> QED BY <1>1, <1>2, <1>3, <1>4, <1>5, <1>6, <1>7

\* The tables that evaluation runs are kept in, and what their workers do.
RunTypes ==
    /\ run \in [Runs -> RunRows]
    /\ results \in [Runs -> [Cases -> Results]]
    /\ lock \in [Runs -> Workers \cup {None}]
    /\ worker \in [Workers -> Tasks]
    /\ spent \in [Runs -> Nat]
    /\ crashes \in Nat

\* claim_next_run: the rows it writes and the task it leaves.
LEMMA ClaimTypes ==
    ASSUME TypeOK, NEW w \in Workers,
           BeginClaim(w) \/ NothingToClaim(w) \/ MarkExhausted(w) \/ Claim(w)
    PROVE  RunTypes'
  <1> USE DEF RunTypes
  <1>0. worker[w] \in Tasks /\ run \in [Runs -> RunRows]
    BY DEF TypeOK
  <1>1. CASE BeginClaim(w)
    <2>1. [Idle EXCEPT !.at = "claim", !.view = run] \in Tasks
      BY <1>0, RecordsAreTyped DEF Tasks
    <2> QED BY <1>1, <2>1, BecomeTypes DEF BeginClaim, TypeOK
  <1>2. CASE NothingToClaim(w)
    <2>1. run' \in [Runs -> RunRows]
      BY <1>0, <1>2, RowsAreTyped DEF NothingToClaim, Commit
    <2> QED BY <1>2, <2>1, BecomeTypes, ReleaseTypes, RecordsAreTyped DEF NothingToClaim, TypeOK
  <1>3. CASE MarkExhausted(w)
    <2>1. Candidate(w) \in Runs
      BY <1>3, CandidateIsClaimable DEF MarkExhausted
    <2>2. [worker[w] EXCEPT !.failed = @ \cup {Candidate(w)}] \in Tasks
      BY <1>0, <2>1 DEF Tasks
    <2>3. [worker EXCEPT ![w].failed = @ \cup {Candidate(w)}] \in [Workers -> Tasks]
      BY <2>2 DEF TypeOK
    <2>4. worker' \in [Workers -> Tasks] /\ lock' \in [Runs -> Workers \cup {None}]
      BY <1>3, <2>1, <2>3 DEF MarkExhausted, TypeOK
    <2> QED BY <1>3, <2>4 DEF MarkExhausted, TypeOK
  <1>4. CASE Claim(w)
    <2> DEFINE r == Candidate(w)
    <2>1. r \in Runs
      BY <1>4, CandidateIsClaimable DEF Claim
    <2> HIDE DEF r
    <2>2. CASE StillClaimable(w, r)
      <3>1. run' \in [Runs -> RunRows]
        <4> DEFINE Claimed == [run[r] EXCEPT !.status = "RUNNING", !.owner = w, !.due = FALSE,
                                             !.attempts = @ + 1, !.version = @ + 1]
        <4>1. run' = [q \in Runs |-> IF q = r THEN Claimed
                                     ELSE IF q \in worker[w].failed THEN Exhausted(run[q])
                                     ELSE run[q]]
          BY <1>4, <2>2 DEF Claim, r
        <4>2. Claimed \in RunRows
          BY <1>0, <2>1, RowsAreTyped
        <4>3. \A q \in Runs : run[q] \in RunRows /\ Exhausted(run[q]) \in RunRows
          BY <1>0, RowsAreTyped
        <4> HIDE DEF Claimed
        <4> QED BY <4>1, <4>2, <4>3
      <3>2. Begin(r) \subseteq Tasks
        <4>1. run[r].calls \in Nat
          BY <1>0, <2>1 DEF RunRows
        <4>2. [Idle EXCEPT !.run = r, !.guard = run[r].calls, !.at = "next"] \in Tasks
          BY <2>1, <4>1, RecordsAreTyped DEF Tasks
        <4>3. [Idle EXCEPT !.run = r, !.guard = run[r].calls, !.at = "release"] \in Tasks
          BY <2>1, <4>1, RecordsAreTyped DEF Tasks
        <4>4. [Idle EXCEPT !.run = r, !.guard = run[r].calls, !.at = "release",
                           !.retryable = FALSE] \in Tasks
          BY <2>1, <4>1, RecordsAreTyped DEF Tasks
        <4> QED BY <4>2, <4>3, <4>4 DEF Begin, Idle
      <3>3. PICK t \in Begin(r) : Become(w, t)
        BY <1>4, <2>2 DEF Claim, r
      <3> QED BY <1>4, <2>2, <3>1, <3>2, <3>3, BecomeTypes, ReleaseTypes DEF Claim, r, TypeOK
    <2>3. CASE ~ StillClaimable(w, r)
      BY <1>4, <2>1, <2>3 DEF Claim, r, TypeOK
    <2> QED BY <2>2, <2>3
  <1> QED BY <1>1, <1>2, <1>3, <1>4

\* A case ends with a verdict and as many calls as were made for it, or none.
LEMMA OutcomesAreResults ==
    ASSUME NEW made \in Nat, NEW result \in Outcomes(made)
    PROVE  result \in Results /\ result.calls <= made /\ result.status # "NONE"
  BY EvaluationAssumption DEF Outcomes, Results

\* The cases of a run, and the plain reads before what ends its attempt.
LEMMA CaseTypes ==
    ASSUME TypeOK, TasksAreReal, NEW w \in Workers,
           NextCase(w) \/ RecordReads(w) \/ CompleteReads(w) \/ ReleaseReads(w) \/ Record(w)
    PROVE  RunTypes'
  <1> USE DEF RunTypes
  <1>0. worker[w] \in Tasks /\ run \in [Runs -> RunRows]
    BY DEF TypeOK
  <1>1. ASSUME NEW t \in Tasks, NEW next \in {"insert", "finish", "unlease"}, t.run \in Runs,
               ReadLease(w, t, next)
        PROVE  RunTypes'
    <2>1. [row |-> run[t.run], results |-> results[t.run]] \in Readings
      BY <1>1 DEF TypeOK, Readings
    <2>2. [t EXCEPT !.at = next, !.view = [row |-> run[t.run], results |-> results[t.run]]] \in Tasks
      BY <2>1 DEF Tasks
    <2> QED BY <1>1, <2>2, BecomeTypes, RecordsAreTyped DEF ReadLease, TypeOK
  <1>2. CASE NextCase(w)
    <2> DEFINE r == worker[w].run
    <2>1. r \in Runs /\ Min(Missing(r)) \in Cases
      BY <1>2, MissingIsCase DEF NextCase, TasksAreReal, IsReal, Begun
    <2>2. CASE HoldsLease(run[r], w)
      <3>1. PICK n \in 0..Allowed(worker[w].guard) :
                /\ Become(w, [worker[w] EXCEPT !.at = "case", !.case = Min(Missing(r)),
                                               !.guard = @ + n, !.made = n])
                /\ spent' = [spent EXCEPT ![r] = @ + n]
        BY <1>2, <2>2 DEF NextCase
      <3>2. n \in Nat /\ worker[w].guard + n \in Nat
        <4>1. worker[w].guard \in Nat /\ MaxCalls \in Nat
          BY <1>0, EvaluationAssumption DEF Tasks
        <4> QED BY <3>1, <4>1 DEF Allowed
      <3>3. [worker[w] EXCEPT !.at = "case", !.case = Min(Missing(r)),
                              !.guard = @ + n, !.made = n] \in Tasks
        BY <1>0, <2>1, <3>2 DEF Tasks
      <3>4. run' \in [Runs -> RunRows]
        <4>1. run' = [run EXCEPT ![r] = [run[r] EXCEPT !.version = @ + 1]]
          BY <1>2, <2>2 DEF NextCase
        <4> QED BY <1>0, <2>1, <4>1, RowsAreTyped
      <3>5. spent' \in [Runs -> Nat]
        BY <2>1, <3>1, <3>2 DEF TypeOK
      <3> QED BY <1>2, <3>1, <3>3, <3>4, <3>5, BecomeTypes DEF NextCase, TypeOK
    <2>3. CASE ~ HoldsLease(run[r], w)
      BY <1>2, <2>3, BecomeTypes, RecordsAreTyped DEF NextCase, TypeOK
    <2> QED BY <2>2, <2>3
  <1>3. CASE RecordReads(w)
    <2>1. PICK result \in Outcomes(worker[w].made) :
              ReadLease(w, [worker[w] EXCEPT !.result = result], "insert")
      BY <1>3 DEF RecordReads
    <2>2. result \in Results
      BY <1>0, OutcomesAreResults DEF Tasks
    <2>3. [worker[w] EXCEPT !.result = result] \in Tasks
      BY <1>0, <2>2 DEF Tasks
    <2>4. [worker[w] EXCEPT !.result = result].run \in Runs
      BY <1>0, <1>3 DEF RecordReads, TasksAreReal, IsReal, Begun, Tasks
    <2> QED BY <1>1, <2>1, <2>3, <2>4
  <1>4. CASE CompleteReads(w)
    BY <1>0, <1>1, <1>4 DEF CompleteReads, TasksAreReal, IsReal, Begun
  <1>5. CASE ReleaseReads(w)
    BY <1>0, <1>1, <1>5 DEF ReleaseReads, TasksAreReal, IsReal, Begun
  <1>6. CASE Record(w)
    <2> DEFINE r == worker[w].run
               c == worker[w].case
               goOn == [worker[w] EXCEPT !.at = "next", !.case = None, !.view = None,
                                         !.result = NoResult, !.made = 0]
    <2>1. r \in Runs /\ c \in Cases /\ worker[w].result \in Results
      BY <1>0, <1>6 DEF Record, TasksAreReal, IsReal, Begun, Tasks
    <2>2. goOn \in Tasks /\ [goOn EXCEPT !.at = "release"] \in Tasks
      BY <1>0, RecordsAreTyped DEF Tasks
    <2>3. \/ UNCHANGED <<run, results>>
          \/ Recorded(r, c, worker[w].result)
      BY <1>6 DEF Record
    <2>4. worker' \in [Workers -> Tasks]
      <3>1. Become(w, goOn) \/ Become(w, [goOn EXCEPT !.at = "release"])
        BY <1>6 DEF Record
      <3> HIDE DEF goOn
      <3> QED BY <2>2, <3>1, BecomeTypes
    <2>5. ASSUME Recorded(r, c, worker[w].result)
          PROVE  run' \in [Runs -> RunRows] /\ results' \in [Runs -> [Cases -> Results]]
      <3>1. run' = [run EXCEPT ![r] = [run[r] EXCEPT !.calls = @ + worker[w].result.calls]]
        BY <2>5 DEF Recorded
      <3>2. worker[w].result.calls \in Nat
        BY <2>1 DEF Results
      <3>3. run' \in [Runs -> RunRows]
        BY <1>0, <2>1, <3>1, <3>2, RowsAreTyped
      <3> QED BY <2>1, <2>5, <3>3 DEF Recorded, TypeOK
    <2> QED BY <1>6, <2>3, <2>4, <2>5 DEF Record, TypeOK
  <1> QED BY <1>2, <1>3, <1>4, <1>5, <1>6

\* What ends an attempt, and what happens to workers and leases.
LEMMA EndTypes ==
    ASSUME TypeOK, TasksAreReal, NEW w \in Workers,
           Complete(w) \/ GiveUp(w) \/ LockTimeout(w) \/ Crash(w)
    PROVE  RunTypes'
  <1> USE DEF RunTypes
  <1>0. worker[w] \in Tasks /\ run \in [Runs -> RunRows]
    BY DEF TypeOK
  <1>1. CASE Complete(w)
    <2> DEFINE r == worker[w].run
    <2>1. r \in Runs /\ worker[w].view.row.version \in Nat
      BY <1>1 DEF Complete, TasksAreReal, IsReal, Begun, Readings, RunRows
    <2>2. run' \in [Runs -> RunRows]
      BY <1>0, <1>1, <2>1, RowsAreTyped, SummaryIsTyped DEF Complete
    <2> QED BY <1>1, <2>2, BecomeTypes, RecordsAreTyped DEF Complete, TypeOK
  <1>2. CASE GiveUp(w)
    <2> DEFINE r == worker[w].run
    <2>1. r \in Runs /\ worker[w].view.row.version \in Nat
      BY <1>2 DEF GiveUp, TasksAreReal, IsReal, Begun, Readings, RunRows
    <2>2. PICK s \in {"PENDING", "FAILED"} :
              run' = [run EXCEPT ![r] = [run[r] EXCEPT !.status = s, !.owner = None, !.due = FALSE,
                                                       !.version = worker[w].view.row.version + 1]]
      BY <1>0, <1>2, <2>1 DEF GiveUp
    <2>3. run' \in [Runs -> RunRows]
      BY <1>0, <2>1, <2>2, RowsAreTyped
    <2> QED BY <1>2, <2>3, BecomeTypes, RecordsAreTyped DEF GiveUp, TypeOK
  <1>3. CASE LockTimeout(w)
    <2>1. [worker[w] EXCEPT !.at = "release"] \in Tasks
      BY <1>0 DEF Tasks
    <2> QED BY <1>3, <2>1, BecomeTypes, ReleaseTypes, RecordsAreTyped DEF LockTimeout, TypeOK
  <1>4. CASE Crash(w)
    BY <1>4, BecomeTypes, ReleaseTypes, RecordsAreTyped DEF Crash, TypeOK
  <1> QED BY <1>1, <1>2, <1>3, <1>4

\* What a handler is to do, by the step it is at.
LEMMA CommandsByStep ==
    ASSUME TypeOK, NEW h \in Handlers
    PROVE  /\ command[h].at = "baseline" => command[h].run \in Runs /\ command[h].view \in SUBSET Runs
           /\ command[h].at \in {"retest", "verify"} =>
                 /\ command[h].run \in Runs /\ command[h].case \in BadCases
                 /\ command[h].view \in BadRows
  BY DEF TypeOK, Commands, NoCommand

LEMMA DoTypes ==
    ASSUME TypeOK, NEW h \in Handlers, NEW c \in Commands, Do(h, c)
    PROVE  command' \in [Handlers -> Commands]
  BY DEF TypeOK, Do

\* set_current_baseline keeps the types.
LEMMA BaselineTypes ==
    ASSUME TypeOK, NEW h \in Handlers, WriteBaseline(h) \/ \E r \in Runs : ReadBaseline(h, r)
    PROVE  TypeOK'
  <1>0. NoCommand \in Commands
    BY DEF Commands
  <1>1. CASE WriteBaseline(h)
    <2>1. Switched(command[h].run, command[h].view) \in [Runs -> {"NONE", "CURRENT", "PAST"}]
      BY DEF TypeOK, Switched
    <2>2. baseline' \in [Runs -> {"NONE", "CURRENT", "PAST"}]
      BY <1>1, <2>1 DEF WriteBaseline, TypeOK
    <2>3. command' \in [Handlers -> Commands]
      BY <1>0, <1>1, DoTypes DEF WriteBaseline
    <2> QED BY <1>1, <2>2, <2>3 DEF WriteBaseline, TypeOK, runVars
  <1>2. ASSUME NEW r \in Runs, ReadBaseline(h, r)
        PROVE  TypeOK'
    <2>1. [NoCommand EXCEPT !.at = "baseline", !.run = r, !.view = Current(baseline)] \in Commands
      BY DEF NoCommand, Commands, Current
    <2>2. command' \in [Handlers -> Commands]
      BY <1>2, <2>1, DoTypes DEF ReadBaseline
    <2> QED BY <1>2, <2>2 DEF ReadBaseline, TypeOK, runVars
  <1> QED BY <1>1, <1>2

\* The rows of Bad Cases as the steps write them.
LEMMA BadRowsAreTyped ==
    ASSUME NEW row \in BadRows
    PROVE  /\ \A s \in {"OPEN", "IN_PROGRESS", "READY_FOR_RETEST", "VERIFIED", "CLOSED"} :
                 [row EXCEPT !.status = s, !.version = @ + 1] \in BadRows
           /\ \A r \in Runs, s \in {"NONE", "PENDING", "PASSED", "FAILED", "ERROR", "SKIPPED"},
                 n \in Nat :
                 [row EXCEPT !.retest = r, !.retestStatus = s, !.version = n + 1] \in BadRows
           /\ \A t \in {"VERIFIED", "IN_PROGRESS"},
                 s \in {"NONE", "PENDING", "PASSED", "FAILED", "ERROR", "SKIPPED"}, n \in Nat :
                 [row EXCEPT !.status = t, !.retestStatus = s, !.version = n + 1] \in BadRows
  <1>0. /\ row = [status |-> row.status, version |-> row.version, retest |-> row.retest,
                  retestStatus |-> row.retestStatus]
        /\ row.version \in Nat /\ row.version + 1 \in Nat
    BY DEF BadRows
  <1>1. ASSUME NEW s \in {"OPEN", "IN_PROGRESS", "READY_FOR_RETEST", "VERIFIED", "CLOSED"}
        PROVE  [row EXCEPT !.status = s, !.version = @ + 1] \in BadRows
    BY <1>0 DEF BadRows
  <1>2. ASSUME NEW r \in Runs, NEW n \in Nat,
               NEW s \in {"NONE", "PENDING", "PASSED", "FAILED", "ERROR", "SKIPPED"}
        PROVE  [row EXCEPT !.retest = r, !.retestStatus = s, !.version = n + 1] \in BadRows
    <2>1. n + 1 \in Nat
      OBVIOUS
    <2> QED BY <1>0, <2>1 DEF BadRows
  <1>3. ASSUME NEW t \in {"VERIFIED", "IN_PROGRESS"}, NEW n \in Nat,
               NEW s \in {"NONE", "PENDING", "PASSED", "FAILED", "ERROR", "SKIPPED"}
        PROVE  [row EXCEPT !.status = t, !.retestStatus = s, !.version = n + 1] \in BadRows
    <2>1. n + 1 \in Nat
      OBVIOUS
    <2> QED BY <1>0, <2>1 DEF BadRows
  <1> QED BY <1>1, <1>2, <1>3

\* archive_bad_case, the transitions, create_retest and verify_retest keep the types.
LEMMA BadCaseTypes ==
    ASSUME TypeOK, NEW b \in BadCases,
           Archive(b) \/ StartWork(b) \/ MarkReady(b) \/ Close(b)
    PROVE  TypeOK'
  <1>0. bad[b] \in BadRows
    BY DEF TypeOK
  <1>1. CASE Archive(b)
    <2>1. [NoBadCase EXCEPT !.status = "OPEN", !.version = 1] \in BadRows
      BY DEF NoBadCase, BadRows
    <2> QED BY <1>1, <2>1 DEF Archive, TypeOK, runVars
  <1>2. ASSUME NEW s \in {"OPEN", "IN_PROGRESS", "VERIFIED"},
               NEW t \in {"IN_PROGRESS", "READY_FOR_RETEST", "CLOSED"}, Transition(b, s, t)
        PROVE  TypeOK'
    <2>1. [bad[b] EXCEPT !.status = t, !.version = @ + 1] \in BadRows
      BY <1>0, BadRowsAreTyped
    <2>2. bad' = [bad EXCEPT ![b] = [bad[b] EXCEPT !.status = t, !.version = @ + 1]]
      BY <1>2 DEF Transition
    <2>3. bad' \in [BadCases -> BadRows]
      BY <2>1, <2>2 DEF TypeOK
    <2> QED BY <1>2, <2>3 DEF Transition, TypeOK, runVars
  <1> QED BY <1>1, <1>2 DEF StartWork, MarkReady, Close

LEMMA RetestTypes ==
    ASSUME TypeOK, RetestsAreOfCase, NEW h \in Handlers,
           \/ CreateRetest(h) \/ Judge(h)
           \/ \E b \in BadCases, r \in Runs : ReadForRetest(h, b, r)
           \/ \E b \in BadCases : ReadForVerify(h, b)
    PROVE  TypeOK'
  <1>0. NoCommand \in Commands
    BY DEF Commands
  <1>1. CASE CreateRetest(h)
    <2> DEFINE b == command[h].case
               r == command[h].run
               seen == command[h].view
    <2>1. b \in BadCases /\ r \in Runs /\ seen \in BadRows
      BY <1>1, CommandsByStep DEF CreateRetest
    <2>2. bad[b] \in BadRows /\ seen.version \in Nat /\ b[2] \in Cases
      BY <2>1 DEF TypeOK, BadRows, BadCases
    <2>3. PICK s \in {"NONE", "PENDING", "PASSED", "FAILED", "ERROR", "SKIPPED"} :
              s = Written("PENDING", seen.retestStatus, bad[b].retestStatus)
      BY <2>2 DEF Written, BadRows
    <2>4. [bad[b] EXCEPT !.retest = r, !.retestStatus = s, !.version = seen.version + 1] \in BadRows
      BY <2>1, <2>2, BadRowsAreTyped
    <2>5. NewRun({b[2]}, b) \in RunRows
      BY <2>1, <2>2, RecordsAreTyped
    <2>6. CASE run[r].status = "NONE"
      <3>1. run' = [run EXCEPT ![r] = NewRun({b[2]}, b)]
        BY <1>1, <2>6 DEF CreateRetest
      <3>2. bad' = [bad EXCEPT ![b] = [bad[b] EXCEPT !.retest = r, !.retestStatus = s,
                                                     !.version = seen.version + 1]]
        BY <1>1, <2>3, <2>6 DEF CreateRetest
      <3>3. run' \in [Runs -> RunRows] /\ bad' \in [BadCases -> BadRows]
        BY <2>1, <2>4, <2>5, <3>1, <3>2 DEF TypeOK
      <3> QED BY <1>0, <1>1, <3>3, DoTypes DEF CreateRetest, TypeOK
    <2>7. CASE run[r].status # "NONE"
      BY <1>0, <1>1, <2>7, DoTypes DEF CreateRetest, TypeOK
    <2> QED BY <2>6, <2>7
  <1>2. CASE Judge(h)
    <2> DEFINE b == command[h].case
               seen == command[h].view
    <2>1. b \in BadCases /\ seen \in BadRows
      BY <1>2, CommandsByStep DEF Judge
    <2>2. bad[b] \in BadRows /\ seen.version \in Nat /\ b[2] \in Cases
      BY <2>1 DEF TypeOK, BadRows, BadCases
    <2>3. seen.retest \in Runs
      BY <1>2, <2>1 DEF Judge, RetestsAreOfCase, BadRows
    <2>4. results[seen.retest][b[2]] \in Results
      BY <2>2, <2>3 DEF TypeOK
    <2>5. PICK t \in {"VERIFIED", "IN_PROGRESS"} :
              t = IF Passed(results[seen.retest][b[2]]) THEN "VERIFIED" ELSE "IN_PROGRESS"
      OBVIOUS
    <2>6. PICK s \in {"NONE", "PENDING", "PASSED", "FAILED", "ERROR", "SKIPPED"} :
              s = Written(results[seen.retest][b[2]].status, seen.retestStatus, bad[b].retestStatus)
      BY <2>2, <2>4 DEF Written, BadRows, Results
    <2>7. bad' = [bad EXCEPT ![b] = [bad[b] EXCEPT !.status = t, !.retestStatus = s,
                                                   !.version = seen.version + 1]]
      BY <1>2, <2>5, <2>6 DEF Judge
    <2>8. bad' \in [BadCases -> BadRows]
      <3>1. [bad[b] EXCEPT !.status = t, !.retestStatus = s, !.version = seen.version + 1] \in BadRows
        BY <2>2, BadRowsAreTyped
      <3> QED BY <2>1, <2>7, <3>1 DEF TypeOK
    <2> QED BY <1>0, <1>2, <2>8, DoTypes DEF Judge, TypeOK, runVars
  <1>3. ASSUME NEW b \in BadCases, NEW r \in Runs, ReadForRetest(h, b, r)
        PROVE  TypeOK'
    <2>1. [at |-> "retest", run |-> r, case |-> b, view |-> bad[b]] \in Commands
      BY DEF TypeOK, Commands
    <2>2. command' \in [Handlers -> Commands]
      BY <1>3, <2>1, DoTypes DEF ReadForRetest
    <2> QED BY <1>3, <2>2 DEF ReadForRetest, TypeOK, runVars
  <1>4. ASSUME NEW b \in BadCases, ReadForVerify(h, b)
        PROVE  TypeOK'
    <2>1. bad[b] \in BadRows /\ bad[b].retest \in Runs
      BY <1>4 DEF ReadForVerify, TypeOK, BadRows
    <2>2. [at |-> "verify", run |-> bad[b].retest, case |-> b, view |-> bad[b]] \in Commands
      BY <2>1 DEF Commands
    <2>3. command' \in [Handlers -> Commands]
      BY <1>4, <2>2, DoTypes DEF ReadForVerify
    <2> QED BY <1>4, <2>3 DEF ReadForVerify, TypeOK, runVars
  <1> QED BY <1>1, <1>2, <1>3, <1>4

\* A new run, and a lease that runs out.
LEMMA RowTypes ==
    ASSUME TypeOK, NEW r \in Runs, CreateRun(r, Cases) \/ Expire(r)
    PROVE  RunTypes'
  <1>1. run[r] \in RunRows /\ NewRun(Cases, None) \in RunRows
    BY RecordsAreTyped DEF TypeOK
  <1>2. [run[r] EXCEPT !.due = TRUE] \in RunRows
    BY <1>1, RowsAreTyped
  <1>3. run' \in [Runs -> RunRows]
    <2>1. CASE CreateRun(r, Cases)
      BY <1>1, <2>1 DEF CreateRun, TypeOK
    <2>2. CASE Expire(r)
      <3>1. run' = [run EXCEPT ![r] = [run[r] EXCEPT !.due = TRUE]]
        BY <2>2 DEF Expire
      <3> QED BY <1>2, <3>1 DEF TypeOK
    <2> QED BY <2>1, <2>2
  <1> QED BY <1>3 DEF CreateRun, Expire, TypeOK, RunTypes

\* Every step keeps the types.
LEMMA StepTypes ==
    ASSUME TypeOK, TasksAreReal, RetestsAreOfCase, [Next]_vars
    PROVE  TypeOK'
  <1>1. CASE Govern
    BY <1>1, BaselineTypes, BadCaseTypes, RetestTypes DEF Govern
  <1>2. CASE NextRuns /\ UNCHANGED govVars
    <2>1. RunTypes'
      BY <1>2, RowTypes, ClaimTypes, CaseTypes, EndTypes DEF NextRuns, Work
    <2> QED BY <1>2, <2>1 DEF RunTypes, TypeOK, govVars
  <1>3. CASE UNCHANGED vars
    BY <1>3 DEF vars, runVars, govVars, TypeOK
  <1> QED BY <1>1, <1>2, <1>3 DEF Next

-----------------------------------------------------------------------------
(* What a step does to the rows of runs and to their results               *)

\* A transaction that inserts a result.
Records(w) ==
    /\ Record(w) /\ Recorded(worker[w].run, worker[w].case, worker[w].result)
    /\ ~ Duplicate(worker[w].run, worker[w].case)

\* A run that was created keeps its cases and what it retests, and gains at most
\* an attempt; one that was not is left alone, or created.
Lasts(q) ==
    /\ run[q].status # "NONE" /\ run'[q].status # "NONE"
    /\ run'[q].cases = run[q].cases /\ run'[q].of = run[q].of
    /\ run'[q].attempts \in {run[q].attempts, run[q].attempts + 1}
    /\ run'[q].calls = run[q].calls \/ \E w \in Workers : Records(w)
Created(q) ==
    /\ run[q].status = "NONE"
    /\ \E cs \in SUBSET Cases, b \in BadCases \cup {None} : run'[q] = NewRun(cs, b)
RowStep(q) == run'[q] = run[q] \/ Lasts(q) \/ Created(q)

\* A transaction of a worker writes the rows it has marked, or the row of its run.
LEMMA WorkRows ==
    ASSUME TypeOK, TasksAreReal, NEW w \in Workers, Work(w) \/ Crash(w)
    PROVE  \A q \in Runs : RowStep(q)
  <1>0. \A q \in Runs : run[q] \in RunRows /\ run[q].attempts \in Nat
    BY DEF TypeOK, RunRows
  <1>1. \A q \in worker[w].failed : run[q].status # "NONE"
    BY DEF TasksAreReal, IsReal
  <1>2. \A q \in Runs :
           /\ Exhausted(run[q]).status = "FAILED" /\ Exhausted(run[q]).cases = run[q].cases
           /\ Exhausted(run[q]).of = run[q].of /\ Exhausted(run[q]).attempts = run[q].attempts
           /\ Exhausted(run[q]).calls = run[q].calls
    BY <1>0 DEF Exhausted, RunRows
  <1>3. worker[w].at \in Begun => worker[w].run \in Runs /\ run[worker[w].run].status # "NONE"
    BY DEF TasksAreReal, IsReal
  <1>4. CASE UNCHANGED run
    BY <1>4 DEF RowStep
  <1>5. CASE NothingToClaim(w)
    BY <1>1, <1>2, <1>5 DEF NothingToClaim, Commit, RowStep, Lasts
  <1>6. CASE Claim(w)
    <2> DEFINE r == Candidate(w)
    <2>1. r \in Runs
      BY <1>6, CandidateIsClaimable DEF Claim
    <2> HIDE DEF r
    <2>2. CASE StillClaimable(w, r)
      <3>1. run[r].status # "NONE"
        <4>1. worker[w].view[r].status # "NONE"
          BY <1>6, CandidateIsClaimable DEF Claim, Claimable, r
        <4> QED BY <2>2, <4>1 DEF StillClaimable
      <3>2. run' = [q \in Runs |->
                      IF q = r THEN [run[r] EXCEPT !.status = "RUNNING", !.owner = w, !.due = FALSE,
                                                   !.attempts = @ + 1, !.version = @ + 1]
                      ELSE IF q \in worker[w].failed THEN Exhausted(run[q]) ELSE run[q]]
        BY <1>6, <2>2 DEF Claim, r
      <3>3. ASSUME NEW q \in Runs
            PROVE  RowStep(q)
        <4>1. CASE q = r
          BY <1>0, <3>1, <3>2, <4>1 DEF RowStep, Lasts, RunRows
        <4>2. CASE q # r
          BY <1>1, <1>2, <3>2, <4>2 DEF RowStep, Lasts
        <4> QED BY <4>1, <4>2
      <3> QED BY <3>3
    <2>3. CASE ~ StillClaimable(w, r)
      BY <1>6, <2>3 DEF Claim, r, RowStep
    <2> QED BY <2>2, <2>3
  <1>7. CASE NextCase(w) /\ run' = [run EXCEPT ![worker[w].run].version = @ + 1]
    <2>1. worker[w].run \in Runs /\ run[worker[w].run].status # "NONE"
      BY <1>3, <1>7 DEF NextCase, Begun
    <2> QED BY <1>0, <1>7, <2>1 DEF RowStep, Lasts, TypeOK, RunRows
  <1>8. CASE Records(w)
    <2>1. worker[w].run \in Runs /\ run[worker[w].run].status # "NONE"
      BY <1>3, <1>8 DEF Records, Record, Begun
    <2>2. run' = [run EXCEPT ![worker[w].run] =
                    [run[worker[w].run] EXCEPT !.calls = @ + worker[w].result.calls]]
      BY <1>8 DEF Records, Recorded
    <2> QED BY <1>0, <1>8, <2>1, <2>2 DEF RowStep, Lasts, TypeOK, RunRows
  <1>9. CASE Complete(w)
    <2>1. worker[w].run \in Runs /\ run[worker[w].run].status # "NONE"
      BY <1>3, <1>9 DEF Complete, Begun
    <2> QED BY <1>0, <1>9, <2>1 DEF RowStep, Lasts, TypeOK, RunRows, Complete
  <1>10. CASE GiveUp(w)
    <2>1. worker[w].run \in Runs /\ run[worker[w].run].status # "NONE"
      BY <1>3, <1>10 DEF GiveUp, Begun
    <2>2. PICK s \in {"PENDING", "FAILED"} :
              run' = [run EXCEPT ![worker[w].run] =
                        [run[worker[w].run] EXCEPT !.status = s, !.owner = None, !.due = FALSE,
                                                   !.version = worker[w].view.row.version + 1]]
      BY <1>0, <1>10, <2>1 DEF GiveUp
    <2> QED BY <1>0, <2>1, <2>2 DEF RowStep, Lasts, TypeOK, RunRows
  <1>11. \/ UNCHANGED run
         \/ NothingToClaim(w) \/ Claim(w) \/ Complete(w) \/ GiveUp(w)
         \/ NextCase(w) /\ run' = [run EXCEPT ![worker[w].run].version = @ + 1]
         \/ Records(w)
    BY DEF Work, Crash, Records, BeginClaim, MarkExhausted, NextCase, RecordReads, CompleteReads, ReleaseReads,
           ReadLease, Record, LockTimeout
  <1> QED BY <1>4, <1>5, <1>6, <1>7, <1>8, <1>9, <1>10, <1>11

LEMMA RowSteps ==
    ASSUME TypeOK, TasksAreReal, [Next]_vars
    PROVE  \A q \in Runs : RowStep(q)
  <1>1. CASE UNCHANGED run
    BY <1>1 DEF RowStep
  <1>2. ASSUME NEW h \in Handlers, CreateRetest(h)
        PROVE  \A q \in Runs : RowStep(q)
    <2>1. command[h].run \in Runs /\ command[h].case \in BadCases /\ command[h].case[2] \in Cases
      BY <1>2, CommandsByStep DEF CreateRetest, BadCases
    <2>2. \/ UNCHANGED run
          \/ /\ run[command[h].run].status = "NONE"
             /\ run' = [run EXCEPT ![command[h].run] = NewRun({command[h].case[2]}, command[h].case)]
      BY <1>2 DEF CreateRetest
    <2> QED BY <2>1, <2>2 DEF RowStep, Created, TypeOK
  <1>3. ASSUME NEW r \in Runs, CreateRun(r, Cases) \/ Expire(r)
        PROVE  \A q \in Runs : RowStep(q)
    <2>1. CASE CreateRun(r, Cases)
      BY <2>1 DEF CreateRun, RowStep, Created, TypeOK
    <2>2. CASE Expire(r)
      BY <2>2 DEF Expire, RowStep, Lasts, TypeOK, RunRows
    <2> QED BY <1>3, <2>1, <2>2
  <1>4. \/ UNCHANGED run
        \/ \E h \in Handlers : CreateRetest(h)
        \/ \E r \in Runs : CreateRun(r, Cases) \/ Expire(r)
        \/ \E w \in Workers : Work(w) \/ Crash(w)
    BY DEF Next, Govern, NextRuns, WriteBaseline, Judge, ReadBaseline, ReadForRetest, ReadForVerify,
           Archive, StartWork, MarkReady, Close, Transition, vars, runVars
  <1> QED BY <1>1, <1>2, <1>3, <1>4, WorkRows

\* Results and calls come only from workers at a case.
LEMMA SpentSteps ==
    ASSUME [Next]_vars
    PROVE  \/ UNCHANGED <<results, spent>>
           \/ \E w \in Workers : NextCase(w) \/ Records(w)
  <1>1. CASE Govern
    BY <1>1 DEF Govern, WriteBaseline, CreateRetest, Judge, ReadBaseline, ReadForRetest,
                ReadForVerify, Archive, StartWork, MarkReady, Close, Transition, runVars
  <1>2. ASSUME NEW r \in Runs, CreateRun(r, Cases) \/ Expire(r)
        PROVE  UNCHANGED <<results, spent>>
    BY <1>2 DEF CreateRun, Expire
  <1>3. ASSUME NEW w \in Workers, Work(w) \/ Crash(w)
        PROVE  UNCHANGED <<results, spent>> \/ NextCase(w) \/ Records(w)
    BY <1>3 DEF Work, Crash, BeginClaim, NothingToClaim, MarkExhausted, Claim, RecordReads,
                CompleteReads, ReleaseReads, ReadLease, Record, Complete, GiveUp, LockTimeout, Records
  <1> QED BY <1>1, <1>2, <1>3 DEF Next, NextRuns, vars, runVars

\* A result that is there stays, and one is added only to a run that was created.
LEMMA ResultSteps ==
    ASSUME TypeOK, TasksAreReal, [Next]_vars, NEW q \in Runs
    PROVE  /\ \A c \in Cases : results[q][c] # NoResult => results'[q][c] = results[q][c]
           /\ run[q].status = "NONE" => results'[q] = results[q] /\ spent'[q] = spent[q]
  <1>1. CASE UNCHANGED <<results, spent>>
    BY <1>1
  <1>2. ASSUME NEW w \in Workers, Records(w)
        PROVE  /\ \A c \in Cases : results[q][c] # NoResult => results'[q][c] = results[q][c]
               /\ run[q].status = "NONE" => results'[q] = results[q] /\ spent'[q] = spent[q]
    <2>1. worker[w].run \in Runs /\ run[worker[w].run].status # "NONE" /\ worker[w].case \in Cases
      BY <1>2 DEF Records, Record, TasksAreReal, IsReal, Begun
    <2> QED BY <1>2, <2>1 DEF Records, Record, Recorded, Duplicate, TypeOK
  <1>3. ASSUME NEW w \in Workers, NextCase(w)
        PROVE  /\ \A c \in Cases : results[q][c] # NoResult => results'[q][c] = results[q][c]
               /\ run[q].status = "NONE" => results'[q] = results[q] /\ spent'[q] = spent[q]
    <2>1. worker[w].run \in Runs /\ run[worker[w].run].status # "NONE"
      BY <1>3 DEF NextCase, TasksAreReal, IsReal, Begun
    <2> QED BY <1>3, <2>1 DEF NextCase, TypeOK
  <1> QED BY <1>1, <1>2, <1>3, SpentSteps

LEMMA KeepsUncreated ==
    ASSUME TypeOK, TasksAreReal, UncreatedIsEmpty, [Next]_vars
    PROVE  UncreatedIsEmpty'
  <1> SUFFICES ASSUME NEW q \in Runs, run'[q].status = "NONE"
               PROVE  /\ run'[q] = NoRun /\ results'[q] = [c \in Cases |-> NoResult]
                      /\ spent'[q] = 0
    BY DEF UncreatedIsEmpty
  <1>1. run'[q] = run[q]
    BY RowSteps DEF RowStep, Lasts, Created, NewRun, NoRun
  <1> QED BY <1>1, ResultSteps DEF UncreatedIsEmpty

-----------------------------------------------------------------------------
(* What workers are about to do                                            *)

LEMMA CreatedLasts ==
    ASSUME TypeOK, TasksAreReal, [Next]_vars, NEW q \in Runs, run[q].status # "NONE"
    PROVE  /\ run'[q].status # "NONE"
           /\ run'[q].cases = run[q].cases /\ run'[q].of = run[q].of
  BY RowSteps DEF RowStep, Lasts, Created

\* Only workers move what they are about to do, one at a time.
LEMMA WorkerSteps ==
    ASSUME [Next]_vars
    PROVE  \/ UNCHANGED worker
           \/ \E w \in Workers : (Work(w) \/ Crash(w)) /\ UNCHANGED govVars
  BY DEF Next, Govern, NextRuns, CreateRun, Expire, WriteBaseline, CreateRetest, Judge, ReadBaseline,
         ReadForRetest, ReadForVerify, Archive, StartWork, MarkReady, Close, Transition, vars, runVars

LEMMA OnlyOneMoves ==
    ASSUME TypeOK, NEW w \in Workers, Work(w) \/ Crash(w)
    PROVE  \A v \in Workers \ {w} : worker'[v] = worker[v]
  BY DEF TypeOK, Work, Crash, BeginClaim, NothingToClaim, MarkExhausted, Claim, NextCase, RecordReads,
         CompleteReads, ReleaseReads, ReadLease, Record, Complete, GiveUp, LockTimeout, Become

LEMMA KeepsTasksReal ==
    ASSUME TypeOK, TasksAreReal, [Next]_vars
    PROVE  TasksAreReal'
  <1>0. \A t \in Tasks : IsReal(t, run) => IsReal(t, run')
    BY CreatedLasts DEF IsReal, Tasks
  <1>1. \A w \in Workers : worker[w] \in Tasks /\ IsReal(worker[w], run)
    BY DEF TypeOK, TasksAreReal
  <1>2. CASE UNCHANGED worker
    <2> SUFFICES ASSUME NEW w \in Workers
                 PROVE  IsReal(worker'[w], run')
      BY DEF TasksAreReal
    <2> DEFINE t == worker[w]
    <2>1. IsReal(t, run) /\ worker'[w] = t
      BY <1>1, <1>2
    <2> QED BY <1>0, <1>1, <2>1 DEF IsReal
  <1>3. ASSUME NEW w \in Workers, Work(w) \/ Crash(w)
        PROVE  TasksAreReal'
    <2> DEFINE t == worker[w]
    <2>1. t \in Tasks /\ IsReal(t, run)
      BY <1>1
    <2>2. ASSUME NEW v \in Workers \ {w}
          PROVE  IsReal(worker'[v], run')
      <3>1. worker'[v] = worker[v]
        BY <1>3, OnlyOneMoves
      <3> QED BY <1>0, <1>1, <3>1 DEF IsReal
    <2> SUFFICES IsReal(worker'[w], run')
      BY <2>2 DEF TasksAreReal
    <2>3. ASSUME NEW n, n.at \notin Begun, n.failed = {}, Become(w, n)
          PROVE  IsReal(worker'[w], run')
      BY <2>3 DEF IsReal, TypeOK, Become, Begun
    <2>4. Idle.at \notin Begun /\ Idle.failed = {}
      BY DEF Idle, Begun
    <2>5. CASE BeginClaim(w)
      <3>1. /\ [Idle EXCEPT !.at = "claim", !.view = run].at \notin Begun
            /\ [Idle EXCEPT !.at = "claim", !.view = run].failed = {}
        BY DEF Idle, Begun
      <3> QED BY <2>3, <2>5, <3>1 DEF BeginClaim
    <2>6. CASE Become(w, Idle)
      BY <2>3, <2>4, <2>6
    <2>7. CASE worker' = worker
      BY <1>0, <2>1, <2>7 DEF IsReal
    <2>8. ASSUME Claim(w), StillClaimable(w, Candidate(w))
          PROVE  IsReal(worker'[w], run')
      <3> DEFINE r == Candidate(w)
      <3>1. r \in Runs
        BY <2>8, CandidateIsClaimable DEF Claim
      <3> HIDE DEF r
      <3>2. PICK n \in Begin(r) : Become(w, n)
        BY <2>8 DEF Claim, r
      <3>3. n.run = r /\ n.failed = {} /\ n.at \in {"next", "release"}
        BY <3>2 DEF Begin, Idle
      <3>4. run'[r].status = "RUNNING"
        BY <2>8, <3>1 DEF Claim, r, TypeOK, RunRows
      <3> QED BY <3>1, <3>2, <3>3, <3>4 DEF IsReal, Become, TypeOK
    <2>9. CASE MarkExhausted(w) /\ StillClaimable(w, Candidate(w))
      <3> DEFINE r == Candidate(w)
      <3>1. r \in Runs /\ r \in Claimable(w)
        BY <2>9, CandidateIsClaimable DEF MarkExhausted
      <3> HIDE DEF r
      <3>2. run'[r].status # "NONE"
        BY <2>9, <3>1 DEF MarkExhausted, StillClaimable, Claimable, r
      <3>3. worker' = [worker EXCEPT ![w].failed = @ \cup {r}]
        BY <2>9 DEF MarkExhausted, r
      <3>4. t.at = "claim"
        BY <2>9 DEF MarkExhausted
      <3>5. \A q \in t.failed : run'[q].status # "NONE"
        BY <1>0, <2>1 DEF IsReal
      <3>6. worker'[w].at = "claim" /\ worker'[w].failed = t.failed \cup {r}
        BY <2>1, <3>3, <3>4 DEF TypeOK, Tasks
      <3> QED BY <3>2, <3>5, <3>6 DEF IsReal, Begun
    <2>10. ASSUME NEW at \in Begun, NEW n, n.at = at, n.run = t.run, n.failed = t.failed,
                  Become(w, n), t.at \in Begun, n.at \in {"case", "insert"} => n.case \in Cases,
                  n.at \in {"insert", "finish", "unlease"} => n.view \in Readings
           PROVE  IsReal(worker'[w], run')
      <3>1. IsReal(t, run')
        BY <1>0, <2>1
      <3>2. worker'[w] = n
        BY <2>10 DEF Become, TypeOK
      <3> QED BY <2>10, <3>1, <3>2 DEF IsReal
    <2>11. ASSUME NextCase(w), HoldsLease(run[t.run], w)
           PROVE  IsReal(worker'[w], run')
      <3>1. t.at \in Begun /\ t.run \in Runs /\ Missing(t.run) # {}
        BY <2>1, <2>11 DEF NextCase, Begun, IsReal
      <3>2. PICK n : Become(w, [t EXCEPT !.at = "case", !.case = Min(Missing(t.run)),
                                         !.guard = @ + n, !.made = n])
        BY <2>11 DEF NextCase
      <3>3. Min(Missing(t.run)) \in Cases
        BY <3>1, MissingIsCase
      <3> DEFINE m == [t EXCEPT !.at = "case", !.case = Min(Missing(t.run)), !.guard = @ + n, !.made = n]
      <3>4. m.at = "case" /\ m.run = t.run /\ m.failed = t.failed /\ m.case \in Cases
        BY <2>1, <3>3 DEF Tasks
      <3> HIDE DEF m
      <3> QED BY <2>10, <3>1, <3>2, <3>4 DEF Begun, m
    <2>12. ASSUME NEW n \in Tasks, NEW next \in {"insert", "finish", "unlease"}, ReadLease(w, n, next),
                  n.run = t.run, n.failed = t.failed, t.at \in Begun,
                  next = "insert" => n.case \in Cases
           PROVE  IsReal(worker'[w], run')
      <3>1. n.run \in Runs
        BY <2>1, <2>12 DEF IsReal
      <3>2. [row |-> run[n.run], results |-> results[n.run]] \in Readings
        BY <3>1 DEF TypeOK, Readings
      <3> DEFINE m == [n EXCEPT !.at = next, !.view = [row |-> run[n.run], results |-> results[n.run]]]
      <3>3. /\ m.at = next /\ m.run = t.run /\ m.failed = t.failed /\ m.view \in Readings
            /\ m.case = n.case
        BY <2>12, <3>2 DEF Tasks
      <3>4. Become(w, m) \/ Become(w, Idle)
        BY <2>12 DEF ReadLease
      <3> HIDE DEF m
      <3> QED BY <2>6, <2>10, <2>12, <3>3, <3>4 DEF Begun
    <2>13. CASE RecordReads(w)
      <3>1. PICK result \in Outcomes(t.made) : ReadLease(w, [t EXCEPT !.result = result], "insert")
        BY <2>13 DEF RecordReads
      <3>2. result \in Results
        BY <2>1, OutcomesAreResults DEF Tasks
      <3> DEFINE n == [t EXCEPT !.result = result]
      <3>3. n \in Tasks /\ n.run = t.run /\ n.failed = t.failed /\ n.case = t.case
        BY <2>1, <3>2 DEF Tasks
      <3>4. t.at \in Begun /\ t.case \in Cases
        BY <2>1, <2>13 DEF RecordReads, Begun, IsReal
      <3> HIDE DEF n
      <3> QED BY <2>12, <3>1, <3>3, <3>4 DEF n
    <2>14. CASE CompleteReads(w) \/ ReleaseReads(w)
      BY <2>1, <2>12, <2>14 DEF CompleteReads, ReleaseReads, Begun
    <2>15. CASE Record(w)
      <3> DEFINE goOn == [t EXCEPT !.at = "next", !.case = None, !.view = None,
                                   !.result = NoResult, !.made = 0]
                 stop == [goOn EXCEPT !.at = "release"]
      <3>1. /\ goOn.at = "next" /\ goOn.run = t.run /\ goOn.failed = t.failed
            /\ stop.at = "release" /\ stop.run = t.run /\ stop.failed = t.failed
        BY <2>1 DEF Tasks
      <3>2. t.at \in Begun
        BY <2>15 DEF Record, Begun
      <3>3. Become(w, goOn) \/ Become(w, stop)
        BY <2>15 DEF Record
      <3> HIDE DEF goOn, stop
      <3> QED BY <2>10, <3>1, <3>2, <3>3 DEF Begun
    <2>16. CASE LockTimeout(w) /\ t.at \notin {"claim", "unlease"}
      <3> DEFINE stop == [t EXCEPT !.at = "release"]
      <3>1. t.at \in Begun
        <4>1. Target(w) # None
          BY <2>16, EvaluationAssumption DEF LockTimeout
        <4> QED BY <2>16, <4>1 DEF Target, Begun
      <3>2. stop.at = "release" /\ stop.run = t.run /\ stop.failed = t.failed
        BY <2>1 DEF Tasks
      <3>3. Become(w, stop)
        BY <2>16 DEF LockTimeout
      <3> HIDE DEF stop
      <3> QED BY <2>10, <3>1, <3>2, <3>3 DEF Begun
    <2>17. CASE Claim(w) \/ NextCase(w) \/ MarkExhausted(w)
      BY <2>6, <2>7, <2>8, <2>9, <2>11, <2>17 DEF Claim, NextCase, MarkExhausted
    <2>18. CASE NothingToClaim(w) \/ Complete(w) \/ GiveUp(w) \/ Crash(w)
      BY <2>6, <2>18 DEF NothingToClaim, Complete, GiveUp, Crash
    <2>19. CASE LockTimeout(w)
      BY <2>6, <2>16, <2>19 DEF LockTimeout
    <2> QED BY <1>3, <2>5, <2>13, <2>14, <2>15, <2>17, <2>18, <2>19 DEF Work
  <1> QED BY <1>2, <1>3, WorkerSteps

-----------------------------------------------------------------------------
(* Leases and the budget of an attempt                                     *)

LEMMA Distributes ==
    ASSUME NEW m \in Nat, NEW a \in Nat
    PROVE  m * (a + 1) = m * a + m /\ m * a \in Nat
  OBVIOUS

\* Only a claim gives a worker a lease, and only its owner spends on a run.
LEMMA LeaseSteps ==
    ASSUME TypeOK, TasksAreReal, [Next]_vars, NEW v \in Workers, NEW q \in Runs,
           run[q].status # "NONE", run'[q].status = "RUNNING", run'[q].owner = v,
           ~ Claim(v), ~ NextCase(v)
    PROVE  /\ run[q].status = "RUNNING" /\ run[q].owner = v
           /\ run'[q].attempts = run[q].attempts /\ spent'[q] = spent[q]
  <1> DEFINE Kept == /\ run[q].status = "RUNNING" /\ run[q].owner = v
                     /\ run'[q].attempts = run[q].attempts /\ spent'[q] = spent[q]
  <1> SUFFICES Kept
    OBVIOUS
  <1>0. run[q] \in RunRows /\ None \notin Workers
    BY EvaluationAssumption DEF TypeOK
  <1>1. CASE UNCHANGED <<run, spent>>
    BY <1>1
  <1>2. ASSUME NEW h \in Handlers, CreateRetest(h)
        PROVE  Kept
    BY <1>2 DEF CreateRetest, TypeOK
  <1>3. ASSUME NEW r \in Runs, CreateRun(r, Cases) \/ Expire(r)
        PROVE  Kept
    <2>1. CASE CreateRun(r, Cases)
      BY <2>1 DEF CreateRun, TypeOK
    <2>2. CASE Expire(r)
      <3>1. run'[q] \in {run[q], [run[q] EXCEPT !.due = TRUE]} /\ spent' = spent
        BY <2>2 DEF Expire, TypeOK
      <3> QED BY <1>0, <3>1 DEF RunRows
    <2> QED BY <1>3, <2>1, <2>2
  <1>4. ASSUME NEW w \in Workers, Work(w) \/ Crash(w)
        PROVE  Kept
    <2>0. worker[w].at \in Begun => worker[w].run \in Runs
      BY DEF TasksAreReal, IsReal
    <2>1. CASE NothingToClaim(w)
      BY <1>0, <2>1 DEF NothingToClaim, Commit, Exhausted, RunRows
    <2>2. CASE Claim(w)
      <3>1. w # v
        BY <2>2
      <3> DEFINE r == Candidate(w)
      <3>2. r \in Runs
        BY <2>2, CandidateIsClaimable DEF Claim
      <3> HIDE DEF r
      <3>3. CASE StillClaimable(w, r)
        <4>1. run' = [p \in Runs |->
                        IF p = r THEN [run[r] EXCEPT !.status = "RUNNING", !.owner = w, !.due = FALSE,
                                                     !.attempts = @ + 1, !.version = @ + 1]
                        ELSE IF p \in worker[w].failed THEN Exhausted(run[p]) ELSE run[p]]
          BY <2>2, <3>3 DEF Claim, r
        <4>2. q # r
          BY <1>0, <3>1, <4>1 DEF RunRows
        <4>3. run'[q] = run[q]
          BY <1>0, <4>1, <4>2 DEF Exhausted, RunRows
        <4> QED BY <2>2, <4>3 DEF Claim
      <3>4. CASE ~ StillClaimable(w, r)
        BY <2>2, <3>4 DEF Claim, r
      <3> QED BY <3>3, <3>4
    <2>3. CASE NextCase(w)
      <3>1. w # v /\ worker[w].run \in Runs
        BY <2>0, <2>3 DEF NextCase, Begun
      <3>2. CASE HoldsLease(run[worker[w].run], w)
        <4>1. /\ run' = [run EXCEPT ![worker[w].run] = [run[worker[w].run] EXCEPT !.version = @ + 1]]
              /\ \E n : spent' = [spent EXCEPT ![worker[w].run] = @ + n]
          BY <2>3, <3>2 DEF NextCase
        <4>2. q # worker[w].run
          BY <1>0, <3>1, <3>2, <4>1 DEF HoldsLease, TypeOK, RunRows
        <4> QED BY <3>1, <4>1, <4>2 DEF TypeOK
      <3>3. CASE ~ HoldsLease(run[worker[w].run], w)
        BY <2>3, <3>3 DEF NextCase
      <3> QED BY <3>2, <3>3
    <2>4. CASE Record(w)
      <3>1. worker[w].run \in Runs
        BY <2>0, <2>4 DEF Record, Begun
      <3>2. \/ UNCHANGED run
            \/ run' = [run EXCEPT ![worker[w].run] =
                         [run[worker[w].run] EXCEPT !.calls = @ + worker[w].result.calls]]
        BY <2>4 DEF Record, Recorded
      <3>3. spent' = spent
        BY <2>4 DEF Record
      <3>4. run'[q] \in {run[q], [run[q] EXCEPT !.calls = @ + worker[w].result.calls]}
        BY <3>1, <3>2 DEF TypeOK
      <3> QED BY <1>0, <3>3, <3>4 DEF RunRows
    <2>5. CASE Complete(w)
      <3>1. worker[w].run \in Runs
        BY <2>0, <2>5 DEF Complete, Begun
      <3> QED BY <1>0, <2>5, <3>1 DEF Complete, TypeOK, RunRows
    <2>6. CASE GiveUp(w)
      <3>1. worker[w].run \in Runs
        BY <2>0, <2>6 DEF GiveUp, Begun
      <3>2. run'[q].owner \in {None, run[q].owner} /\ (q = worker[w].run => run'[q].owner = None)
        BY <1>0, <2>6, <3>1 DEF GiveUp, TypeOK, RunRows
      <3>3. q # worker[w].run
        BY <1>0, <3>2
      <3> QED BY <2>6, <3>1, <3>3 DEF GiveUp, TypeOK
    <2> QED BY <1>1, <1>4, <2>1, <2>2, <2>3, <2>4, <2>5, <2>6 DEF Work, Crash, BeginClaim, MarkExhausted,
               RecordReads, CompleteReads, ReleaseReads, ReadLease, LockTimeout
  <1>5. \/ UNCHANGED <<run, spent>>
        \/ \E h \in Handlers : CreateRetest(h)
        \/ \E r \in Runs : CreateRun(r, Cases) \/ Expire(r)
        \/ \E w \in Workers : Work(w) \/ Crash(w)
    BY DEF Next, Govern, NextRuns, WriteBaseline, Judge, ReadBaseline, ReadForRetest, ReadForVerify,
           Archive, StartWork, MarkReady, Close, Transition, vars, runVars
  <1> QED BY <1>1, <1>2, <1>3, <1>4, <1>5

LEMMA KeepsGuarded ==
    ASSUME TypeOK, TasksAreReal, Accounted, Guarded, [Next]_vars
    PROVE  Guarded'
  <1> SUFFICES ASSUME NEW v \in Workers
               PROVE  IsGuarded(v, worker'[v], run'[worker'[v].run], spent'[worker'[v].run])
    BY DEF Guarded
  <1> DEFINE t == worker[v]
             u == worker'[v]
  <1>1. /\ t \in Tasks /\ IsReal(t, run) /\ IsGuarded(v, t, run[t.run], spent[t.run])
        /\ t.guard \in Nat /\ t.made \in Nat /\ MaxCalls \in Nat
    BY EvaluationAssumption DEF TypeOK, TasksAreReal, Guarded, Tasks
  <1>2. CASE u.at \notin Begun
    BY <1>2 DEF IsGuarded, Begun
  <1>3. ASSUME ~ Claim(v), ~ NextCase(v), t.at \in Begun, u.run = t.run, u.guard = t.guard,
               u.at \in {"next", "case", "insert", "finish"} => t.at \in {"next", "case", "insert", "finish"},
               u.at = "insert" => u.result.calls <= u.made /\ u.result.status # "NONE"
        PROVE  IsGuarded(v, u, run'[u.run], spent'[u.run])
    <2>1. t.run \in Runs /\ run[t.run].status # "NONE"
      BY <1>1, <1>3 DEF IsReal
    <2>2. run'[t.run].status = "RUNNING" /\ run'[t.run].owner = v =>
              /\ run[t.run].status = "RUNNING" /\ run[t.run].owner = v
              /\ run'[t.run].attempts = run[t.run].attempts /\ spent'[t.run] = spent[t.run]
      BY <1>3, <2>1, LeaseSteps
    <2> QED BY <1>1, <1>3, <2>2 DEF IsGuarded
  <1>4. CASE Claim(v)
    <2> DEFINE r == Candidate(v)
    <2>1. r \in Runs /\ t.at = "claim"
      BY <1>4, CandidateIsClaimable DEF Claim
    <2> HIDE DEF r
    <2>2. CASE StillClaimable(v, r)
      <3>1. PICK n \in Begin(r) : Become(v, n)
        BY <1>4, <2>2 DEF Claim, r
      <3>2. u = n
        BY <3>1 DEF Become, TypeOK
      <3>3. /\ n.run = r /\ n.guard = run[r].calls /\ n.at \in {"next", "release"}
            /\ n.at = "next" => run[r].calls <= MaxCalls
        BY <3>1 DEF Begin, Idle
      <3>4. run'[r].attempts = run[r].attempts + 1 /\ spent' = spent
        BY <1>4, <2>1, <2>2 DEF Claim, r, TypeOK, RunRows
      <3>5. /\ run[r].calls \in Nat /\ run[r].attempts \in Nat /\ spent[r] \in Nat
            /\ spent[r] <= MaxCalls * run[r].attempts
        BY <2>1 DEF TypeOK, RunRows, Accounted
      <3>6. MaxCalls * (run[r].attempts + 1) = MaxCalls * run[r].attempts + MaxCalls
            /\ MaxCalls * run[r].attempts \in Nat
        BY <1>1, <3>5, Distributes
      <3>7. spent'[r] + MaxCalls <= MaxCalls * run'[r].attempts + n.guard
        <4> DEFINE m == MaxCalls * run[r].attempts
        <4>1. spent[r] + MaxCalls <= m + MaxCalls + run[r].calls
          <5>1. m \in Nat /\ spent[r] <= m
            BY <3>5, <3>6
          <5> HIDE DEF m
          <5> QED BY <1>1, <3>5, <5>1
        <4> QED BY <3>3, <3>4, <3>6, <4>1
      <3> QED BY <3>2, <3>3, <3>7 DEF IsGuarded
    <2>3. CASE ~ StillClaimable(v, r)
      BY <1>2, <1>4, <2>1, <2>3 DEF Claim, r, Begun
    <2> QED BY <2>2, <2>3
  <1>5. CASE NextCase(v)
    <2> DEFINE r == t.run
    <2>1. r \in Runs /\ t.at = "next"
      BY <1>1, <1>5 DEF NextCase, IsReal, Begun
    <2>2. CASE HoldsLease(run[r], v)
      <3>1. PICK n \in 0..Allowed(t.guard) :
                /\ Become(v, [t EXCEPT !.at = "case", !.case = Min(Missing(r)),
                                       !.guard = @ + n, !.made = n])
                /\ spent' = [spent EXCEPT ![r] = @ + n]
        BY <1>5, <2>2 DEF NextCase
      <3>2. u = [t EXCEPT !.at = "case", !.case = Min(Missing(r)), !.guard = @ + n, !.made = n]
        BY <3>1 DEF Become, TypeOK
      <3>3. u.at = "case" /\ u.run = r /\ u.guard = t.guard + n
        BY <1>1, <3>2 DEF Tasks
      <3>4. n \in Nat /\ t.guard + n <= MaxCalls
        BY <1>1, <3>1 DEF Allowed
      <3>5. run' = [run EXCEPT ![r] = [run[r] EXCEPT !.version = @ + 1]]
        BY <1>5, <2>2 DEF NextCase
      <3>6. run'[r].attempts = run[r].attempts /\ spent'[r] = spent[r] + n
        BY <2>1, <3>1, <3>5 DEF TypeOK, RunRows
      <3>7. spent[r] + MaxCalls <= MaxCalls * run[r].attempts + t.guard
        BY <1>1, <2>1, <2>2 DEF IsGuarded, HoldsLease, Begun
      <3>8. spent'[r] + MaxCalls <= MaxCalls * run'[r].attempts + u.guard
        <4> DEFINE m == MaxCalls * run[r].attempts
        <4>1. m \in Nat /\ spent[r] \in Nat
          BY <1>1, <2>1, Distributes DEF TypeOK, RunRows
        <4>2. spent[r] + MaxCalls <= m + t.guard
          BY <3>7
        <4> HIDE DEF m
        <4>3. (spent[r] + n) + MaxCalls <= m + (t.guard + n)
          BY <1>1, <3>4, <4>1, <4>2
        <4> QED BY <3>3, <3>6, <4>3 DEF m
      <3> QED BY <3>3, <3>4, <3>8 DEF IsGuarded
    <2>3. CASE ~ HoldsLease(run[r], v)
      <3>1. u = Idle
        BY <1>5, <2>3 DEF NextCase, Become, TypeOK
      <3> QED BY <1>2, <3>1 DEF Idle, Begun
    <2> QED BY <2>2, <2>3
  <1>6. CASE u = t /\ ~ Claim(v) /\ ~ NextCase(v)
    BY <1>1, <1>2, <1>3, <1>6 DEF IsGuarded
  <1>7. CASE Become(v, Idle)
    <2>1. u = Idle
      BY <1>7 DEF Become, TypeOK
    <2> QED BY <1>2, <2>1 DEF Idle, Begun
  <1>8. CASE (Work(v) \/ Crash(v)) /\ ~ Claim(v) /\ ~ NextCase(v)
    <2>1. CASE BeginClaim(v)
      <3>1. u = [Idle EXCEPT !.at = "claim", !.view = run]
        BY <2>1 DEF BeginClaim, Become, TypeOK
      <3> QED BY <1>2, <3>1 DEF Idle, Begun
    <2>2. CASE MarkExhausted(v)
      <3>1. u.at = "claim"
        BY <1>1, <2>2 DEF MarkExhausted, TypeOK, Tasks
      <3> QED BY <1>2, <3>1 DEF Begun
    <2>3. ASSUME NEW n \in Tasks, NEW next \in {"insert", "finish", "unlease"}, ReadLease(v, n, next),
                 n.run = t.run, n.guard = t.guard, t.at \in Begun,
                 next \in {"insert", "finish"} => t.at \in {"next", "case", "insert", "finish"},
                 next = "insert" => n.result.calls <= n.made /\ n.result.status # "NONE"
          PROVE  IsGuarded(v, u, run'[u.run], spent'[u.run])
      <3> DEFINE m == [n EXCEPT !.at = next, !.view = [row |-> run[n.run], results |-> results[n.run]]]
      <3>1. m.at = next /\ m.run = n.run /\ m.guard = n.guard /\ m.result = n.result /\ m.made = n.made
        BY DEF Tasks
      <3>2. Become(v, m) \/ Become(v, Idle)
        BY <2>3 DEF ReadLease
      <3> HIDE DEF m
      <3>3. CASE Become(v, m)
        <4>1. u = m
          BY <3>3 DEF Become, TypeOK
        <4> QED BY <1>3, <1>8, <2>3, <3>1, <4>1
      <3> QED BY <1>7, <3>2, <3>3
    <2>4. CASE RecordReads(v)
      <3>1. PICK result \in Outcomes(t.made) : ReadLease(v, [t EXCEPT !.result = result], "insert")
        BY <2>4 DEF RecordReads
      <3>2. result \in Results /\ result.calls <= t.made /\ result.status # "NONE"
        BY <1>1, OutcomesAreResults
      <3> DEFINE n == [t EXCEPT !.result = result]
      <3>3. n \in Tasks /\ n.run = t.run /\ n.guard = t.guard /\ n.made = t.made /\ n.result = result
        BY <1>1, <3>2 DEF Tasks
      <3>4. t.at = "case"
        BY <2>4 DEF RecordReads
      <3> HIDE DEF n
      <3> QED BY <2>3, <3>1, <3>2, <3>3, <3>4 DEF n, Begun
    <2>5. CASE CompleteReads(v) \/ ReleaseReads(v)
      BY <1>1, <2>3, <2>5 DEF CompleteReads, ReleaseReads, Begun
    <2>6. CASE Record(v)
      <3> DEFINE goOn == [t EXCEPT !.at = "next", !.case = None, !.view = None,
                                   !.result = NoResult, !.made = 0]
                 stop == [goOn EXCEPT !.at = "release"]
      <3>1. /\ goOn.at = "next" /\ goOn.run = t.run /\ goOn.guard = t.guard
            /\ stop.at = "release" /\ stop.run = t.run /\ stop.guard = t.guard
        BY <1>1 DEF Tasks
      <3>2. t.at = "insert"
        BY <2>6 DEF Record
      <3>3. Become(v, goOn) \/ Become(v, stop)
        BY <2>6 DEF Record
      <3> HIDE DEF goOn, stop
      <3>4. u = goOn \/ u = stop
        BY <3>3 DEF Become, TypeOK
      <3> QED BY <1>3, <1>8, <3>1, <3>2, <3>4 DEF Begun
    <2>7. CASE LockTimeout(v) /\ t.at \notin {"claim", "unlease"}
      <3> DEFINE stop == [t EXCEPT !.at = "release"]
      <3>1. t.at \in Begun
        <4>1. Target(v) # None
          BY <2>7, EvaluationAssumption DEF LockTimeout
        <4> QED BY <2>7, <4>1 DEF Target, Begun
      <3>2. stop.at = "release" /\ stop.run = t.run /\ stop.guard = t.guard
        BY <1>1 DEF Tasks
      <3>3. u = stop
        BY <2>7 DEF LockTimeout, Become, TypeOK
      <3> HIDE DEF stop
      <3> QED BY <1>3, <1>8, <3>1, <3>2, <3>3
    <2>8. CASE NothingToClaim(v) \/ Complete(v) \/ GiveUp(v) \/ Crash(v)
      BY <1>7, <2>8 DEF NothingToClaim, Complete, GiveUp, Crash
    <2>9. CASE LockTimeout(v)
      BY <1>7, <2>7, <2>9 DEF LockTimeout
    <2> QED BY <1>8, <2>1, <2>2, <2>4, <2>5, <2>6, <2>8, <2>9 DEF Work
  <1>9. u = t \/ Work(v) \/ Crash(v)
    BY WorkerSteps, OnlyOneMoves
  <1> QED BY <1>4, <1>5, <1>6, <1>8, <1>9

-----------------------------------------------------------------------------
(* Usage                                                                   *)

\* What a task has made and not yet recorded of the calls of run q.
MadeFor(q, t) == IF t.run = q THEN t.made ELSE 0

LEMMA UnrecordedIsNat ==
    ASSUME NEW q, NEW tasks \in [Workers -> Tasks]
    PROVE  Unrecorded(q, tasks) \in Nat
  <1> DEFINE f == [w \in Workers |-> MadeFor(q, tasks[w])]
  <1>1. \A w \in Workers : f[w] \in Nat
    BY DEF Tasks, MadeFor
  <1>2. SumFunctionOnSet(f, Workers) \in Nat
    <2> HIDE DEF f
    <2> QED BY <1>1, SumIsNat, EvaluationAssumption
  <1> QED BY <1>2 DEF Unrecorded, MadeFor, SumFunction

LEMMA UnrecordedChanges ==
    ASSUME NEW q, NEW tasks \in [Workers -> Tasks], NEW w \in Workers, NEW t \in Tasks
    PROVE  Unrecorded(q, [tasks EXCEPT ![w] = t]) + MadeFor(q, tasks[w])
               = Unrecorded(q, tasks) + MadeFor(q, t)
  <1> DEFINE after == [tasks EXCEPT ![w] = t]
             f == [v \in Workers |-> MadeFor(q, tasks[v])]
             g == [v \in Workers |-> MadeFor(q, after[v])]
  <1>1. after \in [Workers -> Tasks] /\ after[w] = t /\ \A v \in Workers \ {w} : after[v] = tasks[v]
    OBVIOUS
  <1>2. f \in [Workers -> Nat]
    BY DEF Tasks, MadeFor
  <1>3. g \in [Workers -> Nat] /\ g[w] = MadeFor(q, t) /\ \A v \in Workers \ {w} : f[v] = g[v]
    <2> HIDE DEF after
    <2> QED BY <1>1 DEF Tasks, MadeFor
  <1>4. f[w] = MadeFor(q, tasks[w])
    OBVIOUS
  <1>5. Unrecorded(q, tasks) = SumFunction(f) /\ Unrecorded(q, after) = SumFunction(g)
    BY DEF Unrecorded, MadeFor
  <1> HIDE DEF f, g
  <1>6. SumFunction(g) + f[w] = SumFunction(f) + g[w]
    BY <1>2, <1>3, SumChanges, EvaluationAssumption
  <1> QED BY <1>3, <1>4, <1>5, <1>6

\* A result that is recorded adds its calls to those the results of its run have used.
LEMMA UsedChanges ==
    ASSUME NEW recorded \in [Cases -> Results], NEW c \in Cases, NEW result \in Results,
           recorded[c] = NoResult
    PROVE  Used([recorded EXCEPT ![c] = result]) = Used(recorded) + result.calls
  <1> DEFINE after == [recorded EXCEPT ![c] = result]
             f == [d \in Cases |-> recorded[d].calls]
             g == [d \in Cases |-> after[d].calls]
  <1>1. f \in [Cases -> Nat] /\ f[c] = 0
    BY DEF Results, NoResult
  <1>2. g \in [Cases -> Nat] /\ g[c] = result.calls /\ \A d \in Cases \ {c} : f[d] = g[d]
    BY DEF Results
  <1>3. Used(recorded) = SumFunction(f) /\ Used(after) = SumFunction(g)
    BY DEF Used
  <1>4. SumFunction(f) \in Nat
    <2>1. \A d \in Cases : f[d] \in Nat
      BY <1>1
    <2> HIDE DEF f
    <2>2. DOMAIN f = Cases
      BY <1>1
    <2> QED BY <2>1, <2>2, SumIsNat, EvaluationAssumption DEF SumFunction
  <1> HIDE DEF f, g
  <1>5. SumFunction(g) + f[c] = SumFunction(f) + g[c]
    <2>1. f \in [Cases -> Nat] /\ g \in [Cases -> Nat] /\ IsFiniteSet(Cases)
          /\ \A d \in Cases \ {c} : f[d] = g[d]
      BY <1>1, <1>2, EvaluationAssumption
    <2> QED BY <2>1, SumChanges
  <1>6. SumFunction(g) \in Nat
    <2>1. \A d \in Cases : g[d] \in Nat
      BY <1>2
    <2>2. DOMAIN g = Cases
      BY <1>2
    <2> QED BY <2>1, <2>2, SumIsNat, EvaluationAssumption DEF SumFunction
  <1> QED BY <1>1, <1>2, <1>3, <1>4, <1>5, <1>6

LEMMA NothingIsUsed == Used([c \in Cases |-> NoResult]) = 0
  <1> DEFINE f == [c \in Cases |-> [d \in Cases |-> NoResult][c].calls]
  <1>1. DOMAIN f = Cases /\ \A c \in Cases : f[c] = 0
    BY DEF NoResult
  <1>2. SumFunctionOnSet(f, Cases) = 0
    <2> HIDE DEF f
    <2> QED BY <1>1, SumOfZeros, EvaluationAssumption
  <1> QED BY <1>2 DEF Used, SumFunction

\* A task that goes on keeps what it has made, or drops it.
LEMMA MadeSteps ==
    ASSUME TypeOK, NEW w \in Workers, Work(w) \/ Crash(w), ~ NextCase(w)
    PROVE  /\ worker' = [worker EXCEPT ![w] = worker'[w]]
           /\ \/ worker'[w].made = 0
              \/ worker'[w].made = worker[w].made /\ worker'[w].run = worker[w].run
  <1>0. worker[w] \in Tasks
    BY DEF TypeOK
  <1>1. ASSUME NEW t, Become(w, t), t.made = 0 \/ (t.made = worker[w].made /\ t.run = worker[w].run)
        PROVE  /\ worker' = [worker EXCEPT ![w] = worker'[w]]
               /\ \/ worker'[w].made = 0
                  \/ worker'[w].made = worker[w].made /\ worker'[w].run = worker[w].run
    BY <1>1 DEF Become, TypeOK
  <1>2. CASE worker' = worker
    BY <1>2 DEF TypeOK
  <1>3. CASE Become(w, Idle)
    BY <1>1, <1>3 DEF Idle
  <1>4. CASE BeginClaim(w)
    <2>1. [Idle EXCEPT !.at = "claim", !.view = run].made = 0
      BY DEF Idle
    <2> QED BY <1>1, <1>4, <2>1 DEF BeginClaim
  <1>5. CASE MarkExhausted(w)
    <2>1. \/ worker' = worker
          \/ Become(w, [worker[w] EXCEPT !.failed = @ \cup {Candidate(w)}])
      BY <1>5 DEF MarkExhausted, Become
    <2> QED BY <1>0, <1>1, <1>2, <2>1 DEF Tasks
  <1>6. CASE Claim(w)
    <2>1. \A t \in Begin(Candidate(w)) : t.made = 0
      BY DEF Begin, Idle
    <2> QED BY <1>1, <1>2, <1>6, <2>1 DEF Claim
  <1>7. ASSUME NEW t \in Tasks, NEW next, ReadLease(w, t, next), t.run = worker[w].run,
               t.made = worker[w].made
        PROVE  /\ worker' = [worker EXCEPT ![w] = worker'[w]]
               /\ \/ worker'[w].made = 0
                  \/ worker'[w].made = worker[w].made /\ worker'[w].run = worker[w].run
    <2> DEFINE m == [t EXCEPT !.at = next, !.view = [row |-> run[t.run], results |-> results[t.run]]]
    <2>1. m.made = t.made /\ m.run = t.run
      BY DEF Tasks
    <2>2. Become(w, m) \/ Become(w, Idle)
      BY <1>7 DEF ReadLease
    <2> HIDE DEF m
    <2> QED BY <1>1, <1>3, <1>7, <2>1, <2>2
  <1>8. CASE RecordReads(w)
    <2>1. PICK result \in Outcomes(worker[w].made) :
              ReadLease(w, [worker[w] EXCEPT !.result = result], "insert")
      BY <1>8 DEF RecordReads
    <2>2. result \in Results
      BY <1>0, OutcomesAreResults DEF Tasks
    <2> DEFINE n == [worker[w] EXCEPT !.result = result]
    <2>3. n \in Tasks /\ n.run = worker[w].run /\ n.made = worker[w].made
      BY <1>0, <2>2 DEF Tasks
    <2> HIDE DEF n
    <2> QED BY <1>7, <2>1, <2>3 DEF n
  <1>9. CASE CompleteReads(w) \/ ReleaseReads(w)
    BY <1>0, <1>7, <1>9 DEF CompleteReads, ReleaseReads
  <1>10. CASE Record(w)
    <2> DEFINE goOn == [worker[w] EXCEPT !.at = "next", !.case = None, !.view = None,
                                         !.result = NoResult, !.made = 0]
               stop == [goOn EXCEPT !.at = "release"]
    <2>1. goOn.made = 0 /\ stop.made = 0
      BY <1>0 DEF Tasks
    <2>2. Become(w, goOn) \/ Become(w, stop)
      BY <1>10 DEF Record
    <2> HIDE DEF goOn, stop
    <2> QED BY <1>1, <2>1, <2>2
  <1>11. CASE LockTimeout(w)
    <2> DEFINE stop == [worker[w] EXCEPT !.at = "release"]
    <2>1. stop.made = worker[w].made /\ stop.run = worker[w].run
      BY <1>0 DEF Tasks
    <2>2. Become(w, stop) \/ Become(w, Idle)
      BY <1>11 DEF LockTimeout
    <2> HIDE DEF stop
    <2> QED BY <1>1, <1>3, <2>1, <2>2
  <1>12. CASE NothingToClaim(w) \/ Complete(w) \/ GiveUp(w) \/ Crash(w)
    BY <1>3, <1>12 DEF NothingToClaim, Complete, GiveUp, Crash
  <1> QED BY <1>4, <1>5, <1>6, <1>8, <1>9, <1>10, <1>11, <1>12 DEF Work

LEMMA KeepsAccounted ==
    ASSUME TypeOK, TypeOK', TasksAreReal, UncreatedIsEmpty, Accounted, Guarded, [Next]_vars
    PROVE  Accounted'
  <1> DEFINE Balanced(q) == /\ run'[q].calls = Used(results'[q])
                            /\ run'[q].calls + Unrecorded(q, worker') <= spent'[q]
                            /\ spent'[q] <= MaxCalls * run'[q].attempts
  <1> SUFFICES ASSUME NEW q \in Runs
               PROVE  Balanced(q)
    BY DEF Accounted
  <1>0. /\ run[q] \in RunRows /\ run[q].calls \in Nat /\ run[q].attempts \in Nat
        /\ spent[q] \in Nat /\ spent'[q] \in Nat /\ MaxCalls \in Nat
        /\ run'[q].calls \in Nat /\ run'[q].attempts \in Nat
        /\ worker \in [Workers -> Tasks] /\ worker' \in [Workers -> Tasks]
        /\ results[q] \in [Cases -> Results]
    BY EvaluationAssumption DEF TypeOK, RunRows
  <1>1. Unrecorded(q, worker) \in Nat /\ Unrecorded(q, worker') \in Nat
    BY <1>0, UnrecordedIsNat
  <1>2. /\ run[q].calls = Used(results[q])
        /\ run[q].calls + Unrecorded(q, worker) <= spent[q]
        /\ spent[q] <= MaxCalls * run[q].attempts
    BY DEF Accounted
  <1>3. MaxCalls * run[q].attempts \in Nat
        /\ MaxCalls * (run[q].attempts + 1) = MaxCalls * run[q].attempts + MaxCalls
    BY <1>0, Distributes
  <1>4. CASE \E w \in Workers : Records(w)
    <2>1. PICK w \in Workers : Records(w)
      BY <1>4
    <2> DEFINE t == worker[w]
    <2>2. /\ t \in Tasks /\ t.at = "insert" /\ t.run \in Runs /\ t.case \in Cases
          /\ t.result \in Results /\ t.result.calls <= t.made /\ t.made \in Nat /\ t.result.calls \in Nat
      BY <1>0, <2>1 DEF Records, Record, TasksAreReal, IsReal, Begun, Tasks, Guarded, IsGuarded, Results
    <2>3. /\ results' = [results EXCEPT ![t.run][t.case] = t.result]
          /\ run' = [run EXCEPT ![t.run].calls = @ + t.result.calls]
          /\ results[t.run][t.case] = NoResult /\ spent' = spent
      BY <2>1 DEF Records, Record, Recorded, Duplicate
    <2>4. worker' = [worker EXCEPT ![w] = worker'[w]] /\ worker'[w] \in Tasks
      BY <1>0, <2>1 DEF Records, Record, Become
    <2>5. worker'[w].made = 0
      <3> DEFINE goOn == [worker[w] EXCEPT !.at = "next", !.case = None, !.view = None,
                                           !.result = NoResult, !.made = 0]
                 stop == [goOn EXCEPT !.at = "release"]
      <3>1. goOn.made = 0 /\ stop.made = 0
        BY <2>2 DEF Tasks
      <3>2. Become(w, goOn) \/ Become(w, stop)
        BY <2>1 DEF Records, Record
      <3> HIDE DEF goOn, stop
      <3> QED BY <1>0, <3>1, <3>2 DEF Become
    <2>6. Unrecorded(q, worker') + MadeFor(q, t) = Unrecorded(q, worker)
      <3>1. Unrecorded(q, worker') + MadeFor(q, t) = Unrecorded(q, worker) + MadeFor(q, worker'[w])
        BY <1>0, <2>4, UnrecordedChanges
      <3> QED BY <1>1, <2>5, <3>1 DEF MadeFor
    <2>7. CASE q = t.run
      <3>1. results'[q] = [results[q] EXCEPT ![t.case] = t.result]
        BY <1>0, <2>3, <2>7 DEF TypeOK
      <3>2. Used(results'[q]) = Used(results[q]) + t.result.calls
        BY <1>0, <2>2, <2>3, <2>7, <3>1, UsedChanges
      <3>3. run'[q].calls = run[q].calls + t.result.calls /\ run'[q].attempts = run[q].attempts
        BY <1>0, <2>3, <2>7 DEF TypeOK, RunRows
      <3>4. Unrecorded(q, worker') + t.made = Unrecorded(q, worker)
        BY <2>6, <2>7 DEF MadeFor
      <3>5. run'[q].calls + Unrecorded(q, worker') <= spent[q]
        BY <1>0, <1>1, <1>2, <2>2, <3>3, <3>4
      <3> QED BY <1>2, <2>3, <3>2, <3>3, <3>5
    <2>8. CASE q # t.run
      <3>1. results'[q] = results[q] /\ run'[q] = run[q]
        BY <2>2, <2>3, <2>8 DEF TypeOK
      <3>2. Unrecorded(q, worker') = Unrecorded(q, worker)
        BY <1>1, <2>6, <2>8 DEF MadeFor
      <3> QED BY <1>2, <2>3, <3>1, <3>2
    <2> QED BY <2>7, <2>8
  <1>5. ASSUME NEW w \in Workers, NextCase(w), HoldsLease(run[worker[w].run], w)
        PROVE  Balanced(q)
    <2> DEFINE t == worker[w]
    <2>1. PICK n \in 0..Allowed(t.guard) :
              /\ Become(w, [t EXCEPT !.at = "case", !.case = Min(Missing(t.run)),
                                     !.guard = @ + n, !.made = n])
              /\ spent' = [spent EXCEPT ![t.run] = @ + n]
      BY <1>5 DEF NextCase
    <2>2. t \in Tasks /\ t.at = "next" /\ t.run \in Runs /\ t.guard \in Nat /\ t.made \in Nat
      BY <1>0, <1>5 DEF NextCase, TasksAreReal, IsReal, Begun, Tasks
    <2>3. n \in Nat /\ t.guard + n <= MaxCalls
      BY <1>0, <2>1, <2>2 DEF Allowed, Guarded, IsGuarded
    <2>4. run' = [run EXCEPT ![t.run] = [run[t.run] EXCEPT !.version = @ + 1]] /\ results' = results
      BY <1>5 DEF NextCase
    <2>5. run'[q].calls = run[q].calls /\ run'[q].attempts = run[q].attempts
      BY <1>0, <2>2, <2>4 DEF TypeOK, RunRows
    <2>6. worker' = [worker EXCEPT ![w] = worker'[w]] /\ worker'[w] \in Tasks
      BY <1>0, <2>1 DEF Become
    <2>7. worker'[w].made = n /\ worker'[w].run = t.run
      BY <1>0, <2>1, <2>2 DEF Become, Tasks
    <2>8. Unrecorded(q, worker') + MadeFor(q, t) = Unrecorded(q, worker) + MadeFor(q, worker'[w])
      BY <1>0, <2>6, UnrecordedChanges
    <2>9. CASE q = t.run
      <3>1. Unrecorded(q, worker') + t.made = Unrecorded(q, worker) + n
        BY <2>7, <2>8, <2>9 DEF MadeFor
      <3>2. spent'[q] = spent[q] + n
        BY <2>1, <2>2, <2>9 DEF TypeOK
      <3>3. run[q].calls + Unrecorded(q, worker') <= spent[q] + n
        BY <1>0, <1>1, <1>2, <2>2, <2>3, <3>1
      <3>4. spent[q] + MaxCalls <= MaxCalls * run[q].attempts + t.guard
        BY <1>5, <2>2, <2>9 DEF Guarded, IsGuarded, HoldsLease, Begun
      <3>5. spent[q] + n <= MaxCalls * run[q].attempts
        <4> DEFINE m == MaxCalls * run[q].attempts
        <4>1. m \in Nat /\ spent[q] + MaxCalls <= m + t.guard
          BY <1>3, <3>4
        <4> HIDE DEF m
        <4>2. spent[q] + n <= m
          BY <1>0, <2>2, <2>3, <4>1
        <4> QED BY <4>2 DEF m
      <3> QED BY <1>2, <2>4, <2>5, <3>2, <3>3, <3>5
    <2>10. CASE q # t.run
      <3>1. Unrecorded(q, worker') = Unrecorded(q, worker)
        BY <1>1, <2>7, <2>8, <2>10 DEF MadeFor
      <3>2. spent'[q] = spent[q]
        BY <2>1, <2>2, <2>10 DEF TypeOK
      <3> QED BY <1>2, <2>4, <2>5, <3>1, <3>2
    <2> QED BY <2>9, <2>10
  <1>6. ASSUME UNCHANGED <<results, spent>>, ~ \E w \in Workers : Records(w),
               Unrecorded(q, worker') <= Unrecorded(q, worker)
        PROVE  Balanced(q)
    <2>1. RowStep(q)
      BY RowSteps
    <2>2. run'[q].calls = run[q].calls
      BY <1>6, <2>1 DEF RowStep, Lasts, Created, UncreatedIsEmpty, NewRun, NoRun
    <2>3. MaxCalls * run[q].attempts <= MaxCalls * run'[q].attempts
      <3>1. CASE run'[q] = run[q]
        BY <1>3, <3>1
      <3>2. CASE Lasts(q)
        <4>1. run'[q].attempts = run[q].attempts \/ run'[q].attempts = run[q].attempts + 1
          BY <3>2 DEF Lasts
        <4> QED BY <1>0, <1>3, <4>1
      <3>3. CASE Created(q)
        <4>1. run[q].attempts = 0 /\ run'[q].attempts = 0
          BY <3>3 DEF Created, UncreatedIsEmpty, NewRun, NoRun
        <4> QED BY <1>3, <4>1
      <3> QED BY <2>1, <3>1, <3>2, <3>3 DEF RowStep
    <2>4. spent[q] <= MaxCalls * run'[q].attempts
      <3> DEFINE m == MaxCalls * run[q].attempts
                 n == MaxCalls * run'[q].attempts
      <3>1. m \in Nat /\ n \in Nat /\ m <= n /\ spent[q] <= m
        BY <1>0, <1>2, <1>3, <2>3, Distributes
      <3> HIDE DEF m, n
      <3>2. spent[q] <= n
        BY <1>0, <3>1
      <3> QED BY <3>2 DEF n
    <2>5. run[q].calls + Unrecorded(q, worker') <= spent[q]
      BY <1>0, <1>1, <1>2, <1>6
    <2> QED BY <1>2, <1>6, <2>2, <2>4, <2>5
  <1>7. ASSUME NEW w \in Workers, worker' = [worker EXCEPT ![w] = worker'[w]],
               \/ worker'[w].made = 0
               \/ worker'[w].made = worker[w].made /\ worker'[w].run = worker[w].run
        PROVE  Unrecorded(q, worker') <= Unrecorded(q, worker)
    <2>1. worker[w] \in Tasks /\ worker'[w] \in Tasks
      BY <1>0
    <2>2. Unrecorded(q, worker') + MadeFor(q, worker[w]) = Unrecorded(q, worker) + MadeFor(q, worker'[w])
      BY <1>0, <1>7, <2>1, UnrecordedChanges
    <2>3. /\ MadeFor(q, worker[w]) \in Nat /\ MadeFor(q, worker'[w]) \in Nat
          /\ MadeFor(q, worker'[w]) <= MadeFor(q, worker[w])
      BY <1>7, <2>1 DEF MadeFor, Tasks
    <2> QED BY <1>1, <2>2, <2>3
  <1>8. ASSUME NEW w \in Workers, NextCase(w), ~ HoldsLease(run[worker[w].run], w),
               ~ \E v \in Workers : Records(v)
        PROVE  Balanced(q)
    <2>1. Become(w, Idle) /\ UNCHANGED <<results, spent>>
      BY <1>8 DEF NextCase
    <2>2. worker' = [worker EXCEPT ![w] = worker'[w]] /\ worker'[w].made = 0
      BY <1>0, <2>1 DEF Become, Idle
    <2> QED BY <1>6, <1>7, <1>8, <2>1, <2>2
  <1>9. CASE UNCHANGED <<results, spent>> /\ ~ \E w \in Workers : NextCase(w) \/ Records(w)
    <2>1. CASE UNCHANGED worker
      BY <1>1, <1>6, <1>9, <2>1
    <2>2. ASSUME NEW w \in Workers, Work(w) \/ Crash(w)
          PROVE  Balanced(q)
      BY <1>6, <1>7, <1>9, <2>2, MadeSteps
    <2> QED BY <2>1, <2>2, WorkerSteps
  <1> QED BY <1>4, <1>5, <1>8, <1>9, SpentSteps

-----------------------------------------------------------------------------
(* Completion                                                              *)

LEMMA KeepsJudged ==
    ASSUME TypeOK, TasksAreReal, Guarded, ResultsAreJudged, [Next]_vars
    PROVE  ResultsAreJudged'
  <1> SUFFICES ASSUME NEW r \in Runs, NEW c \in Cases, results'[r][c].status = "NONE"
               PROVE  results'[r][c] = NoResult
    BY DEF ResultsAreJudged
  <1>1. CASE results' = results
    BY <1>1 DEF ResultsAreJudged
  <1>2. ASSUME NEW w \in Workers, Records(w)
        PROVE  results'[r][c] = NoResult
    <2>1. worker[w].run \in Runs /\ worker[w].case \in Cases /\ worker[w].result.status # "NONE"
      BY <1>2 DEF Records, Record, TasksAreReal, IsReal, Begun, Guarded, IsGuarded
    <2>2. results'[r][c] = results[r][c] \/ results'[r][c] = worker[w].result
      BY <1>2, <2>1 DEF Records, Recorded, TypeOK
    <2> QED BY <2>1, <2>2 DEF ResultsAreJudged
  <1>3. ASSUME NEW w \in Workers, NextCase(w)
        PROVE  results' = results
    BY <1>3 DEF NextCase
  <1> QED BY <1>1, <1>2, <1>3, SpentSteps

\* A worker that is to complete its run was so before, or has just read.
LEMMA FinishSteps ==
    ASSUME TypeOK, NEW w \in Workers, Work(w) \/ Crash(w), worker'[w].at = "finish"
    PROVE  worker' = worker \/ CompleteReads(w)
  <1>0. worker[w] \in Tasks
    BY DEF TypeOK
  <1>1. ASSUME NEW t, Become(w, t), t.at # "finish"
        PROVE  FALSE
    BY <1>1 DEF Become, TypeOK
  <1>2. ~ Become(w, Idle)
    BY <1>1 DEF Idle
  <1>3. ~ BeginClaim(w)
    <2>1. [Idle EXCEPT !.at = "claim", !.view = run].at # "finish"
      BY DEF Idle
    <2> QED BY <1>1, <2>1 DEF BeginClaim
  <1>4. ~ MarkExhausted(w)
    BY <1>0 DEF MarkExhausted, TypeOK, Tasks
  <1>5. Claim(w) => worker' = worker
    <2>1. \A t \in Begin(Candidate(w)) : t.at # "finish"
      BY DEF Begin, Idle
    <2> QED BY <1>1, <2>1 DEF Claim
  <1>6. ~ NextCase(w)
    <2>1. \A n, c : [worker[w] EXCEPT !.at = "case", !.case = c, !.guard = @ + n, !.made = n].at = "case"
      BY <1>0 DEF Tasks
    <2> QED BY <1>1, <1>2, <2>1 DEF NextCase
  <1>7. ASSUME NEW t \in Tasks, NEW next, ReadLease(w, t, next), next # "finish"
        PROVE  FALSE
    <2>1. [t EXCEPT !.at = next, !.view = [row |-> run[t.run], results |-> results[t.run]]].at = next
      BY DEF Tasks
    <2> QED BY <1>1, <1>2, <1>7, <2>1 DEF ReadLease
  <1>8. ~ RecordReads(w)
    <2> SUFFICES ASSUME RecordReads(w)
                 PROVE  FALSE
      OBVIOUS
    <2>1. PICK result \in Outcomes(worker[w].made) :
              ReadLease(w, [worker[w] EXCEPT !.result = result], "insert")
      BY DEF RecordReads
    <2>2. result \in Results
      BY <1>0, OutcomesAreResults DEF Tasks
    <2>3. [worker[w] EXCEPT !.result = result] \in Tasks
      BY <1>0, <2>2 DEF Tasks
    <2> QED BY <1>7, <2>1, <2>3
  <1>9. ~ ReleaseReads(w)
    BY <1>0, <1>7 DEF ReleaseReads
  <1>10. ~ Record(w)
    <2> DEFINE goOn == [worker[w] EXCEPT !.at = "next", !.case = None, !.view = None,
                                         !.result = NoResult, !.made = 0]
               stop == [goOn EXCEPT !.at = "release"]
    <2>1. goOn.at = "next" /\ stop.at = "release"
      BY <1>0 DEF Tasks
    <2>2. Record(w) => Become(w, goOn) \/ Become(w, stop)
      BY DEF Record
    <2> HIDE DEF goOn, stop
    <2> QED BY <1>1, <2>1, <2>2
  <1>11. ~ LockTimeout(w)
    <2>1. [worker[w] EXCEPT !.at = "release"].at = "release"
      BY <1>0 DEF Tasks
    <2> QED BY <1>1, <1>2, <2>1 DEF LockTimeout
  <1>12. ~ (NothingToClaim(w) \/ Complete(w) \/ GiveUp(w) \/ Crash(w))
    BY <1>2 DEF NothingToClaim, Complete, GiveUp, Crash
  <1> QED BY <1>3, <1>4, <1>5, <1>6, <1>8, <1>9, <1>10, <1>11, <1>12 DEF Work

LEMMA KeepsFounded ==
    ASSUME TypeOK, TasksAreReal, CompletionIsFounded, [Next]_vars
    PROVE  CompletionIsFounded'
  <1> SUFFICES ASSUME NEW v \in Workers, worker'[v].at = "finish"
               PROVE  IsFounded(worker'[v], run'[worker'[v].run].cases, results'[worker'[v].run])
    BY DEF CompletionIsFounded, IsFounded
  <1> DEFINE t == worker[v]
             r == t.run
  <1>1. CASE worker'[v] = t
    <2>1. r \in Runs /\ run[r].status # "NONE"
      BY <1>1 DEF TasksAreReal, IsReal, Begun
    <2>2. run'[r].cases = run[r].cases /\ run[r].cases \in SUBSET Cases
      BY <2>1, CreatedLasts DEF TypeOK, RunRows
    <2>3. \A c \in run[r].cases : t.view.results[c] # NoResult /\ results[r][c] = t.view.results[c]
      BY <1>1 DEF CompletionIsFounded, IsFounded
    <2>4. \A c \in run[r].cases : results'[r][c] = results[r][c]
      BY <2>1, <2>2, <2>3, ResultSteps
    <2> QED BY <1>1, <2>2, <2>3, <2>4 DEF IsFounded
  <1>2. CASE CompleteReads(v)
    <2>1. t \in Tasks /\ worker'[v] # Idle
      BY DEF TypeOK, Idle
    <2>2. worker'[v] = [t EXCEPT !.at = "finish", !.view = [row |-> run[r], results |-> results[r]]]
      BY <1>2, <2>1 DEF CompleteReads, ReadLease, Become, TypeOK
    <2>3. worker'[v].run = r /\ worker'[v].view.results = results[r]
      BY <2>1, <2>2 DEF Tasks
    <2>4. \A c \in run[r].cases : results[r][c] # NoResult
      BY <1>2 DEF CompleteReads, Missing
    <2>5. run' = run /\ results' = results
      BY <1>2 DEF CompleteReads, ReadLease
    <2> QED BY <2>3, <2>4, <2>5 DEF IsFounded
  <1> QED BY <1>1, <1>2, WorkerSteps, OnlyOneMoves, FinishSteps

LEMMA PartsAddUp ==
    ASSUME NEW S, IsFiniteSet(S), NEW A, NEW B, NEW C, S = A \cup B \cup C,
           A \cap B = {}, (A \cup B) \cap C = {}
    PROVE  Cardinality(A) + Cardinality(B) + Cardinality(C) = Cardinality(S)
  <1>1. IsFiniteSet(A) /\ IsFiniteSet(B) /\ IsFiniteSet(C) /\ IsFiniteSet(A \cup B)
    <2>1. A \subseteq S /\ B \subseteq S /\ C \subseteq S /\ (A \cup B) \subseteq S
      OBVIOUS
    <2> QED BY <2>1, FS_Subset
  <1>2. Cardinality(A \cup B) = Cardinality(A) + Cardinality(B) - Cardinality(A \cap B)
    BY <1>1, FS_Union
  <1>3. Cardinality((A \cup B) \cup C)
            = Cardinality(A \cup B) + Cardinality(C) - Cardinality((A \cup B) \cap C)
    BY <1>1, FS_Union
  <1>4. Cardinality(A \cap B) = 0 /\ Cardinality((A \cup B) \cap C) = 0
    BY FS_EmptySet
  <1>5. Cardinality(A) \in Nat /\ Cardinality(B) \in Nat /\ Cardinality(C) \in Nat
    BY <1>1, FS_CardinalityType
  <1>6. Cardinality(S) = Cardinality((A \cup B) \cup C)
    OBVIOUS
  <1> QED BY <1>2, <1>3, <1>4, <1>5, <1>6

\* rebuild_summary_and_complete counts each case once when each has a result.
LEMMA SummaryCountsAll ==
    ASSUME TypeOK, NEW r \in Runs, NEW seen,
           \A c \in run[r].cases : seen[c].status \in {"PASSED", "FAILED", "ERROR", "SKIPPED"}
    PROVE  LET s == SummaryOf(r, seen)
           IN s.passed + s.failed + s.skipped = Cardinality(run[r].cases)
  <1> DEFINE Of(verdicts) == {c \in run[r].cases : seen[c].status \in verdicts}
  <1>1. IsFiniteSet(run[r].cases)
    <2>1. run[r].cases \in SUBSET Cases
      BY DEF TypeOK, RunRows
    <2> QED BY <2>1, EvaluationAssumption, FS_Subset
  <1>2. run[r].cases = Of({"PASSED"}) \cup Of({"FAILED", "ERROR"}) \cup Of({"SKIPPED"})
    OBVIOUS
  <1>3. /\ Of({"PASSED"}) \cap Of({"FAILED", "ERROR"}) = {}
        /\ (Of({"PASSED"}) \cup Of({"FAILED", "ERROR"})) \cap Of({"SKIPPED"}) = {}
    OBVIOUS
  <1>4. Cardinality(Of({"PASSED"})) + Cardinality(Of({"FAILED", "ERROR"})) + Cardinality(Of({"SKIPPED"}))
            = Cardinality(run[r].cases)
    <2> HIDE DEF Of
    <2> QED BY <1>1, <1>2, <1>3, PartsAddUp
  <1> QED BY <1>4 DEF SummaryOf, With

\* Only rebuild_summary_and_complete completes a run or touches its summary.
LEMMA CompletionSteps ==
    ASSUME TypeOK, TasksAreReal, [Next]_vars, NEW q \in Runs, run'[q].status = "COMPLETED",
           ~ \E w \in Workers : Complete(w) /\ worker[w].run = q
    PROVE  run[q].status = "COMPLETED" /\ run'[q].summary = run[q].summary
  <1> DEFINE Kept == run[q].status = "COMPLETED" /\ run'[q].summary = run[q].summary
  <1> SUFFICES Kept
    OBVIOUS
  <1>0. run[q] \in RunRows
    BY DEF TypeOK
  <1>1. CASE UNCHANGED run
    BY <1>1
  <1>2. ASSUME NEW h \in Handlers, CreateRetest(h)
        PROVE  Kept
    <2>1. \A cs, b : NewRun(cs, b).status = "PENDING"
      BY DEF NewRun, NoRun
    <2>2. run' = run \/ \E cs, b : run' = [run EXCEPT ![command[h].run] = NewRun(cs, b)]
      BY <1>2 DEF CreateRetest
    <2>3. run'[q] = run[q] \/ \E cs, b : run'[q] = NewRun(cs, b)
      BY <2>2 DEF TypeOK
    <2> QED BY <2>1, <2>3
  <1>3. ASSUME NEW r \in Runs, CreateRun(r, Cases) \/ Expire(r)
        PROVE  Kept
    <2>1. CASE CreateRun(r, Cases)
      <3>1. NewRun(Cases, None).status = "PENDING"
        BY DEF NewRun, NoRun
      <3> QED BY <2>1, <3>1 DEF CreateRun, TypeOK
    <2>2. CASE Expire(r)
      <3>1. run'[q] \in {run[q], [run[q] EXCEPT !.due = TRUE]}
        BY <2>2 DEF Expire, TypeOK
      <3> QED BY <1>0, <3>1 DEF RunRows
    <2> QED BY <1>3, <2>1, <2>2
  <1>4. ASSUME NEW w \in Workers, Work(w) \/ Crash(w)
        PROVE  Kept
    <2>0. worker[w].at \in Begun => worker[w].run \in Runs
      BY DEF TasksAreReal, IsReal
    <2>1. CASE NothingToClaim(w)
      BY <1>0, <2>1 DEF NothingToClaim, Commit, Exhausted, RunRows
    <2>2. CASE Claim(w)
      <3> DEFINE r == Candidate(w)
      <3>1. r \in Runs
        BY <2>2, CandidateIsClaimable DEF Claim
      <3> HIDE DEF r
      <3>2. CASE StillClaimable(w, r)
        <4>1. run' = [p \in Runs |->
                        IF p = r THEN [run[r] EXCEPT !.status = "RUNNING", !.owner = w, !.due = FALSE,
                                                     !.attempts = @ + 1, !.version = @ + 1]
                        ELSE IF p \in worker[w].failed THEN Exhausted(run[p]) ELSE run[p]]
          BY <2>2, <3>2 DEF Claim, r
        <4>2. q # r
          BY <1>0, <4>1 DEF RunRows
        <4>3. run'[q] = run[q]
          BY <1>0, <4>1, <4>2 DEF Exhausted, RunRows
        <4> QED BY <4>3
      <3>3. CASE ~ StillClaimable(w, r)
        BY <2>2, <3>3 DEF Claim, r
      <3> QED BY <3>2, <3>3
    <2>3. CASE NextCase(w)
      <3>1. worker[w].run \in Runs
        BY <2>0, <2>3 DEF NextCase, Begun
      <3>2. run' = run \/ run' = [run EXCEPT ![worker[w].run] = [run[worker[w].run] EXCEPT !.version = @ + 1]]
        BY <2>3 DEF NextCase
      <3>3. run'[q] \in {run[q], [run[q] EXCEPT !.version = @ + 1]}
        BY <3>1, <3>2 DEF TypeOK
      <3> QED BY <1>0, <3>3 DEF RunRows
    <2>4. CASE Record(w)
      <3>1. worker[w].run \in Runs
        BY <2>0, <2>4 DEF Record, Begun
      <3>2. \/ UNCHANGED run
            \/ run' = [run EXCEPT ![worker[w].run] =
                         [run[worker[w].run] EXCEPT !.calls = @ + worker[w].result.calls]]
        BY <2>4 DEF Record, Recorded
      <3>3. run'[q] \in {run[q], [run[q] EXCEPT !.calls = @ + worker[w].result.calls]}
        BY <3>1, <3>2 DEF TypeOK
      <3> QED BY <1>0, <3>3 DEF RunRows
    <2>5. CASE Complete(w)
      BY <2>5 DEF Complete, TypeOK
    <2>6. CASE GiveUp(w)
      <3>1. worker[w].run \in Runs
        BY <2>0, <2>6 DEF GiveUp, Begun
      <3>2. q = worker[w].run => run'[q].status \in {"PENDING", "FAILED"}
        BY <1>0, <2>6, <3>1 DEF GiveUp, TypeOK, RunRows
      <3>3. q # worker[w].run
        BY <1>0, <3>2
      <3> QED BY <2>6, <3>1, <3>3 DEF GiveUp, TypeOK
    <2> QED BY <1>1, <1>4, <2>1, <2>2, <2>3, <2>4, <2>5, <2>6 DEF Work, Crash, BeginClaim, MarkExhausted,
               RecordReads, CompleteReads, ReleaseReads, ReadLease, LockTimeout
  <1>5. \/ UNCHANGED run
        \/ \E h \in Handlers : CreateRetest(h)
        \/ \E r \in Runs : CreateRun(r, Cases) \/ Expire(r)
        \/ \E w \in Workers : Work(w) \/ Crash(w)
    BY DEF Next, Govern, NextRuns, WriteBaseline, Judge, ReadBaseline, ReadForRetest, ReadForVerify,
           Archive, StartWork, MarkReady, Close, Transition, vars, runVars
  <1> QED BY <1>1, <1>2, <1>3, <1>4, <1>5

LEMMA KeepsWhole ==
    ASSUME TypeOK, TasksAreReal, ResultsAreJudged, CompletionIsFounded, CompletedIsWhole, [Next]_vars
    PROVE  CompletedIsWhole'
  <1> SUFFICES ASSUME NEW q \in Runs, run'[q].status = "COMPLETED"
               PROVE  LET s == run'[q].summary IN
                      /\ \A c \in run'[q].cases : results'[q][c] # NoResult
                      /\ s.passed + s.failed + s.skipped = Cardinality(run'[q].cases)
    BY DEF CompletedIsWhole, Missing
  <1>1. CASE ~ \E w \in Workers : Complete(w) /\ worker[w].run = q
    <2>1. run[q].status = "COMPLETED" /\ run'[q].summary = run[q].summary
      BY <1>1, CompletionSteps
    <2>2. run'[q].cases = run[q].cases /\ run[q].cases \in SUBSET Cases
      BY <2>1, CreatedLasts DEF TypeOK, RunRows
    <2>3. \A c \in run[q].cases : results[q][c] # NoResult
      BY <2>1 DEF CompletedIsWhole, Missing
    <2>4. \A c \in run[q].cases : results'[q][c] # NoResult
      BY <2>2, <2>3, ResultSteps
    <2> QED BY <2>1, <2>2, <2>4 DEF CompletedIsWhole
  <1>2. ASSUME NEW w \in Workers, Complete(w), worker[w].run = q
        PROVE  LET s == run'[q].summary IN
               /\ \A c \in run'[q].cases : results'[q][c] # NoResult
               /\ s.passed + s.failed + s.skipped = Cardinality(run'[q].cases)
    <2> DEFINE seen == worker[w].view
    <2>1. \A c \in run[q].cases : seen.results[c] # NoResult /\ results[q][c] = seen.results[c]
      BY <1>2 DEF Complete, CompletionIsFounded, IsFounded
    <2>2. \A c \in run[q].cases : seen.results[c].status \in {"PASSED", "FAILED", "ERROR", "SKIPPED"}
      <3> SUFFICES ASSUME NEW c \in run[q].cases
                   PROVE  seen.results[c].status \in {"PASSED", "FAILED", "ERROR", "SKIPPED"}
        OBVIOUS
      <3>1. c \in Cases
        BY DEF TypeOK, RunRows
      <3>2. results[q][c] \in Results /\ results[q][c].status # "NONE"
        BY <2>1, <3>1 DEF TypeOK, ResultsAreJudged
      <3> QED BY <2>1, <3>2 DEF Results
    <2>3. /\ run' = [run EXCEPT ![q] =
                       [@ EXCEPT !.summary = SummaryOf(q, seen.results), !.status = "COMPLETED",
                                 !.owner = None, !.due = FALSE, !.version = seen.row.version + 1]]
          /\ results' = results
      BY <1>2, <2>1 DEF Complete, AllThere
    <2>4. run'[q].summary = SummaryOf(q, seen.results) /\ run'[q].cases = run[q].cases
      BY <2>3 DEF TypeOK, RunRows
    <2> QED BY <2>1, <2>2, <2>3, <2>4, SummaryCountsAll
  <1> QED BY <1>1, <1>2

-----------------------------------------------------------------------------
(* Governance                                                              *)

LEMMA KeepsRetests ==
    ASSUME TypeOK, TasksAreReal, UncreatedIsEmpty, RetestsAreOfCase, [Next]_vars
    PROVE  RetestsAreOfCase'
  <1> DEFINE BadOk(b) == bad'[b].retest # None => run'[bad'[b].retest].of = b
             CommandOk(h) == command'[h].at = "verify" =>
                                 /\ command'[h].view.retest # None
                                 /\ run'[command'[h].view.retest].of = command'[h].case
  <1> SUFFICES (\A b \in BadCases : BadOk(b)) /\ (\A h \in Handlers : CommandOk(h))
    BY DEF RetestsAreOfCase
  <1>0. None \notin BadCases
    BY EvaluationAssumption DEF BadCases
  <1>1. ASSUME NEW q \in Runs, NEW b \in BadCases, run[q].of = b
        PROVE  run'[q].of = b
    <2>1. run[q].status # "NONE"
      BY <1>0, <1>1 DEF UncreatedIsEmpty, NoRun
    <2> QED BY <1>1, <2>1, CreatedLasts
  <1>2. \A b \in BadCases : bad[b].retest \in Runs \cup {None}
    BY DEF TypeOK, BadRows
  <1>3. ASSUME NEW b \in BadCases, bad'[b].retest = bad[b].retest
        PROVE  BadOk(b)
    BY <1>1, <1>2, <1>3 DEF RetestsAreOfCase
  <1>4. ASSUME NEW h \in Handlers, command'[h] = command[h]
        PROVE  CommandOk(h)
    <2> SUFFICES ASSUME command[h].at = "verify"
                 PROVE  /\ command[h].view.retest # None
                        /\ run'[command[h].view.retest].of = command[h].case
      BY <1>4
    <2>1. command[h].view.retest \in Runs /\ command[h].case \in BadCases
      BY CommandsByStep DEF RetestsAreOfCase, BadRows
    <2> QED BY <1>1, <2>1 DEF RetestsAreOfCase
  <1>5. ASSUME NEW h \in Handlers, Do(h, NoCommand)
        PROVE  \A k \in Handlers : CommandOk(k)
    <2>1. command'[h].at = "idle" /\ \A k \in Handlers \ {h} : command'[k] = command[k]
      BY <1>5 DEF Do, TypeOK, NoCommand
    <2> QED BY <1>4, <2>1
  <1>6. CASE UNCHANGED <<bad, command>>
    BY <1>3, <1>4, <1>6
  <1>7. ASSUME NEW h \in Handlers, WriteBaseline(h)
        PROVE  (\A b \in BadCases : BadOk(b)) /\ (\A k \in Handlers : CommandOk(k))
    BY <1>3, <1>5, <1>7 DEF WriteBaseline
  <1>8. ASSUME NEW h \in Handlers, Judge(h)
        PROVE  (\A b \in BadCases : BadOk(b)) /\ (\A k \in Handlers : CommandOk(k))
    <2>1. PICK s, t, n :
              bad' = [bad EXCEPT ![command[h].case] =
                        [bad[command[h].case] EXCEPT !.status = s, !.retestStatus = t, !.version = n]]
      BY <1>8 DEF Judge
    <2>2. \A b \in BadCases : bad'[b].retest = bad[b].retest
      BY <2>1 DEF TypeOK, BadRows
    <2> QED BY <1>3, <1>5, <1>8, <2>2 DEF Judge
  <1>9. ASSUME NEW h \in Handlers, CreateRetest(h)
        PROVE  (\A b \in BadCases : BadOk(b)) /\ (\A k \in Handlers : CommandOk(k))
    <2> DEFINE c == command[h].case
               r == command[h].run
    <2>1. c \in BadCases /\ r \in Runs
      BY <1>9, CommandsByStep DEF CreateRetest
    <2>2. \A k \in Handlers : CommandOk(k)
      BY <1>5, <1>9 DEF CreateRetest
    <2>3. CASE run[r].status = "NONE"
      <3>1. run'[r].of = c
        <4>1. run' = [run EXCEPT ![r] = NewRun({c[2]}, c)]
          BY <1>9, <2>3 DEF CreateRetest
        <4> QED BY <2>1, <4>1 DEF TypeOK, NewRun, NoRun
      <3>2. bad'[c].retest = r /\ \A b \in BadCases \ {c} : bad'[b].retest = bad[b].retest
        BY <1>9, <2>1, <2>3 DEF CreateRetest, TypeOK, BadRows
      <3>3. BadOk(c)
        BY <3>1, <3>2
      <3> QED BY <1>3, <2>2, <3>2, <3>3
    <2>4. CASE run[r].status # "NONE"
      <3>1. bad' = bad
        BY <1>9, <2>4 DEF CreateRetest
      <3> QED BY <1>3, <2>2, <3>1
    <2> QED BY <2>3, <2>4
  <1>10. ASSUME NEW h \in Handlers, NEW r \in Runs, ReadBaseline(h, r)
         PROVE  (\A b \in BadCases : BadOk(b)) /\ (\A k \in Handlers : CommandOk(k))
    <2>1. command'[h].at = "baseline" /\ \A k \in Handlers \ {h} : command'[k] = command[k]
      BY <1>10 DEF ReadBaseline, Do, TypeOK, NoCommand
    <2>2. bad' = bad
      BY <1>10 DEF ReadBaseline
    <2> QED BY <1>3, <1>4, <2>1, <2>2
  <1>11. ASSUME NEW h \in Handlers, NEW b \in BadCases, NEW r \in Runs, ReadForRetest(h, b, r)
         PROVE  (\A d \in BadCases : BadOk(d)) /\ (\A k \in Handlers : CommandOk(k))
    <2>1. command'[h].at = "retest" /\ \A k \in Handlers \ {h} : command'[k] = command[k]
      BY <1>11 DEF ReadForRetest, Do, TypeOK
    <2>2. bad' = bad
      BY <1>11 DEF ReadForRetest
    <2> QED BY <1>3, <1>4, <2>1, <2>2
  <1>12. ASSUME NEW h \in Handlers, NEW b \in BadCases, ReadForVerify(h, b)
         PROVE  (\A d \in BadCases : BadOk(d)) /\ (\A k \in Handlers : CommandOk(k))
    <2>1. /\ command'[h] = [at |-> "verify", run |-> bad[b].retest, case |-> b, view |-> bad[b]]
          /\ \A k \in Handlers \ {h} : command'[k] = command[k]
      BY <1>12 DEF ReadForVerify, Do, TypeOK
    <2>2. bad' = bad /\ run' = run /\ bad[b].retest # None
      BY <1>12 DEF ReadForVerify, runVars
    <2>3. CommandOk(h)
      BY <2>1, <2>2 DEF RetestsAreOfCase
    <2> QED BY <1>3, <1>4, <2>1, <2>2, <2>3
  <1>13. ASSUME NEW b \in BadCases, Archive(b)
         PROVE  (\A d \in BadCases : BadOk(d)) /\ (\A k \in Handlers : CommandOk(k))
    <2>1. \A d \in BadCases : bad'[d].retest \in {bad[d].retest, None}
      BY <1>13 DEF Archive, TypeOK, NoBadCase
    <2>2. command' = command
      BY <1>13 DEF Archive
    <2> QED BY <1>3, <1>4, <2>1, <2>2
  <1>14. ASSUME NEW b \in BadCases, NEW s, NEW t, Transition(b, s, t)
         PROVE  (\A d \in BadCases : BadOk(d)) /\ (\A k \in Handlers : CommandOk(k))
    <2>1. \A d \in BadCases : bad'[d].retest = bad[d].retest
      BY <1>14 DEF Transition, TypeOK, BadRows
    <2>2. command' = command
      BY <1>14 DEF Transition
    <2> QED BY <1>3, <1>4, <2>1, <2>2
  <1>15. CASE Govern
    BY <1>7, <1>8, <1>9, <1>10, <1>11, <1>12, <1>13, <1>14, <1>15 DEF Govern, StartWork, MarkReady, Close
  <1> QED BY <1>6, <1>15 DEF Next, govVars, vars

LEMMA KeepsVerified ==
    ASSUME TypeOK, TasksAreReal, UncreatedIsEmpty, RetestsAreOfCase, VerifiedOnPass, [Next]_vars
    PROVE  VerifiedOnPass'
  <1> DEFINE PassedBefore(b) == \E r \in Runs : run[r].of = b /\ results[r][b[2]].status = "PASSED"
             PassedAfter(b) == \E r \in Runs : run'[r].of = b /\ results'[r][b[2]].status = "PASSED"
  <1> SUFFICES ASSUME NEW b \in BadCases, bad'[b].status \in {"VERIFIED", "CLOSED"}
               PROVE  PassedAfter(b)
    BY DEF VerifiedOnPass
  <1>0. None \notin BadCases /\ b[2] \in Cases
    BY EvaluationAssumption DEF BadCases
  <1>1. ASSUME PassedBefore(b)
        PROVE  PassedAfter(b)
    <2>1. PICK r \in Runs : run[r].of = b /\ results[r][b[2]].status = "PASSED"
      BY <1>1
    <2>2. run[r].status # "NONE"
      BY <1>0, <2>1 DEF UncreatedIsEmpty, NoRun
    <2>3. results[r][b[2]] # NoResult
      BY <2>1 DEF NoResult
    <2>4. run'[r].of = b /\ results'[r][b[2]].status = "PASSED"
      BY <1>0, <2>1, <2>2, <2>3, CreatedLasts, ResultSteps
    <2> QED BY <2>4
  <1>2. CASE bad[b].status \in {"VERIFIED", "CLOSED"}
    BY <1>1, <1>2 DEF VerifiedOnPass
  <1>3. ASSUME NEW h \in Handlers, Judge(h), bad[b].status \notin {"VERIFIED", "CLOSED"}
        PROVE  PassedAfter(b)
    <2> DEFINE r == command[h].view.retest
    <2>1. command[h].at = "verify" /\ command[h].case \in BadCases
      BY <1>3, CommandsByStep DEF Judge
    <2>2. r \in Runs /\ run[r].of = command[h].case
      BY <2>1, CommandsByStep DEF RetestsAreOfCase, BadRows
    <2>3. b = command[h].case /\ results[r][b[2]].status = "PASSED"
      BY <1>3, <2>1 DEF Judge, Passed, TypeOK, BadRows
    <2> QED BY <1>1, <2>2, <2>3
  <1>4. ASSUME bad[b].status \notin {"VERIFIED", "CLOSED"}, ~ \E h \in Handlers : Judge(h)
        PROVE  FALSE
    <2>0. bad[b] \in BadRows
      BY DEF TypeOK
    <2>1. CASE UNCHANGED bad
      BY <1>4, <2>1
    <2>2. ASSUME NEW d \in BadCases, Archive(d)
          PROVE  FALSE
      BY <1>4, <2>2 DEF Archive, TypeOK, NoBadCase
    <2>3. ASSUME NEW d \in BadCases, StartWork(d) \/ MarkReady(d)
          PROVE  FALSE
      BY <1>4, <2>0, <2>3 DEF StartWork, MarkReady, Transition, TypeOK, BadRows
    <2>4. ASSUME NEW d \in BadCases, Close(d)
          PROVE  FALSE
      BY <1>4, <2>0, <2>4 DEF Close, Transition, TypeOK, BadRows
    <2>5. ASSUME NEW h \in Handlers, CreateRetest(h)
          PROVE  FALSE
      BY <1>4, <2>0, <2>5 DEF CreateRetest, TypeOK, BadRows
    <2>6. \/ UNCHANGED bad
          \/ \E d \in BadCases : Archive(d) \/ StartWork(d) \/ MarkReady(d) \/ Close(d)
          \/ \E h \in Handlers : CreateRetest(h) \/ Judge(h)
      BY DEF Next, Govern, WriteBaseline, ReadBaseline, ReadForRetest, ReadForVerify, vars, govVars
    <2> QED BY <1>4, <2>1, <2>2, <2>3, <2>4, <2>5, <2>6
  <1> QED BY <1>2, <1>3, <1>4

LEMMA KeepsUniqueKey ==
    ASSUME UniqueKey(baseline), [Next]_vars
    PROVE  UniqueKey(baseline')
  <1>1. CASE UNCHANGED baseline
    BY <1>1
  <1>2. ASSUME NEW h \in Handlers, WriteBaseline(h)
        PROVE  UniqueKey(baseline')
    BY <1>2 DEF WriteBaseline
  <1>3. UNCHANGED baseline \/ \E h \in Handlers : WriteBaseline(h)
    BY DEF Next, Govern, CreateRetest, Judge, ReadBaseline, ReadForRetest, ReadForVerify, Archive,
           StartWork, MarkReady, Close, Transition, vars, govVars
  <1> QED BY <1>1, <1>2, <1>3

-----------------------------------------------------------------------------
(* Theorems                                                                *)

LEMMA InitInv == Init => Inv
  <1> SUFFICES ASSUME Init
               PROVE  Inv
    OBVIOUS
  <1>1. TypeOK
    BY InitTypes
  <1>2. \A r \in Runs : run[r] = NoRun /\ results[r] = [c \in Cases |-> NoResult] /\ spent[r] = 0
    BY DEF Init, InitRuns
  <1>3. \A w \in Workers : worker[w] = Idle
    BY DEF Init, InitRuns
  <1>4. UncreatedIsEmpty
    BY <1>2 DEF UncreatedIsEmpty
  <1>5. TasksAreReal /\ Guarded /\ CompletionIsFounded
    BY <1>3 DEF TasksAreReal, IsReal, Guarded, IsGuarded, CompletionIsFounded, IsFounded, Idle, Begun
  <1>6. Accounted
    <2> SUFFICES ASSUME NEW r \in Runs
                 PROVE  /\ run[r].calls = Used(results[r])
                        /\ run[r].calls + Unrecorded(r, worker) <= spent[r]
                        /\ spent[r] <= MaxCalls * run[r].attempts
      BY DEF Accounted
    <2>1. run[r].calls = 0 /\ run[r].attempts = 0 /\ spent[r] = 0
      BY <1>2 DEF NoRun
    <2>2. Used(results[r]) = 0
      BY <1>2, NothingIsUsed
    <2>3. Unrecorded(r, worker) = 0
      <3> DEFINE f == [w \in Workers |-> IF worker[w].run = r THEN worker[w].made ELSE 0]
      <3>1. DOMAIN f = Workers /\ \A w \in Workers : f[w] = 0
        BY <1>3 DEF Idle
      <3>2. SumFunctionOnSet(f, Workers) = 0
        <4> HIDE DEF f
        <4> QED BY <3>1, SumOfZeros, EvaluationAssumption
      <3> QED BY <3>2 DEF Unrecorded, SumFunction
    <2>4. MaxCalls \in Nat
      BY EvaluationAssumption
    <2> QED BY <2>1, <2>2, <2>3, <2>4
  <1>7. ResultsAreJudged
    BY <1>2 DEF ResultsAreJudged
  <1>8. CompletedIsWhole
    BY <1>2 DEF CompletedIsWhole, NoRun
  <1>9. RetestsAreOfCase /\ VerifiedOnPass
    BY DEF Init, RetestsAreOfCase, VerifiedOnPass, NoBadCase, NoCommand
  <1>10. UniqueKey(baseline)
    <2>1. Current(baseline) = {}
      BY DEF Init, Current
    <2> QED BY <2>1, FS_EmptySet DEF UniqueKey
  <1> QED BY <1>1, <1>4, <1>5, <1>6, <1>7, <1>8, <1>9, <1>10 DEF Inv

LEMMA StepInv == Inv /\ [Next]_vars => Inv'
  <1> SUFFICES ASSUME Inv, [Next]_vars
               PROVE  Inv'
    OBVIOUS
  <1>1. TypeOK'
    BY StepTypes DEF Inv
  <1>2. UncreatedIsEmpty'
    BY KeepsUncreated DEF Inv
  <1>3. TasksAreReal'
    BY KeepsTasksReal DEF Inv
  <1>4. Accounted'
    BY <1>1, KeepsAccounted DEF Inv
  <1>5. Guarded'
    BY KeepsGuarded DEF Inv
  <1>6. ResultsAreJudged'
    BY KeepsJudged DEF Inv
  <1>7. CompletionIsFounded'
    BY KeepsFounded DEF Inv
  <1>8. CompletedIsWhole'
    BY KeepsWhole DEF Inv
  <1>9. RetestsAreOfCase'
    BY KeepsRetests DEF Inv
  <1>10. VerifiedOnPass'
    BY KeepsVerified DEF Inv
  <1>11. UniqueKey(baseline)'
    BY KeepsUniqueKey DEF Inv, UniqueKey, Current
  <1> QED BY <1>1, <1>2, <1>3, <1>4, <1>5, <1>6, <1>7, <1>8, <1>9, <1>10, <1>11 DEF Inv

\* In every reachable state the judgement of a case, the completion of its run,
\* the claim of its worker and the accounting of its model calls belong together
\* (repository.py, worker.py, governance.py): the invariant everything below
\* rests on.
THEOREM EvaluationInvariant == Spec => []Inv
  BY InitInv, StepInv, PTL DEF Spec

\* The rows of runs, results, leases, baselines, Bad Cases and commands are of
\* their kinds (repository.py, worker.py, governance.py).
THEOREM EvaluationTypes == Spec => []TypeOK
  <1>1. Inv => TypeOK
    BY DEF Inv
  <1> QED BY <1>1, EvaluationInvariant, PTL

\* What a run says it has used is the sum over its results, is never more than was
\* spent, and what was spent never more than its attempts allow, whoever takes a run
\* over from whom (record_case_result, begin_run, _reserve_call).
THEOREM UsageAlwaysAccounted == Spec => []UsageIsAccounted
  <1>1. Inv => UsageIsAccounted
    <2> SUFFICES ASSUME Inv, NEW r \in Runs
                 PROVE  /\ run[r].calls = Used(results[r])
                        /\ run[r].calls <= spent[r]
                        /\ spent[r] <= MaxCalls * run[r].attempts
      BY DEF UsageIsAccounted, Used
    <2>1. /\ run[r].calls = Used(results[r])
          /\ run[r].calls + Unrecorded(r, worker) <= spent[r]
          /\ spent[r] <= MaxCalls * run[r].attempts
      BY DEF Inv, Accounted
    <2>2. /\ run[r].calls \in Nat /\ spent[r] \in Nat /\ Unrecorded(r, worker) \in Nat
      BY UnrecordedIsNat DEF Inv, TypeOK, RunRows
    <2>3. run[r].calls <= spent[r]
      BY <2>1, <2>2
    <2> QED BY <2>1, <2>3
  <1> QED BY <1>1, EvaluationInvariant, PTL

\* A completed run has a result of each of its cases, and its summary counts each of
\* them once (rebuild_summary_and_complete).
THEOREM CompletedRunsAreWhole == Spec => []CompletedIsWhole
  <1>1. Inv => CompletedIsWhole
    BY DEF Inv
  <1> QED BY <1>1, EvaluationInvariant, PTL

\* A Bad Case is verified or closed only on a retest of it that has passed
\* (verify_retest).
THEOREM VerifiedRestsOnPass == Spec => []VerifiedOnPass
  <1>1. Inv => VerifiedOnPass
    BY DEF Inv
  <1> QED BY <1>1, EvaluationInvariant, PTL

\* Once there is a current baseline there is always exactly one
\* (set_current_baseline).
THEOREM BaselineIsSingle == Spec => OneBaseline
  <1> DEFINE Kept == Current(baseline) # {} => Cardinality(Current(baseline')) = 1
  <1>0. \A rows : IsFiniteSet(Current(rows))
    <2>1. \A rows : Current(rows) \in SUBSET Runs
      BY DEF Current
    <2> QED BY <2>1, EvaluationAssumption, FS_Subset
  <1>1. \A rows : UniqueKey(rows) /\ Current(rows) # {} => Cardinality(Current(rows)) = 1
    <2> SUFFICES ASSUME NEW rows, UniqueKey(rows), Current(rows) # {}
                 PROVE  Cardinality(Current(rows)) = 1
      OBVIOUS
    <2>1. Cardinality(Current(rows)) \in Nat /\ Cardinality(Current(rows)) # 0
      BY <1>0, FS_CardinalityType, FS_EmptySet
    <2> QED BY <2>1 DEF UniqueKey
  <1>2. ASSUME Inv, [Next]_vars
        PROVE  Kept
    <2>1. UniqueKey(baseline')
      BY <1>2, KeepsUniqueKey DEF Inv
    <2>2. CASE UNCHANGED baseline
      BY <1>1, <2>1, <2>2
    <2>3. ASSUME NEW h \in Handlers, WriteBaseline(h), baseline' # baseline
          PROVE  Kept
      <3>1. command[h].run \in Runs
        BY <1>2, <2>3, CommandsByStep DEF Inv, WriteBaseline
      <3>2. baseline' = Switched(command[h].run, command[h].view)
        BY <2>3 DEF WriteBaseline
      <3>3. command[h].run \in Current(baseline')
        BY <3>1, <3>2 DEF Switched, Current
      <3> QED BY <1>1, <2>1, <3>3
    <2>4. UNCHANGED baseline \/ \E h \in Handlers : WriteBaseline(h)
      BY <1>2 DEF Next, Govern, CreateRetest, Judge, ReadBaseline, ReadForRetest, ReadForVerify, Archive,
             StartWork, MarkReady, Close, Transition, vars, govVars
    <2> QED BY <2>2, <2>3, <2>4
  <1>3. Inv /\ [Next]_vars => [Current(baseline) # {} => Cardinality(Current(baseline')) = 1]_vars
    BY <1>2
  <1> QED BY <1>3, EvaluationInvariant, PTL DEF Spec, OneBaseline
=================================================================================
