-------------------------- MODULE WorkflowRepository --------------------------
(***************************************************************************)
(* The persisted workflow run of backend/app/workflow/repository.py and    *)
(* its audit trail, written by any number of request handlers at once.     *)
(* Every writer is one database transaction: it reads the run (get), then  *)
(* updates the row WHERE version = expected and appends the event with     *)
(* sequence expected + 1 in the same commit.  What it read may be stale by *)
(* the time of its update; only the row count of the UPDATE tells.         *)
(***************************************************************************)
EXTENDS Naturals

CONSTANTS Writers,      \* request handlers with a transaction of their own
          MaxVersion,   \* bound: no writer is started at this version
          None

ASSUME BoundAssumption == MaxVersion \in Nat

VARIABLES run,      \* the committed row: state and version
          events,   \* the committed audit trail, by sequence number
          txn       \* per writer: the version its caller expects and the row it read

vars == <<run, events, txn>>

\* The lifecycle this component promises, over the committed row.
Lifecycle == INSTANCE WorkflowLifecycle WITH state <- run.state, version <- run.version

Rows == [state : Lifecycle!WorkflowStates, version : Nat]
Events == [from : Lifecycle!WorkflowStates \cup {None}, to : Lifecycle!WorkflowStates]
Transactions == [expected : Nat, read : Rows]

\* The states in which the code records progress without a transition.
ProgressStates == {"WAITING_APPROVAL", "WAITING_HUMAN"}

TypeOK ==
    /\ run \in Rows
    /\ events \in [0..run.version -> Events]
    /\ txn \in [Writers -> Transactions \cup {None}]

Init ==
    /\ run = [state |-> "CREATED", version |-> 0]
    /\ events = [n \in {0} |-> [from |-> None, to |-> "CREATED"]]
    /\ txn = [w \in Writers |-> None]

-----------------------------------------------------------------------------
\* A handler opens a transaction and reads the run; its caller saw version e.
Get(w, e) ==
    /\ txn[w] = None
    /\ e < MaxVersion
    /\ txn' = [txn EXCEPT ![w] = [expected |-> e, read |-> run]]
    /\ UNCHANGED <<run, events>>

\* Mutant: an UPDATE without its version predicate always changes one row.
OwnedUnchecked(w) == txn[w].expected = txn[w].read.version

\* UPDATE ... WHERE version = expected: the row count is 1.
Owned(w) == run.version = txn[w].expected

\* The check made on the row that was read, before the UPDATE is sent.
ReadMatches(w) == txn[w].read.version = txn[w].expected

\* The event with sequence n joins the audit trail.
AppendEvent(n, from, to) ==
    events' = [i \in 0..n |-> IF i = n THEN [from |-> from, to |-> to] ELSE events[i]]

Transition(w, target) ==
    /\ txn[w] # None
    /\ ReadMatches(w)
    /\ Lifecycle!CanTransition(txn[w].read.state, target)
    /\ Owned(w)
    /\ run' = [state |-> target, version |-> txn[w].expected + 1]
    /\ AppendEvent(txn[w].expected + 1, txn[w].read.state, target)
    /\ txn' = [txn EXCEPT ![w] = None]

\* record_progress: the same state, one more version, and the UPDATE is also
\* conditional on the state.
RecordProgress(w, required) ==
    /\ txn[w] # None
    /\ ReadMatches(w)
    /\ txn[w].read.state = required
    /\ Owned(w) /\ run.state = required
    /\ run' = [run EXCEPT !.version = txn[w].expected + 1]
    /\ AppendEvent(txn[w].expected + 1, required, required)
    /\ txn' = [txn EXCEPT ![w] = None]

\* A version conflict, an illegal transition, a failure later in the same
\* transaction or the death of the handler: nothing of it is committed.
Rollback(w) ==
    /\ txn[w] # None
    /\ txn' = [txn EXCEPT ![w] = None]
    /\ UNCHANGED <<run, events>>

Next ==
    \E w \in Writers :
        \/ \E e \in 0..MaxVersion : Get(w, e)
        \/ \E target \in Lifecycle!WorkflowStates : Transition(w, target)
        \/ \E required \in ProgressStates : RecordProgress(w, required)
        \/ Rollback(w)

Spec == Init /\ [][Next]_vars

-----------------------------------------------------------------------------
(* Properties                                                              *)

\* The audit trail is the history of the run: one event per version with no
\* gap and no overwrite, each event starting in the state the previous one
\* ended in, each a legal step, and the last one agreeing with the row - even
\* when handlers race on the same stale version.
AuditTrailIsHistory ==
    /\ events[run.version].to = run.state
    /\ \A n \in 1..run.version :
        /\ events[n].from = events[n - 1].to
        /\ \/ Lifecycle!CanTransition(events[n].from, events[n].to)
           \/ events[n].from = events[n].to /\ events[n].to \in ProgressStates

\* The committed row goes through the lifecycle of state.py, one version at a
\* time, and stays where it is once it has ended.
ImplementsLifecycle == Lifecycle!Spec
===============================================================================
