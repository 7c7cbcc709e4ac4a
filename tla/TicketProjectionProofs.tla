------------------------ MODULE TicketProjectionProofs ------------------------
(***************************************************************************)
(* For any number of handlers and projectors and any bound: the type       *)
(* invariant, the audit trail and the lifecycle refinement of              *)
(* WorkflowRepository; and that the ticket is the projection of one moment *)
(* of its run (TicketProjection).                                          *)
(***************************************************************************)
EXTENDS TicketProjection, TLAPS

-----------------------------------------------------------------------------
(* WorkflowRepository: the run and its audit trail                         *)

\* What a handler read is a row that was once committed, and so one the audit
\* trail still records; at equal versions it is the current row.
ReadsAreHistory ==
    \A w \in Writers :
        txn[w] # None =>
            /\ txn[w].read.version \in 0..run.version
            /\ events[txn[w].read.version].to = txn[w].read.state

IInv == TypeOK /\ AuditTrailIsHistory /\ ReadsAreHistory

\* Two committed facts a successful UPDATE rests on: the row is the one that
\* was read, and the new version is the next one.
LEMMA OwnedReadIsCurrent ==
    ASSUME IInv, NEW w \in Writers, txn[w] # None, ReadMatches(w), Owned(w)
    PROVE  /\ txn[w].expected = run.version
           /\ txn[w].read.state = run.state
           /\ run.version \in Nat
  BY DEF IInv, TypeOK, AuditTrailIsHistory, ReadsAreHistory, ReadMatches, Owned,
         Rows, Transactions

\* Appending the event of the next version keeps the trail a history, and keeps
\* every row that was read in it.
LEMMA AppendKeepsHistory ==
    ASSUME IInv, NEW w \in Writers,
           NEW to \in Lifecycle!WorkflowStates,
           run' = [state |-> to, version |-> run.version + 1],
           AppendEvent(run.version + 1, run.state, to),
           txn' = [txn EXCEPT ![w] = None],
           \/ Lifecycle!CanTransition(run.state, to)
           \/ run.state = to /\ to \in ProgressStates
    PROVE  IInv'
  <1>1. run.version \in Nat /\ run.state \in Lifecycle!WorkflowStates
    BY DEF IInv, TypeOK, Rows
  <1>2. TypeOK'
    <2>1. run' \in Rows
      BY <1>1 DEF Rows
    <2>2. events' \in [0..run.version' -> Events]
      BY <1>1 DEF AppendEvent, Events, IInv, TypeOK
    <2>3. txn' \in [Writers -> Transactions \cup {None}]
      BY DEF IInv, TypeOK
    <2> QED BY <2>1, <2>2, <2>3 DEF TypeOK
  <1>3. \A n \in 0..run.version : events'[n] = events[n]
    BY <1>1 DEF AppendEvent
  <1>4. events'[run.version + 1] = [from |-> run.state, to |-> to]
    BY <1>1 DEF AppendEvent
  <1>5. AuditTrailIsHistory'
    <2>1. (events[run.version].to = run.state)'
      BY <1>1, <1>4
    <2>2. ASSUME NEW n \in 1..(run.version + 1)
          PROVE  /\ events'[n].from = events'[n - 1].to
                 /\ \/ Lifecycle!CanTransition(events'[n].from, events'[n].to)
                    \/ events'[n].from = events'[n].to /\ events'[n].to \in ProgressStates
      <3>1. CASE n = run.version + 1
        BY <1>1, <1>3, <1>4, <3>1 DEF IInv, AuditTrailIsHistory
      <3>2. CASE n # run.version + 1
        <4>1. n \in 1..run.version /\ n - 1 \in 0..run.version /\ n \in 0..run.version
          BY <1>1, <3>2
        <4>2. events'[n] = events[n] /\ events'[n - 1] = events[n - 1]
          BY <1>3, <4>1
        <4> QED BY <4>1, <4>2 DEF IInv, AuditTrailIsHistory
      <3> QED BY <3>1, <3>2
    <2> QED BY <1>1, <2>1, <2>2 DEF AuditTrailIsHistory, Lifecycle!CanTransition,
               Lifecycle!AllowedTargets, ProgressStates
  <1>6. ReadsAreHistory'
    BY <1>1, <1>3 DEF IInv, ReadsAreHistory, TypeOK, Transactions, Rows
  <1> QED BY <1>2, <1>5, <1>6 DEF IInv

LEMMA InitEstablishesIInv == Init => IInv
  <1> SUFFICES ASSUME Init PROVE IInv
    OBVIOUS
  <1>1. TypeOK
    BY DEF Init, TypeOK, Rows, Events, Lifecycle!WorkflowStates
  <1> QED BY <1>1 DEF Init, IInv, AuditTrailIsHistory, ReadsAreHistory

LEMMA NextPreservesIInv == IInv /\ [Next]_vars => IInv'
  <1> SUFFICES ASSUME IInv, [Next]_vars PROVE IInv'
    OBVIOUS
  <1>1. ASSUME NEW w \in Writers, NEW e \in 0..MaxVersion, Get(w, e) PROVE IInv'
    <2>1. run \in Rows /\ run.version \in Nat /\ e \in Nat
      BY BoundAssumption DEF IInv, TypeOK, Rows
    <2>2. [expected |-> e, read |-> run] \in Transactions
      BY <2>1 DEF Transactions
    <2>3. TypeOK'
      BY <1>1, <2>2 DEF Get, IInv, TypeOK
    <2>4. ReadsAreHistory'
      BY <1>1, <2>1 DEF Get, IInv, TypeOK, AuditTrailIsHistory, ReadsAreHistory
    <2> QED BY <1>1, <2>3, <2>4 DEF Get, IInv, AuditTrailIsHistory
  <1>2. ASSUME NEW w \in Writers, NEW target \in Lifecycle!WorkflowStates,
               Transition(w, target)
        PROVE  IInv'
    BY <1>2, OwnedReadIsCurrent, AppendKeepsHistory DEF Transition
  <1>3. ASSUME NEW w \in Writers, NEW required \in ProgressStates,
               RecordProgress(w, required)
        PROVE  IInv'
    <2>1. txn[w].expected = run.version /\ run.state = required
      BY <1>3, OwnedReadIsCurrent DEF RecordProgress
    <2>2. run' = [state |-> required, version |-> run.version + 1]
      BY <1>3, <2>1 DEF RecordProgress, IInv, TypeOK, Rows
    <2>3. required \in Lifecycle!WorkflowStates
      BY DEF ProgressStates, Lifecycle!WorkflowStates
    <2> QED BY <1>3, <2>1, <2>2, <2>3, AppendKeepsHistory DEF RecordProgress
  <1>4. ASSUME NEW w \in Writers, Rollback(w) PROVE IInv'
    BY <1>4 DEF Rollback, IInv, TypeOK, AuditTrailIsHistory, ReadsAreHistory
  <1>5. CASE UNCHANGED vars
    BY <1>5 DEF vars, IInv, TypeOK, AuditTrailIsHistory, ReadsAreHistory
  <1> QED BY <1>1, <1>2, <1>3, <1>4, <1>5 DEF Next

\* Every reachable state is well typed.
THEOREM TypeCorrect == Spec => []TypeOK
  BY InitEstablishesIInv, NextPreservesIInv, PTL DEF Spec, IInv

\* However many handlers race, the audit trail is a complete, legal history of
\* the run (WorkflowRepository.transition and record_progress).
THEOREM AuditTrailCorrect == Spec => []AuditTrailIsHistory
  BY InitEstablishesIInv, NextPreservesIInv, PTL DEF Spec, IInv

\* A step that changes the row makes exactly one lifecycle step.
LEMMA StepImplementsLifecycle == IInv /\ [Next]_vars => [Lifecycle!Next]_<<run.state, run.version>>
  <1> SUFFICES ASSUME IInv, [Next]_vars
               PROVE  [Lifecycle!Next]_<<run.state, run.version>>
    OBVIOUS
  <1>1. ASSUME NEW w \in Writers, NEW target \in Lifecycle!WorkflowStates,
               Transition(w, target)
        PROVE  Lifecycle!Transition(target)
    BY <1>1, OwnedReadIsCurrent DEF Transition, Lifecycle!Transition
  <1>2. ASSUME NEW w \in Writers, NEW required \in ProgressStates,
               RecordProgress(w, required)
        PROVE  Lifecycle!Progress
    <2>1. txn[w].expected = run.version /\ run.state = required
      BY <1>2, OwnedReadIsCurrent DEF RecordProgress
    <2> QED BY <1>2, <2>1 DEF RecordProgress, Lifecycle!Progress, Lifecycle!TerminalStates,
               ProgressStates, IInv, TypeOK, Rows
  <1>3. ASSUME NEW w \in Writers, NEW e \in 0..MaxVersion, Get(w, e)
        PROVE  UNCHANGED <<run.state, run.version>>
    BY <1>3 DEF Get
  <1>4. ASSUME NEW w \in Writers, Rollback(w)
        PROVE  UNCHANGED <<run.state, run.version>>
    BY <1>4 DEF Rollback
  <1>5. CASE UNCHANGED vars
    BY <1>5 DEF vars
  <1> QED BY <1>1, <1>2, <1>3, <1>4, <1>5 DEF Next, Lifecycle!Next

\* The committed row implements the abstract lifecycle of one workflow run.
THEOREM RefinesLifecycle == Spec => ImplementsLifecycle
  <1>1. Init => Lifecycle!Init
    BY DEF Init, Lifecycle!Init
  <1> QED BY <1>1, InitEstablishesIInv, NextPreservesIInv, StepImplementsLifecycle, PTL
          DEF Spec, ImplementsLifecycle, Lifecycle!Spec

-----------------------------------------------------------------------------
(* TicketProjection: the ticket and its run                                *)

\* A snapshot is a moment of the run: its trail is a prefix of today's trail.
SnapshotIsHistory(s) ==
    /\ s.run.version \in 0..run.version
    /\ s.run.state = events[s.run.version].to
    /\ s.events = [i \in 0..s.run.version |-> events[i]]

\* Every ticket ever committed is the projection of one moment, and a ticket
\* that was read is of no later moment than its snapshot or today's ticket.
TicketIsMoment ==
    Projected(ticket) => \E k \in 0..run.version : ticket = TicketOf(k)

ReadTicketIsEarlier ==
    \A p \in Projectors :
        syncs[p] # None /\ Projected(syncs[p].ticket) =>
            \E m \in 0..syncs[p].run.version, k \in 0..run.version :
                m <= k /\ syncs[p].ticket = TicketOf(m) /\ ticket = TicketOf(k)

TInv ==
    /\ IInv
    /\ DOMAIN syncs = Projectors
    /\ \A p \in Projectors : syncs[p] # None => SnapshotIsHistory(syncs[p])
    /\ TicketIsMoment
    /\ ReadTicketIsEarlier

\* A writer's step leaves the trail up to today's version as it is.
LEMMA TrailOnlyGrows ==
    ASSUME IInv, [Next]_vars
    PROVE  /\ run.version \in Nat /\ run'.version \in Nat
           /\ run.version <= run'.version
           /\ \A i \in 0..run.version : events'[i] = events[i]
  <1>1. run.version \in Nat
    BY DEF IInv, TypeOK, Rows
  <1>2. ASSUME NEW w \in Writers, NEW target \in Lifecycle!WorkflowStates,
               Transition(w, target)
        PROVE  /\ run'.version = run.version + 1
               /\ \A i \in 0..run.version : events'[i] = events[i]
    BY <1>1, <1>2, OwnedReadIsCurrent DEF Transition, AppendEvent
  <1>3. ASSUME NEW w \in Writers, NEW required \in ProgressStates,
               RecordProgress(w, required)
        PROVE  /\ run'.version = run.version + 1
               /\ \A i \in 0..run.version : events'[i] = events[i]
    <2>1. txn[w].expected = run.version
      BY <1>3, OwnedReadIsCurrent DEF RecordProgress
    <2>2. run'.version = run.version + 1
      BY <1>3, <2>1 DEF RecordProgress, IInv, TypeOK, Rows
    <2> QED BY <1>1, <1>3, <2>1, <2>2 DEF RecordProgress, AppendEvent
  <1>4. ASSUME NEW w \in Writers, NEW e \in 0..MaxVersion, Get(w, e)
        PROVE  UNCHANGED <<run, events>>
    BY <1>4 DEF Get
  <1>5. ASSUME NEW w \in Writers, Rollback(w) PROVE UNCHANGED <<run, events>>
    BY <1>5 DEF Rollback
  <1>6. CASE UNCHANGED vars
    BY <1>1, <1>6 DEF vars
  <1> QED BY <1>1, <1>2, <1>3, <1>4, <1>5, <1>6 DEF Next

\* So what a ticket of moment n shows does not change with a later step.
LEMMA MomentsStand ==
    ASSUME IInv, [Next]_vars, NEW n \in 0..run.version
    PROVE  TicketOf(n)' = TicketOf(n) /\ n \in 0..run'.version
  <1>1. \A i \in 0..n : i \in 0..run.version
    BY TrailOnlyGrows
  <1>2. \A i \in 0..n : events'[i] = events[i]
    BY <1>1, TrailOnlyGrows
  <1>3. events'[n] = events[n]
    BY TrailOnlyGrows
  <1>4. n \in 0..run'.version
    BY TrailOnlyGrows
  <1>5. TicketOf(n)'.columns = TicketOf(n).columns
    BY <1>3 DEF TicketOf
  <1>6. TicketOf(n)'.events = TicketOf(n).events
    BY <1>2 DEF TicketOf, ProjectEvent
  <1> QED BY <1>4, <1>5, <1>6 DEF TicketOf

\* The timeline of a ticket of moment n holds the events 0 to n.
LEMMA MomentHasEvents ==
    ASSUME NEW n \in Nat
    PROVE  DOMAIN TicketOf(n).events = 0..n /\ Projected(TicketOf(n))
  BY DEF TicketOf, Projected

\* The columns sync assigns are those of the moment of its snapshot, whether or
\* not the ticket it read, of an earlier moment, was closed.
LEMMA AssignedIsMoment ==
    ASSUME IInv, NEW s, SnapshotIsHistory(s),
           NEW old, \/ old = None
                    \/ \E m \in 0..s.run.version : old = TicketOf(m).columns.resolved
    PROVE  Assigned(s, old) = TicketOf(s.run.version).columns
  <1> DEFINE v == s.run.version
  <1>1. v \in 0..run.version /\ run.version \in Nat /\ s.run.state = events[v].to
    BY DEF SnapshotIsHistory, IInv, TypeOK, Rows
  <1>2. ASSUME NEW m \in 0..v, old = TicketOf(m).columns.resolved, old # None
        PROVE  old = v
    <2>1. events[m].to \in Lifecycle!TerminalStates /\ old = m
      BY <1>2 DEF TicketOf
    <2>2. SUFFICES ASSUME m # v PROVE FALSE
      BY <2>1
    <2>3. m + 1 \in 1..run.version /\ (m + 1) - 1 = m
      BY <1>1, <2>2
    <2>4. /\ events[m + 1].from = events[m].to
          /\ \/ Lifecycle!CanTransition(events[m + 1].from, events[m + 1].to)
             \/ events[m + 1].from = events[m + 1].to /\ events[m + 1].to \in ProgressStates
      BY <2>3 DEF IInv, AuditTrailIsHistory
    <2> QED BY <2>1, <2>4 DEF Lifecycle!CanTransition, Lifecycle!AllowedTargets,
               Lifecycle!TerminalStates, ProgressStates
  <1>3. old = None \/ old = v
    BY <1>2
  <1> QED BY <1>1, <1>3 DEF Assigned, TicketOf

\* The first projection shows the moment of its snapshot.
LEMMA CreationIsMoment ==
    ASSUME TInv, NEW p \in Projectors, SyncCreates(p)
    PROVE  ticket' = TicketOf(syncs[p].run.version)
  <1> DEFINE s == syncs[p]
             v == s.run.version
  <1>1. SnapshotIsHistory(s) /\ v \in Nat
    BY DEF TInv, SyncCreates, SnapshotIsHistory, IInv, TypeOK, Rows
  <1>2. Missing(s) = 0..v
    BY <1>1 DEF Missing, SyncCreates, Projected, SnapshotIsHistory
  <1>3. Assigned(s, None) = TicketOf(v).columns
    BY <1>1, AssignedIsMoment DEF TInv
  <1>4. \A n \in 0..v : ProjectEvent(s.events[n]) = ProjectEvent(events[n])
    BY <1>1 DEF SnapshotIsHistory
  <1>5. ticket' = [columns |-> TicketOf(v).columns,
                   events |-> [n \in 0..v |-> ProjectEvent(s.events[n])]]
    BY <1>2, <1>3 DEF SyncCreates
  <1> QED BY <1>4, <1>5 DEF TicketOf

\* A later projection leaves the ticket as it is, or moves it to the moment of
\* its snapshot, and then no other projection came in between: the events of
\* one would have been among the missing events of the other.
LEMMA UpdateIsMoment ==
    ASSUME TInv, NEW p \in Projectors, SyncUpdates(p)
    PROVE  \E k \in 0..run.version :
              /\ ticket = TicketOf(k)
              /\ \/ ticket' = TicketOf(k)
                 \/ k <= syncs[p].run.version /\ ticket' = TicketOf(syncs[p].run.version)
  <1> DEFINE s == syncs[p]
             v == s.run.version
             columns == Assigned(s, s.ticket.columns.resolved)
  <1>1. /\ SnapshotIsHistory(s) /\ v \in Nat /\ run.version \in Nat /\ v <= run.version
        /\ s # None /\ Projected(s.ticket)
    BY DEF TInv, SyncUpdates, SnapshotIsHistory, IInv, TypeOK, Rows
  <1>2. PICK m \in 0..v, k \in 0..run.version :
            m <= k /\ s.ticket = TicketOf(m) /\ ticket = TicketOf(k)
    BY <1>1 DEF TInv, ReadTicketIsEarlier
  <1>3. columns = TicketOf(v).columns
    BY <1>1, <1>2, AssignedIsMoment DEF TInv
  <1>4. DOMAIN s.ticket.events = 0..m /\ DOMAIN ticket.events = 0..k
    BY <1>1, <1>2, MomentHasEvents
  <1>5. Missing(s) = (m + 1)..v
    BY <1>1, <1>2, <1>4 DEF Missing, SnapshotIsHistory
  <1>6. v = m \/ k = m
    <2> SUFFICES ASSUME v # m, k # m PROVE FALSE
      OBVIOUS
    <2>1. m + 1 \in Missing(s) /\ m + 1 \in DOMAIN ticket.events
      BY <1>1, <1>2, <1>4, <1>5
    <2> QED BY <2>1 DEF SyncUpdates, NoneProjected
  <1>7. ticket' =
            [columns |-> [c \in DOMAIN columns |->
                             IF columns[c] = s.ticket.columns[c]
                             THEN ticket.columns[c] ELSE columns[c]],
             events  |-> [n \in DOMAIN ticket.events \cup Missing(s) |->
                             IF n \in Missing(s) THEN ProjectEvent(s.events[n])
                             ELSE ticket.events[n]]]
    BY DEF SyncUpdates
  <1>8. CASE v = m
    <2>1. ticket'.columns = [c \in DOMAIN TicketOf(k).columns |-> TicketOf(k).columns[c]]
      <3>1. columns = s.ticket.columns
        BY <1>2, <1>3, <1>8
      <3>2. DOMAIN columns = DOMAIN TicketOf(k).columns
        BY <1>3 DEF TicketOf
      <3> QED BY <1>2, <1>7, <3>1, <3>2
    <2>2. ticket'.columns = TicketOf(k).columns
      BY <2>1 DEF TicketOf
    <2>3. ticket'.events = [n \in 0..k |-> ticket.events[n]]
      BY <1>4, <1>5, <1>7, <1>8, <1>1
    <2>4. ticket'.events = TicketOf(k).events
      BY <1>2, <2>3 DEF TicketOf
    <2>5. ticket' = [columns |-> ticket'.columns, events |-> ticket'.events]
      BY <1>7
    <2> QED BY <1>2, <2>2, <2>4, <2>5 DEF TicketOf
  <1>9. CASE k = m
    <2>1. ticket'.columns = [c \in DOMAIN TicketOf(v).columns |-> TicketOf(v).columns[c]]
      <3>1. ticket.columns = s.ticket.columns
        BY <1>2, <1>9
      <3> QED BY <1>3, <1>7, <3>1
    <2>2. ticket'.columns = TicketOf(v).columns
      BY <2>1 DEF TicketOf
    <2>3. DOMAIN ticket.events \cup Missing(s) = 0..v
      BY <1>1, <1>2, <1>4, <1>5, <1>9
    <2>4. ASSUME NEW n \in 0..v
          PROVE  ticket'.events[n] = ProjectEvent(events[n])
      <3>1. CASE n \in Missing(s)
        BY <1>7, <2>3, <3>1, <1>1 DEF SnapshotIsHistory
      <3>2. CASE n \notin Missing(s)
        <4>1. n \in 0..k
          BY <1>1, <1>2, <1>5, <1>9, <3>2
        <4>2. ticket'.events[n] = ticket.events[n]
          BY <1>7, <2>3, <3>2
        <4> QED BY <1>2, <4>1, <4>2 DEF TicketOf
      <3> QED BY <3>1, <3>2
    <2>5. ticket'.events = [n \in 0..v |-> ticket'.events[n]]
      BY <1>7, <2>3
    <2>6. ticket'.events = TicketOf(v).events
      BY <2>4, <2>5 DEF TicketOf
    <2>7. ticket' = [columns |-> ticket'.columns, events |-> ticket'.events]
      BY <1>7
    <2>8. ticket' = TicketOf(v)
      BY <2>2, <2>6, <2>7 DEF TicketOf
    <2> QED BY <1>1, <1>2, <1>9, <2>8
  <1> QED BY <1>6, <1>8, <1>9

LEMMA InitEstablishesTInv == TicketInit => TInv
  <1> SUFFICES ASSUME TicketInit PROVE TInv
    OBVIOUS
  <1>1. IInv
    BY InitEstablishesIInv DEF TicketInit
  <1>2. ~ Projected(ticket)
    BY DEF TicketInit, NoTicket, Projected
  <1> QED BY <1>1, <1>2 DEF TicketInit, TInv, TicketIsMoment, ReadTicketIsEarlier

\* When the run has not moved and the ticket is of a moment no earlier than
\* before, the transactions that are left still satisfy the invariant.
LEMMA CommitKeepsTInv ==
    ASSUME TInv, UNCHANGED vars, NEW p \in Projectors,
           syncs' = [syncs EXCEPT ![p] = None],
           \/ UNCHANGED ticket
           \/ \E n \in 0..run.version :
                 /\ ticket' = TicketOf(n)
                 /\ Projected(ticket) => \E k \in 0..n : ticket = TicketOf(k)
    PROVE  TInv'
  <1>1. IInv'
    BY NextPreservesIInv DEF TInv, vars
  <1>2. run' = run /\ events' = events /\ run.version \in Nat
    BY DEF vars, TInv, IInv, TypeOK, Rows
  <1>3. \A n : TicketOf(n)' = TicketOf(n)
    BY <1>2 DEF TicketOf, ProjectEvent
  <1>4. \A q \in Projectors : q # p => syncs'[q] = syncs[q]
    BY DEF TInv
  <1>5. syncs'[p] = None /\ DOMAIN syncs' = Projectors
    BY DEF TInv
  <1>6. ASSUME NEW q \in Projectors, syncs'[q] # None PROVE SnapshotIsHistory(syncs[q])'
    BY <1>2, <1>4, <1>5, <1>6 DEF TInv, SnapshotIsHistory
  <1>7. TicketIsMoment'
    <2>1. CASE UNCHANGED ticket
      BY <1>2, <1>3, <2>1 DEF TInv, TicketIsMoment, Projected
    <2>2. CASE \E n \in 0..run.version : ticket' = TicketOf(n)
      BY <1>2, <1>3, <2>2 DEF TicketIsMoment
    <2> QED BY <2>1, <2>2
  <1>8. ASSUME NEW q \in Projectors, syncs'[q] # None, Projected(syncs'[q].ticket)
        PROVE  \E m \in 0..syncs'[q].run.version, k \in 0..run.version :
                   m <= k /\ syncs'[q].ticket = TicketOf(m) /\ ticket' = TicketOf(k)
    <2>1. q # p /\ syncs'[q] = syncs[q]
      BY <1>4, <1>5, <1>8
    <2>2. PICK m \in 0..syncs[q].run.version, k \in 0..run.version :
              m <= k /\ syncs[q].ticket = TicketOf(m) /\ ticket = TicketOf(k)
      BY <1>8, <2>1 DEF TInv, ReadTicketIsEarlier
    <2>3. CASE UNCHANGED ticket
      BY <2>1, <2>2, <2>3
    <2>4. ASSUME NEW n \in 0..run.version, ticket' = TicketOf(n),
                 NEW j \in 0..n, ticket = TicketOf(j)
          PROVE  m <= n
      <3>0. j \in Nat /\ k \in Nat
        BY <1>2, <2>2, <2>4
      <3>1. 0..j = 0..k
        <4>1. DOMAIN ticket.events = 0..j
          BY <2>4, <3>0, MomentHasEvents
        <4>2. DOMAIN ticket.events = 0..k
          BY <2>2, <3>0, MomentHasEvents
        <4> QED BY <4>1, <4>2
      <3> QED BY <1>2, <2>2, <3>1
    <2>5. Projected(ticket)
      BY <1>2, <2>2, MomentHasEvents
    <2> QED BY <2>1, <2>2, <2>3, <2>4, <2>5
  <1>9. ReadTicketIsEarlier'
    BY <1>2, <1>3, <1>8 DEF ReadTicketIsEarlier, Projected
  <1> QED BY <1>1, <1>5, <1>6, <1>7, <1>9 DEF TInv

LEMMA NextPreservesTInv == TInv /\ [TicketNext]_<<vars, ticketVars>> => TInv'
  <1> SUFFICES ASSUME TInv, [TicketNext]_<<vars, ticketVars>> PROVE TInv'
    OBVIOUS
  <1>0. IInv /\ run.version \in Nat
    BY DEF TInv, IInv, TypeOK, Rows
  <1>1. ASSUME [Next]_vars, UNCHANGED ticketVars PROVE TInv'
    <2>1. IInv' /\ ticket' = ticket /\ syncs' = syncs
      BY <1>0, <1>1, NextPreservesIInv DEF ticketVars
    <2>2. \A n \in 0..run.version : TicketOf(n)' = TicketOf(n) /\ n \in 0..run'.version
      BY <1>0, <1>1, MomentsStand
    <2>3. ASSUME NEW p \in Projectors, syncs[p] # None
          PROVE  SnapshotIsHistory(syncs[p])' /\ syncs[p].run.version \in 0..run.version
      <3>1. SnapshotIsHistory(syncs[p])
        BY <2>3 DEF TInv
      <3> QED BY <1>0, <1>1, <2>1, <3>1, TrailOnlyGrows DEF SnapshotIsHistory
    <2>4. TicketIsMoment'
      BY <2>1, <2>2 DEF TInv, TicketIsMoment, Projected
    <2>5. ASSUME NEW p \in Projectors, syncs'[p] # None, Projected(syncs'[p].ticket)
          PROVE  \E m \in 0..syncs'[p].run.version, k \in 0..run'.version :
                     m <= k /\ syncs'[p].ticket = TicketOf(m)' /\ ticket' = TicketOf(k)'
      <3>1. PICK m \in 0..syncs[p].run.version, k \in 0..run.version :
                m <= k /\ syncs[p].ticket = TicketOf(m) /\ ticket = TicketOf(k)
        BY <2>1, <2>5 DEF TInv, ReadTicketIsEarlier
      <3>2. m \in 0..run.version
        BY <1>0, <2>1, <2>3, <2>5, <3>1
      <3> QED BY <2>1, <2>2, <3>1, <3>2
    <2>6. ReadTicketIsEarlier'
      BY <2>5 DEF ReadTicketIsEarlier, Projected
    <2> QED BY <2>1, <2>3, <2>4, <2>6 DEF TInv
  <1>2. ASSUME NEW p \in Projectors, SyncBegins(p) PROVE TInv'
    <2>1. UNCHANGED <<vars, ticket>> /\ run' = run /\ events' = events /\ ticket' = ticket
      BY <1>2 DEF SyncBegins, vars
    <2>2. IInv' /\ \A n : TicketOf(n)' = TicketOf(n)
      BY <1>0, <2>1, NextPreservesIInv DEF TicketOf, ProjectEvent, vars
    <2>3. /\ DOMAIN syncs' = Projectors
          /\ syncs'[p] = Snapshot
          /\ \A q \in Projectors : q # p => syncs'[q] = syncs[q]
      BY <1>2 DEF SyncBegins, TInv
    <2>4. SnapshotIsHistory(Snapshot)
      BY <1>0 DEF SnapshotIsHistory, Snapshot, IInv, TypeOK, AuditTrailIsHistory
    <2>5. \A q \in Projectors : syncs'[q] # None => SnapshotIsHistory(syncs[q])'
      BY <2>1, <2>3, <2>4 DEF SnapshotIsHistory, TInv
    <2>6. TicketIsMoment'
      BY <2>1, <2>2 DEF TicketIsMoment, TInv, Projected
    <2>7. ASSUME NEW q \in Projectors, syncs'[q] # None, Projected(syncs'[q].ticket)
          PROVE  \E m \in 0..syncs'[q].run.version, k \in 0..run.version :
                     m <= k /\ syncs'[q].ticket = TicketOf(m) /\ ticket = TicketOf(k)
      <3>1. CASE q = p
        BY <1>0, <2>3, <2>7, <3>1 DEF TInv, TicketIsMoment, Snapshot, Projected
      <3>2. CASE q # p
        BY <2>3, <2>7, <3>2 DEF TInv, ReadTicketIsEarlier
      <3> QED BY <3>1, <3>2
    <2>8. ReadTicketIsEarlier'
      BY <2>1, <2>2, <2>7 DEF ReadTicketIsEarlier, Projected
    <2> QED BY <2>2, <2>3, <2>5, <2>6, <2>8 DEF TInv
  <1>3. ASSUME NEW p \in Projectors, SyncCreates(p) PROVE TInv'
    <2>1. ticket' = TicketOf(syncs[p].run.version) /\ ~ Projected(ticket)
      BY <1>3, CreationIsMoment DEF SyncCreates
    <2>2. syncs[p].run.version \in 0..run.version
      BY <1>3 DEF SyncCreates, TInv, SnapshotIsHistory
    <2>3. UNCHANGED vars /\ syncs' = [syncs EXCEPT ![p] = None]
      BY <1>3 DEF SyncCreates
    <2> QED BY <2>1, <2>2, <2>3, CommitKeepsTInv
  <1>4. ASSUME NEW p \in Projectors, SyncUpdates(p) PROVE TInv'
    <2>1. PICK k \in 0..run.version :
              /\ ticket = TicketOf(k)
              /\ \/ ticket' = TicketOf(k)
                 \/ k <= syncs[p].run.version /\ ticket' = TicketOf(syncs[p].run.version)
      BY <1>4, UpdateIsMoment
    <2>2. syncs[p].run.version \in 0..run.version
      BY <1>4 DEF SyncUpdates, TInv, SnapshotIsHistory
    <2>3. UNCHANGED vars /\ syncs' = [syncs EXCEPT ![p] = None]
      BY <1>4 DEF SyncUpdates
    <2>4. CASE ticket' = TicketOf(k)
      BY <1>0, <2>1, <2>3, <2>4, CommitKeepsTInv
    <2>5. CASE k <= syncs[p].run.version /\ ticket' = TicketOf(syncs[p].run.version)
      <3>1. k \in 0..syncs[p].run.version
        BY <1>0, <2>2, <2>5
      <3> QED BY <2>1, <2>2, <2>3, <2>5, <3>1, CommitKeepsTInv
    <2> QED BY <2>1, <2>4, <2>5
  <1>5. ASSUME NEW p \in Projectors, SyncFails(p) PROVE TInv'
    <2>1. UNCHANGED vars /\ syncs' = [syncs EXCEPT ![p] = None] /\ UNCHANGED ticket
      BY <1>5 DEF SyncFails
    <2> QED BY <2>1, CommitKeepsTInv
  <1>6. CASE UNCHANGED <<vars, ticketVars>>
    BY <1>1, <1>6
  <1> QED BY <1>1, <1>2, <1>3, <1>4, <1>5, <1>6 DEF TicketNext

\* Whatever projections and transitions overlap, the ticket shows one moment of
\* its run (TicketProjectionService.sync).
THEOREM TicketIsProjection == TicketSpec => []TicketFollowsTrail
  <1>1. TInv => TicketFollowsTrail
    BY DEF TInv, TicketIsMoment, TicketFollowsTrail
  <1> QED BY <1>1, InitEstablishesTInv, NextPreservesTInv, PTL DEF TicketSpec

\* The run of TicketSpec is the run of Spec: the audit trail stays its history
\* and it goes through the lifecycle while tickets are projected.
THEOREM TicketSpecRefines == TicketSpec => []AuditTrailIsHistory /\ ImplementsLifecycle
  <1>1. TicketInit => Init
    BY DEF TicketInit
  <1>2. [TicketNext]_<<vars, ticketVars>> => [Next]_vars
    BY DEF TicketNext, SyncBegins, SyncCreates, SyncUpdates, SyncFails
  <1> QED BY <1>1, <1>2, AuditTrailCorrect, RefinesLifecycle, PTL DEF TicketSpec, Spec
===============================================================================
