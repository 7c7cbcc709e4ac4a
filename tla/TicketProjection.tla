--------------------------- MODULE TicketProjection ---------------------------
(***************************************************************************)
(* The ticket a requester sees: backend/app/tickets/service.py, composed   *)
(* with the run and the audit trail it is projected from.                  *)
(*                                                                         *)
(* sync is one transaction on one REPEATABLE READ snapshot.  It inserts    *)
(* the events its snapshot of the ticket lacks, then assigns the columns   *)
(* of the ticket; the unit of work sends only the columns that differ from *)
(* the row it loaded.  Nothing locks the ticket and no version guards it:  *)
(* what keeps an old projection from overwriting a newer one is that the   *)
(* two insert the same (ticket_id, sequence) and the later one fails.      *)
(***************************************************************************)
EXTENDS WorkflowRepository

CONSTANT Projectors     \* handlers that project the run into its ticket

VARIABLES ticket,       \* the committed ticket with its events and its service request
          syncs         \* per projector: the snapshot of its transaction

ticketVars == <<ticket, syncs>>

\* _STATUS_BY_WORKFLOW_STATE
StatusOf(state) ==
    CASE state = "CREATED"                 -> "OPEN"
      [] state \in {"RUNNING", "EXECUTING"} -> "IN_PROGRESS"
      [] state = "WAITING_USER"            -> "NEEDS_INPUT"
      [] state = "WAITING_APPROVAL"        -> "PENDING_APPROVAL"
      [] state = "WAITING_HUMAN"           -> "HUMAN_REVIEW"
      [] state = "COMPLETED"               -> "RESOLVED"
      [] OTHER                             -> state

\* _project_event: from_status is empty for the event of the creation.
ProjectEvent(e) ==
    [from |-> IF e.from = None THEN None ELSE StatusOf(e.from), to |-> StatusOf(e.to)]

\* What a transaction has read: the run, its trail and the ticket, of one moment.
Snapshot == [run |-> run, events |-> events, ticket |-> ticket]

\* The columns sync assigns for the run of snapshot s; old is the resolved_at
\* it loaded, and created_at of an event is told by its sequence.
Assigned(s, old) ==
    [status   |-> StatusOf(s.run.state),
     state    |-> s.run.state,
     resolved |-> IF s.run.state \notin Lifecycle!TerminalStates THEN None
                  ELSE IF old = None THEN s.run.version ELSE old]

\* No row yet: a ticket is created with the event of the run's own creation.
NoTicket == [columns |-> None, events |-> [n \in {} |-> None]]
Projected(t) == DOMAIN t.events # {}

\* The events of the trail whose sequence the loaded ticket lacks.
Missing(s) == DOMAIN s.events \ DOMAIN s.ticket.events

TicketInit ==
    /\ Init
    /\ ticket = NoTicket
    /\ syncs = [p \in Projectors |-> None]

\* The first SELECT of sync fixes what the rest of the transaction reads.
SyncBegins(p) ==
    /\ syncs[p] = None
    /\ syncs' = [syncs EXCEPT ![p] = Snapshot]
    /\ UNCHANGED <<vars, ticket>>

\* The first projection: workflow_run_id is unique on both tables, so of two
\* only one commits.  A caller without requester or title fails instead.
SyncCreates(p) ==
    LET s == syncs[p] columns == Assigned(s, None)
    IN  /\ s # None /\ ~ Projected(s.ticket)
        /\ ~ Projected(ticket)
        /\ ticket' = [columns |-> columns,
                      events |-> [n \in Missing(s) |-> ProjectEvent(s.events[n])]]
        /\ syncs' = [syncs EXCEPT ![p] = None]
        /\ UNCHANGED vars

\* Mutant: the table of ticket events takes the same sequence again.
NothingRefused(s) == TRUE

\* UNIQUE (ticket_id, sequence): none of the events is there by now.
NoneProjected(s) == Missing(s) \cap DOMAIN ticket.events = {}

\* A later projection: the missing events, and the columns that changed.
SyncUpdates(p) ==
    LET s == syncs[p] columns == Assigned(s, s.ticket.columns.resolved)
    IN  /\ s # None /\ Projected(s.ticket)
        /\ NoneProjected(s)
        /\ ticket' =
               [columns |-> [c \in DOMAIN columns |->
                                IF columns[c] = s.ticket.columns[c]
                                THEN ticket.columns[c] ELSE columns[c]],
                events  |-> [n \in DOMAIN ticket.events \cup Missing(s) |->
                                IF n \in Missing(s) THEN ProjectEvent(s.events[n])
                                ELSE ticket.events[n]]]
        /\ syncs' = [syncs EXCEPT ![p] = None]
        /\ UNCHANGED vars

\* A unique constraint, a requester or a title that is missing, or the death
\* of the process: the run has moved on and its ticket has not.
SyncFails(p) ==
    /\ syncs[p] # None
    /\ syncs' = [syncs EXCEPT ![p] = None]
    /\ UNCHANGED <<vars, ticket>>

TicketNext ==
    \/ Next /\ UNCHANGED ticketVars
    \/ \E p \in Projectors :
          \/ SyncBegins(p)
          \/ SyncCreates(p)
          \/ SyncUpdates(p)
          \/ SyncFails(p)

TicketSpec == TicketInit /\ [][TicketNext]_<<vars, ticketVars>>

-----------------------------------------------------------------------------
(* Properties                                                              *)

\* The ticket of the trail up to event n.
TicketOf(n) ==
    [columns |-> [status   |-> StatusOf(events[n].to),
                  state    |-> events[n].to,
                  resolved |-> IF events[n].to \in Lifecycle!TerminalStates THEN n ELSE None],
     events  |-> [i \in 0..n |-> ProjectEvent(events[i])]]

\* The ticket is at all times the projection of one moment of its run:
\* whatever overlaps, its timeline has no gap and no duplicate, and its
\* status, its state and resolved_at are those of the last event it shows.
\* An old projection cannot put an old status over a newer timeline, nor can
\* a closed ticket lose the moment it was resolved at.
TicketFollowsTrail == Projected(ticket) => \E n \in 0..run.version : ticket = TicketOf(n)
=============================================================================
