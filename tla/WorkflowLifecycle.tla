-------------------------- MODULE WorkflowLifecycle --------------------------
(***************************************************************************)
(* The life of one workflow run as every other part of BizOrch relies on   *)
(* it: the transition table of backend/app/workflow/state.py, and the      *)
(* abstract machine that moves one run along it, one version per step.     *)
(* WorkflowRepository implements Spec; AccessWorkflow's steps follow Next. *)
(***************************************************************************)
EXTENDS Naturals

VARIABLES state,    \* WorkflowRun.state
          version   \* WorkflowRun.version

WorkflowStates ==
    {"CREATED", "RUNNING", "WAITING_USER", "WAITING_APPROVAL", "WAITING_HUMAN",
     "EXECUTING", "COMPLETED", "FAILED", "CANCELLED"}

TerminalStates == {"COMPLETED", "FAILED", "CANCELLED"}

\* _ALLOWED_TRANSITIONS: the states a run in state s may be moved to.
AllowedTargets(s) ==
    CASE s = "CREATED"          -> {"RUNNING", "CANCELLED"}
      [] s = "RUNNING"          -> {"WAITING_USER", "WAITING_APPROVAL",
                                    "WAITING_HUMAN", "EXECUTING", "COMPLETED",
                                    "FAILED", "CANCELLED"}
      [] s = "WAITING_USER"     -> {"RUNNING", "CANCELLED"}
      [] s = "WAITING_APPROVAL" -> {"RUNNING", "WAITING_HUMAN", "COMPLETED",
                                    "FAILED", "CANCELLED"}
      [] s = "WAITING_HUMAN"    -> {"RUNNING", "COMPLETED", "FAILED", "CANCELLED"}
      [] s = "EXECUTING"        -> {"COMPLETED", "FAILED", "WAITING_HUMAN"}
      [] OTHER                  -> {}

CanTransition(current, target) == target \in AllowedTargets(current)

-----------------------------------------------------------------------------
Init == /\ state = "CREATED"
        /\ version = 0

\* A legal change of state takes exactly one version.
Transition(target) ==
    /\ CanTransition(state, target)
    /\ state' = target
    /\ version' = version + 1

\* Progress recorded without leaving a state that is still open.
Progress ==
    /\ state \notin TerminalStates
    /\ state' = state
    /\ version' = version + 1

Next == Progress \/ \E target \in WorkflowStates : Transition(target)

Spec == Init /\ [][Next]_<<state, version>>
=============================================================================
