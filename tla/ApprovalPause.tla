------------------------------ MODULE ApprovalPause ------------------------------
(***************************************************************************)
(* The approval pause of a run: approval/checkpoint.py for a single task   *)
(* and approval/sequence_checkpoint.py for a serial route.  Both keep a    *)
(* graph interrupted until the decision is final, decide in a transaction  *)
(* of the database, and resume the graph after its commit; a crash or      *)
(* another handler may come in between.                                    *)
(***************************************************************************)
EXTENDS PlanRun

\* The recorded decision of a stage, and the stage a snapshot shows.
Decided(s) ==
    CASE s <= approved -> "APPROVED"
      [] s = approved + 1 /\ verdict = "REJECTED" -> "REJECTED"
      [] OTHER -> "PENDING"
Displayed == IF verdict = "APPROVED" THEN scenario.stages ELSE approved + 1

\* What the scenario does with a decided pause: only an approval is executed.
After(h) ==
    request' = [request EXCEPT ![h] =
                    IF verdict = "APPROVED" THEN [Idle EXCEPT !.at = "check"] ELSE Idle]

-----------------------------------------------------------------------------
(* arm: the pause is created by whoever first looks at the waiting run.    *)

\* There is no graph state yet.  For a route, the run is also seen waiting at
\* the version the caller has read: no decision precedes the first pause.
Arm(h) ==
    /\ At(h, "idle")
    /\ run.state = "WAITING_APPROVAL" /\ checkpoint = "none"
    /\ Goto(h, "invoke")
    /\ UNCHANGED <<scenario, run, route, progress, checkpoint, active, keys, faults>>

\* The graph is started and stops at the approval, even if another handler has
\* armed it in the meantime.
Invoke(h) ==
    /\ At(h, "invoke")
    /\ checkpoint' = "await"
    /\ Reply(h)
    /\ UNCHANGED <<scenario, run, route, progress, active, keys, faults>>

-----------------------------------------------------------------------------
(* ApprovalCheckpointCoordinator.                                          *)

Receive(h, s, order, phase) ==
    request' = [request EXCEPT ![h] = [Idle EXCEPT !.at = phase, !.order = order, !.stage = s,
                                       !.version = run.version, !.seen = checkpoint]]

\* A handler takes a snapshot; a pause that is over needs the same decision.
SingleSnapshot(h, order) ==
    /\ At(h, "idle") /\ ~Is("procurement")
    /\ checkpoint # "none"
    /\ CASE checkpoint = "await" /\ order = "RECORDED" -> Receive(h, 1, order, "recorded")
         [] checkpoint = "await" /\ order # "RECORDED" -> Receive(h, 1, order, "decide")
         [] checkpoint = "end" /\ order \in {"RECORDED", verdict} -> After(h)
         [] OTHER -> Reply(h)
    /\ UNCHANGED <<scenario, run, route, progress, checkpoint, active, keys, faults>>

\* A final decision takes the plan and the run with it.
Verdict(order) ==
    /\ verdict' = order
    /\ approved' = IF order = "APPROVED" THEN scenario.stages ELSE approved
    /\ plan' = IF ~HasPlan THEN plan ELSE IF order = "APPROVED" THEN "APPROVED" ELSE "CANCELLED"
    /\ Move(IF order = "APPROVED" THEN "RUNNING" ELSE "COMPLETED")

\* ApprovalWorkflowService.decide needs the task pending and the expected version.
CanDecide(h) ==
    /\ verdict = "PENDING"
    /\ run.state = "WAITING_APPROVAL" /\ run.version = request[h].version

SingleDecision(h) ==
    /\ At(h, "decide") /\ ~Is("procurement")
    /\ IF CanDecide(h)
       THEN Verdict(request[h].order) /\ Goto(h, "resume")
       ELSE /\ IF verdict = request[h].order THEN Goto(h, "resume") ELSE Reply(h)
            /\ UNCHANGED <<run, route, plan>>
    /\ UNCHANGED <<scenario, steps, checkpoint, active, keys, faults>>

-----------------------------------------------------------------------------
(* ApprovalSequenceCheckpointCoordinator.                                  *)

\* A stage that is not the displayed one needs the same decision recorded.
SequenceSnapshot(h, s, order) ==
    /\ At(h, "idle") /\ Is("procurement")
    /\ checkpoint # "none"
    /\ s \in 1..Displayed /\ (order = "RECORDED" => s = 1)
    /\ CASE order = "RECORDED" -> Receive(h, s, order, "recorded")
         [] order # "RECORDED" /\ s = Displayed -> Receive(h, s, order, "decide")
         [] order = Decided(s) /\ s # Displayed -> After(h)
         [] OTHER -> Reply(h)
    /\ UNCHANGED <<scenario, run, route, progress, checkpoint, active, keys, faults>>

\* A stage that is not the last one records progress and leaves the graph paused.
ApproveStage(h) ==
    /\ At(h, "decide") /\ Is("procurement")
    /\ CanDecide(h) /\ request[h].stage = approved + 1
    /\ request[h].order = "APPROVED" /\ request[h].stage < scenario.stages
    /\ approved' = approved + 1
    /\ Progress
    /\ Reply(h)
    /\ UNCHANGED <<scenario, verdict, progress, checkpoint, active, keys, faults>>

EndRoute(h) ==
    /\ At(h, "decide") /\ Is("procurement")
    /\ CanDecide(h) /\ request[h].stage = approved + 1
    /\ request[h].order = "APPROVED" => request[h].stage = scenario.stages
    /\ Verdict(request[h].order)
    /\ Goto(h, "resume")
    /\ UNCHANGED <<scenario, steps, checkpoint, active, keys, faults>>

\* The stage is already decided, or the run has moved on.
RepeatStage(h) ==
    /\ At(h, "decide") /\ Is("procurement")
    /\ ~(CanDecide(h) /\ request[h].stage = approved + 1)
    /\ CASE Decided(request[h].stage) # request[h].order -> Reply(h)
         [] request[h].seen = "await" /\ Decided(request[h].stage) = request[h].order ->
                Goto(h, "recorded")
         [] OTHER -> After(h)
    /\ UNCHANGED <<scenario, run, route, progress, checkpoint, active, keys, faults>>

-----------------------------------------------------------------------------
(* Both: resume_recorded_decision, and the graph.                          *)

\* The state a decided run is expected in.
Repairable == run.state = IF verdict = "APPROVED" THEN "RUNNING" ELSE "COMPLETED"

ResumeRecorded(h) ==
    /\ At(h, "recorded")
    /\ CASE checkpoint = "end" -> After(h)
         [] checkpoint # "end" /\ verdict # "PENDING" /\ Repairable -> Goto(h, "resume")
         [] OTHER -> Reply(h)
    /\ UNCHANGED <<scenario, run, route, progress, checkpoint, active, keys, faults>>

\* The graph runs from the pause to its end; one that has ended stays there.
Resume(h) ==
    /\ At(h, "resume")
    /\ checkpoint' = "end"
    /\ After(h)
    /\ UNCHANGED <<scenario, run, route, progress, active, keys, faults>>

\* A transaction of a decision fails.
DecisionFails(h) ==
    /\ request[h].at \in {"decide", "recorded"}
    /\ Fault
    /\ Reply(h)
    /\ UNCHANGED <<scenario, run, route, progress, checkpoint, active, keys>>

Decide(h, s, order) ==
    SequenceSnapshot(h, s, order) \/ (s = 1 /\ SingleSnapshot(h, order))

Pause(h) ==
    \/ Arm(h) \/ Invoke(h)
    \/ \E s \in 1..scenario.stages, order \in Orders : Decide(h, s, order)
    \/ SingleDecision(h) \/ ApproveStage(h) \/ EndRoute(h) \/ RepeatStage(h)
    \/ ResumeRecorded(h) \/ Resume(h) \/ DecisionFails(h)
================================================================================
