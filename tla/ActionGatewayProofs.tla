-------------------------- MODULE ActionGatewayProofs --------------------------
(***************************************************************************)
(* For any callers, proposals, keys and resources: the type invariant and  *)
(* the safety properties of ActionGateway, and its refinement of           *)
(* OnceOnlyWrite.                                                          *)
(*                                                                         *)
(* The argument: a key is owned by the one caller that inserted its record *)
(* (Exclusive), from the insert until the caller is done, and no caller    *)
(* owns a key again once that caller is gone; every guarantee then follows *)
(* the owner from step to step (OwnerInv) and stays with the key (KeyInv)  *)
(* and with the enterprise system (WireInv) after the owner is gone.       *)
(***************************************************************************)
EXTENDS ActionGateway, TLAPS

Owning == {"start", "send", "await", "verify", "finalize", "finish"}
Sent == {"await", "verify", "finalize", "finish"}
Approved == Owning \cup {"proposals", "state", "reserve"}
Attempts == Outcomes \ {"REPLAYED"}

CallInv ==
    \A c \in Callers :
        /\ pc[c] # "idle" => call[c] \in Calls
        /\ pc[c] \in Approved =>
            call[c].approval = call[c].proposal /\ approval[call[c].proposal] = "APPROVED"
        /\ pc[c] = "returned" /\ result[c] \in {"SUCCEEDED", "REPLAYED", "ALREADY_SATISFIED"}
            => TargetOf[call[c].proposal] \in held

OwnerInv ==
    \A c \in Callers : pc[c] \in Owning =>
        /\ idem[call[c].key] # None
        /\ idem[call[c].key].proposal = call[c].proposal
        /\ pc[c] # "finish" => idem[call[c].key].status = "IN_PROGRESS"
        /\ pc[c] = "finish" => idem[call[c].key].status = IdempotencyStatusOf(result[c])
        /\ pc[c] \in {"finalize", "finish"} => result[c] \in Attempts
        /\ pc[c] = "finalize" /\ result[c] = "TOOL_FAILED" => reply[call[c].key] = "REJECTED"
        /\ pc[c] \in {"finalize", "finish"} /\ result[c] = "SUCCEEDED" =>
            TargetOf[call[c].proposal] \in held
        /\ sends[call[c].key] = IF pc[c] \in Sent THEN 1 ELSE 0
        /\ exec[call[c].key] = IF pc[c] = "start" THEN "NONE" ELSE "EXECUTING"

Exclusive ==
    \A c, d \in Callers :
        c # d /\ pc[c] \in Owning /\ pc[d] \in Owning => call[c].key # call[d].key

KeyInv ==
    \A k \in Keys :
        /\ sends[k] \in {0, 1}
        /\ idem[k] = None => sends[k] = 0 /\ exec[k] = "NONE"
        /\ sends[k] = 0 =>
            reply[k] = None /\ external[k] = None /\ \A m \in wire : m.key # k
        /\ IsFinal(k) => sends[k] = 1
        /\ IsFinal(k) /\ idem[k].status = "SUCCEEDED" =>
            TargetOf[idem[k].proposal] \in held
        /\ IsFinal(k) /\ idem[k].status = "FAILED" => reply[k] = "REJECTED"
        /\ reply[k] = "REJECTED" => external[k] = None
        /\ exec[k] \in Attempts =>
            idem[k] # None /\ idem[k].status = IdempotencyStatusOf(exec[k])

WireInv ==
    /\ \A m \in wire :
        /\ approval[m.proposal] = "APPROVED"
        /\ idem[m.key] # None /\ idem[m.key].proposal = m.proposal
        /\ external[m.key] = None
        /\ reply[m.key] # "REJECTED"
    /\ \A m, n \in wire : m.key = n.key => m = n
    /\ granted \subseteq held

IInv == TypeOK /\ CallInv /\ OwnerInv /\ Exclusive /\ KeyInv /\ WireInv

USE DEF durable, threads, enterprise

LEMMA InitEstablishesIInv == Init => IInv
  <1> SUFFICES ASSUME Init PROVE IInv
    OBVIOUS
  <1>1. TypeOK
    BY BoundAssumption DEF Init, TypeOK, Phases, ExecutionStatuses
  <1>2. CallInv /\ OwnerInv /\ Exclusive /\ KeyInv /\ WireInv
    BY NoneAssumption DEF Init, CallInv, OwnerInv, Exclusive, KeyInv, WireInv, Owning, Approved,
       IsFinal, Attempts, Outcomes
  <1> QED BY <1>1, <1>2 DEF IInv

\* A caller that reads, fails or leaves: it gains no key, and what it holds of
\* the approval and the enterprise it had before or has just checked.
LEMMA LocalStep ==
    ASSUME IInv, NEW c \in Callers, NEW phase \in Phases \ Owning,
           NEW r \in Outcomes \cup Raised \cup {None}, NEW arguments \in Calls \cup {None},
           pc' = [pc EXCEPT ![c] = phase],
           result' = [result EXCEPT ![c] = r],
           call' = [call EXCEPT ![c] = arguments],
           phase # "idle" => arguments \in Calls,
           phase \in Approved =>
              arguments.approval = arguments.proposal
              /\ approval[arguments.proposal] = "APPROVED",
           phase = "returned" /\ r \in {"SUCCEEDED", "REPLAYED", "ALREADY_SATISFIED"} =>
              TargetOf[arguments.proposal] \in held,
           UNCHANGED <<durable, enterprise, sends>>
    PROVE  IInv'
  <1>1. TypeOK'
    BY DEF IInv, TypeOK
  <1>2. CallInv'
    BY DEF IInv, TypeOK, CallInv
  <1>3. OwnerInv'
    BY DEF IInv, TypeOK, OwnerInv
  <1>4. Exclusive'
    BY DEF IInv, TypeOK, Exclusive
  <1>5. KeyInv' /\ WireInv'
    BY DEF IInv, KeyInv, WireInv, IsFinal
  <1> QED BY <1>1, <1>2, <1>3, <1>4, <1>5 DEF IInv

\* The steps that write nothing durable: the checks before the reservation, the
\* exceptions, and the return to the caller.
LEMMA GatesPreserveIInv ==
    ASSUME IInv, NEW c \in Callers,
           \/ \E p, q \in Proposals, k \in Keys, authorized \in BOOLEAN :
                Execute(c, p, q, k, authorized)
           \/ CheckApproval(c) \/ CheckVersion(c) \/ CheckState(c)
           \/ StepFails(c) \/ Return(c)
    PROVE  IInv'
  <1> USE DEF Phases, Owning, Raised, Goto, Yield
  <1>0. /\ call[c] \in Calls \cup {None}
        /\ result[c] \in Outcomes \cup Raised \cup {None}
        /\ pc \in [Callers -> Phases] /\ call \in [Callers -> Calls \cup {None}]
        /\ result \in [Callers -> Outcomes \cup Raised \cup {None}]
        /\ pc[c] # "idle" => call[c] \in Calls
    BY DEF IInv, TypeOK, CallInv
  <1>1. ASSUME NEW p \in Proposals, NEW q \in Proposals, NEW k \in Keys,
               NEW authorized \in BOOLEAN, Execute(c, p, q, k, authorized)
        PROVE  IInv'
    <2> DEFINE arguments == [proposal |-> p, approval |-> q, key |-> k]
    <2>1. arguments \in Calls
      BY DEF Calls
    <2>2. CASE authorized = TRUE
      <3>1. /\ pc' = [pc EXCEPT ![c] = "approvals"]
            /\ result' = [result EXCEPT ![c] = result[c]]
            /\ call' = [call EXCEPT ![c] = arguments]
            /\ UNCHANGED <<durable, enterprise, sends>>
        BY <1>0, <1>1, <2>2 DEF Execute
      <3> QED BY <1>0, <2>1, <3>1, LocalStep DEF Approved
    <2>3. CASE authorized = FALSE
      BY <1>0, <1>1, <2>1, <2>3, LocalStep DEF Execute, Approved
    <2> QED BY <2>2, <2>3
  <1>2. CASE CheckApproval(c)
    <2>1. CASE ApprovalMatches(c)
      BY <1>0, <1>2, <2>1, LocalStep DEF CheckApproval, ApprovalMatches, Approved
    <2>2. CASE ~ApprovalMatches(c)
      BY <1>0, <1>2, <2>2, LocalStep DEF CheckApproval, Approved
    <2> QED BY <2>1, <2>2
  <1>3. CASE CheckVersion(c)
    <2>1. pc[c] \in Approved /\ pc[c] # "idle"
      BY <1>3 DEF CheckVersion, Approved
    <2>2. call[c].approval = call[c].proposal /\ approval[call[c].proposal] = "APPROVED"
      BY <2>1 DEF IInv, CallInv
    <2> QED BY <1>0, <1>3, <2>1, <2>2, LocalStep DEF CheckVersion, Approved
  <1>4. CASE CheckState(c)
    <2>1. pc[c] \in Approved /\ pc[c] # "idle"
      BY <1>4 DEF CheckState, Approved
    <2>2. call[c].approval = call[c].proposal /\ approval[call[c].proposal] = "APPROVED"
      BY <2>1 DEF IInv, CallInv
    <2>3. granted \subseteq held
      BY DEF IInv, WireInv
    <2> QED BY <1>0, <1>4, <2>1, <2>2, <2>3, LocalStep DEF CheckState, Approved
  <1>5. CASE StepFails(c)
    BY <1>0, <1>5, LocalStep DEF StepFails, Approved
  <1>6. CASE Return(c)
    BY <1>0, <1>6, LocalStep DEF Return, Approved
  <1> QED BY <1>1, <1>2, <1>3, <1>4, <1>5, <1>6

\* Reserving is the one way to own a key: the key had no record, so no caller
\* owned it and nothing was ever sent under it.
LEMMA ReservePreservesIInv ==
    ASSUME IInv, NEW c \in Callers, Reserve(c)
    PROVE  IInv'
  <1> USE DEF Phases, Owning, Goto, Yield
  <1>0. /\ call[c] \in Calls
        /\ pc[c] = "reserve" /\ pc[c] \in Approved
        /\ call[c].key \in Keys /\ call[c].proposal \in Proposals
        /\ call[c].approval = call[c].proposal
        /\ approval[call[c].proposal] = "APPROVED"
        /\ pc \in [Callers -> Phases] /\ call \in [Callers -> Calls \cup {None}]
        /\ result \in [Callers -> Outcomes \cup Raised \cup {None}]
    BY DEF IInv, TypeOK, CallInv, Reserve, Approved, Calls
  <1> DEFINE k == call[c].key
             reserved == [proposal |-> call[c].proposal, status |-> "IN_PROGRESS"]
  <1>1. CASE Reservable(c) /\ idem' = [idem EXCEPT ![k] = reserved]
             /\ Goto(c, "start") /\ UNCHANGED result
    <2>1. /\ idem' = [idem EXCEPT ![k] = reserved]
          /\ pc' = [pc EXCEPT ![c] = "start"]
          /\ UNCHANGED <<latest, approval, exec, call, result, enterprise, sends>>
      BY <1>1 DEF Reserve
    <2>2. idem[k] = None /\ sends[k] = 0 /\ exec[k] = "NONE"
      BY <1>0, <1>1 DEF Reservable, IInv, KeyInv
    <2>3. \A m \in wire : m.key # k
      BY <1>0, <2>2 DEF IInv, KeyInv
    <2>4. \A d \in Callers : pc[d] \in Owning => call[d].key # k
      BY <2>2 DEF IInv, OwnerInv
    <2>5. reserved \in IdempotencyRecords
      BY <1>0 DEF IdempotencyRecords
    <2>6. idem \in [Keys -> IdempotencyRecords \cup {None}]
      BY DEF IInv, TypeOK
    <2>7. TypeOK'
      BY <2>1, <2>5, <2>6 DEF IInv, TypeOK
    <2>8. CallInv'
      BY <1>0, <2>1 DEF IInv, TypeOK, CallInv, Approved
    <2>9. OwnerInv'
      BY <1>0, <2>1, <2>2, <2>4, <2>5, <2>6, NoneAssumption
      DEF IInv, TypeOK, OwnerInv, Sent
    <2>10. Exclusive'
      BY <1>0, <2>1, <2>4 DEF IInv, TypeOK, Exclusive
    <2>11. KeyInv'
      BY <1>0, <2>1, <2>2, <2>3, <2>5, <2>6, NoneAssumption
      DEF IInv, KeyInv, IsFinal, Attempts, Outcomes
    <2>12. WireInv'
      BY <1>0, <2>1, <2>3, <2>6 DEF IInv, TypeOK, WireInv, Requests
    <2> QED BY <2>7, <2>8, <2>9, <2>10, <2>11, <2>12 DEF IInv
  <1>2. CASE Replayable(c) /\ Yield(c, "REPLAYED") /\ UNCHANGED idem
    <2>1. TargetOf[call[c].proposal] \in held
      BY <1>0, <1>2 DEF Replayable, IInv, KeyInv, IsFinal
    <2>2. /\ pc' = [pc EXCEPT ![c] = "returned"]
          /\ result' = [result EXCEPT ![c] = "REPLAYED"]
          /\ call' = [call EXCEPT ![c] = call[c]]
          /\ UNCHANGED <<durable, enterprise, sends>>
      BY <1>0, <1>2 DEF Reserve
    <2> QED BY <1>0, <2>1, <2>2, LocalStep DEF Approved, Outcomes
  <1>3. CASE Yield(c, "ERROR") /\ UNCHANGED idem
    <2>1. /\ pc' = [pc EXCEPT ![c] = "returned"]
          /\ result' = [result EXCEPT ![c] = "ERROR"]
          /\ call' = [call EXCEPT ![c] = call[c]]
          /\ UNCHANGED <<durable, enterprise, sends>>
      BY <1>0, <1>3 DEF Reserve
    <2> QED BY <1>0, <2>1, LocalStep DEF Approved, Raised
  <1> QED BY <1>1, <1>2, <1>3 DEF Reserve

\* What the owner of a key knows of it.
LEMMA OwnerFacts ==
    ASSUME IInv, NEW c \in Callers, pc[c] \in Owning
    PROVE  /\ call[c] \in Calls
           /\ call[c].key \in Keys /\ call[c].proposal \in Proposals
           /\ call[c].approval = call[c].proposal
           /\ approval[call[c].proposal] = "APPROVED"
           /\ idem[call[c].key] \in IdempotencyRecords
           /\ idem[call[c].key] # None
           /\ idem[call[c].key].proposal = call[c].proposal
           /\ \A d \in Callers \ {c} : pc[d] \in Owning => call[d].key # call[c].key
           /\ pc \in [Callers -> Phases] /\ call \in [Callers -> Calls \cup {None}]
           /\ result \in [Callers -> Outcomes \cup Raised \cup {None}]
           /\ exec \in [Keys -> ExecutionStatuses]
           /\ idem \in [Keys -> IdempotencyRecords \cup {None}]
           /\ sends \in [Keys -> Nat]
  <1>1. call[c] \in Calls
    BY DEF IInv, CallInv, Owning
  <1>2. call[c].key \in Keys /\ call[c].proposal \in Proposals
    BY <1>1 DEF Calls
  <1>3. idem[call[c].key] # None /\ idem[call[c].key].proposal = call[c].proposal
    BY DEF IInv, OwnerInv
  <1>4. \A d \in Callers \ {c} : pc[d] \in Owning => call[d].key # call[c].key
    BY DEF IInv, Exclusive
  <1> QED BY <1>1, <1>2, <1>3, <1>4 DEF IInv, TypeOK, CallInv, Approved

\* The owner's steps up to the request: they disturb its execution record and
\* the wire only.
LEMMA StartPreservesIInv ==
    ASSUME IInv, NEW c \in Callers, Start(c)
    PROVE  IInv'
  <1> USE DEF Phases, Owning
  <1>0. pc[c] = "start" /\ pc[c] \in Owning
    BY DEF Start
  <1> DEFINE k == call[c].key
  <1>1. exec[k] = "NONE" /\ sends[k] = 0
    BY <1>0 DEF IInv, OwnerInv, Sent
  <1>2. /\ exec' = [exec EXCEPT ![k] = "EXECUTING"]
        /\ pc' = [pc EXCEPT ![c] = "send"]
        /\ UNCHANGED <<latest, approval, idem, call, result, enterprise, sends>>
    BY <1>1 DEF Start, Goto
  <1>3. TypeOK'
    BY <1>2 DEF IInv, TypeOK, ExecutionStatuses
  <1>4. CallInv'
    BY <1>0, <1>2, OwnerFacts DEF IInv, CallInv, Approved
  <1>5. OwnerInv'
    BY <1>0, <1>1, <1>2, OwnerFacts DEF IInv, OwnerInv, Sent
  <1>6. Exclusive'
    BY <1>0, <1>2, OwnerFacts DEF IInv, Exclusive
  <1>7. KeyInv'
    BY <1>0, <1>2, OwnerFacts DEF IInv, KeyInv, IsFinal, Attempts, Outcomes
  <1>8. WireInv'
    BY <1>2 DEF IInv, WireInv
  <1> QED BY <1>3, <1>4, <1>5, <1>6, <1>7, <1>8 DEF IInv

LEMMA SendPreservesIInv ==
    ASSUME IInv, NEW c \in Callers, Send(c)
    PROVE  IInv'
  <1> USE DEF Phases, Owning
  <1>0. pc[c] = "send" /\ pc[c] \in Owning
    BY DEF Send
  <1> DEFINE k == call[c].key
             request == [key |-> k, proposal |-> call[c].proposal, stage |-> "sent"]
  <1>1. sends[k] = 0
    BY <1>0 DEF IInv, OwnerInv, Sent
  <1>2. /\ wire' = wire \cup {request}
        /\ sends' = [sends EXCEPT ![k] = 1]
        /\ pc' = [pc EXCEPT ![c] = "await"]
        /\ UNCHANGED <<durable, call, result, reply, granted, held, external, eligible>>
    BY <1>0, <1>1, OwnerFacts DEF Send, Goto
  <1>3. /\ reply[k] = None /\ external[k] = None
        /\ \A m \in wire : m.key # k
    BY <1>0, <1>1, OwnerFacts DEF IInv, KeyInv
  <1>4. TypeOK'
    BY <1>0, <1>2, OwnerFacts DEF IInv, TypeOK, Requests
  <1>5. CallInv'
    BY <1>0, <1>2, OwnerFacts DEF IInv, CallInv, Approved
  <1>6. OwnerInv'
    BY <1>0, <1>1, <1>2, OwnerFacts DEF IInv, OwnerInv, Sent
  <1>7. Exclusive'
    BY <1>0, <1>2, OwnerFacts DEF IInv, Exclusive
  <1>8. KeyInv'
    <2>1. \A j \in Keys \ {k} : sends'[j] = sends[j]
      BY <1>0, <1>2, OwnerFacts
    <2>2. sends'[k] = 1
      BY <1>0, <1>2, OwnerFacts
    <2>3. \A j \in Keys \ {k} : (\A m \in wire : m.key # j) => (\A m \in wire' : m.key # j)
      BY <1>2
    <2>4. idem[k] # None /\ idem'[k] # None
      BY <1>0, <1>2, OwnerFacts
    <2> QED BY <1>0, <1>2, <2>1, <2>2, <2>3, <2>4, OwnerFacts DEF IInv, KeyInv, IsFinal
  <1>9. WireInv'
    BY <1>0, <1>2, <1>3, OwnerFacts, NoneAssumption DEF IInv, WireInv
  <1> QED BY <1>4, <1>5, <1>6, <1>7, <1>8, <1>9 DEF IInv

\* An owner that has sent its request and learns something of it.
LEMMA LearnStep ==
    ASSUME IInv, NEW c \in Callers, pc[c] \in {"await", "verify"},
           NEW phase \in {"verify", "finalize"},
           NEW r \in Outcomes \cup Raised \cup {None},
           pc' = [pc EXCEPT ![c] = phase], result' = [result EXCEPT ![c] = r],
           phase = "finalize" => r \in Attempts,
           phase = "finalize" /\ r = "TOOL_FAILED" => reply[call[c].key] = "REJECTED",
           phase = "finalize" /\ r = "SUCCEEDED" => TargetOf[call[c].proposal] \in held,
           UNCHANGED <<durable, call, enterprise, sends>>
    PROVE  IInv'
  <1> USE DEF Phases, Owning
  <1>0. pc[c] \in Owning
    OBVIOUS
  <1>1. TypeOK'
    BY DEF IInv, TypeOK
  <1>2. CallInv'
    BY <1>0, OwnerFacts DEF IInv, CallInv, Approved
  <1>3. OwnerInv'
    BY <1>0, OwnerFacts DEF IInv, OwnerInv, Sent
  <1>4. Exclusive'
    BY <1>0, OwnerFacts DEF IInv, Exclusive
  <1>5. KeyInv' /\ WireInv'
    BY DEF IInv, KeyInv, WireInv, IsFinal
  <1> QED BY <1>1, <1>2, <1>3, <1>4, <1>5 DEF IInv

LEMMA ReceivePreservesIInv ==
    ASSUME IInv, NEW c \in Callers, Receive(c)
    PROVE  IInv'
  <1>0. /\ pc[c] = "await" /\ pc[c] \in Owning
        /\ result \in [Callers -> Outcomes \cup Raised \cup {None}]
        /\ UNCHANGED <<durable, call, enterprise, sends>>
    BY DEF Receive, Owning, IInv, TypeOK
  <1>1. CASE Goto(c, "verify") /\ UNCHANGED result
    <2>1. result' = [result EXCEPT ![c] = result[c]]
      BY <1>0, <1>1
    <2> QED BY <1>0, <1>1, <2>1, LearnStep DEF Goto
  <1>2. CASE reply[call[c].key] = "REJECTED" /\ Hold(c, "TOOL_FAILED")
    BY <1>0, <1>2, LearnStep DEF Hold, Attempts, Outcomes
  <1>3. CASE Hold(c, "RESULT_UNKNOWN")
    BY <1>0, <1>3, LearnStep DEF Hold, Attempts, Outcomes
  <1> QED BY <1>1, <1>2, <1>3 DEF Receive, GiveUp

LEMMA VerifyPreservesIInv ==
    ASSUME IInv, NEW c \in Callers, Verify(c)
    PROVE  IInv'
  <1>0. /\ pc[c] = "verify"
        /\ UNCHANGED <<durable, call, enterprise, sends>>
        /\ granted \subseteq held
    BY DEF Verify, IInv, WireInv
  <1>1. CASE Confirmed(c) /\ Hold(c, "SUCCEEDED")
    BY <1>0, <1>1, LearnStep DEF Hold, Confirmed, Attempts, Outcomes
  <1>2. CASE Hold(c, "VERIFICATION_FAILED")
    BY <1>0, <1>2, LearnStep DEF Hold, Attempts, Outcomes
  <1> QED BY <1>1, <1>2 DEF Verify

LEMMA StatusOfAttempt ==
    ASSUME NEW o \in Attempts
    PROVE  /\ IdempotencyStatusOf(o) \in FinalStatuses
           /\ IdempotencyStatusOf(o) = "SUCCEEDED" <=> o = "SUCCEEDED"
           /\ IdempotencyStatusOf(o) = "FAILED" <=> o = "TOOL_FAILED"
  BY DEF IdempotencyStatusOf, Attempts, Outcomes, FinalStatuses

LEMMA FinalizePreservesIInv ==
    ASSUME IInv, NEW c \in Callers, Finalize(c)
    PROVE  IInv'
  <1> USE DEF Phases, Owning
  <1>0. pc[c] = "finalize" /\ pc[c] \in Owning
    BY DEF Finalize
  <1> DEFINE k == call[c].key
             settled == [idem[k] EXCEPT !.status = IdempotencyStatusOf(result[c])]
  <1>1. /\ idem[k].status = "IN_PROGRESS" /\ result[c] \in Attempts
        /\ sends[k] = 1 /\ exec[k] = "EXECUTING"
        /\ result[c] = "TOOL_FAILED" => reply[k] = "REJECTED"
        /\ result[c] = "SUCCEEDED" => TargetOf[call[c].proposal] \in held
    BY <1>0 DEF IInv, OwnerInv, Sent
  <1>2. /\ idem' = [idem EXCEPT ![k] = settled]
        /\ pc' = [pc EXCEPT ![c] = "finish"]
        /\ UNCHANGED <<latest, approval, exec, call, result, enterprise, sends>>
    BY <1>0, <1>1, OwnerFacts DEF Finalize, Goto
  <1>3. /\ settled \in IdempotencyRecords /\ settled # None
        /\ settled.proposal = call[c].proposal
        /\ settled.status = IdempotencyStatusOf(result[c])
        /\ settled.status # "IN_PROGRESS"
    BY <1>0, <1>1, OwnerFacts, StatusOfAttempt, NoneAssumption
    DEF IdempotencyRecords, FinalStatuses
  <1>4. /\ idem'[k] = settled
        /\ \A j \in Keys \ {k} : idem'[j] = idem[j]
    BY <1>0, <1>2, OwnerFacts
  <1> HIDE DEF settled
  <1>5. TypeOK'
    BY <1>0, <1>2, <1>3, OwnerFacts DEF IInv, TypeOK
  <1>6. CallInv'
    BY <1>0, <1>2, OwnerFacts DEF IInv, CallInv, Approved
  <1>7. OwnerInv'
    BY <1>0, <1>1, <1>2, <1>3, <1>4, OwnerFacts DEF IInv, OwnerInv, Sent, CallInv, Calls
  <1>8. Exclusive'
    BY <1>0, <1>2, OwnerFacts DEF IInv, Exclusive
  <1>9. KeyInv'
    BY <1>0, <1>1, <1>2, <1>3, <1>4, OwnerFacts, StatusOfAttempt
    DEF IInv, KeyInv, IsFinal, Attempts, Outcomes
  <1>10. WireInv'
    BY <1>0, <1>2, <1>3, <1>4, OwnerFacts DEF IInv, TypeOK, WireInv, Requests
  <1> QED BY <1>5, <1>6, <1>7, <1>8, <1>9, <1>10 DEF IInv

LEMMA FinishPreservesIInv ==
    ASSUME IInv, NEW c \in Callers, Finish(c)
    PROVE  IInv'
  <1> USE DEF Phases, Owning
  <1>0. pc[c] = "finish" /\ pc[c] \in Owning
    BY DEF Finish
  <1> DEFINE k == call[c].key
  <1>1. /\ idem[k].status = IdempotencyStatusOf(result[c]) /\ result[c] \in Attempts
        /\ sends[k] = 1 /\ exec[k] = "EXECUTING"
        /\ result[c] = "SUCCEEDED" => TargetOf[call[c].proposal] \in held
    BY <1>0 DEF IInv, OwnerInv, Sent
  <1>2. /\ exec' = [exec EXCEPT ![k] = result[c]]
        /\ pc' = [pc EXCEPT ![c] = "returned"]
        /\ result' = result
        /\ UNCHANGED <<latest, approval, idem, call, enterprise, sends>>
    BY <1>0, <1>1, OwnerFacts DEF Finish, Yield
  <1>3. TypeOK'
    BY <1>0, <1>1, <1>2, OwnerFacts DEF IInv, TypeOK, ExecutionStatuses, Attempts
  <1>4. CallInv'
    BY <1>0, <1>1, <1>2, OwnerFacts DEF IInv, CallInv, Approved, Attempts, Outcomes
  <1>5. OwnerInv'
    BY <1>0, <1>2, OwnerFacts DEF IInv, OwnerInv, CallInv, Calls
  <1>6. Exclusive'
    BY <1>0, <1>2, OwnerFacts DEF IInv, Exclusive
  <1>7. KeyInv'
    <2>1. exec'[k] = result[c] /\ \A j \in Keys \ {k} : exec'[j] = exec[j]
      BY <1>0, <1>2, OwnerFacts
    <2> QED BY <1>0, <1>1, <1>2, <2>1, OwnerFacts DEF IInv, KeyInv, IsFinal
  <1>8. WireInv'
    BY <1>2 DEF IInv, WireInv
  <1> QED BY <1>3, <1>4, <1>5, <1>6, <1>7, <1>8 DEF IInv

-----------------------------------------------------------------------------
(* The enterprise system and the rest of the backend                       *)

LEMMA RequestFacts ==
    ASSUME IInv, NEW m \in wire
    PROVE  /\ m \in Requests /\ m.key \in Keys /\ m.proposal \in Proposals
           /\ TargetOf[m.proposal] \in Targets
           /\ sends[m.key] # 0
           /\ external[m.key] = None /\ reply[m.key] # "REJECTED"
           /\ \A n \in wire : n.key = m.key => n = m
  BY TargetAssumption DEF IInv, TypeOK, KeyInv, WireInv, Requests

LEMMA HandlePreservesIInv ==
    ASSUME IInv, NEW m \in Requests, Handle(m)
    PROVE  IInv'
  <1>0. /\ m \in wire /\ m.stage = "sent"
        /\ UNCHANGED <<durable, threads, granted, held, external, eligible, sends>>
    BY DEF Handle
  <1>1. external[m.key] # TargetOf[m.proposal]
    BY <1>0, RequestFacts, NoneAssumption
  <1>2. ASSUME NEW answer \in {"OK", "REJECTED"}, NEW keep \in SUBSET {Open(m)},
               answer = "REJECTED" => keep = {},
               reply' = [reply EXCEPT ![m.key] = answer],
               wire' = (wire \ {m}) \cup keep
        PROVE  IInv'
    <2>1. Open(m) \in Requests /\ Open(m).key = m.key /\ Open(m).proposal = m.proposal
      BY DEF Open, Requests
    <2>2. TypeOK'
      BY <1>0, <1>2, <2>1, RequestFacts DEF IInv, TypeOK
    <2>3. CallInv' /\ Exclusive'
      BY <1>0 DEF IInv, CallInv, Exclusive
    <2>4. OwnerInv'
      <3>1. \A j \in Keys : reply[j] = "REJECTED" => reply'[j] = "REJECTED"
        BY <1>0, <1>2, RequestFacts DEF IInv, TypeOK
      <3>2. \A c \in Callers : pc[c] \in Owning => call[c].key \in Keys
        BY OwnerFacts
      <3> HIDE DEF IInv
      <3> QED BY <1>0, <3>1, <3>2 DEF IInv, OwnerInv
    <2>5. KeyInv'
      <3>1. \A j \in Keys \ {m.key} : reply'[j] = reply[j]
        BY <1>0, <1>2, RequestFacts DEF IInv, TypeOK
      <3>2. reply'[m.key] = answer /\ reply[m.key] # "REJECTED"
        BY <1>0, <1>2, RequestFacts DEF IInv, TypeOK
      <3>3. \A n \in wire' : n \in wire \/ n.key = m.key
        BY <1>2, <2>1
      <3> QED BY <1>0, <3>1, <3>2, <3>3, RequestFacts DEF IInv, KeyInv, IsFinal
    <2>6. WireInv'
      <3>1. \A n \in wire' : n # m => n \in wire \/ n = Open(m)
        BY <1>2
      <3>2. \A n \in wire' : \E o \in wire : n.key = o.key /\ n.proposal = o.proposal
        BY <1>0, <1>2, <2>1
      <3>3. \A n \in wire' : n.key = m.key => n \in keep
        BY <1>0, <1>2, RequestFacts
      <3>4. \A j \in Keys \ {m.key} : reply'[j] = reply[j]
        BY <1>0, <1>2, RequestFacts DEF IInv, TypeOK
      <3>5. \A n \in wire' : n.key \in Keys
        BY <2>2 DEF TypeOK, Requests
      <3>6. \A n \in wire' : reply'[n.key] # "REJECTED"
        <4>1. reply'[m.key] = answer
          BY <1>0, <1>2, RequestFacts DEF IInv, TypeOK
        <4> QED BY <1>2, <3>2, <3>3, <3>4, <3>5, <4>1 DEF IInv, WireInv
      <3>7. \A n, o \in wire' : n.key = o.key => n = o
        BY <1>2, <3>1, <3>3, <2>1 DEF IInv, WireInv
      <3> QED BY <1>0, <3>2, <3>6, <3>7 DEF IInv, WireInv
    <2> QED BY <2>2, <2>3, <2>4, <2>5, <2>6 DEF IInv
  <1>3. CASE /\ reply' = [reply EXCEPT ![m.key] = "REJECTED"]
             /\ wire' = wire \ {m}
    <2>1. {} \in SUBSET {Open(m)} /\ wire' = (wire \ {m}) \cup {}
      BY <1>3
    <2> QED BY <1>2, <1>3, <2>1
  <1>4. CASE /\ reply' = [reply EXCEPT ![m.key] = "OK"]
             /\ wire' = (wire \ {m}) \cup {Open(m)}
    BY <1>2, <1>4
  <1> QED BY <1>1, <1>3, <1>4 DEF Handle

LEMMA CommitPreservesIInv ==
    ASSUME IInv, NEW m \in Requests, Commit(m)
    PROVE  IInv'
  <1>0. /\ m \in wire /\ wire' = wire \ {m}
        /\ granted' = granted \cup {TargetOf[m.proposal]}
        /\ held' = held \cup {TargetOf[m.proposal]}
        /\ external' = [external EXCEPT ![m.key] = TargetOf[m.proposal]]
        /\ UNCHANGED <<durable, threads, reply, eligible, sends>>
    BY DEF Commit
  <1>1. TypeOK'
    BY <1>0, RequestFacts DEF IInv, TypeOK
  <1>2. CallInv' /\ Exclusive' /\ OwnerInv'
    BY <1>0 DEF IInv, CallInv, Exclusive, OwnerInv
  <1>3. KeyInv'
    <2>1. \A j \in Keys \ {m.key} : external'[j] = external[j]
      BY <1>0, RequestFacts DEF IInv, TypeOK
    <2> QED BY <1>0, <2>1, RequestFacts DEF IInv, KeyInv, IsFinal
  <1>4. WireInv'
    <2>1. \A n \in wire' : n \in wire /\ n.key # m.key
      BY <1>0, RequestFacts
    <2>2. \A n \in wire' : external'[n.key] = external[n.key]
      BY <1>0, <2>1, RequestFacts DEF IInv, TypeOK
    <2> QED BY <1>0, <2>1, <2>2 DEF IInv, WireInv
  <1> QED BY <1>1, <1>2, <1>3, <1>4 DEF IInv

LEMMA LosePreservesIInv ==
    ASSUME IInv, NEW m \in Requests, Lose(m)
    PROVE  IInv'
  BY DEF Lose, IInv, TypeOK, CallInv, Exclusive, OwnerInv, KeyInv, WireInv, IsFinal

LEMMA BackendPreservesIInv ==
    ASSUME IInv,
           \/ \E a \in Actions : Propose(a)
           \/ \E p \in Proposals, d \in {"APPROVED", "REJECTED"} : Decide(p, d)
           \/ \E t \in Targets : Deactivate(t) \/ Revoke(t)
           \/ Crash
           \/ UNCHANGED vars
    PROVE  IInv'
  <1>1. ASSUME NEW a \in Actions, Propose(a) PROVE IInv'
    BY <1>1, BoundAssumption DEF Propose, IInv, TypeOK, CallInv, Exclusive, OwnerInv, KeyInv,
       WireInv, IsFinal
  <1>2. ASSUME NEW p \in Proposals, NEW d \in {"APPROVED", "REJECTED"}, Decide(p, d)
        PROVE  IInv'
    <2>1. \A q \in Proposals : approval[q] = "APPROVED" => approval'[q] = "APPROVED"
      BY <1>2 DEF Decide, IInv, TypeOK
    <2>2. TypeOK'
      BY <1>2 DEF Decide, IInv, TypeOK
    <2>3. CallInv'
      BY <1>2, <2>1 DEF Decide, IInv, CallInv, Calls, Phases, Approved, Owning
    <2>4. WireInv'
      BY <1>2, <2>1, RequestFacts DEF Decide, IInv, WireInv
    <2> QED BY <1>2, <2>2, <2>3, <2>4 DEF Decide, IInv, Exclusive, OwnerInv, KeyInv, IsFinal
  <1>3. ASSUME NEW t \in Targets, Deactivate(t) \/ Revoke(t) PROVE IInv'
    BY <1>3 DEF Deactivate, Revoke, IInv, TypeOK, CallInv, Exclusive, OwnerInv, KeyInv,
       WireInv, IsFinal
  <1>4. CASE Crash
    <2>1. /\ \A c \in Callers : pc'[c] = "idle"
          /\ UNCHANGED <<durable, enterprise, sends>>
      BY <1>4 DEF Crash
    <2>2. TypeOK'
      BY <1>4 DEF Crash, IInv, TypeOK, Phases
    <2>3. CallInv' /\ OwnerInv' /\ Exclusive'
      BY <2>1 DEF CallInv, OwnerInv, Exclusive, Owning, Approved
    <2>4. KeyInv' /\ WireInv'
      BY <2>1 DEF IInv, KeyInv, WireInv, IsFinal
    <2> QED BY <2>2, <2>3, <2>4 DEF IInv
  <1>5. CASE UNCHANGED vars
    BY <1>5 DEF vars, IInv, TypeOK, CallInv, Exclusive, OwnerInv, KeyInv, WireInv, IsFinal
  <1> QED BY <1>1, <1>2, <1>3, <1>4, <1>5

LEMMA NextPreservesIInv == IInv /\ [Next]_vars => IInv'
  <1> SUFFICES ASSUME IInv, [Next]_vars PROVE IInv'
    OBVIOUS
  <1>1. ASSUME NEW c \in Callers, CallerStep(c) PROVE IInv'
    BY <1>1, GatesPreserveIInv, ReservePreservesIInv, StartPreservesIInv, SendPreservesIInv,
       ReceivePreservesIInv, VerifyPreservesIInv, FinalizePreservesIInv, FinishPreservesIInv
    DEF CallerStep
  <1>2. ASSUME NEW m \in Requests, Handle(m) \/ Commit(m) \/ Lose(m) PROVE IInv'
    BY <1>2, HandlePreservesIInv, CommitPreservesIInv, LosePreservesIInv
  <1> QED BY <1>1, <1>2, BackendPreservesIInv DEF Next

-----------------------------------------------------------------------------
\* Every reachable state is well typed.
THEOREM TypeCorrect == Spec => []TypeOK
  BY InitEstablishesIInv, NextPreservesIInv, PTL DEF Spec, IInv

\* At most one request is ever sent under an idempotency key, for any number of
\* callers, keys, retries and crashes.
THEOREM SentAtMostOnce == Spec => []AtMostOneSend
  <1>1. IInv => AtMostOneSend
    BY DEF IInv, KeyInv, AtMostOneSend
  <1> QED BY <1>1, InitEstablishesIInv, NextPreservesIInv, PTL DEF Spec

\* Whatever is on the wire was approved in exactly the version it carries.
THEOREM OnlyApprovedIsSent == Spec => []OnlyApprovedWrites
  <1>1. IInv => OnlyApprovedWrites
    BY DEF IInv, WireInv, OnlyApprovedWrites
  <1> QED BY <1>1, InitEstablishesIInv, NextPreservesIInv, PTL DEF Spec

\* Recorded, reported and replayed successes are effects the enterprise holds.
THEOREM SuccessIsAlwaysReal == Spec => []SuccessIsReal
  <1>1. IInv => SuccessIsReal
    BY DEF IInv, KeyInv, CallInv, SuccessIsReal, IsFinal
  <1> QED BY <1>1, InitEstablishesIInv, NextPreservesIInv, PTL DEF Spec

\* The execution record never runs ahead of the idempotency record.
THEOREM ExecutionNeverLeads == Spec => []ExecutionFollowsKey
  <1>1. IInv => ExecutionFollowsKey
    BY DEF IInv, TypeOK, KeyInv, ExecutionFollowsKey, ExecutionStatuses, Attempts, Outcomes
  <1> QED BY <1>1, InitEstablishesIInv, NextPreservesIInv, PTL DEF Spec

-----------------------------------------------------------------------------
(* Action properties and refinement: the steps that write a key's record,  *)
(* its request count, its answer or its committed effect, one by one       *)

KeyStepsFinal(k) ==
    idem[k] # None =>
        /\ idem'[k] # None /\ idem'[k].proposal = idem[k].proposal
        /\ IsFinal(k) => idem'[k] = idem[k]

\* The durable record of a key changes only by its reservation and by its
\* owner's finalize.
LEMMA RecordStep ==
    ASSUME IInv, [Next]_vars
    PROVE  \/ UNCHANGED idem
           \/ \E c \in Callers : Reserve(c) \/ Finalize(c)
  BY DEF Next, CallerStep, Execute, CheckApproval, CheckVersion, CheckState, Start, Send,
     Receive, Verify, Finish, StepFails, Return, Propose, Decide, Handle, Commit, Lose,
     Deactivate, Revoke, Crash, vars

LEMMA ReserveRecord ==
    ASSUME IInv, NEW c \in Callers, Reserve(c)
    PROVE  /\ \A k \in Keys : idem'[k] # idem[k] =>
                /\ idem[k] = None /\ idem'[k].status = "IN_PROGRESS"
           /\ UNCHANGED <<sends, external, reply>>
  <1>1. idem \in [Keys -> IdempotencyRecords \cup {None}]
    BY DEF IInv, TypeOK
  <1>2. CASE UNCHANGED idem
    BY <1>2 DEF Reserve
  <1>3. CASE idem # idem'
    BY <1>1, <1>3 DEF Reserve, Reservable
  <1> QED BY <1>2, <1>3

LEMMA FinalizeRecord ==
    ASSUME IInv, NEW c \in Callers, Finalize(c)
    PROVE  /\ call[c].key \in Keys /\ result[c] \in Attempts
           /\ idem[call[c].key] # None
           /\ idem[call[c].key].status = "IN_PROGRESS"
           /\ idem'[call[c].key] # None
           /\ idem'[call[c].key].proposal = idem[call[c].key].proposal
           /\ idem'[call[c].key].status = IdempotencyStatusOf(result[c])
           /\ \A k \in Keys \ {call[c].key} : idem'[k] = idem[k]
           /\ sends[call[c].key] = 1
           /\ result[c] = "TOOL_FAILED" => reply[call[c].key] = "REJECTED"
           /\ UNCHANGED <<sends, external, reply>>
  <1>1. pc[c] = "finalize" /\ pc[c] \in Owning
    BY DEF Finalize, Owning
  <1> DEFINE k == call[c].key
             settled == [idem[k] EXCEPT !.status = IdempotencyStatusOf(result[c])]
  <1>2. /\ idem[k].status = "IN_PROGRESS" /\ result[c] \in Attempts /\ sends[k] = 1
        /\ result[c] = "TOOL_FAILED" => reply[k] = "REJECTED"
    BY <1>1 DEF IInv, OwnerInv, Sent
  <1>3. idem' = [idem EXCEPT ![k] = settled] /\ UNCHANGED <<sends, external, reply>>
    BY <1>1, <1>2, OwnerFacts DEF Finalize
  <1>4. /\ settled \in IdempotencyRecords /\ settled # None
        /\ settled.proposal = idem[k].proposal
        /\ settled.status = IdempotencyStatusOf(result[c])
    BY <1>1, <1>2, OwnerFacts, StatusOfAttempt, NoneAssumption DEF IdempotencyRecords
  <1> QED BY <1>1, <1>2, <1>3, <1>4, OwnerFacts

\* A key's content is fixed by its reservation and its outcome is written once.
THEOREM OutcomesStayFinal == Spec => OutcomesAreFinal
  <1>1. IInv /\ [Next]_vars => \A k \in Keys : KeyStepsFinal(k)
    <2> SUFFICES ASSUME IInv, [Next]_vars, NEW k \in Keys PROVE KeyStepsFinal(k)
      OBVIOUS
    <2>1. CASE UNCHANGED idem
      BY <2>1 DEF KeyStepsFinal
    <2>2. ASSUME NEW c \in Callers, Reserve(c) PROVE KeyStepsFinal(k)
      BY <2>2, ReserveRecord DEF KeyStepsFinal
    <2>3. ASSUME NEW c \in Callers, Finalize(c) PROVE KeyStepsFinal(k)
      BY <2>3, FinalizeRecord DEF KeyStepsFinal, IsFinal
    <2> QED BY <2>1, <2>2, <2>3, RecordStep
  <1>2. IInv /\ [Next]_vars =>
          [\A k \in Keys : idem[k] # None =>
             /\ idem'[k] # None /\ idem'[k].proposal = idem[k].proposal
             /\ IsFinal(k) => idem'[k] = idem[k]]_idem
    BY <1>1 DEF KeyStepsFinal
  <1> QED BY <1>2, InitEstablishesIInv, NextPreservesIInv, PTL DEF Spec, OutcomesAreFinal

Landed == {k \in Keys : external[k] # None}
Refused == {k \in Keys : reply[k] = "REJECTED"}
Outcome == [k \in Keys |-> IF IsFinal(k) THEN idem[k].status ELSE "OPEN"]

\* The steps that change nothing the promise speaks of.
LEMMA SilentStep ==
    ASSUME UNCHANGED <<idem, sends, external, reply>>
    PROVE  UNCHANGED <<sends, Landed, Refused, Outcome>>
  BY DEF Landed, Refused, Outcome, IsFinal

LEMMA StepKeepsPromise ==
    IInv /\ [Next]_vars => [Promise!Next]_<<sends, Landed, Refused, Outcome>>
  <1> SUFFICES ASSUME IInv, [Next]_vars
               PROVE  [Promise!Next]_<<sends, Landed, Refused, Outcome>>
    OBVIOUS
  <1>1. ASSUME NEW c \in Callers, Send(c) PROVE Promise!Send(call[c].key) /\ call[c].key \in Keys
    <2>1. pc[c] = "send" /\ pc[c] \in Owning
      BY <1>1 DEF Send, Owning
    <2>2. sends[call[c].key] = 0
      BY <2>1 DEF IInv, OwnerInv, Sent
    <2> QED BY <1>1, <2>1, <2>2, OwnerFacts DEF Send, Promise!Send, IsFinal
  <1>2. ASSUME NEW c \in Callers, Reserve(c) PROVE UNCHANGED <<sends, Landed, Refused, Outcome>>
    BY <1>2, ReserveRecord DEF Landed, Refused, Outcome, IsFinal
  <1>3. ASSUME NEW c \in Callers, Finalize(c)
        PROVE  \E k \in Keys, o \in Promise!Outcomes : Promise!Settle(k, o)
    <2> DEFINE k == call[c].key  o == IdempotencyStatusOf(result[c])
    <2>1. o \in FinalStatuses /\ o # "IN_PROGRESS" /\ (o = "FAILED" <=> result[c] = "TOOL_FAILED")
      BY <1>3, FinalizeRecord, StatusOfAttempt DEF FinalStatuses
    <2>2. Outcome[k] = "OPEN" /\ sends[k] = 1 /\ (o = "FAILED" => k \in Refused)
      BY <1>3, <2>1, FinalizeRecord DEF Outcome, IsFinal, Refused
    <2>3. Outcome' = [Outcome EXCEPT ![k] = o]
      BY <1>3, <2>1, FinalizeRecord DEF Outcome, IsFinal
    <2>4. UNCHANGED <<sends, Landed, Refused>>
      BY <1>3, FinalizeRecord DEF Landed, Refused
    <2>5. o \in Promise!Outcomes /\ k \in Keys
      BY <1>3, <2>1, FinalizeRecord DEF Promise!Outcomes, FinalStatuses
    <2>6. PICK key \in Keys, out \in Promise!Outcomes : key = k /\ out = o
      BY <2>5
    <2>7. Promise!Settle(key, out)
      BY <2>2, <2>3, <2>4, <2>6 DEF Promise!Settle, Landed, Refused, Outcome
    <2> QED BY <2>7, Zenon
  <1>4. ASSUME NEW m \in Requests, Handle(m)
        PROVE  \/ UNCHANGED <<sends, Landed, Refused, Outcome>>
               \/ Promise!Refuse(m.key) /\ m.key \in Keys
    <2>1. /\ m \in wire /\ UNCHANGED <<idem, sends, external>>
          /\ reply \in [Keys -> {None, "OK", "REJECTED"}]
          /\ \/ reply' = [reply EXCEPT ![m.key] = "OK"]
             \/ reply' = [reply EXCEPT ![m.key] = "REJECTED"]
      BY <1>4 DEF Handle, IInv, TypeOK
    <2>2. m.key \in Keys /\ sends[m.key] = 1 /\ external[m.key] = None
          /\ reply[m.key] # "REJECTED"
      BY <2>1, RequestFacts DEF IInv, KeyInv
    <2>3. CASE reply' = [reply EXCEPT ![m.key] = "OK"]
      BY <2>1, <2>2, <2>3 DEF Landed, Refused, Outcome, IsFinal
    <2>4. CASE reply' = [reply EXCEPT ![m.key] = "REJECTED"]
      <3>1. Refused' = Refused \cup {m.key}
        BY <2>1, <2>2, <2>4 DEF Refused
      <3>2. UNCHANGED <<sends, Landed, Outcome>> /\ m.key \notin Landed
        BY <2>1, <2>2 DEF Landed, Outcome, IsFinal
      <3> QED BY <2>2, <3>1, <3>2 DEF Promise!Refuse, Landed, Refused, Outcome
    <2> QED BY <2>1, <2>3, <2>4
  <1>5. ASSUME NEW m \in Requests, Commit(m)
        PROVE  Promise!Land(m.key) /\ m.key \in Keys
    <2>1. /\ m \in wire /\ UNCHANGED <<idem, sends, reply>>
          /\ external \in [Keys -> Targets \cup {None}]
          /\ external' = [external EXCEPT ![m.key] = TargetOf[m.proposal]]
      BY <1>5 DEF Commit, IInv, TypeOK
    <2>2. /\ m.key \in Keys /\ sends[m.key] = 1 /\ reply[m.key] # "REJECTED"
          /\ TargetOf[m.proposal] # None
      BY <2>1, RequestFacts, NoneAssumption DEF IInv, KeyInv
    <2>3. Landed' = Landed \cup {m.key}
      BY <2>1, <2>2 DEF Landed
    <2>4. UNCHANGED <<sends, Refused, Outcome>> /\ m.key \notin Refused
      BY <2>1, <2>2 DEF Refused, Outcome, IsFinal
    <2> QED BY <2>2, <2>3, <2>4 DEF Promise!Land, Landed, Refused, Outcome
  <1>6. \/ \E c \in Callers : Send(c) \/ Reserve(c) \/ Finalize(c)
        \/ \E m \in Requests : Handle(m) \/ Commit(m)
        \/ UNCHANGED <<idem, sends, external, reply>>
    BY DEF Next, CallerStep, Execute, CheckApproval, CheckVersion, CheckState, Start,
       Receive, Verify, Finish, StepFails, Return, Propose, Decide, Lose,
       Deactivate, Revoke, Crash, vars
  <1>7. (\E k \in Keys : \/ Promise!Send(k) \/ Promise!Land(k) \/ Promise!Refuse(k)
                         \/ \E o \in Promise!Outcomes : Promise!Settle(k, o))
        => Promise!Next
    BY Zenon DEF Promise!Next
  <1>8. CASE \E c \in Callers : Send(c) \/ Reserve(c) \/ Finalize(c)
    <2> PICK c \in Callers : Send(c) \/ Reserve(c) \/ Finalize(c)
      BY <1>8
    <2>1. CASE Send(c)
      BY <2>1, <1>1, <1>7, Zenon
    <2>2. CASE Reserve(c)
      BY <2>2, <1>2
    <2>3. CASE Finalize(c)
      BY <2>3, <1>3, <1>7, Zenon
    <2> QED BY <2>1, <2>2, <2>3
  <1>9. CASE \E m \in Requests : Handle(m) \/ Commit(m)
    <2> PICK m \in Requests : Handle(m) \/ Commit(m)
      BY <1>9
    <2>1. CASE Handle(m)
      BY <2>1, <1>4, <1>7, Zenon
    <2>2. CASE Commit(m)
      BY <2>2, <1>5, <1>7, Zenon
    <2> QED BY <2>1, <2>2
  <1> QED BY <1>6, <1>8, <1>9, SilentStep

\* The gateway, with its crashes, races and late requests, implements the
\* promise of OnceOnlyWrite.
THEOREM RefinesOnceOnlyWrite == Spec => ImplementsOnceOnlyWrite
  <1>1. Init => Promise!Init
    <2> SUFFICES ASSUME Init PROVE Promise!Init
      OBVIOUS
    <2>1. Landed = {} /\ Refused = {}
      BY NoneAssumption DEF Init, Landed, Refused
    <2>2. Outcome = [k \in Keys |-> "OPEN"]
      BY DEF Init, Outcome, IsFinal
    <2> QED BY <2>1, <2>2 DEF Init, Promise!Init, Landed, Refused, Outcome
  <1>2. IInv /\ [Next]_vars =>
          [Promise!Next]_<<sends, {k \in Keys : external[k] # None},
                           {k \in Keys : reply[k] = "REJECTED"},
                           [k \in Keys |-> IF IsFinal(k) THEN idem[k].status ELSE "OPEN"]>>
    BY StepKeepsPromise DEF Landed, Refused, Outcome
  <1> QED BY <1>1, <1>2, InitEstablishesIInv, NextPreservesIInv, PTL
          DEF Spec, ImplementsOnceOnlyWrite, Promise!Spec
================================================================================
