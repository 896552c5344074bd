------------------------ MODULE GovernedPipelineProofs ------------------------
(***************************************************************************)
(* Proofs about GovernedPipeline, for any number of tool calls, any budget *)
(* policies and any time to live.                                          *)
(***************************************************************************)
EXTENDS GovernedPipeline, PipelineCoreProofs

GrantTable == [Calls -> GrantRecord]

(* Asking for, spending or revoking permissions keeps a table of grants,   *)
(* and never brings a grant into being.                                    *)
SameGrants(t, u) ==
  /\ u \in GrantTable
  /\ \A c \in Calls : (u[c].status = "none" <=> t[c].status = "none")
                      /\ (t[c].status = "none" => u[c] = t[c])

LEMMA CheckExpiryGrants ==
  ASSUME NEW t \in GrantTable, NEW time
  PROVE  SameGrants(t, CheckExpiry(t, time))
  BY DEF SameGrants, CheckExpiry, GrantTable, GrantRecord, GrantStatus

LEMMA ConsumeGrants ==
  ASSUME NEW t \in GrantTable, NEW time, NEW c \in Calls
  PROVE  SameGrants(t, Consume(t, c, time))
  <1> DEFINE e == CheckExpiry(t, time)
  <1>1. SameGrants(t, e)
    BY CheckExpiryGrants
  <1>2. CASE ~CanConsumeAt(t, c, time, time)
    BY <1>1, <1>2 DEF Consume, ConsumeAt
  <1>3. CASE CanConsumeAt(t, c, time, time)
    <2>1. Consume(t, c, time) = [e EXCEPT ![c].status = "consumed"]
      BY <1>3 DEF Consume, ConsumeAt
    <2>2. e[c].status = "active"
      BY <1>3 DEF CanConsumeAt, IsValidAt, Usable
    <2> HIDE DEF e
    <2>3. QED
      BY <1>1, <2>1, <2>2 DEF SameGrants, GrantTable, GrantRecord, GrantStatus
  <1>4. QED
    BY <1>2, <1>3

LEMMA RevokeAllGrants ==
  ASSUME NEW t \in GrantTable, NEW time
  PROVE  /\ SameGrants(t, RevokeAll(t, time))
         /\ \A c \in Calls : RevokeAll(t, time)[c].status # "active"
  <1> DEFINE e == CheckExpiry(t, time)
             u == RevokeAll(t, time)
  <1>1. SameGrants(t, e) /\ \A c \in Calls : e[c].status = "active" => t[c].status = "active"
    BY CheckExpiryGrants DEF CheckExpiry, GrantTable, GrantRecord
  <1>2. u = [c \in Calls |-> IF e[c].status = "active"
                             THEN [t[c] EXCEPT !.status = "revoked"] ELSE e[c]]
    BY DEF RevokeAll, CanRevoke, GrantTable
  <1> HIDE DEF e, u
  <1>3. QED
    BY <1>1, <1>2 DEF SameGrants, GrantTable, GrantRecord, GrantStatus, u

LEMMA GrantGrants ==
  ASSUME NEW t \in GrantTable, NEW time \in Int, NEW ttl \in Int,
         NEW oneShot \in BOOLEAN, NEW c \in Calls
  PROVE  /\ Grant(t, c, time, ttl, oneShot) \in GrantTable
         /\ Grant(t, c, time, ttl, oneShot)[c].status = "active"
         /\ \A d \in Calls : d # c => Grant(t, c, time, ttl, oneShot)[d] = t[d]
  BY DEF Grant, GrantTable, GrantRecord, GrantStatus
-----------------------------------------------------------------------------
(* The points at which a tool call is being processed, and those at which  *)
(* the registry has been called: there the run may already be stopped, for *)
(* the tool budget is charged just before.                                 *)
RegistryPoints == {"dispatch", "running", "result"}
GrantedPoints == RegistryPoints \cup {"observe_consult", "critique_consult", "critique_llm"}

(* A suspended run has not thrown, and has not been stopped either unless  *)
(* it waits for the registry.                                              *)
PointInv ==
  pc \in Points => Running(run) /\ (pc \notin RegistryPoints => ~Halted(run))

(* The call being processed was requested, and beyond the decision it was  *)
(* granted: what the registry is called with.                              *)
CallInv ==
  /\ pc \in GrantedPoints \cup {"evaluate"} => i \in Calls /\ i \in requests
  /\ pc \in GrantedPoints => Granted(i)

(* The copies kept in the state follow the table of the permission manager.*)
CopiesFollow(copies, table) ==
  \A c \in Calls : (copies[c].status = "none" <=> table[c].status = "none")
                    /\ (table[c].status = "none" => copies[c] = table[c])

(* Every granted decision has a permission, unless the run threw.          *)
GrantInv ==
  /\ CopiesFollow(active, perms)
  /\ pc # "thrown" => \A c \in Calls : Granted(c) => perms[c].status # "none"

SealInv ==
  /\ pc \in Points => ~envelope.sealed
  /\ EnvelopeSettlesPermissions

IInv == TypeOK /\ Sound(run) /\ PointInv /\ CallInv /\ GrantInv /\ SealInv

LEMMA InitIInv == Init => IInv
  <1> SUFFICES ASSUME Init PROVE IInv
    OBVIOUS
  <1> USE GovernedAssumption
  <1>1. PICK policy \in BudgetPolicy : run = CreatePipelineState(policy)
    BY DEF Init
  <1>2. Sound(run) /\ Alive(run) /\ Running(run)
    BY <1>1, CreateSound
  <1>3. NoGrant \in GrantRecord
    BY DEF NoGrant, GrantRecord, GrantStatus
  <1>4. TypeOK
    BY <1>2, <1>3 DEF Init, TypeOK, Sound, Points, ReceiptStatus
  <1>5. PointInv /\ CallInv
    BY <1>2 DEF Init, PointInv, CallInv, Alive, GrantedPoints, RegistryPoints
  <1>6. GrantInv /\ SealInv
    BY DEF Init, GrantInv, CopiesFollow, SealInv, EnvelopeSettlesPermissions, Granted,
           GrantingDecision, NoEnvelope
  <1>7. QED
    BY <1>2, <1>4, <1>5, <1>6 DEF IInv

(* finish(): whatever table and copies it is given, it seals an envelope   *)
(* in which every granted permission is settled.                           *)
LEMMA FinishSeals ==
  ASSUME IInv, NEW r, Sound(r), NEW decided \in [Calls -> DecisionStatus \cup {"none"}],
         Finish(r, perms, active, decided), decisions' = decided,
         UNCHANGED <<calls, i, requests, toolVars, now>>,
         \A c \in Calls : decided[c] \in GrantingDecision => Granted(c),
         pc \in Points
  PROVE  IInv'
  <1> DEFINE table  == RevokeAll(perms, now)
             copies == SyncPermissionState(active, table)
  <1>0. TypeOK /\ perms \in GrantTable /\ active \in GrantTable
    BY DEF IInv, TypeOK, GrantTable
  <1>1. /\ SameGrants(perms, table)
        /\ \A c \in Calls : table[c].status # "active"
    BY <1>0, RevokeAllGrants
  <1>2. /\ pc' = "returned" /\ Sound(run') /\ perms' = table /\ active' = copies
        /\ envelope' = Seal(r, copies, decided)
    BY FinalizeTraceSound DEF Finish
  <1> HIDE DEF table
  <1>3. copies \in GrantTable /\ \A c \in Calls : copies[c] = table[c]
    <2>1. CopiesFollow(active, perms)
      BY DEF IInv, GrantInv
    <2>2. copies = [c \in Calls |-> IF active[c].status = "none" THEN active[c] ELSE table[c]]
      BY DEF SyncPermissionState
    <2>3. ASSUME NEW c \in Calls PROVE copies[c] = table[c] /\ table[c] \in GrantRecord
      BY <2>1, <2>2, <1>1 DEF CopiesFollow, SameGrants, GrantTable
    <2>4. QED
      BY <2>2, <2>3 DEF GrantTable
  <1> HIDE DEF copies
  <1>4. /\ envelope'.sealed = TRUE /\ envelope'.permissions = copies
        /\ envelope' \in EnvelopeRecord
    <2>1. r.completionStatus \in CompletionStatus
      BY DEF Sound, RunRecord
    <2>2. QED
      BY <1>0, <1>2, <1>3, <2>1 DEF Seal, EnvelopeRecord, TypeOK, GrantTable
  <1>5. TypeOK'
    BY <1>0, <1>1, <1>2, <1>3, <1>4
       DEF TypeOK, Sound, SameGrants, GrantTable, Ended, toolVars
  <1>6. \A c \in Calls : Granted(c)' => perms[c].status # "none"
    <2>1. pc # "thrown"
      BY DEF Points, ConsultPoints
    <2>2. QED
      BY <2>1 DEF IInv, GrantInv, Granted
  <1>7. GrantInv'
    BY <1>1, <1>2, <1>3, <1>6 DEF GrantInv, CopiesFollow, SameGrants, Granted
  <1>8. SealInv'
    <2>1. pc' \notin Points
      BY <1>2 DEF Points, ConsultPoints
    <2>2. ASSUME NEW c \in Calls, Granted(c)' PROVE Settled(table[c])
      BY <1>0, <1>1, <1>6, <2>2 DEF SameGrants, Settled, GrantTable, GrantRecord, GrantStatus
    <2>3. QED
      BY <1>2, <1>3, <1>4, <2>1, <2>2 DEF SealInv, EnvelopeSettlesPermissions
  <1>9. PointInv' /\ CallInv'
    BY <1>2 DEF PointInv, CallInv, Points, ConsultPoints, GrantedPoints, RegistryPoints
  <1>10. QED
    BY <1>2, <1>5, <1>7, <1>8, <1>9 DEF IInv

LEMMA FinishNowSeals ==
  ASSUME IInv, NEW r, Sound(r), FinishNow(r), pc \in Points,
         UNCHANGED <<calls, i, requests, decisions, toolVars, now>>
  PROVE  IInv'
  <1>1. decisions \in [Calls -> DecisionStatus \cup {"none"}]
    BY DEF IInv, TypeOK
  <1>2. \A c \in Calls : decisions[c] \in GrantingDecision => Granted(c)
    BY DEF Granted
  <1>3. QED
    BY <1>1, <1>2, FinishSeals DEF FinishNow
(* What Continue leaves, when the run it is given may be suspended.        *)
Suspended ==
  /\ Sound(run') /\ Alive(run') /\ envelope' = envelope
  /\ ~Running(run') => pc' = "thrown"

(* A step that suspends the run at a new point, or throws, and touches     *)
(* neither the permissions nor the decisions.                              *)
LEMMA ContinueKeeps ==
  ASSUME IInv, pc \in Points, Suspended,
         decisions' = decisions, perms' = perms, active' = active,
         TypeOK', Running(run') => CallInv'
  PROVE  IInv'
  <1>1. PointInv'
    BY DEF Suspended, Alive, PointInv, Points, ConsultPoints
  <1>2. CallInv'
    <2>1. CASE Running(run')
      BY <2>1
    <2>2. CASE ~Running(run')
      BY <2>2 DEF Suspended, CallInv, GrantedPoints, RegistryPoints
    <2>3. QED
      BY <2>1, <2>2
  <1>3. GrantInv'
    <2>1. pc # "thrown"
      BY DEF Points, ConsultPoints
    <2>2. QED
      BY <2>1 DEF IInv, GrantInv, CopiesFollow, Granted
  <1>4. SealInv'
    BY DEF Suspended, IInv, SealInv, EnvelopeSettlesPermissions
  <1>5. QED
    BY <1>1, <1>2, <1>3, <1>4 DEF Suspended, IInv
-----------------------------------------------------------------------------
(* The phases a pipeline names in its code.                                *)
LEMMA PhasesUsed ==
  {"frame", "plan", "request_authority", "validate_authority", "delegate_narrow",
   "execute_tool", "observe_result", "critique_verify", "finalize", "audit_seal",
   "deny", "escalate"} \subseteq Phase
  BY DEF Phase

(* What a model call leaves, when it has not been stopped.                 *)
LEMMA LLMAlive ==
  ASSUME IInv, pc \in Points, NEW r \in LLMResults(run)
  PROVE  Sound(r) /\ Running(r) /\ (~Halted(r) => Alive(r))
  BY LLMResultsSound DEF IInv, PointInv, Alive

(* recordStep and transition, the pair most segments of the run end with.  *)
LEMMA StepThenTransition ==
  ASSUME NEW r, Sound(r), Alive(r), NEW to \in Phase, to # "audit_seal"
  PROVE  /\ Sound(Transition(RecordStep(r), to))
         /\ Alive(Transition(RecordStep(r), to))
  BY RecordStepSound, TransitionSound
(* Requesting authority for call c from a run that may be charged a step.  *)
LEMMA RequestKeeps ==
  ASSUME IInv, NEW r, Sound(r), Alive(r), NEW c \in Calls, RequestAuthority(r, c),
         pc \in Points, calls' \in 0 .. MaxCalls,
         UNCHANGED <<decisions, perms, active, now>>,
         acted' = acted, executed' = executed, observed' = observed, receipts' = receipts,
         toolResult' \in ReceiptStatus
  PROVE  IInv'
  <1> DEFINE r1 == Transition(RecordStep(r), "validate_authority")
  <1>1. Sound(r1) /\ Alive(r1)
    BY PhasesUsed, StepThenTransition
  <1>2. Running(r1) => Running(r)
    <2>1. RecordStep(r) \in RunRecord
      BY RecordStepSound DEF Sound
    <2>2. QED
      BY <2>1, PhasesUsed, TransitionCases, RecordStepSound
  <1> HIDE DEF r1
  <1>3. /\ Continue(r1, "evaluate") /\ i' = c
        /\ requests' = IF Running(r) THEN requests \cup {c} ELSE requests
    BY DEF RequestAuthority, r1
  <1>4. TypeOK'
    BY <1>1, <1>3, GovernedAssumption
       DEF IInv, TypeOK, Continue, Sound, Points, Ended, Calls
  <1>5. Running(r1) => CallInv'
    BY <1>2, <1>3 DEF CallInv, Continue, GrantedPoints, RegistryPoints
  <1>6. run' = r1 /\ Suspended
    BY <1>1, <1>3 DEF Continue, Suspended
  <1>7. QED
    BY <1>4, <1>5, <1>6, ContinueKeeps

(* A statement that throws, once the decision is stored.                   *)
LEMMA ThrowKeeps ==
  ASSUME IInv, NEW r, Sound(r), NEW decided \in [Calls -> DecisionStatus \cup {"none"}],
         Continue(r, "thrown"), decisions' = decided,
         UNCHANGED <<calls, i, requests, perms, active, toolVars, now>>,
         \A c \in Calls : decided[c] \in GrantingDecision => Granted(c)
  PROVE  IInv'
  <1>1. run' = r /\ pc' = "thrown" /\ envelope' = envelope
    BY DEF Continue
  <1>2. TypeOK'
    BY <1>1 DEF IInv, TypeOK, Sound, Ended, toolVars
  <1>3. PointInv' /\ CallInv'
    BY <1>1 DEF PointInv, CallInv, Points, ConsultPoints, GrantedPoints, RegistryPoints
  <1>4. GrantInv' /\ SealInv'
    <2>1. \A c \in Calls : Granted(c)' => Granted(c)
      BY DEF Granted
    <2>2. GrantInv'
      BY <1>1 DEF IInv, GrantInv, CopiesFollow
    <2>3. pc' \notin Points
      BY <1>1 DEF Points, ConsultPoints
    <2>4. QED
      BY <1>1, <2>1, <2>2, <2>3 DEF IInv, SealInv, EnvelopeSettlesPermissions
  <1>5. QED
    BY <1>1, <1>2, <1>3, <1>4 DEF IInv

(* Statements that end in finish() or throw before it.                     *)
LEMMA ReturnKeeps ==
  ASSUME IInv, NEW r, Sound(r), NEW decided \in [Calls -> DecisionStatus \cup {"none"}],
         Return(r, decided), decisions' = decided,
         UNCHANGED <<calls, i, requests, toolVars, now>>,
         \A c \in Calls : decided[c] \in GrantingDecision => Granted(c),
         pc \in Points
  PROVE  IInv'
  <1>1. CASE Finish(r, perms, active, decided)
    BY <1>1, FinishSeals
  <1>2. CASE Continue(r, "thrown") /\ UNCHANGED <<perms, active>>
    BY <1>2, ThrowKeeps
  <1>3. QED
    BY <1>1, <1>2 DEF Return

(* A step of the registry: at most the permissions change, by expiring.    *)
LEMMA RegistryKeeps ==
  ASSUME IInv, pc \in RegistryPoints, pc' \in RegistryPoints, TypeOK',
         UNCHANGED <<run, i, requests, decisions, active, envelope>>,
         SameGrants(perms, perms')
  PROVE  IInv'
  <1>1. pc \in Points /\ pc' \in Points /\ pc # "thrown" /\ pc' # "thrown"
        /\ pc \in GrantedPoints
    BY DEF RegistryPoints, Points, GrantedPoints
  <1>2. PointInv' /\ CallInv'
    BY <1>1 DEF IInv, PointInv, CallInv, Granted
  <1>3. GrantInv'
    BY <1>1 DEF IInv, GrantInv, CopiesFollow, SameGrants, Granted
  <1>4. SealInv'
    BY <1>1 DEF IInv, SealInv, EnvelopeSettlesPermissions
  <1>5. QED
    BY <1>2, <1>3, <1>4 DEF IInv

LEMMA NextIInv == IInv /\ [Next]_vars => IInv'
  <1> SUFFICES ASSUME IInv, [Next]_vars PROVE IInv'
    OBVIOUS
  <1> USE PhasesUsed
  <1>0. /\ TypeOK /\ Sound(run) /\ PointInv /\ CallInv /\ GrantInv /\ SealInv
        /\ perms \in GrantTable /\ active \in GrantTable
    BY DEF IInv, TypeOK, GrantTable
  <1>1. CASE Receive
    <2> DEFINE r == Transition(RecordStep(run), "frame")
    <2>1. Alive(run) /\ pc \in Points
      BY <1>0, <1>1 DEF Receive, PointInv, Points, RegistryPoints, Alive
    <2>2. Sound(r) /\ Alive(r)
      BY <1>0, <2>1, StepThenTransition
    <2> HIDE DEF r
    <2>3. Continue(r, "frame_consult") /\ UNCHANGED <<decisions, perms, active, now>>
      BY <1>1 DEF Receive, r
    <2>4. TypeOK' /\ CallInv'
      BY <1>0, <1>1, <2>2, <2>3
         DEF Receive, Continue, TypeOK, CallInv, Sound, Points, ConsultPoints, Ended,
             GrantedPoints, RegistryPoints, toolVars
    <2>5. Suspended
      BY <2>2, <2>3 DEF Continue, Suspended
    <2>6. QED
      BY <2>1, <2>3, <2>4, <2>5, ContinueKeeps
  <1>2. CASE ConsultAllowed
    <2>1. /\ pc \in Points \ RegistryPoints /\ pc' \in Points \ RegistryPoints
          /\ pc' \in GrantedPoints \cup {"evaluate"} => pc \in GrantedPoints
          /\ UNCHANGED <<run, calls, i, requests, decisions, perms, active, toolVars, envelope, now>>
      BY <1>2 DEF ConsultAllowed, Points, ConsultPoints, RegistryPoints, GrantedPoints
    <2>2. TypeOK'
      BY <1>0, <2>1 DEF TypeOK, toolVars
    <2>3. PointInv'
      BY <1>0, <2>1 DEF PointInv
    <2>4. CallInv'
      BY <1>0, <2>1 DEF CallInv, Granted, GrantedPoints
    <2>5. GrantInv' /\ SealInv'
      <3>1. pc # "thrown"
        BY <2>1 DEF Points, ConsultPoints
      <3>2. QED
        BY <1>0, <2>1, <3>1
           DEF GrantInv, SealInv, Granted, CopiesFollow, EnvelopeSettlesPermissions
    <2>6. QED
      BY <1>0, <2>1, <2>2, <2>3, <2>4, <2>5 DEF IInv
  <1>3. CASE ConsultDenied
    <2>1. pc \in Points /\ "denied" \in CompletionStatus
      BY <1>3 DEF ConsultDenied, Points, CompletionStatus
    <2>2. Sound(ForceStop(run, "denied"))
      BY <1>0, <2>1, ForceStopSound
    <2>3. QED
      BY <1>3, <2>1, <2>2, FinishNowSeals DEF ConsultDenied
  <1>4. CASE LLMHalts
    <2>1. pc \in Points
      BY <1>4 DEF LLMHalts, Points
    <2>2. PICK r \in LLMResults(run) : FinishNow(r)
      BY <1>4 DEF LLMHalts
    <2>3. Sound(r)
      BY <2>1, LLMAlive
    <2>4. QED
      BY <1>4, <2>1, <2>2, <2>3, FinishNowSeals DEF LLMHalts
  <1>5. CASE Frame
    <2>1. pc \in Points
      BY <1>5 DEF Frame, Points
    <2>2. PICK x \in LLMResults(run) :
            ~Halted(x) /\ Continue(Transition(RecordStep(x), "plan"), "plan_consult")
      BY <1>5 DEF Frame
    <2> DEFINE r == Transition(RecordStep(x), "plan")
    <2>3. Sound(r) /\ Alive(r)
      BY <2>1, <2>2, LLMAlive, StepThenTransition
    <2> HIDE DEF r
    <2>4. Continue(r, "plan_consult") /\ UNCHANGED <<decisions, perms, active, now>>
      BY <1>5, <2>2 DEF Frame, r
    <2>5. TypeOK' /\ CallInv'
      BY <1>0, <1>5, <2>3, <2>4
         DEF Frame, Continue, TypeOK, CallInv, Sound, Points, ConsultPoints, Ended,
             GrantedPoints, RegistryPoints, toolVars
    <2>6. Suspended
      BY <2>3, <2>4 DEF Continue, Suspended
    <2>7. QED
      BY <2>1, <2>3, <2>4, <2>5, <2>6, ContinueKeeps
  <1>6. CASE PlanWithoutTools
    <2>1. pc \in Points
      BY <1>6 DEF PlanWithoutTools, Points
    <2>2. PICK x \in LLMResults(run) :
            ~Halted(x) /\ Continue(Transition(RecordStep(x), "finalize"), "finalize_consult")
      BY <1>6 DEF PlanWithoutTools
    <2> DEFINE r == Transition(RecordStep(x), "finalize")
    <2>3. Sound(r) /\ Alive(r)
      BY <2>1, <2>2, LLMAlive, StepThenTransition
    <2> HIDE DEF r
    <2>4. Continue(r, "finalize_consult") /\ UNCHANGED <<decisions, perms, active, now>>
      BY <1>6, <2>2 DEF PlanWithoutTools, r
    <2>5. TypeOK' /\ CallInv'
      BY <1>0, <1>6, <2>3, <2>4
         DEF PlanWithoutTools, Continue, TypeOK, CallInv, Sound, Points, ConsultPoints, Ended,
             GrantedPoints, RegistryPoints, toolVars
    <2>6. Suspended
      BY <2>3, <2>4 DEF Continue, Suspended
    <2>7. QED
      BY <2>1, <2>3, <2>4, <2>5, <2>6, ContinueKeeps
  <1>7. CASE PlanWithTools
    <2>1. pc \in Points
      BY <1>7 DEF PlanWithTools, Points
    <2>2. PICK n \in Calls, x \in LLMResults(run) :
            /\ ~Halted(x) /\ calls' = n
            /\ RequestAuthority(Transition(RecordStep(x), "request_authority"), 1)
      BY <1>7 DEF PlanWithTools
    <2> DEFINE r == Transition(RecordStep(x), "request_authority")
    <2>3. 1 \in Calls /\ calls' \in 0 .. MaxCalls
      BY <2>2, GovernedAssumption DEF Calls
    <2>4. Sound(r) /\ Alive(r)
      BY <2>1, <2>2, LLMAlive, StepThenTransition
    <2> HIDE DEF r
    <2>5. RequestAuthority(r, 1)
      BY <2>2 DEF r
    <2>6. /\ UNCHANGED <<decisions, perms, active, acted, executed, observed, receipts, now>>
          /\ toolResult' \in ReceiptStatus
      BY <1>0, <1>7 DEF PlanWithTools, toolVars, TypeOK
    <2>7. QED
      BY <2>1, <2>3, <2>4, <2>5, <2>6, RequestKeeps
  <1>8. CASE Refuse
    <2>1. pc \in Points /\ Alive(run)
      BY <1>0, <1>8 DEF Refuse, Points, PointInv, RegistryPoints, Alive
    <2>2. i \in Calls
      BY <1>0, <1>8 DEF Refuse, CallInv
    <2>3. PICK d \in RefusingDecision, status \in {"denied", "escalation_timeout"},
               to \in {"deny", "escalate"} :
            /\ decisions' = [decisions EXCEPT ![i] = d]
            /\ Return(Transition(Transition(SetStatus(RecordStep(run), status), to),
                                 "audit_seal"), [decisions EXCEPT ![i] = d])
      BY <1>8 DEF Refuse
    <2> DEFINE decided == [decisions EXCEPT ![i] = d]
               r == Transition(Transition(SetStatus(RecordStep(run), status), to), "audit_seal")
    <2>4. Sound(r)
      <3>1. status \in CompletionStatus
        BY DEF CompletionStatus
      <3>2. Sound(SetStatus(RecordStep(run), status))
        BY <1>0, <2>1, <3>1, RecordStepSound, SetStatusSound
      <3>3. Sound(Transition(SetStatus(RecordStep(run), status), to))
        BY <3>2, TransitionSound
      <3>4. QED
        BY <3>3, TransitionSound
    <2>5. /\ decided \in [Calls -> DecisionStatus \cup {"none"}]
          /\ \A c \in Calls : decided[c] \in GrantingDecision => Granted(c)
      BY <1>0, <2>2 DEF TypeOK, DecisionStatus, RefusingDecision, GrantingDecision, Granted
    <2> HIDE DEF decided, r
    <2>6. /\ Return(r, decided) /\ decisions' = decided
          /\ UNCHANGED <<calls, i, requests, toolVars, now>>
      BY <1>8, <2>3 DEF Refuse, r, decided
    <2>7. QED
      BY <2>1, <2>4, <2>5, <2>6, ReturnKeeps
  <1>9. CASE Delegate
    <2>1. pc \in Points /\ Alive(run) /\ i \in Calls /\ i \in requests /\ pc = "evaluate"
      BY <1>0, <1>9 DEF Delegate, Points, PointInv, RegistryPoints, Alive, CallInv
    <2> DEFINE delegated == Transition(RecordStep(run), "delegate_narrow")
               executing == Transition(RecordStep(delegated), "execute_tool")
               charged   == RecordToolCall(executing)
    <2>2. PICK d \in GrantingDecision, oneShot \in BOOLEAN :
            /\ decisions' = [decisions EXCEPT ![i] = d]
            /\ perms' = IF Running(delegated) THEN Grant(perms, i, now, TTL, oneShot)
                        ELSE perms
            /\ active' = IF Running(delegated) THEN [active EXCEPT ![i] = perms'[i]]
                         ELSE active
            /\ acted' = IF Running(executing) THEN acted \cup {i} ELSE acted
            /\ Continue(charged, "dispatch")
      BY <1>9 DEF Delegate
    <2>3. Sound(delegated) /\ Alive(delegated)
      BY <1>0, <2>1, StepThenTransition
    <2>4. Sound(executing) /\ Alive(executing)
      BY <2>3, StepThenTransition
    <2>5. Sound(charged) /\ Running(charged) = Running(executing)
      BY <2>4, RecordToolCallSound
    <2>6. Running(executing) => Running(delegated)
      <3>1. RecordStep(delegated) \in RunRecord
        BY <2>3, RecordStepSound DEF Sound
      <3>2. QED
        BY <2>3, <3>1, TransitionCases, RecordStepSound
    <2> HIDE DEF delegated, executing, charged
    <2>7. /\ run' = charged /\ envelope' = envelope
          /\ pc' = IF Running(charged) THEN "dispatch" ELSE "thrown"
          /\ UNCHANGED <<calls, i, requests, executed, toolResult, observed, receipts, now>>
      BY <1>9, <2>2 DEF Delegate, Continue
    <2>8. Running(delegated) =>
            /\ perms' \in GrantTable /\ perms'[i].status = "active"
            /\ \A c \in Calls : c # i => perms'[c] = perms[c]
            /\ active' = [active EXCEPT ![i] = perms'[i]]
      <3>1. now \in Int /\ TTL \in Int
        BY <1>0, GovernedAssumption DEF TypeOK
      <3>2. QED
        BY <1>0, <2>1, <2>2, <3>1, GrantGrants
    <2>9. TypeOK'
      <3>1. perms' \in GrantTable /\ active' \in GrantTable
        BY <1>0, <2>1, <2>2, <2>8 DEF GrantTable
      <3>2. decisions' \in [Calls -> DecisionStatus \cup {"none"}]
        BY <1>0, <2>2 DEF TypeOK, DecisionStatus, GrantingDecision
      <3>3. run' \in RunRecord /\ pc' \in Points \cup Ended
        BY <2>5, <2>7 DEF Sound, Points, Ended
      <3>4. acted' \subseteq Calls
        BY <1>0, <2>1, <2>2 DEF TypeOK
      <3>5. QED
        BY <1>0, <2>7, <3>1, <3>2, <3>3, <3>4 DEF TypeOK, GrantTable
    <2>10. PointInv'
      BY <2>7 DEF PointInv, Points, ConsultPoints, RegistryPoints
    <2>11. Granted(i)'
      BY <1>0, <2>1, <2>2, <2>7 DEF Granted, TypeOK
    <2>12. CallInv'
      BY <2>1, <2>7, <2>11 DEF CallInv, Granted
    <2>13. GrantInv'
      <3>1. CopiesFollow(active, perms)' /\ (Running(delegated) => perms'[i].status # "none")
        <4>1. CASE Running(delegated)
          BY <1>0, <2>1, <2>8, <4>1 DEF GrantInv, CopiesFollow, GrantTable
        <4>2. CASE ~Running(delegated)
          BY <1>0, <2>2, <4>2 DEF GrantInv, CopiesFollow
        <4>3. QED
          BY <4>1, <4>2
      <3>2. ASSUME pc' # "thrown", NEW c \in Calls, Granted(c)'
            PROVE  perms'[c].status # "none"
        <4>1. Running(delegated)
          BY <2>5, <2>6, <2>7, <3>2
        <4>2. CASE c = i
          BY <3>1, <4>1, <4>2
        <4>3. CASE c # i
          <5>1. Granted(c)
            BY <1>0, <2>1, <2>2, <3>2, <4>3 DEF Granted, TypeOK
          <5>2. QED
            BY <1>0, <2>1, <2>8, <4>1, <4>3, <5>1 DEF GrantInv
        <4>4. QED
          BY <4>2, <4>3
      <3>3. QED
        BY <3>1, <3>2 DEF GrantInv
    <2>14. SealInv'
      BY <1>0, <2>1, <2>7 DEF SealInv, EnvelopeSettlesPermissions
    <2>15. QED
      BY <2>5, <2>7, <2>9, <2>10, <2>12, <2>13, <2>14 DEF IInv
  <1>10. CASE RejectCall
    <2>1. pc \in RegistryPoints /\ pc' \in RegistryPoints /\ perms' = perms
      BY <1>10 DEF RejectCall, RegistryPoints
    <2>2. TypeOK' /\ UNCHANGED <<run, i, requests, decisions, active, envelope>>
      BY <1>0, <1>10 DEF RejectCall, TypeOK, Points, ReceiptStatus
    <2>3. QED
      BY <1>0, <2>1, <2>2, RegistryKeeps DEF SameGrants
  <1>11. CASE RefuseAuthority
    <2>1. /\ pc \in RegistryPoints /\ pc' \in RegistryPoints
          /\ perms' = CheckExpiry(perms, now)
      BY <1>11 DEF RefuseAuthority, RegistryPoints
    <2>2. SameGrants(perms, perms')
      BY <1>0, <2>1, CheckExpiryGrants
    <2>3. TypeOK' /\ UNCHANGED <<run, i, requests, decisions, active, envelope>>
      BY <1>0, <1>11, <2>2
         DEF RefuseAuthority, TypeOK, Points, ReceiptStatus, SameGrants, GrantTable
    <2>4. QED
      BY <2>1, <2>2, <2>3, RegistryKeeps
  <1>12. CASE StartHandler
    <2>1. /\ pc \in RegistryPoints /\ pc' \in RegistryPoints
          /\ perms' = CheckExpiry(perms, now) /\ i \in Calls
      BY <1>0, <1>12 DEF StartHandler, RegistryPoints, GrantedPoints, CallInv
    <2>2. SameGrants(perms, perms')
      BY <1>0, <2>1, CheckExpiryGrants
    <2>3. TypeOK' /\ UNCHANGED <<run, i, requests, decisions, active, envelope>>
      BY <1>0, <1>12, <2>1, <2>2
         DEF StartHandler, TypeOK, Points, SameGrants, GrantTable
    <2>4. QED
      BY <2>1, <2>2, <2>3, RegistryKeeps
  <1>13. CASE HandlerEnds
    <2>1. pc \in RegistryPoints /\ pc' \in RegistryPoints /\ perms' = perms
      BY <1>13 DEF HandlerEnds, RegistryPoints
    <2>2. TypeOK' /\ UNCHANGED <<run, i, requests, decisions, active, envelope>>
      BY <1>0, <1>13 DEF HandlerEnds, TypeOK, Points, ReceiptStatus
    <2>3. QED
      BY <1>0, <2>1, <2>2, RegistryKeeps DEF SameGrants
  <1>14. CASE RegistryThrows
    <2>1. pc \in Points /\ "fail_safe" \in CompletionStatus
      BY <1>14 DEF RegistryThrows, Points, CompletionStatus
    <2>2. Sound(ForceStop(run, "fail_safe"))
      BY <1>0, <2>1, ForceStopSound
    <2>3. QED
      BY <1>14, <2>1, <2>2, FinishNowSeals DEF RegistryThrows
  <1>15. CASE ToolReturned
    <2> DEFINE r == Transition(run, "observe_result")
    <2>1. pc \in Points /\ i \in Calls /\ i \in requests /\ Granted(i)
      BY <1>0, <1>15 DEF ToolReturned, Points, CallInv, GrantedPoints, RegistryPoints
    <2>2. Sound(r) /\ Alive(r)
      BY <1>0, TransitionSound
    <2> HIDE DEF r
    <2>3. SameGrants(perms, perms')
      BY <1>0, <1>15, <2>1, ConsumeGrants DEF ToolReturned, SameGrants
    <2>4. active' \in GrantTable /\ CopiesFollow(active', perms')
      <3>1. CASE active' = active
        BY <1>0, <2>3, <3>1 DEF GrantInv, CopiesFollow, SameGrants
      <3>2. CASE active' = SyncPermissionState(active, perms')
        <4>1. active' = [c \in Calls |-> IF active[c].status = "none" THEN active[c]
                                         ELSE perms'[c]]
          BY <3>2 DEF SyncPermissionState
        <4>2. QED
          BY <1>0, <2>3, <4>1 DEF GrantInv, CopiesFollow, SameGrants, GrantTable
      <3>3. QED
        BY <1>15, <3>1, <3>2 DEF ToolReturned
    <2>5. /\ run' = r /\ envelope' = envelope
          /\ pc' = IF Running(r) THEN "observe_consult" ELSE "thrown"
          /\ UNCHANGED <<calls, i, requests, decisions, toolVars, now>>
      BY <1>15 DEF ToolReturned, Continue, r
    <2>6. TypeOK'
      BY <1>0, <2>2, <2>3, <2>4, <2>5
         DEF TypeOK, Sound, Points, ConsultPoints, Ended, SameGrants, GrantTable, toolVars
    <2>7. PointInv' /\ CallInv'
      BY <2>1, <2>2, <2>5 DEF PointInv, CallInv, Alive, Points, ConsultPoints, Granted,
                              GrantedPoints, RegistryPoints
    <2>8. GrantInv'
      <3>1. pc # "thrown"
        BY <2>1 DEF Points, ConsultPoints
      <3>2. QED
        BY <1>0, <2>3, <2>4, <2>5, <3>1 DEF GrantInv, SameGrants, Granted
    <2>9. SealInv'
      BY <1>0, <2>1, <2>5 DEF SealInv, EnvelopeSettlesPermissions
    <2>10. QED
      BY <2>2, <2>5, <2>6, <2>7, <2>8, <2>9 DEF IInv
  <1>16. CASE Observe
    <2> DEFINE r == Transition(RecordStep(run), "critique_verify")
    <2>1. /\ pc \in Points /\ Alive(run) /\ i \in Calls /\ i \in requests /\ Granted(i)
      BY <1>0, <1>16 DEF Observe, Points, ConsultPoints, PointInv, Alive, CallInv,
                         GrantedPoints, RegistryPoints
    <2>2. Sound(r) /\ Alive(r)
      BY <1>0, <2>1, StepThenTransition
    <2> HIDE DEF r
    <2>3. Continue(r, "critique_consult") /\ UNCHANGED <<decisions, perms, active, now>>
      BY <1>16 DEF Observe, r
    <2>4. TypeOK'
      BY <1>0, <1>16, <2>1, <2>2, <2>3
         DEF Observe, Continue, TypeOK, Sound, Points, ConsultPoints, Ended
    <2>5. CallInv'
      BY <1>16, <2>1, <2>3 DEF Observe, CallInv, Granted
    <2>6. Suspended
      BY <2>2, <2>3 DEF Continue, Suspended
    <2>7. QED
      BY <2>1, <2>3, <2>4, <2>5, <2>6, ContinueKeeps
  <1>17. CASE CritiqueThenNextCall
    <2>1. pc \in Points /\ i < calls
      BY <1>17 DEF CritiqueThenNextCall, Points
    <2>2. PICK x \in LLMResults(run) :
            /\ ~Halted(x) /\ ~Halted(RecordStep(x))
            /\ RequestAuthority(Transition(RecordStep(Transition(RecordStep(x), "plan")),
                                           "request_authority"), i + 1)
      BY <1>17 DEF CritiqueThenNextCall
    <2> DEFINE replanned == Transition(RecordStep(x), "plan")
               r == Transition(RecordStep(replanned), "request_authority")
    <2>3. Sound(replanned) /\ Alive(replanned)
      BY <2>1, <2>2, LLMAlive, StepThenTransition
    <2>4. Sound(r) /\ Alive(r)
      BY <2>3, StepThenTransition
    <2> HIDE DEF replanned, r
    <2>5. RequestAuthority(r, i + 1)
      BY <2>2 DEF replanned, r
    <2>6. i + 1 \in Calls /\ calls \in 0 .. MaxCalls
      BY <1>0, <2>1, GovernedAssumption DEF TypeOK, Calls
    <2>7. /\ calls' = calls /\ toolResult' \in ReceiptStatus
          /\ UNCHANGED <<decisions, perms, active, acted, executed, observed, receipts, now>>
      BY <1>17 DEF CritiqueThenNextCall, ReceiptStatus
    <2>8. QED
      BY <2>1, <2>4, <2>5, <2>6, <2>7, RequestKeeps
  <1>18. CASE CritiqueThenStop
    <2>1. pc \in Points
      BY <1>18 DEF CritiqueThenStop, Points
    <2>2. PICK x \in LLMResults(run) : ~Halted(x) /\ FinishNow(RecordStep(x))
      BY <1>18 DEF CritiqueThenStop
    <2>3. Sound(RecordStep(x))
      BY <2>1, <2>2, LLMAlive, RecordStepSound
    <2>4. QED
      BY <1>18, <2>1, <2>2, <2>3, FinishNowSeals DEF CritiqueThenStop
  <1>19. CASE CritiqueThenFinalize
    <2>1. pc \in Points
      BY <1>19 DEF CritiqueThenFinalize, Points
    <2>2. PICK x \in LLMResults(run) :
            ~Halted(x) /\ Continue(Transition(RecordStep(x), "finalize"), "finalize_consult")
      BY <1>19 DEF CritiqueThenFinalize
    <2> DEFINE r == Transition(RecordStep(x), "finalize")
    <2>3. Sound(r) /\ Alive(r)
      BY <2>1, <2>2, LLMAlive, StepThenTransition
    <2> HIDE DEF r
    <2>4. Continue(r, "finalize_consult") /\ UNCHANGED <<decisions, perms, active, now>>
      BY <1>19, <2>2 DEF CritiqueThenFinalize, r
    <2>5. TypeOK' /\ CallInv'
      BY <1>0, <1>19, <2>3, <2>4
         DEF CritiqueThenFinalize, Continue, TypeOK, CallInv, Sound, Points, ConsultPoints,
             Ended, GrantedPoints, RegistryPoints, toolVars
    <2>6. Suspended
      BY <2>3, <2>4 DEF Continue, Suspended
    <2>7. QED
      BY <2>1, <2>3, <2>4, <2>5, <2>6, ContinueKeeps
  <1>20. CASE Finalize
    <2>1. pc \in Points
      BY <1>20 DEF Finalize, Points
    <2>2. PICK x \in LLMResults(run) :
            ~Halted(x) /\ Return(Transition(x, "audit_seal"), decisions)
      BY <1>20 DEF Finalize
    <2>3. Sound(Transition(x, "audit_seal"))
      BY <2>1, <2>2, LLMAlive, TransitionSound
    <2>4. decisions \in [Calls -> DecisionStatus \cup {"none"}]
      BY <1>0 DEF TypeOK
    <2>5. UNCHANGED <<calls, i, requests, decisions, toolVars, now>>
      BY <1>20 DEF Finalize
    <2>6. QED
      BY <2>1, <2>2, <2>3, <2>4, <2>5, ReturnKeeps DEF Granted
  <1>21. CASE Tick
    <2>1. TypeOK'
      BY <1>0, <1>21, GovernedAssumption DEF Tick, TypeOK, toolVars
    <2>2. UNCHANGED <<pc, run, i, requests, decisions, perms, active, envelope>>
      BY <1>21 DEF Tick
    <2>3. QED
      BY <1>0, <2>1, <2>2 DEF IInv, PointInv, CallInv, GrantInv, CopiesFollow, SealInv,
                              EnvelopeSettlesPermissions, Granted
  <1>22. CASE UNCHANGED vars
    <2>1. TypeOK'
      BY <1>0, <1>22 DEF vars, TypeOK
    <2>2. UNCHANGED <<pc, run, i, requests, decisions, perms, active, envelope>>
      BY <1>22 DEF vars
    <2>3. QED
      BY <1>0, <2>1, <2>2 DEF IInv, PointInv, CallInv, GrantInv, CopiesFollow, SealInv,
                              EnvelopeSettlesPermissions, Granted
  <1>23. CASE PolicyEngineThrows
    <2>1. decisions \in [Calls -> DecisionStatus \cup {"none"}]
      BY <1>0 DEF TypeOK
    <2>2. /\ Continue(run, "thrown") /\ decisions' = decisions
          /\ UNCHANGED <<calls, i, requests, perms, active, toolVars, now>>
      BY <1>23 DEF PolicyEngineThrows
    <2>3. QED
      BY <1>0, <2>1, <2>2, ThrowKeeps DEF Granted
  <1>24. CASE MaterializeFails
    <2> DEFINE decided == [decisions EXCEPT ![i] = "unrecognised"]
               r == Transition(RecordStep(run), "delegate_narrow")
    <2>1. Alive(run) /\ i \in Calls
      BY <1>0, <1>24 DEF MaterializeFails, Points, PointInv, RegistryPoints, Alive, CallInv
    <2>2. Sound(r)
      BY <1>0, <2>1, StepThenTransition
    <2>3. /\ decided \in [Calls -> DecisionStatus \cup {"none"}]
          /\ \A c \in Calls : decided[c] \in GrantingDecision => Granted(c)
      BY <1>0, <2>1 DEF TypeOK, DecisionStatus, GrantingDecision, Granted
    <2> HIDE DEF decided, r
    <2>4. /\ Continue(r, "thrown") /\ decisions' = decided
          /\ UNCHANGED <<calls, i, requests, perms, active, toolVars, now>>
      BY <1>24 DEF MaterializeFails, r, decided
    <2>5. QED
      BY <2>2, <2>3, <2>4, ThrowKeeps
  <1>25. QED
    BY <1>1, <1>2, <1>3, <1>4, <1>5, <1>6, <1>7, <1>8, <1>9, <1>10, <1>11, <1>12, <1>13,
       <1>14, <1>15, <1>16, <1>17, <1>18, <1>19, <1>20, <1>21, <1>22,
       <1>23, <1>24
       DEF Next, RunStep, Terminated
-----------------------------------------------------------------------------
LEMMA AlwaysIInv == Spec => []IInv
  BY InitIInv, NextIInv, PTL DEF Spec

(* The state of a governed run keeps its type.                             *)
THEOREM TypeCorrect == Spec => []TypeOK
  BY AlwaysIInv, PTL DEF IInv

(* Steps and tool calls stay within a hard budget on every path of a run.  *)
THEOREM BudgetTheorem == Spec => []StepAndToolBudgetNeverOverspent
  <1>1. IInv => StepAndToolBudgetNeverOverspent
    BY DEF IInv, Sound, NotOverspent, StepAndToolBudgetNeverOverspent, HardBudget
  <1>2. QED
    BY <1>1, AlwaysIInv, PTL

(* A sealed envelope reports every permission, none of them still active.  *)
THEOREM SettlementTheorem == Spec => []EnvelopeSettlesPermissions
  <1>1. IInv => EnvelopeSettlesPermissions
    BY DEF IInv, SealInv
  <1>2. QED
    BY <1>1, AlwaysIInv, PTL

(* No permission, no execution: a handler starts only for a granted call,  *)
(* under the permission of that call, valid at that moment.                *)
THEOREM AuthorityTheorem == Spec => ExecutionIsAuthorised
  <1> DEFINE Authorised == \A c \in executed' \ executed :
                             /\ Granted(c) /\ c \in requests /\ c = i
                             /\ Usable(perms[c], now)
  <1>1. IInv /\ [Next]_vars => [Authorised]_vars
    <2> SUFFICES ASSUME IInv, Next, executed' # executed PROVE Authorised
      BY DEF vars
    <2>1. StartHandler
      BY DEF Next, RunStep, Receive, ConsultAllowed, ConsultDenied, PolicyEngineThrows,
             MaterializeFails, LLMHalts, Frame, PlanWithoutTools, PlanWithTools, Refuse, Delegate, RejectCall,
             RefuseAuthority, HandlerEnds, RegistryThrows, ToolReturned, Observe,
             CritiqueThenNextCall, CritiqueThenStop, CritiqueThenFinalize, Finalize,
             Tick, Terminated, toolVars, vars
    <2>2. /\ i \in Calls /\ i \in requests /\ Granted(i)
          /\ executed' \ executed \subseteq {i} /\ IsValid(perms, i, now)
      BY <2>1 DEF IInv, CallInv, StartHandler, AuthorityHolds, GrantedPoints, RegistryPoints
    <2>3. perms \in GrantTable
      BY DEF IInv, TypeOK, GrantTable
    <2>4. Usable(perms[i], now)
      BY <2>2, <2>3 DEF IsValid, Usable, CheckExpiry, GrantTable, GrantRecord,
                        IsPastExpiry, IsBeforeEffective
    <2>5. QED
      BY <2>2, <2>4
  <1>2. QED
    BY <1>1, AlwaysIInv, PTL DEF Spec, ExecutionIsAuthorised
-----------------------------------------------------------------------------
(***************************************************************************)
(* The accounts of a governed run: what is requested, decided, granted,    *)
(* executed and receipted are prefixes of the plan, and their lengths are  *)
(* known at every await.  From this follow what the sealed envelope        *)
(* reports, what a success and a refusal mean, that a stopped run takes no *)
(* authority, and that the pipeline implements GovernedRun.                *)
(***************************************************************************)
(* A run is "running" until it is stopped, and a stop is not a success.    *)
StopStatus == CompletionStatus \ {"running", "succeeded"}

Honest(r) ==
  /\ r \in RunRecord
  /\ IF Halted(r) THEN r.completionStatus \in StopStatus ELSE r.completionStatus = "running"

LEMMA ForceStopHonest ==
  ASSUME NEW r, Honest(r), NEW status \in StopStatus
  PROVE  /\ Honest(ForceStop(r, status))
         /\ Running(r) => /\ ForceStop(r, status).completionStatus = status
                          /\ Halted(ForceStop(r, status))
  <1>1. CASE ~Running(r)
    BY <1>1 DEF ForceStop
  <1>2. CASE Running(r)
    <2>1. status \in CompletionStatus
      BY DEF StopStatus
    <2>2. ForceStop(r, status) \in RunRecord /\ Halted(ForceStop(r, status))
      BY <1>2, <2>1, ForceStopFields DEF Honest
    <2>3. ForceStop(r, status).completionStatus = status
      BY <1>2 DEF ForceStop, Honest, RunRecord
    <2>4. QED
      BY <2>2, <2>3 DEF Honest
  <1>3. QED
    BY <1>1, <1>2

LEMMA RecordHonest ==
  ASSUME NEW r, Honest(r), NEW field \in BudgetField, NEW count \in Int
  PROVE  Honest(Record(r, field, count))
  <1> DEFINE charged == [r EXCEPT !.remaining[field] = @ - count]
  <1>1. Honest(charged)
    BY DEF Honest, RunRecord, Halted
  <1>2. "budget_exhausted" \in StopStatus
    BY DEF StopStatus, CompletionStatus
  <1>3. Record(r, field, count) \in {r, CheckExhaustion(charged)}
    BY DEF Record
  <1> HIDE DEF charged
  <1>4. CheckExhaustion(charged) \in {charged, ForceStop(charged, "budget_exhausted")}
    BY DEF CheckExhaustion
  <1>5. QED
    BY <1>1, <1>2, <1>3, <1>4, ForceStopHonest

LEMMA ChargesHonest ==
  ASSUME NEW r, Honest(r)
  PROVE  /\ Honest(RecordStep(r)) /\ Honest(RecordToolCall(r))
         /\ \A n \in Int : Honest(RecordTokens(r, n))
  BY RecordHonest DEF RecordStep, RecordToolCall, RecordTokens, BudgetField

(* The FSM leaves the status alone, except where it seals the run.         *)
LEMMA TransitionStatus ==
  ASSUME NEW r \in RunRecord, NEW to \in Phase
  PROVE  /\ to # "audit_seal" => Transition(r, to).completionStatus = r.completionStatus
         /\ Running(Transition(r, "audit_seal")) =>
              Transition(r, "audit_seal").completionStatus =
                IF r.completionStatus = "running" THEN "succeeded" ELSE r.completionStatus
  <1>1. CASE ~Running(r)
    BY <1>1 DEF Transition, Running
  <1>2. CASE Running(r) /\ Halted(r)
    BY <1>2 DEF Transition, RunRecord, Running
  <1>3. CASE Running(r) /\ ~Halted(r)
    <2>1. ASSUME NEW p \in Phase
          PROVE  Transition(r, p) = IF p \notin ValidTransitions[r.phase]
                                    THEN [r EXCEPT !.error = "InvalidTransitionError"]
                                    ELSE IF p = "audit_seal" THEN Sealed(r)
                                    ELSE [r EXCEPT !.phase = p]
      BY <1>3 DEF Transition
    <2>2. "audit_seal" \in Phase
      BY DEF Phase
    <2>3. QED
      BY <2>1, <2>2 DEF Sealed, RunRecord, Running
  <1>4. QED
    BY <1>1, <1>2, <1>3

LEMMA TransitionHonest ==
  ASSUME NEW r, Honest(r), NEW to \in Phase \ {"audit_seal"}
  PROVE  Honest(Transition(r, to))
  <1> DEFINE t == Transition(r, to)
  <1>1. r \in RunRecord
    BY DEF Honest
  <1>2. t \in RunRecord /\ t.completionStatus = r.completionStatus
    BY <1>1, TransitionCases, TransitionStatus
  <1>3. Halted(t) <=> Halted(r)
    BY <1>1 DEF Transition, Halted, RunRecord
  <1> HIDE DEF t
  <1>4. QED
    BY <1>2, <1>3 DEF Honest, t

LEMMA LLMHonest ==
  ASSUME NEW r, Honest(r), NEW x \in LLMResults(r)
  PROVE  Honest(x)
  <1> USE LLMCallAssumption
  <1>1. {"budget_exhausted", "external_stop", "fail_safe"} \subseteq StopStatus
    BY DEF StopStatus, CompletionStatus
  <1>2. CASE x = r \/ x = ForceStop(r, "budget_exhausted")
    BY <1>1, <1>2, ForceStopHonest
  <1>3. CASE x \in AnswerResults(r)
    <2>1. PICK u \in Usage : x = RecordTokens(r, u)
      BY <1>3 DEF AnswerResults
    <2>2. QED
      BY <2>1, ChargesHonest DEF Usage
  <1>4. CASE x \in FailureResults(r)
    BY <1>1, <1>4, ForceStopHonest DEF FailureResults
  <1>5. CASE x \in TripResults(r)
    <2>1. PICK status \in {"budget_exhausted", "fail_safe"}, e \in Usage :
             x = Trip(r, status, e)
      BY <1>5 DEF TripResults
    <2>2. PromptEstimate + e \in Int
      BY DEF Usage
    <2>3. Honest(ForceStop(r, status))
      BY <1>1, ForceStopHonest
    <2>4. QED
      BY <2>1, <2>2, <2>3, ChargesHonest DEF Trip
  <1>6. QED
    BY <1>2, <1>3, <1>4, <1>5 DEF LLMResults

LEMMA StepHonest ==
  ASSUME NEW r, Honest(r), NEW to \in Phase \ {"audit_seal"}
  PROVE  Honest(Transition(RecordStep(r), to))
  BY ChargesHonest, TransitionHonest
-----------------------------------------------------------------------------
(* Where the run is in its plan.                                           *)
Planning == {"receive", "frame_consult", "frame_llm", "plan_consult", "plan_llm"}
Started  == {"running", "result", "observe_consult"}
Critiquing == {"critique_consult", "critique_llm"}
Finalizing == {"finalize_consult", "finalize_llm"}
CallPoints == {"evaluate", "dispatch"} \cup Started \cup Critiquing

(* How far the plan has been granted, started and observed.                *)
GrantedTo  == IF pc = "evaluate" THEN i - 1 ELSE i
StartedTo  == IF pc \in {"evaluate", "dispatch"} THEN i - 1 ELSE i
ObservedTo == IF pc \in {"evaluate", "dispatch"} \cup Started THEN i - 1 ELSE i

(* The accounts of call c.                                                 *)
Entry(c) ==
  /\ c \in requests <=> c <= i
  /\ c <= GrantedTo => Granted(c)
  /\ c > GrantedTo => decisions[c] = "none"
  /\ perms[c].status = "none" <=> c > GrantedTo
  /\ c \in acted <=> c <= GrantedTo
  /\ c \in executed => c <= StartedTo
  /\ c \in observed <=> c <= ObservedTo
  /\ receipts[c] = "none" <=> c > ObservedTo
  /\ receipts[c] = "success" => c \in executed

Answered ==
  /\ pc = "running" => i \in executed
  /\ pc \in {"result", "observe_consult"} =>
       toolResult # "none" /\ (toolResult = "success" => i \in executed)

LoopInv ==
  pc \in Points =>
    /\ calls \in 0 .. MaxCalls /\ i \in 0 .. calls
    /\ pc \in Planning => i = 0 /\ calls = 0
    /\ pc \in CallPoints => i >= 1
    /\ pc \in Finalizing => i = calls
    /\ \A c \in Calls : Entry(c)
    /\ Answered

StatusInv == pc \in Points => Honest(run)

EndInv == EnvelopeAccountsAgree /\ SuccessIsComplete /\ RefusalIsFinal

LInv == IInv /\ LoopInv /\ StatusInv /\ EndInv

LEMMA PointKinds ==
  /\ Points = Planning \cup CallPoints \cup Finalizing
  /\ "thrown" \notin Points /\ "returned" \notin Points
  BY DEF Points, ConsultPoints, Planning, CallPoints, Started, Critiquing, Finalizing

LEMMA InitLInv == Init => LInv
  <1> SUFFICES ASSUME Init PROVE LInv
    OBVIOUS
  <1> USE GovernedAssumption
  <1>1. IInv
    BY InitIInv
  <1>2. PICK policy \in BudgetPolicy : run = CreatePipelineState(policy)
    BY DEF Init
  <1>3. StatusInv
    <2>1. Sound(run)
      BY <1>2, CreateSound
    <2>2. run.completionStatus = "running" /\ run.phase = "receive"
      BY <1>2 DEF CreatePipelineState
    <2>3. QED
      BY <2>1, <2>2 DEF StatusInv, Honest, Sound, Halted
  <1>4. LoopInv
    <2>1. \A c \in Calls : c \in Nat /\ c > 0
      BY DEF Calls
    <2>2. \A c \in Calls : Entry(c)
      BY <2>1 DEF Init, Entry, GrantedTo, StartedTo, ObservedTo, Started, Granted, NoGrant
    <2>3. QED
      BY <2>2 DEF Init, LoopInv, Answered, Planning, CallPoints, Started, Critiquing, Finalizing
  <1>5. EndInv
    BY DEF Init, EndInv, EnvelopeAccountsAgree, SuccessIsComplete, RefusalIsFinal, NoEnvelope,
           Refused, RefusingDecision
  <1>6. QED
    BY <1>1, <1>3, <1>4, <1>5 DEF LInv

(* While a run is suspended none of its calls has been refused.            *)
LEMMA NoRefusals ==
  ASSUME LInv, pc \in Points
  PROVE  \A c \in Calls : ~Refused(c)
  <1>1. ASSUME NEW c \in Calls PROVE ~Refused(c)
    <2>1. c \in Int /\ GrantedTo \in Int
      BY DEF Calls, LInv, LoopInv, GrantedTo
    <2>2. Granted(c) \/ decisions[c] = "none"
      BY <2>1 DEF LInv, LoopInv, Entry
    <2>3. QED
      BY <2>2 DEF Granted, Refused, GrantingDecision, RefusingDecision
  <1>2. QED
    BY <1>1

(* A step that suspends the run again, or throws.                          *)
LEMMA ContinueLedger ==
  ASSUME LInv, IInv', pc \in Points, NEW r, NEW point \in Points, Continue(r, point),
         \A c \in Calls : ~Refused(c)',
         Running(r) => LoopInv' /\ Honest(r)
  PROVE  LInv'
  <1>1. run' = r /\ envelope' = envelope /\ ~envelope.sealed
    BY DEF LInv, IInv, SealInv, Continue
  <1>2. EndInv'
    BY <1>1 DEF EndInv, EnvelopeAccountsAgree, SuccessIsComplete, RefusalIsFinal
  <1>3. CASE Running(r)
    BY <1>1, <1>2, <1>3 DEF LInv, StatusInv
  <1>4. CASE ~Running(r)
    <2>1. pc' \notin Points
      BY <1>4, PointKinds DEF Continue
    <2>2. QED
      BY <1>2, <2>1 DEF LInv, LoopInv, StatusInv
  <1>5. QED
    BY <1>3, <1>4

(* A step that moves on and leaves the accounts as they are.               *)
LEMMA QuietLoop ==
  ASSUME LInv, pc \in Points,
         UNCHANGED <<calls, i, requests, decisions, acted, executed, observed, receipts>>,
         \A c \in Calls : perms'[c].status = "none" <=> perms[c].status = "none",
         pc' \in Points,
         GrantedTo' = GrantedTo, StartedTo <= StartedTo', ObservedTo' = ObservedTo,
         pc' \in Planning => pc \in Planning,
         pc' \in CallPoints => pc \in CallPoints,
         pc' \in Finalizing => i = calls,
         Answered'
  PROVE  LoopInv'
  <1>1. calls \in 0 .. MaxCalls /\ i \in 0 .. calls /\ (\A c \in Calls : Entry(c))
    BY DEF LInv, LoopInv
  <1>2. MaxCalls \in Nat /\ \A c \in Calls : c \in Int
    BY GovernedAssumption DEF Calls
  <1>3. StartedTo \in Int /\ StartedTo' \in Int
    BY <1>1, <1>2 DEF StartedTo
  <1>4. \A c \in Calls : Entry(c)'
    BY <1>1, <1>2, <1>3 DEF Entry, Granted
  <1>5. QED
    BY <1>1, <1>4 DEF LInv, LoopInv
-----------------------------------------------------------------------------
(* What a sealed envelope must find, for the decisions and the status it   *)
(* is given.                                                               *)
Settles(decided, status) ==
  \A c \in Calls :
    /\ c \in requests <=> decided[c] # "none"
    /\ perms[c].status # "none" <=> decided[c] \in GrantingDecision
    /\ c \in acted <=> decided[c] \in GrantingDecision
    /\ receipts[c] # "none" <=> c \in observed
    /\ c \in observed => c \in acted
    /\ (c \in executed /\ receipts[c] = "none") => c = i /\ status = "denied"
    /\ receipts[c] = "success" => c \in executed

(* finish() on such decisions ends the run as its envelope says.           *)
LEMMA FinishLedger ==
  ASSUME LInv, IInv', pc \in Points, NEW r \in RunRecord, NEW decided,
         Finish(r, perms, active, decided), decisions' = decided,
         UNCHANGED <<calls, i, requests, toolVars, now>>,
         Settles(decided, r.completionStatus), r.completionStatus # "running",
         r.completionStatus = "succeeded" =>
           /\ \A c \in 1 .. calls : /\ decided[c] \in GrantingDecision
                                    /\ c \in observed /\ receipts[c] # "none"
           /\ HardBudget(r) => ~IsExhausted(r),
         \A c \in Calls : decided[c] \in RefusingDecision =>
           /\ \A d \in c .. calls : perms[d].status = "none" /\ d \notin executed
           /\ r.completionStatus = IF decided[c] = "denied" THEN "denied"
                                   ELSE "escalation_timeout"
  PROVE  LInv'
  <1> DEFINE table  == RevokeAll(perms, now)
             copies == SyncPermissionState(active, table)
  <1>1. perms \in GrantTable /\ calls \in 0 .. MaxCalls /\ MaxCalls \in Nat
    BY GovernedAssumption DEF LInv, IInv, TypeOK, GrantTable
  <1>2. SameGrants(perms, table)
    BY <1>1, RevokeAllGrants
  <1>3. /\ pc' = "returned" /\ run' = FinalizeTrace(r) /\ perms' = table
        /\ envelope' = Seal(r, copies, decided)
    BY DEF Finish
  <1> HIDE DEF table, copies
  <1>4. /\ envelope'.sealed /\ envelope'.completion = r.completionStatus
        /\ envelope'.requests = requests /\ envelope'.decisions = decided
        /\ envelope'.permissions = copies /\ envelope'.receipts = receipts
    BY <1>3 DEF Seal
  <1>5. \A c \in Calls : perms'[c].status = "none" <=> perms[c].status = "none"
    BY <1>2, <1>3 DEF SameGrants
  <1>6. /\ run'.termination = r.completionStatus
        /\ run'.max = r.max /\ run'.remaining = r.remaining /\ run'.enforcement = r.enforcement
    BY <1>3 DEF FinalizeTrace, RunRecord
  <1>7. \A c \in Calls : copies[c] = perms'[c]
    BY <1>4 DEF LInv, IInv, SealInv, EnvelopeSettlesPermissions
  <1>8. EnvelopeAccountsAgree'
    <2>1. acted' = acted /\ executed' = executed /\ observed' = observed
      BY DEF toolVars
    <2>2. QED
      BY <1>4, <1>5, <1>6, <1>7, <2>1 DEF EnvelopeAccountsAgree, Settles, Granted
  <1>9. SuccessIsComplete'
    <2>1. HardBudget(run') => HardBudget(r)
      BY <1>6 DEF HardBudget
    <2>2. IsExhausted(run') => IsExhausted(r)
      BY <1>6 DEF IsExhausted
    <2>3. \A c \in 1 .. calls : c \in Calls
      BY <1>1 DEF Calls
    <2>4. ASSUME r.completionStatus = "succeeded", NEW c \in 1 .. calls
          PROVE  c \in requests /\ c \in acted
      <3>1. c \in Calls /\ decided[c] \in GrantingDecision
        BY <2>3, <2>4
      <3>2. decided[c] # "none"
        BY <3>1 DEF GrantingDecision
      <3>3. QED
        BY <3>1, <3>2 DEF Settles
    <2>5. QED
      BY <1>4, <2>1, <2>2, <2>4 DEF SuccessIsComplete, Granted, toolVars
  <1>10. RefusalIsFinal'
    <2>1. ASSUME NEW c \in Calls, Refused(c)'
          PROVE  /\ pc' \in Ended
                 /\ \A d \in c .. calls : perms'[d].status = "none" /\ d \notin executed'
                 /\ envelope'.completion = IF decided[c] = "denied" THEN "denied"
                                           ELSE "escalation_timeout"
      <3>1. decided[c] \in RefusingDecision
        BY <2>1 DEF Refused
      <3>2. \A d \in c .. calls : d \in Calls
        BY <1>1 DEF Calls
      <3>3. QED
        BY <1>3, <1>4, <1>5, <3>1, <3>2 DEF Ended, toolVars
    <2>2. QED
      BY <2>1 DEF RefusalIsFinal
  <1>11. pc' \notin Points
    BY <1>3, PointKinds
  <1>12. QED
    BY <1>8, <1>9, <1>10, <1>11 DEF LInv, LoopInv, StatusInv, EndInv

(* Away from an open decision the accounts are ready to be sealed.         *)
LEMMA LedgerSettles ==
  ASSUME LInv, pc \in Points, pc # "evaluate", NEW status,
         pc \in Started => status = "denied"
  PROVE  Settles(decisions, status)
  <1>1. ASSUME NEW c \in Calls
        PROVE  /\ c \in requests <=> decisions[c] # "none"
               /\ perms[c].status # "none" <=> decisions[c] \in GrantingDecision
               /\ c \in acted <=> decisions[c] \in GrantingDecision
               /\ receipts[c] # "none" <=> c \in observed
               /\ c \in observed => c \in acted
               /\ (c \in executed /\ receipts[c] = "none") => c = i /\ status = "denied"
               /\ receipts[c] = "success" => c \in executed
    <2>1. c \in Int /\ i \in Int /\ Entry(c)
      BY DEF Calls, LInv, LoopInv
    <2>2. GrantedTo = i
      BY DEF GrantedTo
    <2>3. /\ ObservedTo \in {i - 1, i} /\ StartedTo \in {i - 1, i} /\ StartedTo >= ObservedTo
          /\ StartedTo # ObservedTo => pc \in Started /\ StartedTo = i /\ ObservedTo = i - 1
      BY <2>1 DEF ObservedTo, StartedTo, Started
    <2>4. (c \in executed /\ receipts[c] = "none") => c = i /\ status = "denied"
      <3>1. SUFFICES ASSUME c \in executed, receipts[c] = "none"
                     PROVE  c = i /\ status = "denied"
        OBVIOUS
      <3>2. c <= StartedTo /\ c > ObservedTo
        BY <2>1, <3>1 DEF Entry
      <3>3. QED
        BY <2>1, <2>3, <3>2
    <2>5. QED
      BY <2>1, <2>2, <2>3, <2>4 DEF Entry, Granted, GrantingDecision
  <1>2. QED
    BY <1>1 DEF Settles

(* A stop of the run by "if (...) return finish(state, ...)".              *)
LEMMA StopLedger ==
  ASSUME LInv, IInv', pc \in Points, pc # "evaluate", NEW r, Honest(r), Halted(r),
         pc \in Started => r.completionStatus = "denied",
         FinishNow(r), UNCHANGED <<calls, i, requests, decisions, toolVars, now>>
  PROVE  LInv'
  <1>1. r \in RunRecord /\ r.completionStatus \notin {"running", "succeeded"}
    BY DEF Honest, StopStatus
  <1>2. Settles(decisions, r.completionStatus)
    BY LedgerSettles
  <1>3. \A c \in Calls : ~(decisions[c] \in RefusingDecision)
    BY NoRefusals DEF Refused
  <1>4. QED
    BY <1>1, <1>2, <1>3, FinishLedger DEF FinishNow
-----------------------------------------------------------------------------
(* A suspended run, and what a model call that was not stopped leaves.     *)
LEMMA SuspendedRun ==
  ASSUME LInv, pc \in Points
  PROVE  /\ Honest(run) /\ Sound(run) /\ Running(run) /\ run \in RunRecord
         /\ \A x \in LLMResults(run) :
              Honest(x) /\ Sound(x) /\ Running(x) /\ x \in RunRecord
  <1>1. Honest(run) /\ Sound(run) /\ Running(run)
    BY DEF LInv, StatusInv, IInv, PointInv
  <1>2. ASSUME NEW x \in LLMResults(run) PROVE Honest(x) /\ Sound(x) /\ Running(x)
    BY <1>1, LLMHonest, LLMResultsSound
  <1>3. QED
    BY <1>1, <1>2 DEF Honest

(* The phases of the FSM the run asks for before it is sealed.             *)
LEMMA OpenPhases ==
  {"frame", "plan", "request_authority", "validate_authority", "delegate_narrow",
   "execute_tool", "observe_result", "critique_verify", "finalize", "deny", "escalate"}
     \subseteq Phase \ {"audit_seal"}
  BY DEF Phase

(* Steps between calls: the accounts do not change.                        *)
LEMMA PhaseStepLedger ==
  ASSUME LInv, IInv', NEW r, Honest(r), NEW point \in Points, Continue(r, point),
         UNCHANGED <<calls, i, requests, decisions, perms, active, toolVars, now>>,
         \/ pc \in Planning /\ point \in Planning
         \/ pc \in Planning /\ point \in Finalizing
         \/ pc \in Critiquing /\ point \in Finalizing /\ i = calls
  PROVE  LInv'
  <1>1. pc \in Points
    BY PointKinds DEF CallPoints
  <1>2. \A c \in Calls : ~Refused(c)'
    BY <1>1, NoRefusals DEF Refused
  <1>3. ASSUME Running(r) PROVE LoopInv'
    <2>1. pc' = point
      BY <1>3 DEF Continue
    <2>2. /\ UNCHANGED <<calls, i, requests, decisions, acted, executed, observed, receipts>>
          /\ \A c \in Calls : perms'[c].status = "none" <=> perms[c].status = "none"
      BY DEF toolVars
    <2>3. /\ GrantedTo' = GrantedTo /\ StartedTo' = StartedTo /\ ObservedTo' = ObservedTo
          /\ pc' \in Points
      BY <2>1, <2>2 DEF GrantedTo, StartedTo, ObservedTo, Planning, Critiquing, Finalizing,
                        Started
    <2>4. Answered'
      BY <2>1 DEF Answered, Planning, Finalizing
    <2>5. /\ pc' \in Planning => pc \in Planning
          /\ pc' \notin CallPoints
          /\ pc' \in Finalizing => i = calls
      BY <1>1, <2>1 DEF LInv, LoopInv, Planning, CallPoints, Started, Critiquing, Finalizing
    <2>6. StartedTo \in Int
      BY <1>1 DEF LInv, LoopInv, StartedTo
    <2>7. StartedTo <= StartedTo'
      BY <2>3, <2>6
    <2>8. QED
      BY <1>1, <2>2, <2>3, <2>4, <2>5, <2>7, QuietLoop
  <1>4. QED
    BY <1>1, <1>2, <1>3, ContinueLedger

(* Authority is requested for the call that follows those observed.        *)
LEMMA RequestLedger ==
  ASSUME LInv, IInv', NEW r, Honest(r), r \in RunRecord, NEW c \in Calls,
         RequestAuthority(r, c),
         pc \in Planning \cup Critiquing, c = i + 1,
         calls' \in 0 .. MaxCalls, c <= calls',
         UNCHANGED <<decisions, perms, acted, executed, observed, receipts>>
  PROVE  LInv'
  <1> DEFINE r1 == Transition(RecordStep(r), "validate_authority")
  <1>1. Honest(r1)
    BY OpenPhases, StepHonest
  <1>2. Running(r1) => Running(r)
    <2>1. RecordStep(r) \in RunRecord /\ (Running(RecordStep(r)) => Running(r))
      <3>1. Honest(RecordStep(r))
        BY ChargesHonest
      <3>2. ~Running(r) => RecordStep(r) = r
        BY DEF RecordStep, Record
      <3>3. QED
        BY <3>1, <3>2 DEF Honest
    <2>2. QED
      BY <2>1, PhasesUsed, TransitionCases
  <1> HIDE DEF r1
  <1>3. /\ Continue(r1, "evaluate") /\ i' = c
        /\ requests' = IF Running(r) THEN requests \cup {c} ELSE requests
    BY DEF RequestAuthority, r1
  <1>4. pc \in Points /\ "evaluate" \in Points
    BY PointKinds DEF CallPoints
  <1>5. \A d \in Calls : ~Refused(d)'
    BY <1>4, NoRefusals DEF Refused
  <1>6. ASSUME Running(r1) PROVE LoopInv'
    <2>1. pc' = "evaluate" /\ requests' = requests \cup {c} /\ i' = i + 1
      BY <1>2, <1>3, <1>6 DEF Continue
    <2>2. /\ i \in Nat /\ i' \in 0 .. calls' /\ i' >= 1
          /\ \A d \in Calls : Entry(d) /\ d \in Int
      BY <1>4, <2>1 DEF LInv, LoopInv, Calls
    <2>3. /\ GrantedTo = i /\ StartedTo = i /\ ObservedTo = i
          /\ GrantedTo' = i /\ StartedTo' = i /\ ObservedTo' = i
      BY <2>1, <2>2 DEF GrantedTo, StartedTo, ObservedTo, Planning, Critiquing, Started
    <2>4. \A d \in Calls : Entry(d)'
      BY <2>1, <2>2, <2>3 DEF Entry, Granted
    <2>5. QED
      BY <2>1, <2>2, <2>4
         DEF LoopInv, Answered, Planning, Finalizing
  <1>7. QED
    BY <1>1, <1>3, <1>4, <1>5, <1>6, ContinueLedger

LEMMA RefuseLedger ==
  ASSUME LInv, IInv', Refuse
  PROVE  LInv'
  <1>1. PICK d \in RefusingDecision, status \in {"denied", "escalation_timeout"},
             to \in {"deny", "escalate"} :
          /\ decisions' = [decisions EXCEPT ![i] = d]
          /\ status = IF d = "denied" THEN "denied" ELSE "escalation_timeout"
          /\ Return(Transition(Transition(SetStatus(RecordStep(run), status), to),
                               "audit_seal"), [decisions EXCEPT ![i] = d])
    BY DEF Refuse
  <1> DEFINE decided == [decisions EXCEPT ![i] = d]
             s == SetStatus(RecordStep(run), status)
             t == Transition(s, to)
             r == Transition(t, "audit_seal")
  <1>2. pc = "evaluate" /\ pc \in Points
    BY PointKinds DEF Refuse, CallPoints
  <1>3. /\ UNCHANGED <<calls, i, requests, toolVars, now>> /\ Return(r, decided)
        /\ decisions' = decided
    BY <1>1 DEF Refuse
  <1>4. status \in CompletionStatus /\ to \in Phase \ {"audit_seal"} /\ "audit_seal" \in Phase
    BY DEF CompletionStatus, Phase
  <1>5. RecordStep(run) \in RunRecord /\ s \in RunRecord
        /\ (Running(s) => s.completionStatus = status)
    <2>1. RecordStep(run) \in RunRecord
      BY <1>2, SuspendedRun, ChargesHonest DEF Honest
    <2>2. QED
      BY <1>4, <2>1 DEF SetStatus, RunRecord, Running
  <1> HIDE DEF s
  <1>6. /\ t \in RunRecord /\ t.completionStatus = s.completionStatus
        /\ (Running(t) => Running(s))
    BY <1>4, <1>5, TransitionCases, TransitionStatus
  <1> HIDE DEF t
  <1>7. /\ r \in RunRecord /\ (Running(r) => Running(t))
        /\ Running(r) => r.completionStatus = IF t.completionStatus = "running" THEN "succeeded"
                                              ELSE t.completionStatus
    BY <1>4, <1>6, TransitionCases, TransitionStatus
  <1> HIDE DEF r
  <1>8. Running(r) => r.completionStatus = status
    BY <1>5, <1>6, <1>7
  <1>9. /\ i \in Calls /\ i \in Int /\ decisions \in [Calls -> DecisionStatus \cup {"none"}]
        /\ MaxCalls \in Nat /\ calls \in 0 .. MaxCalls
        /\ \A c \in Calls : Entry(c) /\ c \in Int
    <2>1. i \in Calls
      BY <1>2 DEF LInv, IInv, CallInv
    <2>2. QED
      BY <1>2, <2>1, GovernedAssumption DEF LInv, LoopInv, IInv, TypeOK, Calls
  <1>10. decided[i] = d /\ \A c \in Calls : c # i => decided[c] = decisions[c]
    BY <1>9
  <1> HIDE DEF decided
  <1>11. GrantedTo = i - 1 /\ StartedTo = i - 1 /\ ObservedTo = i - 1
    BY <1>2 DEF GrantedTo, StartedTo, ObservedTo
  <1>12. \A c \in Calls : decided[c] \in RefusingDecision => c = i
    <2>1. ASSUME NEW c \in Calls, decided[c] \in RefusingDecision PROVE c = i
      BY <1>2, <1>10, <2>1, NoRefusals DEF Refused
    <2>2. QED
      BY <2>1
  <1>13. \A e \in i .. calls : perms[e].status = "none" /\ e \notin executed
    <2>1. \A e \in i .. calls : e \in Calls
      BY <1>9 DEF Calls
    <2>2. \A e \in i .. calls : e > GrantedTo /\ ~(e <= StartedTo)
      BY <1>9, <1>11
    <2>3. QED
      BY <1>9, <2>1, <2>2 DEF Entry
  <1>14. CASE Running(r)
    <2>1. Finish(r, perms, active, decided)
      BY <1>3, <1>14 DEF Return
    <2>2. Settles(decided, r.completionStatus)
      <3>1. ASSUME NEW c \in Calls
            PROVE  /\ c \in requests <=> decided[c] # "none"
                   /\ perms[c].status # "none" <=> decided[c] \in GrantingDecision
                   /\ c \in acted <=> decided[c] \in GrantingDecision
                   /\ receipts[c] # "none" <=> c \in observed
                   /\ c \in observed => c \in acted
                   /\ ~(c \in executed /\ receipts[c] = "none")
                   /\ receipts[c] = "success" => c \in executed
        <4>1. CASE c = i
          <5>1. c > GrantedTo /\ c > ObservedTo /\ ~(c <= StartedTo) /\ c <= i
            BY <1>9, <1>11, <4>1
          <5>2. d \notin GrantingDecision /\ d # "none"
            BY DEF GrantingDecision, RefusingDecision
          <5>3. QED
            BY <1>9, <1>10, <1>11, <4>1, <5>1, <5>2 DEF Entry
        <4>2. CASE c < i
          <5>1. c <= GrantedTo /\ c <= ObservedTo /\ ~(c > ObservedTo) /\ ~(c > GrantedTo) /\ c <= i
            BY <1>9, <1>11, <4>2
          <5>2. Granted(c) /\ decided[c] = decisions[c]
            BY <1>9, <1>10, <4>2, <5>1 DEF Entry
          <5>3. QED
            BY <1>9, <5>1, <5>2 DEF Entry, Granted, GrantingDecision
        <4>3. CASE c > i
          <5>1. c > GrantedTo /\ c > ObservedTo /\ ~(c <= StartedTo) /\ ~(c <= i)
                /\ ~(c <= GrantedTo) /\ ~(c <= ObservedTo)
            BY <1>9, <1>11, <4>3
          <5>2. decided[c] = "none"
            BY <1>9, <1>10, <4>3, <5>1 DEF Entry
          <5>3. QED
            BY <1>9, <5>1, <5>2 DEF Entry, GrantingDecision
        <4>4. QED
          BY <1>9, <4>1, <4>2, <4>3
      <3>2. QED
        BY <3>1 DEF Settles
    <2>3. \A c \in Calls : decided[c] \in RefusingDecision =>
            /\ \A e \in c .. calls : perms[e].status = "none" /\ e \notin executed
            /\ r.completionStatus = IF decided[c] = "denied" THEN "denied"
                                    ELSE "escalation_timeout"
      BY <1>1, <1>8, <1>10, <1>12, <1>13, <1>14
    <2>4. r.completionStatus \notin {"running", "succeeded"}
      BY <1>8, <1>14
    <2>5. QED
      BY <1>2, <1>3, <1>7, <2>1, <2>2, <2>3, <2>4, FinishLedger
  <1>15. CASE ~Running(r)
    <2>1. pc' = "thrown" /\ envelope' = envelope /\ perms' = perms
      BY <1>3, <1>15 DEF Return, Continue
    <2>2. pc' \notin Points /\ pc' \in Ended
      BY <2>1, PointKinds DEF Ended
    <2>3. ~envelope'.sealed
      BY <1>2, <2>1 DEF LInv, IInv, SealInv
    <2>4. RefusalIsFinal'
      <3>1. \A c \in Calls : Refused(c)' => c = i
        BY <1>3, <1>12 DEF Refused
      <3>2. calls' = calls /\ executed' = executed
        BY <1>3 DEF toolVars
      <3>3. QED
        BY <1>13, <2>1, <2>2, <2>3, <3>1, <3>2 DEF RefusalIsFinal
    <2>5. QED
      BY <2>2, <2>3, <2>4
         DEF LInv, LoopInv, StatusInv, EndInv, EnvelopeAccountsAgree, SuccessIsComplete
  <1>16. QED
    BY <1>14, <1>15

LEMMA DelegateLedger ==
  ASSUME LInv, IInv', Delegate
  PROVE  LInv'
  <1> DEFINE delegated == Transition(RecordStep(run), "delegate_narrow")
             executing == Transition(RecordStep(delegated), "execute_tool")
             charged   == RecordToolCall(executing)
  <1>1. PICK d \in GrantingDecision, oneShot \in BOOLEAN :
          /\ decisions' = [decisions EXCEPT ![i] = d]
          /\ perms' = IF Running(delegated) THEN Grant(perms, i, now, TTL, oneShot)
                      ELSE perms
          /\ acted' = IF Running(executing) THEN acted \cup {i} ELSE acted
          /\ Continue(charged, "dispatch")
    BY DEF Delegate
  <1>2. pc = "evaluate" /\ pc \in Points /\ "dispatch" \in Points
    BY PointKinds DEF Delegate, CallPoints
  <1>3. Honest(delegated) /\ Honest(executing) /\ Honest(charged)
    BY <1>2, SuspendedRun, OpenPhases, StepHonest, ChargesHonest
  <1>4. Running(charged) => Running(executing)
    BY DEF RecordToolCall, Record
  <1>5. Running(executing) => Running(delegated)
    <2>1. RecordStep(delegated) \in RunRecord
      BY <1>3, ChargesHonest DEF Honest
    <2>2. ~Running(delegated) => RecordStep(delegated) = delegated
      BY DEF RecordStep, Record
    <2>3. QED
      BY <2>1, <2>2, PhasesUsed, TransitionCases
  <1> HIDE DEF delegated, executing, charged
  <1>6. /\ i \in Calls /\ i \in Int /\ calls \in 0 .. MaxCalls /\ i \in 0 .. calls
        /\ decisions \in [Calls -> DecisionStatus \cup {"none"}] /\ perms \in GrantTable
        /\ \A c \in Calls : Entry(c) /\ c \in Int
    <2>1. i \in Calls
      BY <1>2 DEF LInv, IInv, CallInv
    <2>2. QED
      BY <1>2, <2>1 DEF LInv, LoopInv, IInv, TypeOK, Calls, GrantTable
  <1>7. UNCHANGED <<calls, i, requests, executed, toolResult, observed, receipts, now>>
    BY DEF Delegate
  <1>8. decisions'[i] = d /\ \A c \in Calls : c # i => decisions'[c] = decisions[c]
    BY <1>1, <1>6
  <1>9. \A c \in Calls : ~Refused(c)'
    <2>1. ASSUME NEW c \in Calls PROVE decisions'[c] \notin RefusingDecision
      <3>1. CASE c = i
        BY <1>8, <3>1 DEF GrantingDecision, RefusingDecision
      <3>2. CASE c # i
        BY <1>2, <1>8, <3>2, NoRefusals DEF Refused
      <3>3. QED
        BY <3>1, <3>2
    <2>2. QED
      BY <2>1 DEF Refused
  <1>10. ASSUME Running(charged) PROVE LoopInv'
    <2>1. pc' = "dispatch" /\ acted' = acted \cup {i}
          /\ perms' = Grant(perms, i, now, TTL, oneShot)
      BY <1>1, <1>4, <1>5, <1>10 DEF Continue
    <2>2. perms'[i].status = "active" /\ \A c \in Calls : c # i => perms'[c] = perms[c]
      BY <1>6, <2>1 DEF Grant, GrantTable
    <2>3. /\ GrantedTo = i - 1 /\ StartedTo = i - 1 /\ ObservedTo = i - 1
          /\ GrantedTo' = i /\ StartedTo' = i - 1 /\ ObservedTo' = i - 1
      BY <1>2, <1>7, <2>1 DEF GrantedTo, StartedTo, ObservedTo
    <2>4. ASSUME NEW c \in Calls PROVE Entry(c)'
      <3>1. Entry(c) /\ c \in Int
        BY <1>6
      <3>2. CASE c = i
        BY <1>6, <1>7, <1>8, <2>1, <2>2, <2>3, <3>1, <3>2 DEF Entry, Granted
      <3>3. CASE c # i
        BY <1>6, <1>7, <1>8, <2>1, <2>2, <2>3, <3>1, <3>3 DEF Entry, Granted
      <3>4. QED
        BY <3>2, <3>3
    <2>5. i' >= 1
      BY <1>6, <1>7 DEF Calls
    <2>6. QED
      BY <1>6, <1>7, <2>1, <2>4, <2>5
         DEF LoopInv, Answered, Planning, Finalizing
  <1>11. QED
    BY <1>1, <1>2, <1>3, <1>9, <1>10, ContinueLedger

LEMMA ObserveLedger ==
  ASSUME LInv, IInv', Observe
  PROVE  LInv'
  <1> DEFINE r == Transition(RecordStep(run), "critique_verify")
  <1>1. pc = "observe_consult" /\ pc \in Points /\ "critique_consult" \in Points
    BY PointKinds DEF Observe, CallPoints, Started, Critiquing
  <1>2. Honest(r)
    BY <1>1, SuspendedRun, OpenPhases, StepHonest
  <1> HIDE DEF r
  <1>3. /\ Continue(r, "critique_consult")
        /\ observed' = observed \cup {i} /\ receipts' = [receipts EXCEPT ![i] = toolResult]
        /\ UNCHANGED <<calls, i, requests, decisions, perms, acted, executed>>
    BY DEF Observe, r
  <1>4. \A c \in Calls : ~Refused(c)'
    BY <1>1, <1>3, NoRefusals DEF Refused
  <1>5. ASSUME Running(r) PROVE LoopInv'
    <2>1. pc' = "critique_consult"
      BY <1>3, <1>5 DEF Continue
    <2>2. /\ i \in Calls /\ calls \in 0 .. MaxCalls /\ i \in 0 .. calls /\ i >= 1
          /\ receipts \in [Calls -> ReceiptStatus] /\ Answered
          /\ \A c \in Calls : Entry(c) /\ c \in Int
      <3>1. i \in Calls
        BY <1>1 DEF LInv, IInv, CallInv, GrantedPoints
      <3>2. QED
        BY <1>1, <3>1 DEF LInv, LoopInv, IInv, TypeOK, Calls, CallPoints, Started
    <2>3. /\ GrantedTo = i /\ StartedTo = i /\ ObservedTo = i - 1
          /\ GrantedTo' = i /\ StartedTo' = i /\ ObservedTo' = i
      BY <1>1, <1>3, <2>1 DEF GrantedTo, StartedTo, ObservedTo, Started
    <2>4. toolResult # "none" /\ (toolResult = "success" => i \in executed)
      BY <1>1, <2>2 DEF Answered
    <2>5. ASSUME NEW c \in Calls PROVE Entry(c)'
      <3>1. Entry(c) /\ c \in Int /\ i \in Int
        BY <2>2
      <3>2. CASE c = i
        BY <1>3, <2>2, <2>3, <2>4, <3>1, <3>2 DEF Entry, Granted
      <3>3. CASE c # i
        <4>1. receipts'[c] = receipts[c]
          BY <1>3, <2>2, <3>3
        <4>2. QED
          BY <1>3, <2>3, <3>1, <3>3, <4>1 DEF Entry, Granted
      <3>4. QED
        BY <3>2, <3>3
    <2>6. QED
      BY <1>3, <2>1, <2>2, <2>5 DEF LoopInv, Answered, Planning, Finalizing
  <1>6. QED
    BY <1>1, <1>2, <1>3, <1>4, <1>5, ContinueLedger

(* The registry: at most the handler of call i is started.                 *)
LEMMA RegistryLedger ==
  ASSUME LInv, IInv', RejectCall \/ RefuseAuthority \/ StartHandler \/ HandlerEnds
  PROVE  LInv'
  <1>1. /\ pc \in {"dispatch", "running"} /\ pc' \in {"running", "result"}
        /\ pc = "running" => pc' = "result"
        /\ pc' = "result" => toolResult' # "none" /\ executed' = executed
        /\ (pc' = "result" /\ toolResult' = "success") => pc = "running"
        /\ pc' = "running" => executed' = executed \cup {i}
        /\ UNCHANGED <<run, calls, i, requests, decisions, acted, observed, receipts, envelope>>
        /\ perms' \in {perms, CheckExpiry(perms, now)}
    BY DEF RejectCall, RefuseAuthority, StartHandler, HandlerEnds
  <1>2. pc \in Points /\ pc' \in Points
    BY <1>1, PointKinds DEF CallPoints, Started
  <1>3. \A c \in Calls : perms'[c].status = "none" <=> perms[c].status = "none"
    <2>1. perms \in GrantTable
      BY DEF LInv, IInv, TypeOK, GrantTable
    <2>2. QED
      BY <1>1, <2>1, CheckExpiryGrants DEF SameGrants
  <1>4. /\ i \in Int /\ calls \in 0 .. MaxCalls /\ i \in 0 .. calls /\ i >= 1
        /\ i \in Calls /\ Answered
        /\ \A c \in Calls : Entry(c) /\ c \in Int
    <2>1. i \in Calls
      BY <1>1 DEF LInv, IInv, CallInv, GrantedPoints, RegistryPoints
    <2>2. QED
      BY <1>1, <1>2, <2>1 DEF LInv, LoopInv, Calls, CallPoints, Started
  <1>5. /\ GrantedTo = i /\ GrantedTo' = i /\ ObservedTo = i - 1 /\ ObservedTo' = i - 1
        /\ StartedTo <= i /\ StartedTo \in Int /\ StartedTo' = i
    BY <1>1, <1>4 DEF GrantedTo, ObservedTo, StartedTo, Started
  <1>6. ASSUME NEW c \in Calls PROVE Entry(c)'
    <2>1. Entry(c) /\ c \in Int
      BY <1>4
    <2>2. c \in executed' => c \in executed \/ c = i
      BY <1>1
    <2>3. c \in executed => c \in executed'
      BY <1>1
    <2>4. QED
      BY <1>1, <1>3, <1>4, <1>5, <2>1, <2>2, <2>3 DEF Entry, Granted
  <1>7. Answered'
    BY <1>1, <1>4 DEF Answered
  <1>8. LoopInv'
    BY <1>1, <1>4, <1>6, <1>7 DEF LoopInv, Planning, CallPoints, Finalizing
  <1>9. StatusInv'
    BY <1>1, <1>2 DEF LInv, StatusInv
  <1>10. EndInv'
    <2>1. ~envelope'.sealed
      BY <1>1, <1>2 DEF LInv, IInv, SealInv
    <2>2. \A c \in Calls : ~Refused(c)'
      BY <1>1, <1>2, NoRefusals DEF Refused
    <2>3. QED
      BY <2>1, <2>2 DEF EndInv, EnvelopeAccountsAgree, SuccessIsComplete, RefusalIsFinal
  <1>11. QED
    BY <1>8, <1>9, <1>10 DEF LInv

LEMMA ToolReturnedLedger ==
  ASSUME LInv, IInv', ToolReturned
  PROVE  LInv'
  <1> DEFINE r == Transition(run, "observe_result")
  <1>1. pc = "result" /\ pc \in Points /\ "observe_consult" \in Points
    BY PointKinds DEF ToolReturned, CallPoints, Started
  <1>2. Honest(r)
    BY <1>1, SuspendedRun, OpenPhases, TransitionHonest
  <1> HIDE DEF r
  <1>3. /\ Continue(r, "observe_consult")
        /\ UNCHANGED <<calls, i, requests, decisions, toolVars, now>>
        /\ perms' \in {perms, Consume(perms, i, now)}
    BY DEF ToolReturned, r
  <1>4. \A c \in Calls : ~Refused(c)'
    BY <1>1, <1>3, NoRefusals DEF Refused
  <1>5. \A c \in Calls : perms'[c].status = "none" <=> perms[c].status = "none"
    <2>1. perms \in GrantTable /\ i \in Calls
      BY <1>1 DEF LInv, IInv, TypeOK, GrantTable, CallInv, GrantedPoints, RegistryPoints
    <2>2. QED
      BY <1>3, <2>1, ConsumeGrants DEF SameGrants
  <1>6. ASSUME Running(r) PROVE LoopInv'
    <2>1. pc' = "observe_consult"
      BY <1>3, <1>6 DEF Continue
    <2>2. UNCHANGED <<calls, i, requests, decisions, acted, executed, observed, receipts>>
      BY <1>3 DEF toolVars
    <2>3. GrantedTo' = GrantedTo /\ StartedTo' = StartedTo /\ ObservedTo' = ObservedTo
      BY <1>1, <2>1, <2>2 DEF GrantedTo, StartedTo, ObservedTo, Started
    <2>4. StartedTo \in Int
      BY <1>1 DEF LInv, LoopInv, StartedTo
    <2>5. StartedTo <= StartedTo'
      BY <2>3, <2>4
    <2>6. Answered'
      BY <1>1, <1>3, <2>1 DEF LInv, LoopInv, Answered, toolVars
    <2>7. pc' \in Points /\ pc' \notin Planning /\ pc' \notin Finalizing
          /\ pc \in CallPoints
      BY <1>1, <2>1 DEF Planning, Finalizing, CallPoints, Started
    <2>8. QED
      BY <1>1, <1>5, <2>2, <2>3, <2>5, <2>6, <2>7, QuietLoop
  <1>7. QED
    BY <1>1, <1>2, <1>3, <1>4, <1>6, ContinueLedger

(* The run that gets to the end seals a success.                           *)
LEMMA FinalizeLedger ==
  ASSUME LInv, IInv', Finalize
  PROVE  LInv'
  <1>1. PICK x \in LLMResults(run) :
          ~Halted(x) /\ Return(Transition(x, "audit_seal"), decisions)
    BY DEF Finalize
  <1> DEFINE r == Transition(x, "audit_seal")
  <1>2. pc = "finalize_llm" /\ pc \in Points /\ pc # "evaluate" /\ pc \notin Started
    BY PointKinds DEF Finalize, Finalizing, Started
  <1>3. /\ UNCHANGED <<calls, i, requests, decisions, toolVars, now>>
        /\ Return(r, decisions)
    BY <1>1 DEF Finalize
  <1>4. Honest(x) /\ Sound(x) /\ Running(x) /\ x \in RunRecord
        /\ x.completionStatus = "running"
    BY <1>1, <1>2, SuspendedRun DEF Honest
  <1>5. /\ r \in RunRecord /\ r.max = x.max /\ r.remaining = x.remaining
        /\ r.enforcement = x.enforcement
        /\ Running(r) => r.completionStatus = "succeeded"
    BY <1>4, PhasesUsed, TransitionCases, TransitionStatus
  <1> HIDE DEF r
  <1>6. HardBudget(r) => ~IsExhausted(r)
    BY <1>1, <1>4, <1>5 DEF HardBudget, IsExhausted, Sound, Guarded
  <1>7. CASE Running(r)
    <2>1. Finish(r, perms, active, decisions)
      BY <1>3, <1>7 DEF Return
    <2>2. Settles(decisions, r.completionStatus)
      BY <1>2, LedgerSettles
    <2>3. \A c \in 1 .. calls : /\ decisions[c] \in GrantingDecision
                                /\ c \in observed /\ receipts[c] # "none"
      <3>1. /\ i = calls /\ calls \in 0 .. MaxCalls /\ MaxCalls \in Nat
            /\ \A c \in Calls : Entry(c)
        BY <1>2, GovernedAssumption DEF LInv, LoopInv, Finalizing
      <3>2. GrantedTo = i /\ ObservedTo = i
        BY <1>2 DEF GrantedTo, ObservedTo, Started
      <3>3. \A c \in 1 .. calls : /\ c \in Calls /\ c <= GrantedTo /\ c <= ObservedTo
                                  /\ ~(c > ObservedTo)
        BY <3>1, <3>2 DEF Calls
      <3>4. QED
        BY <3>1, <3>3 DEF Entry, Granted
    <2>4. \A c \in Calls : ~(decisions[c] \in RefusingDecision)
      BY <1>2, NoRefusals DEF Refused
    <2>5. QED
      BY <1>2, <1>3, <1>5, <1>6, <1>7, <2>1, <2>2, <2>3, <2>4, FinishLedger
  <1>8. CASE ~Running(r)
    <2>1. Continue(r, pc)
      BY <1>3, <1>8 DEF Return, Continue
    <2>2. \A c \in Calls : ~Refused(c)'
      BY <1>2, <1>3, NoRefusals DEF Refused
    <2>3. QED
      BY <1>2, <1>8, <2>1, <2>2, ContinueLedger
  <1>9. QED
    BY <1>7, <1>8

LEMMA NextLInv == LInv /\ [Next]_vars => LInv'
  <1> SUFFICES ASSUME LInv, [Next]_vars PROVE LInv'
    OBVIOUS
  <1>i. IInv'
    BY NextIInv DEF LInv
  <1>1. CASE Receive
    <2> DEFINE r == Transition(RecordStep(run), "frame")
    <2>1. pc \in Planning /\ "frame_consult" \in Planning /\ pc \in Points
      BY <1>1, PointKinds DEF Receive, Planning
    <2>2. Honest(r)
      BY <2>1, SuspendedRun, OpenPhases, StepHonest
    <2> HIDE DEF r
    <2>3. /\ Continue(r, "frame_consult")
          /\ UNCHANGED <<calls, i, requests, decisions, perms, active, toolVars, now>>
      BY <1>1 DEF Receive, r
    <2>4. QED
      BY <1>i, <2>1, <2>2, <2>3, PointKinds, PhaseStepLedger
  <1>2. CASE ConsultAllowed
    <2>1. /\ pc \in Points /\ pc' \in Points /\ pc # "receive"
          /\ \/ pc \in Planning /\ pc' \in Planning
             \/ pc \in Critiquing /\ pc' \in Critiquing
             \/ pc \in Finalizing /\ pc' \in Finalizing
          /\ UNCHANGED <<run, calls, i, requests, decisions, perms, active, toolVars, envelope, now>>
      BY <1>2, PointKinds DEF ConsultAllowed, Planning, CallPoints, Critiquing, Finalizing
    <2>2. Continue(run, pc')
      BY <2>1, SuspendedRun DEF Continue
    <2>3. \A c \in Calls : ~Refused(c)'
      BY <2>1, NoRefusals DEF Refused
    <2>4. LoopInv'
      <3>1. UNCHANGED <<calls, i, requests, decisions, acted, executed, observed, receipts>>
        BY <2>1 DEF toolVars
      <3>2. GrantedTo' = GrantedTo /\ StartedTo' = StartedTo /\ ObservedTo' = ObservedTo
        BY <2>1, <3>1
           DEF GrantedTo, StartedTo, ObservedTo, Planning, Critiquing, Finalizing, Started
      <3>3. StartedTo \in Int /\ (pc \in Finalizing => i = calls)
        BY <2>1 DEF LInv, LoopInv, StartedTo
      <3>4. StartedTo <= StartedTo'
        BY <3>2, <3>3
      <3>5. /\ Answered'
            /\ pc' \in Planning => pc \in Planning
            /\ pc' \in CallPoints => pc \in CallPoints
            /\ pc' \in Finalizing => i = calls
        BY <2>1, <3>3 DEF Answered, Planning, CallPoints, Started, Critiquing, Finalizing
      <3>6. QED
        BY <2>1, <3>1, <3>2, <3>4, <3>5, QuietLoop
    <2>5. QED
      BY <1>i, <2>1, <2>2, <2>3, <2>4, SuspendedRun, ContinueLedger
  <1>3. CASE ConsultDenied
    <2>1. pc \in Points /\ pc # "evaluate" /\ "denied" \in StopStatus
      BY <1>3 DEF ConsultDenied, Points, ConsultPoints, StopStatus, CompletionStatus
    <2>2. /\ Honest(ForceStop(run, "denied")) /\ Halted(ForceStop(run, "denied"))
          /\ ForceStop(run, "denied").completionStatus = "denied"
      BY <2>1, SuspendedRun, ForceStopHonest
    <2>3. QED
      BY <1>i, <1>3, <2>1, <2>2, StopLedger DEF ConsultDenied
  <1>4. CASE PolicyEngineThrows
    <2>1. /\ pc \in Points /\ pc' = "thrown" /\ envelope' = envelope
          /\ decisions' = decisions
      BY <1>4 DEF PolicyEngineThrows, Continue, Points, ConsultPoints
    <2>2. pc' \notin Points /\ ~envelope'.sealed
      BY <2>1, PointKinds DEF LInv, IInv, SealInv
    <2>3. \A c \in Calls : ~Refused(c)'
      BY <2>1, NoRefusals DEF Refused
    <2>4. QED
      BY <1>i, <2>2, <2>3
         DEF LInv, LoopInv, StatusInv, EndInv, EnvelopeAccountsAgree, SuccessIsComplete,
             RefusalIsFinal
  <1>5. CASE LLMHalts
    <2>1. pc \in Points /\ pc # "evaluate" /\ pc \notin Started
      BY <1>5 DEF LLMHalts, Points, Started
    <2>2. PICK r \in LLMResults(run) : Halted(r) /\ FinishNow(r)
      BY <1>5 DEF LLMHalts
    <2>3. QED
      BY <1>i, <1>5, <2>1, <2>2, SuspendedRun, StopLedger DEF LLMHalts
  <1>6. CASE Frame
    <2>1. pc \in Points /\ pc \in Planning /\ "plan_consult" \in Planning
      BY <1>6 DEF Frame, Points, Planning
    <2>2. PICK x \in LLMResults(run) :
            Continue(Transition(RecordStep(x), "plan"), "plan_consult")
      BY <1>6 DEF Frame
    <2>3. Honest(Transition(RecordStep(x), "plan"))
      BY <2>1, SuspendedRun, OpenPhases, StepHonest
    <2>4. QED
      BY <1>i, <1>6, <2>1, <2>2, <2>3, PointKinds, PhaseStepLedger DEF Frame
  <1>7. CASE PlanWithoutTools
    <2>1. pc \in Points /\ pc \in Planning /\ "finalize_consult" \in Finalizing
      BY <1>7 DEF PlanWithoutTools, Points, Planning, Finalizing
    <2>2. PICK x \in LLMResults(run) :
            Continue(Transition(RecordStep(x), "finalize"), "finalize_consult")
      BY <1>7 DEF PlanWithoutTools
    <2>3. Honest(Transition(RecordStep(x), "finalize"))
      BY <2>1, SuspendedRun, OpenPhases, StepHonest
    <2>4. QED
      BY <1>i, <1>7, <2>1, <2>2, <2>3, PointKinds, PhaseStepLedger DEF PlanWithoutTools
  <1>8. CASE PlanWithTools
    <2>1. pc \in Points /\ pc \in Planning
      BY <1>8 DEF PlanWithTools, Points, Planning
    <2>2. PICK n \in Calls, x \in LLMResults(run) :
            /\ calls' = n
            /\ RequestAuthority(Transition(RecordStep(x), "request_authority"), 1)
      BY <1>8 DEF PlanWithTools
    <2> DEFINE r == Transition(RecordStep(x), "request_authority")
    <2>3. Honest(r)
      BY <2>1, SuspendedRun, OpenPhases, StepHonest
    <2> HIDE DEF r
    <2>4. /\ 1 \in Calls /\ 1 = i + 1 /\ calls' \in 0 .. MaxCalls /\ 1 <= calls'
      <3>1. i = 0
        BY <2>1 DEF LInv, LoopInv
      <3>2. QED
        BY <2>2, <3>1, GovernedAssumption DEF Calls
    <2>5. UNCHANGED <<decisions, perms, acted, executed, observed, receipts>>
      BY <1>8 DEF PlanWithTools, toolVars
    <2>6. RequestAuthority(r, 1) /\ r \in RunRecord /\ pc \in Planning \cup Critiquing
      BY <2>1, <2>2, <2>3 DEF r, Honest
    <2>7. QED
      BY <1>i, <2>3, <2>4, <2>5, <2>6, RequestLedger
  <1>9. CASE Refuse
    BY <1>i, <1>9, RefuseLedger
  <1>10. CASE Delegate
    BY <1>i, <1>10, DelegateLedger
  <1>11. CASE MaterializeFails
    <2>1. /\ pc = "evaluate" /\ pc \in Points /\ pc' = "thrown" /\ envelope' = envelope
          /\ decisions' = [decisions EXCEPT ![i] = "unrecognised"]
      BY <1>11 DEF MaterializeFails, Continue, Points
    <2>2. pc' \notin Points /\ ~envelope'.sealed
      BY <2>1, PointKinds DEF LInv, IInv, SealInv
    <2>3. \A c \in Calls : ~Refused(c)'
      <3>1. /\ decisions \in [Calls -> DecisionStatus \cup {"none"}]
            /\ \A c \in Calls : ~Refused(c)
        BY <2>1, NoRefusals DEF LInv, IInv, TypeOK
      <3>2. QED
        BY <2>1, <3>1 DEF Refused, RefusingDecision
    <2>4. QED
      BY <1>i, <2>2, <2>3
         DEF LInv, LoopInv, StatusInv, EndInv, EnvelopeAccountsAgree, SuccessIsComplete,
             RefusalIsFinal
  <1>12. CASE RejectCall \/ RefuseAuthority \/ StartHandler \/ HandlerEnds
    BY <1>i, <1>12, RegistryLedger
  <1>13. CASE RegistryThrows
    <2>1. /\ pc \in Points /\ pc # "evaluate" /\ pc \notin Started
          /\ "fail_safe" \in StopStatus
      BY <1>13 DEF RegistryThrows, Points, Started, StopStatus, CompletionStatus
    <2>2. Honest(ForceStop(run, "fail_safe")) /\ Halted(ForceStop(run, "fail_safe"))
      BY <2>1, SuspendedRun, ForceStopHonest
    <2>3. QED
      BY <1>i, <1>13, <2>1, <2>2, StopLedger DEF RegistryThrows
  <1>14. CASE ToolReturned
    BY <1>i, <1>14, ToolReturnedLedger
  <1>15. CASE Observe
    BY <1>i, <1>15, ObserveLedger
  <1>16. CASE CritiqueThenNextCall
    <2>1. pc \in Points /\ pc \in Critiquing /\ i < calls
      BY <1>16 DEF CritiqueThenNextCall, Points, Critiquing
    <2>2. PICK x \in LLMResults(run) :
            RequestAuthority(Transition(RecordStep(Transition(RecordStep(x), "plan")),
                                        "request_authority"), i + 1)
      BY <1>16 DEF CritiqueThenNextCall
    <2> DEFINE r == Transition(RecordStep(Transition(RecordStep(x), "plan")),
                               "request_authority")
    <2>3. Honest(r)
      BY <2>1, SuspendedRun, OpenPhases, StepHonest
    <2> HIDE DEF r
    <2>4. calls' = calls /\ UNCHANGED <<decisions, perms, acted, executed, observed, receipts>>
      BY <1>16 DEF CritiqueThenNextCall
    <2>5. i + 1 \in Calls /\ calls' \in 0 .. MaxCalls /\ i + 1 <= calls'
      <3>1. i \in 0 .. calls /\ calls \in 0 .. MaxCalls /\ MaxCalls \in Nat
        BY <2>1, GovernedAssumption DEF LInv, LoopInv
      <3>2. QED
        BY <2>1, <2>4, <3>1 DEF Calls
    <2>6. RequestAuthority(r, i + 1) /\ r \in RunRecord /\ pc \in Planning \cup Critiquing
      BY <2>1, <2>2, <2>3 DEF r, Honest
    <2>7. QED
      BY <1>i, <2>3, <2>4, <2>5, <2>6, RequestLedger
  <1>17. CASE CritiqueThenStop
    <2>1. pc \in Points /\ pc # "evaluate" /\ pc \notin Started
      BY <1>17 DEF CritiqueThenStop, Points, Started
    <2>2. PICK x \in LLMResults(run) : Halted(RecordStep(x)) /\ FinishNow(RecordStep(x))
      BY <1>17 DEF CritiqueThenStop
    <2>3. Honest(RecordStep(x))
      BY <2>1, SuspendedRun, ChargesHonest
    <2>4. QED
      BY <1>i, <1>17, <2>1, <2>2, <2>3, StopLedger DEF CritiqueThenStop
  <1>18. CASE CritiqueThenFinalize
    <2>1. pc \in Points /\ pc \in Critiquing /\ i = calls /\ "finalize_consult" \in Finalizing
      BY <1>18 DEF CritiqueThenFinalize, Points, Critiquing, Finalizing
    <2>2. PICK x \in LLMResults(run) :
            Continue(Transition(RecordStep(x), "finalize"), "finalize_consult")
      BY <1>18 DEF CritiqueThenFinalize
    <2>3. Honest(Transition(RecordStep(x), "finalize"))
      BY <2>1, SuspendedRun, OpenPhases, StepHonest
    <2>4. QED
      BY <1>i, <1>18, <2>1, <2>2, <2>3, PointKinds, PhaseStepLedger DEF CritiqueThenFinalize
  <1>19. CASE Finalize
    BY <1>i, <1>19, FinalizeLedger
  <1>20. CASE Tick \/ UNCHANGED vars
    <2>1. UNCHANGED <<pc, run, calls, i, requests, decisions, perms, active, toolVars, envelope>>
      BY <1>20 DEF Tick, vars, toolVars
    <2>2. LoopInv'
      BY <2>1 DEF LInv, LoopInv, Answered, Entry, GrantedTo, StartedTo, ObservedTo, Granted,
                  toolVars
    <2>3. StatusInv' /\ EndInv'
      BY <2>1 DEF LInv, StatusInv, EndInv, EnvelopeAccountsAgree, SuccessIsComplete,
                  RefusalIsFinal, Granted, Refused, HardBudget, IsExhausted, toolVars
    <2>4. QED
      BY <1>i, <2>2, <2>3 DEF LInv
  <1>21. QED
    BY <1>1, <1>2, <1>3, <1>4, <1>5, <1>6, <1>7, <1>8, <1>9, <1>10, <1>11, <1>12, <1>13,
       <1>14, <1>15, <1>16, <1>17, <1>18, <1>19, <1>20 DEF Next, RunStep, Terminated

LEMMA AlwaysLInv == Spec => []LInv
  BY InitLInv, NextLInv, PTL DEF Spec

(* The lists of a sealed envelope agree: EnvelopeAccountsAgree.            *)
THEOREM AccountsTheorem == Spec => []EnvelopeAccountsAgree
  BY AlwaysLInv, PTL DEF LInv, EndInv

(* A success went through everything the plan asked for, to a receipt for  *)
(* every call: SuccessIsComplete.                                          *)
THEOREM SuccessTheorem == Spec => []SuccessIsComplete
  BY AlwaysLInv, PTL DEF LInv, EndInv

(* A refused call ends the run with that refusal: RefusalIsFinal.          *)
THEOREM RefusalTheorem == Spec => []RefusalIsFinal
  BY AlwaysLInv, PTL DEF LInv, EndInv
-----------------------------------------------------------------------------
(* What a step may do to the permissions: bring none into being.           *)
LEMMA SettlingGrants ==
  ASSUME LInv, pc \in Points,
         \/ perms' \in {perms, CheckExpiry(perms, now), RevokeAll(perms, now)}
         \/ i \in Calls /\ perms' = Consume(perms, i, now)
  PROVE  \A c \in Calls : perms'[c].status = "none" <=> perms[c].status = "none"
  <1>1. perms \in GrantTable
    BY DEF LInv, IInv, TypeOK, GrantTable
  <1>2. QED
    BY <1>1, CheckExpiryGrants, RevokeAllGrants, ConsumeGrants DEF SameGrants

LEMMA FinishNowGrants ==
  ASSUME NEW r, NEW decided, Finish(r, perms, active, decided)
  PROVE  perms' = RevokeAll(perms, now) /\ pc' = "returned" /\ envelope'.sealed
  BY DEF Finish, Seal

(* A stopped run takes no authority and does not resume:                   *)
(* StoppedRunTakesNoAuthority (governed-pipeline.ts:337-400).              *)
THEOREM StopTheorem == Spec => StoppedRunTakesNoAuthority
  <1> DEFINE Taken == Halted(run) =>
         /\ requests' = requests /\ decisions' = decisions
         /\ acted' = acted /\ observed' = observed /\ receipts' = receipts
         /\ \A c \in Calls : perms[c].status = "none" => perms'[c].status = "none"
         /\ Halted(run')
  <1>1. LInv /\ [Next]_vars => [Taken]_vars
    <2> SUFFICES ASSUME LInv, Next, ~(UNCHANGED vars), Halted(run)
                 PROVE  /\ requests' = requests /\ decisions' = decisions
                        /\ acted' = acted /\ observed' = observed /\ receipts' = receipts
                        /\ \A c \in Calls : perms[c].status = "none" => perms'[c].status = "none"
                        /\ Halted(run')
      OBVIOUS
    <2>1. pc \notin Points \/ pc \in RegistryPoints
      BY DEF LInv, IInv, PointInv
    <2>2. RejectCall \/ RefuseAuthority \/ StartHandler \/ HandlerEnds \/ RegistryThrows
            \/ ToolReturned \/ Tick
      <3>1. \/ pc \notin Ended /\ pc \in RegistryPoints
            \/ pc \in Ended
        BY <2>1 DEF LInv, IInv, TypeOK, RegistryPoints, Ended
      <3>2. QED
        BY <3>1
           DEF Next, RunStep, Terminated, RegistryPoints, Ended, ConsultPoints, Receive,
               ConsultAllowed, ConsultDenied, PolicyEngineThrows, LLMHalts, Frame,
               PlanWithoutTools, PlanWithTools, Refuse, Delegate, MaterializeFails, Observe,
               CritiqueThenNextCall, CritiqueThenStop, CritiqueThenFinalize, Finalize
    <2>3. /\ pc \in RegistryPoints \/ (perms' = perms /\ run' = run)
          /\ UNCHANGED <<requests, decisions, acted, observed, receipts>>
      BY <2>2 DEF RejectCall, RefuseAuthority, StartHandler, HandlerEnds, RegistryThrows,
                  ToolReturned, Tick, toolVars, RegistryPoints
    <2>4. CASE perms' = perms /\ run' = run
      BY <2>3, <2>4
    <2>5. CASE pc \in RegistryPoints
      <3>1. pc \in Points /\ i \in Calls
        BY <2>5 DEF LInv, IInv, CallInv, GrantedPoints, RegistryPoints, Points
      <3>2. /\ \/ perms' \in {perms, CheckExpiry(perms, now), RevokeAll(perms, now)}
               \/ perms' = Consume(perms, i, now)
            /\ \/ run' = run
               \/ run' = Transition(run, "observe_result")
               \/ run' = FinalizeTrace(ForceStop(run, "fail_safe"))
        BY <2>2 DEF RejectCall, RefuseAuthority, StartHandler, HandlerEnds, RegistryThrows,
                    ToolReturned, Tick, Continue, FinishNow, Finish
      <3>3. Halted(run')
        <4>1. Running(run) /\ run \in RunRecord
          BY <3>1, SuspendedRun
        <4>2. Halted(Transition(run, "observe_result"))
          BY <4>1 DEF Transition, RunRecord, Halted
        <4>3. Halted(FinalizeTrace(ForceStop(run, "fail_safe")))
          <5>1. ForceStop(run, "fail_safe") \in RunRecord /\ Halted(ForceStop(run, "fail_safe"))
            BY <4>1, ForceStopFields DEF CompletionStatus
          <5>2. QED
            BY <5>1 DEF FinalizeTrace, RunRecord, Halted
        <4>4. QED
          BY <3>2, <4>2, <4>3
      <3>4. QED
        BY <2>3, <3>1, <3>2, <3>3, SettlingGrants
    <2>6. QED
      BY <2>3, <2>4, <2>5
  <1>2. QED
    BY <1>1, AlwaysLInv, PTL DEF Spec, StoppedRunTakesNoAuthority
-----------------------------------------------------------------------------
(***************************************************************************)
(* The refinement of GovernedRun.  The accounts give the stage of every    *)
(* call at every await, and a step of the pipeline moves at most one of    *)
(* them.                                                                   *)
(***************************************************************************)
LEMMA StageAt ==
  ASSUME LInv, pc \in Points, NEW c \in Calls
  PROVE  /\ c <= ObservedTo => StageOf(c) = "receipted"
         /\ c > i => StageOf(c) = "idle"
         /\ c = i => /\ pc = "evaluate" => StageOf(c) = "requested"
                     /\ pc = "dispatch" => StageOf(c) = "granted"
                     /\ pc = "running"  => StageOf(c) = "executed"
                     /\ pc \in {"result", "observe_consult"} =>
                          StageOf(c) \in {"granted", "executed"}
  <1>1. /\ c \in Int /\ i \in Int /\ Entry(c) /\ ~Refused(c) /\ Answered
    BY NoRefusals DEF Calls, LInv, LoopInv
  <1>2. /\ ObservedTo \in {i - 1, i} /\ StartedTo \in {i - 1, i} /\ GrantedTo \in {i - 1, i}
        /\ pc = "evaluate" => GrantedTo = i - 1
        /\ pc # "evaluate" => GrantedTo = i
        /\ pc \in {"evaluate", "dispatch"} => StartedTo = i - 1
        /\ pc \in {"evaluate", "dispatch", "running", "result", "observe_consult"} =>
             ObservedTo = i - 1
    BY DEF ObservedTo, StartedTo, GrantedTo, Started
  <1>3. c <= ObservedTo => StageOf(c) = "receipted"
    BY <1>1, <1>2 DEF Entry, StageOf
  <1>4. c > i => StageOf(c) = "idle"
    <2>1. SUFFICES ASSUME c > i PROVE StageOf(c) = "idle"
      OBVIOUS
    <2>2. c > ObservedTo /\ c > GrantedTo /\ ~(c <= StartedTo) /\ ~(c <= i)
      BY <1>1, <1>2, <2>1
    <2>3. receipts[c] = "none" /\ c \notin executed /\ perms[c].status = "none"
          /\ c \notin requests
      BY <1>1, <2>2 DEF Entry
    <2>4. QED
      BY <1>1, <2>3 DEF StageOf
  <1>5. ASSUME c = i, pc = "evaluate" PROVE StageOf(c) = "requested"
    <2>1. c > ObservedTo /\ c > GrantedTo /\ ~(c <= StartedTo) /\ c <= i
      BY <1>1, <1>2, <1>5
    <2>2. receipts[c] = "none" /\ c \notin executed /\ perms[c].status = "none"
          /\ c \in requests
      BY <1>1, <2>1 DEF Entry
    <2>3. QED
      BY <1>1, <2>2 DEF StageOf
  <1>6. ASSUME c = i, pc \in {"dispatch", "running", "result", "observe_consult"}
        PROVE  /\ StageOf(c) = IF c \in executed THEN "executed" ELSE "granted"
               /\ pc = "dispatch" => c \notin executed
    <2>1. c > ObservedTo /\ ~(c > GrantedTo) /\ (pc = "dispatch" => ~(c <= StartedTo))
      BY <1>1, <1>2, <1>6
    <2>2. receipts[c] = "none" /\ perms[c].status # "none"
          /\ (pc = "dispatch" => c \notin executed)
      BY <1>1, <2>1 DEF Entry
    <2>3. QED
      BY <1>1, <2>2 DEF StageOf
  <1>7. pc = "running" => i \in executed
    BY <1>1 DEF Answered
  <1>8. QED
    BY <1>3, <1>4, <1>5, <1>6, <1>7

LEMMA StageStays ==
  ASSUME NEW c \in Calls,
         c \in requests' <=> c \in requests, c \in executed' <=> c \in executed,
         receipts'[c] = "none" <=> receipts[c] = "none",
         perms'[c].status = "none" <=> perms[c].status = "none",
         Refused(c)' <=> Refused(c)
  PROVE  StageOf(c)' = StageOf(c)
  BY DEF StageOf

(* A step that moves no call: the run goes on, or ends.                    *)
LEMMA NoCallMoves ==
  ASSUME LInv, LInv', pc \in Points,
         \A c \in Calls : StageOf(c)' = StageOf(c),
         pc' = "returned" => envelope'.sealed /\ calls' = calls
  PROVE  Promise!GNext \/ UNCHANGED Promise!gvars
  <1>1. OutcomeOf = "running"
    BY PointKinds DEF OutcomeOf
  <1>2. [c \in Calls |-> StageOf(c)]' = [c \in Calls |-> StageOf(c)]
    OBVIOUS
  <1>3. OutcomeOf' \in {"running", "stopped", "thrown", "succeeded"}
        /\ (OutcomeOf' = "succeeded" =>
              pc' = "returned" /\ envelope'.completion = "succeeded")
    BY DEF OutcomeOf
  <1>4. CASE OutcomeOf' = "running"
    BY <1>1, <1>2, <1>4 DEF Promise!gvars
  <1>5. CASE OutcomeOf' \in {"stopped", "thrown"}
    BY <1>1, <1>2, <1>5 DEF Promise!GNext, Promise!Stop
  <1>6. CASE OutcomeOf' = "succeeded"
    <2>1. /\ calls' = calls /\ calls \in 0 .. MaxCalls /\ i \in 0 .. calls
          /\ \A c \in 1 .. calls : receipts'[c] # "none"
      BY <1>3, <1>6 DEF LInv, LoopInv, EndInv, SuccessIsComplete
    <2>2. ASSUME NEW c \in Calls PROVE StageOf(c) \in {"idle", "receipted"}
      <3>1. CASE c \in 1 .. calls
        <4>1. ~Refused(c)'
          <5>1. envelope'.sealed /\ envelope'.completion = "succeeded"
            BY <1>3, <1>6
          <5>2. QED
            BY <5>1 DEF LInv, EndInv, RefusalIsFinal
        <4>2. perms'[c].status # "none"
          <5>1. Granted(c)'
            BY <1>3, <1>6, <2>1, <3>1 DEF LInv, EndInv, SuccessIsComplete
          <5>2. QED
            BY <1>3, <1>6, <5>1 DEF LInv, IInv, GrantInv
        <4>3. StageOf(c)' = "receipted"
          BY <2>1, <3>1, <4>1, <4>2 DEF StageOf
        <4>4. QED
          BY <4>3
      <3>2. CASE c \notin 1 .. calls
        <4>1. c > i
          BY <2>1, <3>2 DEF Calls
        <4>2. QED
          BY <4>1, StageAt
      <3>3. QED
        BY <3>1, <3>2
    <2>3. Promise!Settled
      BY <2>2 DEF Promise!Settled
    <2>4. QED
      BY <1>1, <1>2, <1>6, <2>3 DEF Promise!GNext, Promise!Succeed
  <1>7. QED
    BY <1>3, <1>4, <1>5, <1>6

(* A step that leaves the accounts of all calls alone.                     *)
LEMMA QuietMaps ==
  ASSUME LInv, LInv', pc \in Points,
         UNCHANGED <<calls, requests, executed, receipts>>,
         \A c \in Calls : perms'[c].status = "none" <=> perms[c].status = "none",
         \A c \in Calls : Refused(c)' <=> Refused(c),
         pc' = "returned" => envelope'.sealed
  PROVE  Promise!GNext \/ UNCHANGED Promise!gvars
  <1>1. \A c \in Calls : StageOf(c)' = StageOf(c)
    BY StageStays
  <1>2. QED
    BY <1>1, NoCallMoves

(* A step that moves call c, and no other one.                             *)
LEMMA CallMoves ==
  ASSUME NEW c \in Calls, NEW from, NEW to, OutcomeOf = "running",
         StageOf(c) \in from, StageOf(c)' = to,
         \A e \in Calls : e # c => StageOf(e)' = StageOf(e),
         OutcomeOf' \in {"running", "thrown"}
  PROVE  Promise!Move(c, from, to)
  BY DEF Promise!Move

LEMMA QuietSteps ==
  ASSUME LInv, LInv',
         \/ Receive \/ ConsultAllowed \/ ConsultDenied \/ PolicyEngineThrows \/ LLMHalts
         \/ Frame \/ PlanWithoutTools \/ MaterializeFails \/ RejectCall \/ RefuseAuthority
         \/ HandlerEnds \/ RegistryThrows \/ ToolReturned
         \/ CritiqueThenStop \/ CritiqueThenFinalize \/ Finalize
  PROVE  Promise!GNext \/ UNCHANGED Promise!gvars
  <1>1. pc \in Points /\ UNCHANGED <<calls, requests, executed>>
        /\ receipts' = receipts
    BY DEF Receive, ConsultAllowed, ConsultDenied, PolicyEngineThrows, LLMHalts, Frame,
           PlanWithoutTools, MaterializeFails, RejectCall, RefuseAuthority, HandlerEnds,
           RegistryThrows, ToolReturned, CritiqueThenStop, CritiqueThenFinalize, Finalize,
           Points, ConsultPoints, toolVars
  <1>2. CASE MaterializeFails
    <2>1. /\ pc' = "thrown" /\ perms' = perms
          /\ decisions' = [decisions EXCEPT ![i] = "unrecognised"]
      BY <1>2 DEF MaterializeFails, Continue
    <2>2. \A c \in Calls : Refused(c)' <=> Refused(c)
      <3>1. decisions \in [Calls -> DecisionStatus \cup {"none"}] /\ \A c \in Calls : ~Refused(c)
        BY <1>1, NoRefusals DEF LInv, IInv, TypeOK
      <3>2. QED
        BY <2>1, <3>1 DEF Refused, RefusingDecision
    <2>3. QED
      BY <1>1, <2>1, <2>2, QuietMaps
  <1>3. CASE \/ Receive \/ ConsultAllowed \/ PolicyEngineThrows \/ Frame \/ PlanWithoutTools
             \/ RejectCall \/ RefuseAuthority \/ HandlerEnds \/ CritiqueThenFinalize
    <2>1. /\ perms' \in {perms, CheckExpiry(perms, now)} /\ decisions' = decisions
          /\ pc' # "returned"
      BY <1>3 DEF Receive, ConsultAllowed, PolicyEngineThrows, Frame, PlanWithoutTools,
                  RejectCall, RefuseAuthority, HandlerEnds, CritiqueThenFinalize, Continue
    <2>2. QED
      BY <1>1, <2>1, SettlingGrants, QuietMaps DEF Refused
  <1>4. CASE ToolReturned
    <2>1. i \in Calls
      BY <1>4 DEF LInv, IInv, CallInv, ToolReturned, GrantedPoints, RegistryPoints
    <2>2. /\ perms' \in {perms, Consume(perms, i, now)} /\ decisions' = decisions
          /\ pc' # "returned"
      BY <1>4 DEF ToolReturned, Continue
    <2>3. \A c \in Calls : perms'[c].status = "none" <=> perms[c].status = "none"
      BY <1>1, <2>1, <2>2, SettlingGrants
    <2>4. QED
      BY <1>1, <2>2, <2>3, QuietMaps DEF Refused
  <1>5. CASE ConsultDenied \/ LLMHalts \/ RegistryThrows \/ CritiqueThenStop \/ Finalize
    <2>1. /\ decisions' = decisions
          /\ \/ \E r : Finish(r, perms, active, decisions)
             \/ pc' = "thrown" /\ perms' = perms
      BY <1>5 DEF ConsultDenied, LLMHalts, RegistryThrows, CritiqueThenStop, Finalize,
                  FinishNow, Return, Continue
    <2>2. \/ perms' = RevokeAll(perms, now) /\ envelope'.sealed
          \/ perms' = perms /\ pc' = "thrown"
      BY <2>1, FinishNowGrants
    <2>3. QED
      BY <1>1, <2>1, <2>2, SettlingGrants, QuietMaps DEF Refused
  <1>6. QED
    BY <1>2, <1>3, <1>4, <1>5

LEMMA RequestMaps ==
  ASSUME LInv, LInv', PlanWithTools \/ CritiqueThenNextCall
  PROVE  Promise!GNext \/ UNCHANGED Promise!gvars
  <1>1. /\ pc \in Planning \cup Critiquing /\ pc \in Points
        /\ pc' \in {"evaluate", "thrown"} /\ i' = i + 1 /\ i' \in Calls
        /\ requests' \in {requests, requests \cup {i'}}
        /\ UNCHANGED <<decisions, perms, executed, receipts>>
    <2>1. CASE PlanWithTools
      <3>1. i = 0
        BY <2>1, PointKinds DEF LInv, LoopInv, PlanWithTools, Planning
      <3>2. \E n \in Calls : 1 \in Calls
        BY <2>1, GovernedAssumption DEF PlanWithTools, Calls
      <3>3. QED
        BY <2>1, <3>1, <3>2, PointKinds
           DEF PlanWithTools, RequestAuthority, Continue, Planning, toolVars
    <2>2. CASE CritiqueThenNextCall
      <3>1. pc = "critique_llm" /\ pc \in Points /\ i < calls
        BY <2>2 DEF CritiqueThenNextCall, Points
      <3>2. i + 1 \in Calls
        BY <3>1, GovernedAssumption DEF LInv, LoopInv, Calls
      <3>3. QED
        BY <2>2, <3>1, <3>2 DEF CritiqueThenNextCall, RequestAuthority, Continue, Critiquing
    <2>3. QED
      BY <2>1, <2>2
  <1>2. \A c \in Calls : Refused(c)' <=> Refused(c)
    BY <1>1 DEF Refused
  <1>3. \A e \in Calls : e # i' => StageOf(e)' = StageOf(e)
    <2>1. ASSUME NEW e \in Calls, e # i' PROVE StageOf(e)' = StageOf(e)
      <3>1. e \in requests' <=> e \in requests
        BY <1>1, <2>1
      <3>2. QED
        BY <1>1, <1>2, <3>1, StageStays
    <2>2. QED
      BY <2>1
  <1>4. CASE requests' = requests
    <2>1. \A c \in Calls : StageOf(c)' = StageOf(c)
      BY <1>1, <1>2, <1>4, StageStays
    <2>2. QED
      BY <1>1, <2>1, NoCallMoves
  <1>5. CASE requests' = requests \cup {i'}
    <2>1. i \in Int /\ ObservedTo = i /\ \A c \in Calls : c \in Int
      BY <1>1 DEF LInv, LoopInv, ObservedTo, Planning, Critiquing, Started, Calls
    <2>2. \A c \in Calls : c < i' => StageOf(c) = "receipted"
      <3>1. \A c \in Calls : c < i' => c <= ObservedTo
        BY <1>1, <2>1
      <3>2. QED
        BY <1>1, <3>1, StageAt
    <2>3. StageOf(i') = "idle"
      <3>1. i' > i
        BY <1>1, <2>1
      <3>2. QED
        BY <1>1, <3>1, StageAt
    <2>4. ASSUME NEW c \in Calls, c = i' PROVE StageOf(c)' = "requested"
      <3>1. /\ Entry(c) /\ c \in Int /\ c > i /\ c > GrantedTo /\ c > ObservedTo
            /\ ~(c <= StartedTo)
        BY <1>1, <2>1, <2>4 DEF LInv, LoopInv, GrantedTo, StartedTo, ObservedTo
      <3>2. receipts[c] = "none" /\ c \notin executed /\ perms[c].status = "none"
            /\ ~Refused(c)
        BY <1>1, <3>1, NoRefusals DEF Entry
      <3>3. ~Refused(c)'
        BY <1>2, <3>2
      <3>4. QED
        BY <1>1, <1>5, <2>4, <3>2, <3>3 DEF StageOf
    <2>5. OutcomeOf = "running" /\ OutcomeOf' \in {"running", "thrown"}
      BY <1>1, PointKinds DEF OutcomeOf
    <2>6. ASSUME NEW c \in Calls, c = i' PROVE Promise!Request(c)
      <3>1. StageOf(c) = "idle" /\ StageOf(c)' = "requested"
        BY <2>3, <2>4, <2>6
      <3>2. \A e \in Calls : e # c => StageOf(e)' = StageOf(e)
        BY <1>3, <2>6
      <3>3. Promise!Move(c, {"idle"}, "requested")
        BY <2>5, <3>1, <3>2, CallMoves
      <3>4. \A d \in Calls : d < c => StageOf(d) = "receipted"
        BY <2>2, <2>6
      <3>5. QED
        BY <3>3, <3>4 DEF Promise!Request
    <2>7. \E c \in Calls : Promise!Request(c)
      BY <1>1, <2>6
    <2>8. QED
      BY <2>7 DEF Promise!GNext
  <1>6. QED
    BY <1>1, <1>4, <1>5

LEMMA RefuseMaps ==
  ASSUME LInv, LInv', Refuse
  PROVE  Promise!GNext
  <1>1. PICK d \in RefusingDecision : decisions' = [decisions EXCEPT ![i] = d]
    BY DEF Refuse
  <1>2. /\ pc = "evaluate" /\ pc \in Points
        /\ UNCHANGED <<calls, i, requests, executed, receipts>>
    BY PointKinds DEF Refuse, CallPoints, toolVars
  <1>3. /\ pc' \in {"returned", "thrown"} /\ (pc' = "returned" => envelope'.sealed)
        /\ perms' \in {perms, RevokeAll(perms, now)}
    <2>1. \/ \E r, decided : Finish(r, perms, active, decided)
          \/ pc' = "thrown" /\ perms' = perms
      BY DEF Refuse, Return, Continue
    <2>2. QED
      BY <2>1, FinishNowGrants
  <1>4. i \in Calls /\ decisions \in [Calls -> DecisionStatus \cup {"none"}]
    BY <1>2 DEF LInv, IInv, CallInv, TypeOK
  <1>5. decisions'[i] = d /\ \A c \in Calls : c # i => decisions'[c] = decisions[c]
    BY <1>1, <1>4
  <1>6. \A c \in Calls : perms'[c].status = "none" <=> perms[c].status = "none"
    BY <1>2, <1>3, SettlingGrants
  <1>7. \A c \in Calls : c # i => StageOf(c)' = StageOf(c)
    BY <1>2, <1>5, <1>6, StageStays DEF Refused
  <1>8. StageOf(i) = "requested" /\ OutcomeOf = "running"
    BY <1>2, <1>4, StageAt DEF OutcomeOf
  <1>9. StageOf(i)' = "refused"
    <2>1. receipts[i] = "none" /\ i \notin executed /\ perms[i].status = "none"
      <3>1. Entry(i) /\ i \in Int /\ GrantedTo = i - 1 /\ StartedTo = i - 1 /\ ObservedTo = i - 1
        BY <1>2, <1>4 DEF LInv, LoopInv, GrantedTo, StartedTo, ObservedTo
      <3>2. i > GrantedTo /\ ~(i <= StartedTo) /\ i > ObservedTo
        BY <3>1
      <3>3. QED
        BY <3>1, <3>2 DEF Entry
    <2>2. Refused(i)' /\ perms'[i].status = "none"
      BY <1>2, <1>4, <1>5, <1>6, <2>1 DEF Refused
    <2>3. QED
      BY <1>2, <2>1, <2>2 DEF StageOf
  <1>10. OutcomeOf' \in {"stopped", "thrown"}
    <2>1. Refused(i)'
      BY <1>2, <1>5 DEF Refused
    <2>2. pc' = "returned" => envelope'.completion # "succeeded"
      <3>1. i' \in Calls
        BY <1>2, <1>4
      <3>2. QED
        BY <1>2, <1>3, <2>1, <3>1 DEF LInv, EndInv, RefusalIsFinal, Refused
    <2>3. QED
      BY <1>3, <2>2 DEF OutcomeOf
  <1>11. Promise!Refuse(i)
    BY <1>2, <1>4, <1>7, <1>8, <1>9, <1>10 DEF Promise!Refuse
  <1>12. QED
    BY <1>4, <1>11 DEF Promise!GNext

LEMMA DelegateMaps ==
  ASSUME LInv, LInv', Delegate
  PROVE  Promise!GNext \/ UNCHANGED Promise!gvars
  <1> DEFINE delegated == Transition(RecordStep(run), "delegate_narrow")
  <1>1. PICK d \in GrantingDecision, oneShot \in BOOLEAN :
          /\ decisions' = [decisions EXCEPT ![i] = d]
          /\ perms' = IF Running(delegated) THEN Grant(perms, i, now, TTL, oneShot)
                      ELSE perms
    BY DEF Delegate
  <1> HIDE DEF delegated
  <1>2. /\ pc = "evaluate" /\ pc \in Points /\ pc' \in {"dispatch", "thrown"}
        /\ UNCHANGED <<calls, i, requests, executed, receipts>>
    BY PointKinds DEF Delegate, CallPoints, Continue
  <1>3. /\ i \in Calls /\ decisions \in [Calls -> DecisionStatus \cup {"none"}]
        /\ perms \in GrantTable
    BY <1>2 DEF LInv, IInv, CallInv, TypeOK, GrantTable
  <1>4. decisions'[i] = d /\ \A c \in Calls : c # i => decisions'[c] = decisions[c]
    BY <1>1, <1>3
  <1>5. \A c \in Calls : Refused(c)' <=> Refused(c)
    <2>1. ~Refused(i) /\ ~(d \in RefusingDecision)
      BY <1>2, <1>3, NoRefusals DEF GrantingDecision, RefusingDecision
    <2>2. QED
      BY <1>4, <2>1 DEF Refused
  <1>6. CASE perms' = perms
    BY <1>2, <1>5, <1>6, QuietMaps
  <1>7. CASE perms' = Grant(perms, i, now, TTL, oneShot)
    <2>1. perms'[i].status = "active" /\ \A c \in Calls : c # i => perms'[c] = perms[c]
      BY <1>3, <1>7 DEF Grant, GrantTable
    <2>2. \A c \in Calls : c # i => StageOf(c)' = StageOf(c)
      BY <1>2, <1>5, <2>1, StageStays
    <2>3. StageOf(i) = "requested" /\ OutcomeOf = "running" /\ OutcomeOf' \in {"running", "thrown"}
      BY <1>2, <1>3, StageAt DEF OutcomeOf
    <2>4. StageOf(i)' = "granted"
      <3>1. receipts[i] = "none" /\ i \notin executed
        <4>1. Entry(i) /\ i \in Int /\ StartedTo = i - 1 /\ ObservedTo = i - 1
          BY <1>2, <1>3 DEF LInv, LoopInv, StartedTo, ObservedTo
        <4>2. ~(i <= StartedTo) /\ i > ObservedTo
          BY <4>1
        <4>3. QED
          BY <4>1, <4>2 DEF Entry
      <3>2. ~Refused(i)'
        BY <1>2, <1>3, <1>4 DEF Refused, GrantingDecision, RefusingDecision
      <3>3. QED
        BY <1>2, <2>1, <3>1, <3>2 DEF StageOf
    <2>5. Promise!Move(i, {"requested"}, "granted")
      BY <1>2, <1>3, <2>2, <2>3, <2>4, CallMoves
    <2>6. QED
      BY <1>3, <2>5 DEF Promise!Grant, Promise!GNext
  <1>8. QED
    BY <1>1, <1>6, <1>7

LEMMA StartMaps ==
  ASSUME LInv, LInv', StartHandler
  PROVE  Promise!GNext
  <1>1. /\ pc = "dispatch" /\ pc \in Points /\ pc' = "running"
        /\ executed' = executed \cup {i} /\ perms' = CheckExpiry(perms, now)
        /\ UNCHANGED <<calls, i, requests, decisions, receipts>>
    BY PointKinds DEF StartHandler, CallPoints
  <1>2. i \in Calls
    BY <1>1 DEF LInv, IInv, CallInv, GrantedPoints, RegistryPoints
  <1>3. \A c \in Calls : perms'[c].status = "none" <=> perms[c].status = "none"
    BY <1>1, SettlingGrants
  <1>4. \A c \in Calls : c # i => StageOf(c)' = StageOf(c)
    BY <1>1, <1>3, StageStays DEF Refused
  <1>5. StageOf(i) = "granted" /\ OutcomeOf = "running" /\ OutcomeOf' = "running"
    BY <1>1, <1>2, StageAt DEF OutcomeOf
  <1>6. StageOf(i)' = "executed"
    <2>1. receipts[i] = "none" /\ perms'[i].status # "none"
      <3>1. Entry(i) /\ i \in Int /\ ObservedTo = i - 1 /\ GrantedTo = i
        BY <1>1, <1>2 DEF LInv, LoopInv, ObservedTo, GrantedTo
      <3>2. i > ObservedTo /\ ~(i > GrantedTo)
        BY <3>1
      <3>3. QED
        BY <1>2, <1>3, <3>1, <3>2 DEF Entry
    <2>2. ~Refused(i)'
      BY <1>1, <1>2, NoRefusals DEF Refused
    <2>3. QED
      BY <1>1, <2>1, <2>2 DEF StageOf
  <1>7. Promise!Move(i, {"granted"}, "executed")
    BY <1>1, <1>2, <1>4, <1>5, <1>6, CallMoves
  <1>8. QED
    BY <1>2, <1>7 DEF Promise!Execute, Promise!GNext

LEMMA ObserveMaps ==
  ASSUME LInv, LInv', Observe
  PROVE  Promise!GNext
  <1>1. /\ pc = "observe_consult" /\ pc \in Points /\ pc' \in {"critique_consult", "thrown"}
        /\ receipts' = [receipts EXCEPT ![i] = toolResult]
        /\ UNCHANGED <<calls, i, requests, decisions, perms, executed>>
    BY PointKinds DEF Observe, CallPoints, Started, Continue
  <1>2. i \in Calls /\ receipts \in [Calls -> ReceiptStatus] /\ toolResult # "none"
    BY <1>1 DEF LInv, LoopInv, Answered, IInv, TypeOK, CallInv, GrantedPoints
  <1>3. receipts'[i] = toolResult /\ \A c \in Calls : c # i => receipts'[c] = receipts[c]
    BY <1>1, <1>2
  <1>4. \A c \in Calls : c # i => StageOf(c)' = StageOf(c)
    BY <1>1, <1>3, StageStays DEF Refused
  <1>5. /\ StageOf(i) \in {"granted", "executed"} /\ OutcomeOf = "running"
        /\ OutcomeOf' \in {"running", "thrown"}
    BY <1>1, <1>2, StageAt DEF OutcomeOf
  <1>6. StageOf(i)' = "receipted"
    <2>1. ~Refused(i)'
      BY <1>1, <1>2, NoRefusals DEF Refused
    <2>2. perms[i].status # "none"
      <3>1. Entry(i) /\ i \in Int /\ ~(i > GrantedTo)
        BY <1>1, <1>2 DEF LInv, LoopInv, GrantedTo
      <3>2. QED
        BY <3>1 DEF Entry
    <2>3. QED
      BY <1>1, <1>2, <1>3, <2>1, <2>2 DEF StageOf
  <1>7. Promise!Move(i, {"granted", "executed"}, "receipted")
    BY <1>1, <1>2, <1>4, <1>5, <1>6, CallMoves
  <1>8. QED
    BY <1>2, <1>7 DEF Promise!Receipt, Promise!GNext

(* The pipeline implements GovernedRun: KeepsThePromise                    *)
(* (governed-pipeline.ts:61-476).                                          *)
THEOREM PromiseTheorem == Spec => KeepsThePromise
  <1>1. Init => Promise!GInit
    <2> SUFFICES ASSUME Init PROVE Promise!GInit
      OBVIOUS
    <2>1. ASSUME NEW c \in Calls PROVE StageOf(c) = "idle"
      BY DEF Init, StageOf, Refused, RefusingDecision, NoGrant
    <2>2. OutcomeOf = "running"
      BY DEF Init, OutcomeOf
    <2>3. QED
      BY <2>1, <2>2 DEF Promise!GInit
  <1>2. LInv /\ LInv' /\ [Next]_vars => [Promise!GNext]_(Promise!gvars)
    <2> SUFFICES ASSUME LInv, LInv', [Next]_vars
                 PROVE  Promise!GNext \/ UNCHANGED Promise!gvars
      OBVIOUS
    <2>1. CASE Tick \/ UNCHANGED vars
      <3>1. UNCHANGED <<pc, requests, decisions, perms, executed, receipts, envelope>>
        BY <2>1 DEF Tick, vars, toolVars
      <3>2. QED
        BY <3>1 DEF Promise!gvars, StageOf, OutcomeOf, Refused
    <2>2. CASE PlanWithTools \/ CritiqueThenNextCall
      BY <2>2, RequestMaps
    <2>3. CASE Refuse
      BY <2>3, RefuseMaps
    <2>4. CASE Delegate
      BY <2>4, DelegateMaps
    <2>5. CASE StartHandler
      BY <2>5, StartMaps
    <2>6. CASE Observe
      BY <2>6, ObserveMaps
    <2>7. CASE \/ Receive \/ ConsultAllowed \/ ConsultDenied \/ PolicyEngineThrows \/ LLMHalts
               \/ Frame \/ PlanWithoutTools \/ MaterializeFails \/ RejectCall \/ RefuseAuthority
               \/ HandlerEnds \/ RegistryThrows \/ ToolReturned
               \/ CritiqueThenStop \/ CritiqueThenFinalize \/ Finalize
      BY <2>7, QuietSteps
    <2>8. QED
      BY <2>1, <2>2, <2>3, <2>4, <2>5, <2>6, <2>7 DEF Next, RunStep, Terminated
  <1>3. QED
    BY <1>1, <1>2, AlwaysLInv, PTL DEF Spec, KeepsThePromise, Promise!GSpec
=============================================================================
