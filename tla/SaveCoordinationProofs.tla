----------------------- MODULE SaveCoordinationProofs -----------------------
(* The invariants of the lifecycle gate, and that it keeps the promise of  *)
(* MutationGate; then that a host save that the gate let in reads only the *)
(* baseline: for every number of nested saves and of generations.          *)
EXTENDS SaveCoordination, TLAPS

\* What dispatch reports is a well-formed result that tells the new state.
LEMMA ReportIsCurrent ==
  ASSUME NEW status \in {"Applied", "Rejected"}, NEW diagnostic \in DiagnosticCode,
         state \in State, state' \in State, generation' \in Nat,
         Result(status, diagnostic)
  PROVE  result' \in TransitionResult /\ ResultIsCurrent'
<1>1. productMutationPermitted' \in BOOLEAN
  BY Zenon DEF productMutationPermitted
<1>2. result' \in TransitionResult
  BY <1>1, Zenon DEF Result, TransitionResult
<1>3. ResultIsCurrent'
  BY Zenon DEF Result, ResultIsCurrent
<1> QED BY <1>2, <1>3

\* A freshly constructed gate satisfies the inductive invariant.
LEMMA InitEstablishesIInv == Init => IInv
<1> SUFFICES ASSUME Init PROVE IInv
  OBVIOUS
<1>1. state \in State /\ generation \in 0..MaxGeneration /\ saveDepth \in 0..MaxDepth
  BY BoundsAssumption DEF Init, State
<1>2. result \in TransitionResult
  BY <1>1, Zenon DEF Init, TransitionResult, DiagnosticCode
<1>3. (state = "Active") = FALSE
  BY DEF Init
<1>4. ResultIsCurrent
  BY <1>3, Zenon DEF Init, ResultIsCurrent, productMutationPermitted
<1>5. DepthMatchesState /\ NoPartialSaveEntry
  BY DEF Init, DepthMatchesState, NoPartialSaveEntry
<1> QED BY <1>1, <1>2, <1>4, <1>5 DEF IInv, TypeOK

\* The part of the invariant that is about the members of the gate.
Members ==
  /\ state \in State
  /\ generation \in 0..MaxGeneration
  /\ saveDepth \in 0..MaxDepth
  /\ DepthMatchesState
  /\ NoPartialSaveEntry

\* A step that reports its result keeps the invariant if it keeps the members'.
LEMMA ReportKeepsIInv ==
  ASSUME NEW status \in {"Applied", "Rejected"}, NEW diagnostic \in DiagnosticCode,
         IInv, Members', Result(status, diagnostic)
  PROVE  IInv'
<1>1. state \in State /\ state' \in State /\ generation' \in Nat
  BY DEF IInv, TypeOK, Members
<1> QED BY <1>1, ReportIsCurrent DEF IInv, TypeOK, Members

\* A rejected event leaves the gate as it was, whatever its reason.
LEMMA RejectionKeepsIInv ==
  ASSUME IInv, NEW diagnostic \in DiagnosticCode, Rejected(diagnostic)
  PROVE  IInv'
<1>1. Members'
  BY DEF IInv, TypeOK, Members, DepthMatchesState, NoPartialSaveEntry, Rejected, gate
<1> QED BY <1>1, ReportKeepsIInv DEF Rejected

\* An applied event keeps the invariant if it keeps the members'.
LEMMA ApplicationKeepsIInv ==
  ASSUME IInv, Members', Applied PROVE IInv'
BY ReportKeepsIInv DEF Applied, DiagnosticCode

\* Every event keeps the inductive invariant, applied or rejected.
LEMMA DispatchKeepsIInv == IInv /\ [dispatch]_vars => IInv'
<1> SUFFICES ASSUME IInv, [dispatch]_vars PROVE IInv'
  OBVIOUS
<1>m. Members
  BY DEF IInv, TypeOK, Members
<1>d. /\ "InvalidEventForState" \in DiagnosticCode
      /\ "BaselineRestorationNotAcknowledged" \in DiagnosticCode
  BY DEF DiagnosticCode
<1>1. ASSUME NEW from \in {"InactiveBootstrap", "ReapplyPending"},
             EnterActiveFrom(from)
      PROVE  IInv'
  <2>1. CASE state = from
    <3>1. Members'
      BY <1>1, <2>1, <1>m, BoundsAssumption
         DEF EnterActiveFrom, Members, State, DepthMatchesState, NoPartialSaveEntry
    <3> QED BY <1>1, <2>1, <3>1, ApplicationKeepsIInv DEF EnterActiveFrom
  <2>2. CASE state # from
    BY <1>1, <2>2, <1>d, RejectionKeepsIInv DEF EnterActiveFrom
  <2> QED BY <2>1, <2>2
<1>2. ASSUME NEW acknowledged \in BOOLEAN, BeginSave(acknowledged) PROVE IInv'
  <2>1. CASE state = "SaveInProgress" \/ (state = "Active" /\ acknowledged)
    <3>1. Members' /\ Applied
      BY <1>2, <2>1, <1>m, BoundsAssumption
         DEF BeginSave, Members, State, DepthMatchesState, NoPartialSaveEntry
    <3> QED BY <3>1, ApplicationKeepsIInv
  <2>2. CASE ~(state = "SaveInProgress" \/ (state = "Active" /\ acknowledged))
    <3>1. \E diagnostic \in DiagnosticCode : Rejected(diagnostic)
      BY <1>2, <2>2, <1>d DEF BeginSave
    <3> QED BY <3>1, RejectionKeepsIInv
  <2> QED BY <2>1, <2>2
<1>3. CASE SaveOutcome
  <2>1. CASE state = "SaveInProgress"
    <3>1. Members' /\ Applied
      BY <1>3, <2>1, <1>m, BoundsAssumption
         DEF SaveOutcome, Members, State, DepthMatchesState, NoPartialSaveEntry
    <3> QED BY <3>1, ApplicationKeepsIInv
  <2>2. CASE state # "SaveInProgress"
    BY <1>3, <2>2, <1>d, RejectionKeepsIInv DEF SaveOutcome
  <2> QED BY <2>1, <2>2
<1>4. ASSUME NEW acknowledged \in BOOLEAN, NEW final \in {"Shutdown", "Failed"},
             Leave(acknowledged, final)
      PROVE  IInv'
  <2>1. CASE state \in Unacknowledged \/ (state = "Active" /\ acknowledged)
    <3>1. Members' /\ Applied
      BY <1>4, <2>1, <1>m, BoundsAssumption
         DEF Leave, Unacknowledged, Members, State, DepthMatchesState,
             NoPartialSaveEntry
    <3> QED BY <3>1, ApplicationKeepsIInv
  <2>2. CASE ~(state \in Unacknowledged \/ (state = "Active" /\ acknowledged))
    <3>1. \E diagnostic \in DiagnosticCode : Rejected(diagnostic)
      BY <1>4, <2>2, <1>d DEF Leave
    <3> QED BY <3>1, RejectionKeepsIInv
  <2> QED BY <2>1, <2>2
<1>5. CASE CompleteShutdown
  <2>1. CASE state = "Shutdown"
    <3>1. Members' /\ Applied
      BY <1>5, <2>1, <1>m
         DEF CompleteShutdown, Members, State, DepthMatchesState, NoPartialSaveEntry
    <3> QED BY <3>1, ApplicationKeepsIInv
  <2>2. CASE state # "Shutdown"
    BY <1>5, <2>2, <1>d, RejectionKeepsIInv DEF CompleteShutdown
  <2> QED BY <2>1, <2>2
<1>6. CASE UNCHANGED vars
  BY <1>6, Zenon
     DEF vars, IInv, TypeOK, DepthMatchesState, NoPartialSaveEntry,
         ResultIsCurrent, productMutationPermitted
<1> QED
  BY <1>1, <1>2, <1>3, <1>4, <1>5, <1>6
     DEF dispatch, Activate, ReapplyAtVerifiedBarrier, RequestShutdown, Interrupt

\* The members of the gate and its reported results stay in range, and the
\* save depth is positive exactly in SaveInProgress, in every execution.
THEOREM GateInvariant == Spec => []IInv
<1> QED BY InitEstablishesIInv, DispatchKeepsIInv, PTL DEF Spec

THEOREM GateTypeCorrect == Spec => []TypeOK
<1>1. IInv => TypeOK
  BY DEF IInv
<1> QED BY <1>1, GateInvariant, PTL

THEOREM GateDepthMatchesState == Spec => []DepthMatchesState
<1>1. IInv => DepthMatchesState
  BY DEF IInv
<1> QED BY <1>1, GateInvariant, PTL

-----------------------------------------------------------------------------
\* Each applied event is a step of the promise and each rejected one none: the
\* permission is granted only in a new generation and over no unresolved save,
\* and never again once the gate has been shut down or interrupted.
LEMMA InitKeepsPromise == Init => Promise!Init
  BY DEF Init, Promise!Init, productMutationPermitted

LEMMA DispatchKeepsPromise ==
  IInv /\ [dispatch]_vars => [Promise!Next]_(Promise!vars)
<1> SUFFICES ASSUME IInv, [dispatch]_vars PROVE [Promise!Next]_(Promise!vars)
  OBVIOUS
<1> USE DEF productMutationPermitted, Promise!Next, Promise!vars
<1>m. /\ state \in State /\ saveDepth \in Nat
      /\ saveDepth > 0 <=> state = "SaveInProgress"
  BY BoundsAssumption DEF IInv, TypeOK, DepthMatchesState
<1>r. ASSUME NEW diagnostic, Rejected(diagnostic) PROVE UNCHANGED Promise!vars
  BY <1>r DEF Rejected, gate
<1>1. ASSUME NEW from \in {"InactiveBootstrap", "ReapplyPending"},
             EnterActiveFrom(from)
      PROVE  [Promise!Next]_(Promise!vars)
  BY <1>1, <1>m, <1>r DEF EnterActiveFrom, Promise!Grant
<1>2. ASSUME NEW acknowledged \in BOOLEAN, BeginSave(acknowledged)
      PROVE  [Promise!Next]_(Promise!vars)
  BY <1>2, <1>m, <1>r DEF BeginSave, Promise!AdmitFirstSave, Promise!AdmitNestedSave
<1>3. CASE SaveOutcome
  BY <1>3, <1>m, <1>r DEF SaveOutcome, Promise!ResolveSave
<1>4. ASSUME NEW acknowledged \in BOOLEAN, NEW final \in {"Shutdown", "Failed"},
             Leave(acknowledged, final)
      PROVE  [Promise!Next]_(Promise!vars)
  BY <1>4, <1>m, <1>r DEF Leave, Unacknowledged, Promise!Retire
<1>5. CASE CompleteShutdown
  BY <1>5, <1>m, <1>r DEF CompleteShutdown
<1>6. CASE UNCHANGED vars
  BY <1>6 DEF vars
<1> QED
  BY <1>1, <1>2, <1>3, <1>4, <1>5, <1>6
     DEF dispatch, Activate, ReapplyAtVerifiedBarrier, RequestShutdown, Interrupt

THEOREM GateKeepsPromise == Spec => KeepsPromise
<1> QED
  BY InitKeepsPromise, DispatchKeepsPromise, GateInvariant, PTL
     DEF Spec, KeepsPromise, Promise!Spec
-----------------------------------------------------------------------------
\* The state of the integration is that of the gate and the two parties.
LEMMA CoordinationInitEstablishesInv == CoordinationInit => CoordinationInv
<1> SUFFICES ASSUME CoordinationInit PROVE CoordinationInv
  OBVIOUS
<1>1. IInv
  BY InitEstablishesIInv DEF CoordinationInit
<1> QED
  BY <1>1, BoundsAssumption
     DEF CoordinationInit, CoordinationInv, CoordinationTypeOK, IInv, Init,
         SaveReadsBaseline, ModifiedOnlyWhenActive, DepthCountsHostSaves, Quiescent

\* What an event does to the gate, whoever dispatches it.
LEMMA EventKeepsIInv == ASSUME IInv, dispatch PROVE IInv'
BY DispatchKeepsIInv

LEMMA CoordinationNextKeepsInv ==
  CoordinationInv /\ [CoordinationNext]_allVars => CoordinationInv'
<1> SUFFICES ASSUME CoordinationInv, [CoordinationNext]_allVars
             PROVE  CoordinationInv'
  OBVIOUS
<1>i. IInv /\ CoordinationTypeOK /\ SaveReadsBaseline /\ ModifiedOnlyWhenActive
        /\ DepthCountsHostSaves
  BY DEF CoordinationInv
<1>t. /\ state \in State /\ saveDepth \in 0..MaxDepth
      /\ product \in {"Baseline", "Modified"} /\ writer \in {"Idle", "Permitted"}
      /\ hostSaves \in 0..MaxDepth
      /\ saveDepth > 0 <=> state = "SaveInProgress"
      /\ result.permitted <=> state = "Active"
      /\ (product = "Baseline" /\ writer = "Idle") \/ state = "Active"
      /\ hostSaves > 0 => product = "Baseline" /\ writer = "Idle"
      /\ state \notin {"Shutdown", "Stopped", "Failed"} => saveDepth = hostSaves
  BY <1>i DEF IInv, TypeOK, CoordinationTypeOK, DepthMatchesState, ResultIsCurrent,
              SaveReadsBaseline, ModifiedOnlyWhenActive, DepthCountsHostSaves,
              Quiescent, productMutationPermitted
<1> DEFINE Parties ==
      /\ product \in {"Baseline", "Modified"} /\ writer \in {"Idle", "Permitted"}
      /\ hostSaves \in 0..MaxDepth
      /\ (product = "Baseline" /\ writer = "Idle") \/ state = "Active"
      /\ hostSaves > 0 => product = "Baseline" /\ writer = "Idle"
      /\ state \notin {"Shutdown", "Stopped", "Failed"} => saveDepth = hostSaves
<1>q. ASSUME IInv', Parties' PROVE CoordinationInv'
  BY <1>q DEF IInv, CoordinationInv, CoordinationTypeOK, SaveReadsBaseline,
              ModifiedOnlyWhenActive, DepthCountsHostSaves, Quiescent
<1>u. ASSUME UNCHANGED vars PROVE IInv' /\ state' = state /\ saveDepth' = saveDepth
  BY <1>u, <1>i, DispatchKeepsIInv DEF vars
<1>1. CASE SamplePermission
  BY <1>1, <1>t, <1>u, <1>q DEF SamplePermission
<1>2. CASE WriteProduct
  BY <1>2, <1>t, <1>u, <1>q DEF WriteProduct
<1>3. CASE RestoreBaseline
  BY <1>3, <1>t, <1>u, <1>q DEF RestoreBaseline
<1>4. CASE HostSaveBegins
  <2>1. BeginSave(Quiescent) /\ (Quiescent <=> product = "Baseline" /\ writer = "Idle")
    BY <1>4 DEF HostSaveBegins, Quiescent
  <2>2. PICK acknowledged \in BOOLEAN : acknowledged = Quiescent
    BY Zenon DEF Quiescent
  <2>3. IInv'
    BY <2>1, <2>2, <1>i, EventKeepsIInv DEF dispatch
  <2>4. Parties'
    <3>1. CASE state = "SaveInProgress"
      <4>1. WasApplied /\ state' = state /\ saveDepth' = saveDepth + 1
            /\ saveDepth < MaxDepth
        BY <2>1, <3>1 DEF BeginSave, Applied, Result, WasApplied
      <4> QED BY <4>1, <3>1, <1>4, <1>t, BoundsAssumption DEF HostSaveBegins
    <3>2. CASE state = "Active" /\ Quiescent
      <4>1. WasApplied /\ state' = "SaveInProgress" /\ saveDepth' = 1
        BY <2>1, <3>2 DEF BeginSave, Applied, Result, WasApplied
      <4> QED BY <4>1, <3>2, <2>1, <1>4, <1>t, BoundsAssumption DEF HostSaveBegins
    <3>3. CASE state # "SaveInProgress" /\ ~(state = "Active" /\ Quiescent)
      <4>1. ~WasApplied /\ UNCHANGED gate
        BY <2>1, <3>3 DEF BeginSave, Rejected, Result, WasApplied
      <4> QED BY <4>1, <1>4, <1>t DEF HostSaveBegins, gate
    <3> QED BY <3>1, <3>2, <3>3
  <2> QED BY <2>3, <2>4, <1>q
<1>5. CASE HostSaveEnds
  <2>1. IInv'
    BY <1>5, <1>i, EventKeepsIInv DEF HostSaveEnds, dispatch
  <2>2. Parties'
    <3>1. CASE state = "SaveInProgress"
      BY <3>1, <1>5, <1>t, BoundsAssumption DEF HostSaveEnds, SaveOutcome
    <3>2. CASE state # "SaveInProgress"
      BY <3>2, <1>5, <1>t, BoundsAssumption
         DEF HostSaveEnds, SaveOutcome, Rejected, gate
    <3> QED BY <3>1, <3>2
  <2> QED BY <2>1, <2>2, <1>q
<1>6. ASSUME EnterActiveFrom("InactiveBootstrap") \/ EnterActiveFrom("ReapplyPending"),
             UNCHANGED external
      PROVE  CoordinationInv'
  <2>1. IInv'
    BY <1>6, <1>i, EventKeepsIInv DEF dispatch, Activate, ReapplyAtVerifiedBarrier
  <2>2. Parties'
    BY <1>6, <1>t DEF EnterActiveFrom, external, Rejected, gate
  <2> QED BY <2>1, <2>2, <1>q
<1>7. ASSUME NEW final \in {"Shutdown", "Failed"}, Leave(Quiescent, final),
             UNCHANGED external
      PROVE  CoordinationInv'
  <2>1. PICK acknowledged \in BOOLEAN : acknowledged = Quiescent
    BY Zenon DEF Quiescent
  <2>2. IInv'
    BY <1>7, <2>1, <1>i, EventKeepsIInv DEF dispatch, RequestShutdown, Interrupt
  <2>3. Parties'
    BY <1>7, <1>t DEF Leave, external, Rejected, gate, Quiescent, Unacknowledged
  <2> QED BY <2>2, <2>3, <1>q
<1>8. CASE ShutdownCompleted
  <2>1. IInv'
    BY <1>8, <1>i, EventKeepsIInv DEF ShutdownCompleted, dispatch
  <2>2. Parties'
    BY <1>8, <1>t DEF ShutdownCompleted, CompleteShutdown, external, Rejected, gate
  <2> QED BY <2>1, <2>2, <1>q
<1>9. CASE UNCHANGED allVars
  BY <1>9, <1>t, <1>u, <1>q DEF allVars, external
<1> QED
  BY <1>1, <1>2, <1>3, <1>4, <1>5, <1>6, <1>7, <1>8, <1>9
     DEF CoordinationNext, Bootstrapped, Barrier, ShutdownRequested, Interrupted,
         Activate, ReapplyAtVerifiedBarrier, RequestShutdown, Interrupt

\* No host save the gate let in ever runs over product state or ahead of a
\* product write that was permitted before it.
THEOREM SavesReadBaseline == CoordinationSpec => []SaveReadsBaseline
<1>1. CoordinationInv => SaveReadsBaseline
  BY DEF CoordinationInv
<1> QED
  BY <1>1, CoordinationInitEstablishesInv, CoordinationNextKeepsInv, PTL
     DEF CoordinationSpec

\* Product, writer and host saves keep their types for every bound, and the
\* gate's depth stays within it.
THEOREM CoordinationTypeCorrect == CoordinationSpec => []CoordinationTypeOK
<1>1. CoordinationInv => CoordinationTypeOK
  BY DEF CoordinationInv
<1> QED
  BY <1>1, CoordinationInitEstablishesInv, CoordinationNextKeepsInv, PTL
     DEF CoordinationSpec

\* No gate that is not Active leaves the engine modified or a sampled write to
\* come, however saves nest and whenever the gate is retired.
THEOREM GateLeavesNothingBehind == CoordinationSpec => []ModifiedOnlyWhenActive
<1>1. CoordinationInv => ModifiedOnlyWhenActive
  BY DEF CoordinationInv
<1> QED
  BY <1>1, CoordinationInitEstablishesInv, CoordinationNextKeepsInv, PTL
     DEF CoordinationSpec

\* Until the gate is retired its depth is the number of running host saves, for
\* every nesting.
THEOREM DepthIsHostSaves == CoordinationSpec => []DepthCountsHostSaves
<1>1. CoordinationInv => DepthCountsHostSaves
  BY DEF CoordinationInv
<1> QED
  BY <1>1, CoordinationInitEstablishesInv, CoordinationNextKeepsInv, PTL
     DEF CoordinationSpec
=============================================================================
