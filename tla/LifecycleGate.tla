---------------------------- MODULE LifecycleGate ----------------------------
(***************************************************************************)
(* enbcore::runtime::LifecycleGate.  Calls of dispatch are serialized by   *)
(* the caller, so each event is one step; any event may be dispatched in   *)
(* any state, with or without the acknowledgement that the baseline has    *)
(* been restored.  save_depth_ and generation_ are 64-bit counters that    *)
(* cannot wrap in a process's life: MaxDepth and MaxGeneration bound them. *)
(***************************************************************************)
EXTENDS Naturals

CONSTANTS
  MaxGeneration,    \* bound: grants of the mutation permission in a run
  MaxDepth          \* bound: nesting of saves

ASSUME BoundsAssumption ==
  /\ MaxGeneration \in Nat
  /\ MaxDepth \in Nat \ {0}

VARIABLES
  state,            \* state_
  generation,       \* generation_
  saveDepth,        \* save_depth_
  result            \* the last TransitionResult handed to the caller

gate == <<state, generation, saveDepth>>
vars == <<state, generation, saveDepth, result>>

State == {"InactiveBootstrap", "Active", "QuiesceRequested", "BaselineRestored",
          "SaveInProgress", "ReapplyPending", "Shutdown", "Stopped", "Failed"}

DiagnosticCode ==
  {"None", "InvalidEventForState", "BaselineRestorationNotAcknowledged"}

TransitionResult ==
  [status : {"Applied", "Rejected"}, diagnostic : DiagnosticCode,
   previous : State, current : State, generation : Nat, permitted : BOOLEAN]

\* The states from which shutdown and interruption need no acknowledgement.
Unacknowledged == {"InactiveBootstrap", "QuiesceRequested", "BaselineRestored",
                   "SaveInProgress", "ReapplyPending"}

productMutationPermitted == state = "Active"

\* The `result` lambda of dispatch: it reads the members after the switch has
\* written them, and the state from before.
Result(status, diagnostic) ==
  result' = [status |-> status, diagnostic |-> diagnostic,
             previous |-> state, current |-> state',
             generation |-> generation', permitted |-> productMutationPermitted']

Applied == Result("Applied", "None")
Rejected(diagnostic) == UNCHANGED gate /\ Result("Rejected", diagnostic)

Init ==
  /\ state = "InactiveBootstrap"
  /\ generation = 0
  /\ saveDepth = 0
  /\ result = [status |-> "Applied", diagnostic |-> "None",
               previous |-> state, current |-> state,
               generation |-> 0, permitted |-> FALSE]

-----------------------------------------------------------------------------
\* Activate and ReapplyAtVerifiedBarrier: the two ways into Active.
EnterActiveFrom(from) ==
  \/ /\ state = from
     /\ generation < MaxGeneration
     /\ state' = "Active"
     /\ generation' = generation + 1
     /\ UNCHANGED saveDepth
     /\ Applied
  \/ state # from /\ Rejected("InvalidEventForState")

Activate == EnterActiveFrom("InactiveBootstrap")

ReapplyAtVerifiedBarrier == EnterActiveFrom("ReapplyPending")

\* Defective form: a save is let in on the caller's word alone.
BeginSaveUnacknowledged(acknowledged) ==
  \/ /\ state \in {"Active", "SaveInProgress"}
     /\ saveDepth < MaxDepth
     /\ state' = "SaveInProgress"
     /\ saveDepth' = saveDepth + 1
     /\ UNCHANGED generation
     /\ Applied
  \/ /\ state \notin {"Active", "SaveInProgress"}
     /\ Rejected("InvalidEventForState")

\* Defective form: a nested save is let in and not counted.
BeginSaveFlat(acknowledged) ==
  \/ /\ state = "SaveInProgress" \/ (state = "Active" /\ acknowledged)
     /\ state' = "SaveInProgress"
     /\ saveDepth' = 1
     /\ UNCHANGED generation
     /\ Applied
  \/ /\ state = "Active"
     /\ ~acknowledged
     /\ Rejected("BaselineRestorationNotAcknowledged")
  \/ /\ state \notin {"Active", "SaveInProgress"}
     /\ Rejected("InvalidEventForState")

\* QuiesceRequested and BaselineRestored are passed through inside the call.
BeginSave(acknowledged) ==
  \/ /\ state = "SaveInProgress"
     /\ saveDepth < MaxDepth
     /\ saveDepth' = saveDepth + 1
     /\ UNCHANGED <<state, generation>>
     /\ Applied
  \/ /\ state = "Active"
     /\ acknowledged
     /\ state' = "SaveInProgress"
     /\ saveDepth' = 1
     /\ UNCHANGED generation
     /\ Applied
  \/ /\ state = "Active"
     /\ ~acknowledged
     /\ Rejected("BaselineRestorationNotAcknowledged")
  \/ /\ state \notin {"Active", "SaveInProgress"}
     /\ Rejected("InvalidEventForState")

\* Defective form: an outcome is accepted in every state.
SaveOutcomeUnguarded ==
  /\ saveDepth' = saveDepth - 1
  /\ state' = IF saveDepth' = 0 THEN "ReapplyPending" ELSE state
  /\ UNCHANGED generation
  /\ Applied

\* Defective form: the first outcome ends every nested save.
SaveOutcomeEndsAll ==
  \/ /\ state = "SaveInProgress"
     /\ saveDepth' = saveDepth - 1
     /\ state' = "ReapplyPending"
     /\ UNCHANGED generation
     /\ Applied
  \/ state # "SaveInProgress" /\ Rejected("InvalidEventForState")

\* SaveSucceeded, SaveFailed and SaveCancelled share one case of the switch.
SaveOutcome ==
  \/ /\ state = "SaveInProgress"
     /\ saveDepth' = saveDepth - 1
     /\ state' = IF saveDepth' = 0 THEN "ReapplyPending" ELSE state
     /\ UNCHANGED generation
     /\ Applied
  \/ state # "SaveInProgress" /\ Rejected("InvalidEventForState")

\* Defective form: the depth of the interrupted saves is kept.
LeaveKeepingDepth(acknowledged, final) ==
  \/ /\ \/ state = "Active" /\ acknowledged
        \/ state \in Unacknowledged
     /\ state' = final
     /\ UNCHANGED <<generation, saveDepth>>
     /\ Applied
  \/ /\ state = "Active"
     /\ ~acknowledged
     /\ Rejected("BaselineRestorationNotAcknowledged")
  \/ /\ state \notin Unacknowledged \cup {"Active"}
     /\ Rejected("InvalidEventForState")

\* Defective form: Active is left without an acknowledgement.
LeaveUnacknowledged(acknowledged, final) ==
  \/ /\ state \in Unacknowledged \cup {"Active"}
     /\ saveDepth' = 0
     /\ state' = final
     /\ UNCHANGED generation
     /\ Applied
  \/ /\ state \notin Unacknowledged \cup {"Active"}
     /\ Rejected("InvalidEventForState")

\* RequestShutdown and Interrupt differ only in the state they end in.
Leave(acknowledged, final) ==
  \/ /\ \/ state = "Active" /\ acknowledged
        \/ state \in Unacknowledged
     /\ saveDepth' = 0
     /\ state' = final
     /\ UNCHANGED generation
     /\ Applied
  \/ /\ state = "Active"
     /\ ~acknowledged
     /\ Rejected("BaselineRestorationNotAcknowledged")
  \/ /\ state \notin Unacknowledged \cup {"Active"}
     /\ Rejected("InvalidEventForState")

RequestShutdown(acknowledged) == Leave(acknowledged, "Shutdown")

Interrupt(acknowledged) == Leave(acknowledged, "Failed")

CompleteShutdown ==
  \/ /\ state = "Shutdown"
     /\ state' = "Stopped"
     /\ UNCHANGED <<generation, saveDepth>>
     /\ Applied
  \/ state # "Shutdown" /\ Rejected("InvalidEventForState")

dispatch ==
  \/ Activate
  \/ \E acknowledged \in BOOLEAN : BeginSave(acknowledged)
  \/ SaveOutcome
  \/ ReapplyAtVerifiedBarrier
  \/ \E acknowledged \in BOOLEAN : RequestShutdown(acknowledged)
  \/ CompleteShutdown
  \/ \E acknowledged \in BOOLEAN : Interrupt(acknowledged)

Spec == Init /\ [][dispatch]_vars
-----------------------------------------------------------------------------
\* Every member and every reported result is in range; the depth is a count
\* of saves and never goes below zero (an unsigned 64-bit counter would wrap).
TypeOK ==
  /\ state \in State
  /\ generation \in 0..MaxGeneration
  /\ saveDepth \in 0..MaxDepth
  /\ result \in TransitionResult

\* The depth counts saves exactly while one is in progress: no outcome is
\* applied at depth zero, and no depth survives a shutdown or interruption.
DepthMatchesState == saveDepth > 0 <=> state = "SaveInProgress"

\* QuiesceRequested and BaselineRestored are never left behind by a call: the
\* caller never observes a partially accepted save entry.
NoPartialSaveEntry == state \notin {"QuiesceRequested", "BaselineRestored"}

\* What the caller was last told is still the truth: serialized calls are the
\* only thing that changes the gate.
ResultIsCurrent ==
  /\ result.current = state
  /\ result.generation = generation
  /\ result.permitted = productMutationPermitted

IInv == TypeOK /\ DepthMatchesState /\ NoPartialSaveEntry /\ ResultIsCurrent

\* The gate keeps the promise of MutationGate: permission returns only in a
\* new generation, never over an unresolved save, never after retirement.
Promise == INSTANCE MutationGate WITH
  permitted <- productMutationPermitted,
  epoch <- generation,
  saves <- saveDepth,
  retired <- state \in {"Shutdown", "Stopped", "Failed"}

KeepsPromise == Promise!Spec
=============================================================================
