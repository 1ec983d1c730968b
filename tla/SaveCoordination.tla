-------------------------- MODULE SaveCoordination --------------------------
(***************************************************************************)
(* The lifecycle gate between the two parties it coordinates: the product  *)
(* that writes engine state, and the host saves that must read only the    *)
(* baseline.  The gate is the code's; the integration that dispatches its  *)
(* events lives outside the library and is modelled from the caller        *)
(* responsibilities of docs/ARCHITECTURE_BOUNDARY.md and the prerequisites *)
(* the journals of src/skyrim take: a write samples the permission first   *)
(* and acts on the sample later, and the restoration is acknowledged only  *)
(* when the product is quiet and the baseline is back.                     *)
(***************************************************************************)
EXTENDS LifecycleGate

VARIABLES
  product,      \* what the engine fields hold: "Baseline" or "Modified"
  writer,       \* a product write: "Idle", or "Permitted" once it has sampled
                \* lifecycle_mutation_permitted and before it has written
  hostSaves     \* host saves let in and still running

external == <<product, writer, hostSaves>>
allVars == <<vars, external>>

CoordinationInit ==
  /\ Init
  /\ product = "Baseline"
  /\ writer = "Idle"
  /\ hostSaves = 0

\* The caller's acknowledgement: product work quiesced, baseline restored.
Quiescent == writer = "Idle" /\ product = "Baseline"

WasApplied == result'.status = "Applied"

-----------------------------------------------------------------------------
\* A write of the product (an Apply of a journal) in two steps.
SamplePermission ==
  /\ writer = "Idle"
  /\ result.permitted
  /\ writer' = "Permitted"
  /\ UNCHANGED <<vars, product, hostSaves>>

WriteProduct ==
  /\ writer = "Permitted"
  /\ writer' = "Idle"
  /\ product' = "Modified"
  /\ UNCHANGED <<vars, hostSaves>>

\* A Rollback of the journal: it needs no permission.
RestoreBaseline ==
  /\ writer = "Idle"
  /\ product = "Modified"
  /\ product' = "Baseline"
  /\ UNCHANGED <<vars, writer, hostSaves>>

\* A host save asks to be let in; it runs only when the gate applied the event.
HostSaveBegins ==
  /\ BeginSave(Quiescent)
  /\ hostSaves' = IF WasApplied THEN hostSaves + 1 ELSE hostSaves
  /\ UNCHANGED <<product, writer>>

\* Every save let in delivers one outcome, whether or not the gate still wants
\* it (after a shutdown or an interruption it does not).
HostSaveEnds ==
  /\ hostSaves > 0
  /\ SaveOutcome
  /\ hostSaves' = hostSaves - 1
  /\ UNCHANGED <<product, writer>>

Bootstrapped == Activate /\ UNCHANGED external
Barrier == ReapplyAtVerifiedBarrier /\ UNCHANGED external
ShutdownRequested == RequestShutdown(Quiescent) /\ UNCHANGED external
ShutdownCompleted == CompleteShutdown /\ UNCHANGED external
Interrupted == Interrupt(Quiescent) /\ UNCHANGED external

CoordinationNext ==
  \/ SamplePermission \/ WriteProduct \/ RestoreBaseline
  \/ HostSaveBegins \/ HostSaveEnds
  \/ Bootstrapped \/ Barrier
  \/ ShutdownRequested \/ ShutdownCompleted \/ Interrupted

CoordinationSpec == CoordinationInit /\ [][CoordinationNext]_allVars
-----------------------------------------------------------------------------
CoordinationTypeOK ==
  /\ TypeOK
  /\ product \in {"Baseline", "Modified"}
  /\ writer \in {"Idle", "Permitted"}
  /\ hostSaves \in 0..MaxDepth

\* While any host save that the gate let in is running, the engine holds the
\* baseline and no write that sampled the permission earlier is still to come.
SaveReadsBaseline == hostSaves > 0 => Quiescent

\* Engine state is modified, or about to be, only while the gate says Active:
\* retired gates and pending reapplications leave nothing behind.
ModifiedOnlyWhenActive == ~Quiescent => state = "Active"

\* The gate's depth is the number of running host saves until it is retired.
DepthCountsHostSaves ==
  state \notin {"Shutdown", "Stopped", "Failed"} => saveDepth = hostSaves

CoordinationInv ==
  /\ CoordinationTypeOK
  /\ IInv
  /\ SaveReadsBaseline
  /\ ModifiedOnlyWhenActive
  /\ DepthCountsHostSaves
=============================================================================
