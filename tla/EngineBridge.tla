----------------------------- MODULE EngineBridge -----------------------------
(***************************************************************************)
(* What decides whether the runtime may read the engine: the identity of   *)
(* the executable, the relocation provider, and each symbol's contract.    *)
(* These functions keep no state.  A memory adapter answers them: the      *)
(* address of a relocation ID, the region around an address, a read.  Any  *)
(* answer is possible.  Names, versions and digests are values that are    *)
(* equal or not; the empty ones are Missing.                               *)
(***************************************************************************)
EXTENDS Integers, Sequences, AddressRanges, Checks

CONSTANTS
  WordMax,         \* the largest std::uintptr_t, and std::size_t
  PointerSize,
  MaxPrologue,     \* the bytes the validator can read at once
  BuiltIn,         \* SupportedSkyrimRuntimes
  Providers,       \* SupportedRelocationProviders
  Capability

Missing == "missing"
Word == 0..WordMax
Wrap(value) == value % (WordMax + 1)

ASSUME BridgeAssumption ==
  /\ WordMax \in Nat \ {0} /\ PointerSize \in Nat \ {0} /\ MaxPrologue \in Nat
  /\ Len(BuiltIn) \in Nat \ {0} /\ DOMAIN BuiltIn = 1..Len(BuiltIn)
  /\ \A i \in DOMAIN BuiltIn :
       BuiltIn[i].identifier # Missing /\ BuiltIn[i].architecture = "X64"
  /\ Missing \notin Capability
-----------------------------------------------------------------------------
\* A fingerprint is a filename, a version, and a digest with its file size.
IsComplete(fingerprint) == fingerprint.filename # Missing /\ fingerprint.digest # Missing

IsValidRange(identity) ==
  identity.base # 0 /\ identity.size # 0 /\ identity.base <= WordMax - identity.size

NoMatch == 0

MatchedRecords(identity, table) ==
  {i \in DOMAIN table : /\ table[i].identifier # Missing /\ IsComplete(table[i].fingerprint)
                        /\ table[i].fingerprint = identity.fingerprint
                        /\ table[i].architecture = identity.architecture}

EvaluateRuntimeIdentity(identity, table) ==
  LET matched == MatchedRecords(identity, table)
      checks == << <<identity.module = "SkyrimSE.exe", "InvalidModuleName">>,
                   <<identity.architecture = "X64", "UnsupportedArchitecture">>,
                   <<IsValidRange(identity), "InvalidModuleRange">>,
                   <<IsComplete(identity.fingerprint), "IncompleteFingerprint">>,
                   <<matched # {}, "UnsupportedFingerprint">> >>
  IN  [status |-> IF AllPass(checks) THEN "Admitted" ELSE "Rejected",
       diagnostic |-> IF AllPass(checks) THEN "None" ELSE FirstFailure(checks),
       matched |-> IF AllPass(checks) THEN CHOOSE i \in matched : \A j \in matched : i <= j
                   ELSE NoMatch,
       fingerprint |-> identity.fingerprint, base |-> identity.base, size |-> identity.size]

\* The copy of the filename could not be made: nothing else is filled in.
Unread == [filename |-> Missing, version |-> Missing, digest |-> Missing]
EvaluationWithoutMemory ==
  [status |-> "Rejected", diagnostic |-> "IncompleteFingerprint", matched |-> NoMatch,
   fingerprint |-> Unread, base |-> 0, size |-> 0]

\* Defective form: that some table admitted this identity is enough.
MatchesAnyTable(identity, runtime) ==
  /\ runtime.status = "Admitted"
  /\ runtime.fingerprint = identity.fingerprint
  /\ runtime.base = identity.base /\ runtime.size = identity.size

\* The evaluation is of this identity, by a record the runtime is built with:
\* the caller of EvaluateRuntimeIdentity brings a table of its own.
MatchesSupportedRuntime(identity, runtime) ==
  /\ runtime.status = "Admitted" /\ runtime.diagnostic = "None"
  /\ runtime.matched \in DOMAIN BuiltIn
  /\ identity.module = "SkyrimSE.exe" /\ identity.architecture = "X64"
  /\ IsValidRange(identity)
  /\ runtime.fingerprint = identity.fingerprint
  /\ runtime.base = identity.base /\ runtime.size = identity.size
  /\ BuiltIn[runtime.matched].identifier # Missing
  /\ BuiltIn[runtime.matched].fingerprint = identity.fingerprint
  /\ BuiltIn[runtime.matched].architecture = identity.architecture
-----------------------------------------------------------------------------
\* Versions are triples; the first component that differs decides.
IsAtMost(left, right) ==
  \A i \in 1..3 : (\A j \in 1..(i - 1) : left[j] = right[j]) => left[i] <= right[i]

InRange(value, range) == IsAtMost(range.minimum, value) /\ IsAtMost(value, range.maximum)

\* A target is the kind of provider, the runtime version and the variant.
ProviderChecks(identity, runtime, provider, descriptor) ==
  << <<runtime.status = "Admitted", "RuntimeRejected">>,
     <<MatchesSupportedRuntime(identity, runtime), "RuntimeIdentityMismatch">>,
     <<provider.available, "RelocationProviderUnavailable">>,
     <<[target |-> provider.target, artifact |-> provider.artifact] \in Providers,
       "RelocationProviderUnsupported">>,
     <<provider.target.version = identity.fingerprint.version
         /\ provider.target = descriptor.target, "RelocationRuntimeMismatch">>,
     <<InRange(provider.version, descriptor.provider)
         /\ InRange(provider.adapter, descriptor.adapter), "ProviderVersionUnsupported">> >>

IsRegionOf(region, address, size) == Contains(region.base, region.size, address, size)
InImage(identity, address, size) == Contains(identity.base, identity.size, address, size)

ReadOnlyDataChecks(answer) ==
  << <<IsRegionOf(answer.region, answer.address, 1), "RegionUnavailable">>,
     <<answer.region.readable, "RegionNotReadable">> >>

PrologueChecks(identity, descriptor, answer) ==
  << <<InImage(identity, answer.address, descriptor.prologue), "AddressOutsideModule">>,
     <<IsRegionOf(answer.region, answer.address, descriptor.prologue), "RegionUnavailable">>,
     <<answer.region.readable, "RegionNotReadable">>,
     <<answer.region.executable, "RegionNotExecutable">>,
     <<descriptor.prologue <= MaxPrologue, "InvalidDescriptor">>,
     <<answer.read # "failed", "InstructionReadFailed">>,
     <<answer.read = "equal", "InstructionBytesMismatch">> >>

\* Defective form: the address of a slot is taken as it comes out.
SlotAlwaysFits(address, offset) == TRUE

SlotFits(address, offset) == address <= WordMax - offset

SlotAddress(descriptor, answer) == Wrap(answer.address + descriptor.slot * PointerSize)

VtableChecks(identity, descriptor, answer) ==
  LET slot == SlotAddress(descriptor, answer)
  IN  << <<descriptor.slot <= WordMax \div PointerSize, "InvalidDescriptor">>,
         <<SlotFits(answer.address, descriptor.slot * PointerSize), "AddressOutsideModule">>,
         <<InImage(identity, slot, PointerSize), "AddressOutsideModule">>,
         <<IsRegionOf(answer.region, slot, PointerSize), "RegionUnavailable">>,
         <<answer.region.readable, "RegionNotReadable">>,
         <<answer.rtti, "RttiIdentityMismatch">>,
         <<answer.read # "failed", "VtableEntryReadFailed">>,
         <<InImage(identity, answer.entry, 1), "AddressOutsideModule">>,
         <<IsRegionOf(answer.entryRegion, answer.entry, 1), "RegionUnavailable">>,
         <<answer.entryRegion.readable, "RegionNotReadable">>,
         <<answer.entryRegion.executable, "RegionNotExecutable">> >>

ContractChecks(identity, descriptor, answer) ==
  CASE descriptor.contract = "ReadOnlyData" -> ReadOnlyDataChecks(answer)
    [] descriptor.contract = "CompleteFunctionPrologue" ->
         PrologueChecks(identity, descriptor, answer)
    [] descriptor.contract = "DeclaredVtableSlot" ->
         VtableChecks(identity, descriptor, answer)

SymbolDiagnostic ==
  {"None", "RuntimeRejected", "RuntimeIdentityMismatch", "RelocationProviderUnavailable",
   "RelocationRuntimeMismatch", "ProviderVersionUnsupported", "InvalidDescriptor",
   "AddressUnresolved", "AddressOutsideModule", "RegionUnavailable", "RegionNotReadable",
   "RegionNotExecutable", "InstructionReadFailed", "InstructionBytesMismatch",
   "RttiIdentityMismatch", "VtableEntryReadFailed", "MissingDescriptor",
   "RelocationProviderUnsupported"}

\* An address that is not resolved is below every image.
Unresolved == -1

SymbolChecks(identity, runtime, provider, descriptor, answer) ==
  ProviderChecks(identity, runtime, provider, descriptor)
    \o << <<descriptor.identifier # Missing /\ descriptor.relocationId # 0
              /\ (descriptor.contract = "CompleteFunctionPrologue" => descriptor.prologue > 0)
              /\ (descriptor.contract = "DeclaredVtableSlot" => descriptor.rtti # Missing),
            "InvalidDescriptor">>,
          <<answer.address # Unresolved, "AddressUnresolved">>,
          <<InImage(identity, answer.address, 1), "AddressOutsideModule">> >>
    \o ContractChecks(identity, descriptor, answer)

RejectedSymbol(diagnostic) ==
  [status |-> "Rejected", diagnostic |-> diagnostic, resolved |-> 0, patch |-> 0, hook |-> FALSE]

ValidateSymbol(identity, runtime, provider, descriptor, answer) ==
  LET checks == SymbolChecks(identity, runtime, provider, descriptor, answer)
      isSlot == descriptor.contract = "DeclaredVtableSlot"
  IN  IF ~AllPass(checks) THEN RejectedSymbol(FirstFailure(checks))
      ELSE [status |-> "Validated", diagnostic |-> "None",
            resolved |-> IF isSlot THEN answer.entry ELSE answer.address,
            patch |-> IF isSlot THEN SlotAddress(descriptor, answer) ELSE answer.address,
            hook |-> descriptor.contract # "ReadOnlyData"]
-----------------------------------------------------------------------------
\* EvaluateObserverCapabilities keeps one tally for each capability.
NoTally == [capability \in Capability |->
             [seen |-> FALSE, rejected |-> FALSE, hook |-> FALSE,
              diagnostic |-> "MissingDescriptor"]]

\* Defective form: a later descriptor that validates makes up for a rejected one.
TalliedLast(tally, capability, validation) ==
  [tally EXCEPT ![capability].seen = TRUE,
                ![capability].rejected = validation.status # "Validated",
                ![capability].diagnostic = validation.diagnostic,
                ![capability].hook = @ \/ validation.hook]

\* The first rejection of a capability is the one that is reported.
Tallied(tally, capability, validation) ==
  LET rejected == validation.status # "Validated"
  IN  [tally EXCEPT ![capability].seen = TRUE,
                    ![capability].rejected = @ \/ rejected,
                    ![capability].diagnostic =
                      IF rejected /\ ~tally[capability].rejected
                      THEN validation.diagnostic ELSE @,
                    ![capability].hook = @ \/ validation.hook]

ReportOf(tally) ==
  [capability \in Capability |->
    LET one == tally[capability]
    IN  IF ~one.seen \/ one.rejected
        THEN [state |-> "Unavailable", diagnostic |-> one.diagnostic]
        ELSE [state |-> IF one.hook THEN "HookReady" ELSE "ObserveReady",
              diagnostic |-> "None"]]
=============================================================================
