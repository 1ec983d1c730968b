# Verification of the ENB runtime core

TLA+ models, TLC runs and TLAPS proofs for the runtime core of this repository
(`src/`, `include/`). The library is the neutral layer between an ENB host, the
Skyrim process and a product that changes engine state: it has no main loop and no
persistence. What makes it hard is a callback thread it does not control, objects
reused while that thread may still be inside them, a save protocol that nests and
can be overtaken by a shutdown, and transactions over memory that may refuse, lose
or misreport a write.

## The system: inventory

| Component | State it keeps | Operations | Interacts with |
|---|---|---|---|
| `runtime/LifecycleGate` | `state_`, `generation_`, `save_depth_` | `dispatch(event, context)` | the caller dispatches; its `product_mutation_permitted` is copied into the journals' prerequisites |
| `runtime/CallbackSession` | process-wide: two `ProcessCallbackTarget`s (ring of 64, five counters, in-flight count), `published_target`, `process_slot_reserved`, `next_target_index`; per session: state, target index, ownership, registration, terminal diagnostics | `bootstrap`, `retryRenderReadiness`, `stop`, `fail`, `drain`, destructor; `enb_callback_thunk` on the host's thread | shares the targets between the host's callback thread and the integration thread; registers the thunk with the host |
| `skyrim/PatchJournal` | `state_`, `entries_`, module bounds | `Apply`, `Rollback` | writes and reads back through an injected `MutableMemoryView` |
| `skyrim/ObjectPropertyJournal` | one binding, original and replacement bytes, phase, state | `Apply`, `Rollback`, `ApplyEnginePropertyMutation` | typed object memory, whose owner may be invalidated |
| `skyrim/EngineProperties` | none (a table) | `Find`, `Validate`, `Observe` | readings of the adapter |
| `skyrim/EngineBridge`, `CanonicalDescriptors` | none (tables) | runtime identity, provider, symbol and capability evaluation | its verdicts are prerequisites of the journals |
| `skyrim/AddressLibraryDatabase` | parsed entries | parse, `ResolveOffset`, `ResolveAddress` | bytes of an admitted artifact |
| `enb/LoadedHostResolver`, `enb/SdkContract` | none | resolution and validation of a host among loaded modules | the module platform; its result starts a `CallbackSession` |
| `platform/windows/WindowsLoadedModulePlatform` | none | two-step enumeration, export lookup | the operating system's module list |
| `runtime/FramePulse`, `runtime/CameraPublication` | a 64-bit counter each | publish a sample into a payload of floats | the product's shaders |
| `enb/WrapperFingerprint` and its Windows platform | none | evidence of a wrapper file, admission | the file system |

Interactions: the resolver finds the host, a session registers the thunk with it, the
thunk queues neutral records, the integration thread drains them and dispatches the
lifecycle events they stand for, the gate's permission guards the journals, and the
journals are rolled back before a save, a shutdown or an interruption is acknowledged.
Only the callback targets are shared between threads inside the library; the gate, the
sessions and the journals rely on callers that serialize
(`docs/ARCHITECTURE_BOUNDARY.md`, "Caller responsibilities").

What makes each component correct:

- gate: permission only in `Active`, returned only in a new generation, only after
  every nested save has its outcome, and never after shutdown or interruption;
- session: one owner of the process slot, ring slots never overwritten before they are
  drained, drops counted, no thunk call touching a target after its teardown, a
  teardown that returns, diagnostics that add up;
- journals: all or nothing over any failure, an explicit recovery state when neither can
  be had, no value of the game overwritten;
- bridge, resolver, library, fingerprint: fail closed on every incomplete or inconsistent
  evidence, no wrap in their arithmetic;
- publications: a counter that keeps changing after a wrap or a rounding.

The hard-to-test behaviours, each at its line, are the `hazards` of `PROJECT.json`.

## Modules

| Module | What it is |
|---|---|
| `MutationGate` | abstract: permission, epoch, open saves, retirement |
| `LifecycleGate` | `LifecycleGate::dispatch`; implements `MutationGate` |
| `SaveCoordination` | extends `LifecycleGate` with the documented caller: a product write in two steps, host saves |
| `SaveCoordinationProofs` | the theorems of the gate and of its coordination |
| `CallbackQueue` | abstract: a bounded queue per activation |
| `CallbackSession` | the thunk, the process targets and the sessions; implements `CallbackQueue` |
| `CallbackSessionProofs` | its theorems |
| `AddressRanges` | the range tests of the journals and the bridge; `PatchJournalProofs` and `EngineObservationProofs` prove them exact |
| `AtomicPatch` | abstract: a transaction is applied or undone as a whole, or wedged for good |
| `PatchJournal` | `PatchJournal::Apply` and `Rollback`; implements `AtomicPatch` |
| `PatchJournalProofs` | its theorems |
| `LentField` | abstract: a field is lent a value and returned, or the loan is kept on record |
| `ObjectPropertyJournal` | `ObjectPropertyJournal::Apply` and `Rollback`, `ApplyEnginePropertyMutation`; implements `LentField` |
| `ObjectPropertyJournalProofs` | its theorems |
| `HostResolver` | `ResolveLoadedEnbHost` over the Windows module enumeration, and the loader around it |
| `HostResolverProofs` | its theorems |
| `Checks` | a list of conditions in the order of the code, each with its code; the first that fails decides |
| `EngineBridge` | pure: runtime identity, provider, symbol contracts, capability tallies |
| `EngineObservation` | extends `EngineBridge` with the calls a product makes until a shader sees a value: evaluation, observation of properties, camera and frame pulse |
| `EngineObservationProofs` | the theorems of both |
| `AddressLibrary` | receipts of artifacts, the parser of their bytes, resolution of IDs and addresses |
| `AddressLibraryProofs` | its theorems |
| `WrapperAdmission` | the evidence of the loaded wrapper's file, call by call, and the verdict of the allowlist |
| `WrapperAdmissionProofs` | its theorems |
| `MC*` | instances for TLC |

How they correspond to the code:

- **`LifecycleGate`**: one variable per member; `result` is the last
  `TransitionResult`. One action per case of the `switch`; `SaveSucceeded`,
  `SaveFailed` and `SaveCancelled` share a case and hence an action; `RequestShutdown`
  and `Interrupt` are the same code but for the final state (`Leave`).
- **`SaveCoordination`**: the code of the gate, with callers that the library only
  documents. A write samples the permission and acts on the sample in a later step,
  because `MutationPrerequisites` carries a copy; the acknowledgement is given exactly
  when no write is pending and the baseline is back; each admitted save delivers one
  outcome, even after the gate has been retired.
- **`CallbackSession`**: `ProcessCallbackTarget` is one function per member over target
  indices. The thunk is one process with a program counter (one host callback thread is
  the documented single producer), each session another; every access to a shared
  atomic is a step of its own, except that an access that only repeats what no other
  thread can have changed is merged with its neighbour (the producer's load of its own
  `write_position`, a store no one reads before the next step). The orderings in the code
  on the supported x64 target make these steps sequentially consistent: the two places
  where a store must be visible before a later load (the thunk's `fetch_add` before its
  recheck, the teardown's compare-and-swap before its wait) are locked instructions. A
  call that the state does not allow returns a code and changes nothing; it is a
  stuttering step and is not written down.
- **`PatchJournal`**: a transaction's loops run one entry per step (`WriteEntry`,
  `Compensate`, `RestoreEntry`, `Reapply`). The write and its read-back are one step:
  the adapter may refuse the write with no byte changed (its documented contract), may
  report a write that had no effect, and may fail the read. Bytes of a range are one
  value kept at the range's address; overlap and containment are computed on the
  ranges themselves. The four gates are Booleans. `QueryRegion` may refuse any patch.
  `compensation_performed` is left out: it is a function of the code returned and of
  where the loop began.

- **`ObjectPropertyJournal`**: `held` is the five members that are set and cleared
  together. The owner token is a generation, since one address is enough to be reused; a
  field stands for an address with the property it is bound to. The checks before
  the first read are a list in the order of the code, and the first that fails gives the
  code of the result; thread, region and read failures may happen to any call. A write
  may leave any value in its field and report either outcome: that is the
  writer "that returns false after a partial write" of `docs/SKYRIM_ENGINE_BRIDGE.md`
  and more. The game replaces the object, writes and changes phase between calls.
  `asked` is history: what the last call asked for. The diagnostic of
  `ApplyEnginePropertyMutation` is a function of the code (`Accepted`). That two reads
  in a row differ is not modelled, and neither is a value that differs from another in its
  bytes and not as a float.
- **`HostResolver`**: each call of `EnumProcessModules`, `GetProcAddress` (through
  `FindExport`) and `ValidateSdkHost` is a step, and modules load and unload in between.
  What a module exports and answers is constant; `Verdict` is `ValidateSdkHost` of its answers,
  but for the render information, which may appear at any time. `started` and `unloaded` are
  history: together they say which modules were there during the whole call. A lookup
  that fails for want of memory, which the code cannot tell from a missing export, and a byte
  count that is no multiple of a handle are left out.
- **`EngineBridge`**: one operator per function. The rejections of a function are a list
  of checks (`Checks`), so that order and diagnostic are those of the code. A word is an
  integer up to `WordMax`, and sums wrap where the code's do; `Contains` is the range test of
  the journals. The memory adapter's answers (the address of an ID, the region around an
  address, a read, the pointer in a slot, RTTI) are a record chosen freely, since nothing
  obliges an adapter to agree with itself. The reads of a prologue in chunks are one read.
- **`EngineObservation`**: `EvaluateObserverCapabilities` takes one step for each
  descriptor. `evidence` and `deserved` are history: what each contract asks in integers
  that do not wrap, and what a report should say for it. Evaluation happens before
  the first published frame (`BeforeFirstFrame`), and a caller keeps one report, as a product
  does at start-up. A property is its schema, its reading a kind, finite or not, in range
  or not. Publication keeps the counters with the width of `CounterModulus` and rounds as a
  `float` does; delta, dimensions, position and matrix entries are Booleans of being in range.
  The reading's `reading_valid` is bound to the observed matrix, which is what
  `CameraPublication.hpp` asks of the caller.
- **`AddressLibrary`**: a span is an address with a content, and its SHA-256 is the content.
  Headers, modes and operands are chosen when they are read; the bytes left are exact.
  `meaning` is history: the entries in integers that do not wrap. That the bytes under a
  receipt do not change is the contract of `AddressLibraryDatabase.hpp` (lines 34-35), so
  `Rewrite` leaves such spans alone. `Forget` drops a result when another call begins.
  `std::sort` and `std::lower_bound` are the library's, and modelled by what they promise: some
  ordering of the entries by ID (`Orderings`), and the first that is not before the ID (`LowerBound`).
- **`WrapperAdmission`**: each call of the operating system is a step that may fail, and the
  file at the path may be replaced between any two steps in which no handle is open:
  `FILE_SHARE_READ` keeps writers, renames and deletion out while one is. `About` says
  what a content has in its headers and version resource; a version string is its parts and
  whether they are all there is. `opened` is history. The three
  loops over the declared languages are a recursive function of the language's index
  (`VersionFound`). `Terminated` is the `noexcept` of
  `HashFile` meeting an allocation failure.

Operators introduced as "Defective form" are not part of any specification: each is a
plausible wrong version of the definition that follows it, and shows that the property
it is paired with in `PROJECT.json` notices the difference.

## Runs

| Run | Instance | What it shows |
|---|---|---|
| `lifecycle_gate` | 6 generations, nesting 4 | the depth is exact and never wraps; the gate implements `MutationGate` |
| `save_coordination` | 4 generations, nesting 3 | an admitted save never sees a modified engine or a write still to come; nothing is left modified by a retired gate |
| `callback_session` | 2 sessions, 2 targets, ring of 2, 3 thunk calls, 3 activations | slot exclusion, exact in-flight count, safety of late calls, balance of terminal diagnostics, rest of torn-down targets |
| `callback_queue` | 1 session, ring of 2, 5 thunk calls, 2 activations | the ring implements `CallbackQueue`: in order, once each, drops only when full |
| `callback_teardown` | as `callback_session`, 2 calls, 2 activations, with fairness | the wait in `stop` and `fail` ends |
| `stale_thunk` | as `callback_session`, 1 session, without `HostSettles` | `LateThunkSafe` is violated: see Findings |
| `patch_journal` | 3 addresses, 3 values, 8 transactions, 2 game writes | type and entries; the journal implements `AtomicPatch`; the journal overwrites only what it verified or wrote |
| `object_journal` | 2 fields, 2 valid values and 1 invalid, 2 generations, 2 steps of the game | what is held matches the state; an accepted call is in place; no other object is written; the journal implements `LentField` |
| `host_resolver` | 4 modules (two hosts, an old one, an incomplete one), 3 export names, room for 1, allowance 1, limit 3 | a named host is the only one, a host that is there is noticed, a rejection has a cause |
| `address_library` | words of 4 bits, 2 spans, 2 contents, 10 headers, up to 3 entries | a database says what the file means, the search answers it, a rejection has a cause; only verified bytes are parsed |
| `engine_observation` | 16 words of address space, an image of 8, pointers of 4; counters of 6, frames of 3, floats exact to 4 | a capability is ready exactly when its contracts hold; a valid camera stands on an admitted observation; live values advance |
| `wrapper_admission` | 9 contents, paths up to 5 of a buffer of 2 to 5, an allowlist of 2 | complete evidence is of one file; admission follows from agreement in every field |

Bounds and why they are enough. `MaxGeneration` and `MaxDepth` cap counters that only
grow or nest; behaviour depends on the depth being zero, one or more, so two levels of
nesting show everything and the proofs cover the rest. In `CallbackSession` a ring of
two fills, overflows and wraps with three to five calls; with two targets the third
activation is the first that reuses one, so `MaxAttempts = 3` covers reuse;
`InFlightModulus` is 4 instead of 2^32 so that a count below zero shows as 3. `PatchJournal`
needs three entries for a failure with entries before and after it, a third value
to tell the game's writes from the journal's, and two game writes: one before and one
after an `Apply`. `ObjectPropertyJournal` needs a second field that must not change, a second
generation, and two steps of the game to leave a phase and come back or to
replace the object and write it; the proofs hold for any bounds. `HostResolver` needs a list that
fits at once, one that fits at the second call, one that outgrows it (room for one,
an allowance of one) and one that passes the limit (four modules), and three names so that
a module can go before, between and after its lookups.

`AddressLibrary`: with operands 0, 1 and 15 in words of 15, every mode succeeds, overflows and
underflows, and a scaled offset falls inside (8) or outside the module of 9; three entries are what a sort and a search
need to be wrong in the middle, and each header is defective in one field.
`EngineObservation`: from addresses 3, 4, 8 and 11 with slots 1, 3 and 4 and prologues of 4 and 5,
a range ends inside, at the end of, and past the image and the address space, and one slot wraps
back into the image; the counter passes the float's exact range (4), its frame wraps
(3), and it wraps itself (6). `WrapperAdmission`:
a path fits at once, after one doubling, only at the maximum, which is no doubling, or not
at all; there is a content for every branch of the headers and of the two language loops.

Fairness (`callback_teardown`): a thread that is inside the thunk, and a thread inside an
operation of a session, keep being scheduled (weak fairness of `ThunkStep` and of each
`SessionStep`). Nothing obliges the host to call or the caller to start an operation.
Both are threads of a running process that execute straight-line code, except for the
teardown's wait, which is the thing checked.

## Proofs

| Theorem | Says |
|---|---|
| `GateTypeCorrect`, `GateDepthMatchesState` | for every bound, members in range and depth positive exactly during a save |
| `GateKeepsPromise` | `LifecycleGate` implements `MutationGate` |
| `SavesReadBaseline` | no admitted save overlaps a modified engine, for every nesting |
| `CoordinationTypeCorrect`, `GateLeavesNothingBehind`, `DepthIsHostSaves` | types, no write left by a gate that is not active, and the depth counts the running saves |
| `SessionTypeCorrect` | type correctness for any number of sessions and targets, any capacity |
| `SlotIsExclusive` | the process slot is exclusive |
| `InFlightIsExact`, `LateThunkIsSafe` | under `HostSettles`, the count is exact and a delivering call has an owner that still waits |
| `TeardownIsFinal`, `TerminalDiagnosticsAddUp` | under `HostSettles`, nothing touches a target between its teardown and its next activation, and the last diagnostics account for every callback |
| `CallbacksAreDeliveredInOrder` | under `HostSettles`, `CallbackSession` implements `CallbackQueue`, for rings of any capacity |
| `OverlapIsSharing`, `ContainsIsInclusion` | the range tests are exact |
| `JournalTypeCorrect`, `JournalEntriesMatchState` | type correctness; entries exactly when there is something to restore |
| `JournalKeepsForeignValues` | only values found in place or written by itself are overwritten |
| `JournalIsAtomic` | `PatchJournal` implements `AtomicPatch`, for transactions of any length |
| `ObjectTypeCorrect`, `ObjectHoldMatchesState`, `ObjectAcceptedIsInPlace` | the invariants of the object journal |
| `ObjectWritesOnlyItsObject` | no write to a later object, nor in another phase |
| `ObjectReturnsWhatItBorrows` | `ObjectPropertyJournal` implements `LentField` |
| `ResolverTypeCorrect` | types and indices of the resolution, whatever is loaded and unloaded meanwhile |
| `NamedHostIsUnambiguous`, `PresentHostIsAlwaysNoticed` | a named host is the only one; one that was there all the time is noticed |
| `RejectionsHaveCause` | modules of the process cause every rejection; `CandidateRejected` is never returned |
| `LibraryTypeCorrect` | types for every word size, artifact and header; no read past the end |
| `ReadyBytesAreVerified` | a parse is ready only over bytes verified for a supported provider |
| `EntriesStayExact` | the entries kept are those the file means, without a wrap, inside the module |
| `DatabaseIsWhatTheFileMeans`, `RejectionsHaveCauses` | a database holds exactly what the file means, in order and without duplicates; a rejection has a cause in the file |
| `ResolutionIsExact` | the search finds an ID exactly when the file maps it, and returns what it maps it to |
| `ObservationTypeCorrect` | types of reports, observations and published values, for any descriptors |
| `ReadinessIsJustified` | a capability is reported ready exactly when every contract it needs holds in integers that do not wrap |
| `CameraStandsOnObservation` | a valid camera stands on an admitted observation of the matrix it was read from |
| `PublicationsAdvance` | two publications in a row differ in their counter, through the wrap and as long as a `float` is exact |
| `AdmissionTypeCorrect` | types of the evidence, with every path, size and version resource |
| `EvidenceStandsOnOneFile` | complete evidence is of one file, whatever replaces it meanwhile |
| `AdmissionsAreEarned` | admission follows from agreement with one record in every field; the nearest record is blamed otherwise |

Arguments. For the gate `IInv` adds to the two properties that the intermediate
states of a save entry are never left behind, without which the step from
`BaselineRestored` could not be excluded, and that the reported result is current,
which `SavesReadBaseline` needs since the product reads the report and not the
gate. `SlotInv` strengthens `SlotExclusion` with where each owner's program counter
can be, and that only an owner between publication and unpublication can be published.
`LateThunkInv` adds to the exact count that the owner a delivering call relies on has
not passed its wait: the wait cannot pass because the count is not zero.
`BalanceInv` says of every target what makes its diagnostics add up at any moment: the
call in progress is all that has been received and is not yet counted, the positions of the ring
are the counts of what was enqueued and drained, and a drain stays between them.
`QueueInv` says what keeps the ring a queue: the owner's target is the one last reset; a call that
has found room keeps it until it publishes the record it filled in; no record in the ring or
delivered has a number that is still to be decided (`Decided`); and what a drain has copied is
still at the front of the ring. That a slot is filled only outside the ring is arithmetic:
positions less than a ring apart differ modulo its size (`NearPositionsDiffer`). In the refinement
`ResetTarget` opens the queue, `PublishRecord` accepts, `Overflow` drops, `CommitDrain` delivers,
`SnapshotDiagnostics` closes, and every other step of the thunk and of the sessions stutters.

`HostResolver`'s `IInv` follows the call: `SnapshotInv`, that the snapshot has no module twice
and lacks none that was there throughout; `NotedInv`, that every module the search has passed
and that could be a host is a candidate, unless a partial one is going to reject the call; `CandidatesInv`
and `ExportsInv`, that candidates are complete, still loaded and each passed once, and that a
missing export has a module to blame; and `TallyInv`, that as long as nothing is incompatible the tally
counts every candidate so far. With one candidate counted, it is the only one there could be.

`PatchJournal`'s `IInv` adds `WellFormed` (no two entries at one address, which preflight
establishes and which makes the image of a transaction a function of its entries),
`Progress` (which entries each loop has dealt with, as a function of its index) and
`InCall` (nothing but the entries differs from the image the call began with, and each
entry has one of its two values). The refinement shows callers the image `before` a call
until it returns; the step that returns is the abstract step, all others stutter.
`ObjectPropertyJournal`'s `IInv` has the same shape with one field: `InCall` says that the
object under the write is the current one and what the field held when the call began.

`AddressLibrary`'s `IInv` is `EntriesAreExact`, that the entries so far are the first
of the meanings so far, each a word and inside the module, from which the checked
arithmetic keeps the next one exact, and `ReceiptsHold`, that the span of every receipt
still has the content that was hashed, without which a receipt would prove nothing about the
bytes parsed later. Of the sort only its contract is used: in an ordering by ID two
neighbours with one ID exist exactly when any two entries have one, so the adjacent test of the code
rejects exactly the files that map an ID twice. Without duplicates the first entry that is not before
an ID is the only one that can carry it, which is what `ResolutionIsExact` needs of the search.

`EngineObservation`'s `IInv` ties what is kept to where it came from. `TallyIsEvidence`: while
descriptors are evaluated one by one, the tally of each capability says what the evidence collected
so far says, that is whether it was seen, whether a descriptor was refused and why the first was.
With `SymbolIsJustified`, that the checks of a descriptor pass exactly when its contract holds in
integers that do not wrap, the report follows. `ObservedIsAdmitted`: what was observed passed
every check. `ShownIsCounted`: the last values shown are those of the counters, from which the
next differs, because consecutive numbers differ modulo the frame's modulus and the
counter's wrap does not disturb it: one modulus divides the other, as 2^24 divides 2^64.

`WrapperAdmission`'s `IInv` follows the inspection. `Stage`: once the handle is open the file at the
path is the one opened, since sharing keeps others out, and each field read so far is that file's.
`AdmissionIsEarned` follows from `ClassificationIsExact`: a fold over the
allowlist that keeps the nearest record so far is replaced by the least number of differing fields, which
exists because the naturals are well-founded. The loops over the languages are recursive functions;
`LoopRuns` shows that such a loop has a run, entry by entry, and `FoundIsAuthored` that
whatever ends in the evidence was authored by one of the languages.

Assumptions used: `ConstantsAssumption` and `BoundsAssumption` (TLC evaluates both in
every run), `ImageAssumption` and `ObjectAssumption` (likewise), and for `InFlightIsExact`,
`LateThunkIsSafe`, `TeardownIsFinal`, `TerminalDiagnosticsAddUp` and `CallbacksAreDeliveredInOrder`
also `HostSettles`, which the code does not enforce (Findings). `HostResolver`'s use
`ResolverAssumption` (the shapes of what modules export and answer, and that the first enumeration
fits the limit). The library's theorems use `LibraryAssumption` (word size, sizes of contents), those
of the bridge `BridgeAssumption` and `ObservationAssumption` (the built-in table is not empty and names
its executables, arguments are words and lists of descriptors, and the moduli of the counters
divide), and those of the wrapper `WrapperAssumption` (buffer sizes, what a content declares, and
that the allowlist is a list of fingerprints).

Every inductive invariant was checked with TLC, on the instances of the runs, before it was
proved. Induction over a sequence is done where it is needed without an induction scheme: from the least
counterexample, which the well-foundedness of the naturals provides (`LeastNatural`). That
lemma and the one about the first failing check are stated in each module that needs them.

Only model-checked: `TeardownReturns`, the liveness of a teardown. Reasoning from weak fairness
needs `ENABLED`, which this prover does not expand. Everything else that a passing run checks is a
theorem as well.

## Findings

`stale_thunk`: `README.md` (line 90) of the repository says that "a saved late thunk is safe after
teardown". `ProcessCallbackTarget::reset` stores zero to `callbacks_in_flight` of the
target it reuses. With two targets, a thunk call that stalls between counting in and
its recheck for the length of two further activations is forgotten by the reset; its
recheck then succeeds, because the same address is published again, and it delivers into
a target whose teardown no longer waits for it. Its `fetch_sub` then wraps the unsigned
count, and the next teardown of that target would not return. The other runs and the theorems
assume `HostSettles`, that no thunk call is stalled that long.

Observations that no run states, because no text of the repository claims otherwise or
because they are what the code says:

- `CameraPublication` publishes its generation as a `float`. Above 2^24 consecutive generations
  can round to one value. The test `generation_advances_once_per_publish` stays below it;
  `LiveValuesAdvance` therefore claims a difference only while the counter is exact.
- `HashFile` is `noexcept` and allocates. Without memory the process terminates, although
  `InspectWrapperFile` would catch `std::bad_alloc` and reject.
- Version and original filename may come from different languages of the resource, and a
  declared language without a filename drops that of an earlier one (`ReadFileVersion`).
  `EvidenceIsOfOneFile` says only that each is authored by some language.
- The evidence is of the file at the module's path, opened after loading; that the loaded
  image is that file is not established by this code.
- The descriptors of `CanonicalDescriptors` leave the provider and adapter ranges at their
  default of 0.0.0, so they validate only with a provider and adapter of that version.

## Not modelled, and why

- `CanonicalDescriptors` is data: `EngineBridge` takes any list of descriptors.
- `SdkContract`: `ParameterSize` and `ValidateParameter`. Nothing in the runtime calls them, they
  keep no state, and each is a table.
- SHA-256 is the identity of a content; that two contents have different digests is assumed.
- The stubs of the platform for other systems than Windows return their failure code.
- Tests, tools, documentation art and build files are not part of the running program.
- Game writes *during* a call of a journal are excluded: calls run in a phase the game
  leaves to the integration.
- Weak memory models other than x64 are not considered.
- Values of floats: what is told apart is finite, in range, and exact or rounded for counters.

## Plan

All components with logic of their own are modelled. What is left is to go further:

1. `Integration`: the composition of queue, gate and journal: records lost to overflow,
   a host save that starts before its record is drained. The repository holds no code for this
   caller, only its responsibilities.
2. A run of the journals with game writes inside a call, to show what the phase
   assumption is for.
