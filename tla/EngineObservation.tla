-------------------------- MODULE EngineObservation --------------------------
(***************************************************************************)
(* From the identity of the executable to what a shader sees: the runtime  *)
(* is evaluated, the capabilities are reported, a property is observed,    *)
(* and a camera and a frame pulse are published.  The caller makes these   *)
(* calls in any order, with any identity, table, provider and adapter; the *)
(* product's adapter hands the observed matrix to the publication.         *)
(***************************************************************************)
EXTENDS EngineBridge, FiniteSets

CONSTANTS
  Identity, Table, Provider,
  DescriptorList,  \* the sequences of descriptors a caller evaluates
  Address, Region, \* what a memory adapter may answer
  PropertyName,
  CounterModulus,  \* 2^64 of the publications' counters
  FrameModulus,    \* kFramePulseFrameWrapModulus
  FloatExact       \* up to here every integer is a float

\* The types of the arguments: a descriptor names a contract of the enumeration.
Descriptor ==
  [identifier : STRING, capability : STRING, relocationId : Word,
   target : [kind : STRING, version : STRING, variant : STRING],
   contract : {"ReadOnlyData", "CompleteFunctionPrologue", "DeclaredVtableSlot"},
   prologue : Word, slot : Word, rtti : STRING,
   provider : [minimum : Seq(Nat), maximum : Seq(Nat)],
   adapter : [minimum : Seq(Nat), maximum : Seq(Nat)]]

MemoryRegion == [base : Word, size : Word, readable : BOOLEAN, executable : BOOLEAN]

ASSUME ObservationAssumption ==
  /\ \A identity \in Identity : identity.base \in Word /\ identity.size \in Word
  /\ \A table \in Table : Len(table) \in Nat /\ DOMAIN table = 1..Len(table)
  /\ \A descriptors \in DescriptorList : descriptors \in Seq(Descriptor)
  /\ Address \subseteq Word \cup {Unresolved} /\ Region \subseteq MemoryRegion
  /\ FloatExact \in Nat \ {0} /\ FloatExact % 2 = 0
  /\ FrameModulus \in 2..FloatExact
  /\ CounterModulus \in Nat \ {0} /\ CounterModulus % FrameModulus = 0

VARIABLES
  runtime,         \* the last RuntimeEvaluation
  call,            \* the arguments of EvaluateObserverCapabilities and what is left
  tally,
  report,          \* the last CapabilityReport
  evidence,        \* one record for each descriptor of the call, by the contract
  deserved,        \* what the contract makes of the last report
  observation,     \* the last PropertyObservation, and what it stood on
  frames, pulse,   \* FramePulseState and its payload
  generations, camera,
  shown            \* what was last published, and what it stood on

engine == <<runtime, call, tally, report, evidence, deserved>>
publication == <<frames, pulse, generations, camera, shown>>
vars == <<engine, observation, publication>>

NoCall == [active |-> FALSE]
NoObservation == [diagnostic |-> "UnknownIdentifier", observed |-> FALSE,
                  name |-> "none", admitted |-> FALSE]
Inactive == [frame |-> 0]
Disabled == [valid |-> FALSE, generation |-> 0]
NothingShown == [frame |-> 0, generation |-> 0, admitted |-> FALSE]

Init ==
  /\ runtime = [EvaluationWithoutMemory EXCEPT !.diagnostic = "UnsupportedFingerprint"]
  /\ call = NoCall /\ tally = NoTally /\ evidence = <<>>
  /\ report = ReportOf(NoTally) /\ deserved = ReportOf(NoTally)
  /\ observation = NoObservation
  /\ frames = 0 /\ pulse = Inactive
  /\ generations = 0 /\ camera = Disabled
  /\ shown = NothingShown
-----------------------------------------------------------------------------
\* A process evaluates what it is before its first frame.
BeforeFirstFrame == ~call.active /\ shown = NothingShown /\ observation = NoObservation

EvaluateRuntime(identity, table) ==
  /\ BeforeFirstFrame
  /\ runtime' \in {EvaluateRuntimeIdentity(identity, table), EvaluationWithoutMemory}
  /\ UNCHANGED <<call, tally, report, evidence, deserved, observation, publication>>

\* The caller keeps one report, and no one reads it while the call is under way.
BeginEvaluation(identity, provider, descriptors) ==
  /\ BeforeFirstFrame
  /\ call' = [active |-> TRUE, identity |-> identity, provider |-> provider,
              descriptors |-> descriptors]
  /\ tally' = NoTally /\ evidence' = <<>>
  /\ report' = ReportOf(NoTally) /\ deserved' = ReportOf(NoTally)
  /\ UNCHANGED <<runtime, observation, publication>>

\* The addresses of a range, as integers that do not wrap.
Bytes(address, size) == address..(address + size - 1)

\* A region that starts at the null address is the answer that there is none.
IsReadable(region, bytes) ==
  region.base # 0 /\ region.readable /\ bytes \subseteq Bytes(region.base, region.size)
IsCode(region, bytes) == IsReadable(region, bytes) /\ region.executable

\* What each contract promises of a symbol that validates.
KeepsContract(identity, descriptor, answer) ==
  LET image == Bytes(identity.base, identity.size)
      slot == Bytes(answer.address + descriptor.slot * PointerSize, PointerSize)
      code == Bytes(answer.address, descriptor.prologue)
  IN  /\ answer.address \in image
      /\ descriptor.identifier # Missing /\ descriptor.relocationId # 0
      /\ CASE descriptor.contract = "ReadOnlyData" ->
                IsReadable(answer.region, {answer.address})
           [] descriptor.contract = "CompleteFunctionPrologue" ->
                /\ code # {} /\ code \subseteq image /\ IsCode(answer.region, code)
                /\ Cardinality(code) <= MaxPrologue /\ answer.read = "equal"
           [] descriptor.contract = "DeclaredVtableSlot" ->
                /\ slot \subseteq image /\ IsReadable(answer.region, slot)
                /\ descriptor.rtti # Missing /\ answer.rtti /\ answer.read # "failed"
                /\ answer.entry \in image /\ IsCode(answer.entryRegion, {answer.entry})

\* The identity is the executable the runtime is built for, where it is loaded.
IsSupported(identity) ==
  /\ \E i \in DOMAIN BuiltIn : /\ BuiltIn[i].fingerprint = identity.fingerprint
                               /\ BuiltIn[i].architecture = identity.architecture
                               /\ i = runtime.matched
  /\ identity.module = "SkyrimSE.exe"
  /\ identity.base > 0 /\ identity.size > 0 /\ identity.base + identity.size <= WordMax
  /\ [f |-> runtime.fingerprint, b |-> runtime.base, s |-> runtime.size] =
       [f |-> identity.fingerprint, b |-> identity.base, s |-> identity.size]

IsEligible(identity, provider, descriptor) ==
  /\ IsSupported(identity)
  /\ provider.available
  /\ [target |-> provider.target, artifact |-> provider.artifact] \in Providers
  /\ provider.target = descriptor.target
  /\ descriptor.target.version = identity.fingerprint.version
  /\ InRange(provider.version, descriptor.provider)
  /\ InRange(provider.adapter, descriptor.adapter)

\* The adapter answers what it likes, and only what is asked: nothing when the
\* runtime or the provider is refused.
Nowhere == [base |-> 0, size |-> 0, readable |-> FALSE, executable |-> FALSE]

Answers(descriptor) ==
  LET isAsked == AllPass(ProviderChecks(call.identity, runtime, call.provider, descriptor))
      isSlot == descriptor.contract = "DeclaredVtableSlot"
      isRead == descriptor.contract # "ReadOnlyData"
  IN  [address : IF isAsked THEN Address ELSE {Unresolved},
       region : IF isAsked THEN Region \cup {Nowhere} ELSE {Nowhere},
       read : {"failed"} \cup IF ~isAsked \/ ~isRead THEN {}
                             ELSE IF isSlot THEN {"equal"} ELSE {"equal", "different"},
       rtti : IF isAsked /\ isSlot THEN BOOLEAN ELSE {FALSE},
       entry : IF isAsked /\ isSlot THEN Address \ {Unresolved} ELSE {0},
       entryRegion : IF isAsked /\ isSlot THEN Region \cup {Nowhere} ELSE {Nowhere}]

\* One turn of the loop over the descriptors; one whose capability is none of
\* the enumeration's is passed over.
EvaluateDescriptor(answer) ==
  LET descriptor == Head(call.descriptors)
      validation == ValidateSymbol(call.identity, runtime, call.provider, descriptor, answer)
  IN  /\ call' = [call EXCEPT !.descriptors = Tail(@)]
      /\ IF descriptor.capability \in Capability
         THEN /\ tally' = Tallied(tally, descriptor.capability, validation)
              /\ evidence' = Append(evidence,
                   [capability |-> descriptor.capability,
                    diagnostic |-> validation.diagnostic,
                    hook |-> descriptor.contract # "ReadOnlyData",
                    kept |-> /\ IsEligible(call.identity, call.provider, descriptor)
                             /\ KeepsContract(call.identity, descriptor, answer)])
         ELSE UNCHANGED <<tally, evidence>>
      /\ UNCHANGED <<runtime, report, deserved, observation, publication>>

\* What the contract makes of a capability: every descriptor keeps it, and at
\* least one is there; the first that does not is the reason given.
Deserves(capability) ==
  LET mine == {i \in DOMAIN evidence : evidence[i].capability = capability}
      broken == {i \in mine : ~evidence[i].kept}
  IN  IF mine # {} /\ broken = {}
      THEN [state |-> IF \E i \in mine : evidence[i].hook THEN "HookReady" ELSE "ObserveReady",
            diagnostic |-> "None"]
      ELSE [state |-> "Unavailable",
            diagnostic |-> IF mine = {} THEN "MissingDescriptor"
                           ELSE evidence[CHOOSE i \in broken :
                                           \A j \in broken : i <= j].diagnostic]

FinishEvaluation ==
  /\ call.active /\ call.descriptors = <<>>
  /\ report' = ReportOf(tally)
  /\ deserved' = [capability \in Capability |-> Deserves(capability)]
  /\ call' = NoCall /\ tally' = NoTally /\ evidence' = <<>>
  /\ UNCHANGED <<runtime, observation, publication>>
-----------------------------------------------------------------------------
\* The table of properties: name, kind, capability, whether a range is declared.
Float(capability) == [kind |-> "Float32", capability |-> capability, ranged |-> TRUE]
Plain(kind, capability) == [kind |-> kind, capability |-> capability, ranged |-> FALSE]

Schemas == [name \in {"camera.world_fov", "camera.first_person_fov",
                      "camera.inverse_view_projection", "weather.current_form_id",
                      "weather.outgoing_form_id", "weather.transition", "calendar.game_hour"} |->
  CASE name \in {"camera.world_fov", "camera.first_person_fov"} ->
         Float("CameraInverseViewProjection")
    [] name = "camera.inverse_view_projection" ->
         Plain("Matrix4x4", "CameraInverseViewProjection")
    [] name \in {"weather.current_form_id", "weather.outgoing_form_id"} ->
         Plain("UInt32", "WeatherTimeOfDay")
    [] name \in {"weather.transition", "calendar.game_hour"} -> Float("WeatherTimeOfDay")]

\* What an adapter reads: a value of a kind, finite or not, inside the range.
Reading ==
  {r \in [kind : {"Float32", "UInt32", "Matrix4x4"}, finite : BOOLEAN, inRange : BOOLEAN] :
     (r.inRange => r.finite) /\ (r.kind = "UInt32" => r.inRange)
       /\ (r.kind = "Matrix4x4" => (r.finite <=> r.inRange))}

ValidateEnginePropertyValue(schema, value) ==
  CASE value.kind # schema.kind -> "ValueTypeMismatch"
    [] /\ value.kind = schema.kind /\ schema.kind # "UInt32"
       /\ ~value.finite \/ (schema.ranged /\ ~value.inRange) -> "ValueOutOfRange"
    [] OTHER -> "None"

CapabilityIsReady(capability) ==
  /\ capability \in Capability
  /\ report[capability].state # "Unavailable" /\ report[capability].diagnostic = "None"

\* An adapter that fails answers no reading.
ObserveEngineProperty(identity, name, reading) ==
  LET known == name \in DOMAIN Schemas
      schema == Schemas[IF known THEN name ELSE "camera.world_fov"]
      value == IF reading = {} THEN [kind |-> schema.kind, finite |-> FALSE, inRange |-> FALSE]
               ELSE CHOOSE one \in reading : TRUE
      validation == ValidateEnginePropertyValue(schema, value)
      checks == << <<known, "UnknownIdentifier">>,
                   <<MatchesSupportedRuntime(identity, runtime), "RuntimeNotAdmitted">>,
                   <<CapabilityIsReady(schema.capability), "CapabilityUnavailable">>,
                   <<reading # {}, "AdapterReadFailed">>,
                   <<validation = "None", validation>> >>
  IN  /\ ~call.active
      /\ observation' =
           [diagnostic |-> IF AllPass(checks) THEN "None" ELSE FirstFailure(checks),
            observed |-> AllPass(checks), name |-> name,
            admitted |-> /\ IsSupported(identity)
                         /\ known => deserved[schema.capability].state # "Unavailable"
                         /\ reading # {} /\ value.kind = schema.kind
                         /\ schema.kind # "UInt32" => value.finite
                         /\ schema.ranged => value.inRange]
      /\ UNCHANGED <<engine, publication>>
-----------------------------------------------------------------------------
\* An integer as a float: exact up to FloatExact, and up to its double to the
\* nearest even one, ties to the multiple of four.
AsFloat(value) ==
  IF value <= FloatExact THEN value
  ELSE LET half == value \div 2
       IN  IF value % 2 = 0 THEN value ELSE IF half % 2 = 0 THEN 2 * half ELSE 2 * half + 2

\* Defective form: the frame is the counter itself.
NeverWrapped(published) == published

\* Defective form: the frame is counted from zero.
WrappedFromZero(published) == published % FrameModulus

\* The subtraction is of std::uint64_t: it wraps when the counter comes to zero.
WrappedFrame(published) == (((published - 1) % CounterModulus) % FrameModulus) + 1

\* A sample without render information withholds the pulse; one with a delta or
\* a dimension out of range rejects it.
PublishFramePulse(available, inRange) ==
  LET next == (frames + 1) % CounterModulus
  IN  /\ ~call.active
      /\ IF available /\ inRange
         THEN /\ frames' = next
              /\ pulse' = [frame |-> AsFloat(WrappedFrame(next))]
              /\ shown' = [shown EXCEPT !.frame = pulse'.frame]
         ELSE /\ pulse' = Inactive
              /\ UNCHANGED <<frames, shown>>
      /\ UNCHANGED <<engine, observation, generations, camera>>

\* Defective form: what was published stays.
DisableNothing(payload) == payload

Disable(payload) == Disabled

\* The adapter's verdict is the observation of this frame's matrix; the camera's
\* position and scale are its own.  The observation is spent.
PublishCameraParameters(finite, scaleInRange) ==
  LET valid == observation.observed /\ observation.name = "camera.inverse_view_projection"
      next == (generations + 1) % CounterModulus
  IN  /\ ~call.active
      /\ IF valid /\ finite /\ scaleInRange
         THEN /\ generations' = next
              /\ camera' = [valid |-> TRUE, generation |-> AsFloat(next)]
              /\ shown' = [shown EXCEPT !.generation = camera'.generation,
                                        !.admitted = observation.admitted]
         ELSE /\ camera' = Disable(camera)
              /\ shown' = [shown EXCEPT !.admitted = FALSE]
              /\ UNCHANGED generations
      /\ observation' = NoObservation
      /\ UNCHANGED <<engine, frames, pulse>>
-----------------------------------------------------------------------------
Next ==
  \/ \E identity \in Identity :
       \/ \E table \in Table : EvaluateRuntime(identity, table)
       \/ \E provider \in Provider, descriptors \in DescriptorList :
            BeginEvaluation(identity, provider, descriptors)
       \/ \E name \in PropertyName, reading \in {{}} \cup {{one} : one \in Reading} :
            ObserveEngineProperty(identity, name, reading)
  \/ /\ call.active /\ call.descriptors # <<>>
     /\ \E answer \in Answers(Head(call.descriptors)) : EvaluateDescriptor(answer)
  \/ FinishEvaluation
  \/ \E first, second \in BOOLEAN :
       \/ PublishFramePulse(first, second)
       \/ PublishCameraParameters(first, second)

Spec == Init /\ [][Next]_vars
-----------------------------------------------------------------------------
CapabilityReport ==
  [Capability -> [state : {"Unavailable", "ObserveReady", "HookReady"},
                  diagnostic : SymbolDiagnostic]]

\* Every variable has its type; a payload that is inactive is all zero.
TypeOK ==
  /\ runtime.status \in {"Admitted", "Rejected"} /\ runtime.matched \in Nat
  /\ runtime.status = "Admitted" <=> runtime.diagnostic = "None"
  /\ report \in CapabilityReport /\ deserved \in CapabilityReport
  /\ call.active \in BOOLEAN /\ (call.active \/ evidence = <<>>)
  /\ frames \in 0..(CounterModulus - 1) /\ generations \in 0..(CounterModulus - 1)
  /\ pulse \in [frame : 0..FrameModulus]
  /\ camera.valid \/ camera = Disabled

\* A capability is ready exactly when the executable is the one the runtime is
\* built for, the provider is eligible, and every one of its descriptors, of
\* which there is one, keeps its contract over the bytes it names: whatever the
\* adapter answers and however near the ends of the address space.  Otherwise the
\* first descriptor that does not is the reason given.
ReadyIsJustified == report = deserved

\* A camera payload that is valid shows this publication's matrix, observed as
\* finite under a ready capability of the supported executable.
CameraIsAdmitted == camera.valid => shown.admitted

\* Two pulses that follow one another show different frames, neither of them
\* zero, across withheld pulses, the wrap of the frame and that of the counter;
\* two camera generations differ while the counter is exact as a float.
LiveValuesAdvance ==
  [][/\ frames' # frames => pulse'.frame # 0 /\ pulse'.frame # shown.frame
     /\ generations' # generations /\ generations' \in 1..FloatExact
          => camera'.generation # shown.generation]_vars
=============================================================================
