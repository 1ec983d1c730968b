------------------------ MODULE EngineObservationProofs ------------------------
(***************************************************************************)
(* EngineObservation for every executable, provider, descriptor and answer *)
(* of a memory adapter, every word size, and every modulus of its counters *)
(***************************************************************************)
EXTENDS EngineObservation, WellFoundedInduction, FiniteSetTheorems, TLAPS

\* A set of naturals that is not empty has a least element: induction, in the
\* form the provers can use.
LEMMA LeastNatural ==
  ASSUME NEW numbers, numbers \subseteq Nat, numbers # {}
  PROVE  \E least \in numbers : \A other \in numbers : least <= other
<1> DEFINE Below == OpToRel(<, Nat)
<1>1. IsWellFoundedOn(Below, Nat)
  BY NatLessThanWellFounded
<1>2. \A left, right \in Nat : <<left, right>> \in Below <=> left < right
  BY DEF OpToRel
<1> HIDE DEF Below
<1>3. PICK least \in numbers : \A other \in numbers : ~(<<other, least>> \in Below)
  BY <1>1, WFMin
<1>4. ASSUME NEW other \in numbers
      PROVE  least <= other
  <2>1. least \in Nat /\ other \in Nat
    OBVIOUS
  <2>2. ~(other < least)
    BY <1>2, <1>3, <2>1
  <2> QED BY <2>1, <2>2
<1> QED BY <1>4

\* The code of the first failure is that of a check that fails after all those
\* before it passed.
LEMMA FirstFailureFails ==
  ASSUME NEW checks, NEW n \in Nat, DOMAIN checks = 1..n, ~AllPass(checks)
  PROVE  \E k \in 1..n : /\ ~checks[k][1] /\ \A earlier \in 1..(k - 1) : checks[earlier][1]
                         /\ FirstFailure(checks) = checks[k][2]
<1> DEFINE failing == {i \in 1..n : ~checks[i][1]}
           IsFirst(i) == ~checks[i][1] /\ \A earlier \in 1..(i - 1) : checks[earlier][1]
           first == CHOOSE i \in DOMAIN checks : IsFirst(i)
<1>1. failing \subseteq Nat /\ failing # {}
  BY DEF AllPass
<1>2. PICK least \in failing : \A other \in failing : least <= other
  BY <1>1, LeastNatural
<1>3. \A earlier \in 1..(least - 1) : checks[earlier][1]
  BY <1>2
<1>4. least \in DOMAIN checks /\ IsFirst(least)
  BY <1>3
<1>5. first \in DOMAIN checks /\ IsFirst(first)
  <2> HIDE DEF IsFirst
  <2> QED BY <1>4
<1>6. FirstFailure(checks) = checks[first][2]
  BY DEF FirstFailure
<1> HIDE DEF first
<1> QED BY <1>5, <1>6

\* Two lists of checks in a row pass when both do.
LEMMA AllPassInARow ==
  ASSUME NEW S, NEW first \in Seq(S), NEW second \in Seq(S)
  PROVE  AllPass(first \o second) <=> AllPass(first) /\ AllPass(second)
<1>1. ASSUME AllPass(first \o second)
      PROVE  AllPass(first)
  <2> SUFFICES ASSUME NEW i \in DOMAIN first
               PROVE  first[i][1]
    BY DEF AllPass
  <2>1. i \in DOMAIN (first \o second) /\ (first \o second)[i] = first[i]
    OBVIOUS
  <2> QED BY <1>1, <2>1 DEF AllPass
<1>2. ASSUME AllPass(first \o second)
      PROVE  AllPass(second)
  <2> SUFFICES ASSUME NEW i \in DOMAIN second
               PROVE  second[i][1]
    BY DEF AllPass
  <2>1. /\ Len(first) + i \in DOMAIN (first \o second)
        /\ (first \o second)[Len(first) + i] = second[i]
    OBVIOUS
  <2> QED BY <1>2, <2>1 DEF AllPass
<1>3. ASSUME AllPass(first), AllPass(second)
      PROVE  AllPass(first \o second)
  <2> SUFFICES ASSUME NEW i \in DOMAIN (first \o second)
               PROVE  (first \o second)[i][1]
    BY DEF AllPass
  <2>1. CASE i \in DOMAIN first
    BY <1>3, <2>1 DEF AllPass
  <2>2. CASE i \notin DOMAIN first
    <3>1. i - Len(first) \in DOMAIN second /\ (first \o second)[i] = second[i - Len(first)]
      BY <2>2
    <3> QED BY <1>3, <3>1 DEF AllPass
  <2> QED BY <2>1, <2>2
<1> QED BY <1>1, <1>2, <1>3
-----------------------------------------------------------------------------
\* The containment test is exact for a range and a module that are not empty.
THEOREM ContainsIsInclusion ==
  ASSUME NEW base \in Nat \ {0}, NEW extent \in Nat \ {0},
         NEW address \in Nat, NEW size \in Nat \ {0}
  PROVE  Contains(base, extent, address, size) <=>
           Covered(address, size) \subseteq Covered(base, extent)
<1>1. ASSUME Contains(base, extent, address, size)
      PROVE  Covered(address, size) \subseteq Covered(base, extent)
  BY <1>1 DEF Contains, Covered
<1>2. ASSUME Covered(address, size) \subseteq Covered(base, extent)
      PROVE  Contains(base, extent, address, size)
  <2>1. address \in Covered(base, extent) /\ address + size - 1 \in Covered(base, extent)
    <3>1. address \in Covered(address, size) /\ address + size - 1 \in Covered(address, size)
      BY DEF Covered
    <3> QED BY <3>1, <1>2
  <2> QED BY <2>1 DEF Contains, Covered
<1> QED BY <1>1, <1>2

\* The same on addresses that may lie below zero, in the words of the contract.
LEMMA ContainsIsBytes ==
  ASSUME NEW base \in Nat, NEW extent \in Nat, NEW address \in Int, NEW size \in Nat \ {0}
  PROVE  Contains(base, extent, address, size) <=>
           base # 0 /\ Bytes(address, size) \subseteq Bytes(base, extent)
<1>1. ASSUME Contains(base, extent, address, size)
      PROVE  base # 0 /\ Bytes(address, size) \subseteq Bytes(base, extent)
  BY <1>1 DEF Contains, Bytes
<1>2. ASSUME base # 0, Bytes(address, size) \subseteq Bytes(base, extent)
      PROVE  Contains(base, extent, address, size)
  <2>1. address \in Bytes(address, size) /\ address + size - 1 \in Bytes(address, size)
    BY DEF Bytes
  <2>2. address \in Bytes(base, extent) /\ address + size - 1 \in Bytes(base, extent)
    BY <1>2, <2>1
  <2> QED BY <1>2, <2>2 DEF Contains, Bytes
<1> QED BY <1>1, <1>2

\* The tests of the bridge, on what they test.
LEMMA InImageIsBytes ==
  ASSUME NEW identity, identity.base \in Nat, identity.size \in Nat, identity.base # 0,
         NEW address \in Int, NEW size \in Nat \ {0}
  PROVE  InImage(identity, address, size) <=>
           Bytes(address, size) \subseteq Bytes(identity.base, identity.size)
BY ContainsIsBytes DEF InImage

LEMMA InRegionIsBytes ==
  ASSUME NEW region, region.base \in Nat, region.size \in Nat,
         NEW address \in Int, NEW size \in Nat \ {0}
  PROVE  IsRegionOf(region, address, size) <=>
           region.base # 0 /\ Bytes(address, size) \subseteq Bytes(region.base, region.size)
BY ContainsIsBytes DEF IsRegionOf

LEMMA OneByte ==
  ASSUME NEW address \in Int
  PROVE  Bytes(address, 1) = {address}
BY DEF Bytes
-----------------------------------------------------------------------------
\* An evaluation that names a record is an admission, and says no less.
RuntimeIsEvaluated ==
  /\ runtime.status \in {"Admitted", "Rejected"} /\ runtime.matched \in Nat
  /\ runtime.status = "Admitted" <=> runtime.diagnostic = "None"
  /\ runtime.matched # NoMatch => runtime.status = "Admitted"

\* What the runtime accepts of an identity is that it is the executable the
\* runtime is built for, where it is loaded.
LEMMA MatchIsSupport ==
  ASSUME RuntimeIsEvaluated, NEW identity \in Identity
  PROVE  MatchesSupportedRuntime(identity, runtime) <=> IsSupported(identity)
<1>1. identity.base \in Nat /\ identity.size \in Nat /\ WordMax \in Nat
  BY BridgeAssumption, ObservationAssumption DEF Word
<1>2. IsValidRange(identity) <=>
        identity.base > 0 /\ identity.size > 0 /\ identity.base + identity.size <= WordMax
  <2> DEFINE base == identity.base
             size == identity.size
  <2>1. base \in Nat /\ size \in Nat /\ WordMax \in Nat
    BY <1>1
  <2> HIDE DEF base, size
  <2>2. base # 0 /\ size # 0 /\ base <= WordMax - size <=>
          base > 0 /\ size > 0 /\ base + size <= WordMax
    BY <2>1
  <2> QED BY <2>2 DEF IsValidRange, base, size
<1>3. ASSUME NEW i \in DOMAIN BuiltIn
      PROVE  /\ BuiltIn[i].identifier # Missing /\ BuiltIn[i].architecture = "X64"
             /\ i # NoMatch
  BY BridgeAssumption DEF NoMatch
<1>4. ASSUME MatchesSupportedRuntime(identity, runtime)
      PROVE  IsSupported(identity)
  <2> USE DEF MatchesSupportedRuntime
  <2>1. /\ BuiltIn[runtime.matched].fingerprint = identity.fingerprint
        /\ BuiltIn[runtime.matched].architecture = identity.architecture
        /\ runtime.matched \in DOMAIN BuiltIn
    BY <1>4
  <2>2. /\ identity.base > 0 /\ identity.size > 0 /\ identity.base + identity.size <= WordMax
        /\ identity.module = "SkyrimSE.exe"
    BY <1>2, <1>4
  <2>3. [f |-> runtime.fingerprint, b |-> runtime.base, s |-> runtime.size] =
          [f |-> identity.fingerprint, b |-> identity.base, s |-> identity.size]
    BY <1>4
  <2> QED BY <2>1, <2>2, <2>3 DEF IsSupported
<1>5. ASSUME IsSupported(identity)
      PROVE  MatchesSupportedRuntime(identity, runtime)
  <2>1. /\ runtime.matched \in DOMAIN BuiltIn
        /\ BuiltIn[runtime.matched].fingerprint = identity.fingerprint
        /\ BuiltIn[runtime.matched].architecture = identity.architecture
    BY <1>5 DEF IsSupported
  <2>2. /\ BuiltIn[runtime.matched].identifier # Missing /\ identity.architecture = "X64"
        /\ runtime.status = "Admitted" /\ runtime.diagnostic = "None"
    BY <1>3, <2>1 DEF RuntimeIsEvaluated
  <2>3. IsValidRange(identity) /\ identity.module = "SkyrimSE.exe"
    BY <1>2, <1>5 DEF IsSupported
  <2>4. /\ runtime.fingerprint = identity.fingerprint
        /\ runtime.base = identity.base /\ runtime.size = identity.size
    BY <1>5 DEF IsSupported
  <2> QED BY <2>1, <2>2, <2>3, <2>4 DEF MatchesSupportedRuntime
<1> QED BY <1>4, <1>5

\* The provider is asked exactly when it is eligible for the descriptor.
LEMMA ProviderIsEligible ==
  ASSUME RuntimeIsEvaluated, NEW identity \in Identity, NEW provider, NEW descriptor
  PROVE  AllPass(ProviderChecks(identity, runtime, provider, descriptor))
           <=> IsEligible(identity, provider, descriptor)
<1> DEFINE checks == ProviderChecks(identity, runtime, provider, descriptor)
<1>1. AllPass(checks) <=> /\ checks[1][1] /\ checks[2][1] /\ checks[3][1]
                          /\ checks[4][1] /\ checks[5][1] /\ checks[6][1]
  BY DEF ProviderChecks, AllPass
<1>2. checks[1][1] <=> runtime.status = "Admitted"
  BY DEF ProviderChecks
<1>3. checks[2][1] <=> MatchesSupportedRuntime(identity, runtime)
  BY DEF ProviderChecks
<1>4. checks[3][1] <=> provider.available
  BY DEF ProviderChecks
<1>5. checks[4][1] <=> [target |-> provider.target, artifact |-> provider.artifact] \in Providers
  BY DEF ProviderChecks
<1>6. checks[5][1] <=> /\ provider.target.version = identity.fingerprint.version
                       /\ provider.target = descriptor.target
  BY DEF ProviderChecks
<1>7. checks[6][1] <=> /\ InRange(provider.version, descriptor.provider)
                       /\ InRange(provider.adapter, descriptor.adapter)
  BY DEF ProviderChecks
<1>8. MatchesSupportedRuntime(identity, runtime) => runtime.status = "Admitted"
  BY DEF MatchesSupportedRuntime
<1>9. MatchesSupportedRuntime(identity, runtime) <=> IsSupported(identity)
  BY MatchIsSupport
<1> HIDE DEF checks
<1>10. AllPass(checks) <=> IsEligible(identity, provider, descriptor)
  BY <1>1, <1>2, <1>3, <1>4, <1>5, <1>6, <1>7, <1>8, <1>9 DEF IsEligible
<1> QED BY <1>10 DEF checks
-----------------------------------------------------------------------------
AnswerType ==
  [address : Word \cup {Unresolved}, region : MemoryRegion,
   read : {"failed", "equal", "different"}, rtti : BOOLEAN,
   entry : Word, entryRegion : MemoryRegion]

\* An adapter answers with values of the types of its interface.
LEMMA AnswersAreTyped ==
  ASSUME NEW descriptor \in Descriptor
  PROVE  Answers(descriptor) \subseteq AnswerType
<1>1. Nowhere \in MemoryRegion /\ 0 \in Word
  BY BridgeAssumption DEF Nowhere, MemoryRegion, Word
<1>2. Region \subseteq MemoryRegion /\ Address \subseteq Word \cup {Unresolved}
  BY ObservationAssumption
<1> SUFFICES ASSUME NEW answer \in Answers(descriptor)
             PROVE  answer \in AnswerType
  OBVIOUS
<1> DEFINE isAsked == AllPass(ProviderChecks(call.identity, runtime, call.provider, descriptor))
           isSlot == descriptor.contract = "DeclaredVtableSlot"
           isRead == descriptor.contract # "ReadOnlyData"
           addresses == IF isAsked THEN Address ELSE {Unresolved}
           regions == IF isAsked THEN Region \cup {Nowhere} ELSE {Nowhere}
           reads == {"failed"} \cup IF ~isAsked \/ ~isRead THEN {}
                                    ELSE IF isSlot THEN {"equal"} ELSE {"equal", "different"}
           rttis == IF isAsked /\ isSlot THEN BOOLEAN ELSE {FALSE}
           slots == IF isAsked /\ isSlot THEN Address \ {Unresolved} ELSE {0}
           slotRegions == IF isAsked /\ isSlot THEN Region \cup {Nowhere} ELSE {Nowhere}
<1>3. answer \in [address : addresses, region : regions, read : reads, rtti : rttis,
                  entry : slots, entryRegion : slotRegions]
  BY DEF Answers
<1> HIDE DEF isAsked, isSlot, isRead
<1>4. addresses \subseteq Word \cup {Unresolved} /\ regions \subseteq MemoryRegion
  BY <1>1, <1>2
<1>5. slots \subseteq Word /\ slotRegions \subseteq MemoryRegion
  BY <1>1, <1>2
<1>6. rttis \subseteq BOOLEAN
  BY Zenon
<1>7. reads \subseteq {"failed", "equal", "different"}
  OBVIOUS
<1> HIDE DEF addresses, regions, reads, rttis, slots, slotRegions
<1> QED BY <1>3, <1>4, <1>5, <1>6, <1>7 DEF AnswerType

\* A range of bytes as large as a pointer that lies in a range of words did not
\* wrap on the way there.
LEMMA SlotDoesNotWrap ==
  ASSUME NEW address \in Nat, NEW slot \in Nat, NEW base \in Nat, NEW size \in Nat,
         base + size <= WordMax,
         Bytes(address + slot * PointerSize, PointerSize) \subseteq Bytes(base, size)
  PROVE  /\ slot <= WordMax \div PointerSize
         /\ address + slot * PointerSize <= WordMax
<1> DEFINE offset == slot * PointerSize
<1>1. WordMax \in Nat /\ PointerSize \in Nat \ {0} /\ offset \in Nat
  BY BridgeAssumption
<1>2. address + offset <= WordMax
  <2> HIDE DEF offset
  <2>1. address + offset \in Bytes(address + offset, PointerSize)
    BY <1>1 DEF Bytes
  <2>2. address + offset \in Bytes(base, size)
    BY <2>1 DEF offset
  <2> QED BY <1>1, <2>2 DEF Bytes
<1>3. offset <= WordMax
  <2> HIDE DEF offset
  <2> QED BY <1>1, <1>2
<1>4. slot <= WordMax \div PointerSize
  BY <1>1, <1>3
<1> QED BY <1>2, <1>4

\* What an image and an answer are: the facts the contracts are decided on.
Placed(identity, descriptor, answer) ==
  /\ identity.base \in Nat /\ identity.size \in Nat /\ identity.base # 0
  /\ identity.base + identity.size <= WordMax
  /\ descriptor \in Descriptor /\ answer \in AnswerType
  /\ answer.address \in Bytes(identity.base, identity.size)
  /\ descriptor.identifier # Missing /\ descriptor.relocationId # 0

LEMMA PlacedTypes ==
  ASSUME NEW identity, NEW descriptor, NEW answer, Placed(identity, descriptor, answer)
  PROVE  /\ answer.address \in Nat /\ answer.entry \in Nat
         /\ answer.region.base \in Nat /\ answer.region.size \in Nat
         /\ answer.entryRegion.base \in Nat /\ answer.entryRegion.size \in Nat
         /\ descriptor.prologue \in Nat /\ descriptor.slot \in Nat
         /\ identity.base \in Nat /\ identity.size \in Nat /\ identity.base # 0
         /\ identity.base + identity.size <= WordMax
<1>1. answer \in AnswerType /\ descriptor \in Descriptor
  BY DEF Placed
<1>2. /\ answer.address \in Int /\ answer.entry \in Word
      /\ answer.region \in MemoryRegion /\ answer.entryRegion \in MemoryRegion
  BY <1>1 DEF AnswerType, Word, Unresolved
<1>3. /\ answer.region.base \in Nat /\ answer.region.size \in Nat
      /\ answer.entryRegion.base \in Nat /\ answer.entryRegion.size \in Nat
  BY <1>2 DEF MemoryRegion, Word
<1>4. descriptor.prologue \in Nat /\ descriptor.slot \in Nat
  BY <1>1 DEF Descriptor, Word
<1>5. /\ identity.base \in Nat /\ identity.size \in Nat /\ identity.base # 0
      /\ identity.base + identity.size <= WordMax
      /\ answer.address \in Bytes(identity.base, identity.size)
  BY DEF Placed
<1>6. answer.address \in Nat
  BY <1>2, <1>5 DEF Bytes
<1> QED BY <1>2, <1>3, <1>4, <1>5, <1>6 DEF Word

LEMMA SizeOfBytes ==
  ASSUME NEW address \in Int, NEW size \in Nat
  PROVE  Cardinality(Bytes(address, size)) = size
<1>1. address + size - 1 \in Int
  OBVIOUS
<1>2. Cardinality(address..(address + size - 1)) =
        IF address > address + size - 1 THEN 0 ELSE address + size - 1 - address + 1
  BY <1>1, FS_Interval
<1> QED BY <1>2 DEF Bytes

LEMMA DataIsKept ==
  ASSUME NEW identity, NEW descriptor, NEW answer, Placed(identity, descriptor, answer),
         descriptor.contract = "ReadOnlyData"
  PROVE  AllPass(ReadOnlyDataChecks(answer)) <=> KeepsContract(identity, descriptor, answer)
<1> DEFINE checks == ReadOnlyDataChecks(answer)
<1>1. AllPass(checks) <=> checks[1][1] /\ checks[2][1]
  BY DEF ReadOnlyDataChecks, AllPass
<1>2. checks[1][1] <=> IsRegionOf(answer.region, answer.address, 1)
  BY DEF ReadOnlyDataChecks
<1>3. checks[2][1] <=> answer.region.readable
  BY DEF ReadOnlyDataChecks
<1>4. answer.address \in Int /\ answer.region.base \in Nat /\ answer.region.size \in Nat
  BY PlacedTypes
<1>5. IsRegionOf(answer.region, answer.address, 1) <=>
        /\ answer.region.base # 0
        /\ {answer.address} \subseteq Bytes(answer.region.base, answer.region.size)
  BY <1>4, ContainsIsBytes, OneByte DEF IsRegionOf
<1>6. KeepsContract(identity, descriptor, answer) <=> IsReadable(answer.region, {answer.address})
  BY DEF KeepsContract, Placed
<1> HIDE DEF checks
<1>7. AllPass(checks) <=> KeepsContract(identity, descriptor, answer)
  BY <1>1, <1>2, <1>3, <1>5, <1>6 DEF IsReadable
<1> QED BY <1>7 DEF checks

LEMMA PrologueIsKept ==
  ASSUME NEW identity, NEW descriptor, NEW answer, Placed(identity, descriptor, answer),
         descriptor.contract = "CompleteFunctionPrologue"
  PROVE  descriptor.prologue > 0 /\ AllPass(PrologueChecks(identity, descriptor, answer))
           <=> KeepsContract(identity, descriptor, answer)
<1> DEFINE checks == PrologueChecks(identity, descriptor, answer)
           code == Bytes(answer.address, descriptor.prologue)
           image == Bytes(identity.base, identity.size)
<1>1. AllPass(checks) <=> /\ checks[1][1] /\ checks[2][1] /\ checks[3][1] /\ checks[4][1]
                          /\ checks[5][1] /\ checks[6][1] /\ checks[7][1]
  BY DEF PrologueChecks, AllPass
<1>2. checks[1][1] <=> InImage(identity, answer.address, descriptor.prologue)
  BY DEF PrologueChecks
<1>3. checks[2][1] <=> IsRegionOf(answer.region, answer.address, descriptor.prologue)
  BY DEF PrologueChecks
<1>4. checks[3][1] <=> answer.region.readable
  BY DEF PrologueChecks
<1>5. checks[4][1] <=> answer.region.executable
  BY DEF PrologueChecks
<1>6. checks[5][1] <=> descriptor.prologue <= MaxPrologue
  BY DEF PrologueChecks
<1>7. checks[6][1] /\ checks[7][1] <=> answer.read = "equal"
  BY DEF PrologueChecks
<1>8. /\ answer.address \in Int /\ answer.region.base \in Nat /\ answer.region.size \in Nat
      /\ descriptor.prologue \in Nat /\ identity.base \in Nat /\ identity.size \in Nat
      /\ identity.base # 0
  BY PlacedTypes
<1>9. KeepsContract(identity, descriptor, answer) <=>
        /\ code # {} /\ code \subseteq image /\ IsCode(answer.region, code)
        /\ Cardinality(code) <= MaxPrologue /\ answer.read = "equal"
  BY DEF KeepsContract, Placed
<1>10. code # {} <=> descriptor.prologue > 0
  <2> DEFINE address == answer.address
             bytes == descriptor.prologue
  <2>1. address \in Int /\ bytes \in Nat
    BY <1>8
  <2> HIDE DEF address, bytes
  <2>2. bytes > 0 => address \in Bytes(address, bytes)
    BY <2>1 DEF Bytes
  <2>3. bytes = 0 => Bytes(address, bytes) = {}
    BY <2>1 DEF Bytes
  <2>4. Bytes(address, bytes) # {} <=> bytes > 0
    BY <2>1, <2>2, <2>3
  <2> QED BY <2>4 DEF address, bytes
<1>11. Cardinality(code) = descriptor.prologue
  BY <1>8, SizeOfBytes
<1>12. ASSUME descriptor.prologue > 0
       PROVE  /\ InImage(identity, answer.address, descriptor.prologue) <=> code \subseteq image
              /\ IsRegionOf(answer.region, answer.address, descriptor.prologue) <=>
                   /\ answer.region.base # 0
                   /\ code \subseteq Bytes(answer.region.base, answer.region.size)
  <2>1. descriptor.prologue \in Nat \ {0}
    BY <1>8, <1>12
  <2>2. InImage(identity, answer.address, descriptor.prologue) <=> code \subseteq image
    BY <1>8, <2>1, ContainsIsBytes DEF InImage
  <2>3. IsRegionOf(answer.region, answer.address, descriptor.prologue) <=>
          /\ answer.region.base # 0
          /\ code \subseteq Bytes(answer.region.base, answer.region.size)
    BY <1>8, <2>1, ContainsIsBytes DEF IsRegionOf
  <2> QED BY <2>2, <2>3
<1> HIDE DEF checks, code, image
<1>13. descriptor.prologue > 0 /\ AllPass(checks) <=> KeepsContract(identity, descriptor, answer)
  BY <1>1, <1>2, <1>3, <1>4, <1>5, <1>6, <1>7, <1>9, <1>10, <1>11, <1>12 DEF IsCode, IsReadable
<1> QED BY <1>13 DEF checks

LEMMA SlotIsKept ==
  ASSUME NEW identity, NEW descriptor, NEW answer, Placed(identity, descriptor, answer),
         descriptor.contract = "DeclaredVtableSlot"
  PROVE  descriptor.rtti # Missing /\ AllPass(VtableChecks(identity, descriptor, answer))
           <=> KeepsContract(identity, descriptor, answer)
<1> DEFINE checks == VtableChecks(identity, descriptor, answer)
           unwrapped == answer.address + descriptor.slot * PointerSize
           address == SlotAddress(descriptor, answer)
           slot == Bytes(unwrapped, PointerSize)
           image == Bytes(identity.base, identity.size)
<1>1. AllPass(checks) <=> /\ checks[1][1] /\ checks[2][1] /\ checks[3][1] /\ checks[4][1]
                          /\ checks[5][1] /\ checks[6][1] /\ checks[7][1] /\ checks[8][1]
                          /\ checks[9][1] /\ checks[10][1] /\ checks[11][1]
  BY DEF VtableChecks, AllPass
<1>2. checks[1][1] <=> descriptor.slot <= WordMax \div PointerSize
  BY DEF VtableChecks
<1>3. checks[2][1] <=> SlotFits(answer.address, descriptor.slot * PointerSize)
  BY DEF VtableChecks
<1>4. checks[3][1] <=> InImage(identity, address, PointerSize)
  BY DEF VtableChecks
<1>5. checks[4][1] <=> IsRegionOf(answer.region, address, PointerSize)
  BY DEF VtableChecks
<1>6. checks[5][1] <=> answer.region.readable
  BY DEF VtableChecks
<1>7. checks[6][1] <=> answer.rtti
  BY DEF VtableChecks
<1>8. checks[7][1] <=> answer.read # "failed"
  BY DEF VtableChecks
<1>9. checks[8][1] <=> InImage(identity, answer.entry, 1)
  BY DEF VtableChecks
<1>10. checks[9][1] <=> IsRegionOf(answer.entryRegion, answer.entry, 1)
  BY DEF VtableChecks
<1>11. checks[10][1] <=> answer.entryRegion.readable
  BY DEF VtableChecks
<1>12. checks[11][1] <=> answer.entryRegion.executable
  BY DEF VtableChecks
<1>13. /\ WordMax \in Nat /\ PointerSize \in Nat \ {0}
       /\ answer.address \in Nat /\ descriptor.slot \in Nat /\ answer.entry \in Nat
       /\ answer.region.base \in Nat /\ answer.region.size \in Nat
       /\ answer.entryRegion.base \in Nat /\ answer.entryRegion.size \in Nat
       /\ identity.base \in Nat /\ identity.size \in Nat /\ identity.base # 0
       /\ identity.base + identity.size <= WordMax
  BY PlacedTypes, BridgeAssumption
<1>14. KeepsContract(identity, descriptor, answer) <=>
         /\ slot \subseteq image /\ IsReadable(answer.region, slot)
         /\ descriptor.rtti # Missing /\ answer.rtti /\ answer.read # "failed"
         /\ answer.entry \in image /\ IsCode(answer.entryRegion, {answer.entry})
  BY DEF KeepsContract, Placed
<1>15. InImage(identity, answer.entry, 1) <=> answer.entry \in image
  <2>1. Bytes(answer.entry, 1) = {answer.entry}
    BY <1>13, OneByte
  <2>2. InImage(identity, answer.entry, 1) <=> Bytes(answer.entry, 1) \subseteq image
    BY <1>13, InImageIsBytes
  <2> QED BY <2>1, <2>2
<1>16. IsRegionOf(answer.entryRegion, answer.entry, 1) <=>
         /\ answer.entryRegion.base # 0
         /\ {answer.entry} \subseteq Bytes(answer.entryRegion.base, answer.entryRegion.size)
  <2>1. Bytes(answer.entry, 1) = {answer.entry}
    BY <1>13, OneByte
  <2>2. IsRegionOf(answer.entryRegion, answer.entry, 1) <=>
          /\ answer.entryRegion.base # 0
          /\ Bytes(answer.entry, 1) \subseteq
                Bytes(answer.entryRegion.base, answer.entryRegion.size)
    BY <1>13, InRegionIsBytes
  <2> QED BY <2>1, <2>2
<1>17. unwrapped \in Nat
  BY <1>13
<1>18. ASSUME SlotFits(answer.address, descriptor.slot * PointerSize)
       PROVE  address = unwrapped
  <2> DEFINE offset == descriptor.slot * PointerSize
  <2>1. offset \in Nat
    BY <1>13
  <2>2. answer.address <= WordMax - offset
    BY <1>18 DEF SlotFits
  <2> HIDE DEF offset
  <2>3. (answer.address + offset) % (WordMax + 1) = answer.address + offset
    BY <1>13, <2>1, <2>2
  <2> QED BY <2>3 DEF SlotAddress, Wrap, offset
<1>19. ASSUME slot \subseteq image
       PROVE  /\ descriptor.slot <= WordMax \div PointerSize
              /\ SlotFits(answer.address, descriptor.slot * PointerSize)
  <2>1. /\ descriptor.slot <= WordMax \div PointerSize
        /\ answer.address + descriptor.slot * PointerSize <= WordMax
    BY <1>13, <1>19, SlotDoesNotWrap
  <2> DEFINE offset == descriptor.slot * PointerSize
  <2>2. offset \in Nat /\ answer.address + offset <= WordMax
    BY <1>13, <2>1
  <2> HIDE DEF offset
  <2>3. answer.address <= WordMax - offset
    BY <1>13, <2>2
  <2> QED BY <2>1, <2>3 DEF SlotFits, offset
<1> HIDE DEF checks, unwrapped, image
<1>20. ASSUME address = unwrapped
       PROVE  /\ InImage(identity, address, PointerSize) <=> slot \subseteq image
              /\ IsRegionOf(answer.region, address, PointerSize) <=>
                   /\ answer.region.base # 0
                   /\ slot \subseteq Bytes(answer.region.base, answer.region.size)
  <2> HIDE DEF address
  <2>1. InImage(identity, unwrapped, PointerSize) <=> slot \subseteq image
    BY <1>13, <1>17, InImageIsBytes DEF image
  <2>2. IsRegionOf(answer.region, unwrapped, PointerSize) <=>
          /\ answer.region.base # 0
          /\ slot \subseteq Bytes(answer.region.base, answer.region.size)
    BY <1>13, <1>17, InRegionIsBytes
  <2> QED BY <1>20, <2>1, <2>2
<1> HIDE DEF slot, address
<1>21. (descriptor.rtti # Missing /\ AllPass(checks))
         <=> KeepsContract(identity, descriptor, answer)
  BY <1>1, <1>2, <1>3, <1>4, <1>5, <1>6, <1>7, <1>8, <1>9, <1>10, <1>11, <1>12,
     <1>14, <1>15, <1>16, <1>18, <1>19, <1>20 DEF IsCode, IsReadable
<1> QED BY <1>21 DEF checks
-----------------------------------------------------------------------------
Coded(checks) ==
  LET elements == {checks[i] : i \in DOMAIN checks}
  IN  /\ checks \in Seq(elements) /\ Len(checks) \in Nat /\ DOMAIN checks = 1..Len(checks)
      /\ \A i \in DOMAIN checks : checks[i][2] \in SymbolDiagnostic

\* The three lists of checks of a symbol, each with the codes of the enumeration.
LEMMA ProviderChecksAreCoded ==
  ASSUME NEW identity, NEW provider, NEW descriptor
  PROVE  Coded(ProviderChecks(identity, runtime, provider, descriptor))
BY DEF ProviderChecks, Coded, SymbolDiagnostic

LEMMA ContractChecksAreCoded ==
  ASSUME NEW identity, NEW descriptor \in Descriptor, NEW answer
  PROVE  Coded(ContractChecks(identity, descriptor, answer))
<1>1. CASE descriptor.contract = "ReadOnlyData"
  <2>1. ContractChecks(identity, descriptor, answer) = ReadOnlyDataChecks(answer)
    BY <1>1 DEF ContractChecks
  <2>2. Coded(ReadOnlyDataChecks(answer))
    BY DEF ReadOnlyDataChecks, Coded, SymbolDiagnostic
  <2> QED BY <2>1, <2>2
<1>2. CASE descriptor.contract = "CompleteFunctionPrologue"
  <2>1. ContractChecks(identity, descriptor, answer) =
          PrologueChecks(identity, descriptor, answer)
    BY <1>2 DEF ContractChecks
  <2>2. Coded(PrologueChecks(identity, descriptor, answer))
    BY DEF PrologueChecks, Coded, SymbolDiagnostic
  <2> QED BY <2>1, <2>2
<1>3. CASE descriptor.contract = "DeclaredVtableSlot"
  <2>1. ContractChecks(identity, descriptor, answer) =
          VtableChecks(identity, descriptor, answer)
    BY <1>3 DEF ContractChecks
  <2>2. Coded(VtableChecks(identity, descriptor, answer))
    BY DEF VtableChecks, Coded, SymbolDiagnostic
  <2> QED BY <2>1, <2>2
<1> QED BY <1>1, <1>2, <1>3 DEF Descriptor

LEMMA CodedInARow ==
  ASSUME NEW first, NEW second, Coded(first), Coded(second)
  PROVE  /\ Coded(first \o second)
         /\ AllPass(first \o second) <=> AllPass(first) /\ AllPass(second)
<1> DEFINE all == {first[i] : i \in DOMAIN first} \cup {second[i] : i \in DOMAIN second}
           both == first \o second
<1>1. first \in Seq(all) /\ second \in Seq(all)
  BY DEF Coded
<1>2. \A one \in all : one[2] \in SymbolDiagnostic
  BY DEF Coded
<1> HIDE DEF all
<1>3. both \in Seq(all) /\ Len(both) \in Nat /\ DOMAIN both = 1..Len(both)
  BY <1>1
<1> HIDE DEF both
<1>4. \A i \in DOMAIN both : both[i][2] \in SymbolDiagnostic
  BY <1>2, <1>3
<1>5. both \in Seq({both[i] : i \in DOMAIN both})
  BY <1>3
<1>6. Coded(both)
  BY <1>3, <1>4, <1>5 DEF Coded
<1> QED BY <1>1, <1>6, AllPassInARow DEF both

LEMMA FirstFailureIsCoded ==
  ASSUME NEW checks, Coded(checks), ~AllPass(checks)
  PROVE  FirstFailure(checks) \in SymbolDiagnostic
<1>1. PICK k \in 1..Len(checks) : FirstFailure(checks) = checks[k][2]
  BY FirstFailureFails DEF Coded
<1> QED BY <1>1 DEF Coded

\* A symbol validates exactly when the executable and the provider are eligible
\* and its contract is kept; and what it is refused for is of the enumeration.
LEMMA SymbolIsJustified ==
  ASSUME RuntimeIsEvaluated, NEW identity \in Identity, NEW provider,
         NEW descriptor \in Descriptor, NEW answer \in AnswerType
  PROVE  LET validation == ValidateSymbol(identity, runtime, provider, descriptor, answer)
             kept == /\ IsEligible(identity, provider, descriptor)
                     /\ KeepsContract(identity, descriptor, answer)
         IN  /\ validation.status = "Validated" <=> kept
             /\ validation.diagnostic \in SymbolDiagnostic
             /\ validation.hook <=> kept /\ descriptor.contract # "ReadOnlyData"
<1> DEFINE eligible == IsEligible(identity, provider, descriptor)
           keeps == KeepsContract(identity, descriptor, answer)
           providerChecks == ProviderChecks(identity, runtime, provider, descriptor)
           contractChecks == ContractChecks(identity, descriptor, answer)
           isComplete == /\ descriptor.identifier # Missing /\ descriptor.relocationId # 0
                         /\ descriptor.contract = "CompleteFunctionPrologue" => descriptor.prologue > 0
                         /\ descriptor.contract = "DeclaredVtableSlot" => descriptor.rtti # Missing
           ownChecks == << <<isComplete, "InvalidDescriptor">>,
                           <<answer.address # Unresolved, "AddressUnresolved">>,
                           <<InImage(identity, answer.address, 1), "AddressOutsideModule">> >>
           checks == SymbolChecks(identity, runtime, provider, descriptor, answer)
           image == Bytes(identity.base, identity.size)
<1>1. checks = (providerChecks \o ownChecks) \o contractChecks
  BY DEF SymbolChecks
<1>2. Coded(providerChecks) /\ Coded(contractChecks)
  BY ProviderChecksAreCoded, ContractChecksAreCoded
<1>3. Coded(ownChecks)
  <2> HIDE DEF isComplete
  <2> QED BY DEF Coded, SymbolDiagnostic
<1>4. AllPass(ownChecks) <=> /\ isComplete /\ answer.address # Unresolved
                             /\ InImage(identity, answer.address, 1)
  <2> HIDE DEF isComplete
  <2>1. AllPass(ownChecks) <=> ownChecks[1][1] /\ ownChecks[2][1] /\ ownChecks[3][1]
    BY DEF AllPass
  <2>2. ownChecks[1][1] <=> isComplete
    OBVIOUS
  <2>3. ownChecks[2][1] <=> answer.address # Unresolved
    OBVIOUS
  <2>4. ownChecks[3][1] <=> InImage(identity, answer.address, 1)
    OBVIOUS
  <2> HIDE DEF ownChecks
  <2> QED BY <2>1, <2>2, <2>3, <2>4
<1>5. /\ Coded(checks)
      /\ AllPass(checks) <=> AllPass(providerChecks) /\ AllPass(ownChecks) /\ AllPass(contractChecks)
  <2> HIDE DEF providerChecks, ownChecks, contractChecks, checks
  <2> DEFINE front == providerChecks \o ownChecks
  <2>1. Coded(front) /\ (AllPass(front) <=> AllPass(providerChecks) /\ AllPass(ownChecks))
    BY <1>2, <1>3, CodedInARow
  <2> HIDE DEF front
  <2>2. /\ Coded(front \o contractChecks)
        /\ AllPass(front \o contractChecks) <=> AllPass(front) /\ AllPass(contractChecks)
    BY <1>2, <2>1, CodedInARow
  <2> QED BY <1>1, <2>1, <2>2 DEF front
<1>6. AllPass(providerChecks) <=> eligible
  BY ProviderIsEligible
<1>7. ASSUME eligible
      PROVE  /\ identity.base \in Nat /\ identity.size \in Nat /\ identity.base # 0
             /\ identity.base + identity.size <= WordMax
  BY <1>7, ObservationAssumption, BridgeAssumption DEF IsEligible, IsSupported, Word
<1>8. answer.address \in Int
  BY BridgeAssumption DEF AnswerType, Word, Unresolved
<1>9. ASSUME eligible
      PROVE  /\ InImage(identity, answer.address, 1) <=> answer.address \in image
             /\ answer.address \in image => answer.address # Unresolved
  <2>1. Bytes(answer.address, 1) = {answer.address}
    BY <1>8, OneByte
  <2>2. InImage(identity, answer.address, 1) <=> Bytes(answer.address, 1) \subseteq image
    BY <1>7, <1>8, <1>9, InImageIsBytes
  <2>3. answer.address \in image => answer.address # Unresolved
    BY <1>7, <1>9 DEF Bytes, Unresolved
  <2> QED BY <2>1, <2>2, <2>3
<1>10. ASSUME eligible, answer.address \in image,
              descriptor.identifier # Missing, descriptor.relocationId # 0
       PROVE  keeps <=> isComplete /\ AllPass(contractChecks)
  <2>1. Placed(identity, descriptor, answer)
    BY <1>7, <1>10 DEF Placed
  <2>2. CASE descriptor.contract = "ReadOnlyData"
    <3>1. contractChecks = ReadOnlyDataChecks(answer)
      BY <2>2 DEF ContractChecks
    <3>2. isComplete
      BY <1>10, <2>2
    <3> QED BY <2>1, <2>2, <3>1, <3>2, DataIsKept
  <2>3. CASE descriptor.contract = "CompleteFunctionPrologue"
    <3>1. contractChecks = PrologueChecks(identity, descriptor, answer)
      BY <2>3 DEF ContractChecks
    <3>2. isComplete <=> descriptor.prologue > 0
      BY <1>10, <2>3
    <3> QED BY <2>1, <2>3, <3>1, <3>2, PrologueIsKept
  <2>4. CASE descriptor.contract = "DeclaredVtableSlot"
    <3>1. contractChecks = VtableChecks(identity, descriptor, answer)
      BY <2>4 DEF ContractChecks
    <3>2. isComplete <=> descriptor.rtti # Missing
      BY <1>10, <2>4
    <3> QED BY <2>1, <2>4, <3>1, <3>2, SlotIsKept
  <2> QED BY <2>2, <2>3, <2>4 DEF Descriptor
<1>11. keeps => /\ answer.address \in image
                /\ descriptor.identifier # Missing /\ descriptor.relocationId # 0
  BY DEF KeepsContract
<1>12. isComplete => descriptor.identifier # Missing /\ descriptor.relocationId # 0
  OBVIOUS
<1> DEFINE validation == ValidateSymbol(identity, runtime, provider, descriptor, answer)
           isData == descriptor.contract = "ReadOnlyData"
<1>13. IF AllPass(checks)
       THEN validation.status = "Validated" /\ validation.diagnostic = "None"
            /\ (validation.hook <=> ~isData)
       ELSE validation.status = "Rejected" /\ validation.diagnostic = FirstFailure(checks)
            /\ ~validation.hook
  <2> HIDE DEF checks
  <2>1. CASE AllPass(checks)
    BY <2>1 DEF ValidateSymbol, checks
  <2>2. CASE ~AllPass(checks)
    BY <2>2 DEF ValidateSymbol, RejectedSymbol, checks
  <2> QED BY <2>1, <2>2
<1> HIDE DEF eligible, keeps, providerChecks, ownChecks, contractChecks, isComplete, checks, image,
             validation, isData
<1>14. AllPass(checks) <=> eligible /\ keeps
  BY <1>4, <1>5, <1>6, <1>9, <1>10, <1>11, <1>12
<1>15. validation.diagnostic \in SymbolDiagnostic
  BY <1>5, <1>13, FirstFailureIsCoded DEF SymbolDiagnostic
<1>16. validation.status = "Validated" <=> eligible /\ keeps
  BY <1>13, <1>14
<1>17. validation.hook <=> eligible /\ keeps /\ ~isData
  BY <1>13, <1>14
<1> QED BY <1>15, <1>16, <1>17 DEF eligible, keeps, validation, isData
-----------------------------------------------------------------------------
Mine(capability) == {i \in DOMAIN evidence : evidence[i].capability = capability}
Broken(capability) == {i \in Mine(capability) : ~evidence[i].kept}
LeastOf(positions) == CHOOSE i \in positions : \A j \in positions : i <= j

LEMMA LeastIsUnique ==
  ASSUME NEW positions, positions \subseteq Nat,
         NEW i \in positions, \A j \in positions : i <= j
  PROVE  LeastOf(positions) = i
<1>1. /\ LeastOf(positions) \in positions /\ \A j \in positions : LeastOf(positions) <= j
  BY DEF LeastOf
<1>2. LeastOf(positions) \in Nat /\ i \in Nat
  BY <1>1
<1> QED BY <1>1, <1>2

LEMMA LeastIsFirst ==
  ASSUME NEW positions, positions \subseteq Nat, positions # {}
  PROVE  /\ LeastOf(positions) \in positions
         /\ \A j \in positions : LeastOf(positions) <= j
BY LeastNatural DEF LeastOf

Piece == [capability : Capability, diagnostic : SymbolDiagnostic, hook : BOOLEAN, kept : BOOLEAN]
OneTally == [seen : BOOLEAN, rejected : BOOLEAN, hook : BOOLEAN, diagnostic : SymbolDiagnostic]

\* The tally of a capability says what the evidence says: that it was seen, that
\* one of its descriptors was refused and why the first was, and that a hook may
\* be armed.
TallyIsEvidence ==
  /\ evidence \in Seq(Piece) /\ tally \in [Capability -> OneTally]
  /\ \A capability \in Capability :
       LET one == tally[capability]
       IN  /\ one.seen <=> Mine(capability) # {}
           /\ one.rejected <=> Broken(capability) # {}
           /\ one.hook <=> \E i \in Mine(capability) : evidence[i].kept /\ evidence[i].hook
           /\ one.diagnostic = IF Broken(capability) = {} THEN "MissingDescriptor"
                               ELSE evidence[LeastOf(Broken(capability))].diagnostic

\* The report of such a tally is what the contract makes of the capabilities.
LEMMA ReportIsDeserved ==
  ASSUME TallyIsEvidence
  PROVE  ReportOf(tally) = [capability \in Capability |-> Deserves(capability)]
<1> SUFFICES ASSUME NEW capability \in Capability
             PROVE  ReportOf(tally)[capability] = Deserves(capability)
  BY DEF ReportOf
<1> DEFINE mine == Mine(capability)
           broken == Broken(capability)
           one == tally[capability]
           isHook == \E i \in mine : evidence[i].hook
<1>1. /\ one.seen <=> mine # {}
      /\ one.rejected <=> broken # {}
      /\ one.hook <=> \E i \in mine : evidence[i].kept /\ evidence[i].hook
      /\ one.diagnostic = IF broken = {} THEN "MissingDescriptor"
                          ELSE evidence[LeastOf(broken)].diagnostic
  BY DEF TallyIsEvidence
<1>2. Deserves(capability) =
        IF mine # {} /\ broken = {}
        THEN [state |-> IF isHook THEN "HookReady" ELSE "ObserveReady", diagnostic |-> "None"]
        ELSE [state |-> "Unavailable",
              diagnostic |-> IF mine = {} THEN "MissingDescriptor"
                             ELSE evidence[LeastOf(broken)].diagnostic]
  BY DEF Deserves, Mine, Broken, LeastOf
<1>3. ReportOf(tally)[capability] =
        IF ~one.seen \/ one.rejected
        THEN [state |-> "Unavailable", diagnostic |-> one.diagnostic]
        ELSE [state |-> IF one.hook THEN "HookReady" ELSE "ObserveReady", diagnostic |-> "None"]
  BY DEF ReportOf
<1>4. mine = {} => broken = {}
  BY DEF Broken
<1>5. broken = {} => (one.hook <=> isHook)
  BY <1>1 DEF Broken
<1> HIDE DEF mine, broken, one, isHook
<1>6. CASE mine # {} /\ broken = {}
  BY <1>1, <1>2, <1>3, <1>5, <1>6
<1>7. CASE mine = {}
  BY <1>1, <1>2, <1>3, <1>4, <1>7
<1>8. CASE mine # {} /\ broken # {}
  BY <1>1, <1>2, <1>3, <1>8
<1> QED BY <1>6, <1>7, <1>8

LEMMA ReportIsTyped ==
  ASSUME NEW counted \in [Capability -> OneTally]
  PROVE  ReportOf(counted) \in CapabilityReport
<1> SUFFICES ASSUME NEW capability \in Capability
             PROVE  ReportOf(counted)[capability] \in
                      [state : {"Unavailable", "ObserveReady", "HookReady"},
                       diagnostic : SymbolDiagnostic]
  BY DEF ReportOf, CapabilityReport
<1>1. counted[capability].diagnostic \in SymbolDiagnostic /\ "None" \in SymbolDiagnostic
  BY DEF OneTally, SymbolDiagnostic
<1> QED BY <1>1 DEF ReportOf

LEMMA NothingCounted == tally = NoTally /\ evidence = <<>> => TallyIsEvidence
<1> SUFFICES ASSUME tally = NoTally, evidence = <<>>
             PROVE  TallyIsEvidence
  OBVIOUS
<1>1. evidence \in Seq(Piece) /\ DOMAIN evidence = {}
  OBVIOUS
<1>2. tally \in [Capability -> OneTally]
  <2>1. [seen |-> FALSE, rejected |-> FALSE, hook |-> FALSE, diagnostic |-> "MissingDescriptor"]
          \in OneTally
    BY DEF OneTally, SymbolDiagnostic
  <2> QED BY <2>1 DEF NoTally
<1>3. \A capability \in Capability : Mine(capability) = {} /\ Broken(capability) = {}
  BY <1>1 DEF Mine, Broken
<1> QED BY <1>1, <1>2, <1>3 DEF TallyIsEvidence, NoTally

LEMMA TalliedFields ==
  ASSUME NEW counted \in [Capability -> OneTally], NEW own \in Capability, NEW validation,
         validation.diagnostic \in SymbolDiagnostic
  PROVE  LET next == Tallied(counted, own, validation)
             rejected == validation.status # "Validated"
         IN  /\ next \in [Capability -> OneTally]
             /\ \A other \in Capability \ {own} : next[other] = counted[other]
             /\ next[own].seen
             /\ next[own].rejected <=> counted[own].rejected \/ rejected
             /\ next[own].hook <=> counted[own].hook \/ validation.hook
             /\ next[own].diagnostic = IF rejected /\ ~counted[own].rejected
                                       THEN validation.diagnostic ELSE counted[own].diagnostic
<1> DEFINE rejected == validation.status # "Validated"
           updated == [counted[own] EXCEPT !.seen = TRUE, !.rejected = @ \/ rejected,
                         !.diagnostic = IF rejected /\ ~counted[own].rejected
                                        THEN validation.diagnostic ELSE @,
                         !.hook = @ \/ validation.hook]
           next == Tallied(counted, own, validation)
<1>1. counted[own] \in OneTally
  OBVIOUS
<1>2. /\ updated.seen
      /\ updated.rejected <=> counted[own].rejected \/ rejected
      /\ updated.hook <=> counted[own].hook \/ validation.hook
      /\ updated.diagnostic = IF rejected /\ ~counted[own].rejected
                              THEN validation.diagnostic ELSE counted[own].diagnostic
  BY <1>1 DEF OneTally
<1>3. updated \in OneTally
  <2>1. (counted[own].rejected \/ rejected) \in BOOLEAN /\ (counted[own].hook \/ validation.hook) \in BOOLEAN
    BY Zenon
  <2>2. (IF rejected /\ ~counted[own].rejected
         THEN validation.diagnostic ELSE counted[own].diagnostic) \in SymbolDiagnostic
    BY <1>1 DEF OneTally
  <2> QED BY <1>1, <2>1, <2>2 DEF OneTally
<1>4. next = [counted EXCEPT ![own] = updated]
  BY DEF Tallied
<1> HIDE DEF updated, next
<1>5. next[own] = updated /\ next \in [Capability -> OneTally]
      /\ \A other \in Capability \ {own} : next[other] = counted[other]
  BY <1>3, <1>4
<1> QED BY <1>2, <1>5 DEF next

\* One descriptor more is counted as it is recorded.
LEMMA CountingIsRecording ==
  ASSUME TallyIsEvidence, NEW own \in Capability, NEW validation, NEW piece \in Piece,
         piece.capability = own, piece.diagnostic = validation.diagnostic,
         validation.status = "Validated" <=> piece.kept,
         validation.hook <=> piece.kept /\ piece.hook,
         tally' = Tallied(tally, own, validation), evidence' = Append(evidence, piece)
  PROVE  TallyIsEvidence'
<1> DEFINE n == Len(evidence)
           rejected == validation.status # "Validated"
<1>1. /\ evidence \in Seq(Piece) /\ tally \in [Capability -> OneTally]
      /\ n \in Nat /\ DOMAIN evidence = 1..n
  BY DEF TallyIsEvidence
<1>2. /\ evidence' \in Seq(Piece) /\ DOMAIN evidence' = 1..(n + 1) /\ evidence'[n + 1] = piece
      /\ \A i \in 1..n : evidence'[i] = evidence[i]
  BY <1>1
<1>3. validation.diagnostic \in SymbolDiagnostic
  BY DEF Piece
<1>4. /\ tally' \in [Capability -> OneTally]
      /\ \A other \in Capability \ {own} : tally'[other] = tally[other]
      /\ tally'[own].seen
      /\ tally'[own].rejected <=> tally[own].rejected \/ rejected
      /\ tally'[own].hook <=> tally[own].hook \/ validation.hook
      /\ tally'[own].diagnostic = IF rejected /\ ~tally[own].rejected
                                  THEN validation.diagnostic ELSE tally[own].diagnostic
  BY <1>1, <1>3, TalliedFields
<1> HIDE DEF n, rejected
<1>5. ASSUME NEW capability \in Capability
      PROVE  /\ tally[capability].seen <=> Mine(capability) # {}
             /\ tally[capability].rejected <=> Broken(capability) # {}
             /\ tally[capability].hook <=>
                  \E i \in Mine(capability) : evidence[i].kept /\ evidence[i].hook
             /\ tally[capability].diagnostic =
                  IF Broken(capability) = {} THEN "MissingDescriptor"
                  ELSE evidence[LeastOf(Broken(capability))].diagnostic
             /\ Mine(capability) \subseteq 1..n /\ Broken(capability) \subseteq Mine(capability)
  BY <1>1 DEF TallyIsEvidence, Mine, Broken
<1>6. ASSUME NEW capability \in Capability \ {own}
      PROVE  Mine(capability)' = Mine(capability) /\ Broken(capability)' = Broken(capability)
  <2>1. Mine(capability)' = Mine(capability)
    BY <1>1, <1>2 DEF Mine
  <2>2. \A i \in Mine(capability) : evidence'[i] = evidence[i]
    BY <1>1, <1>2 DEF Mine
  <2> QED BY <2>1, <2>2 DEF Broken
<1>7. ASSUME NEW capability \in Capability \ {own}
      PROVE  /\ tally'[capability].seen <=> Mine(capability)' # {}
             /\ tally'[capability].rejected <=> Broken(capability)' # {}
             /\ tally'[capability].hook <=>
                  \E i \in Mine(capability)' : evidence'[i].kept /\ evidence'[i].hook
             /\ tally'[capability].diagnostic =
                  IF Broken(capability)' = {} THEN "MissingDescriptor"
                  ELSE evidence'[LeastOf(Broken(capability)')].diagnostic
  <2> DEFINE mine == Mine(capability)
             broken == Broken(capability)
  <2>1. Mine(capability)' = mine /\ Broken(capability)' = broken
    BY <1>6
  <2>2. mine \subseteq 1..n /\ broken \subseteq 1..n
    BY <1>5
  <2>3. \A i \in mine : evidence'[i] = evidence[i]
    BY <1>2, <2>2
  <2>4. broken # {} => LeastOf(broken) \in broken
    <3>1. broken \subseteq Nat
      BY <2>2
    <3> HIDE DEF broken
    <3> QED BY <3>1, LeastIsFirst
  <2>5. broken # {} => evidence'[LeastOf(broken)] = evidence[LeastOf(broken)]
    BY <1>2, <2>2, <2>4
  <2>6. tally'[capability] = tally[capability]
    BY <1>4
  <2>7. tally'[capability].seen <=> Mine(capability)' # {}
    BY <1>5, <2>1, <2>6
  <2>8. tally'[capability].rejected <=> Broken(capability)' # {}
    BY <1>5, <2>1, <2>6
  <2>9. tally'[capability].hook <=>
          \E i \in Mine(capability)' : evidence'[i].kept /\ evidence'[i].hook
    <3>1. tally[capability].hook <=> \E i \in mine : evidence[i].kept /\ evidence[i].hook
      BY <1>5
    <3>2. (\E i \in Mine(capability)' : evidence'[i].kept /\ evidence'[i].hook)
            <=> \E i \in mine : evidence[i].kept /\ evidence[i].hook
      <4> HIDE DEF mine
      <4> QED BY <2>1, <2>3
    <3> QED BY <2>6, <3>1, <3>2
  <2>10. tally'[capability].diagnostic =
           IF Broken(capability)' = {} THEN "MissingDescriptor"
           ELSE evidence'[LeastOf(Broken(capability)')].diagnostic
    <3>1. tally[capability].diagnostic = IF broken = {} THEN "MissingDescriptor"
                                         ELSE evidence[LeastOf(broken)].diagnostic
      BY <1>5
    <3> HIDE DEF broken
    <3> QED BY <2>1, <2>5, <2>6, <3>1
  <2> QED BY <2>7, <2>8, <2>9, <2>10
<1>8. /\ Mine(own)' = Mine(own) \cup {n + 1}
      /\ Broken(own)' = Broken(own) \cup (IF piece.kept THEN {} ELSE {n + 1})
  <2>1. Mine(own)' = Mine(own) \cup {n + 1}
    BY <1>1, <1>2 DEF Mine
  <2>2. \A i \in Mine(own) : evidence'[i] = evidence[i]
    BY <1>2, <1>5
  <2>3. n + 1 \notin Mine(own)
    BY <1>1, <1>5
  <2>4. ASSUME NEW i \in Mine(own)'
        PROVE  ~evidence'[i].kept <=> i \in Broken(own) \/ (i = n + 1 /\ ~piece.kept)
    <3>1. CASE i \in Mine(own)
      BY <2>2, <2>3, <3>1 DEF Broken
    <3>2. CASE i = n + 1
      BY <1>2, <2>3, <3>2 DEF Broken
    <3> QED BY <2>1, <3>1, <3>2
  <2>5. Broken(own)' = {i \in Mine(own)' : ~evidence'[i].kept}
    BY DEF Broken
  <2>6. Broken(own) \subseteq Mine(own)
    BY DEF Broken
  <2> QED BY <2>1, <2>4, <2>5, <2>6
<1>9. /\ tally'[own].seen <=> Mine(own)' # {}
      /\ tally'[own].rejected <=> Broken(own)' # {}
      /\ tally'[own].hook <=> \E i \in Mine(own)' : evidence'[i].kept /\ evidence'[i].hook
      /\ tally'[own].diagnostic = IF Broken(own)' = {} THEN "MissingDescriptor"
                                  ELSE evidence'[LeastOf(Broken(own)')].diagnostic
  <2> DEFINE mine == Mine(own)
             broken == Broken(own)
             later == Broken(own)'
  <2>0. /\ mine \subseteq 1..n /\ broken \subseteq 1..n
        /\ \A i \in mine : evidence'[i] = evidence[i]
    BY <1>2, <1>5
  <2>1. tally'[own].seen <=> Mine(own)' # {}
    BY <1>4, <1>8
  <2>2. rejected <=> ~piece.kept
    BY DEF rejected
  <2>3. tally'[own].rejected <=> later # {}
    BY <1>4, <1>5, <1>8, <2>2
  <2>4. tally'[own].hook <=> \E i \in Mine(own)' : evidence'[i].kept /\ evidence'[i].hook
    <3>1. (\E i \in Mine(own)' : evidence'[i].kept /\ evidence'[i].hook) <=>
            \/ \E i \in mine : evidence[i].kept /\ evidence[i].hook
            \/ piece.kept /\ piece.hook
      BY <1>2, <1>8, <2>0
    <3> QED BY <1>4, <1>5, <3>1
  <2>5. CASE broken # {}
    <3>1. LeastOf(broken) \in broken /\ \A j \in broken : LeastOf(broken) <= j
      <4> HIDE DEF broken
      <4> QED BY <2>0, <2>5, LeastIsFirst
    <3>2. LeastOf(broken) \in later /\ \A j \in later : LeastOf(broken) <= j
      <4>1. LeastOf(broken) <= n + 1
        BY <1>1, <2>0, <3>1
      <4> QED BY <1>8, <3>1, <4>1
    <3>3. later \subseteq Nat
      BY <1>1, <1>8, <2>0
    <3>4. LeastOf(later) = LeastOf(broken)
      <4> HIDE DEF later, broken
      <4> QED BY <3>2, <3>3, LeastIsUnique
    <3>5. evidence'[LeastOf(broken)] = evidence[LeastOf(broken)]
      BY <1>2, <2>0, <3>1
    <3>6. tally'[own].diagnostic = tally[own].diagnostic
      BY <1>4, <1>5, <2>5
    <3>7. tally[own].diagnostic = evidence[LeastOf(broken)].diagnostic
      BY <1>5, <2>5
    <3>8. later # {}
      BY <3>2
    <3> QED BY <2>1, <2>3, <2>4, <3>4, <3>5, <3>6, <3>7, <3>8
  <2>6. CASE broken = {} /\ piece.kept
    <3>1. later = {}
      BY <1>8, <2>6
    <3>2. tally'[own].diagnostic = "MissingDescriptor"
      BY <1>4, <1>5, <2>2, <2>6
    <3> QED BY <2>1, <2>3, <2>4, <3>1, <3>2
  <2>7. CASE broken = {} /\ ~piece.kept
    <3>1. later = {n + 1}
      BY <1>8, <2>7
    <3>2. LeastOf(later) = n + 1
      <4> HIDE DEF later
      <4>1. later \subseteq Nat /\ n + 1 \in later /\ \A j \in later : n + 1 <= j
        BY <1>1, <3>1
      <4> QED BY <4>1, LeastIsUnique
    <3>3. tally'[own].diagnostic = validation.diagnostic
      BY <1>4, <1>5, <2>2, <2>7
    <3> QED BY <1>2, <2>1, <2>3, <2>4, <3>1, <3>2, <3>3
  <2> QED BY <2>5, <2>6, <2>7
<1> QED BY <1>2, <1>4, <1>7, <1>9 DEF TallyIsEvidence
-----------------------------------------------------------------------------
LEMMA NextRemainderDiffers ==
  ASSUME NEW modulus \in Nat, modulus >= 2, NEW value \in Nat
  PROVE  (value + 1) % modulus # value % modulus
<1> DEFINE quotient == value \div modulus
           remainder == value % modulus
           nextQuotient == (value + 1) \div modulus
           nextRemainder == (value + 1) % modulus
<1>1. /\ value = modulus * quotient + remainder
      /\ value + 1 = modulus * nextQuotient + nextRemainder
      /\ quotient \in Int /\ remainder \in Int /\ nextQuotient \in Int /\ nextRemainder \in Int
  OBVIOUS
<1> HIDE DEF quotient, remainder, nextQuotient, nextRemainder
<1>2. ASSUME remainder = nextRemainder
      PROVE  FALSE
  <2>1. modulus * (nextQuotient - quotient) = 1
    BY <1>1, <1>2
  <2>2. \A factor \in Int : modulus * factor # 1
    OBVIOUS
  <2> QED BY <1>1, <2>1, <2>2
<1> QED BY <1>2 DEF remainder, nextRemainder

LEMMA LastRemainder ==
  ASSUME NEW modulus \in Nat, modulus >= 2, NEW value \in Nat \ {0}, value % modulus = 0
  PROVE  (value - 1) % modulus = modulus - 1 /\ value >= modulus
<1> DEFINE quotient == value \div modulus
           lastQuotient == (value - 1) \div modulus
           lastRemainder == (value - 1) % modulus
<1>1. /\ value = modulus * quotient
      /\ value - 1 = modulus * lastQuotient + lastRemainder
      /\ quotient \in Int /\ lastQuotient \in Int /\ lastRemainder \in 0..(modulus - 1)
  OBVIOUS
<1>2. value >= modulus
  <2>1. ASSUME value < modulus
        PROVE  FALSE
    <3>1. value % modulus = value
      BY <2>1
    <3> QED BY <3>1
  <2> QED BY <2>1
<1> HIDE DEF quotient, lastQuotient, lastRemainder
<1>3. modulus * (quotient - lastQuotient) = lastRemainder + 1
  BY <1>1
<1>4. lastRemainder + 1 \in 1..modulus
  BY <1>1
<1>5. \A factor \in Int : modulus * factor \in 1..modulus => modulus * factor = modulus
  <2>1. SUFFICES ASSUME NEW factor \in Int, modulus * factor \in 1..modulus
                 PROVE  modulus * factor = modulus
    OBVIOUS
  <2>2. factor = 1
    <3>1. CASE factor <= 0
      <4>1. modulus * factor <= 0
        BY <3>1
      <4> QED BY <2>1, <4>1
    <3>2. CASE factor >= 2
      <4>1. modulus * factor >= modulus * 2
        BY <3>2
      <4> QED BY <2>1, <4>1
    <3> QED BY <3>1, <3>2
  <2> QED BY <2>2
<1>6. lastRemainder + 1 = modulus
  <2>1. quotient - lastQuotient \in Int
    BY <1>1
  <2> QED BY <1>3, <1>4, <1>5, <2>1
<1>7. lastRemainder = modulus - 1
  BY <1>1, <1>6
<1> QED BY <1>2, <1>7 DEF lastRemainder

LEMMA SmallRemainder ==
  ASSUME NEW modulus \in Nat \ {0}
  PROVE  /\ \A value \in 0..(modulus - 1) : value % modulus = value
         /\ modulus % modulus = 0 /\ (0 - 1) % modulus = modulus - 1
OBVIOUS

Counter == 0..(CounterModulus - 1)
Advanced(counter) == (counter + 1) % CounterModulus
Preceding(counter) == (counter - 1) % CounterModulus

LEMMA CounterFacts ==
  /\ CounterModulus \in Nat \ {0} /\ CounterModulus >= 2
  /\ FrameModulus \in Nat \ {0} /\ FrameModulus >= 2
  /\ FrameModulus <= FloatExact /\ FloatExact \in Nat \ {0}
  /\ CounterModulus % FrameModulus = 0
<1>1. /\ CounterModulus \in Nat \ {0} /\ FrameModulus \in Nat /\ FrameModulus >= 2
      /\ FrameModulus <= FloatExact /\ FloatExact \in Nat \ {0}
      /\ CounterModulus % FrameModulus = 0
  BY ObservationAssumption
<1>2. CounterModulus >= FrameModulus
  BY <1>1, LastRemainder
<1> QED BY <1>1, <1>2

\* Advancing a counter takes it one further, or from its last value to zero;
\* what precedes it is one less, or the last value.
LEMMA AdvancedIs ==
  ASSUME NEW counter \in Counter
  PROVE  /\ Advanced(counter) \in Counter
         /\ counter < CounterModulus - 1 => Advanced(counter) = counter + 1
         /\ counter = CounterModulus - 1 => Advanced(counter) = 0
         /\ counter > 0 => Preceding(counter) = counter - 1
         /\ counter = 0 => Preceding(counter) = CounterModulus - 1
<1>1. /\ counter \in Nat /\ counter <= CounterModulus - 1
      /\ CounterModulus \in Nat \ {0} /\ CounterModulus >= 2
  BY CounterFacts DEF Counter
<1>2. /\ \A value \in 0..(CounterModulus - 1) : value % CounterModulus = value
      /\ CounterModulus % CounterModulus = 0
      /\ (0 - 1) % CounterModulus = CounterModulus - 1
  BY <1>1, SmallRemainder
<1>3. counter < CounterModulus - 1 => Advanced(counter) = counter + 1
  <2>1. counter < CounterModulus - 1 => counter + 1 \in 0..(CounterModulus - 1)
    BY <1>1
  <2> QED BY <1>2, <2>1 DEF Advanced
<1>4. counter = CounterModulus - 1 => Advanced(counter) = 0
  <2>1. counter = CounterModulus - 1 => counter + 1 = CounterModulus
    BY <1>1
  <2> QED BY <1>2, <2>1 DEF Advanced
<1>5. counter > 0 => Preceding(counter) = counter - 1
  <2>1. counter > 0 => counter - 1 \in 0..(CounterModulus - 1)
    BY <1>1
  <2> QED BY <1>2, <2>1 DEF Preceding
<1>6. counter = 0 => Preceding(counter) = CounterModulus - 1
  BY <1>2 DEF Preceding
<1>7. counter < CounterModulus - 1 \/ counter = CounterModulus - 1
  BY <1>1
<1>8. Advanced(counter) \in Counter
  BY <1>1, <1>3, <1>4, <1>7 DEF Counter
<1> QED BY <1>3, <1>4, <1>5, <1>6, <1>8

\* Two counters in a row show different frames, at the wrap of the frame and at
\* the wrap of the counter too.
LEMMA FramesDiffer ==
  ASSUME NEW counter \in Counter
  PROVE  /\ WrappedFrame(Advanced(counter)) \in 1..FrameModulus
         /\ WrappedFrame(Advanced(counter)) # WrappedFrame(counter)
<1> DEFINE next == Advanced(counter)
           before == Preceding(counter)
           after == Preceding(next)
<1>1. next \in Counter
  BY AdvancedIs
<1>2. \/ before \in Nat /\ after = before + 1
      \/ before = CounterModulus - 1 /\ after = 0
  <2>0. /\ counter \in Nat /\ counter <= CounterModulus - 1
        /\ CounterModulus \in Nat /\ CounterModulus >= 2
    BY CounterFacts DEF Counter
  <2>1. CASE counter = 0
    <3>1. next = 1
      BY <2>0, <2>1, AdvancedIs
    <3>2. before = CounterModulus - 1
      BY <2>1, AdvancedIs
    <3>3. after = 0
      <4> HIDE DEF next
      <4>1. Preceding(next) = next - 1
        BY <1>1, <3>1, AdvancedIs
      <4> QED BY <3>1, <4>1
    <3> QED BY <3>2, <3>3
  <2>2. CASE 0 < counter /\ counter < CounterModulus - 1
    <3>1. next = counter + 1
      BY <2>2, AdvancedIs
    <3>2. before = counter - 1
      BY <2>2, AdvancedIs
    <3>3. after = counter
      <4> HIDE DEF next
      <4>1. next > 0
        BY <2>0, <3>1
      <4>2. Preceding(next) = next - 1
        BY <1>1, <4>1, AdvancedIs
      <4> QED BY <2>0, <3>1, <4>2
    <3> QED BY <2>0, <2>2, <3>2, <3>3
  <2>3. CASE counter = CounterModulus - 1
    <3>1. next = 0
      BY <2>3, AdvancedIs
    <3>2. before = CounterModulus - 2
      <4>1. counter > 0
        BY <2>0, <2>3
      <4>2. before = counter - 1
        BY <4>1, AdvancedIs
      <4> QED BY <2>0, <2>3, <4>2
    <3>3. after = CounterModulus - 1
      <4> HIDE DEF next
      <4> QED BY <1>1, <3>1, AdvancedIs
    <3> QED BY <2>0, <3>2, <3>3
  <2> QED BY <2>0, <2>1, <2>2, <2>3
<1>3. /\ WrappedFrame(counter) = (before % FrameModulus) + 1
      /\ WrappedFrame(next) = (after % FrameModulus) + 1
  BY DEF WrappedFrame, Preceding
<1>4. before \in Nat /\ after \in Nat
  BY <1>2, CounterFacts
<1> HIDE DEF before, after, next
<1>5. before % FrameModulus \in 0..(FrameModulus - 1) /\ after % FrameModulus \in 0..(FrameModulus - 1)
  BY <1>4, CounterFacts
<1>6. before % FrameModulus # after % FrameModulus
  <2>1. CASE after = before + 1
    <3>1. (before + 1) % FrameModulus # before % FrameModulus
      BY <1>4, CounterFacts, NextRemainderDiffers
    <3> QED BY <2>1, <3>1
  <2>2. CASE before = CounterModulus - 1 /\ after = 0
    <3>1. (CounterModulus - 1) % FrameModulus = FrameModulus - 1
      BY CounterFacts, LastRemainder
    <3>2. 0 % FrameModulus = 0
      BY CounterFacts
    <3> QED BY <2>2, <3>1, <3>2, CounterFacts
  <2> QED BY <1>2, <2>1, <2>2
<1>7. WrappedFrame(next) \in 1..FrameModulus
  BY <1>3, <1>5, CounterFacts
<1>8. WrappedFrame(next) # WrappedFrame(counter)
  BY <1>3, <1>5, <1>6, CounterFacts
<1> QED BY <1>7, <1>8 DEF next

LEMMA FramesAreExact ==
  ASSUME NEW frame \in 1..FrameModulus
  PROVE  AsFloat(frame) = frame
BY CounterFacts DEF AsFloat
-----------------------------------------------------------------------------
\* The call that is under way has the arguments of its types.
CallIsTyped ==
  \/ call = NoCall
  \/ call \in [active : {TRUE}, identity : Identity, provider : Provider,
               descriptors : Seq(Descriptor)]

EngineInv ==
  /\ RuntimeIsEvaluated /\ CallIsTyped /\ TallyIsEvidence
  /\ call.active \/ evidence = <<>>
  /\ ReadyIsJustified /\ report \in CapabilityReport

\* What was observed passed every check, and the checks are what it stands on.
ObservedIsAdmitted == observation.observed => observation.admitted

\* The last values shown are those of the counters, as far as there were any.
ShownIsCounted ==
  /\ shown = [frame |-> shown.frame, generation |-> shown.generation,
              admitted |-> shown.admitted]
  /\ shown.frame = 0 \/ shown.frame = WrappedFrame(frames)
  /\ shown.generation = AsFloat(generations)

PublicationInv ==
  /\ frames \in Counter /\ generations \in Counter
  /\ pulse \in [frame : 0..FrameModulus]
  /\ camera.valid \/ camera = Disabled
  /\ CameraIsAdmitted /\ ShownIsCounted

IInv == EngineInv /\ ObservedIsAdmitted /\ PublicationInv

LEMMA Evaluated ==
  ASSUME NEW identity, NEW table \in Table,
         runtime' \in {EvaluateRuntimeIdentity(identity, table), EvaluationWithoutMemory}
  PROVE  RuntimeIsEvaluated'
<1>1. CASE runtime' = EvaluationWithoutMemory
  BY <1>1 DEF EvaluationWithoutMemory, RuntimeIsEvaluated, NoMatch
<1>2. CASE runtime' = EvaluateRuntimeIdentity(identity, table)
  <2> DEFINE matched == MatchedRecords(identity, table)
             first == CHOOSE i \in matched : \A j \in matched : i <= j
             checks == << <<identity.module = "SkyrimSE.exe", "InvalidModuleName">>,
                          <<identity.architecture = "X64", "UnsupportedArchitecture">>,
                          <<IsValidRange(identity), "InvalidModuleRange">>,
                          <<IsComplete(identity.fingerprint), "IncompleteFingerprint">>,
                          <<matched # {}, "UnsupportedFingerprint">> >>
  <2>1. /\ runtime'.status = IF AllPass(checks) THEN "Admitted" ELSE "Rejected"
        /\ runtime'.diagnostic = IF AllPass(checks) THEN "None" ELSE FirstFailure(checks)
        /\ runtime'.matched = IF AllPass(checks) THEN first ELSE NoMatch
    BY <1>2 DEF EvaluateRuntimeIdentity
  <2>2. AllPass(checks) => matched # {}
    <3> HIDE DEF matched
    <3>1. checks[5][1] <=> matched # {}
      OBVIOUS
    <3>2. DOMAIN checks = 1..5
      OBVIOUS
    <3> HIDE DEF checks
    <3> QED BY <3>1, <3>2 DEF AllPass
  <2>3. matched \subseteq Nat
    BY ObservationAssumption DEF MatchedRecords
  <2>4. AllPass(checks) => first \in Nat
    <3> HIDE DEF matched
    <3> QED BY <2>2, <2>3, LeastNatural
  <2>5. ~AllPass(checks) => FirstFailure(checks) # "None"
    <3> HIDE DEF matched
    <3>1. /\ checks[1][2] # "None" /\ checks[2][2] # "None" /\ checks[3][2] # "None"
          /\ checks[4][2] # "None" /\ checks[5][2] # "None"
      OBVIOUS
    <3>2. DOMAIN checks = 1..5
      OBVIOUS
    <3> HIDE DEF checks
    <3>3. \A k \in 1..5 : checks[k][2] # "None"
      BY <3>1
    <3>4. ASSUME ~AllPass(checks)
          PROVE  FirstFailure(checks) # "None"
      <4>1. \E k \in 1..5 : /\ ~checks[k][1] /\ \A earlier \in 1..(k - 1) : checks[earlier][1]
                            /\ FirstFailure(checks) = checks[k][2]
        BY <3>2, <3>4, FirstFailureFails
      <4> QED BY <3>3, <4>1
    <3> QED BY <3>4
  <2> HIDE DEF checks, first
  <2> QED BY <2>1, <2>4, <2>5 DEF RuntimeIsEvaluated, NoMatch
<1> QED BY <1>1, <1>2

\* The arguments of Answers for the descriptor whose turn it is.
LEMMA TurnIsTyped ==
  ASSUME CallIsTyped, call.active, call.descriptors # <<>>
  PROVE  /\ call.identity \in Identity /\ Head(call.descriptors) \in Descriptor
         /\ [call EXCEPT !.descriptors = Tail(@)] \in
              [active : {TRUE}, identity : Identity, provider : Provider,
               descriptors : Seq(Descriptor)]
<1>1. call \in [active : {TRUE}, identity : Identity, provider : Provider,
                descriptors : Seq(Descriptor)]
  <2>1. NoCall.active = FALSE
    BY DEF NoCall
  <2>2. call # NoCall
    BY <2>1
  <2> QED BY <2>2 DEF CallIsTyped
<1>2. call.descriptors \in Seq(Descriptor)
  BY <1>1
<1>3. Head(call.descriptors) \in Descriptor /\ Tail(call.descriptors) \in Seq(Descriptor)
  BY <1>2
<1> QED BY <1>1, <1>3

LEMMA NothingMoreCounted ==
  ASSUME TallyIsEvidence, UNCHANGED <<tally, evidence>>
  PROVE  TallyIsEvidence'
<1>1. /\ evidence \in Seq(Piece) /\ tally \in [Capability -> OneTally]
      /\ evidence' = evidence /\ tally' = tally
  BY DEF TallyIsEvidence
<1>2. ASSUME NEW capability \in Capability
      PROVE  Mine(capability)' = Mine(capability) /\ Broken(capability)' = Broken(capability)
  BY <1>1 DEF Mine, Broken
<1>3. ASSUME NEW capability \in Capability
      PROVE  LET one == tally'[capability]
             IN  /\ one.seen <=> Mine(capability)' # {}
                 /\ one.rejected <=> Broken(capability)' # {}
                 /\ one.hook <=> \E i \in Mine(capability)' : evidence'[i].kept /\ evidence'[i].hook
                 /\ one.diagnostic = IF Broken(capability)' = {} THEN "MissingDescriptor"
                                     ELSE evidence'[LeastOf(Broken(capability)')].diagnostic
  BY <1>1, <1>2 DEF TallyIsEvidence
<1> QED BY <1>1, <1>3 DEF TallyIsEvidence

LEMMA EngineStep ==
  ASSUME EngineInv, [Next]_vars
  PROVE  EngineInv'
<1> USE DEF EngineInv
<1>1. ASSUME NEW identity \in Identity, NEW table \in Table, EvaluateRuntime(identity, table)
      PROVE  EngineInv'
  <2>1. RuntimeIsEvaluated'
    BY <1>1, Evaluated DEF EvaluateRuntime
  <2>2. UNCHANGED <<call, tally, report, evidence, deserved>>
    BY <1>1 DEF EvaluateRuntime
  <2>3. TallyIsEvidence'
    BY <2>2, NothingMoreCounted
  <2> QED BY <2>1, <2>2, <2>3 DEF CallIsTyped, ReadyIsJustified
<1>2. ASSUME NEW identity \in Identity, NEW provider \in Provider,
             NEW descriptors \in DescriptorList,
             BeginEvaluation(identity, provider, descriptors)
      PROVE  EngineInv'
  <2>1. /\ call' = [active |-> TRUE, identity |-> identity, provider |-> provider,
                    descriptors |-> descriptors]
        /\ tally' = NoTally /\ evidence' = <<>>
        /\ report' = ReportOf(NoTally) /\ deserved' = ReportOf(NoTally)
        /\ runtime' = runtime
    BY <1>2 DEF BeginEvaluation
  <2>2. TallyIsEvidence'
    <3>1. (tally = NoTally /\ evidence = <<>>)'
      BY <2>1
    <3> QED BY <3>1, NothingCounted, PTL
  <2>3. descriptors \in Seq(Descriptor)
    BY ObservationAssumption
  <2>4. CallIsTyped' /\ call'.active
    BY <2>1, <2>3 DEF CallIsTyped
  <2>5. NoTally \in [Capability -> OneTally]
    BY <2>1, <2>2 DEF TallyIsEvidence
  <2>6. report' \in CapabilityReport
    BY <2>1, <2>5, ReportIsTyped
  <2> QED BY <2>1, <2>2, <2>4, <2>6 DEF RuntimeIsEvaluated, ReadyIsJustified
<1>3. ASSUME call.active, call.descriptors # <<>>,
             NEW answer \in Answers(Head(call.descriptors)), EvaluateDescriptor(answer)
      PROVE  EngineInv'
  <2> DEFINE descriptor == Head(call.descriptors)
             validation == ValidateSymbol(call.identity, runtime, call.provider, descriptor, answer)
             kept == /\ IsEligible(call.identity, call.provider, descriptor)
                     /\ KeepsContract(call.identity, descriptor, answer)
             hook == descriptor.contract # "ReadOnlyData"
             piece == [capability |-> descriptor.capability, diagnostic |-> validation.diagnostic,
                       hook |-> hook, kept |-> kept]
  <2>1. /\ call.identity \in Identity /\ descriptor \in Descriptor
        /\ CallIsTyped' /\ call'.active
    BY <1>3, TurnIsTyped DEF EvaluateDescriptor, CallIsTyped
  <2>2. answer \in AnswerType
    BY <2>1, AnswersAreTyped
  <2>3. /\ validation.status = "Validated" <=> kept
        /\ validation.diagnostic \in SymbolDiagnostic
        /\ validation.hook <=> kept /\ hook
    BY <2>1, <2>2, SymbolIsJustified
  <2>4. /\ runtime' = runtime /\ report' = report /\ deserved' = deserved
        /\ IF descriptor.capability \in Capability
           THEN /\ tally' = Tallied(tally, descriptor.capability, validation)
                /\ evidence' = Append(evidence, piece)
           ELSE UNCHANGED <<tally, evidence>>
    BY <1>3 DEF EvaluateDescriptor
  <2> HIDE DEF validation, kept, descriptor, hook
  <2>5. TallyIsEvidence'
    <3>1. CASE descriptor.capability \in Capability
      <4>1. hook \in BOOLEAN /\ kept \in BOOLEAN
        BY Zenon DEF hook, kept
      <4>2. piece \in Piece
        BY <2>3, <3>1, <4>1 DEF Piece
      <4>3. /\ piece.capability = descriptor.capability
            /\ piece.diagnostic = validation.diagnostic
            /\ validation.status = "Validated" <=> piece.kept
            /\ validation.hook <=> piece.kept /\ piece.hook
        BY <2>3
      <4>4. /\ tally' = Tallied(tally, descriptor.capability, validation)
            /\ evidence' = Append(evidence, piece)
        BY <2>4, <3>1
      <4> HIDE DEF piece
      <4> QED BY <3>1, <4>2, <4>3, <4>4, CountingIsRecording
    <3>2. CASE descriptor.capability \notin Capability
      BY <2>4, <3>2, NothingMoreCounted
    <3> QED BY <3>1, <3>2
  <2> QED BY <2>1, <2>4, <2>5 DEF RuntimeIsEvaluated, ReadyIsJustified
<1>4. ASSUME FinishEvaluation
      PROVE  EngineInv'
  <2>1. /\ report' = ReportOf(tally)
        /\ deserved' = [capability \in Capability |-> Deserves(capability)]
        /\ call' = NoCall /\ tally' = NoTally /\ evidence' = <<>> /\ runtime' = runtime
    BY <1>4 DEF FinishEvaluation
  <2>2. report' = deserved'
    BY <2>1, ReportIsDeserved
  <2>3. report' \in CapabilityReport
    BY <2>1, ReportIsTyped DEF TallyIsEvidence
  <2>4. TallyIsEvidence'
    <3>1. (tally = NoTally /\ evidence = <<>>)'
      BY <2>1
    <3> QED BY <3>1, NothingCounted, PTL
  <2> QED BY <2>1, <2>2, <2>3, <2>4 DEF RuntimeIsEvaluated, ReadyIsJustified, CallIsTyped
<1>5. ASSUME UNCHANGED engine
      PROVE  EngineInv'
  <2>1. UNCHANGED <<runtime, call, tally, report, evidence, deserved>>
    BY <1>5 DEF engine
  <2>2. TallyIsEvidence'
    BY <2>1, NothingMoreCounted
  <2> QED BY <2>1, <2>2 DEF RuntimeIsEvaluated, CallIsTyped, ReadyIsJustified
<1>6. ASSUME NEW identity, NEW name, NEW reading, ObserveEngineProperty(identity, name, reading)
      PROVE  UNCHANGED engine
  BY <1>6 DEF ObserveEngineProperty
<1>7. ASSUME NEW first, NEW second,
             PublishFramePulse(first, second) \/ PublishCameraParameters(first, second)
      PROVE  UNCHANGED engine
  BY <1>7 DEF PublishFramePulse, PublishCameraParameters
<1> QED BY <1>1, <1>2, <1>3, <1>4, <1>5, <1>6, <1>7 DEF Next, vars
-----------------------------------------------------------------------------
\* The range of a property is declared for its floating kinds only.
LEMMA RangedIsFloating ==
  ASSUME NEW name \in DOMAIN Schemas
  PROVE  Schemas[name].ranged => Schemas[name].kind # "UInt32"
BY DEF Schemas, Float, Plain

\* A value that is valid has the kind of its schema, is finite, and is in range.
LEMMA ValidValue ==
  ASSUME NEW schema, NEW value, ValidateEnginePropertyValue(schema, value) = "None"
  PROVE  /\ value.kind = schema.kind
         /\ schema.kind # "UInt32" => value.finite /\ (schema.ranged => value.inRange)
BY DEF ValidateEnginePropertyValue

LEMMA ObservedStep ==
  ASSUME EngineInv, ObservedIsAdmitted, [Next]_vars
  PROVE  ObservedIsAdmitted'
<1>1. ASSUME NEW identity \in Identity, NEW name, NEW reading,
             ObserveEngineProperty(identity, name, reading)
      PROVE  ObservedIsAdmitted'
  <2> DEFINE known == name \in DOMAIN Schemas
             schema == Schemas[IF known THEN name ELSE "camera.world_fov"]
             value == IF reading = {}
                      THEN [kind |-> schema.kind, finite |-> FALSE, inRange |-> FALSE]
                      ELSE CHOOSE one \in reading : TRUE
             validation == ValidateEnginePropertyValue(schema, value)
             matches == MatchesSupportedRuntime(identity, runtime)
             ready == CapabilityIsReady(schema.capability)
             checks == << <<known, "UnknownIdentifier">>,
                          <<matches, "RuntimeNotAdmitted">>,
                          <<ready, "CapabilityUnavailable">>,
                          <<reading # {}, "AdapterReadFailed">>,
                          <<validation = "None", validation>> >>
             admitted == /\ IsSupported(identity)
                         /\ known => deserved[schema.capability].state # "Unavailable"
                         /\ reading # {} /\ value.kind = schema.kind
                         /\ schema.kind # "UInt32" => value.finite
                         /\ schema.ranged => value.inRange
  <2>1. observation'.observed = AllPass(checks) /\ observation'.admitted = admitted
    BY <1>1 DEF ObserveEngineProperty
  <2>2. AllPass(checks) => known /\ matches /\ ready /\ reading # {} /\ validation = "None"
    <3> HIDE DEF known, validation, matches, ready
    <3>1. /\ checks[1][1] <=> known
          /\ checks[2][1] <=> matches
          /\ checks[3][1] <=> ready
          /\ checks[4][1] <=> reading # {}
          /\ checks[5][1] <=> validation = "None"
      OBVIOUS
    <3>2. DOMAIN checks = 1..5
      OBVIOUS
    <3> HIDE DEF checks
    <3> QED BY <3>1, <3>2 DEF AllPass
  <2>3. matches => IsSupported(identity)
    BY MatchIsSupport DEF EngineInv
  <2>4. ready => deserved[schema.capability].state # "Unavailable"
    BY DEF CapabilityIsReady, EngineInv, ReadyIsJustified
  <2>5. known => (schema.ranged => schema.kind # "UInt32")
    BY RangedIsFloating
  <2> HIDE DEF schema, value, checks, matches, ready, known
  <2>6. validation = "None" =>
          /\ value.kind = schema.kind
          /\ schema.kind # "UInt32" => value.finite /\ (schema.ranged => value.inRange)
    BY ValidValue
  <2> HIDE DEF validation
  <2>7. AllPass(checks) => admitted
    BY <2>2, <2>3, <2>4, <2>5, <2>6
  <2> QED BY <2>1, <2>7 DEF ObservedIsAdmitted
<1>2. ASSUME NEW finite, NEW scaleInRange, PublishCameraParameters(finite, scaleInRange)
      PROVE  ObservedIsAdmitted'
  BY <1>2 DEF PublishCameraParameters, ObservedIsAdmitted, NoObservation
<1>3. CASE UNCHANGED observation
  BY <1>3 DEF ObservedIsAdmitted
<1>4. ASSUME NEW identity, NEW table, EvaluateRuntime(identity, table)
      PROVE  UNCHANGED observation
  BY <1>4 DEF EvaluateRuntime
<1>5. ASSUME NEW identity, NEW provider, NEW descriptors,
             BeginEvaluation(identity, provider, descriptors)
      PROVE  UNCHANGED observation
  BY <1>5 DEF BeginEvaluation
<1>6. ASSUME NEW answer, EvaluateDescriptor(answer)
      PROVE  UNCHANGED observation
  BY <1>6 DEF EvaluateDescriptor
<1>7. ASSUME FinishEvaluation
      PROVE  UNCHANGED observation
  BY <1>7 DEF FinishEvaluation
<1>8. ASSUME NEW available, NEW inRange, PublishFramePulse(available, inRange)
      PROVE  UNCHANGED observation
  BY <1>8 DEF PublishFramePulse
<1> QED BY <1>1, <1>2, <1>3, <1>4, <1>5, <1>6, <1>7, <1>8 DEF Next, vars
-----------------------------------------------------------------------------
\* What a pulse that is published shows is not what was shown before it.
LEMMA PulseAdvances ==
  ASSUME PublicationInv, NEW available, NEW inRange, PublishFramePulse(available, inRange)
  PROVE  /\ PublicationInv'
         /\ frames' # frames => pulse'.frame # 0 /\ pulse'.frame # shown.frame
<1> DEFINE next == (frames + 1) % CounterModulus
<1>1. /\ next = Advanced(frames) /\ next \in Counter
      /\ WrappedFrame(next) \in 1..FrameModulus /\ WrappedFrame(next) # WrappedFrame(frames)
  BY AdvancedIs, FramesDiffer DEF PublicationInv, Advanced
<1>2. AsFloat(WrappedFrame(next)) = WrappedFrame(next)
  BY <1>1, FramesAreExact
<1>3. UNCHANGED <<observation, generations, camera>>
  BY DEF PublishFramePulse
<1>4. CASE available /\ inRange
  <2>1. /\ frames' = next /\ pulse' = [frame |-> AsFloat(WrappedFrame(next))]
        /\ shown' = [shown EXCEPT !.frame = pulse'.frame]
    BY <1>4 DEF PublishFramePulse
  <2> HIDE DEF next
  <2>2. pulse'.frame = WrappedFrame(next) /\ pulse' \in [frame : 0..FrameModulus]
    BY <1>1, <1>2, <2>1, CounterFacts
  <2>3. /\ shown' = [frame |-> pulse'.frame, generation |-> shown.generation,
                     admitted |-> shown.admitted]
    BY <2>1 DEF PublicationInv, ShownIsCounted
  <2>4. ShownIsCounted'
    <3>1. shown'.frame = WrappedFrame(frames')
      BY <2>1, <2>2, <2>3
    <3>2. shown'.generation = AsFloat(generations')
      BY <1>3, <2>3 DEF PublicationInv, ShownIsCounted
    <3>3. WrappedFrame(frames)' = WrappedFrame(frames') /\ AsFloat(generations)' = AsFloat(generations')
      BY DEF WrappedFrame, AsFloat
    <3> QED BY <2>3, <3>1, <3>2, <3>3 DEF ShownIsCounted
  <2>5. PublicationInv'
    BY <1>1, <1>3, <2>1, <2>2, <2>3, <2>4 DEF PublicationInv, Counter, CameraIsAdmitted
  <2>6. pulse'.frame # 0 /\ pulse'.frame # shown.frame
    BY <1>1, <2>2 DEF PublicationInv, ShownIsCounted
  <2> QED BY <2>5, <2>6
<1>5. CASE ~(available /\ inRange)
  <2>1. pulse' = Inactive /\ UNCHANGED <<frames, shown>>
    BY <1>5 DEF PublishFramePulse
  <2>2. pulse' \in [frame : 0..FrameModulus]
    BY <2>1, CounterFacts DEF Inactive
  <2>3. ShownIsCounted'
    BY <1>3, <2>1 DEF PublicationInv, ShownIsCounted, WrappedFrame, AsFloat
  <2> QED BY <1>3, <2>1, <2>2, <2>3 DEF PublicationInv, Counter, CameraIsAdmitted
<1> QED BY <1>4, <1>5

\* What a camera that is published shows is not what was shown before it, as
\* far as the counter is exact.
LEMMA CameraAdvances ==
  ASSUME PublicationInv, ObservedIsAdmitted, NEW finite, NEW scaleInRange,
         PublishCameraParameters(finite, scaleInRange)
  PROVE  /\ PublicationInv'
         /\ generations' # generations /\ generations' \in 1..FloatExact
              => camera'.generation # shown.generation
<1> DEFINE next == (generations + 1) % CounterModulus
           valid == /\ observation.observed
                    /\ observation.name = "camera.inverse_view_projection"
<1>1. /\ next = Advanced(generations) /\ next \in Counter
      /\ generations < CounterModulus - 1 => next = generations + 1
      /\ generations = CounterModulus - 1 => next = 0
      /\ generations \in Counter
  BY AdvancedIs DEF PublicationInv, Advanced
<1>2. UNCHANGED <<frames, pulse>>
  BY DEF PublishCameraParameters
<1>3. CASE valid /\ finite /\ scaleInRange
  <2>1. /\ generations' = next /\ camera' = [valid |-> TRUE, generation |-> AsFloat(next)]
        /\ shown' = [shown EXCEPT !.generation = camera'.generation,
                                  !.admitted = observation.admitted]
    BY <1>3 DEF PublishCameraParameters
  <2>2. observation.admitted
    BY <1>3 DEF ObservedIsAdmitted
  <2> HIDE DEF next, valid
  <2>3. shown' = [frame |-> shown.frame, generation |-> AsFloat(next),
                  admitted |-> observation.admitted]
    BY <2>1 DEF PublicationInv, ShownIsCounted
  <2>4. ShownIsCounted'
    <3>1. shown'.frame = 0 \/ shown'.frame = WrappedFrame(frames')
      BY <1>2, <2>3 DEF PublicationInv, ShownIsCounted
    <3>2. shown'.generation = AsFloat(generations')
      BY <2>1, <2>3
    <3>3. WrappedFrame(frames)' = WrappedFrame(frames') /\ AsFloat(generations)' = AsFloat(generations')
      BY DEF WrappedFrame, AsFloat
    <3> QED BY <2>3, <3>1, <3>2, <3>3 DEF ShownIsCounted
  <2>5. camera'.valid /\ shown'.admitted
    BY <2>1, <2>2, <2>3
  <2>6. PublicationInv'
    BY <1>1, <1>2, <2>1, <2>4, <2>5 DEF PublicationInv, Counter, CameraIsAdmitted
  <2>7. ASSUME generations' \in 1..FloatExact
        PROVE  camera'.generation # shown.generation
    <3>1. next \in 1..FloatExact
      BY <2>1, <2>7
    <3>2. generations = next - 1 /\ generations \in Nat /\ next \in Nat
      BY <1>1, <3>1, CounterFacts DEF Counter
    <3>3. AsFloat(next) = next /\ AsFloat(generations) = generations
      BY <3>1, <3>2, CounterFacts DEF AsFloat
    <3> QED BY <2>1, <3>2, <3>3 DEF PublicationInv, ShownIsCounted
  <2> QED BY <2>6, <2>7
<1>4. CASE ~(valid /\ finite /\ scaleInRange)
  <2>1. /\ camera' = Disabled /\ shown' = [shown EXCEPT !.admitted = FALSE]
        /\ UNCHANGED generations
    BY <1>4 DEF PublishCameraParameters, Disable
  <2>2. shown' = [frame |-> shown.frame, generation |-> shown.generation, admitted |-> FALSE]
    BY <2>1 DEF PublicationInv, ShownIsCounted
  <2>3. ShownIsCounted'
    BY <1>2, <2>1, <2>2 DEF PublicationInv, ShownIsCounted, WrappedFrame, AsFloat
  <2>4. camera'.valid = FALSE
    BY <2>1 DEF Disabled
  <2>5. CameraIsAdmitted'
    BY <2>4 DEF CameraIsAdmitted
  <2>6. camera'.valid \/ camera' = Disabled
    BY <2>1
  <2>7. (camera.valid \/ camera = Disabled)'
    BY <2>6 DEF Disabled
  <2>8. (frames \in Counter /\ generations \in Counter /\ pulse \in [frame : 0..FrameModulus])'
    BY <1>2, <2>1 DEF PublicationInv, Counter
  <2> QED BY <2>1, <2>3, <2>5, <2>7, <2>8 DEF PublicationInv
<1> QED BY <1>3, <1>4

LEMMA PublicationStep ==
  ASSUME ObservedIsAdmitted, PublicationInv, [Next]_vars
  PROVE  /\ PublicationInv'
         /\ frames' # frames => pulse'.frame # 0 /\ pulse'.frame # shown.frame
         /\ generations' # generations /\ generations' \in 1..FloatExact
              => camera'.generation # shown.generation
<1>1. ASSUME NEW available, NEW inRange, PublishFramePulse(available, inRange)
      PROVE  UNCHANGED generations
  BY <1>1 DEF PublishFramePulse
<1>2. ASSUME NEW finite, NEW scaleInRange, PublishCameraParameters(finite, scaleInRange)
      PROVE  UNCHANGED frames
  BY <1>2 DEF PublishCameraParameters
<1>3. ASSUME UNCHANGED publication
      PROVE  PublicationInv' /\ UNCHANGED <<frames, generations>>
  BY <1>3 DEF publication, PublicationInv, Counter, CameraIsAdmitted, ShownIsCounted,
              WrappedFrame, AsFloat
<1>4. ASSUME NEW identity, NEW table, EvaluateRuntime(identity, table)
      PROVE  UNCHANGED publication
  BY <1>4 DEF EvaluateRuntime
<1>5. ASSUME NEW identity, NEW provider, NEW descriptors,
             BeginEvaluation(identity, provider, descriptors)
      PROVE  UNCHANGED publication
  BY <1>5 DEF BeginEvaluation
<1>6. ASSUME NEW answer, EvaluateDescriptor(answer)
      PROVE  UNCHANGED publication
  BY <1>6 DEF EvaluateDescriptor
<1>7. ASSUME FinishEvaluation
      PROVE  UNCHANGED publication
  BY <1>7 DEF FinishEvaluation
<1>8. ASSUME NEW identity, NEW name, NEW reading, ObserveEngineProperty(identity, name, reading)
      PROVE  UNCHANGED publication
  BY <1>8 DEF ObserveEngineProperty
<1> QED BY <1>1, <1>2, <1>3, <1>4, <1>5, <1>6, <1>7, <1>8, PulseAdvances, CameraAdvances
           DEF Next, vars
-----------------------------------------------------------------------------
LEMMA InitIsInv == Init => IInv
<1> SUFFICES ASSUME Init
             PROVE  IInv
  OBVIOUS
<1>1. TallyIsEvidence
  BY NothingCounted DEF Init
<1>2. report \in CapabilityReport
  BY <1>1, ReportIsTyped DEF Init, TallyIsEvidence
<1>3. RuntimeIsEvaluated
  BY DEF Init, EvaluationWithoutMemory, RuntimeIsEvaluated, NoMatch
<1>4. EngineInv
  BY <1>1, <1>2, <1>3 DEF Init, EngineInv, CallIsTyped, ReadyIsJustified
<1>5. ObservedIsAdmitted
  BY DEF Init, NoObservation, ObservedIsAdmitted
<1>6. AsFloat(0) = 0 /\ 0 \in Counter
  BY CounterFacts DEF AsFloat, Counter
<1>7. ShownIsCounted
  BY <1>6 DEF Init, NothingShown, ShownIsCounted
<1>8. CameraIsAdmitted
  BY DEF Init, Disabled, CameraIsAdmitted
<1>9. pulse \in [frame : 0..FrameModulus]
  BY CounterFacts DEF Init, Inactive
<1> QED BY <1>4, <1>5, <1>6, <1>7, <1>8, <1>9 DEF Init, IInv, PublicationInv

LEMMA NextKeepsInv == IInv /\ [Next]_vars => IInv'
BY EngineStep, ObservedStep, PublicationStep DEF IInv

THEOREM Invariance == Spec => []IInv
BY InitIsInv, NextKeepsInv, PTL DEF Spec

\* Every variable has its type, whatever the executable, the tables and the
\* answers of the adapters; a payload that is inactive is all zero.
THEOREM ObservationTypeCorrect == Spec => []TypeOK
<1>1. IInv => TypeOK
  <2> SUFFICES ASSUME IInv
               PROVE  TypeOK
    OBVIOUS
  <2>1. call.active \in BOOLEAN
    <3>1. CASE call = NoCall
      BY <3>1 DEF NoCall
    <3>2. CASE call \in [active : {TRUE}, identity : Identity, provider : Provider,
                         descriptors : Seq(Descriptor)]
      BY <3>2
    <3> QED BY <3>1, <3>2 DEF IInv, EngineInv, CallIsTyped
  <2> QED BY <2>1 DEF IInv, EngineInv, RuntimeIsEvaluated, PublicationInv, Counter,
                      ReadyIsJustified, TypeOK
<1> QED BY <1>1, Invariance, PTL

\* A capability is ready exactly when the executable, the provider and every one
\* of its descriptors are what the contract asks for, for any image, any ranges
\* of the address space and any number of descriptors in any order; otherwise
\* the first descriptor that fails is the reason.
THEOREM ReadinessIsJustified == Spec => []ReadyIsJustified
<1>1. IInv => ReadyIsJustified
  BY DEF IInv, EngineInv
<1> QED BY <1>1, Invariance, PTL

\* No camera payload is valid without an observation of its own matrix, finite,
\* under a ready capability of the supported executable.
THEOREM CameraStandsOnObservation == Spec => []CameraIsAdmitted
<1>1. IInv => CameraIsAdmitted
  BY DEF IInv, PublicationInv
<1> QED BY <1>1, Invariance, PTL

\* A pulse shows another frame than the one before it, never zero, for every
\* modulus of the frame that divides the counter's; a camera another generation
\* while floats count exactly.
THEOREM PublicationsAdvance == Spec => LiveValuesAdvance
<1> DEFINE Advance == /\ frames' # frames => pulse'.frame # 0 /\ pulse'.frame # shown.frame
                      /\ generations' # generations /\ generations' \in 1..FloatExact
                           => camera'.generation # shown.generation
<1>1. IInv /\ [Next]_vars => [Advance]_vars
  BY PublicationStep DEF IInv
<1> QED BY <1>1, Invariance, PTL DEF Spec, LiveValuesAdvance
=============================================================================
