------------------------- MODULE AddressLibraryProofs -------------------------
(***************************************************************************)
(* AddressLibrary for every word size, artifact and encoding.              *)
(***************************************************************************)
EXTENDS AddressLibrary, WellFoundedInduction, TLAPS

\* A set of naturals that is not empty has a least element: induction, in the
\* form the provers can use.
LEMMA LeastNatural ==
  ASSUME NEW numbers, numbers \subseteq Nat, numbers # {}
  PROVE  \E least \in numbers : \A other \in numbers : least <= other
<1> DEFINE Below == OpToRel(<, Nat)
<1>1. IsWellFoundedOn(Below, Nat)
  BY NatLessThanWellFounded
<1>2. \A left, right \in Nat : <<left, right>> \in Below <=> left < right
  BY DEF OpToRel
<1> HIDE DEF Below
<1>3. PICK least \in numbers : \A other \in numbers : ~(<<other, least>> \in Below)
  BY <1>1, WFMin
<1>4. ASSUME NEW other \in numbers
      PROVE  least <= other
  <2>1. least \in Nat /\ other \in Nat
    OBVIOUS
  <2>2. ~(other < least)
    BY <1>2, <1>3, <2>1
  <2> QED BY <2>1, <2>2
<1> QED BY <1>4

\* The code of the first failure is that of a check that fails after all those
\* before it passed.
LEMMA FirstFailureFails ==
  ASSUME NEW checks, NEW n \in Nat, DOMAIN checks = 1..n, ~AllPass(checks)
  PROVE  \E k \in 1..n : /\ ~checks[k][1] /\ \A earlier \in 1..(k - 1) : checks[earlier][1]
                         /\ FirstFailure(checks) = checks[k][2]
<1> DEFINE failing == {i \in 1..n : ~checks[i][1]}
           IsFirst(i) == ~checks[i][1] /\ \A earlier \in 1..(i - 1) : checks[earlier][1]
           first == CHOOSE i \in DOMAIN checks : IsFirst(i)
<1>1. failing \subseteq Nat /\ failing # {}
  BY DEF AllPass
<1>2. PICK least \in failing : \A other \in failing : least <= other
  BY <1>1, LeastNatural
<1>3. \A earlier \in 1..(least - 1) : checks[earlier][1]
  BY <1>2
<1>4. least \in DOMAIN checks /\ IsFirst(least)
  BY <1>3
<1>5. first \in DOMAIN checks /\ IsFirst(first)
  <2> HIDE DEF IsFirst
  <2> QED BY <1>4
<1>6. FirstFailure(checks) = checks[first][2]
  BY DEF FirstFailure
<1> HIDE DEF first
<1> QED BY <1>5, <1>6
-----------------------------------------------------------------------------

\* What a parse that comes to its entries has checked.
LEMMA ParseIsChecked ==
  ASSUME NEW receipt, NEW buffer, NEW moduleSize, NEW header,
         AllPass(ParseChecks(receipt, buffer, moduleSize, header))
  PROVE  /\ IsBoundTo(receipt, buffer) /\ IsAdmittedArtifact(receipt.identity)
         /\ header.nameLength >= 0 /\ header.count > 0
         /\ header.nameLength <= SizeOf[buffers[buffer]] - PrefixSize - SuffixSize
<1> DEFINE checks == ParseChecks(receipt, buffer, moduleSize, header)
<1>1. {1, 2, 10, 12} \subseteq DOMAIN checks
  BY DEF ParseChecks
<1>2. checks[1][1] /\ checks[2][1] /\ checks[10][1] /\ checks[12][1]
  BY <1>1 DEF AllPass
<1> QED BY <1>2 DEF ParseChecks
-----------------------------------------------------------------------------
\* A value that fits in a word is not changed by it.
LEMMA WrapKeepsWords ==
  ASSUME NEW value \in Word
  PROVE  Wrap(value) = value
BY LibraryAssumption DEF Wrap, Word

LEMMA OperandSizeType == \A mode \in 0..8 : OperandSize[mode] \in Nat
BY DEF OperandSize

\* A value that decodes is what its encoding means, in integers that do not
\* wrap, and was read from bytes that are there.
LEMMA DecodeIsExact ==
  ASSUME NEW mode \in 0..8, NEW operand \in Word, NEW previous \in Word, NEW remaining \in Nat,
         DecodeValue(mode, operand, previous, remaining).status = "Ok"
  PROVE  /\ DecodeValue(mode, operand, previous, remaining).value = Meant(mode, operand, previous)
         /\ Meant(mode, operand, previous) \in Word
         /\ OperandSize[mode] <= remaining
<1> DEFINE decoded == DecodeValue(mode, operand, previous, remaining)
<1>1. WordMax \in Nat /\ 0 \in Word
  BY LibraryAssumption DEF Word
<1>2. mode # 8
  BY DEF DecodeValue
<1>3. CASE mode = 1
  <2>1. decoded = AddChecked(previous, 1)
    BY <1>3 DEF DecodeValue, IsTruncated
  <2>2. previous + 1 \in Word
    BY <2>1, <1>1 DEF AddChecked, Word
  <2>3. OperandSize[mode] = 0
    BY <1>3 DEF OperandSize
  <2> QED BY <2>1, <2>2, <2>3, <1>3, WrapKeepsWords DEF AddChecked, Meant
<1>4. ASSUME mode # 1
      PROVE  ~IsTruncated(mode, remaining)
  BY <1>2, <1>4 DEF DecodeValue
<1>5. ASSUME mode # 1
      PROVE  OperandSize[mode] <= remaining
  BY <1>4, <1>5, OperandSizeType DEF IsTruncated
<1>6. CASE mode \in {0, 6, 7}
  <2>1. decoded = [status |-> "Ok", value |-> operand]
    BY <1>6, <1>4 DEF DecodeValue
  <2> QED BY <2>1, <1>5, <1>6 DEF Meant
<1>7. CASE mode \in {2, 4}
  <2>1. decoded = AddChecked(previous, operand)
    BY <1>7, <1>4 DEF DecodeValue
  <2>2. previous + operand \in Word
    BY <2>1, <1>1 DEF AddChecked, Word
  <2> QED BY <2>1, <2>2, <1>5, <1>7, WrapKeepsWords DEF AddChecked, Meant
<1>8. CASE mode \in {3, 5}
  <2>1. decoded = SubtractChecked(previous, operand)
    BY <1>8, <1>4 DEF DecodeValue
  <2>2. previous - operand \in Word
    BY <2>1, <1>1 DEF SubtractChecked, Word
  <2> QED BY <2>1, <2>2, <1>5, <1>8, WrapKeepsWords DEF SubtractChecked, Meant
<1> QED BY <1>2, <1>3, <1>6, <1>7, <1>8
\* A value that is refused as an overflow is one that no word holds.
LEMMA OverflowIsNoWord ==
  ASSUME NEW mode \in 0..8, NEW operand \in Word, NEW previous \in Word, NEW remaining \in Nat
  PROVE  LET status == DecodeValue(mode, operand, previous, remaining).status
         IN  /\ status \in {"Ok", "Truncated", "InvalidEncoding", "ArithmeticOverflow"}
             /\ status = "ArithmeticOverflow" =>
                  /\ Meant(mode, operand, previous) \in Int
                  /\ Meant(mode, operand, previous) \notin Word
<1> DEFINE decoded == DecodeValue(mode, operand, previous, remaining)
<1>1. WordMax \in Nat /\ 1 \in Word
  BY LibraryAssumption DEF Word
<1>2. CASE mode = 8
  BY <1>2 DEF DecodeValue
<1>3. CASE mode \notin {1, 8} /\ IsTruncated(mode, remaining)
  <2>1. decoded = [status |-> "Truncated", value |-> 0]
    BY <1>3 DEF DecodeValue
  <2> QED BY <2>1
<1>4. CASE mode \in {0, 6, 7} /\ ~IsTruncated(mode, remaining)
  BY <1>4 DEF DecodeValue
<1>5. CASE mode = 1
  <2>1. decoded = AddChecked(previous, 1)
    BY <1>5 DEF DecodeValue, IsTruncated, OperandSize
  <2> QED BY <2>1, <1>1, <1>5 DEF AddChecked, Meant, Word
<1>6. CASE mode \in {2, 4} /\ ~IsTruncated(mode, remaining)
  <2>1. decoded = AddChecked(previous, operand)
    BY <1>6 DEF DecodeValue
  <2> QED BY <2>1, <1>1, <1>6 DEF AddChecked, Meant, Word
<1>7. CASE mode \in {3, 5} /\ ~IsTruncated(mode, remaining)
  <2>1. decoded = SubtractChecked(previous, operand)
    BY <1>7 DEF DecodeValue
  <2> QED BY <2>1, <1>1, <1>7 DEF SubtractChecked, Meant, Word
<1> QED BY <1>2, <1>3, <1>4, <1>5, <1>6, <1>7
-----------------------------------------------------------------------------
\* What an entry that is kept has been checked for.
LEMMA EntryIsChecked ==
  ASSUME NEW id, NEW offset, NEW scaled, AllPass(EntryChecks(id, offset, scaled))
  PROVE  /\ reader.remaining >= 1 /\ id.status = "Ok" /\ offset.status = "Ok"
         /\ LastOf(entries).offset % Scale(scaled) = 0
         /\ offset.value <= WordMax \div Scale(scaled)
         /\ Wrap(offset.value * Scale(scaled)) < request.moduleSize
<1> DEFINE checks == EntryChecks(id, offset, scaled)
<1>1. 1..6 \subseteq DOMAIN checks
  BY DEF EntryChecks
<1>2. \A i \in 1..6 : checks[i][1]
  BY <1>1 DEF AllPass
<1>3. checks[1][1] /\ checks[2][1] /\ checks[3][1] /\ checks[4][1] /\ checks[5][1] /\ checks[6][1]
  BY <1>2
<1>4. reader.remaining >= 1
  BY <1>3 DEF EntryChecks
<1>5. id.status = "Ok" /\ offset.status = "Ok"
  BY <1>3 DEF EntryChecks
<1>6. LastOf(entries).offset % Scale(scaled) = 0
  BY <1>3 DEF EntryChecks
<1>7. offset.value <= WordMax \div Scale(scaled)
  BY <1>3 DEF EntryChecks
<1>8. Wrap(offset.value * Scale(scaled)) < request.moduleSize
  BY <1>3 DEF EntryChecks
<1> QED BY <1>4, <1>5, <1>6, <1>7, <1>8

\* An offset that is scaled back fits in a word when it passed the check.
LEMMA ScaledFits ==
  ASSUME NEW scaled \in BOOLEAN, NEW value \in Word, value <= WordMax \div Scale(scaled)
  PROVE  value * Scale(scaled) \in Word
<1>1. WordMax \in Nat
  BY LibraryAssumption
<1>2. CASE scaled
  BY <1>1, <1>2 DEF Scale, PointerSize, Word
<1>3. CASE ~scaled
  BY <1>1, <1>3 DEF Scale, Word
<1> QED BY <1>2, <1>3

\* While a file is read, the entries are what was read, each of them inside the
\* module, and the file is one that was verified.
EntriesAreExact ==
  pc = "Entries" =>
    /\ entries = meaning /\ result = Rejected("ArtifactUnsupported")
    /\ IsAdmittedArtifact(request.content)
    /\ \A i \in DOMAIN entries : entries[i].offset < request.moduleSize

\* A span that a receipt is bound to still holds what was verified.
ReceiptsHold ==
  \A receipt \in receipts : /\ buffers[receipt.buffer] = receipt.identity
                            /\ IsAdmittedArtifact(receipt.identity)

Admission == ReceiptsHold /\ ReadyBytesWereVerified
Exactness == EntriesAreExact /\ DatabaseIsExact /\ RejectionHasCause

IInv == TypeOK /\ Admission /\ Exactness

\* The diagnostics that say something of what the file means.
Telling == {"ArithmeticOverflow", "OffsetOutsideModule", "DuplicateId"}

LEMMA LastEntry ==
  ASSUME TypeOK
  PROVE  LastOf(entries) \in Entry
<1>1. CASE entries = <<>>
  BY <1>1, LibraryAssumption DEF LastOf, NoEntry, Entry, Word
<1>2. CASE entries # <<>>
  BY <1>2 DEF TypeOK, LastOf
<1> QED BY <1>1, <1>2

\* One turn of the loop that is not refused keeps exactly what it read.
LEMMA EntryIsExact ==
  ASSUME TypeOK, EntriesAreExact, pc = "Entries",
         NEW idMode \in 0..8, NEW idOperand \in Word, NEW scaled \in BOOLEAN,
         NEW offsetMode \in 0..7, NEW offsetOperand \in Word,
         AllPass(EntryChecks(DecodedId(idMode, idOperand),
                             DecodedOffset(idMode, scaled, offsetMode, offsetOperand), scaled))
  PROVE  LET id == DecodedId(idMode, idOperand)
             offset == DecodedOffset(idMode, scaled, offsetMode, offsetOperand)
             kept == [id |-> id.value, offset |-> Wrap(offset.value * Scale(scaled))]
         IN  /\ kept = MeantEntry(idMode, idOperand, scaled, offsetMode, offsetOperand)
             /\ kept \in Entry /\ kept.offset < request.moduleSize
             /\ LeftAfterId(idMode) - OperandSize[offsetMode] \in Nat
<1> DEFINE id == DecodedId(idMode, idOperand)
           offset == DecodedOffset(idMode, scaled, offsetMode, offsetOperand)
           previous == LastOf(entries)
           base == previous.offset \div Scale(scaled)
<1>1. /\ reader.remaining >= 1 /\ id.status = "Ok" /\ offset.status = "Ok"
      /\ offset.value <= WordMax \div Scale(scaled)
      /\ Wrap(offset.value * Scale(scaled)) < request.moduleSize
  BY EntryIsChecked
<1>2. reader.remaining - 1 \in Nat
  BY <1>1 DEF TypeOK
<1>3. previous.id \in Word /\ previous.offset \in Word /\ LastOf(meaning) = previous
  BY LastEntry DEF Entry, EntriesAreExact
<1>4. /\ id.value = Meant(idMode, idOperand, previous.id) /\ id.value \in Word
      /\ OperandSize[idMode] <= reader.remaining - 1
  <2> DEFINE before == previous.id
             rest == reader.remaining - 1
  <2>1. id = DecodeValue(idMode, idOperand, before, rest) /\ id.status = "Ok"
    BY <1>1 DEF DecodedId
  <2>2. before \in Word /\ rest \in Nat
    BY <1>2, <1>3
  <2> HIDE DEF id, before, rest
  <2>3. /\ id.value = Meant(idMode, idOperand, before) /\ Meant(idMode, idOperand, before) \in Word
        /\ OperandSize[idMode] <= rest
    BY <2>1, <2>2, DecodeIsExact
  <2>4. before = previous.id /\ rest = reader.remaining - 1
    BY DEF before, rest
  <2> QED BY <2>3, <2>4
<1>5. LeftAfterId(idMode) \in Nat
  BY <1>2, <1>4, OperandSizeType DEF LeftAfterId
<1>6. base \in Word
  BY <1>3, LibraryAssumption DEF Scale, PointerSize, Word
<1>7. offsetMode \in 0..8
  OBVIOUS
<1>8. /\ offset.value = Meant(offsetMode, offsetOperand, base) /\ offset.value \in Word
      /\ OperandSize[offsetMode] <= LeftAfterId(idMode)
  BY <1>1, <1>5, <1>6, <1>7, DecodeIsExact DEF DecodedOffset
<1>9. offset.value * Scale(scaled) \in Word
  BY <1>1, <1>8, ScaledFits
<1>10. Wrap(offset.value * Scale(scaled)) = offset.value * Scale(scaled)
  BY <1>9, WrapKeepsWords
<1>11. LeftAfterId(idMode) - OperandSize[offsetMode] \in Nat
  BY <1>5, <1>7, <1>8, OperandSizeType
<1> HIDE DEF id, offset, previous, base
<1> QED BY <1>1, <1>3, <1>4, <1>8, <1>9, <1>10, <1>11
         DEF MeantEntry, Entry, id, offset, previous, base
-----------------------------------------------------------------------------
\* A result that is rejected for a reason the file's meaning has no part in, or
\* when nothing has been read, breaks neither of the two promises about results.
LEMMA SilentRejection ==
  ASSUME NEW diagnostic, result' = Rejected(diagnostic), diagnostic \notin Telling
  PROVE  DatabaseIsExact' /\ RejectionHasCause'
BY DEF Rejected, DatabaseIsExact, RejectionHasCause, Telling

LEMMA EmptyType == <<>> \in Seq(Entry) /\ Len(<<>>) = 0 /\ DOMAIN <<>> = {}
OBVIOUS

LEMMA InitHolds == Init => IInv
<1> SUFFICES ASSUME Init
             PROVE  IInv
  OBVIOUS
<1>1. TypeOK
  BY LibraryAssumption, EmptyType DEF Init, TypeOK, Idle, Rejected, Word
<1>2. EntriesAreExact /\ Admission
  BY DEF Init, Admission, EntriesAreExact, ReceiptsHold, ReadyBytesWereVerified, Rejected
<1>3. DatabaseIsExact /\ RejectionHasCause
  BY DEF Init, DatabaseIsExact, RejectionHasCause, Rejected
<1> QED BY <1>1, <1>2, <1>3 DEF IInv, Exactness

\* A result that is let go of promises nothing.
LEMMA ForgetKeeps ==
  ASSUME Forget, pc = "Idle", pc' = "Idle"
  PROVE  Exactness' /\ ReadyBytesWereVerified'
<1>1. DatabaseIsExact' /\ RejectionHasCause'
  BY SilentRejection DEF Forget, Telling
<1> QED BY <1>1 DEF Forget, Rejected, Exactness, EntriesAreExact, ReadyBytesWereVerified

LEMMA AdmissionKeeps ==
  ASSUME IInv, NEW buffer \in Buffer, NEW identity \in Content,
         AdmitRelocationArtifact(buffer, identity)
  PROVE  IInv'
<1> USE DEF AdmitRelocationArtifact
<1>1. TypeOK'
  BY LibraryAssumption, EmptyType DEF IInv, TypeOK, Forget, Rejected, Word
<1>2. Exactness' /\ ReadyBytesWereVerified'
  BY ForgetKeeps
<1>3. ReceiptsHold'
  BY DEF IInv, Admission, ReceiptsHold, IsAdmittedArtifact
<1> QED BY <1>1, <1>2, <1>3 DEF IInv, Admission

\* A span that a receipt is bound to is not the one that is rewritten.
LEMMA RewriteKeeps ==
  ASSUME IInv, NEW buffer \in Buffer, NEW content \in Content, Rewrite(buffer, content)
  PROVE  IInv'
<1> USE DEF Rewrite
<1>1. TypeOK'
  BY LibraryAssumption, EmptyType DEF IInv, TypeOK, Forget, Rejected, Word
<1>2. Exactness' /\ ReadyBytesWereVerified'
  BY ForgetKeeps
<1>3. ReceiptsHold'
  BY DEF IInv, Admission, ReceiptsHold, IsAdmittedArtifact, TypeOK
<1> QED BY <1>1, <1>2, <1>3 DEF IInv, Admission

LEMMA RejectKeeps ==
  ASSUME IInv, NEW diagnostic, Reject(diagnostic), UNCHANGED memory,
         request'.moduleSize \in Word, RejectionHasCause'
  PROVE  IInv'
<1>1. TypeOK'
  BY EmptyType DEF IInv, Reject, Rejected, memory, Idle, TypeOK
<1>2. Admission'
  BY DEF IInv, Reject, Rejected, memory, Admission, ReceiptsHold, ReadyBytesWereVerified,
         IsAdmittedArtifact
<1>3. EntriesAreExact' /\ DatabaseIsExact'
  BY DEF Reject, Rejected, EntriesAreExact, DatabaseIsExact
<1> QED BY <1>1, <1>2, <1>3 DEF IInv, Exactness

LEMMA ParseFailureIsSilent ==
  ASSUME NEW receipt, NEW buffer, NEW moduleSize, NEW header,
         ~AllPass(ParseChecks(receipt, buffer, moduleSize, header))
  PROVE  FirstFailure(ParseChecks(receipt, buffer, moduleSize, header)) \notin Telling
<1> DEFINE checks == ParseChecks(receipt, buffer, moduleSize, header)
<1>1. DOMAIN checks = 1..12 /\ ~AllPass(checks)
  BY DEF ParseChecks
<1>2. PICK k \in 1..12 : FirstFailure(checks) = checks[k][2]
  <2> HIDE DEF checks
  <2> QED BY <1>1, FirstFailureFails
<1>3. \A i \in 1..12 : checks[i][2] \notin Telling
  BY DEF ParseChecks, Telling
<1> QED BY <1>2, <1>3

\* The bytes that are parsed are those of a receipt, and so verified.
LEMMA ParseKeeps ==
  ASSUME IInv, NEW receipt \in receipts, NEW buffer \in Buffer,
         NEW moduleSize \in ModuleSize, NEW header \in Header,
         Parse(receipt, buffer, moduleSize, header)
  PROVE  IInv'
<1> DEFINE checks == ParseChecks(receipt, buffer, moduleSize, header)
<1>0. moduleSize \in Word /\ request' = [content |-> buffers[buffer], moduleSize |-> moduleSize]
      /\ UNCHANGED memory
  BY LibraryAssumption DEF Parse
<1>1. ASSUME NEW diagnostic, Reject(diagnostic), diagnostic \notin Telling
      PROVE  IInv'
  <2>1. RejectionHasCause'
    BY <1>1, SilentRejection DEF Reject
  <2> QED BY <1>0, <1>1, <2>1, RejectKeeps
<1>3. ASSUME ~AllPass(checks)
      PROVE  FirstFailure(checks) \notin Telling
  BY <1>3, ParseFailureIsSilent
<1>2. CASE /\ AllPass(checks) /\ pc' = "Entries" /\ entries' = <<>>
           /\ reader' = [remaining |-> SizeOf[buffers[buffer]] - PrefixSize
                                         - header.nameLength - SuffixSize,
                         count |-> header.count]
           /\ result' = Rejected("ArtifactUnsupported")
  <2>1. /\ IsBoundTo(receipt, buffer) /\ IsAdmittedArtifact(receipt.identity)
        /\ header.nameLength >= 0 /\ header.count > 0
        /\ header.nameLength <= SizeOf[buffers[buffer]] - PrefixSize - SuffixSize
    BY <1>2, ParseIsChecked
  <2>2. /\ buffers' = buffers /\ receipts' = receipts /\ meaning' = <<>>
        /\ request'.content = buffers[buffer]
    BY DEF Parse, memory
  <2>3. /\ SizeOf[buffers[buffer]] \in Nat
        /\ header.nameLength \in Int /\ header.count \in Int
    <3>1. buffers[buffer] \in Content
      BY DEF IInv, TypeOK
    <3>2. SizeOf[buffers[buffer]] \in Nat
      BY <3>1, LibraryAssumption
    <3>3. header \in [format : Int, runtimeMatches : BOOLEAN, nameLength : Int,
                      pointerSize : Int, count : Int]
      BY LibraryAssumption
    <3>4. header.nameLength \in Int /\ header.count \in Int
      BY <3>3
    <3> QED BY <3>2, <3>4
  <2>4. reader' \in [remaining : Nat, count : Nat]
    <3> DEFINE size == SizeOf[buffers[buffer]]
               nameLength == header.nameLength
    <3>1. size \in Nat /\ nameLength \in Int
          /\ nameLength >= 0 /\ nameLength <= size - PrefixSize - SuffixSize
      BY <2>1, <2>3
    <3> HIDE DEF size, nameLength
    <3>2. size - PrefixSize - nameLength - SuffixSize \in Nat
      BY <3>1 DEF PrefixSize, SuffixSize
    <3>3. header.count \in Nat
      BY <2>1, <2>3
    <3> QED BY <1>2, <3>2, <3>3 DEF size, nameLength
  <2>5. TypeOK'
    BY <1>0, <1>2, <2>2, <2>4, EmptyType DEF IInv, TypeOK, Rejected
  <2>6. IsAdmittedArtifact(buffers[buffer])
    BY <2>1 DEF IInv, Admission, ReceiptsHold, IsBoundTo
  <2>7. EntriesAreExact'
    BY <1>2, <2>2, <2>6 DEF EntriesAreExact, Rejected, IsAdmittedArtifact
  <2>8. DatabaseIsExact' /\ RejectionHasCause'
    BY <1>2, SilentRejection DEF Telling
  <2>9. Admission'
    BY <1>2, <2>2 DEF IInv, Admission, ReceiptsHold, ReadyBytesWereVerified, Rejected,
                      IsAdmittedArtifact
  <2> QED BY <2>5, <2>7, <2>8, <2>9 DEF IInv, Exactness
<1>4. "AllocationFailure" \notin Telling
  BY DEF Telling
<1> QED BY <1>1, <1>2, <1>3, <1>4 DEF Parse

LEMMA LastOfAppended ==
  ASSUME NEW S, NEW sequence \in Seq(S), NEW element \in S
  PROVE  LastOf(Append(sequence, element)) = element
BY DEF LastOf

\* A turn of the loop that is refused is refused for what the file means there.
LEMMA RefusedEntryHasCause ==
  ASSUME TypeOK, EntriesAreExact, pc = "Entries",
         NEW idMode \in 0..8, NEW idOperand \in Word, NEW scaled \in BOOLEAN,
         NEW offsetMode \in 0..7, NEW offsetOperand \in Word, NEW diagnostic,
         NEW meant, meant = MeantEntry(idMode, idOperand, scaled, offsetMode, offsetOperand),
         LET checks == EntryChecks(DecodedId(idMode, idOperand),
                         DecodedOffset(idMode, scaled, offsetMode, offsetOperand), scaled)
         IN  ~AllPass(checks) /\ diagnostic = FirstFailure(checks)
  PROVE  /\ diagnostic = "ArithmeticOverflow" => meant.id \notin Word \/ meant.offset \notin Word
         /\ diagnostic = "OffsetOutsideModule" =>
              meant \in Entry /\ meant.offset >= request.moduleSize
         /\ diagnostic # "DuplicateId"
<1> DEFINE id == DecodedId(idMode, idOperand)
           offset == DecodedOffset(idMode, scaled, offsetMode, offsetOperand)
           checks == EntryChecks(id, offset, scaled)
           previous == LastOf(entries)
           base == previous.offset \div Scale(scaled)
           unscaled == Meant(offsetMode, offsetOperand, base)
<1>1. DOMAIN checks = 1..6 /\ ~AllPass(checks) /\ diagnostic = FirstFailure(checks)
  BY DEF EntryChecks
<1>2. PICK k \in 1..6 : /\ ~checks[k][1] /\ \A earlier \in 1..(k - 1) : checks[earlier][1]
                        /\ diagnostic = checks[k][2]
  <2> HIDE DEF checks
  <2>1. \E k \in 1..6 : /\ ~checks[k][1] /\ \A earlier \in 1..(k - 1) : checks[earlier][1]
                        /\ FirstFailure(checks) = checks[k][2]
    BY <1>1, FirstFailureFails
  <2> QED BY <1>1, <2>1
<1>3. previous.id \in Word /\ previous.offset \in Word /\ LastOf(meaning) = previous
  BY LastEntry DEF Entry, EntriesAreExact
<1>4. /\ meant = [id |-> Meant(idMode, idOperand, previous.id),
                  offset |-> unscaled * Scale(scaled)]
      /\ base \in Word /\ Scale(scaled) \in {1, 8} /\ WordMax \in Nat
      /\ (WordMax \div Scale(scaled)) \in Nat
  BY <1>3, LibraryAssumption DEF MeantEntry, Scale, PointerSize, Word
<1>5. ASSUME k >= 2
      PROVE  reader.remaining - 1 \in Nat
  <2>1. checks[1][1]
    BY <1>2, <1>5
  <2>2. reader.remaining >= 1
    BY <2>1 DEF EntryChecks
  <2> QED BY <2>2 DEF TypeOK
<1>6. ASSUME k >= 3
      PROVE  /\ Meant(idMode, idOperand, previous.id) \in Word
             /\ LeftAfterId(idMode) \in Nat
  <2>1. checks[2][1]
    BY <1>2, <1>6
  <2>2. id.status = "Ok"
    BY <2>1 DEF EntryChecks
  <2>3. reader.remaining - 1 \in Nat
    BY <1>5, <1>6
  <2>4. /\ Meant(idMode, idOperand, previous.id) \in Word
        /\ OperandSize[idMode] <= reader.remaining - 1
    BY <1>3, <2>2, <2>3, DecodeIsExact DEF DecodedId
  <2> QED BY <2>3, <2>4, OperandSizeType DEF LeftAfterId
<1>7. ASSUME k >= 5
      PROVE  offset.value = unscaled /\ unscaled \in Word
  <2>1. checks[4][1]
    BY <1>2, <1>7
  <2>2. offset.status = "Ok"
    BY <2>1 DEF EntryChecks
  <2>3. LeftAfterId(idMode) \in Nat /\ offsetMode \in 0..8
    BY <1>6, <1>7
  <2> QED BY <1>4, <2>2, <2>3, DecodeIsExact DEF DecodedOffset
<1>8. CASE k = 1
  BY <1>2, <1>8 DEF EntryChecks
<1>9. CASE k = 2
  <2>1. diagnostic = id.status
    BY <1>2, <1>9 DEF EntryChecks
  <2>2. reader.remaining - 1 \in Nat
    BY <1>5, <1>9
  <2>3. /\ id.status \in {"Ok", "Truncated", "InvalidEncoding", "ArithmeticOverflow"}
        /\ id.status = "ArithmeticOverflow" => Meant(idMode, idOperand, previous.id) \notin Word
    BY <1>3, <2>2, OverflowIsNoWord DEF DecodedId
  <2> HIDE DEF id
  <2> QED BY <1>4, <2>1, <2>3
<1>10. CASE k = 3
  BY <1>2, <1>10 DEF EntryChecks
<1>11. CASE k = 4
  <2>1. diagnostic = offset.status
    BY <1>2, <1>11 DEF EntryChecks
  <2>2. LeftAfterId(idMode) \in Nat /\ offsetMode \in 0..8
    BY <1>6, <1>11
  <2>3. /\ offset.status \in {"Ok", "Truncated", "InvalidEncoding", "ArithmeticOverflow"}
        /\ offset.status = "ArithmeticOverflow" => unscaled \in Int /\ unscaled \notin Word
    BY <1>4, <2>2, OverflowIsNoWord DEF DecodedOffset
  <2>4. ASSUME unscaled \in Int, unscaled \notin Word
        PROVE  unscaled * Scale(scaled) \notin Word
    BY <1>4, <2>4 DEF Word
  <2> HIDE DEF offset, unscaled
  <2> QED BY <1>4, <2>1, <2>3, <2>4
<1>12. CASE k = 5
  <2>1. diagnostic = "ArithmeticOverflow" /\ ~(offset.value <= WordMax \div Scale(scaled))
    BY <1>2, <1>12 DEF EntryChecks
  <2>2. unscaled \in Word /\ ~(unscaled <= WordMax \div Scale(scaled))
    BY <1>7, <1>12, <2>1
  <2>3. unscaled * Scale(scaled) \notin Word
    <3> HIDE DEF unscaled
    <3>1. CASE Scale(scaled) = 1
      BY <1>4, <2>2, <3>1 DEF Word
    <3>2. CASE Scale(scaled) = 8
      BY <1>4, <2>2, <3>2 DEF Word
    <3> QED BY <1>4, <3>1, <3>2
  <2> QED BY <1>4, <2>1, <2>3
<1>13. CASE k = 6
  <2>1. diagnostic = "OffsetOutsideModule"
        /\ ~(Wrap(offset.value * Scale(scaled)) < request.moduleSize)
    BY <1>2, <1>13 DEF EntryChecks
  <2>2. checks[5][1]
    BY <1>2, <1>13
  <2>3. offset.value <= WordMax \div Scale(scaled)
    BY <2>2 DEF EntryChecks
  <2>4. unscaled * Scale(scaled) \in Word
    BY <1>7, <1>13, <2>3, ScaledFits
  <2>5. ~(unscaled * Scale(scaled) < request.moduleSize)
    BY <1>7, <1>13, <2>1, <2>4, WrapKeepsWords
  <2>6. meant.offset >= request.moduleSize
    <3> DEFINE product == unscaled * Scale(scaled)
    <3>1. product \in Nat /\ request.moduleSize \in Nat /\ ~(product < request.moduleSize)
      BY <1>4, <2>4, <2>5 DEF TypeOK, Word
    <3>2. meant.offset = product
      BY <1>4
    <3> HIDE DEF product
    <3> QED BY <3>1, <3>2
  <2>7. meant \in Entry
    BY <1>4, <1>6, <1>13, <2>4 DEF Entry
  <2> QED BY <2>1, <2>6, <2>7
<1> QED BY <1>8, <1>9, <1>10, <1>11, <1>12, <1>13

LEMMA EntryKeeps ==
  ASSUME IInv, NEW idMode \in 0..8, NEW idOperand \in OperandOf(idMode),
         NEW scaled \in BOOLEAN, NEW offsetMode \in 0..7,
         NEW offsetOperand \in OperandOf(offsetMode),
         ReadEntry(idMode, idOperand, scaled, offsetMode, offsetOperand)
  PROVE  IInv'
<1> DEFINE id == DecodedId(idMode, idOperand)
           offset == DecodedOffset(idMode, scaled, offsetMode, offsetOperand)
           checks == EntryChecks(id, offset, scaled)
           kept == [id |-> id.value, offset |-> Wrap(offset.value * Scale(scaled))]
           meant == MeantEntry(idMode, idOperand, scaled, offsetMode, offsetOperand)
<1>1. /\ UNCHANGED memory /\ request' = request /\ meaning' = Append(meaning, meant)
      /\ idOperand \in Word /\ offsetOperand \in Word
      /\ pc = "Entries" /\ TypeOK /\ EntriesAreExact
  BY LibraryAssumption DEF ReadEntry, memory, OperandOf, Word, IInv, Exactness
<1>2. CASE ~AllPass(checks)
  <2> DEFINE diagnostic == FirstFailure(checks)
  <2>1. Reject(diagnostic)
    BY <1>2 DEF ReadEntry
  <2>2. /\ diagnostic = "ArithmeticOverflow" => meant.id \notin Word \/ meant.offset \notin Word
        /\ diagnostic = "OffsetOutsideModule" =>
             meant \in Entry /\ meant.offset >= request.moduleSize
        /\ diagnostic # "DuplicateId"
    BY <1>1, <1>2, RefusedEntryHasCause
  <2>3. LastOf(meaning') = meant
    <3>1. meaning \in Seq(Entry \cup {meant})
      <4>1. meaning \in Seq(Entry)
        BY <1>1 DEF TypeOK, EntriesAreExact
      <4> HIDE DEF meant
      <4> QED BY <4>1
    <3> HIDE DEF meant
    <3>2. meant \in Entry \cup {meant}
      OBVIOUS
    <3> QED BY <1>1, <3>1, <3>2, LastOfAppended
  <2>4. RejectionHasCause'
    <3> HIDE DEF meant, diagnostic
    <3>1. result'.diagnostic = diagnostic
      BY <2>1 DEF Reject, Rejected
    <3> QED BY <1>1, <2>2, <2>3, <3>1 DEF RejectionHasCause
  <2>5. request'.moduleSize \in Word
    BY <1>1 DEF TypeOK
  <2> QED BY <1>1, <2>1, <2>4, <2>5, RejectKeeps
<1>3. CASE AllPass(checks)
  <2>1. /\ kept = meant /\ kept \in Entry /\ kept.offset < request.moduleSize
        /\ LeftAfterId(idMode) - OperandSize[offsetMode] \in Nat
    BY <1>1, <1>3, EntryIsExact
  <2>2. /\ Len(entries) < reader.count
        /\ entries' = Append(entries, kept) /\ meaning' = Append(meaning, kept)
        /\ reader' = [reader EXCEPT !.remaining = LeftAfterId(idMode) - OperandSize[offsetMode]]
        /\ pc' = pc /\ result' = result
    BY <1>3, <2>1 DEF ReadEntry
  <2> HIDE DEF id, offset, kept, meant
  <2>3. TypeOK'
    BY <1>1, <2>1, <2>2 DEF TypeOK, memory
  <2>4. EntriesAreExact'
    BY <1>1, <2>1, <2>2 DEF EntriesAreExact, TypeOK, IsAdmittedArtifact
  <2>5. DatabaseIsExact' /\ RejectionHasCause'
    <3>1. result' = Rejected("ArtifactUnsupported")
      BY <1>1, <2>2 DEF EntriesAreExact
    <3> QED BY <3>1, SilentRejection DEF Telling
  <2>6. Admission'
    BY <1>1, <2>2 DEF IInv, Admission, ReceiptsHold, ReadyBytesWereVerified, memory,
                      IsAdmittedArtifact
  <2> QED BY <2>3, <2>4, <2>5, <2>6 DEF IInv, Exactness
<1> QED BY <1>2, <1>3
-----------------------------------------------------------------------------
\* Sorting keeps what the entries say, and orders them.
LEMMA OrderingIsSorted ==
  ASSUME NEW sequence \in Seq(Entry), NEW sorted \in Orderings(sequence)
  PROVE  /\ sorted \in Seq(Entry) /\ DOMAIN sorted = DOMAIN sequence
         /\ \A i \in DOMAIN sorted : \E j \in DOMAIN sequence : sorted[i] = sequence[j]
         /\ \A j \in DOMAIN sequence : \E i \in DOMAIN sorted : sorted[i] = sequence[j]
         /\ \A i, j \in DOMAIN sorted : i < j => sorted[i].id <= sorted[j].id
         /\ HasDuplicate(sorted) =>
              \E i, j \in DOMAIN sequence : i # j /\ sequence[i].id = sequence[j].id
<1> DEFINE positions == 1..Len(sequence)
<1>1. PICK from \in [positions -> positions] :
        /\ \A i, j \in positions : from[i] = from[j] => i = j
        /\ \A j \in positions : \E i \in positions : from[i] = j
        /\ \A i, j \in positions : i < j => sequence[from[i]].id <= sequence[from[j]].id
        /\ sorted = [i \in positions |-> sequence[from[i]]]
  <2>1. DOMAIN sequence = positions
    OBVIOUS
  <2>2. PICK from \in Bijection(positions, positions) :
          /\ \A i, j \in positions : i < j => sequence[from[i]].id <= sequence[from[j]].id
          /\ sorted = [i \in positions |-> sequence[from[i]]]
    <3> HIDE DEF positions
    <3> QED BY <2>1, Zenon DEF Orderings
  <2>3. /\ from \in [positions -> positions]
        /\ \A i, j \in positions : from[i] = from[j] => i = j
        /\ \A j \in positions : \E i \in positions : from[i] = j
    BY <2>2, Zenon DEF Bijection, Injection, Surjection, IsInjective
  <2> QED BY <2>2, <2>3
<1>2. \A i \in positions : sorted[i] = sequence[from[i]] /\ sorted[i] \in Entry
  BY <1>1
<1>3. sorted \in Seq(Entry) /\ Len(sorted) = Len(sequence) /\ DOMAIN sorted = positions
  BY <1>1, <1>2
<1>4. ASSUME HasDuplicate(sorted)
      PROVE  \E i, j \in DOMAIN sequence : i # j /\ sequence[i].id = sequence[j].id
  <2>1. PICK k \in 2..Len(sorted) : sorted[k - 1].id = sorted[k].id
    BY <1>4 DEF HasDuplicate
  <2>2. k \in positions /\ k - 1 \in positions /\ k - 1 # k
    BY <1>3, <2>1
  <2>3. from[k - 1] # from[k] /\ from[k - 1] \in positions /\ from[k] \in positions
    BY <1>1, <2>2
  <2> QED BY <1>2, <2>1, <2>2, <2>3
<1>5. \A i \in DOMAIN sorted : \E j \in DOMAIN sequence : sorted[i] = sequence[j]
  <2> TAKE i \in DOMAIN sorted
  <2>1. from[i] \in DOMAIN sequence /\ sorted[i] = sequence[from[i]]
    BY <1>1, <1>2, <1>3
  <2> QED BY <2>1
<1>6. \A j \in DOMAIN sequence : \E i \in DOMAIN sorted : sorted[i] = sequence[j]
  <2> TAKE j \in DOMAIN sequence
  <2>1. j \in positions
    OBVIOUS
  <2>2. PICK i \in positions : from[i] = j
    BY <1>1, <2>1
  <2>3. i \in DOMAIN sorted /\ sorted[i] = sequence[j]
    BY <1>2, <1>3, <2>2
  <2> QED BY <2>3
<1>7. \A i, j \in DOMAIN sorted : i < j => sorted[i].id <= sorted[j].id
  BY <1>1, <1>2, <1>3
<1> QED BY <1>3, <1>4, <1>5, <1>6, <1>7

\* Between two neighbours whose IDs differ there is room for none that is equal:
\* an order without a duplicate among neighbours is strict.
LEMMA NeighboursSuffice ==
  ASSUME NEW sorted \in Seq(Entry), ~HasDuplicate(sorted),
         \A i, j \in DOMAIN sorted : i < j => sorted[i].id <= sorted[j].id
  PROVE  \A i, j \in DOMAIN sorted : i < j => sorted[i].id < sorted[j].id
<1> SUFFICES ASSUME NEW i \in DOMAIN sorted, NEW j \in DOMAIN sorted, i < j
             PROVE  sorted[i].id < sorted[j].id
  OBVIOUS
<1>1. j - 1 \in DOMAIN sorted /\ i <= j - 1 /\ j - 1 < j /\ j \in 2..Len(sorted)
  OBVIOUS
<1>2. sorted[j - 1].id # sorted[j].id
  BY <1>1 DEF HasDuplicate
<1>3. sorted[j - 1].id <= sorted[j].id
  BY <1>1
<1>4. sorted[i].id <= sorted[j - 1].id
  <2>1. CASE i = j - 1
    <3>1. sorted[i] \in Entry
      OBVIOUS
    <3> QED BY <2>1, <3>1 DEF Entry, Word
  <2>2. CASE i < j - 1
    BY <1>1, <2>2
  <2> QED BY <1>1, <2>1, <2>2
<1>5. sorted[i].id \in Int /\ sorted[j - 1].id \in Int /\ sorted[j].id \in Int
  <2>1. sorted[i] \in Entry /\ sorted[j - 1] \in Entry /\ sorted[j] \in Entry
    BY <1>1
  <2> QED BY <2>1 DEF Entry, Word
<1> QED BY <1>2, <1>3, <1>4, <1>5

LEMMA FinishKeeps ==
  ASSUME IInv, Finish
  PROVE  IInv'
<1>1. /\ pc = "Entries" /\ pc' = "Idle" /\ reader' = Idle /\ entries' = <<>>
      /\ UNCHANGED <<buffers, receipts, request, meaning>>
      /\ entries \in Seq(Entry) /\ entries = meaning
      /\ IsAdmittedArtifact(request.content)
      /\ \A i \in DOMAIN entries : entries[i].offset < request.moduleSize
  BY DEF Finish, memory, IInv, TypeOK, Exactness, EntriesAreExact
<1>2. PICK sorted \in Orderings(entries) :
        LET checks == << <<reader.remaining = 0, "TrailingData">>,
                         <<~HasDuplicate(sorted), "DuplicateId">> >>
        IN  result' = IF AllPass(checks)
                      THEN [status |-> "Ready", diagnostic |-> None, entries |-> sorted]
                      ELSE Rejected(FirstFailure(checks))
  BY DEF Finish
<1>3. /\ sorted \in Seq(Entry) /\ DOMAIN sorted = DOMAIN entries
      /\ \A i \in DOMAIN sorted : \E j \in DOMAIN entries : sorted[i] = entries[j]
      /\ \A j \in DOMAIN entries : \E i \in DOMAIN sorted : sorted[i] = entries[j]
      /\ \A i, j \in DOMAIN sorted : i < j => sorted[i].id <= sorted[j].id
      /\ HasDuplicate(sorted) =>
           \E i, j \in DOMAIN entries : i # j /\ entries[i].id = entries[j].id
  BY <1>1, <1>2, OrderingIsSorted
<1> DEFINE checks == << <<reader.remaining = 0, "TrailingData">>,
                        <<~HasDuplicate(sorted), "DuplicateId">> >>
<1>4. /\ DOMAIN checks = 1..2 /\ checks[1][2] = "TrailingData"
      /\ checks[2][2] = "DuplicateId" /\ checks[2][1] = ~HasDuplicate(sorted)
  <2>1. DOMAIN checks = 1..2
    OBVIOUS
  <2>2. checks[1][2] = "TrailingData" /\ checks[2][2] = "DuplicateId"
    OBVIOUS
  <2>3. checks[2][1] = ~HasDuplicate(sorted)
    OBVIOUS
  <2> QED BY <2>1, <2>2, <2>3
<1>5. CASE AllPass(checks)
  <2>1. result' = [status |-> "Ready", diagnostic |-> None, entries |-> sorted]
    BY <1>2, <1>5
  <2>2. ~HasDuplicate(sorted)
    <3> HIDE DEF checks
    <3>1. checks[2][1]
      BY <1>4, <1>5 DEF AllPass
    <3> QED BY <1>4, <3>1
  <2>3. \A i, j \in DOMAIN sorted : i < j => sorted[i].id < sorted[j].id
    BY <1>3, <2>2, NeighboursSuffice
  <2>4. {sorted[i] : i \in DOMAIN sorted} = Meanings'
    BY <1>1, <1>3 DEF Meanings
  <2>5. \A entry \in Meanings' : entry \in Entry /\ entry.offset < request'.moduleSize
    BY <1>1 DEF Meanings
  <2>6. DatabaseIsExact'
    BY <2>1, <2>3, <2>4, <2>5 DEF DatabaseIsExact
  <2>7. RejectionHasCause'
    BY <2>1 DEF RejectionHasCause, None
  <2>8. TypeOK'
    BY <1>1, <1>3, <2>1, EmptyType DEF IInv, TypeOK, Idle
  <2>9. Admission'
    BY <1>1 DEF IInv, Admission, ReceiptsHold, ReadyBytesWereVerified, IsAdmittedArtifact
  <2> QED BY <1>1, <2>6, <2>7, <2>8, <2>9 DEF IInv, Exactness, EntriesAreExact
<1>6. CASE ~AllPass(checks)
  <2> DEFINE diagnostic == FirstFailure(checks)
  <2>1. result' = Rejected(diagnostic)
    BY <1>2, <1>6
  <2>2. PICK k \in 1..2 : ~checks[k][1] /\ diagnostic = checks[k][2]
    <3> HIDE DEF checks
    <3> QED BY <1>4, <1>6, FirstFailureFails
  <2>3. RejectionHasCause'
    <3>1. CASE k = 1
      <4>1. diagnostic \notin Telling
        BY <1>4, <2>2, <3>1 DEF Telling
      <4> QED BY <2>1, <4>1, SilentRejection
    <3>2. CASE k = 2
      <4>1. diagnostic = "DuplicateId" /\ HasDuplicate(sorted)
        BY <1>4, <2>2, <3>2
      <4>2. \E i, j \in DOMAIN meaning : i # j /\ meaning[i].id = meaning[j].id
        BY <1>1, <1>3, <4>1
      <4> HIDE DEF diagnostic
      <4> QED BY <1>1, <2>1, <4>1, <4>2 DEF RejectionHasCause, Rejected
    <3> QED BY <3>1, <3>2
  <2>4. Reject(diagnostic)
    BY <1>1, <2>1 DEF Reject
  <2>5. request'.moduleSize \in Word /\ UNCHANGED memory
    BY <1>1 DEF IInv, TypeOK, memory
  <2> HIDE DEF diagnostic
  <2> QED BY <2>3, <2>4, <2>5, RejectKeeps
<1> QED BY <1>5, <1>6

LEMMA StepKeeps == IInv /\ [Next]_vars => IInv'
<1> SUFFICES ASSUME IInv, [Next]_vars
             PROVE  IInv'
  OBVIOUS
<1>1. CASE Next
  BY <1>1, AdmissionKeeps, RewriteKeeps, ParseKeeps, EntryKeeps, FinishKeeps DEF Next
<1>2. CASE UNCHANGED vars
  BY <1>2 DEF IInv, TypeOK, Admission, Exactness, EntriesAreExact, ReceiptsHold,
              ReadyBytesWereVerified, DatabaseIsExact, RejectionHasCause, Meanings,
              IsAdmittedArtifact, vars, memory
<1> QED BY <1>1, <1>2

LEMMA LibraryInvariant == Spec => []IInv
BY InitHolds, StepKeeps, PTL DEF Spec
-----------------------------------------------------------------------------
\* Every variable of the parser keeps its type for every word size, artifact and
\* header; in particular no read goes past the end of the span.
THEOREM LibraryTypeCorrect == Spec => []TypeOK
<1>1. IInv => TypeOK
  BY DEF IInv
<1> QED BY <1>1, LibraryInvariant, PTL

\* Whatever receipts are issued and whatever spans are reused, a parse is Ready
\* only if it read bytes whose digest was verified for a supported provider.
THEOREM ReadyBytesAreVerified == Spec => []ReadyBytesWereVerified
<1>1. IInv => ReadyBytesWereVerified
  BY DEF IInv, Admission
<1> QED BY <1>1, LibraryInvariant, PTL

\* For every word size and every encoding, the entries kept are the ones the file
\* means in integers that do not wrap, each of them inside the module.
THEOREM EntriesStayExact == Spec => []EntriesAreExact
<1>1. IInv => EntriesAreExact
  BY DEF IInv, Exactness
<1> QED BY <1>1, LibraryInvariant, PTL

\* For every word size and every file, a database that is Ready says exactly what
\* the file means, strictly ordered by ID, however the sort orders equal IDs.
THEOREM DatabaseIsWhatTheFileMeans == Spec => []DatabaseIsExact
<1>1. IInv => DatabaseIsExact
  BY DEF IInv, Exactness
<1> QED BY <1>1, LibraryInvariant, PTL

\* A file is turned away as overflowing, outside the module or ambiguous only if
\* it is, whatever the encodings it uses.
THEOREM RejectionsHaveCauses == Spec => []RejectionHasCause
<1>1. IInv => RejectionHasCause
  BY DEF IInv, Exactness
<1> QED BY <1>1, LibraryInvariant, PTL
-----------------------------------------------------------------------------
\* The binary search of a database in strict order stands where the ID sought
\* is, if it is anywhere.
LEMMA SearchFinds ==
  ASSUME NEW database \in Seq(Entry), NEW id \in Word,
         \A i, j \in DOMAIN database : i < j => database[i].id < database[j].id
  PROVE  \A i \in DOMAIN database : database[i].id = id => i = LowerBound(database, id)
<1> DEFINE n == Len(database)
           positions == 1..(n + 1)
           notBelow == {i \in positions : i = n + 1 \/ ~(database[i].id < id)}
           at == LowerBound(database, id)
<1>1. n \in Nat /\ DOMAIN database = 1..n /\ id \in Int
      /\ \A i \in 1..n : database[i].id \in Int
  <2>1. \A i \in 1..n : database[i] \in Entry
    OBVIOUS
  <2> QED BY <2>1 DEF Entry, Word
<1> HIDE DEF n
<1>2. notBelow \subseteq Nat /\ n + 1 \in notBelow
  BY <1>1
<1>3. PICK least \in notBelow : \A other \in notBelow : least <= other
  BY <1>2, LeastNatural
<1>4. \A i \in 1..(least - 1) : database[i].id < id
  BY <1>1, <1>3
<1>5. \A i \in least..n : ~(database[i].id < id)
  <2> TAKE i \in least..n
  <2>1. least \in 1..n /\ ~(database[least].id < id) /\ i \in 1..n
    BY <1>1, <1>3
  <2>2. CASE i = least
    BY <2>1, <2>2
  <2>3. CASE least < i
    <3>1. database[least].id < database[i].id
      BY <1>1, <2>1, <2>3
    <3> QED BY <1>1, <2>1, <3>1
  <2> QED BY <2>1, <2>2, <2>3
<1>6. Parts(database, id, least) /\ least \in positions
  BY <1>3, <1>4, <1>5 DEF Parts, n
<1>7. at \in positions /\ Parts(database, id, at)
  <2>1. at = CHOOSE found \in positions :
               (\E position \in positions : Parts(database, id, position))
                 => Parts(database, id, found)
    BY DEF LowerBound, n
  <2> HIDE DEF at, positions
  <2> QED BY <1>6, <2>1
<1> HIDE DEF at
<1>8. ASSUME NEW i \in 1..n, database[i].id = id
      PROVE  i = at
  <2>1. ~(i < at)
    <3> SUFFICES ASSUME i < at
                 PROVE  FALSE
      OBVIOUS
    <3>1. i \in 1..(at - 1)
      BY <1>1, <1>7
    <3> QED BY <1>1, <1>7, <1>8, <3>1 DEF Parts
  <2>2. ~(at < i)
    <3> SUFFICES ASSUME at < i
                 PROVE  FALSE
      OBVIOUS
    <3>1. at \in 1..n /\ at \in at..n
      BY <1>1, <1>7
    <3>2. ~(database[at].id < id)
      BY <1>7, <3>1 DEF Parts, n
    <3>3. database[at].id < database[i].id
      BY <1>1, <3>1
    <3> QED BY <1>8, <3>2, <3>3
  <2> QED BY <1>1, <1>7, <2>1, <2>2
<1> QED BY <1>1, <1>8 DEF at

LEMMA ExactDatabasesResolve == IInv => ResolvesExactly
<1> SUFFICES ASSUME IInv, result.status = "Ready", NEW id \in Word
             PROVE  LET said == {entry.offset : entry \in {e \in Meanings : e.id = id}}
                    IN  /\ ResolveOffset(result, id) = said
                        /\ \A base, size \in Word :
                             ResolveAddress(result, id, base, size) =
                               {base + offset : offset \in {o \in said :
                                  base # 0 /\ base + size <= WordMax /\ o < size}}
  BY DEF ResolvesExactly
<1> DEFINE database == result.entries
           said == {entry.offset : entry \in {e \in Meanings : e.id = id}}
<1>1. /\ database \in Seq(Entry) /\ {database[i] : i \in DOMAIN database} = Meanings
      /\ \A i, j \in DOMAIN database : i < j => database[i].id < database[j].id
      /\ \A entry \in Meanings : entry \in Entry
  BY DEF IInv, TypeOK, Exactness, DatabaseIsExact
<1>2. \A i \in DOMAIN database : database[i].id = id => i = LowerBound(database, id)
  <2> HIDE DEF database
  <2> QED BY <1>1, SearchFinds
<1>3. ResolveOffset(result, id) =
        {database[i].offset : i \in {j \in DOMAIN database :
           j = LowerBound(database, id) /\ database[j].id = id}}
  BY DEF ResolveOffset
<1>4. ResolveOffset(result, id) = {database[i].offset : i \in {j \in DOMAIN database :
                                                             database[j].id = id}}
  <2> HIDE DEF database
  <2> QED BY <1>2, <1>3
<1>5. ResolveOffset(result, id) = said
  <2> HIDE DEF database
  <2> QED BY <1>1, <1>4
<1>6. said \subseteq Word
  BY <1>1 DEF Entry
<1> HIDE DEF said
<1>7. ASSUME NEW base \in Word, NEW size \in Word
      PROVE  ResolveAddress(result, id, base, size) =
               {base + offset : offset \in {o \in said :
                  base # 0 /\ base + size <= WordMax /\ o < size}}
  <2>1. WordMax \in Nat /\ base \in Nat /\ size \in Nat /\ said \subseteq Nat
    BY <1>6, LibraryAssumption DEF Word
  <2>2. CASE base = 0 \/ size = 0 \/ size > WordMax - base
    <3>1. ResolveAddress(result, id, base, size) = {}
      BY <2>2 DEF ResolveAddress
    <3>2. \A o \in said : ~(base # 0 /\ base + size <= WordMax /\ o < size)
      BY <2>1, <2>2
    <3> QED BY <3>1, <3>2
  <2>3. CASE ~(base = 0 \/ size = 0 \/ size > WordMax - base)
    <3>1. ResolveAddress(result, id, base, size) =
            {Wrap(base + offset) : offset \in {o \in said : o < size /\ o <= WordMax - base}}
      BY <1>5, <2>3 DEF ResolveAddress
    <3>2. \A o \in said : (o < size /\ o <= WordMax - base)
                          <=> (base # 0 /\ base + size <= WordMax /\ o < size)
      BY <2>1, <2>3
    <3>3. \A o \in said : o < size => Wrap(base + o) = base + o
      <4> SUFFICES ASSUME NEW o \in said, o < size
                   PROVE  Wrap(base + o) = base + o
        OBVIOUS
      <4>1. base + o \in Word
        BY <2>1, <2>3 DEF Word
      <4> QED BY <4>1, WrapKeepsWords
    <3> QED BY <3>1, <3>2, <3>3
  <2> QED BY <2>2, <2>3
<1> QED BY <1>5, <1>7 DEF said

\* For every word size, file, ID and image, a Ready database answers what the file
\* says: its offset and no other's, or nothing, and an address that did not wrap.
THEOREM ResolutionIsExact == Spec => []ResolvesExactly
BY ExactDatabasesResolve, LibraryInvariant, PTL
=============================================================================
