---------------------------- MODULE AddressLibrary ----------------------------
(***************************************************************************)
(* The admission of an Address Library artifact, the parser of its bytes,  *)
(* and the resolution of relocation IDs.  A span of bytes is an address    *)
(* with a content; the digest of a content is the content itself.  What    *)
(* the bytes of an admitted file encode is left open: each value is chosen *)
(* when the parser reads it, and the reader's position and the sizes of    *)
(* what it reads are kept.  A reservation may fail for want of memory.     *)
(***************************************************************************)
EXTENDS Integers, Sequences, Functions, TLC, Checks

CONSTANTS
  WordMax,         \* the largest std::uint64_t, and std::uintptr_t
  Buffer,          \* addresses of spans
  Content,
  SizeOf,          \* the bytes of each content
  Admitted,        \* the contents SupportedRelocationProviders names
  Header,          \* what the fixed part of a file may say
  Operand,         \* what an encoded operand may be
  ModuleSize       \* module_image_size

Word == 0..WordMax
PointerSize == 8
PrefixSize == 24           \* format, four components of the version, name length
SuffixSize == 8            \* pointer size and address count

ASSUME LibraryAssumption ==
  /\ WordMax \in Nat \ {0}
  /\ SizeOf \in [Content -> Nat] /\ Admitted \subseteq Content
  /\ Operand \subseteq Word /\ ModuleSize \subseteq Word
  /\ Header \subseteq [format : Int, runtimeMatches : BOOLEAN, nameLength : Int,
                       pointerSize : Int, count : Int]

VARIABLES
  buffers,         \* the content at each address
  receipts,        \* every RelocationArtifactReceipt issued
  pc,
  reader,          \* the bytes left to read, and the entries announced
  entries,
  result,          \* the AddressLibraryParseResult of the last call
  request,         \* the content that is parsed, and module_image_size
  meaning          \* what was read, in integers that do not wrap

memory == <<buffers, receipts>>
vars == <<memory, pc, reader, entries, result, request, meaning>>

Entry == [id : Word, offset : Word]
NoEntry == [id |-> 0, offset |-> 0]          \* what the first deltas start from
None == "None"
Idle == [remaining |-> 0, count |-> 0]
Rejected(diagnostic) == [status |-> "Rejected", diagnostic |-> diagnostic, entries |-> <<>>]

Init ==
  /\ buffers \in [Buffer -> Content]
  /\ receipts = {}
  /\ pc = "Idle" /\ reader = Idle /\ entries = <<>> /\ meaning = <<>>
  /\ result = Rejected("ArtifactUnsupported")
  /\ request = [content |-> None, moduleSize |-> 0]
-----------------------------------------------------------------------------
IsAdmittedArtifact(identity) == identity \in Admitted

\* The caller is done with the result of an earlier parse, which is a value of
\* its own: it shares nothing with the span or the receipt.
Forget ==
  /\ result' = Rejected("ArtifactUnsupported")
  /\ request' = [content |-> None, moduleSize |-> 0]
  /\ meaning' = <<>>

\* A refused admission changes nothing.
AdmitRelocationArtifact(buffer, identity) ==
  /\ pc = "Idle"
  /\ IsAdmittedArtifact(identity)
  /\ SizeOf[buffers[buffer]] = SizeOf[identity]
  /\ buffers[buffer] = identity                         \* VerifySha256
  /\ receipts' = receipts \cup {[buffer |-> buffer, identity |-> identity]}
  /\ Forget
  /\ UNCHANGED <<buffers, pc, reader, entries>>

\* The caller reuses a span; one that a receipt is bound to is immutable.
Rewrite(buffer, content) ==
  /\ pc = "Idle"
  /\ \A receipt \in receipts : receipt.buffer # buffer
  /\ buffers' = [buffers EXCEPT ![buffer] = content]
  /\ Forget
  /\ UNCHANGED <<receipts, pc, reader, entries>>

\* Defective form: any span of the right size will do.
IsBoundToSize(receipt, buffer) == SizeOf[buffers[buffer]] = SizeOf[receipt.identity]

IsBoundTo(receipt, buffer) ==
  /\ buffer = receipt.buffer
  /\ SizeOf[buffers[buffer]] = SizeOf[receipt.identity]
-----------------------------------------------------------------------------
Reject(diagnostic) ==
  /\ result' = Rejected(diagnostic)
  /\ pc' = "Idle" /\ reader' = Idle /\ entries' = <<>>

\* The checks before the entries, in their order; a read past the end of the
\* span is Truncated.
ParseChecks(receipt, buffer, moduleSize, header) ==
  LET size == SizeOf[buffers[buffer]]
      left == size - PrefixSize
  IN  << <<IsBoundTo(receipt, buffer), "ArtifactBytesMismatch">>,
         <<IsAdmittedArtifact(receipt.identity), "ArtifactUnsupported">>,
         <<size = SizeOf[receipt.identity], "ArtifactSizeMismatch">>,
         <<moduleSize # 0, "InvalidModuleSize">>,
         <<size >= 4, "Truncated">>,
         <<header.format = 2, "UnsupportedFormat">>,
         <<size >= 20, "Truncated">>,
         <<header.runtimeMatches, "RuntimeMismatch">>,
         <<size >= PrefixSize, "Truncated">>,
         <<header.nameLength >= 0 /\ left >= SuffixSize
             /\ header.nameLength <= left - SuffixSize, "InvalidNameLength">>,
         <<header.pointerSize = PointerSize, "InvalidPointerSize">>,
         <<header.count > 0 /\ header.count <= left - header.nameLength - SuffixSize,
           "InvalidEntryCount">> >>

Parse(receipt, buffer, moduleSize, header) ==
  LET checks == ParseChecks(receipt, buffer, moduleSize, header)
  IN  /\ pc = "Idle"
      /\ meaning' = <<>>
      /\ request' = [content |-> buffers[buffer], moduleSize |-> moduleSize]
      /\ UNCHANGED memory
      /\ \/ ~AllPass(checks) /\ Reject(FirstFailure(checks))
         \/ AllPass(checks) /\ Reject("AllocationFailure")
         \/ /\ AllPass(checks)
            /\ pc' = "Entries"
            /\ reader' = [remaining |-> SizeOf[buffers[buffer]] - PrefixSize
                                          - header.nameLength - SuffixSize,
                          count |-> header.count]
            /\ entries' = <<>>
            /\ result' = Rejected("ArtifactUnsupported")
-----------------------------------------------------------------------------
Wrap(value) == value % (WordMax + 1)

\* Defective form: the largest sum is taken to fit one too few times.
AddCheckedTooSoon(base, delta) ==
  [status |-> IF delta >= WordMax - base THEN "ArithmeticOverflow" ELSE "Ok",
   value |-> Wrap(base + delta)]

AddChecked(base, delta) ==
  [status |-> IF delta > WordMax - base THEN "ArithmeticOverflow" ELSE "Ok",
   value |-> Wrap(base + delta)]

\* Defective form: a difference is left to wrap.
SubtractUnchecked(base, delta) == [status |-> "Ok", value |-> Wrap(base - delta)]

SubtractChecked(base, delta) ==
  [status |-> IF delta > base THEN "ArithmeticOverflow" ELSE "Ok",
   value |-> Wrap(base - delta)]

\* How many bytes follow the type byte for each mode; 8 stands for a mode that
\* does not exist.
OperandSize == [mode \in 0..8 |-> CASE mode = 0 -> 8
                                    [] mode \in {2, 3} -> 1
                                    [] mode \in {4, 5, 6} -> 2
                                    [] mode = 7 -> 4
                                    [] mode \in {1, 8} -> 0]

OperandOf(mode) == IF OperandSize[mode] = 0 THEN {0} ELSE Operand

\* Defective form: the reader does not look at what is left.
IsTruncatedNever(mode, remaining) == FALSE

IsTruncated(mode, remaining) == remaining < OperandSize[mode]

DecodeValue(mode, operand, previous, remaining) ==
  CASE mode = 8 -> [status |-> "InvalidEncoding", value |-> 0]
    [] mode # 8 /\ IsTruncated(mode, remaining) -> [status |-> "Truncated", value |-> 0]
    [] mode \in {0, 6, 7} /\ ~IsTruncated(mode, remaining)
         -> [status |-> "Ok", value |-> operand]
    [] mode = 1 -> AddChecked(previous, 1)
    [] mode \in {2, 4} /\ ~IsTruncated(mode, remaining) -> AddChecked(previous, operand)
    [] mode \in {3, 5} /\ ~IsTruncated(mode, remaining) -> SubtractChecked(previous, operand)

\* What a mode means, whatever it comes to.
Meant(mode, operand, previous) ==
  CASE mode \in {0, 6, 7} -> operand
    [] mode = 1 -> previous + 1
    [] mode \in {2, 4} -> previous + operand
    [] mode \in {3, 5} -> previous - operand
    [] mode = 8 -> 0

LastOf(sequence) == IF sequence = <<>> THEN NoEntry ELSE sequence[Len(sequence)]

\* An offset may be counted in pointers: from the last one, and in the result.
Scale(scaled) == IF scaled THEN PointerSize ELSE 1

DecodedId(mode, operand) ==
  DecodeValue(mode, operand, LastOf(entries).id, reader.remaining - 1)

LeftAfterId(idMode) == reader.remaining - 1 - OperandSize[idMode]

DecodedOffset(idMode, scaled, mode, operand) ==
  DecodeValue(mode, operand, LastOf(entries).offset \div Scale(scaled), LeftAfterId(idMode))

EntryChecks(id, offset, scaled) ==
  << <<reader.remaining >= 1, "Truncated">>,
     <<id.status = "Ok", id.status>>,
     <<LastOf(entries).offset % Scale(scaled) = 0, "InvalidEncoding">>,
     <<offset.status = "Ok", offset.status>>,
     <<offset.value <= WordMax \div Scale(scaled), "ArithmeticOverflow">>,
     <<Wrap(offset.value * Scale(scaled)) < request.moduleSize, "OffsetOutsideModule">> >>

MeantEntry(idMode, idOperand, scaled, offsetMode, offsetOperand) ==
  [id |-> Meant(idMode, idOperand, LastOf(meaning).id),
   offset |-> Meant(offsetMode, offsetOperand, LastOf(meaning).offset \div Scale(scaled))
                * Scale(scaled)]

\* One turn of the loop: the type byte, the ID, the offset.
ReadEntry(idMode, idOperand, scaled, offsetMode, offsetOperand) ==
  LET id == DecodedId(idMode, idOperand)
      offset == DecodedOffset(idMode, scaled, offsetMode, offsetOperand)
      checks == EntryChecks(id, offset, scaled)
  IN  /\ pc = "Entries" /\ Len(entries) < reader.count
      /\ meaning' = Append(meaning,
           MeantEntry(idMode, idOperand, scaled, offsetMode, offsetOperand))
      /\ IF AllPass(checks)
         THEN /\ entries' = Append(entries,
                   [id |-> id.value, offset |-> Wrap(offset.value * Scale(scaled))])
              /\ reader' = [reader EXCEPT
                   !.remaining = LeftAfterId(idMode) - OperandSize[offsetMode]]
              /\ UNCHANGED <<pc, result>>
         ELSE Reject(FirstFailure(checks))
      /\ UNCHANGED <<memory, request>>

\* Defective form: the entries are left as the file orders them.
Unordered(sequence) == {sequence}

\* std::ranges::sort by ID: the same entries, none before one with a smaller ID;
\* the order of those with the same ID is not specified.
Orderings(sequence) ==
  {[i \in DOMAIN sequence |-> sequence[from[i]]] : from \in
     {f \in Bijection(DOMAIN sequence, DOMAIN sequence) :
        \A i, j \in DOMAIN sequence : i < j => sequence[f[i]].id <= sequence[f[j]].id}}

HasDuplicate(sorted) == \E i \in 2..Len(sorted) : sorted[i - 1].id = sorted[i].id

Finish ==
  /\ pc = "Entries" /\ Len(entries) = reader.count
  /\ \E sorted \in Orderings(entries) :
       LET checks == << <<reader.remaining = 0, "TrailingData">>,
                        <<~HasDuplicate(sorted), "DuplicateId">> >>
       IN  result' = IF AllPass(checks)
                     THEN [status |-> "Ready", diagnostic |-> None, entries |-> sorted]
                     ELSE Rejected(FirstFailure(checks))
  /\ pc' = "Idle" /\ reader' = Idle /\ entries' = <<>>
  /\ UNCHANGED <<memory, request, meaning>>
-----------------------------------------------------------------------------
\* std::lower_bound: the position that parts the IDs below the one sought from
\* the others, Len + 1 for the end; without one its answer is not specified.
Parts(database, id, position) ==
  /\ \A i \in 1..(position - 1) : database[i].id < id
  /\ \A i \in position..Len(database) : ~(database[i].id < id)

LowerBound(database, id) ==
  LET positions == 1..(Len(database) + 1)
  IN  CHOOSE found \in positions :
        (\E position \in positions : Parts(database, id, position))
          => Parts(database, id, found)

\* A std::optional is a set of at most one value.
\* Defective form: what stands at the lower bound is taken for what was sought.
ResolveNearest(found, id) ==
  LET at == LowerBound(found.entries, id)
  IN  {found.entries[i].offset : i \in {j \in DOMAIN found.entries :
                                          found.status = "Ready" /\ j = at}}

ResolveOffset(found, id) ==
  LET at == LowerBound(found.entries, id)
  IN  {found.entries[i].offset : i \in {j \in DOMAIN found.entries :
         found.status = "Ready" /\ j = at /\ found.entries[j].id = id}}

ResolveAddress(found, id, imageBase, imageSize) ==
  IF imageBase = 0 \/ imageSize = 0 \/ imageSize > WordMax - imageBase THEN {}
  ELSE {Wrap(imageBase + offset) : offset \in {o \in ResolveOffset(found, id) :
                                    o < imageSize /\ o <= WordMax - imageBase}}
-----------------------------------------------------------------------------
Next ==
  \/ \E buffer \in Buffer, content \in Content :
       \/ AdmitRelocationArtifact(buffer, content)
       \/ Rewrite(buffer, content)
  \/ \E receipt \in receipts, buffer \in Buffer, moduleSize \in ModuleSize, header \in Header :
       Parse(receipt, buffer, moduleSize, header)
  \/ \E idMode \in 0..8, offsetMode \in 0..7, scaled \in BOOLEAN :
       \E idOperand \in OperandOf(idMode), offsetOperand \in OperandOf(offsetMode) :
         ReadEntry(idMode, idOperand, scaled, offsetMode, offsetOperand)
  \/ Finish

Spec == Init /\ [][Next]_vars
-----------------------------------------------------------------------------
\* Every variable has its type; the reader never stands past the end of its
\* span (ReadUnsigned takes nothing that is not there).
TypeOK ==
  /\ buffers \in [Buffer -> Content]
  /\ receipts \subseteq [buffer : Buffer, identity : Content]
  /\ pc \in {"Idle", "Entries"}
  /\ reader \in [remaining : Nat, count : Nat]
  /\ entries \in Seq(Entry) /\ Len(entries) <= reader.count
  /\ result.status \in {"Rejected", "Ready"} /\ result.entries \in Seq(Entry)
  /\ result.status = "Rejected" => result.entries = <<>>
  /\ request.moduleSize \in Word

\* A parse that is Ready was made from the very content whose digest was
\* verified for a supported provider: a receipt cannot be spent on another
\* span, and the span it is bound to still holds what was hashed.
ReadyBytesWereVerified ==
  result.status = "Ready" => IsAdmittedArtifact(request.content)

Meanings == {meaning[i] : i \in DOMAIN meaning}

\* A database that is Ready says exactly what the file means, in integers that
\* do not wrap: the same pairs, strictly ordered by ID, each offset inside the
\* module.
DatabaseIsExact ==
  result.status = "Ready" =>
    LET database == result.entries
    IN  /\ {database[i] : i \in DOMAIN database} = Meanings
        /\ \A i, j \in DOMAIN database : i < j => database[i].id < database[j].id
        /\ \A entry \in Meanings : entry \in Entry /\ entry.offset < request.moduleSize

\* The binary search answers what the file says, for every ID: its offset and
\* no other's, nothing for an ID the file does not name, and an address inside
\* the image that did not wrap.
ResolvesExactly ==
  result.status = "Ready" =>
    \A id \in Word :
      LET said == {entry.offset : entry \in {e \in Meanings : e.id = id}}
      IN  /\ ResolveOffset(result, id) = said
          /\ \A base, size \in Word :
               ResolveAddress(result, id, base, size) =
                 {base + offset : offset \in {o \in said :
                    base # 0 /\ base + size <= WordMax /\ o < size}}

\* A file is turned away only for what it does: an overflow is a value no word
\* holds, an outside offset is not in the module, a duplicate is there twice.
RejectionHasCause ==
  LET last == LastOf(meaning)
  IN  /\ result.diagnostic = "ArithmeticOverflow" =>
           last.id \notin Word \/ last.offset \notin Word
      /\ result.diagnostic = "OffsetOutsideModule" =>
           last \in Entry /\ last.offset >= request.moduleSize
      /\ result.diagnostic = "DuplicateId" =>
           \E i, j \in DOMAIN meaning : i # j /\ meaning[i].id = meaning[j].id
=============================================================================
