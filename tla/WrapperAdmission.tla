--------------------------- MODULE WrapperAdmission ---------------------------
(***************************************************************************)
(* The admission of the loaded ENB wrapper: its path, the evidence of the  *)
(* file found there, and the verdict of the allowlist.  The file has one   *)
(* of several contents, and others replace it whenever nobody holds it.    *)
(* Each call of Windows is a step and may fail; a read may come up short.  *)
(***************************************************************************)
EXTENDS Integers, Sequences, FiniteSets, Checks

CONSTANTS
  InitialCapacity, MaximumCapacity,  \* of the buffer for a module's path
  DosSize, NtPrefixSize,             \* what the PE headers take
  MaxPart,         \* the largest part of a version, 65535
  Content,
  About,           \* the facts of each content
  PathLength,      \* the lengths of module paths; 0 is no module
  Allowlist        \* kSupportedBuilds

Missing == "missing"
NoVersion == <<0, 0, 0, 0>>
Fallbacks == <<"neutral unicode", "US unicode", "US ansi">>

\* What identifies a build: the digest, the size, the version, the machine and the
\* filename it was authored with.
Fingerprint == [digest : STRING, size : Nat, version : Seq(Nat), machine : STRING, name : STRING]

ASSUME WrapperAssumption ==
  /\ InitialCapacity \in Nat \ {0} /\ MaximumCapacity \in Nat
  /\ InitialCapacity <= MaximumCapacity
  /\ DosSize \in Nat /\ NtPrefixSize \in Nat /\ MaxPart \in Nat
  /\ PathLength \subseteq Nat /\ Missing \notin Content
  /\ \A content \in Content :
       /\ About[content].size \in Nat /\ About[content].lfanew \in Int
       /\ About[content].translations \in Seq(STRING)
  /\ Allowlist \in Seq(Fingerprint)

VARIABLES
  file,            \* the content at the path
  pc,
  request,         \* the length of the module's path, the policy
  capacity,        \* of the path's buffer
  opened,          \* the content when the file was last opened
  evidence,        \* WrapperEvidence: code, length of the path, fingerprint
  verdict          \* WrapperCompatibilityResult

vars == <<file, pc, request, capacity, opened, evidence, verdict>>

NoFingerprint == [digest |-> Missing, size |-> 0, version |-> NoVersion,
                  machine |-> "Unknown", name |-> Missing]
NoEvidence == [code |-> "ModulePathUnavailable", path |-> 0, fingerprint |-> NoFingerprint]
NoVerdict == [build |-> "EvidenceUnavailable", admission |-> "RejectedEvidenceUnavailable",
              mismatches |-> {}, index |-> 0]

Init ==
  /\ file \in Content
  /\ pc = "Idle" /\ request = [length |-> 0, policy |-> "Strict"]
  /\ capacity = InitialCapacity /\ opened = Missing
  /\ evidence = NoEvidence /\ verdict = NoVerdict
-----------------------------------------------------------------------------
\* Defective form: the file is opened with every share mode.
IsHeldByNobody(holding) == TRUE

\* FILE_SHARE_READ alone: while the handle is open the file is neither written,
\* nor renamed, nor deleted.
IsReplaceable(holding) == ~holding

Holding == pc \in {"Size", "Architecture", "Hash", "VersionSize", "Version"}

Replace(content) ==
  /\ IsReplaceable(Holding)
  /\ file' = content
  /\ UNCHANGED <<pc, request, capacity, opened, evidence, verdict>>

\* EvaluateLoadedEnbWrapper; the result is assembled from nothing.
Evaluate(length, policy) ==
  /\ pc = "Idle"
  /\ request' = [length |-> length, policy |-> policy]
  /\ capacity' = InitialCapacity
  /\ evidence' = NoEvidence /\ verdict' = NoVerdict
  /\ pc' = "Path"
  /\ UNCHANGED <<file, opened>>

\* The inspection is over, with what was found until here.
Conclude(code) ==
  /\ evidence' = [evidence EXCEPT !.code = code]
  /\ pc' = "Classify"
  /\ UNCHANGED <<file, request, capacity, opened, verdict>>

\* The next step of the inspection.
Proceed(next, fingerprint) ==
  /\ evidence' = [evidence EXCEPT !.fingerprint = fingerprint]
  /\ pc' = next
  /\ UNCHANGED <<file, request, capacity, opened, verdict>>

\* Defective form: a path that fills the buffer is taken to be all of it.
FitsExactly(returned, size) == returned <= size

IsWhole(returned, size) == returned < size

\* One call of GetModuleFileNameW, which fills the buffer when the path does not
\* fit in it; the buffer doubles up to its maximum.
ResolveModulePath ==
  LET returned == IF request.length < capacity THEN request.length ELSE capacity
  IN  /\ pc = "Path"
      /\ \/ request.length = 0 /\ Conclude("InvalidModule")
         \/ request.length # 0 /\ Conclude("ModulePathUnavailable")
         \/ /\ request.length # 0 /\ IsWhole(returned, capacity)
            /\ evidence' = [evidence EXCEPT !.path = returned]
            /\ pc' = "Open"
            /\ UNCHANGED <<file, request, capacity, opened, verdict>>
         \/ /\ request.length # 0 /\ ~IsWhole(returned, capacity)
            /\ capacity >= MaximumCapacity /\ Conclude("ModulePathTooLong")
         \/ /\ request.length # 0 /\ ~IsWhole(returned, capacity)
            /\ capacity < MaximumCapacity
            /\ capacity' = IF capacity * 2 < MaximumCapacity THEN capacity * 2
                           ELSE MaximumCapacity
            /\ UNCHANGED <<file, pc, request, opened, evidence, verdict>>

\* InspectWrapperFile from here on.
Open ==
  /\ pc = "Open"
  /\ \/ Conclude("FileOpenFailed")
     \/ Conclude("FileReadFailed")                \* no memory for the path
     \/ /\ opened' = file
        /\ pc' = "Size"
        /\ UNCHANGED <<file, request, capacity, evidence, verdict>>

ReadSize ==
  /\ pc = "Size"
  /\ \/ Conclude("FileSizeFailed")
     \/ Proceed("Architecture", [evidence.fingerprint EXCEPT !.size = About[file].size])

\* The checks of ReadArchitecture.  A read past the end is refused before it is
\* made, and one that comes up short all the same says the same.
ArchitectureChecks(size, image) ==
  << <<size >= DosSize, "PortableExecutableTruncated">>,
     <<image.magic /\ image.lfanew >= 0, "PortableExecutableInvalid">>,
     <<image.lfanew <= size /\ size - image.lfanew >= NtPrefixSize,
       "PortableExecutableTruncated">>,
     <<image.signature, "PortableExecutableInvalid">> >>

ReadArchitecture ==
  LET checks == ArchitectureChecks(evidence.fingerprint.size, About[file])
  IN  /\ pc = "Architecture"
      /\ \/ ~AllPass(checks) /\ Conclude(FirstFailure(checks))
         \/ /\ AllPass(SubSeq(checks, 1, 1))
            /\ Conclude("FileReadFailed") \/ Conclude("PortableExecutableTruncated")
         \/ /\ AllPass(checks)
            /\ Proceed("Hash", [evidence.fingerprint EXCEPT !.machine = About[file].machine])

\* HashFile is noexcept and reserves the object of the hash: without memory the
\* process is terminated, whatever InspectWrapperFile would catch.
HashFile ==
  /\ pc = "Hash"
  /\ \/ Conclude("HashFailed") \/ Conclude("FileReadFailed")
     \/ /\ About[file].size = evidence.fingerprint.size
        /\ Proceed("VersionSize", [evidence.fingerprint EXCEPT !.digest = About[file].digest])
     \/ /\ pc' = "Terminated" /\ opened' = Missing
        /\ UNCHANGED <<file, request, capacity, evidence, verdict>>
-----------------------------------------------------------------------------
\* What is authored of a version: its parts, and whether nothing else is there.
ParseFourPartVersion(text) ==
  IF text.clean /\ Len(text.parts) = 4 /\ \A i \in 1..4 : text.parts[i] <= MaxPart
  THEN {text.parts} ELSE {}

\* The strings of a language; a language without any has empty ones.
ReadVersionString(image, language) ==
  IF language \in DOMAIN image.strings THEN image.strings[language]
  ELSE [version |-> [parts |-> <<>>, clean |-> TRUE], name |-> Missing]

NothingFound == [version |-> {}, name |-> Missing]
IsFound(found) == found.version # {} /\ found.name # Missing

\* A version once found stays until a later one replaces it; a filename is that
\* of the last language looked at, also when it has none.
Translated(image, found, language) ==
  LET authored == ReadVersionString(image, language)
      version == ParseFourPartVersion(authored.version)
  IN  IF IsFound(found) THEN found
      ELSE [version |-> IF version # {} THEN version ELSE found.version,
            name |-> authored.name]

\* The common languages fill in what is still missing.
FilledIn(image, found, language) ==
  LET authored == ReadVersionString(image, language)
  IN  IF IsFound(found) THEN found
      ELSE [version |-> IF found.version # {} THEN found.version
                        ELSE ParseFourPartVersion(authored.version),
            name |-> IF found.name # Missing THEN found.name ELSE authored.name]

\* The declared languages one after another, in the order of the file.
Declared(image) ==
  LET found[n \in 0..Len(image.translations)] ==
        IF n = 0 THEN NothingFound
        ELSE Translated(image, found[n - 1], image.translations[n])
  IN  found[Len(image.translations)]

VersionFound(image) ==
  FilledIn(image,
    FilledIn(image,
      FilledIn(image, Declared(image), Fallbacks[1]), Fallbacks[2]), Fallbacks[3])

\* GetFileVersionInfoSizeW and then GetFileVersionInfoW open the path again; the
\* resource may not be there, or not be read.
ReadVersionSize ==
  /\ pc = "VersionSize"
  /\ \/ Conclude("FileVersionUnavailable")
     \/ Proceed("Version", evidence.fingerprint)

ReadFileVersion ==
  LET found == VersionFound(About[file])
      checks == << <<About[file].fixedInfo, "FileVersionMalformed">>,
                   <<found.version # {}, "FileVersionMalformed">>,
                   <<found.name # Missing, "OriginalFilenameUnavailable">> >>
  IN  /\ pc = "Version"
      /\ \/ Conclude("FileVersionUnavailable")
         \/ ~AllPass(checks) /\ Conclude(FirstFailure(checks))
         \/ /\ AllPass(checks)
            /\ evidence' = [evidence EXCEPT !.code = "Complete",
                 !.fingerprint = [@ EXCEPT !.version = CHOOSE one \in found.version : TRUE,
                                           !.name = found.name]]
            /\ pc' = "Classify"
            /\ UNCHANGED <<file, request, capacity, opened, verdict>>
-----------------------------------------------------------------------------
Compared == {"digest", "size", "version", "name", "machine"}

\* Defective form: the version is not compared.
CompareAllButVersion(actual, expected) ==
  {field \in Compared \ {"version"} : actual[field] # expected[field]}

CompareBuild(actual, expected) == {field \in Compared : actual[field] # expected[field]}

AdmissionOf(refusal) ==
  IF request.policy = "AuditOnly" THEN "AdmittedAuditOnly" ELSE refusal

\* A record that agrees is reported at once, and otherwise the first of those
\* that differ in the fewest fields.
Classification(fingerprint) ==
  LET mismatches == [i \in DOMAIN Allowlist |-> CompareBuild(fingerprint, Allowlist[i])]
      nearest == {i \in DOMAIN Allowlist : \A j \in DOMAIN Allowlist :
                    Cardinality(mismatches[i]) <= Cardinality(mismatches[j])}
      first == CHOOSE i \in nearest : \A j \in nearest : i <= j
  IN  IF Allowlist = <<>>
      THEN [NoVerdict EXCEPT !.build = "UnknownBuild",
                             !.admission = AdmissionOf("RejectedUnknownBuild")]
      ELSE [build |-> IF mismatches[first] = {} THEN "KnownBuild" ELSE "UnknownBuild",
            admission |-> IF mismatches[first] = {} THEN "AdmittedKnownBuild"
                          ELSE AdmissionOf("RejectedUnknownBuild"),
            mismatches |-> mismatches[first], index |-> first]

ClassifyWrapperBuild ==
  /\ pc = "Classify"
  /\ verdict' = IF evidence.code = "Complete" THEN Classification(evidence.fingerprint)
                ELSE [NoVerdict EXCEPT !.admission = AdmissionOf("RejectedEvidenceUnavailable")]
  /\ pc' = "Idle"
  /\ UNCHANGED <<file, request, capacity, opened, evidence>>

Next ==
  \/ \E content \in Content : Replace(content)
  \/ \E length \in PathLength, policy \in {"Strict", "AuditOnly"} : Evaluate(length, policy)
  \/ ResolveModulePath \/ Open \/ ReadSize \/ ReadArchitecture \/ HashFile
  \/ ReadVersionSize \/ ReadFileVersion \/ ClassifyWrapperBuild

Spec == Init /\ [][Next]_vars
-----------------------------------------------------------------------------
\* Every variable has its type; evidence is complete or names what failed.
TypeOK ==
  /\ file \in Content /\ opened \in Content \cup {Missing}
  /\ pc \in {"Idle", "Path", "Open", "Classify", "Terminated"} \/ Holding
  /\ capacity \in InitialCapacity..MaximumCapacity
  /\ evidence.path < capacity
  /\ DOMAIN evidence.fingerprint = Compared
  /\ verdict.index \in 0..Len(Allowlist) /\ verdict.mismatches \subseteq Compared

\* The languages of a content that author both strings, the version well formed.
AuthorsBoth(image) ==
  {i \in DOMAIN image.translations :
     LET authored == ReadVersionString(image, image.translations[i])
     IN  ParseFourPartVersion(authored.version) # {} /\ authored.name # Missing}

\* Evidence that is complete is all of one file, the one at the module's whole
\* path when it was opened, though others replace files meanwhile and the
\* version is read by path: its size, machine and digest, and a version and a
\* filename that it authors.  Version evidence is refused only to a file in which
\* no declared language authors both.
EvidenceIsOfOneFile ==
  /\ pc \in {"Classify", "Idle"} /\ evidence.code = "Complete" =>
       LET image == About[opened]
           print == evidence.fingerprint
           authored == {ReadVersionString(image, language) : language \in DOMAIN image.strings}
       IN  /\ evidence.path = request.length
           /\ <<print.digest, print.size, print.machine>> =
                <<image.digest, image.size, image.machine>>
           /\ \E one \in authored : print.version \in ParseFourPartVersion(one.version)
           /\ \E one \in authored : print.name # Missing /\ print.name = one.name
  /\ evidence.code = "OriginalFilenameUnavailable" => AuthorsBoth(About[opened]) = {}
  /\ evidence.code = "ModulePathTooLong" => request.length >= MaximumCapacity

\* A build is known exactly when the evidence is complete and agrees with a record
\* in every field; a strict policy admits nothing else; an unknown build is told
\* against a record that no other is nearer to.
AdmissionIsEarned ==
  pc = "Idle" /\ request.length # 0 =>
    LET agrees == {i \in DOMAIN Allowlist :
                     \A field \in Compared : Allowlist[i][field] = evidence.fingerprint[field]}
        differences(i) == {f \in Compared : Allowlist[i][f] # evidence.fingerprint[f]}
    IN  /\ verdict.build = "KnownBuild" <=> evidence.code = "Complete" /\ agrees # {}
        /\ verdict.build = "KnownBuild" => verdict.index \in agrees
        /\ verdict.admission \in {"AdmittedKnownBuild", "AdmittedAuditOnly"} =>
             verdict.build = "KnownBuild" \/ request.policy = "AuditOnly"
        /\ verdict.build = "UnknownBuild" /\ Allowlist # <<>> =>
             /\ verdict.mismatches # {} /\ verdict.mismatches = differences(verdict.index)
             /\ \A i \in DOMAIN Allowlist :
                  Cardinality(differences(i)) >= Cardinality(verdict.mismatches)
=============================================================================
