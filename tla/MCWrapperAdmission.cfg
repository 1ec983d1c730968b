SPECIFICATION Spec
CONSTANTS
  InitialCapacity = 2
  MaximumCapacity = 5
  DosSize = 2
  NtPrefixSize = 3
  MaxPart = 9
  Content = {"first", "second", "updated", "patched", "divided", "nameless", "bare", "alien", "cut"}
  About <- MCAbout
  PathLength = {0, 1, 2, 4, 5}
  Allowlist <- MCAllowlist
INVARIANTS
  TypeOK
  EvidenceIsOfOneFile
  AdmissionIsEarned
