---------------------------- MODULE HostResolver ----------------------------
(***************************************************************************)
(* ResolveLoadedEnbHost over WindowsLoadedModulePlatform, in a process     *)
(* whose other threads load and unload modules meanwhile.  Each call of    *)
(* the operating system and each call into a host is one step.  A module   *)
(* is its handle, which is not given to another module during a call; and  *)
(* a module all of whose exports were found stays loaded until the end of  *)
(* the call: the code calls them.                                          *)
(***************************************************************************)
EXTENDS Integers, Sequences, SequencesExt

CONSTANTS
  Module,
  ExportNames,         \* kExportNames; the first is the anchor
  Exports,             \* the ones each module has
  SdkVersion,          \* what ENBGetSDKVersion of each answers
  GameIdentifier,      \* what ENBGetGameIdentifier of each answers
  InitialCapacity,     \* kInitialModuleCapacity
  GrowthAllowance,     \* kEnumerationGrowthAllowance
  MaxCapacity          \* the most modules whose size in bytes fits a DWORD

Names == Range(ExportNames)
IsComplete(module) == Exports[module] = Names
HasAnchor(module) == ExportNames[1] \in Exports[module]
Incompatibility == {"WrongSdkFamily", "SdkVersionTooOld", "WrongGameIdentifier"}

kSdkVersion == 1002
kSdkFamilyBegin == 1000
kSdkFamilyEnd == 2000
kGameIdentifier == 268435462

\* What ValidateSdkHost says of each complete module, but for its render
\* information.
Verdict ==
  [module \in Module |->
    CASE SdkVersion[module] \notin kSdkFamilyBegin..(kSdkFamilyEnd - 1) -> "WrongSdkFamily"
      [] SdkVersion[module] \in kSdkFamilyBegin..(kSdkVersion - 1) -> "SdkVersionTooOld"
      [] OTHER -> IF GameIdentifier[module] = kGameIdentifier
                  THEN "Accepted" ELSE "WrongGameIdentifier"]

None == "None"

ASSUME ResolverAssumption ==
  /\ None \notin Module
  /\ ExportNames \in Seq(STRING) /\ ExportNames # <<>>
  /\ Exports \in [Module -> SUBSET Names]
  /\ SdkVersion \in [Module -> Int] /\ GameIdentifier \in [Module -> Int]
  /\ InitialCapacity \in Nat \ {0} /\ GrowthAllowance \in Nat
  /\ MaxCapacity \in Nat /\ InitialCapacity <= MaxCapacity

VARIABLES
  loaded,              \* the loader's list, in load order
  unloaded,            \* what was unloaded since the call began
  started,             \* what was loaded when it began
  pc,
  capacity,            \* how many modules EnumProcessModules has room for
  modules,             \* the snapshot it returned
  current,             \* the index a loop over modules or candidates is at
  name, missing,       \* the next name to look up; whether one was not found
  sawPartial,          \* saw_partial_candidate
  candidates,
  tally,               \* what the validation loop has come to know
  answer               \* the HostResolutionResult of the last call

process == <<loaded, unloaded, started>>
search == <<capacity, modules, current, name, missing, sawPartial, candidates, tally>>
vars == <<process, search, pc, answer>>

Loaded == Range(loaded)
NoTally == [incompatibility |-> None, compatible |-> None, ready |-> FALSE, count |-> 0]

Init ==
  /\ loaded = <<>> /\ unloaded = {} /\ started = {}
  /\ pc = "Idle"
  /\ capacity = 0 /\ modules = <<>> /\ current = 0
  /\ name = 0 /\ missing = FALSE /\ sawPartial = FALSE
  /\ candidates = <<>> /\ tally = NoTally
  /\ answer = [code |-> "HostNotFound", module |-> None]

Resolve ==
  /\ pc = "Idle"
  /\ pc' = "Enumerate"
  /\ started' = Loaded
  /\ unloaded' = {}
  /\ capacity' = InitialCapacity
  /\ UNCHANGED <<loaded, modules, current, name, missing, sawPartial, candidates, tally, answer>>

Answer(code, module) ==
  /\ answer' = [code |-> code, module |-> module]
  /\ pc' = "Idle"
  /\ capacity' = 0 /\ modules' = <<>> /\ current' = 0
  /\ name' = 0 /\ missing' = FALSE /\ sawPartial' = FALSE
  /\ candidates' = <<>> /\ tally' = NoTally
  /\ UNCHANGED process

Goto(label) == pc' = label /\ UNCHANGED <<answer, process>>
-----------------------------------------------------------------------------
\* Defective form: a list that does not fit is taken as far as it goes.
FitsAlways == TRUE

Fits == Len(loaded) <= capacity

\* Defective form: the size in bytes is left to wrap.
RetryFitsAlways == TRUE

RetryFits == Len(loaded) + GrowthAllowance <= MaxCapacity

\* EnumProcessModules returns as many handles as fit.
Snapshot ==
  /\ modules' = SubSeq(loaded, 1, IF Len(loaded) < capacity THEN Len(loaded) ELSE capacity)
  /\ current' = 1
  /\ Goto("FindAnchor")
  /\ UNCHANGED <<capacity, name, missing, sawPartial, candidates, tally>>

\* It also says how many there are: when they do not fit it is called again,
\* once, with room for some more.
EnumerateFirst ==
  /\ pc = "Enumerate"
  /\ \/ Answer("EnumerationFailed", None)
     \/ Fits /\ Snapshot
     \/ ~Fits /\ ~RetryFits /\ Answer("EnumerationTruncated", None)
     \/ /\ ~Fits /\ RetryFits
        /\ capacity' = Len(loaded) + GrowthAllowance
        /\ Goto("EnumerateAgain")
        /\ UNCHANGED <<modules, current, name, missing, sawPartial, candidates, tally>>

EnumerateAgain ==
  /\ pc = "EnumerateAgain"
  /\ \/ Answer("EnumerationFailed", None)
     \/ Fits /\ Snapshot
     \/ ~Fits /\ Answer("EnumerationTruncated", None)
-----------------------------------------------------------------------------
\* FindExport: of a module that is no longer loaded nothing is found.
FindExport(module, export) == module \in Loaded /\ export \in Exports[module]

NextModule(partial, complete) ==
  /\ sawPartial' = partial
  /\ candidates' = complete
  /\ current' = current + 1
  /\ name' = 0 /\ missing' = FALSE
  /\ Goto("FindAnchor")
  /\ UNCHANGED <<capacity, modules, tally>>

FindAnchor ==
  /\ pc = "FindAnchor"
  /\ current <= Len(modules)
  /\ IF FindExport(modules[current], ExportNames[1])
     THEN /\ name' = 2 /\ missing' = FALSE
          /\ Goto("ResolveExports")
          /\ UNCHANGED <<capacity, modules, current, sawPartial, candidates, tally>>
     ELSE NextModule(sawPartial, candidates)

\* Every other name is looked up, whether or not one was missing before.
ResolveExports ==
  /\ pc = "ResolveExports"
  /\ name <= Len(ExportNames)
  /\ missing' = (missing \/ ~FindExport(modules[current], ExportNames[name]))
  /\ name' = name + 1
  /\ UNCHANGED <<process, pc, answer, capacity, modules, current, sawPartial, candidates, tally>>

\* Defective form: a module that lacks some of the exports is passed over.
PartialPassedOver == sawPartial

PartialSeen == TRUE

Classify ==
  /\ pc = "ResolveExports"
  /\ name > Len(ExportNames)
  /\ IF missing
     THEN NextModule(PartialSeen, candidates)
     ELSE NextModule(sawPartial, Append(candidates, modules[current]))

\* Defective form: the second loop goes on where the first has ended.
FirstCandidateUnset == current

FirstCandidate == 1

EndOfSearch ==
  /\ pc = "FindAnchor"
  /\ current > Len(modules)
  /\ \/ sawPartial /\ Answer("PartialCandidate", None)
     \/ ~sawPartial /\ candidates = <<>> /\ Answer("HostNotFound", None)
     \/ /\ ~sawPartial /\ candidates # <<>>
        /\ current' = FirstCandidate
        /\ Goto("Validate")
        /\ UNCHANGED <<capacity, modules, name, missing, sawPartial, candidates, tally>>
-----------------------------------------------------------------------------
\* One call of ValidateSdkHost.  Whether a host has published its render
\* information may change at any time.
Validate ==
  /\ pc = "Validate"
  /\ current <= Len(candidates)
  /\ LET host == candidates[current]
     IN  \E ready \in BOOLEAN :
           tally' =
             IF Verdict[host] # "Accepted"
             THEN IF tally.incompatibility = None
                  THEN [tally EXCEPT !.incompatibility = Verdict[host]] ELSE tally
             ELSE IF tally.compatible = None
                  THEN [tally EXCEPT !.compatible = host, !.ready = ready,
                                     !.count = tally.count + 1]
                  ELSE [tally EXCEPT !.count = tally.count + 1]
  /\ current' = current + 1
  /\ UNCHANGED <<process, pc, answer, capacity, modules, name, missing, sawPartial, candidates>>

Conclude ==
  /\ pc = "Validate"
  /\ current > Len(candidates)
  /\ IF tally.incompatibility # None THEN Answer(tally.incompatibility, None)
     ELSE IF tally.count > 1 THEN Answer("AmbiguousCompatibleHosts", None)
     ELSE IF tally.compatible = None THEN Answer("CandidateRejected", None)
     ELSE Answer(IF tally.ready THEN "Ready" ELSE "NotReady", tally.compatible)
-----------------------------------------------------------------------------
\* The other threads of the process.
Load ==
  /\ \E module \in Module \ (Loaded \cup unloaded) : loaded' = Append(loaded, module)
  /\ UNCHANGED <<unloaded, started, search, pc, answer>>

\* A candidate, or a module whose last export is found, is not unloaded.
Settled ==
  Range(candidates) \cup
    (IF pc = "ResolveExports" /\ name > Len(ExportNames) THEN {modules[current]} ELSE {})

Unload ==
  /\ \E i \in DOMAIN loaded :
       /\ loaded[i] \notin Settled
       /\ loaded' = RemoveAt(loaded, i)
       /\ unloaded' = unloaded \cup {loaded[i]}
  /\ UNCHANGED <<started, search, pc, answer>>

Next ==
  \/ Resolve
  \/ EnumerateFirst \/ EnumerateAgain
  \/ FindAnchor \/ ResolveExports \/ Classify \/ EndOfSearch
  \/ Validate \/ Conclude
  \/ Load \/ Unload

Spec == Init /\ [][Next]_vars
-----------------------------------------------------------------------------
\* The modules that were loaded during the whole of the call.
Throughout == started \ unloaded

HostResolutionCode ==
  Incompatibility \cup
  {"Ready", "NotReady", "HostNotFound", "EnumerationFailed", "EnumerationTruncated",
   "PartialCandidate", "AmbiguousCompatibleHosts", "CandidateRejected"}

\* Every local of the call is in range, and the loader lists no module twice.
TypeOK ==
  /\ loaded \in Seq(Module) /\ unloaded \subseteq Module /\ started \subseteq Module
  /\ \A i, j \in DOMAIN loaded : loaded[i] = loaded[j] => i = j
  /\ pc \in {"Idle", "Enumerate", "EnumerateAgain", "FindAnchor", "ResolveExports", "Validate"}
  /\ capacity \in 0..MaxCapacity
  /\ modules \in Seq(Module) /\ candidates \in Seq(Module)
  /\ Len(candidates) <= Len(modules) /\ Len(modules) <= capacity
  /\ current \in 0..(Len(modules) + 1)
  /\ pc = "ResolveExports" => current \in DOMAIN modules
  /\ name \in 0..(Len(ExportNames) + 1)
  /\ missing \in BOOLEAN /\ sawPartial \in BOOLEAN
  /\ tally \in [incompatibility : Incompatibility \cup {None},
                compatible : Module \cup {None}, ready : BOOLEAN, count : 0..Len(candidates)]
  /\ answer \in [code : HostResolutionCode, module : Module \cup {None}]

\* The properties made inductive.  What was there all the time is still there,
\* and the snapshot has it.
Searching == pc \in {"FindAnchor", "ResolveExports", "Validate"}
Distinct(list) == \A i, j \in DOMAIN list : list[i] = list[j] => i = j

SnapshotInv ==
  /\ Throughout \subseteq Loaded
  /\ Range(modules) \subseteq Loaded \cup unloaded
  /\ Distinct(modules)
  /\ Searching => Throughout \subseteq Range(modules) /\ current >= 1
  /\ ~Searching => modules = <<>> /\ candidates = <<>> /\ ~sawPartial

\* Every module the search has passed and that could be a host is a candidate,
\* or the call is going to say that one is incomplete.
IsNoted(module) ==
  HasAnchor(module) /\ module \in Throughout => sawPartial \/ module \in Range(candidates)

NotedInv ==
  /\ pc \in {"FindAnchor", "ResolveExports"} => \A i \in 1..(current - 1) : IsNoted(modules[i])
  /\ pc = "Validate" =>
       /\ ~sawPartial /\ candidates # <<>>
       /\ \A i \in DOMAIN modules : IsNoted(modules[i])

\* An anchor whose module lacks an export, or is gone.
IsPartial(module) == HasAnchor(module) /\ (~IsComplete(module) \/ module \in unloaded)

CandidatesInv ==
  /\ \A i \in DOMAIN candidates : candidates[i] \in Loaded /\ IsComplete(candidates[i])
  /\ Distinct(candidates)
  /\ pc \in {"FindAnchor", "ResolveExports"} =>
       /\ Len(candidates) < current
       /\ \A i \in DOMAIN candidates : \E j \in 1..(current - 1) : candidates[i] = modules[j]
  /\ sawPartial => \E module \in Loaded \cup unloaded : IsPartial(module)

ExportsInv ==
  pc = "ResolveExports" =>
    LET module == modules[current]
    IN  /\ name >= 2 /\ HasAnchor(module)
        /\ ~missing => \A k \in 1..(name - 1) : ExportNames[k] \in Exports[module]
        /\ ~missing /\ name > Len(ExportNames) => module \in Loaded
        /\ missing => IsPartial(module)

TallyInv ==
  /\ pc # "Validate" => tally = NoTally
  /\ pc = "Validate" =>
       /\ current <= Len(candidates) + 1 /\ tally.count < current
       /\ tally.incompatibility = None =>
            /\ \A i \in 1..(current - 1) : Verdict[candidates[i]] = "Accepted"
            /\ tally.count = current - 1
            /\ tally.compatible = IF current = 1 THEN None ELSE candidates[1]
       /\ tally.incompatibility # None =>
            \E i \in DOMAIN candidates : Verdict[candidates[i]] = tally.incompatibility

IInv == TypeOK /\ SnapshotInv /\ NotedInv /\ CandidatesInv /\ ExportsInv /\ TallyInv

\* The answer as the call returns it, judged by what the process did meanwhile.
Answered == pc # "Idle" /\ pc' = "Idle"

\* A host is named only if it is complete, compatible and still loaded, and no
\* other module with the anchor was there all the time: two of them, one of them
\* incomplete, or one that the snapshot missed, reject the call.
HostIsUnambiguous ==
  [][Answered /\ answer'.code \in {"Ready", "NotReady"} =>
       LET host == answer'.module
       IN  /\ host \in Loaded /\ IsComplete(host) /\ Verdict[host] = "Accepted"
           /\ \A other \in Throughout \ {host} : ~HasAnchor(other)]_vars

\* A host that was there all the time is never reported as not found, whatever
\* was loaded and unloaded around it.
PresentHostIsNoticed ==
  [][Answered /\ answer'.code = "HostNotFound" =>
       \A module \in Throughout : ~HasAnchor(module)]_vars

\* A call that rejects what it found has found it: two compatible hosts, a host
\* of another kind, or an anchor with an export missing or unloaded meanwhile.
RejectionHasCause ==
  [][Answered =>
       /\ answer'.code = "AmbiguousCompatibleHosts" =>
            \E one, other \in Loaded :
              one # other /\ Verdict[one] = "Accepted" /\ Verdict[other] = "Accepted"
       /\ answer'.code \in Incompatibility =>
            \E module \in Loaded : IsComplete(module) /\ Verdict[module] = answer'.code
       /\ answer'.code = "PartialCandidate" =>
            \E module \in Loaded \cup unloaded :
              HasAnchor(module) /\ (~IsComplete(module) \/ module \in unloaded)
       /\ answer'.code # "CandidateRejected"]_vars
=============================================================================
