-------------------------- MODULE HostResolverProofs --------------------------
(***************************************************************************)
(* A named host is the only one, a host that is there is noticed, and a    *)
(* rejection has a cause: for any modules, any exports and verdicts, any   *)
(* room for the enumeration, and any loading and unloading meanwhile.      *)
(***************************************************************************)
EXTENDS HostResolver, TLAPS

\* RemoveAt closes the gap it makes.
LEMMA RemoveAtCloses ==
  ASSUME NEW S, NEW list \in Seq(S), NEW i \in DOMAIN list
  PROVE  /\ RemoveAt(list, i) \in Seq(S)
         /\ DOMAIN RemoveAt(list, i) = 1..(Len(list) - 1)
         /\ \A j \in 1..(Len(list) - 1) :
              RemoveAt(list, i)[j] = IF j < i THEN list[j] ELSE list[j + 1]
<1> DEFINE front == SubSeq(list, 1, i - 1)
           back == SubSeq(list, i + 1, Len(list))
<1>0. i \in 1..Len(list)
  OBVIOUS
<1>1. /\ front \in Seq(S) /\ Len(front) = i - 1
      /\ \A j \in 1..(i - 1) : front[j] = list[j]
  BY <1>0
<1>2. /\ back \in Seq(S) /\ Len(back) = Len(list) - i
      /\ \A j \in 1..(Len(list) - i) : back[j] = list[j + i]
  BY <1>0
<1>3. RemoveAt(list, i) = front \o back
  BY DEF RemoveAt
<1>n. Len(list) \in Nat
  OBVIOUS
<1> HIDE DEF front, back
<1>4. front \o back \in Seq(S) /\ Len(front \o back) = Len(list) - 1
  BY <1>0, <1>1, <1>2, <1>n
<1>5. DOMAIN (front \o back) = 1..(Len(list) - 1)
  BY <1>4
<1>6. ASSUME NEW j \in 1..(Len(list) - 1)
      PROVE  (front \o back)[j] = IF j < i THEN list[j] ELSE list[j + 1]
  <2>1. CASE j < i
    <3>1. (front \o back)[j] = front[j]
      BY <1>0, <1>1, <1>2, <1>n, <1>6, <2>1
    <3> QED BY <3>1, <2>1, <1>0, <1>1, <1>n, <1>6
  <2>2. CASE j >= i
    <3>1. /\ j \in Int /\ i \in Int
          /\ j - (i - 1) \in 1..(Len(list) - i) /\ (j - (i - 1)) + i = j + 1
      BY <1>0, <1>n, <1>6, <2>2
    <3>2. (front \o back)[j] = back[j - Len(front)]
      BY <1>0, <1>1, <1>2, <1>n, <1>6, <2>2
    <3>3. back[j - (i - 1)] = list[(j - (i - 1)) + i]
      BY <3>1, <1>2
    <3>4. list[(j - (i - 1)) + i] = list[j + 1]
      BY <3>1
    <3>5. back[j - Len(front)] = back[j - (i - 1)]
      BY <1>1
    <3>6. ~(j < i)
      BY <3>1, <2>2
    <3> QED BY <3>2, <3>3, <3>4, <3>5, <3>6
  <2>3. j < i \/ j >= i
    BY <1>0, <1>n, <1>6
  <2> QED BY <2>1, <2>2, <2>3
<1> QED BY <1>3, <1>4, <1>5, <1>6

\* What remains of a list without repetitions is all but what was removed, and
\* has none.
LEMMA RemoveAtDistinct ==
  ASSUME NEW S, NEW list \in Seq(S), Distinct(list), NEW i \in DOMAIN list
  PROVE  /\ Range(RemoveAt(list, i)) = Range(list) \ {list[i]}
         /\ Distinct(RemoveAt(list, i))
<1> DEFINE rest == RemoveAt(list, i)
<1>1. /\ rest \in Seq(S) /\ DOMAIN rest = 1..(Len(list) - 1)
      /\ \A j \in 1..(Len(list) - 1) : rest[j] = IF j < i THEN list[j] ELSE list[j + 1]
  BY RemoveAtCloses
<1>2. i \in 1..Len(list) /\ DOMAIN list = 1..Len(list) /\ Len(list) \in Nat
  OBVIOUS
<1> HIDE DEF rest
<1>3. Distinct(rest)
  <2>1. ASSUME NEW j \in DOMAIN rest, NEW k \in DOMAIN rest, rest[j] = rest[k] PROVE j = k
    <3> DEFINE jj == IF j < i THEN j ELSE j + 1
               kk == IF k < i THEN k ELSE k + 1
    <3>1. jj \in DOMAIN list /\ kk \in DOMAIN list /\ list[jj] = list[kk]
      BY <1>1, <1>2, <2>1
    <3>2. jj = kk
      BY <3>1 DEF Distinct
    <3> QED BY <3>2, <1>1, <1>2, <2>1
  <2> QED BY <2>1 DEF Distinct
<1>4. Range(rest) \subseteq Range(list) \ {list[i]}
  BY <1>1, <1>2 DEF Distinct, Range
<1>5. ASSUME NEW k \in DOMAIN list, list[k] # list[i] PROVE list[k] \in Range(rest)
  <2>1. CASE k < i
    BY <1>1, <1>2, <1>5, <2>1 DEF Range
  <2>2. CASE k > i
    <3>1. k - 1 \in DOMAIN rest /\ rest[k - 1] = list[k]
      BY <1>1, <1>2, <1>5, <2>2
    <3> QED BY <3>1 DEF Range
  <2> QED BY <1>2, <1>5, <2>1, <2>2
<1>6. Range(list) \ {list[i]} \subseteq Range(rest)
  BY <1>5 DEF Range
<1> QED BY <1>3, <1>4, <1>6 DEF rest

-----------------------------------------------------------------------------
\* The lists of the call as the provers need them.
LEMMA Lists ==
  ASSUME TypeOK
  PROVE  /\ loaded \in Seq(Module) /\ modules \in Seq(Module) /\ candidates \in Seq(Module)
         /\ DOMAIN loaded = 1..Len(loaded) /\ Len(loaded) \in Nat
         /\ DOMAIN modules = 1..Len(modules) /\ Len(modules) \in Nat
         /\ DOMAIN candidates = 1..Len(candidates) /\ Len(candidates) \in Nat
         /\ DOMAIN ExportNames = 1..Len(ExportNames) /\ Len(ExportNames) \in Nat \ {0}
         /\ Loaded \subseteq Module /\ Distinct(loaded)
         /\ current \in Nat /\ name \in Nat /\ capacity \in Nat
<1>1. loaded \in Seq(Module) /\ modules \in Seq(Module) /\ candidates \in Seq(Module)
  BY DEF TypeOK
<1>2. ExportNames \in Seq(STRING) /\ ExportNames # <<>>
  BY ResolverAssumption
<1>3. Loaded \subseteq Module
  BY <1>1 DEF Loaded, Range
<1>4. Distinct(loaded)
  BY DEF TypeOK, Distinct
<1>5. Len(modules) \in Nat /\ Len(ExportNames) \in Nat \ {0}
  BY <1>1, <1>2
<1>6. current \in Nat /\ name \in Nat /\ capacity \in Nat
  BY <1>5, ResolverAssumption DEF TypeOK
<1> QED BY <1>1, <1>2, <1>3, <1>4, <1>5, <1>6

LEMMA VerdictOfEach ==
  ASSUME NEW module \in Module
  PROVE  Verdict[module] \in Incompatibility \cup {"Accepted"}
BY DEF Verdict, Incompatibility

LEMMA NoTallyFits ==
  NoTally \in [incompatibility : Incompatibility \cup {None},
               compatible : Module \cup {None}, ready : BOOLEAN, count : 0..Len(<<>>)]
<1>1. NoTally.ready \in BOOLEAN /\ 0 \in 0..Len(<<>>)
  BY DEF NoTally
<1> QED BY <1>1 DEF NoTally

LEMMA InitIInv == Init => IInv
<1> SUFFICES ASSUME Init PROVE IInv
  OBVIOUS
<1>1. /\ loaded = <<>> /\ unloaded = {} /\ started = {} /\ pc = "Idle" /\ ~Searching
      /\ modules = <<>> /\ candidates = <<>> /\ ~sawPartial /\ tally = NoTally
  BY DEF Init, Searching
<1>2. TypeOK
  <2>1. Len(ExportNames) \in Nat
    BY ResolverAssumption
  <2>2. missing \in BOOLEAN /\ sawPartial \in BOOLEAN
    BY DEF Init
  <2>3. answer \in [code : HostResolutionCode, module : Module \cup {None}]
    BY DEF Init, HostResolutionCode
  <2>4. /\ capacity \in 0..MaxCapacity /\ current \in 0..(Len(modules) + 1)
        /\ name \in 0..(Len(ExportNames) + 1)
        /\ Len(candidates) <= Len(modules) /\ Len(modules) <= capacity
    BY <2>1, ResolverAssumption DEF Init
  <2> QED
    BY <1>1, <2>2, <2>3, <2>4, NoTallyFits DEF TypeOK
<1>3. SnapshotInv
  BY <1>1 DEF SnapshotInv, Throughout, Distinct, Range
<1> QED
  BY <1>1, <1>2, <1>3 DEF IInv, NotedInv, CandidatesInv, ExportsInv, TallyInv, Distinct

\* A call that returns leaves nothing of its search.
LEMMA AnswerIInv ==
  ASSUME IInv, NEW code \in HostResolutionCode, NEW module \in Module \cup {None},
         Answer(code, module)
  PROVE  IInv'
<1>1. /\ UNCHANGED <<loaded, unloaded, started>> /\ pc' = "Idle" /\ ~Searching'
      /\ modules' = <<>> /\ candidates' = <<>> /\ ~sawPartial' /\ tally' = NoTally
  BY DEF Answer, process, Searching
<1>2. TypeOK'
  <2>1. Len(ExportNames) \in Nat
    BY ResolverAssumption
  <2>2. missing' \in BOOLEAN /\ sawPartial' \in BOOLEAN
    BY DEF Answer
  <2>3. answer' \in [code : HostResolutionCode, module : Module \cup {None}]
    BY DEF Answer
  <2>4. /\ capacity' \in 0..MaxCapacity /\ current' \in 0..(Len(modules') + 1)
        /\ name' \in 0..(Len(ExportNames) + 1)
        /\ Len(candidates') <= Len(modules') /\ Len(modules') <= capacity'
    BY <2>1, ResolverAssumption DEF Answer
  <2> QED
    BY <1>1, <2>2, <2>3, <2>4, NoTallyFits DEF IInv, TypeOK
<1>3. SnapshotInv'
  BY <1>1 DEF IInv, SnapshotInv, Throughout, Loaded, Distinct, Range
<1> QED
  BY <1>1, <1>2, <1>3 DEF IInv, NotedInv, CandidatesInv, ExportsInv, TallyInv, Distinct

LEMMA ResolveIInv == ASSUME IInv, Resolve PROVE IInv'
<1>1. /\ UNCHANGED <<loaded, modules, candidates, sawPartial, tally>> /\ pc = "Idle"
      /\ unloaded' = {} /\ started' = Loaded /\ pc' = "Enumerate" /\ ~Searching' /\ ~Searching
  BY DEF Resolve, Searching
<1>2. TypeOK'
  <2>1. capacity' \in 0..MaxCapacity /\ Len(modules) <= capacity'
    <3>1. modules = <<>> /\ Len(modules) = 0
      BY <1>1 DEF IInv, SnapshotInv
    <3> QED BY <3>1, ResolverAssumption DEF Resolve
  <2>2. started' \subseteq Module /\ unloaded' \subseteq Module
    BY <1>1, Lists DEF IInv
  <2> QED BY <1>1, <2>1, <2>2 DEF IInv, Resolve, TypeOK
<1>3. SnapshotInv'
  BY <1>1 DEF IInv, SnapshotInv, Throughout, Loaded, Distinct, Range
<1>4. modules' = <<>> /\ candidates' = <<>> /\ ~sawPartial' /\ tally' = NoTally
  BY <1>1 DEF IInv, SnapshotInv, TallyInv
<1> QED
  BY <1>1, <1>2, <1>3, <1>4
     DEF IInv, NotedInv, CandidatesInv, ExportsInv, TallyInv, Distinct

\* A list that fits is taken whole.
LEMMA SnapshotIInv ==
  ASSUME IInv, pc \in {"Enumerate", "EnumerateAgain"}, Fits, Snapshot PROVE IInv'
<1>l. TypeOK /\ ~Searching
  BY DEF IInv, Searching
<1>1. modules' = loaded
  <2>1. modules' = SubSeq(loaded, 1, Len(loaded)) /\ loaded \in Seq(Module)
    BY <1>l, Lists DEF Fits, Snapshot
  <2> QED BY <2>1
<1>2. /\ UNCHANGED <<loaded, unloaded, started, capacity, candidates, sawPartial, tally,
                     answer, name, missing>>
      /\ current' = 1 /\ pc' = "FindAnchor" /\ Searching'
      /\ candidates = <<>> /\ ~sawPartial /\ tally = NoTally
  BY <1>l DEF Snapshot, Goto, process, Searching, IInv, SnapshotInv, TallyInv
<1>3. TypeOK'
  BY <1>1, <1>2, <1>l, Lists DEF TypeOK, Fits
<1>4. SnapshotInv'
  <2>1. Distinct(loaded) /\ Range(loaded) = Loaded
    BY <1>l, Lists DEF Loaded
  <2> QED BY <1>1, <1>2, <2>1 DEF IInv, SnapshotInv, Throughout, Loaded
<1> QED
  BY <1>2, <1>3, <1>4 DEF IInv, NotedInv, CandidatesInv, ExportsInv, TallyInv, Distinct

LEMMA EnumerateIInv ==
  ASSUME IInv, EnumerateFirst \/ EnumerateAgain PROVE IInv'
<1>1. ASSUME EnumerateFirst, ~Fits, RetryFits, capacity' = Len(loaded) + GrowthAllowance,
             Goto("EnumerateAgain"),
             UNCHANGED <<modules, current, name, missing, sawPartial, candidates, tally>>
      PROVE  IInv'
  <2>1. UNCHANGED <<loaded, unloaded, started, answer>> /\ pc' = "EnumerateAgain"
    BY <1>1 DEF Goto, process
  <2>2. pc = "Enumerate" /\ ~Searching /\ ~Searching'
    BY <1>1, <2>1 DEF EnumerateFirst, Searching
  <2>3. modules = <<>> /\ candidates = <<>> /\ ~sawPartial /\ tally = NoTally
    BY <2>2 DEF IInv, SnapshotInv, TallyInv
  <2>4. capacity' \in 0..MaxCapacity /\ Len(modules) <= capacity'
    BY <1>1, <2>3, Lists, ResolverAssumption DEF IInv, RetryFits
  <2>5. TypeOK'
    BY <1>1, <2>1, <2>4 DEF IInv, TypeOK
  <2>6. SnapshotInv'
    BY <1>1, <2>1, <2>2, <2>3 DEF IInv, SnapshotInv, Throughout, Loaded, Distinct
  <2> QED
    BY <1>1, <2>1, <2>3, <2>5, <2>6
       DEF IInv, NotedInv, CandidatesInv, ExportsInv, TallyInv, Distinct
<1>2. {"EnumerationFailed", "EnumerationTruncated"} \subseteq HostResolutionCode
  BY DEF HostResolutionCode
<1> QED
  BY <1>1, <1>2, AnswerIInv, SnapshotIInv DEF EnumerateFirst, EnumerateAgain

\* The loop over the modules turns: what it knows of the one it leaves is noted.
LEMMA NextModuleIInv ==
  ASSUME IInv, pc \in {"FindAnchor", "ResolveExports"}, current \in DOMAIN modules,
         NEW partial \in BOOLEAN, NEW complete \in Seq(Module), NextModule(partial, complete),
         \/ complete = candidates
         \/ /\ complete = Append(candidates, modules[current])
            /\ modules[current] \in Loaded /\ IsComplete(modules[current]),
         sawPartial => partial,
         partial => sawPartial \/ IsPartial(modules[current]),
         HasAnchor(modules[current]) /\ modules[current] \in Throughout =>
           partial \/ modules[current] \in Range(complete)
  PROVE  IInv'
<1> DEFINE module == modules[current]
<1>l. /\ TypeOK /\ SnapshotInv /\ NotedInv /\ CandidatesInv /\ TallyInv /\ Searching
      /\ DOMAIN modules = 1..Len(modules) /\ Len(modules) \in Nat
      /\ DOMAIN candidates = 1..Len(candidates) /\ Len(candidates) \in Nat
      /\ current \in Nat /\ module \in Range(modules)
  BY Lists DEF IInv, Searching, Range
<1>1. /\ UNCHANGED <<loaded, unloaded, started, capacity, modules, tally, answer>>
      /\ sawPartial' = partial /\ candidates' = complete /\ current' = current + 1
      /\ name' = 0 /\ missing' = FALSE /\ pc' = "FindAnchor" /\ Searching'
  BY DEF NextModule, Goto, process, Searching
<1>2. /\ Len(complete) \in Nat /\ Len(complete) <= Len(candidates) + 1
      /\ DOMAIN complete = 1..Len(complete)
      /\ \A i \in 1..Len(complete) :
           \/ i \in DOMAIN candidates /\ complete[i] = candidates[i]
           \/ i = Len(candidates) + 1 /\ complete[i] = module /\ i = Len(complete)
      /\ \A i \in DOMAIN candidates : i \in DOMAIN complete /\ complete[i] = candidates[i]
  <2>1. candidates \in Seq(Module)
    BY <1>l, Lists
  <2> QED BY <1>l, <2>1
<1>c. /\ Len(candidates) < current
      /\ \A i \in DOMAIN candidates : \E j \in 1..(current - 1) : candidates[i] = modules[j]
  BY <1>l DEF CandidatesInv
<1>k. current <= Len(modules) /\ current \in Nat /\ Len(modules) \in Nat
  BY <1>l
<1>n. Len(complete) \in Nat /\ Len(complete) <= current
  <2>1. Len(complete) \in Nat /\ Len(complete) <= Len(candidates) + 1
    BY <1>2
  <2>2. Len(candidates) \in Nat /\ Len(candidates) < current
    BY <1>l, <1>c
  <2> QED BY <2>1, <2>2, <1>k
<1>3. TypeOK'
  <2>1. Len(complete) <= Len(modules)
    BY <1>n, <1>k
  <2>2. current' \in 0..(Len(modules) + 1)
    BY <1>1, <1>l
  <2>3. /\ missing' \in BOOLEAN /\ name' \in 0..(Len(ExportNames) + 1)
    <3>1. missing' \in BOOLEAN
      BY <1>1
    <3> QED BY <3>1, <1>1, <1>l, Lists
  <2>4. tally' \in [incompatibility : Incompatibility \cup {None},
                    compatible : Module \cup {None}, ready : BOOLEAN, count : 0..Len(complete)]
    <3>1. tally = NoTally /\ 0..Len(<<>>) \subseteq 0..Len(complete)
      <4>1. Len(<<>>) = 0 /\ 0 \in 0..Len(complete)
        BY <1>n
      <4>2. tally = NoTally
        BY <1>l DEF TallyInv
      <4> QED BY <4>1, <4>2
    <3> QED BY <3>1, <1>1, NoTallyFits
  <2> QED BY <1>1, <1>l, <2>1, <2>2, <2>3, <2>4 DEF TypeOK
<1>4. SnapshotInv'
  BY <1>1, <1>l DEF SnapshotInv, Throughout, Loaded, Searching
<1>5. NotedInv'
  <2>1. Range(candidates) \subseteq Range(complete)
    BY <1>2 DEF Range
  <2>2. ASSUME NEW i \in 1..current PROVE IsNoted(modules[i])'
    <3>1. CASE i = current
      BY <3>1, <1>1 DEF IsNoted, Throughout
    <3>2. CASE i # current
      <4>1. IsNoted(modules[i])
        BY <3>2, <1>l DEF NotedInv
      <4> QED BY <4>1, <2>1, <1>1 DEF IsNoted, Throughout
    <3> QED BY <3>1, <3>2
  <2>3. 1..(current' - 1) = 1..current
    BY <1>1, <1>l
  <2> QED BY <1>1, <2>2, <2>3 DEF NotedInv
<1>6. CandidatesInv'
  <2>1. ASSUME NEW i \in DOMAIN complete PROVE complete[i] \in Loaded /\ IsComplete(complete[i])
    BY <1>2, <1>l DEF CandidatesInv
  <2>2. ASSUME NEW i \in DOMAIN complete
        PROVE  \E j \in 1..current : complete[i] = modules[j]
    <3>1. CASE i \in DOMAIN candidates /\ complete[i] = candidates[i]
      <4>1. PICK j \in 1..(current - 1) : candidates[i] = modules[j]
        BY <3>1, <1>c
      <4> QED BY <3>1, <4>1, <1>k
    <3>2. CASE complete[i] = module
      BY <3>2, <1>k, <1>l
    <3> QED BY <3>1, <3>2, <1>2
  <2>3. ASSUME NEW i \in DOMAIN candidates PROVE candidates[i] # module
    <3>1. PICK j \in 1..(current - 1) : candidates[i] = modules[j]
      BY <1>l DEF CandidatesInv
    <3> QED BY <3>1, <1>l DEF SnapshotInv, Distinct
  <2>4. ASSUME NEW i \in DOMAIN complete, NEW j \in DOMAIN complete, complete[i] = complete[j]
        PROVE  i = j
    <3>1. Distinct(candidates)
      BY <1>l DEF CandidatesInv
    <3>2. CASE i \in DOMAIN candidates /\ j \in DOMAIN candidates
      BY <3>1, <3>2, <1>2, <2>4 DEF Distinct
    <3>3. CASE i \notin DOMAIN candidates /\ j \notin DOMAIN candidates
      <4>1. \A k \in DOMAIN complete : k \in DOMAIN candidates \/ k = Len(complete)
        BY <1>2
      <4> QED BY <3>3, <4>1
    <3>4. CASE i \in DOMAIN candidates /\ j \notin DOMAIN candidates
      BY <3>4, <1>2, <2>3, <2>4
    <3>5. CASE i \notin DOMAIN candidates /\ j \in DOMAIN candidates
      BY <3>5, <1>2, <2>3, <2>4
    <3> QED BY <3>2, <3>3, <3>4, <3>5
  <2>5. Len(complete) < current + 1
    BY <1>n, <1>k
  <2>6. ASSUME partial PROVE \E one \in Loaded \cup unloaded : IsPartial(one)
    BY <2>6, <1>l DEF CandidatesInv, SnapshotInv
  <2>7. current' - 1 = current
    BY <1>1, <1>l
  <2> QED
    BY <1>1, <2>1, <2>2, <2>4, <2>5, <2>6, <2>7
       DEF CandidatesInv, Distinct, Loaded, IsPartial
<1>7. TallyInv' /\ ExportsInv'
  BY <1>1, <1>l DEF TallyInv, ExportsInv
<1> QED BY <1>3, <1>4, <1>5, <1>6, <1>7 DEF IInv

LEMMA FindAnchorIInv == ASSUME IInv, FindAnchor PROVE IInv'
<1> DEFINE module == modules[current]
<1>l. /\ TypeOK /\ SnapshotInv /\ NotedInv /\ CandidatesInv /\ TallyInv /\ Searching
      /\ pc = "FindAnchor" /\ current \in DOMAIN modules /\ current \in Nat
      /\ Len(ExportNames) \in Nat \ {0}
  BY Lists DEF IInv, FindAnchor, Searching, SnapshotInv
<1>1. CASE FindExport(module, ExportNames[1])
  <2>1. /\ UNCHANGED <<loaded, unloaded, started, capacity, modules, current, sawPartial,
                       candidates, tally, answer>>
        /\ name' = 2 /\ missing' = FALSE /\ pc' = "ResolveExports" /\ Searching'
    BY <1>1 DEF FindAnchor, Goto, process, Searching
  <2>2. missing' \in BOOLEAN
    BY <2>1
  <2>3. TypeOK'
    BY <2>1, <2>2, <1>l DEF TypeOK
  <2>4. SnapshotInv' /\ NotedInv' /\ CandidatesInv' /\ TallyInv'
    BY <2>1, <1>l
       DEF SnapshotInv, Throughout, Loaded, Searching, NotedInv, IsNoted, CandidatesInv,
           IsPartial, TallyInv
  <2>5. HasAnchor(module) /\ module \in Loaded
    BY <1>1 DEF FindExport, HasAnchor
  <2>6. ExportsInv'
    <3>1. \A k \in 1..(name' - 1) : ExportNames[k] \in Exports[module]
      BY <2>1, <2>5 DEF HasAnchor
    <3> QED BY <2>1, <2>5, <3>1 DEF ExportsInv, Loaded
  <2> QED BY <2>3, <2>4, <2>6 DEF IInv
<1>2. CASE ~FindExport(module, ExportNames[1])
  <2>1. NextModule(sawPartial, candidates)
    BY <1>2 DEF FindAnchor
  <2>2. ~(HasAnchor(module) /\ module \in Throughout)
    BY <1>2, <1>l DEF FindExport, HasAnchor, SnapshotInv
  <2>3. sawPartial \in BOOLEAN /\ candidates \in Seq(Module)
    BY <1>l DEF TypeOK
  <2> QED BY <2>1, <2>2, <2>3, <1>l, NextModuleIInv
<1> QED BY <1>1, <1>2

LEMMA ResolveExportsIInv == ASSUME IInv, ResolveExports PROVE IInv'
<1> DEFINE module == modules[current]
           found == FindExport(module, ExportNames[name])
<1>l. /\ TypeOK /\ SnapshotInv /\ NotedInv /\ CandidatesInv /\ TallyInv /\ ExportsInv
      /\ pc = "ResolveExports" /\ current \in DOMAIN modules /\ module \in Range(modules)
      /\ name \in Nat /\ name <= Len(ExportNames) /\ Len(ExportNames) \in Nat \ {0}
      /\ DOMAIN ExportNames = 1..Len(ExportNames)
  BY Lists DEF IInv, ResolveExports, TypeOK, Range
<1>1. /\ UNCHANGED <<loaded, unloaded, started, pc, answer, capacity, modules, current,
                     sawPartial, candidates, tally>>
      /\ name' = name + 1 /\ missing' = (missing \/ ~found)
  BY DEF ResolveExports, process
<1>2. missing' \in BOOLEAN
  BY <1>1
<1>3. TypeOK'
  BY <1>1, <1>2, <1>l DEF TypeOK
<1>4. SnapshotInv' /\ NotedInv' /\ CandidatesInv' /\ TallyInv'
  BY <1>1, <1>l
     DEF SnapshotInv, Throughout, Loaded, Searching, NotedInv, IsNoted, CandidatesInv,
         IsPartial, TallyInv
<1>e. name >= 2 /\ HasAnchor(module) /\ (missing => IsPartial(module))
  BY <1>l DEF ExportsInv
<1>5. ASSUME missing' PROVE IsPartial(module)
  <2>1. CASE missing
    BY <2>1, <1>e
  <2>2. CASE ~found
    <3>1. module \in unloaded \/ ExportNames[name] \notin Exports[module]
      BY <2>2, <1>l DEF FindExport, SnapshotInv
    <3>2. ExportNames[name] \in Names
      BY <1>l, <1>e DEF Names, Range
    <3> QED BY <3>1, <3>2, <1>e DEF IsPartial, IsComplete
  <2> QED BY <1>1, <1>5, <2>1, <2>2
<1>6. ASSUME ~missing'
      PROVE  /\ module \in Loaded
             /\ \A k \in 1..name : ExportNames[k] \in Exports[module]
  <2>1. found /\ ~missing
    BY <1>1, <1>6
  <2>2. \A k \in 1..(name - 1) : ExportNames[k] \in Exports[module]
    BY <2>1, <1>l DEF ExportsInv
  <2> QED BY <2>1, <2>2, <1>l DEF FindExport
<1>7. ExportsInv'
  <2>1. name' >= 2 /\ 1..(name' - 1) = 1..name
    BY <1>1, <1>e, <1>l
  <2> QED BY <1>1, <1>e, <1>5, <1>6, <2>1 DEF ExportsInv, Loaded, IsPartial
<1> QED BY <1>3, <1>4, <1>7 DEF IInv

LEMMA ClassifyIInv == ASSUME IInv, Classify PROVE IInv'
<1> DEFINE module == modules[current]
<1>l. /\ TypeOK /\ ExportsInv /\ pc = "ResolveExports" /\ current \in DOMAIN modules
      /\ name \in Nat /\ name > Len(ExportNames)
      /\ modules \in Seq(Module) /\ candidates \in Seq(Module) /\ module \in Module
      /\ sawPartial \in BOOLEAN
      /\ DOMAIN ExportNames = 1..Len(ExportNames) /\ Len(ExportNames) \in Nat \ {0}
  BY Lists DEF IInv, Classify, TypeOK
<1>1. CASE missing
  <2>1. NextModule(TRUE, candidates)
    BY <1>1 DEF Classify, PartialSeen
  <2>2. IsPartial(module)
    BY <1>1, <1>l DEF ExportsInv
  <2> QED BY <2>1, <2>2, <1>l, NextModuleIInv
<1>2. CASE ~missing
  <2> DEFINE complete == Append(candidates, module)
  <2>1. NextModule(sawPartial, complete)
    BY <1>2 DEF Classify
  <2>2. module \in Loaded
    BY <1>2, <1>l DEF ExportsInv
  <2>3. Names \subseteq Exports[module]
    BY <1>2, <1>l DEF ExportsInv, Names, Range
  <2>4. IsComplete(module)
    BY <2>3, <1>l, ResolverAssumption DEF IsComplete
  <2>5. complete \in Seq(Module) /\ module \in Range(complete)
    <3>1. complete[Len(candidates) + 1] = module /\ Len(candidates) + 1 \in DOMAIN complete
      BY <1>l
    <3> QED BY <3>1, <1>l DEF Range
  <2> HIDE DEF complete
  <2>6. complete = Append(candidates, module)
    BY DEF complete
  <2> QED BY <2>1, <2>2, <2>4, <2>5, <2>6, <1>l, NextModuleIInv
<1> QED BY <1>1, <1>2

\* The list of candidates is complete: they are validated from the first.
LEMMA EndOfSearchIInv == ASSUME IInv, EndOfSearch PROVE IInv'
<1>l. /\ TypeOK /\ SnapshotInv /\ NotedInv /\ CandidatesInv /\ TallyInv
      /\ pc = "FindAnchor" /\ Searching /\ current = Len(modules) + 1
      /\ DOMAIN modules = 1..Len(modules) /\ Len(modules) \in Nat
      /\ DOMAIN candidates = 1..Len(candidates) /\ Len(candidates) \in Nat
  <2>1. current \in 0..(Len(modules) + 1) /\ Len(modules) \in Nat /\ current > Len(modules)
    BY Lists DEF IInv, TypeOK, EndOfSearch
  <2> QED BY <2>1, Lists DEF IInv, EndOfSearch, Searching
<1>1. ASSUME ~sawPartial, candidates # <<>>, current' = FirstCandidate, Goto("Validate"),
             UNCHANGED <<capacity, modules, name, missing, sawPartial, candidates, tally>>
      PROVE  IInv'
  <2>1. /\ UNCHANGED <<loaded, unloaded, started, answer, capacity, modules, name, missing,
                       sawPartial, candidates, tally>>
        /\ current' = 1 /\ pc' = "Validate" /\ Searching' /\ tally = NoTally
    BY <1>1, <1>l DEF Goto, process, Searching, FirstCandidate, TallyInv
  <2>2. current' \in 0..(Len(modules) + 1)
    BY <2>1, <1>l
  <2>3. TypeOK'
    BY <2>1, <2>2, <1>l DEF TypeOK
  <2>4. SnapshotInv'
    BY <2>1, <1>l DEF SnapshotInv, Throughout, Loaded, Searching
  <2>5. NotedInv'
    <3>1. \A i \in DOMAIN modules : IsNoted(modules[i])
      BY <1>l DEF NotedInv
    <3> QED BY <2>1, <3>1, <1>1 DEF NotedInv, IsNoted, Throughout
  <2>6. CandidatesInv' /\ ExportsInv'
    BY <2>1, <1>l DEF CandidatesInv, ExportsInv, Loaded, IsPartial
  <2>7. TallyInv'
    <3>1. tally' = NoTally /\ current' = 1 /\ candidates' = candidates
      BY <2>1
    <3> QED BY <2>1, <3>1, <1>l DEF TallyInv, NoTally
  <2> QED BY <2>3, <2>4, <2>5, <2>6, <2>7 DEF IInv
<1>2. {"PartialCandidate", "HostNotFound"} \subseteq HostResolutionCode
  BY DEF HostResolutionCode
<1> QED BY <1>1, <1>2, AnswerIInv DEF EndOfSearch

\* The tally is of the candidates validated so far.
LEMMA ValidateIInv == ASSUME IInv, Validate PROVE IInv'
<1> DEFINE host == candidates[current]
<1>l. /\ TypeOK /\ SnapshotInv /\ NotedInv /\ CandidatesInv /\ TallyInv
      /\ pc = "Validate" /\ Searching /\ current \in DOMAIN candidates
      /\ current \in Nat /\ current >= 1 /\ current <= Len(candidates)
      /\ Len(candidates) <= Len(modules)
      /\ Len(modules) \in Nat /\ Len(candidates) \in Nat
      /\ host \in Module /\ Verdict[host] \in Incompatibility \cup {"Accepted"}
  <2>1. pc = "Validate" /\ Searching /\ current <= Len(candidates) /\ SnapshotInv /\ TypeOK
    BY DEF Validate, Searching, IInv
  <2>2. current \in Nat /\ current >= 1 /\ DOMAIN candidates = 1..Len(candidates)
        /\ Len(candidates) \in Nat /\ candidates \in Seq(Module)
    BY <2>1, Lists DEF SnapshotInv
  <2>3. current \in DOMAIN candidates /\ host \in Module
    BY <2>1, <2>2
  <2>4. Len(candidates) <= Len(modules) /\ Len(modules) \in Nat
    BY <2>1, Lists DEF TypeOK
  <2> QED BY <2>1, <2>2, <2>3, <2>4, VerdictOfEach DEF IInv
<1>1. /\ UNCHANGED <<loaded, unloaded, started, pc, answer, capacity, modules, name, missing,
                     sawPartial, candidates>>
      /\ current' = current + 1 /\ Searching'
  BY <1>l DEF Validate, process, Searching
<1>t. /\ tally \in [incompatibility : Incompatibility \cup {None},
                    compatible : Module \cup {None}, ready : BOOLEAN,
                    count : 0..Len(candidates)]
      /\ tally.count \in Nat /\ tally.count < current
  BY <1>l DEF TypeOK, TallyInv
<1>v. PICK ready \in BOOLEAN :
        tally' =
          IF Verdict[host] # "Accepted"
          THEN IF tally.incompatibility = None
               THEN [tally EXCEPT !.incompatibility = Verdict[host]] ELSE tally
          ELSE IF tally.compatible = None
               THEN [tally EXCEPT !.compatible = host, !.ready = ready,
                                  !.count = tally.count + 1]
               ELSE [tally EXCEPT !.count = tally.count + 1]
  BY DEF Validate
<1>d. None \notin Module /\ "Accepted" # None /\ None \notin Incompatibility
  BY ResolverAssumption DEF None, Incompatibility
<1>2. /\ tally' \in [incompatibility : Incompatibility \cup {None},
                     compatible : Module \cup {None}, ready : BOOLEAN,
                     count : 0..Len(candidates)]
      /\ tally'.count < current + 1
  <2>1. tally.count + 1 \in 0..Len(candidates) /\ tally.count + 1 < current + 1
        /\ tally.count < current + 1
    BY <1>l, <1>t
  <2>2. CASE Verdict[host] # "Accepted"
    BY <2>1, <2>2, <1>v, <1>t, <1>l
  <2>3. CASE Verdict[host] = "Accepted"
    BY <2>1, <2>3, <1>v, <1>t, <1>l
  <2> QED BY <2>2, <2>3
<1>3. TypeOK'
  <2>1. current' \in 0..(Len(modules) + 1)
    BY <1>1, <1>l
  <2> QED BY <2>1, <1>1, <1>2, <1>l DEF TypeOK
<1>4. SnapshotInv' /\ NotedInv' /\ CandidatesInv' /\ ExportsInv'
  <2>1. SnapshotInv'
    <3>1. current' >= 1
      BY <1>1, <1>l
    <3> QED BY <3>1, <1>1, <1>l DEF SnapshotInv, Throughout, Loaded, Searching
  <2>2. NotedInv'
    BY <1>1, <1>l DEF NotedInv, IsNoted, Throughout
  <2>3. CandidatesInv' /\ ExportsInv'
    BY <1>1, <1>l DEF CandidatesInv, ExportsInv, Loaded, IsPartial
  <2> QED BY <2>1, <2>2, <2>3
<1>5. TallyInv'
  <2>1. current' <= Len(candidates') + 1 /\ tally'.count < current'
    BY <1>1, <1>2, <1>l
  <2>2. ASSUME tally'.incompatibility = None
        PROVE  /\ \A i \in 1..current : Verdict[candidates[i]] = "Accepted"
               /\ tally'.count = current
               /\ tally'.compatible = candidates[1]
    <3>1. Verdict[host] = "Accepted" /\ tally.incompatibility = None
      BY <2>2, <1>v, <1>t, <1>l, <1>d
    <3>2. /\ \A i \in 1..(current - 1) : Verdict[candidates[i]] = "Accepted"
          /\ tally.count = current - 1
          /\ tally.compatible = IF current = 1 THEN None ELSE candidates[1]
      BY <3>1, <1>l DEF TallyInv
    <3>3. \A i \in 1..current : Verdict[candidates[i]] = "Accepted"
      BY <3>1, <3>2, <1>l
    <3>4. tally'.count = tally.count + 1
      BY <3>1, <1>v, <1>t
    <3>5. tally'.compatible = candidates[1]
      <4>1. CASE current = 1
        BY <4>1, <3>1, <3>2, <1>v, <1>t
      <4>2. CASE current # 1
        <5>1. 1 \in DOMAIN candidates /\ candidates \in Seq(Module)
          BY <1>l, Lists
        <5>2. candidates[1] \in Module
          BY <5>1
        <5> QED BY <4>2, <5>2, <3>1, <3>2, <1>v, <1>t, <1>d
      <4> QED BY <4>1, <4>2
    <3> QED BY <3>2, <3>3, <3>4, <3>5, <1>l
  <2>3. ASSUME tally'.incompatibility # None
        PROVE  \E i \in DOMAIN candidates : Verdict[candidates[i]] = tally'.incompatibility
    <3>1. CASE tally.incompatibility # None
      <4>1. tally'.incompatibility = tally.incompatibility
        BY <3>1, <1>v, <1>t
      <4> QED BY <4>1, <3>1, <1>l DEF TallyInv
    <3>2. CASE tally.incompatibility = None
      <4>1. tally'.incompatibility = Verdict[host]
        BY <3>2, <2>3, <1>v, <1>t
      <4> QED BY <4>1, <1>l
    <3> QED BY <3>1, <3>2
  <2>4. current' - 1 = current /\ current' # 1
    BY <1>1, <1>l
  <2> QED BY <2>1, <2>2, <2>3, <2>4, <1>1, <1>l DEF TallyInv
<1> QED BY <1>3, <1>4, <1>5 DEF IInv

LEMMA ConcludeIInv == ASSUME IInv, Conclude PROVE IInv'
<1>1. tally.incompatibility \in Incompatibility \cup {None}
      /\ tally.compatible \in Module \cup {None}
  BY DEF IInv, TypeOK
<1>2. /\ Incompatibility \subseteq HostResolutionCode
      /\ {"AmbiguousCompatibleHosts", "CandidateRejected", "Ready", "NotReady"}
           \subseteq HostResolutionCode
  BY DEF HostResolutionCode
<1> QED BY <1>1, <1>2, AnswerIInv DEF Conclude

\* One more module: nothing of the call has lost its place.
LEMMA LoadIInv == ASSUME IInv, Load PROVE IInv'
<1>1. PICK module \in Module \ (Loaded \cup unloaded) : loaded' = Append(loaded, module)
  BY DEF Load
<1>2. /\ UNCHANGED <<unloaded, started, pc, answer, capacity, modules, current, name, missing,
                     sawPartial, candidates, tally>>
      /\ (Searching' <=> Searching)
  BY DEF Load, search, Searching
<1>l. /\ TypeOK /\ SnapshotInv /\ NotedInv /\ CandidatesInv /\ ExportsInv /\ TallyInv
      /\ loaded \in Seq(Module) /\ DOMAIN loaded = 1..Len(loaded) /\ Len(loaded) \in Nat
      /\ Distinct(loaded)
  BY Lists DEF IInv
<1>3. /\ loaded' \in Seq(Module) /\ DOMAIN loaded' = 1..(Len(loaded) + 1)
      /\ loaded'[Len(loaded) + 1] = module
      /\ \A i \in DOMAIN loaded : i \in DOMAIN loaded' /\ loaded'[i] = loaded[i]
      /\ \A i \in DOMAIN loaded' : i \in DOMAIN loaded \/ i = Len(loaded) + 1
  BY <1>1, <1>l
<1>4. Loaded \subseteq Loaded'
  BY <1>3 DEF Loaded, Range
<1>5. \A i, j \in DOMAIN loaded' : loaded'[i] = loaded'[j] => i = j
  <2>1. \A i \in DOMAIN loaded : loaded[i] # module
    BY <1>1 DEF Loaded, Range
  <2> QED BY <2>1, <1>3, <1>l DEF Distinct
<1>6. TypeOK'
  BY <1>2, <1>3, <1>5, <1>l DEF TypeOK
<1>7. SnapshotInv'
  BY <1>2, <1>4, <1>l DEF SnapshotInv, Throughout
<1>8. NotedInv' /\ TallyInv'
  BY <1>2, <1>l DEF NotedInv, IsNoted, Throughout, TallyInv
<1>9. CandidatesInv' /\ ExportsInv'
  BY <1>2, <1>4, <1>l DEF CandidatesInv, ExportsInv, IsPartial
<1> QED BY <1>6, <1>7, <1>8, <1>9 DEF IInv

\* One less: it was no candidate, and it is no longer among those that have
\* been there all the time.
LEMMA UnloadIInv == ASSUME IInv, Unload PROVE IInv'
<1>1. PICK i \in DOMAIN loaded :
        /\ loaded[i] \notin Settled
        /\ loaded' = RemoveAt(loaded, i)
        /\ unloaded' = unloaded \cup {loaded[i]}
  BY DEF Unload
<1> DEFINE gone == loaded[i]
<1>2. /\ UNCHANGED <<started, pc, answer, capacity, modules, current, name, missing,
                     sawPartial, candidates, tally>>
      /\ (Searching' <=> Searching)
  BY DEF Unload, search, Searching
<1>l. /\ TypeOK /\ SnapshotInv /\ NotedInv /\ CandidatesInv /\ ExportsInv /\ TallyInv
      /\ loaded \in Seq(Module) /\ Distinct(loaded) /\ gone \in Module /\ gone \in Loaded
  BY Lists DEF IInv, Loaded, Range
<1>3. loaded' \in Seq(Module) /\ Loaded' = Loaded \ {gone} /\ Distinct(loaded')
  BY <1>1, <1>l, RemoveAtCloses, RemoveAtDistinct DEF Loaded
<1>4. /\ unloaded' = unloaded \cup {gone} /\ Throughout' = Throughout \ {gone}
      /\ Loaded' \cup unloaded' = Loaded \cup unloaded
  BY <1>1, <1>2, <1>3, <1>l DEF Throughout
<1>5. /\ gone \notin Range(candidates)
      /\ pc = "ResolveExports" /\ name > Len(ExportNames) => gone # modules[current]
  BY <1>1 DEF Settled
<1> HIDE DEF gone
<1>6. TypeOK'
  BY <1>2, <1>3, <1>4, <1>l DEF TypeOK, Distinct
<1>7. SnapshotInv'
  BY <1>2, <1>3, <1>4, <1>l DEF SnapshotInv
<1>8. NotedInv' /\ TallyInv'
  BY <1>2, <1>4, <1>l DEF NotedInv, IsNoted, TallyInv
<1>p. \A module : IsPartial(module) => IsPartial(module)'
  BY <1>4 DEF IsPartial
<1>9. CandidatesInv'
  <2>1. \A k \in DOMAIN candidates : candidates[k] \in Loaded'
    BY <1>3, <1>5, <1>l DEF CandidatesInv, Range
  <2>2. sawPartial => \E module \in Loaded' \cup unloaded' : IsPartial(module)'
    BY <1>4, <1>p, <1>l DEF CandidatesInv
  <2> QED BY <2>1, <2>2, <1>2, <1>l DEF CandidatesInv
<1>10. ExportsInv'
  BY <1>2, <1>3, <1>5, <1>p, <1>l DEF ExportsInv
<1> QED BY <1>6, <1>7, <1>8, <1>9, <1>10 DEF IInv

LEMMA NextIInv == ASSUME IInv, [Next]_vars PROVE IInv'
<1>1. ASSUME UNCHANGED vars PROVE IInv'
  <2>1. /\ UNCHANGED <<loaded, unloaded, started, pc, answer, capacity, modules, current,
                       name, missing, sawPartial, candidates, tally>>
    BY <1>1 DEF vars, process, search
  <2> QED
    BY <2>1
       DEF IInv, TypeOK, SnapshotInv, NotedInv, CandidatesInv, ExportsInv, TallyInv,
           Throughout, Loaded, Searching, IsNoted, IsPartial
<1> QED
  BY <1>1, ResolveIInv, EnumerateIInv, FindAnchorIInv, ResolveExportsIInv, ClassifyIInv,
     EndOfSearchIInv, ValidateIInv, ConcludeIInv, LoadIInv, UnloadIInv DEF Next

LEMMA InvariantHolds == Spec => []IInv
<1>1. IInv /\ [Next]_vars => IInv'
  BY NextIInv
<1> QED BY InitIInv, <1>1, PTL DEF Spec
-----------------------------------------------------------------------------
\* The locals of the call stay in range, whatever the process does: a candidate
\* is never validated past the end of the list, nor is a module looked up there.
THEOREM ResolverTypeCorrect == Spec => []TypeOK
<1>1. IInv => TypeOK
  BY DEF IInv
<1> QED BY InvariantHolds, <1>1, PTL

\* Only these steps return, and with what.
LEMMA Returns ==
  ASSUME IInv, [Next]_vars, Answered
  PROVE  \/ answer'.code = "EnumerationFailed" \/ answer'.code = "EnumerationTruncated"
         \/ EndOfSearch /\ sawPartial /\ answer'.code = "PartialCandidate"
         \/ /\ EndOfSearch /\ ~sawPartial /\ candidates = <<>>
            /\ answer'.code = "HostNotFound"
         \/ /\ Conclude
            /\ answer'.code \in
                 Incompatibility \cup
                 {"AmbiguousCompatibleHosts", "CandidateRejected", "Ready", "NotReady"}
<1>1. pc # "Idle" /\ pc' = "Idle" /\ pc' # pc
  BY DEF Answered
<1>2. ~UNCHANGED vars /\ ~Resolve /\ ~ResolveExports /\ ~Validate /\ ~Load /\ ~Unload
  BY <1>1 DEF vars, Resolve, ResolveExports, Validate, Load, Unload
<1>3. ~Snapshot /\ ~Goto("EnumerateAgain") /\ ~Goto("Validate")
      /\ ~FindAnchor /\ ~Classify
  BY <1>1 DEF Snapshot, Goto, FindAnchor, Classify, NextModule
<1>4. \/ Answer("EnumerationFailed", None) \/ Answer("EnumerationTruncated", None)
      \/ EndOfSearch /\ sawPartial /\ Answer("PartialCandidate", None)
      \/ EndOfSearch /\ ~sawPartial /\ candidates = <<>> /\ Answer("HostNotFound", None)
      \/ Conclude
  BY <1>2, <1>3 DEF Next, EnumerateFirst, EnumerateAgain, EndOfSearch
<1>5. \A code, module : Answer(code, module) => answer'.code = code
  BY DEF Answer
<1>6. tally.incompatibility \in Incompatibility \cup {None}
  BY DEF IInv, TypeOK
<1>7. ASSUME Conclude
      PROVE  answer'.code \in
               Incompatibility \cup
               {"AmbiguousCompatibleHosts", "CandidateRejected", "Ready", "NotReady"}
  BY <1>5, <1>6, <1>7 DEF Conclude
<1> QED BY <1>4, <1>5, <1>7

\* What the validation loop has found when it ends.
LEMMA Concluded ==
  ASSUME IInv, Conclude
  PROVE  /\ candidates # <<>> /\ 1 \in DOMAIN candidates
         /\ \A i \in DOMAIN candidates :
              candidates[i] \in Loaded /\ IsComplete(candidates[i])
         /\ Distinct(candidates)
         /\ \A other \in Throughout : HasAnchor(other) => other \in Range(candidates)
         /\ tally.incompatibility = None =>
              /\ \A i \in DOMAIN candidates : Verdict[candidates[i]] = "Accepted"
              /\ tally.count = Len(candidates)
              /\ tally.compatible = candidates[1] /\ candidates[1] # None
         /\ tally.incompatibility # None =>
              \E i \in DOMAIN candidates : Verdict[candidates[i]] = tally.incompatibility
<1>l. /\ SnapshotInv /\ NotedInv /\ CandidatesInv /\ TallyInv
      /\ pc = "Validate" /\ Searching /\ candidates # <<>>
      /\ candidates \in Seq(Module)
      /\ DOMAIN candidates = 1..Len(candidates) /\ Len(candidates) \in Nat
      /\ current \in Nat /\ current > Len(candidates) /\ current <= Len(candidates) + 1
  BY Lists DEF IInv, Conclude, Searching, NotedInv, TallyInv
<1>1. current = Len(candidates) + 1
  BY <1>l
<1>2. 1 \in DOMAIN candidates /\ current # 1
  BY <1>l, <1>1
<1>3. \A other \in Throughout : HasAnchor(other) => other \in Range(candidates)
  BY <1>l DEF SnapshotInv, NotedInv, IsNoted, Range
<1>4. candidates[1] # None
  BY <1>l, <1>2, ResolverAssumption
<1>5. current - 1 = Len(candidates)
  BY <1>1, <1>l
<1> QED BY <1>l, <1>2, <1>3, <1>4, <1>5 DEF CandidatesInv, TallyInv

\* A host that is named is complete, compatible and loaded, and no other module
\* with the anchor was there all the time.
THEOREM NamedHostIsUnambiguous == Spec => HostIsUnambiguous
<1>1. ASSUME IInv, [Next]_vars, Answered, answer'.code \in {"Ready", "NotReady"}
      PROVE  /\ answer'.module \in Loaded /\ IsComplete(answer'.module)
             /\ Verdict[answer'.module] = "Accepted"
             /\ \A other \in Throughout \ {answer'.module} : ~HasAnchor(other)
  <2>1. Conclude
    BY <1>1, Returns
  <2>2. tally.incompatibility = None
    <3>1. tally.incompatibility # None =>
            /\ answer'.code = tally.incompatibility
            /\ tally.incompatibility \in Incompatibility
      BY <1>1, <2>1 DEF Conclude, Answer, IInv, TypeOK
    <3> QED BY <1>1, <3>1 DEF Incompatibility
  <2>3. ~(tally.count > 1) /\ answer'.module = tally.compatible
    BY <1>1, <2>1, <2>2 DEF Conclude, Answer
  <2>4. /\ tally.count = Len(candidates) /\ answer'.module = candidates[1]
        /\ DOMAIN candidates = 1..Len(candidates) /\ Len(candidates) \in Nat
    BY <1>1, <2>1, <2>2, <2>3, Concluded, Lists DEF IInv
  <2>5. \A i \in DOMAIN candidates : i = 1
    BY <2>3, <2>4
  <2>6. Range(candidates) \subseteq {candidates[1]}
    BY <2>5 DEF Range
  <2> QED BY <1>1, <2>1, <2>2, <2>4, <2>6, Concluded
<1>2. IInv /\ [Next]_vars =>
        [Answered /\ answer'.code \in {"Ready", "NotReady"} =>
           LET host == answer'.module
           IN  /\ host \in Loaded /\ IsComplete(host) /\ Verdict[host] = "Accepted"
               /\ \A other \in Throughout \ {host} : ~HasAnchor(other)]_vars
  BY <1>1
<1> QED BY InvariantHolds, <1>2, PTL DEF Spec, HostIsUnambiguous

\* A module with the anchor that was there all the time is noticed.
THEOREM PresentHostIsAlwaysNoticed == Spec => PresentHostIsNoticed
<1>1. ASSUME IInv, [Next]_vars, Answered, answer'.code = "HostNotFound",
             NEW module \in Throughout
      PROVE  ~HasAnchor(module)
  <2>1. EndOfSearch /\ ~sawPartial /\ candidates = <<>>
    <3>1. answer'.code \notin
            Incompatibility \cup
            {"AmbiguousCompatibleHosts", "CandidateRejected", "Ready", "NotReady"}
      BY <1>1 DEF Incompatibility
    <3> QED BY <1>1, <3>1, Returns
  <2>2. /\ current \in Nat /\ Len(modules) \in Nat /\ current > Len(modules)
        /\ pc = "FindAnchor" /\ DOMAIN modules = 1..Len(modules)
    BY <1>1, <2>1, Lists DEF EndOfSearch, IInv
  <2>3. PICK i \in DOMAIN modules : modules[i] = module
    BY <1>1, <2>2 DEF IInv, SnapshotInv, Searching, Range
  <2>4. i \in 1..(current - 1)
    BY <2>2
  <2>5. IsNoted(module)
    BY <1>1, <2>2, <2>3, <2>4 DEF IInv, NotedInv
  <2>6. module \notin Range(candidates)
    BY <2>1 DEF Range
  <2> QED BY <1>1, <2>1, <2>5, <2>6 DEF IsNoted
<1>2. IInv /\ [Next]_vars =>
        [Answered /\ answer'.code = "HostNotFound" =>
           \A module \in Throughout : ~HasAnchor(module)]_vars
  BY <1>1
<1> QED BY InvariantHolds, <1>2, PTL DEF Spec, PresentHostIsNoticed

\* A rejection has a cause, and a candidate is never rejected without one.
THEOREM RejectionsHaveCause == Spec => RejectionHasCause
<1> DEFINE Caused ==
      /\ answer'.code = "AmbiguousCompatibleHosts" =>
           \E one, other \in Loaded :
             one # other /\ Verdict[one] = "Accepted" /\ Verdict[other] = "Accepted"
      /\ answer'.code \in Incompatibility =>
           \E module \in Loaded : IsComplete(module) /\ Verdict[module] = answer'.code
      /\ answer'.code = "PartialCandidate" =>
           \E module \in Loaded \cup unloaded :
             HasAnchor(module) /\ (~IsComplete(module) \/ module \in unloaded)
      /\ answer'.code # "CandidateRejected"
<1>1. ASSUME IInv, [Next]_vars, Answered PROVE Caused
  <2>1. CASE EndOfSearch /\ sawPartial /\ answer'.code = "PartialCandidate"
    <3>1. \E module \in Loaded \cup unloaded : IsPartial(module)
      BY <1>1, <2>1 DEF IInv, CandidatesInv
    <3> QED BY <2>1, <3>1 DEF IsPartial, Incompatibility
  <2>2. CASE Conclude /\ tally.incompatibility # None
    <3>1. answer'.code = tally.incompatibility /\ tally.incompatibility \in Incompatibility
      BY <1>1, <2>2 DEF Conclude, Answer, IInv, TypeOK
    <3>2. \E i \in DOMAIN candidates :
            /\ candidates[i] \in Loaded /\ IsComplete(candidates[i])
            /\ Verdict[candidates[i]] = answer'.code
      BY <1>1, <2>2, <3>1, Concluded
    <3> QED BY <3>1, <3>2 DEF Incompatibility
  <2>3. CASE Conclude /\ tally.incompatibility = None /\ tally.count > 1
    <3>1. answer'.code = "AmbiguousCompatibleHosts"
      BY <2>3 DEF Conclude, Answer
    <3>2. 1 \in DOMAIN candidates /\ 2 \in DOMAIN candidates
      <4>1. Len(candidates) > 1 /\ Len(candidates) \in Nat
            /\ DOMAIN candidates = 1..Len(candidates)
        BY <1>1, <2>3, Concluded, Lists DEF IInv
      <4> QED BY <4>1
    <3>3. candidates[1] # candidates[2]
      BY <1>1, <2>3, <3>2, Concluded DEF Distinct
    <3>4. /\ candidates[1] \in Loaded /\ Verdict[candidates[1]] = "Accepted"
          /\ candidates[2] \in Loaded /\ Verdict[candidates[2]] = "Accepted"
      BY <1>1, <2>3, <3>2, Concluded
    <3> QED BY <3>1, <3>3, <3>4 DEF Incompatibility
  <2>4. CASE Conclude /\ tally.incompatibility = None /\ ~(tally.count > 1)
    <3>1. tally.compatible # None
      BY <1>1, <2>4, Concluded
    <3>2. answer'.code \in {"Ready", "NotReady"}
      BY <2>4, <3>1 DEF Conclude, Answer
    <3> QED BY <3>2 DEF Incompatibility
  <2>5. CASE answer'.code \in {"EnumerationFailed", "EnumerationTruncated", "HostNotFound"}
    BY <2>5 DEF Incompatibility
  <2> QED BY <1>1, <2>1, <2>2, <2>3, <2>4, <2>5, Returns
<1>2. IInv /\ [Next]_vars => [Answered => Caused]_vars
  BY <1>1
<1> QED BY InvariantHolds, <1>2, PTL DEF Spec, RejectionHasCause

=============================================================================
