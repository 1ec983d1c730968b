------------------------ MODULE WrapperAdmissionProofs ------------------------
(***************************************************************************)
(* WrapperAdmission for every set of files and of their contents, every    *)
(* allowlist, and every capacity of the path's buffer.                     *)
(***************************************************************************)
EXTENDS WrapperAdmission, WellFoundedInduction, FiniteSetTheorems, TLAPS

\* A set of naturals that is not empty has a least element: induction, in the
\* form the provers can use.
LEMMA LeastNatural ==
  ASSUME NEW numbers, numbers \subseteq Nat, numbers # {}
  PROVE  \E least \in numbers : \A other \in numbers : least <= other
<1> DEFINE Below == OpToRel(<, Nat)
<1>1. IsWellFoundedOn(Below, Nat)
  BY NatLessThanWellFounded
<1>2. \A left, right \in Nat : <<left, right>> \in Below <=> left < right
  BY DEF OpToRel
<1> HIDE DEF Below
<1>3. PICK least \in numbers : \A other \in numbers : ~(<<other, least>> \in Below)
  BY <1>1, WFMin
<1>4. ASSUME NEW other \in numbers
      PROVE  least <= other
  <2>1. least \in Nat /\ other \in Nat
    OBVIOUS
  <2>2. ~(other < least)
    BY <1>2, <1>3, <2>1
  <2> QED BY <2>1, <2>2
<1> QED BY <1>4

\* The code of the first failure is that of a check that fails after all those
\* before it passed.
LEMMA FirstFailureFails ==
  ASSUME NEW checks, NEW n \in Nat, DOMAIN checks = 1..n, ~AllPass(checks)
  PROVE  \E k \in 1..n : /\ ~checks[k][1] /\ \A earlier \in 1..(k - 1) : checks[earlier][1]
                         /\ FirstFailure(checks) = checks[k][2]
<1> DEFINE failing == {i \in 1..n : ~checks[i][1]}
           IsFirst(i) == ~checks[i][1] /\ \A earlier \in 1..(i - 1) : checks[earlier][1]
           first == CHOOSE i \in DOMAIN checks : IsFirst(i)
<1>1. failing \subseteq Nat /\ failing # {}
  BY DEF AllPass
<1>2. PICK least \in failing : \A other \in failing : least <= other
  BY <1>1, LeastNatural
<1>3. \A earlier \in 1..(least - 1) : checks[earlier][1]
  BY <1>2
<1>4. least \in DOMAIN checks /\ IsFirst(least)
  BY <1>3
<1>5. first \in DOMAIN checks /\ IsFirst(first)
  <2> HIDE DEF IsFirst
  <2> QED BY <1>4
<1>6. FirstFailure(checks) = checks[first][2]
  BY DEF FirstFailure
<1> HIDE DEF first
<1> QED BY <1>5, <1>6

-----------------------------------------------------------------------------
\* The runs of a loop of m turns over the states S, each turn a function of the
\* state before it.
Runs(S, base, turn, m) ==
  {run \in [0..m -> S] : run[0] = base /\ \A n \in 1..m : run[n] = turn[n][run[n - 1]]}

\* A loop that stays in S has a run.
LEMMA LoopRuns ==
  ASSUME NEW S, NEW base \in S, NEW length \in Nat, NEW turn \in [1..length -> [S -> S]]
  PROVE  Runs(S, base, turn, length) # {}
<1> DEFINE stuck == {m \in 0..length : Runs(S, base, turn, m) = {}}
<1>1. ASSUME stuck # {}
      PROVE  FALSE
  <2>1. stuck \subseteq Nat
    OBVIOUS
  <2>2. PICK m \in stuck : \A other \in stuck : m <= other
    <3> HIDE DEF stuck
    <3> QED BY <1>1, <2>1, LeastNatural
  <2>3. m \in 0..length /\ Runs(S, base, turn, m) = {}
    OBVIOUS
  <2>4. CASE m = 0
    <3>1. [n \in 0..0 |-> base] \in Runs(S, base, turn, 0)
      BY DEF Runs
    <3> QED BY <2>3, <2>4, <3>1
  <2>5. CASE m > 0
    <3>1. m - 1 \in 0..length /\ ~(m <= m - 1)
      BY <2>3, <2>5
    <3>2. Runs(S, base, turn, m - 1) # {}
      BY <2>2, <3>1
    <3>3. PICK run \in [0..(m - 1) -> S] :
            run[0] = base /\ \A n \in 1..(m - 1) : run[n] = turn[n][run[n - 1]]
      BY <3>2 DEF Runs
    <3> DEFINE longer == [n \in 0..m |-> IF n = m THEN turn[m][run[m - 1]] ELSE run[n]]
    <3>4. m \in 1..length /\ m - 1 \in 0..(m - 1)
      BY <2>3, <2>5
    <3>5. run[m - 1] \in S /\ turn[m] \in [S -> S]
      BY <3>4
    <3>6. longer \in [0..m -> S]
      <4>1. turn[m][run[m - 1]] \in S
        BY <3>5
      <4>2. \A n \in 0..m : n # m => n \in 0..(m - 1)
        BY <3>4
      <4> QED BY <4>1, <4>2
    <3>7. longer[0] = base
      BY <2>5, <3>3, <3>4
    <3>8. \A n \in 1..m : longer[n] = turn[n][longer[n - 1]]
      <4>1. SUFFICES ASSUME NEW n \in 1..m
                     PROVE  longer[n] = turn[n][longer[n - 1]]
        OBVIOUS
      <4>2. longer[n - 1] = run[n - 1]
        BY <3>4
      <4>3. CASE n = m
        BY <3>4, <4>2, <4>3
      <4>4. CASE n # m
        <5>1. n \in 1..(m - 1) /\ n \in 0..m
          BY <3>4, <4>4
        <5> QED BY <3>3, <4>2, <4>4, <5>1
      <4> QED BY <4>3, <4>4
    <3> HIDE DEF longer
    <3>9. longer \in Runs(S, base, turn, m)
      BY <3>6, <3>7, <3>8 DEF Runs
    <3> QED BY <2>3, <3>9
  <2> QED BY <2>3, <2>4, <2>5
<1>2. length \in 0..length
  OBVIOUS
<1> QED BY <1>1, <1>2
-----------------------------------------------------------------------------
\* What a language authors, as far as it is well formed.
VersionOf(image, language) == ParseFourPartVersion(ReadVersionString(image, language).version)
NameOf(image, language) == ReadVersionString(image, language).name

\* A search that stands on what the content authors: each of the two strings is
\* not found, or is that of a language.
IsAuthored(image, found) ==
  /\ found.version # {} => \E language \in DOMAIN image.strings :
                              found.version = VersionOf(image, language)
  /\ found.name # Missing => \E language \in DOMAIN image.strings :
                              found.name = NameOf(image, language)

\* A language that authors nothing has nothing to be found.
LEMMA OnlyAuthoredIsRead ==
  ASSUME NEW image, NEW language
  PROVE  /\ VersionOf(image, language) # {} => language \in DOMAIN image.strings
         /\ NameOf(image, language) # Missing => language \in DOMAIN image.strings
<1>1. ASSUME language \notin DOMAIN image.strings
      PROVE  VersionOf(image, language) = {} /\ NameOf(image, language) = Missing
  <2>1. ReadVersionString(image, language) =
          [version |-> [parts |-> <<>>, clean |-> TRUE], name |-> Missing]
    BY <1>1 DEF ReadVersionString
  <2>2. Len(<<>>) # 4
    OBVIOUS
  <2> QED BY <2>1, <2>2 DEF VersionOf, NameOf, ParseFourPartVersion
<1> QED BY <1>1

LEMMA TranslatedIsAuthored ==
  ASSUME NEW image, NEW found, NEW language, IsAuthored(image, found)
  PROVE  /\ IsAuthored(image, Translated(image, found, language))
         /\ IsFound(found) => Translated(image, found, language) = found
         /\ VersionOf(image, language) # {} /\ NameOf(image, language) # Missing =>
              IsFound(Translated(image, found, language))
<1>1. Translated(image, found, language) =
        IF IsFound(found) THEN found
        ELSE [version |-> IF VersionOf(image, language) # {} THEN VersionOf(image, language)
                          ELSE found.version,
              name |-> NameOf(image, language)]
  BY DEF Translated, VersionOf, NameOf
<1> QED BY <1>1, OnlyAuthoredIsRead DEF IsAuthored, IsFound

LEMMA FilledInIsAuthored ==
  ASSUME NEW image, NEW found, NEW language, IsAuthored(image, found)
  PROVE  /\ IsAuthored(image, FilledIn(image, found, language))
         /\ IsFound(found) => FilledIn(image, found, language) = found
<1>1. FilledIn(image, found, language) =
        IF IsFound(found) THEN found
        ELSE [version |-> IF found.version # {} THEN found.version
                          ELSE VersionOf(image, language),
              name |-> IF found.name # Missing THEN found.name ELSE NameOf(image, language)]
  BY DEF FilledIn, VersionOf, NameOf
<1> QED BY <1>1, OnlyAuthoredIsRead DEF IsAuthored, IsFound

\* The search through the declared languages is a run of the loop.
LEMMA DeclaredIsARun ==
  ASSUME NEW image, image.translations \in Seq(STRING)
  PROVE  \E found : /\ found[0] = NothingFound
                    /\ \A n \in 1..Len(image.translations) :
                         found[n] = Translated(image, found[n - 1], image.translations[n])
                    /\ Declared(image) = found[Len(image.translations)]
<1> DEFINE length == Len(image.translations)
           versions == {{}} \cup {VersionOf(image, image.translations[n]) : n \in 1..length}
           names == {Missing} \cup {NameOf(image, image.translations[n]) : n \in 1..length}
           S == [version : versions, name : names]
           turn == [n \in 1..length |-> [found \in S |->
                     Translated(image, found, image.translations[n])]]
           IsLoop(found) == found = [n \in 0..length |->
                              IF n = 0 THEN NothingFound
                              ELSE Translated(image, found[n - 1], image.translations[n])]
<1>1. length \in Nat
  OBVIOUS
<1>2. NothingFound \in S
  BY DEF NothingFound
<1>3. turn \in [1..length -> [S -> S]]
  <2>1. ASSUME NEW n \in 1..length, NEW found \in S
        PROVE  Translated(image, found, image.translations[n]) \in S
    <3>1. /\ VersionOf(image, image.translations[n]) \in versions
          /\ NameOf(image, image.translations[n]) \in names
      OBVIOUS
    <3>2. found.version \in versions
      OBVIOUS
    <3>3. Translated(image, found, image.translations[n]) =
            IF IsFound(found) THEN found
            ELSE [version |-> IF VersionOf(image, image.translations[n]) # {}
                              THEN VersionOf(image, image.translations[n])
                              ELSE found.version,
                  name |-> NameOf(image, image.translations[n])]
      BY DEF Translated, VersionOf, NameOf
    <3> HIDE DEF versions, names
    <3> QED BY <3>1, <3>2, <3>3
  <2> HIDE DEF S
  <2> QED BY <2>1
<1>4. PICK run \in [0..length -> S] :
        run[0] = NothingFound /\ \A n \in 1..length : run[n] = turn[n][run[n - 1]]
  <2> HIDE DEF S, turn, length
  <2>1. Runs(S, NothingFound, turn, length) # {}
    BY <1>1, <1>2, <1>3, LoopRuns
  <2> QED BY <2>1 DEF Runs
<1>5. IsLoop(run)
  <2>1. ASSUME NEW n \in 1..length
        PROVE  run[n] = Translated(image, run[n - 1], image.translations[n])
    <3>1. run[n - 1] \in S
      <4>1. n - 1 \in 0..length
        BY <1>1
      <4> HIDE DEF S
      <4> QED BY <1>4, <4>1
    <3> HIDE DEF S
    <3> QED BY <1>4, <3>1
  <2>2. \A n \in 0..length : n # 0 => n \in 1..length
    BY <1>1
  <2>3. \A n \in 0..length : run[n] = IF n = 0 THEN NothingFound
                               ELSE Translated(image, run[n - 1], image.translations[n])
    BY <1>4, <2>1, <2>2
  <2> HIDE DEF S, length
  <2> QED BY <2>3
<1> DEFINE chosen == CHOOSE found : IsLoop(found)
<1>6. IsLoop(chosen)
  <2> HIDE DEF IsLoop
  <2> QED BY <1>5
<1>7. Declared(image) = chosen[length]
  BY DEF Declared
<1> HIDE DEF chosen, S, turn
<1>8. \A n \in 0..length : chosen[n] = IF n = 0 THEN NothingFound
                               ELSE Translated(image, chosen[n - 1], image.translations[n])
  BY <1>6
<1>9. chosen[0] = NothingFound
  BY <1>1, <1>8
<1>10. \A n \in 1..length : chosen[n] = Translated(image, chosen[n - 1], image.translations[n])
  BY <1>1, <1>8
<1> QED BY <1>7, <1>9, <1>10

\* What is found of the declared languages is authored; and as soon as one of
\* them authors both strings, both are found.
LEMMA DeclaredIsAuthored ==
  ASSUME NEW image, image.translations \in Seq(STRING)
  PROVE  /\ IsAuthored(image, Declared(image))
         /\ AuthorsBoth(image) # {} => IsFound(Declared(image))
<1> DEFINE length == Len(image.translations)
           Both(i) == /\ VersionOf(image, image.translations[i]) # {}
                      /\ NameOf(image, image.translations[i]) # Missing
<1>1. PICK found : /\ found[0] = NothingFound
                   /\ \A n \in 1..length :
                        found[n] = Translated(image, found[n - 1], image.translations[n])
                   /\ Declared(image) = found[length]
  BY DeclaredIsARun
<1>2. length \in Nat
  OBVIOUS
<1> DEFINE Good(n) == /\ IsAuthored(image, found[n])
                      /\ (\E i \in 1..n : Both(i)) => IsFound(found[n])
           bad == {n \in 0..length : ~Good(n)}
<1> HIDE DEF length
<1>3. ASSUME bad # {}
      PROVE  FALSE
  <2>1. bad \subseteq Nat
    BY <1>2
  <2>2. PICK n \in bad : \A other \in bad : n <= other
    <3> HIDE DEF bad
    <3> QED BY <1>3, <2>1, LeastNatural
  <2>3. n \in 0..length /\ ~Good(n)
    OBVIOUS
  <2>4. CASE n = 0
    <3>1. IsAuthored(image, found[0])
      BY <1>1 DEF IsAuthored, NothingFound
    <3>2. 1..0 = {}
      OBVIOUS
    <3> QED BY <2>3, <2>4, <3>1, <3>2
  <2>5. CASE n > 0
    <3>1. n - 1 \in 0..length /\ ~(n <= n - 1) /\ n \in 1..length
      BY <1>2, <2>3, <2>5
    <3>2. Good(n - 1)
      BY <2>2, <3>1
    <3>3. found[n] = Translated(image, found[n - 1], image.translations[n])
      BY <1>1, <3>1
    <3>4. /\ IsAuthored(image, found[n])
          /\ IsFound(found[n - 1]) => found[n] = found[n - 1]
          /\ Both(n) => IsFound(found[n])
      BY <3>2, <3>3, TranslatedIsAuthored
    <3>5. ASSUME NEW i \in 1..n, Both(i)
          PROVE  IsFound(found[n])
      <4>1. CASE i = n
        BY <3>4, <3>5, <4>1
      <4>2. CASE i # n
        <5>1. i \in 1..(n - 1)
          BY <1>2, <3>1, <4>2
        <5>2. IsFound(found[n - 1])
          BY <3>2, <3>5, <5>1
        <5> QED BY <3>4, <5>2
      <4> QED BY <4>1, <4>2
    <3> QED BY <2>3, <3>4, <3>5
  <2> QED BY <1>2, <2>3, <2>4, <2>5
<1>4. Good(length)
  <2> HIDE DEF Good
  <2>1. length \in 0..length
    BY <1>2
  <2> QED BY <1>3, <2>1
<1>5. AuthorsBoth(image) # {} => \E i \in 1..length : Both(i)
  <2>1. AuthorsBoth(image) = {i \in DOMAIN image.translations : Both(i)}
    BY DEF AuthorsBoth, VersionOf, NameOf
  <2>2. DOMAIN image.translations = 1..length
    BY DEF length
  <2> HIDE DEF Both
  <2> QED BY <2>1, <2>2
<1> QED BY <1>1, <1>4, <1>5

LEMMA FoundIsAuthored ==
  ASSUME NEW image, image.translations \in Seq(STRING)
  PROVE  /\ IsAuthored(image, VersionFound(image))
         /\ AuthorsBoth(image) # {} => IsFound(VersionFound(image))
<1> DEFINE first == FilledIn(image, Declared(image), Fallbacks[1])
           second == FilledIn(image, first, Fallbacks[2])
           third == FilledIn(image, second, Fallbacks[3])
<1>1. VersionFound(image) = third
  BY DEF VersionFound
<1>2. IsAuthored(image, Declared(image)) /\ (AuthorsBoth(image) # {} => IsFound(Declared(image)))
  BY DeclaredIsAuthored
<1>3. IsAuthored(image, first) /\ (IsFound(Declared(image)) => first = Declared(image))
  BY <1>2, FilledInIsAuthored
<1> HIDE DEF first
<1>4. IsAuthored(image, second) /\ (IsFound(first) => second = first)
  BY <1>3, FilledInIsAuthored
<1> HIDE DEF second
<1>5. IsAuthored(image, third) /\ (IsFound(second) => third = second)
  BY <1>4, FilledInIsAuthored
<1> HIDE DEF third
<1> QED BY <1>1, <1>2, <1>3, <1>4, <1>5
-----------------------------------------------------------------------------
Agrees(fingerprint) ==
  {i \in DOMAIN Allowlist : \A field \in Compared : Allowlist[i][field] = fingerprint[field]}
Differences(fingerprint, i) == {f \in Compared : Allowlist[i][f] # fingerprint[f]}

\* A record agrees exactly when nothing differs.
LEMMA AgreementIsNoDifference ==
  ASSUME NEW fingerprint, NEW i \in DOMAIN Allowlist
  PROVE  /\ CompareBuild(fingerprint, Allowlist[i]) = Differences(fingerprint, i)
         /\ Differences(fingerprint, i) = {} <=> i \in Agrees(fingerprint)
         /\ IsFiniteSet(Differences(fingerprint, i))
         /\ Cardinality(Differences(fingerprint, i)) \in Nat
         /\ Cardinality(Differences(fingerprint, i)) = 0 <=> Differences(fingerprint, i) = {}
<1>1. CompareBuild(fingerprint, Allowlist[i]) = Differences(fingerprint, i)
  BY DEF CompareBuild, Differences
<1>2. Differences(fingerprint, i) = {} <=> i \in Agrees(fingerprint)
  BY DEF Differences, Agrees
<1>3. IsFiniteSet(Compared)
  <2>1. Compared = {"digest"} \cup ({"size"} \cup ({"version"} \cup ({"name"} \cup {"machine"})))
    BY DEF Compared
  <2> QED BY <2>1, FS_Singleton, FS_Union
<1>4. Differences(fingerprint, i) \subseteq Compared
  BY DEF Differences
<1>5. IsFiniteSet(Differences(fingerprint, i))
  BY <1>3, <1>4, FS_Subset
<1>6. Cardinality(Differences(fingerprint, i)) \in Nat
  BY <1>5, FS_CardinalityType
<1>7. Cardinality(Differences(fingerprint, i)) = 0 <=> Differences(fingerprint, i) = {}
  BY <1>5, FS_EmptySet
<1> QED BY <1>1, <1>2, <1>5, <1>6, <1>7

\* The record that a fingerprint is told against is one that no other is nearer
\* to, and agrees with it when any does.
LEMMA ClassificationIsExact ==
  ASSUME NEW fingerprint
  PROVE  LET given == Classification(fingerprint)
         IN  /\ given.index \in 0..Len(Allowlist) /\ given.mismatches \subseteq Compared
             /\ given.build = "KnownBuild" <=> Agrees(fingerprint) # {}
             /\ given.build = "KnownBuild" => given.index \in Agrees(fingerprint)
             /\ given.admission \in {"AdmittedKnownBuild", "AdmittedAuditOnly"} =>
                  given.build = "KnownBuild" \/ request.policy = "AuditOnly"
             /\ given.build = "UnknownBuild" /\ Allowlist # <<>> =>
                  /\ given.mismatches # {}
                  /\ given.mismatches = Differences(fingerprint, given.index)
                  /\ \A i \in DOMAIN Allowlist :
                       Cardinality(Differences(fingerprint, i)) >= Cardinality(given.mismatches)
<1> DEFINE given == Classification(fingerprint)
           mismatches == [i \in DOMAIN Allowlist |-> CompareBuild(fingerprint, Allowlist[i])]
           nearest == {i \in DOMAIN Allowlist : \A j \in DOMAIN Allowlist :
                         Cardinality(mismatches[i]) <= Cardinality(mismatches[j])}
           first == CHOOSE i \in nearest : \A j \in nearest : i <= j
           refused == AdmissionOf("RejectedUnknownBuild")
<1>1. given = IF Allowlist = <<>>
              THEN [NoVerdict EXCEPT !.build = "UnknownBuild", !.admission = refused]
              ELSE [build |-> IF mismatches[first] = {} THEN "KnownBuild" ELSE "UnknownBuild",
                    admission |-> IF mismatches[first] = {} THEN "AdmittedKnownBuild"
                                  ELSE refused,
                    mismatches |-> mismatches[first], index |-> first]
  BY DEF Classification
<1>2. refused \in {"AdmittedKnownBuild", "AdmittedAuditOnly"} => request.policy = "AuditOnly"
  BY DEF AdmissionOf
<1>3. /\ Allowlist \in Seq(Fingerprint) /\ Len(Allowlist) \in Nat
      /\ DOMAIN Allowlist = 1..Len(Allowlist)
  BY WrapperAssumption
<1>4. CASE Allowlist = <<>>
  <2>1. /\ given.build = "UnknownBuild" /\ given.admission = refused
        /\ given.mismatches = {} /\ given.index = 0
    BY <1>1, <1>4 DEF NoVerdict
  <2>2. Agrees(fingerprint) = {}
    BY <1>4 DEF Agrees
  <2>3. 0 \in 0..Len(Allowlist)
    BY <1>3
  <2> HIDE DEF refused, given
  <2> QED BY <1>2, <1>4, <2>1, <2>2, <2>3 DEF given
<1>5. CASE Allowlist # <<>>
  <2> DEFINE Distance(i) == Cardinality(Differences(fingerprint, i))
             distances == {Distance(i) : i \in DOMAIN Allowlist}
  <2>1. \A i \in DOMAIN Allowlist : mismatches[i] = Differences(fingerprint, i)
    BY AgreementIsNoDifference
  <2>2. nearest = {i \in DOMAIN Allowlist : \A j \in DOMAIN Allowlist : Distance(i) <= Distance(j)}
    BY <2>1
  <2> HIDE DEF mismatches, nearest, refused
  <2>3. nearest # {}
    <3>1. DOMAIN Allowlist # {}
      BY <1>3, <1>5
    <3>2. \A i \in DOMAIN Allowlist : Distance(i) \in Nat
      BY AgreementIsNoDifference
    <3> HIDE DEF Distance
    <3>3. distances \subseteq Nat /\ distances # {}
      BY <3>1, <3>2
    <3>4. PICK least \in distances : \A other \in distances : least <= other
      <4> HIDE DEF distances
      <4> QED BY <3>3, LeastNatural
    <3>5. PICK i \in DOMAIN Allowlist : least = Distance(i)
      OBVIOUS
    <3>6. \A j \in DOMAIN Allowlist : Distance(j) \in distances
      OBVIOUS
    <3>7. i \in nearest
      BY <2>2, <3>4, <3>5, <3>6
    <3> QED BY <3>7
  <2>4. nearest \subseteq Nat
    BY <1>3, <2>2
  <2>5. first \in nearest
    BY <2>3, <2>4, LeastNatural
  <2> HIDE DEF first
  <2>6. /\ first \in DOMAIN Allowlist /\ mismatches[first] = Differences(fingerprint, first)
        /\ \A j \in DOMAIN Allowlist : Distance(first) <= Distance(j)
    BY <2>1, <2>2, <2>5
  <2>7. /\ given.build = IF mismatches[first] = {} THEN "KnownBuild" ELSE "UnknownBuild"
        /\ given.admission = IF mismatches[first] = {} THEN "AdmittedKnownBuild" ELSE refused
        /\ given.mismatches = mismatches[first] /\ given.index = first
    BY <1>1, <1>5
  <2> HIDE DEF given
  <2>8. mismatches[first] = {} <=> first \in Agrees(fingerprint)
    BY <2>6, AgreementIsNoDifference
  <2>9. ASSUME Agrees(fingerprint) # {}
        PROVE  mismatches[first] = {}
    <3>1. PICK i \in DOMAIN Allowlist : i \in Agrees(fingerprint)
      BY <2>9 DEF Agrees
    <3>2. Distance(i) = 0
      BY <3>1, AgreementIsNoDifference
    <3>3. Distance(first) \in Nat /\ Distance(first) <= 0
      BY <2>6, <3>2, AgreementIsNoDifference
    <3>4. Distance(first) = 0
      <4> HIDE DEF Distance
      <4> QED BY <3>3
    <3> QED BY <2>6, <3>4, AgreementIsNoDifference
  <2>10. Agrees(fingerprint) # {} <=> mismatches[first] = {}
    BY <2>8, <2>9
  <2>11. given.index \in 0..Len(Allowlist)
    BY <1>3, <2>6, <2>7
  <2>12. given.mismatches \subseteq Compared
    BY <2>6, <2>7 DEF Differences
  <2>13. given.build = "KnownBuild" <=> Agrees(fingerprint) # {}
    BY <2>7, <2>10
  <2>14. given.build = "KnownBuild" => given.index \in Agrees(fingerprint)
    BY <2>7, <2>8
  <2>15. given.admission \in {"AdmittedKnownBuild", "AdmittedAuditOnly"} =>
           given.build = "KnownBuild" \/ request.policy = "AuditOnly"
    BY <1>2, <2>7
  <2>16. /\ given.build = "UnknownBuild" => given.mismatches # {}
         /\ given.mismatches = Differences(fingerprint, given.index)
    BY <2>6, <2>7
  <2>17. \A i \in DOMAIN Allowlist :
           Cardinality(Differences(fingerprint, i)) >= Cardinality(given.mismatches)
    <3>1. \A i \in DOMAIN Allowlist : Distance(i) \in Nat
      BY AgreementIsNoDifference
    <3>2. Cardinality(given.mismatches) = Distance(first)
      BY <2>6, <2>7
    <3>3. \A i \in DOMAIN Allowlist : Distance(i) >= Distance(first)
      <4> HIDE DEF Distance
      <4> QED BY <2>6, <3>1
    <3> QED BY <3>2, <3>3
  <2> QED BY <2>11, <2>12, <2>13, <2>14, <2>15, <2>16, <2>17 DEF given
<1> QED BY <1>4, <1>5
-----------------------------------------------------------------------------
IsPrint(fingerprint) ==
  fingerprint = [digest |-> fingerprint.digest, size |-> fingerprint.size,
                 version |-> fingerprint.version, machine |-> fingerprint.machine,
                 name |-> fingerprint.name]

LEMMA NamedPrint ==
  ASSUME NEW print, IsPrint(print), NEW version, NEW name
  PROVE  [print EXCEPT !.version = version, !.name = name] =
           [digest |-> print.digest, size |-> print.size, version |-> version,
            machine |-> print.machine, name |-> name]
<1> DEFINE digest == print.digest
           size == print.size
           machine == print.machine
           old == print.version
           oldName == print.name
<1>1. print = [digest |-> digest, size |-> size, version |-> old, machine |-> machine,
               name |-> oldName]
  BY DEF IsPrint
<1> HIDE DEF digest, size, machine, old, oldName
<1> DEFINE versioned == [print EXCEPT !.version = version]
<1>2. versioned =
        [digest |-> digest, size |-> size, version |-> version, machine |-> machine,
         name |-> oldName]
  BY <1>1
<1>3. [versioned EXCEPT !.name = name] =
        [digest |-> digest, size |-> size, version |-> version, machine |-> machine,
         name |-> name]
  <2> HIDE DEF versioned
  <2> QED BY <1>2
<1> QED BY <1>3 DEF digest, size, machine, versioned

Typed ==
  /\ file \in Content /\ opened \in Content \cup {Missing}
  /\ capacity \in InitialCapacity..MaximumCapacity /\ request.length \in Nat
  /\ evidence = [code |-> evidence.code, path |-> evidence.path,
                 fingerprint |-> evidence.fingerprint]
  /\ evidence.path \in Nat /\ evidence.path < capacity
  /\ IsPrint(evidence.fingerprint)
  /\ verdict.index \in 0..Len(Allowlist) /\ verdict.mismatches \subseteq Compared

\* How far the inspection has come: what it holds is the file that it opened, and
\* what it has read so far is of that file.
Stage ==
  /\ pc \in {"Idle", "Path", "Open", "Classify", "Terminated"} \/ Holding
  /\ Holding => opened = file
  /\ pc \notin {"Classify", "Idle"} => evidence.code = "ModulePathUnavailable"
  /\ pc = "Open" \/ Holding => evidence.path = request.length
  /\ pc \in {"Architecture", "Hash", "VersionSize", "Version"} =>
       evidence.fingerprint.size = About[opened].size
  /\ pc \in {"Hash", "VersionSize", "Version"} =>
       evidence.fingerprint.machine = About[opened].machine
  /\ pc \in {"VersionSize", "Version"} =>
       evidence.fingerprint.digest = About[opened].digest

IInv == Typed /\ Stage /\ EvidenceIsOfOneFile /\ AdmissionIsEarned

LEMMA Bounds ==
  /\ InitialCapacity \in Nat \ {0} /\ MaximumCapacity \in Nat
  /\ InitialCapacity <= MaximumCapacity
BY WrapperAssumption

LEMMA EmptyIsTyped ==
  /\ NoEvidence = [code |-> "ModulePathUnavailable", path |-> 0, fingerprint |-> NoFingerprint]
  /\ IsPrint(NoFingerprint)
  /\ NoVerdict.index \in 0..Len(Allowlist) /\ NoVerdict.mismatches \subseteq Compared
<1>1. Len(Allowlist) \in Nat
  BY WrapperAssumption
<1> QED BY <1>1 DEF NoEvidence, IsPrint, NoFingerprint, NoVerdict

\* While an inspection is under way nothing has been claimed yet.
LEMMA UnderWay ==
  ASSUME Typed', Stage', (pc \notin {"Classify", "Idle"})'
  PROVE  IInv'
<1>1. evidence'.code = "ModulePathUnavailable" /\ pc' # "Idle"
  BY DEF Stage
<1>2. EvidenceIsOfOneFile'
  BY <1>1 DEF EvidenceIsOfOneFile
<1>3. AdmissionIsEarned'
  BY <1>1 DEF AdmissionIsEarned
<1> QED BY <1>2, <1>3 DEF IInv

\* An inspection that ends without evidence names what failed.
LEMMA Concluded ==
  ASSUME IInv, NEW code, Conclude(code), code # "Complete",
         code = "OriginalFilenameUnavailable" => AuthorsBoth(About[opened]) = {},
         code = "ModulePathTooLong" => request.length >= MaximumCapacity
  PROVE  IInv'
<1>1. /\ pc' = "Classify" /\ UNCHANGED <<file, request, capacity, opened, verdict>>
      /\ evidence' = [evidence EXCEPT !.code = code]
  BY DEF Conclude
<1>2. evidence' = [code |-> code, path |-> evidence.path, fingerprint |-> evidence.fingerprint]
  BY <1>1 DEF IInv, Typed
<1>3. Typed'
  BY <1>1, <1>2 DEF IInv, Typed, IsPrint
<1>4. Stage'
  BY <1>1 DEF Stage, Holding
<1>5. evidence'.code = code
  BY <1>2
<1>6. EvidenceIsOfOneFile'
  <2>1. (AuthorsBoth(About[opened]) = {})' <=> AuthorsBoth(About[opened]) = {}
    BY <1>1
  <2> QED BY <1>1, <1>5, <2>1 DEF EvidenceIsOfOneFile
<1>7. AdmissionIsEarned'
  BY <1>1 DEF AdmissionIsEarned
<1> QED BY <1>3, <1>4, <1>6, <1>7 DEF IInv

\* The next step of the inspection adds to what is known of the file.
LEMMA Proceeded ==
  ASSUME IInv, Holding, NEW next \in {"Architecture", "Hash", "VersionSize", "Version"},
         NEW fingerprint, IsPrint(fingerprint), Proceed(next, fingerprint),
         fingerprint.size = About[opened].size,
         next # "Architecture" => fingerprint.machine = About[opened].machine,
         next \in {"VersionSize", "Version"} => fingerprint.digest = About[opened].digest
  PROVE  IInv'
<1>1. /\ pc' = next /\ UNCHANGED <<file, request, capacity, opened, verdict>>
      /\ evidence' = [evidence EXCEPT !.fingerprint = fingerprint]
  BY DEF Proceed
<1>2. evidence' = [code |-> evidence.code, path |-> evidence.path, fingerprint |-> fingerprint]
  BY <1>1 DEF IInv, Typed
<1>3. Typed'
  BY <1>1, <1>2 DEF IInv, Typed, IsPrint
<1>4. pc \notin {"Classify", "Idle"}
  BY DEF Holding
<1>5. opened = file /\ evidence.code = "ModulePathUnavailable" /\ evidence.path = request.length
  BY <1>4 DEF IInv, Stage
<1>6. /\ evidence'.code = "ModulePathUnavailable" /\ evidence'.path = request'.length
      /\ evidence'.fingerprint = fingerprint /\ opened' = file'
      /\ About[opened'] = About[opened]
  BY <1>1, <1>2, <1>5
<1>7. Stage'
  BY <1>1, <1>6 DEF Stage, Holding
<1>8. (pc \notin {"Classify", "Idle"})'
  BY <1>1
<1> QED BY <1>3, <1>7, <1>8, UnderWay

LEMMA PathStep ==
  ASSUME IInv, ResolveModulePath
  PROVE  IInv'
<1> DEFINE returned == IF request.length < capacity THEN request.length ELSE capacity
<1>1. /\ pc = "Path" /\ request.length \in Nat /\ capacity \in Nat /\ capacity # 0
      /\ capacity <= MaximumCapacity /\ capacity >= InitialCapacity
      /\ evidence.code = "ModulePathUnavailable"
  BY Bounds DEF IInv, Typed, Stage, ResolveModulePath
<1>2. CASE Conclude("InvalidModule") \/ Conclude("ModulePathUnavailable")
  BY <1>2, Concluded
<1>3. CASE /\ IsWhole(returned, capacity)
           /\ evidence' = [evidence EXCEPT !.path = returned]
           /\ pc' = "Open"
           /\ UNCHANGED <<file, request, capacity, opened, verdict>>
  <2>1. returned = request.length /\ returned < capacity
    BY <1>1, <1>3 DEF IsWhole
  <2>2. evidence' = [code |-> evidence.code, path |-> request.length,
                     fingerprint |-> evidence.fingerprint]
    BY <1>3, <2>1 DEF IInv, Typed
  <2>3. Typed'
    BY <1>1, <1>3, <2>1, <2>2 DEF IInv, Typed, IsPrint
  <2>4. Stage'
    BY <1>1, <1>3, <2>2 DEF Stage, Holding
  <2>5. (pc \notin {"Classify", "Idle"})'
    BY <1>3
  <2> QED BY <2>3, <2>4, <2>5, UnderWay
<1>4. CASE /\ ~IsWhole(returned, capacity)
           /\ capacity >= MaximumCapacity /\ Conclude("ModulePathTooLong")
  <2>1. request.length >= MaximumCapacity
    BY <1>1, <1>4, Bounds DEF IsWhole
  <2> QED BY <1>4, <2>1, Concluded
<1>5. CASE /\ capacity < MaximumCapacity
           /\ capacity' = IF capacity * 2 < MaximumCapacity THEN capacity * 2
                          ELSE MaximumCapacity
           /\ UNCHANGED <<file, pc, request, opened, evidence, verdict>>
  <2>1. capacity' \in InitialCapacity..MaximumCapacity /\ capacity <= capacity'
    BY <1>1, <1>5, Bounds
  <2>2. Typed'
    <3>1. evidence.path < capacity'
      BY <1>1, <2>1 DEF IInv, Typed
    <3> QED BY <1>5, <2>1, <3>1 DEF IInv, Typed, IsPrint
  <2>3. Stage'
    BY <1>5 DEF IInv, Stage, Holding
  <2>4. (pc \notin {"Classify", "Idle"})'
    BY <1>1, <1>5
  <2> QED BY <2>2, <2>3, <2>4, UnderWay
<1> HIDE DEF returned
<1> QED BY <1>2, <1>3, <1>4, <1>5 DEF ResolveModulePath, returned

LEMMA OpenStep ==
  ASSUME IInv, Open
  PROVE  IInv'
<1>1. CASE Conclude("FileOpenFailed") \/ Conclude("FileReadFailed")
  BY <1>1, Concluded
<1>2. CASE /\ opened' = file /\ pc' = "Size"
           /\ UNCHANGED <<file, request, capacity, evidence, verdict>>
  <2>1. pc = "Open"
    BY DEF Open
  <2>2. Typed'
    BY <1>2 DEF IInv, Typed, IsPrint
  <2>3. Stage'
    BY <1>2, <2>1 DEF IInv, Stage, Holding
  <2>4. (pc \notin {"Classify", "Idle"})'
    BY <1>2
  <2> QED BY <2>2, <2>3, <2>4, UnderWay
<1> QED BY <1>1, <1>2 DEF Open

LEMMA SizeStep ==
  ASSUME IInv, ReadSize
  PROVE  IInv'
<1>1. pc = "Size" /\ Holding /\ opened = file
  BY DEF ReadSize, Holding, IInv, Stage
<1>2. CASE Conclude("FileSizeFailed")
  BY <1>2, Concluded
<1> DEFINE fingerprint == [evidence.fingerprint EXCEPT !.size = About[file].size]
<1>3. CASE Proceed("Architecture", fingerprint)
  <2>1. IsPrint(fingerprint) /\ fingerprint.size = About[opened].size
    BY <1>1 DEF IInv, Typed, IsPrint
  <2> HIDE DEF fingerprint
  <2> QED BY <1>1, <1>3, <2>1, Proceeded
<1> QED BY <1>2, <1>3 DEF ReadSize

LEMMA ArchitectureStep ==
  ASSUME IInv, ReadArchitecture
  PROVE  IInv'
<1> DEFINE checks == ArchitectureChecks(evidence.fingerprint.size, About[file])
           fingerprint == [evidence.fingerprint EXCEPT !.machine = About[file].machine]
<1>1. pc = "Architecture" /\ Holding /\ opened = file
  BY DEF ReadArchitecture, Holding, IInv, Stage
<1>2. CASE ~AllPass(checks) /\ Conclude(FirstFailure(checks))
  <2>1. /\ DOMAIN checks = 1..4
        /\ checks[1][2] = "PortableExecutableTruncated"
        /\ checks[2][2] = "PortableExecutableInvalid"
        /\ checks[3][2] = "PortableExecutableTruncated"
        /\ checks[4][2] = "PortableExecutableInvalid"
    BY DEF ArchitectureChecks
  <2> HIDE DEF checks
  <2>2. \A k \in 1..4 :
          checks[k][2] \in {"PortableExecutableTruncated", "PortableExecutableInvalid"}
    BY <2>1
  <2>3. \E k \in 1..4 : /\ ~checks[k][1] /\ \A earlier \in 1..(k - 1) : checks[earlier][1]
                        /\ FirstFailure(checks) = checks[k][2]
    BY <1>2, <2>1, FirstFailureFails
  <2>4. FirstFailure(checks) \in {"PortableExecutableTruncated", "PortableExecutableInvalid"}
    BY <2>2, <2>3
  <2> DEFINE code == FirstFailure(checks)
  <2>5. Conclude(code) /\ code \in {"PortableExecutableTruncated", "PortableExecutableInvalid"}
    BY <1>2, <2>4
  <2> HIDE DEF code
  <2> QED BY <2>5, Concluded
<1>3. CASE Conclude("FileReadFailed") \/ Conclude("PortableExecutableTruncated")
  BY <1>3, Concluded
<1>4. CASE Proceed("Hash", fingerprint)
  <2>1. /\ IsPrint(fingerprint) /\ fingerprint.size = About[opened].size
        /\ fingerprint.machine = About[opened].machine
    BY <1>1 DEF IInv, Typed, IsPrint, Stage
  <2> HIDE DEF fingerprint
  <2> QED BY <1>1, <1>4, <2>1, Proceeded
<1> QED BY <1>2, <1>3, <1>4 DEF ReadArchitecture

LEMMA HashStep ==
  ASSUME IInv, HashFile
  PROVE  IInv'
<1> DEFINE fingerprint == [evidence.fingerprint EXCEPT !.digest = About[file].digest]
<1>1. pc = "Hash" /\ Holding /\ opened = file
  BY DEF HashFile, Holding, IInv, Stage
<1>2. CASE Conclude("HashFailed") \/ Conclude("FileReadFailed")
  BY <1>2, Concluded
<1>3. CASE Proceed("VersionSize", fingerprint)
  <2>1. /\ IsPrint(fingerprint) /\ fingerprint.size = About[opened].size
        /\ fingerprint.machine = About[opened].machine
        /\ fingerprint.digest = About[opened].digest
    BY <1>1 DEF IInv, Typed, IsPrint, Stage
  <2> HIDE DEF fingerprint
  <2> QED BY <1>1, <1>3, <2>1, Proceeded
<1>4. CASE /\ pc' = "Terminated" /\ opened' = Missing
           /\ UNCHANGED <<file, request, capacity, evidence, verdict>>
  <2>1. Typed'
    BY <1>4 DEF IInv, Typed, IsPrint
  <2>2. Stage'
    BY <1>1, <1>4 DEF IInv, Stage, Holding
  <2>3. (pc \notin {"Classify", "Idle"})'
    BY <1>4
  <2> QED BY <2>1, <2>2, <2>3, UnderWay
<1> QED BY <1>2, <1>3, <1>4 DEF HashFile

LEMMA VersionSizeStep ==
  ASSUME IInv, ReadVersionSize
  PROVE  IInv'
<1>1. pc = "VersionSize" /\ Holding /\ opened = file
  BY DEF ReadVersionSize, Holding, IInv, Stage
<1>2. CASE Conclude("FileVersionUnavailable")
  BY <1>2, Concluded
<1>3. CASE Proceed("Version", evidence.fingerprint)
  <2>1. /\ IsPrint(evidence.fingerprint) /\ evidence.fingerprint.size = About[opened].size
        /\ evidence.fingerprint.machine = About[opened].machine
        /\ evidence.fingerprint.digest = About[opened].digest
    BY <1>1 DEF IInv, Typed, Stage
  <2> QED BY <1>1, <1>3, <2>1, Proceeded
<1> QED BY <1>2, <1>3 DEF ReadVersionSize

LEMMA VersionStep ==
  ASSUME IInv, ReadFileVersion
  PROVE  IInv'
<1> DEFINE image == About[file]
           found == VersionFound(image)
           checks == << <<image.fixedInfo, "FileVersionMalformed">>,
                        <<found.version # {}, "FileVersionMalformed">>,
                        <<found.name # Missing, "OriginalFilenameUnavailable">> >>
           version == CHOOSE one \in found.version : TRUE
           fingerprint == [evidence.fingerprint EXCEPT !.version = version, !.name = found.name]
<1>1. pc = "Version" /\ Holding /\ opened = file /\ file \in Content
  BY DEF ReadFileVersion, Holding, IInv, Stage, Typed
<1>2. image.translations \in Seq(STRING)
  BY <1>1, WrapperAssumption
<1>3. IsAuthored(image, found) /\ (AuthorsBoth(image) # {} => IsFound(found))
  <2> HIDE DEF image
  <2> QED BY <1>2, FoundIsAuthored
<1>4. CASE Conclude("FileVersionUnavailable")
  BY <1>4, Concluded
<1>5. /\ DOMAIN checks = 1..3
      /\ checks[2][1] <=> found.version # {}
      /\ checks[3][1] <=> found.name # Missing
      /\ checks[1][2] = "FileVersionMalformed" /\ checks[2][2] = "FileVersionMalformed"
      /\ checks[3][2] = "OriginalFilenameUnavailable"
  <2> HIDE DEF image, found
  <2>1. DOMAIN checks = 1..3
    OBVIOUS
  <2>2. checks[2][1] <=> found.version # {}
    OBVIOUS
  <2>3. checks[3][1] <=> found.name # Missing
    OBVIOUS
  <2>4. /\ checks[1][2] = "FileVersionMalformed" /\ checks[2][2] = "FileVersionMalformed"
        /\ checks[3][2] = "OriginalFilenameUnavailable"
    OBVIOUS
  <2> QED BY <2>1, <2>2, <2>3, <2>4
<1>6. CASE ~AllPass(checks) /\ Conclude(FirstFailure(checks))
  <2> DEFINE code == FirstFailure(checks)
  <2> HIDE DEF checks, found, image
  <2>1. \E k \in 1..3 : /\ ~checks[k][1] /\ \A earlier \in 1..(k - 1) : checks[earlier][1]
                        /\ FirstFailure(checks) = checks[k][2]
    BY <1>5, <1>6, FirstFailureFails
  <2>2. code \in {"FileVersionMalformed", "OriginalFilenameUnavailable"}
    BY <1>5, <2>1
  <2>3. code = "OriginalFilenameUnavailable" => found.name = Missing
    <3>1. \A k \in 1..3 : checks[k][2] = "OriginalFilenameUnavailable" => k = 3
      BY <1>5
    <3>2. PICK k \in 1..3 : ~checks[k][1] /\ code = checks[k][2]
      BY <2>1
    <3> HIDE DEF code
    <3>3. code = "OriginalFilenameUnavailable" => ~checks[3][1]
      BY <3>1, <3>2
    <3> QED BY <1>5, <3>3
  <2>4. code = "OriginalFilenameUnavailable" => AuthorsBoth(About[opened]) = {}
    BY <1>1, <1>3, <2>3 DEF IsFound, image
  <2>5. Conclude(code)
    BY <1>6
  <2> HIDE DEF code
  <2> QED BY <2>2, <2>4, <2>5, Concluded
<1>7. CASE /\ AllPass(checks)
           /\ evidence' = [evidence EXCEPT !.code = "Complete", !.fingerprint = fingerprint]
           /\ pc' = "Classify"
           /\ UNCHANGED <<file, request, capacity, opened, verdict>>
  <2>1. found.version # {} /\ found.name # Missing
    <3> HIDE DEF checks, found, image
    <3> QED BY <1>5, <1>7 DEF AllPass
  <2>2. version \in found.version
    <3> HIDE DEF found
    <3> QED BY <2>1
  <2> HIDE DEF version, found, checks
  <2>3. /\ fingerprint.digest = image.digest /\ fingerprint.size = image.size
        /\ fingerprint.machine = image.machine /\ fingerprint.version = version
        /\ fingerprint.name = found.name /\ IsPrint(fingerprint)
    <3>1. fingerprint =
            [digest |-> evidence.fingerprint.digest, size |-> evidence.fingerprint.size,
             version |-> version, machine |-> evidence.fingerprint.machine, name |-> found.name]
      BY NamedPrint DEF IInv, Typed
    <3>2. /\ evidence.fingerprint.digest = image.digest
          /\ evidence.fingerprint.size = image.size
          /\ evidence.fingerprint.machine = image.machine
      BY <1>1 DEF IInv, Stage
    <3> HIDE DEF fingerprint, image
    <3> QED BY <3>1, <3>2 DEF IsPrint
  <2> HIDE DEF fingerprint
  <2>4. evidence' = [code |-> "Complete", path |-> evidence.path, fingerprint |-> fingerprint]
    BY <1>7 DEF IInv, Typed
  <2>5. evidence'.path = request'.length
    BY <1>1, <1>7, <2>4 DEF IInv, Stage
  <2>6. Typed'
    BY <1>7, <2>3, <2>4 DEF IInv, Typed, IsPrint
  <2>7. Stage'
    BY <1>7 DEF Stage, Holding
  <2>8. AdmissionIsEarned'
    BY <1>7 DEF AdmissionIsEarned
  <2>9. About[opened'] = image
    BY <1>1, <1>7
  <2> HIDE DEF image
  <2>10. EvidenceIsOfOneFile'
    <3> DEFINE authored == {ReadVersionString(image, language) : language \in DOMAIN image.strings}
    <3>1. \E one \in authored : version \in ParseFourPartVersion(one.version)
      <4>1. PICK language \in DOMAIN image.strings : found.version = VersionOf(image, language)
        BY <1>3, <2>1 DEF IsAuthored
      <4>2. ReadVersionString(image, language) \in authored
        OBVIOUS
      <4> QED BY <2>2, <4>1, <4>2 DEF VersionOf
    <3>2. \E one \in authored : found.name # Missing /\ found.name = one.name
      <4>1. PICK language \in DOMAIN image.strings : found.name = NameOf(image, language)
        BY <1>3, <2>1 DEF IsAuthored
      <4>2. ReadVersionString(image, language) \in authored
        OBVIOUS
      <4> QED BY <2>1, <4>1, <4>2 DEF NameOf
    <3> HIDE DEF authored
    <3>3. evidence'.code = "Complete" /\ evidence'.fingerprint = fingerprint
      BY <2>4
    <3>4. /\ evidence'.path = request'.length
          /\ <<fingerprint.digest, fingerprint.size, fingerprint.machine>> =
               <<image.digest, image.size, image.machine>>
          /\ \E one \in authored : fingerprint.version \in ParseFourPartVersion(one.version)
          /\ \E one \in authored : fingerprint.name # Missing /\ fingerprint.name = one.name
      BY <2>3, <2>5, <3>1, <3>2
    <3> QED BY <2>9, <3>3, <3>4 DEF EvidenceIsOfOneFile, authored
  <2> QED BY <2>6, <2>7, <2>8, <2>10 DEF IInv
<1> HIDE DEF checks, found
<1> QED BY <1>4, <1>6, <1>7 DEF ReadFileVersion, checks, found, image
LEMMA ClassifyStep ==
  ASSUME IInv, ClassifyWrapperBuild
  PROVE  IInv'
<1> DEFINE print == evidence.fingerprint
           refused == [NoVerdict EXCEPT !.admission = AdmissionOf("RejectedEvidenceUnavailable")]
<1>1. /\ pc = "Classify" /\ pc' = "Idle"
      /\ UNCHANGED <<file, request, capacity, opened, evidence>>
      /\ verdict' = IF evidence.code = "Complete" THEN Classification(print) ELSE refused
  BY DEF ClassifyWrapperBuild
<1>2. Stage'
  BY <1>1 DEF Stage, Holding
<1>3. EvidenceIsOfOneFile'
  BY <1>1 DEF IInv, EvidenceIsOfOneFile
<1> DEFINE agrees == Agrees(print)
           differences(i) == Differences(print, i)
           Earned(given) ==
             /\ given.build = "KnownBuild" <=> evidence.code = "Complete" /\ agrees # {}
             /\ given.build = "KnownBuild" => given.index \in agrees
             /\ given.admission \in {"AdmittedKnownBuild", "AdmittedAuditOnly"} =>
                  given.build = "KnownBuild" \/ request.policy = "AuditOnly"
             /\ given.build = "UnknownBuild" /\ Allowlist # <<>> =>
                  /\ given.mismatches # {} /\ given.mismatches = differences(given.index)
                  /\ \A i \in DOMAIN Allowlist :
                       Cardinality(differences(i)) >= Cardinality(given.mismatches)
<1>4. /\ Earned(verdict')
      /\ verdict'.index \in 0..Len(Allowlist) /\ verdict'.mismatches \subseteq Compared
  <2>1. CASE evidence.code = "Complete"
    <3>1. verdict' = Classification(print)
      BY <1>1, <2>1
    <3> HIDE DEF print
    <3> QED BY <2>1, <3>1, ClassificationIsExact
  <2>2. CASE evidence.code # "Complete"
    <3>1. verdict' = refused
      BY <1>1, <2>2
    <3>2. /\ refused.build = "EvidenceUnavailable"
          /\ refused.admission = AdmissionOf("RejectedEvidenceUnavailable")
          /\ refused.index = NoVerdict.index /\ refused.mismatches = NoVerdict.mismatches
      BY DEF NoVerdict
    <3>3. AdmissionOf("RejectedEvidenceUnavailable") \in
            {"AdmittedKnownBuild", "AdmittedAuditOnly"} => request.policy = "AuditOnly"
      BY DEF AdmissionOf
    <3> HIDE DEF refused
    <3> QED BY <2>2, <3>1, <3>2, <3>3, EmptyIsTyped
  <2> QED BY <2>1, <2>2
<1>5. Typed'
  BY <1>1, <1>4 DEF IInv, Typed, IsPrint
<1>6. AdmissionIsEarned'
  BY <1>1, <1>4 DEF AdmissionIsEarned, Agrees, Differences
<1> QED BY <1>2, <1>3, <1>5, <1>6 DEF IInv

LEMMA NextKeepsInv ==
  ASSUME IInv, [Next]_vars
  PROVE  IInv'
<1>1. ASSUME NEW content \in Content, Replace(content)
      PROVE  IInv'
  <2>1. ~Holding /\ file' = content
        /\ UNCHANGED <<pc, request, capacity, opened, evidence, verdict>>
    BY <1>1 DEF Replace, IsReplaceable
  <2>2. Typed'
    BY <1>1, <2>1 DEF IInv, Typed, IsPrint
  <2>3. Stage'
    BY <2>1 DEF IInv, Stage, Holding
  <2>4. EvidenceIsOfOneFile' /\ AdmissionIsEarned'
    BY <2>1 DEF IInv, EvidenceIsOfOneFile, AdmissionIsEarned
  <2> QED BY <2>2, <2>3, <2>4 DEF IInv
<1>2. ASSUME NEW length \in PathLength, NEW policy \in {"Strict", "AuditOnly"},
             Evaluate(length, policy)
      PROVE  IInv'
  <2>1. /\ request' = [length |-> length, policy |-> policy]
        /\ capacity' = InitialCapacity /\ evidence' = NoEvidence /\ verdict' = NoVerdict
        /\ pc' = "Path" /\ UNCHANGED <<file, opened>>
    BY <1>2 DEF Evaluate
  <2>2. length \in Nat
    BY WrapperAssumption
  <2>3. /\ evidence' = [code |-> "ModulePathUnavailable", path |-> 0,
                        fingerprint |-> NoFingerprint]
        /\ IsPrint(NoFingerprint)
        /\ NoVerdict.index \in 0..Len(Allowlist) /\ NoVerdict.mismatches \subseteq Compared
    BY <2>1, EmptyIsTyped
  <2>4. Typed'
    BY <2>1, <2>2, <2>3, Bounds DEF IInv, Typed, IsPrint
  <2>5. Stage'
    BY <2>1, <2>3 DEF Stage, Holding
  <2>6. (pc \notin {"Classify", "Idle"})'
    BY <2>1
  <2> QED BY <2>4, <2>5, <2>6, UnderWay
<1>3. ASSUME UNCHANGED vars
      PROVE  IInv'
  BY <1>3 DEF vars, IInv, Typed, IsPrint, Stage, Holding, EvidenceIsOfOneFile, AdmissionIsEarned
<1> QED BY <1>1, <1>2, <1>3, PathStep, OpenStep, SizeStep, ArchitectureStep, HashStep,
           VersionSizeStep, VersionStep, ClassifyStep DEF Next

LEMMA InitIsInv == Init => IInv
<1> SUFFICES ASSUME Init
             PROVE  IInv
  OBVIOUS
<1>1. Typed
  BY EmptyIsTyped, Bounds DEF Init, Typed
<1>2. Stage
  BY DEF Init, Stage, Holding
<1>3. EvidenceIsOfOneFile
  BY EmptyIsTyped DEF Init, EvidenceIsOfOneFile
<1>4. AdmissionIsEarned
  BY DEF Init, AdmissionIsEarned
<1> QED BY <1>1, <1>2, <1>3, <1>4 DEF IInv

THEOREM Invariance == Spec => []IInv
BY InitIsInv, NextKeepsInv, PTL DEF Spec

\* Every variable has its type, whatever the files and the lengths of the paths.
THEOREM AdmissionTypeCorrect == Spec => []TypeOK
<1>1. IInv => TypeOK
  <2> SUFFICES ASSUME IInv
               PROVE  TypeOK
    OBVIOUS
  <2>1. IsPrint(evidence.fingerprint)
    BY DEF IInv, Typed
  <2>2. DOMAIN evidence.fingerprint = Compared
    BY <2>1 DEF IsPrint, Compared
  <2> QED BY <2>2 DEF IInv, Typed, Stage, TypeOK
<1> QED BY <1>1, Invariance, PTL

\* Complete evidence is all of the one file that was opened, however often others
\* replace it before and after, for any contents and any number of languages in
\* any order; version evidence is refused only where no declared language authors
\* both strings, and a path only for its length.
THEOREM EvidenceStandsOnOneFile == Spec => []EvidenceIsOfOneFile
<1>1. IInv => EvidenceIsOfOneFile
  BY DEF IInv
<1> QED BY <1>1, Invariance, PTL

\* For any allowlist, a build is known exactly when complete evidence agrees with
\* a record in every field, and an unknown one is told against a nearest record.
THEOREM AdmissionsAreEarned == Spec => []AdmissionIsEarned
<1>1. IInv => AdmissionIsEarned
  BY DEF IInv
<1> QED BY <1>1, Invariance, PTL
=============================================================================
