------------------------- MODULE PatchJournalProofs -------------------------
(***************************************************************************)
(* PatchJournal for every image, every set of transactions and every       *)
(* sequence of refused, lost and unreadable writes: its invariant, and     *)
(* that whole calls are whole transactions.                                *)
(***************************************************************************)
EXTENDS PatchJournal, SequenceTheorems, TLAPS

\* What a write with its read-back can do to the memory, and what a verified
\* one has done: the only facts about Store that the loops need.
LEMMA StoreEffect ==
  ASSUME memory \in [Address -> Value], NEW address \in Address, NEW value \in Value,
         NEW wrote \in BOOLEAN, NEW verified \in BOOLEAN,
         Store(address, value, wrote, verified)
  PROVE  /\ memory' \in [Address -> Value]
         /\ \A other \in Address : other # address => memory'[other] = memory[other]
         /\ memory'[address] \in {memory[address], value}
         /\ verified => wrote /\ memory'[address] = value
         /\ ~wrote => memory' = memory
<1>1. PICK lost \in BOOLEAN, readable \in BOOLEAN :
        /\ memory' = IF wrote /\ ~lost THEN [memory EXCEPT ![address] = value] ELSE memory
        /\ verified = (wrote /\ readable /\ memory'[address] = value)
  BY DEF Store
<1>2. CASE wrote /\ ~lost
  <2>1. memory' = [memory EXCEPT ![address] = value]
    BY <1>1, <1>2
  <2>2. /\ memory' \in [Address -> Value]
        /\ \A other \in Address : other # address => memory'[other] = memory[other]
        /\ memory'[address] = value
    BY <2>1
  <2> QED BY <1>2, <2>2
<1>3. CASE ~(wrote /\ ~lost)
  <2>1. memory' = memory
    BY <1>1, <1>3
  <2>2. verified => wrote /\ memory'[address] = value
    BY <1>1, Zenon
  <2> QED BY <2>1, <2>2
<1> QED BY <1>2, <1>3

\* Preflight: the entries it stages lie in the image, share no address, and
\* have their original values.
LEMMA StagedWellFormed ==
  ASSUME NEW patches \in Requests, patches # <<>>,
         \A i \in DOMAIN patches : Preflighted(patches, i)
  PROVE  /\ WellFormed(Staged(patches))
         /\ DOMAIN Staged(patches) = 1..Len(Staged(patches))
         /\ Len(Staged(patches)) \in Nat \ {0}
         /\ \A i \in DOMAIN Staged(patches) :
              memory[Staged(patches)[i].address] = Staged(patches)[i].original
<1>1. /\ patches \in Seq(PropertyPatch)
      /\ Len(patches) \in Nat /\ DOMAIN patches = 1..Len(patches)
      /\ patches \in [1..Len(patches) -> PropertyPatch]
  BY ImageAssumption, LenProperties
<1>2. Len(patches) # 0
  BY <1>1, EmptySeq
<1>3. \A i \in DOMAIN patches :
        /\ patches[i].identifier \in STRING
        /\ patches[i].address \in Nat /\ patches[i].size \in Nat
        /\ patches[i].expected \in Value /\ patches[i].replacement \in Value
  BY <1>1 DEF PropertyPatch
<1>4. \A i \in DOMAIN patches : patches[i].address \in Address
  BY <1>3, ImageAssumption DEF Preflighted, Inside, Contains, Address
<1>5. Staged(patches) \in [1..Len(patches) -> Entry]
  BY <1>1, <1>3, <1>4 DEF Staged, Entry
<1>6. Staged(patches) \in Seq(Entry)
  BY <1>1, <1>5, SeqDef
<1>7. /\ DOMAIN Staged(patches) = 1..Len(patches)
      /\ Len(Staged(patches)) = Len(patches)
  BY <1>1, <1>5, <1>6, LenProperties
<1>8. ASSUME NEW i \in DOMAIN patches, NEW j \in DOMAIN patches, j < i
      PROVE  patches[i].address # patches[j].address
  <2>1. patches[i].size # 0
    BY DEF Preflighted, Malformed
  <2>2. j \in 1..(i - 1)
    BY <1>8, <1>1
  <2>3. ~RangesOverlap(patches[i].address, patches[i].size,
                       patches[j].address, patches[j].size)
    BY <2>2 DEF Preflighted, Malformed
  <2> QED BY <2>1, <2>3, <1>3 DEF RangesOverlap
<1>9. \A i, j \in DOMAIN Staged(patches) :
        Staged(patches)[i].address = Staged(patches)[j].address => i = j
  BY <1>1, <1>7, <1>8 DEF Staged
<1>10. \A i \in DOMAIN Staged(patches) :
         memory[Staged(patches)[i].address] = Staged(patches)[i].original
  BY <1>1, <1>7 DEF Staged, Preflighted
<1> QED BY <1>1, <1>2, <1>6, <1>7, <1>9, <1>10 DEF WellFormed

LEMMA EmptyWellFormed == WellFormed(<<>>) /\ Len(<<>>) = 0 /\ DOMAIN <<>> = {}
BY DEF WellFormed

\* What WellFormed says, entry by entry.
LEMMA EntryTypes ==
  ASSUME NEW transaction, WellFormed(transaction)
  PROVE  /\ Len(transaction) \in Nat
         /\ DOMAIN transaction = 1..Len(transaction)
         /\ transaction # <<>> => Len(transaction) > 0
         /\ \A i \in DOMAIN transaction :
              /\ transaction[i].address \in Address
              /\ transaction[i].original \in Value
              /\ transaction[i].replacement \in Value
<1>1. /\ transaction \in Seq(Entry)
      /\ Len(transaction) \in Nat /\ DOMAIN transaction = 1..Len(transaction)
      /\ transaction \in [1..Len(transaction) -> Entry]
  BY LenProperties DEF WellFormed
<1>2. transaction # <<>> => Len(transaction) # 0
  BY <1>1, EmptySeq
<1> QED BY <1>1, <1>2 DEF Entry

-----------------------------------------------------------------------------
(* The invariant.                                                          *)

LEMMA InitEstablishesIInv == Init => IInv
<1> SUFFICES ASSUME Init PROVE IInv
  OBVIOUS
<1>1. TypeOK
  BY EmptyWellFormed DEF Init, TypeOK, PatchState, PatchCode
<1> QED
  BY <1>1, EmptyWellFormed DEF Init, IInv, EntriesMatchState, Progress, InCall

\* However a call ends, the journal is idle again.
LEMMA ReturnKeepsIInv ==
  ASSUME memory' \in [Address -> Value],
         state' \in PatchState, EntriesMatchState',
         entries' \in Transactions \cup {<<>>}, WellFormed(entries'),
         NEW result \in PatchCode, Return(result)
  PROVE  IInv'
<1>1. TypeOK'
  BY EmptyWellFormed DEF TypeOK, Return
<1> QED
  BY <1>1, EmptyWellFormed DEF Return, IInv, Progress, InCall

LEMMA RefuseKeepsIInv ==
  ASSUME IInv, NEW result \in PatchCode, Refuse(result) PROVE IInv'
<1>1. /\ memory' \in [Address -> Value] /\ state' \in PatchState
      /\ entries' \in Transactions \cup {<<>>}
  BY DEF IInv, TypeOK, Refuse
<1>2. EntriesMatchState' /\ WellFormed(entries')
  BY DEF IInv, EntriesMatchState, Refuse
<1> QED BY <1>1, <1>2, ReturnKeepsIInv DEF Refuse

\* The write of a loop, at the entry it is at: no other entry and no other
\* address changes, and the entry ends with one of its two values.
LEMMA LoopStore ==
  ASSUME IInv, pc # "Idle", index \in DOMAIN staged,
         NEW value, value = staged[index].original \/ value = staged[index].replacement,
         NEW wrote \in BOOLEAN, NEW verified \in BOOLEAN,
         Store(staged[index].address, value, wrote, verified)
  PROVE  /\ memory' \in [Address -> Value]
         /\ \A i \in DOMAIN staged : i # index =>
              memory'[staged[i].address] = memory[staged[i].address]
         /\ verified => memory'[staged[index].address] = value
         /\ ~wrote => memory' = memory
         /\ \A i \in DOMAIN staged :
              \/ memory'[staged[i].address] = staged[i].original
              \/ memory'[staged[i].address] = staged[i].replacement
         /\ \A a \in Address :
              (\A i \in DOMAIN staged : staged[i].address # a) => memory'[a] = before[a]
<1>1. /\ memory \in [Address -> Value]
      /\ \A i \in DOMAIN staged :
           /\ staged[i].address \in Address
           /\ staged[i].original \in Value /\ staged[i].replacement \in Value
      /\ \A i, j \in DOMAIN staged : staged[i].address = staged[j].address => i = j
  BY EntryTypes DEF IInv, TypeOK, WellFormed
<1>2. value \in Value
  BY <1>1
<1>3. /\ memory' \in [Address -> Value]
      /\ \A other \in Address : other # staged[index].address => memory'[other] = memory[other]
      /\ memory'[staged[index].address] \in {memory[staged[index].address], value}
      /\ verified => memory'[staged[index].address] = value
      /\ ~wrote => memory' = memory
  BY <1>1, <1>2, StoreEffect
<1>4. /\ \A i \in DOMAIN staged :
           \/ memory[staged[i].address] = staged[i].original
           \/ memory[staged[i].address] = staged[i].replacement
      /\ \A a \in Address :
           (\A i \in DOMAIN staged : staged[i].address # a) => memory[a] = before[a]
  BY DEF IInv, InCall, Has
<1>5. \A i \in DOMAIN staged : i # index =>
        memory'[staged[i].address] = memory[staged[i].address]
  BY <1>1, <1>3
<1> QED BY <1>1, <1>3, <1>4, <1>5

\* A loop that goes on, or hands over to the loop that undoes it, stays inside
\* its call.
LEMMA LoopKeepsInCall ==
  ASSUME IInv, pc # "Idle", pc' # "Idle",
         pc \in {"Write", "Compensate"} <=> pc' \in {"Write", "Compensate"},
         UNCHANGED <<state, entries, staged, before>>,
         \A i \in DOMAIN staged :
           \/ memory'[staged[i].address] = staged[i].original
           \/ memory'[staged[i].address] = staged[i].replacement,
         \A a \in Address :
           (\A i \in DOMAIN staged : staged[i].address # a) => memory'[a] = before[a]
  PROVE  InCall'
BY DEF IInv, InCall, Has, Had

\* The types of a call that goes on.
LEMMA LoopKeepsTypeOK ==
  ASSUME IInv, memory' \in [Address -> Value],
         UNCHANGED <<state, entries, staged, before, code>>,
         pc' \in {"Write", "Compensate", "Restore", "Reapply"},
         index' \in 0..Len(staged), lowest' \in 0..(Len(staged) + 1),
         pc' \in {"Write", "Restore"} => index' > 0
  PROVE  TypeOK' /\ EntriesMatchState' /\ WellFormed(entries)' /\ WellFormed(staged)'
<1>1. TypeOK'
  BY DEF IInv, TypeOK
<1>2. EntriesMatchState' /\ WellFormed(entries)' /\ WellFormed(staged)'
  BY DEF IInv, EntriesMatchState, WellFormed
<1> QED BY <1>1, <1>2

\* A call that enters its loop.
LEMMA EnterKeepsIInv ==
  ASSUME IInv, pc = "Idle", UNCHANGED <<state, entries, memory>>,
         NEW transaction, WellFormed(transaction), transaction # <<>>,
         transaction \in Transactions \cup {<<>>},
         \/ /\ state = "Pristine" /\ Enter("Write", transaction, 1)
            /\ \A i \in DOMAIN transaction :
                 memory[transaction[i].address] = transaction[i].original
         \/ /\ state = "Applied" /\ transaction = entries
            /\ Enter("Restore", transaction, Len(transaction))
            /\ \A i \in DOMAIN transaction :
                 memory[transaction[i].address] = transaction[i].replacement
  PROVE  IInv'
<1>1. /\ Len(transaction) \in Nat \ {0} /\ DOMAIN transaction = 1..Len(transaction)
      /\ before = memory
  BY EntryTypes DEF IInv, Progress
<1>2. TypeOK'
  BY <1>1 DEF IInv, TypeOK, Enter
<1>3. EntriesMatchState' /\ WellFormed(entries)' /\ WellFormed(staged)'
  BY DEF IInv, EntriesMatchState, WellFormed, Enter
<1>4. Progress'
  BY <1>1 DEF Progress, Has, Enter
<1>5. InCall'
  BY <1>1 DEF InCall, Has, Had, Enter
<1> QED BY <1>2, <1>3, <1>4, <1>5 DEF IInv

LEMMA ApplyKeepsIInv ==
  ASSUME IInv, NEW gates \in Gates, NEW patches \in Requests, Apply(gates, patches)
  PROVE  IInv'
<1>1. CASE GateRefusal(gates) # "None" /\ Refuse(GateRefusal(gates))
  <2>1. GateRefusal(gates) \in PatchCode
    BY <1>1 DEF GateRefusal, PatchCode
  <2> QED BY <1>1, <2>1, RefuseKeepsIInv
<1>2. CASE ApplyAgain(patches)
  BY <1>2, RefuseKeepsIInv DEF ApplyAgain, PatchCode
<1>3. CASE ApplyFresh(patches)
  <2>1. CASE patches = <<>> /\ Refuse("InvalidPatch")
    BY <2>1, RefuseKeepsIInv DEF PatchCode
  <2>2. ASSUME NEW i \in DOMAIN patches, NEW reason \in PreflightRefusal(patches, i),
               Refuse(reason)
        PROVE  IInv'
    <3>1. reason \in PatchCode
      BY <2>2 DEF PreflightRefusal, PatchCode
    <3> QED BY <2>2, <3>1, RefuseKeepsIInv
  <2>3. ASSUME patches # <<>>, \A i \in DOMAIN patches : Preflighted(patches, i),
               Enter("Write", Staged(patches), 1), UNCHANGED <<state, entries, memory>>
        PROVE  IInv'
    <3>1. /\ WellFormed(Staged(patches)) /\ Staged(patches) # <<>>
          /\ \A i \in DOMAIN Staged(patches) :
               memory[Staged(patches)[i].address] = Staged(patches)[i].original
      BY <2>3, StagedWellFormed, EmptyWellFormed
    <3>2. Staged(patches) \in Transactions
      BY DEF Transactions
    <3>3. pc = "Idle" /\ state = "Pristine"
      BY <1>3 DEF Apply, ApplyFresh
    <3> QED BY <2>3, <3>1, <3>2, <3>3, EnterKeepsIInv
  <2> QED BY <1>3, <2>1, <2>2, <2>3 DEF ApplyFresh
<1> QED BY <1>1, <1>2, <1>3 DEF Apply

LEMMA RollbackKeepsIInv == ASSUME IInv, Rollback PROVE IInv'
<1>1. ASSUME NEW result \in {"AlreadyPristine", "RollbackFailedRecoveryRequired",
                             "RollbackBaselineMismatch"}, Refuse(result)
      PROVE  IInv'
  BY <1>1, RefuseKeepsIInv DEF PatchCode
<1>2. ASSUME pc = "Idle", state = "Applied", entries # <<>>, InPlace,
             Enter("Restore", entries, Len(entries)), UNCHANGED <<state, entries, memory>>
      PROVE  IInv'
  <2>1. WellFormed(entries) /\ entries \in Transactions \cup {<<>>}
    BY DEF IInv, TypeOK
  <2> QED BY <1>2, <2>1, EnterKeepsIInv DEF InPlace
<1> QED BY <1>1, <1>2 DEF Rollback

\* In a loop the entry at hand exists, and the transaction is a listed one.
LEMMA InLoop ==
  ASSUME IInv, pc # "Idle"
  PROVE  /\ staged # <<>> /\ staged \in Transactions \cup {<<>>} /\ WellFormed(staged)
         /\ Len(staged) \in Nat \ {0} /\ DOMAIN staged = 1..Len(staged)
         /\ index \in 0..Len(staged) /\ lowest \in 0..(Len(staged) + 1)
         /\ index > 0 => index \in DOMAIN staged
<1>1. /\ staged # <<>> /\ staged \in Transactions \cup {<<>>} /\ WellFormed(staged)
      /\ index \in 0..Len(staged) /\ lowest \in 0..(Len(staged) + 1)
  BY DEF IInv, TypeOK, InCall
<1>2. Len(staged) \in Nat \ {0} /\ DOMAIN staged = 1..Len(staged)
  BY <1>1, EntryTypes
<1> QED BY <1>1, <1>2

\* A call that ends with the staged entries kept.
LEMMA KeepEntriesKeepsIInv ==
  ASSUME IInv, pc # "Idle", memory' \in [Address -> Value],
         NEW outcome \in {"Applied", "RecoveryRequired"}, KeepEntries(outcome),
         NEW result \in PatchCode, Return(result)
  PROVE  IInv'
<1>1. /\ state' \in PatchState /\ EntriesMatchState'
      /\ entries' \in Transactions \cup {<<>>} /\ WellFormed(entries')
  BY InLoop DEF KeepEntries, PatchState, EntriesMatchState
<1> QED BY <1>1, ReturnKeepsIInv

LEMMA WriteEntryKeepsIInv == ASSUME IInv, WriteEntry PROVE IInv'
<1>1. PICK wrote \in BOOLEAN, verified \in BOOLEAN :
        /\ Store(staged[index].address, staged[index].replacement, wrote, verified)
        /\ \/ /\ verified
              /\ index < Len(staged)
              /\ index' = index + 1
              /\ UNCHANGED <<state, entries, pc, staged, lowest, before, code>>
           \/ /\ verified
              /\ index = Len(staged)
              /\ KeepEntries("Applied")
              /\ Return("Applied")
           \/ /\ ~verified
              /\ Enter("Compensate", staged, CompensateFrom(wrote))
              /\ UNCHANGED <<state, entries>>
  BY DEF WriteEntry
<1>2. /\ pc = "Write" /\ index \in DOMAIN staged /\ index \in 1..Len(staged)
      /\ Len(staged) \in Nat \ {0} /\ DOMAIN staged = 1..Len(staged)
      /\ lowest \in 0..(Len(staged) + 1)
      /\ \A i \in DOMAIN staged : i < index => Has(i, "replacement")
      /\ \A i \in DOMAIN staged : i >= index => Has(i, "original")
  BY InLoop DEF WriteEntry, IInv, TypeOK, Progress
<1>3. /\ memory' \in [Address -> Value]
      /\ \A i \in DOMAIN staged : i # index =>
           memory'[staged[i].address] = memory[staged[i].address]
      /\ verified => memory'[staged[index].address] = staged[index].replacement
      /\ ~wrote => memory' = memory
      /\ \A i \in DOMAIN staged :
           \/ memory'[staged[i].address] = staged[i].original
           \/ memory'[staged[i].address] = staged[i].replacement
      /\ \A a \in Address :
           (\A i \in DOMAIN staged : staged[i].address # a) => memory'[a] = before[a]
  BY <1>1, <1>2, LoopStore
<1>4. CASE /\ verified
           /\ index < Len(staged)
           /\ index' = index + 1
           /\ UNCHANGED <<state, entries, pc, staged, lowest, before, code>>
  <2>1. TypeOK' /\ EntriesMatchState' /\ WellFormed(entries)' /\ WellFormed(staged)'
    BY <1>2, <1>3, <1>4, LoopKeepsTypeOK
  <2>2. InCall'
    BY <1>2, <1>3, <1>4, LoopKeepsInCall
  <2>3. Progress'
    BY <1>2, <1>3, <1>4 DEF Progress, Has
  <2> QED BY <2>1, <2>2, <2>3 DEF IInv
<1>5. CASE verified /\ KeepEntries("Applied") /\ Return("Applied")
  BY <1>2, <1>3, <1>5, KeepEntriesKeepsIInv DEF PatchCode
<1>6. CASE /\ ~verified
           /\ Enter("Compensate", staged, CompensateFrom(wrote))
           /\ UNCHANGED <<state, entries>>
  <2>1. /\ pc' = "Compensate" /\ UNCHANGED <<staged, before, code>>
        /\ index' = (IF wrote THEN index ELSE index - 1) /\ lowest' = index'
    BY <1>6 DEF Enter, CompensateFrom
  <2>2. TypeOK' /\ EntriesMatchState' /\ WellFormed(entries)' /\ WellFormed(staged)'
    BY <1>2, <1>3, <1>6, <2>1, LoopKeepsTypeOK
  <2>3. InCall'
    BY <1>2, <1>3, <1>6, <2>1, LoopKeepsInCall
  <2>4. Progress'
    BY <1>2, <1>3, <2>1 DEF Progress, Has
  <2> QED BY <2>2, <2>3, <2>4 DEF IInv
<1> QED BY <1>1, <1>4, <1>5, <1>6

LEMMA CompensateKeepsIInv == ASSUME IInv, Compensate PROVE IInv'
<1>1. /\ pc = "Compensate"
      /\ Len(staged) \in Nat \ {0} /\ DOMAIN staged = 1..Len(staged)
      /\ index \in 0..Len(staged) /\ lowest \in 0..(Len(staged) + 1)
      /\ \A i \in DOMAIN staged : i > index => Has(i, "original")
  BY InLoop DEF Compensate, IInv, Progress
<1>2. CASE UNCHANGED <<state, entries, memory>> /\ Return("ApplyFailedRolledBack")
  <2>1. /\ memory' \in [Address -> Value] /\ state' \in PatchState /\ EntriesMatchState'
        /\ entries' \in Transactions \cup {<<>>} /\ WellFormed(entries')
    BY <1>2 DEF IInv, TypeOK, EntriesMatchState
  <2> QED BY <1>2, <2>1, ReturnKeepsIInv DEF PatchCode
<1>3. ASSUME index > 0, NEW wrote \in BOOLEAN, NEW verified \in BOOLEAN,
             Store(staged[index].address, staged[index].original, wrote, verified),
             \/ /\ verified
                /\ index' = index - 1
                /\ UNCHANGED <<state, entries, pc, staged, lowest, before, code>>
             \/ /\ ~verified
                /\ KeepEntries("RecoveryRequired")
                /\ Return("ApplyFailedRecoveryRequired")
      PROVE  IInv'
  <2>i. index \in DOMAIN staged
    BY <1>1, <1>3
  <2>1. /\ memory' \in [Address -> Value]
        /\ \A i \in DOMAIN staged : i # index =>
             memory'[staged[i].address] = memory[staged[i].address]
        /\ verified => memory'[staged[index].address] = staged[index].original
        /\ \A i \in DOMAIN staged :
             \/ memory'[staged[i].address] = staged[i].original
             \/ memory'[staged[i].address] = staged[i].replacement
        /\ \A a \in Address :
             (\A i \in DOMAIN staged : staged[i].address # a) => memory'[a] = before[a]
    BY <1>1, <1>3, <2>i, LoopStore
  <2>2. CASE /\ verified
             /\ index' = index - 1
             /\ UNCHANGED <<state, entries, pc, staged, lowest, before, code>>
    <3>1. TypeOK' /\ EntriesMatchState' /\ WellFormed(entries)' /\ WellFormed(staged)'
      BY <1>1, <1>3, <2>1, <2>2, LoopKeepsTypeOK
    <3>2. InCall'
      BY <1>1, <2>1, <2>2, LoopKeepsInCall
    <3>3. Progress'
      BY <1>1, <1>3, <2>1, <2>2 DEF Progress, Has
    <3> QED BY <3>1, <3>2, <3>3 DEF IInv
  <2>3. CASE KeepEntries("RecoveryRequired") /\ Return("ApplyFailedRecoveryRequired")
    BY <1>1, <2>1, <2>3, KeepEntriesKeepsIInv DEF PatchCode
  <2> QED BY <1>3, <2>2, <2>3
<1> QED BY <1>2, <1>3 DEF Compensate

LEMMA RestoreEntryKeepsIInv == ASSUME IInv, RestoreEntry PROVE IInv'
<1>1. PICK wrote \in BOOLEAN, verified \in BOOLEAN :
        /\ Store(staged[index].address, staged[index].original, wrote, verified)
        /\ \/ /\ verified
              /\ index > 1
              /\ index' = index - 1
              /\ UNCHANGED <<state, entries, pc, staged, lowest, before, code>>
           \/ /\ verified
              /\ index = 1
              /\ state' = "Pristine"
              /\ entries' = <<>>
              /\ Return("RolledBack")
           \/ /\ ~verified
              /\ pc' = "Reapply"
              /\ index' = Len(staged)
              /\ lowest' = IF wrote THEN index ELSE index + 1
              /\ UNCHANGED <<state, entries, staged, before, code>>
  BY DEF RestoreEntry
<1>2. /\ pc = "Restore" /\ index \in DOMAIN staged /\ index \in 1..Len(staged)
      /\ Len(staged) \in Nat \ {0} /\ DOMAIN staged = 1..Len(staged)
      /\ lowest \in 0..(Len(staged) + 1)
      /\ \A i \in DOMAIN staged : i > index => Has(i, "original")
      /\ \A i \in DOMAIN staged : i <= index => Has(i, "replacement")
  BY InLoop DEF RestoreEntry, IInv, TypeOK, Progress
<1>3. /\ memory' \in [Address -> Value]
      /\ \A i \in DOMAIN staged : i # index =>
           memory'[staged[i].address] = memory[staged[i].address]
      /\ verified => memory'[staged[index].address] = staged[index].original
      /\ ~wrote => memory' = memory
      /\ \A i \in DOMAIN staged :
           \/ memory'[staged[i].address] = staged[i].original
           \/ memory'[staged[i].address] = staged[i].replacement
      /\ \A a \in Address :
           (\A i \in DOMAIN staged : staged[i].address # a) => memory'[a] = before[a]
  BY <1>1, <1>2, LoopStore
<1>4. CASE /\ verified
           /\ index > 1
           /\ index' = index - 1
           /\ UNCHANGED <<state, entries, pc, staged, lowest, before, code>>
  <2>1. TypeOK' /\ EntriesMatchState' /\ WellFormed(entries)' /\ WellFormed(staged)'
    BY <1>2, <1>3, <1>4, LoopKeepsTypeOK
  <2>2. InCall'
    BY <1>2, <1>3, <1>4, LoopKeepsInCall
  <2>3. Progress'
    BY <1>2, <1>3, <1>4 DEF Progress, Has
  <2> QED BY <2>1, <2>2, <2>3 DEF IInv
<1>5. CASE state' = "Pristine" /\ entries' = <<>> /\ Return("RolledBack")
  <2>1. state' \in PatchState /\ EntriesMatchState' /\ WellFormed(entries')
    BY <1>5, EmptyWellFormed DEF PatchState, EntriesMatchState
  <2> QED BY <1>3, <1>5, <2>1, ReturnKeepsIInv DEF PatchCode
<1>6. CASE /\ ~verified
           /\ pc' = "Reapply"
           /\ index' = Len(staged)
           /\ lowest' = IF wrote THEN index ELSE index + 1
           /\ UNCHANGED <<state, entries, staged, before, code>>
  <2>1. TypeOK' /\ EntriesMatchState' /\ WellFormed(entries)' /\ WellFormed(staged)'
    BY <1>2, <1>3, <1>6, LoopKeepsTypeOK
  <2>2. InCall'
    BY <1>2, <1>3, <1>6, LoopKeepsInCall
  <2>3. Progress'
    BY <1>2, <1>3, <1>6 DEF Progress, Has
  <2> QED BY <2>1, <2>2, <2>3 DEF IInv
<1> QED BY <1>1, <1>4, <1>5, <1>6

LEMMA ReapplyKeepsIInv == ASSUME IInv, Reapply PROVE IInv'
<1>1. /\ pc = "Reapply" /\ state = "Applied" /\ entries # <<>>
      /\ Len(staged) \in Nat \ {0} /\ DOMAIN staged = 1..Len(staged)
      /\ index \in 0..Len(staged) /\ lowest \in 1..(Len(staged) + 1)
      /\ \A i \in DOMAIN staged : i > index \/ i < lowest => Has(i, "replacement")
  BY InLoop DEF Reapply, IInv, Progress, InCall
<1>2. CASE /\ state' = "Applied" /\ UNCHANGED <<entries, memory>>
           /\ Return("RollbackFailedStillApplied")
  <2>1. /\ memory' \in [Address -> Value] /\ state' \in PatchState /\ EntriesMatchState'
        /\ entries' \in Transactions \cup {<<>>} /\ WellFormed(entries')
    BY <1>1, <1>2 DEF IInv, TypeOK, EntriesMatchState, PatchState
  <2> QED BY <1>2, <2>1, ReturnKeepsIInv DEF PatchCode
<1>3. ASSUME index >= lowest, NEW wrote \in BOOLEAN, NEW verified \in BOOLEAN,
             Store(staged[index].address, staged[index].replacement, wrote, verified),
             \/ /\ verified
                /\ index' = index - 1
                /\ UNCHANGED <<state, entries, pc, staged, lowest, before, code>>
             \/ /\ ~verified
                /\ state' = "RecoveryRequired"
                /\ Return("RollbackFailedRecoveryRequired")
                /\ UNCHANGED entries
      PROVE  IInv'
  <2>i. index \in DOMAIN staged
    BY <1>1, <1>3
  <2>1. /\ memory' \in [Address -> Value]
        /\ \A i \in DOMAIN staged : i # index =>
             memory'[staged[i].address] = memory[staged[i].address]
        /\ verified => memory'[staged[index].address] = staged[index].replacement
        /\ \A i \in DOMAIN staged :
             \/ memory'[staged[i].address] = staged[i].original
             \/ memory'[staged[i].address] = staged[i].replacement
        /\ \A a \in Address :
             (\A i \in DOMAIN staged : staged[i].address # a) => memory'[a] = before[a]
    BY <1>1, <1>3, <2>i, LoopStore
  <2>2. CASE /\ verified
             /\ index' = index - 1
             /\ UNCHANGED <<state, entries, pc, staged, lowest, before, code>>
    <3>1. TypeOK' /\ EntriesMatchState' /\ WellFormed(entries)' /\ WellFormed(staged)'
      BY <1>1, <1>3, <2>1, <2>2, LoopKeepsTypeOK
    <3>2. InCall'
      BY <1>1, <2>1, <2>2, LoopKeepsInCall
    <3>3. Progress'
      BY <1>1, <1>3, <2>1, <2>2 DEF Progress, Has
    <3> QED BY <3>1, <3>2, <3>3 DEF IInv
  <2>3. CASE /\ state' = "RecoveryRequired" /\ UNCHANGED entries
             /\ Return("RollbackFailedRecoveryRequired")
    <3>1. /\ state' \in PatchState /\ EntriesMatchState'
          /\ entries' \in Transactions \cup {<<>>} /\ WellFormed(entries')
      BY <1>1, <2>3 DEF IInv, TypeOK, EntriesMatchState, PatchState
    <3> QED BY <2>1, <2>3, <3>1, ReturnKeepsIInv DEF PatchCode
  <2> QED BY <1>3, <2>2, <2>3
<1> QED BY <1>2, <1>3 DEF Reapply

LEMMA GameWriteKeepsIInv == ASSUME IInv, GameWrite PROVE IInv'
<1>1. memory' \in [Address -> Value] /\ before' = memory' /\ pc = "Idle"
  BY DEF GameWrite, IInv, TypeOK
<1>2. TypeOK'
  BY <1>1 DEF GameWrite, IInv, TypeOK
<1>3. EntriesMatchState' /\ WellFormed(entries)' /\ WellFormed(staged)'
  BY DEF GameWrite, IInv, EntriesMatchState, WellFormed
<1>4. Progress' /\ InCall'
  BY <1>1 DEF GameWrite, IInv, Progress, InCall
<1> QED BY <1>2, <1>3, <1>4 DEF IInv

LEMMA NextKeepsIInv == IInv /\ [Next]_vars => IInv'
<1> SUFFICES ASSUME IInv, [Next]_vars PROVE IInv'
  OBVIOUS
<1>1. CASE Next
  BY <1>1, ApplyKeepsIInv, WriteEntryKeepsIInv, CompensateKeepsIInv, RollbackKeepsIInv,
     RestoreEntryKeepsIInv, ReapplyKeepsIInv, GameWriteKeepsIInv DEF Next
<1>2. CASE UNCHANGED vars
  BY <1>2 DEF vars, call, IInv, TypeOK, EntriesMatchState, WellFormed, Progress,
              InCall, Has, Had
<1> QED BY <1>1, <1>2

THEOREM JournalInvariant == Spec => []IInv
<1> QED BY InitEstablishesIInv, NextKeepsIInv, PTL DEF Spec

\* PatchJournal's members and the bounds of its loops are in range, for every
\* image, set of transactions and outcome of the writes.
THEOREM JournalTypeCorrect == Spec => []TypeOK
<1>1. IInv => TypeOK
  BY DEF IInv
<1> QED BY <1>1, JournalInvariant, PTL

\* The journal has entries exactly when it has something to undo or recover.
THEOREM JournalEntriesMatchState == Spec => []EntriesMatchState
<1>1. IInv => EntriesMatchState
  BY DEF IInv
<1> QED BY <1>1, JournalInvariant, PTL

-----------------------------------------------------------------------------
(* No foreign value is overwritten.                                        *)

\* A store of one of the two values of the entry at hand.
LEMMA LoopStoreIsOwn ==
  ASSUME IInv, pc # "Idle", index \in DOMAIN staged,
         NEW value, value = staged[index].original \/ value = staged[index].replacement,
         NEW wrote \in BOOLEAN, NEW verified \in BOOLEAN,
         Store(staged[index].address, value, wrote, verified),
         NEW address \in Address, memory'[address] # memory[address]
  PROVE  \E i \in DOMAIN staged :
           /\ staged[i].address = address
           /\ {memory[address], memory'[address]} =
                {staged[i].original, staged[i].replacement}
<1>1. /\ memory \in [Address -> Value]
      /\ staged[index].address \in Address /\ value \in Value
      /\ \/ memory[staged[index].address] = staged[index].original
         \/ memory[staged[index].address] = staged[index].replacement
  BY EntryTypes DEF IInv, TypeOK, InCall, Has
<1>2. /\ \A other \in Address : other # staged[index].address => memory'[other] = memory[other]
      /\ memory'[staged[index].address] \in {memory[staged[index].address], value}
  BY <1>1, StoreEffect
<1>3. staged[index].address = address /\ memory'[address] = value
  BY <1>2
<1> QED BY <1>1, <1>3

\* The journal overwrites a byte only to turn one value of an entry of its call
\* into the other: what the game has put elsewhere or instead survives.
THEOREM JournalKeepsForeignValues == Spec => KeepsForeignValues
<1> DEFINE Own(address) ==
      \E i \in DOMAIN staged :
        /\ staged[i].address = address
        /\ {memory[address], memory'[address]} =
             {staged[i].original, staged[i].replacement}
<1>1. ASSUME IInv, Next, pc # "Idle", NEW address \in Address,
             memory'[address] # memory[address]
      PROVE  Own(address)
  <2>1. WriteEntry \/ Compensate \/ RestoreEntry \/ Reapply
    BY <1>1 DEF Next, Apply, Rollback, GameWrite
  <2>2. CASE WriteEntry
    <3>1. index \in DOMAIN staged
      BY <1>1, <2>2, InLoop DEF WriteEntry, IInv, TypeOK
    <3> QED BY <1>1, <2>2, <3>1, LoopStoreIsOwn DEF WriteEntry
  <2>3. CASE Compensate
    <3>1. index > 0 => index \in DOMAIN staged
      BY <1>1, InLoop
    <3> QED BY <1>1, <2>3, <3>1, LoopStoreIsOwn DEF Compensate
  <2>4. CASE RestoreEntry
    <3>1. index \in DOMAIN staged
      BY <1>1, <2>4, InLoop DEF RestoreEntry, IInv, TypeOK
    <3> QED BY <1>1, <2>4, <3>1, LoopStoreIsOwn DEF RestoreEntry
  <2>5. CASE Reapply
    <3>1. pc = "Reapply"
      BY <2>5 DEF Reapply
    <3>2. lowest > 0
      BY <1>1, <3>1 DEF IInv, Progress
    <3>3. index >= lowest => index \in DOMAIN staged
      BY <1>1, <3>2, InLoop
    <3> QED BY <1>1, <2>5, <3>3, LoopStoreIsOwn DEF Reapply
  <2> QED BY <2>1, <2>2, <2>3, <2>4, <2>5
<1>2. IInv /\ [Next]_vars =>
        [\A address \in Address :
           pc # "Idle" /\ memory'[address] # memory[address] => Own(address)]_vars
  BY <1>1
<1> QED BY <1>2, JournalInvariant, PTL DEF Spec, KeepsForeignValues

-----------------------------------------------------------------------------
(* Whole calls are whole transactions.                                     *)

\* The memory as a caller sees it: a call in progress has not happened yet.
Image == IF pc = "Idle" THEN memory ELSE before

\* The abstract image in which a transaction has its values, address by address.
LEMMA HoldingValues ==
  ASSUME NEW transaction, WellFormed(transaction)
  PROVE  /\ Promise!Holding(transaction, "original") =
              [a \in Address |-> Promise!Holding(transaction, "original")[a]]
         /\ Promise!Holding(transaction, "replacement") =
              [a \in Address |-> Promise!Holding(transaction, "replacement")[a]]
         /\ \A i \in DOMAIN transaction :
              /\ Promise!Holding(transaction, "original")[transaction[i].address] =
                   transaction[i].original
              /\ Promise!Holding(transaction, "replacement")[transaction[i].address] =
                   transaction[i].replacement
         /\ \A a \in Address :
              (\A i \in DOMAIN transaction : transaction[i].address # a) =>
                /\ Promise!Holding(transaction, "original")[a] = Image[a]
                /\ Promise!Holding(transaction, "replacement")[a] = Image[a]
<1>1. /\ \A i \in DOMAIN transaction : transaction[i].address \in Address
      /\ \A i, j \in DOMAIN transaction :
           transaction[i].address = transaction[j].address => i = j
  BY EntryTypes DEF WellFormed
<1>2. ASSUME NEW i \in DOMAIN transaction
      PROVE  (CHOOSE j \in DOMAIN transaction :
                transaction[j].address = transaction[i].address) = i
  BY <1>1
<1>3. \A i \in DOMAIN transaction :
        /\ Promise!Holding(transaction, "original")[transaction[i].address] =
             transaction[i].original
        /\ Promise!Holding(transaction, "replacement")[transaction[i].address] =
             transaction[i].replacement
  BY <1>1, <1>2 DEF Promise!Holding, Promise!Touches
<1>4. \A a \in Address :
        (\A i \in DOMAIN transaction : transaction[i].address # a) =>
          /\ Promise!Holding(transaction, "original")[a] = Image[a]
          /\ Promise!Holding(transaction, "replacement")[a] = Image[a]
  BY DEF Promise!Holding, Promise!Touches, Image
<1> QED BY <1>3, <1>4 DEF Promise!Holding

LEMMA InitKeepsPromise == Init => Promise!Init
BY DEF Init, Promise!Init
\* A function on the addresses that has a transaction's values where it has
\* entries, and the image's elsewhere, is what Holding says.
LEMMA HoldingIsUnique ==
  ASSUME IInv, pc # "Idle", NEW image \in [Address -> Value],
         \A a \in Address : (\A i \in DOMAIN staged : staged[i].address # a) => image[a] = before[a]
  PROVE  /\ (\A i \in DOMAIN staged : image[staged[i].address] = staged[i].original)
              => image = Promise!Holding(staged, "original")
         /\ (\A i \in DOMAIN staged : image[staged[i].address] = staged[i].replacement)
              => image = Promise!Holding(staged, "replacement")
<1>1. WellFormed(staged) /\ Image = before
  BY InLoop DEF Image
<1>2. ASSUME \A i \in DOMAIN staged : image[staged[i].address] = staged[i].original
      PROVE  image = Promise!Holding(staged, "original")
  <2>1. \A a \in Address : image[a] = Promise!Holding(staged, "original")[a]
    BY <1>1, <1>2, HoldingValues
  <2> QED BY <1>1, <2>1, HoldingValues
<1>3. ASSUME \A i \in DOMAIN staged : image[staged[i].address] = staged[i].replacement
      PROVE  image = Promise!Holding(staged, "replacement")
  <2>1. \A a \in Address : image[a] = Promise!Holding(staged, "replacement")[a]
    BY <1>1, <1>3, HoldingValues
  <2> QED BY <1>1, <2>1, HoldingValues
<1> QED BY <1>2, <1>3

\* What the caller saw before the call in progress.
LEMMA ImageBeforeCall ==
  ASSUME IInv, pc # "Idle"
  PROVE  /\ Image = before /\ before \in [Address -> Value]
         /\ pc \in {"Write", "Compensate"} =>
              state = "Pristine" /\ Image = Promise!Holding(staged, "original")
         /\ pc \in {"Restore", "Reapply"} =>
              /\ state = "Applied" /\ entries = staged
              /\ Image = Promise!Holding(staged, "replacement")
<1>1. Image = before /\ before \in [Address -> Value]
  BY DEF Image, IInv, TypeOK
<1>2. CASE pc \in {"Write", "Compensate"}
  BY <1>1, <1>2, HoldingIsUnique DEF IInv, InCall, Had
<1>3. CASE pc \in {"Restore", "Reapply"}
  BY <1>1, <1>3, HoldingIsUnique DEF IInv, InCall, Had
<1> QED BY <1>1, <1>2, <1>3

\* A call that returns with its transaction half done is the abstract Wedge.
LEMMA WedgeKeepsPromise ==
  ASSUME IInv, pc # "Idle", pc' = "Idle", memory' \in [Address -> Value],
         state' = "RecoveryRequired", entries' = staged, UNCHANGED gameWrites,
         \A i \in DOMAIN staged :
           \/ memory'[staged[i].address] = staged[i].original
           \/ memory'[staged[i].address] = staged[i].replacement,
         \A a \in Address :
           (\A i \in DOMAIN staged : staged[i].address # a) => memory'[a] = before[a]
  PROVE  Promise!Next
<1>1. /\ staged \in Transactions \cup {<<>>} /\ staged # <<>> /\ WellFormed(staged)
      /\ pc \in {"Write", "Compensate", "Restore", "Reapply"}
  BY InLoop DEF IInv, TypeOK
<1>2. \A a \in Address : memory'[a] \in {Promise!Holding(staged, "original")[a],
                                       Promise!Holding(staged, "replacement")[a]}
  <2> SUFFICES ASSUME NEW a \in Address
               PROVE  memory'[a] \in {Promise!Holding(staged, "original")[a],
                                      Promise!Holding(staged, "replacement")[a]}
    OBVIOUS
  <2>1. CASE \A i \in DOMAIN staged : staged[i].address # a
    BY <1>1, <2>1, HoldingValues, ImageBeforeCall
  <2>2. ASSUME NEW i \in DOMAIN staged, staged[i].address = a
        PROVE  memory'[a] \in {Promise!Holding(staged, "original")[a],
                               Promise!Holding(staged, "replacement")[a]}
    BY <1>1, <2>2, HoldingValues
  <2> QED BY <2>1, <2>2
<1>3. Promise!Wedge(staged)
  BY <1>1, <1>2, ImageBeforeCall DEF Promise!Wedge, Image
<1> QED BY <1>1, <1>3 DEF Promise!Next

\* A call that goes on, or returns the memory it began with, is a stutter.
LEMMA StutterKeepsPromise ==
  ASSUME UNCHANGED <<state, entries, gameWrites>>, Image' = Image
  PROVE  UNCHANGED Promise!vars
BY DEF Promise!vars, Image

LEMMA RefuseIsStutter ==
  ASSUME IInv, NEW result, Refuse(result), UNCHANGED gameWrites
  PROVE  UNCHANGED Promise!vars
<1>1. Image' = Image
  BY DEF Refuse, Return, Image
<1> QED BY <1>1, StutterKeepsPromise DEF Refuse

LEMMA EnterIsStutter ==
  ASSUME IInv, pc = "Idle", NEW loop \in {"Write", "Restore"}, NEW about, NEW first,
         Enter(loop, about, first), UNCHANGED <<state, entries, memory, gameWrites>>
  PROVE  UNCHANGED Promise!vars
<1>1. Image' = Image
  BY DEF Enter, Image, IInv, Progress
<1> QED BY <1>1, StutterKeepsPromise

LEMMA WriteEntryKeepsPromise ==
  ASSUME IInv, WriteEntry PROVE Promise!Next \/ UNCHANGED Promise!vars
<1>1. PICK wrote \in BOOLEAN, verified \in BOOLEAN :
        /\ Store(staged[index].address, staged[index].replacement, wrote, verified)
        /\ \/ pc' = pc /\ UNCHANGED <<state, entries, before>>
           \/ /\ verified
              /\ index = Len(staged)
              /\ KeepEntries("Applied")
              /\ Return("Applied")
           \/ pc' = "Compensate" /\ UNCHANGED <<state, entries, before>>
  BY DEF WriteEntry, Enter
<1>2. /\ pc = "Write" /\ index \in DOMAIN staged /\ UNCHANGED gameWrites
      /\ Len(staged) \in Nat \ {0} /\ DOMAIN staged = 1..Len(staged)
      /\ \A i \in DOMAIN staged : i < index => Has(i, "replacement")
  BY InLoop DEF WriteEntry, IInv, TypeOK, Progress
<1>3. CASE pc' # "Idle" /\ UNCHANGED <<state, entries, before>>
  <2>1. Image' = Image
    BY <1>2, <1>3 DEF Image
  <2> QED BY <1>2, <1>3, <2>1, StutterKeepsPromise
<1>4. CASE verified /\ index = Len(staged) /\ KeepEntries("Applied") /\ Return("Applied")
  <2>1. /\ memory' \in [Address -> Value]
        /\ \A i \in DOMAIN staged : i # index =>
             memory'[staged[i].address] = memory[staged[i].address]
        /\ memory'[staged[index].address] = staged[index].replacement
        /\ \A a \in Address :
             (\A i \in DOMAIN staged : staged[i].address # a) => memory'[a] = before[a]
    BY <1>1, <1>2, <1>4, LoopStore
  <2>2. \A i \in DOMAIN staged : memory'[staged[i].address] = staged[i].replacement
    BY <1>2, <1>4, <2>1 DEF Has
  <2>3. memory' = Promise!Holding(staged, "replacement")
    BY <1>2, <2>1, <2>2, HoldingIsUnique
  <2>4. staged \in Transactions
    BY <1>2, InLoop
  <2>5. Promise!Commit(staged)
    BY <1>2, <1>4, <2>3, ImageBeforeCall DEF Promise!Commit, Image, Return, KeepEntries
  <2> QED BY <2>4, <2>5 DEF Promise!Next
<1> QED BY <1>1, <1>2, <1>3, <1>4

LEMMA CompensateKeepsPromise ==
  ASSUME IInv, Compensate PROVE Promise!Next \/ UNCHANGED Promise!vars
<1>1. /\ pc = "Compensate" /\ UNCHANGED gameWrites
      /\ Len(staged) \in Nat \ {0} /\ DOMAIN staged = 1..Len(staged)
      /\ index > 0 => index \in DOMAIN staged
      /\ \A i \in DOMAIN staged : i > index => Has(i, "original")
  BY InLoop DEF Compensate, IInv, Progress
<1>2. CASE index = 0 /\ UNCHANGED <<state, entries, memory>> /\ Return("ApplyFailedRolledBack")
  <2>1. memory = before
    <3>1. \A i \in DOMAIN staged : memory[staged[i].address] = staged[i].original
      BY <1>1, <1>2 DEF Has
    <3>2. /\ memory \in [Address -> Value]
          /\ \A a \in Address :
               (\A i \in DOMAIN staged : staged[i].address # a) => memory[a] = before[a]
      BY <1>1 DEF IInv, TypeOK, InCall
    <3> QED BY <1>1, <3>1, <3>2, HoldingIsUnique, ImageBeforeCall
  <2>2. Image' = Image
    BY <1>1, <1>2, <2>1 DEF Image, Return
  <2> QED BY <1>1, <1>2, <2>2, StutterKeepsPromise
<1>3. ASSUME index > 0, NEW wrote \in BOOLEAN, NEW verified \in BOOLEAN,
             Store(staged[index].address, staged[index].original, wrote, verified)
      PROVE  /\ pc' = pc /\ UNCHANGED <<state, entries, before>> => UNCHANGED Promise!vars
             /\ KeepEntries("RecoveryRequired") /\ Return("ApplyFailedRecoveryRequired")
                  => Promise!Next
  <2>1. /\ memory' \in [Address -> Value]
        /\ \A i \in DOMAIN staged :
             \/ memory'[staged[i].address] = staged[i].original
             \/ memory'[staged[i].address] = staged[i].replacement
        /\ \A a \in Address :
             (\A i \in DOMAIN staged : staged[i].address # a) => memory'[a] = before[a]
    BY <1>1, <1>3, LoopStore
  <2>2. ASSUME pc' = pc, UNCHANGED <<state, entries, before>> PROVE UNCHANGED Promise!vars
    <3>1. Image' = Image
      BY <1>1, <2>2 DEF Image
    <3> QED BY <1>1, <2>2, <3>1, StutterKeepsPromise
  <2>3. ASSUME KeepEntries("RecoveryRequired"), Return("ApplyFailedRecoveryRequired")
        PROVE  Promise!Next
    BY <1>1, <2>1, <2>3, WedgeKeepsPromise DEF KeepEntries, Return
  <2> QED BY <2>2, <2>3
<1> QED BY <1>2, <1>3 DEF Compensate

LEMMA RestoreEntryKeepsPromise ==
  ASSUME IInv, RestoreEntry PROVE Promise!Next \/ UNCHANGED Promise!vars
<1>1. PICK wrote \in BOOLEAN, verified \in BOOLEAN :
        /\ Store(staged[index].address, staged[index].original, wrote, verified)
        /\ \/ pc' = pc /\ UNCHANGED <<state, entries, before>>
           \/ /\ verified
              /\ index = 1
              /\ state' = "Pristine"
              /\ entries' = <<>>
              /\ Return("RolledBack")
           \/ pc' = "Reapply" /\ UNCHANGED <<state, entries, before>>
  BY DEF RestoreEntry
<1>2. /\ pc = "Restore" /\ index \in DOMAIN staged /\ UNCHANGED gameWrites
      /\ Len(staged) \in Nat \ {0} /\ DOMAIN staged = 1..Len(staged)
      /\ \A i \in DOMAIN staged : i > index => Has(i, "original")
  BY InLoop DEF RestoreEntry, IInv, TypeOK, Progress
<1>3. CASE pc' # "Idle" /\ UNCHANGED <<state, entries, before>>
  <2>1. Image' = Image
    BY <1>2, <1>3 DEF Image
  <2> QED BY <1>2, <1>3, <2>1, StutterKeepsPromise
<1>4. CASE /\ verified /\ index = 1
           /\ state' = "Pristine" /\ entries' = <<>> /\ Return("RolledBack")
  <2>1. /\ memory' \in [Address -> Value]
        /\ \A i \in DOMAIN staged : i # index =>
             memory'[staged[i].address] = memory[staged[i].address]
        /\ memory'[staged[index].address] = staged[index].original
        /\ \A a \in Address :
             (\A i \in DOMAIN staged : staged[i].address # a) => memory'[a] = before[a]
    BY <1>1, <1>2, <1>4, LoopStore
  <2>2. \A i \in DOMAIN staged : memory'[staged[i].address] = staged[i].original
    BY <1>2, <1>4, <2>1 DEF Has
  <2>3. memory' = Promise!Holding(staged, "original")
    BY <1>2, <2>1, <2>2, HoldingIsUnique
  <2>4. Promise!Revert
    BY <1>2, <1>4, <2>3, ImageBeforeCall DEF Promise!Revert, Image, Return
  <2> QED BY <2>4 DEF Promise!Next
<1> QED BY <1>1, <1>2, <1>3, <1>4

LEMMA ReapplyKeepsPromise ==
  ASSUME IInv, Reapply PROVE Promise!Next \/ UNCHANGED Promise!vars
<1>1. /\ pc = "Reapply" /\ UNCHANGED gameWrites /\ state = "Applied" /\ entries = staged
      /\ Len(staged) \in Nat \ {0} /\ DOMAIN staged = 1..Len(staged)
      /\ index \in 0..Len(staged) /\ lowest \in 1..(Len(staged) + 1)
      /\ \A i \in DOMAIN staged : i > index \/ i < lowest => Has(i, "replacement")
  BY InLoop DEF Reapply, IInv, Progress, InCall
<1>2. CASE /\ index < lowest /\ state' = "Applied" /\ UNCHANGED <<entries, memory>>
           /\ Return("RollbackFailedStillApplied")
  <2>1. memory = before
    <3>1. \A i \in DOMAIN staged : memory[staged[i].address] = staged[i].replacement
      BY <1>1, <1>2 DEF Has
    <3>2. /\ memory \in [Address -> Value]
          /\ \A a \in Address :
               (\A i \in DOMAIN staged : staged[i].address # a) => memory[a] = before[a]
      BY <1>1 DEF IInv, TypeOK, InCall
    <3> QED BY <1>1, <3>1, <3>2, HoldingIsUnique, ImageBeforeCall
  <2>2. Image' = Image
    BY <1>1, <1>2, <2>1 DEF Image, Return
  <2> QED BY <1>1, <1>2, <2>2, StutterKeepsPromise
<1>3. ASSUME index >= lowest, NEW wrote \in BOOLEAN, NEW verified \in BOOLEAN,
             Store(staged[index].address, staged[index].replacement, wrote, verified)
      PROVE  /\ (pc' = pc /\ UNCHANGED <<state, entries, before>>) => UNCHANGED Promise!vars
             /\ (state' = "RecoveryRequired" /\ UNCHANGED entries
                   /\ Return("RollbackFailedRecoveryRequired")) => Promise!Next
  <2>i. index \in DOMAIN staged
    BY <1>1, <1>3
  <2>1. /\ memory' \in [Address -> Value]
        /\ \A i \in DOMAIN staged :
             \/ memory'[staged[i].address] = staged[i].original
             \/ memory'[staged[i].address] = staged[i].replacement
        /\ \A a \in Address :
             (\A i \in DOMAIN staged : staged[i].address # a) => memory'[a] = before[a]
    BY <1>1, <1>3, <2>i, LoopStore
  <2>2. ASSUME pc' = pc, UNCHANGED <<state, entries, before>> PROVE UNCHANGED Promise!vars
    <3>1. Image' = Image
      BY <1>1, <2>2 DEF Image
    <3> QED BY <1>1, <2>2, <3>1, StutterKeepsPromise
  <2>3. ASSUME state' = "RecoveryRequired", UNCHANGED entries,
               Return("RollbackFailedRecoveryRequired")
        PROVE  Promise!Next
    BY <1>1, <2>1, <2>3, WedgeKeepsPromise DEF Return
  <2> QED BY <2>2, <2>3
<1> QED BY <1>2, <1>3 DEF Reapply

LEMMA NextKeepsPromise ==
  IInv /\ [Next]_vars => [Promise!Next]_(Promise!vars)
<1> SUFFICES ASSUME IInv, [Next]_vars
             PROVE  Promise!Next \/ UNCHANGED Promise!vars
  OBVIOUS
<1>1. ASSUME NEW gates \in Gates, NEW patches \in Requests, Apply(gates, patches)
      PROVE  UNCHANGED Promise!vars
  <2>1. /\ pc = "Idle" /\ UNCHANGED gameWrites
        /\ \/ \E result \in PatchCode \cup {GateRefusal(gates)} : Refuse(result)
           \/ Enter("Write", Staged(patches), 1) /\ UNCHANGED <<state, entries, memory>>
    <3>1. \A i \in DOMAIN patches : PreflightRefusal(patches, i) \subseteq PatchCode
      BY DEF PreflightRefusal, PatchCode
    <3>2. {"AlreadyApplied", "JournalConflict", "InvalidPatch"} \subseteq PatchCode
      BY DEF PatchCode
    <3> QED BY <1>1, <3>1, <3>2 DEF Apply, ApplyAgain, ApplyFresh
  <2> QED BY <2>1, RefuseIsStutter, EnterIsStutter
<1>2. CASE Rollback
  <2>1. /\ pc = "Idle" /\ UNCHANGED gameWrites
        /\ \/ \E result \in {"AlreadyPristine", "RollbackFailedRecoveryRequired",
                            "RollbackBaselineMismatch"} : Refuse(result)
           \/ Enter("Restore", entries, Len(entries)) /\ UNCHANGED <<state, entries, memory>>
    BY <1>2 DEF Rollback
  <2> QED BY <2>1, RefuseIsStutter, EnterIsStutter
<1>3. CASE GameWrite
  <2>1. PICK address \in Address, value \in Value :
          memory' = [memory EXCEPT ![address] = value]
    BY <1>3 DEF GameWrite
  <2>2. Promise!Disturb
    BY <1>3, <2>1 DEF GameWrite, Promise!Disturb
  <2> QED BY <2>2 DEF Promise!Next
<1>4. CASE UNCHANGED vars
  BY <1>4 DEF vars, call, Promise!vars
<1> QED
  BY <1>1, <1>2, <1>3, <1>4, WriteEntryKeepsPromise, CompensateKeepsPromise,
     RestoreEntryKeepsPromise, ReapplyKeepsPromise DEF Next

\* PatchJournal implements AtomicPatch: whatever fails inside a call, its caller
\* sees the transaction applied, undone, unchanged, or wedged and recorded.
THEOREM JournalIsAtomic == Spec => AllOrNothing
<1> QED
  BY InitKeepsPromise, NextKeepsPromise, JournalInvariant, PTL
     DEF Spec, AllOrNothing, Promise!Spec
-----------------------------------------------------------------------------
\* The overlap test of the preflight is exact: two ranges that are not empty
\* pass it iff they share an address.
THEOREM OverlapIsSharing ==
  ASSUME NEW left \in Nat, NEW leftSize \in Nat \ {0},
         NEW right \in Nat, NEW rightSize \in Nat \ {0}
  PROVE  RangesOverlap(left, leftSize, right, rightSize) <=>
           Covered(left, leftSize) \cap Covered(right, rightSize) # {}
<1>1. ASSUME RangesOverlap(left, leftSize, right, rightSize)
      PROVE  Covered(left, leftSize) \cap Covered(right, rightSize) # {}
  <2>1. CASE left <= right
    <3>1. right \in Covered(left, leftSize) \cap Covered(right, rightSize)
      BY <1>1, <2>1 DEF RangesOverlap, Covered
    <3> QED BY <3>1
  <2>2. CASE ~(left <= right)
    <3>1. left \in Covered(left, leftSize) \cap Covered(right, rightSize)
      BY <1>1, <2>2 DEF RangesOverlap, Covered
    <3> QED BY <3>1
  <2> QED BY <2>1, <2>2
<1>2. ASSUME NEW shared \in Covered(left, leftSize) \cap Covered(right, rightSize)
      PROVE  RangesOverlap(left, leftSize, right, rightSize)
  BY DEF RangesOverlap, Covered
<1> QED BY <1>1, <1>2
=============================================================================
