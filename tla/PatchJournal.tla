---------------------------- MODULE PatchJournal ----------------------------
(***************************************************************************)
(* enbcore::skyrim::PatchJournal over an injected MutableMemoryView.  Each *)
(* write with its read-back is one step; a write may be refused with no    *)
(* byte changed (the adapter's contract), may be reported done and lost,   *)
(* and a read may fail: the journal cannot tell the last two apart.  The   *)
(* game writes the same memory between calls of the journal, never inside  *)
(* one: calls run on the integration thread in a phase the game leaves to  *)
(* it.  The bytes of a range are one value, kept at the range's address.   *)
(***************************************************************************)
EXTENDS Integers, Sequences, AddressRanges

CONSTANTS
  ImageBase, ImageSize,   \* the loaded image of the ExecutableIdentity
  Value,                  \* what the bytes of a range may be
  Requests,               \* sequences of PropertyPatch an Apply may be given
  MaxGameWrites           \* bound: game writes in a run

\* PropertyPatch; both spans have `size` bytes.
PropertyPatch == [identifier : STRING, address : Nat, size : Nat,
                  expected : Value, replacement : Value]

ASSUME ImageAssumption ==
  /\ ImageBase \in Nat \ {0}
  /\ ImageSize \in Nat \ {0}
  /\ Requests \subseteq Seq(PropertyPatch)
  /\ MaxGameWrites \in Nat

Address == ImageBase..(ImageBase + ImageSize - 1)

VARIABLES
  state, entries,         \* state_ and entries_
  memory,                 \* the bytes of the image
  pc,                     \* "Idle", or the loop a call is in
  staged,                 \* the entries that loop is about
  index, lowest,          \* the entry it is at; the last one Reapply visits
  code,                   \* the PatchCode of the last call
  before,                 \* memory when the call in progress began
  gameWrites

call == <<pc, staged, index, lowest, before>>
vars == <<state, entries, memory, call, code, gameWrites>>

Gates == [feature : BOOLEAN, lifecycle : BOOLEAN, runtime : BOOLEAN, capability : BOOLEAN]

\* Why QueryRegion or the first read of a patch may refuse it.
RegionRefusal == {"RegionUnavailable", "RegionNotReadable", "RegionNotWritable",
                  "ExecutableRegionRejected", "BaselineReadFailed"}

\* The entries a transaction stages, one per patch.
Staged(patches) ==
  [i \in DOMAIN patches |->
    [identifier |-> patches[i].identifier, address |-> patches[i].address,
     original |-> patches[i].expected, replacement |-> patches[i].replacement]]

Init ==
  /\ state = "Pristine"
  /\ entries = <<>>
  /\ memory \in [Address -> Value]
  /\ pc = "Idle"
  /\ staged = <<>>
  /\ index = 0
  /\ lowest = 0
  /\ code = "AlreadyPristine"
  /\ before = memory
  /\ gameWrites = 0

Return(result) ==
  /\ code' = result
  /\ pc' = "Idle"
  /\ staged' = <<>>
  /\ index' = 0
  /\ lowest' = 0
  /\ before' = memory'

\* An early return: nothing but the code is new.
Refuse(result) == pc = "Idle" /\ UNCHANGED <<state, entries, memory>> /\ Return(result)

Enter(loop, about, first) ==
  /\ pc' = loop
  /\ staged' = about
  /\ index' = first
  /\ lowest' = first
  /\ UNCHANGED <<before, code>>

-----------------------------------------------------------------------------
\* The adapter: one Write and, if it reports success, its read-back.  A write
\* may be refused or lost and a read may fail, so `verified` implies that the
\* value is there and `~verified` implies nothing.
Store(address, value, wrote, verified) ==
  \E lost, readable \in BOOLEAN :
    /\ memory' = IF wrote /\ ~lost THEN [memory EXCEPT ![address] = value] ELSE memory
    /\ verified = (wrote /\ readable /\ memory'[address] = value)

\* Defective form: whatever is there is taken for the replacement.
InPlaceUnchecked == TRUE

\* What a read-back that no write precedes compares, when the read succeeds.
InPlace == \A i \in DOMAIN entries : memory[entries[i].address] = entries[i].replacement

-----------------------------------------------------------------------------
\* Apply.  The four gates and the recovery state, in the order of the code.
GateRefusal(gates) ==
  IF ~gates.feature THEN "FeatureGateDisabled"
  ELSE IF ~gates.lifecycle THEN "LifecycleMutationDenied"
  ELSE IF ~gates.runtime THEN "RuntimeNotAdmitted"
  ELSE IF ~gates.capability THEN "CapabilityUnavailable"
  ELSE IF state = "RecoveryRequired" THEN "JournalConflict"
  ELSE "None"

\* A patch that no memory could accept, alone or next to an earlier one (an
\* empty identifier or lengths that differ are refused where an empty range is).
Malformed(patches, i) ==
  \/ patches[i].size = 0
  \/ patches[i].expected = patches[i].replacement
  \/ \E prior \in 1..(i - 1) :
       \/ patches[i].identifier = patches[prior].identifier
       \/ RangesOverlap(patches[i].address, patches[i].size,
                        patches[prior].address, patches[prior].size)

Inside(patch) == Contains(ImageBase, ImageSize, patch.address, patch.size)

\* Why the preflight of patch i may refuse the transaction.
PreflightRefusal(patches, i) ==
  IF Malformed(patches, i) THEN {"InvalidPatch"}
  ELSE IF ~Inside(patches[i]) THEN {"AddressOutsideModule"}
  ELSE RegionRefusal \cup
       (IF memory[patches[i].address] # patches[i].expected
        THEN {"BaselineMismatch"} ELSE {})

Preflighted(patches, i) ==
  ~Malformed(patches, i) /\ Inside(patches[i])
    /\ memory[patches[i].address] = patches[i].expected

\* Applied already: the same transaction again, and still in place.
ApplyAgain(patches) ==
  /\ state = "Applied"
  /\ \/ /\ Staged(patches) = entries
        /\ InPlace
        /\ Refuse("AlreadyApplied")
     \/ Refuse("JournalConflict")      \* a difference, or a failed read

ApplyFresh(patches) ==
  /\ state = "Pristine"
  /\ \/ patches = <<>> /\ Refuse("InvalidPatch")
     \/ \E i \in DOMAIN patches :
          /\ \A prior \in 1..(i - 1) : Preflighted(patches, prior)
          /\ \E reason \in PreflightRefusal(patches, i) : Refuse(reason)
     \/ /\ patches # <<>>
        /\ \A i \in DOMAIN patches : Preflighted(patches, i)
        /\ Enter("Write", Staged(patches), 1)
        /\ UNCHANGED <<state, entries, memory>>

Apply(gates, patches) ==
  /\ pc = "Idle"
  /\ \/ GateRefusal(gates) # "None" /\ Refuse(GateRefusal(gates))
     \/ /\ GateRefusal(gates) = "None"
        /\ ApplyAgain(patches) \/ ApplyFresh(patches)
  /\ UNCHANGED gameWrites

\* Defective form: the staged entries are forgotten.
ForgetEntries(outcome) == UNCHANGED entries /\ state' = outcome

KeepEntries(outcome) == entries' = staged /\ state' = outcome

\* Defective form: the entry after the failed one is restored as well.
CompensateNext(wrote) == index + 1

\* Defective form: a write reported as done and not read back is left alone.
CompensateVerified(wrote) == index - 1

CompensateFrom(wrote) == IF wrote THEN index ELSE index - 1

WriteEntry ==
  /\ pc = "Write"
  /\ \E wrote, verified \in BOOLEAN :
       /\ Store(staged[index].address, staged[index].replacement, wrote, verified)
       /\ \/ /\ verified
             /\ index < Len(staged)
             /\ index' = index + 1
             /\ UNCHANGED <<state, entries, pc, staged, lowest, before, code>>
          \/ /\ verified
             /\ index = Len(staged)
             /\ KeepEntries("Applied")
             /\ Return("Applied")
          \/ /\ ~verified
             /\ Enter("Compensate", staged, CompensateFrom(wrote))
             /\ UNCHANGED <<state, entries>>
  /\ UNCHANGED gameWrites

\* Restore in reverse order; the first failure ends it with what it has.
Compensate ==
  /\ pc = "Compensate"
  /\ \/ /\ index = 0
        /\ UNCHANGED <<state, entries, memory>>
        /\ Return("ApplyFailedRolledBack")
     \/ /\ index > 0
        /\ \E wrote, verified \in BOOLEAN :
             /\ Store(staged[index].address, staged[index].original, wrote, verified)
             /\ \/ /\ verified
                   /\ index' = index - 1
                   /\ UNCHANGED <<state, entries, pc, staged, lowest, before, code>>
                \/ /\ ~verified
                   /\ KeepEntries("RecoveryRequired")
                   /\ Return("ApplyFailedRecoveryRequired")
  /\ UNCHANGED gameWrites

-----------------------------------------------------------------------------
\* Rollback needs no gate.  Its preflight finds every replacement in place;
\* a changed region or a failed read counts as a mismatch.
Rollback ==
  /\ pc = "Idle"
  /\ \/ state = "Pristine" /\ Refuse("AlreadyPristine")
     \/ /\ state = "RecoveryRequired" \/ (state = "Applied" /\ entries = <<>>)
        /\ Refuse("RollbackFailedRecoveryRequired")
     \/ state = "Applied" /\ entries # <<>> /\ Refuse("RollbackBaselineMismatch")
     \/ /\ state = "Applied" /\ entries # <<>>
        /\ InPlace
        /\ Enter("Restore", entries, Len(entries))
        /\ UNCHANGED <<state, entries, memory>>
  /\ UNCHANGED gameWrites

RestoreEntry ==
  /\ pc = "Restore"
  /\ \E wrote, verified \in BOOLEAN :
       /\ Store(staged[index].address, staged[index].original, wrote, verified)
       /\ \/ /\ verified
             /\ index > 1
             /\ index' = index - 1
             /\ UNCHANGED <<state, entries, pc, staged, lowest, before, code>>
          \/ /\ verified
             /\ index = 1
             /\ state' = "Pristine"
             /\ entries' = <<>>
             /\ Return("RolledBack")
          \/ /\ ~verified
             /\ pc' = "Reapply"
             /\ index' = Len(staged)
             /\ lowest' = IF wrote THEN index ELSE index + 1
             /\ UNCHANGED <<state, entries, staged, before, code>>
  /\ UNCHANGED gameWrites

\* Put back what was restored, in the order it was restored in.
Reapply ==
  /\ pc = "Reapply"
  /\ \/ /\ index < lowest
        /\ state' = "Applied"
        /\ UNCHANGED <<entries, memory>>
        /\ Return("RollbackFailedStillApplied")
     \/ /\ index >= lowest
        /\ \E wrote, verified \in BOOLEAN :
             /\ Store(staged[index].address, staged[index].replacement, wrote, verified)
             /\ \/ /\ verified
                   /\ index' = index - 1
                   /\ UNCHANGED <<state, entries, pc, staged, lowest, before, code>>
                \/ /\ ~verified
                   /\ state' = "RecoveryRequired"
                   /\ Return("RollbackFailedRecoveryRequired")
                   /\ UNCHANGED entries
  /\ UNCHANGED gameWrites

GameWrite ==
  /\ pc = "Idle"
  /\ gameWrites < MaxGameWrites
  /\ gameWrites' = gameWrites + 1
  /\ \E address \in Address, value \in Value :
       memory' = [memory EXCEPT ![address] = value]
  /\ before' = memory'
  /\ UNCHANGED <<state, entries, pc, staged, index, lowest, code>>

Next ==
  \/ \E gates \in Gates, patches \in Requests : Apply(gates, patches)
  \/ WriteEntry \/ Compensate
  \/ Rollback \/ RestoreEntry \/ Reapply
  \/ GameWrite

Spec == Init /\ [][Next]_vars
-----------------------------------------------------------------------------
PatchState == {"Pristine", "Applied", "RecoveryRequired"}

PatchCode ==
  {"Applied", "AlreadyApplied", "RolledBack", "AlreadyPristine",
   "FeatureGateDisabled", "LifecycleMutationDenied", "RuntimeNotAdmitted",
   "CapabilityUnavailable", "InvalidPatch", "AddressOutsideModule",
   "BaselineMismatch", "ApplyFailedRolledBack", "ApplyFailedRecoveryRequired",
   "JournalConflict", "RollbackBaselineMismatch", "RollbackFailedStillApplied",
   "RollbackFailedRecoveryRequired"} \cup RegionRefusal

Transactions == {Staged(patches) : patches \in Requests}

\* Every member is in range, and a loop is never outside its entries.
TypeOK ==
  /\ state \in PatchState
  /\ entries \in Transactions \cup {<<>>}
  /\ memory \in [Address -> Value]
  /\ before \in [Address -> Value]
  /\ pc \in {"Idle", "Write", "Compensate", "Restore", "Reapply"}
  /\ staged \in Transactions \cup {<<>>}
  /\ index \in 0..Len(staged)
  /\ pc \in {"Write", "Restore"} => index > 0
  /\ lowest \in 0..(Len(staged) + 1)
  /\ code \in PatchCode

\* The journal keeps entries exactly when it has something to undo or to
\* recover, so a rollback is never refused for having nothing to restore.
EntriesMatchState == entries = <<>> <=> state = "Pristine"

\* What preflight has established of the entries of a transaction.
Entry == [identifier : STRING, address : Address, original : Value, replacement : Value]
WellFormed(transaction) ==
  /\ transaction \in Seq(Entry)
  /\ \A i, j \in DOMAIN transaction :
       transaction[i].address = transaction[j].address => i = j

\* The bytes of entry i, now and when the call began.
Has(i, field) == memory[staged[i].address] = staged[i][field]
Had(i, field) == before[staged[i].address] = staged[i][field]

\* How far each loop has come.
Progress ==
  /\ pc = "Idle" => before = memory /\ staged = <<>>
  /\ pc = "Write" => \A i \in DOMAIN staged :
       IF i < index THEN Has(i, "replacement") ELSE Has(i, "original")
  /\ pc = "Compensate" => \A i \in DOMAIN staged : i > index => Has(i, "original")
  /\ pc = "Restore" => \A i \in DOMAIN staged :
       IF i > index THEN Has(i, "original") ELSE Has(i, "replacement")
  /\ pc = "Reapply" => lowest > 0 /\ \A i \in DOMAIN staged :
       i > index \/ i < lowest => Has(i, "replacement")

\* What every call in progress keeps: nothing but its entries is touched, each
\* of them has one of its two values, and the whole call can be told from here.
InCall ==
  pc # "Idle" =>
    /\ staged # <<>>
    /\ \A i \in DOMAIN staged : Has(i, "original") \/ Has(i, "replacement")
    /\ \A a \in Address :
         (\A i \in DOMAIN staged : staged[i].address # a) => memory[a] = before[a]
    /\ IF pc \in {"Write", "Compensate"}
       THEN state = "Pristine" /\ \A i \in DOMAIN staged : Had(i, "original")
       ELSE /\ state = "Applied" /\ entries = staged
            /\ \A i \in DOMAIN staged : Had(i, "replacement")

IInv ==
  /\ TypeOK
  /\ EntriesMatchState
  /\ WellFormed(entries) /\ WellFormed(staged)
  /\ Progress
  /\ InCall

\* A caller that sees only whole calls sees whole transactions: each call
\* commits, reverts, changes nothing, or ends in RecoveryRequired for good.
Promise == INSTANCE AtomicPatch WITH
  status <- state,
  image <- IF pc = "Idle" THEN memory ELSE before,
  journal <- entries,
  disturbances <- gameWrites

AllOrNothing == Promise!Spec

\* Whatever fails on the way, the journal overwrites only what it has itself
\* verified or written: a value of the game is never lost to it.
KeepsForeignValues ==
  [][\A address \in Address :
       pc # "Idle" /\ memory'[address] # memory[address] =>
         \E i \in DOMAIN staged :
           /\ staged[i].address = address
           /\ {memory[address], memory'[address]} =
                {staged[i].original, staged[i].replacement}]_vars
=============================================================================
