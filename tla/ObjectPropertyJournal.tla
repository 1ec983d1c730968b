------------------------ MODULE ObjectPropertyJournal ------------------------
(***************************************************************************)
(* enbcore::skyrim::ObjectPropertyJournal over an injected                 *)
(* ObjectPropertyMemoryView.  One object at a time lives at the owner's    *)
(* address; its generation is the owner token, 0 the null token.  A field  *)
(* stands for a field address with the property it is bound to, and the    *)
(* bytes of a field are one value.  Each write with its read-back is one   *)
(* step; a writer may report either outcome whatever it has written, and a *)
(* read may fail.  The game writes fields, replaces the object and changes *)
(* phase between calls of the journal: calls run on the one thread that    *)
(* may mutate, in a phase in which the game leaves the object alone.       *)
(***************************************************************************)
EXTENDS Naturals

CONSTANTS
  Field,
  Value,            \* what the bytes of a field may be
  Valid,            \* the values ValidateEnginePropertyValue accepts
  Requests,         \* what a call of Apply may be given
  MaxGeneration,    \* bound: objects at the owner's address
  MaxGameSteps      \* bound: steps of the game in a run

Phase == {"MainThreadPostUpdate", "FrameBoundary"}     \* ObjectMutationPhase
AnyPhase == Phase \cup {"None"}

\* The prerequisites, the binding and the replacement of a call.  `open` says
\* of each gate outside the journal whether it lets the call pass; `sized`
\* whether the replacement has the size of its property.
Gate == {"FeatureGateDisabled", "LifecycleMutationDenied", "RuntimeNotAdmitted",
         "MutationNotAllowed", "CapabilityUnavailable", "ThreadNotPermitted"}
Request == [shut : SUBSET Gate, phase : AnyPhase, owner : Nat, field : Field,
            sized : BOOLEAN, value : Value]

ASSUME ObjectAssumption ==
  /\ Valid \subseteq Value
  /\ Requests \subseteq Request
  /\ MaxGeneration \in Nat \ {0} /\ MaxGameSteps \in Nat

NoHold == [owner |-> 0]
Hold == [owner : Nat \ {0}, field : Field, phase : Phase,
         original : Value, replacement : Value]

VARIABLES
  state,
  held,                   \* binding_, phase_, baseline_ and replacement_, set and
                          \* cleared together; NoHold while size_ is 0
  pc,                     \* "Idle", or the write a call has come to
  code,                   \* the ObjectPropertyCode of the last call
  asked,                  \* what it asked for, unless it was refused, until the
                          \* game moves
  memory,                 \* the bytes of the fields
  generation, declared,   \* the object at the owner's address and its fields
  phase,                  \* CurrentMutationPhase()
  before,                 \* memory when the call in progress began
  gameSteps

journal == <<state, held>>
game == <<generation, declared, phase, gameSteps>>
vars == <<journal, pc, code, asked, memory, game, before>>

NothingAsked == [sized |-> FALSE]

Init ==
  /\ state = "Pristine"
  /\ held = NoHold
  /\ pc = "Idle"
  /\ code = "AlreadyPristine"
  /\ asked = NothingAsked
  /\ memory \in [Field -> Value]
  /\ generation = 1
  /\ declared = Field
  /\ phase \in AnyPhase
  /\ before = memory
  /\ gameSteps = 0

Return(result) ==
  /\ code' = result
  /\ pc' = "Idle"
  /\ before' = memory'
  /\ UNCHANGED game

\* An early return: nothing but the code is new.
Refuse(result) == UNCHANGED <<journal, memory>> /\ Return(result)

Enter(write) == pc' = write /\ UNCHANGED <<code, memory, before, game>>

\* Defective form: a journal that is pristine again keeps its baseline.
ClearNothing == UNCHANGED held

Clear == held' = NoHold

\* The result of a call that its caller takes for success.
Accepted == {"Applied", "AlreadyApplied", "NoChange"}

Remember(request) ==
  asked' = IF pc' = "Idle" /\ code' \notin Accepted THEN NothingAsked ELSE request

\* The adapter's Write: whatever it reports, anything may have landed.
Store(field) == \E landed \in Value : memory' = [memory EXCEPT ![field] = landed]
-----------------------------------------------------------------------------
IsOwnerCurrent(owner) == owner = generation

\* Why QueryRegion or its attributes may refuse any field.
RegionRefusal == {"RegionUnavailable", "RegionNotReadable", "RegionNotWritable",
                  "ExecutableRegionRejected"}

\* The checks of Apply before it looks at memory, in their order: whether each
\* passes, and what it is refused with.
Checks(request) ==
  LET Passes(gate) == <<gate \notin request.shut, gate>>
  IN  << Passes("FeatureGateDisabled"),
         Passes("LifecycleMutationDenied"),
         Passes("RuntimeNotAdmitted"),
         <<state # "RecoveryRequired", "JournalConflict">>,
         Passes("MutationNotAllowed"),
         Passes("CapabilityUnavailable"),
         <<request.owner # 0, "InvalidBinding">>,
         <<request.sized, "InvalidReplacement">>,
         Passes("ThreadNotPermitted"),
         <<request.phase # "None" /\ phase = request.phase, "PhaseMismatch">>,
         <<IsOwnerCurrent(request.owner), "OwnerUnavailable">>,
         <<request.field \in declared, "FieldSchemaMismatch">> >>

\* The checks of ApplyEnginePropertyMutation before it calls Apply; the last two
\* are a value its schema rejects and an adapter that has no binding for it.
TypedChecks(request) ==
  LET Passes(gate) == <<gate \notin request.shut, gate>>
  IN  << Passes("MutationNotAllowed"),
         Passes("FeatureGateDisabled"),
         Passes("LifecycleMutationDenied"),
         Passes("RuntimeNotAdmitted"),
         Passes("CapabilityUnavailable"),
         Passes("ThreadNotPermitted"),
         <<request.phase # "None" /\ phase = request.phase, "PhaseMismatch">>,
         <<request.value \in Valid, "InvalidReplacement">>,
         <<request.owner # 0, "InvalidBinding">> >>

AllPass(checks) == \A i \in DOMAIN checks : checks[i][1]

RefuseFirst(checks) ==
  \E i \in DOMAIN checks :
    /\ \A earlier \in 1..(i - 1) : checks[earlier][1]
    /\ ~checks[i][1]
    /\ Refuse(checks[i][2])
-----------------------------------------------------------------------------
\* Apply while applied: the same request again, still in place, or a conflict.
SameRequest(request) ==
  /\ request.owner = held.owner /\ request.field = held.field
  /\ request.value = held.replacement /\ request.phase = held.phase

\* Defective form: the field is not read again.
StillInPlaceUnread == TRUE

StillInPlace == memory[held.field] = held.replacement

ApplyAgain(request) ==
  /\ state = "Applied"
  /\ \/ SameRequest(request) /\ StillInPlace /\ Refuse("AlreadyApplied")
     \/ Refuse("JournalConflict")      \* a difference, or a failed read

\* Apply while pristine: the baseline is read, validated, compared and read
\* again; any of the two reads may fail.
ApplyFresh(request) ==
  LET baseline == memory[request.field]
  IN  /\ state = "Pristine"
      /\ \/ Refuse("BaselineReadFailed")
         \/ baseline \notin Valid /\ Refuse("BaselineInvalid")
         \/ baseline \in Valid /\ baseline = request.value /\ Refuse("NoChange")
         \/ /\ baseline \in Valid
            /\ baseline # request.value
            /\ held' = [owner |-> request.owner, field |-> request.field,
                        phase |-> request.phase, original |-> baseline,
                        replacement |-> request.value]
            /\ Enter("Write")
            /\ UNCHANGED state

Transact(request) ==
  \/ RefuseFirst(Checks(request))
  \/ /\ AllPass(Checks(request))
     /\ \/ \E refusal \in RegionRefusal : Refuse(refusal)
        \/ ApplyAgain(request)
        \/ ApplyFresh(request)

Apply(request) ==
  /\ pc = "Idle"
  /\ Transact(request)
  /\ Remember(request)

ApplyEnginePropertyMutation(request) ==
  /\ pc = "Idle"
  /\ request.sized                        \* EncodeValue makes it so
  /\ \/ RefuseFirst(TypedChecks(request))
     \/ AllPass(TypedChecks(request)) /\ Transact(request)
  /\ Remember(request)

\* Both the report of the writer and the bytes must say that it is done.
WriteReplacement ==
  /\ pc = "Write"
  /\ \E wrote, readable \in BOOLEAN :
       /\ Store(held.field)
       /\ IF wrote /\ readable /\ memory'[held.field] = held.replacement
          THEN state' = "Applied" /\ Return("Applied")
          ELSE pc' = "Compensate" /\ UNCHANGED <<state, code, before, game>>
  /\ UNCHANGED <<held, asked>>

\* Whatever the writer reports, the baseline is written and must be read back.
Compensate ==
  /\ pc = "Compensate"
  /\ \E readable \in BOOLEAN :
       /\ Store(held.field)
       /\ IF readable /\ memory'[held.field] = held.original
          THEN Clear /\ UNCHANGED state /\ Return("ApplyFailedRolledBack")
          ELSE /\ state' = "RecoveryRequired"
               /\ UNCHANGED held
               /\ Return("ApplyFailedRecoveryRequired")
  /\ UNCHANGED asked
-----------------------------------------------------------------------------
\* A rollback that finds its object gone gives up for good, before any write.
GiveUp(reason) ==
  /\ state' = "RecoveryRequired"
  /\ UNCHANGED <<held, memory>>
  /\ Return(reason)

\* Defective form: the object that lives there now is taken for the old one.
RollbackOwnerUnchecked == TRUE

RollbackOwnerCurrent == IsOwnerCurrent(held.owner)

\* Defective form: a rollback is tried again after it has failed for good.
RollbackAgain == held # NoHold

RollbackPossible == state = "Applied" /\ held # NoHold

\* Rollback needs no gate, but the thread and the phase of its Apply.
Rollback ==
  /\ pc = "Idle"
  /\ \/ state = "Pristine" /\ Refuse("AlreadyPristine")
     \/ /\ state # "Pristine" /\ ~RollbackPossible
        /\ Refuse("RollbackFailedRecoveryRequired")
     \/ RollbackPossible /\ Refuse("ThreadNotPermitted")
     \/ RollbackPossible /\ phase # held.phase /\ Refuse("PhaseMismatch")
     \/ /\ RollbackPossible /\ phase = held.phase
        /\ \/ ~RollbackOwnerCurrent /\ GiveUp("OwnerInvalidatedBeforeRollback")
           \/ /\ RollbackOwnerCurrent /\ held.field \notin declared
              /\ GiveUp("FieldSchemaMismatch")
           \/ /\ RollbackOwnerCurrent /\ held.field \in declared
              /\ \/ Refuse("RollbackBaselineMismatch")   \* region, read or value
                 \/ StillInPlace /\ Enter("Restore") /\ UNCHANGED journal
  /\ UNCHANGED asked

\* Defective form: a restore that does not read back is taken for one that
\* changed nothing.
StillAppliedUnread(readable) == TRUE

StillApplied(readable) == readable /\ memory'[held.field] = held.replacement

\* Two read-backs: is it the baseline, and if not, is it still the replacement?
RestoreBaseline ==
  /\ pc = "Restore"
  /\ \E readable, readableAgain \in BOOLEAN :
       /\ Store(held.field)
       /\ IF readable /\ memory'[held.field] = held.original
          THEN state' = "Pristine" /\ Clear /\ Return("RolledBack")
          ELSE /\ UNCHANGED held
               /\ IF StillApplied(readableAgain)
                  THEN UNCHANGED state /\ Return("RollbackFailedStillApplied")
                  ELSE /\ state' = "RecoveryRequired"
                       /\ Return("RollbackFailedRecoveryRequired")
  /\ UNCHANGED asked
-----------------------------------------------------------------------------
\* The game between calls: it writes a field, replaces the object by one that
\* may lack some of the fields, or goes on to another phase.
GameWrites ==
  /\ \E field \in Field, value \in Value : memory' = [memory EXCEPT ![field] = value]
  /\ UNCHANGED <<generation, declared, phase>>

GameReplacesOwner ==
  /\ generation < MaxGeneration
  /\ generation' = generation + 1
  /\ declared' \in SUBSET Field
  /\ memory' \in [Field -> Value]
  /\ UNCHANGED phase

GamePhase ==
  /\ phase' \in AnyPhase \ {phase}
  /\ UNCHANGED <<generation, declared, memory>>

Game ==
  /\ pc = "Idle"
  /\ gameSteps < MaxGameSteps
  /\ gameSteps' = gameSteps + 1
  /\ GameWrites \/ GameReplacesOwner \/ GamePhase
  /\ before' = memory'
  /\ asked' = NothingAsked
  /\ UNCHANGED <<journal, pc, code>>

Next ==
  \/ \E request \in Requests : Apply(request) \/ ApplyEnginePropertyMutation(request)
  \/ WriteReplacement \/ Compensate
  \/ Rollback \/ RestoreBaseline
  \/ Game

Spec == Init /\ [][Next]_vars
-----------------------------------------------------------------------------
ObjectPropertyState == {"Pristine", "Applied", "RecoveryRequired"}

ObjectPropertyCode ==
  Gate \cup RegionRefusal \cup Accepted \cup
  {"RolledBack", "AlreadyPristine", "InvalidBinding", "InvalidReplacement",
   "PhaseMismatch", "OwnerUnavailable", "FieldSchemaMismatch", "BaselineReadFailed",
   "BaselineInvalid", "JournalConflict", "ApplyFailedRolledBack",
   "ApplyFailedRecoveryRequired", "RollbackBaselineMismatch",
   "RollbackFailedStillApplied", "RollbackFailedRecoveryRequired",
   "OwnerInvalidatedBeforeRollback"}

\* Every member is in range, and a write is under way only in the state it
\* starts from.
TypeOK ==
  /\ state \in ObjectPropertyState
  /\ held \in Hold \cup {NoHold}
  /\ pc \in {"Idle", "Write", "Compensate", "Restore"}
  /\ pc \in {"Write", "Compensate"} => state = "Pristine"
  /\ pc = "Restore" => state = "Applied"
  /\ code \in ObjectPropertyCode
  /\ asked \in Requests \cup {NothingAsked}
  /\ memory \in [Field -> Value] /\ before \in [Field -> Value]
  /\ generation \in 1..MaxGeneration /\ declared \subseteq Field
  /\ phase \in AnyPhase
  /\ gameSteps \in 0..MaxGameSteps

\* Between calls the journal holds a baseline exactly when it is not pristine,
\* so that none is lost and none outlives its return.
HoldMatchesState == pc = "Idle" => (held = NoHold <=> state = "Pristine")

\* A call that its caller takes for success leaves the value asked for in the
\* field, whichever of the three ways it took.
AcceptedIsInPlace ==
  pc = "Idle" /\ asked # NothingAsked /\ code \in Accepted =>
    memory[asked.field] = asked.value

\* The journal writes only one field of the object it was bound to, while that
\* object lives and declares the field, in the phase it was asked to write in.
WritesOnlyItsObject ==
  [][\A field \in Field :
       pc # "Idle" /\ memory'[field] # memory[field] =>
         /\ field = held.field
         /\ held.owner = generation /\ field \in declared
         /\ phase = held.phase]_vars

\* What a call in progress has established and keeps.
InCall ==
  IF pc = "Idle" THEN before = memory
  ELSE /\ held # NoHold
       /\ held.owner = generation /\ held.field \in declared /\ phase = held.phase
       /\ \A field \in Field \ {held.field} : memory[field] = before[field]
       /\ IF pc = "Restore" THEN before[held.field] = held.replacement
          ELSE /\ before[held.field] = held.original
               /\ held.original \in Valid \ {held.replacement}
       /\ pc = "Write" => asked.field = held.field /\ asked.value = held.replacement

IInv == TypeOK /\ HoldMatchesState /\ AcceptedIsInPlace /\ InCall

\* Seen by whole calls, the journal borrows a field and returns it, abandons the
\* loan when its object is gone, or keeps it on record when a write has failed.
Promise == INSTANCE LentField WITH
  NoLoan <- NoHold,
  status <- state,
  loan <- IF pc \in {"Write", "Compensate"} THEN NoHold ELSE held,
  image <- IF pc = "Idle" THEN memory ELSE before,
  disturbances <- gameSteps

ReturnsWhatItBorrows == Promise!Spec
=============================================================================
