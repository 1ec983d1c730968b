--------------------- MODULE ObjectPropertyJournalProofs ---------------------
(***************************************************************************)
(* Theorems of ObjectPropertyJournal for every set of fields, values and   *)
(* requests.  IInv says what a call in progress has established: that the  *)
(* object it writes is the current one, and how the image it began with    *)
(* relates to the baseline and the replacement it holds.                   *)
(***************************************************************************)
EXTENDS ObjectPropertyJournal, TLAPS

\* No result of an early return is one its caller takes for success.
Refusals == ObjectPropertyCode \ Accepted

LEMMA ChecksRefuse ==
  ASSUME NEW request \in Requests, NEW i \in DOMAIN Checks(request)
  PROVE  Checks(request)[i][2] \in Refusals
BY DEF Checks, Refusals, ObjectPropertyCode, Accepted, Gate, RegionRefusal

LEMMA TypedChecksRefuse ==
  ASSUME NEW request \in Requests, NEW i \in DOMAIN TypedChecks(request)
  PROVE  TypedChecks(request)[i][2] \in Refusals
BY DEF TypedChecks, Refusals, ObjectPropertyCode, Accepted, Gate, RegionRefusal

\* What a call has passed when it comes to look at memory.
LEMMA ChecksPassed ==
  ASSUME NEW request \in Requests, AllPass(Checks(request))
  PROVE  /\ state # "RecoveryRequired"
         /\ request.owner # 0 /\ request.sized
         /\ request.phase # "None" /\ phase = request.phase
         /\ request.owner = generation
         /\ request.field \in declared
<1> DEFINE C == Checks(request)
<1>1. /\ C[4][1] /\ C[7][1] /\ C[8][1] /\ C[10][1] /\ C[11][1] /\ C[12][1]
  <2>1. DOMAIN C = 1..12
    BY DEF Checks
  <2> QED BY <2>1 DEF AllPass
<1> QED BY <1>1 DEF Checks, IsOwnerCurrent

LEMMA Held ==
  ASSUME TypeOK, held # NoHold
  PROVE  /\ held \in Hold /\ held.field \in Field /\ held.owner \in Nat \ {0}
         /\ held.original \in Value /\ held.replacement \in Value
         /\ held.phase \in Phase
BY DEF TypeOK, Hold
-----------------------------------------------------------------------------
LEMMA InitEstablishesIInv == Init => IInv
BY ObjectAssumption
   DEF Init, IInv, TypeOK, HoldMatchesState, AcceptedIsInPlace, InCall,
       ObjectPropertyState, ObjectPropertyCode, AnyPhase, NothingAsked, Accepted

\* A call that returns early keeps the invariant, whatever it remembers, if it
\* is not taken for success.
LEMMA RefuseKeepsIInv ==
  ASSUME IInv, pc = "Idle", NEW result \in Refusals, Refuse(result),
         asked' \in Requests \cup {NothingAsked}
  PROVE  IInv'
BY DEF IInv, TypeOK, HoldMatchesState, AcceptedIsInPlace, InCall, Refuse, Return,
       journal, game, Refusals

LEMMA TransactKeepsIInv ==
  ASSUME IInv, pc = "Idle", NEW request \in Requests,
         Transact(request), Remember(request)
  PROVE  IInv'
<1>1. asked' \in Requests \cup {NothingAsked}
  BY DEF Remember
<1>2. CASE RefuseFirst(Checks(request))
  BY <1>1, <1>2, ChecksRefuse, RefuseKeepsIInv DEF RefuseFirst
<1>3. CASE \E refusal \in RegionRefusal : Refuse(refusal)
  <2>1. RegionRefusal \subseteq Refusals
    BY DEF RegionRefusal, Refusals, ObjectPropertyCode, Accepted
  <2> QED BY <1>1, <1>3, <2>1, RefuseKeepsIInv
<1>4. CASE AllPass(Checks(request)) /\ ApplyAgain(request)
  <2>1. "JournalConflict" \in Refusals
    BY DEF Refusals, ObjectPropertyCode, Accepted
  <2>2. CASE SameRequest(request) /\ StillInPlace /\ Refuse("AlreadyApplied")
    BY <1>1, <2>2
       DEF IInv, TypeOK, HoldMatchesState, AcceptedIsInPlace, InCall, Refuse, Return,
           Remember, SameRequest, StillInPlace, journal, game, ObjectPropertyCode, Accepted
  <2> QED BY <1>1, <1>4, <2>1, <2>2, RefuseKeepsIInv DEF ApplyAgain
<1>5. CASE AllPass(Checks(request)) /\ ApplyFresh(request)
  <2> DEFINE baseline == memory[request.field]
  <2>1. {"BaselineReadFailed", "BaselineInvalid"} \subseteq Refusals
    BY DEF Refusals, ObjectPropertyCode, Accepted, Gate, RegionRefusal
  <2>2. CASE baseline = request.value /\ Refuse("NoChange")
    BY <1>1, <2>2
       DEF IInv, TypeOK, HoldMatchesState, AcceptedIsInPlace, InCall, Refuse, Return,
           Remember, journal, game, ObjectPropertyCode, Accepted
  <2>3. CASE /\ baseline \in Valid /\ baseline # request.value
             /\ held' = [owner |-> request.owner, field |-> request.field,
                         phase |-> request.phase, original |-> baseline,
                         replacement |-> request.value]
             /\ Enter("Write") /\ UNCHANGED state
    <3>1. /\ request \in Request /\ request.owner # 0 /\ request.phase # "None"
          /\ phase = request.phase /\ request.owner = generation
          /\ request.field \in declared
      BY <1>5, ChecksPassed, ObjectAssumption
    <3>2. held' \in Hold /\ held' # NoHold
      BY <2>3, <3>1, ObjectAssumption DEF Hold, NoHold, Request, AnyPhase
    <3>3. asked' = request
      BY <2>3 DEF Remember, Enter
    <3>4. TypeOK'
      BY <1>1, <1>5, <2>3, <3>2 DEF IInv, TypeOK, Enter, game, ApplyFresh
    <3>5. InCall'
      BY <2>3, <3>1, <3>2, <3>3 DEF IInv, InCall, Enter, game
    <3> QED
      BY <2>3, <3>4, <3>5 DEF IInv, HoldMatchesState, AcceptedIsInPlace, Enter
  <2> QED BY <1>1, <1>5, <2>1, <2>2, <2>3, RefuseKeepsIInv DEF ApplyFresh
<1> QED BY <1>2, <1>3, <1>4, <1>5 DEF Transact

\* A write of the journal touches the held field and no other.
LEMMA StoreHeld ==
  ASSUME IInv, pc # "Idle", Store(held.field)
  PROVE  /\ memory' \in [Field -> Value]
         /\ \A field \in Field \ {held.field} : memory'[field] = memory[field]
         /\ held # NoHold
BY Held DEF IInv, TypeOK, InCall, Store

LEMMA WriteKeepsIInv ==
  ASSUME IInv, WriteReplacement PROVE IInv'
<1>1. /\ pc = "Write" /\ Store(held.field) /\ UNCHANGED <<held, asked>>
      /\ \/ /\ memory'[held.field] = held.replacement
            /\ state' = "Applied" /\ Return("Applied")
         \/ pc' = "Compensate" /\ UNCHANGED <<state, code, before, game>>
  BY DEF WriteReplacement
<1>2. CASE /\ memory'[held.field] = held.replacement
           /\ state' = "Applied" /\ Return("Applied")
  BY <1>1, <1>2, StoreHeld
     DEF IInv, TypeOK, HoldMatchesState, AcceptedIsInPlace, InCall, Return, game,
         ObjectPropertyState, ObjectPropertyCode, Accepted
<1>3. CASE pc' = "Compensate" /\ UNCHANGED <<state, code, before, game>>
  BY <1>1, <1>3, StoreHeld
     DEF IInv, TypeOK, HoldMatchesState, AcceptedIsInPlace, InCall, game
<1> QED BY <1>1, <1>2, <1>3

LEMMA CompensateKeepsIInv ==
  ASSUME IInv, Compensate PROVE IInv'
<1>1. /\ pc = "Compensate" /\ Store(held.field) /\ UNCHANGED asked
      /\ \/ held' = NoHold /\ UNCHANGED state /\ Return("ApplyFailedRolledBack")
         \/ /\ state' = "RecoveryRequired" /\ UNCHANGED held
            /\ Return("ApplyFailedRecoveryRequired")
  BY DEF Compensate, Clear
<1> QED
  BY <1>1, StoreHeld
     DEF IInv, TypeOK, HoldMatchesState, AcceptedIsInPlace, InCall, Return, game,
         ObjectPropertyState, ObjectPropertyCode, Accepted

LEMMA RollbackKeepsIInv ==
  ASSUME IInv, Rollback PROVE IInv'
<1>1. /\ pc = "Idle" /\ asked' \in Requests \cup {NothingAsked} /\ UNCHANGED asked
  BY DEF Rollback, IInv, TypeOK
<1>2. {"AlreadyPristine", "RollbackFailedRecoveryRequired", "ThreadNotPermitted",
       "PhaseMismatch", "RollbackBaselineMismatch"} \subseteq Refusals
  BY DEF Refusals, ObjectPropertyCode, Accepted, Gate, RegionRefusal
<1>3. CASE \E reason \in {"OwnerInvalidatedBeforeRollback", "FieldSchemaMismatch"} :
             RollbackPossible /\ GiveUp(reason)
  BY <1>1, <1>3
     DEF IInv, TypeOK, HoldMatchesState, AcceptedIsInPlace, InCall, GiveUp, Return, game,
         RollbackPossible, ObjectPropertyState, ObjectPropertyCode, Accepted
<1>4. CASE /\ RollbackPossible /\ phase = held.phase /\ RollbackOwnerCurrent
           /\ held.field \in declared /\ StillInPlace
           /\ Enter("Restore") /\ UNCHANGED journal
  BY <1>1, <1>4
     DEF IInv, TypeOK, HoldMatchesState, AcceptedIsInPlace, InCall, Enter, game, journal,
         RollbackPossible, RollbackOwnerCurrent, IsOwnerCurrent, StillInPlace
<1> QED BY <1>1, <1>2, <1>3, <1>4, RefuseKeepsIInv DEF Rollback

LEMMA RestoreKeepsIInv ==
  ASSUME IInv, RestoreBaseline PROVE IInv'
<1>1. /\ pc = "Restore" /\ Store(held.field) /\ UNCHANGED asked
      /\ \/ state' = "Pristine" /\ held' = NoHold /\ Return("RolledBack")
         \/ UNCHANGED <<held, state>> /\ Return("RollbackFailedStillApplied")
         \/ /\ UNCHANGED held /\ state' = "RecoveryRequired"
            /\ Return("RollbackFailedRecoveryRequired")
  BY DEF RestoreBaseline, Clear
<1> QED
  BY <1>1, StoreHeld
     DEF IInv, TypeOK, HoldMatchesState, AcceptedIsInPlace, InCall, Return, game,
         ObjectPropertyState, ObjectPropertyCode, Accepted

LEMMA GameKeepsIInv ==
  ASSUME IInv, Game PROVE IInv'
<1>1. TypeOK'
  BY ObjectAssumption
     DEF IInv, TypeOK, Game, GameWrites, GameReplacesOwner, GamePhase, journal, NothingAsked
<1> QED
  BY <1>1 DEF IInv, HoldMatchesState, AcceptedIsInPlace, InCall, Game, journal, NothingAsked

LEMMA NextKeepsIInv == IInv /\ [Next]_vars => IInv'
<1> SUFFICES ASSUME IInv, [Next]_vars PROVE IInv'
  OBVIOUS
<1>1. ASSUME NEW request \in Requests, Apply(request) PROVE IInv'
  BY <1>1, TransactKeepsIInv DEF Apply
<1>2. ASSUME NEW request \in Requests, ApplyEnginePropertyMutation(request) PROVE IInv'
  <2>1. pc = "Idle" /\ Remember(request) /\ asked' \in Requests \cup {NothingAsked}
    BY <1>2 DEF ApplyEnginePropertyMutation, Remember
  <2>2. CASE RefuseFirst(TypedChecks(request))
    BY <2>1, <2>2, TypedChecksRefuse, RefuseKeepsIInv DEF RefuseFirst
  <2>3. CASE Transact(request)
    BY <2>1, <2>3, TransactKeepsIInv
  <2> QED BY <1>2, <2>2, <2>3 DEF ApplyEnginePropertyMutation
<1>3. CASE UNCHANGED vars
  BY <1>3 DEF IInv, TypeOK, HoldMatchesState, AcceptedIsInPlace, InCall, vars, journal, game
<1> QED
  BY <1>1, <1>2, <1>3, WriteKeepsIInv, CompensateKeepsIInv, RollbackKeepsIInv,
     RestoreKeepsIInv, GameKeepsIInv DEF Next

THEOREM ObjectInvariant == Spec => []IInv
<1> QED BY InitEstablishesIInv, NextKeepsIInv, PTL DEF Spec

\* The journal's members stay in range, for any fields, values and requests.
THEOREM ObjectTypeCorrect == Spec => []TypeOK
<1>1. IInv => TypeOK
  BY DEF IInv
<1> QED BY <1>1, ObjectInvariant, PTL

\* Between calls a baseline is held exactly when the journal is not pristine.
THEOREM ObjectHoldMatchesState == Spec => []HoldMatchesState
<1>1. IInv => HoldMatchesState
  BY DEF IInv
<1> QED BY <1>1, ObjectInvariant, PTL

\* A call taken for success leaves the value asked for in the field.
THEOREM ObjectAcceptedIsInPlace == Spec => []AcceptedIsInPlace
<1>1. IInv => AcceptedIsInPlace
  BY DEF IInv
<1> QED BY <1>1, ObjectInvariant, PTL
-----------------------------------------------------------------------------
\* The journal writes only the held field, of the object it was bound to, while
\* that object lives, and in the phase it was asked to write in.
THEOREM ObjectWritesOnlyItsObject == Spec => WritesOnlyItsObject
<1> DEFINE OwnWrite ==
      \A field \in Field :
        pc # "Idle" /\ memory'[field] # memory[field] =>
          /\ field = held.field
          /\ held.owner = generation /\ field \in declared
          /\ phase = held.phase
<1>1. ASSUME IInv, Next PROVE OwnWrite
  <2>1. ASSUME pc # "Idle" PROVE Store(held.field)
    BY <1>1, <2>1
       DEF Next, Apply, ApplyEnginePropertyMutation, WriteReplacement, Compensate,
           Rollback, RestoreBaseline, Game
  <2> QED BY <1>1, <2>1, StoreHeld DEF IInv, InCall
<1>2. ASSUME UNCHANGED vars PROVE OwnWrite
  BY <1>2 DEF vars
<1>3. IInv /\ [Next]_vars => [OwnWrite]_vars
  BY <1>1, <1>2
<1> QED BY <1>3, ObjectInvariant, PTL DEF Spec, WritesOnlyItsObject
-----------------------------------------------------------------------------
\* The refinement of LentField.  What the abstract specification sees of a call
\* is the image it began with until it returns.
Loan == IF pc \in {"Write", "Compensate"} THEN NoHold ELSE held
Image == IF pc = "Idle" THEN memory ELSE before

LEMMA StutterKeepsPromise ==
  ASSUME state' = state, Loan' = Loan, Image' = Image, UNCHANGED game
  PROVE  UNCHANGED Promise!vars
BY DEF Loan, Image, Promise!vars, game

LEMMA RefuseIsStutter ==
  ASSUME IInv, pc = "Idle", NEW result, Refuse(result)
  PROVE  UNCHANGED Promise!vars
<1>1. Loan' = Loan /\ Image' = Image
  BY DEF Loan, Image, Refuse, Return, journal
<1> QED BY <1>1, StutterKeepsPromise DEF Refuse, Return, journal

LEMMA TransactIsStutter ==
  ASSUME IInv, pc = "Idle", NEW request \in Requests, Transact(request)
  PROVE  UNCHANGED Promise!vars
<1>1. CASE \E result : Refuse(result)
  BY <1>1, RefuseIsStutter
<1>2. CASE state = "Pristine" /\ Enter("Write") /\ UNCHANGED state
  <2>1. held = NoHold /\ before = memory
    BY <1>2 DEF IInv, HoldMatchesState, InCall
  <2>2. Loan' = Loan /\ Image' = Image
    BY <1>2, <2>1 DEF Loan, Image, Enter
  <2> QED BY <1>2, <2>2, StutterKeepsPromise DEF Enter
<1> QED BY <1>1, <1>2 DEF Transact, RefuseFirst, ApplyAgain, ApplyFresh

\* What a write under way has to do with the image its call began with.
LEMMA CallWrites ==
  ASSUME IInv, pc # "Idle", Store(held.field)
  PROVE  /\ memory' = [before EXCEPT ![held.field] = memory'[held.field]]
         /\ memory'[held.field] \in Value
<1>1. /\ memory' \in [Field -> Value] /\ before \in [Field -> Value] /\ held.field \in Field
      /\ \A field \in Field \ {held.field} : memory'[field] = before[field]
  BY StoreHeld, Held DEF IInv, TypeOK, InCall
<1> QED BY <1>1

LEMMA WriteKeepsPromise ==
  ASSUME IInv, WriteReplacement PROVE Promise!Next \/ UNCHANGED Promise!vars
<1>1. /\ pc = "Write" /\ state = "Pristine" /\ Store(held.field) /\ UNCHANGED held
      /\ \/ /\ memory'[held.field] = held.replacement
            /\ state' = "Applied" /\ Return("Applied")
         \/ pc' = "Compensate" /\ UNCHANGED <<state, before, game>>
  BY DEF WriteReplacement, IInv, TypeOK
<1>2. /\ held \in Hold /\ held.owner = generation /\ held.field \in declared
      /\ before[held.field] = held.original
      /\ held.original \in Valid \ {held.replacement}
  BY <1>1, Held DEF IInv, InCall
<1>3. held = [owner |-> held.owner, field |-> held.field, phase |-> held.phase,
              original |-> held.original, replacement |-> held.replacement]
  BY <1>2 DEF Hold
<1>4. CASE /\ memory'[held.field] = held.replacement
           /\ state' = "Applied" /\ Return("Applied")
  <2>1. /\ Loan = NoHold /\ Loan' = held /\ Image = before
        /\ Image' = [before EXCEPT ![held.field] = held.replacement]
    BY <1>1, <1>4, CallWrites DEF Loan, Image, Return
  <2>2. Promise!Take
    BY <1>1, <1>2, <1>3, <1>4, <2>1
       DEF Promise!Take, Promise!Lend, Loan, Image, Return, game, Hold
  <2> QED BY <2>2 DEF Promise!Next
<1>5. CASE pc' = "Compensate" /\ UNCHANGED <<state, before, game>>
  <2>1. Loan' = Loan /\ Image' = Image
    BY <1>1, <1>5 DEF Loan, Image
  <2> QED BY <1>5, <2>1, StutterKeepsPromise
<1> QED BY <1>1, <1>4, <1>5

LEMMA CompensateKeepsPromise ==
  ASSUME IInv, Compensate PROVE Promise!Next \/ UNCHANGED Promise!vars
<1>1. /\ pc = "Compensate" /\ state = "Pristine" /\ Store(held.field)
      /\ \/ /\ memory'[held.field] = held.original
            /\ held' = NoHold /\ UNCHANGED state /\ Return("ApplyFailedRolledBack")
         \/ /\ state' = "RecoveryRequired" /\ UNCHANGED held
            /\ Return("ApplyFailedRecoveryRequired")
  BY DEF Compensate, Clear, IInv, TypeOK
<1>2. /\ held \in Hold /\ held.owner = generation /\ held.field \in declared
      /\ before[held.field] = held.original
      /\ held.original \in Valid \ {held.replacement}
      /\ before \in [Field -> Value]
  BY <1>1, Held DEF IInv, InCall, TypeOK
<1>3. held = [owner |-> held.owner, field |-> held.field, phase |-> held.phase,
              original |-> held.original, replacement |-> held.replacement]
  BY <1>2 DEF Hold
<1>4. CASE /\ memory'[held.field] = held.original
           /\ held' = NoHold /\ UNCHANGED state /\ Return("ApplyFailedRolledBack")
  <2>1. memory' = before
    BY <1>1, <1>2, <1>4, CallWrites
  <2>2. Loan' = Loan /\ Image' = Image
    BY <1>1, <1>4, <2>1 DEF Loan, Image, Return
  <2> QED BY <1>4, <2>2, StutterKeepsPromise DEF Return
<1>5. CASE /\ state' = "RecoveryRequired" /\ UNCHANGED held
           /\ Return("ApplyFailedRecoveryRequired")
  <2>1. /\ Loan = NoHold /\ Loan' = held /\ Image = before
        /\ Image' = [before EXCEPT ![held.field] = memory'[held.field]]
        /\ memory'[held.field] \in Value
    BY <1>1, <1>5, CallWrites DEF Loan, Image, Return
  <2>2. Promise!Damage
    BY <1>1, <1>2, <1>3, <1>5, <2>1
       DEF Promise!Damage, Promise!Lend, Loan, Image, Return, game, Hold
  <2> QED BY <2>2 DEF Promise!Next
<1> QED BY <1>1, <1>4, <1>5

LEMMA RollbackKeepsPromise ==
  ASSUME IInv, Rollback PROVE Promise!Next \/ UNCHANGED Promise!vars
<1>1. pc = "Idle" /\ before = memory /\ Loan = held /\ Image = memory
  BY DEF Rollback, IInv, InCall, Loan, Image
<1>2. CASE \E result : Refuse(result)
  BY <1>1, <1>2, RefuseIsStutter
<1>3. CASE /\ state = "Applied"
           /\ ~(held.owner = generation /\ held.field \in declared)
           /\ \E reason : GiveUp(reason)
  <2>1. Loan' = held /\ Image' = memory /\ state' = "RecoveryRequired" /\ UNCHANGED game
    BY <1>3 DEF GiveUp, Return, Loan, Image
  <2>2. Promise!Abandon
    BY <1>1, <1>3, <2>1 DEF Promise!Abandon, Promise!Returnable, Loan, Image, game
  <2> QED BY <2>2 DEF Promise!Next
<1>4. CASE Enter("Restore") /\ UNCHANGED journal
  <2>1. Loan' = Loan /\ Image' = Image
    BY <1>1, <1>4 DEF Enter, journal, Loan, Image
  <2> QED BY <1>4, <2>1, StutterKeepsPromise DEF Enter, journal
<1> QED
  BY <1>2, <1>3, <1>4 DEF Rollback, RollbackPossible, RollbackOwnerCurrent, IsOwnerCurrent

LEMMA RestoreKeepsPromise ==
  ASSUME IInv, RestoreBaseline PROVE Promise!Next \/ UNCHANGED Promise!vars
<1>1. /\ pc = "Restore" /\ state = "Applied" /\ Store(held.field)
      /\ \/ /\ memory'[held.field] = held.original
            /\ state' = "Pristine" /\ held' = NoHold /\ Return("RolledBack")
         \/ /\ memory'[held.field] = held.replacement
            /\ UNCHANGED <<held, state>> /\ Return("RollbackFailedStillApplied")
         \/ /\ UNCHANGED held /\ state' = "RecoveryRequired"
            /\ Return("RollbackFailedRecoveryRequired")
  BY DEF RestoreBaseline, Clear, StillApplied, IInv, TypeOK
<1>2. /\ held.owner = generation /\ held.field \in declared
      /\ before[held.field] = held.replacement
      /\ before \in [Field -> Value]
      /\ Loan = held /\ Image = before
  BY <1>1 DEF IInv, InCall, TypeOK, Loan, Image
<1>3. CASE /\ memory'[held.field] = held.original
           /\ state' = "Pristine" /\ held' = NoHold /\ Return("RolledBack")
  <2>1. Loan' = NoHold /\ Image' = [before EXCEPT ![held.field] = held.original]
    BY <1>1, <1>3, CallWrites DEF Loan, Image, Return
  <2>2. Promise!Return
    BY <1>1, <1>2, <1>3, <2>1
       DEF Promise!Return, Promise!Returnable, Loan, Image, Return, game
  <2> QED BY <2>2 DEF Promise!Next
<1>4. CASE /\ memory'[held.field] = held.replacement
           /\ UNCHANGED <<held, state>> /\ Return("RollbackFailedStillApplied")
  <2>1. memory' = before
    BY <1>1, <1>2, <1>4, CallWrites
  <2>2. Loan' = Loan /\ Image' = Image
    BY <1>1, <1>4, <2>1 DEF Loan, Image, Return
  <2> QED BY <1>4, <2>2, StutterKeepsPromise DEF Return
<1>5. CASE /\ UNCHANGED held /\ state' = "RecoveryRequired"
           /\ Return("RollbackFailedRecoveryRequired")
  <2>1. /\ Loan' = held
        /\ Image' = [before EXCEPT ![held.field] = memory'[held.field]]
        /\ memory'[held.field] \in Value
    BY <1>1, <1>5, CallWrites DEF Loan, Image, Return
  <2>2. Promise!Damage
    BY <1>1, <1>2, <1>5, <2>1
       DEF Promise!Damage, Promise!Returnable, Loan, Image, Return, game
  <2> QED BY <2>2 DEF Promise!Next
<1> QED BY <1>1, <1>3, <1>4, <1>5

LEMMA GameKeepsPromise ==
  ASSUME IInv, Game PROVE Promise!Next
BY DEF Game, journal, Promise!Next, Promise!World

LEMMA NextKeepsPromise ==
  IInv /\ [Next]_vars => [Promise!Next]_(Promise!vars)
<1> SUFFICES ASSUME IInv, [Next]_vars
             PROVE  Promise!Next \/ UNCHANGED Promise!vars
  OBVIOUS
<1>1. ASSUME NEW request \in Requests, Apply(request) PROVE UNCHANGED Promise!vars
  BY <1>1, TransactIsStutter DEF Apply
<1>2. ASSUME NEW request \in Requests, ApplyEnginePropertyMutation(request)
      PROVE  UNCHANGED Promise!vars
  BY <1>2, TransactIsStutter, RefuseIsStutter DEF ApplyEnginePropertyMutation, RefuseFirst
<1>3. CASE UNCHANGED vars
  <2>1. Loan' = Loan /\ Image' = Image
    BY <1>3 DEF vars, journal, Loan, Image
  <2> QED BY <1>3, <2>1, StutterKeepsPromise DEF vars, journal
<1> QED
  BY <1>1, <1>2, <1>3, WriteKeepsPromise, CompensateKeepsPromise, RollbackKeepsPromise,
     RestoreKeepsPromise, GameKeepsPromise DEF Next

\* The journal implements LentField: whatever a writer does and reports, its
\* caller sees a field lent and returned, a loan abandoned, or a recorded damage.
THEOREM ObjectReturnsWhatItBorrows == Spec => ReturnsWhatItBorrows
<1>1. Init => Promise!Init
  BY DEF Init, Promise!Init
<1> QED
  BY <1>1, NextKeepsPromise, ObjectInvariant, PTL
     DEF Spec, ReturnsWhatItBorrows, Promise!Spec
=============================================================================
