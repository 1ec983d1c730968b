------------------------ MODULE CallbackSessionProofs ------------------------
(* The process slot is exclusive for any number of sessions and targets.   *)
(* When the host settles, no late thunk writes after a teardown, the       *)
(* diagnostics left behind add up, and an activation delivers as a queue.  *)
EXTENDS CallbackSession, TLAPS

\* The default values of the code's members have the types of the members.
LEMMA DefaultsTypeOK ==
  /\ DefaultRecord \in EventRecord
  /\ NoDiagnostics \in Diagnostics
  /\ NoBatch \in Batch
  /\ 0 \in Target
  /\ IdleThunk \in ThunkCall /\ IdleThunk.pc = "Out"
<1>1. "EndFrame" \in DOMAIN Handoff /\ Handoff["EndFrame"] = "None"
  BY DEF Handoff
<1>2. DefaultRecord \in EventRecord
  BY <1>1 DEF DefaultRecord, EventRecord
<1>3. 0 \in Target
  BY ConstantsAssumption DEF Target
<1>4. NoDiagnostics \in Diagnostics
  BY DEF NoDiagnostics, Diagnostics
<1>5. NoBatch \in Batch
  BY DEF NoBatch, Batch
<1>6. IdleThunk \in ThunkCall /\ IdleThunk.pc = "Out"
  BY <1>3 DEF IdleThunk, ThunkCall, ThunkPc
<1> QED BY <1>2, <1>3, <1>4, <1>5, <1>6

LEMMA InitTypeOK == Init => TypeOK
<1> SUFFICES ASSUME Init PROVE TypeOK
  OBVIOUS
<1>1. TargetTypeOK
  BY DefaultsTypeOK, ConstantsAssumption DEF Init, TargetTypeOK
<1>2. ProcessTypeOK
  BY DefaultsTypeOK DEF Init, ProcessTypeOK
<1>3. SessionTypeOK
  BY DefaultsTypeOK DEF Init, SessionTypeOK, SessionState, SessionPc
<1>4. HostTypeOK
  <2>1. thunk = IdleThunk /\ thunkSaved = FALSE /\ calls = 0
    BY DEF Init
  <2>2. thunk \in ThunkCall /\ thunk.pc # "Fill"
    BY <2>1, DefaultsTypeOK
  <2>3. calls \in 0..MaxCalls
    BY <2>1, ConstantsAssumption
  <2>4. thunkSaved \in BOOLEAN
    BY <2>1, Zenon
  <2> QED BY <2>2, <2>3, <2>4 DEF HostTypeOK
<1> QED BY <1>1, <1>2, <1>3, <1>4, ConstantsAssumption DEF Init, TypeOK

\* A group of variables that a step leaves alone keeps its types.
LEMMA UnchangedTypes ==
  ASSUME TypeOK
  PROVE  /\ UNCHANGED targetVars => TargetTypeOK'
         /\ UNCHANGED processVars => ProcessTypeOK'
         /\ UNCHANGED sessionVars => SessionTypeOK'
         /\ UNCHANGED hostVars => HostTypeOK'
BY DEF TypeOK, TargetTypeOK, ProcessTypeOK, SessionTypeOK, HostTypeOK,
       targetVars, processVars, sessionVars, hostVars

\* A counter of a target moves within its type.
LEMMA CounterTypes ==
  ASSUME TypeOK, NEW t \in Target, NEW n \in Nat
  PROVE  /\ [counters EXCEPT ![t].received = @ + n] \in [Target -> Diagnostics]
         /\ [counters EXCEPT ![t].unknown = @ + n] \in [Target -> Diagnostics]
         /\ [counters EXCEPT ![t].overflow = @ + n] \in [Target -> Diagnostics]
         /\ [counters EXCEPT ![t].enqueued = @ + n] \in [Target -> Diagnostics]
         /\ [counters EXCEPT ![t].drained = @ + n] \in [Target -> Diagnostics]
<1>1. counters \in [Target -> Diagnostics] /\ counters[t] \in Diagnostics
  BY DEF TypeOK, TargetTypeOK
<1>2. /\ [counters[t] EXCEPT !.received = @ + n] \in Diagnostics
      /\ [counters[t] EXCEPT !.unknown = @ + n] \in Diagnostics
      /\ [counters[t] EXCEPT !.overflow = @ + n] \in Diagnostics
      /\ [counters[t] EXCEPT !.enqueued = @ + n] \in Diagnostics
      /\ [counters[t] EXCEPT !.drained = @ + n] \in Diagnostics
  BY <1>1 DEF Diagnostics
<1> QED BY <1>1, <1>2

\* A thunk that only moves on keeps its locals.
LEMMA ThunkMovesTypeOK ==
  ASSUME TypeOK, NEW from \in ThunkPc, NEW to \in ThunkPc \ {"Fill"},
         ThunkMoves(<<from, to>>), UNCHANGED <<thunkSaved, calls>>
  PROVE  HostTypeOK'
BY DEF TypeOK, HostTypeOK, ThunkMoves, ThunkCall

LEMMA ThunkStepTypeOK == ASSUME TypeOK, ThunkStep PROVE TypeOK'
<1>t. /\ thunk.target \in Target /\ thunk.sequence \in Nat /\ thunk.write \in Nat
      /\ thunk \in ThunkCall
  BY DEF TypeOK, HostTypeOK, ThunkCall
<1>u. /\ ProcessTypeOK' /\ SessionTypeOK' /\ delivered' \in Seq(EventRecord)
      /\ attempts' \in 0..MaxAttempts
  BY UnchangedTypes
     DEF ThunkStep, CountIn, Recheck, Receive, RejectUnknown, Overflow, FindRoom,
         FillSlot, PublishRecord, CountEnqueued, CountOut, TypeOK
<1> SUFFICES TargetTypeOK' /\ HostTypeOK'
  BY <1>u DEF TypeOK
<1> USE ConstantsAssumption
<1>1. CASE CountIn
  <2>1. (inFlight[thunk.target] + 1) % InFlightModulus \in 0..(InFlightModulus - 1)
    BY <1>t DEF TypeOK, TargetTypeOK
  <2>2. TargetTypeOK'
    BY <1>1, <1>t, <2>1 DEF CountIn, TypeOK, TargetTypeOK
  <2> QED BY <1>1, <2>2, ThunkMovesTypeOK DEF CountIn, ThunkPc
<1>2. CASE Recheck
  BY <1>2, UnchangedTypes, ThunkMovesTypeOK DEF Recheck, ThunkPc, hostVars
<1>3. CASE Receive
  <2>c. counters' \in [Target -> Diagnostics]
    BY <1>3, <1>t, CounterTypes DEF Receive
  <2>1. counters'[thunk.target].received \in Nat
    BY <2>c, <1>t DEF Diagnostics
  <2>2. HostTypeOK'
    BY <1>3, <1>t, <2>1 DEF Receive, TypeOK, HostTypeOK, ThunkCall, ThunkPc
  <2> QED BY <1>3, <2>c, <2>2 DEF Receive, TypeOK, TargetTypeOK
<1>4. CASE RejectUnknown
  BY <1>4, <1>t, CounterTypes, ThunkMovesTypeOK
     DEF RejectUnknown, ThunkPc, TypeOK, TargetTypeOK
<1>5. CASE Overflow
  BY <1>5, <1>t, CounterTypes, ThunkMovesTypeOK
     DEF Overflow, ThunkPc, TypeOK, TargetTypeOK
<1>6. CASE FindRoom
  <2>1. writePosition[thunk.target] \in Nat
    BY <1>t DEF TypeOK, TargetTypeOK
  <2>2. HostTypeOK'
    BY <1>6, <1>t, <2>1 DEF FindRoom, TypeOK, HostTypeOK, ThunkCall, ThunkPc
  <2> QED BY <1>6, <2>2, UnchangedTypes DEF FindRoom
<1>7. CASE FillSlot
  <2>1. Record \in EventRecord
    BY <1>7, <1>t DEF FillSlot, ThunkMoves, Record, EventRecord, Known, TypeOK, HostTypeOK
  <2>2. thunk.write % Capacity \in 0..(Capacity - 1)
    BY <1>t
  <2>3. events' \in [Target -> [0..(Capacity - 1) -> EventRecord]]
    BY <1>7, <1>t, <2>1, <2>2 DEF FillSlot, TypeOK, TargetTypeOK
  <2> QED BY <1>7, <2>3, ThunkMovesTypeOK DEF FillSlot, ThunkPc, TypeOK, TargetTypeOK
<1>8. CASE PublishRecord
  <2>1. TargetTypeOK'
    BY <1>8, <1>t DEF PublishRecord, TypeOK, TargetTypeOK
  <2> QED BY <1>8, <2>1, ThunkMovesTypeOK DEF PublishRecord, ThunkPc
<1>9. CASE CountEnqueued
  BY <1>9, <1>t, CounterTypes, ThunkMovesTypeOK
     DEF CountEnqueued, ThunkPc, TypeOK, TargetTypeOK
<1>10. CASE CountOut
  <2>1. (inFlight[thunk.target] - 1) % InFlightModulus \in 0..(InFlightModulus - 1)
    BY <1>t DEF TypeOK, TargetTypeOK
  <2>2. TargetTypeOK'
    BY <1>10, <1>t, <2>1 DEF CountOut, TypeOK, TargetTypeOK
  <2>3. HostTypeOK'
    BY <1>10, DefaultsTypeOK DEF CountOut, TypeOK, HostTypeOK, IdleThunk
  <2> QED BY <2>2, <2>3
<1> QED
  BY <1>1, <1>2, <1>3, <1>4, <1>5, <1>6, <1>7, <1>8, <1>9, <1>10 DEF ThunkStep

\* A thunk call starts with the target it loaded.
LEMMA EnterThunkTypeOK ==
  ASSUME TypeOK, NEW id \in CallbackId, EnterThunk(id) PROVE TypeOK'
<1>1. published \in Target
  BY DEF EnterThunk, TypeOK, ProcessTypeOK
<1>2. thunk' \in ThunkCall /\ thunk'.pc = "Loaded"
  BY <1>1, DefaultsTypeOK DEF EnterThunk, ThunkCall, ThunkPc
<1>3. calls' \in 0..MaxCalls /\ thunkSaved' \in BOOLEAN
  BY ConstantsAssumption DEF EnterThunk, TypeOK, HostTypeOK
<1>4. HostTypeOK'
  BY <1>2, <1>3 DEF HostTypeOK
<1> QED BY <1>4, UnchangedTypes DEF EnterThunk, TypeOK

\* The steps of a session that only move on or settle its state.
LEMMA SessionMovesTypeOK ==
  ASSUME TypeOK, NEW s \in Session, NEW from \in SessionPc, NEW to \in SessionPc,
         SessionMoves(s, from, to)
  PROVE  pc' \in [Session -> SessionPc]
BY DEF TypeOK, SessionTypeOK, SessionMoves

LEMMA CallTypeOK == ASSUME TypeOK, NEW s \in Session, Call(s) PROVE TypeOK'
<1> USE ConstantsAssumption
<1>1. CASE Bootstrap(s) \/ RetryRenderReadiness(s)
  <2>s. ASSUME NEW state \in SessionState, Settle(s, state) PROVE SessionTypeOK'
    BY <2>s DEF Settle, TypeOK, SessionTypeOK
  <2>b. ASSUME BeginActivate(s) PROVE SessionTypeOK'
    <3>1. pc' \in [Session -> SessionPc]
      BY <2>b, SessionMovesTypeOK DEF BeginActivate, SessionPc
    <3> QED BY <3>1, <2>b DEF BeginActivate, TypeOK, SessionTypeOK
  <2>1. SessionTypeOK'
    BY <1>1, <2>s, <2>b DEF Bootstrap, RetryRenderReadiness, SessionState
  <2>2. attempts' \in 0..MaxAttempts
    BY <1>1 DEF Bootstrap, RetryRenderReadiness, BeginActivate, TypeOK
  <2> QED
    BY <1>1, <2>1, <2>2, UnchangedTypes DEF Bootstrap, RetryRenderReadiness, TypeOK
<1>2. ASSUME NEW state \in {"Stopped", "Failed"}, Terminate(s, state) PROVE TypeOK'
  <2>1. SessionTypeOK'
    BY <1>2, SessionMovesTypeOK
       DEF Terminate, Settle, SessionPc, TypeOK, SessionTypeOK, SessionState
  <2> QED BY <1>2, <2>1, UnchangedTypes DEF Terminate, TypeOK
<1>3. CASE Renew(s)
  <2>1. SessionTypeOK'
    BY <1>3, DefaultsTypeOK DEF Renew, TypeOK, SessionTypeOK, SessionState
  <2> QED BY <1>3, <2>1, UnchangedTypes DEF Renew, TypeOK
<1>4. ASSUME NEW size \in 1..Capacity, Drain(s, size) PROVE TypeOK'
  <2> DEFINE t == targetIndex[s]
             available == writePosition[t] - readPosition[t]
             count == IF available < size THEN available ELSE size
             taken == [next |-> readPosition[t], last |-> readPosition[t] + count,
                       records |-> <<>>]
  <2>1. readPosition[t] \in Nat /\ writePosition[t] \in Nat
    BY DEF TypeOK, TargetTypeOK, SessionTypeOK
  <2>2. count \in Nat
    BY <2>1, <1>4 DEF Drain
  <2>3. taken \in Batch
    BY <2>1, <2>2 DEF Batch
  <2>4. SessionTypeOK'
    BY <1>4, <2>3, SessionMovesTypeOK DEF Drain, SessionPc, TypeOK, SessionTypeOK
  <2> QED BY <1>4, <2>4, UnchangedTypes DEF Drain, TypeOK
<1> QED BY <1>1, <1>2, <1>3, <1>4 DEF Call, Stop, Fail

LEMMA SessionStepTypeOK ==
  ASSUME TypeOK, NEW s \in Session, SessionStep(s) PROVE TypeOK'
<1> USE ConstantsAssumption
<1>t. targetIndex[s] \in Target /\ batch[s] \in Batch /\ final[s] \in SessionState
  BY DEF TypeOK, SessionTypeOK, SessionState
<1>1. CASE Reserve(s)
  <2>1. SessionTypeOK'
    BY <1>1, SessionMovesTypeOK DEF Reserve, SessionPc, TypeOK, SessionTypeOK, SessionState
  <2>2. ProcessTypeOK'
    BY <1>1 DEF Reserve, TypeOK, ProcessTypeOK
  <2> QED BY <1>1, <2>1, <2>2, UnchangedTypes DEF Reserve, hostVars, TypeOK
<1>2. CASE ResetTarget(s)
  <2>1. nextTarget \in Target /\ TargetAfter(nextTarget) \in Target
    BY DEF TypeOK, ProcessTypeOK, Target, TargetAfter
  <2>2. TargetTypeOK'
    BY <1>2, <2>1, DefaultsTypeOK DEF ResetTarget, TypeOK, TargetTypeOK
  <2>3. SessionTypeOK'
    BY <1>2, <2>1, DefaultsTypeOK, SessionMovesTypeOK
       DEF ResetTarget, SessionPc, TypeOK, SessionTypeOK
  <2>4. ProcessTypeOK' /\ delivered' \in Seq(EventRecord)
    BY <1>2, <2>1 DEF ResetTarget, TypeOK, ProcessTypeOK
  <2> QED BY <1>2, <2>2, <2>3, <2>4, UnchangedTypes DEF ResetTarget, TypeOK
<1>3. CASE PublishTarget(s) \/ Unpublish(s)
  <2>1. SessionTypeOK'
    BY <1>3, SessionMovesTypeOK
       DEF PublishTarget, Unpublish, SessionPc, TypeOK, SessionTypeOK
  <2>2. ProcessTypeOK'
    BY <1>3, <1>t DEF PublishTarget, Unpublish, TypeOK, ProcessTypeOK
  <2> QED BY <1>3, <2>1, <2>2, UnchangedTypes DEF PublishTarget, Unpublish, TypeOK
<1>4. CASE Register(s)
  <2>1. SessionTypeOK'
    BY <1>4, SessionMovesTypeOK DEF Register, SessionPc, TypeOK, SessionTypeOK, SessionState
  <2>2. HostTypeOK'
    BY <1>4 DEF Register, TypeOK, HostTypeOK
  <2> QED BY <1>4, <2>1, <2>2, UnchangedTypes DEF Register, TypeOK
<1>5. CASE AwaitCallbacks(s)
  <2>1. SessionTypeOK'
    BY <1>5, SessionMovesTypeOK DEF AwaitCallbacks, SessionPc, TypeOK, SessionTypeOK
  <2> QED BY <1>5, <2>1, UnchangedTypes DEF AwaitCallbacks, TypeOK
<1>6. CASE SnapshotDiagnostics(s)
  <2>1. counters[targetIndex[s]] \in Diagnostics
    BY <1>t DEF TypeOK, TargetTypeOK
  <2>2. SessionTypeOK'
    BY <1>6, <2>1, SessionMovesTypeOK DEF SnapshotDiagnostics, SessionPc, TypeOK, SessionTypeOK
  <2> QED BY <1>6, <2>2, UnchangedTypes DEF SnapshotDiagnostics, TypeOK
<1>7. CASE ReleaseSlot(s)
  <2>1. SessionTypeOK'
    BY <1>7, <1>t, SessionMovesTypeOK DEF ReleaseSlot, SessionPc, TypeOK, SessionTypeOK
  <2>2. ProcessTypeOK'
    BY <1>7 DEF ReleaseSlot, TypeOK, ProcessTypeOK
  <2> QED BY <1>7, <2>1, <2>2, UnchangedTypes DEF ReleaseSlot, TypeOK
<1>8. CASE CopySlot(s)
  <2> DEFINE copied == events[targetIndex[s]][batch[s].next % Capacity]
  <2>1. batch[s].next % Capacity \in 0..(Capacity - 1)
    BY <1>t DEF Batch
  <2>2. copied \in EventRecord
    BY <1>t, <2>1 DEF TypeOK, TargetTypeOK
  <2>3. Append(batch[s].records, copied) \in Seq(EventRecord)
    BY <1>t, <2>2 DEF Batch
  <2>4. [next |-> batch[s].next + 1, last |-> batch[s].last,
         records |-> Append(batch[s].records, copied)] \in Batch
    BY <1>t, <2>3 DEF Batch
  <2>5. SessionTypeOK'
    BY <1>8, <2>4 DEF CopySlot, SessionPc, TypeOK, SessionTypeOK
  <2> QED BY <1>8, <2>5, UnchangedTypes DEF CopySlot, TypeOK
<1>9. CASE CommitDrain(s)
  <2>1. batch[s].next \in Nat /\ batch[s].records \in Seq(EventRecord)
    BY <1>t DEF Batch
  <2>2. Len(batch[s].records) \in Nat /\ delivered' \in Seq(EventRecord)
    BY <1>9, <2>1 DEF CommitDrain, TypeOK
  <2>3. TargetTypeOK'
    BY <1>9, <1>t, <2>1, <2>2, CounterTypes DEF CommitDrain, TypeOK, TargetTypeOK
  <2>4. SessionTypeOK'
    BY <1>9, DefaultsTypeOK, SessionMovesTypeOK
       DEF CommitDrain, SessionPc, TypeOK, SessionTypeOK
  <2> QED BY <1>9, <2>2, <2>3, <2>4, UnchangedTypes DEF CommitDrain, TypeOK
<1> QED
  BY <1>1, <1>2, <1>3, <1>4, <1>5, <1>6, <1>7, <1>8, <1>9 DEF SessionStep

LEMMA NextTypeOK == TypeOK /\ [Next]_vars => TypeOK'
<1> SUFFICES ASSUME TypeOK, [Next]_vars PROVE TypeOK'
  OBVIOUS
<1>1. CASE UNCHANGED vars
  BY <1>1, UnchangedTypes DEF vars, TypeOK
<1> QED
  BY <1>1, EnterThunkTypeOK, ThunkStepTypeOK, CallTypeOK, SessionStepTypeOK DEF Next

\* All members of the session, the targets and the thunk stay in range.
THEOREM SessionTypeCorrect == Spec => []TypeOK
<1> QED BY InitTypeOK, NextTypeOK, PTL DEF Spec

-----------------------------------------------------------------------------
LEMMA InitSlotInv == Init => SlotInv
BY DEF Init, SlotInv, SessionConsistent, Holds, SessionState, OwningPc

\* Only the steps of sessions touch the slot and what guards it.
LEMMA ForeignStepSlotInv ==
  ASSUME SlotInv, UNCHANGED <<processVars, sessionVars>> PROVE SlotInv'
BY DEF SlotInv, SessionConsistent, Holds, processVars, sessionVars

\* A step inside an operation of the slot's holder that keeps its ownership.
LEMMA HolderStepSlotInv ==
  ASSUME TypeOK, SlotInv, NEW s \in Session,
         NEW from \in OwningPc, NEW to \in OwningPc,
         owns[s], SessionMoves(s, from, to), from \in PublishedPc => to \in PublishedPc,
         to \in {"Ready", "Copy", "Commit"} => sessionState[s] = "Active",
         \A r \in Session \ {s} : registered'[r] = registered[r],
         registered'[s] => to \in {"Ready", "Copy", "Commit"},
         UNCHANGED <<processVars, sessionState, targetIndex, owns>>
  PROVE  SlotInv'
<1>1. /\ pc'[s] = to /\ pc[s] = from
      /\ \A r \in Session : r # s => pc'[r] = pc[r]
  BY DEF SessionMoves, TypeOK, SessionTypeOK
<1>2. \A r \in Session : Holds(r)' <=> Holds(r)
  BY <1>1 DEF Holds
<1>3. \A r \in Session : SessionConsistent(r)'
  BY <1>1, <1>2 DEF SlotInv, SessionConsistent
<1> QED BY <1>1, <1>2, <1>3 DEF SlotInv, processVars

\* A step of a session that does not hold the slot, and does not come to.
LEMMA OutsiderStepSlotInv ==
  ASSUME TypeOK, SlotInv, NEW s \in Session, ~Holds(s), ~Holds(s)',
         pc'[s] \in {"Ready", "Reserve"}, sessionState'[s] # "Active",
         \A r \in Session \ {s} :
           pc'[r] = pc[r] /\ sessionState'[r] = sessionState[r],
         \A r \in Session \ {s} : targetIndex'[r] = targetIndex[r],
         UNCHANGED <<processVars, owns, registered>>
  PROVE  SlotInv'
<1>1. \A r \in Session : Holds(r)' <=> Holds(r)
  BY DEF Holds
<1>2. \A r \in Session : SessionConsistent(r)'
  BY <1>1 DEF SlotInv, SessionConsistent, Holds, OwningPc
<1>3. ASSUME published # NoTarget
      PROVE  \E r \in Session : owns[r] /\ targetIndex'[r] = published /\ pc'[r] \in PublishedPc
  BY <1>3 DEF SlotInv, Holds
<1> QED BY <1>1, <1>2, <1>3 DEF SlotInv, processVars

LEMMA CallSlotInv ==
  ASSUME TypeOK, SlotInv, NEW s \in Session, Call(s) PROVE SlotInv'
<1>t. /\ pc \in [Session -> SessionPc] /\ sessionState \in [Session -> SessionState]
      /\ owns \in [Session -> BOOLEAN] /\ registered \in [Session -> BOOLEAN]
      /\ targetIndex \in [Session -> Target]
  BY DEF TypeOK, SessionTypeOK
<1>c. SessionConsistent(s)
  BY DEF SlotInv
<1>1. ASSUME pc[s] = "Ready", ~owns[s], BeginActivate(s),
             sessionState[s] # "Active", UNCHANGED processVars
      PROVE  SlotInv'
  BY <1>1, <1>t, OutsiderStepSlotInv DEF BeginActivate, SessionMoves, Holds
<1>2. ASSUME pc[s] = "Ready", ~owns[s], NEW state \in SessionState \ {"Active"},
             Settle(s, state), UNCHANGED processVars
      PROVE  SlotInv'
  BY <1>2, <1>t, OutsiderStepSlotInv DEF Settle, Holds
<1>3. CASE Bootstrap(s) \/ RetryRenderReadiness(s)
  <2>1. /\ pc[s] = "Ready" /\ sessionState[s] # "Active" /\ UNCHANGED processVars
        /\ BeginActivate(s) \/ \E state \in SessionState \ {"Active"} : Settle(s, state)
    BY <1>3 DEF Bootstrap, RetryRenderReadiness, SessionState
  <2>2. ~owns[s]
    BY <1>c, <2>1 DEF SessionConsistent
  <2> QED BY <2>1, <2>2, <1>1, <1>2
<1>4. ASSUME NEW state \in {"Stopped", "Failed"}, Terminate(s, state) PROVE SlotInv'
  <2>1. CASE owns[s]
    BY <1>4, <2>1, <1>t, HolderStepSlotInv
       DEF Terminate, OwningPc, PublishedPc
  <2>2. CASE ~owns[s]
    BY <1>4, <2>2, <1>2 DEF Terminate, SessionState
  <2> QED BY <2>1, <2>2
<1>5. CASE Renew(s)
  <2>1. pc[s] = "Ready" /\ sessionState[s] = "Stopped" /\ ~owns[s]
    BY <1>5, <1>c DEF Renew, SessionConsistent
  <2> QED BY <1>5, <2>1, <1>t, OutsiderStepSlotInv DEF Renew, Holds
<1>6. ASSUME NEW size \in 1..Capacity, Drain(s, size) PROVE SlotInv'
  BY <1>6, HolderStepSlotInv DEF Drain, OwningPc, PublishedPc
<1> QED BY <1>3, <1>4, <1>5, <1>6 DEF Call, Stop, Fail

LEMMA SessionStepSlotInv ==
  ASSUME TypeOK, SlotInv, NEW s \in Session, SessionStep(s) PROVE SlotInv'
<1>t. /\ pc \in [Session -> SessionPc] /\ sessionState \in [Session -> SessionState]
      /\ owns \in [Session -> BOOLEAN] /\ registered \in [Session -> BOOLEAN]
      /\ targetIndex \in [Session -> Target] /\ final \in [Session -> {"Stopped", "Failed"}]
      /\ nextTarget \in Target
  BY DEF TypeOK, SessionTypeOK, ProcessTypeOK
<1>c. /\ \A r \in Session : SessionConsistent(r)
      /\ \A q, r \in Session : Holds(q) /\ Holds(r) => q = r
  BY DEF SlotInv
<1>1. CASE Reserve(s)
  <2>1. pc[s] = "Reserve" /\ ~Holds(s) /\ sessionState[s] # "Active" /\ ~owns[s]
    BY <1>1, <1>c DEF Reserve, SessionMoves, SessionConsistent, Holds, OwningPc
  <2>2. CASE slotReserved
    BY <1>1, <2>1, <2>2, <1>t, OutsiderStepSlotInv
       DEF Reserve, SessionMoves, Holds, processVars
  <2>3. CASE ~slotReserved
    <3>1. /\ pc' = [pc EXCEPT ![s] = "Reset"] /\ slotReserved' = TRUE
          /\ UNCHANGED <<sessionState, targetIndex, owns, registered, published>>
      BY <1>1, <2>3 DEF Reserve, SessionMoves
    <3>2. \A r \in Session : ~Holds(r)
      BY <2>3 DEF SlotInv
    <3>3. \A r \in Session : Holds(r)' <=> r = s
      BY <3>1, <3>2, <1>t DEF Holds
    <3>4. \A r \in Session : SessionConsistent(r)'
      BY <3>1, <3>2, <3>3, <1>c, <1>t, <2>1 DEF SessionConsistent, Holds, OwningPc
    <3>5. published' = NoTarget
      BY <3>1, <3>2 DEF SlotInv, Holds
    <3> QED BY <3>1, <3>3, <3>4, <3>5 DEF SlotInv
  <2> QED BY <2>2, <2>3
<1>2. CASE ResetTarget(s)
  <2>1. /\ pc[s] = "Reset" /\ pc' = [pc EXCEPT ![s] = "Publish"]
        /\ owns' = [owns EXCEPT ![s] = TRUE]
        /\ targetIndex' = [targetIndex EXCEPT ![s] = nextTarget]
        /\ UNCHANGED <<sessionState, registered, published, slotReserved>>
    BY <1>2 DEF ResetTarget, SessionMoves
  <2>2. Holds(s) /\ ~owns[s] /\ \A r \in Session : owns[r] => r = s
    BY <2>1, <1>c DEF Holds, SessionConsistent, OwningPc
  <2>3. \A r \in Session : Holds(r)' <=> Holds(r)
    BY <2>1, <2>2, <1>t DEF Holds
  <2>4. \A r \in Session : SessionConsistent(r)'
    BY <2>1, <2>2, <2>3, <1>c, <1>t DEF SessionConsistent, OwningPc
  <2>5. published' = NoTarget
    BY <2>1, <2>2 DEF SlotInv
  <2> QED BY <2>1, <2>3, <2>4, <2>5 DEF SlotInv
<1>3. CASE PublishTarget(s)
  <2>1. /\ pc[s] = "Publish" /\ pc' = [pc EXCEPT ![s] = "Register"]
        /\ published' = targetIndex[s]
        /\ UNCHANGED <<sessionState, registered, owns, targetIndex, slotReserved>>
    BY <1>3 DEF PublishTarget, SessionMoves
  <2>2. owns[s]
    BY <2>1, <1>c DEF SessionConsistent, OwningPc
  <2>3. \A r \in Session : Holds(r)' <=> Holds(r)
    BY <2>1, <1>t DEF Holds
  <2>4. \A r \in Session : SessionConsistent(r)'
    BY <2>1, <2>2, <2>3, <1>c, <1>t DEF SessionConsistent, OwningPc
  <2>5. owns'[s] /\ targetIndex'[s] = published' /\ pc'[s] \in PublishedPc
    BY <2>1, <2>2, <1>t DEF PublishedPc
  <2> QED BY <2>1, <2>3, <2>4, <2>5 DEF SlotInv
<1>4. CASE Register(s)
  <2>1. /\ pc[s] = "Register" /\ pc' = [pc EXCEPT ![s] = "Ready"]
        /\ sessionState' = [sessionState EXCEPT ![s] = "Active"]
        /\ registered' = [registered EXCEPT ![s] = TRUE]
        /\ UNCHANGED <<owns, targetIndex, slotReserved, published>>
    BY <1>4 DEF Register, SessionMoves, processVars
  <2>2. owns[s]
    BY <2>1, <1>c DEF SessionConsistent, OwningPc
  <2>3. \A r \in Session : Holds(r)' <=> Holds(r)
    BY <2>1, <1>t DEF Holds
  <2>4. \A r \in Session : SessionConsistent(r)'
    BY <2>1, <2>2, <2>3, <1>c, <1>t DEF SessionConsistent, OwningPc, Holds
  <2>5. \A r \in Session : pc[r] \in PublishedPc => pc'[r] \in PublishedPc
    BY <2>1, <1>t DEF PublishedPc
  <2> QED BY <2>1, <2>3, <2>4, <2>5 DEF SlotInv
<1>5. CASE Unpublish(s)
  <2>1. /\ pc[s] = "Unpublish" /\ pc' = [pc EXCEPT ![s] = "Await"]
        /\ published' = IF published = targetIndex[s] THEN NoTarget ELSE published
        /\ UNCHANGED <<sessionState, registered, owns, targetIndex, slotReserved>>
    BY <1>5 DEF Unpublish, SessionMoves
  <2>2. owns[s]
    BY <2>1, <1>c DEF SessionConsistent, OwningPc
  <2>3. \A r \in Session : Holds(r)' <=> Holds(r)
    BY <2>1, <1>t DEF Holds
  <2>4. \A r \in Session : SessionConsistent(r)'
    BY <2>1, <2>2, <2>3, <1>c, <1>t DEF SessionConsistent, OwningPc
  <2>5. published' = NoTarget
    BY <2>1, <2>2, <1>c DEF SlotInv, Holds
  <2> QED BY <2>1, <2>3, <2>4, <2>5 DEF SlotInv
<1>6. CASE AwaitCallbacks(s)
  <2>1. owns[s] /\ ~registered[s]
    BY <1>6, <1>c DEF AwaitCallbacks, SessionMoves, SessionConsistent, OwningPc
  <2> QED BY <1>6, <2>1, HolderStepSlotInv DEF AwaitCallbacks, OwningPc, PublishedPc
<1>7. CASE SnapshotDiagnostics(s)
  <2>1. /\ pc[s] = "Snapshot" /\ pc' = [pc EXCEPT ![s] = "Release"]
        /\ owns' = [owns EXCEPT ![s] = FALSE]
        /\ UNCHANGED <<sessionState, registered, targetIndex, slotReserved, published>>
    BY <1>7 DEF SnapshotDiagnostics, SessionMoves, processVars
  <2>2. owns[s] /\ \A r \in Session : owns[r] => r = s
    BY <2>1, <1>c DEF SessionConsistent, OwningPc, Holds
  <2>3. \A r \in Session : Holds(r)' <=> Holds(r)
    BY <2>1, <2>2, <1>t DEF Holds
  <2>4. published' = NoTarget
    BY <2>1, <2>2 DEF SlotInv, PublishedPc
  <2>5. \A r \in Session : SessionConsistent(r)'
    BY <2>1, <2>2, <2>3, <1>c, <1>t DEF SessionConsistent, OwningPc
  <2> QED BY <2>1, <2>3, <2>4, <2>5 DEF SlotInv
<1>8. CASE ReleaseSlot(s)
  <2>1. /\ pc[s] = "Release" /\ pc' = [pc EXCEPT ![s] = "Ready"]
        /\ sessionState' = [sessionState EXCEPT ![s] = final[s]]
        /\ slotReserved' = FALSE
        /\ UNCHANGED <<owns, registered, targetIndex, published>>
    BY <1>8 DEF ReleaseSlot, SessionMoves
  <2>2. ~owns[s] /\ \A r \in Session : Holds(r) => r = s
    BY <2>1, <1>c DEF SessionConsistent, OwningPc, Holds
  <2>3. \A r \in Session : ~Holds(r)'
    BY <2>1, <2>2, <1>t DEF Holds
  <2>4. \A r \in Session : SessionConsistent(r)'
    BY <2>1, <2>2, <2>3, <1>c, <1>t DEF SessionConsistent, OwningPc, Holds
  <2>5. published' = NoTarget
    BY <2>1, <2>2 DEF SlotInv, Holds
  <2> QED BY <2>1, <2>3, <2>4, <2>5 DEF SlotInv
<1>9. CASE CopySlot(s) \/ CommitDrain(s)
  <2>1. owns[s] /\ pc[s] \in {"Copy", "Commit"} /\ sessionState[s] = "Active"
    BY <1>9, <1>c DEF CopySlot, CommitDrain, SessionMoves, SessionConsistent, OwningPc
  <2>2. \E from \in {"Copy", "Commit"}, to \in {"Copy", "Commit", "Ready"} :
          SessionMoves(s, from, to)
    BY <1>9, <1>t DEF CopySlot, CommitDrain, SessionMoves
  <2>3. UNCHANGED <<processVars, sessionState, targetIndex, owns, registered>>
    BY <1>9 DEF CopySlot, CommitDrain
  <2> QED BY <2>1, <2>2, <2>3, HolderStepSlotInv DEF OwningPc, PublishedPc
<1> QED
  BY <1>1, <1>2, <1>3, <1>4, <1>5, <1>6, <1>7, <1>8, <1>9 DEF SessionStep

LEMMA NextSlotInv == TypeOK /\ SlotInv /\ [Next]_vars => SlotInv'
<1> SUFFICES ASSUME TypeOK, SlotInv, [Next]_vars PROVE SlotInv'
  OBVIOUS
<1>1. CASE ThunkStep \/ (\E id \in CallbackId : EnterThunk(id)) \/ UNCHANGED vars
  <2>1. UNCHANGED <<processVars, sessionVars>>
    BY <1>1
       DEF ThunkStep, EnterThunk, CountIn, Recheck, Receive, RejectUnknown, Overflow,
           FindRoom, FillSlot, PublishRecord, CountEnqueued, CountOut, vars
  <2> QED BY <2>1, ForeignStepSlotInv
<1> QED BY <1>1, CallSlotInv, SessionStepSlotInv DEF Next

\* For any number of sessions on any number of threads, at most one holds the
\* process slot, and only its target is published, registered or active.
THEOREM SlotIsExclusive == Spec => []SlotExclusion
<1>1. SlotInv => SlotExclusion
  BY DEF SlotInv, SlotExclusion, SessionConsistent, Holds
<1> QED
  BY <1>1, InitTypeOK, NextTypeOK, InitSlotInv, NextSlotInv, PTL DEF Spec

-----------------------------------------------------------------------------
LEMMA InitLateThunkInv == Init => LateThunkInv
BY DEF Init, LateThunkInv, InFlightExact, IdleThunk, CountedIn, Delivering

\* The thunk's own steps: the count follows the call in and out.
LEMMA ThunkStepLateThunkInv ==
  ASSUME TypeOK, SlotInv, LateThunkInv,
         ThunkStep \/ \E id \in CallbackId : EnterThunk(id)
  PROVE  LateThunkInv'
<1> USE ConstantsAssumption
<1>t. /\ thunk \in ThunkCall /\ thunk.target \in Target
      /\ inFlight \in [Target -> 0..(InFlightModulus - 1)]
  BY DEF TypeOK, HostTypeOK, TargetTypeOK, ThunkCall
<1>1. ASSUME NEW id \in CallbackId, EnterThunk(id) PROVE LateThunkInv'
  BY <1>1, <1>t
     DEF EnterThunk, targetVars, LateThunkInv, InFlightExact, CountedIn, Delivering,
         IdleThunk, ThunkCall
<1>2. CASE CountIn
  <2>1. /\ thunk.pc = "Loaded" /\ thunk'.pc = "Counted" /\ thunk'.target = thunk.target
        /\ inFlight' = [inFlight EXCEPT ![thunk.target] = (@ + 1) % InFlightModulus]
    BY <1>2, <1>t DEF CountIn, ThunkMoves, ThunkCall
  <2>2. inFlight[thunk.target] = 0 /\ (0 + 1) % InFlightModulus = 1
    BY <2>1, <1>t DEF LateThunkInv, InFlightExact, CountedIn, Delivering
  <2> QED
    BY <2>1, <2>2, <1>t DEF LateThunkInv, InFlightExact, CountedIn, Delivering
<1>3. CASE Recheck
  <2>1. /\ thunk.pc = "Counted" /\ thunk'.target = thunk.target
        /\ thunk'.pc \in {"Leaving", "Admitted"}
        /\ thunk'.pc = "Admitted" => published = thunk.target
        /\ UNCHANGED <<inFlight, owns, targetIndex, pc, published>>
    BY <1>3, <1>t DEF Recheck, ThunkMoves, ThunkCall, targetVars, processVars, sessionVars
  <2>2. thunk.target # NoTarget
    BY <1>t DEF Target, NoTarget
  <2> QED
    BY <2>1, <2>2 DEF LateThunkInv, InFlightExact, CountedIn, Delivering, SlotInv
<1>4. CASE CountOut
  <2>1. /\ thunk.pc = "Leaving" /\ thunk'.pc = "Out"
        /\ inFlight' = [inFlight EXCEPT ![thunk.target] = (@ - 1) % InFlightModulus]
    BY <1>4, <1>t DEF CountOut, IdleThunk
  <2>2. inFlight[thunk.target] = 1 /\ (1 - 1) % InFlightModulus = 0
    BY <2>1, <1>t DEF LateThunkInv, InFlightExact, CountedIn
  <2> QED
    BY <2>1, <2>2, <1>t DEF LateThunkInv, InFlightExact, CountedIn, Delivering
<1>5. CASE Receive \/ RejectUnknown \/ Overflow \/ FindRoom \/ FillSlot
             \/ PublishRecord \/ CountEnqueued
  <2>1. /\ thunk.pc \in Delivering /\ thunk'.target = thunk.target
        /\ thunk'.pc \in Delivering \cup {"Leaving"}
        /\ UNCHANGED <<inFlight, owns, targetIndex, pc>>
    BY <1>5, <1>t
       DEF Receive, RejectUnknown, Overflow, FindRoom, FillSlot, PublishRecord,
           CountEnqueued, ThunkMoves, ThunkCall, targetVars, sessionVars, Delivering
  <2> QED BY <2>1 DEF LateThunkInv, InFlightExact, CountedIn, Delivering
<1> QED BY <1>1, <1>2, <1>3, <1>4, <1>5 DEF ThunkStep

\* A step that leaves the thunk, the counts and the owners alone, and takes
\* no session out of service.
LEMMA QuietStepLateThunkInv ==
  ASSUME LateThunkInv, UNCHANGED <<thunk, inFlight>>,
         \A r \in Session :
           owns[r] /\ pc[r] \in PublishedPc \cup {"Await"}
             => /\ owns'[r] /\ targetIndex'[r] = targetIndex[r]
                /\ pc'[r] \in PublishedPc \cup {"Await"}
  PROVE  LateThunkInv'
BY DEF LateThunkInv, InFlightExact

LEMMA SessionLateThunkInv ==
  ASSUME HostSettles, TypeOK, SlotInv, LateThunkInv, NEW s \in Session,
         Call(s) \/ SessionStep(s)
  PROVE  LateThunkInv'
<1>t. /\ pc \in [Session -> SessionPc] /\ owns \in [Session -> BOOLEAN]
      /\ targetIndex \in [Session -> Target] /\ nextTarget \in Target
      /\ thunk \in ThunkCall /\ thunk.target \in Target
      /\ inFlight \in [Target -> 0..(InFlightModulus - 1)]
  BY DEF TypeOK, SessionTypeOK, ProcessTypeOK, HostTypeOK, TargetTypeOK, ThunkCall
<1>c. SessionConsistent(s)
  BY DEF SlotInv
<1>1. CASE Bootstrap(s) \/ RetryRenderReadiness(s)
  <2>1. /\ UNCHANGED <<thunk, inFlight, owns, targetIndex>>
        /\ \A r \in Session : owns[r] => pc'[r] = pc[r]
    BY <1>1, <1>c, <1>t
       DEF Bootstrap, RetryRenderReadiness, Settle, BeginActivate, SessionMoves,
           targetVars, hostVars, SessionConsistent
  <2> QED BY <2>1, QuietStepLateThunkInv
<1>2. ASSUME NEW state \in {"Stopped", "Failed"}, Terminate(s, state)
      PROVE  LateThunkInv'
  <2>1. /\ UNCHANGED <<thunk, inFlight, owns, targetIndex>>
        /\ pc' = pc \/ pc' = [pc EXCEPT ![s] = "Unpublish"]
    BY <1>2 DEF Terminate, Settle, SessionMoves, targetVars, hostVars
  <2> QED BY <2>1, <1>t, QuietStepLateThunkInv DEF PublishedPc
<1>3. CASE Renew(s)
  <2>1. ~owns[s]
    BY <1>3, <1>c DEF Renew, SessionConsistent
  <2> QED BY <1>3, <2>1, <1>t, QuietStepLateThunkInv DEF Renew, targetVars, hostVars
<1>4. ASSUME NEW size \in 1..Capacity, Drain(s, size) PROVE LateThunkInv'
  BY <1>4, <1>t, QuietStepLateThunkInv
     DEF Drain, SessionMoves, targetVars, hostVars, PublishedPc
<1>5. CASE Reserve(s)
  <2>1. ~owns[s]
    BY <1>5, <1>c DEF Reserve, SessionMoves, SessionConsistent, OwningPc
  <2> QED
    BY <1>5, <2>1, <1>t, QuietStepLateThunkInv
       DEF Reserve, SessionMoves, targetVars, hostVars
<1>6. CASE ResetTarget(s)
  <2>1. /\ ~owns[s] /\ UNCHANGED thunk
        /\ ~(thunk.pc # "Out" /\ thunk.target = nextTarget)
        /\ inFlight' = [inFlight EXCEPT ![nextTarget] = 0]
        /\ owns' = [owns EXCEPT ![s] = TRUE]
        /\ targetIndex' = [targetIndex EXCEPT ![s] = nextTarget]
        /\ pc' = [pc EXCEPT ![s] = "Publish"]
    BY <1>6, <1>c
       DEF ResetTarget, SessionMoves, SessionConsistent, OwningPc, hostVars
  <2>2. InFlightExact'
    BY <2>1, <1>t DEF LateThunkInv, InFlightExact, CountedIn, Delivering
  <2>3. thunk.pc \in Delivering =>
          \E r \in Session :
            /\ owns'[r] /\ targetIndex'[r] = thunk.target
            /\ pc'[r] \in PublishedPc \cup {"Await"}
    BY <2>1, <1>t DEF LateThunkInv
  <2> QED BY <2>1, <2>2, <2>3 DEF LateThunkInv
<1>7. CASE PublishTarget(s) \/ Register(s) \/ Unpublish(s) \/ CopySlot(s) \/ CommitDrain(s)
  <2>1. /\ UNCHANGED <<thunk, inFlight, owns, targetIndex>>
        /\ \E to \in PublishedPc \cup {"Await"} : pc' = [pc EXCEPT ![s] = to]
    BY <1>7, <1>t
       DEF PublishTarget, Register, Unpublish, CopySlot, CommitDrain, SessionMoves,
           targetVars, hostVars, PublishedPc
  <2> QED BY <2>1, <1>t, QuietStepLateThunkInv
<1>8. CASE AwaitCallbacks(s)
  <2>1. /\ inFlight[targetIndex[s]] = 0 /\ UNCHANGED <<thunk, inFlight, owns, targetIndex>>
        /\ \A r \in Session : r # s => pc'[r] = pc[r]
    BY <1>8, <1>t DEF AwaitCallbacks, SessionMoves, targetVars, hostVars
  <2>2. thunk.pc \in Delivering => thunk.target # targetIndex[s]
    BY <2>1, <1>t DEF LateThunkInv, InFlightExact, CountedIn
  <2> QED BY <2>1, <2>2 DEF LateThunkInv, InFlightExact
<1>9. CASE SnapshotDiagnostics(s) \/ ReleaseSlot(s)
  <2>1. /\ UNCHANGED <<thunk, inFlight, targetIndex>>
        /\ pc[s] \in {"Snapshot", "Release"}
        /\ \A r \in Session : r # s => owns'[r] = owns[r] /\ pc'[r] = pc[r]
    BY <1>9, <1>t DEF SnapshotDiagnostics, ReleaseSlot, SessionMoves, targetVars, hostVars
  <2> QED BY <2>1, <1>c, QuietStepLateThunkInv DEF PublishedPc, SessionConsistent
<1> QED
  BY <1>1, <1>2, <1>3, <1>4, <1>5, <1>6, <1>7, <1>8, <1>9
     DEF Call, SessionStep, Stop, Fail

LEMMA NextLateThunkInv ==
  ASSUME HostSettles
  PROVE  TypeOK /\ SlotInv /\ LateThunkInv /\ [Next]_vars => LateThunkInv'
<1>1. ASSUME LateThunkInv, UNCHANGED vars PROVE LateThunkInv'
  BY <1>1, QuietStepLateThunkInv DEF vars, targetVars, sessionVars, hostVars
<1> QED BY <1>1, ThunkStepLateThunkInv, SessionLateThunkInv DEF Next

\* When the host settles, a callback that got past the recheck writes only
\* into a session that is still waiting for it, however late it runs.
THEOREM LateThunkIsSafe == ASSUME HostSettles PROVE Spec => []LateThunkSafe
<1>1. LateThunkInv => LateThunkSafe
  BY DEF LateThunkInv, LateThunkSafe, PublishedPc
<1>2. TypeOK /\ SlotInv /\ LateThunkInv /\ [Next]_vars => LateThunkInv'
  BY NextLateThunkInv
<1> QED
  BY <1>1, <1>2, InitTypeOK, NextTypeOK, InitSlotInv, NextSlotInv,
     InitLateThunkInv, PTL
     DEF Spec

\* The in-flight count of every target is exact, so it never underflows and
\* the wait of a teardown ends only when no callback is left inside.
THEOREM InFlightIsExact == ASSUME HostSettles PROVE Spec => []InFlightExact
<1>1. LateThunkInv => InFlightExact
  BY DEF LateThunkInv
<1>2. TypeOK /\ SlotInv /\ LateThunkInv /\ [Next]_vars => LateThunkInv'
  BY NextLateThunkInv
<1> QED
  BY <1>1, <1>2, InitTypeOK, NextTypeOK, InitSlotInv, NextSlotInv,
     InitLateThunkInv, PTL
     DEF Spec

-----------------------------------------------------------------------------
\* What a step leaves of the writes that a torn-down target must not see.
LEMMA ThunkStepRests ==
  ASSUME TypeOK, LateThunkInv, ThunkStep \/ (\E id \in CallbackId : EnterThunk(id)),
         NEW t \in Target, ~InService(t)
  PROVE  /\ counters'[t] = counters[t] /\ events'[t] = events[t]
         /\ readPosition'[t] = readPosition[t] /\ writePosition'[t] = writePosition[t]
<1>t. /\ counters \in [Target -> Diagnostics] /\ writePosition \in [Target -> Nat]
      /\ events \in [Target -> [0..(Capacity - 1) -> EventRecord]]
  BY DEF TypeOK, TargetTypeOK
<1>1. thunk.pc \in Delivering => t # thunk.target
  BY DEF LateThunkInv, InService, PublishedPc
<1>2. CASE thunk.pc \in Delivering
  BY <1>1, <1>2, <1>t
     DEF ThunkStep, EnterThunk, CountIn, Recheck, Receive, RejectUnknown, Overflow, FindRoom,
         FillSlot, PublishRecord, CountEnqueued, CountOut, targetVars
<1>3. CASE thunk.pc \notin Delivering
  BY <1>3
     DEF ThunkStep, EnterThunk, CountIn, Recheck, Receive, RejectUnknown, Overflow, FindRoom,
         FillSlot, PublishRecord, CountEnqueued, CountOut, targetVars, ThunkMoves, Delivering
<1> QED BY <1>2, <1>3

\* When the host settles, nothing writes to a target between the end of its
\* teardown and its next reset: the diagnostics taken from it are the last word.
THEOREM TeardownIsFinal == ASSUME HostSettles PROVE Spec => TornDownTargetsRest
<1> DEFINE Rests(t) == /\ counters'[t] = counters[t] /\ events'[t] = events[t]
                       /\ readPosition'[t] = readPosition[t]
                       /\ writePosition'[t] = writePosition[t]
           Step == \A t \in Target : InService(t) \/ ResetSince(t) \/ Rests(t)
<1>1. ASSUME TypeOK, SlotInv, LateThunkInv, [Next]_vars PROVE [Step]_vars
  <2> SUFFICES ASSUME NEW t \in Target, ~InService(t), ~ResetSince(t), ~UNCHANGED vars
               PROVE  Rests(t)
    BY DEF ResetSince, InService
  <2>1. CASE ThunkStep \/ (\E id \in CallbackId : EnterThunk(id))
    BY <1>1, <2>1, ThunkStepRests
  <2>2. ASSUME NEW s \in Session, Call(s) PROVE Rests(t)
    BY <2>2
       DEF Call, Bootstrap, RetryRenderReadiness, Stop, Fail, Terminate, Renew, Drain, targetVars
  <2>3. ASSUME NEW s \in Session, SessionStep(s) PROVE Rests(t)
    <3>t. /\ counters \in [Target -> Diagnostics] /\ writePosition \in [Target -> Nat]
          /\ readPosition \in [Target -> Nat] /\ SessionConsistent(s) /\ nextTarget \in Target
      BY <1>1 DEF TypeOK, TargetTypeOK, ProcessTypeOK, SlotInv
    <3>1. CASE ResetTarget(s)
      <4>1. t # nextTarget
        BY <3>1, <3>t DEF ResetTarget, ResetSince
      <4> QED BY <3>1, <3>t, <4>1 DEF ResetTarget
    <3>2. CASE CommitDrain(s)
      <4>1. t # targetIndex[s]
        BY <3>2, <3>t DEF CommitDrain, SessionMoves, SessionConsistent, OwningPc, InService
      <4> QED BY <3>2, <3>t, <4>1 DEF CommitDrain
    <3> QED
      BY <2>3, <3>1, <3>2
         DEF SessionStep, Reserve, PublishTarget, Register, Unpublish, AwaitCallbacks,
             SnapshotDiagnostics, ReleaseSlot, CopySlot, targetVars
  <2> QED BY <1>1, <2>1, <2>2, <2>3 DEF Next
<1>2. TypeOK /\ SlotInv /\ LateThunkInv /\ [Next]_vars => LateThunkInv'
  BY NextLateThunkInv
<1>3. TypeOK /\ SlotInv /\ LateThunkInv /\ [Next]_vars => [Step]_vars
  BY <1>1
<1>4. Step <=> \A t \in Target : InService(t) \/ ResetSince(t) \/
         /\ counters'[t] = counters[t]
         /\ events'[t] = events[t]
         /\ readPosition'[t] = readPosition[t]
         /\ writePosition'[t] = writePosition[t]
  OBVIOUS
<1> HIDE DEF Step
<1> QED
  BY <1>2, <1>3, <1>4, InitTypeOK, NextTypeOK, InitSlotInv, NextSlotInv,
     InitLateThunkInv, PTL
     DEF Spec, TornDownTargetsRest

-----------------------------------------------------------------------------
LEMMA InitBalanceInv == Init => BalanceInv
<1> SUFFICES ASSUME Init PROVE BalanceInv
  OBVIOUS
<1>1. thunk.pc = "Out"
  BY DefaultsTypeOK DEF Init
<1>2. \A t \in Target : TargetBalances(t)
  BY <1>1 DEF Init, TargetBalances, Underway, NoDiagnostics
<1>3. \A s \in Session : DrainBalances(s)
  BY DEF Init, DrainBalances
<1>4. TerminalDiagnosticsBalance
  BY DEF Init, TerminalDiagnosticsBalance, NoDiagnostics
<1> QED BY <1>1, <1>2, <1>3, <1>4 DEF BalanceInv

\* A step of the thunk balances once its targets and its own position do.
LEMMA ThunkStepKeepsBalance ==
  ASSUME TypeOK, BalanceInv, UNCHANGED <<sessionVars, readPosition>>,
         \A t \in Target : TargetBalances(t)',
         \A t \in Target : writePosition'[t] \in Nat /\ writePosition'[t] >= writePosition[t],
         thunk'.pc \in {"Fill", "Publish"} => thunk'.write = writePosition'[thunk'.target]
  PROVE  BalanceInv'
<1>1. ASSUME NEW s \in Session PROVE DrainBalances(s)'
  <2>1. /\ targetIndex[s] \in Target /\ batch[s].last \in Nat
        /\ writePosition[targetIndex[s]] \in Nat
    BY DEF TypeOK, TargetTypeOK, SessionTypeOK, Batch
  <2>2. DrainBalances(s)
    BY DEF BalanceInv
  <2> QED BY <2>1, <2>2 DEF DrainBalances, sessionVars
<1>2. TerminalDiagnosticsBalance'
  BY DEF BalanceInv, TerminalDiagnosticsBalance, sessionVars
<1> QED BY <1>1, <1>2 DEF BalanceInv

\* A target a step does not write stays balanced while the call in progress is
\* elsewhere.
LEMMA OtherTargetBalances ==
  ASSUME NEW t \in Target, TargetBalances(t),
         counters'[t] = counters[t], readPosition'[t] = readPosition[t],
         writePosition'[t] = writePosition[t],
         \/ thunk' = thunk
         \/ thunk.target # t /\ (thunk'.target # t \/ thunk'.pc = "Out")
  PROVE  TargetBalances(t)'
BY DEF TargetBalances, Underway

LEMMA ThunkStepBalanceInv ==
  ASSUME TypeOK, BalanceInv, ThunkStep \/ (\E id \in CallbackId : EnterThunk(id))
  PROVE  BalanceInv'
<1> DEFINE u == thunk.target
<1>t. /\ thunk \in ThunkCall /\ u \in Target /\ thunk.write \in Nat
      /\ counters \in [Target -> Diagnostics]
      /\ readPosition \in [Target -> Nat] /\ writePosition \in [Target -> Nat]
  BY DEF TypeOK, HostTypeOK, TargetTypeOK, ThunkCall
<1>c. /\ counters[u].received \in Nat /\ counters[u].enqueued \in Nat
      /\ counters[u].unknown \in Nat /\ counters[u].overflow \in Nat
      /\ counters[u].drained \in Nat /\ readPosition[u] \in Nat /\ writePosition[u] \in Nat
  BY <1>t DEF Diagnostics
<1>b. /\ TargetBalances(u)
      /\ \A t \in Target : TargetBalances(t)
      /\ thunk.pc \in {"Fill", "Publish"} => thunk.write = writePosition[u]
  BY <1>t DEF BalanceInv
<1>s. UNCHANGED <<sessionVars, readPosition>>
  BY DEF ThunkStep, EnterThunk, CountIn, Recheck, Receive, RejectUnknown, Overflow, FindRoom,
         FillSlot, PublishRecord, CountEnqueued, CountOut, targetVars
\* A call that is not yet or no longer on the books.
<1>1. CASE CountIn \/ Recheck \/ CountOut \/ (\E id \in CallbackId : EnterThunk(id))
  <2>1. /\ UNCHANGED <<counters, writePosition>>
        /\ thunk.pc \in {"Out", "Loaded", "Counted", "Leaving"}
        /\ thunk'.pc \in {"Out", "Loaded", "Counted", "Leaving", "Admitted"}
    BY <1>1, <1>t, DefaultsTypeOK
       DEF CountIn, Recheck, CountOut, EnterThunk, ThunkMoves, targetVars, ThunkCall, IdleThunk
  <2>2. \A t \in Target : TargetBalances(t)'
    BY <2>1, <1>b, <1>s DEF TargetBalances, Underway
  <2> QED BY <2>1, <2>2, <1>s, <1>t, ThunkStepKeepsBalance
\* A call that is: only its own target is written.
<1>2. ASSUME ThunkStep, thunk.pc \in Delivering, thunk'.target = u,
             TargetBalances(u)',
             writePosition'[u] \in Nat, writePosition'[u] >= writePosition[u],
             thunk'.pc \in {"Fill", "Publish"} => thunk'.write = writePosition'[u]
      PROVE  BalanceInv'
  <2>1. ASSUME NEW t \in Target, t # u
        PROVE  counters'[t] = counters[t] /\ writePosition'[t] = writePosition[t]
    BY <1>2, <2>1, <1>t
       DEF ThunkStep, CountIn, Recheck, Receive, RejectUnknown, Overflow, FindRoom,
           FillSlot, PublishRecord, CountEnqueued, CountOut, targetVars
  <2>2. ASSUME NEW t \in Target PROVE TargetBalances(t)'
    BY <1>2, <2>1, <1>s, <1>b, OtherTargetBalances
  <2>3. \A t \in Target : writePosition'[t] \in Nat /\ writePosition'[t] >= writePosition[t]
    BY <1>2, <2>1, <1>t
  <2> QED BY <1>2, <2>2, <2>3, <1>s, ThunkStepKeepsBalance
<1>3. CASE Receive
  <2>1. /\ thunk.pc = "Admitted" /\ thunk'.pc = "Received" /\ thunk'.target = u
        /\ counters'[u] = [counters[u] EXCEPT !.received = @ + 1]
        /\ UNCHANGED writePosition
    BY <1>3, <1>t DEF Receive, ThunkCall
  <2>2. /\ counters'[u].received = counters[u].received + 1
        /\ counters'[u].enqueued = counters[u].enqueued
        /\ counters'[u].unknown = counters[u].unknown
        /\ counters'[u].overflow = counters[u].overflow
        /\ counters'[u].drained = counters[u].drained
    BY <2>1, <1>t DEF Diagnostics
  <2>3. TargetBalances(u)'
    BY <2>1, <2>2, <1>b, <1>c, <1>s DEF TargetBalances, Underway
  <2> QED BY <1>3, <2>1, <2>3, <1>2, <1>c DEF ThunkStep, Delivering
<1>4. CASE RejectUnknown
  <2>1. /\ thunk.pc = "Received" /\ thunk'.pc = "Leaving" /\ thunk'.target = u
        /\ counters'[u] = [counters[u] EXCEPT !.unknown = @ + 1]
        /\ UNCHANGED writePosition
    BY <1>4, <1>t DEF RejectUnknown, ThunkMoves, ThunkCall
  <2>2. /\ counters'[u].received = counters[u].received
        /\ counters'[u].enqueued = counters[u].enqueued
        /\ counters'[u].unknown = counters[u].unknown + 1
        /\ counters'[u].overflow = counters[u].overflow
        /\ counters'[u].drained = counters[u].drained
    BY <2>1, <1>t DEF Diagnostics
  <2>3. TargetBalances(u)'
    BY <2>1, <2>2, <1>b, <1>c, <1>s DEF TargetBalances, Underway
  <2> QED BY <1>4, <2>1, <2>3, <1>2, <1>c DEF ThunkStep, Delivering
<1>5. CASE Overflow
  <2>1. /\ thunk.pc = "Received" /\ thunk'.pc = "Leaving" /\ thunk'.target = u
        /\ counters'[u] = [counters[u] EXCEPT !.overflow = @ + 1]
        /\ UNCHANGED writePosition
    BY <1>5, <1>t DEF Overflow, ThunkMoves, ThunkCall
  <2>2. /\ counters'[u].received = counters[u].received
        /\ counters'[u].enqueued = counters[u].enqueued
        /\ counters'[u].unknown = counters[u].unknown
        /\ counters'[u].overflow = counters[u].overflow + 1
        /\ counters'[u].drained = counters[u].drained
    BY <2>1, <1>t DEF Diagnostics
  <2>3. TargetBalances(u)'
    BY <2>1, <2>2, <1>b, <1>c, <1>s DEF TargetBalances, Underway
  <2> QED BY <1>5, <2>1, <2>3, <1>2, <1>c DEF ThunkStep, Delivering
<1>6. CASE FindRoom \/ FillSlot
  <2>1. /\ UNCHANGED <<counters, writePosition>> /\ thunk'.target = u
        /\ thunk.pc \in {"Received", "Fill"} /\ thunk'.pc \in {"Fill", "Publish"}
        /\ thunk'.write = writePosition[u]
    BY <1>6, <1>t, <1>b DEF FindRoom, FillSlot, ThunkMoves, ThunkCall, targetVars
  <2>2. TargetBalances(u)'
    BY <2>1, <1>b, <1>s DEF TargetBalances, Underway
  <2> QED BY <1>6, <2>1, <2>2, <1>2, <1>c DEF ThunkStep, Delivering
<1>7. CASE PublishRecord
  <2>1. /\ thunk.pc = "Publish" /\ thunk'.pc = "Count" /\ thunk'.target = u
        /\ writePosition'[u] = writePosition[u] + 1 /\ UNCHANGED counters
    BY <1>7, <1>t, <1>b DEF PublishRecord, ThunkMoves, ThunkCall
  <2>2. TargetBalances(u)'
    BY <2>1, <1>b, <1>c, <1>s DEF TargetBalances, Underway
  <2> QED BY <1>7, <2>1, <2>2, <1>2, <1>c DEF ThunkStep, Delivering
<1>8. CASE CountEnqueued
  <2>1. /\ thunk.pc = "Count" /\ thunk'.pc = "Leaving" /\ thunk'.target = u
        /\ counters'[u] = [counters[u] EXCEPT !.enqueued = @ + 1]
        /\ UNCHANGED writePosition
    BY <1>8, <1>t DEF CountEnqueued, ThunkMoves, ThunkCall
  <2>2. /\ counters'[u].received = counters[u].received
        /\ counters'[u].enqueued = counters[u].enqueued + 1
        /\ counters'[u].unknown = counters[u].unknown
        /\ counters'[u].overflow = counters[u].overflow
        /\ counters'[u].drained = counters[u].drained
    BY <2>1, <1>t DEF Diagnostics
  <2>3. TargetBalances(u)'
    BY <2>1, <2>2, <1>b, <1>c, <1>s DEF TargetBalances, Underway
  <2> QED BY <1>8, <2>1, <2>3, <1>2, <1>c DEF ThunkStep, Delivering
<1> QED BY <1>1, <1>3, <1>4, <1>5, <1>6, <1>7, <1>8 DEF ThunkStep

\* A step of a session that leaves the targets and the drains alone.
LEMMA QuietStepBalanceInv ==
  ASSUME TypeOK, BalanceInv, UNCHANGED <<thunk, counters, readPosition, writePosition>>,
         \A r \in Session : pc'[r] \in {"Copy", "Commit"} =>
           pc'[r] = pc[r] /\ targetIndex'[r] = targetIndex[r] /\ batch'[r] = batch[r],
         TerminalDiagnosticsBalance'
  PROVE  BalanceInv'
<1>1. \A t \in Target : TargetBalances(t)'
  BY DEF BalanceInv, TargetBalances, Underway
<1>2. \A r \in Session : DrainBalances(r)'
  BY DEF BalanceInv, DrainBalances
<1> QED BY <1>1, <1>2 DEF BalanceInv

LEMMA CallBalanceInv ==
  ASSUME TypeOK, SlotInv, BalanceInv, NEW s \in Session, Call(s) PROVE BalanceInv'
<1>t. /\ pc \in [Session -> SessionPc] /\ owns \in [Session -> BOOLEAN]
      /\ targetIndex \in [Session -> Target] /\ terminal \in [Session -> Diagnostics]
      /\ readPosition \in [Target -> Nat] /\ writePosition \in [Target -> Nat]
      /\ batch \in [Session -> Batch]
  BY DEF TypeOK, SessionTypeOK, TargetTypeOK
<1>c. SessionConsistent(s) /\ TerminalDiagnosticsBalance
  BY DEF SlotInv, BalanceInv
<1>1. CASE Bootstrap(s) \/ RetryRenderReadiness(s) \/ Stop(s) \/ Fail(s)
  <2>1. /\ UNCHANGED <<thunk, counters, readPosition, writePosition, targetIndex, owns,
                       terminal, batch>>
        /\ \A r \in Session : pc'[r] \in {"Copy", "Commit"} => pc'[r] = pc[r]
    BY <1>1, <1>t
       DEF Bootstrap, RetryRenderReadiness, Stop, Fail, Terminate, Settle, BeginActivate,
           SessionMoves, targetVars, hostVars
  <2>2. TerminalDiagnosticsBalance'
    BY <2>1, <1>c DEF TerminalDiagnosticsBalance
  <2> QED BY <2>1, <2>2, QuietStepBalanceInv
<1>2. CASE Renew(s)
  <2>1. /\ UNCHANGED <<thunk, counters, readPosition, writePosition, owns, pc, batch>>
        /\ pc[s] = "Ready"
        /\ terminal' = [terminal EXCEPT ![s] = NoDiagnostics]
        /\ targetIndex' = [targetIndex EXCEPT ![s] = 0]
    BY <1>2 DEF Renew, targetVars, hostVars
  <2>2. TerminalDiagnosticsBalance'
    BY <2>1, <1>c, <1>t DEF TerminalDiagnosticsBalance, NoDiagnostics
  <2>3. \A r \in Session : pc'[r] \in {"Copy", "Commit"} => targetIndex'[r] = targetIndex[r]
    BY <2>1, <1>t
  <2> QED BY <2>1, <2>2, <2>3, QuietStepBalanceInv
<1>3. ASSUME NEW size \in 1..Capacity, Drain(s, size) PROVE BalanceInv'
  <2> DEFINE t == targetIndex[s]
             available == writePosition[t] - readPosition[t]
             count == IF available < size THEN available ELSE size
  <2>1. /\ UNCHANGED <<thunk, counters, readPosition, writePosition, owns, terminal, targetIndex>>
        /\ count > 0 /\ pc' = [pc EXCEPT ![s] = "Copy"]
        /\ batch' = [batch EXCEPT ![s] =
             [next |-> readPosition[t], last |-> readPosition[t] + count, records |-> <<>>]]
    BY <1>3 DEF Drain, SessionMoves, targetVars, hostVars
  <2>2. /\ readPosition[t] \in Nat /\ writePosition[t] \in Nat
        /\ readPosition[t] + count <= writePosition[t] /\ count \in Int
    BY <1>t
  <2>3. /\ batch'[s].next = readPosition[t] /\ batch'[s].last = readPosition[t] + count
        /\ batch'[s].records = <<>> /\ Len(batch'[s].records) = 0
    BY <2>1, <1>t
  <2>4. DrainBalances(s)'
    <3> HIDE DEF count
    <3> QED BY <2>1, <2>2, <2>3 DEF DrainBalances
  <2>5. \A r \in Session : DrainBalances(r)'
    BY <2>1, <2>4, <1>t DEF BalanceInv, DrainBalances
  <2>6. (\A u \in Target : TargetBalances(u)') /\ TerminalDiagnosticsBalance'
    BY <2>1 DEF BalanceInv, TargetBalances, Underway, TerminalDiagnosticsBalance
  <2> QED BY <2>1, <2>5, <2>6 DEF BalanceInv
<1> QED BY <1>1, <1>2, <1>3 DEF Call

LEMMA SessionStepBalanceInv ==
  ASSUME HostSettles, TypeOK, SlotInv, LateThunkInv, BalanceInv,
         NEW s \in Session, SessionStep(s)
  PROVE  BalanceInv'
<1> DEFINE t == targetIndex[s]
<1>t. /\ pc \in [Session -> SessionPc] /\ owns \in [Session -> BOOLEAN]
      /\ targetIndex \in [Session -> Target] /\ terminal \in [Session -> Diagnostics]
      /\ readPosition \in [Target -> Nat] /\ writePosition \in [Target -> Nat]
      /\ counters \in [Target -> Diagnostics] /\ batch \in [Session -> Batch]
      /\ t \in Target /\ nextTarget \in Target
  BY DEF TypeOK, SessionTypeOK, TargetTypeOK, ProcessTypeOK
<1>n. /\ counters[t].received \in Nat /\ counters[t].enqueued \in Nat
      /\ counters[t].unknown \in Nat /\ counters[t].overflow \in Nat
      /\ counters[t].drained \in Nat /\ readPosition[t] \in Nat /\ writePosition[t] \in Nat
  BY <1>t DEF Diagnostics
<1>l. /\ batch[s].next \in Nat /\ batch[s].last \in Nat
      /\ batch[s].records \in Seq(EventRecord) /\ Len(batch[s].records) \in Nat
  <2>1. batch[s] \in Batch
    BY <1>t
  <2> QED BY <2>1 DEF Batch
<1>c. /\ \A r \in Session : SessionConsistent(r)
      /\ \A r \in Session : Holds(s) /\ Holds(r) => s = r
      /\ TerminalDiagnosticsBalance /\ TargetBalances(t) /\ DrainBalances(s)
  BY <1>t DEF SlotInv, BalanceInv
\* The session that holds the slot is the only one that drains.
<1>o. Holds(s) => \A r \in Session : pc[r] \in {"Copy", "Commit"} => r = s
  BY <1>c DEF SessionConsistent, OwningPc, Holds
<1>1. CASE Reserve(s) \/ PublishTarget(s) \/ Register(s) \/ Unpublish(s)
             \/ AwaitCallbacks(s) \/ ReleaseSlot(s)
  <2>1. /\ UNCHANGED <<thunk, counters, readPosition, writePosition, targetIndex, owns,
                       terminal, batch>>
        /\ \A r \in Session : pc'[r] \in {"Copy", "Commit"} => pc'[r] = pc[r]
    BY <1>1, <1>t
       DEF Reserve, PublishTarget, Register, Unpublish, AwaitCallbacks, ReleaseSlot,
           SessionMoves, targetVars, hostVars
  <2>2. TerminalDiagnosticsBalance'
    BY <2>1, <1>c DEF TerminalDiagnosticsBalance
  <2> QED BY <2>1, <2>2, QuietStepBalanceInv
<1>2. CASE ResetTarget(s)
  <2>1. /\ pc[s] = "Reset" /\ pc' = [pc EXCEPT ![s] = "Publish"] /\ UNCHANGED thunk
        /\ ~(thunk.pc # "Out" /\ thunk.target = nextTarget)
        /\ readPosition' = [readPosition EXCEPT ![nextTarget] = 0]
        /\ writePosition' = [writePosition EXCEPT ![nextTarget] = 0]
        /\ counters' = [counters EXCEPT ![nextTarget] = NoDiagnostics]
        /\ terminal' = [terminal EXCEPT ![s] = NoDiagnostics]
        /\ owns' = [owns EXCEPT ![s] = TRUE]
    BY <1>2 DEF ResetTarget, SessionMoves, hostVars
  <2>2. \A r \in Session : DrainBalances(r)'
    BY <2>1, <1>o, <1>t DEF DrainBalances, Holds
  <2>3. ASSUME NEW u \in Target PROVE TargetBalances(u)'
    <3>1. CASE u = nextTarget
      <4>1. /\ counters'[u] = NoDiagnostics /\ readPosition'[u] = 0 /\ writePosition'[u] = 0
            /\ thunk'.target = u => thunk'.pc = "Out"
        BY <2>1, <3>1, <1>t
      <4> QED BY <4>1 DEF TargetBalances, Underway, NoDiagnostics
    <3>2. CASE u # nextTarget
      <4>1. TargetBalances(u)
        BY DEF BalanceInv
      <4> QED BY <4>1, <2>1, <3>2, <1>t, OtherTargetBalances
    <3> QED BY <3>1, <3>2
  <2>4. TerminalDiagnosticsBalance'
    BY <2>1, <1>c, <1>t DEF TerminalDiagnosticsBalance, NoDiagnostics
  <2>5. thunk'.pc \in {"Fill", "Publish"} => thunk'.write = writePosition'[thunk'.target]
    BY <2>1, <1>t DEF BalanceInv, TypeOK, HostTypeOK, ThunkCall
  <2> QED BY <2>2, <2>3, <2>4, <2>5 DEF BalanceInv
<1>3. CASE SnapshotDiagnostics(s)
  <2>1. /\ UNCHANGED <<thunk, counters, readPosition, writePosition, targetIndex, batch>>
        /\ pc[s] = "Snapshot" /\ pc' = [pc EXCEPT ![s] = "Release"]
        /\ terminal' = [terminal EXCEPT ![s] = counters[t]]
        /\ owns' = [owns EXCEPT ![s] = FALSE]
    BY <1>3 DEF SnapshotDiagnostics, SessionMoves, targetVars, hostVars
  <2>2. owns[s]
    BY <2>1, <1>c DEF SessionConsistent, OwningPc
  \* The wait is over: no call is on this target's books.
  <2>3. thunk.pc \notin Delivering
    BY <2>1, <2>2, <1>c DEF LateThunkInv, Holds, PublishedPc
  <2>4. /\ counters[t].received =
             counters[t].enqueued + counters[t].unknown + counters[t].overflow
        /\ counters[t].drained <= counters[t].enqueued
    BY <2>3, <1>c, <1>n, <1>l DEF TargetBalances, Underway, Delivering
  <2>5. terminal'[s] = counters[t] /\ \A r \in Session : r # s =>
          terminal'[r] = terminal[r] /\ owns'[r] = owns[r]
    BY <2>1, <1>t
  <2>6. TerminalDiagnosticsBalance'
    BY <2>4, <2>5, <1>c DEF TerminalDiagnosticsBalance
  <2>7. \A r \in Session : pc'[r] \in {"Copy", "Commit"} => pc'[r] = pc[r]
    BY <2>1, <1>t
  <2> QED BY <2>1, <2>6, <2>7, QuietStepBalanceInv
<1>4. CASE CopySlot(s)
  <2> DEFINE copied == events[t][batch[s].next % Capacity]
  <2>1. /\ UNCHANGED <<thunk, counters, readPosition, writePosition, targetIndex, owns, terminal>>
        /\ pc[s] = "Copy" /\ pc'[s] \in {"Copy", "Commit"}
        /\ pc'[s] = "Copy" => batch'[s].next # batch[s].last
        /\ \A r \in Session : r # s => pc'[r] = pc[r] /\ batch'[r] = batch[r]
        /\ batch'[s] = [next |-> batch[s].next + 1, last |-> batch[s].last,
                        records |-> Append(batch[s].records, copied)]
    BY <1>4, <1>t DEF CopySlot, targetVars, hostVars
  <2>2. /\ batch'[s].next = batch[s].next + 1 /\ batch'[s].last = batch[s].last
        /\ Len(batch'[s].records) = Len(batch[s].records) + 1
    BY <2>1, <1>l
  <2>m. /\ pc[s] = "Copy"
        /\ pc'[s] = "Copy" => batch'[s].next # batch[s].last
        /\ UNCHANGED <<readPosition, writePosition, targetIndex>>
    BY <2>1
  <2>b. /\ batch[s].next = readPosition[t] + Len(batch[s].records)
        /\ batch[s].next < batch[s].last /\ batch[s].last <= writePosition[t]
    BY <2>m, <1>c DEF DrainBalances
  <2>3. DrainBalances(s)'
    <3>1. /\ batch'[s].next = readPosition'[targetIndex'[s]] + Len(batch'[s].records)
          /\ batch'[s].next <= batch'[s].last
          /\ batch'[s].last <= writePosition'[targetIndex'[s]]
      BY <2>m, <2>b, <2>2, <1>n, <1>l
    <3>2. pc'[s] = "Copy" => batch'[s].next < batch'[s].last
      BY <2>m, <2>b, <2>2, <1>l
    <3> QED BY <3>1, <3>2 DEF DrainBalances
  <2>4. \A r \in Session : DrainBalances(r)'
    BY <2>1, <2>3 DEF BalanceInv, DrainBalances
  <2>5. (\A u \in Target : TargetBalances(u)') /\ TerminalDiagnosticsBalance'
    BY <2>1 DEF BalanceInv, TargetBalances, Underway, TerminalDiagnosticsBalance
  <2> QED BY <2>1, <2>4, <2>5 DEF BalanceInv
<1>5. CASE CommitDrain(s)
  <2>1. /\ UNCHANGED <<thunk, writePosition, targetIndex, owns, terminal>>
        /\ pc[s] = "Commit" /\ pc' = [pc EXCEPT ![s] = "Ready"]
        /\ readPosition' = [readPosition EXCEPT ![t] = batch[s].next]
        /\ counters' = [counters EXCEPT ![t].drained = @ + Len(batch[s].records)]
    BY <1>5 DEF CommitDrain, SessionMoves, hostVars
  <2>2. Holds(s)
    BY <2>1, <1>c DEF SessionConsistent, OwningPc, Holds
  <2>3. \A r \in Session : DrainBalances(r)'
    BY <2>1, <2>2, <1>o, <1>t DEF DrainBalances
  <2>4. /\ counters'[t].received = counters[t].received
        /\ counters'[t].enqueued = counters[t].enqueued
        /\ counters'[t].unknown = counters[t].unknown
        /\ counters'[t].overflow = counters[t].overflow
        /\ counters'[t].drained = counters[t].drained + Len(batch[s].records)
        /\ readPosition'[t] = batch[s].next
    BY <2>1, <1>t DEF Diagnostics
  <2>5. /\ batch[s].next = readPosition[t] + Len(batch[s].records)
        /\ batch[s].next <= writePosition[t]
    BY <2>1, <1>c, <1>n, <1>l DEF DrainBalances
  <2>6. ASSUME NEW u \in Target PROVE TargetBalances(u)'
    <3>1. CASE u # t
      <4>1. TargetBalances(u)
        BY DEF BalanceInv
      <4>2. /\ counters'[u] = counters[u] /\ readPosition'[u] = readPosition[u]
            /\ writePosition'[u] = writePosition[u] /\ thunk' = thunk
        BY <2>1, <3>1, <1>t
      <4> QED BY <4>1, <4>2, OtherTargetBalances
    <3>2. CASE u = t
      <4>1. UNCHANGED <<thunk, writePosition>> /\ u \in Target
        BY <2>1
      <4> QED BY <4>1, <3>2, <2>4, <2>5, <1>c, <1>n, <1>l DEF TargetBalances, Underway
    <3> QED BY <3>1, <3>2
  <2>7. TerminalDiagnosticsBalance'
    BY <2>1, <1>c DEF TerminalDiagnosticsBalance
  <2> QED BY <2>1, <2>3, <2>6, <2>7 DEF BalanceInv
<1> QED BY <1>1, <1>2, <1>3, <1>4, <1>5 DEF SessionStep

LEMMA NextBalanceInv ==
  ASSUME HostSettles
  PROVE  TypeOK /\ SlotInv /\ LateThunkInv /\ BalanceInv /\ [Next]_vars => BalanceInv'
<1>1. ASSUME TypeOK, BalanceInv, UNCHANGED vars PROVE BalanceInv'
  <2>1. UNCHANGED <<thunk, counters, readPosition, writePosition, pc, targetIndex, batch, owns,
                    terminal>>
    BY <1>1 DEF vars, targetVars, sessionVars, hostVars
  <2>2. TerminalDiagnosticsBalance'
    BY <1>1, <2>1 DEF BalanceInv, TerminalDiagnosticsBalance
  <2> QED BY <1>1, <2>1, <2>2, QuietStepBalanceInv
<1> QED BY <1>1, ThunkStepBalanceInv, CallBalanceInv, SessionStepBalanceInv DEF Next

\* When the host settles, the diagnostics an activation leaves account for every
\* callback it received, for any number of sessions, any ring and any drain.
THEOREM TerminalDiagnosticsAddUp ==
  ASSUME HostSettles PROVE Spec => []TerminalDiagnosticsBalance
<1>1. BalanceInv => TerminalDiagnosticsBalance
  BY DEF BalanceInv
<1>2. TypeOK /\ SlotInv /\ LateThunkInv /\ [Next]_vars => LateThunkInv'
  BY NextLateThunkInv
<1>3. TypeOK /\ SlotInv /\ LateThunkInv /\ BalanceInv /\ [Next]_vars => BalanceInv'
  BY NextBalanceInv
<1> QED
  BY <1>1, <1>2, <1>3, InitTypeOK, NextTypeOK, InitSlotInv, NextSlotInv,
     InitLateThunkInv, InitBalanceInv, PTL
     DEF Spec

-----------------------------------------------------------------------------
\* Two positions less than a ring apart stand on different slots.
LEMMA NearPositionsDiffer ==
  ASSUME NEW a \in Nat, NEW b \in Nat, NEW n \in Nat \ {0}, a < b, b - a < n
  PROVE  a % n # b % n
<1> SUFFICES ASSUME a % n = b % n PROVE FALSE
  OBVIOUS
<1> DEFINE p == a \div n
           q == b \div n
           m == a % n
<1>1. /\ p \in Int /\ q \in Int /\ m \in Int
      /\ a = n * p + m /\ b = n * q + m
  OBVIOUS
<1> HIDE DEF p, q, m
<1>2. b - a = n * (q - p)
  BY <1>1
<1>3. CASE q - p <= 0
  BY <1>1, <1>2, <1>3
<1>4. CASE q - p >= 1
  <2>1. n * (q - p) >= n
    BY <1>1, <1>4
  <2> QED BY <1>2, <2>1
<1> QED BY <1>1, <1>3, <1>4

\* The target last reset is one of the targets, and it is the one that a reset
\* takes.
LEMMA CurrentTargetFollows ==
  ASSUME NEW t \in Target
  PROVE  /\ (t + NumTargets - 1) % NumTargets \in Target
         /\ (TargetAfter(t) + NumTargets - 1) % NumTargets = t
<1> USE ConstantsAssumption DEF Target
<1>1. (t + NumTargets - 1) % NumTargets \in 0..(NumTargets - 1)
  OBVIOUS
<1>2. CASE t < NumTargets - 1
  <2>1. TargetAfter(t) = t + 1
    BY <1>2 DEF TargetAfter
  <2>2. (t + NumTargets) % NumTargets = t
    OBVIOUS
  <2> QED BY <1>1, <2>1, <2>2
<1>3. CASE t = NumTargets - 1
  <2>1. TargetAfter(t) = 0
    BY <1>3 DEF TargetAfter
  <2>2. (NumTargets - 1) % NumTargets = NumTargets - 1
    OBVIOUS
  <2> QED BY <1>1, <1>3, <2>1, <2>2
<1> QED BY <1>2, <1>3

\* A stretch of n slots from a position, as the sequence a drain copies.
Slots(ring, from, n) == [i \in 1..n |-> ring[(from + i - 1) % Capacity]]

LEMMA SlotsAreASequence ==
  ASSUME NEW ring \in [0..(Capacity - 1) -> EventRecord], NEW from \in Nat, NEW n \in Nat
  PROVE  /\ Slots(ring, from, n) \in Seq(EventRecord)
         /\ Len(Slots(ring, from, n)) = n
         /\ DOMAIN Slots(ring, from, n) = 1..n
         /\ \A i \in 1..n : Slots(ring, from, n)[i] = ring[(from + i - 1) % Capacity]
<1>1. \A i \in 1..n : (from + i - 1) % Capacity \in 0..(Capacity - 1)
  BY ConstantsAssumption
<1>2. \A i \in 1..n : ring[(from + i - 1) % Capacity] \in EventRecord
  BY <1>1
<1>3. Slots(ring, from, n) \in [1..n -> EventRecord]
  BY <1>2 DEF Slots
<1>4. Slots(ring, from, n) \in Seq(EventRecord)
  BY <1>3
<1> QED BY <1>3, <1>4 DEF Slots

LEMMA SameSequence ==
  ASSUME NEW S, NEW p \in Seq(S), NEW q \in Seq(S), Len(p) = Len(q),
         \A i \in 1..Len(p) : p[i] = q[i]
  PROVE  p = q
OBVIOUS

\* A stretch one slot longer ends with that slot.
LEMMA LongerStretch ==
  ASSUME NEW ring \in [0..(Capacity - 1) -> EventRecord], NEW from \in Nat, NEW n \in Nat
  PROVE  Slots(ring, from, n + 1) = Append(Slots(ring, from, n), ring[(from + n) % Capacity])
<1> DEFINE shorter == Slots(ring, from, n)
           last == ring[(from + n) % Capacity]
           longer == Slots(ring, from, n + 1)
<1>1. /\ shorter \in Seq(EventRecord) /\ Len(shorter) = n
      /\ \A i \in 1..n : shorter[i] = ring[(from + i - 1) % Capacity]
  BY SlotsAreASequence
<1>2. /\ longer \in Seq(EventRecord) /\ Len(longer) = n + 1
      /\ \A i \in 1..(n + 1) : longer[i] = ring[(from + i - 1) % Capacity]
  <2>1. n + 1 \in Nat
    OBVIOUS
  <2> QED BY <2>1, SlotsAreASequence
<1>3. from + (n + 1) - 1 = from + n /\ (from + n) % Capacity \in 0..(Capacity - 1)
  BY ConstantsAssumption
<1>4. last \in EventRecord /\ longer[n + 1] = last
  BY <1>2, <1>3
<1> HIDE DEF shorter, last, longer
<1>5. /\ Append(shorter, last) \in Seq(EventRecord) /\ Len(Append(shorter, last)) = n + 1
      /\ \A i \in 1..n : Append(shorter, last)[i] = shorter[i]
      /\ Append(shorter, last)[n + 1] = last
  BY <1>1, <1>4
<1>6. ASSUME NEW i \in 1..(n + 1) PROVE longer[i] = Append(shorter, last)[i]
  <2>1. CASE i \in 1..n
    BY <1>1, <1>2, <1>5, <2>1
  <2>2. CASE i = n + 1
    BY <1>4, <1>5, <2>2
  <2>3. i \in 1..n \/ i = n + 1
    OBVIOUS
  <2> QED BY <2>1, <2>2, <2>3
<1>7. longer = Append(shorter, last)
  BY <1>2, <1>5, <1>6, SameSequence
<1> QED BY <1>7 DEF shorter, last, longer

\* The ring of a target holds as many records as its positions are apart.
LEMMA RingShape ==
  TypeOK /\ (\A t \in Target : TargetBalances(t)) =>
    \A t \in Target :
      /\ Ring(t) \in Seq(EventRecord)
      /\ Len(Ring(t)) = writePosition[t] - readPosition[t]
      /\ DOMAIN Ring(t) = 1..(writePosition[t] - readPosition[t])
      /\ \A i \in 1..(writePosition[t] - readPosition[t]) :
           /\ Ring(t)[i] = events[t][(readPosition[t] + i - 1) % Capacity]
           /\ Ring(t)[i] \in EventRecord
<1> SUFFICES ASSUME TypeOK, NEW t \in Target, TargetBalances(t)
             PROVE  /\ Ring(t) \in Seq(EventRecord)
                    /\ Len(Ring(t)) = writePosition[t] - readPosition[t]
                    /\ DOMAIN Ring(t) = 1..(writePosition[t] - readPosition[t])
                    /\ \A i \in 1..(writePosition[t] - readPosition[t]) :
                         /\ Ring(t)[i] = events[t][(readPosition[t] + i - 1) % Capacity]
                         /\ Ring(t)[i] \in EventRecord
  OBVIOUS
<1> DEFINE from == readPosition[t]
           n == writePosition[t] - readPosition[t]
           ring == events[t]
<1>1. from \in Nat /\ n \in Nat /\ ring \in [0..(Capacity - 1) -> EventRecord]
  BY DEF TypeOK, TargetTypeOK, TargetBalances
<1>2. Ring(t) = Slots(ring, from, n)
  BY DEF Ring, Slots
<1> HIDE DEF n, from, ring
<1>3. /\ Ring(t) \in Seq(EventRecord) /\ Len(Ring(t)) = n /\ DOMAIN Ring(t) = 1..n
      /\ \A i \in 1..n : Ring(t)[i] = ring[(from + i - 1) % Capacity]
  <2>1. Slots(ring, from, n) \in Seq(EventRecord)
    BY <1>1, SlotsAreASequence
  <2>2. Len(Slots(ring, from, n)) = n
    BY <1>1, SlotsAreASequence
  <2>3. DOMAIN Slots(ring, from, n) = 1..n
    BY <1>1, SlotsAreASequence
  <2>4. \A i \in 1..n : Slots(ring, from, n)[i] = ring[(from + i - 1) % Capacity]
    BY <1>1, SlotsAreASequence
  <2> QED BY <1>2, <2>1, <2>2, <2>3, <2>4
<1>4. \A i \in 1..n : Ring(t)[i] \in EventRecord
  BY <1>3, <1>1
<1> QED BY <1>3, <1>4 DEF n, from, ring

\* The numbers decided on a target are integers.
LEMMA DecidedIsInt == TypeOK => \A t \in Target : Decided(t) \in Int
BY DEF TypeOK, TargetTypeOK, Diagnostics, Decided, Underway

LEMMA InitQueueInv == Init => QueueInv
<1> SUFFICES ASSUME Init PROVE QueueInv
  OBVIOUS
<1>1. thunk.pc = "Out"
  BY DefaultsTypeOK DEF Init
<1>2. CallInv
  BY <1>1 DEF CallInv
<1>3. ASSUME NEW t \in Target PROVE RingInv(t)
  <2>1. readPosition[t] = 0 /\ writePosition[t] = 0 /\ counters[t].received = 0 /\ calls = 0
    BY DEF Init, NoDiagnostics
  <2>2. DOMAIN Ring(t) = {}
    BY <2>1 DEF Ring
  <2> QED BY <1>1, <2>1, <2>2, ConstantsAssumption DEF RingInv, Underway
<1>4. \A s \in Session : CopyInv(s) /\ OwnerInv(s)
  BY DEF Init, CopyInv, OwnerInv
<1> QED BY <1>2, <1>3, <1>4 DEF QueueInv

\* A step of a session that leaves the targets, the thunk and the deliveries
\* alone, takes no target, and copies what the ring holds if it copies at all.
LEMMA QuietStepQueueInv ==
  ASSUME QueueInv, UNCHANGED <<targetVars, thunk, calls, delivered, nextTarget>>,
         \A r \in Session :
           CopyInv(r)' \/ (pc'[r] \in {"Copy", "Commit"} =>
             pc'[r] = pc[r] /\ targetIndex'[r] = targetIndex[r] /\ batch'[r] = batch[r]),
         \A r \in Session : owns'[r] => owns[r] /\ targetIndex'[r] = targetIndex[r]
  PROVE  QueueInv'
<1>u. UNCHANGED <<events, readPosition, writePosition, counters>>
  BY DEF targetVars
<1>r. ASSUME NEW t \in Target
      PROVE  Ring(t)' = Ring(t) /\ Decided(t)' = Decided(t) /\ RingInv(t)'
  <2>1. Ring(t)' = Ring(t) /\ Decided(t)' = Decided(t)
    BY <1>u DEF Ring, Decided, Underway
  <2>2. RingInv(t)
    BY DEF QueueInv
  <2> QED BY <2>1, <2>2, <1>u DEF RingInv, Underway
<1>1. CallInv'
  BY <1>u DEF QueueInv, CallInv, IsFull, Record
<1>2. ASSUME NEW r \in Session PROVE CopyInv(r)'
  <2> SUFFICES ASSUME pc'[r] \in {"Copy", "Commit"}, ~CopyInv(r)'
               PROVE  CopyInv(r)'
    BY DEF CopyInv
  <2>1. /\ pc'[r] = pc[r] /\ targetIndex'[r] = targetIndex[r] /\ batch'[r] = batch[r]
        /\ CopyInv(r)
    BY DEF QueueInv
  <2>2. Ring(targetIndex[r])' = Ring(targetIndex[r])
    BY <1>u, <2>1 DEF Ring
  <2> QED BY <2>1, <2>2 DEF CopyInv
<1>3. ASSUME NEW r \in Session PROVE OwnerInv(r)'
  <2>1. OwnerInv(r)
    BY DEF QueueInv
  <2>2. CurrentTarget' = CurrentTarget /\ Decided(CurrentTarget)' = Decided(CurrentTarget)
    BY <1>u DEF CurrentTarget, Decided, Underway
  <2> QED BY <2>1, <2>2 DEF OwnerInv
<1> QED BY <1>r, <1>1, <1>2, <1>3 DEF QueueInv

\* A step of the thunk keeps the queue once its own target and its call do, and
\* the records that wait there stay where they are.
LEMMA ThunkStepKeepsQueue ==
  ASSUME TypeOK, TypeOK', BalanceInv, QueueInv,
         UNCHANGED <<sessionVars, nextTarget, delivered, readPosition>>,
         CallInv', \A t \in Target : RingInv(t)',
         \A t \in Target : Decided(t) <= Decided(t)',
         \A t \in Target : \A i \in DOMAIN Ring(t) : Ring(t)'[i] = Ring(t)[i]
  PROVE  QueueInv'
<1>s. UNCHANGED <<pc, owns, targetIndex, batch>>
  BY DEF sessionVars
<1>1. ASSUME NEW r \in Session PROVE CopyInv(r)'
  <2> SUFFICES ASSUME pc[r] \in {"Copy", "Commit"}
               PROVE  /\ \A i \in DOMAIN batch[r].records :
                           batch[r].records[i] = (Ring(targetIndex[r])')[i]
                      /\ pc[r] = "Commit" => batch[r].records # <<>>
    BY <1>s DEF CopyInv
  <2>1. PICK t \in Target : t = targetIndex[r]
    BY DEF TypeOK, SessionTypeOK
  <2>2. batch[r] \in Batch /\ CopyInv(r) /\ DrainBalances(r)
    BY DEF TypeOK, SessionTypeOK, QueueInv, BalanceInv
  <2>3. /\ batch[r].records \in Seq(EventRecord) /\ batch[r].next \in Nat
        /\ batch[r].last \in Nat /\ Len(batch[r].records) \in Nat
        /\ DOMAIN batch[r].records = 1..Len(batch[r].records)
    BY <2>2 DEF Batch
  <2>4. readPosition[t] \in Nat /\ writePosition[t] \in Nat
    BY DEF TypeOK, TargetTypeOK
  <2>5. Len(batch[r].records) <= writePosition[t] - readPosition[t]
    BY <2>1, <2>2, <2>3, <2>4 DEF DrainBalances
  <2>6. DOMAIN Ring(t) = 1..(writePosition[t] - readPosition[t])
    BY DEF Ring
  <2>7. \A i \in DOMAIN batch[r].records : i \in DOMAIN Ring(t)
    BY <2>3, <2>4, <2>5, <2>6
  <2>8. \A i \in DOMAIN batch[r].records : batch[r].records[i] = (Ring(t)')[i]
    BY <2>1, <2>2, <2>7 DEF CopyInv
  <2>9. Ring(targetIndex[r])' = Ring(t)'
    BY <2>1, <1>s DEF Ring
  <2> QED BY <2>2, <2>8, <2>9 DEF CopyInv
<1>2. ASSUME NEW r \in Session PROVE OwnerInv(r)'
  <2>1. OwnerInv(r) /\ CurrentTarget' = CurrentTarget
    BY DEF QueueInv, CurrentTarget
  <2>2. CurrentTarget \in Target
    BY CurrentTargetFollows DEF TypeOK, ProcessTypeOK, CurrentTarget
  <2>3. /\ Decided(CurrentTarget) <= Decided(CurrentTarget)'
        /\ Decided(CurrentTarget) \in Int /\ Decided(CurrentTarget)' \in Int
    <3>1. /\ Decided(CurrentTarget) \in Int
          /\ \A t \in Target : Decided(t) <= Decided(t)'
      BY <2>2, DecidedIsInt
    <3>2. \A t \in Target : Decided(t)' \in Int
      BY DEF TypeOK, TargetTypeOK, Diagnostics, Decided, Underway
    <3> QED BY <3>1, <3>2, <2>2, <2>1 DEF Decided, Underway
  <2>4. \A i \in DOMAIN delivered : delivered[i].sequence \in Int
    <3>1. \A i \in DOMAIN delivered : delivered[i] \in EventRecord
      BY DEF TypeOK
    <3> QED BY <3>1 DEF EventRecord
  <2>5. owns[r] => \A i \in DOMAIN delivered : delivered[i].sequence <= Decided(CurrentTarget)
    BY <2>1 DEF OwnerInv
  <2>6. owns[r] => \A i \in DOMAIN delivered : delivered[i].sequence <= Decided(CurrentTarget)'
    BY <2>3, <2>4, <2>5
  <2> QED BY <2>1, <2>6, <1>s DEF OwnerInv
<1> QED BY <1>1, <1>2 DEF QueueInv

\* A ring that a step leaves alone stays in order as more numbers are decided.
LEMMA KeptRing ==
  ASSUME TypeOK, TypeOK', BalanceInv, QueueInv, NEW t \in Target,
         Ring(t)' = Ring(t), readPosition'[t] = readPosition[t],
         writePosition'[t] = writePosition[t], Decided(t) <= Decided(t)',
         counters'[t].received + Underway(t, {"Loaded", "Counted", "Admitted"})' <= calls'
  PROVE  RingInv(t)'
<1>1. RingInv(t) /\ \A i \in DOMAIN Ring(t) : Ring(t)[i] \in EventRecord
  BY RingShape DEF QueueInv, BalanceInv
<1>2. Decided(t) \in Int
  BY DecidedIsInt
<1>3. Decided(t)' \in Int
  BY DEF TypeOK, TargetTypeOK, Diagnostics, Decided, Underway
<1>4. \A i \in DOMAIN Ring(t) : Ring(t)[i].sequence \in Int
  BY <1>1 DEF EventRecord
<1>5. \A i \in DOMAIN Ring(t) : Ring(t)[i].sequence <= Decided(t)'
  BY <1>1, <1>2, <1>3, <1>4 DEF RingInv
<1> QED BY <1>1, <1>5 DEF RingInv

\* Steps of the thunk that write to no ring.
LEMMA ThunkCountsQueueInv ==
  ASSUME TypeOK, TypeOK', BalanceInv, QueueInv,
         \/ \E id \in CallbackId : EnterThunk(id)
         \/ CountIn \/ Recheck \/ CountOut \/ FindRoom
         \/ Receive \/ RejectUnknown \/ Overflow \/ CountEnqueued
  PROVE  QueueInv'
<1> DEFINE u == thunk.target
           Entering(t) == Underway(t, {"Loaded", "Counted", "Admitted"})
<1>t. /\ thunk \in ThunkCall /\ u \in Target /\ calls \in Nat
      /\ counters \in [Target -> Diagnostics]
  BY ConstantsAssumption DEF TypeOK, HostTypeOK, TargetTypeOK, ThunkCall
<1>n. \A t \in Target : counters[t].received \in Nat
  BY <1>t DEF Diagnostics
<1>s. UNCHANGED <<sessionVars, nextTarget, delivered, readPosition, events, writePosition>>
  BY DEF EnterThunk, CountIn, Recheck, Receive, RejectUnknown, Overflow, FindRoom,
         CountEnqueued, CountOut, targetVars, processVars
<1>q. CallInv /\ \A t \in Target : counters[t].received + Entering(t) <= calls
  BY DEF QueueInv, RingInv
<1>1. ASSUME CallInv',
             \A t \in Target : /\ Decided(t) <= Decided(t)'
                               /\ counters'[t].received + Entering(t)' <= calls'
      PROVE  QueueInv'
  <2>1. \A t \in Target : RingInv(t)' /\ Ring(t)' = Ring(t)
    <3> TAKE t \in Target
    <3>1. /\ Ring(t)' = Ring(t) /\ readPosition'[t] = readPosition[t]
          /\ writePosition'[t] = writePosition[t]
      BY <1>s DEF Ring
    <3> QED BY <1>1, <3>1, KeptRing
  <2> QED BY <1>1, <2>1, <1>s, ThunkStepKeepsQueue
<1>2. ASSUME NEW id \in CallbackId, EnterThunk(id) PROVE QueueInv'
  <2>1. /\ UNCHANGED counters /\ calls' = calls + 1
        /\ thunk.pc = "Out" /\ thunk'.pc = "Loaded" /\ thunk'.id = id
    BY <1>2 DEF EnterThunk, IdleThunk, targetVars
  <2>2. CallInv'
    BY <2>1 DEF CallInv
  <2>3. ASSUME NEW t \in Target
        PROVE  Decided(t) <= Decided(t)' /\ counters'[t].received + Entering(t)' <= calls'
    BY <2>1, <1>n, <1>t, <1>q DEF Decided, Underway
  <2> QED BY <2>2, <2>3, <1>1
<1>3. CASE CountIn \/ Recheck \/ CountOut
  <2>1. /\ UNCHANGED <<counters, calls>>
        /\ thunk.pc \in {"Loaded", "Counted", "Leaving"}
        /\ \/ thunk'.pc \in {"Leaving", "Out"}
           \/ thunk.pc # "Leaving" /\ thunk'.pc \in {"Counted", "Admitted"}
        /\ thunk'.pc # "Out" => thunk'.target = u /\ thunk'.id = thunk.id
    BY <1>3, <1>t DEF CountIn, Recheck, CountOut, ThunkMoves, ThunkCall, IdleThunk, targetVars
  <2>2. CallInv'
    BY <2>1, <1>q DEF CallInv
  <2>3. ASSUME NEW t \in Target
        PROVE  Decided(t) <= Decided(t)' /\ counters'[t].received + Entering(t)' <= calls'
    BY <2>1, <1>n, <1>t, <1>q DEF Decided, Underway
  <2> QED BY <2>2, <2>3, <1>1
<1>4. CASE FindRoom
  <2>1. /\ UNCHANGED <<counters, calls>> /\ Known(thunk.id) /\ ~IsFull(u)
        /\ thunk.pc = "Received" /\ thunk'.pc = "Fill" /\ thunk'.target = u
        /\ thunk'.id = thunk.id /\ thunk'.sequence = thunk.sequence
    BY <1>4, <1>t DEF FindRoom, ThunkCall, targetVars
  <2>2. CallInv'
    BY <2>1, <1>q, <1>s DEF CallInv, IsFull
  <2>3. ASSUME NEW t \in Target
        PROVE  Decided(t) <= Decided(t)' /\ counters'[t].received + Entering(t)' <= calls'
    BY <2>1, <1>n, <1>t, <1>q DEF Decided, Underway
  <2> QED BY <2>2, <2>3, <1>1
<1>5. CASE Receive
  <2>1. /\ counters' = [counters EXCEPT ![u].received = @ + 1] /\ UNCHANGED calls
        /\ thunk.pc = "Admitted" /\ thunk'.pc = "Received" /\ thunk'.target = u
        /\ thunk'.id = thunk.id /\ thunk'.sequence = counters'[u].received
    BY <1>5, <1>t DEF Receive, ThunkCall
  <2>2. \A t \in Target : counters'[t].received =
                            IF t = u THEN counters[t].received + 1 ELSE counters[t].received
    BY <2>1, <1>t DEF Diagnostics
  <2>3. CallInv'
    BY <2>1, <1>q DEF CallInv
  <2>4. ASSUME NEW t \in Target
        PROVE  Decided(t) <= Decided(t)' /\ counters'[t].received + Entering(t)' <= calls'
    BY <2>1, <2>2, <1>n, <1>t, <1>q DEF Decided, Underway
  <2> QED BY <2>3, <2>4, <1>1
<1>6. CASE RejectUnknown \/ Overflow \/ CountEnqueued
  <2>1. /\ \/ counters' = [counters EXCEPT ![u].unknown = @ + 1]
           \/ counters' = [counters EXCEPT ![u].overflow = @ + 1]
           \/ counters' = [counters EXCEPT ![u].enqueued = @ + 1]
        /\ UNCHANGED calls
        /\ thunk.pc \in {"Received", "Count"} /\ thunk'.pc = "Leaving" /\ thunk'.target = u
        /\ thunk'.id = thunk.id
    BY <1>6, <1>t DEF RejectUnknown, Overflow, CountEnqueued, ThunkMoves, ThunkCall
  <2>2. \A t \in Target : counters'[t].received = counters[t].received
    BY <2>1, <1>t DEF Diagnostics
  <2>3. CallInv'
    BY <2>1, <1>q DEF CallInv
  <2>4. ASSUME NEW t \in Target
        PROVE  Decided(t) <= Decided(t)' /\ counters'[t].received + Entering(t)' <= calls'
    BY <2>1, <2>2, <1>n, <1>t, <1>q DEF Decided, Underway
  <2> QED BY <2>3, <2>4, <1>1
<1> QED BY <1>2, <1>3, <1>4, <1>5, <1>6

\* The slot a call fills is not one of the ring's: what waits there stays.
LEMMA FillKeepsRing ==
  ASSUME TypeOK, BalanceInv, QueueInv, FillSlot, NEW t \in Target
  PROVE  Ring(t)' = Ring(t)
<1> DEFINE from == readPosition[t]
           to == writePosition[t]
<1>1. /\ UNCHANGED <<readPosition, writePosition>>
      /\ events' = [events EXCEPT ![thunk.target][thunk.write % Capacity] = Record]
      /\ thunk.pc = "Fill"
  BY DEF FillSlot, ThunkMoves
<1>2. /\ from \in Nat /\ to \in Nat /\ from <= to /\ Capacity \in Nat \ {0}
      /\ events \in [Target -> [0..(Capacity - 1) -> EventRecord]]
  BY ConstantsAssumption DEF TypeOK, TargetTypeOK, BalanceInv, TargetBalances
<1>3. CASE t # thunk.target
  <2>1. events'[t] = events[t]
    BY <1>1, <1>2, <1>3
  <2> QED BY <1>1, <2>1 DEF Ring
<1>4. CASE t = thunk.target
  <2>1. thunk.write = to /\ to - from < Capacity
    BY <1>1, <1>2, <1>4 DEF BalanceInv, QueueInv, CallInv, IsFull
  <2> HIDE DEF from, to
  <2>2. ASSUME NEW i \in 1..(to - from)
        PROVE  events'[t][(from + i - 1) % Capacity] = events[t][(from + i - 1) % Capacity]
    <3> DEFINE p == from + i - 1
    <3>1. p \in Nat /\ p < to /\ to - p < Capacity
      BY <1>2, <2>1
    <3> HIDE DEF p
    <3>2. p % Capacity # to % Capacity
      BY <1>2, <3>1, NearPositionsDiffer
    <3>3. events'[t][p % Capacity] = events[t][p % Capacity]
      BY <1>1, <1>2, <1>4, <2>1, <3>2
    <3> QED BY <3>3 DEF p
  <2>3. Ring(t)' = [i \in 1..(to - from) |-> events'[t][(from + i - 1) % Capacity]]
    BY <1>1 DEF Ring, from, to
  <2>4. Ring(t) = [i \in 1..(to - from) |-> events[t][(from + i - 1) % Capacity]]
    BY DEF Ring, from, to
  <2> QED BY <2>2, <2>3, <2>4
<1> QED BY <1>3, <1>4

\* A record that is published joins the end of its ring, and no other ring.
LEMMA PublishExtendsRing ==
  ASSUME TypeOK, BalanceInv, QueueInv, PublishRecord, NEW t \in Target
  PROVE  /\ Record \in EventRecord
         /\ t = thunk.target =>
              /\ writePosition'[t] = writePosition[t] + 1
              /\ Ring(t)' = Append(Ring(t), Record)
         /\ t # thunk.target =>
              writePosition'[t] = writePosition[t] /\ Ring(t)' = Ring(t)
<1> DEFINE from == readPosition[t]
           to == writePosition[t]
           ring == events[t]
<1>1. /\ UNCHANGED <<readPosition, events>> /\ thunk.pc = "Publish"
      /\ writePosition' = [writePosition EXCEPT ![thunk.target] = thunk.write + 1]
  BY DEF PublishRecord, ThunkMoves
<1>2. /\ from \in Nat /\ to \in Nat /\ from <= to
      /\ writePosition \in [Target -> Nat] /\ thunk \in ThunkCall
  BY DEF TypeOK, TargetTypeOK, HostTypeOK, BalanceInv, TargetBalances
<1>3. Record \in EventRecord
  BY <1>1, <1>2 DEF Record, EventRecord, ThunkCall, QueueInv, CallInv, Known
<1>4. CASE t # thunk.target
  <2>1. writePosition'[t] = writePosition[t]
    BY <1>1, <1>2, <1>4
  <2> QED BY <1>1, <1>3, <1>4, <2>1 DEF Ring
<1>5. CASE t = thunk.target
  <2>1. thunk.write = to /\ ring[to % Capacity] = Record /\ writePosition'[t] = to + 1
    BY <1>1, <1>2, <1>5 DEF BalanceInv, QueueInv, CallInv
  <2>2. /\ events'[t] = ring /\ readPosition'[t] = from
        /\ ring \in [0..(Capacity - 1) -> EventRecord]
    BY <1>1 DEF TypeOK, TargetTypeOK
  <2>3. Ring(t) = Slots(ring, from, to - from)
    BY DEF Ring, Slots
  <2>4. Ring(t)' = Slots(ring, from, to + 1 - from)
    <3>1. Ring(t)' = Slots(events'[t], readPosition'[t], writePosition'[t] - readPosition'[t])
      BY DEF Ring, Slots
    <3>2. /\ writePosition'[t] - readPosition'[t] = to + 1 - from
          /\ events'[t] = ring /\ readPosition'[t] = from
      BY <1>2, <2>1, <2>2
    <3>3. Slots(events'[t], readPosition'[t], writePosition'[t] - readPosition'[t])
            = Slots(ring, from, to + 1 - from)
      BY <3>2, Zenon
    <3> QED BY <3>1, <3>3, Zenon
  <2> HIDE DEF from, to, ring
  <2>5. to - from \in Nat /\ to + 1 - from = (to - from) + 1 /\ from + (to - from) = to
    BY <1>2
  <2>6. Slots(ring, from, (to - from) + 1)
          = Append(Slots(ring, from, to - from), ring[(from + (to - from)) % Capacity])
    BY <1>2, <2>2, <2>5, LongerStretch
  <2>7. Ring(t)' = Append(Ring(t), Record)
    BY <2>1, <2>3, <2>4, <2>5, <2>6
  <2> QED BY <1>3, <1>5, <2>1, <2>7 DEF to
<1> QED BY <1>4, <1>5

\* Filling a slot, and making the ring one record longer.
LEMMA ThunkWritesQueueInv ==
  ASSUME TypeOK, TypeOK', BalanceInv, QueueInv, FillSlot \/ PublishRecord
  PROVE  QueueInv'
<1> DEFINE u == thunk.target
           Entering(t) == Underway(t, {"Loaded", "Counted", "Admitted"})
<1>t. /\ thunk \in ThunkCall /\ u \in Target /\ calls \in Nat /\ Capacity \in Nat \ {0}
      /\ counters \in [Target -> Diagnostics] /\ thunk.sequence \in Nat
      /\ events \in [Target -> [0..(Capacity - 1) -> EventRecord]]
  <2>1. thunk \in ThunkCall /\ calls \in 0..MaxCalls
    BY DEF TypeOK, HostTypeOK
  <2>2. u \in Target /\ thunk.sequence \in Nat
    BY <2>1 DEF ThunkCall
  <2> QED BY <2>1, <2>2, ConstantsAssumption DEF TypeOK, TargetTypeOK
<1>n. \A t \in Target : /\ counters[t].received \in Nat
                        /\ readPosition[t] \in Nat /\ writePosition[t] \in Nat
                        /\ readPosition[t] <= writePosition[t]
  BY <1>t DEF Diagnostics, TypeOK, TargetTypeOK, BalanceInv, TargetBalances
<1>s. UNCHANGED <<sessionVars, nextTarget, delivered, readPosition, counters, calls>>
  BY DEF FillSlot, PublishRecord, processVars
<1>q. CallInv /\ \A t \in Target : counters[t].received + Entering(t) <= calls
  BY DEF QueueInv, RingInv
<1>k. ASSUME NEW from \in {"Fill", "Publish"}, NEW to \in {"Publish", "Count"},
             ThunkMoves(<<from, to>>)
      PROVE  /\ thunk.pc = from /\ thunk'.pc = to /\ thunk'.target = u
             /\ thunk'.id = thunk.id /\ thunk'.sequence = thunk.sequence
             /\ thunk'.write = thunk.write
  BY <1>k, <1>t DEF ThunkMoves, ThunkCall
<1>1. CASE FillSlot
  <2>1. /\ thunk.pc = "Fill" /\ thunk'.pc = "Publish" /\ thunk'.target = u
        /\ thunk'.id = thunk.id /\ thunk'.sequence = thunk.sequence
        /\ thunk'.write = thunk.write
    BY <1>1, <1>k DEF FillSlot
  <2>2. /\ events' = [events EXCEPT ![u][thunk.write % Capacity] = Record]
        /\ UNCHANGED writePosition
    BY <1>1 DEF FillSlot
  <2>3. thunk.write \in Nat /\ thunk.write % Capacity \in 0..(Capacity - 1)
    BY <1>t DEF ThunkCall
  <2>4. events'[u][thunk.write % Capacity] = Record
    BY <2>2, <2>3, <1>t
  <2>5. Record' = Record
    BY <2>1 DEF Record
  <2>6. CallInv'
    BY <2>1, <2>2, <2>4, <2>5, <1>q, <1>s DEF CallInv, IsFull
  <2>7. ASSUME NEW t \in Target PROVE Decided(t)' = Decided(t) /\ Decided(t) <= Decided(t)'
    <3>1. Decided(t)' = Decided(t)
      BY <2>1, <1>s DEF Decided, Underway
    <3> QED BY <3>1, DecidedIsInt
  <2>8. ASSUME NEW t \in Target PROVE RingInv(t)' /\ Ring(t)' = Ring(t)
    <3>1. Ring(t)' = Ring(t)
      BY <1>1, FillKeepsRing
    <3>2. counters'[t].received + Entering(t)' <= calls'
      BY <2>1, <1>q, <1>n, <1>s, <1>t DEF Underway
    <3>3. readPosition'[t] = readPosition[t] /\ writePosition'[t] = writePosition[t]
      BY <1>s, <2>2
    <3> QED BY <3>1, <3>2, <3>3, <2>7, KeptRing
  <2> QED BY <2>6, <2>7, <2>8, <1>s, ThunkStepKeepsQueue
<1>2. CASE PublishRecord
  <2>1. thunk.pc = "Publish" /\ thunk'.pc = "Count" /\ thunk'.target = u /\ thunk'.id = thunk.id
    BY <1>2, <1>k DEF PublishRecord
  <2>2. CallInv'
    BY <2>1, <1>q DEF CallInv
  <2>3. ASSUME NEW t \in Target
        PROVE  /\ Decided(t) \in Int /\ Decided(t)' \in Int /\ Decided(t) <= Decided(t)'
               /\ t # u => Decided(t)' = Decided(t)
               /\ t = u => Decided(t)' = counters[t].received
    BY <2>1, <1>s, <1>n DEF Decided, Underway
  <2>4. ASSUME NEW t \in Target
        PROVE  RingInv(t)' /\ \A i \in DOMAIN Ring(t) : (Ring(t)')[i] = Ring(t)[i]
    <3>1. /\ Record \in EventRecord
          /\ t = u => writePosition'[t] = writePosition[t] + 1 /\ Ring(t)' = Append(Ring(t), Record)
          /\ t # u => writePosition'[t] = writePosition[t] /\ Ring(t)' = Ring(t)
      BY <1>2, PublishExtendsRing
    <3>2. counters'[t].received + Entering(t)' <= calls'
      BY <2>1, <1>q, <1>n, <1>s, <1>t DEF Underway
    <3>3. CASE t # u
      <4>1. RingInv(t)'
        BY <3>1, <3>2, <3>3, <2>3, <1>s, KeptRing
      <4> QED BY <3>1, <3>3, <4>1
    <3>4. CASE t = u
      <4>1. RingInv(t) /\ Ring(t) \in Seq(EventRecord)
            /\ Len(Ring(t)) = writePosition[t] - readPosition[t]
        BY RingShape DEF QueueInv, BalanceInv
      <4> DEFINE ring == Ring(t)
                 longer == Append(ring, Record)
      <4>2. /\ longer \in Seq(EventRecord) /\ DOMAIN longer = 1..(Len(ring) + 1)
            /\ DOMAIN ring = 1..Len(ring) /\ Len(ring) \in Nat
            /\ \A i \in DOMAIN ring : longer[i] = ring[i] /\ ring[i] \in EventRecord
            /\ longer[Len(ring) + 1] = Record
        BY <3>1, <4>1
      <4>3. writePosition[t] - readPosition[t] < Capacity
        BY <2>1, <3>4, <1>q, <1>n, <1>t DEF CallInv, IsFull
      <4>4. writePosition'[t] - readPosition'[t] <= Capacity
        BY <3>1, <3>4, <4>3, <1>n, <1>s, <1>t
      <4>5. Record.sequence = counters[t].received
        BY <2>1, <3>4, <1>q DEF CallInv, Record
      <4>6. \A i \in DOMAIN ring : ring[i].sequence <= Decided(t) /\ ring[i].sequence \in Int
        BY <4>1, <4>2 DEF RingInv, EventRecord
      <4> HIDE DEF ring, longer
      <4>7. ASSUME NEW i \in DOMAIN longer PROVE longer[i].sequence <= Decided(t)'
        <5>1. CASE i \in DOMAIN ring
          BY <5>1, <2>3, <4>2, <4>6
        <5>2. CASE i = Len(ring) + 1
          BY <5>2, <2>3, <3>4, <4>2, <4>5, <1>n
        <5>3. i \in DOMAIN ring \/ i = Len(ring) + 1
          BY <4>2
        <5> QED BY <5>1, <5>2, <5>3
      <4>8. Ring(t)' = longer
        BY <3>1, <3>4 DEF longer, ring
      <4>9. RingInv(t)'
        BY <4>4, <4>7, <4>8, <3>2 DEF RingInv
      <4> QED BY <4>2, <4>8, <4>9 DEF ring
    <3> QED BY <3>3, <3>4
  <2> QED BY <2>2, <2>3, <2>4, <1>s, ThunkStepKeepsQueue
<1> QED BY <1>1, <1>2

LEMMA CallQueueInv ==
  ASSUME TypeOK, SlotInv, QueueInv, NEW s \in Session, Call(s) PROVE QueueInv'
<1>t. /\ pc \in [Session -> SessionPc] /\ owns \in [Session -> BOOLEAN]
      /\ targetIndex \in [Session -> Target] /\ batch \in [Session -> Batch]
  BY DEF TypeOK, SessionTypeOK
<1>c. SessionConsistent(s)
  BY DEF SlotInv
<1>1. CASE Bootstrap(s) \/ RetryRenderReadiness(s) \/ Stop(s) \/ Fail(s)
  <2>1. /\ UNCHANGED <<targetVars, thunk, calls, delivered, nextTarget, targetIndex, owns, batch>>
        /\ \A r \in Session : pc'[r] \in {"Copy", "Commit"} => pc'[r] = pc[r]
    BY <1>1, <1>t
       DEF Bootstrap, RetryRenderReadiness, Stop, Fail, Terminate, Settle, BeginActivate,
           SessionMoves, hostVars, processVars
  <2> QED BY <2>1, QuietStepQueueInv
<1>2. CASE Renew(s)
  <2>1. /\ UNCHANGED <<targetVars, thunk, calls, delivered, nextTarget, owns, pc, batch>>
        /\ pc[s] = "Ready" /\ ~owns[s]
        /\ targetIndex' = [targetIndex EXCEPT ![s] = 0]
    BY <1>2, <1>c DEF Renew, hostVars, processVars, SessionConsistent
  <2>2. \A r \in Session : r # s => targetIndex'[r] = targetIndex[r]
    BY <2>1, <1>t
  <2> QED BY <2>1, <2>2, QuietStepQueueInv
<1>3. ASSUME NEW size \in 1..Capacity, Drain(s, size) PROVE QueueInv'
  <2>1. /\ UNCHANGED <<targetVars, thunk, calls, delivered, nextTarget, targetIndex, owns>>
        /\ pc' = [pc EXCEPT ![s] = "Copy"]
        /\ \E last \in {batch'[s].last} : batch'[s] = [next |-> readPosition[targetIndex[s]],
                                                      last |-> last, records |-> <<>>]
        /\ \A r \in Session : r # s => batch'[r] = batch[r]
    BY <1>3, <1>t DEF Drain, SessionMoves, hostVars, processVars
  <2>2. batch'[s].records = <<>> /\ DOMAIN batch'[s].records = {}
    BY <2>1
  <2>3. pc'[s] = "Copy" /\ \A r \in Session : r # s => pc'[r] = pc[r]
    BY <2>1, <1>t
  <2>4. CopyInv(s)'
    BY <2>2, <2>3 DEF CopyInv
  <2> QED BY <2>1, <2>3, <2>4, QuietStepQueueInv
<1> QED BY <1>1, <1>2, <1>3 DEF Call

\* A slot is copied: it is the next of the ring that the drain has come to.
LEMMA CopySlotQueueInv ==
  ASSUME TypeOK, SlotInv, BalanceInv, QueueInv, NEW s \in Session, CopySlot(s) PROVE QueueInv'
<1> DEFINE done == batch[s].records
           ring == Ring(targetIndex[s])
           copied == events[targetIndex[s]][batch[s].next % Capacity]
           longer == Append(done, copied)
<1>1. /\ UNCHANGED <<targetVars, thunk, calls, delivered, nextTarget, targetIndex, owns>>
      /\ pc[s] = "Copy" /\ pc'[s] \in {"Copy", "Commit"}
      /\ batch'[s] = [next |-> batch[s].next + 1, last |-> batch[s].last, records |-> longer]
      /\ \A r \in Session : r # s => pc'[r] = pc[r] /\ batch'[r] = batch[r]
  BY DEF CopySlot, hostVars, processVars, TypeOK, SessionTypeOK
<1>u. UNCHANGED <<events, readPosition, writePosition, counters>>
  BY <1>1 DEF targetVars
<1>2. batch[s] \in Batch /\ targetIndex[s] \in Target /\ CopyInv(s) /\ DrainBalances(s)
  BY DEF TypeOK, SessionTypeOK, QueueInv, BalanceInv
<1>3. /\ batch[s].next \in Nat /\ batch[s].last \in Nat
      /\ done \in Seq(EventRecord) /\ Len(done) \in Nat /\ DOMAIN done = 1..Len(done)
  BY <1>2 DEF Batch
<1>4. PICK t \in Target : t = targetIndex[s]
  BY <1>2
<1>5. PICK from \in Nat, to \in Nat : from = readPosition[t] /\ to = writePosition[t]
  BY DEF TypeOK, TargetTypeOK
<1>6. batch[s].next = from + Len(done) /\ batch[s].next < to
  BY <1>1, <1>2, <1>3, <1>4, <1>5 DEF DrainBalances
<1>7. \A i \in 1..(to - from) : /\ ring[i] = events[t][(from + i - 1) % Capacity]
                                /\ ring[i] \in EventRecord
  BY <1>4, <1>5, RingShape DEF BalanceInv
<1>8. ring[Len(done) + 1] = copied /\ copied \in EventRecord
  <2>1. Len(done) + 1 \in 1..(to - from) /\ from + (Len(done) + 1) - 1 = batch[s].next
    BY <1>3, <1>6
  <2> QED BY <2>1, <1>4, <1>7
<1>9. \A i \in DOMAIN done : done[i] = ring[i]
  BY <1>1, <1>2 DEF CopyInv
<1> HIDE DEF done, ring, copied
<1>10. /\ longer # <<>> /\ DOMAIN longer = 1..(Len(done) + 1)
       /\ \A i \in DOMAIN done : longer[i] = done[i]
       /\ longer[Len(done) + 1] = copied
  BY <1>3, <1>8
<1> HIDE DEF longer
<1>11. ASSUME NEW i \in DOMAIN longer PROVE longer[i] = ring[i]
  <2>1. i \in DOMAIN done \/ i = Len(done) + 1
    BY <1>3, <1>10
  <2> QED BY <2>1, <1>8, <1>9, <1>10
<1>12. CopyInv(s)'
  <2>1. Ring(targetIndex[s])' = ring /\ batch'[s].records = longer
    BY <1>1, <1>u DEF Ring, ring
  <2> QED BY <2>1, <1>10, <1>11 DEF CopyInv
<1> QED BY <1>1, <1>12, QuietStepQueueInv

\* A later part of a stretch is the rest of it.
LEMMA LaterStretch ==
  ASSUME NEW ring \in [0..(Capacity - 1) -> EventRecord], NEW from \in Nat,
         NEW m \in Nat, NEW n \in 1..m
  PROVE  /\ Slots(ring, from + n, m - n) = SubSeq(Slots(ring, from, m), n + 1, m)
         /\ \A i \in 1..(m - n) :
              Slots(ring, from + n, m - n)[i] = Slots(ring, from, m)[n + i]
<1> DEFINE whole == Slots(ring, from, m)
           rest == Slots(ring, from + n, m - n)
<1>1. /\ whole \in Seq(EventRecord) /\ Len(whole) = m
      /\ \A i \in 1..m : whole[i] = ring[(from + i - 1) % Capacity]
  BY SlotsAreASequence
<1>2. from + n \in Nat /\ m - n \in Nat
  OBVIOUS
<1>3. /\ rest \in Seq(EventRecord) /\ Len(rest) = m - n
      /\ \A i \in 1..(m - n) : rest[i] = ring[((from + n) + i - 1) % Capacity]
  BY <1>2, SlotsAreASequence
<1> HIDE DEF whole, rest
<1>4. ASSUME NEW i \in 1..(m - n) PROVE rest[i] = whole[n + i]
  <2>1. n + i \in 1..m /\ (from + n) + i - 1 = from + (n + i) - 1
    OBVIOUS
  <2> QED BY <2>1, <1>1, <1>3
<1>5. /\ SubSeq(whole, n + 1, m) \in Seq(EventRecord)
      /\ Len(SubSeq(whole, n + 1, m)) = m - n
      /\ \A i \in 1..(m - n) : SubSeq(whole, n + 1, m)[i] = whole[n + i]
  <2>1. n + 1 \in 1..(Len(whole) + 1) /\ m \in 0..Len(whole)
    BY <1>1
  <2> QED BY <2>1, <1>1
<1>6. rest = SubSeq(whole, n + 1, m)
  BY <1>3, <1>4, <1>5, SameSequence
<1> QED BY <1>4, <1>6 DEF whole, rest

\* What a finished drain takes off its ring: the front, as it was copied.
LEMMA CommitTakesFront ==
  ASSUME TypeOK, SlotInv, BalanceInv, QueueInv, NEW s \in Session, CommitDrain(s),
         NEW t \in Target, t = targetIndex[s]
  PROVE  LET records == batch[s].records IN
         /\ owns[s] /\ records \in Seq(EventRecord) /\ Len(records) \in 1..Len(Ring(t))
         /\ readPosition'[t] \in Nat /\ readPosition'[t] = readPosition[t] + Len(records)
         /\ records = SubSeq(Ring(t), 1, Len(records))
         /\ Ring(t)' = SubSeq(Ring(t), Len(records) + 1, Len(Ring(t)))
         /\ \A i \in DOMAIN records : i \in DOMAIN Ring(t) /\ records[i] = Ring(t)[i]
         /\ \A i \in DOMAIN (Ring(t)') :
              Len(records) + i \in DOMAIN Ring(t) /\ (Ring(t)')[i] = Ring(t)[Len(records) + i]
<1> DEFINE records == batch[s].records
           from == readPosition[t]
           to == writePosition[t]
           ring == events[t]
           n == Len(records)
           m == to - from
<1>1. /\ pc[s] = "Commit" /\ UNCHANGED <<events, writePosition>>
      /\ readPosition' = [readPosition EXCEPT ![t] = batch[s].next]
  BY DEF CommitDrain, SessionMoves
<1>2. batch[s] \in Batch /\ CopyInv(s) /\ DrainBalances(s) /\ SessionConsistent(s)
  BY DEF TypeOK, SessionTypeOK, QueueInv, BalanceInv, SlotInv
<1>3. /\ batch[s].next \in Nat /\ batch[s].last \in Nat
      /\ records \in Seq(EventRecord) /\ n \in Nat /\ DOMAIN records = 1..n
      /\ records # <<>> /\ owns[s]
      /\ \A i \in DOMAIN records : records[i] = Ring(t)[i]
  BY <1>1, <1>2 DEF Batch, CopyInv, SessionConsistent, OwningPc
<1>4. /\ from \in Nat /\ to \in Nat /\ from <= to /\ m \in Nat
      /\ ring \in [0..(Capacity - 1) -> EventRecord] /\ readPosition \in [Target -> Nat]
  BY DEF TypeOK, TargetTypeOK, BalanceInv, TargetBalances
<1>5. batch[s].next = from + n /\ batch[s].next <= to
  BY <1>1, <1>2, <1>3, <1>4 DEF DrainBalances
<1>6. readPosition'[t] = from + n /\ events'[t] = ring /\ writePosition'[t] = to
  BY <1>1, <1>4, <1>5
<1>7. /\ Ring(t) = Slots(ring, from, m)
      /\ Ring(t) \in Seq(EventRecord) /\ Len(Ring(t)) = m /\ DOMAIN Ring(t) = 1..m
  <2>1. Ring(t) = Slots(ring, from, m)
    BY DEF Ring, Slots
  <2> QED BY <2>1, RingShape DEF BalanceInv
<1>8. Ring(t)' = Slots(events'[t], readPosition'[t], writePosition'[t] - readPosition'[t])
  BY DEF Ring, Slots
<1> HIDE DEF from, to, ring, n, m
<1>9. n >= 1 /\ n <= m
  <2>1. n # 0
    BY <1>3 DEF n
  <2> QED BY <2>1, <1>3, <1>4, <1>5 DEF m
<1>10. to - (from + n) = m - n /\ n \in 1..m
  BY <1>3, <1>4, <1>9 DEF m
<1>11. Ring(t)' = Slots(ring, from + n, m - n)
  <2>1. Slots(events'[t], readPosition'[t], writePosition'[t] - readPosition'[t])
          = Slots(ring, from + n, m - n)
    BY <1>6, <1>10
  <2> QED BY <2>1, <1>8, Zenon
<1>12. /\ Slots(ring, from + n, m - n) = SubSeq(Slots(ring, from, m), n + 1, m)
       /\ \A i \in 1..(m - n) : Slots(ring, from + n, m - n)[i] = Slots(ring, from, m)[n + i]
  BY <1>4, <1>10, LaterStretch
<1>13. DOMAIN (Ring(t)') = 1..(m - n)
  BY <1>11 DEF Slots
<1>14. \A i \in DOMAIN (Ring(t)') :
          n + i \in DOMAIN Ring(t) /\ (Ring(t)')[i] = Ring(t)[n + i]
  <2>1. \A i \in 1..(m - n) : n + i \in 1..m
    BY <1>3, <1>4, <1>9
  <2> QED BY <2>1, <1>7, <1>11, <1>12, <1>13
<1>15. \A i \in DOMAIN records : i \in DOMAIN Ring(t) /\ records[i] = Ring(t)[i]
  BY <1>3, <1>4, <1>7, <1>9
<1>16. records = SubSeq(Ring(t), 1, n)
  <2>1. /\ SubSeq(Ring(t), 1, n) \in Seq(EventRecord)
        /\ Len(SubSeq(Ring(t), 1, n)) = n
        /\ \A i \in 1..n : SubSeq(Ring(t), 1, n)[i] = Ring(t)[i]
    <3>1. 1 \in 1..(Len(Ring(t)) + 1) /\ n \in 0..Len(Ring(t))
      BY <1>3, <1>4, <1>7, <1>9
    <3> QED BY <3>1, <1>7
  <2>2. Len(records) = n
    BY DEF n
  <2> HIDE DEF records
  <2> QED BY <2>1, <2>2, <1>3, SameSequence
<1>17. Ring(t)' = SubSeq(Ring(t), n + 1, m)
  BY <1>7, <1>11, <1>12
<1>18. readPosition'[t] \in Nat /\ readPosition'[t] = readPosition[t] + n
  BY <1>3, <1>4, <1>6 DEF from
<1>19. n \in 1..Len(Ring(t)) /\ m = Len(Ring(t)) /\ n = Len(records)
  BY <1>7, <1>10 DEF n
<1>20. /\ owns[s] /\ records \in Seq(EventRecord)
       /\ Ring(t)' = SubSeq(Ring(t), n + 1, Len(Ring(t)))
  BY <1>3, <1>17, <1>19
<1> HIDE DEF records
<1> QED BY <1>14, <1>15, <1>16, <1>18, <1>19, <1>20, Zenon DEF records

LEMMA CommitDrainQueueInv ==
  ASSUME TypeOK, SlotInv, BalanceInv, QueueInv, NEW s \in Session, CommitDrain(s)
  PROVE  QueueInv'
<1>1. PICK t \in Target : t = targetIndex[s]
  BY DEF TypeOK, SessionTypeOK
<1> DEFINE records == batch[s].records
<1>t. /\ readPosition \in [Target -> Nat] /\ writePosition \in [Target -> Nat]
      /\ counters \in [Target -> Diagnostics] /\ pc \in [Session -> SessionPc]
      /\ Capacity \in Nat
  BY ConstantsAssumption DEF TypeOK, TargetTypeOK, SessionTypeOK
<1>2. /\ UNCHANGED <<thunk, calls, events, writePosition, nextTarget, targetIndex, owns>>
      /\ pc[s] = "Commit" /\ pc' = [pc EXCEPT ![s] = "Ready"]
      /\ readPosition' = [readPosition EXCEPT ![t] = batch[s].next]
      /\ counters' = [counters EXCEPT ![t].drained = @ + Len(records)]
      /\ delivered' = delivered \o records
  BY <1>1 DEF CommitDrain, SessionMoves, hostVars, processVars
<1>3. /\ owns[s] /\ records \in Seq(EventRecord) /\ Len(records) \in 1..Len(Ring(t))
      /\ readPosition'[t] \in Nat /\ readPosition'[t] = readPosition[t] + Len(records)
      /\ \A i \in DOMAIN records : i \in DOMAIN Ring(t) /\ records[i] = Ring(t)[i]
      /\ \A i \in DOMAIN (Ring(t)') :
           Len(records) + i \in DOMAIN Ring(t) /\ (Ring(t)')[i] = Ring(t)[Len(records) + i]
  BY <1>1, CommitTakesFront
<1>4. \A v \in Target : counters'[v].received = counters[v].received
  BY <1>2, <1>t DEF Diagnostics
<1>5. \A v \in Target : Decided(v)' = Decided(v)
  BY <1>2, <1>4 DEF Decided, Underway
<1>6. ASSUME NEW v \in Target PROVE RingInv(v)'
  <2>1. RingInv(v)
    BY DEF QueueInv
  <2>2. CASE v # t
    <3>1. Ring(v)' = Ring(v) /\ readPosition'[v] = readPosition[v]
      BY <1>2, <1>t, <2>2 DEF Ring
    <3> QED BY <2>1, <3>1, <1>2, <1>4, <1>5 DEF RingInv, Underway
  <2>3. CASE v = t
    <3>1. \A i \in DOMAIN (Ring(v)') : (Ring(v)')[i].sequence <= Decided(v)
      BY <1>3, <2>1, <2>3 DEF RingInv
    <3>2. writePosition[v] - readPosition'[v] <= Capacity
      BY <1>3, <1>t, <2>1, <2>3 DEF RingInv
    <3> QED BY <2>1, <3>1, <3>2, <1>2, <1>4, <1>5 DEF RingInv, Underway
  <2> QED BY <2>2, <2>3
<1>7. CallInv'
  <2>1. thunk.pc \in {"Fill", "Publish"} => ~IsFull(thunk.target)'
    <3>1. thunk.target \in Target
      BY DEF TypeOK, HostTypeOK, ThunkCall
    <3>2. /\ writePosition[thunk.target] \in Nat /\ readPosition[thunk.target] \in Nat
          /\ readPosition'[thunk.target] \in Nat
          /\ readPosition'[thunk.target] >= readPosition[thunk.target]
      BY <3>1, <1>2, <1>3, <1>t
    <3> QED BY <3>2, <1>2, <1>t DEF QueueInv, CallInv, IsFull
  <2>2. thunk.target \in Target
    BY DEF TypeOK, HostTypeOK, ThunkCall
  <2> QED BY <2>1, <2>2, <1>2, <1>4 DEF QueueInv, CallInv, IsFull, Record
<1>8. ASSUME NEW r \in Session PROVE CopyInv(r)'
  <2>1. pc'[r] \in {"Copy", "Commit"} => r # s /\ owns[r]
    BY <1>2, <1>t DEF SlotInv, SessionConsistent, OwningPc
  <2>2. r # s => ~owns[r]
    BY <1>3 DEF SlotInv, Holds
  <2> QED BY <2>1, <2>2 DEF CopyInv
<1>9. ASSUME NEW r \in Session PROVE OwnerInv(r)'
  <2>1. CASE r # s
    BY <1>2, <1>3, <2>1 DEF SlotInv, Holds, OwnerInv
  <2>2. CASE r = s
    <3>1. /\ t = CurrentTarget /\ CurrentTarget' = CurrentTarget
          /\ \A i \in DOMAIN delivered : delivered[i].sequence <= Decided(t)
      BY <1>1, <1>2, <1>3 DEF QueueInv, OwnerInv, CurrentTarget
    <3>2. \A i \in DOMAIN records : records[i].sequence <= Decided(t)
      BY <1>3 DEF QueueInv, RingInv
    <3> HIDE DEF records
    <3>3. delivered \in Seq(EventRecord)
      BY DEF TypeOK
    <3>4. ASSUME NEW i \in DOMAIN delivered'
          PROVE  \/ \E j \in DOMAIN delivered : delivered'[i] = delivered[j]
                 \/ \E j \in DOMAIN records : delivered'[i] = records[j]
      <4>1. i \in 1..(Len(delivered) + Len(records)) /\ Len(delivered) \in Nat
        BY <1>2, <1>3, <3>3
      <4>2. CASE i <= Len(delivered)
        BY <1>2, <1>3, <3>3, <4>1, <4>2
      <4>3. CASE i > Len(delivered)
        <5>1. i - Len(delivered) \in DOMAIN records
          BY <1>3, <4>1, <4>3
        <5>2. delivered'[i] = records[i - Len(delivered)]
          BY <1>2, <1>3, <3>3, <4>1, <4>3
        <5> QED BY <5>1, <5>2
      <4> QED BY <4>1, <4>2, <4>3
    <3>5. \A i \in DOMAIN delivered' : delivered'[i].sequence <= Decided(t)
      BY <3>1, <3>2, <3>4
    <3>6. Decided(CurrentTarget)' = Decided(t)
      BY <3>1, <1>5, <1>2 DEF Decided, Underway
    <3> QED BY <3>1, <3>5, <3>6, <2>2, <1>1, <1>2 DEF OwnerInv
  <2> QED BY <2>1, <2>2
<1> QED BY <1>6, <1>7, <1>8, <1>9 DEF QueueInv

\* A reset starts a target with an empty ring and no number given out.
LEMMA ResetTargetQueueInv ==
  ASSUME HostSettles, TypeOK, SlotInv, BalanceInv, QueueInv, NEW s \in Session, ResetTarget(s)
  PROVE  QueueInv' /\ CurrentTarget' = nextTarget /\ ~IsOpen
<1>1. PICK t \in Target : t = nextTarget
  BY DEF TypeOK, ProcessTypeOK
<1>t. /\ readPosition \in [Target -> Nat] /\ writePosition \in [Target -> Nat]
      /\ counters \in [Target -> Diagnostics] /\ pc \in [Session -> SessionPc]
      /\ owns \in [Session -> BOOLEAN] /\ targetIndex \in [Session -> Target]
      /\ Capacity \in Nat /\ calls \in Nat /\ thunk.target \in Target
  BY ConstantsAssumption DEF TypeOK, TargetTypeOK, SessionTypeOK, HostTypeOK, ThunkCall
<1>2. /\ UNCHANGED <<thunk, calls, events, batch>>
      /\ pc[s] = "Reset" /\ pc' = [pc EXCEPT ![s] = "Publish"]
      /\ ~(thunk.pc # "Out" /\ thunk.target = t)
      /\ targetIndex' = [targetIndex EXCEPT ![s] = t]
      /\ nextTarget' = TargetAfter(t)
      /\ readPosition' = [readPosition EXCEPT ![t] = 0]
      /\ writePosition' = [writePosition EXCEPT ![t] = 0]
      /\ counters' = [counters EXCEPT ![t] = NoDiagnostics]
      /\ owns' = [owns EXCEPT ![s] = TRUE]
      /\ delivered' = <<>>
  BY <1>1 DEF ResetTarget, SessionMoves, hostVars
<1>3. CurrentTarget' = t
  BY <1>2, CurrentTargetFollows DEF CurrentTarget
<1>4. \A r \in Session : ~owns[r]
  <2>1. Holds(s) /\ ~owns[s]
    BY <1>2 DEF SlotInv, SessionConsistent, OwningPc, Holds
  <2> QED BY <2>1 DEF SlotInv, Holds
<1>5. ASSUME NEW v \in Target PROVE RingInv(v)'
  <2>1. CASE v = t
    <3>1. /\ readPosition'[v] = 0 /\ writePosition'[v] = 0 /\ counters'[v].received = 0
      BY <2>1, <1>2, <1>t DEF NoDiagnostics
    <3>2. DOMAIN (Ring(v)') = {}
      BY <3>1 DEF Ring
    <3>3. Underway(v, {"Loaded", "Counted", "Admitted"})' = 0
      BY <2>1, <1>2 DEF Underway
    <3> QED BY <3>1, <3>2, <3>3, <1>2, <1>t DEF RingInv
  <2>2. CASE v # t
    <3>1. /\ readPosition'[v] = readPosition[v] /\ writePosition'[v] = writePosition[v]
          /\ counters'[v] = counters[v] /\ RingInv(v)
      BY <2>2, <1>2, <1>t DEF QueueInv
    <3>2. Ring(v)' = Ring(v) /\ Decided(v)' = Decided(v)
      BY <3>1, <1>2 DEF Ring, Decided, Underway
    <3> QED BY <3>1, <3>2, <1>2 DEF RingInv, Underway
  <2> QED BY <2>1, <2>2
<1>6. CallInv'
  <2>1. thunk.pc # "Out" => /\ readPosition'[thunk.target] = readPosition[thunk.target]
                            /\ writePosition'[thunk.target] = writePosition[thunk.target]
                            /\ counters'[thunk.target] = counters[thunk.target]
    BY <1>2, <1>t
  <2> QED BY <2>1, <1>2 DEF QueueInv, CallInv, IsFull, Record
<1>7. ASSUME NEW r \in Session PROVE CopyInv(r)'
  <2>1. pc'[r] \notin {"Copy", "Commit"}
    BY <1>2, <1>4, <1>t DEF SlotInv, SessionConsistent, OwningPc
  <2> QED BY <2>1 DEF CopyInv
<1>8. ASSUME NEW r \in Session PROVE OwnerInv(r)'
  BY <1>2, <1>3, <1>4, <1>t DEF OwnerInv
<1> QED BY <1>1, <1>3, <1>4, <1>5, <1>6, <1>7, <1>8 DEF QueueInv, IsOpen

LEMMA SessionStepQueueInv ==
  ASSUME HostSettles, TypeOK, SlotInv, BalanceInv, QueueInv, NEW s \in Session, SessionStep(s)
  PROVE  QueueInv'
<1>t. pc \in [Session -> SessionPc] /\ owns \in [Session -> BOOLEAN]
  BY DEF TypeOK, SessionTypeOK
<1>1. CASE Reserve(s) \/ PublishTarget(s) \/ Register(s) \/ Unpublish(s)
             \/ AwaitCallbacks(s) \/ SnapshotDiagnostics(s) \/ ReleaseSlot(s)
  <2>1. /\ UNCHANGED <<targetVars, thunk, calls, delivered, nextTarget, targetIndex, batch>>
        /\ \A r \in Session : pc'[r] \in {"Copy", "Commit"} => pc'[r] = pc[r]
        /\ \A r \in Session : owns'[r] => owns[r]
    BY <1>1, <1>t
       DEF Reserve, PublishTarget, Register, Unpublish, AwaitCallbacks, SnapshotDiagnostics,
           ReleaseSlot, SessionMoves, hostVars, processVars
  <2> QED BY <2>1, QuietStepQueueInv
<1> QED
  BY <1>1, CopySlotQueueInv, CommitDrainQueueInv, ResetTargetQueueInv DEF SessionStep

LEMMA NextQueueInv ==
  ASSUME HostSettles
  PROVE  TypeOK /\ SlotInv /\ BalanceInv /\ QueueInv /\ [Next]_vars => QueueInv'
<1> SUFFICES ASSUME TypeOK, SlotInv, BalanceInv, QueueInv, [Next]_vars PROVE QueueInv'
  OBVIOUS
<1>1. TypeOK'
  BY NextTypeOK
<1>2. CASE UNCHANGED vars
  BY <1>2, QuietStepQueueInv DEF vars, hostVars, processVars, sessionVars
<1>3. CASE ThunkStep \/ (\E id \in CallbackId : EnterThunk(id))
  BY <1>1, <1>3, ThunkCountsQueueInv, ThunkWritesQueueInv DEF ThunkStep
<1> QED BY <1>2, <1>3, CallQueueInv, SessionStepQueueInv DEF Next

-----------------------------------------------------------------------------
\* The queue that an activation promises, step by step.
Kept == IF IsOpen THEN Ring(CurrentTarget) ELSE <<>>
Dropped == counters[CurrentTarget].overflow

IInv == TypeOK /\ SlotInv /\ LateThunkInv /\ BalanceInv /\ QueueInv

LEMMA CurrentTargetIsTarget == TypeOK => CurrentTarget \in Target
BY CurrentTargetFollows DEF TypeOK, ProcessTypeOK, CurrentTarget

\* A call that got past the recheck is on the target of the open activation.
LEMMA DeliveringIsCurrent ==
  ASSUME IInv, thunk.pc \in Delivering
  PROVE  IsOpen /\ thunk.target = CurrentTarget
<1>1. PICK s \in Session : owns[s] /\ targetIndex[s] = thunk.target
  BY DEF IInv, LateThunkInv
<1> QED BY <1>1 DEF IInv, QueueInv, OwnerInv, IsOpen

LEMMA QueueStutters ==
  ASSUME UNCHANGED <<owns, nextTarget, delivered>>,
         Ring(CurrentTarget)' = Ring(CurrentTarget),
         Dropped' = Dropped
  PROVE  UNCHANGED Queue!vars
BY DEF Queue!vars, IsOpen, Dropped, CurrentTarget

\* A record that is published is accepted: there is room, and it comes after
\* every record that was accepted before it.
LEMMA PublishAccepts ==
  ASSUME IInv, PublishRecord PROVE Queue!Next
<1>0. PICK t \in Target : t = CurrentTarget
  BY CurrentTargetIsTarget DEF IInv
<1> DEFINE ring == Ring(t)
           accepted == delivered \o ring
<1>1. /\ thunk.pc = "Publish" /\ UNCHANGED <<counters, owns, nextTarget, delivered>>
  BY DEF PublishRecord, ThunkMoves, processVars, sessionVars
<1>2. IsOpen /\ thunk.target = t
  BY <1>0, <1>1, DeliveringIsCurrent DEF Delivering
<1>3. /\ Record \in EventRecord /\ Ring(t)' = Append(ring, Record)
  BY <1>2, PublishExtendsRing DEF IInv
<1>4. CurrentTarget' = t /\ IsOpen' = IsOpen
  BY <1>0, <1>1 DEF CurrentTarget, IsOpen
<1>5. /\ counters[t].received \in Nat /\ counters[t].enqueued \in Nat
      /\ counters[t].unknown \in Nat /\ counters[t].overflow \in Nat
      /\ readPosition[t] \in Nat /\ writePosition[t] \in Nat
      /\ calls \in Nat /\ calls <= MaxCalls /\ Capacity \in Nat /\ MaxCalls \in Nat
  BY <1>2, ConstantsAssumption DEF IInv, TypeOK, TargetTypeOK, HostTypeOK, Diagnostics
<1>6. /\ TargetBalances(t) /\ RingInv(t) /\ CallInv
  BY <1>2 DEF IInv, BalanceInv, QueueInv
<1>7. counters[t].received >= 1 /\ counters[t].received <= MaxCalls
  BY <1>1, <1>2, <1>5, <1>6 DEF TargetBalances, RingInv, Underway
<1>8. Record.sequence = counters[t].received /\ Decided(t) = counters[t].received - 1
  BY <1>1, <1>2, <1>6 DEF CallInv, Record, Decided, Underway
<1>9. Record \in {record \in [kind : CallbackId,
                              handoff : {Handoff[id] : id \in DOMAIN Handoff},
                              sequence : 1..MaxCalls] : Known(record.kind)}
  <2>1. thunk.id \in CallbackId /\ Known(thunk.id) /\ thunk.sequence \in 1..MaxCalls
    BY <1>1, <1>2, <1>5, <1>6, <1>7 DEF CallInv
  <2> QED BY <2>1 DEF Record, Known
<1>10. /\ ring \in Seq(EventRecord) /\ Len(ring) = writePosition[t] - readPosition[t]
       /\ DOMAIN ring = 1..Len(ring) /\ delivered \in Seq(EventRecord)
  BY <1>2, RingShape DEF IInv, BalanceInv, TypeOK
<1>11. Len(ring) < Capacity
  BY <1>1, <1>2, <1>5, <1>6, <1>10 DEF CallInv, IsFull
<1>12. /\ \A i \in DOMAIN delivered : delivered[i].sequence <= Decided(t)
       /\ \A i \in DOMAIN ring : ring[i].sequence <= Decided(t)
  BY <1>0, <1>2, <1>6 DEF IInv, QueueInv, OwnerInv, IsOpen, RingInv
<1>13. ASSUME NEW i \in DOMAIN accepted PROVE accepted[i].sequence < Record.sequence
  <2> HIDE DEF ring
  <2>1. i \in 1..(Len(delivered) + Len(ring)) /\ Len(delivered) \in Nat /\ Len(ring) \in Nat
    BY <1>10
  <2>2. CASE i <= Len(delivered)
    <3>1. i \in DOMAIN delivered /\ accepted[i] = delivered[i]
      BY <1>10, <2>1, <2>2
    <3>2. delivered[i].sequence \in Nat
      <4>1. delivered[i] \in EventRecord
        BY <1>10, <3>1
      <4> QED BY <4>1 DEF EventRecord
    <3> QED BY <3>1, <3>2, <1>5, <1>8, <1>12
  <2>3. CASE i > Len(delivered)
    <3>1. /\ i - Len(delivered) \in DOMAIN ring
          /\ accepted[i] = ring[i - Len(delivered)]
      BY <1>10, <2>1, <2>3
    <3>2. accepted[i].sequence \in Nat
      <4>1. accepted[i] \in EventRecord
        BY <1>10, <3>1
      <4> QED BY <4>1 DEF EventRecord
    <3> QED BY <3>1, <3>2, <1>5, <1>8, <1>12
  <2> QED BY <2>1, <2>2, <2>3
<1>14. Dropped' = Dropped
  BY <1>0, <1>1, <1>4 DEF Dropped
<1>15. Kept = ring /\ Kept' = Append(ring, Record)
  <2>1. Ring(CurrentTarget)' = Ring(t)'
    BY <1>4 DEF Ring
  <2> QED BY <2>1, <1>0, <1>2, <1>3, <1>4 DEF Kept
<1> HIDE DEF accepted, ring
<1>16. Queue!Accept(Record)
  BY <1>1, <1>2, <1>4, <1>11, <1>13, <1>14, <1>15
     DEF Queue!Accept, accepted, Kept, Dropped
<1> QED BY <1>9, <1>16 DEF Queue!Next

\* A record is dropped only from a ring that is full.
LEMMA OverflowDrops ==
  ASSUME IInv, Overflow PROVE Queue!Next
<1>1. PICK t \in Target : t = CurrentTarget
  BY CurrentTargetIsTarget DEF IInv
<1>2. /\ thunk.pc = "Received" /\ IsFull(thunk.target)
      /\ UNCHANGED <<owns, nextTarget, delivered, events, readPosition, writePosition>>
      /\ counters' = [counters EXCEPT ![thunk.target].overflow = @ + 1]
  BY DEF Overflow, ThunkMoves, processVars, sessionVars
<1>3. IsOpen /\ thunk.target = t
  BY <1>1, <1>2, DeliveringIsCurrent DEF Delivering
<1>4. /\ readPosition[t] \in Nat /\ writePosition[t] \in Nat /\ Capacity \in Nat
      /\ counters \in [Target -> Diagnostics] /\ RingInv(t)
      /\ Len(Ring(t)) = writePosition[t] - readPosition[t]
  BY ConstantsAssumption, RingShape DEF IInv, TypeOK, TargetTypeOK, QueueInv, BalanceInv
<1>5. Len(Ring(t)) = Capacity
  BY <1>2, <1>3, <1>4 DEF IsFull, RingInv
<1>6. CurrentTarget' = t /\ IsOpen' = IsOpen /\ Ring(t)' = Ring(t)
  BY <1>1, <1>2 DEF CurrentTarget, IsOpen, Ring
<1>7. Ring(CurrentTarget)' = Ring(t)'
  BY <1>6 DEF Ring
<1>8. Kept = Ring(t) /\ Kept' = Kept
  BY <1>1, <1>3, <1>6, <1>7 DEF Kept
<1>9. Dropped' = Dropped + 1
  BY <1>1, <1>2, <1>3, <1>4, <1>6 DEF Dropped, Diagnostics
<1>10. Queue!Drop
  BY <1>2, <1>3, <1>5, <1>6, <1>8, <1>9 DEF Queue!Drop, Kept, Dropped
<1> QED BY <1>10 DEF Queue!Next

LEMMA ThunkStepImplements ==
  ASSUME IInv, ThunkStep \/ (\E id \in CallbackId : EnterThunk(id))
  PROVE  Queue!Next \/ UNCHANGED Queue!vars
<1>1. PICK t \in Target : t = CurrentTarget
  BY CurrentTargetIsTarget DEF IInv
<1>2. ASSUME UNCHANGED <<owns, nextTarget, delivered>>, Ring(t)' = Ring(t),
             counters'[t].overflow = counters[t].overflow
      PROVE  UNCHANGED Queue!vars
  <2>1. CurrentTarget' = t
    BY <1>1, <1>2 DEF CurrentTarget
  <2>2. Ring(CurrentTarget)' = Ring(t)'
    BY <2>1 DEF Ring
  <2>3. Dropped' = Dropped
    BY <1>1, <1>2, <2>1 DEF Dropped
  <2> QED BY <1>1, <1>2, <2>2, <2>3, QueueStutters
<1>3. CASE FillSlot
  <2>1. UNCHANGED <<owns, nextTarget, delivered, counters>>
    BY <1>3 DEF FillSlot, processVars, sessionVars
  <2>2. Ring(t)' = Ring(t)
    BY <1>3, FillKeepsRing DEF IInv
  <2> QED BY <2>1, <2>2, <1>2
<1>4. CASE CountIn \/ Recheck \/ CountOut \/ FindRoom \/ Receive \/ RejectUnknown
             \/ CountEnqueued \/ (\E id \in CallbackId : EnterThunk(id))
  <2>1. /\ UNCHANGED <<owns, nextTarget, delivered, events, readPosition, writePosition>>
        /\ \/ UNCHANGED counters
           \/ counters' = [counters EXCEPT ![thunk.target].received = @ + 1]
           \/ counters' = [counters EXCEPT ![thunk.target].unknown = @ + 1]
           \/ counters' = [counters EXCEPT ![thunk.target].enqueued = @ + 1]
    BY <1>4
       DEF EnterThunk, CountIn, Recheck, Receive, RejectUnknown, FindRoom, CountEnqueued,
           CountOut, targetVars, processVars, sessionVars
  <2>2. counters \in [Target -> Diagnostics]
    BY DEF IInv, TypeOK, TargetTypeOK
  <2>3. counters'[t].overflow = counters[t].overflow
    BY <2>1, <2>2 DEF Diagnostics
  <2>4. Ring(t)' = Ring(t)
    BY <2>1 DEF Ring
  <2> QED BY <2>1, <2>3, <2>4, <1>2
<1> QED BY <1>3, <1>4, OverflowDrops, PublishAccepts DEF ThunkStep

\* What a drain hands over is the front of the queue.
LEMMA CommitDelivers ==
  ASSUME IInv, NEW s \in Session, CommitDrain(s) PROVE Queue!Next
<1> DEFINE records == batch[s].records
<1>1. PICK t \in Target : t = targetIndex[s]
  BY DEF IInv, TypeOK, SessionTypeOK
<1>2. /\ owns[s] /\ records \in Seq(EventRecord) /\ Len(records) \in 1..Len(Ring(t))
      /\ records = SubSeq(Ring(t), 1, Len(records))
      /\ Ring(t)' = SubSeq(Ring(t), Len(records) + 1, Len(Ring(t)))
  BY <1>1, CommitTakesFront DEF IInv
<1>3. IsOpen /\ t = CurrentTarget
  BY <1>1, <1>2 DEF IInv, QueueInv, OwnerInv, IsOpen
<1>4. /\ UNCHANGED <<owns, nextTarget>> /\ delivered' = delivered \o records
      /\ counters' = [counters EXCEPT ![t].drained = @ + Len(records)]
  BY <1>1 DEF CommitDrain, processVars
<1>5. CurrentTarget' = t /\ IsOpen' = IsOpen
  BY <1>3, <1>4 DEF CurrentTarget, IsOpen
<1>6. Ring(CurrentTarget)' = Ring(t)'
  BY <1>5 DEF Ring
<1>7. Dropped' = Dropped
  <2>1. counters \in [Target -> Diagnostics]
    BY DEF IInv, TypeOK, TargetTypeOK
  <2> QED BY <2>1, <1>3, <1>4, <1>5 DEF Dropped, Diagnostics
<1>8. Kept = Ring(t) /\ Kept' = Ring(t)'
  BY <1>3, <1>5, <1>6 DEF Kept
<1> HIDE DEF records
<1> DEFINE n == Len(records)
<1>9. /\ n \in 1..Len(Kept) /\ delivered' = delivered \o SubSeq(Kept, 1, n)
      /\ Kept' = SubSeq(Kept, n + 1, Len(Kept))
  BY <1>2, <1>4, <1>8
<1> HIDE DEF n
<1>10. Queue!Deliver(n)
  BY <1>3, <1>5, <1>7, <1>9 DEF Queue!Deliver, Kept, Dropped
<1>11. n \in 1..Len(IF IsOpen THEN Ring(CurrentTarget) ELSE <<>>)
  BY <1>9 DEF Kept
<1> QED BY <1>10, <1>11 DEF Queue!Next

LEMMA SessionImplements ==
  ASSUME HostSettles, IInv, NEW s \in Session, Call(s) \/ SessionStep(s)
  PROVE  Queue!Next \/ UNCHANGED Queue!vars
<1>1. ASSUME UNCHANGED <<owns, nextTarget, delivered, events, readPosition, writePosition, counters>>
      PROVE  UNCHANGED Queue!vars
  BY <1>1 DEF Queue!vars, IsOpen, CurrentTarget, Ring
<1>2. CASE Call(s) \/ Reserve(s) \/ PublishTarget(s) \/ Register(s) \/ Unpublish(s)
             \/ AwaitCallbacks(s) \/ ReleaseSlot(s) \/ CopySlot(s)
  <2>1. UNCHANGED <<owns, nextTarget, delivered, events, readPosition, writePosition, counters>>
    BY <1>2
       DEF Call, Bootstrap, RetryRenderReadiness, Stop, Fail, Terminate, Settle, BeginActivate,
           Renew, Drain, Reserve, PublishTarget, Register, Unpublish, AwaitCallbacks,
           ReleaseSlot, CopySlot, targetVars, processVars
  <2> QED BY <2>1, <1>1
<1>3. CASE ResetTarget(s)
  <2>1. PICK t \in Target : t = nextTarget
    BY DEF IInv, TypeOK, ProcessTypeOK
  <2>2. CurrentTarget' = t /\ ~IsOpen
    BY <1>3, <2>1, ResetTargetQueueInv DEF IInv
  <2>3. IsOpen' /\ delivered' = <<>>
    BY <1>3 DEF ResetTarget, IsOpen, IInv, TypeOK, SessionTypeOK
  <2>4. /\ readPosition'[t] = 0 /\ writePosition'[t] = 0 /\ counters'[t] = NoDiagnostics
    BY <1>3, <2>1 DEF ResetTarget, IInv, TypeOK, TargetTypeOK
  <2>5. Kept' = <<>>
    <3>1. Ring(CurrentTarget)' = [i \in 1..(writePosition'[t] - readPosition'[t]) |->
                                   events'[t][(readPosition'[t] + i - 1) % Capacity]]
      BY <2>2 DEF Ring
    <3>2. writePosition'[t] - readPosition'[t] = 0
      BY <2>4
    <3>3. Ring(CurrentTarget)' = <<>>
      BY <3>1, <3>2
    <3> QED BY <2>3, <3>3 DEF Kept
  <2>6. Dropped' = 0
    BY <2>2, <2>4 DEF Dropped, NoDiagnostics
  <2>7. Queue!Open
    BY <2>2, <2>3, <2>5, <2>6 DEF Queue!Open, Kept, Dropped
  <2> QED BY <2>7 DEF Queue!Next
<1>4. CASE SnapshotDiagnostics(s)
  <2>1. /\ pc[s] = "Snapshot" /\ owns' = [owns EXCEPT ![s] = FALSE]
        /\ UNCHANGED <<nextTarget, delivered, counters>>
    BY <1>4 DEF SnapshotDiagnostics, SessionMoves, targetVars, processVars
  <2>2. owns[s] /\ \A r \in Session : owns[r] => r = s
    BY <2>1 DEF IInv, SlotInv, SessionConsistent, OwningPc, Holds
  <2>3. IsOpen /\ ~IsOpen'
    BY <2>1, <2>2 DEF IsOpen, IInv, TypeOK, SessionTypeOK
  <2>4. Kept' = <<>> /\ Dropped' = Dropped
    BY <2>1, <2>3 DEF Kept, Dropped, CurrentTarget
  <2>5. Queue!Close
    BY <2>1, <2>3, <2>4 DEF Queue!Close, Kept, Dropped
  <2> QED BY <2>5 DEF Queue!Next
<1> QED BY <1>2, <1>3, <1>4, CommitDelivers DEF SessionStep

\* When the host settles, every activation is the bounded queue it promises:
\* for any ring, any number of sessions and any interleaving, the consumer gets
\* the accepted records once each in the order of their numbers, and a record
\* is dropped only from a full ring.
THEOREM CallbacksAreDeliveredInOrder ==
  ASSUME HostSettles PROVE Spec => DeliversInOrder
<1>1. Init => Queue!Init
  <2> SUFFICES ASSUME Init PROVE Queue!Init
    OBVIOUS
  <2>1. ~IsOpen /\ delivered = <<>>
    BY DEF Init, IsOpen
  <2>2. CurrentTarget \in Target
    BY InitTypeOK, CurrentTargetIsTarget
  <2>3. Dropped = 0
    BY <2>2 DEF Init, Dropped, NoDiagnostics
  <2> QED BY <2>1, <2>3 DEF Queue!Init, Dropped
<1>2. Init => IInv
  BY InitTypeOK, InitSlotInv, InitLateThunkInv, InitBalanceInv, InitQueueInv DEF IInv
<1>3. IInv /\ [Next]_vars => IInv'
  BY NextTypeOK, NextSlotInv, NextLateThunkInv, NextBalanceInv, NextQueueInv DEF IInv
<1>4. IInv /\ [Next]_vars => [Queue!Next]_(Queue!vars)
  <2>1. ASSUME UNCHANGED vars PROVE UNCHANGED Queue!vars
    BY <2>1
       DEF vars, targetVars, processVars, sessionVars, Queue!vars, IsOpen, CurrentTarget, Ring
  <2> QED BY <2>1, ThunkStepImplements, SessionImplements DEF Next
<1> QED BY <1>1, <1>2, <1>3, <1>4, PTL DEF Spec, DeliversInOrder, Queue!Spec
=============================================================================
