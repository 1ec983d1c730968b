--------------------------- MODULE CallbackSession ---------------------------
(***************************************************************************)
(* enbcore::runtime::CallbackSession and the process-wide callback targets *)
(* behind it.  The host's callback thread runs the SDK thunk (one call at  *)
(* a time: it is the documented single producer); each session object is   *)
(* driven by a caller that serializes its operations, and two sessions may *)
(* be driven from different threads, since the process slot is taken with  *)
(* a compare-and-swap.  Every atomic the two sides share is one step; the  *)
(* code's orderings on x64 make those steps sequentially consistent (each  *)
(* store-then-load pair that matters has a locked instruction between).    *)
(***************************************************************************)
EXTENDS Integers, Sequences

CONSTANTS
  Session,          \* the session objects
  NumTargets,       \* process_targets.size(), 2 in the code
  Capacity,         \* kEventCapacity, 64 in the code
  CallbackId,       \* the ids the host may pass to the thunk
  InFlightModulus,  \* 2^32 in the code: callbacks_in_flight is unsigned
  HostSettles,      \* TRUE: a thunk call does not outlast the reuse of the
                    \* target it loaded (see ResetTarget)
  MaxCalls,         \* bound: thunk calls that find a published target
  MaxAttempts       \* bound: calls of activate

\* translate_callback: the neutral handoff of each SDK callback; the kind of a
\* record is the id itself, and an id outside this domain is unknown.
Handoff ==
  [EndFrame |-> "None", BeginFrame |-> "VerifiedFrameBarrierObserved",
   PreSave |-> "BeginSave", PostLoad |-> "None", OnInit |-> "Activate",
   OnExit |-> "RequestShutdown", PreReset |-> "None", PostReset |-> "None"]

Known(id) == id \in DOMAIN Handoff

ASSUME ConstantsAssumption ==
  /\ NumTargets \in Nat \ {0}
  /\ Capacity \in Nat \ {0}
  /\ InFlightModulus \in Nat \ {0, 1}
  /\ HostSettles \in BOOLEAN
  /\ MaxCalls \in Nat
  /\ MaxAttempts \in Nat

Target == 0..(NumTargets - 1)
NoTarget == -1

\* CallbackEventRecord; the array starts with default records.
EventRecord ==
  [kind : DOMAIN Handoff,
   handoff : {Handoff[id] : id \in DOMAIN Handoff},
   sequence : Nat]
DefaultRecord == [kind |-> "EndFrame", handoff |-> "None", sequence |-> 0]

\* CallbackDiagnostics.
Diagnostics ==
  [received : Nat, enqueued : Nat, drained : Nat, unknown : Nat, overflow : Nat]
NoDiagnostics ==
  [received |-> 0, enqueued |-> 0, drained |-> 0, unknown |-> 0, overflow |-> 0]

VARIABLES
  \* ProcessCallbackTarget, one function per member
  events, readPosition, writePosition, counters, inFlight,
  \* process-wide: published_target, process_slot_reserved, next_target_index
  published, slotReserved, nextTarget,
  \* CallbackSession members, and where the call in progress is
  sessionState, targetIndex, owns, registered, terminal, pc, final, batch,
  \* the thunk call in progress: its program counter and its locals
  thunk,
  \* the host has been handed the thunk, and keeps it ("saved late thunk")
  thunkSaved,
  \* the records drained in the current activation
  delivered,
  calls, attempts

targetVars == <<events, readPosition, writePosition, counters, inFlight>>
processVars == <<published, slotReserved, nextTarget>>
sessionVars ==
  <<sessionState, targetIndex, owns, registered, terminal, pc, final, batch>>
hostVars == <<thunk, thunkSaved, calls>>
vars == <<targetVars, processVars, sessionVars, hostVars, delivered, attempts>>

SessionState == {"Idle", "WaitingForRenderInfo", "WaitingForProcessSlot",
                 "Active", "Stopped", "Failed"}

IdleThunk == [pc |-> "Out", target |-> 0, id |-> "EndFrame",
              sequence |-> 0, write |-> 0]
NoBatch == [next |-> 0, last |-> 0, records |-> <<>>]

Init ==
  /\ events = [t \in Target |-> [i \in 0..(Capacity - 1) |-> DefaultRecord]]
  /\ readPosition = [t \in Target |-> 0]
  /\ writePosition = [t \in Target |-> 0]
  /\ counters = [t \in Target |-> NoDiagnostics]
  /\ inFlight = [t \in Target |-> 0]
  /\ published = NoTarget
  /\ slotReserved = FALSE
  /\ nextTarget = 0
  /\ sessionState = [s \in Session |-> "Idle"]
  /\ targetIndex = [s \in Session |-> 0]
  /\ owns = [s \in Session |-> FALSE]
  /\ registered = [s \in Session |-> FALSE]
  /\ terminal = [s \in Session |-> NoDiagnostics]
  /\ pc = [s \in Session |-> "Ready"]
  /\ final = [s \in Session |-> "Stopped"]
  /\ batch = [s \in Session |-> NoBatch]
  /\ thunk = IdleThunk
  /\ thunkSaved = FALSE
  /\ delivered = <<>>
  /\ calls = 0
  /\ attempts = 0
-----------------------------------------------------------------------------
(* The SDK thunk, on the host's callback thread.                           *)

ThunkMoves(to) == thunk.pc = to[1] /\ thunk' = [thunk EXCEPT !.pc = to[2]]

\* A call that finds no published target returns at once and changes nothing.
EnterThunk(id) ==
  /\ thunk.pc = "Out"
  /\ thunkSaved
  /\ published # NoTarget
  /\ calls < MaxCalls
  /\ calls' = calls + 1
  /\ thunk' = [IdleThunk EXCEPT !.pc = "Loaded", !.target = published, !.id = id]
  /\ UNCHANGED <<targetVars, processVars, sessionVars, thunkSaved, delivered, attempts>>

CountIn ==
  /\ ThunkMoves(<<"Loaded", "Counted">>)
  /\ inFlight' =
       [inFlight EXCEPT ![thunk.target] = (@ + 1) % InFlightModulus]
  /\ UNCHANGED <<events, readPosition, writePosition, counters, processVars,
                 sessionVars, thunkSaved, calls, delivered, attempts>>

\* Defective form: a call that finds its target unpublished returns uncounted.
RecheckLosingCount ==
  /\ \/ published # thunk.target /\ thunk.pc = "Counted" /\ thunk' = IdleThunk
     \/ published = thunk.target /\ ThunkMoves(<<"Counted", "Admitted">>)
  /\ UNCHANGED <<targetVars, processVars, sessionVars, thunkSaved, calls,
                 delivered, attempts>>

\* Defective form: the first load of published_target is trusted.
RecheckNothing ==
  /\ ThunkMoves(<<"Counted", "Admitted">>)
  /\ UNCHANGED <<targetVars, processVars, sessionVars, thunkSaved, calls,
                 delivered, attempts>>

\* The target may have been unpublished between the load and the count.
Recheck ==
  /\ \/ published # thunk.target /\ ThunkMoves(<<"Counted", "Leaving">>)
     \/ published = thunk.target /\ ThunkMoves(<<"Counted", "Admitted">>)
  /\ UNCHANGED <<targetVars, processVars, sessionVars, thunkSaved, calls,
                 delivered, attempts>>

Receive ==
  /\ thunk.pc = "Admitted"
  /\ counters' = [counters EXCEPT ![thunk.target].received = @ + 1]
  /\ thunk' = [thunk EXCEPT !.pc = "Received",
                            !.sequence = counters'[thunk.target].received]
  /\ UNCHANGED <<events, readPosition, writePosition, inFlight, processVars,
                 sessionVars, thunkSaved, calls, delivered, attempts>>

RejectUnknown ==
  /\ ~Known(thunk.id)
  /\ ThunkMoves(<<"Received", "Leaving">>)
  /\ counters' = [counters EXCEPT ![thunk.target].unknown = @ + 1]
  /\ UNCHANGED <<events, readPosition, writePosition, inFlight, processVars,
                 sessionVars, thunkSaved, calls, delivered, attempts>>

\* Defective form: off by one.
IsFullTooLate(t) == writePosition[t] - readPosition[t] > Capacity

\* enqueue loads both positions; only this thread writes write_position, so
\* the load of read_position decides between overflow and room.  The count of
\* an overflow follows its decision without another shared access.
IsFull(t) == writePosition[t] - readPosition[t] >= Capacity

\* Defective form: the dropped record is not counted.
OverflowUncounted ==
  /\ Known(thunk.id)
  /\ IsFull(thunk.target)
  /\ ThunkMoves(<<"Received", "Leaving">>)
  /\ UNCHANGED <<targetVars, processVars, sessionVars, thunkSaved, calls,
                 delivered, attempts>>

Overflow ==
  /\ Known(thunk.id)
  /\ IsFull(thunk.target)
  /\ ThunkMoves(<<"Received", "Leaving">>)
  /\ counters' = [counters EXCEPT ![thunk.target].overflow = @ + 1]
  /\ UNCHANGED <<events, readPosition, writePosition, inFlight, processVars,
                 sessionVars, thunkSaved, calls, delivered, attempts>>

FindRoom ==
  /\ Known(thunk.id)
  /\ ~IsFull(thunk.target)
  /\ thunk.pc = "Received"
  /\ thunk' = [thunk EXCEPT !.pc = "Fill", !.write = writePosition[thunk.target]]
  /\ UNCHANGED <<targetVars, processVars, sessionVars, thunkSaved, calls,
                 delivered, attempts>>

Record == [kind |-> thunk.id, handoff |-> Handoff[thunk.id],
           sequence |-> thunk.sequence]

FillSlot ==
  /\ ThunkMoves(<<"Fill", "Publish">>)
  /\ events' = [events EXCEPT ![thunk.target][thunk.write % Capacity] = Record]
  /\ UNCHANGED <<readPosition, writePosition, counters, inFlight, processVars,
                 sessionVars, thunkSaved, calls, delivered, attempts>>

PublishRecord ==
  /\ ThunkMoves(<<"Publish", "Count">>)
  /\ writePosition' = [writePosition EXCEPT ![thunk.target] = thunk.write + 1]
  /\ UNCHANGED <<events, readPosition, counters, inFlight, processVars,
                 sessionVars, thunkSaved, calls, delivered, attempts>>

CountEnqueued ==
  /\ ThunkMoves(<<"Count", "Leaving">>)
  /\ counters' = [counters EXCEPT ![thunk.target].enqueued = @ + 1]
  /\ UNCHANGED <<events, readPosition, writePosition, inFlight, processVars,
                 sessionVars, thunkSaved, calls, delivered, attempts>>

CountOut ==
  /\ thunk.pc = "Leaving"
  /\ thunk' = IdleThunk
  /\ inFlight' =
       [inFlight EXCEPT ![thunk.target] = (@ - 1) % InFlightModulus]
  /\ UNCHANGED <<events, readPosition, writePosition, counters, processVars,
                 sessionVars, thunkSaved, calls, delivered, attempts>>

ThunkStep ==
  \/ CountIn \/ Recheck \/ Receive \/ RejectUnknown \/ Overflow
  \/ FindRoom \/ FillSlot \/ PublishRecord \/ CountEnqueued \/ CountOut
-----------------------------------------------------------------------------
(* The operations of a session.  A call the state does not allow returns a *)
(* code and changes nothing: it is a stuttering step.                      *)

SessionMoves(s, from, to) == pc[s] = from /\ pc' = [pc EXCEPT ![s] = to]

Settle(s, state) ==
  /\ sessionState' = [sessionState EXCEPT ![s] = state]
  /\ UNCHANGED <<targetIndex, owns, registered, terminal, pc, final, batch>>

BeginActivate(s) ==
  /\ attempts < MaxAttempts
  /\ attempts' = attempts + 1
  /\ SessionMoves(s, "Ready", "Reserve")
  /\ UNCHANGED <<sessionState, targetIndex, owns, registered, terminal, final, batch>>

\* bootstrap: an unusable resolution or host fails the session, a host whose
\* render info is not there yet leaves it waiting, an accepted one activates.
Bootstrap(s) ==
  /\ pc[s] = "Ready"
  /\ sessionState[s] = "Idle"
  /\ \/ \E state \in {"Failed", "WaitingForRenderInfo"} :
          Settle(s, state) /\ UNCHANGED attempts
     \/ BeginActivate(s)
  /\ UNCHANGED <<targetVars, processVars, hostVars, delivered>>

RetryRenderReadiness(s) ==
  /\ pc[s] = "Ready"
  /\ sessionState[s] \in {"WaitingForRenderInfo", "WaitingForProcessSlot"}
  /\ \/ Settle(s, "WaitingForRenderInfo") /\ UNCHANGED attempts
     \/ BeginActivate(s)
  /\ UNCHANGED <<targetVars, processVars, hostVars, delivered>>

\* activate, from the compare-and-swap on process_slot_reserved.
Reserve(s) ==
  /\ \/ /\ slotReserved
        /\ sessionState' = [sessionState EXCEPT ![s] = "WaitingForProcessSlot"]
        /\ SessionMoves(s, "Reserve", "Ready")
        /\ UNCHANGED slotReserved
     \/ /\ ~slotReserved
        /\ slotReserved' = TRUE
        /\ SessionMoves(s, "Reserve", "Reset")
        /\ UNCHANGED sessionState
  /\ UNCHANGED <<targetVars, published, nextTarget, targetIndex, owns, registered,
                 terminal, final, batch, hostVars, delivered, attempts>>

\* Defective form: the index is not taken modulo the number of targets.
TargetAfterLast(t) == t + 1

TargetAfter(t) == (t + 1) % NumTargets

\* reset clears every member but the slots, callbacks_in_flight included,
\* whoever is still counted there.  HostSettles keeps out the executions in
\* which a thunk call has loaded this target and stalled while every other
\* target was activated and torn down in between.
ResetTarget(s) ==
  LET t == nextTarget IN
  /\ SessionMoves(s, "Reset", "Publish")
  /\ HostSettles => ~(thunk.pc # "Out" /\ thunk.target = t)
  /\ targetIndex' = [targetIndex EXCEPT ![s] = t]
  /\ nextTarget' = TargetAfter(nextTarget)
  /\ readPosition' = [readPosition EXCEPT ![t] = 0]
  /\ writePosition' = [writePosition EXCEPT ![t] = 0]
  /\ counters' = [counters EXCEPT ![t] = NoDiagnostics]
  /\ inFlight' = [inFlight EXCEPT ![t] = 0]
  /\ terminal' = [terminal EXCEPT ![s] = NoDiagnostics]
  /\ owns' = [owns EXCEPT ![s] = TRUE]
  /\ delivered' = <<>>
  /\ UNCHANGED <<events, published, slotReserved, sessionState, registered,
                 final, batch, hostVars, attempts>>

PublishTarget(s) ==
  /\ SessionMoves(s, "Publish", "Register")
  /\ published' = targetIndex[s]
  /\ UNCHANGED <<targetVars, slotReserved, nextTarget, sessionState, targetIndex,
                 owns, registered, terminal, final, batch, hostVars, delivered, attempts>>

\* The host may call the thunk before set_callback_function has returned.
Register(s) ==
  /\ SessionMoves(s, "Register", "Ready")
  /\ thunkSaved' = TRUE
  /\ registered' = [registered EXCEPT ![s] = TRUE]
  /\ sessionState' = [sessionState EXCEPT ![s] = "Active"]
  /\ UNCHANGED <<targetVars, processVars, targetIndex, owns, terminal, final,
                 batch, thunk, calls, delivered, attempts>>

\* stop (state = "Stopped") and fail (state = "Failed"): terminate, which for
\* a session that owns the slot first unregisters at the host.
Terminate(s, state) ==
  /\ pc[s] = "Ready"
  /\ sessionState[s] # "Stopped"
  /\ \/ ~owns[s] /\ Settle(s, state)
     \/ /\ owns[s]
        /\ SessionMoves(s, "Ready", "Unpublish")
        /\ registered' = [registered EXCEPT ![s] = FALSE]
        /\ final' = [final EXCEPT ![s] = state]
        /\ UNCHANGED <<sessionState, targetIndex, owns, terminal, batch>>
  /\ UNCHANGED <<targetVars, processVars, hostVars, delivered, attempts>>

Stop(s) == Terminate(s, "Stopped")
Fail(s) == Terminate(s, "Failed")

\* Defective form: the slot is free before the wait for the callbacks.
UnpublishAndRelease(s) ==
  /\ SessionMoves(s, "Unpublish", "Await")
  /\ published' = IF published = targetIndex[s] THEN NoTarget ELSE published
  /\ slotReserved' = FALSE
  /\ UNCHANGED <<targetVars, nextTarget, sessionState, targetIndex, owns, registered,
                 terminal, final, batch, hostVars, delivered, attempts>>

Unpublish(s) ==
  /\ SessionMoves(s, "Unpublish", "Await")
  /\ published' = IF published = targetIndex[s] THEN NoTarget ELSE published
  /\ UNCHANGED <<targetVars, slotReserved, nextTarget, sessionState, targetIndex,
                 owns, registered, terminal, final, batch, hostVars, delivered, attempts>>

\* Defective form: the diagnostics are taken without waiting.
AwaitNobody(s) ==
  /\ SessionMoves(s, "Await", "Snapshot")
  /\ UNCHANGED <<targetVars, processVars, sessionState, targetIndex, owns,
                 registered, terminal, final, batch, hostVars, delivered, attempts>>

AwaitCallbacks(s) ==
  /\ inFlight[targetIndex[s]] = 0
  /\ SessionMoves(s, "Await", "Snapshot")
  /\ UNCHANGED <<targetVars, processVars, sessionState, targetIndex, owns,
                 registered, terminal, final, batch, hostVars, delivered, attempts>>

SnapshotDiagnostics(s) ==
  /\ SessionMoves(s, "Snapshot", "Release")
  /\ terminal' = [terminal EXCEPT ![s] = counters[targetIndex[s]]]
  /\ owns' = [owns EXCEPT ![s] = FALSE]
  /\ UNCHANGED <<targetVars, processVars, sessionState, targetIndex, registered,
                 final, batch, hostVars, delivered, attempts>>

ReleaseSlot(s) ==
  /\ SessionMoves(s, "Release", "Ready")
  /\ slotReserved' = FALSE
  /\ sessionState' = [sessionState EXCEPT ![s] = final[s]]
  /\ UNCHANGED <<targetVars, published, nextTarget, targetIndex, owns, registered,
                 terminal, final, batch, hostVars, delivered, attempts>>

\* The destructor stops the session; a new object takes its place.
Renew(s) ==
  /\ pc[s] = "Ready"
  /\ sessionState[s] = "Stopped"
  /\ sessionState' = [sessionState EXCEPT ![s] = "Idle"]
  /\ targetIndex' = [targetIndex EXCEPT ![s] = 0]
  /\ terminal' = [terminal EXCEPT ![s] = NoDiagnostics]
  /\ UNCHANGED <<targetVars, processVars, owns, registered, pc, final, batch,
                 hostVars, delivered, attempts>>

\* drain into a destination of `size` records: load both positions, copy slot
\* by slot, then hand the slots back to the producer.
Drain(s, size) ==
  LET t == targetIndex[s]
      available == writePosition[t] - readPosition[t]
      count == IF available < size THEN available ELSE size IN
  /\ owns[s]
  /\ sessionState[s] = "Active"
  /\ count > 0
  /\ SessionMoves(s, "Ready", "Copy")
  /\ batch' = [batch EXCEPT ![s] =
       [next |-> readPosition[t], last |-> readPosition[t] + count, records |-> <<>>]]
  /\ UNCHANGED <<targetVars, processVars, sessionState, targetIndex, owns,
                 registered, terminal, final, hostVars, delivered, attempts>>

CopySlot(s) ==
  /\ pc[s] = "Copy"
  /\ batch' = [batch EXCEPT ![s] =
       [next |-> @.next + 1, last |-> @.last,
        records |-> Append(@.records, events[targetIndex[s]][@.next % Capacity])]]
  /\ pc' = IF batch'[s].next = batch[s].last THEN [pc EXCEPT ![s] = "Commit"] ELSE pc
  /\ UNCHANGED <<targetVars, processVars, sessionState, targetIndex, owns,
                 registered, terminal, final, hostVars, delivered, attempts>>

CommitDrain(s) ==
  LET t == targetIndex[s] IN
  /\ SessionMoves(s, "Commit", "Ready")
  /\ readPosition' = [readPosition EXCEPT ![t] = batch[s].next]
  /\ counters' = [counters EXCEPT ![t].drained = @ + Len(batch[s].records)]
  /\ delivered' = delivered \o batch[s].records
  /\ batch' = [batch EXCEPT ![s] = NoBatch]
  /\ UNCHANGED <<events, writePosition, inFlight, processVars, sessionState,
                 targetIndex, owns, registered, terminal, final, hostVars, attempts>>

\* The caller starts an operation; a started one runs on by itself.
Call(s) ==
  \/ Bootstrap(s) \/ RetryRenderReadiness(s) \/ Stop(s) \/ Fail(s) \/ Renew(s)
  \/ \E size \in 1..Capacity : Drain(s, size)

SessionStep(s) ==
  \/ Reserve(s) \/ ResetTarget(s) \/ PublishTarget(s) \/ Register(s)
  \/ Unpublish(s) \/ AwaitCallbacks(s) \/ SnapshotDiagnostics(s) \/ ReleaseSlot(s)
  \/ CopySlot(s) \/ CommitDrain(s)

Next ==
  \/ \E id \in CallbackId : EnterThunk(id)
  \/ ThunkStep
  \/ \E s \in Session : Call(s) \/ SessionStep(s)

Spec == Init /\ [][Next]_vars

\* A thread inside the thunk or inside an operation keeps being scheduled; the
\* host need not call, and the caller need not start anything.
Fairness ==
  /\ WF_vars(ThunkStep)
  /\ \A s \in Session : WF_vars(SessionStep(s))

FairSpec == Spec /\ Fairness
-----------------------------------------------------------------------------
ThunkPc == {"Out", "Loaded", "Counted", "Admitted", "Received",
            "Fill", "Publish", "Count", "Leaving"}
SessionPc == {"Ready", "Reserve", "Reset", "Publish", "Register", "Unpublish",
              "Await", "Snapshot", "Release", "Copy", "Commit"}

TargetTypeOK ==
  /\ events \in [Target -> [0..(Capacity - 1) -> EventRecord]]
  /\ readPosition \in [Target -> Nat]
  /\ writePosition \in [Target -> Nat]
  /\ counters \in [Target -> Diagnostics]
  /\ inFlight \in [Target -> 0..(InFlightModulus - 1)]

ProcessTypeOK ==
  /\ published \in Target \cup {NoTarget}
  /\ slotReserved \in BOOLEAN
  /\ nextTarget \in Target

Batch == [next : Nat, last : Nat, records : Seq(EventRecord)]

SessionTypeOK ==
  /\ sessionState \in [Session -> SessionState]
  /\ targetIndex \in [Session -> Target]
  /\ owns \in [Session -> BOOLEAN]
  /\ registered \in [Session -> BOOLEAN]
  /\ terminal \in [Session -> Diagnostics]
  /\ pc \in [Session -> SessionPc]
  /\ final \in [Session -> {"Stopped", "Failed"}]
  /\ batch \in [Session -> Batch]

ThunkCall == [pc : ThunkPc, target : Target, id : CallbackId \cup {"EndFrame"},
              sequence : Nat, write : Nat]

HostTypeOK ==
  /\ thunk \in ThunkCall
  /\ thunk.pc = "Fill" => Known(thunk.id)
  /\ thunkSaved \in BOOLEAN
  /\ calls \in 0..MaxCalls

\* Every member is in range; callbacks_in_flight is an unsigned counter.
TypeOK ==
  /\ TargetTypeOK
  /\ ProcessTypeOK
  /\ SessionTypeOK
  /\ HostTypeOK
  /\ delivered \in Seq(EventRecord)
  /\ attempts \in 0..MaxAttempts

\* A session holds the process slot from the compare-and-swap to the release.
Holds(s) == owns[s] \/ pc[s] \in {"Reset", "Release"}

\* The process slot is exclusive: it is reserved exactly while one session
\* holds it, and only its holder can be published, registered or active.
SlotExclusion ==
  /\ \A s, r \in Session : Holds(s) /\ Holds(r) => s = r
  /\ slotReserved <=> \E s \in Session : Holds(s)
  /\ published # NoTarget =>
       \E s \in Session : owns[s] /\ targetIndex[s] = published
  /\ \A s \in Session : registered[s] \/ sessionState[s] = "Active" => Holds(s)

\* Where the call in progress stands when its session owns a target, and when
\* that target may be the published one.
OwningPc ==
  {"Publish", "Register", "Ready", "Unpublish", "Await", "Snapshot", "Copy", "Commit"}
PublishedPc == {"Register", "Ready", "Unpublish", "Copy", "Commit"}

SessionConsistent(s) ==
  /\ owns[s] => pc[s] \in OwningPc
  /\ pc[s] \in OwningPc \ {"Ready"} => owns[s]
  /\ owns[s] /\ pc[s] \in {"Ready", "Copy", "Commit"} => sessionState[s] = "Active"
  /\ registered[s] => owns[s] /\ pc[s] \in {"Ready", "Copy", "Commit"}
  /\ sessionState[s] = "Active" => Holds(s)

\* SlotExclusion made inductive.
SlotInv ==
  /\ \A s, r \in Session : Holds(s) /\ Holds(r) => s = r
  /\ slotReserved <=> \E s \in Session : Holds(s)
  /\ \A s \in Session : SessionConsistent(s)
  /\ published # NoTarget =>
       \E s \in Session :
         owns[s] /\ targetIndex[s] = published /\ pc[s] \in PublishedPc

Delivering == {"Admitted", "Received", "Fill", "Publish", "Count"}
CountedIn == {"Counted", "Leaving"} \cup Delivering

\* The in-flight count of a target is the number of thunk calls counted in on
\* it: it never underflows and never forgets one that is still running.
InFlightExact ==
  \A t \in Target :
    inFlight[t] = IF thunk.pc \in CountedIn /\ thunk.target = t THEN 1 ELSE 0

\* A saved late thunk is safe after teardown: a call that got past the recheck
\* writes only into the target of a session that has not finished waiting.
LateThunkSafe ==
  thunk.pc \in Delivering =>
    \E s \in Session :
      /\ owns[s]
      /\ targetIndex[s] = thunk.target
      /\ pc[s] # "Snapshot"

\* LateThunkSafe made inductive: the wait cannot end, nor the target be reset,
\* while a delivering call is counted in on it.
LateThunkInv ==
  /\ InFlightExact
  /\ thunk.pc \in Delivering =>
       \E s \in Session :
         /\ owns[s]
         /\ targetIndex[s] = thunk.target
         /\ pc[s] \in PublishedPc \cup {"Await"}

\* The diagnostics a finished activation leaves behind account for every
\* callback it received, and no more was drained than was accepted.
TerminalDiagnosticsBalance ==
  \A s \in Session : ~owns[s] =>
    /\ terminal[s].received =
         terminal[s].enqueued + terminal[s].unknown + terminal[s].overflow
    /\ terminal[s].drained <= terminal[s].enqueued

\* TerminalDiagnosticsBalance made inductive: on every target the call in
\* progress is all that is received and not yet counted, the positions of the
\* ring are the counts, and a drain stays between them.
Underway(t, positions) == IF thunk.target = t /\ thunk.pc \in positions THEN 1 ELSE 0

TargetBalances(t) ==
  /\ counters[t].received =
       counters[t].enqueued + counters[t].unknown + counters[t].overflow
         + Underway(t, {"Received", "Fill", "Publish", "Count"})
  /\ writePosition[t] = counters[t].enqueued + Underway(t, {"Count"})
  /\ readPosition[t] = counters[t].drained
  /\ readPosition[t] <= writePosition[t]

DrainBalances(s) ==
  pc[s] \in {"Copy", "Commit"} =>
    /\ batch[s].next = readPosition[targetIndex[s]] + Len(batch[s].records)
    /\ batch[s].next <= batch[s].last
    /\ batch[s].last <= writePosition[targetIndex[s]]
    /\ pc[s] = "Copy" => batch[s].next < batch[s].last

BalanceInv ==
  /\ \A t \in Target : TargetBalances(t)
  /\ \A s \in Session : DrainBalances(s)
  /\ thunk.pc \in {"Fill", "Publish"} => thunk.write = writePosition[thunk.target]
  /\ TerminalDiagnosticsBalance

\* Teardown is final: from the end of the wait until a later activation resets
\* it, neither a saved thunk nor a drain touches a target, so the diagnostics
\* taken from it stay the last word.
InService(t) ==
  \E s \in Session : owns[s] /\ targetIndex[s] = t /\ pc[s] # "Snapshot"
ResetSince(t) == counters'[t] = NoDiagnostics /\ writePosition'[t] = 0

TornDownTargetsRest ==
  [][\A t \in Target : InService(t) \/ ResetSince(t) \/
       /\ counters'[t] = counters[t]
       /\ events'[t] = events[t]
       /\ readPosition'[t] = readPosition[t]
       /\ writePosition'[t] = writePosition[t]]_vars

\* The target last reset, and the ring it holds while a session owns it.
CurrentTarget == (nextTarget + NumTargets - 1) % NumTargets
Ring(t) == [i \in 1..(writePosition[t] - readPosition[t]) |->
              events[t][(readPosition[t] + i - 1) % Capacity]]
IsOpen == \E s \in Session : owns[s]

\* Each activation delivers what it accepted, in sequence order, once each,
\* and drops only when the ring is full: producer and consumer never meet on
\* a slot.
Queue == INSTANCE CallbackQueue WITH
  Records <- {record \in [kind : CallbackId, handoff : {Handoff[id] : id \in DOMAIN Handoff},
                          sequence : 1..MaxCalls] : Known(record.kind)},
  open <- IsOpen,
  queue <- IF IsOpen THEN Ring(CurrentTarget) ELSE <<>>,
  delivered <- delivered,
  dropped <- counters[CurrentTarget].overflow

DeliversInOrder == Queue!Spec

\* What makes DeliversInOrder inductive.  The numbers given out on a target
\* whose calls have been decided: their records are in the ring or dropped.
Decided(t) == counters[t].received - Underway(t, {"Received", "Fill", "Publish"})

\* A call that has found room keeps it, and publishes the record it filled in;
\* its number is the last one given out.
CallInv ==
  /\ thunk.pc # "Out" => thunk.id \in CallbackId
  /\ thunk.pc \in {"Fill", "Publish"} => Known(thunk.id) /\ ~IsFull(thunk.target)
  /\ thunk.pc \in {"Received", "Fill", "Publish"} =>
       thunk.sequence = counters[thunk.target].received
  /\ thunk.pc = "Publish" =>
       events[thunk.target][thunk.write % Capacity] = Record

\* A ring never holds more than it has slots for, and no record of a number
\* that is still to be decided; a number is given out once per call.
RingInv(t) ==
  /\ writePosition[t] - readPosition[t] <= Capacity
  /\ \A i \in DOMAIN Ring(t) : Ring(t)[i].sequence <= Decided(t)
  /\ counters[t].received + Underway(t, {"Loaded", "Counted", "Admitted"}) <= calls

\* What a drain has copied is still what the front of the ring holds.
CopyInv(s) ==
  pc[s] \in {"Copy", "Commit"} =>
    /\ \A i \in DOMAIN batch[s].records : batch[s].records[i] = Ring(targetIndex[s])[i]
    /\ pc[s] = "Commit" => batch[s].records # <<>>

\* The session that owns a target owns the one last reset, and what it has
\* delivered is of numbers decided there.
OwnerInv(s) ==
  owns[s] =>
    /\ targetIndex[s] = CurrentTarget
    /\ \A i \in DOMAIN delivered : delivered[i].sequence <= Decided(CurrentTarget)

QueueInv ==
  /\ CallInv
  /\ \A t \in Target : RingInv(t)
  /\ \A s \in Session : CopyInv(s) /\ OwnerInv(s)

\* A stop or failure that has unpublished its target returns: no saved thunk
\* can keep the caller waiting.
TeardownReturns ==
  \A s \in Session : pc[s] = "Await" ~> pc[s] = "Ready"
=============================================================================
