---------------------- MODULE MCObjectPropertyJournal ----------------------
(***************************************************************************)
(* Two fields, two valid values and one that is not.  Requests vary in one *)
(* of their prerequisites at a time, and in all of what the journal keeps. *)
(***************************************************************************)
EXTENDS ObjectPropertyJournal

MCField == {"worldFOV", "firstPersonFOV"}
MCValue == {"narrow", "wide", "torn"}
MCValid == {"narrow", "wide"}

Plain == [shut |-> {}, phase |-> "MainThreadPostUpdate", owner |-> 1,
          field |-> "worldFOV", sized |-> TRUE, value |-> "wide"]

MCRequests ==
  {[Plain EXCEPT !.owner = owner, !.field = field, !.value = value] :
     owner \in 0..2, field \in MCField, value \in MCValue}
  \cup {[Plain EXCEPT !.phase = otherPhase] : otherPhase \in {"FrameBoundary", "None"}}
  \cup {[Plain EXCEPT !.shut = {gate}] : gate \in Gate}
  \cup {[Plain EXCEPT !.sized = FALSE]}
=============================================================================
