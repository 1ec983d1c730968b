---------------------------- MODULE MutationGate ----------------------------
(***************************************************************************)
(* What a lifecycle gate promises its caller, with no lifecycle in it:     *)
(* product mutation is permitted or not, a permission belongs to one       *)
(* application generation, and saves that were let in hold the permission  *)
(* back until every one of them has been given its outcome.                *)
(***************************************************************************)
EXTENDS Naturals

VARIABLES
  permitted,    \* product mutation is permitted
  epoch,        \* number of times the permission has been granted
  saves,        \* saves let in and not yet given an outcome
  retired       \* the permission will never be granted again

vars == <<permitted, epoch, saves, retired>>

Init ==
  /\ permitted = FALSE
  /\ epoch = 0
  /\ saves = 0
  /\ retired = FALSE

\* Each grant starts a new epoch, and none is given over an unresolved save.
Grant ==
  /\ ~permitted
  /\ ~retired
  /\ saves = 0
  /\ permitted' = TRUE
  /\ epoch' = epoch + 1
  /\ UNCHANGED <<saves, retired>>

\* The first save of an epoch finds the permission granted and takes it away.
AdmitFirstSave ==
  /\ permitted
  /\ saves = 0
  /\ permitted' = FALSE
  /\ saves' = 1
  /\ UNCHANGED <<epoch, retired>>

AdmitNestedSave ==
  /\ saves > 0
  /\ saves' = saves + 1
  /\ UNCHANGED <<permitted, epoch, retired>>

ResolveSave ==
  /\ saves > 0
  /\ saves' = saves - 1
  /\ UNCHANGED <<permitted, epoch, retired>>

Retire ==
  /\ ~retired
  /\ retired' = TRUE
  /\ permitted' = FALSE
  /\ saves' = 0
  /\ UNCHANGED epoch

Next == Grant \/ AdmitFirstSave \/ AdmitNestedSave \/ ResolveSave \/ Retire

Spec == Init /\ [][Next]_vars
=============================================================================
