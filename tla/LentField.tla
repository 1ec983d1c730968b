----------------------------- MODULE LentField -----------------------------
(***************************************************************************)
(* What the object property journal promises of an engine object it does   *)
(* not own: one field at a time is lent a value, the value it had is given *)
(* back to the same object or to none, and a loan that cannot be returned  *)
(* is kept on record for good.                                             *)
(***************************************************************************)
EXTENDS Naturals

CONSTANTS
  Field, Value,
  Valid,            \* the values the property schema of a field admits
  Phase,            \* when a field may be written
  NoLoan

VARIABLES
  status, loan, image,
  generation, declared,   \* the object that lives at the owner's address
  disturbances            \* steps of the game, the only others there are

vars == <<status, loan, image, generation, declared, disturbances>>

Returnable == loan.owner = generation /\ loan.field \in declared

Init ==
  /\ status = "Pristine"
  /\ loan = NoLoan
  /\ image \in [Field -> Value]
  /\ disturbances = 0

\* The current object lends a field that holds a valid value, which is noted.
Lend(field, value, phase) ==
  /\ status = "Pristine"
  /\ field \in declared
  /\ image[field] \in Valid \ {value}
  /\ loan' = [owner |-> generation, field |-> field, phase |-> phase,
              original |-> image[field], replacement |-> value]

Take ==
  /\ \E field \in Field, value \in Value, phase \in Phase :
       /\ Lend(field, value, phase)
       /\ image' = [image EXCEPT ![field] = value]
  /\ status' = "Applied"
  /\ UNCHANGED <<generation, declared, disturbances>>

Return ==
  /\ status = "Applied"
  /\ Returnable
  /\ image[loan.field] = loan.replacement
  /\ image' = [image EXCEPT ![loan.field] = loan.original]
  /\ status' = "Pristine"
  /\ loan' = NoLoan
  /\ UNCHANGED <<generation, declared, disturbances>>

\* The object is gone, or no longer has the field: not a byte is written.
Abandon ==
  /\ status = "Applied"
  /\ ~Returnable
  /\ status' = "RecoveryRequired"
  /\ UNCHANGED <<loan, image, generation, declared, disturbances>>

\* A write that could neither be completed nor undone leaves any value, in
\* the one field of the loan.
Damage ==
  /\ \/ \E field \in Field, value \in Value, phase \in Phase :
          Lend(field, value, phase)
     \/ status = "Applied" /\ Returnable /\ image[loan.field] = loan.replacement
                           /\ UNCHANGED loan
  /\ \E value \in Value : image' = [image EXCEPT ![loan'.field] = value]
  /\ status' = "RecoveryRequired"
  /\ UNCHANGED <<generation, declared, disturbances>>

\* The game changes its objects as it likes.
World == disturbances' = disturbances + 1 /\ UNCHANGED <<status, loan>>

Next == Take \/ Return \/ Abandon \/ Damage \/ World

Spec == Init /\ [][Next]_vars
=============================================================================
