----------------------------- MODULE AtomicPatch -----------------------------
(***************************************************************************)
(* What a patch journal promises: a transaction is applied as a whole or   *)
(* not at all, undone as a whole or not at all, and when neither can be    *)
(* had the journal says so, once and for all.                              *)
(***************************************************************************)
EXTENDS Naturals, Sequences

CONSTANTS
  Address, Value,
  Transactions      \* sequences of [address, original, replacement] records

VARIABLES
  status, image, journal,
  disturbances      \* writes by the game, the only others there are

vars == <<status, image, journal, disturbances>>

Touches(transaction, address) ==
  \E i \in DOMAIN transaction : transaction[i].address = address

\* The image once every entry of a transaction has the named value.
Holding(transaction, field) ==
  [address \in Address |->
    IF Touches(transaction, address)
    THEN LET i == CHOOSE i \in DOMAIN transaction : transaction[i].address = address
         IN  transaction[i][field]
    ELSE image[address]]

Init ==
  /\ status = "Pristine"
  /\ image \in [Address -> Value]
  /\ journal = <<>>
  /\ disturbances = 0

Commit(transaction) ==
  /\ status = "Pristine"
  /\ image = Holding(transaction, "original")
  /\ image' = Holding(transaction, "replacement")
  /\ status' = "Applied"
  /\ journal' = transaction
  /\ UNCHANGED disturbances

Revert ==
  /\ status = "Applied"
  /\ image = Holding(journal, "replacement")
  /\ image' = Holding(journal, "original")
  /\ status' = "Pristine"
  /\ journal' = <<>>
  /\ UNCHANGED disturbances

\* A failure that could not be compensated: every entry is left with one of
\* its two values, nothing else was touched, and the entries are kept.
Wedge(transaction) ==
  /\ \/ status = "Pristine" /\ image = Holding(transaction, "original")
     \/ status = "Applied" /\ journal = transaction
                           /\ image = Holding(transaction, "replacement")
  /\ status' = "RecoveryRequired"
  /\ journal' = transaction
  /\ image' \in [Address -> Value]
  /\ \A address \in Address : image'[address] \in
       {Holding(transaction, "original")[address],
        Holding(transaction, "replacement")[address]}
  /\ UNCHANGED disturbances

\* The game writes its own memory.
Disturb ==
  /\ \E address \in Address, value \in Value :
       image' = [image EXCEPT ![address] = value]
  /\ disturbances' = disturbances + 1
  /\ UNCHANGED <<status, journal>>

Next ==
  \/ Revert \/ Disturb
  \/ \E transaction \in Transactions : Commit(transaction) \/ Wedge(transaction)

Spec == Init /\ [][Next]_vars
=============================================================================
