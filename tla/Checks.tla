------------------------------- MODULE Checks -------------------------------
(***************************************************************************)
(* The early returns of a function: a sequence of pairs <<passes, code>>   *)
(* in the order of the source.                                             *)
(***************************************************************************)
EXTENDS Naturals

AllPass(checks) == \A i \in DOMAIN checks : checks[i][1]

\* The code of the first check that does not pass.
FirstFailure(checks) ==
  LET first == CHOOSE i \in DOMAIN checks :
                 ~checks[i][1] /\ \A earlier \in 1..(i - 1) : checks[earlier][1]
  IN  checks[first][2]
=============================================================================
