-------------------------- MODULE MCCallbackSession --------------------------
(* CallbackSession on small instances: the sessions and callback ids.      *)
EXTENDS CallbackSession, TLC

CONSTANTS s1, s2

OneSession == {s1}
TwoSessions == {s1, s2}
Symmetry == Permutations(TwoSessions)

\* One callback the translation knows, and one it does not.
SaveOrUnknown == {"PreSave", "Unrecognised"}
=============================================================================
