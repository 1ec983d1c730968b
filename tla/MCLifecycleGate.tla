--------------------------- MODULE MCLifecycleGate ---------------------------
(* LifecycleGate on a small instance: every event in every state.          *)
EXTENDS LifecycleGate
=============================================================================
