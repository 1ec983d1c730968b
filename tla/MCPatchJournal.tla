--------------------------- MODULE MCPatchJournal ---------------------------
(* PatchJournal on a small image: three bytes, four transactions.          *)
EXTENDS PatchJournal

MCPatch(identifier, address, size, expected, replacement) ==
  [identifier |-> identifier, address |-> address, size |-> size,
   expected |-> expected, replacement |-> replacement]

A == MCPatch("a", 1, 1, 0, 1)
B == MCPatch("b", 2, 1, 0, 1)
C == MCPatch("c", 3, 1, 0, 2)
Wide == MCPatch("wide", 1, 2, 0, 1)
Outside == MCPatch("outside", 3, 2, 0, 1)
Vacuous == MCPatch("vacuous", 2, 1, 0, 0)

\* Well-formed ones, and one for each way a transaction can be malformed.
MCRequests ==
  {<<A>>, <<B, A>>, <<A, B, C>>, <<>>,
   <<A, A>>, <<B, Wide>>, <<A, Outside>>, <<A, Vacuous>>}
=============================================================================
