--------------------------- MODULE MCSaveCoordination --------------------------
(* SaveCoordination on a small instance: three nested saves.               *)
EXTENDS SaveCoordination
=============================================================================
