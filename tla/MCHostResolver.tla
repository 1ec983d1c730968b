---------------------------- MODULE MCHostResolver ----------------------------
(***************************************************************************)
(* Four modules: two hosts, one of an old version, and one that lacks an   *)
(* export.                                                                 *)
(***************************************************************************)
EXTENDS HostResolver

CONSTANTS d3d11, proxy, old, decoy

MCModule == {d3d11, proxy, old, decoy}
MCExportNames == <<"ENBGetSDKVersion", "ENBGetVersion", "ENBGetState">>
MCExports ==
  [module \in MCModule |->
    IF module = decoy THEN {"ENBGetSDKVersion", "ENBGetState"} ELSE Names]
MCSdkVersion ==
  [module \in MCModule |->
    CASE module = d3d11 -> 1002 [] module = proxy -> 1999
      [] module = old -> 1001 [] module = decoy -> 2000]
MCGameIdentifier == [module \in MCModule |-> kGameIdentifier]
=============================================================================
