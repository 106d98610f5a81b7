---------------------------- MODULE MCPolarisJog ----------------------------
(***************************************************************************)
(* Small instances of PolarisJog for TLC.  A speed below the head's range  *)
(* and two gears that clamp to one level are among the requests.           *)
(***************************************************************************)
EXTENDS PolarisJog

MCSpeeds == {-1, 3}
MCGears == {-1, 2, 3}
OneSpeed == {-1}
OneGear == {-1}
=============================================================================
