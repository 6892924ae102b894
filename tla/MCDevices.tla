------------------------------ MODULE MCDevices ------------------------------
(***************************************************************************)
(* A QHY and a Canon camera and one camera role.                           *)
(***************************************************************************)
EXTENDS Devices

CONSTANTS qhy, canon, camera
=============================================================================
