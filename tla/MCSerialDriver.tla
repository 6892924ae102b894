--------------------------- MODULE MCSerialDriver ---------------------------
(* A serial driver's table by itself. *)
EXTENDS SerialDriver

Spec == SdInit /\ [][SdNext]_sdVars
=============================================================================
