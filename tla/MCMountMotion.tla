--------------------------- MODULE MCMountMotion ----------------------------
(* A mount in motion by itself. *)
EXTENDS MountMotion

Spec == MotionInit /\ [][MotionNext]_motionVars /\ MotionFairness
=============================================================================
