------------------------ MODULE MCOperationManager --------------------------
(* Small instances of OperationManager for TLC. *)
EXTENDS OperationManager, TLC

CONSTANTS w1, w2, camera, mount, main

MCWorkers == {w1, w2}
MCResources == {camera, mount}
\* One-resource operations of both devices and one that needs them together
\* (polar alignment), so that grants are refused for partial availability.
MCResourceSets == {{camera}, {mount}, {camera, mount}}
\* Liveness: requests that overlap without being equal.
MCOverlapping == {{camera}, {camera, mount}}
Symmetry == Permutations(MCWorkers) \cup Permutations(MCResources)
=============================================================================
