--------------------------- MODULE MCEventEmitter ---------------------------
(* Instances of EventEmitter for TLC. *)
EXTENDS EventEmitterInv, TLC

\* Dispatchers are alike, and so are listeners that stop receiving; the safety
\* properties tell none of them apart.
Alike == Permutations(Dispatchers) \cup Permutations(Listeners \ Draining)
=============================================================================
