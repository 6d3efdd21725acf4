----------------------------- MODULE MCExecution -----------------------------
(* ExecutionControl for TLC: keys and workers are interchangeable.          *)
EXTENDS ExecutionProperties, TLC

Symmetry == Permutations(Keys) \cup Permutations(Workers) \cup Permutations(Actors)
=============================================================================
