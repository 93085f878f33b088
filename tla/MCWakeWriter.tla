----------------------------- MODULE MCWakeWriter -----------------------------
(* Model checking of WakeWriter's safety properties: push closures are        *)
(* interchangeable, so states that differ only by a renaming are one state.   *)
EXTENDS WakeWriter, TLC

PushSymmetry == Permutations(Pushes)
=============================================================================
