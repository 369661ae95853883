--------------------------- MODULE MCWakerSetLock ---------------------------
(* WakerSetLock with interchangeable callers. *)
EXTENDS WakerSetLock, TLC

Symmetry == Permutations(Proc)
=============================================================================
