--------------------------- MODULE MCDurableTask ---------------------------
(* Small instances of DurableTask for TLC. *)
EXTENDS DurableTask, TLC

AnyProcess == Permutations(Process)
=============================================================================
