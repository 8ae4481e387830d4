------------------------- MODULE MCRendezvousTimed --------------------------
(* Instances of RendezvousTimed for TLC.                                   *)
EXTENDS RendezvousTimed

WorkerSymmetry == Permutations(Worker)

=============================================================================
