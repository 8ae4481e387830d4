---------------------------- MODULE MCRendezvous ----------------------------
(* Instances of Rendezvous for TLC.                                        *)
EXTENDS Rendezvous, TLC

\* The workers run the same code and are interchangeable.
WorkerSymmetry == Permutations(Worker)

=============================================================================
