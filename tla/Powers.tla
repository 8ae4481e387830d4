------------------------------- MODULE Powers -------------------------------
(***************************************************************************)
(* Powers of two as a recursive function, which the proofs can reason      *)
(* about: shifts and widths of words.                                      *)
(***************************************************************************)
EXTENDS Integers

Pow2[k \in Nat] == IF k = 0 THEN 1 ELSE 2 * Pow2[k - 1]

=============================================================================
