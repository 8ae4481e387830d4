------------------------------- MODULE MCDiv32 ------------------------------
(* Div32 on every pair of operands of a small word.                        *)
EXTENDS Div32

=============================================================================
