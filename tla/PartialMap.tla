----------------------------- MODULE PartialMap -----------------------------
(* Functions whose domain changes: what a program holds, by address.       *)

With(f, x, v) == [y \in DOMAIN f \cup {x} |-> IF y = x THEN v ELSE f[y]]
WithoutKey(f, x) == [y \in DOMAIN f \ {x} |-> f[y]]

=============================================================================
