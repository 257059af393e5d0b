----------------------------- MODULE MCMacFilter -----------------------------
(* Three addresses on four bits: c has no bit that a and b together do not *)
(* have, so that it is a false positive once both are added.               *)
EXTENDS MacFilter

MCHash == [a |-> {1, 2}, b |-> {3, 4}, c |-> {2, 3}]
Addresses == {"a", "b", "c"}
OnlyA == {"a"}
=============================================================================
