------------------------------- MODULE MCE5rt -------------------------------
(* The instance of E5rt for TLC: one name, of an input and of an output,   *)
(* so that the two share a cache; two operations, so that a runner meets   *)
(* one that it was not made with, at its own address or at another.        *)
EXTENDS E5rt
=============================================================================
