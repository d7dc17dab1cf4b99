----------------------------- MODULE MCBootstrap -----------------------------
(* Small instances of Bootstrap.                                           *)
EXTENDS Bootstrap, TLC

CONSTANTS w1, w2, c1, c2, c3, setup, other, v1, v2

\* A custom command of two installers, and one of a single installer.
Lengths == [d \in Definitions |-> CASE d = setup -> 2 [] OTHER -> 1]
Interchangeable == Permutations(Calls) \cup Permutations(Inputs)
=============================================================================
