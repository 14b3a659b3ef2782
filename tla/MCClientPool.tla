----------------------------- MODULE MCClientPool -----------------------------
(* Safety of ClientPool with two overlapping rounds of checks, whose slots are *)
(* interchangeable.                                                            *)
EXTENDS ClientPool, TLC

Symmetry == Permutations(Slots)
===============================================================================
