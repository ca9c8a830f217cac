------------------------------ MODULE MCApplyBack ------------------------------
(* Instances of ApplyBack for TLC.                                          *)
EXTENDS ApplyBack, TLC

Symmetry == Permutations(Procs) \cup Permutations(WindowIds) \cup Permutations(Files)
===============================================================================
