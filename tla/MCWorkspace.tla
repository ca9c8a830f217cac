------------------------------ MODULE MCWorkspace ------------------------------
(* Instances of Workspace for TLC.                                          *)
EXTENDS Workspace, TLC

Symmetry == Permutations(Procs)
================================================================================
