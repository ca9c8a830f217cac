----------------------------- MODULE MCPatchWriter -----------------------------
(* Instances of PatchWriter for TLC.                                        *)
EXTENDS PatchWriter, TLC

Symmetry == Permutations(Paths) \cup Permutations(Edits)
================================================================================
