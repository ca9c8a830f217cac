---------------------------- MODULE MCGuardedStore ----------------------------
(* Instances of GuardedStore for TLC.  Rows are chosen by fresh identifier, *)
(* so identifiers of one table are interchangeable.                         *)
EXTENDS StoreRefinement, TLC

Symmetry == Permutations(PendingIds) \cup Permutations(PermitIds)
            \cup Permutations(WindowIds) \cup Permutations(ClaimIds)
            \cup Permutations(Fingerprints)
=============================================================================
