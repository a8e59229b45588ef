--------------------------- MODULE MCModelVersions ---------------------------
(* Instances of ModelVersions for TLC.                                      *)
EXTENDS ModelVersions, TLC

SessionSymmetry == Permutations(Sessions)
=============================================================================
