--------------------------- MODULE MCOrgMembership ---------------------------
(* Instances of OrgMembership for TLC: one platform admin who may never join, *)
(* and ordinary users.                                                        *)
EXTENDS OrgMembership, TLC

CONSTANT root

UserSymmetry == Permutations(Users \ Admins)
SessionSymmetry == Permutations(Sessions)
Symmetry == UserSymmetry \cup SessionSymmetry
=============================================================================
