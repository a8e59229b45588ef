------------------------- MODULE MCAccountSessions -------------------------
(* Instances of AccountSessions for TLC.                                    *)
EXTENDS AccountSessions, TLC

RequestSymmetry == Permutations(Reqs)
=============================================================================
