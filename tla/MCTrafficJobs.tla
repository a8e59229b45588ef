---------------------------- MODULE MCTrafficJobs ----------------------------
(* Instances of TrafficJobs for TLC.                                        *)
EXTENDS TrafficJobs, TLC

JobSymmetry == Permutations(Rollups) \cup Permutations(Sessions)
=============================================================================
