---------------------------- MODULE MCLiveStreams ----------------------------
(* Instance of LiveStreams for TLC: one platform admin who may never join,  *)
(* and ordinary users.                                                      *)
EXTENDS LiveStreams

CONSTANT root
=============================================================================
