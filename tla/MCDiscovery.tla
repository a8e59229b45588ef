----------------------------- MODULE MCDiscovery -----------------------------
(***************************************************************************)
(* Instances of Discovery for TLC.  `one` and `two` stand for /users/1 and *)
(* /users/2, which both normalize to `user`, /users/{id}; `ping` is a path *)
(* without parameters, its own normal form.  A template may also be `one`. *)
(***************************************************************************)
EXTENDS Discovery, TLC

CONSTANTS one, two, user, ping

UserNorm == one :> user @@ two :> user
UserCovers == {<<one, one>>, <<user, one>>, <<user, two>>, <<user, user>>}

PlainNorm == one :> user @@ ping :> ping
PlainCovers == {<<user, one>>, <<user, user>>, <<ping, ping>>}

SessionSymmetry == Permutations(Sessions)
=============================================================================
