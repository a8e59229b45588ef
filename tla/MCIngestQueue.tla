---------------------------- MODULE MCIngestQueue ----------------------------
(***************************************************************************)
(* Instances of IngestQueue for TLC: two workers, and one request that      *)
(* holds one event or a batch of two.                                      *)
(***************************************************************************)
EXTENDS IngestQueue, TLC

CONSTANTS w1, w2, r1, e1, e2

OneBatch == r1 :> <<e1, e2>>
OneEvent == r1 :> <<e1>>

(* Nothing reads the gauges: leave them out of the fingerprint. *)
WithoutDepth == <<stream, api, step, after, batch, stored, history, bounds>>

WorkerSymmetry == Permutations(Workers)
=============================================================================
