--------------------------- MODULE IngestDelivery ---------------------------
(***************************************************************************)
(* What the ingest queue promises to a caller of POST /api/ingest/...: an  *)
(* event taken into the queue stays open until it has been settled, that   *)
(* is stored in MySQL or parked in the dead-letter stream.  It may be      *)
(* settled more than once (at-least-once delivery) but it is never closed  *)
(* unsettled.                                                              *)
(***************************************************************************)
CONSTANT Events

VARIABLES open,     \* events with a copy in the queue that is not acknowledged
          settled   \* events stored at least once, or dead-lettered

vars == <<open, settled>>

Init == open = {} /\ settled = {}

(* The queue takes a copy of e: a new submission or a retry. *)
Take(e) == open' = open \cup {e} /\ UNCHANGED settled

(* A worker stores e, or gives it up to the dead-letter stream. *)
Settle(e) == settled' = settled \cup {e} /\ UNCHANGED open

(* The last open copy of e is acknowledged: only a settled event closes. *)
Close(e) == e \in settled /\ open' = open \ {e} /\ UNCHANGED settled

Next == \E e \in Events : Take(e) \/ Settle(e) \/ Close(e)

Spec == Init /\ [][Next]_vars
=============================================================================
