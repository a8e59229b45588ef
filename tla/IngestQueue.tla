----------------------------- MODULE IngestQueue -----------------------------
(***************************************************************************)
(* The Redis Streams ingest queue: the API side (routers/ingest.py,        *)
(* enqueue_event), the stream with its consumer group, and the worker      *)
(* processes of worker.py.  A stream entry is immutable and is named by    *)
(* its position in `log`; the group is a cursor into the stream plus a     *)
(* pending-entries list (PEL).  Processes stop at any point between two    *)
(* calls to Redis or MySQL; a call to Redis may be refused, or be executed *)
(* while its reply is lost.                                                *)
(***************************************************************************)
EXTENDS Naturals, Sequences, FiniteSets

CONSTANTS
  Workers,       \* consumer processes (python -m app.worker)
  Requests,      \* ingest requests in flight at the API
  Events,        \* the traffic events they carry
  Body,          \* Body[r]: the events of request r, in order
  Poison,        \* events that process_single_event can never store
  MaxRetries,    \* MAX_RETRIES
  Count,         \* count of XREADGROUP and XAUTOCLAIM
  Refusable,     \* TRUE: Redis may refuse the XADD of a worker
  MaxExits,      \* bound: worker processes stopped or killed
  MaxFaults,     \* bound: Redis calls that fail
  MaxFlushes,    \* bound: times Redis loses its data
  MaxSlow        \* bound: messages a live worker is too slow to handle

ASSUME QueueAssumption ==
  /\ Body \in [Requests -> Seq(Events)]
  /\ Poison \subseteq Events
  /\ MaxRetries \in Nat \ {0}
  /\ Count \in Nat \ {0}
  /\ Refusable \in BOOLEAN
  /\ MaxExits \in Nat /\ MaxFaults \in Nat /\ MaxFlushes \in Nat
  /\ MaxSlow \in Nat

VARIABLES
  log,       \* every entry ever added to the stream: [ev, retry]
  base,      \* entries 1..base went with the last data loss
  group,     \* the consumer group exists
  cursor,    \* the group's last-delivered entry
  pel,       \* entries delivered and not acknowledged
  stale,     \* pending entries idle for RECLAIM_IDLE_MS or longer
  dead,      \* the dead-letter stream
  req,       \* req[r]: where request r stands
  sent,      \* sent[r]: events of r enqueued by its current attempt
  step,      \* step[w]: where worker w stands
  after,     \* after[w]: where w goes when its batch is done ("read" if it has none)
  batch,     \* batch[w]: entries read or claimed and not yet handled
  depth,     \* depth[w]: w's apimonitor_ingest_queue_depth gauge
  stored,    \* stored[e]: traffic_events rows committed for e
  failures,  \* failures[e]: handlings of e that raised (history)
  late,      \* some handling raised after its commit (history)
  refused,   \* some worker's XADD was refused (history)
  killed,    \* some worker was killed (history)
  slow,      \* messages that went idle in the batch of a live worker (history)
  exits, faults, flushes   \* what the bounds count

stream  == <<log, base, group, cursor, pel, stale, dead>>
api     == <<req, sent>>
worker  == <<step, after, batch, depth>>
history == <<failures, late, refused, killed, slow>>
bounds  == <<exits, faults, flushes>>
vars    == <<stream, api, worker, stored, history, bounds>>

Handling == {"process", "gauges", "requeue", "ack", "ackAndDie"}

Entry == [ev : Events, retry : Nat]

StreamTypeOK ==
  /\ log \in Seq(Entry) /\ dead \in Seq(Entry)
  /\ base \in Nat /\ cursor \in Nat /\ group \in BOOLEAN
  /\ pel \subseteq Nat /\ stale \subseteq pel

ApiTypeOK ==
  /\ req \in [Requests -> {"idle", "ensure", "xadd", "ok", "error"}]
  /\ sent \in [Requests -> Nat]

WorkerTypeOK ==
  /\ step \in [Workers -> {"down", "reclaim", "read", "depth"} \cup Handling]
  /\ after \in [Workers -> {"read", "depth"}]
  /\ batch \in [Workers -> SUBSET Nat]
  /\ depth \in [Workers -> Nat]

HistoryTypeOK ==
  /\ stored \in [Events -> Nat] /\ failures \in [Events -> Nat]
  /\ late \in BOOLEAN /\ refused \in BOOLEAN
  /\ killed \in BOOLEAN /\ slow \in Nat
  /\ exits \in Nat /\ faults \in Nat /\ flushes \in Nat

TypeOK == StreamTypeOK /\ ApiTypeOK /\ WorkerTypeOK /\ HistoryTypeOK

-----------------------------------------------------------------------------
(* Entries and events *)

(* Entries still in the stream that the group has not finished with: not  *)
(* yet delivered, or delivered and pending.                                *)
Live == {i \in 1..Len(log) : i > cursor \/ i \in pel}

InFlight(e) == \E i \in Live : log[i].ev = e
DeadLettered(e) == \E k \in 1..Len(dead) : dead[k].ev = e
Settled(e) == stored[e] > 0 \/ DeadLettered(e)

(* The message a worker is busy with: the lowest of its batch. *)
Current(w, i) == i \in batch[w] /\ \A j \in batch[w] : i <= j

(* The first n entries of a set, in stream order. *)
FirstOf(S, n) == {i \in S : Cardinality({j \in S : j <= i}) <= n}

Init ==
  /\ log = <<>> /\ base = 0 /\ group = FALSE /\ cursor = 0
  /\ pel = {} /\ stale = {} /\ dead = <<>>
  /\ req = [r \in Requests |-> "idle"] /\ sent = [r \in Requests |-> 0]
  /\ step = [w \in Workers |-> "down"] /\ after = [w \in Workers |-> "read"]
  /\ batch = [w \in Workers |-> {}] /\ depth = [w \in Workers |-> 0]
  /\ stored = [e \in Events |-> 0] /\ failures = [e \in Events |-> 0]
  /\ late = FALSE /\ refused = FALSE /\ killed = FALSE /\ slow = 0
  /\ exits = 0 /\ faults = 0 /\ flushes = 0

(* Mutant: the group is created at id "$", so it starts after the entries    *)
(* the stream already holds.                                                *)
EnsureGroupAtEnd ==
  /\ group' = TRUE
  /\ cursor' = IF group THEN cursor ELSE Len(log)

(* ensure_consumer_group: XGROUP CREATE at id 0, BUSYGROUP ignored.  A new  *)
(* group starts before the first entry the stream still holds.             *)
EnsureGroup ==
  /\ group' = TRUE
  /\ cursor' = IF group THEN cursor ELSE base

Xadd(e, n) == log' = Append(log, [ev |-> e, retry |-> n])

RedisFault == faults < MaxFaults /\ faults' = faults + 1

-----------------------------------------------------------------------------
(* The API: _apply_nginx_log sends one event, ingest_batch one after the   *)
(* other; an exception from enqueue_event fails the request where it       *)
(* stands and the caller may send the whole of it again.                   *)

Submit(r) ==
  /\ req[r] \in {"idle", "error"}
  /\ req' = [req EXCEPT ![r] = IF Body[r] = <<>> THEN "ok" ELSE "ensure"]
  /\ sent' = [sent EXCEPT ![r] = 0]
  /\ UNCHANGED <<stream, worker, stored, history, bounds>>

EnqueueEnsure(r) ==
  /\ req[r] = "ensure"
  /\ EnsureGroup
  /\ req' = [req EXCEPT ![r] = "xadd"]
  /\ UNCHANGED <<log, base, pel, stale, dead, sent, worker, stored, history, bounds>>

EnqueueXadd(r) ==
  /\ req[r] = "xadd"
  /\ Xadd(Body[r][sent[r] + 1], 0)
  /\ sent' = [sent EXCEPT ![r] = @ + 1]
  /\ req' = [req EXCEPT ![r] = IF sent[r] + 1 = Len(Body[r]) THEN "ok" ELSE "ensure"]
  /\ UNCHANGED <<base, group, cursor, pel, stale, dead, worker, stored, history, bounds>>

(* XADD raises: refused, or carried out with its reply lost. *)
EnqueueFails(r) ==
  /\ req[r] \in {"ensure", "xadd"}
  /\ RedisFault
  /\ \/ UNCHANGED log
     \/ req[r] = "xadd" /\ Xadd(Body[r][sent[r] + 1], 0)
  /\ req' = [req EXCEPT ![r] = "error"]
  /\ UNCHANGED <<base, group, cursor, pel, stale, dead, sent, worker, stored,
                 history, exits, flushes>>

-----------------------------------------------------------------------------
(* A worker's loop: reclaim, read, set the gauge.                          *)

Goto(w, s) == step' = [step EXCEPT ![w] = s]

Start(w) ==
  /\ step[w] = "down"
  /\ Goto(w, "reclaim")
  /\ depth' = [depth EXCEPT ![w] = 0]
  /\ UNCHANGED <<stream, api, after, batch, stored, history, bounds>>

(* SIGTERM sets stop_event, which is looked at between two rounds only. *)
Stop(w) ==
  /\ step[w] = "reclaim"
  /\ exits < MaxExits /\ exits' = exits + 1
  /\ Goto(w, "down")
  /\ UNCHANGED <<stream, api, after, batch, depth, stored, history, faults, flushes>>

(* The messages handed to w are handled one by one, then w goes to `next`. *)
Deliver(w, ids, next) ==
  /\ batch' = [batch EXCEPT ![w] = ids]
  /\ after' = [after EXCEPT ![w] = IF ids = {} THEN "read" ELSE next]
  /\ Goto(w, IF ids = {} THEN next ELSE "process")

(* Mutant: nothing reclaims the messages of a dead worker. *)
ReclaimSkipped(w) ==
  /\ step[w] = "reclaim"
  /\ EnsureGroup
  /\ Goto(w, "read")
  /\ UNCHANGED <<log, base, pel, stale, dead, api, after, batch, depth, stored,
                 history, bounds>>

(* reclaim_stale_messages: XAUTOCLAIM also restarts the idle time.         *)
Reclaim(w) ==
  /\ step[w] = "reclaim"
  /\ EnsureGroup
  /\ LET ids == FirstOf(stale, Count)
     IN  Deliver(w, ids, "read") /\ stale' = stale \ ids
  /\ UNCHANGED <<log, base, pel, dead, api, depth, stored, history, bounds>>

(* An exception of XAUTOCLAIM is logged and the round goes on. *)
ReclaimFails(w) ==
  /\ step[w] = "reclaim"
  /\ EnsureGroup
  /\ RedisFault
  /\ Goto(w, "read")
  /\ UNCHANGED <<log, base, pel, stale, dead, api, after, batch, depth, stored,
                 history, exits, flushes>>

(* process_available_messages: ensure the group and XREADGROUP ">". *)
Read(w) ==
  /\ step[w] = "read"
  /\ group' = TRUE
  /\ LET from == IF group THEN cursor ELSE base
         to   == IF from + Count <= Len(log) THEN from + Count ELSE Len(log)
     IN  /\ Deliver(w, (from + 1)..to, "depth")
         /\ cursor' = to
         /\ pel' = pel \cup ((from + 1)..to)
  /\ UNCHANGED <<log, base, stale, dead, api, depth, stored, history, bounds>>

(* INGEST_QUEUE_DEPTH.set(client.xlen(STREAM_NAME)); a failure is only logged. *)
SetDepth(w) ==
  /\ step[w] = "depth"
  /\ \/ depth' = [depth EXCEPT ![w] = Len(log) - base] /\ UNCHANGED faults
     \/ RedisFault /\ UNCHANGED depth
  /\ Goto(w, "reclaim")
  /\ UNCHANGED <<stream, api, after, batch, stored, history, exits, flushes>>

-----------------------------------------------------------------------------
(* _handle_message                                                         *)

(* load_model and process_single_event: the row is committed ... *)
ProcessStores(w, i) ==
  /\ step[w] = "process" /\ Current(w, i)
  /\ log[i].ev \notin Poison
  /\ stored' = [stored EXCEPT ![log[i].ev] = @ + 1]
  /\ Goto(w, "gauges")
  /\ UNCHANGED <<stream, api, after, batch, depth, history, bounds>>

(* ... or something raises first and nothing is stored. *)
ProcessRaises(w, i) ==
  /\ step[w] = "process" /\ Current(w, i)
  /\ failures' = [failures EXCEPT ![log[i].ev] = @ + 1]
  /\ Goto(w, "requeue")
  /\ UNCHANGED <<stream, api, after, batch, depth, stored, late, refused, killed, slow,
                 bounds>>

GaugesDone(w) ==
  /\ step[w] = "gauges"
  /\ Goto(w, "ack")
  /\ UNCHANGED <<stream, api, after, batch, depth, stored, history, bounds>>

(* db.refresh or refresh_gauges raises, inside the same try and after the  *)
(* commit: the rollback undoes nothing and the event is queued again.      *)
GaugesRaise(w, i) ==
  /\ step[w] = "gauges" /\ Current(w, i)
  /\ failures' = [failures EXCEPT ![log[i].ev] = @ + 1]
  /\ late' = TRUE
  /\ Goto(w, "requeue")
  /\ UNCHANGED <<stream, api, after, batch, depth, stored, refused, killed, slow,
                 bounds>>

(* Mutants of the except branch: one attempt too few, ... *)
ResendTooFew(i) ==
  LET n == log[i].retry + 1
  IN  IF n + 1 >= MaxRetries
      THEN dead' = Append(dead, [ev |-> log[i].ev, retry |-> n]) /\ UNCHANGED log
      ELSE Xadd(log[i].ev, n) /\ UNCHANGED dead

(* ... a dead-lettered event queued again all the same, ... *)
ResendBoth(i) ==
  LET n == log[i].retry + 1
  IN  /\ dead' = IF n >= MaxRetries
                 THEN Append(dead, [ev |-> log[i].ev, retry |-> n]) ELSE dead
      /\ IF n > MaxRetries THEN UNCHANGED log ELSE Xadd(log[i].ev, n)

(* ... and the last copy dropped without a dead letter. *)
ResendDrops(i) ==
  LET n == log[i].retry + 1
  IN  IF n >= MaxRetries THEN UNCHANGED <<log, dead>>
      ELSE Xadd(log[i].ev, n) /\ UNCHANGED dead

(* The except branch adds the event to one of the two streams. *)
Resend(i) ==
  LET n == log[i].retry + 1
  IN  IF n >= MaxRetries
      THEN dead' = Append(dead, [ev |-> log[i].ev, retry |-> n]) /\ UNCHANGED log
      ELSE Xadd(log[i].ev, n) /\ UNCHANGED dead

Requeue(w, i) ==
  /\ step[w] = "requeue" /\ Current(w, i)
  /\ Resend(i)
  /\ Goto(w, "ack")
  /\ UNCHANGED <<base, group, cursor, pel, stale, api, after, batch, depth, stored,
                 history, bounds>>

(* That XADD raises, done or not; `finally` acknowledges all the same and   *)
(* the exception then ends the process.                                     *)
RequeueRaises(w, i) ==
  /\ step[w] = "requeue" /\ Current(w, i)
  /\ RedisFault
  /\ \/ Resend(i) /\ UNCHANGED refused
     \/ Refusable /\ refused' = TRUE /\ UNCHANGED <<log, dead>>
  /\ Goto(w, "ackAndDie")
  /\ UNCHANGED <<base, group, cursor, pel, stale, api, after, batch, depth, stored,
                 failures, late, killed, slow, exits, flushes>>

(* Mutant: the acknowledgement forgets the idle time of the entry. *)
XackStaysStale(i) == pel' = pel \ {i} /\ UNCHANGED stale

(* XACK takes the entry off the pending list, whoever it is pending for. *)
Xack(i) == pel' = pel \ {i} /\ stale' = stale \ {i}

Ack(w, i) ==
  /\ step[w] = "ack" /\ Current(w, i)
  /\ Xack(i)
  /\ batch' = [batch EXCEPT ![w] = @ \ {i}]
  /\ IF batch[w] = {i}
     THEN Goto(w, after[w]) /\ after' = [after EXCEPT ![w] = "read"]
     ELSE Goto(w, "process") /\ UNCHANGED after
  /\ UNCHANGED <<log, base, group, cursor, dead, api, depth, stored, history, bounds>>

Abandon(w) ==
  /\ batch' = [batch EXCEPT ![w] = {}]
  /\ after' = [after EXCEPT ![w] = "read"]
  /\ Goto(w, "down")

AckAndDie(w, i) ==
  /\ step[w] = "ackAndDie" /\ Current(w, i)
  /\ Xack(i)
  /\ Abandon(w)
  /\ UNCHANGED <<log, base, group, cursor, dead, api, depth, stored, history,
                 bounds>>

(* XACK itself raises: the process ends with the message still pending. *)
AckRaises(w) ==
  /\ step[w] \in {"ack", "ackAndDie"}
  /\ RedisFault
  /\ Abandon(w)
  /\ UNCHANGED <<stream, api, depth, stored, history, exits, flushes>>

Crash(w) ==
  /\ step[w] # "down"
  /\ exits < MaxExits /\ exits' = exits + 1
  /\ killed' = TRUE
  /\ Abandon(w)
  /\ UNCHANGED <<stream, api, depth, stored, failures, late, refused, slow,
                 faults, flushes>>

-----------------------------------------------------------------------------
(* Redis                                                                   *)

(* A pending entry passes RECLAIM_IDLE_MS, perhaps while a live worker is    *)
(* still to handle it.                                                       *)
Age(i) ==
  /\ i \in pel \ stale
  /\ stale' = stale \cup {i}
  /\ IF \E w \in Workers : i \in batch[w]
     THEN slow < MaxSlow /\ slow' = slow + 1
     ELSE UNCHANGED slow
  /\ UNCHANGED <<log, base, group, cursor, pel, dead, api, worker, stored, failures,
                 late, refused, killed, bounds>>

(* Redis restarts empty: stream, group and pending list are gone. *)
Flush ==
  /\ flushes < MaxFlushes /\ flushes' = flushes + 1
  /\ base' = Len(log) /\ cursor' = Len(log) /\ group' = FALSE
  /\ pel' = {} /\ stale' = {} /\ dead' = <<>>
  /\ UNCHANGED <<log, api, worker, stored, history, exits, faults>>

-----------------------------------------------------------------------------

ApiStep(r) == Submit(r) \/ EnqueueEnsure(r) \/ EnqueueXadd(r) \/ EnqueueFails(r)

HandleStep(w, i) ==
  \/ ProcessStores(w, i) \/ ProcessRaises(w, i) \/ GaugesRaise(w, i)
  \/ Requeue(w, i) \/ RequeueRaises(w, i) \/ Ack(w, i) \/ AckAndDie(w, i)

(* What a running worker does next, whatever the outcome. *)
WorkerStep(w) ==
  \/ Reclaim(w) \/ Read(w) \/ SetDepth(w) \/ GaugesDone(w)
  \/ \E i \in batch[w] : HandleStep(w, i)

Next ==
  \/ \E r \in Requests : ApiStep(r)
  \/ \E w \in Workers : \/ WorkerStep(w) \/ Start(w) \/ Stop(w)
                       \/ ReclaimFails(w) \/ AckRaises(w) \/ Crash(w)
  \/ \E i \in pel : Age(i)
  \/ Flush

Spec == Init /\ [][Next]_vars

(* What the deployment schedules: a worker process keeps running and is     *)
(* restarted when it ends, an idle entry ages, an ingest call completes.    *)
FairSpec ==
  /\ Spec
  /\ \A r \in Requests : WF_vars(ApiStep(r))
  /\ \A w \in Workers : WF_vars(WorkerStep(w)) /\ WF_vars(Start(w))
  /\ WF_vars(\E i \in pel : Age(i))

-----------------------------------------------------------------------------
(* Properties                                                              *)

(* An event the stream still holds is never forgotten: until it is stored  *)
(* or dead-lettered some copy of it is undelivered or pending, whichever   *)
(* process dies between whichever calls, and whether the group was made    *)
(* before or after the entry.  Only a refused XADD of a worker breaks this. *)
NothingLost ==
  ~refused =>
    \A i \in (base + 1)..Len(log) : Settled(log[i].ev) \/ InFlight(log[i].ev)

(* An event reaches the dead-letter stream only after MAX_RETRIES of its    *)
(* handlings have raised, however the copies were reclaimed and repeated.   *)
DeadOnlyAfterMaxRetries ==
  \A k \in 1..Len(dead) : failures[dead[k].ev] >= MaxRetries

(* Nothing unusual happened: no worker was killed, no Redis call failed and *)
(* no live worker had its message reclaimed.                                *)
Undisturbed == slow = 0 /\ ~killed /\ faults = 0

(* Then one submission fails at most MAX_RETRIES times over all its retry    *)
(* copies and is settled at most once: it becomes one row or one dead        *)
(* letter, never both, unless something raised after the commit of its row.  *)
SettledOnce ==
  Undisturbed => \A e \in Events :
    /\ failures[e] <= MaxRetries
    /\ ~late => stored[e] + Cardinality({k \in 1..Len(dead) : dead[k].ev = e}) <= 1

(* The queue keeps the promise of IngestDelivery (no refusal, no flush).     *)
Delivery == INSTANCE IngestDelivery WITH
  open <- {e \in Events : InFlight(e)},
  settled <- {e \in Events : Settled(e)}
Refines == Delivery!Spec

(* The retry loop ends: in the long run every entry has been acknowledged,   *)
(* those that can never be stored included.                                  *)
BacklogDrains == <>[](Live = {})

(* An accepted event is eventually stored or dead-lettered, and one that     *)
(* cannot be stored ends in the dead-letter stream.                          *)
AcceptedSettles ==
  \A r \in Requests : req[r] = "ok" ~>
    \A k \in 1..Len(Body[r]) :
      IF Body[r][k] \in Poison THEN DeadLettered(Body[r][k]) ELSE Settled(Body[r][k])
=============================================================================
