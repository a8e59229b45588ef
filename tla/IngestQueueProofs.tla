-------------------------- MODULE IngestQueueProofs --------------------------
(***************************************************************************)
(* Proofs about IngestQueue for any workers, requests, events and bounds.  *)
(***************************************************************************)
EXTENDS IngestQueue, FiniteSetTheorems, TLAPS

(* Shape of the stream: what is pending or in a worker's hands has been    *)
(* delivered, and a group that does not exist yet has delivered nothing.   *)
StreamInv ==
  /\ base <= cursor /\ cursor <= Len(log)
  /\ pel \subseteq (base + 1)..cursor
  /\ ~group => cursor = base
  /\ \A w \in Workers : batch[w] \subseteq 1..cursor
  /\ \A r \in Requests : req[r] \in {"ensure", "xadd"} => sent[r] < Len(Body[r])

(* A message a worker is about to acknowledge needs it no more: its event  *)
(* is settled, or a later copy of it is in flight.  "Later" is what makes  *)
(* this inductive when two workers hold the same message.                  *)
Passed(i) ==
  \/ Settled(log[i].ev)
  \/ \E j \in Live : j > i /\ log[j].ev = log[i].ev

AckInv ==
  ~refused =>
    \A w \in Workers : \A i \in batch[w] :
      /\ Current(w, i)
      /\ i > base
      /\ step[w] \in {"gauges", "ack", "ackAndDie"}
      => Passed(i)

(* The retry count a copy carries never exceeds the failures of its event. *)
RetryInv ==
  /\ \A i \in 1..Len(log) : log[i].retry <= failures[log[i].ev]
  /\ \A w \in Workers : \A i \in batch[w] :
       Current(w, i) /\ step[w] = "requeue" => log[i].retry < failures[log[i].ev]
  /\ \A k \in 1..Len(dead) : failures[dead[k].ev] >= MaxRetries

USE QueueAssumption DEF QueueAssumption

-----------------------------------------------------------------------------
(* Type correctness and the shape of the stream                            *)

LEMMA InitType == Init => TypeOK /\ StreamInv
<1>. SUFFICES ASSUME Init PROVE TypeOK /\ StreamInv
  OBVIOUS
<1>1. StreamTypeOK
  <2>1. log \in Seq(Entry) /\ dead \in Seq(Entry)
    BY DEF Init
  <2>. QED BY <2>1 DEF Init, StreamTypeOK
<1>2. ApiTypeOK /\ WorkerTypeOK /\ HistoryTypeOK
  BY DEF Init, ApiTypeOK, WorkerTypeOK, HistoryTypeOK
<1>3. StreamInv
  BY DEF Init, StreamInv
<1>. QED BY <1>1, <1>2, <1>3 DEF TypeOK

LEMMA LogType ==
  ASSUME TypeOK, NEW i \in 1..Len(log)
  PROVE  log[i] \in Entry /\ log[i].ev \in Events /\ log[i].retry \in Nat
<1>1. log[i] \in Entry
  BY DEF TypeOK, StreamTypeOK
<1>. QED BY <1>1 DEF Entry

LEMMA BatchType ==
  ASSUME TypeOK, StreamInv, NEW w \in Workers, NEW i \in batch[w]
  PROVE  /\ i \in 1..Len(log) /\ i \in Nat
         /\ log[i] \in Entry /\ log[i].ev \in Events /\ log[i].retry \in Nat
<1>1. i \in 1..Len(log)
  BY DEF TypeOK, StreamTypeOK, StreamInv
<1>. QED BY <1>1, LogType

(* What XADD does to the stream. *)
LEMMA XaddType ==
  ASSUME TypeOK, NEW e \in Events, NEW n \in Nat, Xadd(e, n)
  PROVE  /\ log' \in Seq(Entry)
         /\ Len(log) \in Nat /\ Len(log') = Len(log) + 1 /\ Len(log') >= Len(log)
         /\ \A i \in 1..Len(log) : log'[i] = log[i]
         /\ log'[Len(log) + 1] = [ev |-> e, retry |-> n]
  BY DEF Xadd, TypeOK, StreamTypeOK, Entry

LEMMA NextEvent ==
  ASSUME TypeOK, StreamInv, NEW r \in Requests, req[r] = "xadd"
  PROVE  Body[r][sent[r] + 1] \in Events
<1>1. Body[r] \in Seq(Events) /\ sent[r] + 1 \in 1..Len(Body[r])
  BY DEF TypeOK, ApiTypeOK, StreamInv
<1>. QED BY <1>1

(* A step that only adds to the stream keeps its shape. *)
LEMMA StreamGrows ==
  ASSUME TypeOK, StreamInv, log' \in Seq(Entry), Len(log') >= Len(log),
         UNCHANGED <<base, group, cursor, pel, batch>>,
         \A q \in Requests : req'[q] \in {"ensure", "xadd"} => sent'[q] < Len(Body[q])
  PROVE  StreamInv'
<1>1. Len(log) \in Nat /\ Len(log') \in Nat /\ base \in Nat /\ cursor \in Nat
  BY DEF TypeOK, StreamTypeOK
<1>2. base <= cursor /\ cursor <= Len(log')
  BY <1>1 DEF StreamInv
<1>. QED BY <1>2 DEF StreamInv

LEMMA ApiStepType ==
  ASSUME TypeOK, StreamInv, NEW r \in Requests, ApiStep(r)
  PROVE  TypeOK' /\ StreamInv'
<1> USE DEF TypeOK, StreamTypeOK, ApiTypeOK, WorkerTypeOK, HistoryTypeOK,
            stream, api, worker, history, bounds
<1>1. CASE Submit(r)
  <2>1. StreamTypeOK' /\ ApiTypeOK'
    BY <1>1 DEF Submit
  <2>2. WorkerTypeOK' /\ HistoryTypeOK'
    BY <1>1 DEF Submit
  <2>3. \A q \in Requests : req'[q] \in {"ensure", "xadd"} => sent'[q] < Len(Body[q])
    <3>1. ASSUME NEW q \in Requests, q # r, req'[q] \in {"ensure", "xadd"}
          PROVE  sent'[q] < Len(Body[q])
      BY <1>1, <3>1 DEF Submit, StreamInv
    <3>2. Body[r] \in Seq(Events) /\ (Body[r] # <<>> => 0 < Len(Body[r]))
      BY QueueAssumption
    <3>3. req'[r] \in {"ensure", "xadd"} => sent'[r] < Len(Body[r])
      BY <1>1, <3>2 DEF Submit
    <3>. QED BY <3>1, <3>3
  <2>4. UNCHANGED <<log, base, group, cursor, pel, batch>>
    BY <1>1 DEF Submit
  <2>. QED BY <2>1, <2>2, <2>3, <2>4 DEF StreamInv
<1>2. CASE EnqueueEnsure(r)
  <2>1. StreamTypeOK' /\ ApiTypeOK'
    BY <1>2 DEF EnqueueEnsure, EnsureGroup
  <2>2. WorkerTypeOK' /\ HistoryTypeOK'
    BY <1>2 DEF EnqueueEnsure
  <2>3. cursor' = cursor /\ group' = TRUE
    BY <1>2 DEF EnqueueEnsure, EnsureGroup, StreamInv
  <2>4. \A q \in Requests : req'[q] \in {"ensure", "xadd"} => sent'[q] < Len(Body[q])
    BY <1>2 DEF EnqueueEnsure, StreamInv
  <2>5. UNCHANGED <<log, base, pel, batch>>
    BY <1>2 DEF EnqueueEnsure
  <2>. QED BY <2>1, <2>2, <2>3, <2>4, <2>5 DEF StreamInv
<1>3. CASE EnqueueXadd(r)
  <2>1. Body[r][sent[r] + 1] \in Events /\ 0 \in Nat
    BY <1>3, NextEvent DEF EnqueueXadd
  <2>2. log' \in Seq(Entry) /\ Len(log') = Len(log) + 1
    BY <1>3, <2>1, XaddType DEF EnqueueXadd
  <2>3. TypeOK'
    <3>1. StreamTypeOK'
      BY <1>3, <2>2 DEF EnqueueXadd
    <3>2. ApiTypeOK'
      BY <1>3 DEF EnqueueXadd
    <3>3. WorkerTypeOK' /\ HistoryTypeOK'
      BY <1>3 DEF EnqueueXadd
    <3>. QED BY <3>1, <3>2, <3>3
  <2>4. \A q \in Requests : req'[q] \in {"ensure", "xadd"} => sent'[q] < Len(Body[q])
    BY <1>3 DEF EnqueueXadd, StreamInv
  <2>5. Len(log') >= Len(log) /\ UNCHANGED <<base, group, cursor, pel, batch>>
    BY <1>3, <2>2 DEF EnqueueXadd
  <2>. HIDE DEF TypeOK
  <2>. QED BY <2>2, <2>3, <2>4, <2>5, StreamGrows
<1>4. CASE EnqueueFails(r)
  <2>1. log' \in Seq(Entry) /\ Len(log') >= Len(log)
    <3>1. CASE UNCHANGED log
      BY <3>1
    <3>2. CASE req[r] = "xadd" /\ Xadd(Body[r][sent[r] + 1], 0)
      <4>1. Body[r][sent[r] + 1] \in Events /\ 0 \in Nat
        BY <3>2, NextEvent
      <4>. QED BY <3>2, <4>1, XaddType
    <3>. QED BY <1>4, <3>1, <3>2 DEF EnqueueFails
  <2>2. TypeOK'
    BY <1>4, <2>1 DEF EnqueueFails, RedisFault
  <2>3. \A q \in Requests : req'[q] \in {"ensure", "xadd"} => sent'[q] < Len(Body[q])
    BY <1>4 DEF EnqueueFails, StreamInv
  <2>4. UNCHANGED <<base, group, cursor, pel, batch>>
    BY <1>4 DEF EnqueueFails
  <2>. HIDE DEF TypeOK
  <2>. QED BY <2>1, <2>2, <2>3, <2>4, StreamGrows
<1>. QED BY <1>1, <1>2, <1>3, <1>4 DEF ApiStep

(* What the except branch of _handle_message adds to one of the streams. *)
LEMMA ResendType ==
  ASSUME TypeOK, StreamInv, NEW w \in Workers, NEW i \in batch[w], Resend(i)
  PROVE  /\ log' \in Seq(Entry) /\ dead' \in Seq(Entry)
         /\ Len(log') >= Len(log)
<1>1. log[i].ev \in Events /\ log[i].retry + 1 \in Nat
  BY BatchType
<1>2. CASE log[i].retry + 1 >= MaxRetries
  <2>1. /\ dead' = Append(dead, [ev |-> log[i].ev, retry |-> log[i].retry + 1])
        /\ UNCHANGED log
    BY <1>2 DEF Resend
  <2>2. [ev |-> log[i].ev, retry |-> log[i].retry + 1] \in Entry
    BY <1>1 DEF Entry
  <2>. QED BY <2>1, <2>2 DEF TypeOK, StreamTypeOK
<1>3. CASE ~(log[i].retry + 1 >= MaxRetries)
  <2>1. Xadd(log[i].ev, log[i].retry + 1) /\ UNCHANGED dead
    BY <1>3 DEF Resend
  <2>2. dead' \in Seq(Entry)
    BY <2>1 DEF TypeOK, StreamTypeOK
  <2>. QED BY <1>1, <2>1, <2>2, XaddType
<1>. QED BY <1>2, <1>3

LEMMA HandleStepType ==
  ASSUME TypeOK, StreamInv, NEW w \in Workers, NEW i \in batch[w], HandleStep(w, i)
  PROVE  TypeOK' /\ StreamInv'
<1>g. ASSUME log' \in Seq(Entry), Len(log') >= Len(log),
             UNCHANGED <<base, group, cursor, pel, batch, req, sent>>
      PROVE  StreamInv'
  <2>1. \A q \in Requests : req'[q] \in {"ensure", "xadd"} => sent'[q] < Len(Body[q])
    BY <1>g DEF StreamInv
  <2>. QED BY <1>g, <2>1, StreamGrows
<1>q. log \in Seq(Entry) /\ Len(log) \in Nat
  BY DEF TypeOK, StreamTypeOK
<1> USE DEF TypeOK, StreamTypeOK, ApiTypeOK, WorkerTypeOK, HistoryTypeOK, Handling,
            stream, api, worker, history, bounds, Goto
<1>0. log[i].ev \in Events
  BY BatchType
<1>1. CASE ProcessStores(w, i)
  <2>1. WorkerTypeOK' /\ HistoryTypeOK'
    <3>1. WorkerTypeOK'
      BY <1>1 DEF ProcessStores
    <3>2. HistoryTypeOK'
      BY <1>0, <1>1 DEF ProcessStores
    <3>. QED BY <3>1, <3>2
  <2>2. StreamTypeOK' /\ ApiTypeOK'
    BY <1>1 DEF ProcessStores
  <2>3. UNCHANGED <<log, base, group, cursor, pel, batch, req, sent>>
    BY <1>1 DEF ProcessStores
  <2>4. StreamInv'
    BY <1>g, <1>q, <2>3
  <2>. QED BY <2>1, <2>2, <2>4 DEF TypeOK
<1>2. CASE ProcessRaises(w, i)
  <2>1. WorkerTypeOK' /\ HistoryTypeOK'
    <3>1. WorkerTypeOK'
      BY <1>2 DEF ProcessRaises
    <3>2. HistoryTypeOK'
      BY <1>0, <1>2 DEF ProcessRaises
    <3>. QED BY <3>1, <3>2
  <2>2. StreamTypeOK' /\ ApiTypeOK'
    BY <1>2 DEF ProcessRaises
  <2>3. UNCHANGED <<log, base, group, cursor, pel, batch, req, sent>>
    BY <1>2 DEF ProcessRaises
  <2>4. StreamInv'
    BY <1>g, <1>q, <2>3
  <2>. QED BY <2>1, <2>2, <2>4 DEF TypeOK
<1>3. CASE GaugesRaise(w, i)
  <2>1. WorkerTypeOK' /\ HistoryTypeOK'
    <3>1. WorkerTypeOK'
      BY <1>3 DEF GaugesRaise
    <3>2. HistoryTypeOK'
      BY <1>0, <1>3 DEF GaugesRaise
    <3>. QED BY <3>1, <3>2
  <2>2. StreamTypeOK' /\ ApiTypeOK'
    BY <1>3 DEF GaugesRaise
  <2>3. UNCHANGED <<log, base, group, cursor, pel, batch, req, sent>>
    BY <1>3 DEF GaugesRaise
  <2>4. StreamInv'
    BY <1>g, <1>q, <2>3
  <2>. QED BY <2>1, <2>2, <2>4 DEF TypeOK
<1>4. CASE Requeue(w, i)
  <2>1. log' \in Seq(Entry) /\ dead' \in Seq(Entry) /\ Len(log') >= Len(log)
    BY <1>4, ResendType DEF Requeue
  <2>2. StreamTypeOK' /\ ApiTypeOK'
    BY <1>4, <2>1 DEF Requeue
  <2>3. WorkerTypeOK' /\ HistoryTypeOK'
    BY <1>4 DEF Requeue
  <2>4. UNCHANGED <<base, group, cursor, pel, batch, req, sent>>
    BY <1>4 DEF Requeue
  <2>5. StreamInv'
    BY <1>g, <2>1, <2>4
  <2>. QED BY <2>2, <2>3, <2>5 DEF TypeOK
<1>5. CASE RequeueRaises(w, i)
  <2>1. log' \in Seq(Entry) /\ dead' \in Seq(Entry) /\ Len(log') >= Len(log)
    <3>1. CASE Resend(i)
      BY <3>1, ResendType
    <3>2. CASE UNCHANGED <<log, dead>>
      BY <3>2
    <3>. QED BY <1>5, <3>1, <3>2 DEF RequeueRaises
  <2>2. refused' \in BOOLEAN
    BY <1>5 DEF RequeueRaises
  <2>3. StreamTypeOK' /\ ApiTypeOK'
    BY <1>5, <2>1, <2>2 DEF RequeueRaises
  <2>4. WorkerTypeOK' /\ HistoryTypeOK'
    BY <1>5, <2>2 DEF RequeueRaises, RedisFault
  <2>5. UNCHANGED <<base, group, cursor, pel, batch, req, sent>>
    BY <1>5 DEF RequeueRaises
  <2>6. StreamInv'
    BY <1>g, <2>1, <2>5
  <2>. QED BY <2>3, <2>4, <2>6 DEF TypeOK
<1>6. CASE Ack(w, i)
  BY <1>6 DEF Ack, Xack, StreamInv
<1>7. CASE AckAndDie(w, i)
  BY <1>7 DEF AckAndDie, Xack, Abandon, StreamInv
<1>. QED BY <1>1, <1>2, <1>3, <1>4, <1>5, <1>6, <1>7 DEF HandleStep

LEMMA LoopStepType ==
  ASSUME TypeOK, StreamInv, NEW w \in Workers,
         \/ Reclaim(w) \/ Read(w) \/ SetDepth(w) \/ GaugesDone(w) \/ Start(w)
         \/ Stop(w) \/ ReclaimFails(w) \/ AckRaises(w) \/ Crash(w)
  PROVE  TypeOK' /\ StreamInv'
<1> USE DEF TypeOK, StreamTypeOK, ApiTypeOK, WorkerTypeOK, HistoryTypeOK, Handling,
            stream, api, worker, history, bounds, Goto, Abandon, RedisFault
<1>1. CASE Reclaim(w)
  <2>1. FirstOf(stale, Count) \subseteq stale /\ stale \subseteq 1..cursor
    BY DEF FirstOf, StreamInv
  <2>2. TypeOK'
    BY <1>1, <2>1 DEF Reclaim, Deliver, EnsureGroup
  <2>. QED BY <1>1, <2>1, <2>2 DEF Reclaim, Deliver, EnsureGroup, StreamInv
<1>2. CASE Read(w)
  <2> DEFINE from == IF group THEN cursor ELSE base
             to == IF from + Count <= Len(log) THEN from + Count ELSE Len(log)
  <2>1. from = cursor /\ to \in Nat /\ cursor <= to /\ to <= Len(log)
    BY DEF StreamInv
  <2>2. /\ Deliver(w, (from + 1)..to, "depth") /\ cursor' = to
        /\ pel' = pel \cup ((from + 1)..to) /\ group' = TRUE
        /\ UNCHANGED <<log, base, stale, dead, api, depth, stored, history, bounds>>
    BY <1>2 DEF Read
  <2> HIDE DEF from, to
  <2>3. TypeOK'
    BY <2>1, <2>2 DEF Deliver
  <2>4. \A v \in Workers : batch'[v] \subseteq 1..cursor'
    BY <2>1, <2>2 DEF Deliver, StreamInv
  <2>. QED BY <2>1, <2>2, <2>3, <2>4 DEF StreamInv
<1>3. CASE SetDepth(w)
  <2>1. /\ depth' \in [Workers -> Nat] /\ faults' \in Nat
        /\ step' = [step EXCEPT ![w] = "reclaim"]
        /\ UNCHANGED <<stream, api, after, batch, stored, history, exits, flushes>>
    <3>1. Len(log) - base \in Nat
      BY DEF StreamInv
    <3>2. /\ step' = [step EXCEPT ![w] = "reclaim"]
          /\ UNCHANGED <<stream, api, after, batch, stored, history, exits, flushes>>
      BY <1>3 DEF SetDepth, Goto
    <3>3. CASE depth' = [depth EXCEPT ![w] = Len(log) - base] /\ UNCHANGED faults
      BY <3>1, <3>2, <3>3
    <3>4. CASE RedisFault /\ UNCHANGED depth
      BY <3>2, <3>4 DEF RedisFault
    <3>. QED BY <1>3, <3>3, <3>4 DEF SetDepth
  <2>. QED BY <2>1 DEF StreamInv
<1>4. CASE GaugesDone(w)
  BY <1>4 DEF GaugesDone, StreamInv
<1>9. CASE Start(w)
  BY <1>9 DEF Start, StreamInv
<1>5. CASE Stop(w)
  BY <1>5 DEF Stop, StreamInv
<1>6. CASE ReclaimFails(w)
  BY <1>6 DEF ReclaimFails, EnsureGroup, StreamInv
<1>7. CASE AckRaises(w)
  BY <1>7 DEF AckRaises, StreamInv
<1>8. CASE Crash(w)
  BY <1>8 DEF Crash, StreamInv
<1>. QED BY <1>1, <1>2, <1>3, <1>4, <1>5, <1>6, <1>7, <1>8, <1>9

LEMMA NextType == TypeOK /\ StreamInv /\ [Next]_vars => TypeOK' /\ StreamInv'
<1>. SUFFICES ASSUME TypeOK, StreamInv, [Next]_vars PROVE TypeOK' /\ StreamInv'
  OBVIOUS
<1> USE DEF TypeOK, StreamTypeOK, ApiTypeOK, WorkerTypeOK, HistoryTypeOK,
            stream, api, worker, history, bounds
<1>1. ASSUME NEW i \in pel, Age(i) PROVE TypeOK' /\ StreamInv'
  BY <1>1 DEF Age, StreamInv
<1>2. CASE Flush
  <2>0. <<>> \in Seq(Entry)
    OBVIOUS
  <2>2. Len(log) \in Nat /\ cursor <= Len(log)
    BY DEF StreamInv
  <2>1. StreamTypeOK'
    BY <1>2, <2>0, <2>2 DEF Flush
  <2>3. (ApiTypeOK /\ WorkerTypeOK /\ HistoryTypeOK)'
    BY <1>2 DEF Flush
  <2>. QED BY <1>2, <2>1, <2>2, <2>3 DEF Flush, StreamInv
<1>3. CASE UNCHANGED vars
  BY <1>3 DEF vars, StreamInv
<1>. QED
  BY <1>1, <1>2, <1>3, ApiStepType, HandleStepType, LoopStepType DEF Next, WorkerStep

(* Every variable keeps its type: entries of the stream and of the           *)
(* dead-letter stream stay well-formed, pending entries are positions.       *)
THEOREM TypeCorrect == Spec => [](TypeOK /\ StreamInv)
  BY InitType, NextType, PTL DEF Spec

-----------------------------------------------------------------------------
(* No event is lost                                                        *)

LossInv == NothingLost /\ AckInv

(* All actions but the acknowledgements and a flush only add: entries keep  *)
(* their place, settled events stay settled and live entries stay live.     *)
Grows ==
  /\ Len(log) <= Len(log') /\ \A i \in 1..Len(log) : log'[i] = log[i]
  /\ Len(dead) <= Len(dead') /\ \A k \in 1..Len(dead) : dead'[k] = dead[k]
  /\ \A e \in Events : stored[e] <= stored'[e]
  /\ Live \subseteq Live'
  /\ \A i \in 1..Len(log') : i > Len(log) => i \in Live'
  /\ base' = base /\ (refused => refused')

LEMMA GrowsKeeps ==
  ASSUME TypeOK, TypeOK', NothingLost, Grows
  PROVE  /\ \A i \in 1..Len(log) : Passed(i) => Passed(i)'
         /\ NothingLost'
<1>1. Len(log) \in Nat /\ Len(log') \in Nat /\ Len(dead) \in Nat /\ Len(dead') \in Nat
  BY DEF TypeOK, StreamTypeOK
<1>2. ASSUME NEW e \in Events, Settled(e) PROVE Settled(e)'
  <2>1. stored[e] \in Nat /\ stored'[e] \in Nat
    BY DEF TypeOK, HistoryTypeOK
  <2>2. CASE stored[e] > 0
    BY <2>1, <2>2 DEF Grows, Settled
  <2>3. CASE DeadLettered(e)
    BY <1>1, <2>3 DEF Grows, Settled, DeadLettered
  <2>. QED BY <1>2, <2>2, <2>3 DEF Settled
<1>3. \A i \in 1..Len(log) : log[i].ev \in Events /\ log'[i] = log[i] /\ i \in 1..Len(log')
  BY <1>1, LogType DEF Grows
<1>4. \A j \in Live : j \in Live' /\ j \in 1..Len(log) /\ log'[j] = log[j]
  BY DEF Grows, Live
<1>5. ASSUME NEW i \in 1..Len(log), Passed(i) PROVE Passed(i)'
  BY <1>2, <1>3, <1>4, <1>5 DEF Passed
<1>6. ASSUME ~refused', NEW i \in (base' + 1)..Len(log')
      PROVE  Settled(log[i].ev)' \/ InFlight(log[i].ev)'
  <2>1. CASE i > Len(log)
    BY <1>1, <2>1, i \in 1..Len(log') DEF Grows, InFlight, TypeOK, StreamTypeOK
  <2>2. CASE i <= Len(log)
    <3>1. i \in 1..Len(log) /\ i \in (base + 1)..Len(log) /\ ~refused
      BY <1>1, <1>6, <2>2 DEF Grows, TypeOK, StreamTypeOK
    <3>2. Settled(log[i].ev) \/ InFlight(log[i].ev)
      BY <3>1 DEF NothingLost
    <3>. QED BY <1>2, <1>3, <1>4, <3>1, <3>2 DEF InFlight
  <2>. QED BY <1>1, <2>1, <2>2
<1>. QED BY <1>5, <1>6 DEF NothingLost

(* An acknowledgement loses nothing: the message had been passed on.        *)
LEMMA XackKeeps ==
  ASSUME TypeOK, StreamInv, LossInv, NEW w \in Workers, NEW i \in batch[w],
         Current(w, i), step[w] \in {"ack", "ackAndDie"}, Xack(i), ~refused,
         UNCHANGED <<log, base, cursor, dead, stored, refused>>
  PROVE  /\ \A k \in 1..Len(log) : k > base /\ Passed(k) => Passed(k)'
         /\ NothingLost'
<1>1. i \in 1..Len(log) /\ i \in Nat /\ Len(log) \in Nat /\ base \in Nat /\ cursor \in Nat
  BY BatchType DEF TypeOK, StreamTypeOK
<1>2. Live' = Live \ {i}
  <2>1. i <= cursor
    BY <1>1 DEF StreamInv
  <2>. QED BY <1>1, <2>1 DEF Live, Xack
<1>3. \A e \in Events : Settled(e)' = Settled(e)
  BY DEF Settled, DeadLettered
<1>4. \A k \in 1..Len(log) : log[k].ev \in Events /\ log'[k] = log[k]
  BY LogType
<1>5. i > base => Passed(i)
  BY DEF LossInv, AckInv
<1>6. \A j \in Live : j \in 1..Len(log)
  BY DEF Live
<1>7. ASSUME NEW j \in Live, j > base
      PROVE  \/ Settled(log[j].ev)
             \/ \E m \in Live' : m >= j /\ log[m].ev = log[j].ev
  <2>1. CASE j # i
    BY <1>2, <1>6, <2>1
  <2>2. CASE j = i
    <3>1. Passed(i)
      BY <1>5, <1>7, <2>2
    <3>2. CASE Settled(log[i].ev)
      BY <2>2, <3>2
    <3>3. ASSUME NEW m \in Live, m > i, log[m].ev = log[i].ev
          PROVE  \E n \in Live' : n >= j /\ log[n].ev = log[j].ev
      BY <1>1, <1>2, <1>6, <2>2, <3>3
    <3>. QED BY <3>1, <3>2, <3>3 DEF Passed
  <2>. QED BY <2>1, <2>2
<1>8. ASSUME NEW k \in 1..Len(log), k > base, Passed(k) PROVE Passed(k)'
  <2>1. CASE Settled(log[k].ev)
    BY <1>3, <1>4, <2>1 DEF Passed
  <2>2. ASSUME NEW j \in Live, j > k, log[j].ev = log[k].ev PROVE Passed(k)'
    <3>1. j \in 1..Len(log) /\ j > base
      BY <1>1, <1>6, <1>8, <2>2
    <3>2. CASE Settled(log[j].ev)
      BY <1>3, <1>4, <2>2, <3>2 DEF Passed
    <3>3. ASSUME NEW m \in Live', m >= j, log[m].ev = log[j].ev PROVE Passed(k)'
      <4>1. m \in 1..Len(log) /\ m > k
        BY <1>1, <1>2, <1>6, <2>2, <3>1, <3>3
      <4>. QED BY <1>4, <2>2, <3>3, <4>1 DEF Passed
    <3>. QED BY <1>7, <3>1, <3>2, <3>3
  <2>. QED BY <1>8, <2>1, <2>2 DEF Passed
<1>9. ASSUME NEW k \in (base' + 1)..Len(log')
      PROVE  Settled(log[k].ev)' \/ InFlight(log[k].ev)'
  <2>1. k \in 1..Len(log) /\ k \in (base + 1)..Len(log) /\ k > base
    BY <1>1
  <2>2. CASE Settled(log[k].ev)
    BY <1>3, <1>4, <2>1, <2>2
  <2>3. ASSUME NEW j \in Live, log[j].ev = log[k].ev
        PROVE  Settled(log[k].ev)' \/ InFlight(log[k].ev)'
    <3>1. j > base
      BY <1>1, <1>6 DEF Live, StreamInv
    <3>. QED BY <1>3, <1>4, <1>2, <1>6, <1>7, <2>1, <2>3, <3>1 DEF InFlight
  <2>. QED BY <2>1, <2>2, <2>3 DEF LossInv, NothingLost, InFlight
<1>. QED BY <1>8, <1>9 DEF NothingLost

(* Which messages reach the end of their handling in a step, and how.       *)
LEMMA AckInvKeeps ==
  ASSUME TypeOK, StreamInv, LossInv, NEW v \in Workers,
         \A k \in 1..Len(log) : ~refused /\ k > base /\ Passed(k) => Passed(k)',
         base' = base, refused => refused',
         \A w \in Workers \ {v} : batch'[w] = batch[w] /\ step'[w] = step[w],
         \/ step'[v] \notin {"gauges", "ack", "ackAndDie"}
         \/ /\ batch'[v] = batch[v]
            /\ \/ step[v] \in {"gauges", "ack", "ackAndDie"}
               \/ \A i \in batch[v] : Current(v, i) /\ ~refused' => Passed(i)'
  PROVE  AckInv'
<1>. SUFFICES ASSUME ~refused', NEW w \in Workers, NEW i \in batch'[w],
                     Current(w, i)', i > base',
                     step'[w] \in {"gauges", "ack", "ackAndDie"}
              PROVE  Passed(i)'
  BY DEF AckInv
<1>1. batch'[w] = batch[w] /\ i \in batch[w] /\ Current(w, i)
  BY DEF Current
<1>2. i \in 1..Len(log)
  BY <1>1, BatchType
<1>3. CASE step[w] \in {"gauges", "ack", "ackAndDie"}
  <2>1. Passed(i)
    BY <1>1, <1>3 DEF LossInv, AckInv
  <2>. QED BY <1>2, <2>1
<1>4. CASE step[w] \notin {"gauges", "ack", "ackAndDie"}
  BY <1>1, <1>4
<1>. QED BY <1>3, <1>4

LEMMA ApiStepLoss ==
  ASSUME TypeOK, StreamInv, LossInv, TypeOK', NEW r \in Requests, ApiStep(r)
  PROVE  LossInv'
<1> USE DEF api, worker, history, bounds, stream
<1>1. Len(log) \in Nat /\ Len(dead) \in Nat /\ cursor \in Nat /\ cursor <= Len(log)
  BY DEF TypeOK, StreamTypeOK, StreamInv
<1>2. /\ cursor' = cursor /\ pel' = pel
      /\ UNCHANGED <<base, dead, stored, refused, step, batch>>
  BY DEF ApiStep, Submit, EnqueueEnsure, EnqueueXadd, EnqueueFails, EnsureGroup, StreamInv
<1>3. UNCHANGED log \/ (/\ Len(log') = Len(log) + 1
                       /\ \A i \in 1..Len(log) : log'[i] = log[i])
  <2>1. ASSUME req[r] = "xadd", Xadd(Body[r][sent[r] + 1], 0)
        PROVE  Len(log') = Len(log) + 1 /\ \A i \in 1..Len(log) : log'[i] = log[i]
    <3>1. Body[r][sent[r] + 1] \in Events /\ 0 \in Nat
      BY <2>1, NextEvent
    <3>. QED BY <2>1, <3>1, XaddType
  <2>. QED BY <2>1 DEF ApiStep, Submit, EnqueueEnsure, EnqueueXadd, EnqueueFails
<1>4. Grows
  <2>1. \A e \in Events : stored[e] \in Nat
    BY DEF TypeOK, HistoryTypeOK
  <2>2. CASE UNCHANGED log
    BY <1>1, <1>2, <2>1, <2>2 DEF Grows, Live
  <2>3. CASE Len(log') = Len(log) + 1 /\ \A i \in 1..Len(log) : log'[i] = log[i]
    BY <1>1, <1>2, <2>1, <2>3 DEF Grows, Live
  <2>. QED BY <1>3, <2>2, <2>3
<1>5. NothingLost' /\ \A k \in 1..Len(log) : Passed(k) => Passed(k)'
  BY <1>4, GrowsKeeps DEF LossInv
<1>6. AckInv'
  <2>. SUFFICES ASSUME ~refused', NEW w \in Workers, NEW i \in batch'[w],
                       Current(w, i)', i > base',
                       step'[w] \in {"gauges", "ack", "ackAndDie"}
                PROVE  Passed(i)'
    BY DEF AckInv
  <2>1. i \in batch[w] /\ i \in 1..Len(log)
    BY <1>2, BatchType
  <2>2. Passed(i)
    BY <1>2, <2>1 DEF LossInv, AckInv, Current
  <2>. QED BY <1>5, <2>1, <2>2
<1>. QED BY <1>5, <1>6 DEF LossInv

(* A step that leaves the stream alone and only adds stored rows.            *)
LEMMA QuietGrows ==
  ASSUME TypeOK, UNCHANGED <<log, base, dead, pel, refused>>, cursor' = cursor,
         \A e \in Events : stored[e] <= stored'[e]
  PROVE  Grows
  BY DEF Grows, Live, TypeOK, StreamTypeOK

(* The except branch grows the streams and passes its message on. *)
LEMMA ResendGrows ==
  ASSUME TypeOK, StreamInv, NEW w \in Workers, NEW i \in batch[w], Resend(i),
         UNCHANGED <<base, cursor, pel, stored, refused>>
  PROVE  Grows /\ Passed(i)'
<1>1. /\ Len(log) \in Nat /\ Len(dead) \in Nat /\ cursor \in Nat /\ cursor <= Len(log)
      /\ pel \subseteq 1..cursor
  BY DEF TypeOK, StreamTypeOK, StreamInv
<1>2. i \in 1..Len(log) /\ log[i].ev \in Events /\ log[i].retry + 1 \in Nat
  BY BatchType
<1>3. \A e \in Events : stored[e] \in Nat
  BY DEF TypeOK, HistoryTypeOK
<1>4. CASE log[i].retry + 1 >= MaxRetries
  <2>1. /\ dead' = Append(dead, [ev |-> log[i].ev, retry |-> log[i].retry + 1])
        /\ UNCHANGED log
    BY <1>4 DEF Resend
  <2>2. /\ Len(dead') = Len(dead) + 1
        /\ \A k \in 1..Len(dead) : dead'[k] = dead[k]
        /\ dead'[Len(dead) + 1] = [ev |-> log[i].ev, retry |-> log[i].retry + 1]
    BY <2>1 DEF TypeOK, StreamTypeOK
  <2>3. Grows
    BY <1>1, <1>3, <2>1, <2>2 DEF Grows, Live
  <2>4. DeadLettered(log[i].ev)'
    BY <1>1, <2>1, <2>2 DEF DeadLettered
  <2>. QED BY <2>1, <2>3, <2>4 DEF Passed, Settled
<1>5. CASE ~(log[i].retry + 1 >= MaxRetries)
  <2>1. Xadd(log[i].ev, log[i].retry + 1) /\ UNCHANGED dead
    BY <1>5 DEF Resend
  <2>2. /\ Len(log') = Len(log) + 1
        /\ \A k \in 1..Len(log) : log'[k] = log[k]
        /\ log'[Len(log) + 1] = [ev |-> log[i].ev, retry |-> log[i].retry + 1]
    BY <1>2, <2>1, XaddType
  <2>3. Grows
    BY <1>1, <1>3, <2>1, <2>2 DEF Grows, Live
  <2>4. Len(log) + 1 \in Live' /\ Len(log) + 1 > i
    BY <1>1, <1>2, <2>2 DEF Live
  <2>. QED BY <1>2, <2>2, <2>3, <2>4 DEF Passed
<1>. QED BY <1>4, <1>5

LEMMA OneMore ==
  ASSUME NEW S, NEW f \in [S -> Nat], NEW x \in S, NEW g, g = [f EXCEPT ![x] = @ + 1]
  PROVE  g[x] = f[x] + 1 /\ \A e \in S : f[e] <= g[e]
  OBVIOUS

LEMMA HandleStepLoss ==
  ASSUME TypeOK, StreamInv, LossInv, TypeOK', NEW w \in Workers, NEW i \in batch[w],
         HandleStep(w, i)
  PROVE  LossInv'
<1> USE DEF api, worker, history, bounds, stream, Goto, WorkerTypeOK, Handling
<1>0. /\ i \in 1..Len(log) /\ log[i].ev \in Events
      /\ \A e \in Events : stored[e] \in Nat
      /\ WorkerTypeOK
  <2>1. i \in 1..Len(log) /\ log[i].ev \in Events
    BY BatchType
  <2>2. \A e \in Events : stored[e] \in Nat
    BY DEF TypeOK, HistoryTypeOK
  <2>3. WorkerTypeOK
    BY DEF TypeOK
  <2>. QED BY <2>1, <2>2, <2>3
<1>u. ASSUME Current(w, i) PROVE \A j \in batch[w] : Current(w, j) => j = i
  BY <1>0, <1>u DEF Current
<1>k. ASSUME Grows PROVE NothingLost' /\ \A k \in 1..Len(log) : Passed(k) => Passed(k)'
  BY <1>k, GrowsKeeps DEF LossInv
<1>1. CASE ProcessStores(w, i)
  <2>1. stored' = [stored EXCEPT ![log[i].ev] = @ + 1]
    BY <1>1 DEF ProcessStores
  <2>2. stored'[log[i].ev] = stored[log[i].ev] + 1 /\ \A e \in Events : stored[e] <= stored'[e]
    <3>1. stored \in [Events -> Nat] /\ log[i].ev \in Events
      BY <1>0 DEF TypeOK, HistoryTypeOK
    <3>. QED BY <2>1, <3>1, OneMore
  <2>3. Grows
    BY <1>1, <2>2, QuietGrows DEF ProcessStores
  <2>4. Passed(i)'
    BY <1>0, <1>1, <2>2 DEF ProcessStores, Passed, Settled
  <2>5. AckInv'
    BY <1>0, <1>1, <1>k, <1>u, <2>3, <2>4, AckInvKeeps DEF ProcessStores
  <2>. QED BY <1>k, <2>3, <2>5 DEF LossInv
<1>2. CASE ProcessRaises(w, i) \/ GaugesRaise(w, i)
  <2>1. Grows
    BY <1>0, <1>2, QuietGrows DEF ProcessRaises, GaugesRaise
  <2>2. /\ step'[w] = "requeue" /\ UNCHANGED <<base, refused>>
        /\ \A v \in Workers \ {w} : batch'[v] = batch[v] /\ step'[v] = step[v]
    BY <1>0, <1>2 DEF ProcessRaises, GaugesRaise
  <2>3. AckInv'
    BY <1>k, <2>1, <2>2, AckInvKeeps
  <2>. QED BY <1>k, <2>1, <2>3 DEF LossInv
<1>4. CASE Requeue(w, i)
  <2>1. Grows /\ Passed(i)'
    BY <1>4, ResendGrows DEF Requeue
  <2>2. AckInv'
    BY <1>0, <1>4, <1>k, <1>u, <2>1, AckInvKeeps DEF Requeue
  <2>. QED BY <1>k, <2>1, <2>2 DEF LossInv
<1>5. CASE RequeueRaises(w, i)
  <2>1. CASE Resend(i) /\ UNCHANGED refused
    <3>1. Grows /\ Passed(i)'
      BY <1>5, <2>1, ResendGrows DEF RequeueRaises
    <3>2. AckInv'
      BY <1>0, <1>5, <1>k, <1>u, <2>1, <3>1, AckInvKeeps DEF RequeueRaises
    <3>. QED BY <1>k, <3>1, <3>2 DEF LossInv
  <2>2. CASE refused'
    BY <2>2 DEF LossInv, NothingLost, AckInv
  <2>. QED BY <1>5, <2>1, <2>2 DEF RequeueRaises
<1>6. CASE Ack(w, i) \/ AckAndDie(w, i)
  <2>1. /\ Current(w, i) /\ step[w] \in {"ack", "ackAndDie"} /\ Xack(i)
        /\ UNCHANGED <<log, base, cursor, dead, stored, refused>>
    BY <1>6 DEF Ack, AckAndDie
  <2>2. /\ step'[w] \notin {"gauges", "ack", "ackAndDie"}
        /\ \A v \in Workers \ {w} : batch'[v] = batch[v] /\ step'[v] = step[v]
    <3>1. after[w] \in {"read", "depth"}
      BY DEF TypeOK, WorkerTypeOK
    <3>. QED BY <1>0, <1>6, <3>1 DEF Ack, AckAndDie, Abandon
  <2>3. CASE ~refused
    <3>1. NothingLost' /\ \A k \in 1..Len(log) : k > base /\ Passed(k) => Passed(k)'
      BY <2>1, <2>3, XackKeeps
    <3>2. AckInv'
      BY <2>1, <2>2, <3>1, AckInvKeeps
    <3>. QED BY <3>1, <3>2 DEF LossInv
  <2>4. CASE refused
    BY <2>1, <2>4 DEF LossInv, NothingLost, AckInv
  <2>. QED BY <2>3, <2>4
<1>. QED BY <1>1, <1>2, <1>4, <1>5, <1>6 DEF HandleStep

LEMMA LoopStepLoss ==
  ASSUME TypeOK, StreamInv, LossInv, TypeOK', NEW w \in Workers,
         \/ Reclaim(w) \/ Read(w) \/ SetDepth(w) \/ GaugesDone(w) \/ Start(w)
         \/ Stop(w) \/ ReclaimFails(w) \/ AckRaises(w) \/ Crash(w)
  PROVE  LossInv'
<1> USE DEF api, worker, history, bounds, stream, Goto, WorkerTypeOK, Handling
<1>0. /\ Len(log) \in Nat /\ cursor \in Nat /\ base \in Nat
      /\ \A e \in Events : stored[e] \in Nat
      /\ WorkerTypeOK
      /\ base <= cursor /\ cursor <= Len(log)
  <2>1. Len(log) \in Nat /\ cursor \in Nat /\ base \in Nat
    BY DEF TypeOK, StreamTypeOK
  <2>2. \A e \in Events : stored[e] \in Nat
    BY DEF TypeOK, HistoryTypeOK
  <2>3. WorkerTypeOK
    BY DEF TypeOK
  <2>. QED BY <2>1, <2>2, <2>3 DEF StreamInv
<1>1. UNCHANGED <<log, base, dead, stored, refused>>
  BY DEF Reclaim, Read, SetDepth, GaugesDone, Start, Stop, ReclaimFails, AckRaises, Crash
<1>2. ASSUME Read(w) PROVE Grows
  <2> DEFINE from == IF group THEN cursor ELSE base
             to == IF from + Count <= Len(log) THEN from + Count ELSE Len(log)
  <2>1. from = cursor /\ to \in Nat /\ cursor <= to /\ to <= Len(log)
    BY <1>0 DEF StreamInv
  <2>2. cursor' = to /\ pel' = pel \cup ((from + 1)..to)
    BY <1>2 DEF Read
  <2> HIDE DEF from, to
  <2>3. Grows
    BY <1>0, <1>1, <2>1, <2>2 DEF Grows, Live, TypeOK, StreamTypeOK
  <2>. QED BY <2>3
<1>3. ASSUME ~Read(w) PROVE Grows
  <2>1. cursor' = cursor /\ pel' = pel
    BY <1>3 DEF Reclaim, SetDepth, GaugesDone, Start, Stop, ReclaimFails, AckRaises, Crash,
              EnsureGroup, StreamInv
  <2>. QED BY <1>0, <1>1, <2>1, QuietGrows
<1>4. Grows
  BY <1>2, <1>3
<1>5. NothingLost' /\ \A k \in 1..Len(log) : Passed(k) => Passed(k)'
  BY <1>4, GrowsKeeps DEF LossInv
<1>6. /\ \A v \in Workers \ {w} : batch'[v] = batch[v] /\ step'[v] = step[v]
      /\ \/ step'[w] \notin {"gauges", "ack", "ackAndDie"}
         \/ batch'[w] = batch[w] /\ step[w] \in {"gauges", "ack", "ackAndDie"}
  BY <1>0 DEF Reclaim, Read, SetDepth, GaugesDone, Start, Stop, ReclaimFails,
                      AckRaises, Crash, Deliver, Abandon
<1>7. AckInv'
  BY <1>1, <1>5, <1>6, AckInvKeeps
<1>. QED BY <1>5, <1>7 DEF LossInv

LEMMA NextLoss ==
  TypeOK /\ StreamInv /\ LossInv /\ TypeOK' /\ [Next]_vars => LossInv'
<1>. SUFFICES ASSUME TypeOK, StreamInv, LossInv, TypeOK', [Next]_vars PROVE LossInv'
  OBVIOUS
<1> USE DEF stream, api, worker, history, bounds
<1>1. ASSUME UNCHANGED <<log, base, cursor, pel, dead, stored, refused, step, batch>>
      PROVE  LossInv'
  BY <1>1 DEF LossInv, NothingLost, AckInv, Passed, Current, Live, InFlight, Settled, DeadLettered
<1>2. ASSUME NEW i \in pel, Age(i) PROVE LossInv'
  BY <1>1, <1>2 DEF Age
<1>3. CASE Flush
  <2>1. Len(log) \in Nat /\ \A w \in Workers : \A i \in batch[w] : i \in Nat /\ i <= Len(log)
    BY BatchType DEF TypeOK, StreamTypeOK
  <2>2. base' = Len(log) /\ UNCHANGED <<log, batch>>
    BY <1>3 DEF Flush
  <2>. QED BY <2>1, <2>2 DEF LossInv, NothingLost, AckInv
<1>4. CASE UNCHANGED vars
  BY <1>1, <1>4 DEF vars
<1>. QED
  BY <1>2, <1>3, <1>4, ApiStepLoss, HandleStepLoss, LoopStepLoss DEF Next, WorkerStep

(* No event in the stream is lost, for any number of workers and requests,   *)
(* any crashes, failed Redis calls and flushes, as long as no worker's XADD   *)
(* is refused.                                                               *)
THEOREM NoEventLost == Spec => []NothingLost
<1>1. Init => LossInv
  BY DEF Init, LossInv, NothingLost, AckInv
<1>2. QED BY <1>1, InitType, NextType, NextLoss, PTL DEF Spec, LossInv

-----------------------------------------------------------------------------
(* The dead-letter stream holds only events that used up their attempts.     *)

LEMMA RetryHandle ==
  ASSUME TypeOK, StreamInv, RetryInv, TypeOK', NEW w \in Workers, NEW i \in batch[w],
         HandleStep(w, i)
  PROVE  RetryInv'
<1> USE DEF api, worker, history, bounds, stream, Goto, WorkerTypeOK, Handling
<1>0. /\ i \in 1..Len(log) /\ log[i].ev \in Events /\ log[i].retry \in Nat
      /\ WorkerTypeOK /\ failures \in [Events -> Nat]
      /\ Len(log) \in Nat /\ Len(dead) \in Nat
      /\ \A j \in 1..Len(log) : log[j].ev \in Events /\ log[j].retry \in Nat
      /\ \A k \in 1..Len(dead) : dead[k].ev \in Events
  <2>1. i \in 1..Len(log) /\ log[i].ev \in Events /\ log[i].retry \in Nat
    BY BatchType
  <2>2. \A j \in 1..Len(log) : log[j].ev \in Events /\ log[j].retry \in Nat
    BY LogType
  <2>3. \A k \in 1..Len(dead) : dead[k] \in Entry
    BY DEF TypeOK, StreamTypeOK
  <2>4. \A k \in 1..Len(dead) : dead[k].ev \in Events
    BY <2>3 DEF Entry
  <2>5. Len(log) \in Nat /\ Len(dead) \in Nat
    BY DEF TypeOK, StreamTypeOK
  <2>6. WorkerTypeOK /\ failures \in [Events -> Nat]
    BY DEF TypeOK, HistoryTypeOK
  <2>. QED BY <2>1, <2>2, <2>4, <2>5, <2>6
<1>a. \A v \in Workers : \A j \in batch[v] : j \in 1..Len(log)
  BY BatchType
<1>1. CASE ProcessStores(w, i)
  BY <1>0, <1>1 DEF ProcessStores, RetryInv, Current
<1>2. CASE ProcessRaises(w, i) \/ GaugesRaise(w, i)
  <2>1. /\ failures' = [failures EXCEPT ![log[i].ev] = @ + 1]
        /\ UNCHANGED <<log, dead, batch>> /\ Current(w, i)
        /\ step' = [step EXCEPT ![w] = "requeue"]
    BY <1>2 DEF ProcessRaises, GaugesRaise
  <2>2. \A e \in Events : failures'[e] \in Nat /\ failures[e] \in Nat /\ failures'[e] >= failures[e]
    BY <1>0, <2>1
  <2>3. failures'[log[i].ev] > log[i].retry
    BY <1>0, <2>1 DEF RetryInv
  <2>4. \A j \in batch[w] : Current(w, j) => j = i
    BY <1>0, <1>a, <2>1 DEF Current
  <2>5. \A j \in 1..Len(log') : log'[j].retry <= failures'[log'[j].ev]
    BY <1>0, <2>1, <2>2 DEF RetryInv
  <2>6. \A k \in 1..Len(dead') : failures'[dead'[k].ev] >= MaxRetries
    BY <1>0, <2>1, <2>2 DEF RetryInv
  <2>7. ASSUME NEW v \in Workers, NEW j \in batch'[v], Current(v, j)', step'[v] = "requeue"
        PROVE  log'[j].retry < failures'[log'[j].ev]
    <3>1. j \in batch[v] /\ Current(v, j) /\ j \in 1..Len(log)
      BY <1>a, <2>1, <2>7 DEF Current
    <3>2. CASE v = w
      BY <2>1, <2>3, <2>4, <3>1, <3>2
    <3>3. CASE v # w
      BY <1>0, <2>1, <2>2, <2>7, <3>1, <3>3 DEF RetryInv
    <3>. QED BY <3>2, <3>3
  <2>. QED BY <2>5, <2>6, <2>7 DEF RetryInv
<1>3. CASE Requeue(w, i) \/ RequeueRaises(w, i)
  <2>1. /\ Current(w, i) /\ step[w] = "requeue" /\ UNCHANGED <<failures, batch>>
        /\ step'[w] # "requeue" /\ \A v \in Workers \ {w} : step'[v] = step[v]
        /\ Resend(i) \/ UNCHANGED <<log, dead>>
    BY <1>0, <1>3 DEF Requeue, RequeueRaises
  <2>2. log[i].retry + 1 <= failures[log[i].ev]
    BY <1>0, <2>1 DEF RetryInv
  <2>3. /\ Len(log') \in Nat /\ Len(log') >= Len(log)
        /\ \A j \in 1..Len(log) : log'[j] = log[j]
        /\ \A j \in 1..Len(log') : log'[j].retry <= failures[log'[j].ev]
        /\ \A k \in 1..Len(dead') : failures[dead'[k].ev] >= MaxRetries
    <3>1. CASE UNCHANGED <<log, dead>>
      BY <1>0, <3>1 DEF RetryInv
    <3>2. CASE Resend(i) /\ log[i].retry + 1 >= MaxRetries
      <4>1. /\ dead' = Append(dead, [ev |-> log[i].ev, retry |-> log[i].retry + 1])
            /\ UNCHANGED log
        BY <3>2 DEF Resend
      <4>2. /\ Len(dead') = Len(dead) + 1
            /\ \A k \in 1..Len(dead) : dead'[k] = dead[k]
            /\ dead'[Len(dead) + 1] = [ev |-> log[i].ev, retry |-> log[i].retry + 1]
        BY <4>1 DEF TypeOK, StreamTypeOK
      <4>3. ASSUME NEW k \in 1..Len(dead') PROVE failures[dead'[k].ev] >= MaxRetries
        <5>1. CASE k = Len(dead) + 1
          BY <1>0, <2>2, <3>2, <4>2, <5>1
        <5>2. CASE k # Len(dead) + 1
          <6>1. k \in 1..Len(dead)
            BY <1>0, <4>2, <5>2
          <6>. QED BY <4>2, <6>1 DEF RetryInv
        <5>. QED BY <5>1, <5>2
      <4>. QED BY <1>0, <4>1, <4>3 DEF RetryInv
    <3>3. CASE Resend(i) /\ ~(log[i].retry + 1 >= MaxRetries)
      <4>1. Xadd(log[i].ev, log[i].retry + 1) /\ UNCHANGED dead /\ log[i].retry + 1 \in Nat
        BY <1>0, <3>3 DEF Resend
      <4>2. /\ Len(log') = Len(log) + 1
            /\ \A k \in 1..Len(log) : log'[k] = log[k]
            /\ log'[Len(log) + 1] = [ev |-> log[i].ev, retry |-> log[i].retry + 1]
        BY <1>0, <4>1, XaddType
      <4>3. ASSUME NEW j \in 1..Len(log') PROVE log'[j].retry <= failures[log'[j].ev]
        <5>1. CASE j = Len(log) + 1
          BY <2>2, <4>2, <5>1
        <5>2. CASE j # Len(log) + 1
          <6>1. j \in 1..Len(log)
            BY <1>0, <4>2, <5>2
          <6>. QED BY <4>2, <6>1 DEF RetryInv
        <5>. QED BY <5>1, <5>2
      <4>. QED BY <1>0, <4>1, <4>2, <4>3 DEF RetryInv
    <3>. QED BY <2>1, <3>1, <3>2, <3>3
  <2>4. ASSUME NEW v \in Workers, NEW j \in batch'[v], Current(v, j)', step'[v] = "requeue"
        PROVE  log'[j].retry < failures'[log'[j].ev]
    BY <1>a, <2>1, <2>3, <2>4 DEF RetryInv, Current
  <2>. QED BY <2>1, <2>3, <2>4 DEF RetryInv
<1>4. CASE Ack(w, i) \/ AckAndDie(w, i)
  <2>1. /\ UNCHANGED <<log, dead, failures>> /\ step'[w] # "requeue"
        /\ \A v \in Workers \ {w} : batch'[v] = batch[v] /\ step'[v] = step[v]
    <3>1. after[w] \in {"read", "depth"}
      BY <1>0
    <3>. QED BY <1>0, <1>4, <3>1 DEF Ack, AckAndDie, Abandon
  <2>. QED BY <2>1 DEF RetryInv, Current
<1>. QED BY <1>1, <1>2, <1>3, <1>4 DEF HandleStep

(* The other steps handle no message: at most they add a first copy.         *)
LEMMA RetryOther ==
  ASSUME TypeOK, StreamInv, RetryInv, UNCHANGED failures,
         UNCHANGED dead \/ dead' = <<>>,
         \/ UNCHANGED log
         \/ \E e \in Events : Xadd(e, 0),
         \A w \in Workers : step'[w] = "requeue" =>
            step[w] = "requeue" /\ batch'[w] = batch[w]
  PROVE  RetryInv'
<1>0. /\ Len(log) \in Nat /\ failures \in [Events -> Nat] /\ 0 \in Nat
      /\ \A w \in Workers : \A i \in batch[w] : i \in 1..Len(log)
  BY BatchType DEF TypeOK, StreamTypeOK, HistoryTypeOK
<1>1. /\ \A i \in 1..Len(log) : log'[i] = log[i]
      /\ \A i \in 1..Len(log') : log'[i].retry <= failures[log'[i].ev]
  <2>1. CASE UNCHANGED log
    BY <2>1 DEF RetryInv
  <2>2. ASSUME NEW e \in Events, Xadd(e, 0)
        PROVE  /\ \A i \in 1..Len(log) : log'[i] = log[i]
               /\ \A i \in 1..Len(log') : log'[i].retry <= failures[log'[i].ev]
    <3>1. /\ Len(log') = Len(log) + 1
          /\ \A i \in 1..Len(log) : log'[i] = log[i]
          /\ log'[Len(log) + 1] = [ev |-> e, retry |-> 0]
      BY <1>0, <2>2, XaddType
    <3>2. ASSUME NEW i \in 1..Len(log') PROVE log'[i].retry <= failures[log'[i].ev]
      <4>1. CASE i = Len(log) + 1
        BY <1>0, <3>1, <4>1
      <4>2. CASE i # Len(log) + 1
        <5>1. i \in 1..Len(log)
          BY <1>0, <3>1, <4>2
        <5>. QED BY <3>1, <5>1 DEF RetryInv
      <4>. QED BY <4>1, <4>2
    <3>. QED BY <3>1, <3>2
  <2>. QED BY <2>1, <2>2
<1>2. \A k \in 1..Len(dead') : failures[dead'[k].ev] >= MaxRetries
  BY DEF RetryInv
<1>. QED BY <1>0, <1>1, <1>2 DEF RetryInv, Current

LEMMA NextRetry ==
  TypeOK /\ StreamInv /\ RetryInv /\ TypeOK' /\ [Next]_vars => RetryInv'
<1>. SUFFICES ASSUME TypeOK, StreamInv, RetryInv, TypeOK', [Next]_vars PROVE RetryInv'
  OBVIOUS
<1> USE DEF stream, api, worker, history, bounds
<1>1. ASSUME NEW r \in Requests, ApiStep(r) PROVE RetryInv'
  <2>1. req[r] = "xadd" => Body[r][sent[r] + 1] \in Events
    BY NextEvent
  <2>2. UNCHANGED log \/ \E e \in Events : Xadd(e, 0)
    BY <1>1, <2>1 DEF ApiStep, Submit, EnqueueEnsure, EnqueueXadd, EnqueueFails
  <2>3. UNCHANGED <<failures, dead, step, batch>>
    BY <1>1 DEF ApiStep, Submit, EnqueueEnsure, EnqueueXadd, EnqueueFails
  <2>. QED BY <2>2, <2>3, RetryOther
<1>2. ASSUME NEW w \in Workers,
             \/ Reclaim(w) \/ Read(w) \/ SetDepth(w) \/ GaugesDone(w) \/ Start(w)
             \/ Stop(w) \/ ReclaimFails(w) \/ AckRaises(w) \/ Crash(w)
      PROVE  RetryInv'
  <2>1. UNCHANGED <<failures, dead, log>>
    BY <1>2 DEF Reclaim, Read, SetDepth, GaugesDone, Start, Stop, ReclaimFails, AckRaises, Crash
  <2>2. \A v \in Workers : step'[v] = "requeue" => step[v] = "requeue" /\ batch'[v] = batch[v]
    <3>1. step \in [Workers -> {"down", "reclaim", "read", "depth"} \cup Handling]
      BY DEF TypeOK, WorkerTypeOK
    <3>. QED BY <1>2, <3>1 DEF Reclaim, Read, SetDepth, GaugesDone, Start, Stop,
                  ReclaimFails, AckRaises, Crash, Deliver, Abandon, Goto, TypeOK, WorkerTypeOK
  <2>. QED BY <2>1, <2>2, RetryOther
<1>3. ASSUME NEW i \in pel, Age(i) PROVE RetryInv'
  BY <1>3, RetryOther DEF Age
<1>4. CASE Flush
  BY <1>4, RetryOther DEF Flush
<1>5. CASE UNCHANGED vars
  BY <1>5, RetryOther DEF vars
<1>. QED BY <1>1, <1>2, <1>3, <1>4, <1>5, RetryHandle DEF Next, WorkerStep

(* An event is dead-lettered only after MAX_RETRIES failed handlings, for    *)
(* any number of workers, reclaims and repeated deliveries.                  *)
THEOREM DeadLettersUsedUp == Spec => []DeadOnlyAfterMaxRetries
<1>1. Init => RetryInv
  BY DEF Init, RetryInv
<1>2. RetryInv => DeadOnlyAfterMaxRetries
  BY DEF RetryInv, DeadOnlyAfterMaxRetries
<1>3. QED BY <1>1, <1>2, InitType, NextType, NextRetry, PTL DEF Spec

-----------------------------------------------------------------------------
(* The queue implements IngestDelivery.                                      *)

Open == {e \in Events : InFlight(e)}
Done == {e \in Events : Settled(e)}

NoExcuse == ~refused /\ flushes = 0 /\ base = 0

(* A step that neither moves entries in or out of Live nor settles anything. *)
LEMMA MapQuiet ==
  ASSUME UNCHANGED <<log, dead, stored>>, Live' = Live
  PROVE  UNCHANGED <<Open, Done>>
  BY DEF Open, Done, InFlight, Settled, DeadLettered

LEMMA MapXadd ==
  ASSUME TypeOK, StreamInv, NEW e \in Events, NEW n \in Nat, Xadd(e, n),
         UNCHANGED <<dead, stored, cursor, pel>>
  PROVE  Open' = Open \cup {e} /\ UNCHANGED Done
<1>1. /\ Len(log') = Len(log) + 1 /\ Len(log) \in Nat
      /\ \A i \in 1..Len(log) : log'[i] = log[i]
      /\ log'[Len(log) + 1].ev = e
  <2>1. log'[Len(log) + 1] = [ev |-> e, retry |-> n]
    BY XaddType
  <2>. QED BY <2>1, XaddType
<1>2. Live' = Live \cup {Len(log) + 1} /\ Live \subseteq 1..Len(log)
  BY <1>1 DEF Live, TypeOK, StreamTypeOK, StreamInv
<1>3. \A x \in Events : InFlight(x)' <=> InFlight(x) \/ x = e
  BY <1>1, <1>2 DEF InFlight
<1>4. UNCHANGED Done
  BY DEF Done, Settled, DeadLettered
<1>. QED BY <1>3, <1>4 DEF Open

LEMMA MapResend ==
  ASSUME TypeOK, StreamInv, NEW w \in Workers, NEW i \in batch[w], Resend(i),
         UNCHANGED <<stored, cursor, pel>>
  PROVE  \/ Open' = Open \cup {log[i].ev} /\ UNCHANGED Done
         \/ Done' = Done \cup {log[i].ev} /\ UNCHANGED Open
<1>1. log[i].ev \in Events /\ log[i].retry + 1 \in Nat
  BY BatchType
<1>2. CASE log[i].retry + 1 >= MaxRetries
  <2>1. /\ dead' = Append(dead, [ev |-> log[i].ev, retry |-> log[i].retry + 1])
        /\ UNCHANGED log
    BY <1>2 DEF Resend
  <2>2. /\ Len(dead) \in Nat /\ Len(dead') = Len(dead) + 1
        /\ \A k \in 1..Len(dead) : dead'[k] = dead[k]
        /\ dead'[Len(dead) + 1].ev = log[i].ev
    BY <2>1 DEF TypeOK, StreamTypeOK
  <2>3. \A x \in Events : DeadLettered(x)' <=> DeadLettered(x) \/ x = log[i].ev
    <3>1. 1..Len(dead') = (1..Len(dead)) \cup {Len(dead) + 1}
      BY <2>2
    <3>. QED BY <2>2, <3>1 DEF DeadLettered
  <2>4. UNCHANGED Open
    BY <2>1 DEF Open, InFlight, Live
  <2>. QED BY <1>1, <2>3, <2>4 DEF Done, Settled
<1>3. CASE ~(log[i].retry + 1 >= MaxRetries)
  <2>1. Xadd(log[i].ev, log[i].retry + 1) /\ UNCHANGED dead
    BY <1>3 DEF Resend
  <2>. QED BY <1>1, <2>1, MapXadd
<1>. QED BY <1>2, <1>3

LEMMA MapXack ==
  ASSUME TypeOK, StreamInv, LossInv, NoExcuse, NEW w \in Workers, NEW i \in batch[w],
         Current(w, i), step[w] \in {"ack", "ackAndDie"}, Xack(i),
         UNCHANGED <<log, base, cursor, dead, stored, refused>>
  PROVE  \/ UNCHANGED <<Open, Done>>
         \/ log[i].ev \in Done /\ Open' = Open \ {log[i].ev} /\ UNCHANGED Done
<1>1. i \in 1..Len(log) /\ log[i].ev \in Events /\ i > base /\ i <= cursor /\ cursor \in Nat
  BY BatchType DEF NoExcuse, TypeOK, StreamTypeOK, StreamInv
<1>2. Passed(i)
  BY <1>1 DEF LossInv, AckInv, NoExcuse
<1>3. Live' = Live \ {i} /\ Live \subseteq 1..Len(log)
  BY <1>1 DEF Live, Xack
<1>4. UNCHANGED Done
  BY DEF Done, Settled, DeadLettered
<1>5. \A x \in Events : x # log[i].ev => (InFlight(x)' <=> InFlight(x))
  BY <1>3 DEF InFlight
<1>6. CASE InFlight(log[i].ev)' <=> InFlight(log[i].ev)
  BY <1>4, <1>5, <1>6 DEF Open
<1>7. CASE ~InFlight(log[i].ev)' /\ InFlight(log[i].ev)
  <2>1. ~\E j \in Live : j > i /\ log[j].ev = log[i].ev
    BY <1>1, <1>3, <1>7 DEF InFlight
  <2>2. log[i].ev \in Done
    BY <1>1, <1>2, <2>1 DEF Passed, Done
  <2>. QED BY <1>1, <1>4, <1>5, <1>7, <2>2 DEF Open
<1>. QED BY <1>3, <1>6, <1>7 DEF InFlight

LEMMA MapNext ==
  ASSUME TypeOK, StreamInv, LossInv, NoExcuse, Refusable = FALSE, MaxFlushes = 0,
         [Next]_vars
  PROVE  NoExcuse' /\ [Delivery!Next]_(Delivery!vars)
<1> USE DEF stream, api, worker, history, bounds
<1>1. NoExcuse'
  <2>0. flushes = 0 /\ ~(flushes < MaxFlushes)
    BY DEF NoExcuse
  <2>1. ASSUME UNCHANGED <<refused, flushes, base>> PROVE NoExcuse'
    BY <2>1 DEF NoExcuse
  <2>2. ASSUME NEW r \in Requests, ApiStep(r) PROVE NoExcuse'
    BY <2>1, <2>2 DEF ApiStep, Submit, EnqueueEnsure, EnqueueXadd, EnqueueFails
  <2>3. ASSUME NEW w \in Workers, NEW i \in batch[w], HandleStep(w, i) PROVE NoExcuse'
    <3>1. CASE ProcessStores(w, i) \/ ProcessRaises(w, i) \/ GaugesRaise(w, i) \/ Requeue(w, i)
      BY <2>1, <3>1 DEF ProcessStores, ProcessRaises, GaugesRaise, Requeue
    <3>2. CASE RequeueRaises(w, i)
      BY <2>1, <3>2 DEF RequeueRaises
    <3>3. CASE Ack(w, i) \/ AckAndDie(w, i)
      BY <2>1, <3>3 DEF Ack, AckAndDie
    <3>. QED BY <2>3, <3>1, <3>2, <3>3 DEF HandleStep
  <2>4. ASSUME NEW w \in Workers,
               \/ Reclaim(w) \/ Read(w) \/ SetDepth(w) \/ GaugesDone(w) \/ Start(w)
               \/ Stop(w) \/ ReclaimFails(w) \/ AckRaises(w) \/ Crash(w)
        PROVE  NoExcuse'
    BY <2>1, <2>4 DEF Reclaim, Read, SetDepth, GaugesDone, Start, Stop, ReclaimFails,
                      AckRaises, Crash
  <2>5. ASSUME NEW i \in pel, Age(i) PROVE NoExcuse'
    BY <2>1, <2>5 DEF Age
  <2>6. CASE UNCHANGED vars
    BY <2>1, <2>6 DEF vars
  <2>. QED BY <2>0, <2>2, <2>3, <2>4, <2>5, <2>6 DEF Next, WorkerStep, Flush
<1>2. SUFFICES \/ UNCHANGED <<Open, Done>>
               \/ \E e \in Events :
                    \/ Open' = Open \cup {e} /\ UNCHANGED Done
                    \/ Done' = Done \cup {e} /\ UNCHANGED Open
                    \/ e \in Done /\ Open' = Open \ {e} /\ UNCHANGED Done
  BY <1>1 DEF Delivery!Next, Delivery!vars, Delivery!Take, Delivery!Settle, Delivery!Close,
              Open, Done
<1>3. ASSUME NEW r \in Requests, ApiStep(r)
      PROVE  UNCHANGED <<Open, Done>> \/ \E e \in Events : Open' = Open \cup {e} /\ UNCHANGED Done
  <2>1. UNCHANGED <<dead, stored, cursor, pel>>
    BY <1>3 DEF ApiStep, Submit, EnqueueEnsure, EnqueueXadd, EnqueueFails, EnsureGroup, StreamInv
  <2>2. CASE UNCHANGED log
    BY <2>1, <2>2, MapQuiet DEF Live
  <2>3. ASSUME req[r] = "xadd", Xadd(Body[r][sent[r] + 1], 0)
        PROVE  \E e \in Events : Open' = Open \cup {e} /\ UNCHANGED Done
    <3>1. Body[r][sent[r] + 1] \in Events /\ 0 \in Nat
      BY <2>3, NextEvent
    <3>. QED BY <2>1, <2>3, <3>1, MapXadd
  <2>. QED BY <1>3, <2>2, <2>3 DEF ApiStep, Submit, EnqueueEnsure, EnqueueXadd, EnqueueFails
<1>4. ASSUME NEW w \in Workers, NEW i \in batch[w], HandleStep(w, i)
      PROVE  \/ UNCHANGED <<Open, Done>>
             \/ \E e \in Events :
                  \/ Open' = Open \cup {e} /\ UNCHANGED Done
                  \/ Done' = Done \cup {e} /\ UNCHANGED Open
                  \/ e \in Done /\ Open' = Open \ {e} /\ UNCHANGED Done
  <2>0. log[i].ev \in Events
    BY BatchType
  <2>1. CASE ProcessStores(w, i)
    <3>1. stored' = [stored EXCEPT ![log[i].ev] = @ + 1] /\ stored \in [Events -> Nat]
      BY <2>1 DEF ProcessStores, TypeOK, HistoryTypeOK
    <3>2. \A x \in Events : stored'[x] > 0 <=> stored[x] > 0 \/ x = log[i].ev
      BY <2>0, <3>1
    <3>3. UNCHANGED <<log, dead, Live>>
      BY <2>1 DEF ProcessStores, Live
    <3>4. Done' = Done \cup {log[i].ev} /\ UNCHANGED Open
      BY <2>0, <3>2, <3>3 DEF Done, Open, Settled, DeadLettered, InFlight
    <3>. QED BY <2>0, <3>4
  <2>2. CASE ProcessRaises(w, i) \/ GaugesRaise(w, i)
    BY <2>2, MapQuiet DEF ProcessRaises, GaugesRaise, Live
  <2>3. CASE Requeue(w, i) \/ RequeueRaises(w, i)
    <3>1. Resend(i) /\ UNCHANGED <<stored, cursor, pel>>
      BY <2>3 DEF Requeue, RequeueRaises
    <3>. QED BY <2>0, <3>1, MapResend
  <2>4. CASE Ack(w, i) \/ AckAndDie(w, i)
    <3>1. /\ Current(w, i) /\ step[w] \in {"ack", "ackAndDie"} /\ Xack(i)
          /\ UNCHANGED <<log, base, cursor, dead, stored, refused>>
      BY <2>4 DEF Ack, AckAndDie
    <3>. QED BY <2>0, <3>1, MapXack
  <2>. QED BY <1>4, <2>1, <2>2, <2>3, <2>4 DEF HandleStep
<1>5. ASSUME NEW w \in Workers, Read(w) PROVE UNCHANGED <<Open, Done>>
  <2> DEFINE to == IF cursor + Count <= Len(log) THEN cursor + Count ELSE Len(log)
  <2>1. /\ cursor' = to /\ pel' = pel \cup ((cursor + 1)..to)
        /\ UNCHANGED <<log, dead, stored>>
    BY <1>5 DEF Read, StreamInv
  <2>2. cursor \in Nat /\ to \in Nat /\ cursor <= to /\ to <= Len(log) /\ pel \subseteq 1..cursor
    BY DEF TypeOK, StreamTypeOK, StreamInv
  <2> HIDE DEF to
  <2>3. Live' = Live
    BY <2>1, <2>2 DEF Live
  <2>. QED BY <2>1, <2>3, MapQuiet
<1>6. ASSUME NEW w \in Workers,
             \/ Reclaim(w) \/ SetDepth(w) \/ GaugesDone(w) \/ Start(w)
             \/ Stop(w) \/ ReclaimFails(w) \/ AckRaises(w) \/ Crash(w)
      PROVE  UNCHANGED <<Open, Done>>
  <2>1. UNCHANGED <<log, dead, stored, pel, cursor>>
    BY <1>6 DEF Reclaim, SetDepth, GaugesDone, Start, Stop, ReclaimFails, AckRaises, Crash,
                EnsureGroup, StreamInv
  <2>. QED BY <2>1, MapQuiet DEF Live
<1>7. ASSUME NEW i \in pel, Age(i) PROVE UNCHANGED <<Open, Done>>
  BY <1>7, MapQuiet DEF Age, Live
<1>8. CASE Flush
  BY <1>8 DEF Flush, NoExcuse
<1>9. CASE UNCHANGED vars
  BY <1>9, MapQuiet DEF vars, Live
<1>. QED BY <1>3, <1>4, <1>5, <1>6, <1>7, <1>8, <1>9 DEF Next, WorkerStep

(* When Redis neither refuses a worker's XADD nor loses its data, the queue   *)
(* is an at-least-once queue: it implements IngestDelivery.                   *)
THEOREM ImplementsDelivery ==
  ASSUME Refusable = FALSE, MaxFlushes = 0
  PROVE  Spec => Refines
<1>1. Init => LossInv /\ NoExcuse /\ Delivery!Init
  BY DEF Init, LossInv, NothingLost, AckInv, NoExcuse, Delivery!Init, InFlight, Live, Settled,
         DeadLettered
<1>2. TypeOK /\ StreamInv /\ LossInv /\ NoExcuse /\ [Next]_vars
      => NoExcuse' /\ [Delivery!Next]_(Delivery!vars)
  BY MapNext
<1>. QED BY <1>1, <1>2, InitType, NextType, NextLoss, PTL DEF Spec, Refines, Delivery!Spec

-----------------------------------------------------------------------------
(* A submission is settled at most once                                    *)

(* Each event is in the bodies of the ingest calls once. *)
OneSubmission ==
  \A r, q \in Requests : \A m \in 1..Len(Body[r]), n \in 1..Len(Body[q]) :
    Body[r][m] = Body[q][n] => r = q /\ m = n

(* Entry i is still to be handled: not yet delivered, or in the hands of a   *)
(* worker that has not come to its acknowledgement.                         *)
Unhandled(i) ==
  \/ i > cursor
  \/ \E w \in Workers : i \in batch[w] /\ ~(Current(w, i) /\ step[w] \in {"ack", "ackAndDie"})

At(i, s) == \E w \in Workers : i \in batch[w] /\ Current(w, i) /\ step[w] = s

ToCome(e) == \E r \in Requests : \E n \in (sent[r] + 1)..Len(Body[r]) : Body[r][n] = e

(* While nothing unusual has happened no request is repeated, every pending  *)
(* entry is in the hands of one worker and no worker holds another's.        *)
CalmInv ==
  /\ \A r \in Requests : req[r] # "error" /\ (req[r] = "idle" => sent[r] = 0)
  /\ stale = {} /\ \A i \in pel : \E w \in Workers : i \in batch[w]
  /\ \A w, v \in Workers : \A i \in batch[w] : i \in batch[v] => w = v
  /\ \A w \in Workers : /\ step[w] # "ackAndDie"
                        /\ step[w] \notin Handling => batch[w] = {}

(* The story of one event: first it is to come, then one unhandled entry     *)
(* carries it and its failures, then it is stored or dead and has no copy.   *)
Carried(e, i) ==
  /\ ~ToCome(e) /\ ~DeadLettered(e)
  /\ log[i].retry < MaxRetries
  /\ failures[e] = log[i].retry + (IF At(i, "requeue") THEN 1 ELSE 0)
  /\ ~late => stored[e] = IF At(i, "gauges") THEN 1 ELSE 0

Story(e) ==
  /\ \A i, j \in 1..Len(log) : Unhandled(i) /\ Unhandled(j) /\ log[i].ev = e /\ log[j].ev = e => i = j
  /\ \A i \in 1..Len(log) : Unhandled(i) /\ log[i].ev = e => Carried(e, i)
  /\ ToCome(e) => failures[e] = 0 /\ stored[e] = 0 /\ ~DeadLettered(e)
  /\ failures[e] <= MaxRetries
  /\ ~late => stored[e] <= 1 /\ (stored[e] = 1 => ~DeadLettered(e))
  /\ \A k, l \in 1..Len(dead) : dead[k].ev = e /\ dead[l].ev = e => k = l

SettleInv == Undisturbed => CalmInv /\ \A e \in Events : Story(e)

LEMMA InitSettle ==
  ASSUME OneSubmission, Init
  PROVE  SettleInv
<1>1. CalmInv
  BY DEF Init, CalmInv
<1>2. Len(log) = 0 /\ Len(dead) = 0
  BY DEF Init
<1>3. \A e \in Events : Story(e)
  BY <1>2 DEF Init, Story, DeadLettered
<1>. QED BY <1>1, <1>3 DEF SettleInv

(* What an undisturbed step is not. *)
LEMMA UndisturbedStep ==
  ASSUME TypeOK, [Next]_vars, Undisturbed'
  PROVE  Undisturbed
<1>. USE DEF stream, api, worker, history, bounds, TypeOK, HistoryTypeOK, Undisturbed, RedisFault
<1>1. ASSUME NEW r \in Requests, ApiStep(r) PROVE Undisturbed
  BY <1>1 DEF ApiStep, Submit, EnqueueEnsure, EnqueueXadd, EnqueueFails
<1>2. ASSUME NEW w \in Workers, NEW i \in batch[w], HandleStep(w, i) PROVE Undisturbed
  BY <1>2 DEF HandleStep, ProcessStores, ProcessRaises, GaugesRaise, Requeue, RequeueRaises,
              Ack, AckAndDie
<1>3. ASSUME NEW w \in Workers,
             \/ Reclaim(w) \/ Read(w) \/ SetDepth(w) \/ GaugesDone(w) \/ Start(w)
             \/ Stop(w) \/ ReclaimFails(w) \/ AckRaises(w) \/ Crash(w)
      PROVE  Undisturbed
  BY <1>3 DEF Reclaim, Read, SetDepth, GaugesDone, Start, Stop, ReclaimFails, AckRaises, Crash
<1>4. ASSUME NEW i \in pel, Age(i) PROVE Undisturbed
  BY <1>4 DEF Age
<1>5. CASE Flush
  BY <1>5 DEF Flush
<1>6. CASE UNCHANGED vars
  BY <1>6 DEF vars
<1>. QED BY <1>1, <1>2, <1>3, <1>4, <1>5, <1>6 DEF Next, WorkerStep

(* A step that touches nothing of an event's story but to finish an entry. *)
LEMMA StoryFrame ==
  ASSUME NEW e, Story(e),
         \A j \in 1..Len(log') : Unhandled(j)' /\ log'[j].ev = e =>
           /\ j \in 1..Len(log) /\ log'[j] = log[j] /\ Unhandled(j)
           /\ At(j, "requeue")' <=> At(j, "requeue")
           /\ At(j, "gauges")' <=> At(j, "gauges"),
         ToCome(e)' => ToCome(e),
         failures'[e] = failures[e], stored'[e] = stored[e], late => late',
         \A k \in 1..Len(dead') : dead'[k].ev = e => k \in 1..Len(dead) /\ dead'[k] = dead[k]
  PROVE  Story(e)'
<1>1. DeadLettered(e)' => DeadLettered(e)
  BY DEF DeadLettered
<1>2. ASSUME NEW i \in 1..Len(log'), Unhandled(i)', log'[i].ev = e PROVE Carried(e, i)'
  <2>1. /\ i \in 1..Len(log) /\ log'[i] = log[i] /\ Unhandled(i)
        /\ At(i, "requeue")' <=> At(i, "requeue")
        /\ At(i, "gauges")' <=> At(i, "gauges")
    BY <1>2
  <2>2. Carried(e, i)
    BY <1>2, <2>1 DEF Story
  <2>. QED BY <1>1, <2>1, <2>2 DEF Carried
<1>3. \A i, j \in 1..Len(log') :
        Unhandled(i)' /\ Unhandled(j)' /\ log'[i].ev = e /\ log'[j].ev = e => i = j
  BY DEF Story
<1>4. \A k, l \in 1..Len(dead') : dead'[k].ev = e /\ dead'[l].ev = e => k = l
  BY DEF Story
<1>5. /\ ToCome(e)' => failures'[e] = 0 /\ stored'[e] = 0 /\ ~DeadLettered(e)'
      /\ failures'[e] <= MaxRetries
      /\ ~late' => stored'[e] <= 1 /\ (stored'[e] = 1 => ~DeadLettered(e)')
  BY <1>1 DEF Story
<1>. QED BY <1>2, <1>3, <1>4, <1>5 DEF Story

LEMMA StoriesKept ==
  ASSUME TypeOK, \A e \in Events : Story(e),
         UNCHANGED <<log, sent, failures, stored, late>>, dead' = dead \/ Len(dead') = 0,
         \A j \in 1..Len(log) : Unhandled(j)' =>
           /\ Unhandled(j)
           /\ At(j, "requeue")' <=> At(j, "requeue")
           /\ At(j, "gauges")' <=> At(j, "gauges")
  PROVE  \A e \in Events : Story(e)'
<1>. SUFFICES ASSUME NEW e \in Events PROVE Story(e)'
  OBVIOUS
<1>1. Story(e) /\ (ToCome(e)' => ToCome(e))
  BY DEF ToCome
<1>2. \A k \in 1..Len(dead') : dead'[k].ev = e => k \in 1..Len(dead) /\ dead'[k] = dead[k]
  OBVIOUS
<1>3. \A j \in 1..Len(log') : Unhandled(j)' /\ log'[j].ev = e =>
        /\ j \in 1..Len(log) /\ log'[j] = log[j] /\ Unhandled(j)
        /\ At(j, "requeue")' <=> At(j, "requeue")
        /\ At(j, "gauges")' <=> At(j, "gauges")
  OBVIOUS
<1>. QED BY <1>1, <1>2, <1>3, StoryFrame

(* The message a worker is busy with, as its handling moves on. *)
LEMMA HandlingMoves ==
  ASSUME TypeOK, StreamInv, CalmInv, NEW w \in Workers, NEW i \in batch[w], Current(w, i),
         step[w] \in {"process", "gauges", "requeue"}, NEW s \in Handling \ {"ackAndDie"},
         step' = [step EXCEPT ![w] = s], UNCHANGED <<cursor, batch>>
  PROVE  /\ Unhandled(i) /\ (Unhandled(i)' <=> s # "ack")
         /\ \A t \in Handling : At(i, t) <=> step[w] = t
         /\ \A t \in Handling : At(i, t)' <=> s = t
         /\ \A j \in Nat \ {i} : Unhandled(j)' <=> Unhandled(j)
         /\ \A j \in Nat \ {i}, t \in Handling : At(j, t)' <=> At(j, t)
<1>1. /\ step'[w] = s /\ \A v \in Workers \ {w} : step'[v] = step[v]
      /\ \A v \in Workers, j \in Nat : Current(v, j)' <=> Current(v, j)
  BY DEF TypeOK, WorkerTypeOK, Current
<1>2. \A v \in Workers : i \in batch[v] => v = w
  BY DEF CalmInv
<1>3. i \in Nat /\ ~(i > cursor)
  BY BatchType DEF StreamInv, TypeOK, StreamTypeOK
<1>4. \A j \in Nat \ {i} : ~Current(w, j)
  BY <1>3 DEF Current
<1>5. Unhandled(i) /\ (Unhandled(i)' <=> s # "ack")
  BY <1>1, <1>2, <1>3 DEF Unhandled, Handling
<1>6. \A t \in Handling : (At(i, t) <=> step[w] = t) /\ (At(i, t)' <=> s = t)
  BY <1>1, <1>2, <1>3 DEF At
<1>7. \A j \in Nat \ {i} : Unhandled(j)' <=> Unhandled(j)
  BY <1>1, <1>4 DEF Unhandled
<1>8. \A j \in Nat \ {i}, t \in Handling : At(j, t)' <=> At(j, t)
  BY <1>1, <1>4 DEF At
<1>. QED BY <1>5, <1>6, <1>7, <1>8

(* A step of a worker with nothing in its hands, or of nobody. *)
LEMMA NobodyMoves ==
  ASSUME TypeOK, StreamInv, CalmInv, UNCHANGED <<cursor, batch>>,
         \A v \in Workers : step'[v] = step[v] \/ batch[v] = {}
  PROVE  \A j \in Nat : /\ Unhandled(j)' <=> Unhandled(j)
                        /\ \A t \in Handling : At(j, t)' <=> At(j, t)
<1>1. \A v \in Workers, j \in Nat : Current(v, j)' <=> Current(v, j)
  BY DEF Current
<1>. QED BY <1>1 DEF Unhandled, At

LEMMA HandleCalm ==
  ASSUME TypeOK, StreamInv, CalmInv, NEW w \in Workers, NEW i \in batch[w],
         HandleStep(w, i), ~RequeueRaises(w, i)
  PROVE  CalmInv'
<1>. USE DEF stream, api, worker, history, bounds, Goto, TypeOK, WorkerTypeOK
<1>1. CASE ProcessStores(w, i) \/ ProcessRaises(w, i) \/ GaugesRaise(w, i) \/ Requeue(w, i)
  <2>1. /\ UNCHANGED <<req, sent, pel, stale, batch>>
        /\ \E s \in Handling \ {"ackAndDie"} : step' = [step EXCEPT ![w] = s]
    BY <1>1 DEF ProcessStores, ProcessRaises, GaugesRaise, Requeue, Handling
  <2>. QED BY <2>1 DEF CalmInv
<1>2. CASE Ack(w, i)
  <2>1. /\ UNCHANGED <<req, sent>> /\ pel' = pel \ {i} /\ stale' = stale \ {i}
        /\ batch' = [batch EXCEPT ![w] = @ \ {i}]
    BY <1>2 DEF Ack, Xack
  <2>2. /\ \A v \in Workers \ {w} : step'[v] = step[v]
        /\ batch[w] = {i} => step'[w] = after[w]
        /\ batch[w] # {i} => step'[w] = "process"
    BY <1>2 DEF Ack
  <2>3. after[w] # "ackAndDie"
    OBVIOUS
  <2>4. \A v \in Workers : batch'[v] \subseteq batch[v] /\ batch[v] \ {i} \subseteq batch'[v]
    BY <2>1
  <2>5. batch[w] = {i} => batch'[w] = {}
    BY <2>1
  <2>6. stale' = {} /\ \A j \in pel' : \E v \in Workers : j \in batch'[v]
    BY <2>1, <2>4 DEF CalmInv
  <2>7. \A v, u \in Workers : \A j \in batch'[v] : j \in batch'[u] => v = u
    BY <2>4 DEF CalmInv
  <2>8. \A v \in Workers : /\ step'[v] # "ackAndDie"
                           /\ step'[v] \notin Handling => batch'[v] = {}
    <3>1. "process" \in Handling /\ "process" # "ackAndDie"
      BY DEF Handling
    <3>. QED BY <2>2, <2>3, <2>4, <2>5, <3>1 DEF CalmInv
  <2>. QED BY <2>1, <2>6, <2>7, <2>8 DEF CalmInv
<1>3. CASE AckAndDie(w, i)
  BY <1>3 DEF AckAndDie, CalmInv
<1>. QED BY <1>1, <1>2, <1>3 DEF HandleStep

(* The other events while w handles entry i. *)
LEMMA OtherStories ==
  ASSUME TypeOK, StreamInv, CalmInv, NEW w \in Workers, NEW i \in batch[w], Current(w, i),
         step[w] \in {"process", "gauges", "requeue"}, NEW s \in Handling \ {"ackAndDie"},
         step' = [step EXCEPT ![w] = s],
         UNCHANGED <<cursor, batch, sent>>, late => late',
         Len(log') \in Nat, \A j \in 1..Len(log) : log'[j] = log[j],
         \A j \in 1..Len(log') : j \notin 1..Len(log) => log'[j].ev = log[i].ev,
         \A k \in 1..Len(dead') : \/ k \in 1..Len(dead) /\ dead'[k] = dead[k]
                                  \/ dead'[k].ev = log[i].ev,
         NEW e \in Events, e # log[i].ev, Story(e),
         failures'[e] = failures[e], stored'[e] = stored[e]
  PROVE  Story(e)'
<1>1. ASSUME NEW j \in 1..Len(log'), Unhandled(j)', log'[j].ev = e
      PROVE  /\ j \in 1..Len(log) /\ log'[j] = log[j] /\ Unhandled(j)
             /\ At(j, "requeue")' <=> At(j, "requeue")
             /\ At(j, "gauges")' <=> At(j, "gauges")
  <2>1. j \in 1..Len(log) /\ log'[j] = log[j] /\ j # i /\ j \in Nat
    BY <1>1
  <2>2. "requeue" \in Handling /\ "gauges" \in Handling
    BY DEF Handling
  <2>. QED BY <1>1, <2>1, <2>2, HandlingMoves
<1>2. ToCome(e)' => ToCome(e)
  BY DEF ToCome
<1>. QED BY <1>1, <1>2, StoryFrame

(* What is known of the event in hand. *)
LEMMA InHand ==
  ASSUME TypeOK, StreamInv, NEW i \in 1..Len(log), Unhandled(i), Story(log[i].ev)
  PROVE  /\ Carried(log[i].ev, i)
         /\ \A j \in 1..Len(log) : Unhandled(j) /\ log[j].ev = log[i].ev => j = i
  BY DEF Story

LEMMA HandleStory ==
  ASSUME TypeOK, StreamInv, CalmInv, TypeOK', \A e \in Events : Story(e),
         NEW w \in Workers, NEW i \in batch[w], HandleStep(w, i), ~RequeueRaises(w, i)
  PROVE  \A e \in Events : Story(e)'
<1>. USE DEF stream, api, worker, history, bounds, Goto
<1>. PICK ev \in Events : ev = log[i].ev
  BY BatchType
<1>0. /\ i \in 1..Len(log) /\ i \in Nat /\ log[i].retry \in Nat
      /\ Len(log) \in Nat /\ Len(dead) \in Nat /\ cursor \in Nat
      /\ failures \in [Events -> Nat] /\ stored \in [Events -> Nat]
      /\ {"process", "gauges", "requeue", "ack"} \subseteq Handling \ {"ackAndDie"}
  <2>1. i \in 1..Len(log) /\ i \in Nat /\ log[i].retry \in Nat
    BY BatchType
  <2>2. Len(log) \in Nat /\ Len(dead) \in Nat /\ cursor \in Nat
    BY DEF TypeOK, StreamTypeOK
  <2>3. failures \in [Events -> Nat] /\ stored \in [Events -> Nat]
    BY DEF TypeOK, HistoryTypeOK
  <2>4. {"process", "gauges", "requeue", "ack"} \subseteq Handling \ {"ackAndDie"}
    BY DEF Handling
  <2>. QED BY <2>1, <2>2, <2>3, <2>4
<1>a. ASSUME NEW s \in {"gauges", "requeue"},
             Current(w, i), step[w] \in {"process", "gauges", "requeue"},
             step' = [step EXCEPT ![w] = s],
             UNCHANGED <<log, dead, cursor, batch, sent>>, late => late',
             \A e \in Events \ {ev} : failures'[e] = failures[e] /\ stored'[e] = stored[e],
             failures'[ev] = log[i].retry + (IF s = "requeue" THEN 1 ELSE 0),
             ~late' => stored'[ev] = IF s = "gauges" THEN 1 ELSE 0
      PROVE  \A e \in Events : Story(e)'
  <2>1. /\ Unhandled(i) /\ (At(i, "requeue")' <=> s = "requeue") /\ (At(i, "gauges")' <=> s = "gauges")
        /\ \A j \in Nat \ {i} : Unhandled(j)' <=> Unhandled(j)
    <3>1. s \in Handling \ {"ackAndDie"} /\ s # "ack" /\ "requeue" \in Handling /\ "gauges" \in Handling
      BY <1>0, <1>a
    <3>2. UNCHANGED <<cursor, batch>>
      BY <1>a
    <3>. QED BY <1>0, <1>a, <3>1, <3>2, HandlingMoves
  <2>2. Carried(ev, i) /\ \A j \in 1..Len(log) : Unhandled(j) /\ log[j].ev = ev => j = i
    BY <1>0, <2>1, InHand
  <2>3. \A j \in 1..Len(log') : Unhandled(j)' /\ log'[j].ev = ev => j = i
    BY <1>a, <2>1, <2>2
  <2>4. ~ToCome(ev)' /\ ~DeadLettered(ev)'
    BY <1>a, <2>2 DEF Carried, ToCome, DeadLettered
  <2>5. Carried(ev, i)'
    BY <1>a, <2>1, <2>2, <2>4 DEF Carried
  <2>6. failures'[ev] <= MaxRetries /\ (~late' => stored'[ev] <= 1)
    BY <1>0, <1>a, <2>2 DEF Carried
  <2>7. \A k, l \in 1..Len(dead') : dead'[k].ev = ev /\ dead'[l].ev = ev => k = l
    BY <1>a, <2>4 DEF DeadLettered
  <2>8. Story(ev)'
    BY <1>a, <2>3, <2>4, <2>5, <2>6, <2>7 DEF Story
  <2>9. ASSUME NEW e \in Events, e # ev PROVE Story(e)'
    BY <1>0, <1>a, <2>9, OtherStories
  <2>. QED BY <2>8, <2>9
<1>b. ASSUME Current(w, i), step[w] \in {"process", "gauges", "requeue"}
      PROVE  /\ failures[ev] = log[i].retry + (IF step[w] = "requeue" THEN 1 ELSE 0)
             /\ ~late => stored[ev] = IF step[w] = "gauges" THEN 1 ELSE 0
  <2>1. /\ Unhandled(i)
        /\ At(i, "requeue") <=> step[w] = "requeue"
        /\ At(i, "gauges") <=> step[w] = "gauges"
    <3>1. "requeue" \in Handling /\ "gauges" \in Handling /\ \A v \in Workers : i \in batch[v] => v = w
      BY <1>0 DEF CalmInv
    <3>. QED BY <1>b, <3>1 DEF Unhandled, At
  <2>. QED BY <1>0, <2>1, InHand DEF Carried
<1>1. CASE ProcessStores(w, i)
  <2>1. /\ Current(w, i) /\ step[w] = "process" /\ step' = [step EXCEPT ![w] = "gauges"]
        /\ UNCHANGED <<log, dead, cursor, batch, sent, failures, late>>
        /\ stored' = [stored EXCEPT ![ev] = @ + 1]
    BY <1>1 DEF ProcessStores
  <2>2. /\ stored'[ev] = stored[ev] + 1
        /\ \A e \in Events \ {ev} : stored'[e] = stored[e]
    BY <1>0, <2>1
  <2>3. failures[ev] = log[i].retry /\ (~late => stored[ev] = 0)
    BY <1>0, <1>b, <2>1
  <2>. QED BY <1>0, <1>a, <2>1, <2>2, <2>3
<1>2. CASE ProcessRaises(w, i)
  <2>1. /\ Current(w, i) /\ step[w] = "process" /\ step' = [step EXCEPT ![w] = "requeue"]
        /\ UNCHANGED <<log, dead, cursor, batch, sent, stored, late>>
        /\ failures' = [failures EXCEPT ![ev] = @ + 1]
    BY <1>2 DEF ProcessRaises
  <2>2. /\ failures'[ev] = failures[ev] + 1
        /\ \A e \in Events \ {ev} : failures'[e] = failures[e]
    BY <1>0, <2>1
  <2>3. failures[ev] = log[i].retry /\ (~late => stored[ev] = 0)
    BY <1>0, <1>b, <2>1
  <2>. QED BY <1>0, <1>a, <2>1, <2>2, <2>3
<1>3. CASE GaugesRaise(w, i)
  <2>1. /\ Current(w, i) /\ step[w] = "gauges" /\ step' = [step EXCEPT ![w] = "requeue"]
        /\ UNCHANGED <<log, dead, cursor, batch, sent, stored>> /\ late' = TRUE
        /\ failures' = [failures EXCEPT ![ev] = @ + 1]
    BY <1>3 DEF GaugesRaise
  <2>2. /\ failures'[ev] = failures[ev] + 1
        /\ \A e \in Events \ {ev} : failures'[e] = failures[e]
    BY <1>0, <2>1
  <2>3. failures[ev] = log[i].retry
    BY <1>0, <1>b, <2>1
  <2>. QED BY <1>0, <1>a, <2>1, <2>2, <2>3
<1>4. CASE Requeue(w, i)
  <2>. DEFINE n == log[i].retry + 1
  <2>1. /\ Current(w, i) /\ step[w] = "requeue" /\ step' = [step EXCEPT ![w] = "ack"]
        /\ UNCHANGED <<cursor, batch, sent, stored, failures, late>> /\ Resend(i)
    BY <1>4 DEF Requeue
  <2>2. /\ Unhandled(i) /\ ~Unhandled(i)' /\ \A j \in Nat \ {i} : Unhandled(j)' <=> Unhandled(j)
    BY <1>0, <2>1, HandlingMoves
  <2>3. Carried(ev, i) /\ \A j \in 1..Len(log) : Unhandled(j) /\ log[j].ev = ev => j = i
    BY <1>0, <2>2, InHand
  <2>4. ~ToCome(ev)'
    BY <2>1, <2>3 DEF Carried, ToCome
  <2>5. failures[ev] = n /\ n <= MaxRetries /\ (~late => stored[ev] = 0) /\ ~DeadLettered(ev)
    BY <1>0, <1>b, <2>1, <2>3 DEF Carried
  <2>6. CASE n >= MaxRetries
    <3>1. dead' = Append(dead, [ev |-> ev, retry |-> n]) /\ UNCHANGED log
      BY <2>1, <2>6 DEF Resend
    <3>2. /\ Len(dead') = Len(dead) + 1
          /\ \A k \in 1..Len(dead) : dead'[k] = dead[k]
          /\ dead'[Len(dead) + 1].ev = ev
      BY <3>1 DEF TypeOK, StreamTypeOK
    <3>3. \A k \in 1..Len(dead') : \/ k \in 1..Len(dead) /\ dead'[k] = dead[k]
                                   \/ k = Len(dead) + 1 /\ dead'[k].ev = ev
      BY <1>0, <3>2
    <3>4. \A k, l \in 1..Len(dead') : dead'[k].ev = ev /\ dead'[l].ev = ev => k = l
      BY <2>5, <3>3 DEF DeadLettered
    <3>5. \A j \in 1..Len(log') : ~(Unhandled(j)' /\ log'[j].ev = ev)
      BY <1>0, <2>2, <2>3, <3>1
    <3>6. Story(ev)'
      BY <2>1, <2>4, <2>5, <3>4, <3>5 DEF Story
    <3>7. ASSUME NEW e \in Events, e # ev PROVE Story(e)'
      BY <1>0, <2>1, <3>1, <3>3, <3>7, OtherStories
    <3>. QED BY <3>6, <3>7
  <2>7. CASE ~(n >= MaxRetries)
    <3>. PICK m \in Nat : m = Len(log) + 1
      BY <1>0
    <3>1. Xadd(ev, n) /\ UNCHANGED dead /\ n \in Nat
      BY <1>0, <2>1, <2>7 DEF Resend
    <3>2. /\ Len(log') = Len(log) + 1
          /\ \A k \in 1..Len(log) : log'[k] = log[k]
          /\ log'[m] = [ev |-> ev, retry |-> n]
      BY <1>0, <3>1, XaddType
    <3>3. \A j \in 1..Len(log') : j \in 1..Len(log) \/ j = m
      BY <1>0, <3>2
    <3>4. ASSUME NEW j \in 1..Len(log'), Unhandled(j)', log'[j].ev = ev PROVE j = m
      <4>1. CASE j \in 1..Len(log)
        <5>1. log[j].ev = ev /\ j \in Nat
          BY <3>2, <3>4, <4>1
        <5>2. j # i
          BY <2>2, <3>4
        <5>3. Unhandled(j)
          BY <2>2, <3>4, <5>1, <5>2
        <5>. QED BY <2>3, <4>1, <5>1, <5>2, <5>3
      <4>. QED BY <3>3, <4>1
    <3>5. \A t : ~At(m, t)'
      <4>1. \A v \in Workers : m \notin batch[v]
        BY <1>0 DEF StreamInv
      <4>. QED BY <2>1, <4>1 DEF At
    <3>6. ~DeadLettered(ev)'
      BY <2>5, <3>1 DEF DeadLettered
    <3>7. Carried(ev, m)'
      <4>1. log'[m].retry = n /\ n < MaxRetries /\ n \in Nat
        BY <1>0, <2>7, <3>2
      <4>2. failures'[ev] = n /\ (~late' => stored'[ev] = 0)
        BY <2>1, <2>5
      <4>. HIDE DEF n
      <4>. QED BY <2>4, <3>5, <3>6, <4>1, <4>2 DEF Carried
    <3>8. \A k, l \in 1..Len(dead') : dead'[k].ev = ev /\ dead'[l].ev = ev => k = l
      BY <3>6 DEF DeadLettered
    <3>9. Story(ev)'
      BY <2>1, <2>4, <2>5, <3>4, <3>7, <3>8 DEF Story
    <3>a. /\ Len(log') \in Nat
          /\ \A j \in 1..Len(log') : j \notin 1..Len(log) => log'[j].ev = log[i].ev
      BY <1>0, <3>2, <3>3
    <3>10. ASSUME NEW e \in Events, e # ev PROVE Story(e)'
      BY <1>0, <2>1, <3>1, <3>2, <3>a, <3>10, OtherStories
    <3>. QED BY <3>9, <3>10
  <2>. QED BY <2>6, <2>7
<1>5. CASE Ack(w, i)
  <2>1. /\ Current(w, i) /\ step[w] = "ack" /\ batch' = [batch EXCEPT ![w] = @ \ {i}]
        /\ UNCHANGED <<log, dead, cursor, sent, stored, failures, late>>
        /\ step'[w] \in {"process", "read", "depth"}
        /\ \A v \in Workers \ {w} : step'[v] = step[v]
    BY <1>5 DEF Ack, TypeOK, WorkerTypeOK
  <2>2. batch'[w] = batch[w] \ {i} /\ \A v \in Workers \ {w} : batch'[v] = batch[v]
    BY <2>1 DEF TypeOK, WorkerTypeOK
  <2>3. \A j \in batch'[w] : j \in batch[w] /\ j # i /\ ~Current(w, j)
    <3>1. \A j \in batch[w] : j \in Nat
      BY BatchType
    <3>. QED BY <1>0, <2>1, <2>2, <3>1 DEF Current
  <2>4. \A v \in Workers \ {w}, j \in Nat : Current(v, j)' <=> Current(v, j)
    BY <2>2 DEF Current
  <2>5. \A j \in Nat : Unhandled(j)' => Unhandled(j)
    BY <2>1, <2>2, <2>3, <2>4 DEF Unhandled
  <2>6. \A j \in Nat, t \in {"requeue", "gauges"} : At(j, t)' <=> At(j, t)
    BY <2>1, <2>2, <2>4 DEF At
  <2>7. \A j \in 1..Len(log) : j \in Nat
    BY <1>0
  <2>. QED BY <2>1, <2>5, <2>6, <2>7, StoriesKept
<1>6. CASE AckAndDie(w, i)
  BY <1>6 DEF AckAndDie, CalmInv
<1>. QED BY <1>1, <1>2, <1>3, <1>4, <1>5, <1>6 DEF HandleStep

LEMMA ApiSettle ==
  ASSUME OneSubmission, TypeOK, StreamInv, CalmInv, \A e \in Events : Story(e),
         NEW r \in Requests, ApiStep(r), ~EnqueueFails(r)
  PROVE  CalmInv' /\ \A e \in Events : Story(e)'
<1>. USE DEF stream, api, worker, history, bounds
<1>0. /\ Len(log) \in Nat /\ cursor \in Nat /\ cursor <= Len(log)
      /\ sent \in [Requests -> Nat]
      /\ req \in [Requests -> {"idle", "ensure", "xadd", "ok", "error"}]
      /\ "requeue" \in Handling /\ "gauges" \in Handling
  BY DEF TypeOK, StreamTypeOK, ApiTypeOK, StreamInv, Handling
<1>1. UNCHANGED <<cursor, pel, stale, batch, step, dead, failures, stored, late>>
  BY DEF ApiStep, Submit, EnqueueEnsure, EnqueueXadd, EnsureGroup, StreamInv
<1>2. CalmInv'
  <2>1. /\ req'[r] \notin {"idle", "error"}
        /\ \A q \in Requests \ {r} : req'[q] = req[q] /\ sent'[q] = sent[q]
    BY <1>0 DEF ApiStep, Submit, EnqueueEnsure, EnqueueXadd
  <2>. QED BY <1>1, <2>1 DEF CalmInv
<1>3. \A j \in Nat : /\ Unhandled(j)' <=> Unhandled(j)
                     /\ At(j, "requeue")' <=> At(j, "requeue")
                     /\ At(j, "gauges")' <=> At(j, "gauges")
  BY <1>0, <1>1, NobodyMoves
<1>4. CASE Submit(r) \/ EnqueueEnsure(r)
  <2>1. UNCHANGED <<log, sent>>
    <3>1. CASE Submit(r)
      <4>1. sent[r] = 0
        BY <3>1 DEF Submit, CalmInv
      <4>. QED BY <1>0, <3>1, <4>1 DEF Submit
    <3>. QED BY <1>4, <3>1 DEF EnqueueEnsure
  <2>2. \A j \in 1..Len(log) : j \in Nat
    BY <1>0
  <2>. QED BY <1>1, <1>2, <1>3, <2>1, <2>2, StoriesKept
<1>5. CASE EnqueueXadd(r)
  <2>. PICK ev \in Events : ev = Body[r][sent[r] + 1]
    BY <1>5, NextEvent DEF EnqueueXadd
  <2>. PICK m \in Nat : m = Len(log) + 1
    BY <1>0
  <2>1. Xadd(ev, 0) /\ sent' = [sent EXCEPT ![r] = @ + 1] /\ 0 \in Nat
    BY <1>5 DEF EnqueueXadd
  <2>2. /\ Len(log') = m /\ log'[m].ev = ev /\ log'[m].retry = 0
        /\ \A j \in 1..Len(log) : log'[j] = log[j]
    <3>1. /\ Len(log') = m /\ log'[m] = [ev |-> ev, retry |-> 0]
          /\ \A j \in 1..Len(log) : log'[j] = log[j]
      BY <2>1, XaddType
    <3>. QED BY <3>1
  <2>3. \A j \in 1..Len(log') : j \in 1..Len(log) \/ j = m
    BY <1>0, <2>2
  <2>4. sent[r] + 1 \in 1..Len(Body[r]) /\ ToCome(ev)
    <3>1. sent[r] < Len(Body[r])
      BY <1>5 DEF EnqueueXadd, StreamInv
    <3>2. Len(Body[r]) \in Nat /\ sent[r] \in Nat
      BY <1>0
    <3>. QED BY <3>1, <3>2 DEF ToCome
  <2>5. \A e \in Events : ToCome(e)' => ToCome(e)
    <3>1. \A q \in Requests : /\ sent'[q] >= sent[q] /\ sent[q] \in Nat /\ sent'[q] \in Nat
                               /\ Len(Body[q]) \in Nat
      BY <1>0, <2>1
    <3>2. \A q \in Requests : (sent'[q] + 1)..Len(Body[q]) \subseteq (sent[q] + 1)..Len(Body[q])
      BY <3>1
    <3>. QED BY <3>2 DEF ToCome
  <2>6. ~ToCome(ev)'
    <3>1. SUFFICES ASSUME NEW q \in Requests, NEW n \in (sent'[q] + 1)..Len(Body[q]),
                          Body[q][n] = ev
                   PROVE  FALSE
      BY DEF ToCome
    <3>2. sent'[q] \in Nat /\ n \in 1..Len(Body[q])
      BY <1>0, <2>1
    <3>3. q = r /\ n = sent[r] + 1
      <4>1. Body[q][n] = Body[r][sent[r] + 1]
        BY <3>1
      <4>. QED BY <2>4, <3>2, <4>1 DEF OneSubmission
    <3>. QED BY <1>0, <2>1, <3>3
  <2>7. \A j \in 1..Len(log) : ~(Unhandled(j) /\ log[j].ev = ev)
    BY <2>4 DEF Story, Carried
  <2>8. \A t : ~At(m, t)'
    <3>1. \A v \in Workers : m \notin batch[v]
      BY <1>0 DEF StreamInv
    <3>. QED BY <1>1, <3>1 DEF At
  <2>9. failures[ev] = 0 /\ stored[ev] = 0 /\ ~DeadLettered(ev)
    BY <2>4 DEF Story
  <2>10. ~DeadLettered(ev)'
    BY <1>1, <2>9 DEF DeadLettered
  <2>11. Carried(ev, m)'
    BY <1>1, <2>2, <2>6, <2>8, <2>9, <2>10 DEF Carried
  <2>12. \A j \in 1..Len(log') : Unhandled(j)' /\ log'[j].ev = ev => j = m
    BY <1>3, <2>2, <2>3, <2>7
  <2>13. \A k, l \in 1..Len(dead') : dead'[k].ev = ev /\ dead'[l].ev = ev => k = l
    BY <2>10 DEF DeadLettered
  <2>14. Story(ev)'
    BY <1>1, <2>6, <2>9, <2>11, <2>12, <2>13 DEF Story
  <2>15. ASSUME NEW e \in Events, e # ev PROVE Story(e)'
    <3>1. ASSUME NEW j \in 1..Len(log'), Unhandled(j)', log'[j].ev = e
          PROVE  /\ j \in 1..Len(log) /\ log'[j] = log[j] /\ Unhandled(j)
                 /\ At(j, "requeue")' <=> At(j, "requeue")
                 /\ At(j, "gauges")' <=> At(j, "gauges")
      BY <1>3, <2>2, <2>3, <2>15, <3>1
    <3>. QED BY <1>1, <2>5, <3>1, StoryFrame
  <2>. QED BY <1>2, <2>14, <2>15
<1>. QED BY <1>4, <1>5 DEF ApiStep

LEMMA ReadSettle ==
  ASSUME TypeOK, StreamInv, CalmInv, \A e \in Events : Story(e), NEW w \in Workers, Read(w)
  PROVE  CalmInv' /\ \A e \in Events : Story(e)'
<1>. USE DEF stream, api, worker, history, bounds
<1>. DEFINE from == IF group THEN cursor ELSE base
            to == IF from + Count <= Len(log) THEN from + Count ELSE Len(log)
            ids == (from + 1)..to
<1>1. from = cursor /\ cursor \in Nat /\ to \in Nat /\ cursor <= to /\ to <= Len(log) /\ Len(log) \in Nat
  BY DEF StreamInv, TypeOK, StreamTypeOK
<1>2. /\ batch' = [batch EXCEPT ![w] = ids] /\ cursor' = to /\ pel' = pel \cup ids
      /\ step[w] = "read" /\ step' = [step EXCEPT ![w] = IF ids = {} THEN "depth" ELSE "process"]
      /\ UNCHANGED <<log, stale, dead, req, sent, failures, stored, late>>
  BY DEF Read, Deliver, Goto
<1>3. ids \subseteq Nat /\ \A j \in ids : j > cursor
  BY <1>1
<1>4. \A j \in Nat : j > cursor' => j > cursor
  BY <1>1, <1>2
<1>. HIDE DEF from, to, ids
<1>5. /\ batch'[w] = ids /\ \A v \in Workers \ {w} : batch'[v] = batch[v]
      /\ step'[w] \in {"depth", "process"} /\ \A v \in Workers \ {w} : step'[v] = step[v]
      /\ ids # {} => step'[w] = "process"
  BY <1>2 DEF TypeOK, WorkerTypeOK
<1>6. batch[w] = {}
  BY <1>2 DEF CalmInv, Handling
<1>7. \A v \in Workers : \A j \in batch[v] : j \in Nat /\ ~(j > cursor)
  BY <1>1, BatchType DEF StreamInv
<1>8. CalmInv'
  <2>1. \A j \in pel' : \E v \in Workers : j \in batch'[v]
    <3>1. ASSUME NEW j \in pel PROVE \E v \in Workers : j \in batch'[v]
      <4>1. PICK v \in Workers : j \in batch[v]
        BY DEF CalmInv
      <4>. QED BY <1>5, <1>6, <4>1
    <3>. QED BY <1>2, <1>5, <3>1
  <2>2. \A v, u \in Workers : \A j \in batch'[v] : j \in batch'[u] => v = u
    BY <1>3, <1>5, <1>7 DEF CalmInv
  <2>3. \A v \in Workers : /\ step'[v] # "ackAndDie"
                           /\ step'[v] \notin Handling => batch'[v] = {}
    <3>1. "process" \in Handling
      BY DEF Handling
    <3>. QED BY <1>5, <3>1 DEF CalmInv
  <2>. QED BY <1>2, <2>1, <2>2, <2>3 DEF CalmInv
<1>9. \A v \in Workers \ {w}, j \in Nat : Current(v, j)' <=> Current(v, j)
  BY <1>5 DEF Current
<1>10. \A j \in Nat : Unhandled(j)' => Unhandled(j)
  BY <1>3, <1>4, <1>5, <1>9 DEF Unhandled
<1>11. \A j \in Nat, t \in {"requeue", "gauges"} : At(j, t)' <=> At(j, t)
  BY <1>2, <1>5, <1>9 DEF At
<1>12. \A j \in 1..Len(log) : j \in Nat
  BY <1>1
<1>. QED BY <1>2, <1>8, <1>10, <1>11, <1>12, StoriesKept

LEMMA GaugesDoneSettle ==
  ASSUME TypeOK, StreamInv, CalmInv, \A e \in Events : Story(e), NEW w \in Workers,
         GaugesDone(w)
  PROVE  CalmInv' /\ \A e \in Events : Story(e)'
<1>. USE DEF stream, api, worker, history, bounds
<1>1. /\ step[w] = "gauges" /\ step'[w] = "ack" /\ \A v \in Workers \ {w} : step'[v] = step[v]
      /\ UNCHANGED <<log, cursor, batch, pel, stale, dead, req, sent, failures, stored, late>>
  BY DEF GaugesDone, Goto, TypeOK, WorkerTypeOK
<1>2. CalmInv'
  BY <1>1 DEF CalmInv, Handling
<1>3. \A v \in Workers, j \in Nat : Current(v, j)' <=> Current(v, j)
  BY <1>1 DEF Current
<1>4. \A j \in Nat : Unhandled(j)' => Unhandled(j)
  BY <1>1, <1>3 DEF Unhandled
<1>5. \A j \in Nat : At(j, "requeue")' <=> At(j, "requeue")
  BY <1>1, <1>3 DEF At
<1>6. ASSUME NEW j \in Nat, Unhandled(j)' PROVE At(j, "gauges")' <=> At(j, "gauges")
  <2>1. At(j, "gauges")' => At(j, "gauges")
    BY <1>1, <1>3 DEF At
  <2>2. ASSUME NEW v \in Workers, j \in batch[v], Current(v, j), step[v] = "gauges"
        PROVE  At(j, "gauges")'
    <3>1. ~(j > cursor)
      BY <2>2 DEF StreamInv, TypeOK, StreamTypeOK
    <3>2. CASE v = w
      <4>1. \A u \in Workers : j \in batch[u] => u = w
        BY <2>2, <3>2 DEF CalmInv
      <4>. QED BY <1>1, <1>3, <1>6, <2>2, <3>1, <3>2, <4>1 DEF Unhandled
    <3>3. CASE v # w
      BY <1>1, <1>3, <2>2, <3>3 DEF At
    <3>. QED BY <3>2, <3>3
  <2>. QED BY <2>1, <2>2 DEF At
<1>7. \A j \in 1..Len(log) : j \in Nat
  BY DEF TypeOK, StreamTypeOK
<1>. QED BY <1>1, <1>2, <1>4, <1>5, <1>6, <1>7, StoriesKept

(* The steps of the loop between two messages. *)
LEMMA LoopSettle ==
  ASSUME TypeOK, StreamInv, CalmInv, \A e \in Events : Story(e), NEW w \in Workers,
         Reclaim(w) \/ SetDepth(w) \/ Start(w) \/ Stop(w)
  PROVE  CalmInv' /\ \A e \in Events : Story(e)'
<1>. USE DEF stream, api, worker, history, bounds, Goto
<1>1. /\ step[w] \in {"reclaim", "depth", "down"}
      /\ UNCHANGED <<log, dead, req, sent, failures, stored, late, pel>>
  BY DEF Reclaim, SetDepth, Start, Stop
<1>2. batch[w] = {} /\ stale = {}
  BY <1>1 DEF CalmInv, Handling
<1>3. cursor' = cursor
  BY DEF Reclaim, SetDepth, Start, Stop, EnsureGroup, StreamInv
<1>4. FirstOf({}, Count) = {}
  BY DEF FirstOf
<1>5. /\ batch' = batch /\ stale' = {} /\ step'[w] \in {"down", "reclaim", "read"}
      /\ \A v \in Workers \ {w} : step'[v] = step[v]
  <2>1. CASE Reclaim(w)
    <3>1. /\ batch' = [batch EXCEPT ![w] = {}] /\ step' = [step EXCEPT ![w] = "read"]
          /\ stale' = {}
      BY <1>2, <1>4, <2>1 DEF Reclaim, Deliver
    <3>. QED BY <1>2, <3>1 DEF TypeOK, WorkerTypeOK
  <2>2. CASE SetDepth(w) \/ Start(w) \/ Stop(w)
    BY <1>2, <2>2 DEF SetDepth, Start, Stop, TypeOK, WorkerTypeOK
  <2>. QED BY <2>1, <2>2
<1>6. CalmInv'
  BY <1>1, <1>2, <1>5 DEF CalmInv, Handling
<1>7. "requeue" \in Handling /\ "gauges" \in Handling
  BY DEF Handling
<1>8. \A j \in Nat : /\ Unhandled(j)' <=> Unhandled(j)
                     /\ At(j, "requeue")' <=> At(j, "requeue")
                     /\ At(j, "gauges")' <=> At(j, "gauges")
  BY <1>2, <1>3, <1>5, <1>7, NobodyMoves
<1>9. \A j \in 1..Len(log) : j \in Nat
  BY DEF TypeOK, StreamTypeOK
<1>. QED BY <1>1, <1>6, <1>8, <1>9, StoriesKept

(* Redis restarts empty: what was undelivered is gone. *)
LEMMA FlushSettle ==
  ASSUME TypeOK, StreamInv, CalmInv, \A e \in Events : Story(e), Flush
  PROVE  CalmInv' /\ \A e \in Events : Story(e)'
<1>. USE DEF stream, api, worker, history, bounds
<1>1. /\ UNCHANGED <<log, batch, step, req, sent, failures, stored, late>>
      /\ cursor' = Len(log) /\ pel' = {} /\ stale' = {} /\ dead' = <<>>
  BY DEF Flush
<1>2. CalmInv'
  BY <1>1 DEF CalmInv
<1>3. \A v \in Workers, j \in Nat : Current(v, j)' <=> Current(v, j)
  BY <1>1 DEF Current
<1>4. \A j \in 1..Len(log) : j \in Nat /\ ~(j > Len(log))
  BY DEF TypeOK, StreamTypeOK
<1>5. \A j \in 1..Len(log) : Unhandled(j)' => Unhandled(j)
  BY <1>1, <1>3, <1>4 DEF Unhandled
<1>6. \A j \in Nat, t \in {"requeue", "gauges"} : At(j, t)' <=> At(j, t)
  BY <1>1, <1>3 DEF At
<1>7. Len(dead') = 0
  BY <1>1
<1>. QED BY <1>1, <1>2, <1>4, <1>5, <1>6, <1>7, StoriesKept

LEMMA NextSettle ==
  ASSUME OneSubmission, TypeOK, StreamInv, TypeOK', SettleInv, [Next]_vars
  PROVE  SettleInv'
<1>. SUFFICES ASSUME Undisturbed' PROVE CalmInv' /\ \A e \in Events : Story(e)'
  BY DEF SettleInv
<1>. USE DEF stream, api, worker, history, bounds
<1>1. Undisturbed /\ CalmInv /\ \A e \in Events : Story(e)
  BY UndisturbedStep DEF SettleInv
<1>2. slow \in Nat /\ faults \in Nat /\ slow' = 0 /\ faults' = 0 /\ ~killed'
  BY DEF Undisturbed, TypeOK, HistoryTypeOK
<1>3. ~RedisFault
  BY <1>2 DEF RedisFault
<1>4. ASSUME NEW r \in Requests, ApiStep(r) PROVE CalmInv' /\ \A e \in Events : Story(e)'
  BY <1>1, <1>3, <1>4, ApiSettle DEF EnqueueFails
<1>5. ASSUME NEW w \in Workers, NEW i \in batch[w], HandleStep(w, i)
      PROVE  CalmInv' /\ \A e \in Events : Story(e)'
  <2>1. ~RequeueRaises(w, i)
    BY <1>3 DEF RequeueRaises
  <2>. QED BY <1>1, <1>5, <2>1, HandleCalm, HandleStory
<1>6. ASSUME NEW w \in Workers,
             \/ Reclaim(w) \/ Read(w) \/ SetDepth(w) \/ GaugesDone(w) \/ Start(w)
             \/ Stop(w) \/ ReclaimFails(w) \/ AckRaises(w) \/ Crash(w)
      PROVE  CalmInv' /\ \A e \in Events : Story(e)'
  <2>1. ~ReclaimFails(w) /\ ~AckRaises(w) /\ ~Crash(w)
    BY <1>2, <1>3 DEF ReclaimFails, AckRaises, Crash
  <2>. QED BY <1>1, <1>6, <2>1, ReadSettle, GaugesDoneSettle, LoopSettle
<1>7. ASSUME NEW i \in pel, Age(i) PROVE FALSE
  <2>1. slow' = slow + 1
    BY <1>1, <1>7 DEF Age, CalmInv
  <2>. QED BY <1>2, <2>1
<1>8. CASE Flush
  BY <1>1, <1>8, FlushSettle
<1>9. CASE UNCHANGED vars
  <2>1. UNCHANGED <<log, cursor, batch, step, pel, stale, dead, req, sent, failures, stored, late>>
    BY <1>9 DEF vars
  <2>. QED BY <1>1, <2>1 DEF CalmInv, Story, Carried, Unhandled, At, Current, ToCome, DeadLettered
<1>. QED BY <1>4, <1>5, <1>6, <1>7, <1>8, <1>9 DEF Next, WorkerStep

LEMMA SettleOnce ==
  ASSUME TypeOK, SettleInv
  PROVE  SettledOnce
<1>. SUFFICES ASSUME Undisturbed, NEW e \in Events
              PROVE  /\ failures[e] <= MaxRetries
                     /\ ~late => stored[e] + Cardinality({k \in 1..Len(dead) : dead[k].ev = e}) <= 1
  BY DEF SettledOnce
<1>. DEFINE D == {k \in 1..Len(dead) : dead[k].ev = e}
<1>1. Story(e) /\ stored[e] \in Nat
  BY DEF SettleInv, TypeOK, HistoryTypeOK
<1>2. D = {} \/ \E k \in D : D = {k}
  BY <1>1 DEF Story
<1>. HIDE DEF D
<1>3. Cardinality(D) <= 1 /\ Cardinality(D) \in Nat
  <2>1. CASE D = {}
    <3>1. Cardinality(D) = 0
      BY <2>1, FS_EmptySet
    <3>. QED BY <3>1
  <2>2. ASSUME NEW k \in D, D = {k} PROVE Cardinality(D) <= 1 /\ Cardinality(D) \in Nat
    <3>1. Cardinality(D) = 1
      BY <2>2, FS_Singleton
    <3>. QED BY <3>1
  <2>. QED BY <1>2, <2>1, <2>2
<1>4. ~DeadLettered(e) => Cardinality(D) = 0
  BY FS_EmptySet DEF DeadLettered, D
<1>5. ~late => stored[e] + Cardinality(D) <= 1
  BY <1>1, <1>3, <1>4 DEF Story
<1>. QED BY <1>1, <1>5 DEF Story, D

(* For any workers, requests and retry limit: if every event is submitted in *)
(* one call and nothing unusual happens, it fails at most MAX_RETRIES times  *)
(* and ends as one row or one dead letter, however the handlings interleave  *)
(* and even if Redis restarts empty between them.                            *)
THEOREM EachSettlesOnce ==
  ASSUME OneSubmission
  PROVE  Spec => []SettledOnce
<1>1. Init => SettleInv
  BY InitSettle
<1>2. TypeOK /\ StreamInv /\ SettleInv /\ [Next]_vars => (TypeOK /\ StreamInv /\ SettleInv)'
  BY NextType, NextSettle
<1>3. TypeOK /\ SettleInv => SettledOnce
  BY SettleOnce
<1>. QED BY <1>1, <1>2, <1>3, InitType, PTL DEF Spec
=============================================================================
