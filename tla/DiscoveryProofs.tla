--------------------------- MODULE DiscoveryProofs ---------------------------
(***************************************************************************)
(* Proofs about Discovery for any paths, templates, matching relation and  *)
(* number of overlapping sessions.                                         *)
(***************************************************************************)
EXTENDS Discovery, TLAPS

(* An alert is open only after it was raised, in the database and in every   *)
(* snapshot a session still reads; so a session that finds a duplicate may   *)
(* rely on it.                                                               *)
AlertInv ==
  /\ ShadowWasAlerted
  /\ \A k \in AlertKey : open[k] > 0 => k \in alerted
  /\ \A s \in Sessions : \A k \in AlertKey : tx[s].snap.open[k] > 0 => k \in alerted

USE DiscoveryAssumption DEF DiscoveryAssumption

-----------------------------------------------------------------------------

LEMMA EmptyType == EmptyDb \in DbType
  BY DEF EmptyDb, DbType

LEMMA TxType ==
  ASSUME TypeOK, NEW s \in Sessions
  PROVE  /\ tx[s].op \in {"idle", "event", "spec", "connect", "disconnect", "promote",
                          "committed", "recompute"}
         /\ tx[s].path \in Paths \cup {NoPath}
         /\ tx[s].on \in SUBSET Templates
         /\ tx[s].snap \in DbType
  BY DEF TypeOK

(* What a new transaction record may be. *)
LEMMA NewTxType ==
  ASSUME TypeOK, NEW s \in Sessions,
         NEW op \in {"idle", "event", "spec", "connect", "disconnect", "promote",
                     "committed", "recompute"},
         NEW p \in Paths \cup {NoPath}, NEW T \in SUBSET Templates, NEW d \in DbType,
         tx' = [tx EXCEPT ![s] = [op |-> op, path |-> p, on |-> T, snap |-> d]]
  PROVE  tx' \in [Sessions ->
           [op : {"idle", "event", "spec", "connect", "disconnect", "promote", "committed",
                  "recompute"},
            path : Paths \cup {NoPath}, on : SUBSET Templates, snap : DbType]]
  BY DEF TypeOK

LEMMA EndType ==
  ASSUME TypeOK, NEW s \in Sessions, End(s) \/ ThenRecompute(s)
  PROVE  tx' \in [Sessions ->
           [op : {"idle", "event", "spec", "connect", "disconnect", "promote", "committed",
                  "recompute"},
            path : Paths \cup {NoPath}, on : SUBSET Templates, snap : DbType]]
<1>. EmptyDb \in DbType
  BY EmptyType
<1>1. CASE End(s)
  BY <1>1, NewTxType DEF End, Idle
<1>2. CASE ThenRecompute(s)
  <2>1. [Idle EXCEPT !.op = "committed"] =
          [op |-> "committed", path |-> NoPath, on |-> {}, snap |-> EmptyDb]
    BY DEF Idle
  <2>2. tx' = [tx EXCEPT ![s] =
                 [op |-> "committed", path |-> NoPath, on |-> {}, snap |-> EmptyDb]]
    BY <1>2, <2>1 DEF ThenRecompute
  <2>. QED BY <2>2, NewTxType
<1>. QED BY <1>1, <1>2

LEMMA CountType ==
  ASSUME NEW column \in [Templates -> Nat], NEW S \in [Templates -> Nat],
         NEW n \in Templates
  PROVE  Count(column, S, n) \in [Templates -> Nat]
  BY DEF Count

LEMMA AddType ==
  ASSUME TypeOK, NEW s \in Sessions, NEW source \in Source, Add(s, source)
  PROVE  known' \in [Templates -> Source \cup {"no"}]
  BY DEF TypeOK, Add, Db, DbType

LEMMA RequestType ==
  ASSUME TypeOK, NEW s \in Sessions, Request(s)
  PROVE  TypeOK'
<1>. Db \in DbType
  BY DEF TypeOK
<1>1. ASSUME NEW p \in Paths, EventArrives(s, p) PROVE TypeOK'
  <2>1. UNCHANGED database
    BY <1>1 DEF EventArrives
  <2>2. Db' \in DbType
    BY <2>1 DEF database, Db
  <2>3. tx' = [tx EXCEPT ![s] = [op |-> "event", path |-> p, on |-> {}, snap |-> Db]]
    BY <1>1 DEF EventArrives, Begin
  <2>4. Norm[p] \in Templates
    OBVIOUS
  <2>. QED BY <1>1, <2>2, <2>3, <2>4, NewTxType DEF EventArrives, TypeOK
<1>2. ASSUME NEW op \in {"spec", "connect", "disconnect", "promote"},
             NEW T \in SUBSET Templates, StartRegistry(s, op, T)
      PROVE TypeOK'
  <2>1. UNCHANGED <<database, history, arrived, aborts>>
    BY <1>2 DEF StartRegistry
  <2>2. Db' \in DbType
    BY <2>1 DEF database, Db
  <2>3. tx' = [tx EXCEPT ![s] = [op |-> op, path |-> NoPath, on |-> T, snap |-> Db]]
    BY <1>2 DEF StartRegistry, Begin
  <2>. QED BY <2>1, <2>2, <2>3, NewTxType DEF TypeOK, history
<1>3. ASSUME NEW T \in SUBSET Templates, UploadSpec(s, T) PROVE TypeOK'
  BY <1>2, <1>3 DEF UploadSpec
<1>4. CASE Connect(s) \/ Disconnect(s)
  BY <1>2, <1>4 DEF Connect, Disconnect
<1>5. ASSUME NEW n \in Promotable, Promote(s, n) PROVE TypeOK'
  <2>1. {n} \in SUBSET Templates
    OBVIOUS
  <2>. QED BY <1>2, <1>5, <2>1 DEF Promote
<1>. QED BY <1>1, <1>3, <1>4, <1>5 DEF Request

(* An event's session carries the path it handles. *)
EventPath == \A s \in Sessions : Doing(s, "event") => tx[s].path \in Paths

LEMMA CommitEventType ==
  ASSUME TypeOK, EventPath, NEW s \in Sessions, NEW anomalous \in BOOLEAN,
         CommitEvent(s, anomalous)
  PROVE  TypeOK'
<1>. DEFINE S == tx[s].snap
            p == tx[s].path
            n == Norm[p]
            raised == {k \in {<<"traffic_anomaly", p>>} : anomalous /\ ~RecentDuplicate(S, k)}
                      \cup {k \in {<<"undocumented_api", n>>} :
                              ~IsDocumented(S.known, p) /\ ~RecentDuplicate(S, k)}
<1>1. S \in DbType
  BY TxType
<1>2. p \in Paths /\ n \in Templates
  BY DEF EventPath, CommitEvent
<1>3. raised \subseteq AlertKey
  BY <1>2 DEF AlertKey
<1>4. hits' \in [Templates -> Nat]
  BY <1>1, <1>2, CountType DEF CommitEvent, TypeOK, Db, DbType
<1>5. shadow' \in [Templates -> Nat]
  BY <1>1, <1>2, CountType DEF CommitEvent, TypeOK, Db, DbType
<1>6. flag' \in [Templates -> BOOLEAN]
  <2>1. IsDocumented(S.known, p) \in BOOLEAN
    BY DEF IsDocumented
  <2>2. flag' = flag \/ flag' = [flag EXCEPT ![n] = IsDocumented(S.known, p)]
    BY DEF CommitEvent
  <2>. QED BY <1>2, <2>1, <2>2 DEF TypeOK, Db, DbType
<1>7. open' \in [AlertKey -> Nat]
  BY DEF CommitEvent, TypeOK, Db, DbType
<1>8. alerted' \subseteq AlertKey
  BY <1>3 DEF CommitEvent, TypeOK
<1>9. Db' \in DbType
  BY <1>4, <1>5, <1>6, <1>7 DEF CommitEvent, TypeOK, Db, DbType
<1>10. End(s) /\ events' \in [Templates -> Nat]
  BY <1>2 DEF CommitEvent, TypeOK
<1>. QED BY <1>8, <1>9, <1>10, EndType DEF CommitEvent, TypeOK

LEMMA RegistryType ==
  ASSUME TypeOK, NEW s \in Sessions,
         \/ CommitSpec(s) \/ CommitConnect(s) \/ CommitDisconnect(s) \/ CommitPromote(s)
  PROVE  TypeOK'
<1>. DEFINE same == UNCHANGED <<hits, flag, shadow, open, events, alerted, overlap,
                                arrived, aborts>>
<1>1. same
  BY DEF CommitSpec, CommitConnect, CommitDisconnect, CommitPromote, history
<1>2. known' \in [Templates -> Source \cup {"no"}]
  <2>1. CASE CommitSpec(s)
    BY <2>1, AddType DEF CommitSpec, Source
  <2>2. CASE CommitConnect(s)
    BY <2>2, AddType DEF CommitConnect, Source
  <2>3. CASE CommitDisconnect(s)
    BY <2>3 DEF CommitDisconnect, TypeOK, Db, DbType
  <2>4. CASE CommitPromote(s)
    BY <2>4, AddType DEF CommitPromote, Source
  <2>. QED BY <2>1, <2>2, <2>3, <2>4
<1>3. connected' \in BOOLEAN
  BY DEF CommitSpec, CommitConnect, CommitDisconnect, CommitPromote, TypeOK, Db, DbType
<1>4. End(s) \/ ThenRecompute(s)
  BY DEF CommitSpec, CommitConnect, CommitDisconnect, CommitPromote
<1>5. Db' \in DbType
  BY <1>1, <1>2, <1>3 DEF TypeOK, Db, DbType
<1>. QED BY <1>1, <1>4, <1>5, EndType DEF TypeOK

LEMMA OtherType ==
  ASSUME TypeOK, NEW s \in Sessions,
         \/ BeginRecompute(s) \/ CommitRecompute(s) \/ Rejected(s) \/ Abort(s)
  PROVE  TypeOK'
<1>1. CASE BeginRecompute(s)
  <2>1. Db' \in DbType /\ UNCHANGED <<history, arrived, aborts>>
    BY <1>1 DEF BeginRecompute, database, Db, TypeOK
  <2>2. tx' \in [Sessions ->
       [op : {"idle", "event", "spec", "connect", "disconnect", "promote", "committed",
              "recompute"},
        path : Paths \cup {NoPath}, on : SUBSET Templates, snap : DbType]]
    <3>. DEFINE new == [tx[s] EXCEPT !.op = "recompute", !.snap = Db]
                Record ==
                  [op : {"idle", "event", "spec", "connect", "disconnect", "promote",
                         "committed", "recompute"},
                   path : Paths \cup {NoPath}, on : SUBSET Templates, snap : DbType]
    <3>1. Db \in DbType /\ tx \in [Sessions -> Record]
      BY DEF TypeOK
    <3>2. new \in Record
      BY <3>1
    <3>3. tx' = [tx EXCEPT ![s] = new]
      BY <1>1 DEF BeginRecompute
    <3>. HIDE DEF new, Record
    <3>4. tx' \in [Sessions -> Record]
      BY <3>1, <3>2, <3>3
    <3>. QED BY <3>4 DEF Record
  <2>. QED BY <2>1, <2>2 DEF TypeOK, history
<1>2. CASE CommitRecompute(s)
  <2>1. flag' \in [Templates -> BOOLEAN]
    BY <1>2 DEF CommitRecompute, IsDocumented, TypeOK, Db, DbType
  <2>2. Db' \in DbType /\ End(s)
    BY <1>2, <2>1 DEF CommitRecompute, TypeOK, Db, DbType
  <2>. QED BY <1>2, <2>2, EndType DEF CommitRecompute, TypeOK, history
<1>3. CASE Rejected(s) \/ Abort(s)
  <2>1. Db' \in DbType /\ End(s) /\ UNCHANGED <<history, arrived>>
    BY <1>3 DEF Rejected, Abort, database, Db, TypeOK
  <2>2. aborts' \in 0..MaxAborts
    BY <1>3 DEF Rejected, Abort, TypeOK
  <2>. QED BY <2>1, <2>2, EndType DEF TypeOK, history
<1>. QED BY <1>1, <1>2, <1>3

LEMMA AlertClosesType ==
  ASSUME TypeOK, NEW k \in AlertKey, AlertCloses(k)
  PROVE  TypeOK'
<1>1. open' \in [AlertKey -> Nat]
  BY DEF AlertCloses, TypeOK, Db, DbType
<1>2. Db' \in DbType
  BY <1>1 DEF AlertCloses, TypeOK, Db, DbType
<1>. QED BY <1>2 DEF AlertCloses, TypeOK, history

(* A session's event keeps its path from the first step to the commit. *)
LEMMA EventPathNext ==
  ASSUME TypeOK, EventPath, [Next]_vars
  PROVE  EventPath'
<1>. USE DEF EventPath, Doing, TypeOK
<1>1. ASSUME NEW s \in Sessions, NEW op, NEW p, NEW T, Begin(s, op, p, T),
             op = "event" => p \in Paths
      PROVE EventPath'
  BY <1>1 DEF Begin
<1>2. ASSUME NEW s \in Sessions, End(s) \/ ThenRecompute(s) PROVE EventPath'
  BY <1>2 DEF End, ThenRecompute, Idle
<1>3. ASSUME NEW s \in Sessions, Request(s) PROVE EventPath'
  BY <1>1, <1>3 DEF Request, EventArrives, StartRegistry, UploadSpec, Connect, Disconnect,
                    Promote
<1>4. ASSUME NEW s \in Sessions, BeginRecompute(s) PROVE EventPath'
  BY <1>4 DEF BeginRecompute
<1>5. ASSUME NEW s \in Sessions, Finish(s) PROVE EventPath'
  <2>1. End(s) \/ ThenRecompute(s) \/ BeginRecompute(s)
    BY <1>5 DEF Finish, CommitEvent, CommitSpec, CommitConnect, CommitDisconnect,
                CommitPromote, CommitRecompute, Rejected, Abort
  <2>. QED BY <1>2, <1>4, <2>1
<1>6. ASSUME NEW k \in AlertKey, AlertCloses(k) PROVE EventPath'
  BY <1>6 DEF AlertCloses
<1>7. CASE UNCHANGED vars
  BY <1>7 DEF vars
<1>. QED BY <1>3, <1>5, <1>6, <1>7 DEF Next

LEMMA TypeNext ==
  ASSUME TypeOK, EventPath, [Next]_vars
  PROVE  TypeOK'
<1>1. ASSUME NEW s \in Sessions, Finish(s) PROVE TypeOK'
  BY <1>1, CommitEventType, RegistryType, OtherType DEF Finish
<1>2. CASE UNCHANGED vars
  BY <1>2 DEF vars, database, history, Db, TypeOK
<1>. QED BY <1>1, <1>2, RequestType, AlertClosesType DEF Next

LEMMA InitType == Init => TypeOK /\ EventPath
<1>. SUFFICES ASSUME Init PROVE TypeOK /\ EventPath
  OBVIOUS
<1>1. Db = EmptyDb
  BY DEF Init, Db, EmptyDb
<1>2. Db \in DbType /\ EmptyDb \in DbType
  BY <1>1, EmptyType
<1>. QED BY <1>2 DEF Init, TypeOK, EventPath, Doing, Idle

(* Type correctness for any number of sessions.                             *)
THEOREM TypeCorrect == Spec => []TypeOK
<1>1. TypeOK /\ EventPath /\ [Next]_vars => (TypeOK /\ EventPath)'
  BY TypeNext, EventPathNext
<1>. QED BY <1>1, InitType, PTL DEF Spec

-----------------------------------------------------------------------------

LEMMA AlertNext ==
  ASSUME TypeOK, EventPath, AlertInv, [Next]_vars
  PROVE  AlertInv'
<1>. USE DEF AlertInv, ShadowWasAlerted
<1>1. \A k \in AlertKey : EmptyDb.open[k] = 0
  BY DEF EmptyDb
<1>2. ASSUME NEW s \in Sessions, NEW op, NEW p, NEW T, Begin(s, op, p, T),
             UNCHANGED <<shadow, open, alerted>>
      PROVE AlertInv'
  BY <1>2 DEF Begin, TypeOK, Db
<1>3. ASSUME NEW s \in Sessions, End(s) \/ ThenRecompute(s),
             UNCHANGED <<shadow, open, alerted>>
      PROVE AlertInv'
  BY <1>1, <1>3 DEF End, ThenRecompute, Idle, TypeOK
<1>4. ASSUME NEW s \in Sessions, Request(s) PROVE AlertInv'
  BY <1>2, <1>4 DEF Request, EventArrives, StartRegistry, UploadSpec, Connect, Disconnect,
                    Promote, database, history
<1>5. ASSUME NEW s \in Sessions, BeginRecompute(s) PROVE AlertInv'
  BY <1>5 DEF BeginRecompute, database, history, TypeOK, Db
<1>6. ASSUME NEW s \in Sessions, NEW anomalous \in BOOLEAN, CommitEvent(s, anomalous)
      PROVE AlertInv'
  <2>. DEFINE S == tx[s].snap
              p == tx[s].path
              n == Norm[p]
              key == <<"undocumented_api", n>>
              raised == {k \in {<<"traffic_anomaly", p>>} :
                           anomalous /\ ~RecentDuplicate(S, k)}
                        \cup {k \in {key} : ~IsDocumented(S.known, p) /\ ~RecentDuplicate(S, k)}
  <2>1. p \in Paths /\ n \in Templates /\ key \in AlertKey
    BY <1>6 DEF CommitEvent, EventPath, AlertKey
  <2>2. alerted' = alerted \cup raised
    BY <1>6 DEF CommitEvent
  <2>3. \A k \in AlertKey : open'[k] > 0 => k \in alerted'
    BY <1>6, <2>2 DEF CommitEvent, TypeOK, Db, DbType
  <2>4. \A r \in Sessions, k \in AlertKey : tx'[r].snap.open[k] > 0 => k \in alerted'
    BY <1>1, <1>6, <2>2 DEF CommitEvent, End, Idle, TypeOK
  <2>5. S.open[key] > 0 => key \in alerted
    BY <2>1
  <2>6. ~IsDocumented(S.known, p) => key \in alerted'
    <3>1. S.open[key] \in Nat
      BY <2>1, TxType DEF DbType
    <3>. QED BY <2>2, <2>5, <3>1 DEF RecentDuplicate
  <2>7. \A m \in Templates : shadow'[m] > 0 => <<"undocumented_api", m>> \in alerted'
    <3>1. CASE IsDocumented(S.known, p)
      BY <1>6, <2>2, <3>1 DEF CommitEvent
    <3>2. CASE ~IsDocumented(S.known, p)
      <4>1. shadow' = [shadow EXCEPT ![n] = S.shadow[n] + 1]
        BY <1>6, <3>2 DEF CommitEvent, Count
      <4>2. \A m \in Templates : m # n => shadow'[m] = shadow[m]
        BY <4>1 DEF TypeOK, Db, DbType
      <4>. QED BY <2>2, <2>6, <3>2, <4>2
    <3>. QED BY <3>1, <3>2
  <2>. QED BY <2>3, <2>4, <2>7
<1>7. ASSUME NEW s \in Sessions, Finish(s), ~BeginRecompute(s),
             \A anomalous \in BOOLEAN : ~CommitEvent(s, anomalous)
      PROVE AlertInv'
  <2>1. End(s) \/ ThenRecompute(s)
    BY <1>7 DEF Finish, CommitSpec, CommitConnect, CommitDisconnect, CommitPromote,
                CommitRecompute, Rejected, Abort
  <2>2. UNCHANGED <<shadow, open, alerted>>
    BY <1>7 DEF Finish, CommitSpec, CommitConnect, CommitDisconnect, CommitPromote,
                CommitRecompute, Rejected, Abort, database, history
  <2>. QED BY <1>3, <2>1, <2>2
<1>8. ASSUME NEW k \in AlertKey, AlertCloses(k) PROVE AlertInv'
  BY <1>8 DEF AlertCloses, history, TypeOK, Db, DbType
<1>9. CASE UNCHANGED vars
  BY <1>9 DEF vars, database, history
<1>. QED BY <1>4, <1>5, <1>6, <1>7, <1>8, <1>9 DEF Next

(* However many workers and requests overlap, every shadow endpoint has had  *)
(* its alert: deduplication never swallows the first one.                    *)
THEOREM ShadowsAreAlerted == Spec => []ShadowWasAlerted
<1>1. Init => AlertInv
  BY DEF Init, AlertInv, ShadowWasAlerted, EmptyDb, Idle
<1>2. TypeOK /\ EventPath /\ AlertInv /\ [Next]_vars =>
        (TypeOK /\ EventPath /\ AlertInv)'
  BY TypeNext, EventPathNext, AlertNext
<1>3. AlertInv => ShadowWasAlerted
  BY DEF AlertInv
<1>. QED BY <1>1, <1>2, <1>3, InitType, PTL DEF Spec
-----------------------------------------------------------------------------
(* Hit counts                                                              *)

(* Where no two sessions handle the same path at once, the count a session   *)
(* read is still the count when it commits.                                  *)
HitsInv ==
  /\ HitsExact
  /\ \A s \in Sessions : Doing(s, "event") /\ Norm[tx[s].path] \notin overlap =>
       tx[s].snap.hits[Norm[tx[s].path]] = hits[Norm[tx[s].path]]
  /\ \A s, q \in Sessions :
       s # q /\ Doing(s, "event") /\ Doing(q, "event") /\ Norm[tx[s].path] = Norm[tx[q].path]
       => Norm[tx[s].path] \in overlap

(* A session that is not handling an event has no part in HitsInv. *)
LEMMA OthersKeepHits ==
  ASSUME TypeOK, HitsInv, NEW s \in Sessions, UNCHANGED <<hits, events, overlap>>,
         tx' = tx \/ ~Doing(s, "event")', \A q \in Sessions \ {s} : tx'[q] = tx[q]
  PROVE  HitsInv'
<1>1. \A q \in Sessions : Doing(q, "event")' => Doing(q, "event") /\ tx'[q] = tx[q]
  BY DEF Doing
<1>. QED BY <1>1 DEF HitsInv, HitsExact

LEMMA EventArrivesHits ==
  ASSUME TypeOK, EventPath, HitsInv, NEW s \in Sessions, NEW p \in Paths,
         EventArrives(s, p)
  PROVE  HitsInv'
<1>1. /\ tx'[s].op = "event" /\ tx'[s].path = p /\ tx'[s].snap.hits = hits
      /\ \A q \in Sessions \ {s} : tx'[q] = tx[q]
      /\ UNCHANGED <<hits, events>>
  BY DEF EventArrives, Begin, Db, TypeOK, database
<1>2. /\ overlap \subseteq overlap'
      /\ \A q \in Sessions : Doing(q, "event") /\ Norm[tx[q].path] = Norm[p] =>
           Norm[p] \in overlap'
  BY DEF EventArrives
<1>3. HitsExact'
  BY <1>1, <1>2 DEF HitsInv, HitsExact
<1>4. ASSUME NEW q \in Sessions, Doing(q, "event")', Norm[tx'[q].path] \notin overlap'
      PROVE  tx'[q].snap.hits[Norm[tx'[q].path]] = hits'[Norm[tx'[q].path]]
  <2>1. CASE q = s
    BY <1>1, <2>1
  <2>2. CASE q # s
    BY <1>1, <1>2, <1>4, <2>2 DEF HitsInv, Doing
  <2>. QED BY <2>1, <2>2
<1>5. ASSUME NEW r \in Sessions, NEW q \in Sessions, r # q,
             Doing(r, "event")', Doing(q, "event")', Norm[tx'[r].path] = Norm[tx'[q].path]
      PROVE  Norm[tx'[r].path] \in overlap'
  <2>1. CASE r # s /\ q # s
    BY <1>1, <1>2, <1>5, <2>1 DEF HitsInv, Doing
  <2>2. CASE r = s
    BY <1>1, <1>2, <1>5, <2>2 DEF Doing
  <2>3. CASE q = s
    BY <1>1, <1>2, <1>5, <2>3 DEF Doing
  <2>. QED BY <2>1, <2>2, <2>3
<1>. QED BY <1>3, <1>4, <1>5 DEF HitsInv

LEMMA CommitEventHits ==
  ASSUME TypeOK, EventPath, HitsInv, NEW s \in Sessions, NEW anomalous \in BOOLEAN,
         CommitEvent(s, anomalous)
  PROVE  HitsInv'
<1>. DEFINE S == tx[s].snap
            n == Norm[tx[s].path]
<1>1. n \in Templates /\ Doing(s, "event") /\ overlap' = overlap
  BY DEF CommitEvent, EventPath
<1>2. /\ hits \in [Templates -> Nat] /\ events \in [Templates -> Nat]
      /\ hits' = [hits EXCEPT ![n] = S.hits[n] + 1]
      /\ events' = [events EXCEPT ![n] = @ + 1]
  BY DEF CommitEvent, Count, TypeOK, Db, DbType
<1>3. tx'[s].op = "idle" /\ \A q \in Sessions \ {s} : tx'[q] = tx[q]
  BY DEF CommitEvent, End, Idle, TypeOK
<1>4. HitsExact'
  <2>1. n \notin overlap => S.hits[n] = hits[n] /\ hits[n] = events[n]
    BY <1>1 DEF HitsInv, HitsExact
  <2>. QED BY <1>1, <1>2, <2>1 DEF HitsInv, HitsExact
<1>5. ASSUME NEW q \in Sessions, Doing(q, "event")', Norm[tx'[q].path] \notin overlap'
      PROVE  tx'[q].snap.hits[Norm[tx'[q].path]] = hits'[Norm[tx'[q].path]]
  <2>1. q # s /\ tx'[q] = tx[q] /\ Doing(q, "event")
    BY <1>3, <1>5 DEF Doing
  <2>2. Norm[tx[q].path] # n
    BY <1>1, <1>5, <2>1 DEF HitsInv
  <2>3. hits'[Norm[tx[q].path]] = hits[Norm[tx[q].path]]
    BY <1>2, <2>1, <2>2 DEF EventPath
  <2>. QED BY <1>1, <1>5, <2>1, <2>3 DEF HitsInv
<1>6. ASSUME NEW r \in Sessions, NEW q \in Sessions, r # q,
             Doing(r, "event")', Doing(q, "event")', Norm[tx'[r].path] = Norm[tx'[q].path]
      PROVE  Norm[tx'[r].path] \in overlap'
  BY <1>1, <1>3, <1>6 DEF HitsInv, Doing
<1>. QED BY <1>4, <1>5, <1>6 DEF HitsInv

LEMMA HitsNext ==
  ASSUME TypeOK, EventPath, HitsInv, [Next]_vars
  PROVE  HitsInv'
<1>1. ASSUME NEW s \in Sessions, Request(s) PROVE HitsInv'
  <2>1. ASSUME NEW op \in {"spec", "connect", "disconnect", "promote"}, NEW T,
               StartRegistry(s, op, T)
        PROVE  HitsInv'
    <3>1. /\ tx'[s].op = op /\ \A q \in Sessions \ {s} : tx'[q] = tx[q]
          /\ UNCHANGED <<hits, events, overlap>>
      BY <2>1 DEF StartRegistry, Begin, TypeOK, database, history
    <3>. QED BY <3>1, OthersKeepHits DEF Doing
  <2>. QED BY <1>1, <2>1, EventArrivesHits DEF Request, UploadSpec, Connect, Disconnect, Promote
<1>2. ASSUME NEW s \in Sessions, Finish(s), \A anomalous \in BOOLEAN : ~CommitEvent(s, anomalous)
      PROVE  HitsInv'
  <2>1. UNCHANGED <<hits, events, overlap>>
    BY <1>2 DEF Finish, CommitSpec, CommitConnect, CommitDisconnect, CommitPromote,
                BeginRecompute, CommitRecompute, Rejected, Abort, database, history
  <2>2. End(s) \/ ThenRecompute(s) \/ BeginRecompute(s)
    BY <1>2 DEF Finish, CommitSpec, CommitConnect, CommitDisconnect, CommitPromote,
                CommitRecompute, Rejected, Abort
  <2>3. tx'[s].op \in {"idle", "committed", "recompute"} /\ \A q \in Sessions \ {s} : tx'[q] = tx[q]
    BY <2>2 DEF End, ThenRecompute, BeginRecompute, Idle, TypeOK
  <2>. QED BY <2>1, <2>3, OthersKeepHits DEF Doing
<1>3. ASSUME NEW k \in AlertKey, AlertCloses(k) PROVE HitsInv'
  BY <1>3 DEF AlertCloses, history, HitsInv, HitsExact, Doing
<1>4. CASE UNCHANGED vars
  BY <1>4 DEF vars, database, history, HitsInv, HitsExact, Doing
<1>. QED BY <1>1, <1>2, <1>3, <1>4, CommitEventHits DEF Next, Finish

(* hit_count counts the events of a path exactly, whatever else overlaps,    *)
(* fails or is rolled back, unless two sessions have handled that very path  *)
(* at once.                                                                  *)
THEOREM HitsAreExact == Spec => []HitsExact
<1>1. Init => HitsInv
  BY DEF Init, HitsInv, HitsExact, EmptyDb, Doing, Idle
<1>2. TypeOK /\ EventPath /\ HitsInv /\ [Next]_vars => (TypeOK /\ EventPath /\ HitsInv)'
  BY TypeNext, EventPathNext, HitsNext
<1>3. HitsInv => HitsExact
  BY DEF HitsInv
<1>. QED BY <1>1, <1>2, <1>3, InitType, PTL DEF Spec
-----------------------------------------------------------------------------
(* Steps of overlapping sessions                                           *)

LEMMA Begun ==
  ASSUME TypeOK, NEW s \in Sessions, Request(s)
  PROVE  /\ tx[s] = Idle /\ tx'[s].snap = Db
         /\ tx'[s].op \in {"event", "spec", "connect", "disconnect", "promote"}
         /\ \A q \in Sessions \ {s} : tx'[q] = tx[q]
         /\ UNCHANGED <<known, hits, flag, shadow, open, aborts>>
         /\ overlap \subseteq overlap'
<1>1. ASSUME NEW op, NEW p, NEW T, Begin(s, op, p, T)
      PROVE  /\ tx[s] = Idle /\ tx'[s].snap = Db /\ tx'[s].op = op
             /\ \A q \in Sessions \ {s} : tx'[q] = tx[q]
  BY <1>1 DEF Begin, TypeOK
<1>2. ASSUME NEW p \in Paths, EventArrives(s, p)
      PROVE  /\ Begin(s, "event", p, {}) /\ overlap \subseteq overlap'
             /\ UNCHANGED <<known, hits, flag, shadow, open, aborts>>
  BY <1>2 DEF EventArrives, database
<1>3. ASSUME NEW op, NEW T, StartRegistry(s, op, T)
      PROVE  /\ Begin(s, op, NoPath, T) /\ overlap \subseteq overlap'
             /\ UNCHANGED <<known, hits, flag, shadow, open, aborts>>
  BY <1>3 DEF StartRegistry, database, history
<1>4. \/ \E p \in Paths : EventArrives(s, p)
      \/ \E op \in {"spec", "connect", "disconnect", "promote"}, T \in SUBSET Templates :
           StartRegistry(s, op, T)
  BY DEF Request, UploadSpec, Connect, Disconnect, Promote
<1>5. CASE \E p \in Paths : EventArrives(s, p)
  BY <1>1, <1>2, <1>5
<1>6. CASE \E op \in {"spec", "connect", "disconnect", "promote"}, T \in SUBSET Templates :
             StartRegistry(s, op, T)
  BY <1>1, <1>3, <1>6
<1>. QED BY <1>4, <1>5, <1>6

LEMMA Ended ==
  ASSUME TypeOK, NEW s \in Sessions, Finish(s)
  PROVE  /\ tx'[s].op \in {"idle", "committed", "recompute"}
         /\ tx'[s].op = "recompute" => BeginRecompute(s) /\ tx'[s].snap = Db
         /\ \A q \in Sessions \ {s} : tx'[q] = tx[q]
         /\ overlap' = overlap
<1>0. tx = [q \in Sessions |-> tx[q]]
  BY DEF TypeOK
<1>1. ASSUME End(s) \/ ThenRecompute(s)
      PROVE  /\ tx'[s].op \in {"idle", "committed"}
             /\ \A q \in Sessions \ {s} : tx'[q] = tx[q]
  BY <1>0, <1>1 DEF End, ThenRecompute, Idle
<1>2. ASSUME BeginRecompute(s)
      PROVE  /\ tx'[s].op = "recompute" /\ tx'[s].snap = Db
             /\ \A q \in Sessions \ {s} : tx'[q] = tx[q]
  <2>1. tx' = [tx EXCEPT ![s] = [tx[s] EXCEPT !.op = "recompute", !.snap = Db]]
    BY <1>0, <1>2 DEF BeginRecompute
  <2>2. tx[s] \in [op : {"idle", "event", "spec", "connect", "disconnect", "promote",
                        "committed", "recompute"},
                  path : Paths \cup {NoPath}, on : SUBSET Templates, snap : DbType]
    BY DEF TypeOK
  <2>3. tx'[s].op = "recompute" /\ tx'[s].snap = Db
    BY <1>0, <2>1, <2>2
  <2>. QED BY <1>0, <1>2, <2>1, <2>3
<1>3. End(s) \/ ThenRecompute(s) \/ BeginRecompute(s)
  BY DEF Finish, CommitEvent, CommitSpec, CommitConnect, CommitDisconnect, CommitPromote,
         CommitRecompute, Rejected, Abort
<1>4. overlap' = overlap
  BY DEF Finish, CommitEvent, CommitSpec, CommitConnect, CommitDisconnect, CommitPromote,
         CommitRecompute, BeginRecompute, Rejected, Abort, history
<1>5. CASE End(s) \/ ThenRecompute(s)
  BY <1>1, <1>4, <1>5
<1>6. CASE BeginRecompute(s)
  BY <1>2, <1>4, <1>6
<1>. QED BY <1>3, <1>5, <1>6

(* What a commit of an event writes, apart from alerts. *)
LEMMA EventWrites ==
  ASSUME TypeOK, EventPath, NEW s \in Sessions, NEW anomalous \in BOOLEAN,
         CommitEvent(s, anomalous)
  PROVE  LET S == tx[s].snap
             p == tx[s].path
             n == Norm[p]
         IN  /\ p \in Paths /\ n \in Templates /\ Doing(s, "event") /\ tx'[s] = Idle
             /\ \A q \in Sessions \ {s} : tx'[q] = tx[q]
             /\ known' = known /\ aborts' = aborts
             /\ hits'[n] = S.hits[n] + 1
             /\ flag'[n] = IF S.hits[n] = 0 \/ S.flag[n] # IsDocumented(S.known, p)
                           THEN IsDocumented(S.known, p) ELSE flag[n]
             /\ IsDocumented(S.known, p) => shadow' = shadow
             /\ \A m \in Templates \ {n} :
                  hits'[m] = hits[m] /\ flag'[m] = flag[m] /\ shadow'[m] = shadow[m]
<1>. DEFINE S == tx[s].snap
            p == tx[s].path
            n == Norm[p]
            documented == IsDocumented(S.known, p)
<1>1. p \in Paths /\ n \in Templates /\ Doing(s, "event")
  BY DEF CommitEvent, EventPath
<1>2. documented \in BOOLEAN
  BY DEF IsDocumented
<1>3. /\ hits' = [hits EXCEPT ![n] = S.hits[n] + 1]
      /\ flag' = IF S.hits[n] = 0 \/ S.flag[n] # documented
                 THEN [flag EXCEPT ![n] = documented] ELSE flag
      /\ shadow' = IF documented THEN shadow ELSE [shadow EXCEPT ![n] = S.shadow[n] + 1]
      /\ tx' = [tx EXCEPT ![s] = Idle]
      /\ known' = known /\ aborts' = aborts
  BY DEF CommitEvent, Count, End
<1>4. /\ hits \in [Templates -> Nat] /\ flag \in [Templates -> BOOLEAN]
      /\ shadow \in [Templates -> Nat] /\ tx \in [Sessions -> {tx[q] : q \in Sessions}]
  BY DEF TypeOK, Db, DbType
<1>. HIDE DEF documented
<1>5. tx'[s] = Idle /\ \A q \in Sessions \ {s} : tx'[q] = tx[q]
  BY <1>3, <1>4
<1>6. hits'[n] = S.hits[n] + 1 /\ \A m \in Templates \ {n} : hits'[m] = hits[m]
  BY <1>1, <1>3, <1>4
<1>7. /\ flag'[n] = IF S.hits[n] = 0 \/ S.flag[n] # documented THEN documented ELSE flag[n]
      /\ \A m \in Templates \ {n} : flag'[m] = flag[m]
  BY <1>1, <1>2, <1>3, <1>4
<1>8. /\ documented => shadow' = shadow
      /\ \A m \in Templates \ {n} : shadow'[m] = shadow[m]
  BY <1>1, <1>3, <1>4
<1>. QED BY <1>1, <1>3, <1>5, <1>6, <1>7, <1>8 DEF documented

-----------------------------------------------------------------------------
(* Deduplication                                                           *)

(* On a path that one session at a time handles, no alert has been raised    *)
(* since that session read the open ones.                                    *)
OpenInv ==
  /\ AlertsDeduplicated
  /\ \A s \in Sessions, k \in AlertKey :
       Doing(s, "event") /\ About(k) = Norm[tx[s].path] /\ About(k) \notin overlap
       => open[k] <= tx[s].snap.open[k]

LEMMA AlertKeys ==
  /\ \A p \in Paths : /\ <<"traffic_anomaly", p>> \in AlertKey
                      /\ About(<<"traffic_anomaly", p>>) = Norm[p]
  /\ \A n \in Templates : /\ <<"undocumented_api", n>> \in AlertKey
                          /\ About(<<"undocumented_api", n>>) = n
BY DEF AlertKey, About

(* Steps that raise no alert and begin no event. *)
LEMMA QuietOpen ==
  ASSUME OpenInv, overlap' = overlap, \A k \in AlertKey : open'[k] <= open[k],
         \A q \in Sessions : Doing(q, "event")' => tx'[q] = tx[q],
         \A k \in AlertKey : open[k] \in Nat /\ open'[k] \in Nat,
         \A q \in Sessions, k \in AlertKey : tx[q].snap.open[k] \in Nat
  PROVE  OpenInv'
<1>1. AlertsDeduplicated'
  BY DEF OpenInv, AlertsDeduplicated
<1>2. ASSUME NEW q \in Sessions, NEW k \in AlertKey,
             Doing(q, "event")', About(k) = Norm[tx'[q].path], About(k) \notin overlap'
      PROVE  open'[k] <= tx'[q].snap.open[k]
  <2>1. tx'[q] = tx[q] /\ Doing(q, "event")
    BY <1>2 DEF Doing
  <2>2. open[k] <= tx[q].snap.open[k]
    BY <1>2, <2>1 DEF OpenInv
  <2>. QED BY <2>1, <2>2
<1>3. \A k : About(k)' = About(k)
  BY DEF About
<1>. QED BY <1>1, <1>2, <1>3 DEF OpenInv

LEMMA CommitEventOpen ==
  ASSUME TypeOK, EventPath, HitsInv, OpenInv,
         NEW s \in Sessions, NEW anomalous \in BOOLEAN, CommitEvent(s, anomalous)
  PROVE  OpenInv'
<1>. DEFINE S == tx[s].snap
            p == tx[s].path
            n == Norm[p]
            raised == {k \in {<<"traffic_anomaly", p>>} : anomalous /\ ~RecentDuplicate(S, k)}
                      \cup {k \in {<<"undocumented_api", n>>} :
                              ~IsDocumented(S.known, p) /\ ~RecentDuplicate(S, k)}
<1>1. /\ p \in Paths /\ n \in Templates /\ Doing(s, "event") /\ tx'[s] = Idle
      /\ \A q \in Sessions \ {s} : tx'[q] = tx[q]
  BY EventWrites
<1>2. open' = [k \in AlertKey |-> IF k \in raised THEN open[k] + 1 ELSE open[k]]
  BY DEF CommitEvent
<1>3. overlap' = overlap
  BY DEF CommitEvent
<1>4. \A k \in AlertKey : open[k] \in Nat /\ S.open[k] \in Nat
  BY TxType DEF TypeOK, Db, DbType
<1>5. \A k \in raised : About(k) = n /\ ~(S.open[k] > 0)
  BY <1>1, AlertKeys DEF RecentDuplicate
<1>. HIDE DEF raised
<1>6. AlertsDeduplicated'
  <2>1. ASSUME NEW k \in AlertKey, About(k) \notin overlap PROVE open'[k] <= 1
    <3>1. CASE k \in raised
      <4>1. open[k] <= S.open[k] /\ ~(S.open[k] > 0)
        BY <1>1, <1>5, <2>1, <3>1 DEF OpenInv
      <4>. QED BY <1>2, <1>4, <3>1, <4>1
    <3>2. CASE k \notin raised
      BY <1>2, <2>1, <3>2 DEF OpenInv, AlertsDeduplicated
    <3>. QED BY <3>1, <3>2
  <2>. QED BY <1>3, <2>1 DEF AlertsDeduplicated, About
<1>7. ASSUME NEW q \in Sessions, NEW k \in AlertKey,
             Doing(q, "event")', About(k) = Norm[tx'[q].path], About(k) \notin overlap'
      PROVE  open'[k] <= tx'[q].snap.open[k]
  <2>1. q # s /\ tx'[q] = tx[q] /\ Doing(q, "event")
    BY <1>1, <1>7 DEF Doing, Idle
  <2>2. Norm[tx[q].path] # n
    BY <1>1, <1>3, <1>7, <2>1 DEF HitsInv
  <2>3. k \notin raised
    BY <1>5, <1>7, <2>1, <2>2
  <2>4. open[k] <= tx[q].snap.open[k]
    BY <1>3, <1>7, <2>1 DEF OpenInv
  <2>. QED BY <1>2, <2>1, <2>3, <2>4
<1>. QED BY <1>6, <1>7 DEF OpenInv, About

LEMMA OpenNext ==
  ASSUME TypeOK, TypeOK', EventPath, HitsInv, OpenInv, [Next]_vars
  PROVE  OpenInv'
<1>1. \A k \in AlertKey : open[k] \in Nat /\ open'[k] \in Nat
  BY DEF TypeOK, Db, DbType
<1>2. \A q \in Sessions, k \in AlertKey : tx[q].snap.open[k] \in Nat
  BY TxType DEF DbType
<1>3. ASSUME NEW s \in Sessions, Request(s) PROVE OpenInv'
  <2>1. /\ tx'[s].snap = Db /\ \A q \in Sessions \ {s} : tx'[q] = tx[q]
        /\ open' = open /\ overlap \subseteq overlap'
    BY <1>3, Begun
  <2>2. AlertsDeduplicated'
    BY <2>1 DEF OpenInv, AlertsDeduplicated, About
  <2>3. ASSUME NEW q \in Sessions, NEW k \in AlertKey,
               Doing(q, "event")', About(k) = Norm[tx'[q].path], About(k) \notin overlap'
        PROVE  open'[k] <= tx'[q].snap.open[k]
    <3>1. CASE q = s
      <4>1. tx'[q].snap.open[k] = open[k]
        BY <2>1, <3>1 DEF Db
      <4>. QED BY <1>1, <2>1, <4>1
    <3>2. CASE q # s
      BY <2>1, <2>3, <3>2 DEF OpenInv, Doing
    <3>. QED BY <3>1, <3>2
  <2>. QED BY <2>2, <2>3 DEF OpenInv, About
<1>4. ASSUME NEW s \in Sessions, Finish(s), \A anomalous \in BOOLEAN : ~CommitEvent(s, anomalous)
      PROVE  OpenInv'
  <2>1. open' = open
    BY <1>4 DEF Finish, CommitSpec, CommitConnect, CommitDisconnect, CommitPromote,
                CommitRecompute, BeginRecompute, Rejected, Abort, database
  <2>2. /\ overlap' = overlap /\ tx'[s].op # "event"
        /\ \A q \in Sessions \ {s} : tx'[q] = tx[q]
    BY <1>4, Ended
  <2>3. \A k \in AlertKey : open'[k] <= open[k]
    BY <1>1, <2>1
  <2>4. \A q \in Sessions : Doing(q, "event")' => tx'[q] = tx[q]
    BY <2>2 DEF Doing
  <2>. QED BY <1>1, <1>2, <2>2, <2>3, <2>4, QuietOpen
<1>5. ASSUME NEW k \in AlertKey, AlertCloses(k) PROVE OpenInv'
  <2>1. overlap' = overlap /\ tx' = tx /\ \A j \in AlertKey : open'[j] <= open[j]
    BY <1>1, <1>5 DEF AlertCloses, history, TypeOK, Db, DbType
  <2>. QED BY <1>1, <1>2, <2>1, QuietOpen
<1>6. CASE UNCHANGED vars
  <2>1. overlap' = overlap /\ tx' = tx /\ \A j \in AlertKey : open'[j] <= open[j]
    BY <1>1, <1>6 DEF vars, database, history
  <2>. QED BY <1>1, <1>2, <2>1, QuietOpen
<1>7. ASSUME NEW s \in Sessions, Finish(s) PROVE OpenInv'
  BY <1>4, <1>7, CommitEventOpen
<1>. QED BY <1>3, <1>5, <1>6, <1>7 DEF Next

(* No two alerts of a kind are open on a path, however many sessions overlap, *)
(* unless two of them handled that very path at once: recent_duplicate sees   *)
(* every alert that concerns it.                                             *)
THEOREM AlertsAreDeduplicated == Spec => []AlertsDeduplicated
<1>1. Init => HitsInv /\ OpenInv
  BY DEF Init, HitsInv, HitsExact, OpenInv, AlertsDeduplicated, EmptyDb, Doing, Idle
<1>2. TypeOK /\ EventPath /\ HitsInv /\ OpenInv /\ [Next]_vars
      => (TypeOK /\ EventPath /\ HitsInv /\ OpenInv)'
  BY TypeNext, EventPathNext, HitsNext, OpenNext
<1>3. OpenInv => AlertsDeduplicated
  BY DEF OpenInv
<1>. QED BY <1>1, <1>2, <1>3, InitType, PTL DEF Spec

-----------------------------------------------------------------------------
(* Promotions                                                              *)

(* Which step changes a row of the registry, and how a promotion does. *)
LEMMA KnownWrites ==
  ASSUME TypeOK, NEW s \in Sessions, Finish(s), NEW t \in Templates, known'[t] # known[t]
  PROVE  /\ Changing(s)
         /\ known'[t] = "promotion" => Doing(s, "promote") /\ t \in tx[s].on
         /\ Doing(s, "promote") => known[t] = "no" /\ known'[t] = "promotion"
<1>1. ASSUME NEW source \in Source, Add(s, source)
      PROVE  known'[t] = source /\ known[t] = "no" /\ t \in tx[s].on
  <2>1. known'[t] = IF t \in Missing(s) THEN source ELSE known[t]
    BY <1>1 DEF Add
  <2>2. t \in Missing(s) => t \in tx[s].on /\ known[t] = "no"
    BY <1>1 DEF Add, RegistryConflict, Missing
  <2>. QED BY <2>1, <2>2
<1>2. CASE CommitSpec(s)
  BY <1>1, <1>2 DEF CommitSpec, Source, Doing, Changing
<1>3. CASE CommitConnect(s)
  BY <1>1, <1>3 DEF CommitConnect, Source, Doing, Changing
<1>4. CASE CommitPromote(s)
  BY <1>1, <1>4 DEF CommitPromote, Source, Doing, Changing
<1>5. CASE CommitDisconnect(s)
  BY <1>5 DEF CommitDisconnect, Doing, Changing
<1>6. known' = known \/ CommitSpec(s) \/ CommitConnect(s) \/ CommitPromote(s) \/ CommitDisconnect(s)
  BY DEF Finish, CommitEvent, BeginRecompute, CommitRecompute, Rejected, Abort, database
<1>. QED BY <1>2, <1>3, <1>4, <1>5, <1>6

(* An event under way on a promoted endpoint has read the promotion. *)
PromotedInv ==
  \A s \in Sessions : Doing(s, "event") =>
    LET n == Norm[tx[s].path]
    IN  known[n] = "promotion" => tx[s].snap.known[n] = "promotion"

LEMMA PromotedNext ==
  ASSUME TypeOK, EventPath, PromotedInv, PromotionsApart, [Next]_vars
  PROVE  PromotedInv'
<1>1. ASSUME NEW s \in Sessions, Request(s) PROVE PromotedInv'
  <2>1. /\ tx'[s].snap.known = known /\ known' = known
        /\ \A q \in Sessions \ {s} : tx'[q] = tx[q]
    BY <1>1, Begun DEF Db
  <2>. QED BY <2>1 DEF PromotedInv, Doing
<1>2. ASSUME NEW s \in Sessions, Finish(s) PROVE PromotedInv'
  <2>1. tx'[s].op # "event" /\ \A q \in Sessions \ {s} : tx'[q] = tx[q]
    BY <1>2, Ended
  <2>2. ASSUME NEW q \in Sessions, Doing(q, "event")', known'[Norm[tx'[q].path]] = "promotion"
        PROVE  tx'[q].snap.known[Norm[tx'[q].path]] = "promotion"
    <3>1. q # s /\ tx'[q] = tx[q] /\ Doing(q, "event")
      BY <2>1, <2>2 DEF Doing
    <3>2. Norm[tx[q].path] \in Templates
      BY <3>1 DEF EventPath
    <3>3. known[Norm[tx[q].path]] = "promotion"
      <4>. SUFFICES ASSUME known'[Norm[tx[q].path]] # known[Norm[tx[q].path]] PROVE FALSE
        BY <2>2, <3>1
      <4>1. Doing(s, "promote") /\ Norm[tx[q].path] \in tx[s].on
        BY <1>2, <2>2, <3>1, <3>2, KnownWrites
      <4>. QED BY <3>1, <4>1 DEF PromotionsApart
    <3>. QED BY <3>1, <3>3 DEF PromotedInv
  <2>. QED BY <2>2 DEF PromotedInv
<1>3. ASSUME NEW k \in AlertKey, AlertCloses(k) PROVE PromotedInv'
  BY <1>3 DEF AlertCloses, PromotedInv, Doing
<1>4. CASE UNCHANGED vars
  BY <1>4 DEF vars, database, PromotedInv, Doing
<1>. QED BY <1>1, <1>2, <1>3, <1>4 DEF Next

(* A normal form, registered, matches the paths it was computed from: true   *)
(* of paths without empty segments, as NormalCovered is.                     *)
NormalMatches == \A p \in Paths : <<Norm[p], p>> \in Covers

LEMMA PromotedStep ==
  ASSUME NormalMatches, TypeOK, EventPath, PromotedInv, [Next]_vars,
         NEW n \in Templates, known[n] = "promotion"
  PROVE  shadow'[n] = shadow[n]
<1>1. ASSUME NEW s \in Sessions, NEW anomalous \in BOOLEAN, CommitEvent(s, anomalous)
      PROVE  shadow'[n] = shadow[n]
  <2>. DEFINE p == tx[s].path
  <2>1. /\ p \in Paths /\ Doing(s, "event")
        /\ IsDocumented(tx[s].snap.known, p) => shadow' = shadow
        /\ Norm[p] # n => shadow'[n] = shadow[n]
    BY <1>1, EventWrites
  <2>2. ASSUME Norm[p] = n PROVE IsDocumented(tx[s].snap.known, p)
    <3>1. tx[s].snap.known[n] = "promotion"
      BY <2>1, <2>2 DEF PromotedInv
    <3>. QED BY <2>1, <2>2, <3>1 DEF IsDocumented, NormalMatches
  <2>. QED BY <2>1, <2>2
<1>2. ASSUME NEW s \in Sessions, Request(s) PROVE shadow'[n] = shadow[n]
  BY <1>2, Begun
<1>3. ASSUME NEW s \in Sessions, Finish(s), \A anomalous \in BOOLEAN : ~CommitEvent(s, anomalous)
      PROVE  shadow'[n] = shadow[n]
  BY <1>3 DEF Finish, CommitSpec, CommitConnect, CommitDisconnect, CommitPromote,
              BeginRecompute, CommitRecompute, Rejected, Abort, database
<1>4. ASSUME NEW k \in AlertKey, AlertCloses(k) PROVE shadow'[n] = shadow[n]
  BY <1>4 DEF AlertCloses
<1>5. CASE UNCHANGED vars
  BY <1>5 DEF vars, database
<1>. QED BY <1>1, <1>2, <1>3, <1>4, <1>5 DEF Next

(* Once promoted a shadow endpoint takes no further hit, on whichever        *)
(* concrete path and in whichever session it comes, as long as no event of   *)
(* the path is being handled while it is promoted.                           *)
THEOREM PromotionsStayQuiet ==
  ASSUME NormalMatches
  PROVE  Spec /\ []PromotionsApart => PromotedStaysQuiet
<1>1. Init => PromotedInv
  BY DEF Init, PromotedInv, Doing, Idle
<1>2. TypeOK /\ EventPath /\ PromotedInv /\ PromotionsApart /\ [Next]_vars
      => (TypeOK /\ EventPath /\ PromotedInv)'
  BY TypeNext, EventPathNext, PromotedNext
<1>3. TypeOK /\ EventPath /\ PromotedInv /\ [Next]_vars
      => [\A n \in Templates : known[n] = "promotion" => shadow'[n] = shadow[n]]_vars
  BY PromotedStep
<1>. QED BY <1>1, <1>2, <1>3, InitType, PTL DEF Spec, PromotedStaysQuiet

-----------------------------------------------------------------------------
(* Documented flags                                                        *)

(* A template that matches a normalized path matches the paths it stands    *)
(* for.  True of path_matches_template unless a path has empty segments,    *)
(* which normalize_path_for_discovery drops.                                *)
NormalCovered == \A p \in Paths, t \in Templates :
  <<t, Norm[p]>> \in Covers => <<t, p>> \in Covers

Reading(s) == tx[s].op \notin {"idle", "committed"}

(* What FlagsFresh says of one flag. *)
Agrees(n) ==
  /\ flag[n] => IsDocumented(known, n)
  /\ ~flag[n] => \A t \in Templates : <<t, n>> \in Covers => known[t] \in {"no", "promotion"}

(* The recompute of session s will write the flag of n. *)
WillWrite(s, n) ==
  /\ Doing(s, "recompute") /\ tx[s].snap.hits[n] > 0
  /\ tx[s].snap.flag[n] # IsDocumented(tx[s].snap.known, n)

(* Whoever reads the registry reads it as it is, and a flag that disagrees   *)
(* with it has a recompute to come, or one that will write it.               *)
RegistryInv ==
  \A s \in Sessions :
    /\ Reading(s) => tx[s].snap.known = known
    /\ \A n \in Templates : Reading(s) /\ tx[s].snap.hits[n] > 0 => hits[n] > 0

FlagsInv ==
  aborts = 0 => \A n \in Templates : hits[n] > 0 /\ PathsAgree(n) =>
    \/ Agrees(n)
    \/ \E s \in Sessions : Doing(s, "committed") \/ WillWrite(s, n)

LEMMA RegistryNext ==
  ASSUME TypeOK, EventPath, RegistryInv, RegistryApart, [Next]_vars
  PROVE  RegistryInv'
<1>0. \A n \in Templates : hits[n] \in Nat
  BY DEF TypeOK, Db, DbType
<1>1. ASSUME NEW s \in Sessions, Request(s) PROVE RegistryInv'
  <2>1. /\ tx'[s].snap.known = known /\ tx'[s].snap.hits = hits
        /\ known' = known /\ hits' = hits
        /\ \A q \in Sessions \ {s} : tx'[q] = tx[q]
    BY <1>1, Begun DEF Db
  <2>. QED BY <2>1 DEF RegistryInv, Reading
<1>2. ASSUME NEW s \in Sessions, Finish(s) PROVE RegistryInv'
  <2>1. /\ tx'[s].op \in {"idle", "committed", "recompute"}
        /\ tx'[s].op = "recompute" => BeginRecompute(s) /\ tx'[s].snap = Db
        /\ \A q \in Sessions \ {s} : tx'[q] = tx[q]
    BY <1>2, Ended
  <2>2. \A n \in Templates : hits[n] > 0 => hits'[n] > 0
    <3>1. ASSUME NEW anomalous \in BOOLEAN, CommitEvent(s, anomalous)
          PROVE  \A n \in Templates : hits[n] > 0 => hits'[n] > 0
      <4>1. Norm[tx[s].path] \in Templates
        BY <3>1, EventWrites
      <4>2. tx[s].snap.hits[Norm[tx[s].path]] \in Nat
        BY <4>1, TxType DEF DbType
      <4>3. /\ hits'[Norm[tx[s].path]] = tx[s].snap.hits[Norm[tx[s].path]] + 1
            /\ \A m \in Templates \ {Norm[tx[s].path]} : hits'[m] = hits[m]
        BY <3>1, EventWrites
      <4>. QED BY <4>2, <4>3
    <3>2. ASSUME \A anomalous \in BOOLEAN : ~CommitEvent(s, anomalous) PROVE hits' = hits
      BY <1>2, <3>2 DEF Finish, CommitSpec, CommitConnect, CommitDisconnect, CommitPromote,
                        CommitRecompute, BeginRecompute, Rejected, Abort, database
    <3>. QED BY <3>1, <3>2
  <2>3. ASSUME NEW q \in Sessions, Reading(q)'
        PROVE  /\ tx'[q].snap.known = known'
               /\ \A n \in Templates : tx'[q].snap.hits[n] > 0 => hits'[n] > 0
    <3>1. CASE q = s
      <4>1. BeginRecompute(s) /\ tx'[s].snap = Db
        BY <2>1, <2>3, <3>1 DEF Reading
      <4>2. known' = known /\ hits' = hits
        BY <4>1 DEF BeginRecompute, database
      <4>. QED BY <3>1, <4>1, <4>2 DEF Db
    <3>2. CASE q # s
      <4>1. tx'[q] = tx[q] /\ Reading(q)
        BY <2>1, <2>3, <3>2 DEF Reading
      <4>2. ~Changing(s)
        BY <3>2, <4>1 DEF RegistryApart, Reading
      <4>3. known' = known
        BY <1>2, <4>2 DEF Finish, CommitEvent, CommitSpec, CommitConnect, CommitDisconnect,
              CommitPromote, CommitRecompute, BeginRecompute, Rejected, Abort, database,
              Changing, Doing
      <4>. QED BY <2>2, <4>1, <4>3 DEF RegistryInv
    <3>. QED BY <3>1, <3>2
  <2>. QED BY <2>3 DEF RegistryInv
<1>3. ASSUME NEW k \in AlertKey, AlertCloses(k) PROVE RegistryInv'
  BY <1>3 DEF AlertCloses, RegistryInv, Reading
<1>4. CASE UNCHANGED vars
  BY <1>4 DEF vars, database, RegistryInv, Reading
<1>. QED BY <1>1, <1>2, <1>3, <1>4 DEF Next

(* Steps that leave the registry, the flags and the hits as they are, and no  *)
(* waiting recompute is given up.                                            *)
LEMMA FlagsKept ==
  ASSUME FlagsInv, UNCHANGED <<known, hits, flag>>, aborts' = 0 => aborts = 0,
         \A q \in Sessions : tx[q].op \in {"committed", "recompute"} => tx'[q] = tx[q]
  PROVE  FlagsInv'
<1>1. \A n \in Templates : PathsAgree(n)' = PathsAgree(n) /\ Agrees(n)' = Agrees(n)
  BY DEF PathsAgree, Agrees, IsDocumented
<1>2. ASSUME NEW n \in Templates, NEW s \in Sessions, Doing(s, "committed") \/ WillWrite(s, n)
      PROVE  (Doing(s, "committed") \/ WillWrite(s, n))'
  BY <1>2 DEF Doing, WillWrite, IsDocumented
<1>. QED BY <1>1, <1>2 DEF FlagsInv

(* An event sets the flag by its own path, which agrees for a path that no   *)
(* literal template singles out.                                             *)
LEMMA CommitEventFlags ==
  ASSUME NormalCovered, TypeOK, EventPath, RegistryInv, FlagsInv,
         NEW s \in Sessions, NEW anomalous \in BOOLEAN, CommitEvent(s, anomalous)
  PROVE  FlagsInv'
<1>. DEFINE S == tx[s].snap
            p == tx[s].path
            documented == IsDocumented(known, p)
<1>0. PICK n \in Templates : n = Norm[p]
  BY EventWrites
<1>1. /\ p \in Paths /\ Doing(s, "event")
      /\ \A q \in Sessions \ {s} : tx'[q] = tx[q]
      /\ known' = known /\ aborts' = aborts
      /\ flag'[n] = IF S.hits[n] = 0 \/ S.flag[n] # IsDocumented(S.known, p)
                    THEN IsDocumented(S.known, p) ELSE flag[n]
      /\ \A m \in Templates \ {n} : hits'[m] = hits[m] /\ flag'[m] = flag[m]
  BY <1>0, EventWrites
<1>2. S.known = known /\ (S.hits[n] > 0 => hits[n] > 0) /\ S.hits[n] \in Nat
  <2>1. S \in DbType
    BY TxType
  <2>. QED BY <1>1, <2>1 DEF RegistryInv, Reading, Doing, DbType
<1>3. flag'[n] = documented \/ (hits[n] > 0 /\ flag'[n] = flag[n])
  BY <1>1, <1>2
<1>4. \A m \in Templates : PathsAgree(m)' = PathsAgree(m)
  BY <1>1 DEF PathsAgree
<1>5. ASSUME NEW m \in Templates, NEW q \in Sessions, Doing(q, "committed") \/ WillWrite(q, m)
      PROVE  (Doing(q, "committed") \/ WillWrite(q, m))'
  <2>1. q # s /\ tx'[q] = tx[q]
    BY <1>1, <1>5 DEF Doing, WillWrite
  <2>. QED BY <1>5, <2>1 DEF Doing, WillWrite, IsDocumented
<1>6. ASSUME flag'[n] = documented, PathsAgree(n) PROVE Agrees(n)'
  <2>1. flag'[n] => IsDocumented(known, n)
    BY <1>0, <1>1, <1>6 DEF PathsAgree, IsDocumented
  <2>2. ~flag'[n] => \A t \in Templates : <<t, n>> \in Covers => known[t] = "no"
    BY <1>0, <1>1, <1>6 DEF NormalCovered, IsDocumented
  <2>. QED BY <1>1, <2>1, <2>2 DEF Agrees, IsDocumented
<1>7. ASSUME NEW m \in Templates, flag'[m] = flag[m] PROVE Agrees(m)' = Agrees(m)
  BY <1>1, <1>7 DEF Agrees, IsDocumented
<1>. HIDE DEF documented
<1>8. ASSUME aborts = 0, NEW m \in Templates, hits'[m] > 0, PathsAgree(m)
      PROVE  \/ Agrees(m)'
             \/ \E q \in Sessions : (Doing(q, "committed") \/ WillWrite(q, m))'
  <2>1. CASE m = n /\ flag'[n] = documented
    BY <1>6, <1>8, <2>1
  <2>2. CASE hits[m] > 0 /\ flag'[m] = flag[m]
    <3>1. \/ Agrees(m)
          \/ \E q \in Sessions : Doing(q, "committed") \/ WillWrite(q, m)
      BY <1>8, <2>2 DEF FlagsInv
    <3>. QED BY <1>5, <1>7, <2>2, <3>1
  <2>. QED BY <1>1, <1>3, <1>8, <2>1, <2>2
<1>. QED BY <1>1, <1>4, <1>8 DEF FlagsInv

LEMMA CommitRecomputeFlags ==
  ASSUME TypeOK, RegistryInv, FlagsInv, NEW s \in Sessions, CommitRecompute(s)
  PROVE  FlagsInv'
<1>. DEFINE S == tx[s].snap
<1>1. /\ Doing(s, "recompute") /\ tx' = [tx EXCEPT ![s] = Idle]
      /\ UNCHANGED <<known, hits, aborts>>
  BY DEF CommitRecompute, End
<1>2. S.known = known
  BY <1>1 DEF RegistryInv, Reading, Doing
<1>3. \A n \in Templates :
        flag'[n] = IF S.hits[n] > 0 /\ S.flag[n] # IsDocumented(known, n)
                   THEN IsDocumented(known, n) ELSE flag[n]
  BY <1>2 DEF CommitRecompute
<1>4. \A q \in Sessions \ {s} : tx'[q] = tx[q]
  BY <1>1 DEF TypeOK
<1>5. ASSUME NEW n \in Templates, flag'[n] = IsDocumented(known, n) PROVE Agrees(n)'
  BY <1>1, <1>5 DEF Agrees, IsDocumented
<1>6. ASSUME NEW n \in Templates, flag'[n] = flag[n], Agrees(n) PROVE Agrees(n)'
  BY <1>1, <1>6 DEF Agrees, IsDocumented
<1>7. ASSUME NEW n \in Templates, NEW q \in Sessions, Doing(q, "committed") \/ WillWrite(q, n)
      PROVE  Agrees(n)' \/ (Doing(q, "committed") \/ WillWrite(q, n))'
  <2>1. CASE q = s
    <3>1. S.hits[n] > 0 /\ S.flag[n] # IsDocumented(known, n)
      BY <1>1, <1>2, <1>7, <2>1 DEF WillWrite, Doing
    <3>. QED BY <1>3, <1>5, <3>1
  <2>2. CASE q # s
    BY <1>4, <1>7, <2>2 DEF Doing, WillWrite, IsDocumented
  <2>. QED BY <2>1, <2>2
<1>8. \A n \in Templates : PathsAgree(n)' = PathsAgree(n)
  BY <1>1 DEF PathsAgree
<1>9. ASSUME aborts = 0, NEW n \in Templates, hits[n] > 0, PathsAgree(n)
      PROVE  \/ Agrees(n)'
             \/ \E q \in Sessions : (Doing(q, "committed") \/ WillWrite(q, n))'
  <2>1. CASE Agrees(n)
    BY <1>3, <1>5, <1>6, <2>1
  <2>2. CASE \E q \in Sessions : Doing(q, "committed") \/ WillWrite(q, n)
    BY <1>7, <2>2
  <2>. QED BY <1>9, <2>1, <2>2 DEF FlagsInv
<1>. QED BY <1>1, <1>8, <1>9 DEF FlagsInv

(* A promotion registers rows and recomputes nothing: flags that were off    *)
(* stay off, which FlagsFresh allows.                                        *)
LEMMA CommitPromoteFlags ==
  ASSUME TypeOK, RegistryApart, FlagsInv, NEW s \in Sessions, CommitPromote(s)
  PROVE  FlagsInv'
<1>1. /\ Doing(s, "promote") /\ tx' = [tx EXCEPT ![s] = Idle]
      /\ UNCHANGED <<hits, flag, aborts>>
  BY DEF CommitPromote, End
<1>2. ASSUME NEW t \in Templates
      PROVE  known'[t] = known[t] \/ (known[t] = "no" /\ known'[t] = "promotion")
  BY <1>1, KnownWrites DEF Finish
<1>3. \A n \in Templates : PathsAgree(n)' => PathsAgree(n)
  BY <1>2 DEF PathsAgree
<1>4. \A n \in Templates : IsDocumented(known, n) => IsDocumented(known', n)
  BY <1>2 DEF IsDocumented
<1>5. ASSUME NEW n \in Templates, Agrees(n) PROVE Agrees(n)'
  BY <1>1, <1>2, <1>4, <1>5 DEF Agrees
<1>6. ASSUME NEW n \in Templates, NEW q \in Sessions, Doing(q, "committed") \/ WillWrite(q, n)
      PROVE  (Doing(q, "committed") \/ WillWrite(q, n))'
  <2>1. q # s
    BY <1>1, <1>6 DEF Doing, WillWrite
  <2>2. tx'[q] = tx[q]
    BY <1>1, <2>1 DEF TypeOK
  <2>3. Doing(q, "committed")
    BY <1>1, <1>6, <2>1 DEF RegistryApart, Changing, Doing, WillWrite
  <2>. QED BY <2>2, <2>3 DEF Doing
<1>. QED BY <1>1, <1>3, <1>5, <1>6 DEF FlagsInv

LEMMA FlagsNext ==
  ASSUME NormalCovered, TypeOK, EventPath, RegistryInv, FlagsInv, RegistryApart, [Next]_vars
  PROVE  FlagsInv'
<1>1. ASSUME NEW s \in Sessions, Request(s) PROVE FlagsInv'
  <2>1. /\ tx[s] = Idle /\ UNCHANGED <<known, hits, flag, aborts>>
        /\ \A q \in Sessions \ {s} : tx'[q] = tx[q]
    BY <1>1, Begun
  <2>. QED BY <2>1, FlagsKept DEF Idle
<1>2. ASSUME NEW s \in Sessions, CommitSpec(s) \/ CommitConnect(s) \/ CommitDisconnect(s)
      PROVE  FlagsInv'
  <2>1. tx'[s].op = "committed"
    BY <1>2 DEF CommitSpec, CommitConnect, CommitDisconnect, ThenRecompute, Idle, TypeOK
  <2>. QED BY <2>1 DEF FlagsInv, Doing
<1>3. ASSUME NEW s \in Sessions, BeginRecompute(s) PROVE FlagsInv'
  <2>1. UNCHANGED <<known, hits, flag, aborts>>
    BY <1>3 DEF BeginRecompute, database
  <2>2. /\ tx'[s].op = "recompute" /\ tx'[s].snap = Db
        /\ \A q \in Sessions \ {s} : tx'[q] = tx[q]
    <3>1. /\ tx'[s].op = "recompute" => tx'[s].snap = Db
          /\ \A q \in Sessions \ {s} : tx'[q] = tx[q]
      BY <1>3, Ended DEF Finish
    <3>2. tx'[s].op = "recompute"
      BY <1>3, TxType DEF BeginRecompute, TypeOK
    <3>. QED BY <3>1, <3>2
  <2>3. ASSUME NEW n \in Templates, hits[n] > 0 PROVE Agrees(n)' \/ WillWrite(s, n)'
    <3>1. flag[n] \in BOOLEAN /\ IsDocumented(known, n) \in BOOLEAN
      BY DEF TypeOK, Db, DbType, IsDocumented
    <3>2. CASE flag[n] = IsDocumented(known, n)
      BY <2>1, <3>2 DEF Agrees, IsDocumented
    <3>3. CASE flag[n] # IsDocumented(known, n)
      <4>1. /\ Doing(s, "recompute")' /\ tx'[s].snap.hits = hits
            /\ tx'[s].snap.flag = flag /\ tx'[s].snap.known = known
        BY <2>2 DEF Doing, Db
      <4>2. tx'[s].snap.hits[n] > 0 /\ tx'[s].snap.flag[n] # IsDocumented(tx'[s].snap.known, n)
        BY <2>3, <3>3, <4>1
      <4>. QED BY <4>1, <4>2 DEF WillWrite, IsDocumented
    <3>. QED BY <3>2, <3>3
  <2>. QED BY <2>1, <2>3 DEF FlagsInv
<1>4. ASSUME NEW s \in Sessions, Rejected(s) PROVE FlagsInv'
  <2>1. /\ tx[s].op \notin {"committed", "recompute"} /\ UNCHANGED <<known, hits, flag, aborts>>
        /\ tx' = [tx EXCEPT ![s] = Idle]
    BY <1>4 DEF Rejected, Conflict, Doing, database, End
  <2>2. \A q \in Sessions \ {s} : tx'[q] = tx[q]
    BY <2>1 DEF TypeOK
  <2>. QED BY <2>1, <2>2, FlagsKept
<1>5. ASSUME NEW s \in Sessions, Abort(s) PROVE FlagsInv'
  <2>1. aborts' # 0
    BY <1>5 DEF Abort, TypeOK
  <2>. QED BY <2>1 DEF FlagsInv
<1>6. ASSUME NEW k \in AlertKey, AlertCloses(k) PROVE FlagsInv'
  BY <1>6, FlagsKept DEF AlertCloses
<1>7. CASE UNCHANGED vars
  BY <1>7, FlagsKept DEF vars, database
<1>8. ASSUME NEW s \in Sessions, Finish(s) PROVE FlagsInv'
  BY <1>2, <1>3, <1>4, <1>5, <1>8, CommitEventFlags, CommitRecomputeFlags, CommitPromoteFlags
     DEF Finish
<1>. QED BY <1>1, <1>6, <1>7, <1>8 DEF Next

(* The documented flags agree with the registry whenever no session is open  *)
(* and none has died, as FlagsFresh says, however many events and recomputes *)
(* overlap, as long as nothing that reads the registry overlaps a change of   *)
(* it; for any matching of templates that covers the paths a normal form      *)
(* stands for.                                                               *)
THEOREM FlagsStayFresh ==
  ASSUME NormalCovered
  PROVE  Spec /\ []RegistryApart => []FlagsFresh
<1>1. Init => RegistryInv /\ FlagsInv
  BY DEF Init, RegistryInv, FlagsInv, Reading, EmptyDb, Idle
<1>2. TypeOK /\ EventPath /\ RegistryInv /\ FlagsInv /\ RegistryApart /\ [Next]_vars
      => (TypeOK /\ EventPath /\ RegistryInv /\ FlagsInv)'
  BY TypeNext, EventPathNext, RegistryNext, FlagsNext
<1>3. FlagsInv => FlagsFresh
  BY DEF FlagsInv, FlagsFresh, Agrees, Doing, WillWrite, Idle
<1>. QED BY <1>1, <1>2, <1>3, InitType, PTL DEF Spec

(* Sessions that run one at a time satisfy both conditions. *)
THEOREM SerialSessionsAreSafe ==
  ASSUME NormalCovered, NormalMatches, \A s, q \in Sessions : s = q
  PROVE  Spec => []FlagsFresh /\ PromotedStaysQuiet
<1>1. RegistryApart /\ PromotionsApart
  BY DEF RegistryApart, PromotionsApart, Doing
<1>. QED BY <1>1, FlagsStayFresh, PromotionsStayQuiet, PTL
=============================================================================
