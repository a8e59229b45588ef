------------------------------ MODULE Discovery ------------------------------
(***************************************************************************)
(* Traffic against the registry of one organization and one HTTP method:   *)
(* process_single_event, the registry imports, provider connections and    *)
(* shadow promotion.  Each runs in a database session of its own under     *)
(* REPEATABLE READ: it reads one snapshot and, on commit, writes the       *)
(* columns it changed over whatever others have committed since; inserting *)
(* a row another session has inserted, or updating one it has deleted,     *)
(* raises and rolls the session back.                                      *)
(***************************************************************************)
EXTENDS Naturals, FiniteSets

CONSTANTS
  Paths,       \* request paths as captured
  Templates,   \* path templates and normalized paths
  Norm,        \* Norm[p]: normalize_path_for_discovery(p)
  Covers,      \* <<t, x>>: path_matches_template(x, t), x a path or a normalized path
  NoPath,
  Catalog,     \* the endpoints of the provider a connection is made to
  Promotable,  \* the shadow endpoints operators promote
  Sessions,    \* workers and API requests with a database session open
  MaxEvents,   \* bound: traffic events
  MaxAborts    \* bound: sessions that fail without a conflict

ASSUME DiscoveryAssumption ==
  /\ Norm \in [Paths -> Templates]
  /\ Covers \subseteq Templates \X (Paths \cup Templates)
  /\ NoPath \notin Paths
  /\ Catalog \subseteq Templates /\ Promotable \subseteq Templates
  /\ MaxEvents \in Nat /\ MaxAborts \in Nat

Source == {"spec", "connection", "promotion"}
AlertKey == ({"traffic_anomaly"} \X Paths) \cup ({"undocumented_api"} \X Templates)

VARIABLES
  known,      \* known[t]: KnownEndpoint.source, "no" if there is no row
  connected,  \* the connection exists (MonitoredApi)
  hits,       \* hits[n]: DiscoveredEndpoint.hit_count, 0 if there is no row
  flag,       \* flag[n]: DiscoveredEndpoint.documented
  shadow,     \* shadow[n]: ShadowEndpoint.hit_count, 0 if there is no row
  open,       \* open[k]: unacknowledged alerts within their cooldown window
  tx,         \* tx[s]: what session s is doing, and the snapshot it reads
  events,     \* events[n]: traffic_events rows whose path normalizes to n
  alerted,    \* alert keys that were ever raised (history)
  overlap,    \* normalized paths two sessions have handled at once (history)
  arrived, aborts   \* what the bounds count

database == <<known, connected, hits, flag, shadow, open>>
history == <<events, alerted, overlap>>
vars == <<database, tx, history, arrived, aborts>>

Db == [known |-> known, connected |-> connected, hits |-> hits, flag |-> flag,
       shadow |-> shadow, open |-> open]

DbType == [known : [Templates -> Source \cup {"no"}], connected : BOOLEAN,
           hits : [Templates -> Nat], flag : [Templates -> BOOLEAN],
           shadow : [Templates -> Nat], open : [AlertKey -> Nat]]

EmptyDb == [known |-> [t \in Templates |-> "no"], connected |-> FALSE,
            hits |-> [t \in Templates |-> 0], flag |-> [t \in Templates |-> FALSE],
            shadow |-> [t \in Templates |-> 0], open |-> [k \in AlertKey |-> 0]]

Idle == [op |-> "idle", path |-> NoPath, on |-> {}, snap |-> EmptyDb]

TypeOK ==
  /\ Db \in DbType
  /\ tx \in [Sessions ->
       [op : {"idle", "event", "spec", "connect", "disconnect", "promote", "committed",
              "recompute"},
        path : Paths \cup {NoPath}, on : SUBSET Templates, snap : DbType]]
  /\ events \in [Templates -> Nat] /\ alerted \subseteq AlertKey
  /\ overlap \subseteq Templates
  /\ arrived \in 0..MaxEvents /\ aborts \in 0..MaxAborts

Init ==
  /\ known = EmptyDb.known /\ connected = FALSE
  /\ hits = EmptyDb.hits /\ flag = EmptyDb.flag
  /\ shadow = EmptyDb.shadow /\ open = EmptyDb.open
  /\ tx = [s \in Sessions |-> Idle]
  /\ events = [n \in Templates |-> 0]
  /\ alerted = {} /\ overlap = {}
  /\ arrived = 0 /\ aborts = 0

-----------------------------------------------------------------------------
(* Sessions                                                                *)

Begin(s, op, p, T) ==
  /\ tx[s] = Idle
  /\ tx' = [tx EXCEPT ![s] = [op |-> op, path |-> p, on |-> T, snap |-> Db]]

Doing(s, op) == tx[s].op = op

End(s) == tx' = [tx EXCEPT ![s] = Idle]

(* Mutant: templates are compared as plain strings. *)
IsDocumentedLiterally(registry, x) == x \in Templates /\ registry[x] # "no"

(* is_documented, for a captured or a normalized path. *)
IsDocumented(registry, x) ==
  \E t \in Templates : registry[t] # "no" /\ <<t, x>> \in Covers

-----------------------------------------------------------------------------
(* process_single_event                                                    *)

EventArrives(s, p) ==
  /\ arrived < MaxEvents /\ arrived' = arrived + 1
  /\ Begin(s, "event", p, {})
  /\ overlap' = IF \E q \in Sessions : Doing(q, "event") /\ Norm[tx[q].path] = Norm[p]
                THEN overlap \cup {Norm[p]} ELSE overlap
  /\ UNCHANGED <<database, events, alerted, aborts>>

(* The row inserted by another session meanwhile, or the registered row     *)
(* whose last_traffic_at is touched and which another session has deleted.  *)
EventConflict(s) ==
  LET S == tx[s].snap
      n == Norm[tx[s].path]
  IN  \/ S.hits[n] = 0 /\ hits[n] > 0
      \/ ~IsDocumented(S.known, tx[s].path) /\ S.shadow[n] = 0 /\ shadow[n] > 0
      \/ \E t \in Templates : /\ S.known[t] # "no" /\ known[t] = "no"
                              /\ <<t, tx[s].path>> \in Covers

(* Mutants: any open alert of the kind suppresses the next, or none does. *)
RecentOfAnyPath(S, k) == \E j \in AlertKey : j[1] = k[1] /\ S.open[j] > 0
NeverDuplicate(S, k) == FALSE

(* recent_duplicate, as the session's snapshot shows it. *)
RecentDuplicate(S, k) == S.open[k] > 0

(* Mutants: an existing row starts over, and a count that runs backwards. *)
CountStartsOver(column, S, n) == [column EXCEPT ![n] = 1]
CountDown(column, S, n) == [column EXCEPT ![n] = S[n] - 1]

(* upsert_discovered and upsert_shadow_endpoint add one to the count read. *)
Count(column, S, n) == [column EXCEPT ![n] = S[n] + 1]

CommitEvent(s, anomalous) ==
  LET S == tx[s].snap
      p == tx[s].path
      n == Norm[p]
      documented == IsDocumented(S.known, p)
      raised == {k \in {<<"traffic_anomaly", p>>} : anomalous /\ ~RecentDuplicate(S, k)}
                \cup {k \in {<<"undocumented_api", n>>} :
                        ~documented /\ ~RecentDuplicate(S, k)}
  IN  /\ Doing(s, "event") /\ ~EventConflict(s)
      /\ hits' = Count(hits, S.hits, n)
      /\ flag' = IF S.hits[n] = 0 \/ S.flag[n] # documented
                 THEN [flag EXCEPT ![n] = documented] ELSE flag
      /\ shadow' = IF documented THEN shadow ELSE Count(shadow, S.shadow, n)
      /\ open' = [k \in AlertKey |-> IF k \in raised THEN open[k] + 1 ELSE open[k]]
      /\ alerted' = alerted \cup raised
      /\ events' = [events EXCEPT ![n] = @ + 1]
      /\ End(s)
      /\ UNCHANGED <<known, connected, overlap, arrived, aborts>>

-----------------------------------------------------------------------------
(* Registry: register_paths adds the templates that are missing and commits; *)
(* a second transaction then recomputes the documented flags.                *)

StartRegistry(s, op, T) ==
  /\ Begin(s, op, NoPath, T)
  /\ UNCHANGED <<database, history, arrived, aborts>>

UploadSpec(s, T) == T # {} /\ StartRegistry(s, "spec", T)
Connect(s) == ~connected /\ StartRegistry(s, "connect", Catalog)
Disconnect(s) == connected /\ StartRegistry(s, "disconnect", {})
Promote(s, n) == shadow[n] > 0 /\ StartRegistry(s, "promote", {n})

Missing(s) == {t \in tx[s].on : tx[s].snap.known[t] = "no"}

RegistryConflict(s) ==
  \/ \E t \in Missing(s) : known[t] # "no"
  \/ Doing(s, "connect") /\ connected

Add(s, source) ==
  /\ ~RegistryConflict(s)
  /\ known' = [t \in Templates |-> IF t \in Missing(s) THEN source ELSE known[t]]

(* Mutant: the flags of traffic already seen are left as they are. *)
NoRecompute(s) == End(s)

ThenRecompute(s) == tx' = [tx EXCEPT ![s] = [Idle EXCEPT !.op = "committed"]]

CommitSpec(s) ==
  /\ Doing(s, "spec")
  /\ Add(s, "spec")
  /\ ThenRecompute(s)
  /\ UNCHANGED <<connected, hits, flag, shadow, open, history, arrived, aborts>>

CommitConnect(s) ==
  /\ Doing(s, "connect")
  /\ Add(s, "connection")
  /\ connected' = TRUE
  /\ ThenRecompute(s)
  /\ UNCHANGED <<hits, flag, shadow, open, history, arrived, aborts>>

(* delete_connection removes every endpoint with the connection's source. *)
CommitDisconnect(s) ==
  /\ Doing(s, "disconnect")
  /\ known' = [t \in Templates |-> IF known[t] = "connection" THEN "no" ELSE known[t]]
  /\ connected' = FALSE
  /\ ThenRecompute(s)
  /\ UNCHANGED <<hits, flag, shadow, open, history, arrived, aborts>>

(* add_shadow_to_registry registers the normalized path and recomputes nothing. *)
CommitPromote(s) ==
  /\ Doing(s, "promote")
  /\ Add(s, "promotion")
  /\ End(s)
  /\ UNCHANGED <<connected, hits, flag, shadow, open, history, arrived, aborts>>

(* recompute_discovered_documented_flags *)
BeginRecompute(s) ==
  /\ Doing(s, "committed")
  /\ tx' = [tx EXCEPT ![s].op = "recompute", ![s].snap = Db]
  /\ UNCHANGED <<database, history, arrived, aborts>>

CommitRecompute(s) ==
  LET S == tx[s].snap
      documented(n) == IsDocumented(S.known, n)
  IN  /\ Doing(s, "recompute")
      /\ flag' = [n \in Templates |-> IF S.hits[n] > 0 /\ S.flag[n] # documented(n)
                                      THEN documented(n) ELSE flag[n]]
      /\ End(s)
      /\ UNCHANGED <<known, connected, hits, shadow, open, history, arrived, aborts>>

-----------------------------------------------------------------------------
(* Rollbacks and alerts                                                    *)

Conflict(s) ==
  \/ Doing(s, "event") /\ EventConflict(s)
  \/ tx[s].op \in {"spec", "connect", "promote"} /\ RegistryConflict(s)

Rejected(s) == Conflict(s) /\ End(s) /\ UNCHANGED <<database, history, arrived, aborts>>

(* A deadlock, a lost connection or a dead process. *)
Abort(s) ==
  /\ tx[s] # Idle
  /\ aborts < MaxAborts /\ aborts' = aborts + 1
  /\ End(s)
  /\ UNCHANGED <<database, history, arrived>>

(* An alert is acknowledged, or grows older than its cooldown. *)
AlertCloses(k) ==
  /\ open[k] > 0
  /\ open' = [open EXCEPT ![k] = @ - 1]
  /\ UNCHANGED <<known, connected, hits, flag, shadow, tx, history, arrived, aborts>>

Request(s) ==
  \/ \E p \in Paths : EventArrives(s, p)
  \/ \E T \in SUBSET Templates : UploadSpec(s, T)
  \/ Connect(s) \/ Disconnect(s)
  \/ \E n \in Promotable : Promote(s, n)

Finish(s) ==
  \/ \E anomalous \in BOOLEAN : CommitEvent(s, anomalous)
  \/ CommitSpec(s) \/ CommitConnect(s) \/ CommitDisconnect(s) \/ CommitPromote(s)
  \/ BeginRecompute(s) \/ CommitRecompute(s)
  \/ Rejected(s) \/ Abort(s)

Next ==
  \/ \E s \in Sessions : Request(s) \/ Finish(s)
  \/ \E k \in AlertKey : AlertCloses(k)

Spec == Init /\ [][Next]_vars

-----------------------------------------------------------------------------
(* Properties                                                              *)

(* hit_count is the number of events, through rollbacks, conflicting inserts *)
(* and registry changes, on every path that no two sessions handled at once. *)
HitsExact == \A n \in Templates \ overlap : hits[n] = events[n]

(* No shadow endpoint without an alert: whichever session inserts the row,   *)
(* an undocumented_api alert for that path has been raised.                  *)
ShadowWasAlerted ==
  \A n \in Templates : shadow[n] > 0 => <<"undocumented_api", n>> \in alerted

(* The normalized path that an alert is about. *)
About(k) == IF k[1] = "traffic_anomaly" THEN Norm[k[2]] ELSE k[2]

(* At most one alert of a kind is open within its cooldown ("deduplicated    *)
(* alerts"), on every path that no two sessions handled at once.             *)
AlertsDeduplicated == \A k \in AlertKey : About(k) \in overlap \/ open[k] <= 1

(* What overlapping sessions must not do to each other: an event is handled  *)
(* while its path is being promoted, or anything that reads the registry is  *)
(* under way while a change of the registry is.                              *)
PromotionsApart ==
  \A s, q \in Sessions : Doing(s, "promote") /\ Doing(q, "event") =>
    Norm[tx[q].path] \notin tx[s].on

Changing(s) == tx[s].op \in {"spec", "connect", "disconnect", "promote"}

RegistryApart ==
  \A s, q \in Sessions : s # q /\ Changing(s) => tx[q].op \in {"idle", "committed"}

(* Once a shadow endpoint is promoted its traffic is documented: no further  *)
(* hit reaches the shadow row, whichever concrete path it came in on.  True  *)
(* of overlapping sessions as long as PromotionsApart is.                    *)
PromotedStaysQuiet ==
  [][\A n \in Templates : known[n] = "promotion" => shadow'[n] = shadow[n]]_vars

(* No registered template matches a path without matching its normal form.   *)
(* Otherwise an event sets the flag of n by its own path and the recompute   *)
(* sets it by n, and the two may go on disagreeing.                          *)
PathsAgree(n) ==
  \A p \in Paths : Norm[p] = n =>
    \A t \in Templates : known[t] # "no" /\ <<t, p>> \in Covers => <<t, n>> \in Covers

(* While no session is open and none has died, the documented flag that the  *)
(* inventory lists endpoints by agrees with the registry, except that a      *)
(* promotion leaves the flag to the next request, and traffic on a literally *)
(* registered path (PathsAgree) turns it on for its siblings.  True of       *)
(* overlapping sessions as long as RegistryApart is.                         *)
FlagsFresh ==
  (aborts = 0 /\ \A s \in Sessions : tx[s] = Idle) =>
    \A n \in Templates : hits[n] > 0 /\ PathsAgree(n) =>
      /\ flag[n] => IsDocumented(known, n)
      /\ ~flag[n] => \A t \in Templates : <<t, n>> \in Covers =>
                       known[t] \in {"no", "promotion"}
=============================================================================
