----------------------------- MODULE TrafficJobs -----------------------------
(***************************************************************************)
(* What becomes of captured traffic: the daily rollup, the prune job and   *)
(* the erasure of one client, which all delete traffic_events in chunks    *)
(* with a commit of their own, and the lifecycle of one registered         *)
(* endpoint, which is computed from the rows that are left.  Each job and  *)
(* each request has a thread and a database session; a chunk, a recompute  *)
(* or a request reads a snapshot and commits later.                        *)
(***************************************************************************)
EXTENDS Naturals, FiniteSets

CONSTANTS
  Events,      \* 1..n: the requests captured, by id
  Docs,        \* those that match the registered endpoint
  Personal,    \* those of the client that asks to be forgotten
  Rollups,     \* rollup jobs, one per replica that may believe it leads
  Sessions,    \* recomputes and operators' requests with a transaction open
  ChunkSize,
  Day, Week, Fortnight, Month,  \* 1, 7, 14 and 30 days in the model's time unit
  Window,      \* zombie_window_days
  LowTraffic,  \* requests per window that zombie_low_traffic_rpd amounts to
  MaxOpen,     \* bound: database sessions in use at once
  Never

Status == {"ACTIVE", "DECLINING", "IDLE", "ZOMBIE", "DEAD", "RETIRED"}

ASSUME JobsAssumption ==
  /\ Events \subseteq Nat \ {0} /\ IsFiniteSet(Events)
  /\ ChunkSize \in Nat \ {0}
  /\ {Day, Week, Fortnight, Month, Window, LowTraffic, MaxOpen} \subseteq Nat
  /\ 0 < Day /\ Day <= Week /\ Week < Fortnight /\ Fortnight < Month
  /\ Never \notin Nat

VARIABLES
  age,        \* age[e]: time since e was captured, Never before
  rows,       \* traffic_events
  lastSeen,   \* time since KnownEndpoint.last_traffic_at, Never if NULL
  summary,    \* TrafficDailySummary.request_count of the events' day, 0 if no row
  roll,       \* roll[j]: where rollup j stands
  prune,      \* where the prune job stands
  erase,      \* where the request to erase the client's rows stands
  state,      \* the endpoint's row of ZombieEndpointState, status "none" if there is none
  tx,         \* tx[s]: the row that session s has read, and what it makes of it
  counted,    \* events whose chunk was added to the summary (history)
  erased,     \* events deleted for their client (history)
  doubled,    \* two rollups were at work at once (history)
  crossed     \* the row was written for one that had meanwhile been retired, or was
              \* no longer, and no request has set it right since (history)

jobs == <<roll, prune, erase>>
endpoint == <<state, tx, crossed>>
vars == <<age, rows, lastSeen, summary, jobs, endpoint, counted, erased, doubled>>

Old == 1 + IF Window > Month THEN Window ELSE Month
Captured == {e \in Events : age[e] # Never}

Job == [step : {"off", "read", "write", "done"}, due : SUBSET Events,
        ids : SUBSET Events, old : Nat]
Off == [step |-> "off", due |-> {}, ids |-> {}, old |-> 0]

(* A job holds ids exactly between reading and deleting a chunk. *)
HoldsChunk(job) == job.ids # {} <=> job.step = "write"

State == [status : Status \cup {"none"}, retired : BOOLEAN]
NoState == [status |-> "none", retired |-> FALSE]
(* A session remembers of the row it has read whether there was one, whether *)
(* it was retired and showed so; and the status it will write, if another.   *)
Seen == [status : {"none", "live", "RETIRED"}, retired : BOOLEAN]
Transaction == [by : {"none", "recompute", "request"}, seen : Seen,
                status : Status \cup {"same"}, retired : BOOLEAN]
Closed == [by |-> "none", seen |-> NoState, status |-> "same", retired |-> FALSE]

TypeOK ==
  /\ age \in [Events -> 0..Old \cup {Never}] /\ rows \subseteq Captured
  /\ lastSeen \in 0..Old \cup {Never} /\ summary \in Nat
  /\ roll \in [Rollups -> Job] /\ prune \in Job /\ erase \in Job
  /\ \A j \in Rollups : HoldsChunk(roll[j])
  /\ HoldsChunk(prune) /\ HoldsChunk(erase)
  /\ state \in State /\ tx \in [Sessions -> Transaction]
  /\ counted \subseteq Captured /\ erased \subseteq Captured
  /\ doubled \in BOOLEAN /\ crossed \in BOOLEAN

Init ==
  /\ age = [e \in Events |-> Never] /\ rows = {} /\ lastSeen = Never /\ summary = 0
  /\ roll = [j \in Rollups |-> Off] /\ prune = Off /\ erase = Off
  /\ state = NoState /\ tx = [s \in Sessions |-> Closed]
  /\ counted = {} /\ erased = {} /\ doubled = FALSE /\ crossed = FALSE

-----------------------------------------------------------------------------
Working(job) == job.step \in {"read", "write"}

(* The connection pool has a session left. *)
SessionFree ==
  Cardinality({j \in Rollups : Working(roll[j])})
    + Cardinality({k \in 1..2 : Working(<<prune, erase>>[k])})
    + Cardinality({s \in Sessions : tx[s].by # "none"}) < MaxOpen

-----------------------------------------------------------------------------
(* Traffic and time                                                        *)

Capture(e) ==
  /\ age[e] = Never /\ \A d \in Events : d < e => age[d] # Never
  /\ age' = [age EXCEPT ![e] = 0]
  /\ rows' = rows \cup {e}
  /\ lastSeen' = IF e \in Docs THEN 0 ELSE lastSeen
  /\ UNCHANGED <<summary, jobs, endpoint, counted, erased, doubled>>

Older(a) == IF a = Never \/ a = Old THEN a ELSE a + 1

TimePasses ==
  /\ age' = [e \in Events |-> Older(age[e])]
  /\ lastSeen' = Older(lastSeen)
  /\ UNCHANGED <<rows, summary, jobs, endpoint, counted, erased, doubled>>

-----------------------------------------------------------------------------
(* Deleting in chunks                                                      *)

(* Mutant: the row that is exactly `keep` old goes too. *)
ExpiredAtOnce(keep) == {e \in rows : age[e] >= keep}

(* Rows with ts < now - keep.  The cutoff is computed once per run.         *)
Expired(keep) == {e \in rows : age[e] > keep}

FirstOf(S) == {e \in S : Cardinality({d \in S : d <= e}) <= ChunkSize}

(* LIMIT without ORDER BY returns any rows. *)
IsChunk(ids, S) ==
  /\ ids \subseteq S
  /\ Cardinality(ids) = IF Cardinality(S) < ChunkSize THEN Cardinality(S) ELSE ChunkSize

(* Mutant: a run ends when it has deleted fewer rows than a chunk. *)
EndOnFewDeleted(job, end) ==
  [job EXCEPT !.step = IF Cardinality(job.ids \cap rows) < ChunkSize THEN end ELSE "read",
              !.ids = {}]

(* Mutant: the deleted ids are not forgotten. *)
AfterChunkKeepsIds(job, end) ==
  [job EXCEPT !.step = IF Cardinality(job.ids) < ChunkSize THEN end ELSE "read"]

(* Fewer ids than the limit: no further chunk is read. *)
AfterChunk(job, end) ==
  [job EXCEPT !.step = IF Cardinality(job.ids) < ChunkSize THEN end ELSE "read", !.ids = {}]

StartRollup(j) ==
  /\ roll[j].step = "off" /\ SessionFree
  /\ roll' = [roll EXCEPT ![j] = [Off EXCEPT !.step = "read", !.due = Expired(Month)]]
  /\ doubled' = (doubled \/ \E k \in Rollups \ {j} : roll[k].step # "off")
  /\ UNCHANGED <<age, rows, lastSeen, summary, prune, erase, endpoint, counted, erased>>

ReadRollup(j) ==
  LET S == roll[j].due \cap rows
  IN  /\ roll[j].step = "read"
      /\ roll' = [roll EXCEPT ![j] =
           IF S = {} THEN Off
           ELSE [@ EXCEPT !.step = "write", !.ids = FirstOf(S), !.old = summary]]
      /\ UNCHANGED <<age, rows, lastSeen, summary, prune, erase, endpoint, counted,
                     erased, doubled>>

(* Mutant: the chunk is committed before its rows are deleted. *)
CommitRollupFirst(j) ==
  /\ roll[j].step = "write" /\ ~(roll[j].old = 0 /\ summary > 0)
  /\ summary' = roll[j].old + Cardinality(roll[j].ids)
  /\ counted' = counted \cup roll[j].ids
  /\ roll' = [roll EXCEPT ![j] = AfterChunk(@, "off")]
  /\ UNCHANGED <<age, rows, lastSeen, prune, erase, endpoint, erased, doubled>>

(* The count read plus the chunk's is written over what is there; a summary *)
(* row inserted meanwhile is a conflict.                                    *)
CommitRollup(j) ==
  /\ roll[j].step = "write" /\ ~(roll[j].old = 0 /\ summary > 0)
  /\ summary' = roll[j].old + Cardinality(roll[j].ids)
  /\ rows' = rows \ roll[j].ids
  /\ counted' = counted \cup roll[j].ids
  /\ roll' = [roll EXCEPT ![j] = AfterChunk(@, "off")]
  /\ UNCHANGED <<age, lastSeen, prune, erase, endpoint, erased, doubled>>

(* A conflict, an error or a dead process between two chunks, or in one.    *)
RollupFails(j) ==
  /\ roll[j].step # "off"
  /\ roll' = [roll EXCEPT ![j] = Off]
  /\ UNCHANGED <<age, rows, lastSeen, summary, prune, erase, endpoint, counted, erased,
                 doubled>>

StartPrune ==
  /\ prune.step = "off" /\ SessionFree
  /\ prune' = [Off EXCEPT !.step = "read", !.due = Expired(Window)]
  /\ UNCHANGED <<age, rows, lastSeen, summary, roll, erase, endpoint, counted, erased,
                 doubled>>

ReadPrune ==
  LET S == prune.due \cap rows
  IN  /\ prune.step = "read"
      /\ IF S = {} THEN prune' = Off
         ELSE \E ids \in SUBSET S :
                IsChunk(ids, S) /\ prune' = [prune EXCEPT !.step = "write", !.ids = ids]
      /\ UNCHANGED <<age, rows, lastSeen, summary, roll, erase, endpoint, counted, erased,
                     doubled>>

CommitPrune ==
  /\ prune.step = "write"
  /\ rows' = rows \ prune.ids
  /\ prune' = AfterChunk(prune, "off")
  /\ UNCHANGED <<age, lastSeen, summary, roll, erase, endpoint, counted, erased, doubled>>

PruneFails ==
  /\ prune.step # "off"
  /\ prune' = Off
  /\ UNCHANGED <<age, rows, lastSeen, summary, roll, erase, endpoint, counted, erased,
                 doubled>>

(* delete_traffic_for_client; `due` is what the answer "deleted" covers.    *)
StartErase ==
  /\ erase.step \in {"off", "done"} /\ SessionFree
  /\ erase' = [Off EXCEPT !.step = "read", !.due = rows \cap Personal]
  /\ UNCHANGED <<age, rows, lastSeen, summary, roll, prune, endpoint, counted, erased,
                 doubled>>

ReadErase ==
  LET S == rows \cap Personal
  IN  /\ erase.step = "read"
      /\ IF S = {} THEN erase' = [erase EXCEPT !.step = "done"]
         ELSE \E ids \in SUBSET S :
                IsChunk(ids, S) /\ erase' = [erase EXCEPT !.step = "write", !.ids = ids]
      /\ UNCHANGED <<age, rows, lastSeen, summary, roll, prune, endpoint, counted, erased,
                     doubled>>

CommitErase ==
  /\ erase.step = "write"
  /\ rows' = rows \ erase.ids
  /\ erased' = erased \cup (erase.ids \cap rows)
  /\ erase' = AfterChunk(erase, "done")
  /\ UNCHANGED <<age, lastSeen, summary, roll, prune, endpoint, counted, doubled>>

EraseFails ==
  /\ erase.step \in {"read", "write"}
  /\ erase' = Off
  /\ UNCHANGED <<age, rows, lastSeen, summary, roll, prune, endpoint, counted, erased,
                 doubled>>

-----------------------------------------------------------------------------
(* The lifecycle of the registered endpoint                                *)

Lookback == IF Window > Month THEN Window ELSE Month

Matching(S, window) == {e \in S \cap Docs : age[e] <= window}

Least(S) == CHOOSE a \in S : \A b \in S : a <= b

(* max(matching_ts, default = last) as an age. *)
LastRequest(S, default) ==
  LET ages == {age[e] : e \in Matching(S, Lookback)}
  IN  IF ages = {} THEN default ELSE Least(ages)

(* _classify_zombie_status *)
Classify(last, r14, r30) ==
  CASE last = Never \/ last >= Month -> "DEAD"
    [] last >= Fortnight -> "ZOMBIE"
    [] last >= Week -> "IDLE"
    [] OTHER -> IF r14 < 1 \/ 2 * r14 < r30 \/ (r30 <= LowTraffic /\ last >= Day)
                THEN "DECLINING" ELSE "ACTIVE"

StatusOf(S, default) ==
  Classify(LastRequest(S, default), Cardinality(Matching(S, Fortnight)),
           Cardinality(Matching(S, Lookback)))

AsSeen(row) ==
  [row EXCEPT !.status = IF row.status \in {"none", "RETIRED"} THEN row.status ELSE "live"]

Read(s, by, new, flag) ==
  /\ tx[s].by = "none" /\ SessionFree
  /\ tx' = [tx EXCEPT ![s] = [by |-> by, seen |-> AsSeen(state), retired |-> flag,
                              status |-> IF new = state.status THEN "same" ELSE new]]
  /\ UNCHANGED <<age, rows, lastSeen, summary, jobs, state, crossed, counted, erased, doubled>>

(* Mutant: a retired endpoint is classified like any other. *)
RecomputeAll(s) == Read(s, "recompute", StatusOf(rows, lastSeen), state.retired)

(* recompute_zombie_states, which creates a row that is missing. *)
Recompute(s) ==
  Read(s, "recompute", IF state.retired THEN state.status ELSE StatusOf(rows, lastSeen),
       state.retired)

Retire(s) == state # NoState /\ Read(s, "request", "RETIRED", TRUE)

(* recompute_single_zombie_state does not fall back on last_traffic_at.      *)
Reactivate(s) == state # NoState /\ Read(s, "request", StatusOf(rows, Never), FALSE)

(* Another session has created the row meanwhile. *)
Duplicate(s) == tx[s].seen = NoState /\ state # NoState

(* The row is still retired, or not, as session s has read it. *)
UpToDate(s) == tx[s].seen = AsSeen(state)

(* Only the columns whose value differs from the one read are written. *)
Commit(s) ==
  /\ tx[s].by # "none" /\ ~Duplicate(s)
  /\ state' = [status |-> IF tx[s].status = "same" THEN state.status ELSE tx[s].status,
                retired |-> IF tx[s].retired = tx[s].seen.retired THEN state.retired
                            ELSE tx[s].retired]
  /\ tx' = [tx EXCEPT ![s] = Closed]
  /\ crossed' = (~UpToDate(s) \/ (crossed /\ tx[s].by = "recompute"))
  /\ UNCHANGED <<age, rows, lastSeen, summary, jobs, counted, erased, doubled>>

RollBack(s) ==
  /\ tx[s].by # "none"
  /\ tx' = [tx EXCEPT ![s] = Closed]
  /\ UNCHANGED <<age, rows, lastSeen, summary, jobs, state, crossed, counted, erased, doubled>>

-----------------------------------------------------------------------------
Rollup(j) == StartRollup(j) \/ ReadRollup(j) \/ CommitRollup(j) \/ RollupFails(j)
Prune == StartPrune \/ ReadPrune \/ CommitPrune \/ PruneFails
Erase == StartErase \/ ReadErase \/ CommitErase \/ EraseFails
Lifecycle(s) == Recompute(s) \/ Retire(s) \/ Reactivate(s) \/ Commit(s) \/ RollBack(s)

Next ==
  \/ \E e \in Events : Capture(e)
  \/ TimePasses
  \/ \E j \in Rollups : Rollup(j)
  \/ \E s \in Sessions : Lifecycle(s)
  \/ Prune \/ Erase

Spec == Init /\ [][Next]_vars

-----------------------------------------------------------------------------
(* Properties                                                              *)

(* Through failures between chunks, rows that the prune job or an erasure    *)
(* take from under a rollup, and rollups that overlap: no event is counted   *)
(* and still there to be counted again, the summary never says more than was *)
(* captured, and it says exactly that unless two rollups overlapped.  Then   *)
(* one may overwrite what the other has counted since: too little, where ADR *)
(* 004 expects too much.                                                     *)
CountedOnce ==
  /\ counted \cap rows = {}
  /\ summary <= Cardinality(counted)
  /\ ~doubled => summary = Cardinality(counted)

(* Retention never changes a status: the rows that are left classify the     *)
(* endpoint as all its traffic would, erased rows excepted.  The prune       *)
(* window, the rollup's 30 days and the look-back have to fit for this.      *)
RetentionKeepsStatus ==
  StatusOf(rows, lastSeen) = StatusOf(Captured \ erased, lastSeen)

(* When an erasure answers, every row the client had when it was asked is    *)
(* gone, whatever else deletes or captures rows meanwhile.                   *)
ErasureComplete == erase.step = "done" => erase.due \cap rows = {}

(* An endpoint shows as RETIRED exactly while it is retired, however many    *)
(* recomputes and operators' requests overlap, unless one of them is         *)
(* committed for an endpoint that has been retired or reactivated since it   *)
(* was read; and from the next request on that sees the row as it is, again. *)
RetiredShown == ~crossed => (state.retired <=> state.status = "RETIRED")
=============================================================================
