# API Security Monitor: formal models

TLA+ models of the parts of API Security Monitor whose correctness depends on order: what
several workers, requests, jobs and crashes may do to one another. Every definition is a
translation of the Python code under `src/app`; `PROJECT.json` gives, for each, the lines
it stands for. `tlc -config X.cfg M` runs a model, `tlapm M.tla` checks a proof module.

## 1. The system

| Component | State | Operations | Talks to |
|---|---|---|---|
| Ingest API (`routers/ingest.py`, `services/queue_service.py`) | Redis stream `apimonitor:ingest`, its consumer group | enqueue one event, enqueue a batch; without Redis: store inline | worker, through the stream |
| Worker (`worker.py`) | pending list of the group, dead-letter stream | reclaim idle messages, read new ones, handle, re-queue or dead-letter, acknowledge | traffic processing, MySQL |
| Traffic processing (`services/traffic_processor.py`, `services/discovery_service.py`, `services/alerts_util.py`) | `traffic_events`, `discovered_endpoints`, `shadow_endpoints`, `alerts` | `process_single_event`; recompute of the documented flags | registry (reads it) |
| API registry (`services/registry_service.py`, `routers/openapi_registry.py`, `connections.py`, `shadow.py`) | `known_endpoints`, `monitored_apis` | spec upload, connect, disconnect, promote a shadow endpoint | traffic processing (flags) |
| Organizations (`routers/orgs.py`) | `organizations.owner_user_id`, `org_memberships` | create, request to join, add, approve, reject, change role, remove, transfer | authorization (reads it) |
| Leader election (`services/leader.py`) and the scheduler's gate (`jobs/scheduler.py`) | Redis key `apimonitor:scheduler:leader`, `is_leader` of each replica | acquire, renew, release, expire; start a leader-only job | every leader-only job |
| Endpoint lifecycle (`routers/zombie.py`, the recompute of `discovery_service.py`) | `zombie_endpoint_state` | recompute, idle scan, retire, reactivate | registry and traffic |
| ML models (`services/ml_anomaly.py`, `routers/ml_models.py`) | `ml_model_state` | train and save, activate, prune, load, score | traffic, alerts |
| Retention (`jobs/scheduler.py`, `traffic_processor.py`, `routers/privacy.py`) | `traffic_events`, `traffic_daily_summary`, `refresh_tokens` | roll up and prune, prune, erase one client | traffic |
| Accounts (`routers/auth.py`, `deps.py`, `security.py`) | `users`, `refresh_tokens`, `password_reset_tokens`, `api_keys` | login and lockout, refresh rotation, logout, reset, MFA, administration | every request |
| Alerts and live streams (`routers/alerts.py`, `traffic.py`) | `alerts`, the cursor of each SSE connection | list, stream, acknowledge, give feedback | traffic, ML |

What is hard in it:

* **Redis Streams.** Delivery is at least once. A worker may die between any two calls, a
  call may be executed although its reply is lost, a slow worker's messages are claimed by
  another one, and Redis itself may lose its data.
* **Database sessions.** Every request and every handled message is one transaction under
  MySQL's REPEATABLE READ. Its checks read a snapshot and its commit writes the columns it
  changed, over whatever has been committed meanwhile. No row carries a version and a read
  locks none, so two overlapping requests may each be right and their result wrong. Only an
  UPDATE by condition (the compare-and-revoke of a rotation, the end of all sessions) sees
  what is committed and holds its rows until its own commit.
* **Time.** The election depends on a 30 s lock, a 10 s renew interval and calls to Redis
  that have no timeout.
* **Streams that outlive their request.** An SSE stream polls with the database session of the
  request that opened it, while members leave, tickets expire, keys are revoked, and rows commit
  in another order than their ids.
* **Starts beside running replicas.** Each start repairs the super admin's account, while other
  replicas create it, too, or serve requests that change it.
* **Two commits for one operation.** A registry import commits the endpoints and then, in a
  second transaction, the flags derived from them.
* **Long jobs.** Rollup, prune and erasure delete the same rows in chunks, each with a commit
  of its own; a retraining works for minutes in the transaction that prunes afterwards.

## 2. What makes each component correct

* *Ingest*: nothing accepted is forgotten; it ends stored or dead-lettered; retries are
  bounded; a dead letter means the event is missing.
* *Election*: at most one replica runs leader-only jobs, only under the lock; a lost leader
  is replaced within a bounded time.
* *Organizations*: the primary owner is always an active member with the owner role; joining
  again never brings back an old role.
* *Traffic and registry*: counts equal events; a shadow endpoint has had its alert; one open
  alert per kind and path; flags agree with the registry; removing one source of an endpoint
  leaves what another source declared.
* *Retention*: no event is counted twice, an erasure that answers is complete, and deleting
  old rows changes no endpoint's status; *lifecycle*: an endpoint shows as retired exactly
  while it is.
* *ML models*: exactly one active version, a bounded history, and a bad retrain can be rolled
  back.
* *Accounts*: a refresh token is rotated once, ended sessions stay ended, reset tokens are used
  up; consecutive failed logins are counted and lock the account, MFA is on only with a proven
  secret; there is one super admin, and only it (or an administrator itself) takes
  administrators away.
* *Streams*: a stream shows its holder nothing from after the end of his membership, and skips
  no row.

## 3. Modules

| Module | Models | Runs |
|---|---|---|
| `IngestDelivery` | the promise of the queue: a taken event stays open until it is settled | (refined) |
| `IngestQueue` | stream, group, API and workers | `IngestQueueFaults`, `IngestQueueDelivery` |
| `LeaderElection` | lock, election threads, main threads, jobs' gate, time | `LeaderElection` |
| `OrgMembership` | memberships and the primary owner under overlapping sessions | `OrgOverlap`, `LiveStreams` |
| `LiveStreams` | the SSE streams of an organization and who may open them, composed with `OrgMembership` | `LiveStreams`, `StreamFeed` |
| `Discovery` | traffic against the registry under overlapping sessions | `DiscoveryOverlap`, `DiscoveryApart` |
| `TrafficJobs` | rollup, prune, erasure and the lifecycle of one endpoint, on the same rows | `TrafficJobs` |
| `ModelHistory` | what owners rely on: only the oldest versions go, and only when enough are left | (refined) |
| `ModelVersions` | the stored models of one organization | `ModelVersions` |
| `SessionFamilies` | what rotation promises: each login's family has one carrier at a time and never comes back | (refined) |
| `AccountSessions` | refresh and reset tokens of one account under overlapping requests | `AccountSessions` |
| `UserAccounts` | the rows of users: lockout, MFA, administration, the super admin, under overlapping requests and starts | `UserAccounts` |

`MC*` modules (`MCIngestQueue` and so on) give the constants of the instances; `*Proofs`
modules hold the theorems.
Operators called "mutant" in a comment are plausible mistakes: exchanging the definition for
its mutant makes the property named in `PROJECT.json` fail, which shows that the property
says something about the code.

**IngestQueue.** `log` is the stream from its beginning, `cursor` the group's
last-delivered id, `pel` its pending list, `stale` the part idle for RECLAIM_IDLE_MS.
`req[r]` walks through `enqueue_event` for each event of a request (`EnqueueEnsure`,
`EnqueueXadd`, `EnqueueFails`), `step[w]` through `worker.run`: `Reclaim`, `Read`, `SetDepth`
and, per message, `ProcessStores` or `ProcessRaises`, `GaugesDone` or `GaugesRaise`,
`Requeue` or `RequeueRaises`, `Ack`. Each Redis call is its own action, because a process
may die on either side of it. `Crash` kills a worker anywhere, `Stop` ends it between
messages, `Start` starts it again under the same consumer name, `Age` makes a pending entry
reclaimable, in a dead worker's batch or in that of a live but slow one, `Flush` is a Redis
that comes back empty. A failing call is a fault; a failing XADD may or may not have been
executed. Handling an event is one step because it is one transaction; `Poison` events never
succeed.

**LeaderElection.** A call to Redis takes three steps: `Tick` issues it (renew for a
believed leader, acquire otherwise), `Execute` runs it on the server, `Reply` brings the
answer; `CallFails` may take the place of the last two, with or without the command
executed. `TimePasses` is one unit (10 s): it moves the TTL and the waits, and neither calls
nor pauses limit it. `Stop`, `Release` and `Exit` are the main thread's shutdown, which
races the election thread, and `Die` a killed process. `StartJob` looks at `is_leader` and
`EndJob` does not. The history `late[r]` adds up the units that have passed within a call of
`r` or while its tick was due, since the last command of `r` that got it the lock; it is capped
at `Slack`, the 20 s between the renew interval and the TTL. `delayed` records that somebody was
ever late.

**OrgMembership.** A request reads (`Begin` with what it decided to write) and commits
later (`Commit`), and only the columns whose value it changed are written, as SQLAlchemy
does. `MayManage` is `_require_owner`. Refused requests change nothing and are left out.
An organization begins `Founded` (`create_org`, or the default organization of a new
installation) or `Backfilled` (the migration that made all users of a single-tenant deployment
members, with their old roles).

**LiveStreams** extends `OrgMembership`: a step is a membership step with the streams unchanged,
or a stream step with the memberships unchanged. `Flush` draws an id, `CommitRow` makes it
visible. `Connect` opens a stream for a ticket or a header (`TicketOpens` is the second look
at the membership that `get_stream_org_context` takes), `CheckKey` and `Begun` open one for an API
key in two steps, because `_try_api_key` commits in between. From then on the stream reads its
`view`: its session ends with the response, commits nothing, and MySQL's default level,
REPEATABLE READ, is not changed by `database.py`. (The version of FastAPI that
`requirements.lock` pins closes a dependency's session after the response; a session closed
before it would begin a new transaction at the first poll and keep that one, which moves the
snapshot and changes nothing else.) `Poll` sends a page in the order of ids. The history
`due[p]` is what was committed by the last moment `p` had access. One table stands for
`alerts` and `traffic_events`; where a stream of each begins is `BeginsAt`.

**Discovery.** `tx[s].snap` is what session `s` reads; `CommitEvent` is
`process_single_event` with its alerts, counters and shadow row; registry changes commit in
two transactions (`CommitSpec` or `CommitConnect` or `CommitDisconnect`, then
`BeginRecompute` and `CommitRecompute`), while a promotion commits in one and recomputes
nothing, as in the code. `Rejected` is the rollback after an insert of a row that exists or
an update of a row that is gone. `Norm` and `Covers` stand for path normalization and
template matching: the model depends only on which path normalizes to which template and
which template matches which path. `RegistryApart` and `PromotionsApart` say which sessions have
kept out of each other's way; no action enforces them, they are conditions of properties. One organization and one HTTP method are modelled, since
every query filters on both.

**TrafficJobs.** Each job is a record: where it stands, the rows `due` under the cutoff it
computed once, the `ids` of the chunk it has read and, for a rollup, the count `old` it read
with them. `ReadRollup`, `ReadPrune` and `ReadErase` read a chunk, `CommitRollup`,
`CommitPrune` and `CommitErase` delete it; between the two anything may happen, and
`RollupFails`, `PruneFails` and `EraseFails` end a job anywhere. `CommitRollup` writes the
count read plus the chunk's over what is there, as SQLAlchemy does. A recompute, a retirement
and a reactivation read a snapshot and decide (`Recompute`, `Retire`, `Reactivate`), each in a
session `s` of its own, and write at the `Commit` (the sessions do not autoflush), any number of
them open at once: nothing keeps two operators, or two replicas that believe they lead, apart.
`tx[s]` holds what the decision was made on and what it writes: of the status and the flag only
what differs from the row read, as SQLAlchemy's UPDATE does. A commit that would insert a second
row for the endpoint is refused (`Duplicate`, the unique constraint). `StatusOf` is the classification from the rows that are left;
days, thresholds and windows are small numbers in the same order. One endpoint, one day and
one client stand for all, since the jobs treat each by itself. The default values of the
code make some cutoffs equal (30 days for rollup, look-back and DEAD; 14 days for IDLE and
the recent window), and the model takes them as equal; `Window` is free.

**ModelVersions.** `tx[s].seen` is the snapshot in which a training has read its traffic.
`save_model` and `activate_model_version` begin with an UPDATE of all the organization's
rows, which locks them until the commit, so `Save` and `Activate` are one step each; what
`Save` prunes comes from `PruneView`: the snapshot, the rows the UPDATE has touched, and the
new one. `KeepsHistory` says that this implements `ModelHistory`, whose history is `versions`. `RollBack` is a training with too little traffic, a refusal, an error or a crash.

**AccountSessions.** `live` are the refresh tokens whose row is not revoked, `open` the reset
tokens not used. A rotation is two transactions: `StartRefresh` is the compare-and-revoke,
`ReadUser` and `Mint` the second one, and `Replay` the branch for a token already revoked.
`StartConfirm` and `StartDeactivate` read, `CloseSessions` is the UPDATE of all sessions and
`CommitReset` and `CommitDeactivate` the commit; between the two other transactions wait for
the rows (`Locked`). `RequestFails` ends a request anywhere, as a refusal, an error or a dead
process. Whether a password or code is right is left open, and so is the time: an expired
token is one that nothing uses and `Prune` deletes. The histories `root`, `closed`, `late`
and `spent` record which login a token goes back to, which tokens a closing covered, which
tokens come from requests that overlapped it, and which reset tokens a completed reset found.
`KeepsFamilies` says that this implements `SessionFamilies`: a family is a login, named by its first
token, and its carrier is its live token or the request that is between the two transactions of
rotating one.

**UserAccounts.** `tx[s]` is the open transaction of a request or a start: the row it has read
(`seen`) and the same row as it will be flushed (`new`). `Commit` writes the columns that differ
over the row as it is by then (`Write`), or is refused by the unique name (`Duplicate`).
`LoginFails`, `LoginSucceeds` and `ResetPassword` are the paths of `login` and of
`confirm_password_reset` that touch the counters; `lock` is the time until `locked_until`, which
`LockRunsDown` lets pass. `Enroll`, `ConfirmEnroll` and `DisableMfa` work on the caller's own
row; a valid code for a secret puts it into `proven`. `UpdateUser`, `DeleteUser` and
`AdminCreateUser` are guarded by `MayCall` (authentication and `require_role`),
`MayAdminister` and `MayGrant`, each evaluated on what the request has read. `Boot` is
`ensure_default_admin`, and `booted` says that some replica has got past it. A transaction that
changes no column writes nothing whenever it commits, and is left out. The history `raced`
records the accounts that two transactions had open at once, and `misses` counts failures on
the others.

## 4. What the runs show

| Run | Instance | Shows |
|---|---|---|
| `IngestQueueFaults` | 2 workers, 1 event, MAX_RETRIES 2; one crash or stop, one failing call, one data loss, one slow handling | `NothingLost`: an event the stream holds is settled or in flight, unless a worker's own XADD was refused. `DeadOnlyAfterMaxRetries` under reclaim races |
| `IngestQueueDelivery` | 2 workers, a batch of 2 events, one always failing; one crash or stop | the queue implements `IngestDelivery`; at most MAX_RETRIES failures and, in all, one row or one dead letter when undisturbed; every accepted event settles and every entry is acknowledged |
| `LeaderElection` | 2 replicas, TTL 3 and interval 1 (units of 10 s), 2 failing calls | one leader among the replicas that have been late for less than TTL minus interval (20 s) since their last successful command; failover within TTL + interval unless somebody is late; two believed leaders never last; a leader again and again |
| `DiscoveryOverlap` | 2 sessions, 2 paths, 2 events, imports and a connection | `HitsExact` except where two sessions handled one path at once; `ShadowWasAlerted` whichever session inserts the row |
| `DiscoveryApart` | 2 sessions, 2 paths with a literal and a parameterized template, 3 events, one failing session; changes of the registry have it to themselves (`RegistryApart`) | `AlertsDeduplicated` except where two sessions handled one path at once; `PromotedStaysQuiet`, `FlagsFresh` |
| `TrafficJobs` | 2 rollups, prune, erasure, 2 sessions that recompute, retire or reactivate; 2 events, chunks of 1, at most 2 sessions open in all | `CountedOnce` (exact unless two rollups overlapped, never too much), `ErasureComplete`, `RetentionKeepsStatus`; `RetiredShown` until something is committed for a row retired or reactivated since it was read, and again from the next request that sees the row as it is |
| `ModelVersions` | 3 sessions, 3 versions kept, 6 saves | `ExactlyOneActive`; the versions implement `ModelHistory` |
| `AccountSessions` | 2 requests, 3 refresh tokens, 2 reset tokens | the tokens implement `SessionFamilies`; `SessionsStayClosed`, `ResetsSingleUse` |
| `UserAccounts` | 2 sessions, the super admin and 2 others, lockout at 2 failures, 2 TOTP secrets | `SuperStands`, `LockoutExact`, `MfaProven`, `AdminTierBySuper` |
| `LiveStreams` | 1 membership request at a time, a platform admin and a user, 1 key, 1 stream, 2 rows, pages of 1 | `PrimaryOwnerActive` and `PendingIsViewer` over every sequence of requests; `OnlyWhileMember`, `BacklogSent` |

The runs expected to fail are the disagreements found between the code and what its
documents, comments or messages say (`findings` in `PROJECT.json` quotes each):

| Run | Disagreement |
|---|---|
| `OrgOverlap` | a removal that overlaps a transfer leaves a removed member as primary owner, which the guard is there to prevent |
| `StreamFeed` | an alert committed while a stream of alerts is open is not sent on it (`alerts.py:66` polls in one transaction), against its docstring, "feed of newly-created alerts"; the tests poll with the session that writes |

Further disagreements, noted and not run: a re-queue that Redis refuses is acknowledged all the
same (`worker.py:57-59`), against ADR 003's "At-least-once", hence the exception in `NothingLost`;
disconnecting a connection removes an endpoint that a later spec upload also declared
(`registry_service.py:44-45` keeps the first source), against the comment at
`connections.py:308-309`; a changed ADMIN_USERNAME leaves the old account a super admin beside
the new one, against "Exactly one account holds it" (`security.py:31`), and `UserAccounts` keeps
the name fixed; a stream ticket minted with an API key opens nothing, since no user has its name
(`auth.py:316`, `deps.py:355`); each open stream keeps a connection of the pool
(`config.py:53-55`), so thirty streams leave none for requests; overlapping logins of one
account lose failure counts, and a confirmation that overlaps another enrolment turns MFA on
with an unproven secret (the exceptions `raced`); an approval and a removal that overlap
may leave either result; a renewal that blocks for longer than the TTL (the
client has no socket timeout, `queue_service.py:31`) gives two believed leaders without the
"GC/VM pause" that ADR 004 says it takes; the queue-depth gauge is XLEN of a stream that is
never trimmed, not "pending entries" (`worker.py:119`, `services/metrics.py:72`); two
overlapping sessions raise the same alert twice, since nothing makes it unique; a promotion
leaves the documented flag to the next request on the path; a job that outlives its
replica's leadership runs beside the next leader's; with a template registered for one
literal path, an event and a recompute disagree about the flag of its siblings; `update_member`
demotes the primary owner, whom `owner_user_id` goes on naming (`orgs.py:351`, `models.py:29`);
the prune job runs twice as often as the rollup under the same cutoff and deletes uncounted what
the repository's README says is rolled up; any ZOMBIE_WINDOW_DAYS other than 30 leaves rollup,
prune and look-back with different windows, and retention then changes statuses; a recompute,
or a reactivation of an endpoint that is not retired, that overlaps a retirement leaves a retired
endpoint with another status, which later recomputes skip and which only the next request on it sets
right (the exception `crossed` in `RetiredShown`); ADR 004:19-22 says that a concurrent second
rollup "inflates" `request_count`, but `+=` is computed from the snapshot and written as a value
(`traffic_processor.py:254`), so under REPEATABLE READ it never says too much and may say too
little: one rollup reads a chunk and the count, the other commits that chunk and the next, the
first commits, and the second chunk is counted nowhere, against ADR 004:79-81, "a duplicate run
is not corrupting" (the exception `doubled` in `CountedOnce`: without it, with three events and no sessions, TLC finds
the trace in seconds);
sessions that a reset or a deactivation should end survive it when a login or a rotation overlaps
it, against "should kill every existing session" (`auth.py:431-434`; the exception `late` in
`SessionsStayClosed`), and a reset confirmation that has read its token before a later one is
confirmed goes through after it, against `auth.py:427-428` (read at `auth.py:407`; excepted in
`ResetsSingleUse`); a leader's death leaves up to 40 s without one, the life of its key and one
renew interval (ADR 004:67-69, and `GapBounded`), where ADR 004:71 says "Up to a 30s window"; a day's average response time is that of its last chunk
(`traffic_processor.py:256`); a save deletes the version it replaces if that was the oldest
of a full set, against the docstring of `save_model`.

**Bounds.** MAX_RETRIES is 2 (the code: 5): a retry and the last attempt are all the kinds
of handling there are, and the proofs hold for every MAX_RETRIES. One crash, one fault, one flush and one slow handling together give
every pair of disturbances of different kinds; the hazards in `PROJECT.json` each need one
or two. Two workers are enough for every race, which is always between the worker that
holds a message and the one that claims it. Three units of TTL against one of renewal are
the code's 30 s and 10 s; two replicas are the races for the lock, and the proofs cover
more. Two sessions are the smallest overlap, and what a third could do the invariants proved
for any number of sessions cover. Three users in `OrgOverlap` are a platform admin and two members to be
confused with one another. The depth gauge, which nothing reads, is left
out of the fingerprint of the queue's states by a VIEW. Two events in chunks of one make two
chunks, the least that a failure can fall between (two overlapping rollups can lose a count only
with a third, which the theorem covers and the run does not); `MaxOpen` (2) is the connection pool, and
every hazard of the jobs is a matter of two sessions. Six saves with three versions kept (the code: 5) fill
the history and turn it over. Three refresh tokens are a token, its successor and the fork
of either; of two reset tokens one can be used and the other left over. Three accounts are the
super admin, an administrator and the target of either; a threshold of 2 with locks of 1 and 2
units and 4 failures reaches a first lock, a longer one and the cap. `OneFamily` keeps counters and
secrets out of the states in which other accounts exist, and the two families are tried on the
super admin's account, the only one that all operations reach; no operation reads one family
to write another, and the theorems do without the bound. `LiveStreams` has one ordinary user beside the
platform admin, since a stream depends on the membership of its holder alone and
OrgMembershipProofs covers any number; two rows in pages of one are two ids in either order of
commits, and a page boundary between them. Symmetry is used only in runs without
liveness.

**Fairness.** `IngestQueue!FairSpec` assumes that a request finishes, that a running worker
takes its next step and that a worker that has ended is started again: `docker-compose.yml`
restarts the service `unless-stopped`, and `k8s/deployment-worker.yaml` keeps its replicas up.
An idle message ages because time passes. Crashes, faults and stops are never fair, and
their number is bounded, so the liveness properties say what happens once they cease.
`LeaderElection!FairSpec` assumes that the election thread runs, Redis answers, a shutdown
proceeds and time goes on; nothing makes a replica start or stay up, hence the premise of
`LeaderRecurs`. `LiveStreams!FairSpec` assumes that an open stream polls again: the generator
loops with a sleep of 2 s until its client goes away, which is the other way to satisfy
`BacklogSent`.

## 5. What is proved

TLAPS proves, for every value of the constants that satisfies the modules' assumptions:

* **IngestQueueProofs** - `TypeCorrect`, `NoEventLost` (`[]NothingLost`),
  `DeadLettersUsedUp` (`[]DeadOnlyAfterMaxRetries`) and `ImplementsDelivery` (without
  refusals and data loss every step is a step of `IngestDelivery` or a stutter). `NothingLost`
  is not inductive: a worker about to acknowledge must know its event is settled or has
  another live copy. The invariant says so for each of the steps `requeue`, `ack` and
  `ackAndDie`. `DeadOnlyAfterMaxRetries` needs that a copy's retry number never exceeds the
  failures of its event, and is below them while its handler is about to re-queue it.
  `EachSettlesOnce` (`[]SettledOnce`) holds if every event is in the bodies of the calls once
  (`OneSubmission`). Its invariant tells the story of an event (`Story`): to come, then
  carried by exactly one entry that is still to be handled and whose retry number is the
  event's failures, then one row or one dead letter and no entry left. That there is one
  entry needs every pending entry to be in the hands of one worker (`CalmInv`), which holds
  as long as nobody dies, no live worker is taken for dead and no call of Redis fails.
* **LeaderElectionProofs** - `TypeCorrect`, `LeaderIsHolder`, `LeaderIsUnique`,
  `JobsAreLocked`, `FailoverIsBounded`. Each replica has a budget of its own, `LockTTL -
  RenewInterval` of lateness since its last successful command, and spends nobody else's: while
  it is not used up the replica's `is_leader` means that it holds the lock. The invariant
  `LockInv` relates the TTL to the wait of the thread, its lateness and the command it has in
  flight; a successful command fills the budget up again, so that a replica that has been
  replaced, however late it was, counts again from its next success on. The budget is exact: with
  one unit more TLC finds two leaders. `FailoverIsBounded` needs that nobody was ever late, because
  a replica that stands still cannot take over (`Punctual`). The only assumption on the numbers is
  `RenewInterval < LockTTL`.
* **OrgMembershipProofs** - `TypeCorrect` for any number of overlapping requests;
  `OwnerStaysActive` and `PendingAsViewer` for any number of requests that keep out of each
  other's way in one respect each: no transfer overlaps a request that takes the membership of its
  target away (`TransfersApart`, which is what `OrgOverlap` violates), and nobody asks to
  join while another request makes the same user editor or owner (`JoinsApart`).
  `SerialRequestsAreSafe` says that requests one after the other do both. The invariant adds
  that what each open request is about to write keeps the properties, whatever the others
  commit before it. For the composition with the streams:
  `StreamTypeCorrect`, `StreamsKeepMembers` (it implements `OrgMembership`, so that the
  theorems above hold of it), `MembersOnly` (`[]OnlyWhileMember`) and `NothingSkipped` for any
  number of users, requests, connections and rows. What makes them inductive: the view of an
  open stream is due to its holder, what is sent lies in the view, and the rows of the view up to
  the cursor have been sent.
* **DiscoveryProofs** - `TypeCorrect` and `ShadowsAreAlerted` for any number of overlapping
  sessions. The invariant extends the property to every open snapshot and to every alert
  that a snapshot counts as open. `HitsAreExact`, also for any number: an event of a path
  that is not in `overlap` is the only one of its path under way, so the count in its
  snapshot is still the count at its commit. `AlertsAreDeduplicated`, likewise except for the paths in
  `overlap`: the snapshot of the one session on a path shows every open alert about it. For
  `PromotionsStayQuiet` no event may be handled while its own path is promoted
  (`PromotionsApart`), and for `FlagsStayFresh` a change of the registry must have the registry to
  itself (`RegistryApart`), whereas traffic may overlap traffic: any event on a path decides its
  flag alike as long as the registry stands still. `SerialSessionsAreSafe` says that sessions one
  after the other meet both conditions. The last two rest on how
  matching and normalizing paths fit together: a template that matches a normal form matches
  the paths it stands for (`NormalCovered`), and a normal form matches its paths
  (`NormalMatches`). Both are true of `path_matches_template` except for paths with empty
  segments (`/a//b`), which `normalize_path_for_discovery` shortens and matching does not.
* **TrafficJobsProofs** - `TypeCorrect`, `EachCountedOnce`, `ErasureIsComplete`,
  `RetiredIsShown` (for any number of sessions: `Sound` says what an open session may write,
  a request the flag and its status together, a recompute never the flag nor the status of a row
  it saw retired), and `RetentionIsInvisible` under the extra assumption `Window = Month`.
  The count an open rollup has read is at most the number of *other* events counted
  (`Counts`), which makes the summary an underestimate even when rollups overlap. A chunk
  shorter than the limit holds all that an erasure still has to delete, because rows appear
  only for new events. What retention has deleted is older than the look-back.
* **ModelVersionsProofs** - `TypeCorrect`, `OneActive`, `Bounded`, `ReplacedStays`,
  `ImplementsHistory`. A training
  that nobody has overlapped sees all versions, and the newest n of a set of ids are at most
  n. For the last two theorems: deletions leave no gap (`NoGap`), because a snapshot that shows a
  version shows every older one that is left (`SeenFromOldest`), so an outdated snapshot
  still deletes from the oldest end. That a save which deletes leaves MAX_MODEL_VERSIONS rows is a
  count that needs no induction: the greatest id that is not kept has, itself included, more than n
  from it upwards, and all but itself are kept (`NewestEnough`).
* **AccountSessionsProofs** - `TypeCorrect`, `ChainsDoNotFork`, `ImplementsFamilies`,
  `ClosedForGood`, `ResetsAreUsedOnce`. A rotation between its two transactions stands for its chain: no
  other live token and no other rotation belongs to it (`ChainInv`). With it every step maps to a
  step of `SessionFamilies`: a mint or the start of a rotation passes a family on, a login opens one,
  and whatever revokes tokens or ends a request ends families or changes none. A rotation that goes on
  with a chain that was closed has been overtaken or started late (`ClosedInv`). No reset
  token that a completed reset has found is open (`ResetInv`).
* **UserAccountsProofs** - `TypeCorrect`, `SuperAdminStands`, `LockoutIsExact`, `MfaIsProven` and
  `AdminTier` (an action property), for any number of accounts, sessions and secrets. `SuperStands`
  needs that no open transaction is about to undo it (`KeepsBoss`): requests are served only
  after a start has committed, so each has read the super admin as such, and `MayAdminister` kept
  it off that account's role and activity. `Authorized` says of every transaction what its actor
  may make of the row it has read;
  `AdminTier` is the same knowledge at the commit. For `LockoutExact` and `MfaProven`: the only
  transaction of an account that nobody raced has read the current row, but for the clock
  (`Current`).

Only model-checked: the liveness properties (fairness and ENABLED are beyond the prover),
in the model-checked runs `BacklogDrains`, `AcceptedSettles`, `LeaderRecurs`,
`StaleLeaderStepsDown` and `BacklogSent`. Every other property of a passing run is stated by a
theorem.
`VersionsBounded`, `RollbackPossible`, `OneLivePerChain`, `LeaderHoldsLock`, `JobsStartUnderLock`
and `NoRowSkipped` are theorems only. `OrgOverlap` and `DiscoveryOverlap` show what happens when
sessions get in each other's way; to check the conditions of the theorems on the membership
instance, too, add `CONSTRAINTS TransfersApart JoinsApart` to `OrgOverlap.cfg`, which then passes.

## 6. What is not modelled

The inline ingest path without Redis, and its savepoints; scoring, feature extraction and risk
levels; the text of paths, payloads and alerts; parsers of OpenAPI, Postman, cURL and pcap files
(their result is an input of the models); password hashing, JWT, TOTP and encryption (library
calls); deactivated users and the deletion of rows under an open stream; `change_password`; the
choice among several organizations; read-only queries; the audit log, mail, metrics and tracing
(output that nothing reads); the frontend and the manifests, of which only the restart policy is
used.

## 7. Plan

Order of the modules, most important behaviour first (done: 1-9):

1. `IngestQueue` with `IngestDelivery`: nothing accepted is lost.
2. `LeaderElection`: one leader, bounded failover.
3. `OrgMembership`: an organization keeps an owner.
4. `Discovery`: traffic against the registry.
5. `TrafficJobs`: retention, erasure and the lifecycle of an endpoint.
6. `ModelVersions`: saving, pruning and activating models.
7. `AccountSessions`: rotation, logout, reset and the end of sessions of one account.
8. `UserAccounts`: failed logins and lockout, MFA, administration, the super admin at start-up.
9. `LiveStreams`: the cursor and the access of an SSE connection.
10. The inline ingest path with its savepoints; idle-scan alerts.
