--------------------------- MODULE LeaderElection ---------------------------
(***************************************************************************)
(* services/leader.py and the leader-only jobs of jobs/scheduler.py: API   *)
(* replicas compete for one expiring Redis key.  Each replica has an       *)
(* election thread (_loop calling _tick) and a main thread (start, stop);  *)
(* a tick sends one command, Redis executes it, the reply sets is_leader.  *)
(* Time passes in steps of one unit; LockTTL and RenewInterval count them. *)
(* A replica is one process, with one instance_id: it starts once.         *)
(***************************************************************************)
EXTENDS Naturals

CONSTANTS
  Replicas,
  NoOne,          \* the key does not exist
  LockTTL,        \* LOCK_TTL_SECONDS
  RenewInterval,  \* RENEW_INTERVAL_SECONDS
  MaxErrors       \* bound: calls to Redis that raise

ASSUME ElectionAssumption ==
  /\ NoOne \notin Replicas
  /\ LockTTL \in Nat /\ RenewInterval \in Nat \ {0} /\ RenewInterval < LockTTL
  /\ MaxErrors \in Nat

VARIABLES
  holder,    \* value of LEADER_KEY
  ttl,       \* time the key still lives
  phase,     \* phase[r]: life of the process
  isLeader,  \* isLeader[r]: _election.is_leader
  call,      \* call[r]: the election thread's command, or its reply
  wait,      \* wait[r]: time until stop_event.wait times out
  job,       \* job[r]: a leader-only job is running
  errors,    \* calls that raised
  gap,       \* time without a leader since the key was last set (history)
  late,      \* late[r]: time r has spent in calls and with its tick due, since its
             \* last command that succeeded (history)
  delayed    \* some thread was ever late, or a release took time (history)

delays == <<late, delayed>>
vars == <<holder, ttl, phase, isLeader, call, wait, job, errors, gap, delays>>

(* How late a leader may be: 20 s of the 30 s, the other 10 s it waits.      *)
Slack == LockTTL - RenewInterval

TypeOK ==
  /\ holder \in Replicas \cup {NoOne}
  /\ ttl \in 0..LockTTL
  /\ phase \in [Replicas -> {"new", "starting", "up", "releasing", "stopped", "gone"}]
  /\ isLeader \in [Replicas -> BOOLEAN]
  /\ call \in [Replicas -> {"none", "renew", "acquire", "yes", "no"}]
  /\ wait \in [Replicas -> 0..RenewInterval]
  /\ job \in [Replicas -> BOOLEAN]
  /\ errors \in Nat /\ gap \in Nat
  /\ late \in [Replicas -> 0..Slack] /\ delayed \in BOOLEAN

Up(r) == phase[r] = "up"
Leader(r) == Up(r) /\ isLeader[r]

(* The election thread runs until stop_event is set or the process ends. *)
Electing(r) == phase[r] \in {"starting", "up"}

Init ==
  /\ holder = NoOne /\ ttl = 0
  /\ phase = [r \in Replicas |-> "new"]
  /\ isLeader = [r \in Replicas |-> TRUE]
  /\ call = [r \in Replicas |-> "none"]
  /\ wait = [r \in Replicas |-> 0]
  /\ job = [r \in Replicas |-> FALSE]
  /\ errors = 0 /\ gap = 0 /\ late = [r \in Replicas |-> 0] /\ delayed = FALSE

-----------------------------------------------------------------------------
(* start(): not a leader, and the first tick at once, on the main thread.   *)
Start(r) ==
  /\ phase[r] = "new"
  /\ phase' = [phase EXCEPT ![r] = "starting"]
  /\ isLeader' = [isLeader EXCEPT ![r] = FALSE]
  /\ call' = [call EXCEPT ![r] = "acquire"]
  /\ UNCHANGED <<holder, ttl, wait, job, errors, gap, delays>>

(* Mutant: every replica only ever renews. *)
TickRenewsOnly(r) ==
  /\ Up(r) /\ call[r] = "none" /\ wait[r] = 0
  /\ call' = [call EXCEPT ![r] = "renew"]
  /\ UNCHANGED <<holder, ttl, phase, isLeader, wait, job, errors, gap, delays>>

(* _tick: the leader renews, the others try to acquire. *)
Tick(r) ==
  /\ Up(r) /\ call[r] = "none" /\ wait[r] = 0
  /\ call' = [call EXCEPT ![r] = IF isLeader[r] THEN "renew" ELSE "acquire"]
  /\ UNCHANGED <<holder, ttl, phase, isLeader, wait, job, errors, gap, delays>>

(* Mutants of the two commands: PEXPIRE without comparing the value, ... *)
ExecuteBlindRenew(r) ==
  /\ call[r] \in {"renew", "acquire"}
  /\ LET done == call[r] = "renew" \/ holder = NoOne
     IN  /\ call' = [call EXCEPT ![r] = IF done THEN "yes" ELSE "no"]
         /\ holder' = IF call[r] = "acquire" /\ done THEN r ELSE holder
         /\ ttl' = IF done THEN LockTTL ELSE ttl
         /\ gap' = IF done THEN 0 ELSE gap
         /\ late' = [late EXCEPT ![r] = IF done THEN 0 ELSE @]
  /\ UNCHANGED <<phase, isLeader, wait, job, errors, delayed>>

(* ... and a renewal that adds to the time left. *)
ExecuteAddsUp(r) ==
  /\ call[r] \in {"renew", "acquire"}
  /\ LET done == IF call[r] = "renew" THEN holder = r ELSE holder = NoOne
     IN  /\ call' = [call EXCEPT ![r] = IF done THEN "yes" ELSE "no"]
         /\ holder' = IF done THEN r ELSE holder
         /\ ttl' = IF done THEN ttl + LockTTL ELSE ttl
         /\ gap' = IF done THEN 0 ELSE gap
         /\ late' = [late EXCEPT ![r] = IF done THEN 0 ELSE @]
  /\ UNCHANGED <<phase, isLeader, wait, job, errors, delayed>>

(* Redis executes SET NX PX, or the renew script: PEXPIRE if the value is    *)
(* still this instance.                                                      *)
Execute(r) ==
  /\ call[r] \in {"renew", "acquire"}
  /\ LET done == IF call[r] = "renew" THEN holder = r ELSE holder = NoOne
     IN  /\ call' = [call EXCEPT ![r] = IF done THEN "yes" ELSE "no"]
         /\ holder' = IF done THEN r ELSE holder
         /\ ttl' = IF done THEN LockTTL ELSE ttl
         /\ gap' = IF done THEN 0 ELSE gap
         /\ late' = [late EXCEPT ![r] = IF done THEN 0 ELSE @]
  /\ UNCHANGED <<phase, isLeader, wait, job, errors, delayed>>

(* The tick ends: is_leader is set, and the thread waits again. *)
EndTick(r, leads) ==
  /\ isLeader' = [isLeader EXCEPT ![r] = leads]
  /\ call' = [call EXCEPT ![r] = "none"]
  /\ wait' = [wait EXCEPT ![r] = RenewInterval]
  /\ late' = [late EXCEPT ![r] = IF leads THEN @ ELSE 0]
  /\ phase' = [phase EXCEPT ![r] = IF @ = "starting" THEN "up" ELSE @]

Reply(r) ==
  /\ call[r] \in {"yes", "no"}
  /\ EndTick(r, call[r] = "yes")
  /\ UNCHANGED <<holder, ttl, job, errors, gap, delayed>>

(* Mutant: a replica whose call raised goes on as it was. *)
CallFailsStays(r) ==
  /\ call[r] # "none"
  /\ errors < MaxErrors /\ errors' = errors + 1
  /\ EndTick(r, isLeader[r])
  /\ gap' = 0
  /\ UNCHANGED <<holder, ttl, job, delayed>>

(* The call raises, whether or not Redis has executed it. *)
CallFails(r) ==
  /\ call[r] # "none"
  /\ errors < MaxErrors /\ errors' = errors + 1
  /\ EndTick(r, FALSE)
  /\ gap' = 0
  /\ UNCHANGED <<holder, ttl, job, delayed>>

-----------------------------------------------------------------------------
(* Shutdown: the scheduler starts no more jobs (shutdown(wait=False) leaves  *)
(* a running one alone), then stop() sets the event and, if leader, runs the *)
(* release script.  A tick in flight is not waited for.                      *)
Stop(r) ==
  /\ Up(r)
  /\ phase' = [phase EXCEPT ![r] = IF isLeader[r] THEN "releasing" ELSE "stopped"]
  /\ UNCHANGED <<holder, ttl, isLeader, call, wait, job, errors, gap, delays>>

Release(r) ==
  /\ phase[r] = "releasing"
  /\ holder' = IF holder = r THEN NoOne ELSE holder
  /\ ttl' = IF holder = r THEN 0 ELSE ttl
  /\ phase' = [phase EXCEPT ![r] = "stopped"]
  /\ isLeader' = [isLeader EXCEPT ![r] = FALSE]
  /\ UNCHANGED <<call, wait, job, errors, gap, delays>>

ReleaseFails(r) ==
  /\ phase[r] = "releasing"
  /\ errors < MaxErrors /\ errors' = errors + 1
  /\ phase' = [phase EXCEPT ![r] = "stopped"]
  /\ isLeader' = [isLeader EXCEPT ![r] = FALSE]
  /\ UNCHANGED <<holder, ttl, call, wait, job, gap, delays>>

(* The interpreter waits for the job threads, not for the daemon thread. *)
Exit(r) ==
  /\ phase[r] = "stopped" /\ ~job[r]
  /\ phase' = [phase EXCEPT ![r] = "gone"]
  /\ call' = [call EXCEPT ![r] = "none"]
  /\ UNCHANGED <<holder, ttl, isLeader, wait, job, errors, gap, delays>>

Die(r) ==
  /\ phase[r] \notin {"new", "gone"}
  /\ phase' = [phase EXCEPT ![r] = "gone"]
  /\ call' = [call EXCEPT ![r] = "none"]
  /\ job' = [job EXCEPT ![r] = FALSE]
  /\ UNCHANGED <<holder, ttl, isLeader, wait, errors, gap, delays>>

-----------------------------------------------------------------------------
(* A job fires in every replica; _leader_only looks at is_leader once.       *)
StartJob(r) ==
  /\ Leader(r) /\ ~job[r]
  /\ job' = [job EXCEPT ![r] = TRUE]
  /\ UNCHANGED <<holder, ttl, phase, isLeader, call, wait, errors, gap, delays>>

EndJob(r) ==
  /\ job[r]
  /\ job' = [job EXCEPT ![r] = FALSE]
  /\ UNCHANGED <<holder, ttl, phase, isLeader, call, wait, errors, gap, delays>>

(* Whom a unit of time finds in a call, or with its tick due. *)
Late(r) == Electing(r) /\ (call[r] # "none" \/ wait[r] = 0)

Delay ==
  /\ late' = [r \in Replicas |-> IF Late(r) /\ late[r] < Slack THEN late[r] + 1 ELSE late[r]]
  /\ delayed' = (delayed \/ \E r \in Replicas :
                    Late(r) \/ call[r] # "none" \/ phase[r] = "releasing")

(* Mutant: the key was set without PX. *)
TimePassesWithoutExpiry ==
  /\ wait' = [r \in Replicas |-> IF Electing(r) /\ wait[r] > 0 THEN wait[r] - 1 ELSE wait[r]]
  /\ Delay
  /\ UNCHANGED <<holder, ttl, phase, isLeader, call, job, errors, gap>>

(* One unit of time passes; the key expires with its last unit.  Nothing    *)
(* limits how long a call to Redis or a pause of the process takes.          *)
TimePasses ==
  /\ ttl' = IF ttl > 0 THEN ttl - 1 ELSE 0
  /\ holder' = IF ttl > 1 THEN holder ELSE NoOne
  /\ wait' = [r \in Replicas |-> IF Electing(r) /\ wait[r] > 0 THEN wait[r] - 1 ELSE wait[r]]
  /\ gap' = IF (\E r \in Replicas : Up(r)) /\ ~\E r \in Replicas : Leader(r)
            THEN IF gap < LockTTL + RenewInterval + 1 THEN gap + 1 ELSE gap
            ELSE 0
  /\ Delay
  /\ UNCHANGED <<phase, isLeader, call, job, errors>>

ElectionStep(r) == Tick(r) \/ Execute(r) \/ Reply(r)

Next ==
  \/ \E r \in Replicas :
       \/ Start(r) \/ ElectionStep(r) \/ CallFails(r)
       \/ Stop(r) \/ Release(r) \/ ReleaseFails(r) \/ Exit(r) \/ Die(r)
       \/ StartJob(r) \/ EndJob(r)
  \/ TimePasses

Spec == Init /\ [][Next]_vars

(* Threads run, Redis answers, and time goes on. *)
FairSpec ==
  /\ Spec
  /\ \A r \in Replicas : WF_vars(ElectionStep(r)) /\ WF_vars(Release(r))
  /\ WF_vars(TimePasses)

-----------------------------------------------------------------------------
(* Properties                                                              *)

(* r was late for less than the TTL and the renew interval leave it.        *)
InTime(r) == late[r] < Slack

(* A replica that believes it is the leader holds the key, and the key       *)
(* outlives its next tick, as long as that replica itself, since its last    *)
(* renewal, was late for less than 20 s; however late it was before, and     *)
(* through stops, deaths, pauses and failed calls of the others.             *)
LeaderHoldsLock == \A r \in Replicas : Leader(r) /\ InTime(r) => holder = r /\ ttl > 0

(* So two running replicas that take the decision to run a job are one,      *)
(* unless one of them has been late for 20 s since it renewed.               *)
AtMostOneLeader ==
  \A r, q \in Replicas : Leader(r) /\ Leader(q) /\ InTime(r) /\ InTime(q) => r = q

(* And the job starts under the lock, whatever else runs.                    *)
JobsStartUnderLock ==
  [][\A r \in Replicas : job'[r] /\ ~job[r] /\ InTime(r) => holder = r]_vars

(* Failover: unless calls fail or threads are late, running replicas are     *)
(* without a leader for at most the life of the dead leader's key and one    *)
(* renew interval (40 s, where ADR 004 also speaks of a 30 s window).        *)
GapBounded == ~delayed => gap <= LockTTL + RenewInterval

(* A replica that was paused past its TTL and replaced steps down: two      *)
(* leaders never last.  This is what the compare in the renew script is for. *)
StaleLeaderStepsDown ==
  \A r, q \in Replicas : r # q => (Leader(r) /\ Leader(q) ~> ~(Leader(r) /\ Leader(q)))

(* While a replica stays up there is a leader again and again.              *)
LeaderRecurs ==
  (\E r \in Replicas : <>[]Up(r)) => []<>(\E r \in Replicas : Leader(r))
=============================================================================
