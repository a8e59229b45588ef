------------------------ MODULE LeaderElectionProofs ------------------------
(***************************************************************************)
(* Proofs about LeaderElection for any number of replicas and any TTL and  *)
(* renew interval: a leader that has not been late for their difference    *)
(* holds the key, jobs start under it, and without delays the gap without  *)
(* a leader is bounded.                                                    *)
(***************************************************************************)
EXTENDS LeaderElection, TLAPS

(* Why a leader in time still holds the key: since its last renewal the key *)
(* has aged as much as the replica has waited and been late, and the answer *)
(* of a command is true until the thread has acted on it.                   *)
LockInv ==
  \A r \in Replicas :
    /\ Leader(r) /\ InTime(r) => /\ call[r] \in {"none", "renew", "yes"}
                                 /\ holder = r
                                 /\ LockTTL + wait[r] <= ttl + RenewInterval + late[r]
    /\ Electing(r) /\ call[r] = "yes" /\ InTime(r) => holder = r /\ LockTTL <= ttl + late[r]
    /\ Electing(r) /\ call[r] = "renew" => Leader(r)

(* Who is late has delayed somebody.                                        *)
Punctual == ~delayed => \A r \in Replicas : late[r] = 0

(* The gap runs while the key of a lost leader ages, and then until the     *)
(* first waiting replica finds it free.                                     *)
GapInv ==
  /\ holder # NoOne => gap + ttl <= LockTTL
  /\ holder = NoOne =>
       \A r \in Replicas : Up(r) /\ call[r] = "none" =>
         gap + wait[r] <= LockTTL + RenewInterval
  /\ \A r \in Replicas : Electing(r) /\ call[r] = "no" => gap <= LockTTL
  /\ gap <= LockTTL + RenewInterval

USE ElectionAssumption DEF ElectionAssumption

-----------------------------------------------------------------------------

LEMMA TypeInit == Init => TypeOK
<1>1. Init => delayed \in BOOLEAN
  BY DEF Init
<1>2. Slack \in Nat
  BY DEF Slack
<1>. QED BY <1>1, <1>2 DEF Init, TypeOK

LEMMA TypeNext == TypeOK /\ [Next]_vars => TypeOK'
<1>. SUFFICES ASSUME TypeOK, [Next]_vars PROVE TypeOK'
  OBVIOUS
<1>. USE DEF TypeOK, delays
<1>0. Slack \in Nat
  BY DEF Slack
<1>1. ASSUME NEW r \in Replicas, Start(r) PROVE TypeOK'
  BY <1>1 DEF Start
<1>2. ASSUME NEW r \in Replicas, Tick(r) PROVE TypeOK'
  BY <1>2 DEF Tick
<1>3. ASSUME NEW r \in Replicas, Execute(r) PROVE TypeOK'
  BY <1>0, <1>3 DEF Execute
<1>4. ASSUME NEW r \in Replicas, Reply(r) PROVE TypeOK'
  BY <1>0, <1>4 DEF Reply, EndTick
<1>5. ASSUME NEW r \in Replicas, CallFails(r) PROVE TypeOK'
  BY <1>0, <1>5 DEF CallFails, EndTick
<1>6. ASSUME NEW r \in Replicas, Stop(r) PROVE TypeOK'
  BY <1>6 DEF Stop
<1>7. ASSUME NEW r \in Replicas, Release(r) PROVE TypeOK'
  BY <1>7 DEF Release
<1>8. ASSUME NEW r \in Replicas, ReleaseFails(r) PROVE TypeOK'
  BY <1>8 DEF ReleaseFails
<1>9. ASSUME NEW r \in Replicas, Exit(r) \/ Die(r) PROVE TypeOK'
  BY <1>9 DEF Exit, Die
<1>10. ASSUME NEW r \in Replicas, StartJob(r) \/ EndJob(r) PROVE TypeOK'
  BY <1>10 DEF StartJob, EndJob
<1>11. ASSUME TimePasses PROVE TypeOK'
  <2>1. late' \in [Replicas -> 0..Slack] /\ delayed' \in BOOLEAN
    BY <1>0, <1>11 DEF TimePasses, Delay
  <2>. QED BY <1>11, <2>1 DEF TimePasses
<1>12. CASE UNCHANGED vars
  BY <1>12 DEF vars, delays
<1>. QED BY <1>1, <1>2, <1>3, <1>4, <1>5, <1>6, <1>7, <1>8, <1>9, <1>10, <1>11, <1>12
         DEF Next, ElectionStep

(* The type invariant of the election, for every value of the constants.    *)
THEOREM TypeCorrect == Spec => []TypeOK
  BY TypeInit, TypeNext, PTL DEF Spec

-----------------------------------------------------------------------------

(* Delays are never taken back, and a step of time without one finds no call *)
(* and no due tick.                                                         *)
LEMMA DelaysStay == TypeOK /\ [Next]_vars /\ ~delayed' => ~delayed
  BY DEF TypeOK, Next, ElectionStep, vars, delays, Start, Tick, Execute, Reply,
         EndTick, CallFails, Stop, Release, ReleaseFails, Exit, Die, StartJob, EndJob,
         TimePasses, Delay

LEMMA TimelyTime ==
  ASSUME TypeOK, TimePasses, ~delayed'
  PROVE  \A r \in Replicas :
           /\ call[r] = "none" /\ phase[r] # "releasing" /\ ~Late(r)
           /\ Up(r) => wait[r] > 0
<1>1. ~\E r \in Replicas : Late(r) \/ call[r] # "none" \/ phase[r] = "releasing"
  BY Zenon DEF TimePasses, Delay
<1>. QED BY <1>1 DEF TypeOK, Late, Electing, Up

LEMMA PunctualNext == TypeOK /\ Punctual /\ [Next]_vars => Punctual'
<1>. SUFFICES ASSUME TypeOK, Punctual, [Next]_vars PROVE Punctual'
  OBVIOUS
<1>. USE DEF TypeOK, Punctual, delays
<1>1. CASE TimePasses
  <2>1. ASSUME ~delayed', NEW r \in Replicas PROVE late'[r] = late[r]
    BY <1>1, <2>1, TimelyTime DEF TimePasses, Delay
  <2>. QED BY <1>1, <2>1, DelaysStay
<1>2. CASE ~TimePasses
  BY <1>2 DEF Next, ElectionStep, vars, Start, Tick, Execute, Reply, EndTick, CallFails, Stop,
              Release, ReleaseFails, Exit, Die, StartJob, EndJob
<1>. QED BY <1>1, <1>2

LEMMA LockNext ==
  ASSUME TypeOK, LockInv, [Next]_vars
  PROVE  LockInv'
<1>. USE DEF TypeOK, LockInv, Leader, Up, Electing, InTime, delays
<1>0. Slack \in Nat \ {0} /\ Slack + RenewInterval = LockTTL
  BY DEF Slack
<1>1. ASSUME NEW r \in Replicas, Start(r) PROVE LockInv'
  BY <1>1 DEF Start
<1>2. ASSUME NEW r \in Replicas, Tick(r) PROVE LockInv'
  BY <1>2 DEF Tick
<1>3. ASSUME NEW r \in Replicas, Execute(r) PROVE LockInv'
  <2>0. \A q \in Replicas \ {r} : call'[q] = call[q] /\ late'[q] = late[q]
    BY <1>3 DEF Execute
  <2>1. CASE call[r] = "renew" /\ holder = r
    BY <1>0, <1>3, <2>0, <2>1 DEF Execute
  <2>2. CASE call[r] = "acquire" /\ holder = NoOne
    BY <1>0, <1>3, <2>0, <2>2 DEF Execute
  <2>3. CASE (call[r] = "renew" /\ holder # r) \/ (call[r] = "acquire" /\ holder # NoOne)
    BY <1>3, <2>0, <2>3 DEF Execute
  <2>. QED BY <1>3, <2>1, <2>2, <2>3 DEF Execute
<1>4. ASSUME NEW r \in Replicas, Reply(r) PROVE LockInv'
  <2>1. ASSUME NEW q \in Replicas, q # r
        PROVE  (Electing(q)' <=> Electing(q)) /\ late'[q] = late[q]
    BY <1>4, <2>1 DEF Reply, EndTick
  <2>2. call'[r] = "none" /\ wait'[r] = RenewInterval /\ holder' = holder /\ ttl' = ttl
    BY <1>4 DEF Reply, EndTick
  <2>3. Leader(r)' /\ InTime(r)' => holder = r /\ LockTTL <= ttl + late'[r]
    BY <1>4 DEF Reply, EndTick
  <2>. QED BY <1>0, <1>4, <2>1, <2>2, <2>3 DEF Reply, EndTick
<1>5. ASSUME NEW r \in Replicas, CallFails(r) PROVE LockInv'
  BY <1>5 DEF CallFails, EndTick
<1>6. ASSUME NEW r \in Replicas, Stop(r) PROVE LockInv'
  BY <1>6 DEF Stop
<1>7. ASSUME NEW r \in Replicas, Release(r) PROVE LockInv'
  BY <1>7 DEF Release
<1>8. ASSUME NEW r \in Replicas, ReleaseFails(r) PROVE LockInv'
  BY <1>8 DEF ReleaseFails
<1>9. ASSUME NEW r \in Replicas, Exit(r) \/ Die(r) PROVE LockInv'
  BY <1>9 DEF Exit, Die
<1>10. ASSUME NEW r \in Replicas, StartJob(r) \/ EndJob(r) PROVE LockInv'
  BY <1>10 DEF StartJob, EndJob
<1>11. ASSUME TimePasses PROVE LockInv'
  <2>1. /\ phase' = phase /\ isLeader' = isLeader /\ call' = call
        /\ ttl > 1 => holder' = holder /\ ttl' = ttl - 1
    BY <1>11 DEF TimePasses
  <2>2. ASSUME NEW r \in Replicas, Electing(r), InTime(r)'
        PROVE  /\ InTime(r)
               /\ Late(r) => late'[r] = late[r] + 1 /\ wait'[r] <= wait[r]
               /\ ~Late(r) => late'[r] = late[r] /\ wait'[r] = wait[r] - 1 /\ wait[r] > 0
    <3>1. late'[r] = IF Late(r) /\ late[r] < Slack THEN late[r] + 1 ELSE late[r]
      BY <1>11 DEF TimePasses, Delay
    <3>2. wait'[r] = IF wait[r] > 0 THEN wait[r] - 1 ELSE wait[r]
      BY <1>11, <2>2 DEF TimePasses
    <3>. QED BY <1>0, <2>2, <3>1, <3>2 DEF Late
  <2>3. ASSUME NEW r \in Replicas, Leader(r), InTime(r)'
        PROVE  /\ call[r] \in {"none", "renew", "yes"} /\ holder' = r
               /\ LockTTL + wait'[r] <= ttl' + RenewInterval + late'[r]
    <3>0. Electing(r) /\ InTime(r)
      BY <2>2, <2>3
    <3>1. /\ call[r] \in {"none", "renew", "yes"} /\ holder = r
          /\ LockTTL + wait[r] <= ttl + RenewInterval + late[r]
      BY <2>3, <3>0
    <3>2. ttl \in Nat /\ wait[r] \in Nat /\ late[r] \in Nat /\ late'[r] < Slack
      BY <1>0, <2>3
    <3>3. ttl > 1
      <4>1. CASE Late(r)
        BY <1>0, <2>2, <2>3, <3>0, <3>1, <3>2, <4>1
      <4>2. CASE ~Late(r)
        BY <1>0, <2>2, <2>3, <3>0, <3>1, <3>2, <4>2
      <4>. QED BY <4>1, <4>2
    <3>4. late'[r] - wait'[r] >= late[r] - wait[r] + 1 /\ wait'[r] \in Nat /\ late'[r] \in Nat
      <4>1. wait'[r] \in Nat /\ late'[r] \in Nat
        BY TypeNext
      <4>. QED BY <2>2, <2>3, <3>0, <3>2, <4>1
    <3>. QED BY <2>1, <3>1, <3>2, <3>3, <3>4
  <2>4. ASSUME NEW r \in Replicas, Electing(r), call[r] = "yes", InTime(r)'
        PROVE  holder' = r /\ LockTTL <= ttl' + late'[r]
    BY <1>0, <2>1, <2>2, <2>4 DEF Late
  <2>. QED BY <2>1, <2>3, <2>4
<1>12. CASE UNCHANGED vars
  BY <1>12 DEF vars
<1>. QED BY <1>1, <1>2, <1>3, <1>4, <1>5, <1>6, <1>7, <1>8, <1>9, <1>10, <1>11, <1>12
         DEF Next, ElectionStep

LEMMA LockImplies ==
  ASSUME TypeOK, LockInv
  PROVE  LeaderHoldsLock /\ AtMostOneLeader
<1>1. LeaderHoldsLock
  BY DEF TypeOK, LockInv, LeaderHoldsLock, InTime, Slack
<1>. QED BY <1>1 DEF LeaderHoldsLock, AtMostOneLeader

LEMMA LockAlways == Spec => [](TypeOK /\ LockInv /\ Punctual)
<1>1. Init => TypeOK /\ LockInv /\ Punctual
  BY TypeInit DEF Init, LockInv, Punctual, Leader, Up, Electing
<1>2. TypeOK /\ LockInv /\ Punctual /\ [Next]_vars => (TypeOK /\ LockInv /\ Punctual)'
  BY TypeNext, LockNext, PunctualNext
<1>. QED BY <1>1, <1>2, PTL DEF Spec

(* _election.is_leader of a running replica that has not been late for TTL   *)
(* minus renew interval since its last renewal means that it holds the key,  *)
(* whatever delays it had before and the others have, ...                    *)
THEOREM LeaderIsHolder == Spec => []LeaderHoldsLock
  BY LockAlways, LockImplies, PTL

(* ... so at most one such replica believes it is the leader.                *)
THEOREM LeaderIsUnique == Spec => []AtMostOneLeader
  BY LockAlways, LockImplies, PTL

LEMMA JobStartsLocked ==
  ASSUME TypeOK, LockInv, [Next]_vars, NEW r \in Replicas, job'[r] /\ ~job[r], InTime(r)
  PROVE  holder = r
<1>. USE DEF TypeOK, delays
<1>1. \E q \in Replicas : StartJob(q)
  BY DEF Next, ElectionStep, vars, Start, Tick, Execute, Reply, EndTick, CallFails, Stop,
         Release, ReleaseFails, Exit, Die, StartJob, EndJob, TimePasses
<1>2. StartJob(r)
  BY <1>1 DEF StartJob
<1>. QED BY <1>2, LockImplies DEF StartJob, LeaderHoldsLock

(* And a leader-only job never starts on such a replica without the key.    *)
THEOREM JobsAreLocked == Spec => JobsStartUnderLock
<1>1. TypeOK /\ LockInv /\ [Next]_vars =>
        [\A r \in Replicas : job'[r] /\ ~job[r] /\ InTime(r) => holder = r]_vars
  BY JobStartsLocked
<1>. QED BY <1>1, LockAlways, PTL DEF Spec, JobsStartUnderLock

-----------------------------------------------------------------------------

LEMMA GapNext ==
  ASSUME TypeOK, LockInv, Punctual, GapInv, [Next]_vars, ~delayed'
  PROVE  GapInv'
<1>0. \A r \in Replicas : late[r] = 0 /\ InTime(r)
  <2>1. \A r \in Replicas : late[r] = 0
    BY DelaysStay DEF Punctual
  <2>. QED BY <2>1 DEF InTime, Slack
<1>. USE DEF TypeOK, GapInv, Up, Electing
<1>1. ASSUME NEW r \in Replicas, Start(r) PROVE GapInv'
  BY <1>1 DEF Start
<1>2. ASSUME NEW r \in Replicas, Tick(r) PROVE GapInv'
  BY <1>2 DEF Tick
<1>3. ASSUME NEW r \in Replicas, Execute(r) PROVE GapInv'
  <2>1. CASE (call[r] = "renew" /\ holder = r) \/ (call[r] = "acquire" /\ holder = NoOne)
    BY <1>3, <2>1 DEF Execute
  <2>2. CASE call[r] = "acquire" /\ holder # NoOne
    BY <1>3, <2>2 DEF Execute
  <2>3. CASE call[r] = "renew" /\ holder # r
    <3>1. ~Electing(r)
      BY <1>0, <2>3 DEF LockInv, Leader
    <3>. QED BY <1>3, <2>3, <3>1 DEF Execute
  <2>. QED BY <1>3, <2>1, <2>2, <2>3 DEF Execute
<1>4. ASSUME NEW r \in Replicas, Reply(r) PROVE GapInv'
  BY <1>0, <1>4 DEF Reply, EndTick, LockInv
<1>5. ASSUME NEW r \in Replicas, CallFails(r) PROVE GapInv'
  BY <1>5 DEF CallFails, EndTick
<1>6. ASSUME NEW r \in Replicas, Stop(r) PROVE GapInv'
  BY <1>6 DEF Stop
<1>7. ASSUME NEW r \in Replicas, Release(r) PROVE GapInv'
  BY <1>7 DEF Release
<1>8. ASSUME NEW r \in Replicas, ReleaseFails(r) PROVE GapInv'
  BY <1>8 DEF ReleaseFails
<1>9. ASSUME NEW r \in Replicas, Exit(r) \/ Die(r) PROVE GapInv'
  BY <1>9 DEF Exit, Die
<1>10. ASSUME NEW r \in Replicas, StartJob(r) \/ EndJob(r) PROVE GapInv'
  BY <1>10 DEF StartJob, EndJob
<1>11. ASSUME TimePasses PROVE GapInv'
  <2>1. \A r \in Replicas : call[r] = "none" /\ call'[r] = "none"
    BY <1>11, TimelyTime DEF TimePasses
  <2>2. \A r \in Replicas : Up(r) => wait[r] > 0 /\ wait'[r] = wait[r] - 1 /\ Up(r)'
    BY <1>11, <2>1, TimelyTime DEF TimePasses
  <2>3. CASE gap' = 0
    BY <1>11, <2>1, <2>2, <2>3 DEF TimePasses
  <2>4. CASE gap' # 0
    <3>1. PICK r \in Replicas : Up(r)
      BY <1>11, <2>4 DEF TimePasses
    <3>2. gap' \in Nat /\ gap' <= gap + 1
      BY <1>11 DEF TimePasses, Delay
    <3>3. gap + wait[r] <= LockTTL + RenewInterval
      BY <2>1, <3>1
    <3>4. (gap <= LockTTL + RenewInterval)'
      BY <2>2, <3>1, <3>2, <3>3
    <3>5. holder' # NoOne => gap' + ttl' <= LockTTL
      BY <1>11, <3>2 DEF TimePasses
    <3>6. holder' = NoOne => \A q \in Replicas : Up(q)' =>
            gap' + wait'[q] <= LockTTL + RenewInterval
      BY <1>11, <2>1, <2>2, <3>2 DEF TimePasses
    <3>. QED BY <2>1, <3>4, <3>5, <3>6
  <2>. QED BY <2>3, <2>4
<1>12. CASE UNCHANGED vars
  BY <1>12 DEF vars, delays
<1>. QED BY <1>1, <1>2, <1>3, <1>4, <1>5, <1>6, <1>7, <1>8, <1>9, <1>10, <1>11, <1>12
         DEF Next, ElectionStep

(* Failover takes at most the TTL and one renew interval, unless a call      *)
(* raises in between.                                                        *)
THEOREM FailoverIsBounded == Spec => []GapBounded
<1>. DEFINE TimelyGap == ~delayed => GapInv
<1>1. Init => TimelyGap
  BY DEF Init, GapInv, Up, Electing
<1>2. TypeOK /\ LockInv /\ Punctual /\ TimelyGap /\ [Next]_vars => TimelyGap'
  BY GapNext, DelaysStay
<1>3. TimelyGap => GapBounded
  BY DEF GapInv, GapBounded
<1>. HIDE DEF TimelyGap
<1>. QED BY <1>1, <1>2, <1>3, LockAlways, PTL DEF Spec
=============================================================================
