-------------------------- MODULE TrafficJobsProofs --------------------------
(***************************************************************************)
(* Proofs about TrafficJobs for any number of events and rollups, any chunk *)
(* size and any number of database sessions.                                *)
(***************************************************************************)
EXTENDS TrafficJobs, FiniteSetTheorems, WellFoundedInduction, TLAPS

USE JobsAssumption DEF JobsAssumption

(* A job works on events that were captured when its cutoff was computed.   *)
OnCaptured(job) == job.due \subseteq Captured /\ job.ids \subseteq job.due
JobInv(job) == job \in Job /\ HoldsChunk(job) /\ OnCaptured(job)

RollupsType == roll \in [Rollups -> Job] /\ \A j \in Rollups : JobInv(roll[j])
EventsType ==
  /\ age \in [Events -> 0..Old \cup {Never}] /\ rows \subseteq Captured
  /\ lastSeen \in 0..Old \cup {Never} /\ summary \in Nat
  /\ counted \subseteq Captured /\ erased \subseteq Captured /\ doubled \in BOOLEAN
DeletesType ==
  /\ JobInv(prune)
  /\ erase \in Job /\ HoldsChunk(erase) /\ erase.due \subseteq Captured
EndpointType ==
  state \in State /\ tx \in [Sessions -> Transaction] /\ crossed \in BOOLEAN

Types == EventsType /\ RollupsType /\ DeletesType /\ EndpointType

LEMMA OldType == Old \in Nat /\ 0 \in 0..Old /\ Month < Old /\ Window < Old
  BY DEF Old

LEMMA OffType == JobInv(Off)
  BY DEF Off, Job, HoldsChunk, JobInv, OnCaptured

LEMMA StartType ==
  ASSUME NEW due \in SUBSET Events, due \subseteq Captured
  PROVE  JobInv([Off EXCEPT !.step = "read", !.due = due])
  BY DEF Off, Job, HoldsChunk, JobInv, OnCaptured

LEMMA ChunkRead ==
  ASSUME NEW job, JobInv(job), NEW ids \in SUBSET Events, ids # {}, ids \subseteq job.due,
         NEW old \in Nat
  PROVE  /\ JobInv([job EXCEPT !.step = "write", !.ids = ids, !.old = old])
         /\ JobInv([job EXCEPT !.step = "write", !.ids = ids])
  BY DEF Job, HoldsChunk, JobInv, OnCaptured

LEMMA AfterChunkType ==
  ASSUME NEW job \in Job, NEW end \in {"off", "done"}
  PROVE  /\ AfterChunk(job, end) \in Job /\ HoldsChunk(AfterChunk(job, end))
         /\ AfterChunk(job, end).due = job.due /\ AfterChunk(job, end).ids = {}
         /\ AfterChunk(job, end).step \in {"read", end}
  BY DEF AfterChunk, Job, HoldsChunk

LEMMA AfterChunkInv ==
  ASSUME NEW job, JobInv(job), NEW end \in {"off", "done"}
  PROVE  JobInv(AfterChunk(job, end))
  BY AfterChunkType DEF JobInv, OnCaptured

(* A chunk of a set that is not empty is not empty. *)
LEMMA ChunkType ==
  ASSUME NEW S \in SUBSET Events, S # {}, NEW ids, IsChunk(ids, S)
  PROVE  ids \in SUBSET Events /\ ids # {} /\ ids \subseteq S
<1>1. IsFiniteSet(S) /\ Cardinality(S) \in Nat /\ Cardinality(S) # 0
  BY FS_Subset, FS_CardinalityType, FS_EmptySet
<1>. QED BY <1>1, FS_EmptySet DEF IsChunk

LEMMA FirstOfType ==
  ASSUME NEW S \in SUBSET Events, S # {}
  PROVE  FirstOf(S) \in SUBSET Events /\ FirstOf(S) # {} /\ FirstOf(S) \subseteq S
<1>1. PICK x \in S : \A y \in S : x <= y
  <2>1. PICK x \in S : \A y \in S : <<y, x>> \notin OpToRel(<, Nat)
    BY NatLessThanWellFounded, WFMin
  <2>2. \A y \in S : ~(y < x)
    BY <2>1 DEF OpToRel
  <2>. QED BY <2>2
<1>. x \in Nat /\ \A y \in S : y \in Nat
  OBVIOUS
<1>2. {d \in S : d <= x} = {x}
  <2>1. \A d \in S : d <= x <=> d = x
    BY <1>1
  <2>. QED BY <2>1
<1>3. Cardinality({x}) = 1
  BY FS_Singleton
<1>4. x \in FirstOf(S)
  BY <1>2, <1>3 DEF FirstOf
<1>. QED BY <1>4 DEF FirstOf

-----------------------------------------------------------------------------
(* Types                                                                   *)

LEMMA SameAge == UNCHANGED age => Captured' = Captured
  BY DEF Captured

LEMMA CaptureType ==
  ASSUME EventsType, NEW e \in Events, Capture(e)
  PROVE  EventsType' /\ Captured' = Captured \cup {e} /\ e \notin Captured
<1>1. Captured' = Captured \cup {e} /\ e \notin Captured
  BY DEF Capture, Captured, EventsType
<1>. QED BY <1>1, OldType DEF Capture, EventsType

LEMMA TimeType ==
  ASSUME EventsType, TimePasses
  PROVE  EventsType' /\ Captured' = Captured
<1>1. \A a \in 0..Old \cup {Never} : Older(a) \in 0..Old \cup {Never} /\ (Older(a) = Never <=> a = Never)
  BY OldType DEF Older
<1>2. Captured' = Captured
  BY <1>1 DEF TimePasses, Captured, EventsType
<1>. QED BY <1>1, <1>2 DEF TimePasses, EventsType

(* A job that goes on as `job`, or not at all. *)
LEMMA OtherRollups ==
  ASSUME RollupsType, NEW j \in Rollups, NEW job, JobInv(job), roll' = [roll EXCEPT ![j] = job],
         UNCHANGED age
  PROVE  RollupsType'
<1>1. \A k \in Rollups : JobInv(roll'[k])
  BY DEF RollupsType
<1>2. roll' \in [Rollups -> Job]
  BY <1>1 DEF RollupsType, JobInv
<1>. QED BY <1>1, <1>2, SameAge DEF RollupsType, JobInv, OnCaptured

LEMMA RollupType ==
  ASSUME EventsType, RollupsType, NEW j \in Rollups, Rollup(j)
  PROVE  EventsType' /\ RollupsType'
<1>. UNCHANGED age /\ Captured' = Captured /\ Captured \subseteq Events /\ JobInv(roll[j])
  BY SameAge DEF Rollup, StartRollup, ReadRollup, CommitRollup, RollupFails, Captured, RollupsType
<1>1. CASE StartRollup(j)
  <2>1. Expired(Month) \in SUBSET Events /\ Expired(Month) \subseteq Captured
    BY DEF Expired, EventsType
  <2>2. EventsType'
    BY <1>1 DEF StartRollup, EventsType
  <2>. QED BY <1>1, <2>1, <2>2, StartType, OtherRollups DEF StartRollup
<1>2. CASE ReadRollup(j)
  <2>. DEFINE S == roll[j].due \cap rows
  <2>1. S \in SUBSET Events /\ S \subseteq roll[j].due
    BY DEF EventsType
  <2>2. EventsType'
    BY <1>2 DEF ReadRollup, EventsType
  <2>3. CASE S = {}
    BY <1>2, <2>2, <2>3, OffType, OtherRollups DEF ReadRollup
  <2>4. CASE S # {}
    <3>1. /\ FirstOf(S) \in SUBSET Events /\ FirstOf(S) # {}
          /\ FirstOf(S) \subseteq roll[j].due /\ summary \in Nat
      BY <2>1, <2>4, FirstOfType DEF EventsType
    <3>. DEFINE new == [roll[j] EXCEPT !.step = "write", !.ids = FirstOf(S), !.old = summary]
    <3>2. JobInv(new)
      BY <3>1, ChunkRead
    <3>3. roll' = [roll EXCEPT ![j] = new]
      BY <1>2, <2>4 DEF ReadRollup
    <3>. HIDE DEF new
    <3>. QED BY <2>2, <3>2, <3>3, OtherRollups
  <2>. QED BY <2>3, <2>4
<1>3. CASE CommitRollup(j)
  <2>1. roll[j].ids \subseteq Captured /\ roll[j].old \in Nat
    BY DEF JobInv, OnCaptured, Job
  <2>2. Cardinality(roll[j].ids) \in Nat
    BY <2>1, FS_Subset, FS_CardinalityType
  <2>3. EventsType'
    <3>1. summary' \in Nat
      BY <1>3, <2>1, <2>2 DEF CommitRollup
    <3>2. rows' \subseteq Captured' /\ counted' \subseteq Captured' /\ erased' \subseteq Captured'
      BY <1>3, <2>1 DEF CommitRollup, EventsType
    <3>3. UNCHANGED <<age, lastSeen, doubled>>
      BY <1>3 DEF CommitRollup
    <3>. QED BY <3>1, <3>2, <3>3 DEF EventsType
  <2>4. JobInv(AfterChunk(roll[j], "off"))
    BY AfterChunkInv
  <2>5. roll' = [roll EXCEPT ![j] = AfterChunk(roll[j], "off")]
    BY <1>3 DEF CommitRollup
  <2>. QED BY <2>3, <2>4, <2>5, OtherRollups
<1>4. CASE RollupFails(j)
  <2>1. EventsType'
    BY <1>4 DEF RollupFails, EventsType
  <2>. QED BY <1>4, <2>1, OffType, OtherRollups DEF RollupFails
<1>. QED BY <1>1, <1>2, <1>3, <1>4 DEF Rollup

LEMMA PruneType ==
  ASSUME EventsType, JobInv(prune), Prune
  PROVE  EventsType' /\ JobInv(prune)'
<1>. UNCHANGED age /\ Captured' = Captured /\ Captured \subseteq Events
  BY SameAge DEF Prune, StartPrune, ReadPrune, CommitPrune, PruneFails, Captured
<1>1. EventsType'
  BY DEF Prune, StartPrune, ReadPrune, CommitPrune, PruneFails, EventsType
<1>2. JobInv(prune')
  <2>1. CASE StartPrune
    <3>1. Expired(Window) \in SUBSET Events /\ Expired(Window) \subseteq Captured
      BY DEF Expired, EventsType
    <3>. QED BY <2>1, <3>1, StartType DEF StartPrune
  <2>2. CASE ReadPrune
    <3>. DEFINE S == prune.due \cap rows
    <3>1. S \in SUBSET Events
      BY DEF EventsType
    <3>2. CASE S = {}
      BY <2>2, <3>2, OffType DEF ReadPrune
    <3>3. CASE S # {}
      <4>1. PICK ids \in SUBSET S : IsChunk(ids, S)
                                     /\ prune' = [prune EXCEPT !.step = "write", !.ids = ids]
        BY <2>2, <3>3 DEF ReadPrune
      <4>2. ids \in SUBSET Events /\ ids # {} /\ ids \subseteq prune.due
        BY <3>1, <3>3, <4>1, ChunkType
      <4>. QED BY <4>1, <4>2, ChunkRead
    <3>. QED BY <3>2, <3>3
  <2>3. CASE CommitPrune
    BY <2>3, AfterChunkInv DEF CommitPrune
  <2>4. CASE PruneFails
    BY <2>4, OffType DEF PruneFails
  <2>. QED BY <2>1, <2>2, <2>3, <2>4 DEF Prune
<1>. QED BY <1>1, <1>2 DEF JobInv, OnCaptured

LEMMA EraseType ==
  ASSUME EventsType, DeletesType, Erase
  PROVE  EventsType' /\ DeletesType'
<1>. DEFINE Inv(job) == job \in Job /\ HoldsChunk(job) /\ job.due \subseteq Captured
<1>. UNCHANGED <<age, prune>> /\ Captured' = Captured /\ Captured \subseteq Events /\ Inv(erase)
  BY SameAge DEF Erase, StartErase, ReadErase, CommitErase, EraseFails, Captured, DeletesType
<1>1. EventsType'
  BY DEF Erase, StartErase, ReadErase, CommitErase, EraseFails, EventsType
<1>2. Inv(erase')
  <2>1. CASE StartErase
    <3>1. rows \cap Personal \in SUBSET Events /\ rows \cap Personal \subseteq Captured
      BY DEF EventsType
    <3>2. JobInv(erase')
      BY <2>1, <3>1, StartType DEF StartErase
    <3>. QED BY <3>2 DEF JobInv, OnCaptured
  <2>2. CASE ReadErase
    <3>. DEFINE S == rows \cap Personal
    <3>1. S \in SUBSET Events
      BY DEF EventsType
    <3>2. CASE S = {}
      BY <2>2, <3>2 DEF ReadErase, Job, HoldsChunk
    <3>3. CASE S # {}
      <4>1. PICK ids \in SUBSET S : IsChunk(ids, S)
                                     /\ erase' = [erase EXCEPT !.step = "write", !.ids = ids]
        BY <2>2, <3>3 DEF ReadErase
      <4>2. ids \in SUBSET Events /\ ids # {}
        BY <3>1, <3>3, <4>1, ChunkType
      <4>. QED BY <4>1, <4>2 DEF Job, HoldsChunk
    <3>. QED BY <3>2, <3>3
  <2>3. CASE CommitErase
    BY <2>3, AfterChunkType DEF CommitErase
  <2>4. CASE EraseFails
    BY <2>4, OffType DEF EraseFails, JobInv, OnCaptured
  <2>. QED BY <2>1, <2>2, <2>3, <2>4 DEF Erase
<1>. QED BY <1>1, <1>2 DEF DeletesType, JobInv, OnCaptured

LEMMA StatusType == \A S, d : StatusOf(S, d) \in Status \ {"RETIRED"}
  BY DEF StatusOf, Classify, Status

LEMMA SeenType == Closed \in Transaction /\ NoState \in State /\ \A row \in State : AsSeen(row) \in Seen
  BY DEF Closed, Transaction, State, NoState, AsSeen, Seen, Status

LEMMA ReadType ==
  ASSUME EndpointType, NEW s \in Sessions, NEW by \in {"recompute", "request"},
         NEW new \in Status \cup {state.status}, NEW flag \in BOOLEAN, Read(s, by, new, flag)
  PROVE  EndpointType'
<1>1. (IF new = state.status THEN "same" ELSE new) \in Status \cup {"same"}
  OBVIOUS
<1>2. AsSeen(state) \in Seen
  BY SeenType DEF EndpointType
<1>3. tx' \in [Sessions -> Transaction]
  BY <1>1, <1>2 DEF Read, EndpointType, Transaction
<1>. QED BY <1>3 DEF Read, EndpointType

LEMMA LifecycleType ==
  ASSUME EndpointType, NEW s \in Sessions, Lifecycle(s)
  PROVE  EndpointType'
<1>. state.retired \in BOOLEAN /\ tx[s] \in Transaction
  BY DEF EndpointType, State
<1>1. CASE Recompute(s)
  <2>1. (IF state.retired THEN state.status ELSE StatusOf(rows, lastSeen))
          \in Status \cup {state.status}
    BY StatusType
  <2>. QED BY <1>1, <2>1, ReadType DEF Recompute
<1>2. CASE Retire(s)
  BY <1>2, ReadType DEF Retire, Status
<1>3. CASE Reactivate(s)
  BY <1>3, StatusType, ReadType DEF Reactivate
<1>4. CASE Commit(s)
  <2>1. state'.retired \in BOOLEAN /\ crossed' \in BOOLEAN
    <3>1. tx[s].retired \in BOOLEAN
      BY DEF Transaction
    <3>2. crossed' \in BOOLEAN
      BY <1>4, Zenon DEF Commit
    <3>3. state'.retired \in {state.retired, tx[s].retired}
      BY <1>4 DEF Commit
    <3>. QED BY <3>1, <3>2, <3>3
  <2>2. state' \in State
    BY <1>4, <2>1 DEF Commit, EndpointType, State, Transaction
  <2>3. tx' \in [Sessions -> Transaction]
    BY <1>4, SeenType DEF Commit, EndpointType
  <2>. QED BY <2>1, <2>2, <2>3 DEF EndpointType
<1>5. CASE RollBack(s)
  BY <1>5, SeenType DEF RollBack, EndpointType
<1>. QED BY <1>1, <1>2, <1>3, <1>4, <1>5 DEF Lifecycle

(* Which parts of the state a step leaves alone. *)
LEMMA Frames ==
  /\ \A e : Capture(e) => UNCHANGED <<jobs, endpoint>>
  /\ TimePasses => UNCHANGED <<jobs, endpoint>>
  /\ \A j : Rollup(j) => UNCHANGED <<age, prune, erase, endpoint>>
  /\ Prune => UNCHANGED <<age, roll, erase, endpoint>>
  /\ Erase => UNCHANGED <<age, roll, prune, endpoint>>
  /\ \A s : Lifecycle(s) => UNCHANGED <<age, rows, lastSeen, summary, jobs, counted, erased, doubled>>
<1>1. \A e : Capture(e) => UNCHANGED <<jobs, endpoint>>
  BY DEF Capture
<1>2. TimePasses => UNCHANGED <<jobs, endpoint>>
  BY DEF TimePasses
<1>3. \A j : Rollup(j) => UNCHANGED <<age, prune, erase, endpoint>>
  BY DEF Rollup, StartRollup, ReadRollup, CommitRollup, RollupFails
<1>4. Prune => UNCHANGED <<age, roll, erase, endpoint>>
  BY DEF Prune, StartPrune, ReadPrune, CommitPrune, PruneFails
<1>5. Erase => UNCHANGED <<age, roll, prune, endpoint>>
  BY DEF Erase, StartErase, ReadErase, CommitErase, EraseFails
<1>6. \A s : Lifecycle(s) => UNCHANGED <<age, rows, lastSeen, summary, jobs, counted, erased, doubled>>
  BY DEF Lifecycle, Recompute, Retire, Reactivate, Read, Commit, RollBack
<1>. QED BY <1>1, <1>2, <1>3, <1>4, <1>5, <1>6

LEMMA TypesInvariant == Types /\ [Next]_vars => Types'
<1>. SUFFICES ASSUME Types, [Next]_vars PROVE Types'
  OBVIOUS
<1>. EventsType /\ RollupsType /\ DeletesType /\ EndpointType
  BY DEF Types
<1>1. ASSUME Captured \subseteq Captured', UNCHANGED jobs PROVE RollupsType' /\ DeletesType'
  BY <1>1 DEF jobs, RollupsType, DeletesType, JobInv, OnCaptured
<1>2. ASSUME UNCHANGED endpoint PROVE EndpointType'
  BY <1>2 DEF endpoint, EndpointType
<1>3. ASSUME NEW e \in Events, Capture(e) PROVE Types'
  BY <1>1, <1>2, <1>3, CaptureType, Frames DEF Types
<1>4. CASE TimePasses
  BY <1>1, <1>2, <1>4, TimeType, Frames DEF Types
<1>5. ASSUME NEW j \in Rollups, Rollup(j) PROVE Types'
  <2>1. UNCHANGED <<age, prune, erase, endpoint>>
    BY <1>5, Frames
  <2>2. DeletesType'
    BY <2>1, SameAge DEF DeletesType, JobInv, OnCaptured
  <2>. QED BY <1>2, <1>5, <2>1, <2>2, RollupType DEF Types
<1>6. CASE Prune
  <2>1. UNCHANGED <<age, roll, erase, endpoint>>
    BY <1>6, Frames
  <2>2. EventsType' /\ JobInv(prune)'
    BY <1>6, PruneType DEF DeletesType
  <2>3. RollupsType' /\ DeletesType'
    BY <2>1, <2>2, SameAge DEF RollupsType, DeletesType, JobInv, OnCaptured
  <2>. QED BY <1>2, <2>1, <2>2, <2>3 DEF Types
<1>7. CASE Erase
  <2>1. UNCHANGED <<age, roll, prune, endpoint>>
    BY <1>7, Frames
  <2>2. RollupsType'
    BY <2>1, SameAge DEF RollupsType, JobInv, OnCaptured
  <2>. QED BY <1>2, <1>7, <2>1, <2>2, EraseType DEF Types
<1>8. ASSUME NEW s \in Sessions, Lifecycle(s) PROVE Types'
  <2>1. EventsType' /\ RollupsType' /\ DeletesType'
    BY <1>1, <1>8, Frames, SameAge DEF EventsType
  <2>. QED BY <1>8, <2>1, LifecycleType DEF Types
<1>9. CASE UNCHANGED vars
  <2>1. EventsType'
    BY <1>9, SameAge DEF vars, EventsType
  <2>2. Captured' = Captured /\ UNCHANGED <<jobs, endpoint>>
    BY <1>9, SameAge DEF vars
  <2>. QED BY <1>1, <1>2, <2>1, <2>2 DEF Types
<1>. QED BY <1>3, <1>4, <1>5, <1>6, <1>7, <1>8, <1>9 DEF Next

LEMMA TypesHold == Spec => []Types
<1>1. Init => Types
  <2>1. Init => EventsType
    <3>1. Init => age \in [Events -> 0..Old \cup {Never}] /\ lastSeen \in 0..Old \cup {Never}
      BY DEF Init
    <3>2. Init => summary \in Nat /\ rows = {} /\ counted = {} /\ erased = {}
      BY DEF Init
    <3>3. Init => doubled \in BOOLEAN
      BY Zenon DEF Init
    <3>. QED BY <3>1, <3>2, <3>3 DEF EventsType
  <2>2. Init => RollupsType /\ DeletesType
    BY OffType DEF Init, RollupsType, DeletesType, JobInv, OnCaptured
  <2>3. Init => EndpointType
    <3>1. Init => state \in State /\ tx \in [Sessions -> Transaction]
      BY SeenType DEF Init
    <3>2. Init => crossed \in BOOLEAN
      BY Zenon DEF Init
    <3>. QED BY <3>1, <3>2 DEF EndpointType
  <2>. QED BY <2>1, <2>2, <2>3 DEF Types
<1>. QED BY <1>1, TypesInvariant, PTL DEF Spec

(* The events, the jobs and the endpoint's row stay well-formed however jobs, *)
(* requests and their failures interleave.                                    *)
THEOREM TypeCorrect == Spec => []TypeOK
<1>1. Types => TypeOK
  BY DEF Types, TypeOK, EventsType, RollupsType, DeletesType, EndpointType, JobInv
<1>. QED BY <1>1, TypesHold, PTL

-----------------------------------------------------------------------------
(* Erasure                                                                 *)

(* While an erasure works, what it was asked for is the client's; a chunk    *)
(* shorter than the limit holds all that is left of it.                      *)
ErasureInv ==
  /\ erase.step \in {"read", "write", "done"} => erase.due \subseteq Personal
  /\ erase.step = "write" /\ Cardinality(erase.ids) < ChunkSize
       => erase.due \cap rows \subseteq erase.ids
  /\ ErasureComplete

(* Rows only appear for events that no erasure has been asked for. *)
LEMMA DueIsCaptured ==
  ASSUME Types, [Next]_vars, UNCHANGED erase
  PROVE  erase.due \cap rows' \subseteq rows
<1>1. ASSUME NEW e \in Events, Capture(e) PROVE erase.due \cap rows' \subseteq rows
  BY <1>1, CaptureType DEF Types, DeletesType, Capture
<1>2. ASSUME rows' \subseteq rows PROVE erase.due \cap rows' \subseteq rows
  BY <1>2
<1>3. ASSUME NEW j \in Rollups, Rollup(j) PROVE rows' \subseteq rows
  BY <1>3 DEF Rollup, StartRollup, ReadRollup, CommitRollup, RollupFails
<1>4. Prune => rows' \subseteq rows
  BY DEF Prune, StartPrune, ReadPrune, CommitPrune, PruneFails
<1>5. Erase => rows' \subseteq rows
  BY DEF Erase, StartErase, ReadErase, CommitErase, EraseFails
<1>6. TimePasses \/ (\E s \in Sessions : Lifecycle(s)) \/ UNCHANGED vars => rows' \subseteq rows
  BY Frames DEF TimePasses, vars
<1>. QED BY <1>1, <1>2, <1>3, <1>4, <1>5, <1>6 DEF Next

LEMMA ErasureInvariant == Types /\ ErasureInv /\ [Next]_vars => ErasureInv'
<1>. SUFFICES ASSUME Types, ErasureInv, [Next]_vars PROVE ErasureInv'
  OBVIOUS
<1>. erase \in Job /\ HoldsChunk(erase) /\ rows \subseteq Events
  BY DEF Types, DeletesType, EventsType, Captured
<1>1. ASSUME UNCHANGED erase PROVE ErasureInv'
  BY <1>1, DueIsCaptured DEF ErasureInv, ErasureComplete
<1>2. CASE StartErase
  BY <1>2 DEF StartErase, Off, ErasureInv, ErasureComplete
<1>3. CASE ReadErase
  <2>. DEFINE S == rows \cap Personal
  <2>. erase.step = "read" /\ erase.due \subseteq Personal
    BY <1>3 DEF ReadErase, ErasureInv
  <2>1. CASE S = {}
    <3>1. rows' = rows /\ erase'.step = "done" /\ erase'.due = erase.due
      BY <1>3, <2>1 DEF ReadErase, Job
    <3>. QED BY <2>1, <3>1 DEF ErasureInv, ErasureComplete
  <2>2. CASE S # {}
    <3>1. PICK ids \in SUBSET S : IsChunk(ids, S)
                                   /\ erase' = [erase EXCEPT !.step = "write", !.ids = ids]
      BY <1>3, <2>2 DEF ReadErase
    <3>2. rows' = rows /\ erase'.step = "write" /\ erase'.due = erase.due /\ erase'.ids = ids
      BY <1>3, <3>1 DEF ReadErase, Job
    <3>3. ASSUME Cardinality(ids) < ChunkSize PROVE ids = S
      <4>1. S \in SUBSET Events /\ IsFiniteSet(S)
        BY FS_Subset
      <4>2. Cardinality(ids) = Cardinality(S)
        BY <3>1, <3>3 DEF IsChunk
      <4>. QED BY <4>1, <4>2, FS_Subset
    <3>. QED BY <3>2, <3>3 DEF ErasureInv, ErasureComplete
  <2>. QED BY <2>1, <2>2
<1>4. CASE CommitErase
  <2>1. erase.step = "write" /\ erase.due \subseteq Personal /\ rows' = rows \ erase.ids
        /\ erase' = AfterChunk(erase, "done")
    BY <1>4 DEF CommitErase, ErasureInv
  <2>2. CASE Cardinality(erase.ids) < ChunkSize
    <3>1. erase'.step = "done" /\ erase'.due = erase.due
      BY <2>1, <2>2 DEF AfterChunk, Job
    <3>. QED BY <2>1, <2>2, <3>1 DEF ErasureInv, ErasureComplete
  <2>3. CASE ~(Cardinality(erase.ids) < ChunkSize)
    <3>1. erase'.step = "read" /\ erase'.due = erase.due
      BY <2>1, <2>3 DEF AfterChunk, Job
    <3>. QED BY <2>1, <3>1 DEF ErasureInv, ErasureComplete
  <2>. QED BY <2>2, <2>3
<1>5. CASE EraseFails
  BY <1>5 DEF EraseFails, Off, ErasureInv, ErasureComplete
<1>. QED
  <2>1. (\E e \in Events : Capture(e)) \/ (\E j \in Rollups : Rollup(j)) \/ TimePasses \/ Prune
        \/ (\E s \in Sessions : Lifecycle(s)) \/ UNCHANGED vars => UNCHANGED erase
    BY Frames DEF jobs, vars
  <2>. QED BY <1>1, <1>2, <1>3, <1>4, <1>5, <2>1 DEF Next, Erase

(* An erasure that answers has deleted every row its client had when it was  *)
(* asked, whatever captures, rollups and prunes it runs beside.              *)
THEOREM ErasureIsComplete == Spec => []ErasureComplete
<1>1. Init => ErasureInv
  BY DEF Init, Off, ErasureInv, ErasureComplete
<1>2. ErasureInv => ErasureComplete
  BY DEF ErasureInv
<1>. QED BY <1>1, <1>2, ErasureInvariant, TypesHold, PTL DEF Spec

-----------------------------------------------------------------------------
(* Counting                                                                *)

(* A chunk adds its rows to a count that was right when it was read, of      *)
(* other rows.                                                              *)
Counts(job) == job.step = "write" => job.old <= Cardinality(counted \ job.ids)

(* Without overlap there is one rollup, and what it has read still holds.   *)
Alone ==
  /\ summary = Cardinality(counted)
  /\ \A j, k \in Rollups : roll[j].step # "off" /\ roll[k].step # "off" => j = k
  /\ \A j \in Rollups : roll[j].step = "write"
       => roll[j].old = summary /\ roll[j].ids \cap counted = {}

CountInv ==
  /\ counted \cap rows = {} /\ summary <= Cardinality(counted)
  /\ \A j \in Rollups : Counts(roll[j])
  /\ ~doubled => Alone

LEMMA FiniteEvents ==
  ASSUME NEW S \in SUBSET Events PROVE IsFiniteSet(S) /\ Cardinality(S) \in Nat
  BY FS_Subset, FS_CardinalityType

LEMMA LargerCount ==
  ASSUME NEW S \in SUBSET Events, NEW R \in SUBSET S PROVE Cardinality(R) <= Cardinality(S)
  BY FiniteEvents, FS_Subset

LEMMA DisjointCount ==
  ASSUME NEW S \in SUBSET Events, NEW R \in SUBSET Events, S \cap R = {}
  PROVE  Cardinality(S \cup R) = Cardinality(S) + Cardinality(R)
<1>1. IsFiniteSet(S) /\ IsFiniteSet(R)
  BY FiniteEvents
<1>2. Cardinality(S \cap R) = 0
  BY FS_EmptySet
<1>3. Cardinality(S) \in Nat /\ Cardinality(R) \in Nat
  BY FiniteEvents
<1>. QED BY <1>1, <1>2, <1>3, FS_Union

LEMMA CountRollup ==
  ASSUME Types, CountInv, NEW j \in Rollups, Rollup(j)
  PROVE  CountInv'
<1>. /\ JobInv(roll[j]) /\ roll \in [Rollups -> Job] /\ summary \in Nat /\ rows \subseteq Captured
     /\ counted \subseteq Events /\ Captured \subseteq Events
  BY DEF Types, RollupsType, EventsType, Captured
<1>1. CASE StartRollup(j)
  <2>1. UNCHANGED <<rows, summary, counted>> /\ roll'[j].step = "read"
        /\ \A k \in Rollups \ {j} : roll'[k] = roll[k]
    BY <1>1 DEF StartRollup, Off
  <2>2. \A k \in Rollups : Counts(roll[k])'
    BY <2>1 DEF CountInv, Counts
  <2>3. ASSUME ~doubled' PROVE Alone'
    <3>1. ~doubled /\ \A k \in Rollups \ {j} : roll[k].step = "off"
      BY <1>1, <2>3 DEF StartRollup
    <3>. QED BY <2>1, <3>1 DEF CountInv, Alone
  <2>. QED BY <2>1, <2>2, <2>3 DEF CountInv
<1>2. CASE ReadRollup(j)
  <2>. DEFINE S == roll[j].due \cap rows
  <2>0. UNCHANGED <<rows, summary, counted, doubled>> /\ roll[j].step = "read"
        /\ \A k \in Rollups \ {j} : roll'[k] = roll[k]
    BY <1>2 DEF ReadRollup
  <2>1. CASE roll'[j].step = "off"
    BY <2>0, <2>1 DEF CountInv, Counts, Alone
  <2>2. CASE roll'[j].step = "write" /\ roll'[j].old = summary /\ roll'[j].ids \subseteq rows
    <3>1. counted \ roll'[j].ids = counted /\ roll'[j].ids \cap counted = {}
      BY <2>2 DEF CountInv
    <3>2. \A k \in Rollups : Counts(roll[k])'
      BY <2>0, <2>2, <3>1 DEF CountInv, Counts
    <3>3. ASSUME ~doubled' PROVE Alone'
      <4>1. ~doubled /\ Alone
        BY <2>0, <3>3 DEF CountInv
      <4>2. \A k \in Rollups : roll'[k].step # "off" => roll[k].step # "off"
        BY <2>0
      <4>3. \A k \in Rollups : roll'[k].step = "write"
              => roll'[k].old = summary /\ roll'[k].ids \cap counted = {}
        BY <2>0, <2>2, <3>1, <4>1 DEF Alone
      <4>. QED BY <2>0, <4>1, <4>2, <4>3 DEF Alone
    <3>. QED BY <2>0, <3>2, <3>3 DEF CountInv
  <2>3. roll'[j] = IF S = {} THEN Off
                   ELSE [roll[j] EXCEPT !.step = "write", !.ids = FirstOf(S), !.old = summary]
    BY <1>2 DEF ReadRollup
  <2>. QED BY <2>1, <2>2, <2>3 DEF Off, Job, FirstOf
<1>3. CASE CommitRollup(j)
  <2>. DEFINE ids == roll[j].ids
              old == roll[j].old
  <2>1. /\ roll[j].step = "write" /\ summary' = old + Cardinality(ids) /\ rows' = rows \ ids
        /\ counted' = counted \cup ids /\ doubled' = doubled
        /\ roll'[j] = AfterChunk(roll[j], "off")
        /\ \A k \in Rollups \ {j} : roll'[k] = roll[k]
    BY <1>3 DEF CommitRollup
  <2>2. ids \subseteq Events /\ old \in Nat /\ old <= Cardinality(counted \ ids)
    BY <2>1 DEF JobInv, OnCaptured, Job, CountInv, Counts
  <2>3. roll'[j].step # "write"
    BY <2>1, AfterChunkType DEF JobInv
  <2>4. Cardinality(counted') = Cardinality(counted \ ids) + Cardinality(ids)
    <3>1. counted' = (counted \ ids) \cup ids
      BY <2>1
    <3>. QED BY <2>2, <3>1, DisjointCount
  <2>5. summary' <= Cardinality(counted')
    BY <2>1, <2>2, <2>4, FiniteEvents
  <2>6. ASSUME NEW k \in Rollups PROVE Counts(roll[k])'
    <3>1. CASE k = j
      BY <2>3, <3>1 DEF Counts
    <3>2. CASE k # j
      <4>1. roll'[k] = roll[k] /\ (roll[k].step = "write"
              => roll[k].old \in Nat /\ roll[k].old <= Cardinality(counted \ roll[k].ids))
        BY <2>1, <3>2 DEF CountInv, Counts, Job
      <4>2. Cardinality(counted \ roll[k].ids) <= Cardinality(counted' \ roll[k].ids)
            /\ Cardinality(counted \ roll[k].ids) \in Nat
            /\ Cardinality(counted' \ roll[k].ids) \in Nat
        BY <2>1, <2>2, LargerCount, FiniteEvents
      <4>. QED BY <4>1, <4>2 DEF Counts
    <3>. QED BY <3>1, <3>2
  <2>7. ASSUME ~doubled' PROVE Alone'
    <3>1. Alone
      BY <2>1, <2>7 DEF CountInv
    <3>2. \A k \in Rollups \ {j} : roll[k].step = "off"
      BY <2>1, <3>1 DEF Alone
    <3>3. old = Cardinality(counted) /\ counted \ ids = counted
      BY <2>1, <3>1 DEF Alone
    <3>4. summary' = Cardinality(counted')
      BY <2>1, <2>4, <3>3
    <3>5. \A k \in Rollups : roll'[k].step # "off" => k = j
      BY <2>1, <3>2
    <3>6. \A k \in Rollups : roll'[k].step # "write"
      BY <2>3, <3>5
    <3>. QED BY <3>4, <3>5, <3>6 DEF Alone
  <2>8. counted' \cap rows' = {}
    BY <2>1 DEF CountInv
  <2>. QED BY <2>5, <2>6, <2>7, <2>8 DEF CountInv
<1>4. CASE RollupFails(j)
  BY <1>4 DEF RollupFails, Off, CountInv, Counts, Alone
<1>. QED BY <1>1, <1>2, <1>3, <1>4 DEF Rollup

LEMMA CountInvariant == Types /\ CountInv /\ [Next]_vars => CountInv'
<1>. SUFFICES ASSUME Types, CountInv, [Next]_vars PROVE CountInv'
  OBVIOUS
<1>1. ASSUME UNCHANGED <<summary, roll, counted, doubled>>, counted \cap rows' = {}
      PROVE  CountInv'
  BY <1>1 DEF CountInv, Counts, Alone
<1>2. ASSUME NEW e \in Events, Capture(e) PROVE CountInv'
  <2>1. counted \cap rows' = {}
    BY <1>2, CaptureType DEF Capture, CountInv, Types, EventsType
  <2>. QED BY <1>1, <1>2, <2>1 DEF Capture, jobs
<1>3. CASE TimePasses
  BY <1>1, <1>3 DEF TimePasses, jobs, CountInv
<1>4. CASE Prune
  BY <1>1, <1>4 DEF Prune, StartPrune, ReadPrune, CommitPrune, PruneFails, CountInv
<1>5. CASE Erase
  BY <1>1, <1>5 DEF Erase, StartErase, ReadErase, CommitErase, EraseFails, CountInv
<1>6. CASE (\E s \in Sessions : Lifecycle(s)) \/ UNCHANGED vars
  BY <1>1, <1>6, Frames DEF vars, jobs, CountInv
<1>. QED BY <1>2, <1>3, <1>4, <1>5, <1>6, CountRollup DEF Next

(* No event is counted and left to be counted again, the daily summary never *)
(* exceeds what was captured, and it is exact unless two rollups overlapped. *)
THEOREM EachCountedOnce == Spec => []CountedOnce
<1>1. Init => CountInv
  BY FS_EmptySet DEF Init, Off, CountInv, Counts, Alone
<1>2. CountInv => CountedOnce
  BY DEF CountInv, CountedOnce, Alone
<1>. QED BY <1>1, <1>2, CountInvariant, TypesHold, PTL DEF Spec

-----------------------------------------------------------------------------
(* Retention                                                               *)

(* Only an erasure deletes a row of the look-back, if the prune window is    *)
(* the 30 days of the rollup.                                               *)
IsOld(e) == age[e] # Never /\ age[e] > Month
RetentionInv ==
  /\ rows \cap erased = {}
  /\ \A e \in Captured \ erased : e \in rows \/ IsOld(e)
  /\ \A j \in Rollups : \A e \in roll[j].due : IsOld(e)
  /\ \A e \in prune.due : IsOld(e)

LEMMA RetentionInvariant ==
  ASSUME Window = Month, Types, RetentionInv, [Next]_vars
  PROVE  RetentionInv'
<1>. /\ age \in [Events -> 0..Old \cup {Never}] /\ rows \subseteq Captured /\ erased \subseteq Captured
     /\ Captured \subseteq Events /\ roll \in [Rollups -> Job] /\ Month \in Nat
     /\ \A j \in Rollups : roll[j].due \subseteq Captured /\ roll[j].ids \subseteq roll[j].due
     /\ prune.due \subseteq Captured /\ prune.ids \subseteq prune.due /\ prune \in Job
  BY DEF Types, EventsType, RollupsType, DeletesType, JobInv, OnCaptured, Captured
<1>0. \A e \in Expired(Month) : IsOld(e)
  BY DEF Expired, IsOld, Captured
<1>1. ASSUME NEW e \in Events, Capture(e) PROVE RetentionInv'
  <2>1. Captured' = Captured \cup {e} /\ e \notin Captured
    BY <1>1, CaptureType DEF Types
  <2>2. \A d \in Captured : IsOld(d)' <=> IsOld(d)
    BY <1>1, <2>1 DEF Capture, IsOld
  <2>3. UNCHANGED <<roll, prune, erased>> /\ rows' = rows \cup {e}
    BY <1>1 DEF Capture, jobs
  <2>4. rows' \cap erased' = {}
    BY <2>1, <2>3 DEF RetentionInv
  <2>5. \A d \in Captured' \ erased' : d \in rows' \/ IsOld(d)'
    BY <2>1, <2>2, <2>3 DEF RetentionInv
  <2>6. /\ \A j \in Rollups : \A d \in roll'[j].due : IsOld(d)'
        /\ \A d \in prune'.due : IsOld(d)'
    BY <2>2, <2>3 DEF RetentionInv
  <2>. QED BY <2>4, <2>5, <2>6 DEF RetentionInv
<1>2. CASE TimePasses
  <2>1. Captured' = Captured
    BY <1>2, TimeType DEF Types
  <2>2. \A e \in Captured : IsOld(e) => IsOld(e)'
    BY <1>2, OldType DEF TimePasses, IsOld, Older
  <2>. QED BY <1>2, <2>1, <2>2 DEF TimePasses, jobs, RetentionInv
<1>3. ASSUME UNCHANGED age PROVE Captured' = Captured /\ \A e \in Events : IsOld(e)' <=> IsOld(e)
  BY <1>3, SameAge DEF IsOld
<1>4. ASSUME NEW j \in Rollups, Rollup(j) PROVE RetentionInv'
  <2>1. UNCHANGED <<age, prune, erased>>
    BY <1>4 DEF Rollup, StartRollup, ReadRollup, CommitRollup, RollupFails
  <2>2. rows' \subseteq rows /\ rows \ roll[j].ids \subseteq rows'
    BY <1>4 DEF Rollup, StartRollup, ReadRollup, CommitRollup, RollupFails
  <2>3. \A k \in Rollups : roll'[k].due \subseteq roll[k].due \cup Expired(Month)
    <3>1. CASE StartRollup(j)
      BY <3>1 DEF StartRollup, Off
    <3>2. CASE ReadRollup(j)
      BY <3>2 DEF ReadRollup, Off, Job
    <3>3. CASE CommitRollup(j)
      BY <3>3, AfterChunkType DEF CommitRollup
    <3>4. CASE RollupFails(j)
      BY <3>4 DEF RollupFails, Off
    <3>. QED BY <1>4, <3>1, <3>2, <3>3, <3>4 DEF Rollup
  <2>4. \A k \in Rollups : \A e \in roll'[k].due : IsOld(e)'
    <3>1. \A e \in Expired(Month) : e \in Events
      BY DEF Expired
    <3>2. \A k \in Rollups : \A e \in roll[k].due : IsOld(e) /\ e \in Events
      BY DEF RetentionInv
    <3>. QED BY <1>0, <1>3, <2>1, <2>3, <3>1, <3>2
  <2>5. \A e \in Captured' \ erased' : e \in rows' \/ IsOld(e)'
    <3>1. \A e \in roll[j].ids : IsOld(e)
      BY DEF RetentionInv
    <3>. QED BY <1>3, <2>1, <2>2, <3>1 DEF RetentionInv
  <2>6. rows' \cap erased' = {} /\ \A e \in prune'.due : IsOld(e)'
    BY <1>3, <2>1, <2>2 DEF RetentionInv
  <2>. QED BY <2>4, <2>5, <2>6 DEF RetentionInv
<1>5. CASE Prune
  <2>1. UNCHANGED <<age, roll, erased>>
    BY <1>5 DEF Prune, StartPrune, ReadPrune, CommitPrune, PruneFails
  <2>2. rows' \subseteq rows /\ rows \ prune.ids \subseteq rows'
    BY <1>5 DEF Prune, StartPrune, ReadPrune, CommitPrune, PruneFails
  <2>3. prune'.due \subseteq prune.due \cup Expired(Month)
    <3>1. CASE StartPrune
      BY <3>1 DEF StartPrune, Off
    <3>2. CASE ReadPrune
      <4>1. prune' = Off \/ \E ids : prune' = [prune EXCEPT !.step = "write", !.ids = ids]
        BY <3>2, Zenon DEF ReadPrune
      <4>2. Off.due = {}
        BY DEF Off
      <4>3. \A ids : [prune EXCEPT !.step = "write", !.ids = ids].due = prune.due
        BY DEF Job
      <4>. QED BY <4>1, <4>2, <4>3
    <3>3. CASE CommitPrune
      BY <3>3, AfterChunkType DEF CommitPrune
    <3>4. CASE PruneFails
      BY <3>4 DEF PruneFails, Off
    <3>. QED BY <1>5, <3>1, <3>2, <3>3, <3>4 DEF Prune
  <2>4. \A e \in prune'.due : IsOld(e)'
    <3>1. \A e \in Expired(Month) : e \in Events
      BY DEF Expired
    <3>. QED BY <1>0, <1>3, <2>1, <2>3, <3>1 DEF RetentionInv
  <2>5. \A e \in Captured' \ erased' : e \in rows' \/ IsOld(e)'
    <3>1. \A e \in prune.ids : IsOld(e)
      BY DEF RetentionInv
    <3>. QED BY <1>3, <2>1, <2>2, <3>1 DEF RetentionInv
  <2>6. rows' \cap erased' = {} /\ \A j \in Rollups : \A e \in roll'[j].due : IsOld(e)'
    BY <1>3, <2>1, <2>2 DEF RetentionInv
  <2>. QED BY <2>4, <2>5, <2>6 DEF RetentionInv
<1>6. CASE Erase
  <2>1. UNCHANGED <<age, roll, prune>>
    BY <1>6, Frames
  <2>2. rows' \subseteq rows /\ rows' \cap erased' = {} /\ erased \cup (rows \ rows') \subseteq erased'
    BY <1>6 DEF Erase, StartErase, ReadErase, CommitErase, EraseFails, RetentionInv
  <2>. QED BY <1>3, <2>1, <2>2 DEF RetentionInv
<1>7. CASE (\E s \in Sessions : Lifecycle(s)) \/ UNCHANGED vars
  <2>1. UNCHANGED <<age, rows, roll, prune, erased>>
    BY <1>7, Frames DEF jobs, vars
  <2>. QED BY <1>3, <2>1 DEF RetentionInv
<1>. QED BY <1>1, <1>2, <1>4, <1>5, <1>6, <1>7 DEF Next

(* With a prune window of the 30 days that rollup and look-back are fixed to *)
(* (the default of ZOMBIE_WINDOW_DAYS), retention never changes a status.    *)
THEOREM RetentionIsInvisible == Window = Month => (Spec => []RetentionKeepsStatus)
<1>. SUFFICES ASSUME Window = Month PROVE Spec => []RetentionKeepsStatus
  OBVIOUS
<1>1. Init => RetentionInv
  BY DEF Init, Off, RetentionInv, Captured
<1>2. Types /\ RetentionInv => RetentionKeepsStatus
  <2>. SUFFICES ASSUME Types, RetentionInv PROVE RetentionKeepsStatus
    OBVIOUS
  <2>1. ASSUME NEW w \in Nat, w <= Month
        PROVE  Matching(rows, w) = Matching(Captured \ erased, w)
    <3>1. rows \subseteq Captured \ erased /\ Captured \subseteq Events
      BY DEF RetentionInv, Types, EventsType, Captured
    <3>2. \A e \in Captured \ erased : age[e] <= w => e \in rows
      <4>1. \A e \in Captured : age[e] \in Nat
        BY OldType DEF Types, EventsType, Captured
      <4>. QED BY <2>1, <4>1 DEF RetentionInv, IsOld
    <3>. QED BY <3>1, <3>2 DEF Matching
  <2>2. Lookback = Month
    BY DEF Lookback
  <2>3. /\ Matching(rows, Fortnight) = Matching(Captured \ erased, Fortnight)
        /\ Matching(rows, Lookback) = Matching(Captured \ erased, Lookback)
    BY <2>1, <2>2
  <2>. QED BY <2>3 DEF RetentionKeepsStatus, StatusOf, LastRequest
<1>3. Types /\ RetentionInv /\ [Next]_vars => RetentionInv'
  BY RetentionInvariant
<1>. QED BY <1>1, <1>2, <1>3, TypesHold, PTL DEF Spec

-----------------------------------------------------------------------------
(* The retired endpoint                                                    *)

Shown == state.retired <=> state.status = "RETIRED"

(* Why a commit cannot break it: a request writes flag and status together,  *)
(* a recompute leaves the flag alone, and the status of a retired row too.   *)
Sound(t) ==
  /\ t.by = "request" =>
       (t.retired <=> (IF t.status = "same" THEN t.seen.status ELSE t.status) = "RETIRED")
  /\ t.by = "recompute" =>
       /\ t.retired = t.seen.retired
       /\ t.status # "same" => ~t.seen.retired /\ t.status # "RETIRED"

RetiredInv == (~crossed => Shown) /\ \A s \in Sessions : Sound(tx[s])

LEMMA AsSeenFacts ==
  \A row \in State : /\ AsSeen(row).retired = row.retired
                     /\ AsSeen(row).status = "RETIRED" <=> row.status = "RETIRED"
  BY DEF AsSeen, State

LEMMA ReadSound ==
  ASSUME EndpointType, RetiredInv, NEW s \in Sessions, Recompute(s) \/ Retire(s) \/ Reactivate(s)
  PROVE  RetiredInv'
<1>. DEFINE row == AsSeen(state)
<1>1. row.retired = state.retired /\ (row.status = "RETIRED" <=> state.status = "RETIRED")
  BY AsSeenFacts DEF EndpointType
<1>2. ASSUME NEW by, NEW new, NEW flag, Read(s, by, new, flag)
      PROVE  /\ UNCHANGED <<state, crossed>> /\ \A k \in Sessions \ {s} : tx'[k] = tx[k]
             /\ tx'[s].by = by /\ tx'[s].seen = row /\ tx'[s].retired = flag
             /\ tx'[s].status = IF new = state.status THEN "same" ELSE new
  BY <1>2 DEF Read, EndpointType
<1>3. CASE Recompute(s)
  <2>1. (IF state.retired THEN state.status ELSE StatusOf(rows, lastSeen)) # state.status
          => ~state.retired /\ StatusOf(rows, lastSeen) # "RETIRED"
    BY StatusType
  <2>2. Sound(tx'[s])
    BY <1>1, <1>2, <1>3, <2>1 DEF Recompute, Sound
  <2>. QED BY <1>2, <1>3, <2>2 DEF Recompute, RetiredInv, Shown
<1>4. CASE Retire(s)
  <2>1. Sound(tx'[s])
    BY <1>1, <1>2, <1>4 DEF Retire, Sound
  <2>. QED BY <1>2, <1>4, <2>1 DEF Retire, RetiredInv, Shown
<1>5. CASE Reactivate(s)
  <2>1. StatusOf(rows, Never) \notin {"RETIRED", "same"}
    BY StatusType DEF Status
  <2>2. /\ tx'[s].by = "request" /\ tx'[s].seen = row /\ ~tx'[s].retired
        /\ tx'[s].status = IF StatusOf(rows, Never) = state.status THEN "same"
                           ELSE StatusOf(rows, Never)
    BY <1>2, <1>5 DEF Reactivate
  <2>3. Sound(tx'[s])
    <3>. DEFINE t == tx'[s]
    <3>1. (IF t.status = "same" THEN t.seen.status ELSE t.status) # "RETIRED"
      BY <1>1, <2>1, <2>2
    <3>2. t.by = "request" /\ t.by # "recompute" /\ ~t.retired
      BY <2>2
    <3>. HIDE DEF t
    <3>3. Sound(t)
      BY <3>1, <3>2, Zenon DEF Sound
    <3>. QED BY <3>3 DEF t
  <2>. QED BY <1>2, <1>5, <2>3 DEF Reactivate, RetiredInv, Shown
<1>. QED BY <1>3, <1>4, <1>5

LEMMA CommitSound ==
  ASSUME EndpointType, RetiredInv, NEW s \in Sessions, Commit(s)
  PROVE  RetiredInv'
<1>. DEFINE t == tx[s]
<1>. /\ Sound(t) /\ t.by \in {"recompute", "request"} /\ state \in State
     /\ t \in Transaction /\ t.status # "none"
  BY DEF Commit, EndpointType, RetiredInv, Transaction, Status
<1>1. \A k \in Sessions : Sound(tx'[k])
  <2>1. Sound(Closed)
    BY DEF Sound, Closed
  <2>2. tx' = [tx EXCEPT ![s] = Closed]
    BY DEF Commit
  <2>. QED BY <2>1, <2>2 DEF RetiredInv, EndpointType
<1>2. ASSUME ~crossed' PROVE Shown'
  <2>1. t.seen.retired = state.retired /\ (t.seen.status = "RETIRED" <=> state.status = "RETIRED")
    BY <1>2, AsSeenFacts DEF Commit, UpToDate
  <2>2. state'.status = IF t.status = "same" THEN state.status ELSE t.status
    BY DEF Commit
  <2>3. state'.retired = t.retired
    BY <2>1 DEF Commit
  <2>4. CASE t.by = "request"
    BY <2>1, <2>2, <2>3, <2>4 DEF Sound, Shown
  <2>5. CASE t.by = "recompute"
    <3>1. Shown
      BY <1>2, <2>5 DEF Commit, RetiredInv
    <3>. QED BY <2>1, <2>2, <2>3, <2>5, <3>1 DEF Sound, Shown
  <2>. QED BY <2>4, <2>5
<1>. QED BY <1>1, <1>2 DEF RetiredInv

LEMMA RetiredInvariant == EndpointType /\ RetiredInv /\ [Next]_vars => RetiredInv'
<1>. SUFFICES ASSUME EndpointType, RetiredInv, [Next]_vars PROVE RetiredInv'
  OBVIOUS
<1>1. ASSUME UNCHANGED endpoint PROVE RetiredInv'
  BY <1>1 DEF endpoint, RetiredInv, Shown
<1>2. ASSUME NEW s \in Sessions, RollBack(s) PROVE RetiredInv'
  <2>1. Sound(Closed)
    BY DEF Sound, Closed
  <2>. QED BY <1>2, <2>1 DEF RollBack, RetiredInv, Shown, EndpointType
<1>3. (\E e \in Events : Capture(e)) \/ (\E j \in Rollups : Rollup(j)) \/ TimePasses \/ Prune
       \/ Erase \/ UNCHANGED vars => UNCHANGED endpoint
  BY Frames DEF vars
<1>. QED BY <1>1, <1>2, <1>3, ReadSound, CommitSound DEF Next, Lifecycle

(* However many recomputes and operators' requests overlap, an endpoint shows *)
(* as RETIRED exactly while it is retired, unless one of them was committed   *)
(* for a row retired or reactivated since it was read, and no request has     *)
(* seen the row as it is since.                                               *)
THEOREM RetiredIsShown == Spec => []RetiredShown
<1>1. Init => RetiredInv
  BY DEF Init, NoState, Closed, RetiredInv, Sound, Shown
<1>2. RetiredInv => RetiredShown
  BY DEF RetiredInv, RetiredShown, Shown
<1>3. Types => EndpointType
  BY DEF Types
<1>. QED BY <1>1, <1>2, <1>3, RetiredInvariant, TypesHold, PTL DEF Spec
=============================================================================
