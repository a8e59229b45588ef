---------------------------- MODULE ModelVersions ----------------------------
(***************************************************************************)
(* The stored ML models of one organization: retraining saves a new active *)
(* version and prunes old ones, owners activate an earlier version.  Both  *)
(* begin with a bulk UPDATE of all the organization's rows, whose locks    *)
(* last until the commit, so from there on a transaction is one step; what *)
(* it has read before, possibly minutes before, is a snapshot.             *)
(***************************************************************************)
EXTENDS Naturals, FiniteSets

CONSTANTS
  Sessions,     \* retraining jobs and requests with a transaction open
  MaxVersions,  \* MAX_MODEL_VERSIONS
  MaxSaves      \* bound: models saved

ASSUME VersionsAssumption ==
  /\ MaxVersions \in Nat \ {0} /\ MaxSaves \in Nat

VARIABLES
  versions,   \* ids of the MLModelState rows
  active,     \* those with is_active
  saved,      \* the last id given out
  tx,         \* tx[s]: what session s does, and the ids its snapshot shows
  overlap     \* a version was saved while another training was open (history)

vars == <<versions, active, saved, tx, overlap>>

Idle == [op |-> "idle", seen |-> {}, target |-> 0]

TypeOK ==
  /\ versions \subseteq 1..saved /\ active \subseteq versions
  /\ saved \in 0..MaxSaves
  /\ tx \in [Sessions -> [op : {"idle", "train", "activate"}, seen : SUBSET (1..saved),
                          target : 0..saved]]
  /\ overlap \in BOOLEAN

Init ==
  /\ versions = {} /\ active = {} /\ saved = 0
  /\ tx = [s \in Sessions |-> Idle] /\ overlap = FALSE

-----------------------------------------------------------------------------
Begin(s, op, target) ==
  /\ tx[s] = Idle
  /\ tx' = [tx EXCEPT ![s] = [op |-> op, seen |-> versions, target |-> target]]
  /\ UNCHANGED <<versions, active, saved, overlap>>

(* train_from_db reads the traffic in the transaction that saves the model.  *)
Train(s) == Begin(s, "train", 0)

(* Too little traffic, a failed save, or a dead process. *)
RollBack(s) ==
  /\ tx[s] # Idle
  /\ tx' = [tx EXCEPT ![s] = Idle]
  /\ UNCHANGED <<versions, active, saved, overlap>>

(* Mutant: one fewer is kept. *)
NewestButOne(S, n) == {v \in S : Cardinality({w \in S : w >= v}) < n}

Newest(S, n) == {v \in S : Cardinality({w \in S : w >= v}) <= n}

(* The ids _prune_old_versions reads: those of the snapshot, deleted ones    *)
(* included, the row just inserted, and rows the bulk UPDATE has changed.    *)
PruneView(s) == tx[s].seen \cup active \cup {saved + 1}

(* save_model *)
Save(s) ==
  /\ tx[s].op = "train" /\ saved < MaxSaves
  /\ saved' = saved + 1
  /\ active' = {saved + 1}
  /\ versions' = (versions \cup {saved + 1})
                   \ (PruneView(s) \ Newest(PruneView(s), MaxVersions))
  /\ tx' = [tx EXCEPT ![s] = Idle]
  /\ overlap' = (overlap \/ \E q \in Sessions \ {s} : tx[q].op = "train")

(* activate_model_version *)
StartActivate(s, v) == v \in versions /\ Begin(s, "activate", v)

(* Mutants: the target is updated without looking at the row count, and the  *)
(* other versions are left as they are.                                      *)
ActivateBlindly(s) ==
  /\ tx[s].op = "activate"
  /\ active' = {tx[s].target}
  /\ tx' = [tx EXCEPT ![s] = Idle]
  /\ UNCHANGED <<versions, saved, overlap>>
ActivateToo(s) ==
  /\ tx[s].op = "activate" /\ tx[s].target \in versions
  /\ active' = active \cup {tx[s].target}
  /\ tx' = [tx EXCEPT ![s] = Idle]
  /\ UNCHANGED <<versions, saved, overlap>>

(* A target pruned meanwhile makes the UPDATE match no row, which raises.    *)
Activate(s) ==
  /\ tx[s].op = "activate" /\ tx[s].target \in versions
  /\ active' = {tx[s].target}
  /\ tx' = [tx EXCEPT ![s] = Idle]
  /\ UNCHANGED <<versions, saved, overlap>>

Next ==
  \E s \in Sessions :
    \/ Train(s) \/ Save(s) \/ Activate(s) \/ RollBack(s)
    \/ \E v \in versions : StartActivate(s, v)

Spec == Init /\ [][Next]_vars

-----------------------------------------------------------------------------
(* Properties                                                              *)

(* "Exactly one row per org has is_active=True" from the first save on, and  *)
(* it is a row that is there, however trainings, roll-backs to a version     *)
(* that is being pruned, and failures overlap.                               *)
ExactlyOneActive == saved > 0 => \E v \in versions : active = {v}

(* Rows are "bounded by MAX_MODEL_VERSIONS" as long as no version is saved   *)
(* during another training, whose snapshot would not show it.                *)
VersionsBounded == ~overlap => Cardinality(versions) <= MaxVersions

(* "A bad retrain can be rolled back": a save keeps the version it replaces, *)
(* unless that was the oldest of a full set.                                 *)
RollbackPossible ==
  [][saved' > saved =>
       \A v \in active : Cardinality({w \in versions : w > v}) < MaxVersions - 1
                           => v \in versions']_vars

(* A save prunes "anything beyond MAX_MODEL_VERSIONS", and nothing else: the  *)
(* versions implement ModelHistory, although what is pruned is read from a    *)
(* snapshot that can be minutes old and misses what others saved since.       *)
History == INSTANCE ModelHistory
             WITH Keep <- MaxVersions, history <- versions, current <- active, last <- saved

KeepsHistory == History!Spec
=============================================================================
