------------------------- MODULE ModelVersionsProofs -------------------------
(***************************************************************************)
(* Proofs about ModelVersions for any number of sessions, of versions kept  *)
(* and of models saved.                                                     *)
(***************************************************************************)
EXTENDS ModelVersions, FiniteSetTheorems, WellFoundedInduction, TLAPS

USE VersionsAssumption DEF VersionsAssumption

(* What a training that nobody has overlapped sees is what there is.        *)
SeesAll == ~overlap => \A s \in Sessions : tx[s].op = "train" => tx[s].seen = versions

(* Pruning takes the oldest: no version is left below one that is gone, and  *)
(* none that an open session sees is above one that it does not see.         *)
NoGap == \A v \in versions, w \in 1..saved : v < w => w \in versions
SeenFromOldest ==
  \A s \in Sessions : \A v \in versions, w \in tx[s].seen : v < w => v \in tx[s].seen

-----------------------------------------------------------------------------
(* The operator that keeps the newest                                      *)

LEMMA FiniteIds == ASSUME NEW n \in Nat, NEW S \in SUBSET (1..n)
                   PROVE  IsFiniteSet(S) /\ Cardinality(S) \in Nat
<1>1. IsFiniteSet(1..n)
  BY FS_Interval
<1>. QED BY <1>1, FS_Subset, FS_CardinalityType

LEMMA Smallest == ASSUME NEW S \in SUBSET Nat, S # {}
                  PROVE  \E x \in S : \A y \in S : x <= y
<1>1. PICK x \in S : \A y \in S : <<y, x>> \notin OpToRel(<, Nat)
  BY NatLessThanWellFounded, WFMin
<1>2. \A y \in S : ~(y < x)
  BY <1>1 DEF OpToRel
<1>. QED BY <1>2

(* The newest n of a set are at most n.                                     *)
LEMMA NewestAtMost == ASSUME NEW k \in Nat, NEW S \in SUBSET (1..k), NEW n \in Nat
                      PROVE  Cardinality(Newest(S, n)) <= n
<1>1. CASE Newest(S, n) = {}
  BY <1>1, FS_EmptySet
<1>2. CASE Newest(S, n) # {}
  <2>0. Newest(S, n) \subseteq S
    BY DEF Newest
  <2>. \A x \in S : x \in 1..k /\ x \in Nat
    OBVIOUS
  <2>. Newest(S, n) \subseteq Nat /\ Newest(S, n) \subseteq 1..k
    BY <2>0
  <2>1. PICK x \in Newest(S, n) : \A y \in Newest(S, n) : x <= y
    BY <1>2, Smallest
  <2>. DEFINE Above == {w \in S : w >= x}
  <2>2. Newest(S, n) \subseteq Above
    BY <2>1 DEF Newest
  <2>3. Cardinality(Above) <= n
    BY <2>1 DEF Newest
  <2>4. /\ Cardinality(Newest(S, n)) <= Cardinality(Above)
        /\ Cardinality(Newest(S, n)) \in Nat /\ Cardinality(Above) \in Nat
    BY <2>2, FiniteIds, FS_Subset
  <2>. HIDE DEF Above
  <2>. QED BY <2>3, <2>4
<1>. QED BY <1>1, <1>2

(* The greatest of a set is among its newest.                               *)
LEMMA GreatestIsNewest ==
  ASSUME NEW k \in Nat, NEW S \in SUBSET (1..k), k \in S, NEW n \in Nat \ {0}
  PROVE  k \in Newest(S, n)
<1>1. \A w \in S : w >= k <=> w = k
  OBVIOUS
<1>2. {w \in S : w >= k} = {k}
  BY <1>1
<1>3. Cardinality({k}) = 1
  BY FS_Singleton
<1>. QED BY <1>2, <1>3 DEF Newest

LEMMA Greatest == ASSUME NEW k \in Nat, NEW S \in SUBSET (1..k), S # {}
                  PROVE  \E x \in S : \A y \in S : y <= x
<1>. DEFINE Down == {k - y : y \in S}
<1>1. \A y \in S : y \in 1..k /\ k - y \in Nat
  OBVIOUS
<1>2. Down \in SUBSET Nat /\ Down # {}
  BY <1>1
<1>. HIDE DEF Down
<1>3. PICK d \in Down : \A e \in Down : d <= e
  BY <1>2, Smallest
<1>4. PICK x \in S : d = k - x
  BY DEF Down
<1>5. \A y \in S : k - x <= k - y
  BY <1>3, <1>4 DEF Down
<1>. QED BY <1>1, <1>5

From(S, v) == {w \in S : w >= v}

LEMMA NewestFrom == \A S, n : \A v \in S : v \in Newest(S, n) <=> Cardinality(From(S, v)) <= n
  BY DEF Newest, From

(* Further down there are as many or more above.                            *)
LEMMA AboveGrows ==
  ASSUME NEW k \in Nat, NEW S \in SUBSET (1..k), NEW v \in 1..k, NEW w \in 1..k, v <= w
  PROVE  /\ Cardinality(From(S, w)) \in Nat /\ Cardinality(From(S, v)) \in Nat
         /\ Cardinality(From(S, w)) <= Cardinality(From(S, v))
<1>1. From(S, v) \subseteq 1..k /\ From(S, w) \subseteq 1..k
  BY DEF From
<1>2. ASSUME NEW y \in From(S, w) PROVE y \in From(S, v)
  <2>1. y \in S /\ y >= w /\ y \in 1..k
    BY DEF From
  <2>2. y >= v
    BY <2>1
  <2>. QED BY <2>1, <2>2 DEF From
<1>3. From(S, w) \subseteq From(S, v)
  BY <1>2
<1>4. IsFiniteSet(From(S, v)) /\ Cardinality(From(S, v)) \in Nat /\ Cardinality(From(S, w)) \in Nat
  BY <1>1, FiniteIds
<1>5. Cardinality(From(S, w)) <= Cardinality(From(S, v))
  BY <1>3, <1>4, FS_Subset
<1>. QED BY <1>4, <1>5

(* When one is not among the newest n, those are n and all of them above it. *)
LEMMA NewestEnough ==
  ASSUME NEW k \in Nat, NEW S \in SUBSET (1..k), NEW n \in Nat, NEW w \in S, w \notin Newest(S, n)
  PROVE  /\ \A x \in Newest(S, n) : w < x
         /\ Cardinality(Newest(S, n)) >= n
<1>. DEFINE Older == S \ Newest(S, n)
<1>0. \A x \in S : x \in 1..k
  OBVIOUS
<1>1. \A x \in Newest(S, n) : w < x
  <2>. SUFFICES ASSUME NEW x \in Newest(S, n), x <= w PROVE FALSE
    BY <1>0 DEF Newest
  <2>1. x \in S /\ Cardinality(From(S, x)) <= n /\ ~(Cardinality(From(S, w)) <= n)
    BY NewestFrom DEF Newest
  <2>2. /\ Cardinality(From(S, w)) <= Cardinality(From(S, x))
        /\ Cardinality(From(S, w)) \in Nat /\ Cardinality(From(S, x)) \in Nat
    BY <1>0, <2>1, AboveGrows
  <2>. QED BY <2>1, <2>2
<1>2. PICK x \in Older : \A y \in Older : y <= x
  <2>1. Older \in SUBSET (1..k) /\ Older # {}
    OBVIOUS
  <2>. HIDE DEF Older
  <2>. QED BY <2>1, Greatest
<1>3. x \in S /\ ~(Cardinality(From(S, x)) <= n)
  BY NewestFrom
<1>4. From(S, x) \subseteq Newest(S, n) \cup {x}
  <2>1. ASSUME NEW y \in From(S, x), y \in Older PROVE y = x
    <3>1. y \in 1..k /\ x \in 1..k /\ y >= x /\ y <= x
      BY <1>0, <1>2, <2>1 DEF From
    <3>. QED BY <3>1
  <2>2. From(S, x) \subseteq S
    BY DEF From
  <2>. QED BY <2>1, <2>2
<1>5. Newest(S, n) \subseteq 1..k
  BY DEF Newest
<1>6. From(S, x) \subseteq 1..k
  BY DEF From
<1>7. IsFiniteSet(Newest(S, n)) /\ Cardinality(Newest(S, n)) \in Nat
      /\ Cardinality(From(S, x)) \in Nat
  BY <1>5, <1>6, FiniteIds
<1>8. /\ IsFiniteSet(Newest(S, n) \cup {x}) /\ Cardinality(Newest(S, n) \cup {x}) \in Nat
      /\ Cardinality(Newest(S, n) \cup {x}) <= Cardinality(Newest(S, n)) + 1
  <2>1. /\ IsFiniteSet(Newest(S, n) \cup {x})
        /\ Cardinality(Newest(S, n) \cup {x}) = IF x \in Newest(S, n) THEN Cardinality(Newest(S, n))
                                                ELSE Cardinality(Newest(S, n)) + 1
    BY <1>7, FS_AddElement
  <2>. QED BY <1>7, <2>1
<1>9. Cardinality(From(S, x)) <= Cardinality(Newest(S, n) \cup {x})
  BY <1>4, <1>8, FS_Subset
<1>10. Cardinality(Newest(S, n)) >= n
  BY <1>3, <1>7, <1>8, <1>9
<1>. QED BY <1>1, <1>10

-----------------------------------------------------------------------------
(* Types and the active version                                            *)

LEMMA ViewType == ASSUME TypeOK, NEW s \in Sessions
                  PROVE  PruneView(s) \in SUBSET (1..(saved + 1)) /\ saved + 1 \in PruneView(s)
<1>1. saved \in Nat /\ tx[s].seen \subseteq 1..saved /\ active \subseteq 1..saved
  BY DEF TypeOK
<1>2. \A x \in PruneView(s) : x \in 1..saved \/ x = saved + 1
  BY <1>1 DEF PruneView
<1>3. \A x : x \in 1..saved \/ x = saved + 1 => x \in 1..(saved + 1)
  BY <1>1
<1>. QED BY <1>2, <1>3 DEF PruneView

(* A save deletes neither the row it has inserted nor one it does not see.  *)
LEMMA SavedStays ==
  ASSUME TypeOK, NEW s \in Sessions, Save(s)
  PROVE  versions' \in SUBSET (1..saved') /\ saved' \in versions' /\ saved' = saved + 1
<1>1. saved \in Nat /\ saved + 1 \in Nat
  BY DEF TypeOK
<1>2. saved + 1 \in Newest(PruneView(s), MaxVersions)
  BY <1>1, ViewType, GreatestIsNewest
<1>3. saved' = saved + 1 /\ versions' \subseteq versions \cup {saved + 1} /\ saved' \in versions'
  BY <1>2 DEF Save
<1>4. versions \subseteq 1..saved
  BY DEF TypeOK
<1>. QED BY <1>1, <1>3, <1>4

LEMMA IdleType == \A n \in Nat : Idle \in [op : {"idle", "train", "activate"},
                                           seen : SUBSET (1..n), target : 0..n]
  BY DEF Idle

LEMMA TypeInvariant == TypeOK /\ [Next]_vars => TypeOK'
<1>. SUFFICES ASSUME TypeOK, [Next]_vars PROVE TypeOK'
  OBVIOUS
<1>. saved \in Nat
  BY DEF TypeOK
<1>1. ASSUME NEW s \in Sessions, Train(s) PROVE TypeOK'
  BY <1>1 DEF TypeOK, Train, Begin
<1>2. ASSUME NEW s \in Sessions, RollBack(s) PROVE TypeOK'
  BY <1>2, IdleType DEF TypeOK, RollBack
<1>3. ASSUME NEW s \in Sessions, Save(s) PROVE TypeOK'
  <2>0. versions' \subseteq 1..saved' /\ saved' \in versions'
    BY <1>3, SavedStays
  <2>1. active' \subseteq versions' /\ saved' \in 0..MaxSaves
    BY <1>3, <2>0 DEF TypeOK, Save
  <2>2. saved' = saved + 1 /\ overlap' \in BOOLEAN
    BY <1>3 DEF TypeOK, Save
  <2>3. tx' \in [Sessions -> [op : {"idle", "train", "activate"}, seen : SUBSET (1..saved'),
                              target : 0..saved']]
    <3>1. \A q \in Sessions : tx[q] \in [op : {"idle", "train", "activate"},
                                         seen : SUBSET (1..saved'), target : 0..saved']
      BY <2>2 DEF TypeOK
    <3>2. Idle \in [op : {"idle", "train", "activate"}, seen : SUBSET (1..saved'),
                    target : 0..saved']
      BY <2>2, IdleType
    <3>. QED BY <1>3, <3>1, <3>2 DEF TypeOK, Save
  <2>. QED BY <2>0, <2>1, <2>2, <2>3 DEF TypeOK
<1>4. ASSUME NEW s \in Sessions, Activate(s) PROVE TypeOK'
  BY <1>4, IdleType DEF TypeOK, Activate
<1>5. ASSUME NEW s \in Sessions, NEW v \in versions, StartActivate(s, v) PROVE TypeOK'
  BY <1>5 DEF TypeOK, StartActivate, Begin
<1>6. CASE UNCHANGED vars
  BY <1>6 DEF TypeOK, vars
<1>. QED BY <1>1, <1>2, <1>3, <1>4, <1>5, <1>6 DEF Next

(* Versions, the active one and what sessions see are ids handed out, at     *)
(* every point of every interleaving (models.py: MLModelState).              *)
THEOREM TypeCorrect == Spec => []TypeOK
<1>1. Init => TypeOK
  <2>1. Init => tx \in [Sessions -> [op : {"idle", "train", "activate"}, seen : SUBSET (1..0),
                                     target : 0..0]]
    BY IdleType DEF Init
  <2>2. Init => versions \subseteq 1..saved /\ active \subseteq versions /\ saved \in 0..MaxSaves
    BY DEF Init
  <2>. QED BY <2>1, <2>2 DEF Init, TypeOK
<1>. QED BY <1>1, TypeInvariant, PTL DEF Spec

(* From the first save on exactly one row is active, and it exists: saves,    *)
(* activations of rows that are pruned meanwhile and roll-backs may overlap. *)
THEOREM OneActive == Spec => []ExactlyOneActive
<1>1. Init => ExactlyOneActive
  BY DEF Init, ExactlyOneActive
<1>2. TypeOK /\ ExactlyOneActive /\ [Next]_vars => ExactlyOneActive'
  <2>. SUFFICES ASSUME TypeOK, ExactlyOneActive, [Next]_vars PROVE ExactlyOneActive'
    OBVIOUS
  <2>1. ASSUME NEW s \in Sessions, Save(s) PROVE ExactlyOneActive'
    BY <2>1, SavedStays DEF Save, ExactlyOneActive
  <2>2. ASSUME NEW s \in Sessions, Activate(s) PROVE ExactlyOneActive'
    BY <2>2 DEF Activate, ExactlyOneActive
  <2>3. ASSUME UNCHANGED <<versions, active, saved>> PROVE ExactlyOneActive'
    BY <2>3 DEF ExactlyOneActive
  <2>. QED BY <2>1, <2>2, <2>3 DEF Next, vars, Train, RollBack, StartActivate, Begin
<1>. QED BY <1>1, <1>2, TypeCorrect, PTL DEF Spec

-----------------------------------------------------------------------------
(* The bound, and the version a save replaces                              *)

LEMMA SeesAllInvariant == TypeOK /\ SeesAll /\ [Next]_vars => SeesAll'
<1>. SUFFICES ASSUME TypeOK, SeesAll, [Next]_vars PROVE SeesAll'
  OBVIOUS
<1>1. ASSUME NEW s \in Sessions, NEW o \in {"train", "activate"}, NEW v, Begin(s, o, v)
      PROVE SeesAll'
  BY <1>1 DEF TypeOK, SeesAll, Begin
<1>2. ASSUME NEW s \in Sessions, RollBack(s) PROVE SeesAll'
  BY <1>2 DEF TypeOK, SeesAll, RollBack, Idle
<1>3. ASSUME NEW s \in Sessions, Save(s) PROVE SeesAll'
  BY <1>3 DEF TypeOK, SeesAll, Save, Idle
<1>4. ASSUME NEW s \in Sessions, Activate(s) PROVE SeesAll'
  BY <1>4 DEF TypeOK, SeesAll, Activate, Idle
<1>5. CASE UNCHANGED vars
  BY <1>5 DEF SeesAll, vars
<1>. QED BY <1>1, <1>2, <1>3, <1>4, <1>5 DEF Next, Train, StartActivate

(* At most MAX_MODEL_VERSIONS rows per organization, as long as no version is *)
(* saved while another training is open.                                      *)
THEOREM Bounded == Spec => []VersionsBounded
<1>1. Init => SeesAll /\ VersionsBounded
  BY FS_EmptySet DEF Init, SeesAll, VersionsBounded, Idle
<1>2. TypeOK /\ SeesAll /\ VersionsBounded /\ [Next]_vars => VersionsBounded'
  <2>. SUFFICES ASSUME TypeOK, SeesAll, VersionsBounded, [Next]_vars PROVE VersionsBounded'
    OBVIOUS
  <2>1. ASSUME NEW s \in Sessions, Save(s), ~overlap' PROVE Cardinality(versions') <= MaxVersions
    <3>1. tx[s].seen = versions
      BY <2>1 DEF Save, SeesAll, TypeOK
    <3>2. versions' = Newest(PruneView(s), MaxVersions)
      BY <2>1, <3>1 DEF Save, PruneView, Newest, TypeOK
    <3>3. saved + 1 \in Nat /\ PruneView(s) \in SUBSET (1..(saved + 1))
      BY <2>1, ViewType DEF TypeOK
    <3>. QED BY <3>2, <3>3, NewestAtMost
  <2>2. ASSUME UNCHANGED <<versions, overlap>> PROVE VersionsBounded'
    BY <2>2 DEF VersionsBounded
  <2>. QED BY <2>1, <2>2 DEF Next, vars, Train, RollBack, StartActivate, Begin, Activate,
                            VersionsBounded
<1>. QED BY <1>1, <1>2, SeesAllInvariant, TypeCorrect, PTL DEF Spec


OnlyOldestGo == ExactlyOneActive /\ (MaxVersions > 1 => NoGap /\ SeenFromOldest)

(* A version that a save deletes is one its session has seen.  The active    *)
(* one, which it sees although it may be newer, has only the new one above.  *)
LEMMA DeletedIsSeen ==
  ASSUME TypeOK, ExactlyOneActive, SeenFromOldest, MaxVersions > 1,
         NEW s \in Sessions, Save(s), NEW w \in versions, w \notin versions'
  PROVE  w \in tx[s].seen
<1>. DEFINE Above == {x \in PruneView(s) : x >= w}
<1>. SUFFICES ASSUME w \notin tx[s].seen PROVE FALSE
  OBVIOUS
<1>1. saved \in Nat /\ versions \subseteq 1..saved /\ tx[s].seen \subseteq 1..saved
  BY DEF TypeOK
<1>2. w \in PruneView(s) /\ w \notin Newest(PruneView(s), MaxVersions)
  BY DEF Save
<1>3. \A x \in tx[s].seen : x < w
  BY <1>1 DEF SeenFromOldest
<1>4. w \in active
  BY <1>1, <1>2 DEF PruneView
<1>5. active = {w}
  BY <1>1, <1>4 DEF ExactlyOneActive
<1>6. Above = {w} \cup {saved + 1}
  BY <1>1, <1>3, <1>5 DEF PruneView
<1>7. Cardinality({w}) = 1 /\ IsFiniteSet({w})
  BY FS_Singleton
<1>8. Cardinality({w} \cup {saved + 1}) = 2
  <2>1. saved + 1 \notin {w}
    BY <1>1
  <2>2. Cardinality({w} \cup {saved + 1})
          = IF saved + 1 \in {w} THEN Cardinality({w}) ELSE Cardinality({w}) + 1
    BY <1>7, FS_AddElement, Zenon
  <2>. QED BY <1>7, <2>1, <2>2
<1>9. Cardinality(Above) = 2
  BY <1>6, <1>8
<1>. QED BY <1>2, <1>9 DEF Newest

LEMMA OnlyOldestGoInvariant ==
  TypeOK /\ OnlyOldestGo /\ [Next]_vars => (MaxVersions > 1 => NoGap /\ SeenFromOldest)'
<1>. SUFFICES ASSUME TypeOK, OnlyOldestGo, MaxVersions > 1, [Next]_vars
              PROVE  NoGap' /\ SeenFromOldest'
  OBVIOUS
<1>. saved \in Nat /\ NoGap /\ SeenFromOldest
  BY DEF TypeOK, OnlyOldestGo
<1>1. ASSUME NEW s \in Sessions, NEW o, NEW v, Begin(s, o, v) PROVE NoGap' /\ SeenFromOldest'
  BY <1>1 DEF TypeOK, Begin, NoGap, SeenFromOldest
<1>2. ASSUME NEW s \in Sessions, RollBack(s) \/ Activate(s) PROVE NoGap' /\ SeenFromOldest'
  <2>1. UNCHANGED <<versions, saved>>
        /\ \A q \in Sessions : tx'[q].seen = tx[q].seen \/ tx'[q].seen = {}
    BY <1>2 DEF TypeOK, RollBack, Activate, Idle
  <2>. QED BY <2>1 DEF NoGap, SeenFromOldest
<1>3. ASSUME NEW s \in Sessions, Save(s) PROVE NoGap' /\ SeenFromOldest'
  <2>1. /\ saved' = saved + 1 /\ saved' \in versions'
        /\ versions' \subseteq versions \cup {saved + 1}
        /\ versions \subseteq 1..saved
        /\ versions \ versions' = versions \cap (PruneView(s) \ Newest(PruneView(s), MaxVersions))
    BY <1>3, SavedStays DEF Save, TypeOK
  <2>2. SeenFromOldest'
    <3>1. \A q \in Sessions : tx'[q].seen = tx[q].seen \/ tx'[q].seen = {}
      BY <1>3 DEF Save, Idle, TypeOK
    <3>2. \A q \in Sessions : tx[q].seen \subseteq 1..saved
      BY DEF TypeOK
    <3>. SUFFICES ASSUME NEW q \in Sessions, NEW v \in versions', NEW w \in tx'[q].seen, v < w
                  PROVE  v \in tx'[q].seen
      BY DEF SeenFromOldest
    <3>3. w \in tx[q].seen /\ tx'[q].seen = tx[q].seen /\ w \in 1..saved
      BY <3>1, <3>2
    <3>4. v \in versions
      BY <2>1, <3>3
    <3>. QED BY <3>3, <3>4 DEF SeenFromOldest
  <2>3. ASSUME NEW v \in versions', NEW w \in 1..saved, v < w, w \notin versions' PROVE FALSE
    <3>1. v \in versions /\ w \in versions
      BY <2>1, <2>3 DEF NoGap
    <3>2. w \in tx[s].seen
      BY <1>3, <2>3, <3>1, DeletedIsSeen DEF OnlyOldestGo
    <3>3. v \in PruneView(s)
      BY <2>3, <3>1, <3>2 DEF SeenFromOldest, PruneView
    <3>4. /\ Cardinality(From(PruneView(s), w)) <= Cardinality(From(PruneView(s), v))
          /\ Cardinality(From(PruneView(s), w)) \in Nat /\ Cardinality(From(PruneView(s), v)) \in Nat
      <4>1. v \in 1..(saved + 1) /\ w \in 1..(saved + 1) /\ v <= w /\ saved + 1 \in Nat
        BY <2>1, <2>3, <3>1
      <4>2. PruneView(s) \in SUBSET (1..(saved + 1))
        BY <1>3, ViewType
      <4>. QED BY <4>1, <4>2, AboveGrows
    <3>5. w \in PruneView(s) /\ ~(Cardinality(From(PruneView(s), w)) <= MaxVersions)
      BY <2>1, <2>3, <3>1, NewestFrom
    <3>6. ~(Cardinality(From(PruneView(s), v)) <= MaxVersions)
      BY <3>4, <3>5
    <3>7. v \notin Newest(PruneView(s), MaxVersions)
      BY <3>3, <3>6, NewestFrom
    <3>. QED BY <2>1, <3>1, <3>3, <3>7
  <2>4. NoGap'
    <3>. SUFFICES ASSUME NEW v \in versions', NEW w \in 1..saved', v < w PROVE w \in versions'
      BY DEF NoGap
    <3>1. w = saved' \/ w \in 1..saved
      BY <2>1
    <3>. QED BY <2>1, <2>3, <3>1
  <2>. QED BY <2>2, <2>4
<1>4. CASE UNCHANGED vars
  BY <1>4 DEF vars, NoGap, SeenFromOldest
<1>. QED BY <1>1, <1>2, <1>3, <1>4 DEF Next, Train, StartActivate

(* A save keeps the version it replaces unless that was the oldest of a full  *)
(* set, whatever its stale view of the other versions makes it delete.        *)
THEOREM ReplacedStays == Spec => RollbackPossible
<1>1. Init => (MaxVersions > 1 => NoGap /\ SeenFromOldest)
  BY DEF Init, NoGap, SeenFromOldest
<1>2. ASSUME TypeOK, OnlyOldestGo, NEW s \in Sessions, Save(s), NEW v \in active,
             Cardinality({w \in versions : w > v}) < MaxVersions - 1
      PROVE  v \in versions'
  <2>. DEFINE Newer == {w \in versions : w > v}
              Above == {x \in PruneView(s) : x >= v}
              AndTwo == (Newer \cup {v}) \cup {saved + 1}
  <2>1. saved \in Nat /\ versions \subseteq 1..saved /\ active \subseteq versions
    BY <1>2 DEF TypeOK
  <2>2. IsFiniteSet(Newer) /\ Cardinality(Newer) \in Nat
    <3>1. Newer \subseteq 1..saved
      BY <2>1
    <3>. QED BY <2>1, <3>1, FiniteIds
  <2>3. MaxVersions > 1
    BY <1>2, <2>2
  <2>4. \A x \in PruneView(s) : x \in 1..saved \/ x = saved + 1
    BY <1>2, <2>1, ViewType
  <2>5. Above \subseteq AndTwo
    BY <1>2, <2>1, <2>3, <2>4 DEF OnlyOldestGo, NoGap
  <2>. HIDE DEF Newer, Above
  <2>6. IsFiniteSet(AndTwo) /\ Cardinality(AndTwo) \in Nat /\ Cardinality(AndTwo) <= Cardinality(Newer) + 2
    <3>1. IsFiniteSet(Newer \cup {v}) /\ Cardinality(Newer \cup {v}) \in Nat
          /\ Cardinality(Newer \cup {v}) <= Cardinality(Newer) + 1
      <4>1. IsFiniteSet(Newer \cup {v}) /\ Cardinality(Newer \cup {v})
              = IF v \in Newer THEN Cardinality(Newer) ELSE Cardinality(Newer) + 1
        BY <2>2, FS_AddElement
      <4>. QED BY <2>2, <4>1
    <3>. DEFINE AndOne == Newer \cup {v}
    <3>2. /\ IsFiniteSet(AndOne \cup {saved + 1})
          /\ Cardinality(AndOne \cup {saved + 1}) \in Nat
          /\ Cardinality(AndOne \cup {saved + 1}) <= Cardinality(AndOne) + 1
      <4>. HIDE DEF AndOne
      <4>1. IsFiniteSet(AndOne) /\ Cardinality(AndOne) \in Nat
        BY <3>1 DEF AndOne
      <4>2. IsFiniteSet(AndOne \cup {saved + 1}) /\ Cardinality(AndOne \cup {saved + 1})
              = IF saved + 1 \in AndOne THEN Cardinality(AndOne) ELSE Cardinality(AndOne) + 1
        BY <4>1, FS_AddElement
      <4>. QED BY <4>1, <4>2
    <3>. QED BY <2>2, <3>1, <3>2
  <2>. HIDE DEF AndTwo
  <2>7. Cardinality(Above) \in Nat /\ Cardinality(Above) <= Cardinality(AndTwo)
    BY <2>5, <2>6, FS_Subset, FS_CardinalityType
  <2>8. Cardinality(Above) <= MaxVersions
    BY <1>2, <2>2, <2>6, <2>7 DEF Newer
  <2>. QED BY <1>2, <2>1, <2>8 DEF Save, Newest, Above
<1>3. TypeOK /\ OnlyOldestGo /\ [Next]_vars =>
        [saved' > saved => \A v \in active : Cardinality({w \in versions : w > v}) < MaxVersions - 1
                                                => v \in versions']_vars
  <2>1. TypeOK /\ Next /\ saved' > saved => \E s \in Sessions : Save(s)
    BY DEF Next, Train, RollBack, Activate, StartActivate, Begin, TypeOK
  <2>. QED BY <1>2, <2>1
<1>4. ExactlyOneActive /\ (MaxVersions > 1 => NoGap /\ SeenFromOldest) <=> OnlyOldestGo
  BY DEF OnlyOldestGo
<1>. QED BY <1>1, <1>3, <1>4, OnlyOldestGoInvariant, OneActive, TypeCorrect, PTL
         DEF Spec, RollbackPossible

-----------------------------------------------------------------------------
(* ModelHistory                                                            *)

(* With one version kept the active one is the only one.                    *)
OnlyActive == MaxVersions = 1 => versions = active

LEMMA SaveOfOne ==
  ASSUME TypeOK, OnlyActive, MaxVersions = 1, NEW s \in Sessions, Save(s)
  PROVE  versions' = {saved'}
<1>1. saved \in Nat /\ saved + 1 \in Nat /\ versions = active
  BY DEF TypeOK, OnlyActive
<1>2. PruneView(s) \in SUBSET (1..(saved + 1))
  BY ViewType
<1>3. Newest(PruneView(s), 1) \subseteq 1..(saved + 1) /\ saved + 1 \in Newest(PruneView(s), 1)
  BY <1>1, <1>2, ViewType, GreatestIsNewest DEF Newest
<1>4. \A a \in Newest(PruneView(s), 1) : a = saved + 1
  <2>. SUFFICES ASSUME NEW a \in Newest(PruneView(s), 1), a # saved + 1 PROVE FALSE
    OBVIOUS
  <2>1. Cardinality({a} \cup {saved + 1}) = 2
    <3>1. Cardinality({a}) = 1 /\ IsFiniteSet({a})
      BY FS_Singleton
    <3>2. Cardinality({a} \cup {saved + 1})
            = IF saved + 1 \in {a} THEN Cardinality({a}) ELSE Cardinality({a}) + 1
      BY <3>1, FS_AddElement, Zenon
    <3>3. saved + 1 \notin {a}
      OBVIOUS
    <3>. QED BY <3>1, <3>2, <3>3
  <2>2. IsFiniteSet(Newest(PruneView(s), 1)) /\ Cardinality(Newest(PruneView(s), 1)) \in Nat
    BY <1>1, <1>3, FiniteIds
  <2>3. {a} \cup {saved + 1} \subseteq Newest(PruneView(s), 1)
    BY <1>3
  <2>4. Cardinality({a} \cup {saved + 1}) <= Cardinality(Newest(PruneView(s), 1))
    BY <2>2, <2>3, FS_Subset
  <2>5. Cardinality(Newest(PruneView(s), 1)) <= 1
    BY <1>1, <1>2, NewestAtMost
  <2>. QED BY <2>1, <2>2, <2>4, <2>5
<1>5. active \subseteq PruneView(s) /\ saved + 1 \in PruneView(s)
  BY DEF PruneView
<1>. QED BY <1>1, <1>3, <1>4, <1>5 DEF Save

LEMMA SameCardinality == \A S : History!Cardinality(S) = Cardinality(S)
  BY DEF History!Cardinality, Cardinality

(* What a save deletes is below what it leaves, and it leaves enough.       *)
LEMMA SaveKeepsHistory ==
  ASSUME TypeOK, OnlyActive, OnlyOldestGo, NEW s \in Sessions, Save(s)
  PROVE  History!Save
<1>0. versions' \in SUBSET (1..saved') /\ saved' \in versions' /\ saved' = saved + 1
  BY SavedStays
<1>1. /\ saved \in Nat /\ saved' = saved + 1 /\ saved' \in versions' /\ versions \subseteq 1..saved
      /\ versions' \subseteq versions \cup {saved'} /\ active' = {saved'}
      /\ versions' \in SUBSET (1..saved')
  BY <1>0 DEF Save, TypeOK
<1>2. ASSUME NEW v \in versions, v \notin versions', NEW w \in versions' PROVE v < w
  <2>1. CASE w = saved'
    BY <1>1, <2>1
  <2>2. CASE w # saved' /\ MaxVersions = 1
    BY <2>2, SaveOfOne
  <2>3. CASE w # saved' /\ MaxVersions > 1
    <3>1. NoGap'
      BY <2>3, OnlyOldestGoInvariant DEF Next
    <3>. QED BY <1>1, <1>2, <2>3, <3>1 DEF NoGap
  <2>. QED BY <2>1, <2>2, <2>3
<1>3. ASSUME NEW v \in versions, v \notin versions' PROVE Cardinality(versions') >= MaxVersions
  <2>1. CASE MaxVersions = 1
    BY <2>1, SaveOfOne, FS_Singleton
  <2>2. CASE MaxVersions > 1
    <3>. DEFINE Kept == Newest(PruneView(s), MaxVersions)
    <3>1. PruneView(s) \in SUBSET (1..(saved + 1)) /\ v \in PruneView(s) /\ v \notin Kept
      BY <1>3, ViewType DEF Save
    <3>2. (\A x \in Kept : v < x) /\ Cardinality(Kept) >= MaxVersions
      <4>1. saved + 1 \in Nat /\ MaxVersions \in Nat
        BY <1>1
      <4>. QED BY <3>1, <4>1, NewestEnough
    <3>3. Kept \subseteq PruneView(s)
      BY DEF Newest
    <3>4. Kept \subseteq versions'
      <4>. SUFFICES ASSUME NEW x \in Kept PROVE x \in versions \cup {saved + 1}
        BY DEF Save
      <4>1. v < x /\ x \in 1..(saved + 1) /\ NoGap
        BY <2>2, <3>1, <3>2, <3>3 DEF OnlyOldestGo
      <4>2. x = saved + 1 \/ x \in 1..saved
        BY <1>1, <4>1
      <4>. QED BY <4>1, <4>2 DEF NoGap
    <3>. HIDE DEF Kept
    <3>5. IsFiniteSet(versions') /\ Cardinality(versions') \in Nat
      BY <1>1, FiniteIds
    <3>6. Cardinality(Kept) <= Cardinality(versions') /\ Cardinality(Kept) \in Nat
      BY <3>4, <3>5, FS_Subset, FS_CardinalityType
    <3>. QED BY <3>2, <3>5, <3>6
  <2>. QED BY <2>1, <2>2
<1>4. versions \subseteq versions' \/ Cardinality(versions') >= MaxVersions
  BY <1>3
<1>5. saved' > saved
  BY <1>1
<1>. QED BY <1>1, <1>2, <1>4, <1>5, SameCardinality DEF History!Save

LEMMA OnlyActiveInvariant == TypeOK /\ ExactlyOneActive /\ OnlyActive /\ [Next]_vars => OnlyActive'
<1>. SUFFICES ASSUME TypeOK, ExactlyOneActive, OnlyActive, MaxVersions = 1, [Next]_vars
              PROVE  versions' = active'
  BY DEF OnlyActive
<1>1. ASSUME NEW s \in Sessions, Save(s) PROVE versions' = active'
  BY <1>1, SaveOfOne DEF Save
<1>2. ASSUME NEW s \in Sessions, Activate(s) PROVE versions' = active'
  <2>1. saved > 0
    BY <1>2 DEF Activate, TypeOK
  <2>. QED BY <1>2, <2>1 DEF Activate, ExactlyOneActive, OnlyActive
<1>3. ASSUME UNCHANGED <<versions, active>> PROVE versions' = active'
  BY <1>3 DEF OnlyActive
<1>. QED BY <1>1, <1>2, <1>3 DEF Next, vars, Train, RollBack, StartActivate, Begin

(* The stored versions implement ModelHistory: retrainings that save and     *)
(* prune from stale snapshots, activations and roll-backs may overlap, yet   *)
(* only the oldest versions go, and never so many that fewer than            *)
(* MAX_MODEL_VERSIONS are left (save_model, _prune_old_versions,             *)
(* activate_model_version).                                                  *)
THEOREM ImplementsHistory == Spec => KeepsHistory
<1>1. Init => History!Init /\ OnlyActive /\ (MaxVersions > 1 => NoGap /\ SeenFromOldest)
  BY DEF Init, History!Init, OnlyActive, NoGap, SeenFromOldest
<1>2. TypeOK /\ OnlyActive /\ OnlyOldestGo /\ [Next]_vars => [History!Next]_(History!vars)
  <2>. SUFFICES ASSUME TypeOK, OnlyActive, OnlyOldestGo, [Next]_vars
                PROVE  [History!Next]_(History!vars)
    OBVIOUS
  <2>1. ASSUME NEW s \in Sessions, Save(s) PROVE History!Next
    BY <2>1, SaveKeepsHistory DEF History!Next
  <2>2. ASSUME NEW s \in Sessions, Activate(s) PROVE History!Next
    BY <2>2 DEF Activate, History!Next, History!Restore
  <2>3. ASSUME UNCHANGED <<versions, active, saved>> PROVE UNCHANGED History!vars
    BY <2>3 DEF History!vars
  <2>. QED BY <2>1, <2>2, <2>3 DEF Next, vars, Train, RollBack, StartActivate, Begin
<1>3. ExactlyOneActive /\ (MaxVersions > 1 => NoGap /\ SeenFromOldest) <=> OnlyOldestGo
  BY DEF OnlyOldestGo
<1>. QED BY <1>1, <1>2, <1>3, OnlyActiveInvariant, OnlyOldestGoInvariant, OneActive, TypeCorrect, PTL
         DEF Spec, KeepsHistory, History!Spec
=============================================================================
