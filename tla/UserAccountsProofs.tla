-------------------------- MODULE UserAccountsProofs --------------------------
(***************************************************************************)
(* Proofs about UserAccounts for any accounts and any number of overlapping *)
(* requests and starts.                                                     *)
(***************************************************************************)
EXTENDS UserAccounts, TLAPS

(* What a transaction may write, given what it has read. *)
Decided(t) ==
  /\ t.op = "boot" => /\ t.actor = Boss /\ t.target = Boss
                      /\ IsSuper(t.new) /\ t.new.active
                      /\ t.new.failed = 0 /\ t.new.lock = NoLock
  /\ t.op = "fail" => /\ t.new.failed = t.seen.failed + 1 /\ t.seen.lock <= 0
                      /\ IF t.new.failed >= Threshold THEN t.new.lock > 0
                                                      ELSE t.new.lock = t.seen.lock
  /\ t.op = "clear" => t.new.failed = 0 /\ t.new.lock = NoLock
  /\ t.op \in {"insert", "mfa", "admin"} =>
       t.new.failed = t.seen.failed /\ t.new.lock = t.seen.lock
  /\ t.op # "mfa" => t.new.mfa = t.seen.mfa /\ t.new.secret = t.seen.secret
  /\ t.new.role # "none"

(* Whoever takes the rule from an administrator, or makes one. *)
Authorized(t) ==
  /\ Rules(t.seen) => Rules(t.new) \/ t.actor \in {t.target, Boss}
  /\ t.new.role = "admin" /\ t.seen.role # "admin" => t.actor = Boss

(* The super admin's row in an open transaction. *)
KeepsBoss(t) ==
  /\ t.op # "boot" => booted
  /\ t.target # Boss => ~IsSuper(t.new)
  /\ t.target = Boss /\ t.op = "boot" =>
       /\ IsSuper(t.seen) => booted
       /\ t.seen.active => row[Boss].active
  /\ t.target = Boss /\ t.op # "boot" =>
       t.new.role = t.seen.role /\ t.new.active = t.seen.active

(* Of an account that was never raced, one transaction is open at most, and  *)
(* it has read what is in the row but for the running clock.                 *)
Current(t) ==
  LET r == row[t.target]
  IN  /\ t.seen.failed = r.failed /\ (t.seen.lock = NoLock <=> r.lock = NoLock)
      /\ t.seen.mfa = r.mfa /\ t.seen.secret = r.secret

Unraced(t) == t.op # "idle" /\ t.target \notin raced

(* Accounts are never deleted, and an insert finds an empty row. *)
BlankInv ==
  /\ \A u \in Users : row[u].role = "none" => row[u] = NoUser
  /\ \A s \in Sessions :
       Doing(s) /\ row[tx[s].target].role = "none" => tx[s].seen.role = "none"

BossInv ==
  /\ SuperStands
  /\ IsSuper(row[Boss]) => booted
  /\ \A s \in Sessions : Doing(s) => KeepsBoss(tx[s])

TxInv ==
  /\ \A s \in Sessions : Doing(s) => Decided(tx[s]) /\ Authorized(tx[s])
  /\ \A s \in Sessions : Unraced(tx[s]) => Current(tx[s])
  /\ \A s, t \in Sessions :
       Unraced(tx[s]) /\ Unraced(tx[t]) /\ tx[s].target = tx[t].target => s = t

MfaInv ==
  /\ MfaProven
  /\ \A s \in Sessions : Unraced(tx[s]) /\ tx[s].new.mfa => tx[s].new.secret \in proven

USE AccountsAssumption DEF AccountsAssumption

-----------------------------------------------------------------------------
(* Types *)

LEMMA LockRange == NoLock \in NoLock..LockMax /\ 0 \in Nat
  BY DEF NoLock

LEMMA NewUserType ==
  ASSUME NEW r \in Role \cup {"none"}, NEW a \in BOOLEAN
  PROVE  /\ NewUser(r, a) \in Row
         /\ NewUser(r, a).role = r /\ NewUser(r, a).active = a
         /\ NewUser(r, a).failed = 0 /\ NewUser(r, a).lock = NoLock
         /\ NewUser(r, a).mfa = FALSE /\ NewUser(r, a).secret = NoSecret
  BY DEF NewUser, Row, NoLock

LEMMA NoUserType ==
  /\ NoUser \in Row /\ NoUser.role = "none" /\ NoUser.active = FALSE
  /\ NoUser.failed = 0 /\ NoUser.lock = NoLock
  /\ NoUser.mfa = FALSE /\ NoUser.secret = NoSecret
<1>1. "none" \in Role \cup {"none"} /\ FALSE \in BOOLEAN
  OBVIOUS
<1>. QED BY <1>1, NewUserType DEF NoUser

LEMMA IdleType == Idle \in Tx
  BY NoUserType DEF Idle, Tx

LEMMA TxType ==
  ASSUME TypeOK, NEW s \in Sessions
  PROVE  /\ tx[s] \in Tx /\ tx[s].target \in Users /\ tx[s].actor \in Users
         /\ tx[s].seen \in Row /\ tx[s].new \in Row
  BY DEF TypeOK, Tx

LEMMA WriteType ==
  ASSUME NEW n \in Row, NEW o \in Row, NEW w \in Row
  PROVE  Write(n, o, w) \in Row
  BY DEF Write, Row

LEMMA LockoutType ==
  ASSUME NEW n \in Threshold..MaxFailed
  PROVE  LockoutSeconds(n) \in 1..LockMax
<1>1. LockoutSeconds(n) \in Nat \ {0}
  OBVIOUS
<1>2. LockoutSeconds(n) <= LockMax
  <2>. DEFINE seconds == LockBase * 2 ^ (n - Threshold)
  <2>1. LockoutSeconds(n) = IF seconds <= LockMax THEN seconds ELSE LockMax
    BY DEF LockoutSeconds
  <2>. HIDE DEF seconds
  <2>. QED BY <2>1
<1>. QED BY <1>1, <1>2

(* The row after a failed login. *)
LEMMA FailedIs ==
  ASSUME NEW r \in Row, r.lock <= 0, r.failed < MaxFailed
  PROVE  /\ Failed(r) \in Row
         /\ Failed(r).failed = r.failed + 1
         /\ IF r.failed + 1 >= Threshold THEN Failed(r).lock > 0 ELSE Failed(r).lock = r.lock
         /\ Failed(r).role = r.role /\ Failed(r).active = r.active
         /\ Failed(r).mfa = r.mfa /\ Failed(r).secret = r.secret
<1>. DEFINE n == r.failed + 1
            lock == IF n >= Threshold THEN LockoutSeconds(n) ELSE r.lock
<1>1. n \in Nat /\ (n >= Threshold => n \in Threshold..MaxFailed)
  BY DEF Row
<1>2. lock \in NoLock..LockMax /\ (n >= Threshold => lock > 0)
  BY <1>1, LockoutType DEF Row, NoLock
<1>3. Failed(r) = [r EXCEPT !.failed = n, !.lock = lock]
  BY DEF Failed, Row
<1>. HIDE DEF n, lock
<1>4. /\ Failed(r) \in Row /\ Failed(r).failed = n /\ Failed(r).lock = lock
      /\ Failed(r).role = r.role /\ Failed(r).active = r.active
      /\ Failed(r).mfa = r.mfa /\ Failed(r).secret = r.secret
  BY <1>1, <1>2, <1>3 DEF Row
<1>. QED BY <1>2, <1>4 DEF n, lock

-----------------------------------------------------------------------------
(* Every operation is a Begin *)

(* What has been decided at the time of the read. *)
Reading(op, a, u, new) ==
  LET t == [op |-> op, actor |-> a, target |-> u, seen |-> row[u], new |-> new]
  IN  /\ t \in Tx /\ op # "idle" /\ Decided(t) /\ Authorized(t)
      /\ op # "boot" => booted
      /\ u # Boss => ~IsSuper(new)
      /\ u = Boss /\ op # "boot" => new.role = row[u].role /\ new.active = row[u].active
      /\ op = "mfa" /\ new.mfa => new.secret \in proven'

(* A session has begun, whatever it does. *)
Begins(s) ==
  \E op \in {"boot", "insert", "fail", "clear", "mfa", "admin"}, a, u \in Users :
    \E new \in Row :
      /\ Begin(s, op, a, u, new) /\ Reading(op, a, u, new)
      /\ proven \subseteq proven' /\ proven' \subseteq Secrets /\ issued' \subseteq Secrets

LEMMA RowFacts ==
  ASSUME TypeOK, NEW u \in Users
  PROVE  /\ row[u] \in Row /\ row[u].role \in Role \cup {"none"} /\ row[u].active \in BOOLEAN
         /\ row[u].failed \in Nat /\ row[u].lock \in NoLock..LockMax
         /\ row[u].mfa \in BOOLEAN /\ row[u].secret \in Secrets \cup {NoSecret}
         /\ proven \subseteq Secrets /\ issued \subseteq Secrets
  BY DEF TypeOK, Row

LEMMA BlankRow ==
  ASSUME TypeOK, BlankInv, NEW u \in Users, row[u].role = "none"
  PROVE  /\ row[u].failed = 0 /\ row[u].lock = NoLock /\ ~row[u].active
         /\ row[u].mfa = FALSE /\ row[u].secret = NoSecret
  BY NoUserType DEF BlankInv

LEMMA BootBegins ==
  ASSUME TypeOK, BlankInv, BossInv, NEW s \in Sessions, Boot(s)
  PROVE  Begins(s)
<1>. DEFINE r == row[Boss]
            new == IF r.role = "none" THEN NewUser("super_admin", TRUE) ELSE Repaired(r)
<1>1. Begin(s, "boot", Boss, Boss, new) /\ UNCHANGED <<proven, issued>>
  BY DEF Boot
<1>2. /\ new \in Row /\ new.role = "super_admin" /\ new.active
      /\ new.failed = 0 /\ new.lock = NoLock
      /\ new.mfa = r.mfa /\ new.secret = r.secret
  <2>1. CASE r.role = "none"
    BY <2>1, BlankRow, NewUserType DEF Role
  <2>2. CASE r.role # "none"
    <3>1. r \in Row /\ "super_admin" \in Role
      BY RowFacts DEF Role
    <3>. QED BY <2>2, <3>1, LockRange DEF Repaired, Row
  <2>. QED BY <2>1, <2>2
<1>. HIDE DEF new
<1>3. Reading("boot", Boss, Boss, new)
  BY <1>2, RowFacts DEF Reading, Tx, Decided, Authorized, IsSuper, Rules, IsPlatformAdmin
<1>. QED BY <1>1, <1>2, <1>3, RowFacts DEF Begins

(* Login, reset and MFA leave role and activity alone. *)
LEMMA OwnBegins ==
  ASSUME TypeOK, BlankInv, BossInv, booted, NEW s \in Sessions, NEW u \in Users,
         NEW op \in {"fail", "clear", "mfa"}, NEW new \in Row,
         Begin(s, op, u, u, new), row[u].active,
         new.role = row[u].role, new.active = row[u].active,
         Decided([op |-> op, actor |-> u, target |-> u, seen |-> row[u], new |-> new]),
         op = "mfa" /\ new.mfa => new.secret \in proven',
         proven \subseteq proven', proven' \subseteq Secrets, issued' \subseteq Secrets
  PROVE  Begins(s)
<1>1. u # Boss => ~IsSuper(new)
  BY DEF BossInv, SuperStands, IsSuper
<1>2. Reading(op, u, u, new)
  BY <1>1, RowFacts DEF Reading, Tx, Authorized, IsSuper, Rules, IsPlatformAdmin
<1>. QED BY <1>2 DEF Begins

LEMMA ActiveExists ==
  ASSUME TypeOK, BlankInv, NEW u \in Users, row[u].active
  PROVE  row[u].role # "none"
  BY BlankRow

LEMMA LoginBegins ==
  ASSUME TypeOK, BlankInv, BossInv, booted, NEW s \in Sessions, NEW u \in Users, Login(s, u)
  PROVE  Begins(s)
<1>. DEFINE r == row[u]
<1>0. r \in Row /\ r.active /\ r.role # "none" /\ UNCHANGED <<proven, issued>>
      /\ proven \subseteq Secrets /\ issued \subseteq Secrets
  BY RowFacts, ActiveExists DEF Login, LoginFails, LoginSucceeds, ResetPassword
<1>1. CASE LoginFails(s, u)
  <2>1. r.lock <= 0 /\ r.failed < MaxFailed /\ Begin(s, "fail", u, u, Failed(r))
    BY <1>1, RowFacts DEF LoginFails, Locked, NoLock
  <2>2. /\ Failed(r) \in Row /\ Failed(r).failed = r.failed + 1
        /\ IF r.failed + 1 >= Threshold THEN Failed(r).lock > 0 ELSE Failed(r).lock = r.lock
        /\ Failed(r).role = r.role /\ Failed(r).active = r.active
        /\ Failed(r).mfa = r.mfa /\ Failed(r).secret = r.secret
    BY <1>0, <2>1, FailedIs
  <2>3. Decided([op |-> "fail", actor |-> u, target |-> u, seen |-> r, new |-> Failed(r)])
    BY <1>0, <2>1, <2>2 DEF Decided
  <2>. QED BY <1>0, <2>1, <2>2, <2>3, OwnBegins
<1>2. CASE LoginSucceeds(s, u) \/ ResetPassword(s, u)
  <2>1. Begin(s, "clear", u, u, Cleared(r))
    BY <1>2 DEF LoginSucceeds, ResetPassword
  <2>2. /\ Cleared(r) \in Row /\ Cleared(r).failed = 0 /\ Cleared(r).lock = NoLock
        /\ Cleared(r).role = r.role /\ Cleared(r).active = r.active
        /\ Cleared(r).mfa = r.mfa /\ Cleared(r).secret = r.secret
    BY <1>0, LockRange DEF Cleared, Row
  <2>3. Decided([op |-> "clear", actor |-> u, target |-> u, seen |-> r, new |-> Cleared(r)])
    BY <1>0, <2>2 DEF Decided
  <2>. QED BY <1>0, <2>1, <2>2, <2>3, OwnBegins
<1>. QED BY <1>1, <1>2 DEF Login

LEMMA MfaBegins ==
  ASSUME TypeOK, BlankInv, BossInv, booted, NEW s \in Sessions, NEW u \in Users, Mfa(s, u)
  PROVE  Begins(s)
<1>. DEFINE r == row[u]
<1>0. r \in Row /\ r.active /\ r.role # "none"
      /\ proven \subseteq Secrets /\ issued \subseteq Secrets
  BY RowFacts, ActiveExists DEF Mfa, Enroll, ConfirmEnroll, DisableMfa, MayCall
<1>. SUFFICES \E new \in Row :
       /\ Begin(s, "mfa", u, u, new)
       /\ new.role = r.role /\ new.active = r.active
       /\ new.failed = r.failed /\ new.lock = r.lock
       /\ new.mfa => new.secret \in proven'
       /\ proven \subseteq proven' /\ proven' \subseteq Secrets /\ issued' \subseteq Secrets
  <2>1. PICK new \in Row :
       /\ Begin(s, "mfa", u, u, new)
       /\ new.role = r.role /\ new.active = r.active
       /\ new.failed = r.failed /\ new.lock = r.lock
       /\ new.mfa => new.secret \in proven'
       /\ proven \subseteq proven' /\ proven' \subseteq Secrets /\ issued' \subseteq Secrets
    OBVIOUS
  <2>2. Decided([op |-> "mfa", actor |-> u, target |-> u, seen |-> r, new |-> new])
    BY <1>0, <2>1 DEF Decided
  <2>. QED BY <1>0, <2>1, <2>2, OwnBegins
<1>1. CASE Enroll(s, u)
  <2>1. PICK k \in Secrets : issued' = issued \cup {k} /\ Begin(s, "mfa", u, u, Enrolled(r, k))
    BY <1>1 DEF Enroll
  <2>2. proven' = proven
    BY <1>1 DEF Enroll
  <2>3. /\ Enrolled(r, k) \in Row /\ ~Enrolled(r, k).mfa
        /\ Enrolled(r, k).role = r.role /\ Enrolled(r, k).active = r.active
        /\ Enrolled(r, k).failed = r.failed /\ Enrolled(r, k).lock = r.lock
    BY <1>0 DEF Enrolled, Row
  <2>. QED BY <1>0, <2>1, <2>2, <2>3
<1>2. CASE ConfirmEnroll(s, u)
  <2>. DEFINE new == [r EXCEPT !.mfa = TRUE]
  <2>1. /\ Begin(s, "mfa", u, u, new) /\ r.secret # NoSecret
        /\ proven' = proven \cup {r.secret} /\ issued' = issued
    BY <1>2 DEF ConfirmEnroll
  <2>2. /\ new \in Row /\ new.secret = r.secret /\ r.secret \in Secrets \cup {NoSecret}
        /\ new.role = r.role /\ new.active = r.active
        /\ new.failed = r.failed /\ new.lock = r.lock
    BY <1>0 DEF Row
  <2>. HIDE DEF new
  <2>. QED BY <1>0, <2>1, <2>2
<1>3. CASE DisableMfa(s, u)
  <2>. DEFINE new == [r EXCEPT !.mfa = FALSE, !.secret = NoSecret]
  <2>1. /\ Begin(s, "mfa", u, u, new) /\ r.secret # NoSecret
        /\ proven' = proven \cup {r.secret} /\ issued' = issued
    BY <1>3 DEF DisableMfa
  <2>2. /\ new \in Row /\ ~new.mfa /\ r.secret \in Secrets \cup {NoSecret}
        /\ new.role = r.role /\ new.active = r.active
        /\ new.failed = r.failed /\ new.lock = r.lock
    BY <1>0 DEF Row
  <2>. HIDE DEF new
  <2>. QED BY <1>0, <2>1, <2>2
<1>. QED BY <1>1, <1>2, <1>3 DEF Mfa

LEMMA AdministerBegins ==
  ASSUME TypeOK, BlankInv, BossInv, booted, NEW s \in Sessions, NEW a \in Users, NEW u \in Users,
         Administer(s, a, u) \/ (a = u /\ Register(s, u))
  PROVE  Begins(s)
<1>. DEFINE r == row[u]
<1>0. r \in Row /\ r.role \in Role \cup {"none"} /\ UNCHANGED <<proven, issued>>
      /\ proven \subseteq Secrets /\ issued \subseteq Secrets
  BY RowFacts DEF Administer, AdminCreateUser, UpdateUser, DeleteUser, Register
<1>1. \A x \in Users : IsSuper(row[x]) <=> x = Boss
  BY DEF BossInv, SuperStands
<1>2. CASE AdminCreateUser(s, a, u) \/ (a = u /\ Register(s, u))
  <2>1. PICK role \in Grantable, active \in BOOLEAN :
          /\ Begin(s, "insert", a, u, NewUser(role, active))
          /\ role = "admin" => a = Boss
    <3>1. CASE AdminCreateUser(s, a, u)
      BY <1>1, <3>1 DEF AdminCreateUser, MayGrant
    <3>2. CASE a = u /\ Register(s, u)
      BY <3>2 DEF Register, Grantable
    <3>. QED BY <1>2, <3>1, <3>2
  <2>2. r.role = "none"
    BY <1>2 DEF AdminCreateUser, Register
  <2>3. /\ r.failed = 0 /\ r.lock = NoLock /\ ~r.active /\ r.mfa = FALSE /\ r.secret = NoSecret
    BY <2>2, BlankRow
  <2>. DEFINE new == NewUser(role, active)
  <2>4. /\ new \in Row /\ new.role = role /\ new.failed = 0 /\ new.lock = NoLock
        /\ new.mfa = FALSE /\ new.secret = NoSecret
    BY NewUserType DEF Role
  <2>5. u # Boss
    BY <1>1, <2>2 DEF IsSuper
  <2>. HIDE DEF new
  <2>6. Reading("insert", a, u, new)
    BY <1>0, <2>1, <2>2, <2>3, <2>4, <2>5
       DEF Reading, Tx, Decided, Authorized, IsSuper, Rules, Grantable
  <2>7. Begin(s, "insert", a, u, new)
    BY <2>1 DEF new
  <2>. QED BY <1>0, <2>4, <2>6, <2>7 DEF Begins
<1>3. CASE UpdateUser(s, a, u) \/ DeleteUser(s, a, u)
  <2>1. PICK role \in Grantable \cup {r.role}, active \in BOOLEAN :
          /\ Begin(s, "admin", a, u, [r EXCEPT !.role = role, !.active = active])
          /\ role # r.role => (role = "admin" => a = Boss)
    <3>1. CASE UpdateUser(s, a, u)
      BY <1>1, <3>1 DEF UpdateUser, MayGrant
    <3>2. CASE DeleteUser(s, a, u)
      <4>1. [r EXCEPT !.active = FALSE] = [r EXCEPT !.role = r.role, !.active = FALSE]
        BY <1>0 DEF Row
      <4>. QED BY <3>2, <4>1 DEF DeleteUser
    <3>. QED BY <1>3, <3>1, <3>2
  <2>2. r.role # "none" /\ u # Boss /\ (IsPlatformAdmin(r) => a \in {u, Boss})
    BY <1>1, <1>3 DEF UpdateUser, DeleteUser, MayAdminister
  <2>. DEFINE new == [r EXCEPT !.role = role, !.active = active]
  <2>3. /\ new \in Row /\ new.role = role /\ new.failed = r.failed /\ new.lock = r.lock
        /\ new.mfa = r.mfa /\ new.secret = r.secret
    BY <1>0 DEF Row, Role
  <2>4. ~IsSuper(new) /\ new.role # "none"
    BY <1>1, <2>2, <2>3 DEF IsSuper, Grantable
  <2>. HIDE DEF new
  <2>5. Reading("admin", a, u, new)
    BY <1>0, <2>1, <2>2, <2>3, <2>4 DEF Reading, Tx, Decided, Authorized, Rules
  <2>6. Begin(s, "admin", a, u, new)
    BY <2>1 DEF new
  <2>. QED BY <1>0, <2>3, <2>5, <2>6 DEF Begins
<1>. QED BY <1>2, <1>3 DEF Administer

LEMMA EveryReadBegins ==
  ASSUME TypeOK, BlankInv, BossInv, NEW s \in Sessions, Boot(s) \/ Request(s)
  PROVE  Begins(s)
<1>1. CASE Boot(s)
  BY <1>1, BootBegins
<1>2. CASE Request(s)
  <2>. booted
    BY <1>2 DEF Request
  <2>1. ASSUME NEW u \in Guessed, Login(s, u) PROVE Begins(s)
    BY <2>1, LoginBegins
  <2>2. ASSUME NEW u \in Enrolling, Mfa(s, u) PROVE Begins(s)
    BY <2>2, MfaBegins
  <2>3. ASSUME NEW u \in Users, Register(s, u) PROVE Begins(s)
    BY <2>3, AdministerBegins
  <2>4. ASSUME NEW a \in Users, NEW u \in Users, Administer(s, a, u) PROVE Begins(s)
    BY <2>4, AdministerBegins
  <2>. QED BY <1>2, <2>1, <2>2, <2>3, <2>4 DEF Request
<1>. QED BY <1>1, <1>2

-----------------------------------------------------------------------------
(* What the steps do to the state *)

LEMMA BeginsTo ==
  ASSUME TypeOK, NEW s \in Sessions, Begins(s)
  PROVE  /\ ~Doing(s) /\ row' = row /\ booted' = booted /\ misses' = misses
         /\ \A t \in Sessions \ {s} : tx'[t] = tx[t]
         /\ tx' \in [Sessions -> Tx] /\ tx'[s].op # "idle"
         /\ Decided(tx'[s]) /\ Authorized(tx'[s])
         /\ tx'[s].target \in Users /\ tx'[s].seen = row[tx'[s].target]
         /\ tx'[s].op # "boot" => booted
         /\ tx'[s].target # Boss => ~IsSuper(tx'[s].new)
         /\ tx'[s].target = Boss /\ tx'[s].op # "boot"
              => /\ tx'[s].new.role = row[Boss].role
                 /\ tx'[s].new.active = row[Boss].active
         /\ tx'[s].op = "mfa" /\ tx'[s].new.mfa => tx'[s].new.secret \in proven'
         /\ raced \subseteq raced' /\ raced' \subseteq Users
         /\ \A t \in Sessions : Doing(t) /\ tx[t].target = tx'[s].target
                                => tx'[s].target \in raced'
         /\ proven \subseteq proven' /\ proven' \subseteq Secrets /\ issued' \subseteq Secrets
<1>1. PICK op \in {"boot", "insert", "fail", "clear", "mfa", "admin"}, a \in Users,
           u \in Users, new \in Row :
        /\ Begin(s, op, a, u, new) /\ Reading(op, a, u, new)
        /\ proven \subseteq proven' /\ proven' \subseteq Secrets /\ issued' \subseteq Secrets
  BY DEF Begins
<1>. DEFINE t == [op |-> op, actor |-> a, target |-> u, seen |-> row[u], new |-> new]
<1>2. tx' = [tx EXCEPT ![s] = t] /\ t \in Tx /\ tx \in [Sessions -> Tx]
  BY <1>1 DEF Begin, Reading, TypeOK
<1>3. /\ t.op = op /\ t.actor = a /\ t.target = u /\ t.seen = row[u] /\ t.new = new
  OBVIOUS
<1>4. Decided(t) /\ Authorized(t)
  BY <1>1 DEF Reading
<1>5. /\ raced \subseteq raced' /\ raced' \subseteq Users
      /\ \A k \in Sessions : Doing(k) /\ tx[k].target = u => u \in raced'
  BY <1>1 DEF Begin, TypeOK
<1>6. ~Doing(s) /\ row' = row /\ booted' = booted /\ misses' = misses
  BY <1>1 DEF Begin
<1>7. /\ op # "boot" => booted
      /\ u # Boss => ~IsSuper(new)
      /\ u = Boss /\ op # "boot" => new.role = row[u].role /\ new.active = row[u].active
      /\ op = "mfa" /\ new.mfa => new.secret \in proven'
  BY <1>1 DEF Reading
<1>. HIDE DEF t
<1>8. tx'[s] = t /\ tx' \in [Sessions -> Tx] /\ \A k \in Sessions \ {s} : tx'[k] = tx[k]
  BY <1>2
<1>. QED BY <1>1, <1>3, <1>4, <1>5, <1>6, <1>7, <1>8

LEMMA CommitTo ==
  ASSUME TypeOK, NEW s \in Sessions, Commit(s)
  PROVE  LET t == tx[s]
             r == row[t.target]
             n == Write(r, t.seen, t.new)
         IN  /\ t.op # "idle" /\ (t.seen.role = "none" => r.role = "none")
             /\ row' \in [Users -> Row] /\ row'[t.target] = n
             /\ \A u \in Users \ {t.target} : row'[u] = row[u]
             /\ tx'[s] = Idle /\ \A k \in Sessions \ {s} : tx'[k] = tx[k]
             /\ tx' \in [Sessions -> Tx]
             /\ booted' = (booted \/ t.op = "boot")
             /\ UNCHANGED <<proven, issued, raced>>
             /\ n.role = IF t.new.role = t.seen.role THEN r.role ELSE t.new.role
             /\ n.active = IF t.new.active = t.seen.active THEN r.active ELSE t.new.active
             /\ n.failed = IF t.new.failed = t.seen.failed THEN r.failed ELSE t.new.failed
             /\ n.lock = IF t.new.lock = t.seen.lock THEN r.lock ELSE t.new.lock
             /\ n.mfa = IF t.new.mfa = t.seen.mfa THEN r.mfa ELSE t.new.mfa
             /\ n.secret = IF t.new.secret = t.seen.secret THEN r.secret ELSE t.new.secret
<1>. DEFINE t == tx[s]
            r == row[t.target]
            n == Write(r, t.seen, t.new)
<1>1. t \in Tx /\ t.target \in Users /\ r \in Row /\ n \in Row
  BY TxType, WriteType DEF TypeOK
<1>2. /\ t.op # "idle" /\ (t.seen.role = "none" => r.role = "none")
      /\ row' = [row EXCEPT ![t.target] = n] /\ tx' = [tx EXCEPT ![s] = Idle]
      /\ booted' = (booted \/ t.op = "boot") /\ UNCHANGED <<proven, issued, raced>>
  BY DEF Commit, Duplicate, Doing
<1>3. /\ n.role = IF t.new.role = t.seen.role THEN r.role ELSE t.new.role
      /\ n.active = IF t.new.active = t.seen.active THEN r.active ELSE t.new.active
      /\ n.failed = IF t.new.failed = t.seen.failed THEN r.failed ELSE t.new.failed
      /\ n.lock = IF t.new.lock = t.seen.lock THEN r.lock ELSE t.new.lock
      /\ n.mfa = IF t.new.mfa = t.seen.mfa THEN r.mfa ELSE t.new.mfa
      /\ n.secret = IF t.new.secret = t.seen.secret THEN r.secret ELSE t.new.secret
  BY DEF Write
<1>. HIDE DEF n
<1>4. row' \in [Users -> Row] /\ row'[t.target] = n
      /\ \A u \in Users \ {t.target} : row'[u] = row[u]
  BY <1>1, <1>2 DEF TypeOK
<1>5. /\ tx' \in [Sessions -> Tx] /\ tx'[s] = Idle
      /\ \A k \in Sessions \ {s} : tx'[k] = tx[k]
  BY <1>2, IdleType DEF TypeOK
<1>. QED BY <1>2, <1>3, <1>4, <1>5 DEF n

(* The clock touches the lock of one row, and a lock that has run out stays. *)
(* The columns of the row a commit leaves, each the session's where it       *)
(* differs from what it read.                                                *)
LEMMA CommitFields ==
  ASSUME TypeOK, NEW s \in Sessions, Commit(s)
  PROVE  LET t == tx[s]
             r == row[t.target]
         IN  /\ row'[t.target].failed = IF t.new.failed = t.seen.failed THEN r.failed ELSE t.new.failed
             /\ row'[t.target].lock = IF t.new.lock = t.seen.lock THEN r.lock ELSE t.new.lock
             /\ row'[t.target].mfa = IF t.new.mfa = t.seen.mfa THEN r.mfa ELSE t.new.mfa
             /\ row'[t.target].secret = IF t.new.secret = t.seen.secret THEN r.secret ELSE t.new.secret
<1>. DEFINE t == tx[s]
            r == row[t.target]
            n == Write(r, t.seen, t.new)
<1>1. /\ row'[t.target] = n
      /\ n.failed = IF t.new.failed = t.seen.failed THEN r.failed ELSE t.new.failed
      /\ n.lock = IF t.new.lock = t.seen.lock THEN r.lock ELSE t.new.lock
      /\ n.mfa = IF t.new.mfa = t.seen.mfa THEN r.mfa ELSE t.new.mfa
      /\ n.secret = IF t.new.secret = t.seen.secret THEN r.secret ELSE t.new.secret
  BY CommitTo
<1>. HIDE DEF n
<1>. QED BY <1>1

LEMMA ClockTo ==
  ASSUME TypeOK, NEW u \in Users, LockRunsDown(u)
  PROVE  /\ row' \in [Users -> Row] /\ UNCHANGED <<tx, booted, history>>
         /\ \A v \in Users : /\ row'[v].role = row[v].role /\ row'[v].active = row[v].active
                             /\ row'[v].failed = row[v].failed
                             /\ row'[v].mfa = row[v].mfa /\ row'[v].secret = row[v].secret
                             /\ row'[v].lock = NoLock <=> row[v].lock = NoLock
                             /\ row[v].lock = NoLock => row'[v] = row[v]
<1>. DEFINE n == [row[u] EXCEPT !.lock = row[u].lock - 1]
<1>1. row' = [row EXCEPT ![u] = n] /\ row[u].lock > 0 /\ UNCHANGED <<tx, booted, history>>
  BY DEF LockRunsDown
<1>2. row[u] \in Row /\ row[u].lock - 1 \in NoLock..LockMax /\ row[u].lock - 1 # NoLock
      /\ row[u].lock # NoLock
  BY <1>1, RowFacts DEF NoLock
<1>3. n \in Row /\ n.role = row[u].role /\ n.active = row[u].active /\ n.failed = row[u].failed
      /\ n.mfa = row[u].mfa /\ n.secret = row[u].secret /\ n.lock # NoLock
  BY <1>2 DEF Row
<1>. HIDE DEF n
<1>. QED BY <1>1, <1>2, <1>3 DEF TypeOK

LEMMA RollbackTo ==
  ASSUME TypeOK, NEW s \in Sessions, Rollback(s)
  PROVE  /\ UNCHANGED <<row, booted, history>> /\ tx' \in [Sessions -> Tx] /\ tx'[s] = Idle
         /\ \A k \in Sessions \ {s} : tx'[k] = tx[k]
  BY IdleType DEF Rollback, TypeOK

-----------------------------------------------------------------------------

LEMMA TypeNext ==
  TypeOK /\ BlankInv /\ BossInv /\ [Next]_vars => TypeOK'
<1>. SUFFICES ASSUME TypeOK, BlankInv, BossInv, [Next]_vars PROVE TypeOK'
  OBVIOUS
<1>1. ASSUME NEW s \in Sessions, Boot(s) \/ Request(s) PROVE TypeOK'
  <2>1. Begins(s)
    BY <1>1, EveryReadBegins
  <2>. QED BY <2>1, BeginsTo DEF TypeOK
<1>2. ASSUME NEW s \in Sessions, Commit(s) PROVE TypeOK'
  <2>1. misses' \in [Users -> Nat]
    BY <1>2, TxType DEF Commit, TypeOK
  <2>. QED BY <1>2, <2>1, CommitTo DEF TypeOK
<1>3. ASSUME NEW s \in Sessions, Rollback(s) PROVE TypeOK'
  BY <1>3, RollbackTo DEF TypeOK, history
<1>4. ASSUME NEW u \in Users, LockRunsDown(u) PROVE TypeOK'
  BY <1>4, ClockTo DEF TypeOK, history
<1>5. CASE UNCHANGED vars
  BY <1>5 DEF TypeOK, vars, history
<1>. QED BY <1>1, <1>2, <1>3, <1>4, <1>5 DEF Next

LEMMA BlankNext ==
  TypeOK /\ BlankInv /\ BossInv /\ TxInv /\ [Next]_vars => BlankInv'
<1>. SUFFICES ASSUME TypeOK, BlankInv, BossInv, TxInv, [Next]_vars PROVE BlankInv'
  OBVIOUS
<1>1. ASSUME NEW s \in Sessions, Boot(s) \/ Request(s) PROVE BlankInv'
  <2>1. Begins(s)
    BY <1>1, EveryReadBegins
  <2>. QED BY <2>1, BeginsTo DEF BlankInv, Doing
<1>2. ASSUME NEW s \in Sessions, Commit(s) PROVE BlankInv'
  <2>1. tx[s].target \in Users /\ tx[s].new.role # "none"
    BY <1>2, TxType, CommitTo DEF TxInv, Decided, Doing
  <2>2. row'[tx[s].target].role # "none"
    BY <1>2, <2>1, CommitTo DEF BlankInv, Doing
  <2>3. \A u \in Users : row'[u].role = "none" => row'[u] = NoUser
    BY <1>2, <2>2, CommitTo DEF BlankInv
  <2>4. ASSUME NEW k \in Sessions, Doing(k)', row'[tx'[k].target].role = "none"
        PROVE  tx'[k].seen.role = "none"
    <3>1. k # s /\ tx'[k] = tx[k] /\ tx[k].target \in Users
      BY <1>2, <2>4, CommitTo, TxType DEF Doing, Idle
    <3>2. row'[tx[k].target] = row[tx[k].target]
      BY <1>2, <2>2, <2>4, <3>1, CommitTo
    <3>. QED BY <2>4, <3>1, <3>2 DEF BlankInv, Doing
  <2>. QED BY <2>3, <2>4 DEF BlankInv
<1>3. ASSUME NEW s \in Sessions, Rollback(s) PROVE BlankInv'
  BY <1>3, RollbackTo DEF BlankInv, Doing, Idle
<1>4. ASSUME NEW u \in Users, LockRunsDown(u) PROVE BlankInv'
  <2>1. \A v \in Users : row'[v].role = "none" => row'[v] = NoUser
    BY <1>4, ClockTo, NoUserType DEF BlankInv
  <2>2. \A k \in Sessions : tx'[k] = tx[k] /\ tx[k].target \in Users
    BY <1>4, ClockTo, TxType
  <2>. QED BY <1>4, <2>1, <2>2, ClockTo DEF BlankInv, Doing
<1>5. CASE UNCHANGED vars
  BY <1>5 DEF BlankInv, Doing, vars
<1>. QED BY <1>1, <1>2, <1>3, <1>4, <1>5 DEF Next

LEMMA BossNext ==
  TypeOK /\ BlankInv /\ BossInv /\ TxInv /\ [Next]_vars => BossInv'
<1>. SUFFICES ASSUME TypeOK, BlankInv, BossInv, TxInv, [Next]_vars PROVE BossInv'
  OBVIOUS
<1>1. ASSUME NEW s \in Sessions, Boot(s) \/ Request(s) PROVE BossInv'
  <2>1. Begins(s)
    BY <1>1, EveryReadBegins
  <2>2. row' = row /\ booted' = booted
    BY <2>1, BeginsTo
  <2>3. ASSUME NEW k \in Sessions, Doing(k)' PROVE KeepsBoss(tx[k])'
    <3>1. CASE k # s
      <4>1. tx'[k] = tx[k] /\ KeepsBoss(tx[k])
        BY <2>1, <2>3, <3>1, BeginsTo DEF BossInv, Doing
      <4>. QED BY <2>2, <4>1 DEF KeepsBoss
    <3>2. CASE k = s
      BY <2>1, <2>2, <3>2, BeginsTo DEF KeepsBoss, BossInv
    <3>. QED BY <3>1, <3>2
  <2>. QED BY <2>2, <2>3 DEF BossInv, SuperStands
<1>2. ASSUME NEW s \in Sessions, Commit(s) PROVE BossInv'
  <2>. DEFINE t == tx[s]
  <2>1. t.target \in Users /\ t.op # "idle" /\ KeepsBoss(t) /\ Decided(t)
    BY <1>2, TxType, CommitTo DEF BossInv, TxInv, Doing
  <2>2. /\ booted' = (booted \/ t.op = "boot") /\ (t.op # "boot" => booted)
        /\ \A u \in Users \ {t.target} : row'[u] = row[u]
    BY <1>2, <2>1, CommitTo DEF KeepsBoss
  <2>3. /\ row'[t.target].role = IF t.new.role = t.seen.role THEN row[t.target].role
                                                            ELSE t.new.role
        /\ row'[t.target].active = IF t.new.active = t.seen.active THEN row[t.target].active
                                                                  ELSE t.new.active
    BY <1>2, CommitTo
  <2>4. \A u \in Users : IsSuper(row'[u]) => u = Boss
    BY <2>1, <2>2, <2>3 DEF BossInv, SuperStands, KeepsBoss, IsSuper
  <2>5. booted' => IsSuper(row'[Boss]) /\ row'[Boss].active
    <3>1. CASE t.target # Boss
      BY <2>1, <2>2, <3>1 DEF BossInv, SuperStands, Decided
    <3>2. CASE t.target = Boss /\ t.op = "boot"
      <4>1. IsSuper(t.new) /\ t.new.active /\ (IsSuper(t.seen) => booted)
            /\ (t.seen.active => row[Boss].active)
        BY <2>1, <3>2 DEF KeepsBoss, Decided, BossInv, SuperStands
      <4>2. IsSuper(row'[Boss])
        BY <2>3, <3>2, <4>1 DEF BossInv, SuperStands, IsSuper
      <4>3. t.new.active \in BOOLEAN /\ t.seen.active \in BOOLEAN
        BY TxType DEF Row
      <4>. QED BY <2>3, <3>2, <4>1, <4>2, <4>3
    <3>3. CASE t.target = Boss /\ t.op # "boot"
      BY <2>1, <2>2, <2>3, <3>3 DEF KeepsBoss, BossInv, SuperStands, IsSuper
    <3>. QED BY <3>1, <3>2, <3>3
  <2>6. IsSuper(row'[Boss]) => booted'
    <3>1. CASE t.op = "boot"
      BY <2>2, <3>1
    <3>2. CASE t.op # "boot"
      BY <2>2, <3>2
    <3>. QED BY <3>1, <3>2
  <2>7. booted => booted' /\ row[Boss].active
    BY <2>2 DEF BossInv, SuperStands
  <2>8. row[Boss].active => row'[Boss].active
    <3>1. CASE t.target # Boss
      BY <2>2, <3>1
    <3>2. CASE booted'
      BY <2>5, <3>2
    <3>. QED BY <2>2, <3>1, <3>2
  <2>9. ASSUME NEW k \in Sessions, Doing(k)' PROVE KeepsBoss(tx[k])'
    <3>1. tx'[k] = tx[k] /\ KeepsBoss(tx[k])
      BY <1>2, <2>9, CommitTo DEF BossInv, Doing, Idle
    <3>. QED BY <2>7, <2>8, <3>1 DEF KeepsBoss
  <2>. QED BY <2>4, <2>5, <2>6, <2>9 DEF BossInv, SuperStands
<1>3. ASSUME NEW s \in Sessions, Rollback(s) PROVE BossInv'
  <2>1. row' = row /\ booted' = booted /\ \A k \in Sessions : Doing(k)' => tx'[k] = tx[k]
    BY <1>3, RollbackTo DEF Doing, Idle
  <2>. QED BY <2>1 DEF BossInv, SuperStands, KeepsBoss, Doing
<1>4. ASSUME NEW u \in Users, LockRunsDown(u) PROVE BossInv'
  <2>1. /\ tx' = tx /\ booted' = booted
        /\ \A v \in Users : row'[v].role = row[v].role /\ row'[v].active = row[v].active
    BY <1>4, ClockTo
  <2>. QED BY <2>1 DEF BossInv, SuperStands, KeepsBoss, Doing, IsSuper
<1>5. CASE UNCHANGED vars
  BY <1>5 DEF BossInv, SuperStands, KeepsBoss, Doing, vars
<1>. QED BY <1>1, <1>2, <1>3, <1>4, <1>5 DEF Next

LEMMA TxNext ==
  TypeOK /\ BlankInv /\ BossInv /\ TxInv /\ [Next]_vars => TxInv'
<1>. SUFFICES ASSUME TypeOK, BlankInv, BossInv, TxInv, [Next]_vars PROVE TxInv'
  OBVIOUS
<1>1. ASSUME NEW s \in Sessions, Boot(s) \/ Request(s) PROVE TxInv'
  <2>1. Begins(s)
    BY <1>1, EveryReadBegins
  <2>2. /\ row' = row /\ raced \subseteq raced'
        /\ \A k \in Sessions \ {s} : tx'[k] = tx[k]
    BY <2>1, BeginsTo
  <2>3. \A k \in Sessions : Doing(k)' => Decided(tx'[k]) /\ Authorized(tx'[k])
    BY <2>1, BeginsTo DEF TxInv, Doing
  <2>4. ASSUME NEW k \in Sessions, Unraced(tx[k])' PROVE Current(tx[k])'
    <3>1. CASE k = s
      BY <2>1, <2>2, <3>1, BeginsTo DEF Current
    <3>2. CASE k # s
      BY <2>2, <2>4, <3>2 DEF TxInv, Unraced, Current
    <3>. QED BY <3>1, <3>2
  <2>5. ASSUME NEW k \in Sessions, Unraced(tx[k])', k # s
        PROVE  Unraced(tx[k]) /\ tx'[k].target = tx[k].target /\ tx'[s].target # tx[k].target
    BY <2>1, <2>2, <2>5, BeginsTo DEF Unraced, Doing
  <2>6. ASSUME NEW k \in Sessions, NEW l \in Sessions, Unraced(tx[k])', Unraced(tx[l])',
               tx'[k].target = tx'[l].target
        PROVE  k = l
    BY <2>5, <2>6 DEF TxInv
  <2>. QED BY <2>3, <2>4, <2>6 DEF TxInv
<1>2. ASSUME NEW s \in Sessions, Commit(s) PROVE TxInv'
  <2>1. ASSUME NEW k \in Sessions, Doing(k)' PROVE k # s /\ tx'[k] = tx[k] /\ Doing(k)
    BY <1>2, <2>1, CommitTo DEF Doing, Idle
  <2>2. raced' = raced
    BY <1>2, CommitTo
  <2>3. ASSUME NEW k \in Sessions, Unraced(tx[k])' PROVE Current(tx[k])' /\ Unraced(tx[k])
    <3>1. k # s /\ tx'[k] = tx[k] /\ Unraced(tx[k])
      BY <2>1, <2>2, <2>3 DEF Unraced, Doing
    <3>2. tx[k].target # tx[s].target
      BY <1>2, <3>1, CommitTo DEF TxInv, Unraced
    <3>3. row'[tx[k].target] = row[tx[k].target]
      BY <1>2, <3>2, CommitTo, TxType
    <3>. QED BY <3>1, <3>3 DEF TxInv, Current
  <2>. QED BY <2>1, <2>3 DEF TxInv, Unraced, Doing
<1>3. ASSUME NEW s \in Sessions, Rollback(s) PROVE TxInv'
  <2>1. /\ row' = row /\ raced' = raced
        /\ \A k \in Sessions : Doing(k)' => tx'[k] = tx[k]
    BY <1>3, RollbackTo DEF Doing, Idle, history
  <2>. QED BY <2>1 DEF TxInv, Unraced, Current, Doing
<1>4. ASSUME NEW u \in Users, LockRunsDown(u) PROVE TxInv'
  <2>1. tx' = tx /\ raced' = raced
    BY <1>4, ClockTo DEF history
  <2>2. ASSUME NEW k \in Sessions, Current(tx[k]) PROVE Current(tx[k])'
    BY <1>4, <2>1, <2>2, ClockTo, TxType DEF Current
  <2>. QED BY <2>1, <2>2 DEF TxInv, Unraced, Doing
<1>5. CASE UNCHANGED vars
  BY <1>5 DEF TxInv, Unraced, Current, Doing, vars, history
<1>. QED BY <1>1, <1>2, <1>3, <1>4, <1>5 DEF Next

LEMMA MfaNext ==
  TypeOK /\ BlankInv /\ BossInv /\ TxInv /\ MfaInv /\ [Next]_vars => MfaInv'
<1>. SUFFICES ASSUME TypeOK, BlankInv, BossInv, TxInv, MfaInv, [Next]_vars PROVE MfaInv'
  OBVIOUS
<1>1. ASSUME NEW s \in Sessions, Boot(s) \/ Request(s) PROVE MfaInv'
  <2>1. Begins(s)
    BY <1>1, EveryReadBegins
  <2>2. /\ row' = row /\ raced \subseteq raced' /\ proven \subseteq proven'
        /\ \A k \in Sessions \ {s} : tx'[k] = tx[k]
    BY <2>1, BeginsTo
  <2>3. MfaProven'
    BY <2>2 DEF MfaInv, MfaProven
  <2>4. ASSUME NEW k \in Sessions, Unraced(tx[k])', tx'[k].new.mfa
        PROVE  tx'[k].new.secret \in proven'
    <3>1. CASE k # s
      BY <2>2, <2>4, <3>1 DEF MfaInv, Unraced
    <3>2. CASE k = s /\ tx'[s].op = "mfa"
      BY <2>1, <2>4, <3>2, BeginsTo
    <3>3. CASE k = s /\ tx'[s].op # "mfa"
      <4>1. /\ tx'[s].new.mfa = row[tx'[s].target].mfa
            /\ tx'[s].new.secret = row[tx'[s].target].secret
            /\ tx'[s].target \in Users
        BY <2>1, <3>3, BeginsTo DEF Decided
      <4>. QED BY <2>2, <2>4, <3>3, <4>1 DEF MfaInv, MfaProven, Unraced
    <3>. QED BY <3>1, <3>2, <3>3
  <2>. QED BY <2>3, <2>4 DEF MfaInv
<1>2. ASSUME NEW s \in Sessions, Commit(s) PROVE MfaInv'
  <2>. DEFINE t == tx[s]
  <2>1. raced' = raced /\ proven' = proven
    BY <1>2, CommitTo
  <2>2. ASSUME NEW u \in Users \ raced, row'[u].mfa PROVE row'[u].secret \in proven
    <3>1. CASE u # t.target
      BY <1>2, <2>2, <3>1, CommitTo DEF MfaInv, MfaProven
    <3>2. CASE u = t.target
      <4>1. Unraced(t) /\ Current(t)
        BY <1>2, <2>2, <3>2, CommitTo DEF TxInv, Unraced
      <4>2. row'[u].mfa = t.new.mfa /\ row'[u].secret = t.new.secret
        <5>1. /\ row'[t.target].mfa = IF t.new.mfa = t.seen.mfa THEN row[t.target].mfa ELSE t.new.mfa
              /\ row'[t.target].secret = IF t.new.secret = t.seen.secret THEN row[t.target].secret ELSE t.new.secret
          BY <1>2, CommitFields
        <5>2. t.seen.mfa = row[t.target].mfa /\ t.seen.secret = row[t.target].secret
          BY <4>1 DEF Current
        <5>. QED BY <3>2, <5>1, <5>2
      <4>3. t.new.mfa => t.new.secret \in proven
        BY <4>1 DEF MfaInv
      <4>. QED BY <2>2, <3>2, <4>2, <4>3
    <3>. QED BY <3>1, <3>2
  <2>3. \A k \in Sessions : Unraced(tx[k])' => tx'[k] = tx[k]
    BY <1>2, CommitTo DEF Unraced, Idle
  <2>. QED BY <2>1, <2>2, <2>3 DEF MfaInv, MfaProven, Unraced
<1>3. ASSUME NEW s \in Sessions, Rollback(s) PROVE MfaInv'
  <2>1. /\ row' = row /\ raced' = raced /\ proven' = proven
        /\ \A k \in Sessions : Unraced(tx[k])' => tx'[k] = tx[k]
    BY <1>3, RollbackTo DEF Unraced, Idle, history
  <2>. QED BY <2>1 DEF MfaInv, MfaProven, Unraced
<1>4. ASSUME NEW u \in Users, LockRunsDown(u) PROVE MfaInv'
  BY <1>4, ClockTo DEF MfaInv, MfaProven, Unraced, history
<1>5. CASE UNCHANGED vars
  BY <1>5 DEF MfaInv, MfaProven, Unraced, vars, history
<1>. QED BY <1>1, <1>2, <1>3, <1>4, <1>5 DEF Next

LEMMA LockoutNext ==
  TypeOK /\ BlankInv /\ BossInv /\ TxInv /\ LockoutExact /\ [Next]_vars => LockoutExact'
<1>. SUFFICES ASSUME TypeOK, BlankInv, BossInv, TxInv, LockoutExact, [Next]_vars
              PROVE  LockoutExact'
  OBVIOUS
<1>1. ASSUME NEW s \in Sessions, Boot(s) \/ Request(s) PROVE LockoutExact'
  <2>1. Begins(s)
    BY <1>1, EveryReadBegins
  <2>. QED BY <2>1, BeginsTo DEF LockoutExact
<1>2. ASSUME NEW s \in Sessions, Commit(s) PROVE LockoutExact'
  <2>. DEFINE t == tx[s]
              r == row[t.target]
  <2>1. /\ raced' = raced /\ t \in Tx /\ t.target \in Users /\ t.op # "idle"
        /\ misses' = [misses EXCEPT ![t.target] =
                        CASE t.op \in {"clear", "boot"} \/ t.target \in raced -> 0
                          [] t.op = "fail" -> @ + 1
                          [] OTHER -> @]
    BY <1>2, CommitTo, TxType DEF Commit, Doing
  <2>2. ASSUME NEW u \in Users \ raced, u # t.target
        PROVE  row'[u] = row[u] /\ misses'[u] = misses[u]
    BY <1>2, <2>1, <2>2, CommitTo DEF TypeOK
  <2>3. ASSUME t.target \notin raced
        PROVE  /\ row'[t.target].failed = misses'[t.target]
               /\ row'[t.target].failed >= Threshold <=> row'[t.target].lock # NoLock
    <3>1. /\ t.seen.failed = r.failed /\ (t.seen.lock = NoLock <=> r.lock = NoLock)
          /\ Decided(t)
      BY <2>1, <2>3 DEF TxInv, Unraced, Current, Doing
    <3>2. /\ row'[t.target].failed = t.new.failed
          /\ row'[t.target].lock = IF t.new.lock = t.seen.lock THEN r.lock ELSE t.new.lock
      <4>1. /\ row'[t.target].failed = IF t.new.failed = t.seen.failed THEN r.failed ELSE t.new.failed
            /\ row'[t.target].lock = IF t.new.lock = t.seen.lock THEN r.lock ELSE t.new.lock
        BY <1>2, CommitFields
      <4>. QED BY <3>1, <4>1
    <3>3. /\ r.failed = misses[t.target] /\ r.failed \in Nat
          /\ r.failed >= Threshold <=> r.lock # NoLock
      BY <2>1, <2>3, RowFacts DEF LockoutExact
    <3>4. CASE t.op \in {"clear", "boot"}
      <4>1. misses'[t.target] = 0
        BY <2>1, <3>4 DEF TypeOK
      <4>2. t.new.failed = 0 /\ t.new.lock = NoLock
        BY <3>1, <3>4 DEF Decided
      <4>. QED BY <3>1, <3>2, <4>1, <4>2
    <3>5. CASE t.op = "fail"
      <4>1. misses'[t.target] = misses[t.target] + 1
        BY <2>1, <2>3, <3>5 DEF TypeOK
      <4>2. /\ t.new.failed = t.seen.failed + 1 /\ t.seen.lock <= 0
            /\ IF t.new.failed >= Threshold THEN t.new.lock > 0 ELSE t.new.lock = t.seen.lock
        BY <3>1, <3>5 DEF Decided
      <4>3. t.seen.lock \in Int /\ t.new.lock \in Int
        BY TxType DEF Row, NoLock
      <4>. QED BY <3>1, <3>2, <3>3, <4>1, <4>2, <4>3 DEF NoLock
    <3>6. CASE t.op \in {"insert", "mfa", "admin"}
      <4>1. misses'[t.target] = misses[t.target]
        BY <2>1, <2>3, <3>6 DEF TypeOK
      <4>2. t.new.failed = t.seen.failed /\ t.new.lock = t.seen.lock
        BY <3>1, <3>6 DEF Decided
      <4>. QED BY <3>1, <3>2, <3>3, <4>1, <4>2
    <3>. QED BY <2>1, <3>4, <3>5, <3>6 DEF Tx
  <2>. QED BY <2>1, <2>2, <2>3 DEF LockoutExact
<1>3. ASSUME NEW s \in Sessions, Rollback(s) PROVE LockoutExact'
  BY <1>3, RollbackTo DEF LockoutExact, history
<1>4. ASSUME NEW u \in Users, LockRunsDown(u) PROVE LockoutExact'
  BY <1>4, ClockTo DEF LockoutExact, history
<1>5. CASE UNCHANGED vars
  BY <1>5 DEF LockoutExact, vars, history
<1>. QED BY <1>1, <1>2, <1>3, <1>4, <1>5 DEF Next

-----------------------------------------------------------------------------
(* The theorems *)

AccountsInv == TypeOK /\ BlankInv /\ BossInv /\ TxInv /\ MfaInv /\ LockoutExact

LEMMA InitAccounts == Init => AccountsInv
<1>. SUFFICES ASSUME Init PROVE AccountsInv
  OBVIOUS
<1>1. ASSUME NEW u \in Users
      PROVE  /\ row[u] \in Row /\ row[u].failed = 0 /\ row[u].lock = NoLock
             /\ row[u].mfa = FALSE /\ ~IsSuper(row[u])
             /\ row[u].role = "none" => row[u] = NoUser
  <2>1. row[u] = NoUser \/ \E r \in Grantable, a \in BOOLEAN : row[u] = NewUser(r, a)
    BY DEF Init
  <2>2. ASSUME NEW r \in Grantable, NEW a \in BOOLEAN
        PROVE  /\ NewUser(r, a) \in Row /\ NewUser(r, a).failed = 0
               /\ NewUser(r, a).lock = NoLock /\ NewUser(r, a).mfa = FALSE
               /\ NewUser(r, a).role \in Grantable
    <3>1. r \in Role \cup {"none"}
      BY DEF Role
    <3>. QED BY <3>1, NewUserType
  <2>3. \A r \in Grantable : r # "none" /\ r # "super_admin"
    BY DEF Grantable
  <2>4. CASE row[u] = NoUser
    BY <2>4, NoUserType DEF IsSuper
  <2>5. CASE \E r \in Grantable, a \in BOOLEAN : row[u] = NewUser(r, a)
    <3>1. PICK r \in Grantable, a \in BOOLEAN : row[u] = NewUser(r, a)
      BY <2>5
    <3>2. row[u] \in Row /\ row[u].failed = 0 /\ row[u].lock = NoLock /\ row[u].mfa = FALSE
      BY <2>2, <3>1
    <3>3. row[u].role # "none" /\ row[u].role # "super_admin"
      BY <2>2, <2>3, <3>1
    <3>. QED BY <3>2, <3>3 DEF IsSuper
  <2>. QED BY <2>1, <2>4, <2>5
<1>2. row \in [Users -> Row] /\ tx \in [Sessions -> Tx] /\ \A s \in Sessions : tx[s] = Idle
  <2>1. \E f : row = [u \in Users |-> f[u]]
    <3>1. PICK boss : row = [u \in Users |-> IF u = Boss THEN boss ELSE NoUser]
      BY DEF Init
    <3>. DEFINE f == [u \in Users |-> IF u = Boss THEN boss ELSE NoUser]
    <3>2. row = [u \in Users |-> f[u]]
      BY <3>1
    <3>. QED BY <3>2
  <2>2. row \in [Users -> Row]
    BY <1>1, <2>1
  <2>3. tx = [s \in Sessions |-> Idle]
    BY DEF Init
  <2>. QED BY <2>2, <2>3, IdleType
<1>3. \A s \in Sessions : ~Doing(s) /\ ~Unraced(tx[s])
  BY <1>2 DEF Doing, Unraced, Idle
<1>4. TypeOK
  BY <1>2 DEF TypeOK, Init
<1>5. MfaInv /\ TxInv /\ BlankInv
  BY <1>1, <1>3 DEF MfaInv, MfaProven, TxInv, BlankInv
<1>6. BossInv
  BY <1>1, <1>3 DEF BossInv, SuperStands, Init
<1>7. LockoutExact
  <2>1. \A u \in Users : misses[u] = 0
    BY DEF Init
  <2>2. ~(0 >= Threshold)
    OBVIOUS
  <2>. QED BY <1>1, <2>1, <2>2 DEF LockoutExact
<1>. QED BY <1>4, <1>5, <1>6, <1>7 DEF AccountsInv

LEMMA AccountsInvariant == Spec => []AccountsInv
<1>1. AccountsInv /\ [Next]_vars => AccountsInv'
  BY TypeNext, BlankNext, BossNext, TxNext, MfaNext, LockoutNext DEF AccountsInv
<1>. QED BY InitAccounts, <1>1, PTL DEF Spec

(* The columns and the open transactions keep their types. *)
THEOREM TypeCorrect == Spec => []TypeOK
<1>1. AccountsInv => TypeOK
  BY DEF AccountsInv
<1>. QED BY AccountsInvariant, <1>1, PTL

(* routers/auth.py, ensure_default_admin and _require_can_administer: from    *)
(* the first start on the ADMIN_USERNAME account is the only super admin and  *)
(* active, whatever requests and starts overlap.                             *)
THEOREM SuperAdminStands == Spec => []SuperStands
<1>1. AccountsInv => SuperStands
  BY DEF AccountsInv, BossInv
<1>. QED BY AccountsInvariant, <1>1, PTL

(* login: where logins of an account do not overlap, the lockout counts       *)
(* exactly its failures since the last success, for every schedule of them    *)
(* and every threshold.                                                      *)
THEOREM LockoutIsExact == Spec => []LockoutExact
<1>1. AccountsInv => LockoutExact
  BY DEF AccountsInv
<1>. QED BY AccountsInvariant, <1>1, PTL

(* mfa/enroll, confirm, disable: MFA is on only with a secret of which a code *)
(* has been submitted, where requests of the account do not overlap.         *)
THEOREM MfaIsProven == Spec => []MfaProven
<1>1. AccountsInv => MfaProven
  BY DEF AccountsInv, MfaInv
<1>. QED BY AccountsInvariant, <1>1, PTL

LEMMA AdminStep ==
  ASSUME AccountsInv, [Next]_vars, NEW u \in Users, row'[u] # row[u]
  PROVE  \/ row'[u].role = row[u].role /\ row'[u].active = row[u].active
         \/ \E s \in Sessions :
              /\ Doing(s) /\ tx'[s] = Idle /\ tx[s].target = u
              /\ row'[u].role = IF tx[s].new.role = tx[s].seen.role THEN row[u].role
                                                                    ELSE tx[s].new.role
              /\ row'[u].active = IF tx[s].new.active = tx[s].seen.active THEN row[u].active
                                                                          ELSE tx[s].new.active
<1>. USE DEF AccountsInv
<1>1. ASSUME NEW s \in Sessions, Boot(s) \/ Request(s) PROVE FALSE
  BY <1>1, EveryReadBegins, BeginsTo
<1>2. ASSUME NEW s \in Sessions, Rollback(s) PROVE FALSE
  BY <1>2, RollbackTo
<1>3. ASSUME NEW v \in Users, LockRunsDown(v)
      PROVE  row'[u].role = row[u].role /\ row'[u].active = row[u].active
  BY <1>3, ClockTo
<1>4. ASSUME NEW s \in Sessions, Commit(s)
      PROVE  /\ Doing(s) /\ tx'[s] = Idle /\ tx[s].target = u
             /\ row'[u].role = IF tx[s].new.role = tx[s].seen.role THEN row[u].role
                                                                   ELSE tx[s].new.role
             /\ row'[u].active = IF tx[s].new.active = tx[s].seen.active THEN row[u].active
                                                                         ELSE tx[s].new.active
  BY <1>4, CommitTo, TxType DEF Doing
<1>5. CASE UNCHANGED vars
  BY <1>5 DEF vars
<1>. QED BY <1>1, <1>2, <1>3, <1>4, <1>5 DEF Next

(* _require_can_administer and _require_can_grant_role: administrators are    *)
(* made by the super admin only, and lose the role only through the super     *)
(* admin, themselves, or a request older than their promotion.               *)
THEOREM AdminTier == Spec => AdminTierBySuper
<1>. DEFINE Step ==
       \A u \in Users :
         /\ Rules(row[u]) /\ ~Rules(row'[u])
              => \E s \in Sessions : /\ Doing(s) /\ tx'[s] = Idle /\ tx[s].target = u
                                     /\ tx[s].actor \in {u, Boss} \/ ~Rules(tx[s].seen)
         /\ row[u].role # "admin" /\ row'[u].role = "admin"
              => \E s \in Sessions : /\ Doing(s) /\ tx'[s] = Idle
                                     /\ tx[s].target = u /\ tx[s].actor = Boss
<1>1. AccountsInv /\ [Next]_vars => [Step]_vars
  <2>. SUFFICES ASSUME AccountsInv, [Next]_vars PROVE Step
    OBVIOUS
  <2>1. ASSUME NEW s \in Sessions, Doing(s) PROVE Authorized(tx[s])
    BY <2>1 DEF AccountsInv, TxInv
  <2>2. ASSUME NEW u \in Users, Rules(row[u]), ~Rules(row'[u])
        PROVE  \E s \in Sessions : /\ Doing(s) /\ tx'[s] = Idle /\ tx[s].target = u
                                   /\ tx[s].actor \in {u, Boss} \/ ~Rules(tx[s].seen)
    <3>1. PICK s \in Sessions :
            /\ Doing(s) /\ tx'[s] = Idle /\ tx[s].target = u
            /\ row'[u].role = IF tx[s].new.role = tx[s].seen.role THEN row[u].role
                                                                  ELSE tx[s].new.role
            /\ row'[u].active = IF tx[s].new.active = tx[s].seen.active THEN row[u].active
                                                                        ELSE tx[s].new.active
      BY <2>2, AdminStep DEF Rules, IsPlatformAdmin
    <3>2. Rules(tx[s].new) => Rules(row'[u])
      BY <2>2, <3>1 DEF Rules, IsPlatformAdmin
    <3>. QED BY <2>1, <2>2, <3>1, <3>2 DEF Authorized
  <2>3. ASSUME NEW u \in Users, row[u].role # "admin", row'[u].role = "admin"
        PROVE  \E s \in Sessions : /\ Doing(s) /\ tx'[s] = Idle
                                   /\ tx[s].target = u /\ tx[s].actor = Boss
    <3>1. PICK s \in Sessions :
            /\ Doing(s) /\ tx'[s] = Idle /\ tx[s].target = u
            /\ row'[u].role = IF tx[s].new.role = tx[s].seen.role THEN row[u].role
                                                                  ELSE tx[s].new.role
      BY <2>3, AdminStep
    <3>. QED BY <2>1, <2>3, <3>1 DEF Authorized
  <2>. QED BY <2>2, <2>3
<1>. QED BY AccountsInvariant, <1>1, PTL DEF Spec, AdminTierBySuper
=============================================================================
