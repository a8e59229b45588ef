----------------------------- MODULE UserAccounts -----------------------------
(***************************************************************************)
(* routers/auth.py: the rows of the users table.  Failed logins and lockout, *)
(* MFA enrolment, who may administer whom, and the super admin that every    *)
(* start of a replica creates or repairs.                                    *)
(*                                                                          *)
(* Every request, and every start, reads rows in a snapshot (REPEATABLE      *)
(* READ), decides on them, and commits the columns it has changed over       *)
(* whatever has been committed meanwhile.  A request that is refused changes *)
(* nothing and is left out.  Passwords and the tokens of AccountSessions are *)
(* left out: whether a password or code is right is an input.                *)
(***************************************************************************)
EXTENDS Integers

CONSTANTS
  Users,       \* usernames
  Boss,        \* settings.admin_username
  Guessed,     \* the accounts somebody tries to log in to
  Enrolling,   \* the accounts that use MFA
  Secrets,     \* TOTP secrets that generate_totp_secret will return
  NoSecret,    \* mfa_secret is NULL
  Sessions,    \* requests and starts that may be open at the same time
  Threshold,   \* login_lockout_threshold
  LockBase,    \* login_lockout_base_seconds, in units of time
  LockMax,     \* login_lockout_max_seconds
  MaxFailed    \* bound: failed logins counted for one account

(* Mutant: the doubling is not capped. *)
LockoutDoubled(n) == LockBase * 2 ^ (n - Threshold)

(* _lockout_seconds *)
LockoutSeconds(n) ==
  LET seconds == LockBase * 2 ^ (n - Threshold)
  IN  IF seconds <= LockMax THEN seconds ELSE LockMax

ASSUME AccountsAssumption ==
  /\ Boss \in Users /\ Guessed \subseteq Users /\ Enrolling \subseteq Users
  /\ NoSecret \notin Secrets
  /\ Threshold \in Nat \ {0} /\ MaxFailed \in Nat /\ LockMax \in Nat
  /\ \A n \in Threshold..MaxFailed : LockoutSeconds(n) \in Nat \ {0}

NoLock == -1   \* locked_until is NULL; otherwise the units left until it has passed

Grantable == {"admin", "editor", "viewer"}   \* the patterns of the schemas
Role == Grantable \cup {"super_admin"}

(* models.User; role "none" is an account that does not exist. *)
Row == [role : Role \cup {"none"}, active : BOOLEAN, failed : Nat, lock : NoLock..LockMax,
        mfa : BOOLEAN, secret : Secrets \cup {NoSecret}]

NewUser(role, active) ==
  [role |-> role, active |-> active, failed |-> 0, lock |-> NoLock,
   mfa |-> FALSE, secret |-> NoSecret]

NoUser == NewUser("none", FALSE)

VARIABLES
  row,      \* row[u]: the row of account u
  tx,       \* tx[s]: the open transaction of session s
  booted,   \* a replica has started, and serves requests
  misses,   \* misses[u]: failed logins since one succeeded or the lock was cleared
            \* (0 once u is in raced)
  proven,   \* secrets of which a valid code has been submitted
  issued,   \* secrets that enrolments have handed out
  raced     \* accounts of which two transactions were open at once

history == <<misses, proven, issued, raced>>
vars == <<row, tx, booted, history>>

(* An open transaction: what it does, for whom, to whose row; the row it has *)
(* read, and the same row as the ORM will flush it.                          *)
Tx == [op : {"idle", "boot", "insert", "fail", "clear", "mfa", "admin"},
       actor : Users, target : Users, seen : Row, new : Row]

Idle == [op |-> "idle", actor |-> Boss, target |-> Boss, seen |-> NoUser, new |-> NoUser]

TypeOK ==
  /\ row \in [Users -> Row] /\ tx \in [Sessions -> Tx] /\ booted \in BOOLEAN
  /\ misses \in [Users -> Nat] /\ raced \subseteq Users
  /\ proven \subseteq Secrets /\ issued \subseteq Secrets

(* A new installation, or one from before there were super admins, whose     *)
(* ADMIN_USERNAME account may have been demoted or deactivated.              *)
Init ==
  /\ \E boss \in {NoUser} \cup {NewUser(r, a) : r \in Grantable, a \in BOOLEAN} :
       row = [u \in Users |-> IF u = Boss THEN boss ELSE NoUser]
  /\ tx = [s \in Sessions |-> Idle] /\ booted = FALSE
  /\ misses = [u \in Users |-> 0]
  /\ proven = {} /\ issued = {} /\ raced = {}

-----------------------------------------------------------------------------
(* Transactions                                                            *)

Doing(s) == tx[s].op # "idle"

(* Session s has read the row of u and will write it as new.  A transaction  *)
(* that changes no column writes nothing, whenever it commits: left out.     *)
Begin(s, op, a, u, new) ==
  /\ ~Doing(s) /\ new # row[u]
  /\ tx' = [tx EXCEPT ![s] = [op |-> op, actor |-> a, target |-> u,
                              seen |-> row[u], new |-> new]]
  /\ raced' = IF \E t \in Sessions : Doing(t) /\ tx[t].target = u
              THEN raced \cup {u} ELSE raced
  /\ UNCHANGED <<row, booted, misses>>

(* The columns the session has changed are written over the current row. *)
Write(now, seen, new) ==
  LET Col(n, s, w) == IF w = s THEN n ELSE w
  IN  [role |-> Col(now.role, seen.role, new.role),
       active |-> Col(now.active, seen.active, new.active),
       failed |-> Col(now.failed, seen.failed, new.failed),
       lock |-> Col(now.lock, seen.lock, new.lock),
       mfa |-> Col(now.mfa, seen.mfa, new.mfa),
       secret |-> Col(now.secret, seen.secret, new.secret)]

(* uq_user_username: an insert of a name that has been taken meanwhile fails. *)
Duplicate(s) == tx[s].seen.role = "none" /\ row[tx[s].target].role # "none"

Commit(s) ==
  LET t == tx[s]
  IN  /\ Doing(s) /\ ~Duplicate(s)
      /\ row' = [row EXCEPT ![t.target] = Write(@, t.seen, t.new)]
      /\ tx' = [tx EXCEPT ![s] = Idle]
      /\ booted' = (booted \/ t.op = "boot")
      /\ misses' = [misses EXCEPT ![t.target] =
                      CASE t.op \in {"clear", "boot"} \/ t.target \in raced -> 0
                        [] t.op = "fail" -> @ + 1
                        [] OTHER -> @]
      /\ UNCHANGED <<proven, issued, raced>>

(* The commit is refused, or the process dies before it. *)
Rollback(s) ==
  /\ Doing(s)
  /\ tx' = [tx EXCEPT ![s] = Idle]
  /\ UNCHANGED <<row, booted, history>>

(* The clock: a lock runs down. *)
LockRunsDown(u) ==
  /\ row[u].lock > 0
  /\ row' = [row EXCEPT ![u].lock = @ - 1]
  /\ UNCHANGED <<tx, booted, history>>

-----------------------------------------------------------------------------
(* Starting a replica                                                      *)

Repaired(r) ==
  [r EXCEPT !.role = "super_admin", !.active = TRUE, !.failed = 0, !.lock = NoLock]

(* ensure_default_admin, in the lifespan of the application: no replica      *)
(* serves requests before its own has committed.                             *)
Boot(s) ==
  /\ Begin(s, "boot", Boss, Boss,
           IF row[Boss].role = "none" THEN NewUser("super_admin", TRUE)
                                      ELSE Repaired(row[Boss]))
  /\ UNCHANGED <<proven, issued>>

-----------------------------------------------------------------------------
(* Login                                                                   *)

Locked(u) == row[u].lock > 0

(* Mutant: the counter starts again when a lock has expired. *)
FailedFresh(r) ==
  LET n == IF r.lock = 0 THEN 1 ELSE r.failed + 1
  IN  [r EXCEPT !.failed = n, !.lock = IF n >= Threshold THEN LockoutSeconds(n) ELSE @]

(* The row after one more wrong password or code. *)
Failed(r) ==
  LET n == r.failed + 1
  IN  [r EXCEPT !.failed = n, !.lock = IF n >= Threshold THEN LockoutSeconds(n) ELSE @]

Cleared(r) == [r EXCEPT !.failed = 0, !.lock = NoLock]

(* login; an account that does not exist, is not active or is locked is       *)
(* refused before anything is counted.                                       *)
LoginFails(s, u) ==
  /\ row[u].active /\ ~Locked(u) /\ row[u].failed < MaxFailed
  /\ Begin(s, "fail", u, u, Failed(row[u]))
  /\ UNCHANGED <<proven, issued>>

LoginSucceeds(s, u) ==
  /\ row[u].active /\ ~Locked(u)
  /\ Begin(s, "clear", u, u, Cleared(row[u]))
  /\ UNCHANGED <<proven, issued>>

(* confirm_password_reset clears the lockout of a locked account, too. *)
ResetPassword(s, u) ==
  /\ row[u].active
  /\ Begin(s, "clear", u, u, Cleared(row[u]))
  /\ UNCHANGED <<proven, issued>>

-----------------------------------------------------------------------------
(* MFA: require_role(ADMIN) on the caller's own row                        *)

IsPlatformAdmin(r) == r.role \in {"admin", "super_admin"}
IsSuper(r) == r.role = "super_admin"

(* get_current_user and require_role(ADMIN) *)
MayCall(a) == row[a].active /\ IsPlatformAdmin(row[a])

(* Mutant: MFA stays on while a new secret is unconfirmed. *)
EnrolledStillOn(r, k) == [r EXCEPT !.secret = k]

Enrolled(r, k) == [r EXCEPT !.secret = k, !.mfa = FALSE]

Enroll(s, u) ==
  /\ MayCall(u)
  /\ \E k \in Secrets \ issued : /\ issued' = issued \cup {k}
                                 /\ Begin(s, "mfa", u, u, Enrolled(row[u], k))
  /\ UNCHANGED proven

(* A valid code for the secret in the row proves possession of it. *)
ConfirmEnroll(s, u) ==
  /\ MayCall(u) /\ row[u].secret # NoSecret
  /\ proven' = proven \cup {row[u].secret}
  /\ Begin(s, "mfa", u, u, [row[u] EXCEPT !.mfa = TRUE])
  /\ UNCHANGED issued

DisableMfa(s, u) ==
  /\ MayCall(u) /\ row[u].mfa /\ row[u].secret # NoSecret
  /\ proven' = proven \cup {row[u].secret}
  /\ Begin(s, "mfa", u, u, [row[u] EXCEPT !.mfa = FALSE, !.secret = NoSecret])
  /\ UNCHANGED issued

-----------------------------------------------------------------------------
(* Administration                                                          *)

(* Mutants: without rule 1, and without rule 2. *)
AdministerSuper(a, u) ==
  IsPlatformAdmin(row[u]) => u = a \/ IsSuper(row[a])
AdministerPeer(a, u) == ~IsSuper(row[u])

(* _require_can_administer *)
MayAdminister(a, u) ==
  /\ ~IsSuper(row[u])
  /\ IsPlatformAdmin(row[u]) => u = a \/ IsSuper(row[a])

(* _require_can_grant_role *)
MayGrant(a, role) == role = "admin" => IsSuper(row[a])

(* register: anyone, as a viewer. *)
Register(s, u) ==
  /\ row[u].role = "none"
  /\ Begin(s, "insert", u, u, NewUser("viewer", TRUE))
  /\ UNCHANGED <<proven, issued>>

AdminCreateUser(s, a, u) ==
  /\ MayCall(a) /\ row[u].role = "none"
  /\ \E role \in Grantable, active \in BOOLEAN :
       /\ MayGrant(a, role)
       /\ Begin(s, "insert", a, u, NewUser(role, active))
  /\ UNCHANGED <<proven, issued>>

(* update_user: the role, whether active, or both; one left out is as it was. *)
UpdateUser(s, a, u) ==
  /\ MayCall(a) /\ row[u].role # "none" /\ MayAdminister(a, u)
  /\ \E role \in Grantable \cup {row[u].role}, active \in BOOLEAN :
       /\ role # row[u].role => MayGrant(a, role)
       /\ active \/ u # a
       /\ Begin(s, "admin", a, u, [row[u] EXCEPT !.role = role, !.active = active])
  /\ UNCHANGED <<proven, issued>>

DeleteUser(s, a, u) ==
  /\ MayCall(a) /\ row[u].role # "none" /\ u # a /\ MayAdminister(a, u)
  /\ Begin(s, "admin", a, u, [row[u] EXCEPT !.active = FALSE])
  /\ UNCHANGED <<proven, issued>>

-----------------------------------------------------------------------------

Login(s, u) == LoginFails(s, u) \/ LoginSucceeds(s, u) \/ ResetPassword(s, u)
Mfa(s, u) == Enroll(s, u) \/ ConfirmEnroll(s, u) \/ DisableMfa(s, u)
Administer(s, a, u) == AdminCreateUser(s, a, u) \/ UpdateUser(s, a, u) \/ DeleteUser(s, a, u)

Request(s) ==
  /\ booted
  /\ \/ \E u \in Guessed : Login(s, u)
     \/ \E u \in Enrolling : Mfa(s, u)
     \/ \E u \in Users : Register(s, u)
     \/ \E a, u \in Users : Administer(s, a, u)

Next ==
  \/ \E s \in Sessions : Boot(s) \/ Request(s) \/ Commit(s) \/ Rollback(s)
  \/ \E u \in Users : LockRunsDown(u)

Spec == Init /\ [][Next]_vars

-----------------------------------------------------------------------------
(* Properties                                                              *)

(* From the first start on there is one super admin, the ADMIN_USERNAME       *)
(* account, and no request, however old the rows it decided on, demotes or    *)
(* deactivates it.                                                           *)
SuperStands ==
  /\ booted => IsSuper(row[Boss]) /\ row[Boss].active
  /\ \A u \in Users : IsSuper(row[u]) => u = Boss

(* The account is locked out after Threshold failures in a row: the counter   *)
(* is the number of failures since a login succeeded or the lock was cleared, *)
(* a lock lasts only while it is at the threshold, and an account at the      *)
(* threshold has a lock, running or expired.  Logins that overlap on one      *)
(* account lose counts and break this.                                       *)
LockoutExact ==
  \A u \in Users \ raced :
    /\ row[u].failed = misses[u]
    /\ row[u].failed >= Threshold <=> row[u].lock # NoLock

(* MFA that is on has a secret, of which a code has been submitted: otherwise *)
(* nobody could log in (models.py, at mfa_secret).  Requests of one account   *)
(* that overlap break this.                                                  *)
MfaProven == \A u \in Users \ raced : row[u].mfa => row[u].secret \in proven

(* An active administrator is demoted or deactivated only by the super admin  *)
(* or by itself, or by a request that had read the account before it became   *)
(* one; and only the super admin makes somebody an admin.                    *)
Rules(r) == r.active /\ IsPlatformAdmin(r)

AdminTierBySuper ==
  [][\A u \in Users :
       /\ Rules(row[u]) /\ ~Rules(row'[u])
            => \E s \in Sessions : /\ Doing(s) /\ tx'[s] = Idle /\ tx[s].target = u
                                   /\ tx[s].actor \in {u, Boss} \/ ~Rules(tx[s].seen)
       /\ row[u].role # "admin" /\ row'[u].role = "admin"
            => \E s \in Sessions : /\ Doing(s) /\ tx'[s] = Idle
                                   /\ tx[s].target = u /\ tx[s].actor = Boss]_vars
=============================================================================
