---------------------------- MODULE OrgMembership ----------------------------
(***************************************************************************)
(* routers/orgs.py: the members of one organization.  Every request runs   *)
(* in a database session of its own, under MySQL's default REPEATABLE READ: *)
(* its checks read one snapshot, and its commit writes, whatever others     *)
(* have committed since, the columns whose value it changed.  A request     *)
(* that is refused (403, 404, 400, 409) changes nothing and is left out.    *)
(***************************************************************************)
EXTENDS Naturals

CONSTANTS
  Users,
  Admins,     \* platform admins
  Keep,       \* a column the transaction does not write
  Sessions    \* requests that may be open at the same time

Role == {"viewer", "editor", "owner"}
Status == {"none", "pending", "active", "revoked"}

ASSUME OrgAssumption == Admins \subseteq Users /\ Keep \notin Users \cup Role \cup Status

VARIABLES
  role,     \* role[u]: OrgMembership.role ("viewer" if u has no row)
  status,   \* status[u]: OrgMembership.status ("none" if u has no row)
  owner,    \* Organization.owner_user_id
  open,     \* open[s]: a request has read its snapshot and not committed
  writes    \* writes[s]: what its commit will write

vars == <<role, status, owner, open, writes>>

NoWrites == [role |-> [u \in Users |-> Keep], status |-> [u \in Users |-> Keep],
             owner |-> Keep, new |-> Keep]

Writes == [role : [Users -> Role \cup {Keep}], status : [Users -> Status \cup {Keep}],
           owner : Users \cup {Keep}, new : Users \cup {Keep}]

TypeOK ==
  /\ role \in [Users -> Role] /\ status \in [Users -> Status] /\ owner \in Users
  /\ open \in [Sessions -> BOOLEAN] /\ writes \in [Sessions -> Writes]

(* create_org, and ensure_default_organization in a new installation: the    *)
(* owner has the only membership.                                            *)
Founded ==
  /\ role = [u \in Users |-> IF u = owner THEN "owner" ELSE "viewer"]
  /\ status = [u \in Users |-> IF u = owner THEN "active" ELSE "none"]

(* The migration to organizations: all users there are become members, an    *)
(* admin as owner, the others with the role they have; the owner is an admin *)
(* if there is one.                                                          *)
Backfilled ==
  \E old \in SUBSET Users, was \in [Users -> {"viewer", "editor"}] :
    /\ owner \in old /\ (old \cap Admins # {} => owner \in Admins)
    /\ role = [u \in Users |-> IF u \notin old THEN "viewer"
                               ELSE IF u \in Admins THEN "owner" ELSE was[u]]
    /\ status = [u \in Users |-> IF u \in old THEN "active" ELSE "none"]

Init ==
  /\ owner \in Users
  /\ Founded \/ Backfilled
  /\ open = [s \in Sessions |-> FALSE]
  /\ writes = [s \in Sessions |-> NoWrites]

-----------------------------------------------------------------------------
(* The ORM writes a column only if its value differs from the one loaded.    *)
Changed(new, old) ==
  [u \in Users |-> IF new[u] = old[u] THEN Keep ELSE new[u]]

Begin(s, w) ==
  /\ ~open[s]
  /\ open' = [open EXCEPT ![s] = TRUE]
  /\ writes' = [writes EXCEPT ![s] = w]
  /\ UNCHANGED <<role, status, owner>>

Write(roles, statuses) ==
  [NoWrites EXCEPT !.role = Changed(roles, role), !.status = Changed(statuses, status)]

Decide(s, u, new) == Begin(s, Write(role, [status EXCEPT ![u] = new]))

(* _require_owner *)
MayManage(a) == a \in Admins \/ (status[a] = "active" /\ role[a] = "owner")

(* Mutant: the old role is kept. *)
RequestKeepsRole(s, u) ==
  /\ status[u] \in {"none", "revoked"}
  /\ Begin(s, [Write(role, [status EXCEPT ![u] = "pending"])
                 EXCEPT !.new = IF status[u] = "none" THEN u ELSE Keep])

(* A new request starts over as viewer, whatever the role was before. *)
RequestToJoin(s, u) ==
  /\ status[u] \in {"none", "revoked"}
  /\ Begin(s, [Write([role EXCEPT ![u] = "viewer"], [status EXCEPT ![u] = "pending"])
                 EXCEPT !.new = IF status[u] = "none" THEN u ELSE Keep])

ApproveMember(s, a, u) == MayManage(a) /\ status[u] = "pending" /\ Decide(s, u, "active")

RejectMember(s, a, u) == MayManage(a) /\ status[u] = "pending" /\ Decide(s, u, "revoked")

UpdateMember(s, a, u, new) ==
  /\ MayManage(a) /\ status[u] = "active"
  /\ Begin(s, Write([role EXCEPT ![u] = new], status))

(* Mutant: the primary owner is not protected. *)
RemoveAnyMember(s, a, u) ==
  MayManage(a) /\ status[u] = "active" /\ Decide(s, u, "revoked")

RemoveMember(s, a, u) ==
  MayManage(a) /\ u # owner /\ status[u] = "active" /\ Decide(s, u, "revoked")

(* The prior owner becomes an editor; a transfer to the owner changes nothing *)
(* but the role, since both memberships are then the same object.             *)
TransferOwnership(s, a, u) ==
  /\ MayManage(a) /\ status[u] = "active"
  /\ Begin(s, [Write([role EXCEPT ![owner] = "editor", ![u] = "owner"], status)
                 EXCEPT !.owner = IF u = owner THEN Keep ELSE u])

(* What column holds once a transaction has written to it. *)
Overwritten(column, w) == [u \in Users |-> IF w[u] = Keep THEN column[u] ELSE w[u]]

(* A second row for the same user violates uq_membership_user_org. *)
Duplicate(s) == writes[s].new # Keep /\ status[writes[s].new] # "none"

Close(s) ==
  /\ open' = [open EXCEPT ![s] = FALSE]
  /\ writes' = [writes EXCEPT ![s] = NoWrites]

Commit(s) ==
  /\ open[s] /\ ~Duplicate(s)
  /\ role' = Overwritten(role, writes[s].role)
  /\ status' = Overwritten(status, writes[s].status)
  /\ owner' = IF writes[s].owner = Keep THEN owner ELSE writes[s].owner
  /\ Close(s)

(* The commit fails, or the process dies before it. *)
Rollback(s) == open[s] /\ Close(s) /\ UNCHANGED <<role, status, owner>>

Request(s) ==
  \E u \in Users :
    \/ RequestToJoin(s, u)
    \/ \E a \in Users : \/ ApproveMember(s, a, u) \/ RejectMember(s, a, u)
                        \/ \E new \in Role : UpdateMember(s, a, u, new)
                        \/ RemoveMember(s, a, u) \/ TransferOwnership(s, a, u)

Next == \E s \in Sessions : Request(s) \/ Commit(s) \/ Rollback(s)

Spec == Init /\ [][Next]_vars

-----------------------------------------------------------------------------
(* Properties                                                              *)

(* What requests under way must not do to each other: one ends or renews the *)
(* membership of the user that another is making the primary owner, or one    *)
(* makes a user wait for a decision while another gives him a higher role.    *)
TransfersApart ==
  \A s, t \in Sessions : s # t /\ writes[s].owner # Keep =>
    writes[t].status[writes[s].owner] \in {Keep, "active"}

JoinsApart ==
  \A s, t \in Sessions, u \in Users :
    s # t /\ writes[s].role[u] \in {"editor", "owner"} => writes[t].status[u] # "pending"

(* owner_user_id always names an active member: "Cannot remove the          *)
(* organization owner - transfer ownership first".  True of overlapping      *)
(* requests as long as TransfersApart is; a removal and a transfer that      *)
(* overlap break it.                                                         *)
PrimaryOwnerActive == status[owner] = "active"

(* Whoever waits for a decision waits as a viewer, so an approval never      *)
(* hands out more: a removed owner who asks again does not come back owner.  *)
(* True of overlapping requests as long as JoinsApart is, too.               *)
PendingIsViewer == \A u \in Users : status[u] = "pending" => role[u] = "viewer"
=============================================================================
