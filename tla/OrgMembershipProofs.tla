------------------------- MODULE OrgMembershipProofs -------------------------
(***************************************************************************)
(* Proofs about OrgMembership for any users and admins, and about the        *)
(* streams on top of it for any connections, keys and rows.  All of it holds *)
(* for any number of overlapping requests; the safety of the primary owner   *)
(* and of pending roles as long as certain requests do not overlap.          *)
(***************************************************************************)
EXTENDS LiveStreams, TLAPS

USE OrgAssumption, StreamAssumption DEF OrgAssumption, StreamAssumption

-----------------------------------------------------------------------------

LEMMA NoWritesType == NoWrites \in Writes
  BY DEF NoWrites, Writes, Role, Status

LEMMA WriteType ==
  ASSUME TypeOK, NEW ro \in [Users -> Role], NEW st \in [Users -> Status]
  PROVE  Write(ro, st) \in Writes
  BY DEF TypeOK, Write, Changed, NoWrites, Writes

LEMMA BeginType ==
  ASSUME TypeOK, NEW s \in Sessions, NEW w \in Writes, Begin(s, w)
  PROVE  TypeOK'
  BY DEF TypeOK, Begin

LEMMA UpdatedType ==
  ASSUME TypeOK, NEW u \in Users
  PROVE  /\ \A r \in Role : [role EXCEPT ![u] = r] \in [Users -> Role]
         /\ \A t \in Status : [status EXCEPT ![u] = t] \in [Users -> Status]
  BY DEF TypeOK

LEMMA RequestType ==
  ASSUME TypeOK, NEW s \in Sessions, Request(s)
  PROVE  TypeOK'
<1>. role \in [Users -> Role] /\ status \in [Users -> Status] /\ owner \in Users
  BY DEF TypeOK
<1>1. ASSUME NEW u \in Users, RequestToJoin(s, u) PROVE TypeOK'
  <2>1. Write([role EXCEPT ![u] = "viewer"], [status EXCEPT ![u] = "pending"]) \in Writes
    BY UpdatedType, WriteType DEF Role, Status
  <2>2. [Write([role EXCEPT ![u] = "viewer"], [status EXCEPT ![u] = "pending"])
           EXCEPT !.new = IF status[u] = "none" THEN u ELSE Keep] \in Writes
    BY <2>1 DEF Writes
  <2>. QED BY <1>1, <2>2, BeginType DEF RequestToJoin
<1>2. ASSUME NEW u \in Users, NEW t \in Status, Decide(s, u, t) PROVE TypeOK'
  BY <1>2, UpdatedType, WriteType, BeginType DEF Decide
<1>3. ASSUME NEW a \in Users, NEW u \in Users,
             \/ ApproveMember(s, a, u) \/ RejectMember(s, a, u) \/ RemoveMember(s, a, u)
      PROVE TypeOK'
  BY <1>2, <1>3 DEF ApproveMember, RejectMember, RemoveMember, Status
<1>4. ASSUME NEW a \in Users, NEW u \in Users, NEW new \in Role, UpdateMember(s, a, u, new)
      PROVE TypeOK'
  BY <1>4, UpdatedType, WriteType, BeginType DEF UpdateMember
<1>5. ASSUME NEW a \in Users, NEW u \in Users, TransferOwnership(s, a, u) PROVE TypeOK'
  <2>. DEFINE ro == [role EXCEPT ![owner] = "editor", ![u] = "owner"]
  <2>1. ro \in [Users -> Role]
    BY DEF Role
  <2>2. Write(ro, status) \in Writes
    BY <2>1, WriteType
  <2>3. [Write(ro, status) EXCEPT !.owner = IF u = owner THEN Keep ELSE u] \in Writes
    BY <2>2 DEF Writes
  <2>. QED BY <1>5, <2>3, BeginType DEF TransferOwnership
<1>. QED BY <1>1, <1>3, <1>4, <1>5 DEF Request

LEMMA TypeNext == TypeOK /\ [Next]_vars => TypeOK'
<1>. SUFFICES ASSUME TypeOK, [Next]_vars PROVE TypeOK'
  OBVIOUS
<1>1. ASSUME NEW s \in Sessions, Commit(s) PROVE TypeOK'
  BY <1>1, NoWritesType DEF TypeOK, Writes, Commit, Close, Overwritten
<1>2. ASSUME NEW s \in Sessions, Rollback(s) PROVE TypeOK'
  BY <1>2, NoWritesType DEF TypeOK, Rollback, Close
<1>3. CASE UNCHANGED vars
  BY <1>3 DEF TypeOK, vars
<1>. QED BY <1>1, <1>2, <1>3, RequestType DEF Next

(* No request under way ends the primary owner's membership, and whoever is  *)
(* about to become the primary owner is an active member.                    *)
OwnerInv ==
  /\ PrimaryOwnerActive
  /\ \A s \in Sessions :
       /\ writes[s].status[owner] \in {Keep, "active"}
       /\ writes[s].owner # Keep => /\ status[writes[s].owner] = "active"
                                    /\ writes[s].status[writes[s].owner] = Keep

(* A membership that waits, or is about to wait, has the viewer role, and no *)
(* request under way is about to give it a higher one.                       *)
PendingInv ==
  /\ PendingIsViewer
  /\ \A s \in Sessions, u \in Users :
       /\ writes[s].status[u] = "pending" =>
            writes[s].role[u] = "viewer" \/ (writes[s].role[u] = Keep /\ role[u] = "viewer")
       /\ writes[s].role[u] \in {"editor", "owner"} => status[u] # "pending"

(* A new organization, or one that the migration has made. *)
LEMMA InitGood == Init => TypeOK /\ OwnerInv /\ PendingInv
<1>. SUFFICES ASSUME Init PROVE TypeOK /\ OwnerInv /\ PendingInv
  OBVIOUS
<1>1. /\ role \in [Users -> Role] /\ status \in [Users -> {"none", "active"}]
      /\ status[owner] = "active"
  <2>1. CASE Founded
    BY <2>1 DEF Init, Founded, Role
  <2>2. CASE Backfilled
    BY <2>2 DEF Init, Backfilled, Role
  <2>. QED BY <2>1, <2>2 DEF Init
<1>2. TypeOK
  BY <1>1, NoWritesType DEF Init, TypeOK, Status
<1>3. \A s \in Sessions : writes[s] = NoWrites
  BY DEF Init
<1>4. OwnerInv
  BY <1>1, <1>2, <1>3 DEF OwnerInv, PrimaryOwnerActive, NoWrites, TypeOK
<1>5. PendingInv
  BY <1>1, <1>3 DEF PendingInv, PendingIsViewer, NoWrites, Role, Status
<1>. QED BY <1>2, <1>4, <1>5

(* The type invariant, for any users and any number of open requests.       *)
THEOREM TypeCorrect == Spec => []TypeOK
BY InitGood, TypeNext, PTL DEF Spec

-----------------------------------------------------------------------------
(* Overlapping requests                                                    *)

(* What a request may decide to write, seen from its snapshot. *)
Sound(w) ==
  /\ w.owner # Keep => status[w.owner] = "active" /\ w.status[w.owner] = Keep
  /\ \A u \in Users :
       /\ w.status[u] \notin {Keep, "active"} => u # owner \/ status[u] # "active"
       /\ w.status[u] = "pending" =>
            w.role[u] = "viewer" \/ (w.role[u] = Keep /\ role[u] = "viewer")
       /\ w.role[u] \in {"editor", "owner"} => u = owner \/ status[u] = "active"

(* The columns of a Write: those that differ from the snapshot. *)
LEMMA WriteColumns ==
  ASSUME TypeOK, NEW ro \in [Users -> Role], NEW st \in [Users -> Status]
  PROVE  /\ Write(ro, st) \in Writes
         /\ Write(ro, st).owner = Keep
         /\ \A u \in Users :
              /\ Write(ro, st).role[u] = IF ro[u] = role[u] THEN Keep ELSE ro[u]
              /\ Write(ro, st).status[u] = IF st[u] = status[u] THEN Keep ELSE st[u]
<1>1. Write(ro, st) \in Writes
  BY WriteType
<1>2. /\ Write(ro, st).role = Changed(ro, role)
      /\ Write(ro, st).status = Changed(st, status)
      /\ Write(ro, st).owner = Keep
  BY DEF Write, NoWrites
<1>. QED BY <1>1, <1>2 DEF Changed

LEMMA RequestSound ==
  ASSUME TypeOK, NEW s \in Sessions, Request(s)
  PROVE  \E w \in Writes : Begin(s, w) /\ Sound(w)
<1>. role \in [Users -> Role] /\ status \in [Users -> Status] /\ owner \in Users
  BY DEF TypeOK
<1>. Keep \notin Role \cup Status \cup Users
  OBVIOUS
<1>1. ASSUME NEW u \in Users, RequestToJoin(s, u)
      PROVE  \E w \in Writes : Begin(s, w) /\ Sound(w)
  <2>. DEFINE ro == [role EXCEPT ![u] = "viewer"]
              st == [status EXCEPT ![u] = "pending"]
              w == [Write(ro, st) EXCEPT !.new = IF status[u] = "none" THEN u ELSE Keep]
  <2>1. ro \in [Users -> Role] /\ st \in [Users -> Status]
    BY UpdatedType DEF Role, Status
  <2>2. /\ ro[u] = "viewer" /\ st[u] = "pending" /\ status[u] # "active"
        /\ \A v \in Users \ {u} : ro[v] = role[v] /\ st[v] = status[v]
    BY <1>1 DEF RequestToJoin
  <2>3. Begin(s, w)
    BY <1>1 DEF RequestToJoin
  <2>. HIDE DEF ro, st
  <2>4. Write(ro, st) \in Writes
    BY <2>1, WriteColumns
  <2>5. /\ w \in Writes /\ w.role = Write(ro, st).role /\ w.status = Write(ro, st).status
        /\ w.owner = Write(ro, st).owner
    BY <2>4 DEF Writes
  <2>6. /\ w.owner = Keep
        /\ \A v \in Users : /\ w.role[v] = IF ro[v] = role[v] THEN Keep ELSE ro[v]
                            /\ w.status[v] = IF st[v] = status[v] THEN Keep ELSE st[v]
    BY <2>1, <2>5, WriteColumns
  <2>. HIDE DEF w
  <2>7. /\ w.role[u] = "viewer" \/ (w.role[u] = Keep /\ role[u] = "viewer")
        /\ w.status[u] \in {Keep, "pending"}
        /\ \A v \in Users \ {u} : w.role[v] = Keep /\ w.status[v] = Keep
    BY <2>2, <2>6
  <2>8. Sound(w)
    BY <2>2, <2>6, <2>7 DEF Sound, Role, Status
  <2>. QED BY <2>3, <2>5, <2>8
<1>2. ASSUME NEW u \in Users, NEW t \in Status, Decide(s, u, t), t # "pending",
             t = "active" \/ u # owner \/ status[u] # "active"
      PROVE  \E w \in Writes : Begin(s, w) /\ Sound(w)
  <2>. DEFINE st == [status EXCEPT ![u] = t]
              w == Write(role, st)
  <2>1. st \in [Users -> Status]
    BY UpdatedType
  <2>2. st[u] = t /\ \A v \in Users \ {u} : st[v] = status[v]
    OBVIOUS
  <2>3. Begin(s, w)
    BY <1>2 DEF Decide
  <2>. HIDE DEF st
  <2>4. /\ w \in Writes /\ w.owner = Keep
        /\ \A v \in Users : /\ w.role[v] = Keep
                            /\ w.status[v] = IF st[v] = status[v] THEN Keep ELSE st[v]
    BY <2>1, WriteColumns
  <2>. HIDE DEF w
  <2>5. /\ w.status[u] \in {Keep, t} /\ \A v \in Users : w.role[v] = Keep
        /\ \A v \in Users \ {u} : w.status[v] = Keep
    BY <2>2, <2>4
  <2>6. Sound(w)
    BY <1>2, <2>4, <2>5 DEF Sound, Role, Status
  <2>. QED BY <2>3, <2>4, <2>6
<1>3. ASSUME NEW a \in Users, NEW u \in Users,
             \/ ApproveMember(s, a, u) \/ RejectMember(s, a, u) \/ RemoveMember(s, a, u)
      PROVE  \E w \in Writes : Begin(s, w) /\ Sound(w)
  BY <1>2, <1>3 DEF ApproveMember, RejectMember, RemoveMember, Status
<1>4. ASSUME NEW u \in Users, NEW v \in Users, NEW ro \in [Users -> Role], NEW w \in Writes,
             \A x \in Users \ {u, v} : ro[x] = role[x],
             status[u] = "active", v \in {u, owner},
             w.role = Write(ro, status).role, w.status = Write(ro, status).status,
             w.owner \in {Keep, u}, Begin(s, w)
      PROVE  \E x \in Writes : Begin(s, x) /\ Sound(x)
  <2>1. \A x \in Users : /\ w.role[x] = IF ro[x] = role[x] THEN Keep ELSE ro[x]
                         /\ w.status[x] = Keep
    <3>1. \A x \in Users :
            /\ Write(ro, status).role[x] = IF ro[x] = role[x] THEN Keep ELSE ro[x]
            /\ Write(ro, status).status[x] = Keep
      BY WriteColumns
    <3>. QED BY <1>4, <3>1
  <2>2. Sound(w)
    BY <1>4, <2>1 DEF Sound, Role, Status
  <2>. QED BY <1>4, <2>2
<1>5. ASSUME NEW a \in Users, NEW u \in Users, NEW new \in Role, UpdateMember(s, a, u, new)
      PROVE  \E w \in Writes : Begin(s, w) /\ Sound(w)
  <2>. DEFINE ro == [role EXCEPT ![u] = new]
  <2>1. ro \in [Users -> Role] /\ \A x \in Users \ {u} : ro[x] = role[x]
    BY UpdatedType
  <2>2. Begin(s, Write(ro, status)) /\ status[u] = "active"
    BY <1>5 DEF UpdateMember
  <2>. HIDE DEF ro
  <2>3. Write(ro, status) \in Writes /\ Write(ro, status).owner = Keep
    BY <2>1, WriteColumns
  <2>. QED BY <1>4, <2>1, <2>2, <2>3
<1>6. ASSUME NEW a \in Users, NEW u \in Users, TransferOwnership(s, a, u)
      PROVE  \E w \in Writes : Begin(s, w) /\ Sound(w)
  <2>. DEFINE ro == [role EXCEPT ![owner] = "editor", ![u] = "owner"]
              w == [Write(ro, status) EXCEPT !.owner = IF u = owner THEN Keep ELSE u]
  <2>1. ro \in [Users -> Role] /\ \A x \in Users \ {u, owner} : ro[x] = role[x]
    BY DEF Role
  <2>2. Begin(s, w) /\ status[u] = "active"
    BY <1>6 DEF TransferOwnership
  <2>. HIDE DEF ro
  <2>3. Write(ro, status) \in Writes
    BY <2>1, WriteColumns
  <2>4. /\ w \in Writes /\ w.role = Write(ro, status).role
        /\ w.status = Write(ro, status).status /\ w.owner \in {Keep, u}
    BY <2>3 DEF Writes
  <2>. HIDE DEF w
  <2>. QED BY <1>4, <2>1, <2>2, <2>4
<1>. QED BY <1>1, <1>3, <1>5, <1>6 DEF Request

(* Requests that only begin, or end without a commit, keep both. *)
LEMMA UncommittedKeeps ==
  ASSUME TypeOK, OwnerInv, NEW s \in Sessions, Request(s) \/ Rollback(s)
  PROVE  OwnerInv' /\ (PendingInv => PendingInv')
<1>1. \E w \in Writes : /\ UNCHANGED <<role, status, owner>>
                        /\ writes' = [writes EXCEPT ![s] = w] /\ Sound(w)
  <2>1. CASE Request(s)
    BY <2>1, RequestSound DEF Begin
  <2>2. CASE Rollback(s)
    <3>1. Sound(NoWrites)
      BY DEF Sound, NoWrites, Role, Status
    <3>. QED BY <2>2, <3>1, NoWritesType DEF Rollback, Close
  <2>. QED BY <2>1, <2>2
<1>2. PICK w \in Writes : /\ UNCHANGED <<role, status, owner>>
                          /\ writes' = [writes EXCEPT ![s] = w] /\ Sound(w)
  BY <1>1
<1>3. writes'[s] = w /\ \A t \in Sessions \ {s} : writes'[t] = writes[t]
  BY <1>2 DEF TypeOK
<1>4. owner \in Users /\ status[owner] = "active"
  BY DEF TypeOK, OwnerInv, PrimaryOwnerActive
<1>5. OwnerInv'
  BY <1>2, <1>3, <1>4 DEF OwnerInv, PrimaryOwnerActive, Sound
<1>6. ASSUME PendingInv PROVE PendingInv'
  BY <1>2, <1>3, <1>4, <1>6 DEF PendingInv, PendingIsViewer, Sound
<1>. QED BY <1>5, <1>6

(* What a commit leaves behind. *)
LEMMA CommitColumns ==
  ASSUME TypeOK, NEW s \in Sessions, Commit(s)
  PROVE  /\ \A u \in Users :
              /\ role'[u] = IF writes[s].role[u] = Keep THEN role[u] ELSE writes[s].role[u]
              /\ status'[u] = IF writes[s].status[u] = Keep THEN status[u]
                              ELSE writes[s].status[u]
         /\ owner' = IF writes[s].owner = Keep THEN owner ELSE writes[s].owner
         /\ owner \in Users /\ owner' \in Users
         /\ writes'[s] = NoWrites /\ \A t \in Sessions \ {s} : writes'[t] = writes[t]
<1>1. writes[s] \in Writes /\ owner \in Users
  BY DEF TypeOK
<1>. QED BY <1>1 DEF TypeOK, Commit, Close, Overwritten, Writes

LEMMA CommitOwner ==
  ASSUME TypeOK, OwnerInv, TransfersApart, NEW s \in Sessions, Commit(s)
  PROVE  OwnerInv'
<1>1. status'[owner'] = "active"
  BY CommitColumns DEF OwnerInv, PrimaryOwnerActive
<1>2. ASSUME NEW t \in Sessions
      PROVE  writes'[t].status[owner'] \in {Keep, "active"}
  <2>1. CASE t = s
    BY <2>1, CommitColumns DEF NoWrites
  <2>2. CASE t # s
    BY <2>2, CommitColumns DEF OwnerInv, TransfersApart
  <2>. QED BY <2>1, <2>2
<1>3. ASSUME NEW t \in Sessions, writes'[t].owner # Keep
      PROVE  /\ status'[writes'[t].owner] = "active"
             /\ writes'[t].status[writes'[t].owner] = Keep
  <2>1. t # s /\ writes'[t] = writes[t]
    BY <1>3, CommitColumns DEF NoWrites
  <2>2. writes[t].owner \in Users
    BY <1>3, <2>1 DEF TypeOK, Writes
  <2>3. writes[s].status[writes[t].owner] \in {Keep, "active"}
    BY <1>3, <2>1 DEF TransfersApart
  <2>. QED BY <1>3, <2>1, <2>2, <2>3, CommitColumns DEF OwnerInv
<1>. QED BY <1>1, <1>2, <1>3 DEF OwnerInv, PrimaryOwnerActive

LEMMA CommitPending ==
  ASSUME TypeOK, PendingInv, JoinsApart, NEW s \in Sessions, Commit(s)
  PROVE  PendingInv'
<1>. \A t \in Sessions, u \in Users :
       writes[t].role[u] \in Role \cup {Keep} /\ role[u] \in Role
  BY DEF TypeOK, Writes
<1>1. PendingIsViewer'
  BY CommitColumns DEF PendingInv, PendingIsViewer, Role
<1>2. ASSUME NEW t \in Sessions, NEW u \in Users, writes'[t].status[u] = "pending"
      PROVE  writes'[t].role[u] = "viewer"
               \/ (writes'[t].role[u] = Keep /\ role'[u] = "viewer")
  <2>1. t # s /\ writes'[t] = writes[t]
    BY <1>2, CommitColumns DEF NoWrites, Status
  <2>2. writes[s].role[u] \notin {"editor", "owner"}
    BY <1>2, <2>1 DEF JoinsApart
  <2>. QED BY <1>2, <2>1, <2>2, CommitColumns DEF PendingInv, Role
<1>3. ASSUME NEW t \in Sessions, NEW u \in Users, writes'[t].role[u] \in {"editor", "owner"}
      PROVE  status'[u] # "pending"
  <2>1. t # s /\ writes'[t] = writes[t]
    BY <1>3, CommitColumns DEF NoWrites, Role
  <2>. QED BY <1>3, <2>1, CommitColumns DEF PendingInv, JoinsApart
<1>. QED BY <1>1, <1>2, <1>3 DEF PendingInv

LEMMA OwnerNext ==
  ASSUME TypeOK, OwnerInv, TransfersApart, [Next]_vars
  PROVE  OwnerInv'
<1>1. CASE UNCHANGED vars
  BY <1>1 DEF vars, OwnerInv, PrimaryOwnerActive
<1>. QED BY <1>1, UncommittedKeeps, CommitOwner DEF Next

LEMMA PendingNext ==
  ASSUME TypeOK, OwnerInv, PendingInv, JoinsApart, [Next]_vars
  PROVE  PendingInv'
<1>1. CASE UNCHANGED vars
  BY <1>1 DEF vars, PendingInv, PendingIsViewer
<1>. QED BY <1>1, UncommittedKeeps, CommitPending DEF Next

(* However many requests overlap, the organization keeps an active primary   *)
(* owner, as long as no transfer overlaps a request that ends the membership *)
(* of its target.                                                            *)
THEOREM OwnerStaysActive == Spec /\ []TransfersApart => []PrimaryOwnerActive
<1>1. TypeOK /\ OwnerInv /\ TransfersApart /\ [Next]_vars => (TypeOK /\ OwnerInv)'
  BY TypeNext, OwnerNext
<1>2. OwnerInv => PrimaryOwnerActive
  BY DEF OwnerInv
<1>. QED BY InitGood, <1>1, <1>2, PTL DEF Spec

(* And every pending membership carries the viewer role, as long as no       *)
(* request to join overlaps one that gives the same user a higher role.      *)
THEOREM PendingAsViewer ==
  Spec /\ []TransfersApart /\ []JoinsApart => []PendingIsViewer
<1>1. TypeOK /\ OwnerInv /\ PendingInv /\ TransfersApart /\ JoinsApart /\ [Next]_vars
      => (TypeOK /\ OwnerInv /\ PendingInv)'
  BY TypeNext, OwnerNext, PendingNext
<1>2. PendingInv => PendingIsViewer
  BY DEF PendingInv
<1>. QED BY InitGood, <1>1, <1>2, PTL DEF Spec

(* Requests that run one at a time satisfy both conditions.                  *)
THEOREM SerialRequestsAreSafe ==
  ASSUME \A s, t \in Sessions : s = t
  PROVE  Spec => [](PrimaryOwnerActive /\ PendingIsViewer)
<1>1. TransfersApart /\ JoinsApart
  BY DEF TransfersApart, JoinsApart
<1>. QED BY <1>1, OwnerStaysActive, PendingAsViewer, PTL

-----------------------------------------------------------------------------
(* The streams *)

(* What a stream owes its holder, and has sent so far. *)
Served(c) ==
  /\ conn[c].who \in Principals
  /\ conn[c].view \subseteq due[conn[c].who]
  /\ conn[c].start <= conn[c].cursor
  /\ conn[c].sent =
       {r \in conn[c].view : conn[c].start < r /\ r <= conn[c].cursor}

StreamInv ==
  /\ \A p \in Principals : due[p] \subseteq rows /\ (Access(p) => due[p] = rows)
  /\ \A c \in Conns : /\ conn[c].at = "checked" => conn[c].who \in Principals
                      /\ conn[c].at = "open" => Served(c)

(* A step of the streams moves no membership, and one of the members no stream. *)
LEMMA StreamStepsSplit ==
  ASSUME [StreamNext]_<<vars, streams, due>>
  PROVE  /\ [Next]_vars
         /\ UNCHANGED streams \/ (StreamStep /\ UNCHANGED vars)
         /\ \/ UNCHANGED <<vars, streams, due>>
            \/ due' = [p \in Principals |-> IF Access(p)' THEN rows' ELSE due[p]]
  BY DEF StreamNext, streams, vars

LEMMA ConnType ==
  ASSUME StreamTypeOK, NEW c \in Conns
  PROVE  /\ conn[c].at \in {"closed", "checked", "open"}
         /\ conn[c].who \in Principals \cup {Nobody}
         /\ conn[c].view \subseteq Rows /\ conn[c].sent \subseteq Rows
         /\ conn[c].start \in Nat /\ conn[c].cursor \in Nat
  BY DEF StreamTypeOK, Conn, Rows

LEMMA ClosedType == Closed \in Conn
  BY DEF Closed, Conn

LEMMA OpensType ==
  ASSUME StreamTypeOK, NEW c \in Conns, NEW p \in Principals,
         NEW kind \in {"alerts", "traffic"}, Opens(c, p, kind)
  PROVE  /\ conn' \in [Conns -> Conn] /\ UNCHANGED <<table, tickets, key>>
         /\ \A d \in Conns \ {c} : conn'[d] = conn[d]
         /\ conn'[c].at = "open" /\ conn'[c].who = p /\ conn'[c].view = rows
         /\ conn'[c].sent = {} /\ conn'[c].start = conn'[c].cursor
<1>1. PICK start \in {0} \cup Rows :
        conn' = [conn EXCEPT ![c] = [at |-> "open", kind |-> kind, who |-> p,
                   view |-> rows, start |-> start, cursor |-> start, sent |-> {}]]
  BY DEF Opens
<1>. DEFINE o == [at |-> "open", kind |-> kind, who |-> p,
                  view |-> rows, start |-> start, cursor |-> start, sent |-> {}]
<1>2. o \in Conn
  BY DEF StreamTypeOK, Conn
<1>3. /\ o.at = "open" /\ o.who = p /\ o.view = rows
      /\ o.sent = {} /\ o.start = o.cursor
  OBVIOUS
<1>. HIDE DEF o
<1>4. conn' = [conn EXCEPT ![c] = o] /\ conn \in [Conns -> Conn]
  BY <1>1 DEF o, StreamTypeOK
<1>5. conn' \in [Conns -> Conn] /\ conn'[c] = o /\ \A d \in Conns \ {c} : conn'[d] = conn[d]
  BY <1>2, <1>4
<1>. QED BY <1>3, <1>5 DEF Opens

LEMMA PollType ==
  ASSUME StreamTypeOK, NEW c \in Conns, Poll(c)
  PROVE  /\ conn' \in [Conns -> Conn] /\ UNCHANGED <<table, tickets, key>>
         /\ \A d \in Conns \ {c} : conn'[d] = conn[d]
         /\ conn[c].at = "open" /\ conn'[c].at = "open" /\ conn'[c].who = conn[c].who
         /\ conn'[c].view = conn[c].view /\ conn'[c].start = conn[c].start
         /\ \E page \in SUBSET conn[c].view, r \in Rows :
              /\ r \in page /\ conn'[c].cursor = r /\ conn'[c].sent = conn[c].sent \cup page
              /\ \A x \in page : conn[c].cursor < x /\ x <= r
              /\ \A y \in conn[c].view \ page : conn[c].cursor < y => r < y
<1>. DEFINE o == conn[c]
            next == {x \in o.view : x > o.cursor}
<1>0. o.view \subseteq Rows /\ o.cursor \in Nat
  BY ConnType
<1>a. Rows \subseteq Nat
  BY DEF Rows
<1>1. /\ o \in Conn /\ o.view \subseteq Rows /\ Rows \subseteq Nat /\ o.cursor \in Nat
      /\ conn \in [Conns -> Conn]
  BY <1>0, <1>a DEF StreamTypeOK
<1>2. PICK page \in SUBSET next, r \in next :
        /\ r \in page
        /\ \A x \in page, y \in next \ page : x < y
        /\ \A x \in page : x <= r
        /\ conn' = [conn EXCEPT ![c].cursor = r, ![c].sent = @ \cup page]
  BY DEF Poll, Visible, Cursor
<1>. DEFINE n == [o EXCEPT !.cursor = r, !.sent = o.sent \cup page]
<1>3. r \in Rows /\ page \subseteq Rows /\ page \subseteq o.view
  BY <1>1, <1>2
<1>4. conn' = [conn EXCEPT ![c] = n]
  BY <1>1, <1>2
<1>5. /\ n \in Conn /\ n.at = o.at /\ n.who = o.who /\ n.view = o.view
      /\ n.start = o.start /\ n.cursor = r /\ n.sent = o.sent \cup page
  BY <1>1, <1>3 DEF Conn
<1>. HIDE DEF n
<1>6. conn' \in [Conns -> Conn] /\ conn'[c] = n /\ \A d \in Conns \ {c} : conn'[d] = conn[d]
  BY <1>1, <1>4, <1>5
<1>7. \A x \in page : o.cursor < x /\ x <= r
  BY <1>1, <1>2
<1>8. \A y \in o.view \ page : o.cursor < y => r < y
  BY <1>1, <1>2
<1>9. o.at = "open" /\ UNCHANGED <<table, tickets, key>>
  BY DEF Poll
<1>10. /\ \A d \in Conns \ {c} : conn'[d] = conn[d]
       /\ conn'[c].at = "open" /\ conn'[c].who = conn[c].who
       /\ conn'[c].view = conn[c].view /\ conn'[c].start = conn[c].start
       /\ conn'[c].cursor = r /\ conn'[c].sent = conn[c].sent \cup page
  BY <1>5, <1>6, <1>9
<1>. HIDE DEF next
<1>11. \E p \in SUBSET conn[c].view, x \in Rows :
         /\ x \in p /\ conn'[c].cursor = x /\ conn'[c].sent = conn[c].sent \cup p
         /\ \A y \in p : conn[c].cursor < y /\ y <= x
         /\ \A y \in conn[c].view \ p : conn[c].cursor < y => x < y
  BY <1>2, <1>3, <1>7, <1>8, <1>10
<1>. QED BY <1>6, <1>9, <1>10, <1>11

LEMMA CheckType ==
  ASSUME StreamTypeOK, NEW c \in Conns, NEW k \in Keys,
         NEW kind \in {"alerts", "traffic"}, CheckKey(c, k, kind)
  PROVE  /\ conn' \in [Conns -> Conn] /\ UNCHANGED <<table, tickets, key>>
         /\ \A d \in Conns \ {c} : conn'[d] = conn[d]
         /\ conn'[c].at = "checked" /\ conn'[c].who = k
<1>. DEFINE n == [Closed EXCEPT !.at = "checked", !.kind = kind, !.who = k]
<1>1. n \in Conn /\ n.at = "checked" /\ n.who = k
  BY DEF Closed, Conn, Principals
<1>2. conn' = [conn EXCEPT ![c] = n] /\ conn \in [Conns -> Conn]
  BY DEF CheckKey, StreamTypeOK
<1>. HIDE DEF n
<1>3. conn' \in [Conns -> Conn] /\ conn'[c] = n /\ \A d \in Conns \ {c} : conn'[d] = conn[d]
  BY <1>1, <1>2
<1>. QED BY <1>1, <1>3 DEF CheckKey

LEMMA DisconnectType ==
  ASSUME StreamTypeOK, NEW c \in Conns, Disconnect(c)
  PROVE  /\ conn' \in [Conns -> Conn] /\ UNCHANGED <<table, tickets, key>>
         /\ \A d \in Conns \ {c} : conn'[d] = conn[d]
         /\ conn'[c].at = "closed"
<1>1. conn' = [conn EXCEPT ![c] = Closed] /\ conn \in [Conns -> Conn]
  BY DEF Disconnect, StreamTypeOK
<1>2. conn'[c] = Closed /\ \A d \in Conns \ {c} : conn'[d] = conn[d]
  BY <1>1
<1>. QED BY <1>1, <1>2, ClosedType DEF Disconnect, Closed

LEMMA ServeType ==
  ASSUME StreamTypeOK, StreamInv, NEW c \in Conns, Serve(c)
  PROVE  conn' \in [Conns -> Conn] /\ UNCHANGED <<table, tickets, key>>
<1>1. ASSUME NEW u \in Watchers, NEW kind \in {"alerts", "traffic"}, Connect(c, u, kind)
      PROVE  conn' \in [Conns -> Conn] /\ UNCHANGED <<table, tickets, key>>
  BY <1>1, OpensType DEF Connect, Principals
<1>2. ASSUME Begun(c) PROVE conn' \in [Conns -> Conn] /\ UNCHANGED <<table, tickets, key>>
  <2>1. conn[c].who \in Principals /\ conn[c].kind \in {"alerts", "traffic"}
    BY <1>2 DEF Begun, StreamInv, StreamTypeOK, Conn
  <2>. QED BY <1>2, <2>1, OpensType DEF Begun
<1>. QED BY <1>1, <1>2, CheckType, PollType, DisconnectType DEF Serve

(* The table, the tickets and the keys; none but Serve touches a connection. *)
LEMMA TableType ==
  ASSUME StreamTypeOK, StreamStep, UNCHANGED vars
  PROVE  /\ rows' \subseteq Rows /\ rows \subseteq rows' /\ drawn' \subseteq Rows
         /\ last' \in {0} \cup Rows /\ tickets' \subseteq Watchers
         /\ key' \in [Keys -> {"new", "valid", "revoked"}]
         /\ conn' = conn \/ \E c \in Conns : Serve(c)
         /\ conn' \in [Conns -> Conn] \/ \E c \in Conns : Serve(c)
<1>1. CASE Flush
  <2>1. last + 1 \in Rows
    BY <1>1 DEF Flush, StreamTypeOK, Rows
  <2>. QED BY <1>1, <2>1 DEF Flush, StreamTypeOK
<1>2. CASE \E r \in Rows : CommitRow(r) \/ AbandonRow(r)
  BY <1>2 DEF CommitRow, AbandonRow, StreamTypeOK
<1>3. CASE \E u \in Watchers : MintTicket(u) \/ TicketExpires(u)
  BY <1>3 DEF MintTicket, TicketExpires, StreamTypeOK, table
<1>4. CASE \E k \in Keys : CreateKey(k) \/ RevokeKey(k)
  BY <1>4 DEF CreateKey, RevokeKey, StreamTypeOK, table
<1>5. CASE \E c \in Conns : Serve(c)
  <2>1. UNCHANGED <<table, tickets, key>>
    BY <1>5 DEF Serve, Connect, Begun, Opens, CheckKey, Poll, Disconnect
  <2>. QED BY <1>5, <2>1 DEF StreamTypeOK, table
<1>. QED BY <1>1, <1>2, <1>3, <1>4, <1>5 DEF StreamStep

LEMMA StreamTypeNext ==
  ASSUME StreamTypeOK, StreamInv, [StreamNext]_<<vars, streams, due>>
  PROVE  /\ StreamTypeOK' /\ rows \subseteq rows'
         /\ \A p \in Principals :
              /\ due[p] \subseteq due'[p] /\ due'[p] \subseteq rows'
              /\ Access(p)' => due'[p] = rows'
<1>1. TypeOK'
  BY StreamStepsSplit, TypeNext DEF StreamTypeOK
<1>2. /\ rows' \subseteq Rows /\ rows \subseteq rows' /\ drawn' \subseteq Rows
      /\ last' \in {0} \cup Rows /\ tickets' \subseteq Watchers
      /\ key' \in [Keys -> {"new", "valid", "revoked"}] /\ conn' \in [Conns -> Conn]
  <2>1. CASE UNCHANGED streams
    BY <2>1 DEF StreamTypeOK, streams, table
  <2>2. CASE StreamStep /\ UNCHANGED vars
    BY <2>2, TableType, ServeType
  <2>. QED BY <2>1, <2>2, StreamStepsSplit
<1>3. \A p \in Principals : due[p] \subseteq rows
  BY DEF StreamInv
<1>4. CASE due' = [p \in Principals |-> IF Access(p)' THEN rows' ELSE due[p]]
  <2>1. \A p \in Principals : due'[p] = IF Access(p)' THEN rows' ELSE due[p]
    BY <1>4
  <2>2. due' \in [Principals -> SUBSET Rows]
    BY <1>2, <1>3, <1>4
  <2>. QED BY <1>1, <1>2, <1>3, <2>1, <2>2 DEF StreamTypeOK
<1>5. CASE UNCHANGED <<vars, streams, due>>
  BY <1>1, <1>2, <1>5 DEF StreamTypeOK, StreamInv, Access, InOrg, vars, streams, table
<1>. QED BY <1>4, <1>5, StreamStepsSplit

LEMMA StreamInvNext ==
  ASSUME StreamTypeOK, StreamInv, [StreamNext]_<<vars, streams, due>>
  PROVE  StreamInv'
<1>. DEFINE Fit(d) == /\ conn[d].at = "checked" => conn[d].who \in Principals
                      /\ conn[d].at = "open" => Served(d)
<1>1. /\ \A p \in Principals : /\ due[p] \subseteq due'[p] /\ due'[p] \subseteq rows'
                               /\ Access(p)' => due'[p] = rows'
      /\ \A d \in Conns : Fit(d)
  BY StreamTypeNext DEF StreamInv
<1>2. ASSUME NEW d \in Conns, conn'[d] = conn[d] PROVE Fit(d)'
  BY <1>1, <1>2 DEF Served
<1>3. ASSUME NEW c \in Conns, Serve(c), NEW d \in Conns PROVE Fit(d)'
  <2>1. ASSUME NEW p \in Principals, NEW kind \in {"alerts", "traffic"},
               Opens(c, p, kind), due[p] = rows
        PROVE  Fit(d)'
    <3>1. CASE d # c
      BY <1>2, <2>1, <3>1, OpensType
    <3>2. CASE d = c
      <4>1. /\ conn'[c].at = "open" /\ conn'[c].who = p /\ conn'[c].view = rows
            /\ conn'[c].sent = {} /\ conn'[c].start = conn'[c].cursor
            /\ conn' \in [Conns -> Conn]
        BY <2>1, OpensType
      <4>2. conn'[c].start \in Nat /\ \A r \in rows : r \in Nat
        BY <4>1 DEF Conn, Rows, StreamTypeOK
      <4>3. \A r \in rows : ~(conn'[c].start < r /\ r <= conn'[c].cursor)
        BY <4>1, <4>2
      <4>. QED BY <1>1, <2>1, <3>2, <4>1, <4>2, <4>3 DEF Served
    <3>. QED BY <3>1, <3>2
  <2>2. ASSUME NEW u \in Watchers, NEW kind \in {"alerts", "traffic"}, Connect(c, u, kind)
        PROVE  Fit(d)'
    <3>1. Access(u) /\ u \in Principals
      BY <2>2 DEF Connect, TicketOpens, Access, Principals
    <3>. QED BY <2>1, <2>2, <3>1 DEF Connect, StreamInv
  <2>3. ASSUME Begun(c) PROVE Fit(d)'
    <3>1. conn[c].who \in Principals /\ conn[c].kind \in {"alerts", "traffic"}
      BY <2>3 DEF Begun, StreamInv, StreamTypeOK, Conn
    <3>2. Access(conn[c].who)
      BY <2>3 DEF Begun, Access
    <3>. QED BY <2>1, <2>3, <3>1, <3>2 DEF Begun, StreamInv
  <2>4. ASSUME NEW k \in Keys, NEW kind \in {"alerts", "traffic"}, CheckKey(c, k, kind)
        PROVE  Fit(d)'
    <3>1. CASE d # c
      BY <1>2, <2>4, <3>1, CheckType
    <3>2. CASE d = c
      BY <2>4, <3>2, CheckType DEF Principals
    <3>. QED BY <3>1, <3>2
  <2>5. ASSUME Poll(c) PROVE Fit(d)'
    <3>1. CASE d # c
      BY <1>2, <2>5, <3>1, PollType
    <3>2. CASE d = c
      <4>. DEFINE o == conn[c]
      <4>1. PICK page \in SUBSET o.view, r \in Rows :
              /\ r \in page /\ conn'[c].cursor = r /\ conn'[c].sent = o.sent \cup page
              /\ \A x \in page : o.cursor < x /\ x <= r
              /\ \A y \in o.view \ page : o.cursor < y => r < y
        BY <2>5, PollType
      <4>2. /\ o.at = "open" /\ conn'[c].at = "open" /\ conn'[c].who = o.who
            /\ conn'[c].view = o.view /\ conn'[c].start = o.start
        BY <2>5, PollType
      <4>3. Served(c)
        BY <1>1, <4>2
      <4>4. /\ o.view \subseteq Nat /\ o.start \in Nat /\ o.cursor \in Nat /\ r \in Nat
        BY ConnType DEF Rows
      <4>5. o.start <= o.cursor
        BY <4>3 DEF Served
      <4>6. o.sent \cup page = {x \in o.view : o.start < x /\ x <= r}
        <5>1. o.sent = {x \in o.view : o.start < x /\ x <= o.cursor}
          BY <4>3 DEF Served
        <5>2. ASSUME NEW x \in o.view
              PROVE  x \in o.sent \cup page <=> o.start < x /\ x <= r
          <6>. x \in Nat /\ o.start \in Nat /\ o.cursor \in Nat /\ r \in Nat /\ o.cursor < r
            BY <4>1, <4>4
          <6>1. CASE x \in page
            BY <4>1, <4>5, <6>1
          <6>2. CASE x \notin page /\ x <= o.cursor
            BY <5>1, <6>2
          <6>3. CASE x \notin page /\ o.cursor < x
            BY <4>1, <5>1, <6>3
          <6>. QED BY <6>1, <6>2, <6>3
        <5>3. o.sent \cup page \subseteq o.view
          BY <4>1, <5>1
        <5>. QED BY <5>2, <5>3
      <4>7. o.start <= r
        BY <4>1, <4>4, <4>5
      <4>. QED BY <1>1, <3>2, <4>1, <4>2, <4>3, <4>6, <4>7 DEF Served
    <3>. QED BY <3>1, <3>2
  <2>6. ASSUME Disconnect(c) PROVE Fit(d)'
    <3>1. CASE d # c
      BY <1>2, <2>6, <3>1, DisconnectType
    <3>2. CASE d = c
      BY <2>6, <3>2, DisconnectType
    <3>. QED BY <3>1, <3>2
  <2>. QED BY <1>3, <2>2, <2>3, <2>4, <2>5, <2>6 DEF Serve
<1>4. \A d \in Conns : Fit(d)'
  <2>1. CASE conn' = conn
    BY <1>2, <2>1
  <2>2. CASE \E c \in Conns : Serve(c)
    BY <1>3, <2>2
  <2>. QED BY <2>1, <2>2, StreamStepsSplit, TableType DEF streams
<1>. QED BY <1>1, <1>4 DEF StreamInv

LEMMA StreamsAlways == StreamSpec => [](StreamTypeOK /\ StreamInv)
<1>1. StreamInit => StreamTypeOK /\ StreamInv
  <2>. SUFFICES ASSUME StreamInit PROVE StreamTypeOK /\ StreamInv
    OBVIOUS
  <2>1. TypeOK
    BY InitGood DEF StreamInit
  <2>2. \A c \in Conns : conn[c] = Closed
    BY DEF StreamInit
  <2>3. Closed.at = "closed"
    BY DEF Closed
  <2>. QED BY <2>1, <2>2, <2>3, ClosedType DEF StreamInit, StreamTypeOK, StreamInv
<1>2. StreamTypeOK /\ StreamInv /\ [StreamNext]_<<vars, streams, due>>
        => (StreamTypeOK /\ StreamInv)'
  BY StreamTypeNext, StreamInvNext
<1>. QED BY <1>1, <1>2, PTL DEF StreamSpec

(* Types, for any number of streams, keys and overlapping requests. *)
THEOREM StreamTypeCorrect == StreamSpec => []StreamTypeOK
BY StreamsAlways, PTL

(* The streams only read memberships: all that holds of OrgMembership holds   *)
(* beside them, too.                                                         *)
THEOREM StreamsKeepMembers == StreamSpec => Spec
<1>1. StreamInit => Init
  BY DEF StreamInit
<1>2. [StreamNext]_<<vars, streams, due>> => [Next]_vars
  BY StreamStepsSplit
<1>. QED BY <1>1, <1>2, PTL DEF StreamSpec, Spec

(* get_stream_org_context and the session of a stream: what is sent was       *)
(* committed while the holder still had access.                              *)
THEOREM MembersOnly == StreamSpec => []OnlyWhileMember
<1>1. StreamInv => OnlyWhileMember
  BY DEF StreamInv, Served, OnlyWhileMember
<1>. QED BY StreamsAlways, <1>1, PTL

(* The cursor: what lies before it has been sent, in whatever order the ids   *)
(* became visible and however the polls were paged.                          *)
THEOREM NothingSkipped == StreamSpec => []NoRowSkipped
<1>1. StreamInv => NoRowSkipped
  BY DEF StreamInv, Served, NoRowSkipped, Visible
<1>. QED BY StreamsAlways, <1>1, PTL
=============================================================================
