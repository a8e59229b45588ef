----------------------------- MODULE LiveStreams -----------------------------
(***************************************************************************)
(* The SSE streams of one organization (routers/alerts.py, traffic.py) and   *)
(* who may open them (deps.py), on top of the changing members of            *)
(* OrgMembership.                                                            *)
(*                                                                          *)
(* A stream polls the table with the request's database session, which       *)
(* commits nothing: under REPEATABLE READ every poll reads the snapshot of   *)
(* the first read.  Ids are drawn when a row is flushed and may commit in    *)
(* another order.  One table stands for alerts and traffic_events.  Inactive *)
(* users, invalid tickets and refused requests change nothing and are left   *)
(* out.                                                                     *)
(***************************************************************************)
EXTENDS OrgMembership, FiniteSets

CONSTANTS
  Watchers,  \* users who open streams
  Keys,      \* API keys
  Conns,     \* SSE connections
  Nobody,    \* the holder of a connection that is not open
  PageSize,  \* rows of one poll (25)
  MaxRow     \* bound: rows that are ever inserted

ASSUME StreamAssumption ==
  /\ Watchers \subseteq Users /\ Keys \cap Users = {}
  /\ Nobody \notin Watchers \cup Keys
  /\ PageSize \in Nat \ {0} /\ MaxRow \in Nat

Principals == Watchers \cup Keys
Rows == 1..MaxRow

VARIABLES
  rows,     \* ids of the committed rows
  drawn,    \* ids of rows that are flushed and not committed
  last,     \* the AUTO_INCREMENT counter
  tickets,  \* watchers that hold a stream ticket not yet expired
  key,      \* key[k]: "new", "valid" or "revoked"
  conn,     \* conn[c]: the SSE connection c
  due       \* due[p]: rows committed by the last moment p had access

table == <<rows, drawn, last>>
streams == <<table, tickets, key, conn>>

(* at is "checked" between the commit of the key's last_used_at and the       *)
(* cursor's query; start and cursor are last_seen_id, first and now.         *)
Conn == [at : {"closed", "checked", "open"}, kind : {"alerts", "traffic"},
         who : Principals \cup {Nobody}, view : SUBSET Rows,
         start : {0} \cup Rows, cursor : {0} \cup Rows, sent : SUBSET Rows]

Closed == [at |-> "closed", kind |-> "alerts", who |-> Nobody, view |-> {},
           start |-> 0, cursor |-> 0, sent |-> {}]

StreamTypeOK ==
  /\ TypeOK
  /\ rows \subseteq Rows /\ drawn \subseteq Rows /\ last \in {0} \cup Rows
  /\ tickets \subseteq Watchers /\ key \in [Keys -> {"new", "valid", "revoked"}]
  /\ conn \in [Conns -> Conn] /\ due \in [Principals -> SUBSET Rows]

StreamInit ==
  /\ Init
  /\ rows = {} /\ drawn = {} /\ last = 0
  /\ tickets = {} /\ key = [k \in Keys |-> "new"]
  /\ conn = [c \in Conns |-> Closed]
  /\ due = [p \in Principals |-> {}]

-----------------------------------------------------------------------------
(* The table                                                               *)

Flush ==
  /\ last < MaxRow
  /\ last' = last + 1 /\ drawn' = drawn \cup {last + 1}
  /\ UNCHANGED <<rows, tickets, key, conn>>

CommitRow(r) ==
  /\ r \in drawn
  /\ rows' = rows \cup {r} /\ drawn' = drawn \ {r}
  /\ UNCHANGED <<last, tickets, key, conn>>

AbandonRow(r) ==
  /\ r \in drawn
  /\ drawn' = drawn \ {r}
  /\ UNCHANGED <<rows, last, tickets, key, conn>>

-----------------------------------------------------------------------------
(* Credentials                                                             *)

(* _resolve_org_context: a member, or a platform admin across organizations. *)
InOrg(u) == status[u] = "active" \/ u \in Admins

(* issue_stream_ticket *)
MintTicket(u) ==
  /\ InOrg(u)
  /\ tickets' = tickets \cup {u}
  /\ UNCHANGED <<table, key, conn>>

TicketExpires(u) ==
  /\ u \in tickets
  /\ tickets' = tickets \ {u}
  /\ UNCHANGED <<table, key, conn>>

CreateKey(k) ==
  /\ Admins # {} /\ key[k] = "new"
  /\ key' = [key EXCEPT ![k] = "valid"]
  /\ UNCHANGED <<table, tickets, conn>>

RevokeKey(k) ==
  /\ Admins # {} /\ key[k] = "valid"
  /\ key' = [key EXCEPT ![k] = "revoked"]
  /\ UNCHANGED <<table, tickets, conn>>

-----------------------------------------------------------------------------
(* A stream                                                                *)

(* Where a stream of kind begins in the snapshot view: alerts are sent from   *)
(* the newest id on, traffic from the beginning.                             *)
BeginsAt(kind, view, start) ==
  /\ start \in {0} \cup view
  /\ IF kind = "alerts" THEN \A r \in view : r <= start ELSE start = 0

(* The stream of p has read its cursor and, with it, all it will ever see. *)
Opens(c, p, kind) ==
  /\ \E start \in {0} \cup Rows :
       /\ BeginsAt(kind, rows, start)
       /\ conn' = [conn EXCEPT ![c] = [at |-> "open", kind |-> kind, who |-> p,
                     view |-> rows, start |-> start, cursor |-> start, sent |-> {}]]
  /\ UNCHANGED <<table, tickets, key>>

(* Mutant: the ticket is trusted, and membership not checked again. *)
TicketTrusted(u) == u \in tickets

(* get_stream_org_context: a ticket opens a stream only while its user is     *)
(* still a member.                                                           *)
TicketOpens(u) == u \in tickets /\ InOrg(u)

(* By ticket or by Authorization header: the user, the membership and the     *)
(* cursor are read in one snapshot.  (For a platform admin from outside, the  *)
(* audit entry of the access commits before the cursor is read; he is let in  *)
(* at either moment.)                                                        *)
Connect(c, u, kind) ==
  /\ conn[c].at = "closed" /\ (TicketOpens(u) \/ InOrg(u))
  /\ Opens(c, u, kind)

(* _try_api_key commits, and what is read next is read in a new snapshot. *)
CheckKey(c, k, kind) ==
  /\ conn[c].at = "closed" /\ key[k] = "valid"
  /\ conn' = [conn EXCEPT ![c] = [Closed EXCEPT !.at = "checked", !.kind = kind, !.who = k]]
  /\ UNCHANGED <<table, tickets, key>>

Begun(c) == conn[c].at = "checked" /\ Opens(c, conn[c].who, conn[c].kind)

(* What a poll of c can see. *)
Visible(c) == conn[c].view

(* Mutant: last_seen_id is not moved on. *)
Cursor0(c, r) == conn[c].cursor

(* Mutant: the next poll is to begin after the row that follows. *)
CursorPast(c, r) == r + 1

(* last_seen_id after row r has been sent. *)
Cursor(c, r) == r

(* A poll, and the rows of its page sent in the order of their ids.  Without  *)
(* one it sends a heartbeat.                                                 *)
Poll(c) ==
  LET next == {r \in Visible(c) : r > conn[c].cursor}
  IN  /\ conn[c].at = "open"
      /\ \E page \in SUBSET next : \E r \in page :
           /\ Cardinality(page) <= PageSize /\ (page = next \/ Cardinality(page) = PageSize)
           /\ \A x \in page, y \in next \ page : x < y
           /\ \A x \in page : x <= r
           /\ conn' = [conn EXCEPT ![c].cursor = Cursor(c, r), ![c].sent = @ \cup page]
      /\ UNCHANGED <<table, tickets, key>>

(* The client goes away, or the server stops. *)
Disconnect(c) ==
  /\ conn[c].at # "closed"
  /\ conn' = [conn EXCEPT ![c] = Closed]
  /\ UNCHANGED <<table, tickets, key>>

-----------------------------------------------------------------------------

(* p may see what is committed, or has been let in by a request under way. *)
Access(p) ==
  \/ p \in Watchers /\ InOrg(p)
  \/ p \in Keys /\ key[p] = "valid"
  \/ \E c \in Conns : conn[c].at = "checked" /\ conn[c].who = p

Serve(c) ==
  \/ \E kind \in {"alerts", "traffic"} : \/ \E u \in Watchers : Connect(c, u, kind)
                                         \/ \E k \in Keys : CheckKey(c, k, kind)
  \/ Begun(c) \/ Poll(c) \/ Disconnect(c)

StreamStep ==
  \/ Flush
  \/ \E r \in Rows : CommitRow(r) \/ AbandonRow(r)
  \/ \E u \in Watchers : MintTicket(u) \/ TicketExpires(u)
  \/ \E k \in Keys : CreateKey(k) \/ RevokeKey(k)
  \/ \E c \in Conns : Serve(c)

StreamNext ==
  /\ \/ Next /\ UNCHANGED streams
     \/ StreamStep /\ UNCHANGED vars
  /\ due' = [p \in Principals |-> IF Access(p)' THEN rows' ELSE due[p]]

StreamSpec == StreamInit /\ [][StreamNext]_<<vars, streams, due>>

(* A stream that is open goes on polling, as long as its client stays. *)
FairSpec == StreamSpec /\ \A c \in Conns : WF_conn(Poll(c))

-----------------------------------------------------------------------------
(* Properties                                                              *)

(* What a stream has sent was committed while its holder was a member (or     *)
(* platform admin, or a valid key), or earlier: a stream that outlives the    *)
(* membership, or is opened with a ticket from before its end, shows nothing  *)
(* that came after.                                                          *)
OnlyWhileMember ==
  \A c \in Conns : conn[c].at = "open" => conn[c].sent \subseteq due[conn[c].who]

(* Up to its cursor a stream has left out no committed row that was there     *)
(* when it was opened, although ids become visible out of order, and none     *)
(* visible by then is passed over by the paging.                             *)
NoRowSkipped ==
  \A c \in Conns : conn[c].at = "open" =>
    \A r \in Visible(c) : conn[c].start < r /\ r <= conn[c].cursor => r \in conn[c].sent

(* A stream that stays open sends all that was there when it was opened. *)
Owed(c, r) == conn[c].at = "open" /\ r \in conn[c].view /\ r > conn[c].start

BacklogSent ==
  \A c \in Conns, r \in Rows : Owed(c, r) ~> (r \in conn[c].sent \/ conn[c].at = "closed")

(* "Server-Sent Events feed of newly-created alerts" (alerts.py): an alert    *)
(* that is committed while a stream of alerts is open is sent, unless the     *)
(* stream is closed.                                                         *)
Fresh(c, r) ==
  /\ conn[c].at = "open" /\ conn[c].kind = "alerts"
  /\ r \in rows \ conn[c].view /\ r > conn[c].cursor

NewAlertsArrive ==
  \A c \in Conns, r \in Rows : Fresh(c, r) ~> (r \in conn[c].sent \/ conn[c].at # "open")
=============================================================================
