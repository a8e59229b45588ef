--------------------------- MODULE AccountSessions ---------------------------
(***************************************************************************)
(* The sessions of one account: login, rotation of refresh tokens, logout, *)
(* password reset, and the end of all sessions by a reset, a deactivation  *)
(* or the replay of a used token.  A request reads, spends its time        *)
(* hashing a password, and commits; what it read may be stale by then.     *)
(* Time is not counted: a token that has expired is one that no longer     *)
(* does anything and may be pruned.  Whether a login is refused (password, *)
(* second factor, lockout) is left open.                                   *)
(***************************************************************************)
EXTENDS Naturals, FiniteSets

CONSTANTS
  Reqs,        \* requests for this account that may be under way at once
  MaxTokens,   \* bound: refresh tokens issued
  MaxResets    \* bound: reset tokens sent

ASSUME SessionsAssumption == MaxTokens \in Nat \ {0} /\ MaxResets \in Nat

Tokens == 1..MaxTokens
Resets == 1..MaxResets

VARIABLES
  active,      \* users.is_active
  issued,      \* refresh tokens handed out
  live,        \* rows of refresh_tokens with revoked = FALSE
  gone,        \* tokens whose rows were pruned
  sent,        \* reset tokens handed out
  open,        \* rows of password_reset_tokens with used = FALSE
  req,         \* req[r]: where request r stands and what it has read
  root,        \* root[t]: the token of the login that t goes back to (history)
  closed,      \* tokens the last closing, or one before it, covered (history)
  late,        \* others that overlapped the last closing, and their line (history)
  spent        \* reset tokens sent before a completed reset (history)

tokens == <<issued, live, gone, root, closed, late>>
resets == <<sent, open, spent>>
vars == <<active, tokens, resets, req>>

Op == {"none", "login", "rotate", "mint", "confirm", "reset", "deactivate", "close"}

(* What a request can be overtaken by between its read and its commit. *)
Event == {"closing", "reset"}

Request ==
  [op : Op, id : Nat, was : BOOLEAN, seen : SUBSET Tokens, mails : SUBSET Resets,
   past : SUBSET Event]

Idle == [op |-> "none", id |-> 0, was |-> FALSE, seen |-> {}, mails |-> {}, past |-> {}]

(* What the requests under way refer to has been handed out.                 *)
RequestsRefer ==
  \A r \in Reqs :
    /\ req[r].op \in {"rotate", "mint"} => req[r].id \in issued \ live
    /\ req[r].op \in {"confirm", "reset"} => req[r].id \in sent
    /\ req[r].seen \subseteq issued /\ req[r].mails \subseteq sent

TypeOK ==
  /\ active \in BOOLEAN
  /\ issued \subseteq Tokens /\ live \subseteq issued /\ gone \subseteq issued \ live
  /\ sent \subseteq Resets /\ open \subseteq sent
  /\ req \in [Reqs -> Request] /\ RequestsRefer
  /\ root \in [Tokens -> Tokens] /\ \A t \in issued : root[t] \in issued
  /\ closed \subseteq issued /\ late \subseteq issued /\ spent \subseteq sent

(* A new account, made by an administrator, who may make it inactive, or by *)
(* its user, who is logged in at once.                                      *)
Created == issued = {} /\ active \in BOOLEAN
Registered == issued = {1} /\ active = TRUE

Init ==
  /\ Created \/ Registered
  /\ live = issued /\ gone = {} /\ sent = {} /\ open = {}
  /\ req = [r \in Reqs |-> Idle]
  /\ root = [t \in Tokens |-> t]
  /\ closed = {} /\ late = {} /\ spent = {}

-----------------------------------------------------------------------------
Begin(r, as) == req[r] = Idle /\ req' = [req EXCEPT ![r] = as]

Matters(op) ==
  CASE op \in {"login", "rotate", "mint"} -> {"closing"}
    [] op \in {"confirm", "reset"} -> {"reset"}
    [] OTHER -> {}

(* The requests under way are overtaken by what r, now done, has committed.  *)
Overtake(q, what) == [req[q] EXCEPT !.past = @ \cup (what \cap Matters(req[q].op))]
Finish(r, what) == req' = [q \in Reqs |-> IF q = r THEN Idle ELSE Overtake(q, what)]

IsNext(n, S) == n \notin S /\ \A k \in 1..(n - 1) : k \in S

(* The UPDATE of a closing keeps its rows locked until the commit.           *)
Closing(r) == req[r].op \in {"reset", "close"}
Locked(S) == \E r \in Reqs : Closing(r) /\ S \cap req[r].seen \cap live # {}

(* A rejected login or token, a database error or a dead process: what is    *)
(* not committed is rolled back.                                             *)
RequestFails(r) ==
  /\ req[r] # Idle
  /\ req' = [req EXCEPT ![r] = Idle]
  /\ UNCHANGED <<active, tokens, resets>>

-----------------------------------------------------------------------------
(* Login                                                                   *)

StartLogin(r) ==
  /\ active
  /\ Begin(r, [Idle EXCEPT !.op = "login"])
  /\ UNCHANGED <<active, tokens, resets>>

(* A new row for r's session, which goes back to the login of token `of`.   *)
Issue(r, t, of) ==
  /\ IsNext(t, issued)
  /\ issued' = issued \cup {t} /\ live' = live \cup {t}
  /\ root' = [root EXCEPT ![t] = of]
  /\ late' = IF "closing" \in req[r].past \/ req[r].id \in late THEN late \cup {t} ELSE late
  /\ UNCHANGED <<gone, closed>>

LoginSucceeds(r, t) ==
  /\ req[r].op = "login"
  /\ Issue(r, t, t)
  /\ Finish(r, {})
  /\ UNCHANGED <<active, resets>>

-----------------------------------------------------------------------------
(* Rotation                                                                *)

(* Mutant: the token is checked and stays as it is. *)
StartRefreshUnrevoked(r, t) ==
  /\ t \in live /\ ~Locked({t})
  /\ Begin(r, [Idle EXCEPT !.op = "rotate", !.id = t])
  /\ UNCHANGED <<active, tokens, resets>>

(* Mutant: the UPDATE does not compare. *)
StartRefreshAnyway(r, t) ==
  /\ t \in issued \ gone /\ ~Locked({t})
  /\ Begin(r, [Idle EXCEPT !.op = "rotate", !.id = t])
  /\ live' = live \ {t}
  /\ UNCHANGED <<active, issued, gone, root, closed, late, resets>>

(* The compare-and-revoke, which waits for a lock on the row.               *)
StartRefresh(r, t) ==
  /\ t \in live /\ ~Locked({t})
  /\ Begin(r, [Idle EXCEPT !.op = "rotate", !.id = t])
  /\ live' = live \ {t}
  /\ UNCHANGED <<active, issued, gone, root, closed, late, resets>>

(* In its second transaction the request finds the row, and the user active. *)
ReadUser(r) ==
  /\ req[r].op = "rotate" /\ req[r].id \notin gone /\ active
  /\ req' = [req EXCEPT ![r].op = "mint"]
  /\ UNCHANGED <<active, tokens, resets>>

Mint(r, t) ==
  /\ req[r].op = "mint"
  /\ Issue(r, t, root[req[r].id])
  /\ Finish(r, {})
  /\ UNCHANGED <<active, resets>>

(* A used token is presented again: one UPDATE ends every session.          *)
Replay(t) ==
  /\ t \in issued \ (live \cup gone) /\ ~Locked(live)
  /\ live' = {} /\ closed' = issued /\ late' = {}
  /\ req' = [q \in Reqs |-> Overtake(q, {"closing"})]
  /\ UNCHANGED <<active, issued, gone, root, resets>>

Logout(t) ==
  /\ t \in issued \ gone /\ ~Locked({t})
  /\ live' = live \ {t}
  /\ UNCHANGED <<active, issued, gone, root, closed, late, resets, req>>

(* Rows that have expired, and revoked ones of 30 days ago.                 *)
Prune(S) ==
  /\ S # {} /\ S \subseteq issued \ gone /\ ~Locked(S)
  /\ gone' = gone \cup S /\ live' = live \ S
  /\ UNCHANGED <<active, issued, root, closed, late, resets, req>>

-----------------------------------------------------------------------------
(* Closings                                                                *)

RequestReset(k) ==
  /\ active /\ IsNext(k, sent)
  /\ sent' = sent \cup {k} /\ open' = open \cup {k}
  /\ UNCHANGED <<active, tokens, spent, req>>

(* A reset token that is unused; hashing the new password takes its time.   *)
StartConfirm(r, k) ==
  /\ k \in open /\ active
  /\ Begin(r, [Idle EXCEPT !.op = "confirm", !.id = k])
  /\ UNCHANGED <<active, tokens, resets>>

(* DELETE, and PATCH of an account that is active, by an administrator.     *)
StartDeactivate(r) ==
  /\ Begin(r, [Idle EXCEPT !.op = "deactivate", !.was = active])
  /\ UNCHANGED <<active, tokens, resets>>

(* The bulk UPDATEs, which wait for those of another closing.               *)
CloseSessions(r) ==
  /\ req[r].op \in {"confirm", "deactivate"} /\ ~Locked(live)
  /\ req[r].op = "confirm" => \A q \in Reqs : open \cap req[q].mails = {}
  /\ req' = [req EXCEPT ![r].op = IF @ = "confirm" THEN "reset" ELSE "close",
                        ![r].seen = issued,
                        ![r].mails = IF req[r].op = "confirm" THEN sent ELSE {}]
  /\ UNCHANGED <<active, tokens, resets>>

(* Mutant: one request forgets to end the sessions. *)
EndSessionsOfResets(r) ==
  /\ live' = IF req[r].op = "reset" THEN live \ req[r].seen ELSE live
  /\ closed' = closed \cup req[r].seen /\ late' = issued \ closed'
  /\ UNCHANGED <<issued, gone, root>>

(* The commit: no row the UPDATE has seen is live any more.  Rows that came *)
(* in meanwhile stay.                                                       *)
EndSessions(r) ==
  /\ live' = live \ req[r].seen
  /\ closed' = closed \cup req[r].seen /\ late' = issued \ closed'
  /\ UNCHANGED <<issued, gone, root>>

(* Mutant: only the reset token that was used is marked. *)
CommitResetOfOne(r) ==
  /\ req[r].op = "reset"
  /\ EndSessions(r)
  /\ open' = open \ {req[r].id}
  /\ spent' = spent \cup req[r].mails
  /\ Finish(r, {"closing", "reset"})
  /\ UNCHANGED <<active, sent>>

CommitReset(r) ==
  /\ req[r].op = "reset"
  /\ EndSessions(r)
  /\ open' = open \ req[r].mails
  /\ spent' = spent \cup req[r].mails
  /\ Finish(r, {"closing", "reset"})
  /\ UNCHANGED <<active, sent>>

CommitDeactivate(r) ==
  /\ req[r].op = "close"
  /\ EndSessions(r)
  /\ active' = IF req[r].was THEN FALSE ELSE active
  /\ Finish(r, {"closing"})
  /\ UNCHANGED resets

Reactivate ==
  /\ ~active /\ active' = TRUE
  /\ UNCHANGED <<tokens, resets, req>>

-----------------------------------------------------------------------------
Login(r) == StartLogin(r) \/ \E t \in Tokens : LoginSucceeds(r, t)
Refresh(r) == ReadUser(r) \/ \E t \in Tokens : StartRefresh(r, t) \/ Mint(r, t)
Confirm(r) == CommitReset(r) \/ \E k \in Resets : StartConfirm(r, k)
Deactivate(r) == StartDeactivate(r) \/ CommitDeactivate(r)

Next ==
  \/ \E r \in Reqs : RequestFails(r) \/ Login(r) \/ Refresh(r)
  \/ \E r \in Reqs : Confirm(r) \/ Deactivate(r) \/ CloseSessions(r)
  \/ \E t \in Tokens : Replay(t) \/ Logout(t)
  \/ \E S \in SUBSET Tokens : Prune(S)
  \/ \E k \in Resets : RequestReset(k)
  \/ Reactivate

Spec == Init /\ [][Next]_vars

-----------------------------------------------------------------------------
(* "Without this, two requests racing on the same token could both pass the *)
(* check and mint independent chains": of all the tokens that go back to    *)
(* one login, one is live at most.                                          *)
OneLivePerChain ==
  \A t, u \in live : root[t] = root[u] => t = u

(* What keeps the session of token f going: its live token, or a request    *)
(* that has taken that token and has yet to mint the next.                  *)
Rotating(r) == req[r].op \in {"rotate", "mint"}

Carrying(f) ==
  {<<"token", t>> : t \in {u \in live : root[u] = f}}
  \cup {<<"request", r>> : r \in {q \in Reqs : Rotating(q) /\ root[req[q].id] = f}}

(* Rotation keeps the promise of SessionFamilies: however logins, refreshes, *)
(* replays and closings interleave, every login opens a session that is      *)
(* handed from one token to the next, is never in two hands, and does not    *)
(* resume once it has lost its token.                                        *)
Families == INSTANCE SessionFamilies WITH
  Families <- Tokens,
  Carriers <- ({"token"} \X Tokens) \cup ({"request"} \X Reqs),
  opened <- {root[t] : t \in issued},
  carry <- [f \in Tokens |-> Carrying(f)]
KeepsFamilies == Families!Spec

(* A reset, a deactivation and a replay end every session for good: neither *)
(* a token they covered nor one that goes back to it is live afterwards,    *)
(* and an inactive account has no live token - except for tokens minted by  *)
(* requests that overlapped the closing.                                    *)
SessionsStayClosed ==
  \A t \in live :
    /\ t \notin closed
    /\ root[t] \in closed => t \in late
    /\ active \/ t \in late

(* "Single-use", and "an older, still-valid token can't be used after the   *)
(* password has changed": whoever confirms a reset, and was not overtaken   *)
(* by another one, holds a token sent after every completed reset.          *)
ResetsSingleUse ==
  \A r \in Reqs :
    req[r].op \in {"confirm", "reset"} /\ "reset" \notin req[r].past => req[r].id \notin spent
=============================================================================
