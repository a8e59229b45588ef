------------------------ MODULE AccountSessionsProofs ------------------------
(***************************************************************************)
(* Proofs about AccountSessions for any number of requests and of tokens.   *)
(***************************************************************************)
EXTENDS AccountSessions, TLAPS

USE SessionsAssumption DEF SessionsAssumption

(* A token taken by a rotation stands for its chain until its successor is   *)
(* minted: no chain has two of them, or one and a live token.                *)
ChainInv ==
  /\ OneLivePerChain
  /\ \A t \in Tokens : t \notin issued => root[t] = t
  /\ \A r \in Reqs : Rotating(r) => \A t \in live : root[t] # root[req[r].id]
  /\ \A r, q \in Reqs :
       Rotating(r) /\ Rotating(q) /\ root[req[r].id] = root[req[q].id] => r = q

(* A request that goes on with a chain that was closed, or opens one on an   *)
(* account that is inactive by now, has been overtaken and knows it.         *)
ClosedInv ==
  /\ SessionsStayClosed
  /\ \A r \in Reqs : Rotating(r) /\ root[req[r].id] \in closed =>
                       "closing" \in req[r].past \/ req[r].id \in late
  /\ \A r \in Reqs : req[r].op \in {"login", "mint"} =>
                       active \/ "closing" \in req[r].past

ResetInv == ResetsSingleUse /\ open \cap spent = {}

-----------------------------------------------------------------------------
(* Requests                                                                *)

LEMMA IdleType == Idle \in Request
  BY DEF Idle, Request, Op, Event

LEMMA OvertakeType ==
  ASSUME NEW q \in Reqs, req[q] \in Request, NEW what \in SUBSET Event
  PROVE  /\ Overtake(q, what) \in Request
         /\ Overtake(q, what).op = req[q].op /\ Overtake(q, what).id = req[q].id
         /\ Overtake(q, what).was = req[q].was
         /\ Overtake(q, what).seen = req[q].seen /\ Overtake(q, what).mails = req[q].mails
         /\ Overtake(q, what).past = req[q].past \cup (what \cap Matters(req[q].op))
<1>1. req[q].past \cup (what \cap Matters(req[q].op)) \in SUBSET Event
  BY DEF Request
<1>. QED BY <1>1 DEF Overtake, Request

(* What is left of the requests when r has finished, or the tables changed.  *)
LEMMA FinishType ==
  ASSUME TypeOK, NEW r \in Reqs, NEW what \in SUBSET Event, Finish(r, what)
  PROVE  /\ req' \in [Reqs -> Request] /\ req'[r] = Idle
         /\ \A q \in Reqs \ {r} :
              /\ req'[q].op = req[q].op /\ req'[q].id = req[q].id
              /\ req'[q].seen = req[q].seen /\ req'[q].mails = req[q].mails
              /\ req'[q].past = req[q].past \cup (what \cap Matters(req[q].op))
<1>1. \A q \in Reqs : req[q] \in Request
  BY DEF TypeOK
<1>2. \A q \in Reqs : req'[q] = IF q = r THEN Idle ELSE Overtake(q, what)
  BY DEF Finish
<1>3. req' \in [Reqs -> Request]
  BY <1>1, IdleType, OvertakeType DEF Finish
<1>. QED BY <1>1, <1>2, <1>3, OvertakeType

LEMMA BeginType ==
  ASSUME TypeOK, NEW r \in Reqs, NEW as \in Request, Begin(r, as)
  PROVE  /\ req' \in [Reqs -> Request] /\ req'[r] = as
         /\ \A q \in Reqs \ {r} : req'[q] = req[q]
  BY DEF TypeOK, Begin

LEMMA IssueType ==
  ASSUME TypeOK, NEW r \in Reqs, NEW t \in Tokens, NEW of \in issued \cup {t},
         Issue(r, t, of)
  PROVE  /\ t \notin issued /\ issued' = issued \cup {t} /\ live' = live \cup {t}
         /\ gone' = gone /\ closed' = closed /\ late' \subseteq issued'
         /\ root' \in [Tokens -> Tokens] /\ root'[t] = of
         /\ \A u \in Tokens : u # t => root'[u] = root[u]
         /\ \A u \in issued' : root'[u] \in issued'
         /\ late \subseteq late'
         /\ "closing" \in req[r].past \/ req[r].id \in late => t \in late'
<1>. USE DEF TypeOK
<1>1. /\ t \notin issued /\ issued' = issued \cup {t} /\ live' = live \cup {t}
      /\ gone' = gone /\ closed' = closed /\ root' = [root EXCEPT ![t] = of]
      /\ late' = IF "closing" \in req[r].past \/ req[r].id \in late THEN late \cup {t} ELSE late
  BY DEF Issue, IsNext
<1>2. of \in Tokens /\ root' \in [Tokens -> Tokens] /\ root'[t] = of
  BY <1>1
<1>3. \A u \in Tokens : u # t => root'[u] = root[u]
  BY <1>1
<1>4. \A u \in issued' : root'[u] \in issued'
  BY <1>1, <1>2, <1>3
<1>. QED BY <1>1, <1>2, <1>3, <1>4

-----------------------------------------------------------------------------
LEMMA TypeInvariant == TypeOK /\ [Next]_vars => TypeOK'
<1>. SUFFICES ASSUME TypeOK, [Next]_vars PROVE TypeOK'
  OBVIOUS
<1>. USE DEF tokens, resets
<1>0. \A r \in Reqs : req[r] \in Request
  BY DEF TypeOK
<1>1. ASSUME NEW r \in Reqs, RequestFails(r) PROVE TypeOK'
  <2>1. req' \in [Reqs -> Request] /\ RequestsRefer'
    BY <1>1, IdleType DEF RequestFails, TypeOK, RequestsRefer, Idle
  <2>. QED BY <1>1, <2>1 DEF RequestFails, TypeOK
<1>2. ASSUME NEW r \in Reqs, StartLogin(r) PROVE TypeOK'
  <2>1. [Idle EXCEPT !.op = "login"] \in Request
    BY DEF Idle, Request, Op, Event
  <2>2. req' \in [Reqs -> Request] /\ RequestsRefer'
    BY <1>2, <2>1, BeginType DEF StartLogin, RequestsRefer, Idle, TypeOK
  <2>. QED BY <1>2, <2>2 DEF StartLogin, TypeOK
<1>3. ASSUME NEW r \in Reqs, NEW t \in Tokens, LoginSucceeds(r, t) PROVE TypeOK'
  <2>1. /\ req' \in [Reqs -> Request] /\ req'[r] = Idle
        /\ \A q \in Reqs \ {r} :
              /\ req'[q].op = req[q].op /\ req'[q].id = req[q].id
              /\ req'[q].seen = req[q].seen /\ req'[q].mails = req[q].mails
    BY <1>3, FinishType DEF LoginSucceeds
  <2>2. Issue(r, t, t) /\ sent' = sent /\ open' = open /\ spent' = spent /\ active' = active
    BY <1>3 DEF LoginSucceeds
  <2>3. /\ t \notin issued /\ issued' = issued \cup {t} /\ live' = live \cup {t}
        /\ gone' = gone /\ closed' = closed /\ late' \subseteq issued'
        /\ root' \in [Tokens -> Tokens] /\ \A u \in issued' : root'[u] \in issued'
    BY <2>2, IssueType
  <2>4. RequestsRefer'
    BY <2>1, <2>2, <2>3 DEF TypeOK, RequestsRefer, Idle
  <2>. QED BY <2>1, <2>2, <2>3, <2>4 DEF TypeOK
<1>4. ASSUME NEW r \in Reqs, NEW t \in Tokens, StartRefresh(r, t) PROVE TypeOK'
  <2>. DEFINE as == [Idle EXCEPT !.op = "rotate", !.id = t]
  <2>0. t \in Nat
    BY DEF Tokens
  <2>1. as \in Request /\ as.op = "rotate" /\ as.id = t /\ as.seen = {} /\ as.mails = {}
    BY <2>0 DEF Idle, Request, Op, Event
  <2>2. t \in issued /\ live' = live \ {t} /\ issued' = issued /\ sent' = sent
    BY <1>4 DEF StartRefresh, TypeOK
  <2>3. Begin(r, as)
    BY <1>4 DEF StartRefresh
  <2>. HIDE DEF as
  <2>4. /\ req' \in [Reqs -> Request] /\ req'[r] = as
        /\ \A q \in Reqs \ {r} : req'[q] = req[q]
    BY <2>1, <2>3, BeginType
  <2>5. req' \in [Reqs -> Request] /\ RequestsRefer'
    BY <2>1, <2>2, <2>4 DEF RequestsRefer, TypeOK
  <2>. QED BY <1>4, <2>2, <2>5 DEF StartRefresh, TypeOK
<1>5. ASSUME NEW r \in Reqs, ReadUser(r) PROVE TypeOK'
  <2>1. [req[r] EXCEPT !.op = "mint"] \in Request
    BY <1>0 DEF Request, Op
  <2>2. req' \in [Reqs -> Request] /\ RequestsRefer'
    BY <1>0, <1>5, <2>1 DEF ReadUser, TypeOK, RequestsRefer, Request
  <2>. QED BY <1>5, <2>2 DEF ReadUser, TypeOK
<1>6. ASSUME NEW r \in Reqs, NEW t \in Tokens, Mint(r, t) PROVE TypeOK'
  <2>1. /\ req' \in [Reqs -> Request] /\ req'[r] = Idle
        /\ \A q \in Reqs \ {r} :
              /\ req'[q].op = req[q].op /\ req'[q].id = req[q].id
              /\ req'[q].seen = req[q].seen /\ req'[q].mails = req[q].mails
    BY <1>6, FinishType DEF Mint
  <2>2. /\ Issue(r, t, root[req[r].id])
        /\ sent' = sent /\ open' = open /\ spent' = spent /\ active' = active
    BY <1>6 DEF Mint
  <2>3. root[req[r].id] \in issued \cup {t}
    BY <1>6 DEF Mint, TypeOK, RequestsRefer
  <2>4. /\ t \notin issued /\ issued' = issued \cup {t} /\ live' = live \cup {t}
        /\ gone' = gone /\ closed' = closed /\ late' \subseteq issued'
        /\ root' \in [Tokens -> Tokens] /\ \A u \in issued' : root'[u] \in issued'
    BY <2>2, <2>3, IssueType
  <2>5. RequestsRefer'
    BY <2>1, <2>2, <2>4 DEF TypeOK, RequestsRefer, Idle
  <2>. QED BY <2>1, <2>2, <2>4, <2>5 DEF TypeOK
<1>7. ASSUME NEW t \in Tokens, Replay(t) PROVE TypeOK'
  <2>1. \A q \in Reqs : /\ req'[q] = Overtake(q, {"closing"}) /\ req'[q] \in Request
                        /\ req'[q].op = req[q].op /\ req'[q].id = req[q].id
                        /\ req'[q].seen = req[q].seen /\ req'[q].mails = req[q].mails
    BY <1>0, <1>7, OvertakeType DEF Replay, Event
  <2>2. req' \in [Reqs -> Request] /\ RequestsRefer'
    BY <1>7, <2>1 DEF Replay, TypeOK, RequestsRefer
  <2>. QED BY <1>7, <2>2 DEF Replay, TypeOK
<1>8. ASSUME NEW t \in Tokens, Logout(t) PROVE TypeOK'
  BY <1>8 DEF Logout, TypeOK, RequestsRefer
<1>9. ASSUME NEW S \in SUBSET Tokens, Prune(S) PROVE TypeOK'
  BY <1>9 DEF Prune, TypeOK, RequestsRefer
<1>10. ASSUME NEW k \in Resets, RequestReset(k) PROVE TypeOK'
  BY <1>10 DEF RequestReset, TypeOK, RequestsRefer
<1>11. ASSUME NEW r \in Reqs, NEW k \in Resets, StartConfirm(r, k) PROVE TypeOK'
  <2>. DEFINE as == [Idle EXCEPT !.op = "confirm", !.id = k]
  <2>0. k \in Nat
    BY DEF Resets
  <2>1. as \in Request /\ as.op = "confirm" /\ as.seen = {} /\ as.mails = {} /\ as.id = k /\ k \in sent
    BY <1>11, <2>0 DEF Idle, Request, Op, Event, StartConfirm, TypeOK
  <2>3. Begin(r, as)
    BY <1>11 DEF StartConfirm
  <2>. HIDE DEF as
  <2>4. /\ req' \in [Reqs -> Request] /\ req'[r] = as
        /\ \A q \in Reqs \ {r} : req'[q] = req[q]
    BY <2>1, <2>3, BeginType
  <2>2. req' \in [Reqs -> Request] /\ RequestsRefer'
    BY <1>11, <2>1, <2>4 DEF StartConfirm, RequestsRefer, TypeOK
  <2>. QED BY <1>11, <2>2 DEF StartConfirm, TypeOK
<1>12. ASSUME NEW r \in Reqs, StartDeactivate(r) PROVE TypeOK'
  <2>. DEFINE as == [Idle EXCEPT !.op = "deactivate", !.was = active]
  <2>0. active \in BOOLEAN
    BY DEF TypeOK
  <2>1. as \in Request /\ as.op = "deactivate" /\ as.seen = {} /\ as.mails = {}
    BY <1>12, <2>0 DEF Idle, Request, Op, Event
  <2>3. Begin(r, as)
    BY <1>12 DEF StartDeactivate
  <2>. HIDE DEF as
  <2>4. /\ req' \in [Reqs -> Request] /\ req'[r] = as
        /\ \A q \in Reqs \ {r} : req'[q] = req[q]
    BY <2>1, <2>3, BeginType
  <2>2. req' \in [Reqs -> Request] /\ RequestsRefer'
    BY <1>12, <2>1, <2>4 DEF StartDeactivate, RequestsRefer, TypeOK
  <2>. QED BY <1>12, <2>2 DEF StartDeactivate, TypeOK
<1>13. ASSUME NEW r \in Reqs, CloseSessions(r) PROVE TypeOK'
  <2>. DEFINE as == [req[r] EXCEPT !.op = IF @ = "confirm" THEN "reset" ELSE "close",
                                   !.seen = issued,
                                   !.mails = IF req[r].op = "confirm" THEN sent ELSE {}]
  <2>1. as \in Request /\ as.seen = issued /\ as.mails \subseteq sent /\ as.id = req[r].id
        /\ as.op \in {"reset", "close"} /\ (as.op = "reset" => req[r].op = "confirm")
    BY <1>0, <1>13 DEF CloseSessions, Request, Op, TypeOK
  <2>2. req' = [req EXCEPT ![r] = as]
    BY <1>13 DEF CloseSessions
  <2>. HIDE DEF as
  <2>4. /\ req' \in [Reqs -> Request] /\ req'[r] = as
        /\ \A q \in Reqs \ {r} : req'[q] = req[q]
    BY <2>1, <2>2 DEF TypeOK
  <2>5. issued' = issued /\ live' = live /\ sent' = sent
    BY <1>13 DEF CloseSessions
  <2>3. req' \in [Reqs -> Request] /\ RequestsRefer'
    BY <2>1, <2>4, <2>5 DEF TypeOK, RequestsRefer
  <2>. QED BY <1>13, <2>3 DEF CloseSessions, TypeOK
<1>14. ASSUME NEW r \in Reqs, CommitReset(r) PROVE TypeOK'
  <2>1. /\ req' \in [Reqs -> Request] /\ req'[r] = Idle
        /\ \A q \in Reqs \ {r} :
              /\ req'[q].op = req[q].op /\ req'[q].id = req[q].id
              /\ req'[q].seen = req[q].seen /\ req'[q].mails = req[q].mails
    BY <1>14, FinishType DEF CommitReset, Event
  <2>2. RequestsRefer'
    BY <1>14, <2>1 DEF CommitReset, EndSessions, TypeOK, RequestsRefer, Idle
  <2>. QED BY <1>14, <2>1, <2>2 DEF CommitReset, EndSessions, TypeOK, RequestsRefer
<1>15. ASSUME NEW r \in Reqs, CommitDeactivate(r) PROVE TypeOK'
  <2>1. /\ req' \in [Reqs -> Request] /\ req'[r] = Idle
        /\ \A q \in Reqs \ {r} :
              /\ req'[q].op = req[q].op /\ req'[q].id = req[q].id
              /\ req'[q].seen = req[q].seen /\ req'[q].mails = req[q].mails
    BY <1>15, FinishType DEF CommitDeactivate, Event
  <2>2. RequestsRefer'
    BY <1>15, <2>1 DEF CommitDeactivate, EndSessions, TypeOK, RequestsRefer, Idle
  <2>. QED BY <1>15, <2>1, <2>2 DEF CommitDeactivate, EndSessions, TypeOK, RequestsRefer
<1>16. CASE Reactivate
  BY <1>16 DEF Reactivate, TypeOK, RequestsRefer
<1>17. CASE UNCHANGED vars
  BY <1>17 DEF vars, TypeOK, RequestsRefer
<1>. QED BY <1>1, <1>2, <1>3, <1>4, <1>5, <1>6, <1>7, <1>8, <1>9, <1>10, <1>11, <1>12,
            <1>13, <1>14, <1>15, <1>16, <1>17 DEF Next, Login, Refresh, Confirm, Deactivate

LEMMA TypeInit == Init => TypeOK
<1>. SUFFICES ASSUME Init PROVE TypeOK
  OBVIOUS
<1>1. req \in [Reqs -> Request] /\ RequestsRefer
  BY IdleType DEF Init, Created, Registered, RequestsRefer, Idle
<1>2. 1 \in Tokens
  BY DEF Tokens
<1>. QED BY <1>1, <1>2 DEF Init, Created, Registered, TypeOK

(* The tables and the requests under way are type correct, whatever the      *)
(* number of requests and tokens.                                            *)
THEOREM TypeCorrect == Spec => []TypeOK
  BY TypeInit, TypeInvariant, PTL DEF Spec

-----------------------------------------------------------------------------
(* Chains                                                                  *)

(* The steps that open a chain or hand it on.                                *)
HandsOn == \E r \in Reqs, t \in Tokens :
  LoginSucceeds(r, t) \/ StartRefresh(r, t) \/ Mint(r, t)

(* All the others issue no token, and let live tokens and rotations end.     *)
OnlyEnds ==
  /\ live' \subseteq live /\ issued' = issued /\ root' = root
  /\ \A r \in Reqs : Rotating(r)' => Rotating(r) /\ req'[r].id = req[r].id

LEMMA FinishEnds ==
  ASSUME TypeOK, NEW r \in Reqs, NEW what \in SUBSET Event, Finish(r, what)
  PROVE  \A q \in Reqs : Rotating(q)' => q # r /\ Rotating(q) /\ req'[q].id = req[q].id
<1>1. req'[r] = Idle /\ \A q \in Reqs \ {r} : req'[q].op = req[q].op /\ req'[q].id = req[q].id
  BY FinishType
<1>2. ~Rotating(r)'
  BY <1>1 DEF Rotating, Idle
<1>. QED BY <1>1, <1>2 DEF Rotating

LEMMA OthersOnlyEnd == TypeOK /\ [Next]_vars /\ ~HandsOn => OnlyEnds
<1>. SUFFICES ASSUME TypeOK, [Next]_vars, ~HandsOn PROVE OnlyEnds
  OBVIOUS
<1>. USE DEF tokens, resets
<1>1. ASSUME NEW r \in Reqs, RequestFails(r) PROVE OnlyEnds
  <2>1. \A q \in Reqs : Rotating(q)' => Rotating(q) /\ req'[q].id = req[q].id
    BY <1>1 DEF RequestFails, Rotating, Idle, TypeOK
  <2>. QED BY <1>1, <2>1 DEF OnlyEnds, RequestFails
<1>2. ASSUME NEW r \in Reqs, StartLogin(r) PROVE OnlyEnds
  <2>1. \A q \in Reqs : Rotating(q)' => Rotating(q) /\ req'[q].id = req[q].id
    BY <1>2 DEF StartLogin, Begin, Rotating, Idle, TypeOK
  <2>. QED BY <1>2, <2>1 DEF OnlyEnds, StartLogin
<1>3. ASSUME NEW r \in Reqs, ReadUser(r) PROVE OnlyEnds
  <2>1. \A q \in Reqs : Rotating(q)' => Rotating(q) /\ req'[q].id = req[q].id
    BY <1>3 DEF ReadUser, Rotating, TypeOK, Request
  <2>. QED BY <1>3, <2>1 DEF OnlyEnds, ReadUser
<1>4. ASSUME NEW t \in Tokens, Replay(t) PROVE OnlyEnds
  <2>1. \A q \in Reqs : req'[q].op = req[q].op /\ req'[q].id = req[q].id
    BY <1>4, OvertakeType DEF Replay, Event, TypeOK
  <2>. QED BY <1>4, <2>1 DEF OnlyEnds, Replay, Rotating
<1>5. ASSUME NEW t \in Tokens, Logout(t) PROVE OnlyEnds
  BY <1>5 DEF OnlyEnds, Logout, Rotating
<1>6. ASSUME NEW S \in SUBSET Tokens, Prune(S) PROVE OnlyEnds
  BY <1>6 DEF OnlyEnds, Prune, Rotating
<1>7. ASSUME NEW k \in Resets, RequestReset(k) PROVE OnlyEnds
  BY <1>7 DEF OnlyEnds, RequestReset, Rotating
<1>8. ASSUME NEW r \in Reqs, NEW k \in Resets, StartConfirm(r, k) PROVE OnlyEnds
  <2>1. \A q \in Reqs : Rotating(q)' => Rotating(q) /\ req'[q].id = req[q].id
    BY <1>8 DEF StartConfirm, Begin, Rotating, Idle, TypeOK
  <2>. QED BY <1>8, <2>1 DEF OnlyEnds, StartConfirm
<1>9. ASSUME NEW r \in Reqs, StartDeactivate(r) PROVE OnlyEnds
  <2>1. \A q \in Reqs : Rotating(q)' => Rotating(q) /\ req'[q].id = req[q].id
    BY <1>9 DEF StartDeactivate, Begin, Rotating, Idle, TypeOK
  <2>. QED BY <1>9, <2>1 DEF OnlyEnds, StartDeactivate
<1>10. ASSUME NEW r \in Reqs, CloseSessions(r) PROVE OnlyEnds
  <2>1. \A q \in Reqs : Rotating(q)' => Rotating(q) /\ req'[q].id = req[q].id
    BY <1>10 DEF CloseSessions, Rotating, TypeOK, Request
  <2>. QED BY <1>10, <2>1 DEF OnlyEnds, CloseSessions
<1>11. ASSUME NEW r \in Reqs, CommitReset(r) PROVE OnlyEnds
  <2>1. \A q \in Reqs : Rotating(q)' => Rotating(q) /\ req'[q].id = req[q].id
    BY <1>11, FinishEnds DEF CommitReset, Event
  <2>. QED BY <1>11, <2>1 DEF OnlyEnds, CommitReset, EndSessions
<1>12. ASSUME NEW r \in Reqs, CommitDeactivate(r) PROVE OnlyEnds
  <2>1. \A q \in Reqs : Rotating(q)' => Rotating(q) /\ req'[q].id = req[q].id
    BY <1>12, FinishEnds DEF CommitDeactivate, Event
  <2>. QED BY <1>12, <2>1 DEF OnlyEnds, CommitDeactivate, EndSessions
<1>13. CASE Reactivate
  BY <1>13 DEF OnlyEnds, Reactivate, Rotating
<1>14. CASE UNCHANGED vars
  BY <1>14 DEF OnlyEnds, vars, Rotating
<1>. QED BY <1>1, <1>2, <1>3, <1>4, <1>5, <1>6, <1>7, <1>8,
            <1>9, <1>10, <1>11, <1>12, <1>13, <1>14
   DEF Next, Login, Refresh, Confirm, Deactivate, HandsOn

LEMMA ChainInvariant == TypeOK /\ TypeOK' /\ ChainInv /\ [Next]_vars => ChainInv'
<1>. SUFFICES ASSUME TypeOK, TypeOK', ChainInv, [Next]_vars PROVE ChainInv'
  OBVIOUS
<1>a. \A r \in Reqs : Rotating(r) => req[r].id \in issued \ live
  BY DEF TypeOK, RequestsRefer, Rotating
<1>b. live \subseteq Tokens /\ issued \subseteq Tokens
  BY DEF TypeOK
<1>1. ASSUME NEW r \in Reqs, NEW t \in Tokens, LoginSucceeds(r, t) PROVE ChainInv'
  <2>1. /\ t \notin issued /\ live' = live \cup {t} /\ issued' = issued \cup {t}
        /\ root'[t] = t /\ \A u \in Tokens : u # t => root'[u] = root[u]
    BY <1>1, IssueType DEF LoginSucceeds
  <2>2. \A q \in Reqs : Rotating(q)' => Rotating(q) /\ req'[q].id = req[q].id
    BY <1>1, FinishEnds DEF LoginSucceeds
  <2>3. \A u \in issued : root[u] # t /\ root'[u] = root[u]
    BY <2>1, <1>b DEF TypeOK
  <2>4. \A u, w \in live' : root'[u] = root'[w] => u = w
    BY <2>1, <2>3 DEF ChainInv, OneLivePerChain, TypeOK
  <2>5. \A q \in Reqs : Rotating(q)' => \A u \in live' : root'[u] # root'[req'[q].id]
    BY <2>1, <2>2, <2>3, <1>a DEF ChainInv, TypeOK
  <2>6. \A q, p \in Reqs :
          Rotating(q)' /\ Rotating(p)' /\ root'[req'[q].id] = root'[req'[p].id] => q = p
    BY <2>2, <2>3, <1>a DEF ChainInv
  <2>. QED BY <2>1, <2>4, <2>5, <2>6 DEF ChainInv, OneLivePerChain
<1>2. ASSUME NEW r \in Reqs, NEW t \in Tokens, StartRefresh(r, t) PROVE ChainInv'
  <2>1. t \in live /\ live' = live \ {t} /\ issued' = issued /\ root' = root
    BY <1>2 DEF StartRefresh
  <2>2. /\ req'[r].id = t
        /\ \A q \in Reqs \ {r} : Rotating(q)' => Rotating(q) /\ req'[q].id = req[q].id
    BY <1>2 DEF StartRefresh, Begin, Rotating, Idle, TypeOK
  <2>3. \A q \in Reqs : Rotating(q)' => \A u \in live' : root[u] # root[req'[q].id]
    BY <2>1, <2>2 DEF ChainInv, OneLivePerChain
  <2>4. \A q \in Reqs \ {r} : Rotating(q)' => root[req'[q].id] # root[t]
    BY <2>1, <2>2 DEF ChainInv
  <2>. QED BY <2>1, <2>2, <2>3, <2>4 DEF ChainInv, OneLivePerChain
<1>3. ASSUME NEW r \in Reqs, NEW t \in Tokens, Mint(r, t) PROVE ChainInv'
  <2>. DEFINE of == root[req[r].id]
  <2>0. Rotating(r) /\ of \in issued
    BY <1>3, <1>a DEF Mint, Rotating, TypeOK
  <2>1. /\ t \notin issued /\ live' = live \cup {t} /\ issued' = issued \cup {t}
        /\ root'[t] = of /\ \A u \in Tokens : u # t => root'[u] = root[u]
    BY <1>3, <2>0, IssueType DEF Mint
  <2>2. \A q \in Reqs : Rotating(q)' => q # r /\ Rotating(q) /\ req'[q].id = req[q].id
    BY <1>3, FinishEnds DEF Mint
  <2>3. \A u \in issued : root'[u] = root[u]
    BY <2>1, <1>b
  <2>4. /\ \A u \in live : root[u] # of
        /\ \A q \in Reqs : Rotating(q)' => root[req[q].id] # of
    BY <2>0, <2>2 DEF ChainInv
  <2>. HIDE DEF of
  <2>5. \A u, w \in live' : root'[u] = root'[w] => u = w
    BY <2>1, <2>3, <2>4 DEF ChainInv, OneLivePerChain, TypeOK
  <2>6. \A q \in Reqs : Rotating(q)' => \A u \in live' : root'[u] # root'[req'[q].id]
    BY <2>1, <2>2, <2>3, <2>4, <1>a DEF ChainInv, TypeOK
  <2>7. \A q, p \in Reqs :
          Rotating(q)' /\ Rotating(p)' /\ root'[req'[q].id] = root'[req'[p].id] => q = p
    BY <2>2, <2>3, <1>a DEF ChainInv
  <2>. QED BY <2>1, <2>5, <2>6, <2>7 DEF ChainInv, OneLivePerChain
<1>4. CASE ~HandsOn
  <2>1. OnlyEnds
    BY <1>4, OthersOnlyEnd
  <2>. QED BY <2>1 DEF OnlyEnds, ChainInv, OneLivePerChain, TypeOK
<1>. QED BY <1>1, <1>2, <1>3, <1>4 DEF HandsOn

(* Of all the tokens that go back to one login at most one is live, however  *)
(* many requests present the same token at once.                             *)
THEOREM ChainsDoNotFork == Spec => []OneLivePerChain
<1>1. Init => ChainInv
  BY DEF Init, Created, Registered, ChainInv, OneLivePerChain, Rotating, Idle
<1>2. TypeOK /\ TypeOK' /\ ChainInv /\ [Next]_vars => ChainInv'
  BY ChainInvariant
<1>3. ChainInv => OneLivePerChain
  BY DEF ChainInv
<1>. QED BY <1>1, <1>2, <1>3, TypeCorrect, PTL DEF Spec

-----------------------------------------------------------------------------
(* Session families                                                        *)

Hands == ({"token"} \X Tokens) \cup ({"request"} \X Reqs)

LEMMA SameHands ==
  ASSUME NEW A \in SUBSET Hands, NEW B \in SUBSET Hands,
         \A t \in Tokens : <<"token", t>> \in A <=> <<"token", t>> \in B,
         \A r \in Reqs : <<"request", r>> \in A <=> <<"request", r>> \in B
  PROVE  A = B
<1>1. \A c \in Hands : (\E t \in Tokens : c = <<"token", t>>) \/ (\E r \in Reqs : c = <<"request", r>>)
  BY DEF Hands
<1>2. \A c \in Hands : c \in A <=> c \in B
  BY <1>1
<1>. QED BY <1>2

(* Who carries family f, before and after a step. *)
LEMMA CarryingIs ==
  ASSUME TypeOK, TypeOK', NEW f
  PROVE  /\ Carrying(f) \subseteq Hands /\ Carrying(f)' \subseteq Hands
         /\ \A t \in Tokens :
              /\ <<"token", t>> \in Carrying(f) <=> t \in live /\ root[t] = f
              /\ <<"token", t>> \in Carrying(f)' <=> t \in live' /\ root'[t] = f
         /\ \A r \in Reqs :
              /\ <<"request", r>> \in Carrying(f) <=> Rotating(r) /\ root[req[r].id] = f
              /\ <<"request", r>> \in Carrying(f)' <=> Rotating(r)' /\ root'[req'[r].id] = f
<1>1. live \subseteq Tokens /\ live' \subseteq Tokens
  BY DEF TypeOK
<1>2. Carrying(f) \subseteq Hands /\ Carrying(f)' \subseteq Hands
  BY <1>1 DEF Carrying, Hands
<1>3. ASSUME NEW t \in Tokens
      PROVE  /\ <<"token", t>> \in Carrying(f) <=> t \in live /\ root[t] = f
             /\ <<"token", t>> \in Carrying(f)' <=> t \in live' /\ root'[t] = f
  BY DEF Carrying
<1>4. ASSUME NEW r \in Reqs
      PROVE  /\ <<"request", r>> \in Carrying(f) <=> Rotating(r) /\ root[req[r].id] = f
             /\ <<"request", r>> \in Carrying(f)' <=> Rotating(r)' /\ root'[req'[r].id] = f
  BY DEF Carrying
<1>. QED BY <1>2, <1>3, <1>4

LEMMA OneCarrier ==
  ASSUME TypeOK, TypeOK', ChainInv, NEW f \in Tokens, NEW c \in Carrying(f), NEW d \in Carrying(f)
  PROVE  c = d
<1>1. live \subseteq Tokens
  BY DEF TypeOK
<1>2. c \in Hands /\ d \in Hands
  BY CarryingIs
<1>3. ASSUME NEW t \in Tokens, c = <<"token", t>> PROVE c = d
  <2>1. t \in live /\ root[t] = f
    BY <1>3, CarryingIs
  <2>2. ASSUME NEW u \in Tokens, d = <<"token", u>> PROVE c = d
    BY <1>3, <2>1, <2>2, CarryingIs DEF ChainInv, OneLivePerChain
  <2>3. ASSUME NEW r \in Reqs, d = <<"request", r>> PROVE FALSE
    BY <2>1, <2>3, CarryingIs DEF ChainInv
  <2>. QED BY <1>2, <2>2, <2>3 DEF Hands
<1>4. ASSUME NEW q \in Reqs, c = <<"request", q>> PROVE c = d
  <2>1. Rotating(q) /\ root[req[q].id] = f
    BY <1>4, CarryingIs
  <2>2. ASSUME NEW u \in Tokens, d = <<"token", u>> PROVE FALSE
    BY <2>1, <2>2, CarryingIs DEF ChainInv
  <2>3. ASSUME NEW r \in Reqs, d = <<"request", r>> PROVE c = d
    BY <1>4, <2>1, <2>3, CarryingIs DEF ChainInv
  <2>. QED BY <1>2, <2>2, <2>3 DEF Hands
<1>. QED BY <1>2, <1>3, <1>4 DEF Hands

(* A step that only ends tokens and rotations takes carriers away.           *)
LEMMA FamiliesEnd ==
  ASSUME TypeOK, TypeOK', ChainInv, OnlyEnds
  PROVE  \E F \in SUBSET Tokens : Families!End(F)
<1>. DEFINE F == {f \in Tokens : Carrying(f)' = {}}
<1>1. ASSUME NEW f \in Tokens PROVE Carrying(f)' \subseteq Carrying(f)
  <2>1. \A t \in Tokens : <<"token", t>> \in Carrying(f)' => <<"token", t>> \in Carrying(f)
    BY CarryingIs DEF OnlyEnds
  <2>2. \A r \in Reqs : <<"request", r>> \in Carrying(f)' => <<"request", r>> \in Carrying(f)
    BY CarryingIs DEF OnlyEnds
  <2>. QED BY <2>1, <2>2, CarryingIs DEF Hands
<1>2. ASSUME NEW f \in Tokens PROVE Carrying(f)' = IF f \in F THEN {} ELSE Carrying(f)
  BY <1>1, <1>2, OneCarrier
<1>3. [f \in Tokens |-> Carrying(f)]'
        = [f \in Tokens |-> IF f \in F THEN {} ELSE [g \in Tokens |-> Carrying(g)][f]]
  BY <1>2
<1>4. {root[t] : t \in issued}' = {root[t] : t \in issued}
  BY DEF OnlyEnds
<1>5. Families!End(F)
  BY <1>3, <1>4 DEF Families!End
<1>. QED BY <1>5

(* A login opens the family of its token.                                    *)
LEMMA FamiliesOpen ==
  ASSUME TypeOK, TypeOK', NEW r \in Reqs, NEW t \in Tokens, LoginSucceeds(r, t)
  PROVE  Families!Open(t, <<"token", t>>)
<1>1. /\ t \notin issued /\ live' = live \cup {t} /\ issued' = issued \cup {t}
      /\ root'[t] = t /\ \A u \in Tokens : u # t => root'[u] = root[u]
  BY IssueType DEF LoginSucceeds
<1>2. \A q \in Reqs : (Rotating(q)' <=> Rotating(q)) /\ (Rotating(q) => req'[q].id = req[q].id)
  <2>1. req'[r] = Idle /\ \A q \in Reqs \ {r} : req'[q].op = req[q].op /\ req'[q].id = req[q].id
    BY FinishType DEF LoginSucceeds
  <2>2. ~Rotating(r) /\ ~Rotating(r)'
    BY <2>1 DEF LoginSucceeds, Rotating, Idle
  <2>. QED BY <2>1, <2>2 DEF Rotating
<1>3. /\ live \subseteq issued /\ \A u \in issued : u # t /\ root'[u] = root[u] /\ root[u] # t
      /\ \A q \in Reqs : Rotating(q) => req[q].id \in issued
  BY <1>1 DEF TypeOK, RequestsRefer, Rotating
<1>4. ASSUME NEW f \in Tokens
      PROVE  /\ <<"token", t>> \notin Carrying(f)
             /\ Carrying(f)' = IF f = t THEN {<<"token", t>>} ELSE Carrying(f)
  <2>1. \A u \in Tokens : <<"token", u>> \in Carrying(f)'
                            <=> (f = t /\ u = t) \/ <<"token", u>> \in Carrying(f)
    BY <1>1, <1>3, CarryingIs
  <2>2. \A q \in Reqs : <<"request", q>> \in Carrying(f)' <=> <<"request", q>> \in Carrying(f)
    <3>1. \A q \in Reqs : Rotating(q) => root'[req'[q].id] = root[req[q].id]
      BY <1>2, <1>3
    <3>. QED BY <1>2, <3>1, CarryingIs
  <2>3. <<"token", t>> \notin Carrying(f) /\ (f = t => Carrying(f) = {})
    <3>1. \A u \in Tokens : <<"token", u>> \in Carrying(f) => u # t /\ f # t
      BY <1>1, <1>3, CarryingIs
    <3>2. \A q \in Reqs : <<"request", q>> \in Carrying(f) => f # t
      BY <1>3, CarryingIs
    <3>. QED BY <3>1, <3>2, CarryingIs DEF Hands
  <2>. DEFINE B == IF f = t THEN {<<"token", t>>} ELSE Carrying(f)
  <2>4. Carrying(f)' \in SUBSET Hands /\ B \in SUBSET Hands
    BY CarryingIs DEF Hands
  <2>5. /\ \A u \in Tokens : <<"token", u>> \in Carrying(f)' <=> <<"token", u>> \in B
        /\ \A q \in Reqs : <<"request", q>> \in Carrying(f)' <=> <<"request", q>> \in B
    BY <2>1, <2>2, <2>3
  <2>6. Carrying(f)' = B
    BY <2>4, <2>5, SameHands
  <2>. QED BY <2>3, <2>6
<1>5. {root[u] : u \in issued}' = {root[u] : u \in issued} \cup {t}
  BY <1>1, <1>3
<1>6. [f \in Tokens |-> Carrying(f)]' = [[f \in Tokens |-> Carrying(f)] EXCEPT ![t] = {<<"token", t>>}]
  BY <1>4
<1>7. t \notin {root[u] : u \in issued}
  BY <1>3
<1>. QED BY <1>4, <1>5, <1>6, <1>7 DEF Families!Open, Families!Unoccupied

(* The compare-and-revoke hands the family over to the request.              *)
LEMMA FamiliesTaken ==
  ASSUME TypeOK, TypeOK', ChainInv, NEW r \in Reqs, NEW t \in Tokens, StartRefresh(r, t)
  PROVE  Families!Pass(root[t], <<"request", r>>)
<1>1. /\ t \in live /\ live' = live \ {t} /\ issued' = issued /\ root' = root
      /\ root[t] \in Tokens
  BY DEF StartRefresh, TypeOK
<1>2. /\ ~Rotating(r) /\ Rotating(r)' /\ req'[r].id = t
      /\ \A q \in Reqs \ {r} : (Rotating(q)' <=> Rotating(q)) /\ req'[q].id = req[q].id
  BY DEF StartRefresh, Begin, Rotating, Idle, TypeOK
<1>3. Carrying(root[t]) = {<<"token", t>>}
  <2>1. <<"token", t>> \in Carrying(root[t])
    BY <1>1, CarryingIs
  <2>. QED BY <1>1, <2>1, OneCarrier
<1>4. ASSUME NEW f \in Tokens
      PROVE  /\ <<"request", r>> \notin Carrying(f)
             /\ Carrying(f)' = IF f = root[t] THEN {<<"request", r>>} ELSE Carrying(f)
  <2>1. \A u \in Tokens : <<"token", u>> \in Carrying(f)'
                            <=> u # t /\ <<"token", u>> \in Carrying(f)
    BY <1>1, CarryingIs
  <2>2. \A q \in Reqs : <<"request", q>> \in Carrying(f)'
                            <=> (q = r /\ f = root[t]) \/ <<"request", q>> \in Carrying(f)
    <3>1. root'[req'[r].id] = root[t]
          /\ \A q \in Reqs \ {r} : root'[req'[q].id] = root[req[q].id]
      BY <1>1, <1>2
    <3>. QED BY <1>2, <3>1, CarryingIs
  <2>3. <<"request", r>> \notin Carrying(f)
    BY <1>2, CarryingIs
  <2>4. f # root[t] => <<"token", t>> \notin Carrying(f)
    BY CarryingIs
  <2>. DEFINE B == IF f = root[t] THEN {<<"request", r>>} ELSE Carrying(f)
  <2>5. Carrying(f)' \in SUBSET Hands /\ B \in SUBSET Hands
    BY CarryingIs DEF Hands
  <2>6. /\ \A u \in Tokens : <<"token", u>> \in Carrying(f)' <=> <<"token", u>> \in B
        /\ \A q \in Reqs : <<"request", q>> \in Carrying(f)' <=> <<"request", q>> \in B
    BY <1>3, <2>1, <2>2, <2>4
  <2>7. Carrying(f)' = B
    BY <2>5, <2>6, SameHands
  <2>. QED BY <2>3, <2>7
<1>5. {root[u] : u \in issued}' = {root[u] : u \in issued}
  BY <1>1
<1>6. [f \in Tokens |-> Carrying(f)]'
        = [[f \in Tokens |-> Carrying(f)] EXCEPT ![root[t]] = {<<"request", r>>}]
  BY <1>4
<1>7. \E d \in Hands : [f \in Tokens |-> Carrying(f)][root[t]] = {d}
  BY <1>1, <1>3 DEF Hands
<1>. QED BY <1>4, <1>5, <1>6, <1>7 DEF Families!Pass, Families!Unoccupied, Hands

(* Minting hands it on to the next token.                                    *)
LEMMA FamiliesMinted ==
  ASSUME TypeOK, TypeOK', ChainInv, NEW r \in Reqs, NEW t \in Tokens, Mint(r, t)
  PROVE  Families!Pass(root[req[r].id], <<"token", t>>)
<1>0. PICK g \in issued : g = root[req[r].id]
  BY DEF Mint, TypeOK, RequestsRefer
<1>1. /\ t \notin issued /\ live' = live \cup {t} /\ issued' = issued \cup {t}
      /\ root'[t] = g /\ \A u \in Tokens : u # t => root'[u] = root[u]
  BY <1>0, IssueType DEF Mint
<1>2. /\ Rotating(r) /\ ~Rotating(r)'
      /\ \A q \in Reqs \ {r} : (Rotating(q)' <=> Rotating(q)) /\ req'[q].id = req[q].id
  <2>1. req'[r] = Idle /\ \A q \in Reqs \ {r} : req'[q].op = req[q].op /\ req'[q].id = req[q].id
    BY FinishType DEF Mint
  <2>. QED BY <2>1 DEF Mint, Rotating, Idle
<1>3. /\ live \subseteq issued /\ g \in Tokens
      /\ \A u \in issued : u # t /\ u \in Tokens /\ root'[u] = root[u]
      /\ \A q \in Reqs : Rotating(q) => req[q].id \in issued
  BY <1>1 DEF TypeOK, RequestsRefer, Rotating
<1>4. Carrying(g) = {<<"request", r>>}
  <2>1. <<"request", r>> \in Carrying(g)
    BY <1>0, <1>2, CarryingIs
  <2>. QED BY <1>3, <2>1, OneCarrier
<1>5. ASSUME NEW f \in Tokens
      PROVE  /\ <<"token", t>> \notin Carrying(f)
             /\ Carrying(f)' = IF f = g THEN {<<"token", t>>} ELSE Carrying(f)
  <2>1. \A u \in Tokens : <<"token", u>> \in Carrying(f)'
                            <=> (u = t /\ f = g) \/ <<"token", u>> \in Carrying(f)
    BY <1>1, <1>3, CarryingIs
  <2>2. \A q \in Reqs : <<"request", q>> \in Carrying(f)'
                            <=> q # r /\ <<"request", q>> \in Carrying(f)
    <3>1. \A q \in Reqs \ {r} : Rotating(q) => root'[req'[q].id] = root[req[q].id]
      BY <1>2, <1>3
    <3>. QED BY <1>2, <3>1, CarryingIs
  <2>3. <<"token", t>> \notin Carrying(f)
    BY <1>1, <1>3, CarryingIs
  <2>4. f # g => <<"request", r>> \notin Carrying(f)
    BY <1>0, CarryingIs
  <2>. DEFINE B == IF f = g THEN {<<"token", t>>} ELSE Carrying(f)
  <2>5. Carrying(f)' \in SUBSET Hands /\ B \in SUBSET Hands
    BY CarryingIs DEF Hands
  <2>6. /\ \A u \in Tokens : <<"token", u>> \in Carrying(f)' <=> <<"token", u>> \in B
        /\ \A q \in Reqs : <<"request", q>> \in Carrying(f)' <=> <<"request", q>> \in B
    BY <1>4, <2>1, <2>2, <2>4
  <2>7. Carrying(f)' = B
    BY <2>5, <2>6, SameHands
  <2>. QED BY <2>3, <2>7
<1>6. {root[u] : u \in issued}' = {root[u] : u \in issued}
  <2>1. req[r].id \in issued
    BY <1>2, <1>3
  <2>. QED BY <1>0, <1>1, <1>3, <2>1
<1>7. [f \in Tokens |-> Carrying(f)]' = [[f \in Tokens |-> Carrying(f)] EXCEPT ![g] = {<<"token", t>>}]
  BY <1>5
<1>8. \E d \in Hands : [f \in Tokens |-> Carrying(f)][g] = {d}
  BY <1>3, <1>4 DEF Hands
<1>9. Families!Pass(g, <<"token", t>>)
  BY <1>5, <1>6, <1>7, <1>8 DEF Families!Pass, Families!Unoccupied, Hands
<1>. QED BY <1>0, <1>9

LEMMA FamiliesInit == Init => Families!Init
<1>. SUFFICES ASSUME Init PROVE Families!Init
  OBVIOUS
<1>1. \A r \in Reqs : ~Rotating(r)
  BY DEF Init, Rotating, Idle
<1>2. \A f \in Tokens : Carrying(f) = {<<"token", t>> : t \in {u \in live : root[u] = f}}
  BY <1>1 DEF Carrying
<1>3. CASE issued = {}
  <2>1. \A f \in Tokens : Carrying(f) = {}
    BY <1>2, <1>3 DEF Init
  <2>. QED BY <1>3, <2>1 DEF Families!Init, Families!Nothing
<1>4. CASE issued = {1}
  <2>1. 1 \in Tokens /\ live = {1} /\ root[1] = 1
    BY <1>4 DEF Init, Tokens
  <2>2. \A f \in Tokens : Carrying(f) = IF f = 1 THEN {<<"token", 1>>} ELSE {}
    BY <1>2, <2>1
  <2>3. [f \in Tokens |-> Carrying(f)] = [Families!Nothing EXCEPT ![1] = {<<"token", 1>>}]
    BY <2>1, <2>2 DEF Families!Nothing
  <2>4. {root[t] : t \in issued} = {1}
    BY <1>4, <2>1
  <2>. QED BY <2>1, <2>3, <2>4 DEF Families!Init
<1>. QED BY <1>3, <1>4 DEF Init, Created, Registered

(* Rotation implements SessionFamilies: for any number of requests at any    *)
(* point of a refresh, every login opens one session, which is handed from   *)
(* token to token, is never in two hands, and once over does not come back.  *)
THEOREM ImplementsFamilies == Spec => KeepsFamilies
<1>1. Init => ChainInv /\ Families!Init
  BY FamiliesInit DEF Init, Created, Registered, ChainInv, OneLivePerChain, Rotating, Idle
<1>2. TypeOK /\ TypeOK' /\ ChainInv /\ [Next]_vars => ChainInv'
  BY ChainInvariant
<1>3. TypeOK /\ TypeOK' /\ ChainInv /\ [Next]_vars => [Families!Next]_(Families!vars)
  <2>. SUFFICES ASSUME TypeOK, TypeOK', ChainInv, [Next]_vars PROVE Families!Next
    OBVIOUS
  <2>1. ASSUME NEW r \in Reqs, NEW t \in Tokens, LoginSucceeds(r, t) PROVE Families!Next
    BY <2>1, FamiliesOpen DEF Families!Next
  <2>2. ASSUME NEW r \in Reqs, NEW t \in Tokens, StartRefresh(r, t) PROVE Families!Next
    <3>1. root[t] \in Tokens
      BY DEF TypeOK
    <3>. QED BY <2>2, <3>1, FamiliesTaken DEF Families!Next
  <2>3. ASSUME NEW r \in Reqs, NEW t \in Tokens, Mint(r, t) PROVE Families!Next
    <3>1. root[req[r].id] \in Tokens
      BY <2>3 DEF Mint, TypeOK, RequestsRefer
    <3>. QED BY <2>3, <3>1, FamiliesMinted DEF Families!Next
  <2>4. CASE ~HandsOn
    BY <2>4, OthersOnlyEnd, FamiliesEnd DEF Families!Next
  <2>. QED BY <2>1, <2>2, <2>3, <2>4 DEF HandsOn
<1>. QED BY <1>1, <1>2, <1>3, TypeCorrect, PTL DEF Spec, KeepsFamilies, Families!Spec

-----------------------------------------------------------------------------
(* Closings                                                                *)

(* What a closing that commits does to the requests under way.              *)
LEMMA Overtaken ==
  ASSUME TypeOK, NEW r \in Reqs, NEW what \in SUBSET Event, "closing" \in what, Finish(r, what)
  PROVE  \A q \in Reqs : req'[q].op \in {"login", "rotate", "mint"} => "closing" \in req'[q].past
<1>1. /\ req'[r] = Idle
      /\ \A q \in Reqs \ {r} :
           req'[q].op = req[q].op /\ req'[q].past = req[q].past \cup (what \cap Matters(req[q].op))
  BY FinishType
<1>2. \A op \in {"login", "rotate", "mint"} : "closing" \in Matters(op)
  BY DEF Matters
<1>. QED BY <1>1, <1>2 DEF Idle

(* Every row that was there when the UPDATE ran is revoked by the commit;   *)
(* whatever else is live has overlapped it.                                 *)
LEMMA EndedSessions ==
  ASSUME TypeOK, SessionsStayClosed, NEW r \in Reqs, EndSessions(r)
  PROVE  /\ live' \subseteq late' /\ live' \cap closed' = {}
         /\ closed' = closed \cup req[r].seen /\ issued' = issued /\ root' = root
<1>1. /\ live' = live \ req[r].seen /\ closed' = closed \cup req[r].seen
      /\ late' = issued \ closed' /\ issued' = issued /\ root' = root
  BY DEF EndSessions
<1>2. live \subseteq issued /\ live \cap closed = {}
  BY DEF TypeOK, SessionsStayClosed
<1>. QED BY <1>1, <1>2

LEMMA ClosedInvariant == TypeOK /\ TypeOK' /\ ClosedInv /\ [Next]_vars => ClosedInv'
<1>. SUFFICES ASSUME TypeOK, TypeOK', ClosedInv, [Next]_vars PROVE ClosedInv'
  OBVIOUS
<1>. USE DEF tokens, resets
<1>a. \A r \in Reqs : Rotating(r) => req[r].id \in issued
  BY DEF TypeOK, RequestsRefer, Rotating
<1>b. live \subseteq issued /\ issued \subseteq Tokens /\ closed \subseteq issued
  BY DEF TypeOK
(* Steps that issue no token, close nothing and take up no chain.            *)
<1>d. ASSUME live' \subseteq live, root' = root, closed' = closed, late' = late,
             active => active',
             \A r \in Reqs : req'[r].op \in {"login", "rotate", "mint"} =>
                               req'[r].op = req[r].op /\ req'[r].id = req[r].id
                                 /\ req[r].past \subseteq req'[r].past
      PROVE  ClosedInv'
  BY <1>d DEF ClosedInv, SessionsStayClosed, Rotating
<1>e. ASSUME NEW r \in Reqs, NEW what \in SUBSET Event, Finish(r, what)
      PROVE  \A q \in Reqs : req'[q].op # "none" =>
                q # r /\ req'[q].op = req[q].op /\ req'[q].id = req[q].id
                  /\ req[q].past \subseteq req'[q].past
  <2>1. /\ req'[r] = Idle
        /\ \A q \in Reqs \ {r} :
             /\ req'[q].op = req[q].op /\ req'[q].id = req[q].id
             /\ req'[q].past = req[q].past \cup (what \cap Matters(req[q].op))
    BY <1>e, FinishType
  <2>. QED BY <2>1 DEF Idle
<1>f. ASSUME NEW r \in Reqs, NEW what \in SUBSET Event, "closing" \in what,
             Finish(r, what), EndSessions(r)
      PROVE  ClosedInv'
  <2>1. /\ live' \subseteq late' /\ live' \cap closed' = {}
    BY <1>f, EndedSessions DEF ClosedInv
  <2>2. \A q \in Reqs : req'[q].op \in {"login", "rotate", "mint"} => "closing" \in req'[q].past
    BY <1>f, Overtaken
  <2>. QED BY <2>1, <2>2 DEF ClosedInv, SessionsStayClosed, Rotating
<1>1. ASSUME NEW r \in Reqs, RequestFails(r) PROVE ClosedInv'
  <2>1. \A q \in Reqs : req'[q] = Idle \/ req'[q] = req[q]
    BY <1>1 DEF RequestFails, TypeOK
  <2>. QED BY <1>1, <1>d, <2>1 DEF RequestFails, Idle
<1>2. ASSUME NEW r \in Reqs, StartLogin(r) PROVE ClosedInv'
  <2>1. /\ req'[r].op = "login" /\ \A q \in Reqs \ {r} : req'[q] = req[q]
        /\ active' /\ live' = live /\ root' = root /\ closed' = closed /\ late' = late
    BY <1>2 DEF StartLogin, Begin, Idle, TypeOK
  <2>. QED BY <2>1 DEF ClosedInv, SessionsStayClosed, Rotating
<1>3. ASSUME NEW r \in Reqs, NEW t \in Tokens, LoginSucceeds(r, t) PROVE ClosedInv'
  <2>1. /\ t \notin issued /\ live' = live \cup {t} /\ issued' = issued \cup {t}
        /\ root'[t] = t /\ \A u \in Tokens : u # t => root'[u] = root[u]
        /\ closed' = closed /\ late \subseteq late'
        /\ "closing" \in req[r].past => t \in late'
    BY <1>3, IssueType DEF LoginSucceeds
  <2>2. /\ active' = active
        /\ \A q \in Reqs : req'[q].op # "none" =>
                q # r /\ req'[q].op = req[q].op /\ req'[q].id = req[q].id
                  /\ req[q].past \subseteq req'[q].past
    BY <1>3, <1>e DEF LoginSucceeds
  <2>3. t \notin closed /\ (active \/ t \in late')
    BY <1>3, <1>b, <2>1 DEF LoginSucceeds, ClosedInv
  <2>4. \A u \in issued : root'[u] = root[u]
    BY <2>1, <1>b
  <2>5. SessionsStayClosed'
    BY <2>1, <2>2, <2>3, <2>4, <1>b DEF ClosedInv, SessionsStayClosed
  <2>. QED BY <2>1, <2>2, <2>4, <2>5, <1>a DEF ClosedInv, Rotating
<1>4. ASSUME NEW r \in Reqs, NEW t \in Tokens, StartRefresh(r, t) PROVE ClosedInv'
  <2>1. /\ req'[r].op = "rotate" /\ req'[r].id = t /\ t \in live
        /\ \A q \in Reqs \ {r} : req'[q] = req[q]
        /\ active' = active /\ live' \subseteq live /\ root' = root
        /\ closed' = closed /\ late' = late
    BY <1>4 DEF StartRefresh, Begin, Idle, TypeOK
  <2>2. root[t] \in closed => t \in late
    BY <2>1 DEF ClosedInv, SessionsStayClosed
  <2>. QED BY <2>1, <2>2 DEF ClosedInv, SessionsStayClosed, Rotating
<1>5. ASSUME NEW r \in Reqs, ReadUser(r) PROVE ClosedInv'
  <2>1. /\ Rotating(r) /\ req'[r].id = req[r].id /\ req'[r].past = req[r].past
        /\ \A q \in Reqs \ {r} : req'[q] = req[q]
        /\ active' /\ live' = live /\ root' = root /\ closed' = closed /\ late' = late
    BY <1>5 DEF ReadUser, Rotating, TypeOK, Request
  <2>. QED BY <2>1 DEF ClosedInv, SessionsStayClosed, Rotating
<1>6. ASSUME NEW r \in Reqs, NEW t \in Tokens, Mint(r, t) PROVE ClosedInv'
  <2>. DEFINE of == root[req[r].id]
  <2>0. Rotating(r) /\ of \in issued
    BY <1>6, <1>a DEF Mint, Rotating, TypeOK
  <2>1. /\ t \notin issued /\ live' = live \cup {t} /\ issued' = issued \cup {t}
        /\ root'[t] = of /\ \A u \in Tokens : u # t => root'[u] = root[u]
        /\ closed' = closed /\ late \subseteq late'
        /\ "closing" \in req[r].past \/ req[r].id \in late => t \in late'
    BY <1>6, <2>0, IssueType DEF Mint
  <2>2. /\ active' = active
        /\ \A q \in Reqs : req'[q].op # "none" =>
                q # r /\ req'[q].op = req[q].op /\ req'[q].id = req[q].id
                  /\ req[q].past \subseteq req'[q].past
    BY <1>6, <1>e DEF Mint
  <2>3. /\ t \notin closed /\ (active \/ t \in late')
        /\ of \in closed => t \in late'
    BY <1>6, <1>b, <2>0, <2>1 DEF Mint, ClosedInv
  <2>4. \A u \in issued : root'[u] = root[u]
    BY <2>1, <1>b
  <2>. HIDE DEF of
  <2>5. SessionsStayClosed'
    BY <2>1, <2>2, <2>3, <2>4, <1>b DEF ClosedInv, SessionsStayClosed
  <2>. QED BY <2>1, <2>2, <2>4, <2>5, <1>a DEF ClosedInv, Rotating
<1>7. ASSUME NEW t \in Tokens, Replay(t) PROVE ClosedInv'
  <2>1. \A q \in Reqs : req'[q].op = req[q].op
                        /\ req'[q].past = req[q].past \cup ({"closing"} \cap Matters(req[q].op))
    BY <1>7, OvertakeType DEF Replay, Event, TypeOK
  <2>2. \A op \in {"login", "rotate", "mint"} : "closing" \in Matters(op)
    BY DEF Matters
  <2>3. \A q \in Reqs : req'[q].op \in {"login", "rotate", "mint"} => "closing" \in req'[q].past
    BY <2>1, <2>2
  <2>. QED BY <1>7, <2>3 DEF Replay, ClosedInv, SessionsStayClosed, Rotating
<1>8. ASSUME NEW t \in Tokens, Logout(t) PROVE ClosedInv'
  BY <1>8, <1>d DEF Logout
<1>9. ASSUME NEW S \in SUBSET Tokens, Prune(S) PROVE ClosedInv'
  BY <1>9, <1>d DEF Prune
<1>10. ASSUME NEW k \in Resets, RequestReset(k) PROVE ClosedInv'
  BY <1>10, <1>d DEF RequestReset
<1>11. ASSUME NEW r \in Reqs, NEW k \in Resets, StartConfirm(r, k) PROVE ClosedInv'
  <2>1. req'[r].op = "confirm" /\ \A q \in Reqs \ {r} : req'[q] = req[q]
    BY <1>11 DEF StartConfirm, Begin, Idle, TypeOK
  <2>. QED BY <1>11, <1>d, <2>1 DEF StartConfirm
<1>12. ASSUME NEW r \in Reqs, StartDeactivate(r) PROVE ClosedInv'
  <2>1. req'[r].op = "deactivate" /\ \A q \in Reqs \ {r} : req'[q] = req[q]
    BY <1>12 DEF StartDeactivate, Begin, Idle, TypeOK
  <2>. QED BY <1>12, <1>d, <2>1 DEF StartDeactivate
<1>13. ASSUME NEW r \in Reqs, CloseSessions(r) PROVE ClosedInv'
  <2>1. req'[r].op \in {"reset", "close"} /\ \A q \in Reqs \ {r} : req'[q] = req[q]
    BY <1>13 DEF CloseSessions, TypeOK, Request
  <2>. QED BY <1>13, <1>d, <2>1 DEF CloseSessions
<1>14. ASSUME NEW r \in Reqs, CommitReset(r) PROVE ClosedInv'
  BY <1>14, <1>f DEF CommitReset, Event
<1>15. ASSUME NEW r \in Reqs, CommitDeactivate(r) PROVE ClosedInv'
  BY <1>15, <1>f DEF CommitDeactivate, Event
<1>16. CASE Reactivate
  BY <1>16, <1>d DEF Reactivate
<1>17. CASE UNCHANGED vars
  BY <1>17, <1>d DEF vars
<1>. QED BY <1>1, <1>2, <1>3, <1>4, <1>5, <1>6, <1>7, <1>8, <1>9, <1>10, <1>11, <1>12,
            <1>13, <1>14, <1>15, <1>16, <1>17 DEF Next, Login, Refresh, Confirm, Deactivate

(* After a reset, a deactivation or a replay no token that was covered, and  *)
(* none that goes back to one, is live, unless its request overlapped.       *)
THEOREM ClosedForGood == Spec => []SessionsStayClosed
<1>1. Init => ClosedInv
  BY DEF Init, Created, Registered, ClosedInv, SessionsStayClosed, Rotating, Idle
<1>2. TypeOK /\ TypeOK' /\ ClosedInv /\ [Next]_vars => ClosedInv'
  BY ClosedInvariant
<1>3. ClosedInv => SessionsStayClosed
  BY DEF ClosedInv
<1>. QED BY <1>1, <1>2, <1>3, TypeCorrect, PTL DEF Spec

-----------------------------------------------------------------------------
(* Resets                                                                  *)

LEMMA ResetInvariant == TypeOK /\ TypeOK' /\ ResetInv /\ [Next]_vars => ResetInv'
<1>. SUFFICES ASSUME TypeOK, TypeOK', ResetInv, [Next]_vars PROVE ResetInv'
  OBVIOUS
<1>. USE DEF tokens, resets
(* Steps that neither complete a reset nor begin one.                        *)
<1>d. ASSUME spent' = spent, open' = open,
             \A r \in Reqs : req'[r].op \in {"confirm", "reset"} =>
                               req[r].op \in {"confirm", "reset"} /\ req'[r].id = req[r].id
                                 /\ req[r].past \subseteq req'[r].past
      PROVE  ResetInv'
  BY <1>d DEF ResetInv, ResetsSingleUse
<1>e. ASSUME NEW r \in Reqs, NEW what \in SUBSET Event, Finish(r, what)
      PROVE  /\ req'[r] = Idle
             /\ \A q \in Reqs \ {r} :
                  req'[q].op \in {"confirm", "reset"} =>
                    /\ req[q].op \in {"confirm", "reset"} /\ req'[q].id = req[q].id
                    /\ req[q].past \subseteq req'[q].past
                    /\ "reset" \in what => "reset" \in req'[q].past
  <2>1. /\ req'[r] = Idle
        /\ \A q \in Reqs \ {r} :
             /\ req'[q].op = req[q].op /\ req'[q].id = req[q].id
             /\ req'[q].past = req[q].past \cup (what \cap Matters(req[q].op))
    BY <1>e, FinishType
  <2>2. \A op \in {"confirm", "reset"} : "reset" \in Matters(op)
    BY DEF Matters
  <2>. QED BY <2>1, <2>2
<1>f. ASSUME NEW r \in Reqs, NEW what \in SUBSET Event, Finish(r, what),
             spent' = spent, open' = open
      PROVE  ResetInv'
  <2>1. \A q \in Reqs : req'[q].op \in {"confirm", "reset"} =>
            req[q].op \in {"confirm", "reset"} /\ req'[q].id = req[q].id
              /\ req[q].past \subseteq req'[q].past
    BY <1>e, <1>f DEF Idle
  <2>. QED BY <1>d, <1>f, <2>1
<1>1. ASSUME NEW r \in Reqs, RequestFails(r) PROVE ResetInv'
  <2>1. \A q \in Reqs : req'[q] = Idle \/ req'[q] = req[q]
    BY <1>1 DEF RequestFails, TypeOK
  <2>. QED BY <1>1, <1>d, <2>1 DEF RequestFails, Idle
<1>2. ASSUME NEW r \in Reqs, StartLogin(r) PROVE ResetInv'
  <2>1. req'[r].op = "login" /\ \A q \in Reqs \ {r} : req'[q] = req[q]
    BY <1>2 DEF StartLogin, Begin, Idle, TypeOK
  <2>. QED BY <1>2, <1>d, <2>1 DEF StartLogin
<1>3. ASSUME NEW r \in Reqs, NEW t \in Tokens, LoginSucceeds(r, t) PROVE ResetInv'
  <2>. {} \in SUBSET Event
    OBVIOUS
  <2>. QED BY <1>3, <1>f DEF LoginSucceeds
<1>4. ASSUME NEW r \in Reqs, NEW t \in Tokens, StartRefresh(r, t) PROVE ResetInv'
  <2>1. req'[r].op = "rotate" /\ \A q \in Reqs \ {r} : req'[q] = req[q]
    BY <1>4 DEF StartRefresh, Begin, Idle, TypeOK
  <2>. QED BY <1>4, <1>d, <2>1 DEF StartRefresh
<1>5. ASSUME NEW r \in Reqs, ReadUser(r) PROVE ResetInv'
  <2>1. req'[r].op = "mint" /\ \A q \in Reqs \ {r} : req'[q] = req[q]
    BY <1>5 DEF ReadUser, TypeOK, Request
  <2>. QED BY <1>5, <1>d, <2>1 DEF ReadUser
<1>6. ASSUME NEW r \in Reqs, NEW t \in Tokens, Mint(r, t) PROVE ResetInv'
  <2>. {} \in SUBSET Event
    OBVIOUS
  <2>. QED BY <1>6, <1>f DEF Mint
<1>7. ASSUME NEW t \in Tokens, Replay(t) PROVE ResetInv'
  <2>1. \A q \in Reqs : req'[q].op = req[q].op /\ req'[q].id = req[q].id
                        /\ req[q].past \subseteq req'[q].past
    BY <1>7, OvertakeType DEF Replay, Event, TypeOK
  <2>. QED BY <1>7, <1>d, <2>1 DEF Replay
<1>8. ASSUME NEW t \in Tokens, Logout(t) PROVE ResetInv'
  BY <1>8, <1>d DEF Logout
<1>9. ASSUME NEW S \in SUBSET Tokens, Prune(S) PROVE ResetInv'
  BY <1>9, <1>d DEF Prune
<1>10. ASSUME NEW k \in Resets, RequestReset(k) PROVE ResetInv'
  <2>1. k \notin sent /\ open' = open \cup {k} /\ spent' = spent /\ req' = req
    BY <1>10 DEF RequestReset, IsNext
  <2>. QED BY <2>1 DEF ResetInv, ResetsSingleUse, TypeOK
<1>11. ASSUME NEW r \in Reqs, NEW k \in Resets, StartConfirm(r, k) PROVE ResetInv'
  <2>1. /\ req'[r].id = k /\ k \in open /\ \A q \in Reqs \ {r} : req'[q] = req[q]
        /\ open' = open /\ spent' = spent
    BY <1>11 DEF StartConfirm, Begin, Idle, TypeOK
  <2>. QED BY <2>1 DEF ResetInv, ResetsSingleUse
<1>12. ASSUME NEW r \in Reqs, StartDeactivate(r) PROVE ResetInv'
  <2>1. req'[r].op = "deactivate" /\ \A q \in Reqs \ {r} : req'[q] = req[q]
    BY <1>12 DEF StartDeactivate, Begin, Idle, TypeOK
  <2>. QED BY <1>12, <1>d, <2>1 DEF StartDeactivate
<1>13. ASSUME NEW r \in Reqs, CloseSessions(r) PROVE ResetInv'
  <2>1. /\ req'[r].op = "reset" => req[r].op = "confirm"
        /\ req'[r].op # "confirm"
        /\ req'[r].id = req[r].id /\ req'[r].past = req[r].past
        /\ \A q \in Reqs \ {r} : req'[q] = req[q]
    BY <1>13 DEF CloseSessions, TypeOK, Request
  <2>. QED BY <1>13, <1>d, <2>1 DEF CloseSessions
<1>14. ASSUME NEW r \in Reqs, CommitReset(r) PROVE ResetInv'
  <2>1. \A q \in Reqs : req'[q].op \in {"confirm", "reset"} => "reset" \in req'[q].past
    BY <1>14, <1>e DEF CommitReset, Event, Idle
  <2>2. open' = open \ req[r].mails /\ spent' = spent \cup req[r].mails
    BY <1>14 DEF CommitReset
  <2>. QED BY <2>1, <2>2 DEF ResetInv, ResetsSingleUse
<1>15. ASSUME NEW r \in Reqs, CommitDeactivate(r) PROVE ResetInv'
  BY <1>15, <1>f DEF CommitDeactivate, Event
<1>16. CASE Reactivate
  BY <1>16, <1>d DEF Reactivate
<1>17. CASE UNCHANGED vars
  BY <1>17, <1>d DEF vars
<1>. QED BY <1>1, <1>2, <1>3, <1>4, <1>5, <1>6, <1>7, <1>8, <1>9, <1>10, <1>11, <1>12,
            <1>13, <1>14, <1>15, <1>16, <1>17 DEF Next, Login, Refresh, Confirm, Deactivate

(* Whoever confirms a reset and was not overtaken by another one holds a     *)
(* token that was sent after every completed reset.                          *)
THEOREM ResetsAreUsedOnce == Spec => []ResetsSingleUse
<1>1. Init => ResetInv
  BY DEF Init, Created, Registered, ResetInv, ResetsSingleUse, Idle
<1>2. TypeOK /\ TypeOK' /\ ResetInv /\ [Next]_vars => ResetInv'
  BY ResetInvariant
<1>3. ResetInv => ResetsSingleUse
  BY DEF ResetInv
<1>. QED BY <1>1, <1>2, <1>3, TypeCorrect, PTL DEF Spec
=============================================================================
