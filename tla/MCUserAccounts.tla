--------------------------- MODULE MCUserAccounts ---------------------------
(* Instance of UserAccounts for TLC.                                        *)
EXTENDS UserAccounts, TLC

CONSTANTS boss, u1, u2

Symmetry == Permutations(Sessions) \cup Permutations(Secrets) \cup Permutations({u1, u2})

(* Bound: either one column family of boss is in use besides its role, or    *)
(* other accounts exist; no operation reads one of these to change another.  *)
OneFamily ==
  LET guessing == row[boss].failed > 0 \/ \E s \in Sessions : tx[s].op = "fail"
      enrolling == issued # {}
      others == \E u \in {u1, u2} : row[u].role # "none" \/ \E s \in Sessions : tx[s].target = u
  IN  ~(guessing /\ others) /\ ~(enrolling /\ others)
=============================================================================
