--------------------------- MODULE SessionFamilies ---------------------------
(***************************************************************************)
(* What refresh-token rotation promises an account: every login opens a    *)
(* family, which one carrier at a time keeps going (its current token, or  *)
(* the request that is exchanging that token for the next).  Presenting    *)
(* the token passes the family on, it is never shared or split, and once a  *)
(* family has no carrier it is over.                                       *)
(***************************************************************************)
CONSTANTS Families, Carriers

VARIABLES opened,    \* families that were ever opened
          carry      \* carry[f]: the carrier of f, as a set that may be empty

vars == <<opened, carry>>

Nothing == [f \in Families |-> {}]

(* A user who registers is logged in at once. *)
Init ==
  \/ opened = {} /\ carry = Nothing
  \/ \E f \in Families, c \in Carriers :
       opened = {f} /\ carry = [Nothing EXCEPT ![f] = {c}]

Unoccupied(c) == \A f \in Families : c \notin carry[f]

Open(f, c) ==
  /\ f \notin opened /\ Unoccupied(c)
  /\ opened' = opened \cup {f} /\ carry' = [carry EXCEPT ![f] = {c}]

Pass(f, c) ==
  /\ \E d \in Carriers : carry[f] = {d}
  /\ Unoccupied(c)
  /\ carry' = [carry EXCEPT ![f] = {c}] /\ UNCHANGED opened

(* Logout, expiry, a failed exchange, or all at once by a closing. *)
End(F) ==
  /\ carry' = [f \in Families |-> IF f \in F THEN {} ELSE carry[f]]
  /\ UNCHANGED opened

Next ==
  \/ \E F \in SUBSET Families : End(F)
  \/ \E f \in Families, c \in Carriers : Open(f, c) \/ Pass(f, c)

Spec == Init /\ [][Next]_vars
=============================================================================
