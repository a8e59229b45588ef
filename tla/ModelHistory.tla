---------------------------- MODULE ModelHistory ----------------------------
(***************************************************************************)
(* What an owner may rely on when retraining goes wrong: every save adds a *)
(* newer version that is the current one, only the oldest versions are     *)
(* ever let go, only when enough newer ones are there, and any version     *)
(* still there can be made the current one again.                          *)
(***************************************************************************)
EXTENDS Naturals, FiniteSets

CONSTANT Keep     \* versions that are left once any is let go

VARIABLES history,   \* versions that are there
          current,   \* the one in use, as a set that may be empty
          last       \* the last version ever saved

vars == <<history, current, last>>

Init == history = {} /\ current = {} /\ last = 0

Save ==
  /\ last' > last
  /\ last' \in history' /\ history' \subseteq history \cup {last'}
  /\ \A v \in history \ history', w \in history' : v < w
  /\ history \subseteq history' \/ Cardinality(history') >= Keep
  /\ current' = {last'}

Restore ==
  /\ \E v \in history : current' = {v}
  /\ UNCHANGED <<history, last>>

Next == Save \/ Restore

Spec == Init /\ [][Next]_vars
=============================================================================
