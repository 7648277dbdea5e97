------------------------------- MODULE Lending -------------------------------
(***************************************************************************)
(* What the plugin plane promises the installs that use one another: an    *)
(* install that starts to serve borrows only from installs that serve, a   *)
(* lender that wants to stop winds down first and stops only when nothing  *)
(* is borrowed from it, and one that is gone stays gone.                   *)
(*                                                                         *)
(* One command may move several installs, each on what was committed       *)
(* before it.                                                              *)
(***************************************************************************)
CONSTANT Members

VARIABLES
    stage,   \* "absent", "idle", "serving", "leaving" or "gone"
    loans    \* pairs of a borrower and its lender

Open == {"serving", "leaving"}

Lent(m) == \E b \in Members : <<b, m>> \in loans

Moves(m) ==
    CASE stage[m] = "absent" -> {"absent", "idle"}
      [] stage[m] = "idle" -> {"idle", "serving", "gone"}
      [] stage[m] = "serving" -> {"serving", "leaving"} \cup IF Lent(m) THEN {} ELSE {"idle"}
      [] stage[m] = "leaving" -> {"leaving"} \cup IF Lent(m) THEN {} ELSE {"idle"}
      [] stage[m] = "gone" -> {"gone"}

Init ==
    /\ stage = [m \in Members |-> "absent"]
    /\ loans = {}

\* Who serves keeps its loans, who stopped has none, and only who starts borrows.
Next ==
    /\ DOMAIN stage' = Members
    /\ \A m \in Members : stage'[m] \in Moves(m)
    /\ \A l \in loans : stage'[l[1]] = "serving" => l \in loans'
    /\ \A l \in loans' : stage'[l[1]] \in Open
    /\ \A l \in loans' \ loans :
          /\ stage[l[1]] = "idle" /\ stage'[l[1]] = "serving"
          /\ stage[l[2]] = "serving" /\ stage'[l[2]] = "serving"

Spec == Init /\ [][Next]_<<stage, loans>>
=============================================================================
