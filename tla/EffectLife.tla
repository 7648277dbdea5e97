----------------------------- MODULE EffectLife -----------------------------
(***************************************************************************)
(* What the kernel promises about every effect it emits, whoever works on  *)
(* it: it is handed out to one worker at a time, one that was handed out   *)
(* gets an outcome and is not withdrawn, an outcome is final, and only an  *)
(* effect whose call may be repeated is handed out again.                  *)
(*                                                                         *)
(* One transaction of the kernel may move several effects: a settlement    *)
(* emits a batch, a cancel withdraws what nobody has taken, a sweep closes *)
(* what dead workers left.                                                 *)
(***************************************************************************)
CONSTANTS
    Effects,
    Repeatable    \* effects whose call may be made again

VARIABLE status   \* "none" until the effect is emitted

Status == {"none", "ready", "claimed", "settled", "cancelled"}

\* The states an effect may be in after a step.
Moves(e) ==
    CASE status[e] = "none" -> {"none", "ready"}
      [] status[e] = "ready" -> {"ready", "claimed", "cancelled"}
      [] status[e] = "claimed" /\ e \in Repeatable -> {"ready", "claimed", "settled"}
      [] status[e] = "claimed" /\ e \notin Repeatable -> {"claimed", "settled"}
      [] OTHER -> {status[e]}

HandedOut(e) == status[e] # "claimed" /\ status'[e] = "claimed"

Init == status \in [Effects -> {"none", "ready"}]

Next ==
    /\ status' \in [Effects -> Status]
    /\ \A e \in Effects : status'[e] \in Moves(e)
    /\ \A e, f \in Effects : HandedOut(e) /\ HandedOut(f) => e = f

Spec == Init /\ [][Next]_status
=============================================================================
