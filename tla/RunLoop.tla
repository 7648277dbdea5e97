------------------------------ MODULE RunLoop ------------------------------
(***************************************************************************)
(* The agent run loop of the v24 kernel (v24/sql).  A run is driven by     *)
(* business effects: one model call at a time, each of which may fan out   *)
(* into a batch of tool calls.  Workers claim ready effects under a lease  *)
(* and settle them; users start, steer, answer and cancel runs; a recovery *)
(* sweep resolves claims whose lease has run out.                          *)
(*                                                                         *)
(* Every state change of the kernel goes through v24.advance, which holds  *)
(* one advisory lock for its whole transaction, so each command, claim and *)
(* settlement is one atomic action here.  A call the kernel answers with   *)
(* an error and no domain write is a disabled action.                      *)
(***************************************************************************)
EXTENDS Integers, FiniteSets, FiniteSetsExt

CONSTANTS
  Runs,        \* identities of run rows
  Roots,       \* the runs a start command may create; the others are children
  Keys,        \* capability keys a run can pin and a tool call can name
  SpawnKeys,   \* spawn_key values an agent.spawn intent can carry
  None,        \* SQL NULL, for parents and keys
  Budgets,     \* budgets a start command may carry
  Grants,      \* budgets an agent.spawn intent may carry
  Usages,      \* token usages a receipt may report
  ReserveCap,  \* loop_policy().reserve_tokens
  MaxModels,   \* bound: model calls of one run
  MaxTools,    \* loop_policy().max_tool_calls
  MaxGen,      \* bound: generations a run may reach by steering
  SweepLimit   \* effects one recovery sweep may take

Unlimited == -1   \* remaining_tokens IS NULL

Budget == [steps : Nat, calls : Nat, tokens : Nat \cup {Unlimited}, wall : Nat]

ASSUME RunAssumption ==
  /\ Roots \subseteq Runs
  /\ None \notin Runs /\ None \notin Keys /\ None \notin SpawnKeys

ASSUME BoundAssumption ==
  /\ MaxModels \in Nat \ {0} /\ MaxTools \in Nat /\ MaxGen \in Nat
  /\ ReserveCap \in Nat \ {0} /\ SweepLimit \in Nat \ {0}
  /\ Usages \subseteq Nat

\* interpret_start and the spawn admission reject smaller budgets.
ASSUME BudgetAssumption ==
  /\ Budgets \subseteq Budget
  /\ \A b \in Budgets : b.steps >= 1 /\ b.wall >= 1
  /\ Grants \subseteq Budget
  /\ \A g \in Grants :
       g.steps >= 1 /\ g.calls >= 1 /\ g.wall >= 1 /\ g.tokens # 0

VARIABLES
  runs,      \* v24.runs
  effects,   \* v24.effects of kind model_call and tool_call
  pins       \* keys of the live (unreleased) run pins in v24.pins

vars == <<runs, effects, pins>>

-----------------------------------------------------------------------------
(* Rows.  An effect is named by its run, by the number of the model call it *)
(* is or belongs to, and by its ordinal: 0 for the model call itself and    *)
(* 1..MaxTools for the tools of its batch.                                  *)

Eff == Runs \X (1..MaxModels) \X (0..MaxTools)
RunOf(e) == e[1]
ModelOf(e) == <<e[1], e[2], 0>>
IsModel(e) == e[3] = 0
IsTool(e) == e[3] # 0
EffectsOf(r) == {e \in Eff : RunOf(e) = r}

RunStatus == {"none", "running", "waiting", "completed", "failed",
              "cancelled", "blocked_unknown"}
Terminal == {"completed", "failed", "cancelled", "blocked_unknown"}
EffectStatus == {"none", "ready", "claimed", "succeeded", "failed",
                 "unknown", "cancelled"}
CloseIntent == {"none", "final", "budget", "abort", "unknown", "cancel"}

NoSteer == [epoch |-> 0, gen |-> 0]   \* pending_steer IS NULL
NoBudget == [steps |-> 0, calls |-> 0, tokens |-> 0, wall |-> 0]

Run == [status : RunStatus, epoch : Nat, gen : Nat,
        steps : Nat, calls : Nat, tokens : Nat \cup {Unlimited}, wall : Nat,
        interaction : 0..MaxModels, pending : [epoch : Nat, gen : Nat],
        close : CloseIntent, models : 0..MaxModels,
        parent : Runs \cup {None}, spawnkey : SpawnKeys \cup {None},
        granted : Budget]

Effect == [status : EffectStatus, epoch : Nat, gen : Nat, key : Keys \cup {None},
           reserve : Nat, charge : Nat, from : 0..MaxModels,
           cancelreq : BOOLEAN, expired : BOOLEAN]

NoRun == [status |-> "none", epoch |-> 0, gen |-> 0,
          steps |-> 0, calls |-> 0, tokens |-> 0, wall |-> 0,
          interaction |-> 0, pending |-> NoSteer, close |-> "none", models |-> 0,
          parent |-> None, spawnkey |-> None, granted |-> NoBudget]

NoEffect == [status |-> "none", epoch |-> 0, gen |-> 0, key |-> None,
             reserve |-> 0, charge |-> 0, from |-> 0,
             cancelreq |-> FALSE, expired |-> FALSE]

Live(e) == effects[e].status \in {"ready", "claimed"}

\* Business effects never reach resource_quiesced_at once unknown: inspection
\* targets host effects only.  So an unknown effect blocks like a live one.
Blocks(e) == Live(e) \/ effects[e].status = "unknown"

\* The settling effect belongs to an older generation than the run drives.
Late(e) == \/ effects[e].gen # runs[RunOf(e)].gen
           \/ effects[e].epoch # runs[RunOf(e)].epoch

\* Mutation of CancelLate: a revoked claim is treated like any other.
CancelLateIgnored(e) == FALSE

\* A claim that cancel revoked may still report its fact and its cost.
CancelLate(e) == /\ runs[RunOf(e)].status = "cancelled"
                 /\ effects[e].status = "claimed"
                 /\ effects[e].cancelreq

-----------------------------------------------------------------------------
(* Budgets. *)

ModelReserve(tokens) ==
  IF tokens <= 0 THEN 0 ELSE IF tokens < ReserveCap THEN tokens ELSE ReserveCap

Debit(tokens, n) == IF tokens = Unlimited THEN Unlimited ELSE tokens - n

\* Mutation of Refund: greatest(0, ...) dropped.
RefundUnclamped(tokens, reserve, usage) ==
  IF tokens = Unlimited THEN Unlimited ELSE tokens + reserve - usage

\* Success and failure give back reserve - usage, never below zero.
Refund(tokens, reserve, usage) ==
  IF tokens = Unlimited THEN Unlimited
  ELSE IF tokens + reserve < usage THEN 0 ELSE tokens + reserve - usage

\* Zero tokens is exhausted, NULL is unlimited.
Admits(run) == run.steps >= 1 /\ run.wall > 0 /\ run.tokens # 0

\* The run after one more model call is admitted, and that call's row.
AdmitModel(run) ==
  [run EXCEPT !.steps = @ - 1,
              !.tokens = Debit(@, ModelReserve(@)),
              !.models = @ + 1]

ModelRow(run, epoch, gen, from) ==
  [NoEffect EXCEPT !.status = "ready", !.epoch = epoch, !.gen = gen,
                   !.reserve = ModelReserve(run.tokens), !.from = from]

NextModel(r) == <<r, runs[r].models + 1, 0>>
RoomForModel(r) == runs[r].models < MaxModels

-----------------------------------------------------------------------------
(* Seals and pins. *)

LoopSealable(r, settled, pending, fromWaiting) ==
  /\ runs[r].status = "running" \/ (fromWaiting /\ runs[r].status = "waiting")
  /\ pending = NoSteer
  /\ \A e \in EffectsOf(r) \ settled : ~Blocks(e)

RunPinReleaseSet(r, settled) ==
  {k \in pins[r] : \A e \in EffectsOf(r) \ settled :
                      effects[e].key = k => ~Blocks(e)}

\* Mutation of SteerConsumable: the closing settlement overlooks the steer.
SteerNeverConsumable(r, self) == FALSE

SteerConsumable(r, self) ==
  /\ runs[r].pending # NoSteer
  /\ runs[r].status \notin Terminal
  /\ effects[self].epoch < runs[r].epoch \/ effects[self].gen < runs[r].gen
  /\ \A e \in EffectsOf(r) \ {self} :
       Live(e) => ~(effects[e].epoch < runs[r].epoch \/ effects[e].gen < runs[r].gen)

SealRun(run, close) ==
  [run EXCEPT !.status = CASE close \in {"final", "budget"} -> "completed"
                           [] close = "abort" -> "failed"
                           [] close = "unknown" -> "blocked_unknown",
              !.close = close, !.interaction = 0, !.pending = NoSteer]

\* The effect's row once its receipt is stored.
Settled(e, status, charge) ==
  [effects EXCEPT ![e] = [@ EXCEPT !.status = status, !.charge = charge,
                                   !.expired = FALSE]]

Commit(r, run, rows, released) ==
  /\ runs' = [runs EXCEPT ![r] = run]
  /\ effects' = rows
  /\ pins' = [pins EXCEPT ![r] = @ \ released]

-----------------------------------------------------------------------------
(* User commands.  expected_generation and interaction_id are checked       *)
(* against the row under the lock, so a command that applies carries the    *)
(* current ones.                                                            *)

Started(b) ==
  [NoRun EXCEPT !.status = "running", !.epoch = 1, !.gen = 1,
                !.steps = b.steps, !.calls = b.calls,
                !.tokens = b.tokens, !.wall = b.wall, !.granted = b]

Start(r, b, required) ==
  /\ runs[r].status = "none" /\ r \in Roots
  /\ runs' = [runs EXCEPT ![r] = AdmitModel(Started(b))]
  /\ effects' = [effects EXCEPT ![<<r, 1, 0>>] = ModelRow(Started(b), 1, 1, 0)]
  /\ pins' = [pins EXCEPT ![r] = required]

ReadyOf(r) == {e \in EffectsOf(r) : effects[e].status = "ready"}
ClaimedOf(r) == {e \in EffectsOf(r) : effects[e].status = "claimed"}

\* At most one model call is ready, so the refund is its reserve.
ReadyReserve(r) ==
  IF \E e \in ReadyOf(r) : IsModel(e)
  THEN effects[CHOOSE e \in ReadyOf(r) : IsModel(e)].reserve ELSE 0

\* Mutation of Credit: archiving a ready model call keeps its reserve.
CreditNothing(tokens, n) == tokens

Credit(tokens, n) == IF tokens = Unlimited THEN Unlimited ELSE tokens + n

\* Ready effects leave the queue unexecuted; cancel also marks the claimed ones.
Archived(r, revoke) ==
  [e \in Eff |->
     IF e \in ReadyOf(r) THEN [effects[e] EXCEPT !.status = "cancelled"]
     ELSE IF revoke /\ e \in ClaimedOf(r) THEN [effects[e] EXCEPT !.cancelreq = TRUE]
     ELSE effects[e]]

Cancelled(r) ==
  [runs[r] EXCEPT !.status = "cancelled", !.interaction = 0,
                  !.pending = NoSteer, !.close = "cancel",
                  !.tokens = Credit(@, ReadyReserve(r)), !.gen = @ + 1]

\* Mutation of Cancel: claimed effects are not marked.
CancelWithoutRevoking(r) ==
  /\ runs[r].status \in {"running", "waiting"}
  /\ Commit(r, Cancelled(r), Archived(r, FALSE), RunPinReleaseSet(r, ReadyOf(r)))

\* Mutation of Cancel: the pin predicate counts the archived effects as ready.
CancelKeepingPins(r) ==
  /\ runs[r].status \in {"running", "waiting"}
  /\ Commit(r, Cancelled(r), Archived(r, TRUE), RunPinReleaseSet(r, {}))

Cancel(r) ==
  /\ runs[r].status \in {"running", "waiting"}
  /\ Commit(r, Cancelled(r), Archived(r, TRUE), RunPinReleaseSet(r, ReadyOf(r)))

Steered(r) ==
  [runs[r] EXCEPT !.status = "running", !.interaction = 0, !.pending = NoSteer,
                  !.tokens = Credit(@, ReadyReserve(r)),
                  !.epoch = @ + 1, !.gen = @ + 1]

\* Mutation of SteerDeferred: ready siblings of the claimed effect are kept.
SteerDeferredKeepingReady(r) ==
  /\ runs[r].status \in {"running", "waiting"} /\ runs[r].gen < MaxGen
  /\ ClaimedOf(r) # {}
  /\ Commit(r,
            [Steered(r) EXCEPT !.pending = [epoch |-> runs[r].epoch + 1,
                                            gen |-> runs[r].gen + 1]],
            effects, {})

\* A claimed effect defers the steer: the latest instruction waits for it.
SteerDeferred(r) ==
  /\ runs[r].status \in {"running", "waiting"} /\ runs[r].gen < MaxGen
  /\ ClaimedOf(r) # {}
  /\ Commit(r,
            [Steered(r) EXCEPT !.pending = [epoch |-> runs[r].epoch + 1,
                                            gen |-> runs[r].gen + 1]],
            Archived(r, FALSE), {})

\* Mutation of SteerAdmitted: claimed work does not defer the steer.
SteerAdmittedAtOnce(r) ==
  /\ runs[r].status \in {"running", "waiting"} /\ runs[r].gen < MaxGen
  /\ Admits(Steered(r)) /\ RoomForModel(r)
  /\ Commit(r, AdmitModel(Steered(r)),
            [Archived(r, FALSE) EXCEPT ![NextModel(r)] =
               ModelRow(Steered(r), runs[r].epoch + 1, runs[r].gen + 1, 0)],
            {})

SteerAdmitted(r) ==
  /\ runs[r].status \in {"running", "waiting"} /\ runs[r].gen < MaxGen
  /\ ClaimedOf(r) = {} /\ Admits(Steered(r)) /\ RoomForModel(r)
  /\ Commit(r, AdmitModel(Steered(r)),
            [Archived(r, FALSE) EXCEPT ![NextModel(r)] =
               ModelRow(Steered(r), runs[r].epoch + 1, runs[r].gen + 1, 0)],
            {})

\* Neither claimed work nor budget.  The seal does not reach a waiting run, and
\* the pin release set still sees the archived tools as ready.
SteerExhausted(r) ==
  /\ runs[r].status \in {"running", "waiting"} /\ runs[r].gen < MaxGen
  /\ ClaimedOf(r) = {} /\ ~Admits(Steered(r))
  /\ IF LoopSealable(r, ReadyOf(r), NoSteer, FALSE)
     THEN Commit(r, SealRun(Steered(r), "budget"), Archived(r, FALSE),
                 RunPinReleaseSet(r, {}))
     ELSE Commit(r, Steered(r), Archived(r, FALSE), {})

Answered(r) ==
  [runs[r] EXCEPT !.status = "running", !.interaction = 0, !.gen = @ + 1]

RespondAdmitted(r) ==
  /\ runs[r].status = "waiting" /\ runs[r].interaction # 0
  /\ Admits(runs[r]) /\ RoomForModel(r)
  /\ Commit(r, AdmitModel(Answered(r)),
            [effects EXCEPT ![NextModel(r)] =
               ModelRow(runs[r], runs[r].epoch, runs[r].gen + 1, 0)],
            {})

RespondExhausted(r) ==
  /\ runs[r].status = "waiting" /\ runs[r].interaction # 0
  /\ ~Admits(runs[r])
  /\ IF LoopSealable(r, {}, NoSteer, TRUE)
     THEN Commit(r, SealRun(Answered(r), "budget"), effects, RunPinReleaseSet(r, {}))
     ELSE Commit(r, Answered(r), effects, {})

-----------------------------------------------------------------------------
(* Workers: claims and their leases. *)

\* A claim looks at the effect and its pin, not at the run's status or
\* generation; only a spawned run's first model call needs a running run.
Claimable(e) ==
  /\ IsTool(e) => effects[e].key \in pins[RunOf(e)]
  /\ (e[2] = 1 /\ IsModel(e) /\ runs[RunOf(e)].parent # None)
       => runs[RunOf(e)].status = "running"

\* An expired business claim is never handed out again: it answers stale_claim.
Claim(e) ==
  /\ effects[e].status = "ready" /\ Claimable(e)
  /\ effects' = [effects EXCEPT ![e] = [@ EXCEPT !.status = "claimed"]]
  /\ UNCHANGED <<runs, pins>>

\* now() passes lease_until; the claim itself is untouched.
ExpireLease(e) ==
  /\ effects[e].status = "claimed" /\ ~effects[e].expired
  /\ effects' = [effects EXCEPT ![e] = [@ EXCEPT !.expired = TRUE]]
  /\ UNCHANGED <<runs, pins>>

-----------------------------------------------------------------------------
(* Settlement of a model call.  w is remaining_wall_ms once the time since  *)
(* the effect was created is taken off; u is the usage the receipt reports. *)

ModelSettles(e) ==
  /\ IsModel(e) /\ effects[e].status = "claimed"
  /\ runs[RunOf(e)].status \in {"running", "waiting"} \/ CancelLate(e)

\* More usage than was reserved is a receipt that proves itself wrong.
Trusted(e, u) == effects[e].reserve > 0 => u <= effects[e].reserve

Paid(e, u, w) ==
  [runs[RunOf(e)] EXCEPT !.tokens = Refund(@, effects[e].reserve, u), !.wall = w]

\* An unknown outcome, or a receipt that breaks the semantic rules (untrusted
\* usage, a tool key without a live pin), keeps the whole reserve spent.
SettleModelUnknown(e, w) ==
  LET r == RunOf(e)
      run == [runs[r] EXCEPT !.wall = w]
      rows == Settled(e, "unknown", effects[e].reserve)
  IN /\ ModelSettles(e)
     /\ IF CancelLate(e)
        THEN Commit(r, run, rows, RunPinReleaseSet(r, {}))
        ELSE Commit(r, SealRun(run, "unknown"), rows, RunPinReleaseSet(r, {e}))

SettleModelCancelLate(e, status, u, w) ==
  /\ ModelSettles(e) /\ CancelLate(e) /\ Trusted(e, u)
  /\ Commit(RunOf(e), Paid(e, u, w), Settled(e, status, u),
            RunPinReleaseSet(RunOf(e), {e}))

\* A settlement that publishes a model call is refused while another one is live.
NoOtherModel(r, self) == \A e \in EffectsOf(r) \ {self} : IsModel(e) => ~Live(e)

\* The last old-generation settlement turns the pending steer into one model call.
ConsumeSteer(r, self, run, rows) ==
  IF Admits(run)
  THEN /\ RoomForModel(r) /\ NoOtherModel(r, self)
       /\ Commit(r, [AdmitModel(run) EXCEPT !.pending = NoSteer],
                 [rows EXCEPT ![NextModel(r)] =
                    ModelRow(run, run.pending.epoch,
                             IF run.gen > run.pending.gen THEN run.gen ELSE run.pending.gen,
                             0)],
                 {})
  ELSE IF LoopSealable(r, {self}, NoSteer, FALSE)
  THEN Commit(r, SealRun(run, "budget"), rows, RunPinReleaseSet(r, {self}))
  ELSE Commit(r, [run EXCEPT !.pending = NoSteer], rows, {})

\* An old failure is only accepted together with the steer it consumes.
SettleModelLate(e, status, u, w) ==
  LET r == RunOf(e)
      run == Paid(e, u, w)
      rows == Settled(e, status, u)
  IN /\ ModelSettles(e) /\ ~CancelLate(e) /\ Trusted(e, u) /\ Late(e)
     /\ status = "failed" => SteerConsumable(r, e)
     /\ IF SteerConsumable(r, e)
        THEN ConsumeSteer(r, e, run, rows)
        ELSE Commit(r, run, rows, {})

\* The settling call belongs to the generation the run drives.
ModelSettlesNow(e, u) ==
  ModelSettles(e) /\ ~CancelLate(e) /\ Trusted(e, u) /\ ~Late(e)

SettleModelFailure(e, u, w) ==
  /\ ModelSettlesNow(e, u) /\ LoopSealable(RunOf(e), {e}, NoSteer, FALSE)
  /\ Commit(RunOf(e), SealRun(Paid(e, u, w), "abort"), Settled(e, "failed", u),
            RunPinReleaseSet(RunOf(e), {e}))

\* Seal the run, or freeze the close intent until the last effect settles.
CloseRun(e, run, rows, close) ==
  IF LoopSealable(RunOf(e), {e}, run.pending, FALSE)
  THEN Commit(RunOf(e), SealRun(run, close), rows, RunPinReleaseSet(RunOf(e), {e}))
  ELSE Commit(RunOf(e), [run EXCEPT !.close = close], rows, {})

SettleModelFinal(e, u, w) ==
  /\ ModelSettlesNow(e, u)
  /\ CloseRun(e, Paid(e, u, w), Settled(e, "succeeded", u), "final")

SettleModelInteraction(e, u, w) ==
  /\ ModelSettlesNow(e, u)
  /\ Commit(RunOf(e),
            [Paid(e, u, w) EXCEPT !.status = "waiting", !.interaction = e[2],
                                  !.close = "none", !.pending = NoSteer],
            Settled(e, "succeeded", u), {})

\* Plain text continues with the next model call while the budget lasts.
SettleModelText(e, u, w) ==
  LET r == RunOf(e)
      run == Paid(e, u, w)
      rows == Settled(e, "succeeded", u)
  IN /\ ModelSettlesNow(e, u)
     /\ IF Admits(run)
        THEN /\ RoomForModel(r) /\ NoOtherModel(r, e)
             /\ Commit(r, [AdmitModel(run) EXCEPT !.close = "none"],
                       [rows EXCEPT ![NextModel(r)] =
                          ModelRow(run, run.epoch, run.gen, e[2])],
                       {})
        ELSE CloseRun(e, run, rows, "budget")

ToolRow(run, key) ==
  [NoEffect EXCEPT !.status = "ready", !.epoch = run.epoch, !.gen = run.gen,
                   !.key = key]

\* batch gives the pinned key each of the n tool calls names.
SettleModelTools(e, u, w, n, batch) ==
  LET r == RunOf(e)
      run == Paid(e, u, w)
      rows == Settled(e, "succeeded", u)
  IN /\ ModelSettlesNow(e, u)
     /\ IF n > run.calls
        THEN CloseRun(e, run, rows, "budget")
        ELSE Commit(r, [run EXCEPT !.calls = @ - n],
                    [x \in Eff |-> IF ModelOf(x) = e /\ x[3] \in 1..n
                                   THEN ToolRow(run, batch[x[3]]) ELSE rows[x]],
                    {})

-----------------------------------------------------------------------------
(* Spawning: a model receipt may carry one agent.spawn intent. *)

\* Mutation of ChildrenOf: the lookup misses the existing child.
ChildrenOfMissed(r, key) == {}

ChildrenOf(r, key) ==
  {c \in Runs : runs[c].status # "none" /\ runs[c].parent = r /\ runs[c].spawnkey = key}

Fits(g, run) ==
  /\ g.steps <= run.steps /\ g.calls <= run.calls /\ g.wall <= run.wall
  /\ run.tokens # Unlimited => g.tokens # Unlimited /\ g.tokens <= run.tokens

\* Mutation of SpawnChild: the parent keeps the tokens and steps it granted.
SpawnChildFree(e, u, w, key, g, c, owned) ==
  LET r == RunOf(e)
      child == [NoRun EXCEPT !.status = "running", !.steps = g.steps,
                             !.calls = g.calls, !.wall = g.wall, !.models = 1,
                             !.tokens = Debit(g.tokens, ModelReserve(g.tokens)),
                             !.parent = r, !.spawnkey = key, !.granted = g]
  IN /\ ModelSettlesNow(e, u) /\ runs[r].status = "running"
     /\ ChildrenOf(r, key) = {} /\ Fits(g, Paid(e, u, w))
     /\ runs[c].status = "none" /\ c \notin Roots
     /\ runs' = [runs EXCEPT ![r] = Paid(e, u, w), ![c] = child]
     /\ effects' = [Settled(e, "succeeded", u) EXCEPT
          ![<<c, 1, 0>>] = ModelRow(g, 0, 0, 0)]
     /\ pins' = [pins EXCEPT ![c] = owned]

\* The first model call is reserved from the grant but takes none of its steps.
SpawnChild(e, u, w, key, g, c, owned) ==
  LET r == RunOf(e)
      run == Paid(e, u, w)
      child == [NoRun EXCEPT !.status = "running", !.steps = g.steps,
                             !.calls = g.calls, !.wall = g.wall, !.models = 1,
                             !.tokens = Debit(g.tokens, ModelReserve(g.tokens)),
                             !.parent = r, !.spawnkey = key, !.granted = g]
  IN /\ ModelSettlesNow(e, u) /\ runs[r].status = "running"
     /\ ChildrenOf(r, key) = {} /\ Fits(g, run)
     /\ runs[c].status = "none" /\ c \notin Roots
     /\ runs' = [runs EXCEPT
          ![r] = [run EXCEPT !.close = "none", !.interaction = 0,
                             !.steps = @ - g.steps, !.calls = @ - g.calls,
                             !.wall = @ - g.wall, !.tokens = Debit(@, g.tokens)],
          ![c] = child]
     /\ effects' = [Settled(e, "succeeded", u) EXCEPT
          ![<<c, 1, 0>>] = ModelRow(g, 0, 0, 0)]
     /\ pins' = [pins EXCEPT ![c] = owned]

\* The same key with the same arguments settles the call and changes no quota.
SpawnReplay(e, u, w, key, g) ==
  /\ ModelSettlesNow(e, u) /\ runs[RunOf(e)].status = "running"
  /\ \E c \in ChildrenOf(RunOf(e), key) : runs[c].granted = g
  /\ Commit(RunOf(e), [Paid(e, u, w) EXCEPT !.close = "none", !.interaction = 0],
            Settled(e, "succeeded", u), {})

-----------------------------------------------------------------------------
(* Settlement of a tool call. *)

ToolSettles(e) ==
  /\ IsTool(e) /\ effects[e].status = "claimed"
  /\ runs[RunOf(e)].status # "blocked_unknown"

Elapsed(e, w) == [runs[RunOf(e)] EXCEPT !.wall = w]

\* Mutation of SettleToolUnknown: an old generation's unknown is a mere fact.
SettleToolUnknownLate(e, w) ==
  /\ ToolSettles(e)
  /\ Commit(RunOf(e), IF Late(e) THEN Elapsed(e, w) ELSE SealRun(Elapsed(e, w), "unknown"),
            Settled(e, "unknown", 0), RunPinReleaseSet(RunOf(e), {}))

\* The unknown tool keeps its own pin.
SettleToolUnknown(e, w) ==
  LET r == RunOf(e)
      rows == Settled(e, "unknown", 0)
  IN /\ ToolSettles(e)
     /\ Commit(r, IF CancelLate(e) THEN Elapsed(e, w) ELSE SealRun(Elapsed(e, w), "unknown"),
               rows, RunPinReleaseSet(r, {}))

\* Mutation of Siblings: every tool settlement believes it closes the batch.
SiblingsIgnored(e) == {}

Siblings(e) == {x \in EffectsOf(RunOf(e)) \ {e} : ModelOf(x) = ModelOf(e) /\ IsTool(x)}

\* A terminal run or an older generation observes only the fact.
ToolLate(e) == runs[RunOf(e)].status \in Terminal \/ Late(e)

Continued(e) == \E x \in EffectsOf(RunOf(e)) : IsModel(x) /\ effects[x].from = e[2]

\* The batch is still open: the fact is recorded and nothing is published.
SettleToolOpen(e, status, w) ==
  LET r == RunOf(e)
  IN /\ ToolSettles(e) /\ \E x \in Siblings(e) : Live(x)
     /\ Commit(r, Elapsed(e, w), Settled(e, status, 0),
               IF runs[r].status \in Terminal THEN RunPinReleaseSet(r, {e}) ELSE {})

\* The batch closes behind a cancel, a steer or a seal.
SettleToolLate(e, status, w) ==
  LET r == RunOf(e)
      rows == Settled(e, status, 0)
  IN /\ ToolSettles(e) /\ \A x \in Siblings(e) : ~Live(x)
     /\ ~Continued(e) /\ ToolLate(e)
     /\ IF SteerConsumable(r, e)
        THEN ConsumeSteer(r, e, Elapsed(e, w), rows)
        ELSE Commit(r, Elapsed(e, w), rows,
                    IF runs[r].status \in Terminal THEN RunPinReleaseSet(r, {e}) ELSE {})

\* The batch closes in its own generation: exactly one continuation, or a seal.
SettleToolClosing(e, status, w) ==
  LET r == RunOf(e)
      run == Elapsed(e, w)
      rows == Settled(e, status, 0)
  IN /\ ToolSettles(e) /\ \A x \in Siblings(e) : ~Live(x)
     /\ ~Continued(e) /\ ~ToolLate(e)
     /\ IF run.close = "final"
        THEN CloseRun(e, run, rows, "final")
        ELSE /\ NoOtherModel(r, e)
             /\ IF Admits(run)
                THEN /\ RoomForModel(r)
                     /\ Commit(r, [AdmitModel(run) EXCEPT !.close = "none"],
                               [rows EXCEPT ![NextModel(r)] =
                                  ModelRow(run, run.epoch, run.gen, e[2])],
                               {})
                ELSE CloseRun(e, run, rows, "budget")

-----------------------------------------------------------------------------
(* Recovery.  One sweep takes up to SweepLimit expired claims and settles   *)
(* each as unknown; every projection reads the state before the sweep.      *)

Expired == {e \in Eff : effects[e].status = "claimed" /\ effects[e].expired}

\* Mutation of Recover: business effects go back to ready like host effects do.
RecoverByReset(S, wall) ==
  /\ S # {} /\ S \subseteq Expired /\ Cardinality(S) <= SweepLimit
  /\ effects' = [e \in Eff |->
       IF e \in S THEN [effects[e] EXCEPT !.status = "ready", !.expired = FALSE]
       ELSE effects[e]]
  /\ UNCHANGED <<runs, pins>>

\* The run behind the unknown wall.  A cancelled run keeps its seal.
Walled(r, hit, w) ==
  LET run == [runs[r] EXCEPT !.wall = w]
  IN IF \A e \in hit : CancelLate(e) THEN run ELSE SealRun(run, "unknown")

\* wall gives each run's remaining_wall_ms after the sweep.
Recover(S, wall) ==
  LET Hit(r) == S \cap EffectsOf(r)
      SealKept(r) == \A e \in Hit(r) : CancelLate(e)
  IN /\ S # {} /\ S \subseteq Expired /\ Cardinality(S) <= SweepLimit
     /\ effects' = [e \in Eff |->
          IF e \in S
          THEN [effects[e] EXCEPT !.status = "unknown", !.expired = FALSE,
                                  !.charge = effects[e].reserve]
          ELSE effects[e]]
     /\ runs' = [r \in Runs |->
          IF Hit(r) = {} THEN runs[r] ELSE Walled(r, Hit(r), wall[r])]
     /\ pins' = [r \in Runs |->
          IF Hit(r) = {} THEN pins[r]
          ELSE pins[r] \ RunPinReleaseSet(r, {e \in Hit(r) : IsModel(e) /\ ~SealKept(r)})]

-----------------------------------------------------------------------------

Init ==
  /\ runs = [r \in Runs |-> NoRun]
  /\ effects = [e \in Eff |-> NoEffect]
  /\ pins = [r \in Runs |-> {}]

WallAfter(e) == 0..runs[RunOf(e)].wall
Fact == {"succeeded", "failed"}

UserCommand ==
  \/ \E r \in Runs, b \in Budgets, required \in SUBSET Keys : Start(r, b, required)
  \/ \E r \in Runs : Cancel(r)
  \/ \E r \in Runs : SteerDeferred(r)
  \/ \E r \in Runs : SteerAdmitted(r)
  \/ \E r \in Runs : SteerExhausted(r)
  \/ \E r \in Runs : RespondAdmitted(r)
  \/ \E r \in Runs : RespondExhausted(r)

ModelSettlement ==
  \/ \E e \in Eff : \E w \in WallAfter(e) : SettleModelUnknown(e, w)
  \/ \E e \in Eff, f \in Fact, u \in Usages : \E w \in WallAfter(e) :
       SettleModelCancelLate(e, f, u, w)
  \/ \E e \in Eff, f \in Fact, u \in Usages : \E w \in WallAfter(e) :
       SettleModelLate(e, f, u, w)
  \/ \E e \in Eff, u \in Usages : \E w \in WallAfter(e) : SettleModelFailure(e, u, w)
  \/ \E e \in Eff, u \in Usages : \E w \in WallAfter(e) : SettleModelFinal(e, u, w)
  \/ \E e \in Eff, u \in Usages : \E w \in WallAfter(e) : SettleModelInteraction(e, u, w)
  \/ \E e \in Eff, u \in Usages : \E w \in WallAfter(e) : SettleModelText(e, u, w)
  \/ \E e \in Eff, u \in Usages, n \in 1..MaxTools : \E w \in WallAfter(e) :
       \E batch \in [1..n -> pins[RunOf(e)]] : SettleModelTools(e, u, w, n, batch)

\* owned: with an owner fiber the child starts with one run pin, else with none.
Spawning ==
  \/ \E e \in Eff, u \in Usages, key \in SpawnKeys, g \in Grants, c \in Runs,
        owned \in {{}} \cup {{k} : k \in Keys} :
       \E w \in WallAfter(e) : SpawnChild(e, u, w, key, g, c, owned)
  \/ \E e \in Eff, u \in Usages, key \in SpawnKeys, g \in Grants :
       \E w \in WallAfter(e) : SpawnReplay(e, u, w, key, g)

ToolSettlement ==
  \/ \E e \in Eff : \E w \in WallAfter(e) : SettleToolUnknown(e, w)
  \/ \E e \in Eff, f \in Fact : \E w \in WallAfter(e) : SettleToolOpen(e, f, w)
  \/ \E e \in Eff, f \in Fact : \E w \in WallAfter(e) : SettleToolLate(e, f, w)
  \/ \E e \in Eff, f \in Fact : \E w \in WallAfter(e) : SettleToolClosing(e, f, w)

MaxWall == Max({runs[r].wall : r \in Runs})

Sweep ==
  \E S \in SUBSET Expired, wall \in [Runs -> 0..MaxWall] :
    /\ \A r \in Runs : wall[r] <= runs[r].wall
    /\ Recover(S, wall)

Next ==
  \/ UserCommand
  \/ \E e \in Eff : Claim(e)
  \/ \E e \in Eff : ExpireLease(e)
  \/ ModelSettlement
  \/ Spawning
  \/ ToolSettlement
  \/ Sweep

Spec == Init /\ [][Next]_vars

\* Leases run out because time passes; the host worker polls for ready effects
\* and for expired claims (run_once, _discover_ready, _recover).  No fairness
\* for users or for the settlement itself: a worker may die holding a claim.
Fairness ==
  /\ \A e \in Eff : WF_vars(Claim(e))
  /\ \A e \in Eff : WF_vars(ExpireLease(e))
  /\ WF_vars(Sweep)

FairSpec == Spec /\ Fairness

-----------------------------------------------------------------------------
(* Properties. *)

\* Every row has the shape of its table.
TypeOK ==
  /\ runs \in [Runs -> Run]
  /\ effects \in [Eff -> Effect]
  /\ pins \in [Runs -> SUBSET Keys]

\* Two live business effects of one run are tools of the same batch: a model
\* call is never live beside another model call (u_effects_model_call) or
\* beside a tool, whatever steers, cancels and settlements interleave.
OneDriver ==
  \A d, e \in Eff :
    Live(d) /\ Live(e) /\ RunOf(d) = RunOf(e) /\ d # e
      => IsTool(d) /\ IsTool(e) /\ d[2] = e[2]

\* A deferred steer always has someone left to consume it: a claimed effect of
\* an older generation, and no live effect of the generation it announced.
SteerNotLost ==
  \A r \in Runs : runs[r].pending # NoSteer =>
    /\ runs[r].status = "running"
    /\ runs[r].pending = [epoch |-> runs[r].epoch, gen |-> runs[r].gen]
    /\ ClaimedOf(r) # {}
    /\ \A e \in EffectsOf(r) :
         Live(e) => effects[e].status = "claimed" /\ effects[e].gen < runs[r].gen

\* Without a deferred steer, everything live on an open run belongs to the
\* epoch and generation the run drives: no superseded effect can be claimed.
CurrentGeneration ==
  \A e \in Eff :
    /\ Live(e) /\ runs[RunOf(e)].status \in {"running", "waiting"}
    /\ runs[RunOf(e)].pending = NoSteer
    => ~Late(e)

\* A waiting, completed or failed run has nothing live; a cancelled one only
\* claims it revoked.  The recovery sweep relies on it: it would overwrite the
\* seal of a completed run that still had an expired claim.
QuietSeal ==
  \A e \in Eff : Live(e) =>
    /\ runs[RunOf(e)].status \in {"running", "cancelled", "blocked_unknown"}
    /\ runs[RunOf(e)].status = "cancelled"
         => effects[e].status = "claimed" /\ effects[e].cancelreq

\* An unknown outcome stops the run: it is walled off or was cancelled before,
\* and a run is walled off only because one of its effects is unknown.
UnknownWall ==
  /\ \A e \in Eff : effects[e].status = "unknown" =>
       runs[RunOf(e)].status \in {"blocked_unknown", "cancelled"}
  /\ \A r \in Runs : runs[r].status = "blocked_unknown" =>
       \E e \in EffectsOf(r) : effects[e].status = "unknown"

\* The branches that freeze a close intent for a later settlement never leave
\* one on an open run, and an open question exists exactly on a waiting run.
NoFrozenClose ==
  \A r \in Runs :
    /\ runs[r].status \in {"running", "waiting"} => runs[r].close = "none"
    /\ runs[r].interaction # 0 <=> runs[r].status = "waiting"

\* A tool that may still run, or may have run, keeps the pin of its capability.
PinsCoverTools ==
  \A e \in Eff : IsTool(e) /\ Blocks(e) => effects[e].key \in pins[RunOf(e)]

\* A sealed run gives back every pin no live or unknown tool needs.  The
\* exception is a pin of a tool that a sealing steer archived: its row still
\* counts as live when the steer computes what to release.
PinsDrain ==
  \A r \in Runs : runs[r].status \in Terminal =>
    \A k \in pins[r] :
      \E e \in EffectsOf(r) :
        /\ effects[e].key = k
        /\ Blocks(e) \/ (effects[e].status = "cancelled" /\ runs[r].close = "budget")

\* A call continues a model call only when that call's whole batch is settled,
\* and each model call is continued at most once.
BatchBarrier ==
  \A m \in Eff : IsModel(m) /\ effects[m].from # 0 =>
    /\ \A e \in EffectsOf(RunOf(m)) : IsTool(e) /\ e[2] = effects[m].from => ~Live(e)
    /\ \A x \in EffectsOf(RunOf(m)) :
         IsModel(x) /\ effects[x].from = effects[m].from => x = m

\* Tools and continuations stay in the epoch and generation of the model call
\* they come from: the result of a superseded call publishes no successor.
InheritsGeneration ==
  \A e \in Eff : effects[e].status # "none" /\ (IsTool(e) \/ effects[e].from # 0) =>
    LET source == IF IsTool(e) THEN ModelOf(e) ELSE <<e[1], effects[e].from, 0>>
    IN /\ effects[source].status = "succeeded"
       /\ effects[source].epoch = effects[e].epoch
       /\ effects[source].gen = effects[e].gen

\* Successors come from one call at a time and stay where it was: a batch is continued
\* once, when it is settled, and nothing a superseded call asked for is published.
BatchRules == BatchBarrier /\ InheritsGeneration

ModelsOf(r) == {e \in EffectsOf(r) : IsModel(e) /\ effects[e].status # "none"}
ToolsOf(r) == {e \in EffectsOf(r) : IsTool(e) /\ effects[e].status # "none"}
SpawnedBy(r) == {c \in Runs : runs[c].status # "none" /\ runs[c].parent = r}

\* The sum of the values of f (0 for a negative one), counted unit by unit.
Total(f) == Cardinality(UNION {{x} \X (1..f[x]) : x \in DOMAIN f})

\* The token grant of a run is exactly what it still holds, what its live model
\* call reserves, what settled calls were charged and what it gave to children.
\* (A 0-token run may be charged more than it has; its balance stays 0.)
TokenLedger ==
  \A r \in Runs : runs[r].granted.tokens > 0 =>
    runs[r].granted.tokens =
      runs[r].tokens
      + Total([e \in ModelsOf(r) |->
                 IF Live(e) THEN effects[e].reserve ELSE effects[e].charge])
      + Total([c \in SpawnedBy(r) |-> runs[c].granted.tokens])

\* Steps and tool calls are neither minted nor lost: each model call and each
\* tool call is paid for once.  A spawned run's first model call is free.
CountLedger ==
  \A r \in Runs : runs[r].status # "none" =>
    /\ runs[r].granted.steps =
         runs[r].steps
         + Cardinality(ModelsOf(r)) - (IF runs[r].parent = None THEN 0 ELSE 1)
         + Total([c \in SpawnedBy(r) |-> runs[c].granted.steps])
    /\ runs[r].granted.calls =
         runs[r].calls + Cardinality(ToolsOf(r))
         + Total([c \in SpawnedBy(r) |-> runs[c].granted.calls])

\* The accounts of a run add up after every refund, archive, grant and late receipt:
\* what it was granted is what it has left, holds in reserve, used and gave away.
Ledgers == TokenLedger /\ CountLedger

\* A running run that could still pay for a model call has work in flight,
\* unless its last model call spawned a child instead of continuing.
WorkInFlight ==
  \A r \in Runs : runs[r].status = "running" /\ Admits(runs[r]) =>
    \/ \E e \in EffectsOf(r) : Live(e)
    \/ SpawnedBy(r) # {}

\* (parent_run_id, spawn_key) names at most one child, however often the intent
\* is repeated, and a child is never granted more than its parent had been.
SpawnIdentity ==
  \A c, d \in Runs : runs[c].parent # None =>
    /\ runs[c].parent = runs[d].parent /\ runs[c].spawnkey = runs[d].spawnkey => c = d
    /\ runs[c].granted.steps <= runs[runs[c].parent].granted.steps
    /\ runs[c].granted.calls <= runs[runs[c].parent].granted.calls
    /\ runs[c].granted.wall <= runs[runs[c].parent].granted.wall

\* Repeated spawn intents: one child for each key, paid for once and in full.
SpawnRules == SpawnIdentity /\ Ledgers

\* A seal is final: no steer, answer, late receipt or recovery sweep moves a
\* run out of a terminal status or replaces why it was closed.
SealIsFinal ==
  [][\A r \in Runs : runs[r].status \in Terminal =>
       runs'[r].status = runs[r].status /\ runs'[r].close = runs[r].close]_vars

\* A sealed run publishes nothing: late receipts leave facts, never new effects
\* and never a fresh ready row for a worker to pick up.
SealPublishesNothing ==
  [][\A e \in Eff : 
       runs[RunOf(e)].status \in Terminal /\ effects'[e].status = "ready"
         => effects[e].status = "ready"]_vars

\* Every published effect leaves the queue: it is claimed and settled, or its
\* claim expires and a sweep settles it.
EffectsSettle == \A e \in Eff : Live(e) ~> ~Live(e)

\* A deferred steer is eventually consumed, or its run is sealed.
SteerResolved ==
  \A r \in Runs : runs[r].pending # NoSteer ~> runs[r].pending = NoSteer

\* Nothing stays in flight for ever, whatever the workers do: every effect is closed,
\* and with it every deferred steer is consumed or its run sealed.
LoopSettles == EffectsSettle /\ SteerResolved

\* Effects only carry numbers their run has handed out, an absent run has handed
\* out none, and the unknown wall is the close reason of the runs behind it.
Numbered ==
  \A r \in Runs :
    /\ runs[r].status = "none" => runs[r].models = 0
    /\ runs[r].status = "blocked_unknown" => runs[r].close = "unknown"
    /\ \A e \in EffectsOf(r) : effects[e].status # "none" => e[2] <= runs[r].models

\* The safety properties of the loop hold together: each step needs several of
\* them to preserve one.
LoopInvariant ==
  /\ TypeOK /\ Numbered
  /\ OneDriver /\ SteerNotLost /\ CurrentGeneration /\ QuietSeal
  /\ UnknownWall /\ NoFrozenClose /\ PinsCoverTools

-----------------------------------------------------------------------------
(* What the plans and the design promise and the code does not keep. *)

\* A steer or an answer without budget seals the run; it never leaves it
\* running with no effect.
NoStrandedRun ==
  \A r \in Runs : runs[r].status = "running" =>
    (\E e \in EffectsOf(r) : Live(e)) \/ SpawnedBy(r) # {}

-----------------------------------------------------------------------------
(* The run loop keeps the promise EffectLife makes of an effect: none of its *)
(* calls may be repeated.                                                    *)

LifeStatus(e) ==
  IF effects[e].status \in {"succeeded", "failed", "unknown"}
  THEN "settled" ELSE effects[e].status

Life == INSTANCE EffectLife WITH
  Effects <- Eff,
  Repeatable <- {},
  status <- [e \in Eff |-> LifeStatus(e)]

\* No command, settlement or sweep hands a model or tool call out twice, withdraws one
\* that was handed out or changes an outcome.
ImplementsLife == Life!Spec

=============================================================================
