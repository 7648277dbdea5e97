------------------------- MODULE RunLoopLifeProof -------------------------
(***************************************************************************)
(* The lives of runs and of their effects, from the invariant of           *)
(* RunLoopSafetyProof.                                                     *)
(*                                                                         *)
(* First what a step may do to the row of a run: a sealed run stays        *)
(* sealed, and a run keeps the parent, the spawn key and the grant it was  *)
(* born with.  Then where an effect comes from, which moves it makes and   *)
(* what it leaves behind: one lemma for each action says what it may do to *)
(* effect rows (Progress), and the rules about batches and generations and *)
(* the refinement of EffectLife follow from that alone.  The third part is *)
(* about what a run leaves behind (Tidy): an open run has work in flight,  *)
(* and a sealed one has given back its pins.                               *)
(*                                                                         *)
(* The last part is the ledgers.  A sum is the number of units it counts,  *)
(* so what the library knows of finite sets is enough to say what one      *)
(* changed value or one new summand does to it; a run balances for the     *)
(* rows a step is about to write (Balanced), one lemma for each way money  *)
(* moves; and Accounts says that every run balances.                       *)
(***************************************************************************)
EXTENDS RunLoopSafetyProof, FiniteSetTheorems

-----------------------------------------------------------------------------
(* Runs: seals and kin *)

\* What a step may do to a run that is sealed before it.
Kept(r) ==
  /\ runs'[r].status = runs[r].status /\ runs'[r].close = runs[r].close
  /\ \A x \in EffectsOf(r) : effects'[x].status = "ready" => effects[x].status = "ready"

\* A run the step does not touch keeps its seal.
LEMMA UntouchedKept ==
  ASSUME NEW r, Untouched(r)
  PROVE  Kept(r)
  BY DEF Untouched, Kept

\* A step on an open run leaves the sealed ones alone.
LEMMA OtherKept ==
  ASSUME NEW r \in Runs, NEW q \in Runs, OnlyRun(q),
         runs[r].status \in Terminal, runs[q].status \notin Terminal
  PROVE  Kept(r)
  BY UntouchedKept DEF OnlyRun

\* A settlement that keeps the run's status and close reason.
LEMMA SettledKept ==
  ASSUME TypeOK, NEW r \in Runs, NEW e \in Eff, NEW f \in Fact \cup {"unknown"}, NEW charge,
         NEW run, NEW released, Charged(run, RunOf(e)),
         Commit(RunOf(e), run, Settled(e, f, charge), released)
  PROVE  Kept(r)
  <1>1. RunOf(e) \in Runs BY EffParts
  <1>2. /\ OnlyRun(RunOf(e)) /\ runs'[RunOf(e)] = run /\ effects' = Settled(e, f, charge)
    BY <1>1, CommitFrame, SettledFrame
  <1>3. CASE r # RunOf(e) BY <1>1, <1>2, <1>3, UntouchedKept DEF OnlyRun
  <1>4. CASE r = RunOf(e)
    <2>1. effects[e] \in Effect BY RowTypes
    <2>2. effects'[e].status = f BY <1>2, <2>1 DEF Settled, TypeOK, Effect
    <2>3. f # "ready" BY DEF Fact
    <2>4. \A x \in EffectsOf(r) \ {e} : effects'[x] = effects[x]
      BY <1>2, EffectsOfRun DEF Settled, TypeOK
    <2>5. runs'[r].status = runs[r].status /\ runs'[r].close = runs[r].close
      BY <1>2, <1>4 DEF Charged
    <2> QED BY <2>2, <2>3, <2>4, <2>5 DEF Kept
  <1> QED BY <1>3, <1>4

\* Rows a step on run q writes leave the effects of the other runs alone.
Local(q, rows) == \A x \in Eff : RunOf(x) # q => rows[x] = effects[x]

\* A receipt and a published model call stay within their run.
LEMMA LocalRows ==
  ASSUME TypeOK, NEW e \in Eff, NEW f, NEW charge
  PROVE  /\ Local(RunOf(e), Settled(e, f, charge))
         /\ \A row : RoomForModel(RunOf(e)) =>
              Local(RunOf(e), [Settled(e, f, charge) EXCEPT ![NextModel(RunOf(e))] = row])
  <1>1. Local(RunOf(e), Settled(e, f, charge)) BY SettledFrame DEF Local
  <1>2. ASSUME NEW row, RoomForModel(RunOf(e))
        PROVE  Local(RunOf(e), [Settled(e, f, charge) EXCEPT ![NextModel(RunOf(e))] = row])
    <2>1. NextModel(RunOf(e)) \in Eff /\ RunOf(NextModel(RunOf(e))) = RunOf(e)
      BY <1>2, EffParts, NextModelEff
    <2>2. DOMAIN Settled(e, f, charge) = Eff BY DEF Settled, TypeOK
    <2> HIDE DEF NextModel
    <2>3. ASSUME NEW x \in Eff, RunOf(x) # RunOf(e)
          PROVE  [Settled(e, f, charge) EXCEPT ![NextModel(RunOf(e))] = row][x] = effects[x]
      BY <2>1, <2>2, <2>3, SettledFrame
    <2> QED BY <2>3 DEF Local
  <1> QED BY <1>1, <1>2

\* A commit on an open run keeps every sealed one.
LEMMA OpenKept ==
  ASSUME TypeOK, NEW r \in Runs, runs[r].status \in Terminal,
         NEW q \in Runs, runs[q].status \notin Terminal,
         NEW run, NEW rows, NEW released, Local(q, rows), Commit(q, run, rows, released)
  PROVE  Kept(r)
  <1>1. OnlyRun(q) BY CommitFrame DEF Local
  <1> QED BY <1>1, OtherKept

\* Consuming a steer keeps every seal: the consuming run is open.
LEMMA ConsumeKept ==
  ASSUME TypeOK, AllOK, NEW r \in Runs, runs[r].status \in Terminal, NEW e \in Eff,
         SteerConsumable(RunOf(e), e), Live(e), NEW f \in Fact, NEW charge,
         NEW run \in Run, Charged(run, RunOf(e)),
         ConsumeSteer(RunOf(e), e, run, Settled(e, f, charge))
  PROVE  Kept(r)
  <1>1. RunOf(e) \in Runs /\ RunOK(RunOf(e)) BY EffParts DEF AllOK
  <1>2. OnlyRun(RunOf(e)) BY <1>1, ConsumeSteerOK
  <1> QED BY <1>1, <1>2, OtherKept DEF SteerConsumable

\* Closing an open run keeps every other seal.
LEMMA CloseKept ==
  ASSUME TypeOK, NEW r \in Runs, runs[r].status \in Terminal, NEW e \in Eff,
         runs[RunOf(e)].status \notin Terminal, NEW f, NEW charge, NEW run, NEW close,
         CloseRun(e, run, Settled(e, f, charge), close)
  PROVE  Kept(r)
  <1>1. RunOf(e) \in Runs /\ Local(RunOf(e), Settled(e, f, charge))
    BY EffParts, LocalRows
  <1> DEFINE none == {}
  <1>2. \/ Commit(RunOf(e), SealRun(run, close), Settled(e, f, charge),
                  RunPinReleaseSet(RunOf(e), {e}))
        \/ Commit(RunOf(e), [run EXCEPT !.close = close], Settled(e, f, charge), none)
    BY DEF CloseRun
  <1> HIDE DEF none
  <1> QED BY <1>1, <1>2, OpenKept

-----------------------------------------------------------------------------

\* No user command reaches a sealed run.
LEMMA UserCommandKept ==
  ASSUME TypeOK, AllOK, UserCommand, NEW r \in Runs, runs[r].status \in Terminal
  PROVE  Kept(r)
  <1>1. PICK q \in Runs :
          \/ \E b \in Budgets, required \in SUBSET Keys : Start(q, b, required)
          \/ Cancel(q) \/ SteerDeferred(q) \/ SteerAdmitted(q) \/ SteerExhausted(q)
          \/ RespondAdmitted(q) \/ RespondExhausted(q)
    BY DEF UserCommand
  <1>2. RunOK(q) BY DEF AllOK
  <1>3. OnlyRun(q)
    BY <1>1, <1>2, StartOK, CancelOK, SteerDeferredOK, SteerOK, RespondOK
  <1>4. runs[q].status \in {"none", "running", "waiting"}
    BY <1>1 DEF Start, Cancel, SteerDeferred, SteerAdmitted, SteerExhausted,
       RespondAdmitted, RespondExhausted
  <1> QED BY <1>3, <1>4, OtherKept DEF Terminal

\* A model receipt never breaks a seal.
LEMMA ModelSettlementKept ==
  ASSUME TypeOK, AllOK, ModelSettlement, NEW r \in Runs, runs[r].status \in Terminal
  PROVE  Kept(r)
  <1>0. /\ \A u \in Usages : u \in Nat
        /\ \A e \in Eff : \A w \in WallAfter(e) : w \in Nat
        /\ "succeeded" \in Fact /\ "failed" \in Fact
    BY BoundAssumption DEF Fact, WallAfter
  <1>r. \A e \in Eff : RunOf(e) \in Runs /\ RunOK(RunOf(e)) BY EffParts DEF AllOK
  <1>p. \A e \in Eff, u \in Usages : \A w \in WallAfter(e) :
          Paid(e, u, w) \in Run /\ Charged(Paid(e, u, w), RunOf(e))
    BY <1>0, PaidType, PaidCharged
  <1>l. \A e \in Eff : ModelSettles(e) => Live(e) BY DEF ModelSettles, Live
  <1>n. \A e \in Eff, u \in Usages :
          ModelSettlesNow(e, u) => runs[RunOf(e)].status \notin Terminal
    BY DEF ModelSettlesNow, ModelSettles, Terminal
  <1>1. ASSUME NEW e \in Eff, NEW w \in WallAfter(e), SettleModelUnknown(e, w)
        PROVE  Kept(r)
    <2> DEFINE run == [runs[RunOf(e)] EXCEPT !.wall = w]
               rows == Settled(e, "unknown", effects[e].reserve)
    <2>1. Charged(run, RunOf(e)) BY PaidCharged DEF Elapsed
    <2>2. CASE CancelLate(e)
      <3>1. Commit(RunOf(e), run, rows, RunPinReleaseSet(RunOf(e), {}))
        BY <1>1, <2>2 DEF SettleModelUnknown
      <3> HIDE DEF run
      <3> QED BY <2>1, <3>1, SettledKept
    <2>3. CASE ~CancelLate(e)
      <3>1. Commit(RunOf(e), SealRun(run, "unknown"), rows, RunPinReleaseSet(RunOf(e), {e}))
        BY <1>1, <2>3 DEF SettleModelUnknown
      <3>2. runs[RunOf(e)].status \notin Terminal
        BY <1>1, <2>3 DEF SettleModelUnknown, ModelSettles, Terminal
      <3>3. Local(RunOf(e), rows) BY LocalRows
      <3> HIDE DEF run, rows
      <3> QED BY <1>r, <3>1, <3>2, <3>3, OpenKept
    <2> QED BY <2>2, <2>3
  <1>2. ASSUME NEW e \in Eff, NEW f \in Fact, NEW u \in Usages, NEW w \in WallAfter(e),
               SettleModelCancelLate(e, f, u, w)
        PROVE  Kept(r)
    BY <1>2, <1>p, SettledKept DEF SettleModelCancelLate
  <1>3. ASSUME NEW e \in Eff, NEW f \in Fact, NEW u \in Usages, NEW w \in WallAfter(e),
               SettleModelLate(e, f, u, w)
        PROVE  Kept(r)
    <2>1. CASE SteerConsumable(RunOf(e), e)
      <3>1. Live(e) /\ ConsumeSteer(RunOf(e), e, Paid(e, u, w), Settled(e, f, u))
        BY <1>3, <1>l, <2>1 DEF SettleModelLate
      <3> QED BY <1>p, <2>1, <3>1, ConsumeKept
    <2>2. CASE ~SteerConsumable(RunOf(e), e)
      <3> DEFINE none == {}
      <3>1. Commit(RunOf(e), Paid(e, u, w), Settled(e, f, u), none)
        BY <1>3, <2>2 DEF SettleModelLate
      <3> HIDE DEF none
      <3> QED BY <1>p, <3>1, SettledKept
    <2> QED BY <2>1, <2>2
  <1>4. ASSUME NEW e \in Eff, NEW u \in Usages, NEW w \in WallAfter(e),
               SettleModelFailure(e, u, w)
        PROVE  Kept(r)
    BY <1>4, <1>n, <1>r, LocalRows, OpenKept DEF SettleModelFailure
  <1>5. ASSUME NEW e \in Eff, NEW u \in Usages, NEW w \in WallAfter(e),
               SettleModelFinal(e, u, w)
        PROVE  Kept(r)
    BY <1>5, <1>n, CloseKept DEF SettleModelFinal
  <1>6. ASSUME NEW e \in Eff, NEW u \in Usages, NEW w \in WallAfter(e),
               SettleModelInteraction(e, u, w)
        PROVE  Kept(r)
    <2> DEFINE none == {}
               run == [Paid(e, u, w) EXCEPT !.status = "waiting", !.interaction = e[2],
                                            !.close = "none", !.pending = NoSteer]
    <2>1. /\ Commit(RunOf(e), run, Settled(e, "succeeded", u), none)
          /\ runs[RunOf(e)].status \notin Terminal
      BY <1>6, <1>n DEF SettleModelInteraction
    <2> HIDE DEF none, run
    <2> QED BY <1>r, <2>1, LocalRows, OpenKept
  <1>7. ASSUME NEW e \in Eff, NEW u \in Usages, NEW w \in WallAfter(e),
               SettleModelText(e, u, w)
        PROVE  Kept(r)
    <2> DEFINE q == RunOf(e)
               run == Paid(e, u, w)
               next == [AdmitModel(run) EXCEPT !.close = "none"]
               row == ModelRow(run, run.epoch, run.gen, e[2])
               rows == [Settled(e, "succeeded", u) EXCEPT ![NextModel(q)] = row]
               none == {}
    <2>0. runs[q].status \notin Terminal BY <1>7, <1>n DEF SettleModelText
    <2>1. CASE Admits(run)
      <3>1. RoomForModel(q) /\ Commit(q, next, rows, none)
        BY <1>7, <2>1 DEF SettleModelText
      <3>2. Local(q, rows) BY <3>1, LocalRows
      <3> HIDE DEF next, rows, none
      <3> QED BY <1>r, <2>0, <3>1, <3>2, OpenKept
    <2>2. CASE ~Admits(run)
      BY <1>7, <2>0, <2>2, CloseKept DEF SettleModelText
    <2> QED BY <2>1, <2>2
  <1>8. ASSUME NEW e \in Eff, NEW u \in Usages, NEW n \in 1..MaxTools,
               NEW w \in WallAfter(e), NEW batch \in [1..n -> pins[RunOf(e)]],
               SettleModelTools(e, u, w, n, batch)
        PROVE  Kept(r)
    <2> DEFINE q == RunOf(e)
               run == Paid(e, u, w)
               next == [run EXCEPT !.calls = @ - n]
               rows == [x \in Eff |-> IF ModelOf(x) = e /\ x[3] \in 1..n
                                      THEN ToolRow(run, batch[x[3]])
                                      ELSE Settled(e, "succeeded", u)[x]]
               none == {}
    <2>0. runs[q].status \notin Terminal BY <1>8, <1>n DEF SettleModelTools
    <2>1. CASE n > run.calls
      BY <1>8, <2>0, <2>1, CloseKept DEF SettleModelTools
    <2>2. CASE ~(n > run.calls)
      <3>1. Commit(q, next, rows, none) BY <1>8, <2>2 DEF SettleModelTools
      <3>2. \A x \in Eff : ModelOf(x) = e => RunOf(x) = q
        BY EffParts DEF ModelOf, RunOf
      <3>3. Local(q, rows) BY <3>2, SettledFrame DEF Local
      <3> HIDE DEF next, rows, none
      <3> QED BY <1>r, <2>0, <3>1, <3>3, OpenKept
    <2> QED BY <2>1, <2>2
  <1> QED BY <1>1, <1>2, <1>3, <1>4, <1>5, <1>6, <1>7, <1>8 DEF ModelSettlement

\* A spawn never breaks a seal: the child is a new row.
LEMMA SpawningKept ==
  ASSUME TypeOK, AllOK, Spawning, NEW r \in Runs, runs[r].status \in Terminal
  PROVE  Kept(r)
  <1>0. /\ \A u \in Usages : u \in Nat
        /\ \A e \in Eff : \A w \in WallAfter(e) : w \in Nat
        /\ "succeeded" \in Fact
    BY BoundAssumption DEF Fact, WallAfter
  <1>1. ASSUME NEW e \in Eff, NEW u \in Usages, NEW key \in SpawnKeys, NEW g \in Grants,
               NEW c \in Runs, NEW owned \in {{}} \cup {{k} : k \in Keys},
               NEW w \in WallAfter(e), SpawnChild(e, u, w, key, g, c, owned)
        PROVE  Kept(r)
    <2> DEFINE rows == Settled(e, "succeeded", u)
               m == <<c, 1, 0>>
    <2>1. /\ runs[RunOf(e)].status = "running" /\ runs[c].status = "none"
          /\ runs'[r] = runs[r]
      <3>1. runs[RunOf(e)].status = "running" /\ runs[c].status = "none"
        BY <1>1 DEF SpawnChild
      <3>2. r # RunOf(e) /\ r # c BY <3>1 DEF Terminal
      <3> QED BY <1>1, <3>1, <3>2 DEF SpawnChild, TypeOK
    <2>2. r # RunOf(e) /\ r # c BY <2>1 DEF Terminal
    <2>3. effects' = [rows EXCEPT ![m] = ModelRow(g, 0, 0, 0)] BY <1>1 DEF SpawnChild
    <2>4. RunOf(m) = c BY DEF RunOf
    <2>5. DOMAIN rows = Eff BY DEF Settled, TypeOK
    <2> HIDE DEF rows, m
    <2>6. ASSUME NEW x \in EffectsOf(r) PROVE effects'[x] = effects[x]
      <3>1. x \in Eff /\ RunOf(x) = r BY EffectsOfRun
      <3>2. x # m BY <2>2, <2>4, <3>1
      <3>3. effects'[x] = rows[x] BY <2>3, <2>5, <3>1, <3>2
      <3> QED BY <2>2, <3>1, <3>3, SettledFrame DEF rows
    <2> QED BY <2>1, <2>6 DEF Kept
  <1>2. ASSUME NEW e \in Eff, NEW u \in Usages, NEW key \in SpawnKeys, NEW g \in Grants,
               NEW w \in WallAfter(e), SpawnReplay(e, u, w, key, g)
        PROVE  Kept(r)
    <2> DEFINE none == {}
               run == [Paid(e, u, w) EXCEPT !.close = "none", !.interaction = 0]
    <2>1. /\ runs[RunOf(e)].status \notin Terminal
          /\ Commit(RunOf(e), run, Settled(e, "succeeded", u), none)
      BY <1>2 DEF SpawnReplay, Terminal
    <2> HIDE DEF none, run
    <2> QED BY <2>1, EffParts, LocalRows, OpenKept
  <1> QED BY <1>1, <1>2 DEF Spawning

\* A tool receipt never breaks a seal, late ones included.
LEMMA ToolSettlementKept ==
  ASSUME TypeOK, AllOK, ToolSettlement, NEW r \in Runs, runs[r].status \in Terminal
  PROVE  Kept(r)
  <1>0. \A e \in Eff : \A w \in WallAfter(e) : w \in Nat BY DEF WallAfter
  <1>r. \A e \in Eff : /\ RunOf(e) \in Runs /\ RunOK(RunOf(e))
                       /\ e \in EffectsOf(RunOf(e))
    BY EffParts DEF AllOK
  <1>p. \A e \in Eff : \A w \in WallAfter(e) :
          Elapsed(e, w) \in Run /\ Charged(Elapsed(e, w), RunOf(e))
    BY <1>0, ElapsedType, PaidCharged
  <1>l. \A e \in Eff : ToolSettles(e) => Live(e) BY DEF ToolSettles, Live
  <1>1. ASSUME NEW e \in Eff, NEW w \in WallAfter(e), SettleToolUnknown(e, w)
        PROVE  Kept(r)
    <2> DEFINE rows == Settled(e, "unknown", 0)
    <2>1. CASE CancelLate(e)
      <3>1. Commit(RunOf(e), Elapsed(e, w), rows, RunPinReleaseSet(RunOf(e), {}))
        BY <1>1, <2>1 DEF SettleToolUnknown
      <3> QED BY <1>p, <3>1, SettledKept
    <2>2. CASE ~CancelLate(e)
      <3>1. Commit(RunOf(e), SealRun(Elapsed(e, w), "unknown"), rows,
                   RunPinReleaseSet(RunOf(e), {}))
        BY <1>1, <2>2 DEF SettleToolUnknown
      <3>2. runs[RunOf(e)].status \notin Terminal
        <4>1. /\ Live(e) /\ effects[e].status = "claimed"
              /\ runs[RunOf(e)].status # "blocked_unknown"
          BY <1>1, <1>l DEF SettleToolUnknown, ToolSettles
        <4> QED BY <1>r, <2>2, <4>1 DEF RunOK, CancelLate, Terminal
      <3>3. Local(RunOf(e), rows) BY LocalRows
      <3> HIDE DEF rows
      <3> QED BY <1>r, <3>1, <3>2, <3>3, OpenKept
    <2> QED BY <2>1, <2>2
  <1>2. ASSUME NEW e \in Eff, NEW f \in Fact, NEW w \in WallAfter(e), SettleToolOpen(e, f, w)
        PROVE  Kept(r)
    BY <1>2, <1>p, SettledKept DEF SettleToolOpen
  <1>3. ASSUME NEW e \in Eff, NEW f \in Fact, NEW w \in WallAfter(e), SettleToolLate(e, f, w)
        PROVE  Kept(r)
    <2>1. CASE SteerConsumable(RunOf(e), e)
      <3>1. Live(e) /\ ConsumeSteer(RunOf(e), e, Elapsed(e, w), Settled(e, f, 0))
        BY <1>3, <1>l, <2>1 DEF SettleToolLate
      <3> QED BY <1>p, <2>1, <3>1, ConsumeKept
    <2>2. CASE ~SteerConsumable(RunOf(e), e)
      BY <1>3, <1>p, <2>2, SettledKept DEF SettleToolLate
    <2> QED BY <2>1, <2>2
  <1>4. ASSUME NEW e \in Eff, NEW f \in Fact, NEW w \in WallAfter(e),
               SettleToolClosing(e, f, w)
        PROVE  Kept(r)
    <2> DEFINE q == RunOf(e)
               run == Elapsed(e, w)
               next == [AdmitModel(run) EXCEPT !.close = "none"]
               row == ModelRow(run, run.epoch, run.gen, e[2])
               rows == [Settled(e, f, 0) EXCEPT ![NextModel(q)] = row]
               none == {}
    <2>0. runs[q].status \notin Terminal BY <1>4 DEF SettleToolClosing, ToolLate
    <2>1. CASE run.close = "final"
      BY <1>4, <2>0, <2>1, CloseKept DEF SettleToolClosing
    <2>2. CASE run.close # "final" /\ Admits(run)
      <3>1. RoomForModel(q) /\ Commit(q, next, rows, none)
        BY <1>4, <2>2 DEF SettleToolClosing
      <3>2. Local(q, rows) BY <3>1, LocalRows
      <3> HIDE DEF next, rows, none
      <3> QED BY <1>r, <2>0, <3>1, <3>2, OpenKept
    <2>3. CASE run.close # "final" /\ ~Admits(run)
      BY <1>4, <2>0, <2>3, CloseKept DEF SettleToolClosing
    <2> QED BY <2>1, <2>2, <2>3
  <1> QED BY <1>1, <1>2, <1>3, <1>4 DEF ToolSettlement

\* Claims and expiring leases never break a seal.
LEMMA WorkerKept ==
  ASSUME TypeOK, NEW e \in Eff, Claim(e) \/ ExpireLease(e), NEW r \in Runs
  PROVE  Kept(r)
  <1>1. effects[e] \in Effect BY RowTypes
  <1>2. /\ runs' = runs /\ effects'[e].status = "claimed"
        /\ \A x \in Eff \ {e} : effects'[x] = effects[x]
    BY <1>1 DEF Claim, ExpireLease, TypeOK, Effect
  <1> QED BY <1>2, EffectsOfRun DEF Kept

\* The sweep overwrites a seal only by itself: what it finds claimed on a sealed
\* run is either revoked or behind the wall already.
LEMMA SweepKept ==
  ASSUME TypeOK, AllOK, Sweep, NEW r \in Runs, runs[r].status \in Terminal
  PROVE  Kept(r)
  <1>1. PICK S \in SUBSET Expired, wall \in [Runs -> 0..MaxWall] : Recover(S, wall)
    BY DEF Sweep
  <1>2. RunOK(r) /\ runs[r] \in Run /\ wall[r] \in Nat BY RowTypes DEF AllOK
  <1> DEFINE H == S \cap EffectsOf(r)
             all == \A e \in H : CancelLate(e)
             timed == [runs[r] EXCEPT !.wall = wall[r]]
  <1>3. /\ effects' = [e \in Eff |->
             IF e \in S
             THEN [effects[e] EXCEPT !.status = "unknown", !.expired = FALSE,
                                     !.charge = effects[e].reserve]
             ELSE effects[e]]
        /\ runs'[r] = IF H = {} THEN runs[r]
                      ELSE IF all THEN timed ELSE SealRun(timed, "unknown")
    BY <1>1 DEF Recover, Walled
  <1>4. \A x \in H : x \in Eff /\ RunOf(x) = r /\ effects[x].status = "claimed" /\ Live(x)
    BY EffectsOfRun DEF Expired, Live
  <1>5. ASSUME NEW x \in EffectsOf(r)
        PROVE  effects'[x].status = "ready" => effects[x].status = "ready"
    <2>1. x \in Eff /\ effects[x] \in Effect BY EffectsOfRun, RowTypes
    <2>2. x \in S => effects'[x].status = "unknown" BY <1>3, <2>1 DEF Effect
    <2>3. x \notin S => effects'[x] = effects[x] BY <1>3, <2>1
    <2> QED BY <2>2, <2>3
  <1>6. timed.status = runs[r].status /\ timed.close = runs[r].close BY <1>2 DEF Run
  <1>7. ~all /\ H # {} => runs[r].status = "blocked_unknown" /\ runs[r].close = "unknown"
    <2> SUFFICES ASSUME NEW x \in H, ~CancelLate(x)
                 PROVE  runs[r].status = "blocked_unknown" /\ runs[r].close = "unknown"
      OBVIOUS
    <2>1. runs[r].status # "cancelled" BY <1>2, <1>4 DEF RunOK, CancelLate
    <2> QED BY <1>2, <1>4, <2>1 DEF RunOK, Terminal
  <1>8. /\ SealRun(timed, "unknown").status = "blocked_unknown"
        /\ SealRun(timed, "unknown").close = "unknown"
    <2>1. timed \in Run BY <1>2 DEF Run
    <2> HIDE DEF timed
    <2> QED BY <2>1 DEF SealRun, Run
  <1>9. runs'[r].status = runs[r].status /\ runs'[r].close = runs[r].close
    <2> HIDE DEF timed, all, H
    <2> QED BY <1>3, <1>6, <1>7, <1>8
  <1> QED BY <1>5, <1>9 DEF Kept

-----------------------------------------------------------------------------

\* No step breaks a seal.
LEMMA StepKept ==
  ASSUME TypeOK, AllOK, Next, NEW r \in Runs, runs[r].status \in Terminal
  PROVE  Kept(r)
  BY UserCommandKept, WorkerKept, ModelSettlementKept, SpawningKept, ToolSettlementKept,
     SweepKept DEF Next

\* No steer, answer, late receipt or recovery sweep moves a run out of a terminal
\* status or replaces the reason it was closed for.
THEOREM SealsAreFinal == Spec => SealIsFinal
  <1>1. LoopInvariant /\ [Next]_vars =>
          [\A r \in Runs : runs[r].status \in Terminal =>
             runs'[r].status = runs[r].status /\ runs'[r].close = runs[r].close]_vars
    <2> SUFFICES ASSUME LoopInvariant, Next, NEW r \in Runs, runs[r].status \in Terminal
                 PROVE  runs'[r].status = runs[r].status /\ runs'[r].close = runs[r].close
      OBVIOUS
    <2>1. TypeOK /\ AllOK BY InvariantByRun
    <2> QED BY <2>1, StepKept DEF Kept
  <1> QED BY <1>1, LoopSafe, PTL DEF Spec, SealIsFinal

\* A sealed run publishes nothing: a late receipt leaves its fact, and no effect
\* of the run becomes ready again.
THEOREM SealsPublishNothing == Spec => SealPublishesNothing
  <1>1. LoopInvariant /\ [Next]_vars =>
          [\A e \in Eff : runs[RunOf(e)].status \in Terminal /\ effects'[e].status = "ready"
             => effects[e].status = "ready"]_vars
    <2> SUFFICES ASSUME LoopInvariant, Next, NEW e \in Eff,
                        runs[RunOf(e)].status \in Terminal, effects'[e].status = "ready"
                 PROVE  effects[e].status = "ready"
      OBVIOUS
    <2>1. TypeOK /\ AllOK BY InvariantByRun
    <2>2. RunOf(e) \in Runs /\ e \in EffectsOf(RunOf(e)) BY EffParts
    <2> QED BY <2>1, <2>2, StepKept DEF Kept
  <1> QED BY <1>1, LoopSafe, PTL DEF Spec, SealPublishesNothing

-----------------------------------------------------------------------------
(* The identity of a run. *)

\* What a run may still spend is within what it was granted.
Within(c) ==
  /\ runs[c].steps <= runs[c].granted.steps
  /\ runs[c].calls <= runs[c].granted.calls
  /\ runs[c].wall <= runs[c].granted.wall

\* SpawnIdentity and what makes it inductive: a child was paid out of what its parent had
\* left, and absent runs have no parent and are nobody's parent.
Kinship ==
  /\ SpawnIdentity
  /\ \A c \in Runs :
       /\ Within(c)
       /\ runs[c].status = "none" => runs[c].parent = None
       /\ runs[c].parent # None => runs[runs[c].parent].status # "none"

\* A row that is the same run with no more to spend.
KinRow(run, r) ==
  /\ run.parent = runs[r].parent /\ run.spawnkey = runs[r].spawnkey
  /\ run.granted = runs[r].granted /\ run.status # "none"
  /\ run.steps <= runs[r].steps /\ run.calls <= runs[r].calls /\ run.wall <= runs[r].wall

SameRun(c) == runs'[c] = runs[c] \/ KinRow(runs'[c], c)

BornRoot(c) ==
  /\ runs[c].status = "none" /\ runs'[c].status # "none" /\ runs'[c].parent = None
  /\ Within(c)'

BornChild(c) ==
  /\ runs[c].status = "none" /\ runs'[c].status # "none"
  /\ LET p == runs'[c].parent
     IN /\ p \in Runs /\ runs[p].status # "none"
        /\ ChildrenOf(p, runs'[c].spawnkey) = {}
        /\ runs'[c].granted.steps <= runs[p].steps
        /\ runs'[c].granted.calls <= runs[p].calls
        /\ runs'[c].granted.wall <= runs[p].wall
  /\ Within(c)'

\* A step gives birth to one run at most; the others stay who they are.
KinStep ==
  \/ \A c \in Runs : SameRun(c)
  \/ \E n \in Runs : /\ BornRoot(n) \/ BornChild(n)
                     /\ \A c \in Runs \ {n} : SameRun(c)

\* Such steps keep spawn identity.
LEMMA KinStepKeeps ==
  ASSUME TypeOK, TypeOK', Kinship, KinStep
  PROVE  Kinship'
  <1>t. \A c \in Runs :
          /\ runs[c].steps \in Nat /\ runs[c].calls \in Nat /\ runs[c].wall \in Nat
          /\ runs'[c].steps \in Nat /\ runs'[c].calls \in Nat /\ runs'[c].wall \in Nat
          /\ runs[c].granted \in Budget /\ runs'[c].granted \in Budget
          /\ runs[c].parent \in Runs \cup {None}
    BY DEF TypeOK, Run
  <1>g. \A c \in Runs :
          /\ runs[c].granted.steps \in Nat /\ runs[c].granted.calls \in Nat
          /\ runs[c].granted.wall \in Nat
          /\ runs'[c].granted.steps \in Nat /\ runs'[c].granted.calls \in Nat
          /\ runs'[c].granted.wall \in Nat
    BY <1>t DEF Budget
  <1>1. \A c \in Runs : SameRun(c) \/ BornRoot(c) \/ BornChild(c) BY DEF KinStep
  <1>2. \A c, d \in Runs : BornChild(c) /\ BornChild(d) => SameRun(c) \/ SameRun(d) \/ c = d
    BY DEF KinStep
  <1>3. ASSUME NEW c \in Runs, runs[c].status # "none"
        PROVE  /\ SameRun(c) /\ runs'[c].granted = runs[c].granted /\ runs'[c].status # "none"
               /\ runs'[c].parent = runs[c].parent /\ runs'[c].spawnkey = runs[c].spawnkey
    BY <1>1, <1>3 DEF BornRoot, BornChild, SameRun, KinRow
  <1>4. ASSUME NEW c \in Runs, runs'[c].parent # None
        PROVE  BornChild(c) \/ /\ runs[c].status # "none" /\ SameRun(c)
                               /\ runs'[c].granted = runs[c].granted
                               /\ runs'[c].parent = runs[c].parent
                               /\ runs'[c].spawnkey = runs[c].spawnkey
    BY <1>1, <1>4 DEF BornRoot, SameRun, KinRow, Kinship
  <1>5. ASSUME NEW c \in Runs
        PROVE  /\ Within(c)'
               /\ runs'[c].status = "none" => runs'[c].parent = None
    <2>1. CASE SameRun(c)
      BY <1>t, <1>g, <2>1 DEF SameRun, KinRow, Within, Kinship
    <2>2. CASE BornRoot(c) \/ BornChild(c) BY <2>2 DEF BornRoot, BornChild
    <2> QED BY <1>1, <2>1, <2>2
  <1>6. ASSUME NEW c \in Runs, runs'[c].parent # None
        PROVE  /\ runs'[runs'[c].parent].status # "none"
               /\ runs'[c].granted.steps <= runs'[runs'[c].parent].granted.steps
               /\ runs'[c].granted.calls <= runs'[runs'[c].parent].granted.calls
               /\ runs'[c].granted.wall <= runs'[runs'[c].parent].granted.wall
    <2> DEFINE p == runs'[c].parent
    <2>1. CASE BornChild(c)
      <3>1. /\ p \in Runs /\ runs[p].status # "none"
            /\ runs'[c].granted.steps <= runs[p].steps
            /\ runs'[c].granted.calls <= runs[p].calls
            /\ runs'[c].granted.wall <= runs[p].wall
        BY <2>1 DEF BornChild
      <3>2. Within(p) /\ runs'[p].granted = runs[p].granted /\ runs'[p].status # "none"
        BY <1>3, <3>1 DEF Kinship
      <3> HIDE DEF p
      <3> QED BY <1>t, <1>g, <3>1, <3>2 DEF Within, p
    <2>2. CASE runs[c].status # "none" /\ runs'[c].parent = runs[c].parent
               /\ runs'[c].granted = runs[c].granted
      <3>1. /\ p \in Runs /\ runs[p].status # "none"
            /\ runs[c].granted.steps <= runs[p].granted.steps
            /\ runs[c].granted.calls <= runs[p].granted.calls
            /\ runs[c].granted.wall <= runs[p].granted.wall
        BY <1>t, <1>6, <2>2 DEF Kinship, SpawnIdentity
      <3> QED BY <1>3, <2>2, <3>1
    <2> QED BY <1>4, <1>6, <2>1, <2>2
  <1>7. ASSUME NEW c \in Runs, NEW d \in Runs, runs'[c].parent # None, c # d,
               runs'[c].parent = runs'[d].parent, runs'[c].spawnkey = runs'[d].spawnkey
        PROVE  FALSE
    <2>1. ASSUME NEW x \in Runs, NEW y \in Runs, BornChild(x), runs[y].status # "none",
                 runs'[x].parent = runs'[y].parent, runs'[x].spawnkey = runs'[y].spawnkey
          PROVE  FALSE
      <3>1. runs[y].parent = runs'[x].parent /\ runs[y].spawnkey = runs'[x].spawnkey
        BY <1>3, <2>1
      <3>2. y \in ChildrenOf(runs'[x].parent, runs'[x].spawnkey)
        BY <2>1, <3>1 DEF ChildrenOf
      <3> QED BY <2>1, <3>2 DEF BornChild
    <2>2. CASE BornChild(c) /\ BornChild(d)
      <3>1. ~SameRun(c) /\ ~SameRun(d)
        <4>1. ASSUME NEW x \in Runs, BornChild(x), SameRun(x), runs'[x].parent # None PROVE FALSE
          BY <4>1 DEF BornChild, SameRun, KinRow, Kinship
        <4> QED BY <1>7, <2>2, <4>1
      <3> QED BY <1>2, <1>7, <2>2, <3>1
    <2>3. CASE BornChild(c) /\ runs[d].status # "none" BY <1>7, <2>1, <2>3
    <2>4. CASE BornChild(d) /\ runs[c].status # "none" BY <1>7, <2>1, <2>4
    <2>5. CASE /\ runs[c].status # "none" /\ runs'[c].parent = runs[c].parent
               /\ runs'[c].spawnkey = runs[c].spawnkey
               /\ runs[d].status # "none" /\ runs'[d].parent = runs[d].parent
               /\ runs'[d].spawnkey = runs[d].spawnkey
      BY <1>7, <2>5 DEF Kinship, SpawnIdentity
    <2> QED BY <1>4, <1>7, <2>2, <2>3, <2>4, <2>5
  <1>8. SpawnIdentity' BY <1>6, <1>7 DEF SpawnIdentity
  <1> QED BY <1>5, <1>6, <1>8 DEF Kinship

\* A commit that keeps the identity of its run gives birth to none.
LEMMA CommitKin ==
  ASSUME TypeOK, NEW r \in Runs, NEW run, NEW rows, NEW released,
         Commit(r, run, rows, released), KinRow(run, r)
  PROVE  KinStep
  <1>1. runs' = [runs EXCEPT ![r] = run] BY DEF Commit
  <1>2. runs'[r] = run /\ \A c \in Runs \ {r} : runs'[c] = runs[c] BY <1>1 DEF TypeOK
  <1>3. \A c \in Runs : SameRun(c) BY <1>2 DEF SameRun
  <1> QED BY <1>3 DEF KinStep

\* Admitting a model call takes a step, sealing takes nothing.
LEMMA AdmitKin ==
  ASSUME NEW r, NEW run \in Run, KinRow(run, r), runs[r].steps \in Nat
  PROVE  /\ KinRow(AdmitModel(run), r)
         /\ KinRow([AdmitModel(run) EXCEPT !.close = "none"], r)
         /\ KinRow([AdmitModel(run) EXCEPT !.pending = NoSteer], r)
         /\ \A close \in {"final", "budget", "abort", "unknown"} : KinRow(SealRun(run, close), r)
  <1>1. /\ AdmitModel(run).parent = run.parent /\ AdmitModel(run).spawnkey = run.spawnkey
        /\ AdmitModel(run).granted = run.granted /\ AdmitModel(run).status = run.status
        /\ AdmitModel(run).steps = run.steps - 1 /\ AdmitModel(run).calls = run.calls
        /\ AdmitModel(run).wall = run.wall
        /\ DOMAIN AdmitModel(run) = DOMAIN run
    BY DEF AdmitModel, Run
  <1>2. run.steps \in Nat BY DEF Run
  <1>3. KinRow(AdmitModel(run), r) BY <1>1, <1>2 DEF KinRow
  <1>4. ASSUME NEW close \in {"final", "budget", "abort", "unknown"}
        PROVE  KinRow(SealRun(run, close), r)
    <2>1. /\ SealRun(run, close).parent = run.parent
          /\ SealRun(run, close).spawnkey = run.spawnkey
          /\ SealRun(run, close).granted = run.granted
          /\ SealRun(run, close).steps = run.steps /\ SealRun(run, close).calls = run.calls
          /\ SealRun(run, close).wall = run.wall
          /\ SealRun(run, close).status \in {"completed", "failed", "blocked_unknown"}
      BY DEF SealRun, Run
    <2> HIDE DEF SealRun
    <2> QED BY <2>1 DEF KinRow
  <1>5. /\ KinRow([AdmitModel(run) EXCEPT !.close = "none"], r)
        /\ KinRow([AdmitModel(run) EXCEPT !.pending = NoSteer], r)
    BY <1>2 DEF KinRow, AdmitModel, Run
  <1> QED BY <1>3, <1>4, <1>5

\* Closing and steer consumption keep the identity of the run.
LEMMA CloseKin ==
  ASSUME TypeOK, NEW e \in Eff, NEW run \in Run, KinRow(run, RunOf(e)), NEW rows,
         \/ \E close \in {"final", "budget"} : CloseRun(e, run, rows, close)
         \/ ConsumeSteer(RunOf(e), e, run, rows)
  PROVE  KinStep
  <1>1. RunOf(e) \in Runs /\ runs[RunOf(e)].steps \in Nat BY EffParts, RowTypes DEF Run
  <1>2. \A close : KinRow([run EXCEPT !.close = close], RunOf(e)) BY DEF KinRow, Run
  <1>3. KinRow([run EXCEPT !.pending = NoSteer], RunOf(e)) BY DEF KinRow, Run
  <1>4. ASSUME NEW close \in {"final", "budget"}, CloseRun(e, run, rows, close) PROVE KinStep
    <2> DEFINE seal == SealRun(run, close)
               kept == [run EXCEPT !.close = close]
    <2>1. \/ \E released : Commit(RunOf(e), seal, rows, released)
          \/ \E released : Commit(RunOf(e), kept, rows, released)
      BY <1>4 DEF CloseRun
    <2>2. KinRow(seal, RunOf(e)) /\ KinRow(kept, RunOf(e)) BY <1>1, <1>2, AdmitKin
    <2> HIDE DEF seal, kept
    <2> QED BY <1>1, <2>1, <2>2, CommitKin
  <1>5. ASSUME ConsumeSteer(RunOf(e), e, run, rows) PROVE KinStep
    <2> DEFINE next == [AdmitModel(run) EXCEPT !.pending = NoSteer]
               seal == SealRun(run, "budget")
               kept == [run EXCEPT !.pending = NoSteer]
    <2>1. \E any, released : \/ Commit(RunOf(e), next, any, released)
                            \/ Commit(RunOf(e), seal, any, released)
                            \/ Commit(RunOf(e), kept, any, released)
      BY <1>5 DEF ConsumeSteer
    <2>2. KinRow(next, RunOf(e)) /\ KinRow(seal, RunOf(e)) /\ KinRow(kept, RunOf(e))
      BY <1>1, <1>3, AdmitKin
    <2> HIDE DEF next, seal, kept
    <2> QED BY <1>1, <2>1, <2>2, CommitKin
  <1> QED BY <1>4, <1>5

\* User commands give birth to root runs only.
LEMMA UserCommandKin ==
  ASSUME TypeOK, UserCommand
  PROVE  KinStep
  <1>r. \A r \in Runs : runs[r] \in Run /\ runs[r].steps \in Nat BY RowTypes DEF Run
  <1>1. ASSUME NEW r \in Runs, NEW b \in Budgets, NEW required \in SUBSET Keys,
               Start(r, b, required)
        PROVE  KinStep
    <2> DEFINE run == AdmitModel(Started(b))
    <2>1. /\ b.steps \in Nat /\ b.calls \in Nat /\ b.wall \in Nat
      BY BudgetAssumption DEF Budget
    <2>2. /\ run.status = "running" /\ run.parent = None /\ run.granted = b
          /\ run.steps = b.steps - 1 /\ run.calls = b.calls /\ run.wall = b.wall
      BY DEF AdmitModel, Started, NoRun
    <2>3. runs[r].status = "none" /\ runs' = [runs EXCEPT ![r] = run] BY <1>1 DEF Start
    <2> HIDE DEF run
    <2>4. runs'[r] = run /\ \A c \in Runs \ {r} : runs'[c] = runs[c] BY <2>3 DEF TypeOK
    <2>5. BornRoot(r) BY <2>1, <2>2, <2>3, <2>4 DEF BornRoot, Within
    <2> QED BY <2>4, <2>5 DEF KinStep, SameRun
  <1>2. ASSUME NEW r \in Runs, runs[r].status \in {"running", "waiting"}
        PROVE  /\ KinRow(runs[r], r) /\ KinRow(Cancelled(r), r)
               /\ KinRow(Steered(r), r) /\ Steered(r) \in Run
               /\ KinRow(Answered(r), r) /\ Answered(r) \in Run
               /\ \A p : KinRow([Steered(r) EXCEPT !.pending = p], r)
    <2>1. runs[r].steps \in Nat /\ runs[r].calls \in Nat /\ runs[r].wall \in Nat
      BY RowTypes DEF Run
    <2>2. Steered(r) \in Run /\ Answered(r) \in Run BY <1>2, SteeredType, AnsweredType
    <2>3. KinRow(runs[r], r) BY <1>2, <2>1 DEF KinRow
    <2>4. KinRow(Cancelled(r), r) BY <1>r, <2>1 DEF KinRow, Cancelled, Run
    <2>5. KinRow(Steered(r), r) BY <1>r, <2>1 DEF KinRow, Steered, Run
    <2>6. KinRow(Answered(r), r) BY <1>r, <2>1 DEF KinRow, Answered, Run
    <2>7. \A p : KinRow([Steered(r) EXCEPT !.pending = p], r) BY <2>2, <2>5 DEF KinRow, Run
    <2> QED BY <2>2, <2>3, <2>4, <2>5, <2>6, <2>7
  <1>3. ASSUME NEW r \in Runs, Cancel(r) \/ SteerDeferred(r) \/ SteerAdmitted(r)
                 \/ SteerExhausted(r) \/ RespondAdmitted(r) \/ RespondExhausted(r)
        PROVE  KinStep
    <2>0. runs[r].status \in {"running", "waiting"}
      BY <1>3 DEF Cancel, SteerDeferred, SteerAdmitted, SteerExhausted, RespondAdmitted,
         RespondExhausted
    <2> DEFINE deferred == [Steered(r) EXCEPT !.pending = [epoch |-> runs[r].epoch + 1,
                                                           gen |-> runs[r].gen + 1]]
               news == {Cancelled(r), deferred, Steered(r), Answered(r), AdmitModel(Steered(r)),
                        AdmitModel(Answered(r)), SealRun(Steered(r), "budget"),
                        SealRun(Answered(r), "budget")}
    <2>1. \E rows, released : \/ Commit(r, Cancelled(r), rows, released)
                             \/ Commit(r, deferred, rows, released)
                             \/ Commit(r, Steered(r), rows, released)
                             \/ Commit(r, Answered(r), rows, released)
                             \/ Commit(r, AdmitModel(Steered(r)), rows, released)
                             \/ Commit(r, AdmitModel(Answered(r)), rows, released)
                             \/ Commit(r, SealRun(Steered(r), "budget"), rows, released)
                             \/ Commit(r, SealRun(Answered(r), "budget"), rows, released)
      BY <1>3 DEF Cancel, SteerDeferred, SteerAdmitted, SteerExhausted, RespondAdmitted,
         RespondExhausted
    <2>2. \A run \in news : KinRow(run, r) BY <1>r, <1>2, <2>0, AdmitKin
    <2>3. \E run \in news : \E rows, released : Commit(r, run, rows, released) BY <2>1
    <2> HIDE DEF news
    <2> QED BY <2>2, <2>3, CommitKin
  <1> QED BY <1>1, <1>3 DEF UserCommand

\* Receipts for tools keep the identity of the run.
LEMMA ToolSettlementKin ==
  ASSUME TypeOK, ToolSettlement, AllOK
  PROVE  KinStep
  <1>1. \A e \in Eff : \A w \in WallAfter(e) : ToolSettles(e) =>
          effects[e].status # "none" /\ w \in Nat /\ w <= runs[RunOf(e)].wall
    BY RowTypes, EffParts DEF WallAfter, Run, ToolSettles
  <1>2. ASSUME NEW e \in Eff, NEW w \in WallAfter(e), ToolSettles(e)
        PROVE  /\ RunOf(e) \in Runs /\ runs[RunOf(e)].status # "none"
               /\ Elapsed(e, w) \in Run /\ KinRow(Elapsed(e, w), RunOf(e))
    <2>1. RunOf(e) \in Runs /\ runs[RunOf(e)] \in Run /\ e \in EffectsOf(RunOf(e))
      BY EffParts, RowTypes
    <2>2. runs[RunOf(e)].status # "none" BY <1>2, <2>1 DEF AllOK, RunOK, ToolSettles, Live
    <2>3. Elapsed(e, w) \in Run BY <1>1, <1>2, ElapsedType
    <2> QED BY <1>1, <1>2, <2>1, <2>2, <2>3 DEF Elapsed, KinRow, Run
  <1>3. ASSUME NEW e \in Eff, NEW f \in Fact, NEW w \in WallAfter(e),
               SettleToolUnknown(e, w) \/ SettleToolOpen(e, f, w) \/ SettleToolLate(e, f, w)
                 \/ SettleToolClosing(e, f, w)
        PROVE  KinStep
    <2> DEFINE r == RunOf(e)
               run == Elapsed(e, w)
               seal == SealRun(run, "unknown")
               next == [AdmitModel(run) EXCEPT !.close = "none"]
    <2>1. ToolSettles(e)
      BY <1>3 DEF SettleToolUnknown, SettleToolOpen, SettleToolLate, SettleToolClosing
    <2>2. /\ r \in Runs /\ run \in Run /\ KinRow(run, r)
          /\ KinRow(seal, r) /\ KinRow(next, r)
      BY <1>2, <2>1, RowTypes, AdmitKin DEF Run
    <2>3. \/ \E rows, released : \/ Commit(r, run, rows, released)
                                \/ Commit(r, seal, rows, released)
                                \/ Commit(r, next, rows, released)
          \/ \E rows : \/ \E close \in {"final", "budget"} : CloseRun(e, run, rows, close)
                       \/ ConsumeSteer(r, e, run, rows)
      BY <1>3 DEF SettleToolUnknown, SettleToolOpen, SettleToolLate, SettleToolClosing
    <2> HIDE DEF run, seal, next
    <2> QED BY <2>2, <2>3, CommitKin, CloseKin
  <1> QED BY <1>3 DEF ToolSettlement, Fact

\* The run a model receipt pays from is the run of the call.
LEMMA PaidKin ==
  ASSUME TypeOK, AllOK, NEW e \in Eff, ModelSettles(e), NEW w \in WallAfter(e)
  PROVE  /\ RunOf(e) \in Runs /\ runs[RunOf(e)].status # "none"
         /\ Elapsed(e, w) \in Run /\ KinRow(Elapsed(e, w), RunOf(e))
         /\ \A u \in Usages : Paid(e, u, w) \in Run /\ KinRow(Paid(e, u, w), RunOf(e))
  <1>1. /\ RunOf(e) \in Runs /\ runs[RunOf(e)] \in Run
        /\ runs[RunOf(e)].status # "none"
    BY EffParts, RowTypes DEF ModelSettles, CancelLate
  <1>2. /\ w \in Nat /\ w <= runs[RunOf(e)].wall
        /\ runs[RunOf(e)].steps \in Nat /\ runs[RunOf(e)].calls \in Nat
    BY <1>1 DEF WallAfter, Run
  <1>3. Elapsed(e, w) \in Run /\ KinRow(Elapsed(e, w), RunOf(e))
    BY <1>1, <1>2, ElapsedType DEF Elapsed, KinRow, Run
  <1>4. ASSUME NEW u \in Usages
        PROVE  Paid(e, u, w) \in Run /\ KinRow(Paid(e, u, w), RunOf(e))
    <2>1. Paid(e, u, w) \in Run BY <1>2, BoundAssumption, PaidType
    <2>2. /\ Paid(e, u, w).parent = runs[RunOf(e)].parent
          /\ Paid(e, u, w).spawnkey = runs[RunOf(e)].spawnkey
          /\ Paid(e, u, w).granted = runs[RunOf(e)].granted
          /\ Paid(e, u, w).status = runs[RunOf(e)].status
          /\ Paid(e, u, w).steps = runs[RunOf(e)].steps
          /\ Paid(e, u, w).calls = runs[RunOf(e)].calls
          /\ Paid(e, u, w).wall = w
      BY <1>1 DEF Paid, Run
    <2> QED BY <1>1, <1>2, <2>1, <2>2 DEF KinRow
  <1> QED BY <1>1, <1>3, <1>4

\* Receipts for model calls keep the identity of the run.
LEMMA ModelSettlementKin ==
  ASSUME TypeOK, AllOK, ModelSettlement
  PROVE  KinStep
  <1>1. ASSUME NEW e \in Eff, NEW w \in WallAfter(e), SettleModelUnknown(e, w)
        PROVE  KinStep
    <2> DEFINE run == [runs[RunOf(e)] EXCEPT !.wall = w]
               seal == SealRun(run, "unknown")
    <2>1. RunOf(e) \in Runs /\ run \in Run /\ KinRow(run, RunOf(e))
      BY <1>1, PaidKin DEF SettleModelUnknown, Elapsed
    <2>2. KinRow(seal, RunOf(e)) BY <2>1, RowTypes, AdmitKin DEF Run
    <2>3. \E rows, released : \/ Commit(RunOf(e), run, rows, released)
                             \/ Commit(RunOf(e), seal, rows, released)
      BY <1>1 DEF SettleModelUnknown
    <2> HIDE DEF run, seal
    <2> QED BY <2>1, <2>2, <2>3, CommitKin
  <1>2. ASSUME NEW e \in Eff, NEW f \in Fact, NEW u \in Usages, NEW w \in WallAfter(e),
               \/ SettleModelCancelLate(e, f, u, w) \/ SettleModelLate(e, f, u, w)
               \/ SettleModelFailure(e, u, w) \/ SettleModelFinal(e, u, w)
               \/ SettleModelInteraction(e, u, w) \/ SettleModelText(e, u, w)
               \/ \E n \in 1..MaxTools : \E batch \in [1..n -> pins[RunOf(e)]] :
                    SettleModelTools(e, u, w, n, batch)
        PROVE  KinStep
    <2> DEFINE r == RunOf(e)
               run == Paid(e, u, w)
               seal == SealRun(run, "abort")
               next == [AdmitModel(run) EXCEPT !.close = "none"]
               asks == [run EXCEPT !.status = "waiting", !.interaction = e[2],
                                   !.close = "none", !.pending = NoSteer]
               fans(n) == [run EXCEPT !.calls = @ - n]
    <2>1. ModelSettles(e)
      BY <1>2 DEF SettleModelCancelLate, SettleModelLate, SettleModelFailure, SettleModelFinal,
         SettleModelInteraction, SettleModelText, SettleModelTools, ModelSettlesNow
    <2>2. r \in Runs /\ run \in Run /\ KinRow(run, r) BY <2>1, PaidKin
    <2>3. KinRow(seal, r) /\ KinRow(next, r) BY <2>2, RowTypes, AdmitKin DEF Run
    <2>4. KinRow(asks, r)
      <3> HIDE DEF run, r
      <3> QED BY <2>2 DEF KinRow, Run
    <2>5. ASSUME NEW n \in 1..MaxTools PROVE KinRow(fans(n), r)
      <3>1. n \in Nat /\ run.calls \in Nat /\ runs[r].calls \in Nat
        BY <2>2, RowTypes, BoundAssumption DEF Run
      <3> HIDE DEF run, r
      <3> QED BY <2>2, <3>1 DEF KinRow, Run
    <2>6. \/ \E rows, released : \/ Commit(r, run, rows, released)
                                \/ Commit(r, seal, rows, released)
                                \/ Commit(r, next, rows, released)
                                \/ Commit(r, asks, rows, released)
                                \/ \E n \in 1..MaxTools : Commit(r, fans(n), rows, released)
          \/ \E rows : \/ \E close \in {"final", "budget"} : CloseRun(e, run, rows, close)
                       \/ ConsumeSteer(r, e, run, rows)
      BY <1>2 DEF SettleModelCancelLate, SettleModelLate, SettleModelFailure, SettleModelFinal,
         SettleModelInteraction, SettleModelText, SettleModelTools
    <2> HIDE DEF run, seal, next, asks, fans
    <2> QED BY <2>2, <2>3, <2>4, <2>5, <2>6, CommitKin, CloseKin
  <1> QED BY <1>1, <1>2 DEF ModelSettlement, Fact

\* A spawn gives birth to one child, paid out of what the parent has left.
LEMMA SpawningKin ==
  ASSUME TypeOK, AllOK, Spawning
  PROVE  KinStep
  <1>1. ASSUME NEW e \in Eff, NEW u \in Usages, NEW key \in SpawnKeys, NEW g \in Grants,
               NEW c \in Runs, NEW owned \in {{}} \cup {{k} : k \in Keys},
               NEW w \in WallAfter(e), SpawnChild(e, u, w, key, g, c, owned)
        PROVE  KinStep
    <2> DEFINE r == RunOf(e)
               run == Paid(e, u, w)
               child == [NoRun EXCEPT !.status = "running", !.steps = g.steps,
                             !.calls = g.calls, !.wall = g.wall, !.models = 1,
                             !.tokens = Debit(g.tokens, ModelReserve(g.tokens)),
                             !.parent = r, !.spawnkey = key, !.granted = g]
               left == [run EXCEPT !.close = "none", !.interaction = 0,
                             !.steps = @ - g.steps, !.calls = @ - g.calls,
                             !.wall = @ - g.wall, !.tokens = Debit(@, g.tokens)]
    <2>1. /\ ModelSettles(e) /\ runs[r].status = "running"
          /\ runs[c].status = "none" /\ ChildrenOf(r, key) = {} /\ Fits(g, run)
          /\ runs' = [runs EXCEPT ![r] = left, ![c] = child]
      BY <1>1 DEF SpawnChild, ModelSettlesNow
    <2>2. r \in Runs /\ run \in Run /\ KinRow(run, r) /\ r # c BY <2>1, PaidKin
    <2>3. /\ g.steps \in Nat /\ g.calls \in Nat /\ g.wall \in Nat
          /\ runs[r].steps \in Nat /\ runs[r].calls \in Nat /\ runs[r].wall \in Nat
          /\ run.steps \in Nat /\ run.calls \in Nat /\ run.wall \in Nat
      BY <2>2, RowTypes, BudgetAssumption DEF Budget, Run
    <2>4. /\ child.status = "running" /\ child.parent = r /\ child.spawnkey = key
          /\ child.granted = g /\ child.steps = g.steps /\ child.calls = g.calls
          /\ child.wall = g.wall
      BY DEF NoRun
    <2>5. KinRow(left, r)
      <3> HIDE DEF run, r
      <3> QED BY <2>2, <2>3 DEF KinRow, Run
    <2>6. /\ runs'[r] = left /\ runs'[c] = child
          /\ \A q \in Runs \ {r, c} : runs'[q] = runs[q]
      <3> HIDE DEF left, child, r
      <3> QED BY <2>1, <2>2 DEF TypeOK
    <2>7. g.steps <= runs[r].steps /\ g.calls <= runs[r].calls /\ g.wall <= runs[r].wall
      <3> HIDE DEF run, r
      <3> QED BY <2>1, <2>2, <2>3 DEF Fits, KinRow
    <2> HIDE DEF left, child, run, r
    <2>8. BornChild(c)
      <3>1. /\ runs'[c].status = "running" /\ runs'[c].parent = r
            /\ runs'[c].spawnkey = key /\ runs'[c].granted = g
            /\ runs'[c].steps = g.steps /\ runs'[c].calls = g.calls /\ runs'[c].wall = g.wall
        BY <2>4, <2>6
      <3>2. Within(c)' BY <2>3, <3>1 DEF Within
      <3>3. runs[r].status # "none" BY <2>1
      <3> QED BY <2>1, <2>2, <2>7, <3>1, <3>2, <3>3 DEF BornChild
    <2>9. \A q \in Runs \ {c} : SameRun(q) BY <2>2, <2>5, <2>6 DEF SameRun
    <2> QED BY <2>8, <2>9 DEF KinStep
  <1>2. ASSUME NEW e \in Eff, NEW u \in Usages, NEW key \in SpawnKeys, NEW g \in Grants,
               NEW w \in WallAfter(e), SpawnReplay(e, u, w, key, g)
        PROVE  KinStep
    <2> DEFINE run == Paid(e, u, w)
               next == [run EXCEPT !.close = "none", !.interaction = 0]
               none == {}
    <2>1. RunOf(e) \in Runs /\ run \in Run /\ KinRow(run, RunOf(e))
      BY <1>2, PaidKin DEF SpawnReplay, ModelSettlesNow
    <2>2. Commit(RunOf(e), next, Settled(e, "succeeded", u), none)
      BY <1>2 DEF SpawnReplay
    <2>3. KinRow(next, RunOf(e))
      <3> HIDE DEF run
      <3> QED BY <2>1 DEF KinRow, Run
    <2> HIDE DEF next, none
    <2> QED BY <2>1, <2>2, <2>3, CommitKin
  <1> QED BY <1>1, <1>2 DEF Spawning

\* A sweep keeps every run who it is.
LEMMA SweepKin ==
  ASSUME TypeOK, AllOK, Sweep
  PROVE  KinStep
  <1>1. PICK S \in SUBSET Expired, wall \in [Runs -> 0..MaxWall] :
          Recover(S, wall) /\ \A r \in Runs : wall[r] <= runs[r].wall
    BY DEF Sweep
  <1>2. ASSUME NEW c \in Runs PROVE SameRun(c)
    <2> DEFINE H == S \cap EffectsOf(c)
               timed == [runs[c] EXCEPT !.wall = wall[c]]
               seal == SealRun(timed, "unknown")
    <2>1. runs'[c] = runs[c] \/ (H # {} /\ runs'[c] \in {timed, seal})
      BY <1>1 DEF Recover, Walled
    <2>2. /\ runs[c] \in Run /\ wall[c] \in Nat /\ wall[c] <= runs[c].wall
          /\ runs[c].steps \in Nat /\ runs[c].calls \in Nat
      BY <1>1, RowTypes DEF Run
    <2>3. ASSUME NEW x \in H PROVE runs[c].status # "none"
      <3>1. x \in EffectsOf(c) /\ Live(x) BY DEF Expired, Live
      <3>2. RunOK(c) BY DEF AllOK
      <3> QED BY <3>1, <3>2 DEF RunOK
    <2>4. timed \in Run /\ (H # {} => KinRow(timed, c)) BY <2>2, <2>3 DEF KinRow, Run
    <2>5. H # {} => KinRow(seal, c) BY <2>2, <2>4, AdmitKin
    <2> HIDE DEF timed, seal, H
    <2> QED BY <2>1, <2>4, <2>5 DEF SameRun
  <1> QED BY <1>2 DEF KinStep

\* Every step gives birth to one run at most and keeps the others who they are.
LEMMA StepKin ==
  ASSUME TypeOK, AllOK, Next
  PROVE  KinStep
  <1>1. ASSUME NEW e \in Eff, Claim(e) \/ ExpireLease(e) PROVE KinStep
    BY <1>1 DEF Claim, ExpireLease, KinStep, SameRun
  <1> QED BY <1>1, UserCommandKin, ModelSettlementKin, SpawningKin, ToolSettlementKin, SweepKin
          DEF Next

\* Kinship is an invariant beside the safety invariant of the loop.
THEOREM KinshipHolds == Spec => [](LoopInvariant /\ Kinship)
  <1>1. Init => Kinship BY DEF Init, Kinship, SpawnIdentity, Within, NoRun, NoBudget
  <1>2. LoopInvariant /\ LoopInvariant' /\ Kinship /\ [Next]_vars => Kinship'
    <2> SUFFICES ASSUME LoopInvariant, LoopInvariant', Kinship, [Next]_vars PROVE Kinship'
      OBVIOUS
    <2>1. TypeOK /\ TypeOK' /\ AllOK BY InvariantByRun DEF LoopInvariant
    <2>2. KinStep BY <2>1, StepKin DEF vars, KinStep, SameRun
    <2> QED BY <2>1, <2>2, KinStepKeeps
  <1> QED BY <1>1, <1>2, LoopSafe, PTL DEF Spec

\* However often a spawn intent is repeated, its key names one child of its parent, and no
\* child, grandchild or later descendant is granted more than its parent had been.
THEOREM SpawnsAreUnique == Spec => []SpawnIdentity
  <1>1. LoopInvariant /\ Kinship => SpawnIdentity BY DEF Kinship
  <1> QED BY <1>1, KinshipHolds, PTL

-----------------------------------------------------------------------------
(* Effects: origin and progress *)

\* A row that keeps its origin and at most leaves the queue: no worker gets it.
RestsAs(x, row) ==
  /\ row.epoch = effects[x].epoch /\ row.gen = effects[x].gen /\ row.from = effects[x].from
  /\ \/ row.status = effects[x].status
     \/ effects[x].status = "ready" /\ row.status = "cancelled"
     \/ effects[x].status = "claimed" /\ row.status \in {"succeeded", "failed", "unknown"}

Rests(x) == RestsAs(x, effects'[x])

\* The model call x continues its source: nothing of the batch is live any more, and
\* no other call continues it.
Continues(x) ==
  LET n == effects'[x].from
      s == <<x[1], n, 0>>
  IN /\ effects'[s].status = "succeeded"
     /\ effects'[s].epoch = effects'[x].epoch /\ effects'[s].gen = effects'[x].gen
     /\ \A t \in EffectsOf(RunOf(x)) :
          IsTool(t) /\ t[2] = n => effects'[t].status \notin {"ready", "claimed"}
     /\ \A y \in EffectsOf(RunOf(x)) \ {x} : IsModel(y) => effects'[y].from # n

\* A tool of the batch the settling model call asks for.
FansOut(x) ==
  /\ effects[ModelOf(x)].status = "claimed" /\ effects'[ModelOf(x)].status = "succeeded"
  /\ effects'[ModelOf(x)].epoch = effects'[x].epoch
  /\ effects'[ModelOf(x)].gen = effects'[x].gen
  /\ effects'[x].from = 0

Publishes(x) ==
  /\ effects[x].status = "none" /\ effects'[x].status = "ready"
  /\ IsTool(x) => FansOut(x)
  /\ IsModel(x) /\ effects'[x].from # 0 => Continues(x)

\* What every step but a claim does to effect rows.
Progress == \A x \in Eff : Rests(x) \/ Publishes(x)

\* Absent rows have no origin; with it the rules about batches are inductive.
NoOrigin == \A e \in Eff : effects[e].status = "none" => effects[e].from = 0

Lineage == NoOrigin /\ BatchRules

-----------------------------------------------------------------------------
(* Progress keeps the rules about batches and generations. *)

\* The call a row comes from is an effect.
LEMMA SourceEff ==
  ASSUME TypeOK, NEW e \in Eff
  PROVE  /\ ModelOf(e) \in Eff
         /\ effects[e].from # 0 => <<e[1], effects[e].from, 0>> \in Eff
  <1>1. 0 \in 0..MaxTools BY BoundAssumption
  <1>2. effects[e].from \in 0..MaxModels BY RowTypes DEF Effect
  <1>3. effects[e].from # 0 => effects[e].from \in 1..MaxModels BY <1>2, BoundAssumption
  <1> QED BY <1>1, <1>3, EffParts, EffBuilt DEF ModelOf

\* A step that moves effect rows only along Progress keeps the rules about their origins.
LEMMA ProgressLineage ==
  ASSUME TypeOK, TypeOK', Lineage, Progress
  PROVE  Lineage'
  <1>1. \A x \in Eff : Rests(x) \/ Publishes(x) BY DEF Progress
  <1>2. NoOrigin'
    BY <1>1 DEF NoOrigin, Lineage, Rests, RestsAs, Publishes
  <1>3. ASSUME NEW s \in Eff, effects[s].status = "succeeded"
        PROVE  /\ effects'[s].status = "succeeded" /\ effects'[s].epoch = effects[s].epoch
               /\ effects'[s].gen = effects[s].gen
    BY <1>1, <1>3 DEF Rests, RestsAs, Publishes
  <1>4. InheritsGeneration'
    <2> SUFFICES ASSUME NEW e \in Eff, effects'[e].status # "none",
                        IsTool(e) \/ effects'[e].from # 0
                 PROVE  LET s == IF IsTool(e) THEN ModelOf(e) ELSE <<e[1], effects'[e].from, 0>>
                        IN /\ effects'[s].status = "succeeded"
                           /\ effects'[s].epoch = effects'[e].epoch
                           /\ effects'[s].gen = effects'[e].gen
      BY DEF InheritsGeneration, IsTool, ModelOf
    <2>1. CASE Rests(e)
      <3> DEFINE s == IF IsTool(e) THEN ModelOf(e) ELSE <<e[1], effects[e].from, 0>>
      <3>1. /\ effects[e].status # "none" /\ effects'[e].from = effects[e].from
            /\ effects'[e].epoch = effects[e].epoch /\ effects'[e].gen = effects[e].gen
        BY <2>1 DEF Rests, RestsAs
      <3>2. s \in Eff BY <3>1, SourceEff
      <3>3. /\ effects[s].status = "succeeded" /\ effects[s].epoch = effects[e].epoch
            /\ effects[s].gen = effects[e].gen
        BY <3>1 DEF Lineage, BatchRules, InheritsGeneration
      <3>4. /\ effects'[s].status = "succeeded" /\ effects'[s].epoch = effects[s].epoch
            /\ effects'[s].gen = effects[s].gen
        <4> HIDE DEF s
        <4> QED BY <1>3, <3>2, <3>3
      <3> QED BY <3>1, <3>3, <3>4
    <2>2. CASE Publishes(e)
      BY <2>2 DEF Publishes, FansOut, Continues, IsTool, IsModel
    <2> QED BY <1>1, <2>1, <2>2
  <1>5. BatchBarrier'
    <2> SUFFICES ASSUME NEW m \in Eff, IsModel(m), effects'[m].from # 0
                 PROVE  /\ \A t \in EffectsOf(RunOf(m)) :
                             IsTool(t) /\ t[2] = effects'[m].from
                               => effects'[t].status \notin {"ready", "claimed"}
                        /\ \A x \in EffectsOf(RunOf(m)) :
                             IsModel(x) /\ effects'[x].from = effects'[m].from => x = m
      BY DEF BatchBarrier, IsTool, IsModel, EffectsOf, RunOf, Live
    <2>1. CASE Publishes(m) BY <2>1 DEF Publishes, Continues
    <2>2. CASE Rests(m)
      <3>1. effects'[m].from = effects[m].from /\ effects[m].status # "none"
        BY <2>2 DEF Rests, RestsAs, Lineage, NoOrigin
      <3>2. effects[<<m[1], effects[m].from, 0>>].status = "succeeded"
        BY <3>1 DEF Lineage, BatchRules, InheritsGeneration, IsTool, IsModel
      <3>3. ASSUME NEW t \in EffectsOf(RunOf(m)), IsTool(t), t[2] = effects'[m].from
            PROVE  effects'[t].status \notin {"ready", "claimed"}
        <4>1. t \in Eff /\ t[1] = m[1] BY EffectsOfRun DEF RunOf
        <4>2. ~Live(t) BY <3>1, <3>3 DEF Lineage, BatchRules, BatchBarrier
        <4>3. ModelOf(t) = <<m[1], effects[m].from, 0>> BY <3>1, <3>3, <4>1 DEF ModelOf
        <4>4. ~Publishes(t) BY <3>2, <3>3, <4>3 DEF Publishes, FansOut
        <4> QED BY <1>1, <4>1, <4>2, <4>4 DEF Rests, RestsAs, Live
      <3>4. ASSUME NEW x \in EffectsOf(RunOf(m)), IsModel(x), effects'[x].from = effects'[m].from
            PROVE  x = m
        <4>1. x \in Eff /\ RunOf(x) = RunOf(m) /\ m \in EffectsOf(RunOf(x))
          BY EffectsOfRun, EffParts
        <4>2. CASE Rests(x)
          BY <3>1, <3>4, <4>2 DEF Rests, RestsAs, Lineage, BatchRules, BatchBarrier
        <4>3. CASE Publishes(x) BY <3>1, <3>4, <4>1, <4>3 DEF Publishes, Continues
        <4> QED BY <1>1, <4>1, <4>2, <4>3
      <3> QED BY <3>3, <3>4
    <2> QED BY <1>1, <2>1, <2>2
  <1> QED BY <1>2, <1>4, <1>5 DEF Lineage, BatchRules

-----------------------------------------------------------------------------
(* The shapes in which the actions write effect rows. *)

\* Rows that all rest.
LEMMA RestProgress ==
  ASSUME NEW rows, effects' = rows, \A x \in Eff : RestsAs(x, rows[x])
  PROVE  Progress
  BY DEF Progress, Rests

\* A stored receipt.
LEMMA SettledRests ==
  ASSUME TypeOK, NEW e \in Eff, effects[e].status = "claimed", NEW charge,
         NEW f \in {"succeeded", "failed", "unknown"}
  PROVE  /\ \A x \in Eff : RestsAs(x, Settled(e, f, charge)[x])
         /\ \A x \in Eff \ {e} : Settled(e, f, charge)[x] = effects[x]
         /\ Settled(e, f, charge)[e].status = f
         /\ DOMAIN Settled(e, f, charge) = Eff
  <1>1. effects[e] \in Effect BY RowTypes
  <1> QED BY <1>1 DEF Settled, TypeOK, Effect, RestsAs

\* Archived effects leave the queue, claims stay.
LEMMA ArchivedRests ==
  ASSUME TypeOK, NEW r \in Runs, NEW revoke \in BOOLEAN
  PROVE  /\ \A x \in Eff : RestsAs(x, Archived(r, revoke)[x])
         /\ DOMAIN Archived(r, revoke) = Eff
  <1>1. \A x \in Eff : effects[x] \in Effect BY RowTypes
  <1> QED BY <1>1 DEF Archived, ReadyOf, ClaimedOf, EffectsOf, Effect, RestsAs

\* One model call is published besides, with an origin it may claim.
LEMMA PublishProgress ==
  ASSUME TypeOK, NEW n \in Eff, IsModel(n), effects[n].status = "none",
         NEW rows, DOMAIN rows = Eff, NEW row, row.status = "ready",
         effects' = [rows EXCEPT ![n] = row],
         \A x \in Eff \ {n} : RestsAs(x, rows[x]),
         row.from # 0 => Continues(n)
  PROVE  Progress
  <1>1. effects'[n] = row OBVIOUS
  <1>2. \A x \in Eff \ {n} : effects'[x] = rows[x] OBVIOUS
  <1>3. Publishes(n) BY <1>1 DEF Publishes, IsModel, IsTool
  <1>4. \A x \in Eff \ {n} : Rests(x) BY <1>2 DEF Rests
  <1> QED BY <1>3, <1>4 DEF Progress

\* The next model call of a run has not been emitted yet.
LEMMA NextIsNew ==
  ASSUME TypeOK, AllOK, NEW r \in Runs, RoomForModel(r)
  PROVE  /\ NextModel(r) \in Eff /\ IsModel(NextModel(r)) /\ RunOf(NextModel(r)) = r
         /\ NextModel(r) \in EffectsOf(r) /\ effects[NextModel(r)].status = "none"
  <1>1. NextModel(r) \in Eff /\ RunOf(NextModel(r)) = r BY NextModelEff
  <1>2. NextModel(r) \in EffectsOf(r) /\ RunOK(r) BY <1>1 DEF EffectsOf, AllOK
  <1>3. runs[r].models \in Nat BY RowTypes, BoundAssumption DEF Run
  <1>4. NextModel(r)[2] = runs[r].models + 1 /\ IsModel(NextModel(r)) BY DEF NextModel, IsModel
  <1> QED BY <1>1, <1>2, <1>3, <1>4 DEF RunOK

\* A receipt that publishes a model call without an origin, or one that continues.
LEMMA AdmitProgress ==
  ASSUME TypeOK, AllOK, NEW e \in Eff, effects[e].status = "claimed", NEW charge, NEW f \in Fact,
         RoomForModel(RunOf(e)), NEW row, row.status = "ready",
         effects' = [Settled(e, f, charge) EXCEPT ![NextModel(RunOf(e))] = row],
         row.from # 0 => Continues(NextModel(RunOf(e)))
  PROVE  Progress
  <1>1. f \in {"succeeded", "failed", "unknown"} BY DEF Fact
  <1>2. NextModel(RunOf(e)) \in Eff /\ IsModel(NextModel(RunOf(e)))
        /\ effects[NextModel(RunOf(e))].status = "none"
    BY NextIsNew, EffParts
  <1>3. /\ DOMAIN Settled(e, f, charge) = Eff
        /\ \A x \in Eff : RestsAs(x, Settled(e, f, charge)[x])
    BY <1>1, SettledRests
  <1> QED BY <1>2, <1>3, PublishProgress

\* The row of a published model call.
LEMMA ModelRowFields ==
  ASSUME NEW run, NEW epoch, NEW gen, NEW from
  PROVE  /\ ModelRow(run, epoch, gen, from).status = "ready"
         /\ ModelRow(run, epoch, gen, from).epoch = epoch
         /\ ModelRow(run, epoch, gen, from).gen = gen
         /\ ModelRow(run, epoch, gen, from).from = from
  BY DEF ModelRow, NoEffect

\* A settlement that closes the last open work of its generation may continue it: its
\* model call succeeded, nothing of the batch is live and nobody continued it before.
LEMMA ContinuesFrom ==
  ASSUME TypeOK, AllOK, Lineage, NEW e \in Eff, effects[e].status = "claimed", NEW charge,
         NEW f \in Fact, IsModel(e) => f = "succeeded",
         RoomForModel(RunOf(e)), NEW row, row.from = e[2],
         row.epoch = effects[e].epoch, row.gen = effects[e].gen,
         effects' = [Settled(e, f, charge) EXCEPT ![NextModel(RunOf(e))] = row],
         \A x \in EffectsOf(RunOf(e)) : IsTool(x) /\ x[2] = e[2] /\ x # e => ~Live(x),
         IsTool(e) => ~Continued(e)
  PROVE  Continues(NextModel(RunOf(e)))
  <1> DEFINE r == RunOf(e)
             n == NextModel(RunOf(e))
  <1>0. f \in {"succeeded", "failed", "unknown"} /\ e[2] \in 1..MaxModels /\ r \in Runs
        /\ e \in EffectsOf(r) /\ e[1] = r
    BY EffParts DEF Fact, RunOf
  <1>1. n \in Eff /\ IsModel(n) /\ n # e /\ effects[n].status = "none" /\ n[1] = r /\ RunOf(n) = r
        /\ n \in EffectsOf(r)
    BY <1>0, NextIsNew DEF RunOf
  <1>2. /\ effects'[n] = row
        /\ \A x \in Eff \ {n} : effects'[x] = Settled(e, f, charge)[x]
    <2>1. DOMAIN Settled(e, f, charge) = Eff BY <1>0, SettledRests
    <2>2. effects' = [Settled(e, f, charge) EXCEPT ![n] = row] OBVIOUS
    <2> HIDE DEF n
    <2> QED BY <1>1, <2>1, <2>2
  <1>3. ModelOf(e) = <<r, e[2], 0>> /\ ModelOf(e) \in Eff /\ (IsModel(e) => ModelOf(e) = e)
    BY <1>0, SourceEff, EffParts DEF ModelOf, IsModel
  <1>4. /\ ModelOf(e) # n /\ effects'[ModelOf(e)].status = "succeeded"
        /\ effects'[ModelOf(e)].epoch = effects[e].epoch
        /\ effects'[ModelOf(e)].gen = effects[e].gen
    <2>1. CASE IsModel(e)
      <3>1. effects'[e] = Settled(e, f, charge)[e] BY <1>1, <1>2
      <3>2. RestsAs(e, Settled(e, f, charge)[e]) /\ Settled(e, f, charge)[e].status = "succeeded"
        BY <1>0, <2>1, SettledRests
      <3> QED BY <1>1, <1>3, <2>1, <3>1, <3>2 DEF RestsAs
    <2>2. CASE IsTool(e)
      <3>1. /\ effects[ModelOf(e)].status = "succeeded"
            /\ effects[ModelOf(e)].epoch = effects[e].epoch
            /\ effects[ModelOf(e)].gen = effects[e].gen
        BY <2>2 DEF Lineage, BatchRules, InheritsGeneration
      <3>2. ModelOf(e) # n /\ ModelOf(e) # e BY <1>1, <3>1
      <3>3. effects'[ModelOf(e)] = effects[ModelOf(e)] BY <1>0, <1>2, <1>3, <3>2, SettledRests
      <3> QED BY <3>1, <3>2, <3>3
    <2> QED BY <2>1, <2>2 DEF IsModel, IsTool
  <1>5. ASSUME NEW t \in EffectsOf(r), IsTool(t), t[2] = e[2]
        PROVE  effects'[t].status \notin {"ready", "claimed"}
    <2>1. t \in Eff /\ t # n BY <1>1, <1>5, EffectsOfRun DEF IsTool, IsModel
    <2>2. effects'[t] = Settled(e, f, charge)[t] BY <1>2, <2>1
    <2>3. CASE t = e
      <3>1. Settled(e, f, charge)[e].status = f BY <1>0, SettledRests
      <3> QED BY <2>2, <2>3, <3>1 DEF Fact
    <2>4. CASE t # e
      <3>1. Settled(e, f, charge)[t] = effects[t] BY <1>0, <2>1, <2>4, SettledRests
      <3> QED BY <1>5, <2>2, <2>4, <3>1 DEF Live
    <2> QED BY <2>3, <2>4
  <1>6. ASSUME NEW y \in EffectsOf(r) \ {n}, IsModel(y) PROVE effects'[y].from # e[2]
    <2>1. y \in Eff /\ RestsAs(y, Settled(e, f, charge)[y]) BY <1>0, EffectsOfRun, SettledRests
    <2>2. effects'[y].from = effects[y].from BY <1>2, <1>6, <2>1 DEF RestsAs
    <2>3. ASSUME effects[y].from = e[2] PROVE FALSE
      <3>1. y[1] = r BY EffectsOfRun DEF RunOf
      <3>2. effects[y].from # 0 /\ <<y[1], effects[y].from, 0>> = ModelOf(e)
        BY <1>0, <1>3, <2>3, <3>1
      <3>3. effects[y].status # "none" BY <2>1, <3>2 DEF Lineage, NoOrigin
      <3>4. effects[ModelOf(e)].status = "succeeded"
        BY <1>6, <2>1, <3>2, <3>3 DEF Lineage, BatchRules, InheritsGeneration, IsModel, IsTool
      <3>5. IsTool(e) BY <1>3, <3>4 DEF IsTool, IsModel
      <3> QED BY <1>6, <2>3, <3>5 DEF Continued
    <2> QED BY <2>2, <2>3
  <1> QED BY <1>1, <1>2, <1>3, <1>4, <1>5, <1>6 DEF Continues

-----------------------------------------------------------------------------
(* Every step but a claim is progress. *)

\* Rows that stay make progress.
LEMMA SameProgress ==
  ASSUME effects' = effects
  PROVE  Progress
  BY RestProgress DEF RestsAs

\* A stored receipt alone.
LEMMA FactProgress ==
  ASSUME TypeOK, NEW e \in Eff, effects[e].status = "claimed", NEW charge,
         NEW f \in {"succeeded", "failed", "unknown"}, effects' = Settled(e, f, charge)
  PROVE  Progress
  BY SettledRests, RestProgress

\* Closing a run stores the receipt and publishes nothing.
LEMMA CloseProgress ==
  ASSUME TypeOK, NEW e \in Eff, effects[e].status = "claimed", NEW charge, NEW run, NEW close,
         NEW f \in Fact, CloseRun(e, run, Settled(e, f, charge), close)
  PROVE  Progress
  <1>1. effects' = Settled(e, f, charge) BY DEF CloseRun, Commit
  <1> QED BY <1>1, FactProgress DEF Fact

\* Consuming a steer publishes at most one call, which continues nothing.
LEMMA ConsumeProgress ==
  ASSUME TypeOK, AllOK, NEW e \in Eff, effects[e].status = "claimed", NEW charge, NEW run,
         NEW f \in Fact, ConsumeSteer(RunOf(e), e, run, Settled(e, f, charge))
  PROVE  Progress
  <1>1. CASE effects' = Settled(e, f, charge) BY <1>1, FactProgress DEF Fact
  <1>2. CASE effects' # Settled(e, f, charge)
    <2> DEFINE gen == IF run.gen > run.pending.gen THEN run.gen ELSE run.pending.gen
               row == ModelRow(run, run.pending.epoch, gen, 0)
    <2>1. /\ RoomForModel(RunOf(e))
          /\ effects' = [Settled(e, f, charge) EXCEPT ![NextModel(RunOf(e))] = row]
      BY <1>2 DEF ConsumeSteer, Commit
    <2>2. row.status = "ready" /\ row.from = 0 BY ModelRowFields
    <2> HIDE DEF row
    <2> QED BY <2>1, <2>2, AdmitProgress
  <1> QED BY <1>1, <1>2

\* User commands archive what is queued and publish calls that continue nothing.
LEMMA UserCommandProgress ==
  ASSUME TypeOK, AllOK, UserCommand
  PROVE  Progress
  <1>e. DOMAIN effects = Eff BY DEF TypeOK
  <1>1. ASSUME NEW r \in Runs, NEW b \in Budgets, NEW required \in SUBSET Keys,
               Start(r, b, required)
        PROVE  Progress
    <2> DEFINE row == ModelRow(Started(b), 1, 1, 0)
    <2>1. /\ runs[r].status = "none" /\ effects' = [effects EXCEPT ![<<r, 1, 0>>] = row]
      BY <1>1 DEF Start
    <2>2. row.status = "ready" /\ row.from = 0 BY ModelRowFields
    <2>3. RunOK(r) BY DEF AllOK
    <2>4. <<r, 1, 0>> \in Eff /\ <<r, 1, 0>> \in EffectsOf(r) /\ IsModel(<<r, 1, 0>>)
      BY EffBuilt, BoundAssumption DEF EffectsOf, IsModel
    <2>5. effects[<<r, 1, 0>>].status = "none" BY <2>1, <2>3, <2>4 DEF RunOK
    <2> HIDE DEF row
    <2> QED BY <1>e, <2>1, <2>2, <2>4, <2>5, PublishProgress DEF RestsAs
  <1>2. ASSUME NEW r \in Runs, NEW revoke \in BOOLEAN, effects' = Archived(r, revoke)
        PROVE  Progress
    BY <1>2, ArchivedRests, RestProgress
  <1>3. ASSUME NEW r \in Runs, SteerAdmitted(r) PROVE Progress
    <2> DEFINE row == ModelRow(Steered(r), runs[r].epoch + 1, runs[r].gen + 1, 0)
    <2>1. RoomForModel(r) /\ effects' = [Archived(r, FALSE) EXCEPT ![NextModel(r)] = row]
      BY <1>3 DEF SteerAdmitted, Commit
    <2>2. row.status = "ready" /\ row.from = 0 BY ModelRowFields
    <2> HIDE DEF row
    <2> QED BY <2>1, <2>2, ArchivedRests, NextIsNew, PublishProgress
  <1>4. ASSUME NEW r \in Runs, RespondAdmitted(r) PROVE Progress
    <2> DEFINE row == ModelRow(runs[r], runs[r].epoch, runs[r].gen + 1, 0)
    <2>1. RoomForModel(r) /\ effects' = [effects EXCEPT ![NextModel(r)] = row]
      BY <1>4 DEF RespondAdmitted, Commit
    <2>2. row.status = "ready" /\ row.from = 0 BY ModelRowFields
    <2> HIDE DEF row
    <2> QED BY <1>e, <2>1, <2>2, NextIsNew, PublishProgress DEF RestsAs
  <1>5. ASSUME NEW r \in Runs, Cancel(r) \/ SteerDeferred(r) \/ SteerExhausted(r)
        PROVE  effects' = Archived(r, TRUE) \/ effects' = Archived(r, FALSE)
    BY <1>5 DEF Cancel, SteerDeferred, SteerExhausted, Commit
  <1>6. ASSUME NEW r \in Runs, RespondExhausted(r) PROVE effects' = effects
    BY <1>6 DEF RespondExhausted, Commit
  <1>7. ASSUME NEW r \in Runs, Cancel(r) \/ SteerDeferred(r) \/ SteerExhausted(r)
        PROVE  Progress
    BY <1>2, <1>5, <1>7
  <1> QED BY <1>1, <1>3, <1>4, <1>6, <1>7, SameProgress DEF UserCommand

\* Expiring leases and sweeps hand nothing back to the queue.
LEMMA SweepProgress ==
  ASSUME TypeOK, Sweep \/ \E e \in Eff : ExpireLease(e)
  PROVE  Progress
  <1>0. \A x \in Eff : effects[x] \in Effect BY RowTypes
  <1>1. ASSUME NEW e \in Eff, ExpireLease(e) PROVE Progress
    <2> SUFFICES ASSUME NEW x \in Eff PROVE RestsAs(x, effects'[x])
      BY DEF Progress, Rests
    <2>1. effects'[x] = IF x = e THEN [effects[x] EXCEPT !.expired = TRUE] ELSE effects[x]
      BY <1>1 DEF ExpireLease, TypeOK
    <2> QED BY <1>0, <2>1 DEF RestsAs, Effect
  <1>2. ASSUME Sweep PROVE Progress
    <2> SUFFICES ASSUME NEW x \in Eff PROVE RestsAs(x, effects'[x])
      BY DEF Progress, Rests
    <2>1. PICK S \in SUBSET Expired, wall \in [Runs -> 0..MaxWall] : Recover(S, wall)
      BY <1>2 DEF Sweep
    <2>2. effects'[x] = IF x \in S
                        THEN [effects[x] EXCEPT !.status = "unknown", !.expired = FALSE,
                                                !.charge = effects[x].reserve]
                        ELSE effects[x]
      BY <2>1 DEF Recover
    <2>3. x \in S => effects[x].status = "claimed" BY DEF Expired
    <2> QED BY <1>0, <2>2, <2>3 DEF RestsAs, Effect
  <1> QED BY <1>1, <1>2

\* A settled tool publishes the continuation of its batch, or nothing.
LEMMA ToolSettlementProgress ==
  ASSUME TypeOK, AllOK, Lineage, ToolSettlement
  PROVE  Progress
  <1>0. \A e \in Eff : ToolSettles(e) => effects[e].status = "claimed" /\ IsTool(e)
    BY DEF ToolSettles
  <1>1. ASSUME NEW e \in Eff, NEW w \in WallAfter(e), SettleToolUnknown(e, w)
        PROVE  Progress
    <2>1. effects' = Settled(e, "unknown", 0) /\ effects[e].status = "claimed"
      BY <1>0, <1>1 DEF SettleToolUnknown, Commit
    <2> QED BY <2>1, FactProgress
  <1>2. ASSUME NEW e \in Eff, NEW f \in Fact, NEW w \in WallAfter(e), SettleToolOpen(e, f, w)
        PROVE  Progress
    <2>1. effects' = Settled(e, f, 0) /\ effects[e].status = "claimed"
      BY <1>0, <1>2 DEF SettleToolOpen, Commit
    <2> QED BY <2>1, FactProgress DEF Fact
  <1>3. ASSUME NEW e \in Eff, NEW f \in Fact, NEW w \in WallAfter(e), SettleToolLate(e, f, w)
        PROVE  Progress
    <2>1. effects[e].status = "claimed" BY <1>0, <1>3 DEF SettleToolLate
    <2>2. \/ ConsumeSteer(RunOf(e), e, Elapsed(e, w), Settled(e, f, 0))
          \/ effects' = Settled(e, f, 0)
      BY <1>3 DEF SettleToolLate, Commit
    <2> QED BY <2>1, <2>2, ConsumeProgress, FactProgress DEF Fact
  <1>4. ASSUME NEW e \in Eff, NEW f \in Fact, NEW w \in WallAfter(e),
               SettleToolClosing(e, f, w)
        PROVE  Progress
    <2> DEFINE r == RunOf(e)
               run == Elapsed(e, w)
               row == ModelRow(run, run.epoch, run.gen, e[2])
    <2>1. /\ effects[e].status = "claimed" /\ IsTool(e) /\ ~IsModel(e)
          /\ \A x \in Siblings(e) : ~Live(x)
          /\ ~Continued(e) /\ ~Late(e)
      BY <1>0, <1>4 DEF SettleToolClosing, ToolLate, IsTool, IsModel
    <2>2. \/ \E close \in {"final", "budget"} : CloseRun(e, run, Settled(e, f, 0), close)
          \/ /\ RoomForModel(r)
             /\ effects' = [Settled(e, f, 0) EXCEPT ![NextModel(r)] = row]
      BY <1>4 DEF SettleToolClosing, Commit
    <2>3. /\ row.status = "ready" /\ row.from = e[2]
          /\ row.epoch = effects[e].epoch /\ row.gen = effects[e].gen
      <3>1. run.epoch = runs[r].epoch /\ run.gen = runs[r].gen
        BY <1>4, PaidCharged DEF Charged
      <3>2. row.epoch = run.epoch /\ row.gen = run.gen
            /\ row.status = "ready" /\ row.from = e[2]
        BY ModelRowFields
      <3> QED BY <2>1, <3>1, <3>2 DEF Late
    <2>4. \A x \in EffectsOf(r) : IsTool(x) /\ x[2] = e[2] /\ x # e => ~Live(x)
      BY <2>1, EffectsOfRun DEF Siblings, ModelOf, RunOf
    <2> HIDE DEF row, run
    <2>5. CASE \E close \in {"final", "budget"} : CloseRun(e, run, Settled(e, f, 0), close)
      BY <2>1, <2>5, CloseProgress
    <2>6. CASE /\ RoomForModel(r)
               /\ effects' = [Settled(e, f, 0) EXCEPT ![NextModel(r)] = row]
      <3>1. Continues(NextModel(r)) BY <2>1, <2>3, <2>4, <2>6, ContinuesFrom
      <3> QED BY <2>1, <2>3, <2>6, <3>1, AdmitProgress
    <2> QED BY <2>2, <2>5, <2>6
  <1> QED BY <1>1, <1>2, <1>3, <1>4 DEF ToolSettlement

\* The tools a succeeding model call asks for are new, and its own.
LEMMA FanOutProgress ==
  ASSUME TypeOK, Lineage, NEW e \in Eff, effects[e].status = "claimed",
         effects'[e].status = "succeeded",
         NEW asked, e \notin asked, \A x \in Eff \ asked : Rests(x),
         \A x \in asked :
           /\ x \in Eff /\ ModelOf(x) = e /\ IsTool(x)
           /\ effects'[x].status = "ready" /\ effects'[x].from = 0
           /\ effects'[x].epoch = effects[e].epoch /\ effects'[x].gen = effects[e].gen
  PROVE  Progress
  <1>1. ASSUME NEW x \in asked PROVE Publishes(x) /\ x \in Eff
    <2>1. effects[x].status = "none"
      <3> SUFFICES ASSUME effects[x].status # "none" PROVE FALSE OBVIOUS
      <3>1. effects[ModelOf(x)].status = "succeeded"
        BY DEF Lineage, BatchRules, InheritsGeneration
      <3> QED BY <3>1
    <2>2. effects'[e].epoch = effects[e].epoch /\ effects'[e].gen = effects[e].gen
      BY DEF Rests, RestsAs
    <2> QED BY <2>1, <2>2 DEF Publishes, FansOut, IsModel, IsTool
  <1> QED BY <1>1 DEF Progress

\* A settled model call publishes its tools, its continuation, or nothing.
LEMMA ModelSettlementProgress ==
  ASSUME TypeOK, AllOK, Lineage, ModelSettlement
  PROVE  Progress
  <1>f. "succeeded" \in Fact /\ "failed" \in Fact BY DEF Fact
  <1>0. /\ \A e \in Eff : ModelSettles(e) => effects[e].status = "claimed" /\ IsModel(e)
        /\ \A e \in Eff, u \in Usages : ModelSettlesNow(e, u) => ModelSettles(e) /\ ~Late(e)
    BY DEF ModelSettles, ModelSettlesNow
  <1>p. \A e \in Eff, u \in Usages : \A w \in WallAfter(e) : ModelSettlesNow(e, u) =>
          Paid(e, u, w).epoch = effects[e].epoch /\ Paid(e, u, w).gen = effects[e].gen
    BY <1>0, PaidCharged DEF Charged, Late
  <1>1. ASSUME NEW e \in Eff, NEW w \in WallAfter(e), SettleModelUnknown(e, w)
        PROVE  Progress
    <2>1. effects' = Settled(e, "unknown", effects[e].reserve) /\ effects[e].status = "claimed"
      BY <1>0, <1>1 DEF SettleModelUnknown, Commit
    <2> QED BY <2>1, FactProgress
  <1>2. ASSUME NEW e \in Eff, NEW f \in Fact, NEW u \in Usages, NEW w \in WallAfter(e),
               SettleModelCancelLate(e, f, u, w)
        PROVE  Progress
    <2>1. effects' = Settled(e, f, u) /\ effects[e].status = "claimed"
      BY <1>0, <1>2 DEF SettleModelCancelLate, Commit
    <2> QED BY <2>1, FactProgress DEF Fact
  <1>3. ASSUME NEW e \in Eff, NEW f \in Fact, NEW u \in Usages, NEW w \in WallAfter(e),
               SettleModelLate(e, f, u, w)
        PROVE  Progress
    <2>1. effects[e].status = "claimed" BY <1>0, <1>3 DEF SettleModelLate
    <2>2. \/ ConsumeSteer(RunOf(e), e, Paid(e, u, w), Settled(e, f, u))
          \/ effects' = Settled(e, f, u)
      BY <1>3 DEF SettleModelLate, Commit
    <2> QED BY <2>1, <2>2, ConsumeProgress, FactProgress DEF Fact
  <1>4. ASSUME NEW e \in Eff, NEW u \in Usages, NEW w \in WallAfter(e),
               SettleModelFailure(e, u, w)
        PROVE  Progress
    <2>1. effects' = Settled(e, "failed", u) /\ effects[e].status = "claimed"
      BY <1>0, <1>4 DEF SettleModelFailure, Commit
    <2> QED BY <2>1, FactProgress
  <1>5. ASSUME NEW e \in Eff, NEW u \in Usages, NEW w \in WallAfter(e),
               SettleModelFinal(e, u, w)
        PROVE  Progress
    BY <1>f, <1>0, <1>5, CloseProgress DEF SettleModelFinal
  <1>6. ASSUME NEW e \in Eff, NEW u \in Usages, NEW w \in WallAfter(e),
               SettleModelInteraction(e, u, w)
        PROVE  Progress
    <2>1. effects' = Settled(e, "succeeded", u) /\ effects[e].status = "claimed"
      BY <1>0, <1>6 DEF SettleModelInteraction, Commit
    <2> QED BY <2>1, FactProgress
  <1>7. ASSUME NEW e \in Eff, NEW u \in Usages, NEW w \in WallAfter(e),
               SettleModelText(e, u, w)
        PROVE  Progress
    <2> DEFINE r == RunOf(e)
               run == Paid(e, u, w)
               row == ModelRow(run, run.epoch, run.gen, e[2])
    <2>1. /\ effects[e].status = "claimed" /\ IsModel(e) /\ ~IsTool(e)
          /\ ModelSettlesNow(e, u) /\ RunOK(r)
      BY <1>0, <1>7, EffParts DEF SettleModelText, IsTool, IsModel, AllOK
    <2>2. \/ CloseRun(e, run, Settled(e, "succeeded", u), "budget")
          \/ /\ RoomForModel(r)
             /\ effects' = [Settled(e, "succeeded", u) EXCEPT ![NextModel(r)] = row]
      BY <1>7 DEF SettleModelText, Commit
    <2>3. /\ row.status = "ready" /\ row.from = e[2]
          /\ row.epoch = effects[e].epoch /\ row.gen = effects[e].gen
      BY <1>p, <2>1, ModelRowFields
    <2>4. \A x \in EffectsOf(r) : IsTool(x) /\ x[2] = e[2] /\ x # e => ~Live(x)
      BY <2>1, ModelAlone DEF Solo, Blocks
    <2> HIDE DEF row, run
    <2>5. CASE CloseRun(e, run, Settled(e, "succeeded", u), "budget")
      BY <1>f, <2>1, <2>5, CloseProgress
    <2>6. CASE /\ RoomForModel(r)
               /\ effects' = [Settled(e, "succeeded", u) EXCEPT ![NextModel(r)] = row]
      <3>1. Continues(NextModel(r)) BY <1>f, <2>1, <2>3, <2>4, <2>6, ContinuesFrom
      <3> QED BY <1>f, <2>1, <2>3, <2>6, <3>1, AdmitProgress
    <2> QED BY <2>2, <2>5, <2>6
  <1>8. ASSUME NEW e \in Eff, NEW u \in Usages, NEW n \in 1..MaxTools,
               NEW w \in WallAfter(e), NEW batch \in [1..n -> pins[RunOf(e)]],
               SettleModelTools(e, u, w, n, batch)
        PROVE  Progress
    <2> DEFINE run == Paid(e, u, w)
    <2>1. effects[e].status = "claimed" /\ IsModel(e) /\ ModelSettlesNow(e, u)
      BY <1>0, <1>8 DEF SettleModelTools
    <2>2. run.epoch = effects[e].epoch /\ run.gen = effects[e].gen BY <1>p, <2>1
    <2>3. \/ CloseRun(e, run, Settled(e, "succeeded", u), "budget")
          \/ effects' = [x \in Eff |-> IF ModelOf(x) = e /\ x[3] \in 1..n
                                       THEN ToolRow(run, batch[x[3]])
                                       ELSE Settled(e, "succeeded", u)[x]]
      BY <1>8 DEF SettleModelTools, Commit
    <2> HIDE DEF run
    <2>4. CASE CloseRun(e, run, Settled(e, "succeeded", u), "budget")
      BY <1>f, <2>1, <2>4, CloseProgress
    <2>5. CASE ~CloseRun(e, run, Settled(e, "succeeded", u), "budget")
      <3> DEFINE asked == {x \in Eff : ModelOf(x) = e /\ x[3] \in 1..n}
      <3>1. effects' = [x \in Eff |-> IF ModelOf(x) = e /\ x[3] \in 1..n
                                      THEN ToolRow(run, batch[x[3]])
                                      ELSE Settled(e, "succeeded", u)[x]]
        BY <2>3, <2>5
      <3>2. \A x \in asked : ModelOf(x) = e /\ IsTool(x) BY DEF IsTool
      <3>3. ASSUME NEW x \in asked
            PROVE  /\ effects'[x].status = "ready" /\ effects'[x].from = 0
                   /\ effects'[x].epoch = effects[e].epoch
                   /\ effects'[x].gen = effects[e].gen
        <4>1. effects'[x] = ToolRow(run, batch[x[3]]) BY <3>1
        <4> QED BY <2>2, <4>1 DEF ToolRow, NoEffect
      <3>4. \A x \in Eff \ asked : effects'[x] = Settled(e, "succeeded", u)[x] BY <3>1
      <3>5. e \notin asked BY <2>1 DEF IsModel
      <3>6. /\ Settled(e, "succeeded", u)[e].status = "succeeded"
            /\ \A x \in Eff : RestsAs(x, Settled(e, "succeeded", u)[x])
        BY <2>1, SettledRests
      <3> HIDE DEF asked
      <3>7. /\ effects'[e].status = "succeeded" /\ \A x \in Eff \ asked : Rests(x)
        BY <3>4, <3>5, <3>6 DEF Rests
      <3>8. \A x \in asked : x \in Eff BY DEF asked
      <3> QED BY <2>1, <3>2, <3>3, <3>5, <3>7, <3>8, FanOutProgress
    <2> QED BY <2>4, <2>5
  <1> QED BY <1>1, <1>2, <1>3, <1>4, <1>5, <1>6, <1>7, <1>8 DEF ModelSettlement

\* A spawn publishes the first model call of a run that had none.
LEMMA SpawningProgress ==
  ASSUME TypeOK, AllOK, Spawning
  PROVE  Progress
  <1>0. \A e \in Eff, u \in Usages : ModelSettlesNow(e, u) => effects[e].status = "claimed"
    BY DEF ModelSettles, ModelSettlesNow
  <1>1. ASSUME NEW e \in Eff, NEW u \in Usages, NEW key \in SpawnKeys, NEW g \in Grants,
               NEW c \in Runs, NEW owned \in {{}} \cup {{k} : k \in Keys},
               NEW w \in WallAfter(e), SpawnChild(e, u, w, key, g, c, owned)
        PROVE  Progress
    <2> DEFINE row == ModelRow(g, 0, 0, 0)
               m == <<c, 1, 0>>
    <2>1. /\ effects[e].status = "claimed" /\ runs[c].status = "none"
          /\ effects' = [Settled(e, "succeeded", u) EXCEPT ![m] = row]
      BY <1>0, <1>1 DEF SpawnChild
    <2>2. row.status = "ready" /\ row.from = 0 BY ModelRowFields
    <2>3. RunOK(c) BY DEF AllOK
    <2>4. m \in Eff /\ m \in EffectsOf(c) /\ IsModel(m)
      BY EffBuilt, BoundAssumption DEF EffectsOf, IsModel
    <2>5. effects[m].status = "none" BY <2>1, <2>3, <2>4 DEF RunOK
    <2>6. /\ DOMAIN Settled(e, "succeeded", u) = Eff
          /\ \A x \in Eff : RestsAs(x, Settled(e, "succeeded", u)[x])
      BY <2>1, SettledRests
    <2> HIDE DEF row, m
    <2> QED BY <2>1, <2>2, <2>4, <2>5, <2>6, PublishProgress
  <1>2. ASSUME NEW e \in Eff, NEW u \in Usages, NEW key \in SpawnKeys, NEW g \in Grants,
               NEW w \in WallAfter(e), SpawnReplay(e, u, w, key, g)
        PROVE  Progress
    <2>1. effects' = Settled(e, "succeeded", u) /\ effects[e].status = "claimed"
      BY <1>0, <1>2 DEF SpawnReplay, Commit
    <2> QED BY <2>1, FactProgress
  <1> QED BY <1>1, <1>2 DEF Spawning

-----------------------------------------------------------------------------
(* The theorems. *)

\* A claim hands one effect out and leaves the origin of every row alone.
HandsOut(e) ==
  /\ effects[e].status = "ready" /\ effects'[e].status = "claimed"
  /\ effects'[e].epoch = effects[e].epoch /\ effects'[e].gen = effects[e].gen
  /\ effects'[e].from = effects[e].from
  /\ \A x \in Eff \ {e} : effects'[x] = effects[x]

\* Every step hands one effect out, or makes progress.
LEMMA StepProgress ==
  ASSUME TypeOK, AllOK, Lineage, Next
  PROVE  Progress \/ \E e \in Eff : HandsOut(e)
  <1>1. ASSUME NEW e \in Eff, Claim(e) PROVE HandsOut(e)
    <2>1. effects[e] \in Effect BY RowTypes
    <2>2. effects' = [effects EXCEPT ![e] = [effects[e] EXCEPT !.status = "claimed"]]
      BY <1>1 DEF Claim
    <2>3. effects'[e] = [effects[e] EXCEPT !.status = "claimed"] BY <2>2 DEF TypeOK
    <2>4. effects[e].status = "ready" BY <1>1 DEF Claim
    <2> QED BY <2>1, <2>2, <2>3, <2>4 DEF HandsOut, Effect
  <1> QED BY <1>1, UserCommandProgress, ModelSettlementProgress, SpawningProgress,
             ToolSettlementProgress, SweepProgress DEF Next

\* Handing an effect out keeps the rules: it was live before.
LEMMA HandsOutLineage ==
  ASSUME TypeOK, Lineage, NEW e \in Eff, HandsOut(e)
  PROVE  Lineage'
  <1>1. \A x \in Eff :
          /\ effects'[x].epoch = effects[x].epoch /\ effects'[x].gen = effects[x].gen
          /\ effects'[x].from = effects[x].from
          /\ effects'[x].status = "none" <=> effects[x].status = "none"
          /\ effects[x].status = "succeeded" => effects'[x].status = "succeeded"
          /\ effects'[x].status \in {"ready", "claimed"} => Live(x)
    BY DEF HandsOut, Live
  <1>2. NoOrigin' BY <1>1 DEF NoOrigin, Lineage
  <1>3. BatchBarrier'
    BY <1>1, EffectsOfRun DEF BatchBarrier, Lineage, BatchRules, IsTool, IsModel, EffectsOf, RunOf,
       Live
  <1>4. InheritsGeneration'
    <2> SUFFICES ASSUME NEW x \in Eff, effects'[x].status # "none",
                        IsTool(x) \/ effects'[x].from # 0
                 PROVE  LET s == IF IsTool(x) THEN ModelOf(x) ELSE <<x[1], effects'[x].from, 0>>
                        IN /\ effects'[s].status = "succeeded"
                           /\ effects'[s].epoch = effects'[x].epoch
                           /\ effects'[s].gen = effects'[x].gen
      BY DEF InheritsGeneration, IsTool, ModelOf
    <2> DEFINE s == IF IsTool(x) THEN ModelOf(x) ELSE <<x[1], effects[x].from, 0>>
    <2>1. /\ effects[s].status = "succeeded" /\ effects[s].epoch = effects[x].epoch
          /\ effects[s].gen = effects[x].gen
      BY <1>1 DEF Lineage, BatchRules, InheritsGeneration
    <2>2. s \in Eff BY <1>1, SourceEff
    <2> QED BY <1>1, <2>1, <2>2
  <1> QED BY <1>2, <1>3, <1>4 DEF Lineage, BatchRules

\* Beside the safety invariant of the loop, the origins of its effects are an invariant.
THEOREM LineageHolds == Spec => [](LoopInvariant /\ Lineage)
  <1>1. Init => Lineage
    BY DEF Init, Lineage, NoOrigin, BatchRules, BatchBarrier, InheritsGeneration, NoEffect,
       IsModel, IsTool
  <1>2. LoopInvariant /\ LoopInvariant' /\ Lineage /\ [Next]_vars => Lineage'
    <2> SUFFICES ASSUME LoopInvariant, LoopInvariant', Lineage, [Next]_vars PROVE Lineage'
      OBVIOUS
    <2>1. TypeOK /\ TypeOK' /\ AllOK BY InvariantByRun DEF LoopInvariant
    <2>2. CASE Next BY <2>1, <2>2, StepProgress, ProgressLineage, HandsOutLineage
    <2>3. CASE UNCHANGED vars BY <2>1, <2>3, SameProgress, ProgressLineage DEF vars
    <2> QED BY <2>2, <2>3
  <1> QED BY <1>1, <1>2, LoopSafe, PTL DEF Spec

\* A batch is continued once and only when it is settled, and successors stay in the
\* generation of the call they come from.
THEOREM BatchesInOrder == Spec => []BatchRules
  <1>1. LoopInvariant /\ Lineage => BatchRules BY DEF Lineage
  <1> QED BY <1>1, LineageHolds, PTL

\* The run loop implements EffectLife with nothing repeatable: an effect is handed out
\* once, by a step that hands out no other, and its outcome is final.
THEOREM LoopImplementsLife == Spec => ImplementsLife
  <1> DEFINE status == [e \in Eff |-> LifeStatus(e)]
  <1>1. Init => Life!Init BY DEF Init, Life!Init, LifeStatus, NoEffect
  <1>2. LoopInvariant /\ LoopInvariant' /\ Lineage /\ [Next]_vars => [Life!Next]_status
    <2> SUFFICES ASSUME LoopInvariant, LoopInvariant', Lineage, [Next]_vars, ~UNCHANGED status
                 PROVE  Life!Next
      OBVIOUS
    <2>1. TypeOK /\ TypeOK' /\ AllOK BY InvariantByRun DEF LoopInvariant
    <2>2. Next BY DEF vars, LifeStatus
    <2>3. Progress \/ \E e \in Eff : HandsOut(e) BY <2>1, <2>2, StepProgress
    <2>4. \A x \in Eff : effects[x].status \in EffectStatus /\ effects'[x].status \in EffectStatus
      BY <2>1 DEF TypeOK, Effect
    <2>5. status' = [e \in Eff |-> LifeStatus(e)'] OBVIOUS
    <2>6. \A x \in Eff :
            /\ status[x] = LifeStatus(x)
            /\ status'[x] = IF effects'[x].status \in {"succeeded", "failed", "unknown"}
                            THEN "settled" ELSE effects'[x].status
      BY <2>5 DEF LifeStatus
    <2>7. status' \in [Eff -> Life!Status]
      BY <2>4, <2>5 DEF LifeStatus, Life!Status, EffectStatus
    <2>8. ASSUME NEW x \in Eff PROVE status'[x] \in Life!Moves(x)
      <3>1. \/ RestsAs(x, effects'[x]) \/ Publishes(x) \/ HandsOut(x) \/ effects'[x] = effects[x]
        BY <2>3 DEF Progress, Rests, HandsOut
      <3> QED BY <2>4, <2>6, <3>1 DEF RestsAs, Publishes, HandsOut, LifeStatus, Life!Moves, EffectStatus
    <2>9. ASSUME NEW x \in Eff, NEW y \in Eff, Life!HandedOut(x), Life!HandedOut(y) PROVE x = y
      <3>1. /\ LifeStatus(x) # "claimed" /\ effects'[x].status = "claimed"
            /\ LifeStatus(y) # "claimed" /\ effects'[y].status = "claimed"
        BY <2>6, <2>9, <2>4 DEF Life!HandedOut, EffectStatus
      <3>2. effects[x].status # "claimed" /\ effects[y].status # "claimed"
        BY <3>1 DEF LifeStatus
      <3>3. ~Rests(x) /\ ~Publishes(x) BY <3>1, <3>2 DEF Rests, RestsAs, Publishes
      <3>4. PICK e \in Eff : HandsOut(e) BY <2>3, <3>3 DEF Progress
      <3> QED BY <3>1, <3>2, <3>4 DEF HandsOut
    <2> QED BY <2>7, <2>8, <2>9 DEF Life!Next
  <1> QED BY <1>1, <1>2, LineageHolds, PTL DEF Spec, ImplementsLife, Life!Spec

-----------------------------------------------------------------------------
(* What a step leaves behind: a run that could go on has work or a child, and *)
(* a sealed run has given back the pins nothing needs.                        *)

Queued(status) == status \in {"ready", "claimed"}

Busy(r) == \/ \E x \in EffectsOf(r) : Live(x)
           \/ SpawnedBy(r) # {}

Needed(k, r) ==
  \E x \in EffectsOf(r) :
    /\ effects[x].key = k
    /\ Blocks(x) \/ (effects[x].status = "cancelled" /\ runs[r].close = "budget")

\* WorkInFlight and PinsDrain, of one run.
Tidy(r) ==
  /\ runs[r].status = "running" /\ Admits(runs[r]) => Busy(r)
  /\ runs[r].status \in Terminal => \A k \in pins[r] : Needed(k, r)

\* The two properties, by run.
LEMMA TidyByRun ==
  (\A r \in Runs : Tidy(r)) <=> WorkInFlight /\ PinsDrain
  BY DEF Tidy, Busy, Needed, WorkInFlight, PinsDrain

\* A run that goes on is tidy when it is out of budget or has something live.
LEMMA RunningTidy ==
  ASSUME TypeOK, NEW r \in Runs, NEW run, NEW rows, NEW released, Commit(r, run, rows, released),
         run.status \in {"running", "waiting"},
         run.status = "running" /\ Admits(run) => \E x \in EffectsOf(r) : Queued(rows[x].status)
  PROVE  Tidy(r)'
  <1>1. runs'[r] = run /\ effects' = rows BY DEF Commit, TypeOK
  <1>2. Admits(runs'[r]) => \/ run.status # "running"
                            \/ \E x \in EffectsOf(r) : effects'[x].status \in {"ready", "claimed"}
    BY <1>1 DEF Queued
  <1> QED BY <1>1, <1>2 DEF Tidy, Busy, Admits, Live, EffectsOf, RunOf, Terminal

\* A sealed run is tidy when every effect the release set counted keeps its pin.
LEMMA SealedTidy ==
  ASSUME TypeOK, NEW r \in Runs, NEW run, NEW rows, NEW S,
         Commit(r, run, rows, RunPinReleaseSet(r, S)), run.status # "running",
         \A x \in EffectsOf(r) \ S : Blocks(x) =>
           /\ rows[x].key = effects[x].key
           /\ \/ rows[x].status \in {"ready", "claimed", "unknown"}
              \/ rows[x].status = "cancelled" /\ run.close = "budget"
  PROVE  Tidy(r)'
  <1>1. /\ runs'[r] = run /\ effects' = rows
        /\ pins'[r] = pins[r] \ RunPinReleaseSet(r, S)
    BY DEF Commit, TypeOK
  <1>2. ASSUME NEW k \in pins'[r]
        PROVE  \E x \in EffectsOf(r) :
                 /\ effects'[x].key = k
                 /\ \/ effects'[x].status \in {"ready", "claimed", "unknown"}
                    \/ effects'[x].status = "cancelled" /\ runs'[r].close = "budget"
    <2>1. PICK x \in EffectsOf(r) \ S : effects[x].key = k /\ Blocks(x)
      BY <1>1 DEF RunPinReleaseSet
    <2> QED BY <1>1, <2>1
  <1> QED BY <1>1, <1>2 DEF Tidy, Needed, Blocks, Live, EffectsOf, RunOf

\* A receipt that seals its run, or arrives at a sealed one.
LEMMA ReceiptTidy ==
  ASSUME TypeOK, NEW e \in Eff, effects[e].status = "claimed", NEW charge,
         NEW f \in {"succeeded", "failed", "unknown"}, NEW S \in SUBSET {e},
         e \notin S => f = "unknown", NEW run, run.status # "running",
         Commit(RunOf(e), run, Settled(e, f, charge), RunPinReleaseSet(RunOf(e), S))
  PROVE  Tidy(RunOf(e))'
  <1>1. RunOf(e) \in Runs BY EffParts
  <1>2. effects[e] \in Effect BY RowTypes
  <1>3. Settled(e, f, charge)[e].status = f /\ Settled(e, f, charge)[e].key = effects[e].key
    BY <1>2 DEF Settled, TypeOK, Effect
  <1>4. \A x \in Eff \ {e} : Settled(e, f, charge)[x] = effects[x] BY SettledRests
  <1> DEFINE rows == Settled(e, f, charge)
  <1>5. \A x \in EffectsOf(RunOf(e)) \ S : Blocks(x) =>
          rows[x].key = effects[x].key /\ rows[x].status \in {"ready", "claimed", "unknown"}
    BY <1>3, <1>4, EffectsOfRun DEF Blocks, Live
  <1> HIDE DEF rows
  <1>6. Commit(RunOf(e), run, rows, RunPinReleaseSet(RunOf(e), S)) BY DEF rows
  <1> QED BY <1>1, <1>5, <1>6, SealedTidy

\* A receipt whose run goes on while other work is live.
LEMMA OthersTidy ==
  ASSUME TypeOK, NEW e \in Eff, effects[e].status = "claimed", NEW charge,
         NEW f \in {"succeeded", "failed", "unknown"}, NEW run, NEW released,
         run.status \in {"running", "waiting"},
         NEW x \in EffectsOf(RunOf(e)) \ {e}, Live(x),
         Commit(RunOf(e), run, Settled(e, f, charge), released)
  PROVE  Tidy(RunOf(e))'
  <1>1. RunOf(e) \in Runs /\ x \in Eff BY EffParts, EffectsOfRun
  <1>2. Settled(e, f, charge)[x] = effects[x] BY <1>1, SettledRests
  <1>3. Queued(Settled(e, f, charge)[x].status) BY <1>2 DEF Queued, Live
  <1> QED BY <1>1, <1>3, RunningTidy

\* A receipt that publishes the next model call.
LEMMA AdmittedTidy ==
  ASSUME TypeOK, NEW r \in Runs, RoomForModel(r), NEW run, run.status = "running",
         NEW rows, DOMAIN rows = Eff, NEW row, row.status = "ready", NEW released,
         Commit(r, run, [rows EXCEPT ![NextModel(r)] = row], released)
  PROVE  Tidy(r)'
  <1>1. NextModel(r) \in Eff /\ NextModel(r) \in EffectsOf(r)
    BY NextModelEff DEF EffectsOf
  <1> DEFINE full == [rows EXCEPT ![NextModel(r)] = row]
  <1>2. Queued(full[NextModel(r)].status) BY <1>1 DEF Queued
  <1>3. Commit(r, run, full, released) OBVIOUS
  <1> HIDE DEF full
  <1> QED BY <1>1, <1>2, <1>3, RunningTidy

\* The reasons a run is closed for leave it terminal.
LEMMA SealedStatus ==
  ASSUME NEW run \in Run, NEW close \in {"final", "budget", "abort", "unknown"}
  PROVE  /\ SealRun(run, close).status \in Terminal
         /\ SealRun(run, close).status # "running" /\ SealRun(run, close).close = close
  BY DEF SealRun, Run, Terminal

\* Closing behind the last effect seals the run.
LEMMA CloseTidy ==
  ASSUME TypeOK, NEW e \in Eff, effects[e].status = "claimed", Solo(RunOf(e), e),
         runs[RunOf(e)].status = "running", NEW run \in Run, Charged(run, RunOf(e)),
         runs[RunOf(e)].pending = NoSteer, NEW f \in Fact, NEW charge,
         NEW close \in {"final", "budget"},
         CloseRun(e, run, Settled(e, f, charge), close)
  PROVE  Tidy(RunOf(e))'
  <1>1. LoopSealable(RunOf(e), {e}, run.pending, FALSE)
    BY DEF LoopSealable, Solo, Charged
  <1>2. Commit(RunOf(e), SealRun(run, close), Settled(e, f, charge),
               RunPinReleaseSet(RunOf(e), {e}))
    BY <1>1 DEF CloseRun
  <1>3. SealRun(run, close).status # "running" BY SealedStatus
  <1>4. f \in {"succeeded", "failed", "unknown"} /\ {e} \in SUBSET {e} BY DEF Fact
  <1> QED BY <1>2, <1>3, <1>4, ReceiptTidy

\* Consuming a steer publishes a model call or seals the run.
LEMMA ConsumeTidy ==
  ASSUME TypeOK, AllOK, NEW e \in Eff, effects[e].status = "claimed", SteerConsumable(RunOf(e), e),
         NEW run \in Run, Charged(run, RunOf(e)), NEW f \in Fact, NEW charge,
         ConsumeSteer(RunOf(e), e, run, Settled(e, f, charge))
  PROVE  Tidy(RunOf(e))'
  <1>0. RunOf(e) \in Runs /\ RunOK(RunOf(e)) BY EffParts DEF AllOK
  <1>1. runs[RunOf(e)].status = "running" /\ Solo(RunOf(e), e) BY <1>0, ConsumerAlone
  <1>f. f \in {"succeeded", "failed", "unknown"} /\ {e} \in SUBSET {e} BY DEF Fact
  <1>2. CASE Admits(run)
    <2> DEFINE gen == IF run.gen > run.pending.gen THEN run.gen ELSE run.pending.gen
               row == ModelRow(run, run.pending.epoch, gen, 0)
               next == [AdmitModel(run) EXCEPT !.pending = NoSteer]
               none == {}
    <2>1. /\ RoomForModel(RunOf(e))
          /\ Commit(RunOf(e), next, [Settled(e, f, charge) EXCEPT ![NextModel(RunOf(e))] = row],
                    none)
      BY <1>2 DEF ConsumeSteer
    <2>2. row.status = "ready" BY ModelRowFields
    <2>3. next.status = "running" BY <1>1 DEF AdmitModel, Run, Charged
    <2>4. DOMAIN Settled(e, f, charge) = Eff BY <1>f, SettledRests
    <2> HIDE DEF row, next, none
    <2> QED BY <1>0, <2>1, <2>2, <2>3, <2>4, AdmittedTidy
  <1>3. CASE ~Admits(run)
    <2>1. LoopSealable(RunOf(e), {e}, NoSteer, FALSE) BY <1>1 DEF LoopSealable, Solo
    <2>2. Commit(RunOf(e), SealRun(run, "budget"), Settled(e, f, charge),
                 RunPinReleaseSet(RunOf(e), {e}))
      BY <1>3, <2>1 DEF ConsumeSteer
    <2>3. SealRun(run, "budget").status # "running" BY SealedStatus
    <2> QED BY <1>f, <2>2, <2>3, ReceiptTidy
  <1> QED BY <1>2, <1>3

\* Every user command leaves its run tidy.
LEMMA UserCommandTidy ==
  ASSUME TypeOK, AllOK, UserCommand
  PROVE  \E r \in Runs : OnlyRun(r) /\ Tidy(r)'
  <1>e. DOMAIN effects = Eff /\ \A r \in Runs, b \in BOOLEAN : DOMAIN Archived(r, b) = Eff
    BY DEF TypeOK, Archived
  <1>1. ASSUME NEW r \in Runs, NEW b \in Budgets, NEW required \in SUBSET Keys,
               Start(r, b, required)
        PROVE  OnlyRun(r) /\ Tidy(r)'
    <2> DEFINE row == ModelRow(Started(b), 1, 1, 0)
               run == AdmitModel(Started(b))
    <2>1. <<r, 1, 0>> \in Eff /\ <<r, 1, 0>> \in EffectsOf(r)
      BY EffBuilt, BoundAssumption DEF EffectsOf
    <2>2. row.status = "ready" /\ run.status = "running"
      BY ModelRowFields DEF AdmitModel, Started, NoRun
    <2>3. /\ runs' = [runs EXCEPT ![r] = run]
          /\ effects' = [effects EXCEPT ![<<r, 1, 0>>] = row]
      BY <1>1 DEF Start
    <2> HIDE DEF row, run
    <2>4. runs'[r].status = "running" /\ effects'[<<r, 1, 0>>].status = "ready"
      BY <1>e, <2>1, <2>2, <2>3 DEF TypeOK
    <2>5. Tidy(r)'
      <3>1. \E x \in EffectsOf(r) : effects'[x].status \in {"ready", "claimed"}
        BY <2>1, <2>4
      <3> QED BY <2>4, <3>1 DEF Tidy, Busy, Live, EffectsOf, RunOf, Terminal
    <2> QED BY <1>1, <2>5, StartOK DEF AllOK
  <1>2. ASSUME NEW r \in Runs, Cancel(r) PROVE Tidy(r)'
    <2> DEFINE rows == Archived(r, TRUE)
               queue == ReadyOf(r)
               run == Cancelled(r)
    <2>1. Commit(r, run, rows, RunPinReleaseSet(r, queue)) BY <1>2 DEF Cancel
    <2>2. run.status # "running" BY RowTypes DEF Cancelled, Run
    <2>3. \A x \in EffectsOf(r) \ queue : Blocks(x) =>
            rows[x].key = effects[x].key /\ rows[x].status \in {"ready", "claimed", "unknown"}
      <3>1. \A x \in EffectsOf(r) : x \in Eff /\ effects[x] \in Effect BY EffectsOfRun, RowTypes
      <3> QED BY <3>1 DEF Archived, Blocks, Live, Effect
    <2> HIDE DEF rows, queue, run
    <2> QED BY <2>1, <2>2, <2>3, SealedTidy
  <1>3. ASSUME NEW r \in Runs, SteerDeferred(r) PROVE Tidy(r)'
    <2> DEFINE run == [Steered(r) EXCEPT !.pending = [epoch |-> runs[r].epoch + 1,
                                                      gen |-> runs[r].gen + 1]]
               rows == Archived(r, FALSE)
               none == {}
    <2>1. Commit(r, run, rows, none) /\ ClaimedOf(r) # {} BY <1>3 DEF SteerDeferred
    <2>2. run.status = "running" BY RowTypes DEF Steered, Run
    <2>3. PICK x \in ClaimedOf(r) : TRUE BY <2>1
    <2>4. x \in EffectsOf(r) /\ x \in Eff /\ effects[x].status = "claimed"
      BY EffectsOfRun DEF ClaimedOf
    <2>5. Queued(rows[x].status) BY <2>4 DEF Archived, ReadyOf, Queued
    <2> HIDE DEF run, rows, none
    <2> QED BY <2>1, <2>2, <2>4, <2>5, RunningTidy
  <1>4. ASSUME NEW r \in Runs, SteerAdmitted(r) PROVE Tidy(r)'
    <2> DEFINE row == ModelRow(Steered(r), runs[r].epoch + 1, runs[r].gen + 1, 0)
               run == AdmitModel(Steered(r))
               rows == Archived(r, FALSE)
               none == {}
    <2>1. RoomForModel(r) /\ Commit(r, run, [rows EXCEPT ![NextModel(r)] = row], none)
      BY <1>4 DEF SteerAdmitted
    <2>2. row.status = "ready" BY ModelRowFields
    <2>3. run.status = "running" BY RowTypes DEF AdmitModel, Steered, Run
    <2>4. DOMAIN rows = Eff BY <1>e
    <2> HIDE DEF row, run, rows, none
    <2> QED BY <2>1, <2>2, <2>3, <2>4, AdmittedTidy
  <1>5. ASSUME NEW r \in Runs, SteerExhausted(r) PROVE Tidy(r)'
    <2> DEFINE none == {}
               rows == Archived(r, FALSE)
    <2>1. /\ Steered(r).status = "running" /\ Steered(r) \in Run /\ ~Admits(Steered(r))
      BY <1>5, RowTypes, SteeredType DEF SteerExhausted, Steered, Run
    <2>2. \/ Commit(r, SealRun(Steered(r), "budget"), rows, RunPinReleaseSet(r, none))
          \/ Commit(r, Steered(r), rows, none)
      BY <1>5 DEF SteerExhausted
    <2>3. \A x \in EffectsOf(r) \ none : Blocks(x) =>
            /\ rows[x].key = effects[x].key
            /\ rows[x].status \in {"ready", "claimed", "unknown", "cancelled"}
      <3>1. \A x \in EffectsOf(r) : x \in Eff /\ effects[x] \in Effect BY EffectsOfRun, RowTypes
      <3> QED BY <3>1 DEF Archived, Blocks, Live, Effect
    <2>4. /\ SealRun(Steered(r), "budget").status # "running"
          /\ SealRun(Steered(r), "budget").close = "budget"
      BY <2>1, SealedStatus
    <2> HIDE DEF rows, none
    <2>5. CASE Commit(r, SealRun(Steered(r), "budget"), rows, RunPinReleaseSet(r, none))
      BY <2>3, <2>4, <2>5, SealedTidy
    <2>6. CASE Commit(r, Steered(r), rows, none) BY <2>1, <2>6, RunningTidy
    <2> QED BY <2>2, <2>5, <2>6
  <1>6. ASSUME NEW r \in Runs, RespondAdmitted(r) PROVE Tidy(r)'
    <2> DEFINE row == ModelRow(runs[r], runs[r].epoch, runs[r].gen + 1, 0)
               run == AdmitModel(Answered(r))
               none == {}
    <2>1. RoomForModel(r) /\ Commit(r, run, [effects EXCEPT ![NextModel(r)] = row], none)
      BY <1>6 DEF RespondAdmitted
    <2>2. row.status = "ready" BY ModelRowFields
    <2>3. run.status = "running" BY RowTypes DEF AdmitModel, Answered, Run
    <2> HIDE DEF row, run, none
    <2> QED BY <1>e, <2>1, <2>2, <2>3, AdmittedTidy
  <1>7. ASSUME NEW r \in Runs, RespondExhausted(r) PROVE Tidy(r)'
    <2> DEFINE none == {}
    <2>1. /\ Answered(r).status = "running" /\ Answered(r) \in Run /\ ~Admits(Answered(r))
      BY <1>7, RowTypes, AnsweredType DEF RespondExhausted, Answered, Run, Admits
    <2>2. \/ Commit(r, SealRun(Answered(r), "budget"), effects, RunPinReleaseSet(r, none))
          \/ Commit(r, Answered(r), effects, none)
      BY <1>7 DEF RespondExhausted
    <2>3. SealRun(Answered(r), "budget").status # "running" BY <2>1, SealedStatus
    <2> HIDE DEF none
    <2>4. CASE Commit(r, SealRun(Answered(r), "budget"), effects, RunPinReleaseSet(r, none))
      BY <2>3, <2>4, SealedTidy DEF Blocks, Live
    <2>5. CASE Commit(r, Answered(r), effects, none) BY <2>1, <2>5, RunningTidy
    <2> QED BY <2>2, <2>4, <2>5
  <1>8. ASSUME NEW r \in Runs,
               \/ Cancel(r) \/ SteerDeferred(r) \/ SteerAdmitted(r) \/ SteerExhausted(r)
               \/ RespondAdmitted(r) \/ RespondExhausted(r)
        PROVE  OnlyRun(r) /\ Tidy(r)'
    <2>1. OnlyRun(r) BY <1>8, CancelOK, SteerDeferredOK, SteerOK, RespondOK DEF AllOK
    <2> QED BY <1>2, <1>3, <1>4, <1>5, <1>6, <1>7, <1>8, <2>1
  <1> QED BY <1>1, <1>8 DEF UserCommand

\* Every tool receipt leaves its run tidy.
LEMMA ToolSettlementTidy ==
  ASSUME TypeOK, AllOK, ToolSettlement
  PROVE  \E r \in Runs : OnlyRun(r) /\ Tidy(r)'
  <1>0. \A e \in Eff : ToolSettles(e) =>
          /\ effects[e].status = "claimed" /\ Live(e) /\ RunOf(e) \in Runs /\ RunOK(RunOf(e))
          /\ e \in EffectsOf(RunOf(e))
    BY EffParts DEF ToolSettles, Live, AllOK
  <1>p. \A e \in Eff : \A w \in WallAfter(e) :
          Elapsed(e, w) \in Run /\ Charged(Elapsed(e, w), RunOf(e))
    BY ElapsedType, PaidCharged DEF WallAfter
  <1>o. ASSUME NEW e \in Eff, NEW w \in WallAfter(e), NEW f \in Fact \cup {"unknown"}, NEW run,
               NEW released, Commit(RunOf(e), run, Settled(e, f, 0), released)
        PROVE  OnlyRun(RunOf(e))
    BY <1>o, EffParts, CommitFrame, SettledFrame
  <1>1. ASSUME NEW e \in Eff, NEW w \in WallAfter(e), SettleToolUnknown(e, w)
        PROVE  OnlyRun(RunOf(e)) /\ Tidy(RunOf(e))'
    <2> DEFINE none == {}
               run == IF CancelLate(e) THEN Elapsed(e, w) ELSE SealRun(Elapsed(e, w), "unknown")
    <2>1. /\ ToolSettles(e)
          /\ Commit(RunOf(e), run, Settled(e, "unknown", 0), RunPinReleaseSet(RunOf(e), none))
      BY <1>1 DEF SettleToolUnknown
    <2>2. run.status # "running"
      <3>1. CASE CancelLate(e) BY <1>p, <3>1 DEF CancelLate, Charged
      <3>2. CASE ~CancelLate(e) BY <1>p, <3>2, SealedStatus
      <3> QED BY <3>1, <3>2
    <2>3. none \in SUBSET {e} /\ e \notin none OBVIOUS
    <2> HIDE DEF none, run
    <2>4. OnlyRun(RunOf(e)) BY <1>o, <2>1
    <2> QED BY <1>0, <2>1, <2>2, <2>3, <2>4, ReceiptTidy
  <1>2. ASSUME NEW e \in Eff, NEW f \in Fact, NEW w \in WallAfter(e), ToolSettles(e),
               ~SteerConsumable(RunOf(e), e),
               runs[RunOf(e)].status \notin Terminal =>
                 \/ runs[RunOf(e)].pending # NoSteer
                 \/ \E x \in EffectsOf(RunOf(e)) \ {e} : Live(x),
               Commit(RunOf(e), Elapsed(e, w), Settled(e, f, 0),
                      IF runs[RunOf(e)].status \in Terminal
                      THEN RunPinReleaseSet(RunOf(e), {e}) ELSE {})
        PROVE  Tidy(RunOf(e))'
    <2>0. /\ Elapsed(e, w).status = runs[RunOf(e)].status
          /\ f \in {"succeeded", "failed", "unknown"} /\ {e} \in SUBSET {e}
      BY <1>p DEF Charged, Fact
    <2>1. CASE runs[RunOf(e)].status \in Terminal
      <3>1. Commit(RunOf(e), Elapsed(e, w), Settled(e, f, 0), RunPinReleaseSet(RunOf(e), {e}))
        BY <1>2, <2>1
      <3>2. Elapsed(e, w).status # "running" BY <2>0, <2>1 DEF Terminal
      <3> QED BY <1>0, <1>2, <2>0, <3>1, <3>2, ReceiptTidy
    <2>2. CASE runs[RunOf(e)].status \notin Terminal
      <3> DEFINE none == {}
      <3>1. Commit(RunOf(e), Elapsed(e, w), Settled(e, f, 0), none) BY <1>2, <2>2
      <3>2. PICK x \in EffectsOf(RunOf(e)) \ {e} : Live(x)
        BY <1>0, <1>2, <2>2, OtherClaim DEF Live
      <3>3. runs[RunOf(e)].status = "running" BY <1>0, <1>2, <2>2 DEF RunOK, Terminal
      <3> HIDE DEF none
      <3> QED BY <1>0, <1>2, <2>0, <3>1, <3>2, <3>3, OthersTidy
    <2> QED BY <2>1, <2>2
  <1>3. ASSUME NEW e \in Eff, NEW f \in Fact, NEW w \in WallAfter(e), SettleToolOpen(e, f, w)
        PROVE  OnlyRun(RunOf(e)) /\ Tidy(RunOf(e))'
    <2> DEFINE released == IF runs[RunOf(e)].status \in Terminal
                           THEN RunPinReleaseSet(RunOf(e), {e}) ELSE {}
    <2>1. /\ ToolSettles(e) /\ Commit(RunOf(e), Elapsed(e, w), Settled(e, f, 0), released)
      BY <1>3 DEF SettleToolOpen
    <2>2. PICK x \in Siblings(e) : Live(x) BY <1>3 DEF SettleToolOpen
    <2>3. x \in EffectsOf(RunOf(e)) \ {e} BY DEF Siblings
    <2>4. OnlyRun(RunOf(e))
      <3> HIDE DEF released
      <3> QED BY <1>o, <2>1
    <2>5. ~SteerConsumable(RunOf(e), e)
      <3> SUFFICES ASSUME SteerConsumable(RunOf(e), e) PROVE FALSE OBVIOUS
      <3> QED BY <1>0, <2>1, <2>2, <2>3, ConsumerAlone DEF Solo, Blocks
    <2> QED BY <1>2, <2>1, <2>2, <2>3, <2>4, <2>5
  <1>4. ASSUME NEW e \in Eff, NEW f \in Fact, NEW w \in WallAfter(e), SettleToolLate(e, f, w)
        PROVE  OnlyRun(RunOf(e)) /\ Tidy(RunOf(e))'
    <2>0. ToolSettles(e) /\ ToolLate(e) BY <1>4 DEF SettleToolLate
    <2>1. CASE SteerConsumable(RunOf(e), e)
      <3>1. ConsumeSteer(RunOf(e), e, Elapsed(e, w), Settled(e, f, 0))
        BY <1>4, <2>1 DEF SettleToolLate
      <3>2. OnlyRun(RunOf(e)) BY <1>0, <1>p, <2>0, <2>1, <3>1, ConsumeSteerOK
      <3>3. Tidy(RunOf(e))' BY <1>0, <1>p, <2>0, <2>1, <3>1, ConsumeTidy
      <3> QED BY <3>2, <3>3
    <2>2. CASE ~SteerConsumable(RunOf(e), e)
      <3> DEFINE released == IF runs[RunOf(e)].status \in Terminal
                             THEN RunPinReleaseSet(RunOf(e), {e}) ELSE {}
      <3>1. Commit(RunOf(e), Elapsed(e, w), Settled(e, f, 0), released)
        BY <1>4, <2>2 DEF SettleToolLate
      <3>2. OnlyRun(RunOf(e))
        <4> HIDE DEF released
        <4> QED BY <1>o, <3>1
      <3>3. runs[RunOf(e)].status \notin Terminal => runs[RunOf(e)].pending # NoSteer
        BY <1>0, <2>0 DEF ToolLate, Late, RunOK, Terminal
      <3> QED BY <1>2, <2>0, <2>2, <3>1, <3>2, <3>3
    <2> QED BY <2>1, <2>2
  <1>5. ASSUME NEW e \in Eff, NEW f \in Fact, NEW w \in WallAfter(e),
               SettleToolClosing(e, f, w)
        PROVE  OnlyRun(RunOf(e)) /\ Tidy(RunOf(e))'
    <2> DEFINE r == RunOf(e)
               run == Elapsed(e, w)
               next == [AdmitModel(run) EXCEPT !.close = "none"]
               row == ModelRow(run, run.epoch, run.gen, e[2])
               none == {}
    <2>0. ToolSettles(e) /\ ~ToolLate(e) /\ \A x \in Siblings(e) : ~Live(x)
      BY <1>5 DEF SettleToolClosing
    <2>1. Solo(r, e) /\ runs[r].status = "running" /\ runs[r].pending = NoSteer
      BY <1>0, <2>0, ToolAlone
    <2>2. \/ \E close \in {"final", "budget"} : CloseRun(e, run, Settled(e, f, 0), close)
          \/ RoomForModel(r) /\ Commit(r, next, [Settled(e, f, 0) EXCEPT ![NextModel(r)] = row], none)
      BY <1>5 DEF SettleToolClosing
    <2>3. row.status = "ready" /\ next.status = "running"
      BY <1>p, <2>1, ModelRowFields DEF AdmitModel, Run, Charged
    <2>4. DOMAIN Settled(e, f, 0) = Eff BY DEF Settled, TypeOK
    <2>5. /\ Local(r, Settled(e, f, 0))
          /\ RoomForModel(r) => Local(r, [Settled(e, f, 0) EXCEPT ![NextModel(r)] = row])
      BY LocalRows
    <2>6. Charged(run, r) /\ run \in Run BY <1>p
    <2> HIDE DEF next, row, run, none
    <2>7. ASSUME NEW close \in {"final", "budget"}, CloseRun(e, run, Settled(e, f, 0), close)
          PROVE  OnlyRun(r) /\ Tidy(r)'
      <3>1. OnlyRun(r) BY <1>0, <2>0, <2>1, <2>6, <2>7, CloseRunOK
      <3>2. Tidy(r)' BY <1>0, <2>0, <2>1, <2>6, <2>7, CloseTidy
      <3> QED BY <3>1, <3>2
    <2>8. ASSUME RoomForModel(r), Commit(r, next, [Settled(e, f, 0) EXCEPT ![NextModel(r)] = row], none)
          PROVE  OnlyRun(r) /\ Tidy(r)'
      <3>1. Tidy(r)' BY <1>0, <2>0, <2>3, <2>4, <2>8, AdmittedTidy
      <3>2. OnlyRun(r) BY <1>0, <2>0, <2>5, <2>8, CommitFrame DEF Local
      <3> QED BY <3>1, <3>2
    <2> QED BY <2>2, <2>7, <2>8
  <1> QED BY <1>1, <1>3, <1>4, <1>5, EffParts DEF ToolSettlement

\* Every model receipt leaves its run tidy.
LEMMA ModelSettlementTidy ==
  ASSUME TypeOK, AllOK, ModelSettlement
  PROVE  \E r \in Runs : OnlyRun(r) /\ Tidy(r)'
  <1>f. "succeeded" \in Fact /\ "failed" \in Fact BY DEF Fact
  <1>r. \A e \in Eff : RunOf(e) \in Runs /\ RunOK(RunOf(e)) /\ e \in EffectsOf(RunOf(e))
    BY EffParts DEF AllOK
  <1>s. \A e \in Eff : ModelSettles(e) => effects[e].status = "claimed" /\ Live(e) /\ IsModel(e)
    BY DEF ModelSettles, Live
  <1>p. \A e \in Eff, u \in Usages : \A w \in WallAfter(e) :
          Paid(e, u, w) \in Run /\ Charged(Paid(e, u, w), RunOf(e))
    BY BoundAssumption, PaidType, PaidCharged DEF WallAfter
  <1>n. \A e \in Eff, u \in Usages : ModelSettlesNow(e, u) =>
          /\ effects[e].status = "claimed" /\ Live(e) /\ IsModel(e) /\ Solo(RunOf(e), e)
          /\ runs[RunOf(e)].status = "running" /\ runs[RunOf(e)].pending = NoSteer
    BY <1>r, <1>s, ModelAlone DEF ModelSettlesNow
  <1>o. ASSUME NEW e \in Eff, NEW f \in Fact \cup {"unknown"}, NEW charge, NEW run,
               NEW released, Commit(RunOf(e), run, Settled(e, f, charge), released)
        PROVE  OnlyRun(RunOf(e))
    BY <1>o, EffParts, CommitFrame, SettledFrame
  <1>c. ASSUME NEW e \in Eff, NEW u \in Usages, NEW w \in WallAfter(e), ModelSettlesNow(e, u),
               NEW close \in {"final", "budget"},
               CloseRun(e, Paid(e, u, w), Settled(e, "succeeded", u), close)
        PROVE  OnlyRun(RunOf(e)) /\ Tidy(RunOf(e))'
    <2>1. OnlyRun(RunOf(e)) BY <1>f, <1>r, <1>p, <1>n, <1>c, CloseRunOK
    <2>2. Tidy(RunOf(e))' BY <1>f, <1>r, <1>p, <1>n, <1>c, CloseTidy
    <2> QED BY <2>1, <2>2
  <1>1. ASSUME NEW e \in Eff, NEW w \in WallAfter(e), SettleModelUnknown(e, w)
        PROVE  OnlyRun(RunOf(e)) /\ Tidy(RunOf(e))'
    <2> DEFINE run == [runs[RunOf(e)] EXCEPT !.wall = w]
               seal == SealRun(run, "unknown")
               own == {e}
               none == {}
               cost == effects[e].reserve
    <2>0. /\ ModelSettles(e) /\ effects[e].status = "claimed"
          /\ own \in SUBSET {e} /\ none \in SUBSET {e} /\ e \in own
      BY <1>1, <1>s DEF SettleModelUnknown
    <2>1. run \in Run /\ Charged(run, RunOf(e))
      BY ElapsedType, PaidCharged DEF Elapsed, WallAfter
    <2>2. \/ /\ CancelLate(e)
             /\ Commit(RunOf(e), run, Settled(e, "unknown", cost), RunPinReleaseSet(RunOf(e), none))
          \/ Commit(RunOf(e), seal, Settled(e, "unknown", cost), RunPinReleaseSet(RunOf(e), own))
      BY <1>1 DEF SettleModelUnknown
    <2>3. seal.status # "running" /\ (CancelLate(e) => run.status # "running")
      <3> HIDE DEF run
      <3> QED BY <2>1, SealedStatus DEF CancelLate, Charged
    <2> HIDE DEF run, seal, own, none, cost
    <2>4. OnlyRun(RunOf(e)) BY <1>o, <2>2
    <2>5. Tidy(RunOf(e))' BY <2>0, <2>2, <2>3, ReceiptTidy
    <2> QED BY <2>4, <2>5
  <1>2. ASSUME NEW e \in Eff, NEW f \in Fact, NEW u \in Usages, NEW w \in WallAfter(e),
               SettleModelCancelLate(e, f, u, w)
        PROVE  OnlyRun(RunOf(e)) /\ Tidy(RunOf(e))'
    <2> DEFINE run == Paid(e, u, w)
               own == {e}
    <2>0. /\ effects[e].status = "claimed" /\ runs[RunOf(e)].status = "cancelled"
          /\ own \in SUBSET {e} /\ e \in own /\ f \in {"succeeded", "failed", "unknown"}
      BY <1>2, <1>s DEF SettleModelCancelLate, CancelLate, Fact
    <2>1. Commit(RunOf(e), run, Settled(e, f, u), RunPinReleaseSet(RunOf(e), own))
      BY <1>2 DEF SettleModelCancelLate
    <2>2. run.status # "running" BY <1>p, <2>0 DEF Charged
    <2> HIDE DEF run, own
    <2>3. OnlyRun(RunOf(e)) BY <1>o, <2>1
    <2>4. Tidy(RunOf(e))' BY <2>0, <2>1, <2>2, ReceiptTidy
    <2> QED BY <2>3, <2>4
  <1>3. ASSUME NEW e \in Eff, NEW f \in Fact, NEW u \in Usages, NEW w \in WallAfter(e),
               SettleModelLate(e, f, u, w)
        PROVE  OnlyRun(RunOf(e)) /\ Tidy(RunOf(e))'
    <2>0. /\ effects[e].status = "claimed" /\ Live(e) /\ Late(e)
          /\ runs[RunOf(e)].status \in {"running", "waiting"}
          /\ f \in {"succeeded", "failed", "unknown"}
      BY <1>3, <1>s DEF SettleModelLate, ModelSettles, Fact
    <2>1. CASE SteerConsumable(RunOf(e), e)
      <3>1. ConsumeSteer(RunOf(e), e, Paid(e, u, w), Settled(e, f, u))
        BY <1>3, <2>1 DEF SettleModelLate
      <3>2. OnlyRun(RunOf(e)) BY <1>r, <1>p, <2>0, <2>1, <3>1, ConsumeSteerOK
      <3>3. Tidy(RunOf(e))' BY <1>p, <2>0, <2>1, <3>1, ConsumeTidy
      <3> QED BY <3>2, <3>3
    <2>2. CASE ~SteerConsumable(RunOf(e), e)
      <3> DEFINE none == {}
                 run == Paid(e, u, w)
      <3>1. Commit(RunOf(e), run, Settled(e, f, u), none)
        BY <1>3, <2>2 DEF SettleModelLate
      <3>2. runs[RunOf(e)].status = "running" /\ runs[RunOf(e)].pending # NoSteer
        BY <1>r, <2>0 DEF Late, RunOK
      <3>3. PICK x \in EffectsOf(RunOf(e)) \ {e} : Live(x)
        BY <1>r, <2>0, <2>2, <3>2, OtherClaim DEF Live
      <3>4. run.status = "running" BY <1>p, <3>2 DEF Charged
      <3> HIDE DEF none, run
      <3>5. OnlyRun(RunOf(e)) BY <1>o, <3>1
      <3>6. Tidy(RunOf(e))' BY <2>0, <3>1, <3>3, <3>4, OthersTidy
      <3> QED BY <3>5, <3>6
    <2> QED BY <2>1, <2>2
  <1>4. ASSUME NEW e \in Eff, NEW u \in Usages, NEW w \in WallAfter(e),
               SettleModelFailure(e, u, w)
        PROVE  OnlyRun(RunOf(e)) /\ Tidy(RunOf(e))'
    <2> DEFINE run == SealRun(Paid(e, u, w), "abort")
               own == {e}
    <2>1. /\ ModelSettlesNow(e, u)
          /\ Commit(RunOf(e), run, Settled(e, "failed", u), RunPinReleaseSet(RunOf(e), own))
      BY <1>4 DEF SettleModelFailure
    <2>2. run.status # "running" /\ own \in SUBSET {e} /\ e \in own BY <1>p, SealedStatus
    <2> HIDE DEF run, own
    <2>3. OnlyRun(RunOf(e)) BY <1>f, <1>o, <2>1
    <2>4. Tidy(RunOf(e))' BY <1>n, <2>1, <2>2, ReceiptTidy
    <2> QED BY <2>3, <2>4
  <1>5. ASSUME NEW e \in Eff, NEW u \in Usages, NEW w \in WallAfter(e),
               SettleModelFinal(e, u, w)
        PROVE  OnlyRun(RunOf(e)) /\ Tidy(RunOf(e))'
    BY <1>c, <1>5 DEF SettleModelFinal
  <1>6. ASSUME NEW e \in Eff, NEW u \in Usages, NEW w \in WallAfter(e),
               SettleModelInteraction(e, u, w)
        PROVE  OnlyRun(RunOf(e)) /\ Tidy(RunOf(e))'
    <2> DEFINE run == [Paid(e, u, w) EXCEPT !.status = "waiting", !.interaction = e[2],
                                            !.close = "none", !.pending = NoSteer]
               rows == Settled(e, "succeeded", u)
               none == {}
    <2>1. run.status = "waiting" BY <1>p DEF Run
    <2>2. Commit(RunOf(e), run, rows, none) BY <1>6 DEF SettleModelInteraction
    <2> HIDE DEF run, none
    <2>3. OnlyRun(RunOf(e)) BY <1>f, <1>o, <2>2
    <2> HIDE DEF rows
    <2>4. Tidy(RunOf(e))' BY <1>r, <2>1, <2>2, RunningTidy
    <2> QED BY <2>3, <2>4
  <1>7. ASSUME NEW e \in Eff, NEW u \in Usages, NEW w \in WallAfter(e),
               SettleModelText(e, u, w)
        PROVE  OnlyRun(RunOf(e)) /\ Tidy(RunOf(e))'
    <2> DEFINE r == RunOf(e)
               run == Paid(e, u, w)
               next == [AdmitModel(run) EXCEPT !.close = "none"]
               row == ModelRow(run, run.epoch, run.gen, e[2])
               rows == Settled(e, "succeeded", u)
               none == {}
    <2>1. ModelSettlesNow(e, u) BY <1>7 DEF SettleModelText
    <2>2. \/ CloseRun(e, run, rows, "budget")
          \/ RoomForModel(r) /\ Commit(r, next, [rows EXCEPT ![NextModel(r)] = row], none)
      BY <1>7 DEF SettleModelText
    <2>3. row.status = "ready" /\ next.status = "running"
      BY <1>n, <1>p, <2>1, ModelRowFields DEF AdmitModel, Run, Charged
    <2>4. /\ DOMAIN rows = Eff
          /\ RoomForModel(r) => Local(r, [rows EXCEPT ![NextModel(r)] = row])
      BY LocalRows DEF Settled, TypeOK
    <2>5. CASE CloseRun(e, run, rows, "budget") BY <1>c, <2>1, <2>5
    <2> HIDE DEF next, row, run, none, rows
    <2>6. ASSUME RoomForModel(r), Commit(r, next, [rows EXCEPT ![NextModel(r)] = row], none)
          PROVE  OnlyRun(r) /\ Tidy(r)'
      <3>1. Tidy(r)' BY <1>r, <2>3, <2>4, <2>6, AdmittedTidy
      <3>2. OnlyRun(r) BY <1>r, <2>4, <2>6, CommitFrame DEF Local
      <3> QED BY <3>1, <3>2
    <2> QED BY <2>2, <2>5, <2>6
  <1>8. ASSUME NEW e \in Eff, NEW u \in Usages, NEW n \in 1..MaxTools,
               NEW w \in WallAfter(e), NEW batch \in [1..n -> pins[RunOf(e)]],
               SettleModelTools(e, u, w, n, batch)
        PROVE  OnlyRun(RunOf(e)) /\ Tidy(RunOf(e))'
    <2> DEFINE r == RunOf(e)
               run == Paid(e, u, w)
               next == [run EXCEPT !.calls = @ - n]
               New(x) == ModelOf(x) = e /\ x[3] \in 1..n
               rows == [x \in Eff |-> IF New(x) THEN ToolRow(run, batch[x[3]])
                                      ELSE Settled(e, "succeeded", u)[x]]
               none == {}
               t == <<e[1], e[2], 1>>
    <2>1. ModelSettlesNow(e, u) BY <1>8 DEF SettleModelTools
    <2>2. \/ CloseRun(e, run, Settled(e, "succeeded", u), "budget")
          \/ Commit(r, next, rows, none)
      BY <1>8 DEF SettleModelTools
    <2>3. CASE CloseRun(e, run, Settled(e, "succeeded", u), "budget") BY <1>c, <2>1, <2>3
    <2>4. ASSUME Commit(r, next, rows, none) PROVE OnlyRun(r) /\ Tidy(r)'
      <3>1. /\ e = <<e[1], e[2], 0>> /\ 1 \in 1..n /\ 1 \in 0..MaxTools
            /\ e[1] \in Runs /\ e[2] \in 1..MaxModels
        BY <1>n, <2>1, EffParts, BoundAssumption DEF IsModel
      <3>2. t \in Eff /\ t \in EffectsOf(r) /\ New(t)
        BY <3>1, EffBuilt DEF EffectsOf, ModelOf, RunOf
      <3>3. rows[t] = ToolRow(run, batch[1]) BY <3>2
      <3>4. Queued(rows[t].status)
        <4>1. ToolRow(run, batch[1]).status = "ready" BY DEF ToolRow, NoEffect
        <4> HIDE DEF rows, t
        <4> QED BY <3>3, <4>1 DEF Queued
      <3>5. next.status = "running" BY <1>n, <1>p, <2>1 DEF Run, Charged
      <3>6. \A x \in Eff : RunOf(x) # r => rows[x] = effects[x]
        BY SettledFrame DEF ModelOf, RunOf
      <3> HIDE DEF rows, next, none, t
      <3>7. Tidy(r)' BY <1>r, <2>4, <3>2, <3>4, <3>5, RunningTidy
      <3>8. OnlyRun(r) BY <1>r, <2>4, <3>6, CommitFrame
      <3> QED BY <3>7, <3>8
    <2> QED BY <2>2, <2>3, <2>4
  <1> QED BY <1>1, <1>2, <1>3, <1>4, <1>5, <1>6, <1>7, <1>8, EffParts DEF ModelSettlement

\* A spawn leaves the parent with a child and the child with its first model call.
LEMMA SpawningTidy ==
  ASSUME TypeOK, AllOK, Spawning
  PROVE  \A r \in Runs : Untouched(r) \/ Tidy(r)'
  <1>1. ASSUME NEW e \in Eff, NEW u \in Usages, NEW key \in SpawnKeys, NEW g \in Grants,
               NEW c \in Runs, NEW owned \in {{}} \cup {{k} : k \in Keys},
               NEW w \in WallAfter(e), SpawnChild(e, u, w, key, g, c, owned), NEW q \in Runs
        PROVE  Untouched(q) \/ Tidy(q)'
    <2> DEFINE r == RunOf(e)
               run == Paid(e, u, w)
               child == [NoRun EXCEPT !.status = "running", !.steps = g.steps,
                             !.calls = g.calls, !.wall = g.wall, !.models = 1,
                             !.tokens = Debit(g.tokens, ModelReserve(g.tokens)),
                             !.parent = r, !.spawnkey = key, !.granted = g]
               left == [run EXCEPT !.close = "none", !.interaction = 0,
                             !.steps = @ - g.steps, !.calls = @ - g.calls,
                             !.wall = @ - g.wall, !.tokens = Debit(@, g.tokens)]
               rows == Settled(e, "succeeded", u)
               row == ModelRow(g, 0, 0, 0)
               m == <<c, 1, 0>>
    <2>1. /\ r \in Runs /\ runs[r].status = "running" /\ runs[c].status = "none"
          /\ effects[e].status = "claimed"
          /\ runs' = [runs EXCEPT ![r] = left, ![c] = child]
          /\ effects' = [rows EXCEPT ![m] = row]
          /\ pins' = [pins EXCEPT ![c] = owned]
      BY <1>1, EffParts DEF SpawnChild, ModelSettlesNow, ModelSettles
    <2>2. /\ r # c /\ m \in Eff /\ m \in EffectsOf(c) /\ RunOf(m) = c
      BY <2>1, EffBuilt, BoundAssumption DEF EffectsOf
    <2>3. /\ child.status = "running" /\ child.parent = r /\ row.status = "ready"
      BY ModelRowFields DEF NoRun
    <2>4. left.status = "running"
      BY <2>1, BoundAssumption, PaidType, PaidCharged DEF Charged, Run, WallAfter
    <2>5. DOMAIN rows = Eff /\ \A x \in Eff : RunOf(x) # r => rows[x] = effects[x]
      BY SettledFrame DEF Settled, TypeOK
    <2> HIDE DEF left, child, r, rows, row
    <2>6. /\ runs'[r] = left /\ runs'[c] = child /\ effects'[m] = row
          /\ \A p \in Runs \ {r, c} : runs'[p] = runs[p]
          /\ \A p \in Runs \ {c} : pins'[p] = pins[p]
          /\ \A x \in Eff \ {m} : effects'[x] = rows[x]
      BY <2>1, <2>2, <2>5 DEF TypeOK
    <2>7. CASE q = c
      <3>1. \E x \in EffectsOf(q) : effects'[x].status \in {"ready", "claimed"}
        BY <2>2, <2>3, <2>6, <2>7
      <3>2. runs'[q].status = "running" BY <2>3, <2>6, <2>7
      <3> QED BY <3>1, <3>2 DEF Tidy, Busy, Live, EffectsOf, RunOf, Terminal
    <2>8. CASE q = r
      <3>1. \E x \in Runs : runs'[x].status # "none" /\ runs'[x].parent = q
        BY <2>3, <2>6, <2>8
      <3>2. runs'[q].status = "running" BY <2>4, <2>6, <2>8
      <3> QED BY <3>1, <3>2 DEF Tidy, Busy, SpawnedBy, Terminal
    <2>9. CASE q # c /\ q # r
      BY <2>2, <2>5, <2>6, <2>9, EffectsOfRun DEF Untouched
    <2> QED BY <2>7, <2>8, <2>9
  <1>2. ASSUME NEW e \in Eff, NEW u \in Usages, NEW key \in SpawnKeys, NEW g \in Grants,
               NEW w \in WallAfter(e), SpawnReplay(e, u, w, key, g), NEW q \in Runs
        PROVE  Untouched(q) \/ Tidy(q)'
    <2> DEFINE r == RunOf(e)
               run == Paid(e, u, w)
               next == [run EXCEPT !.close = "none", !.interaction = 0]
               rows == Settled(e, "succeeded", u)
               none == {}
    <2>1. /\ r \in Runs /\ runs[r].status = "running" /\ Commit(r, next, rows, none)
      BY <1>2, EffParts DEF SpawnReplay
    <2>2. PICK c \in Runs : runs[c].status # "none" /\ runs[c].parent = r
      BY <1>2 DEF SpawnReplay, ChildrenOf
    <2>3. next.status = "running" /\ next.parent = runs[r].parent
      <3>1. runs[r] \in Run BY <2>1, RowTypes
      <3> QED BY <2>1, <3>1 DEF Paid, Run
    <2>4. \A x \in Eff : RunOf(x) # r => rows[x] = effects[x] BY SettledFrame
    <2> HIDE DEF next, rows, none, run, r
    <2>5. OnlyRun(r) /\ runs'[r] = next BY <2>1, <2>4, CommitFrame
    <2>6. runs'[c].status # "none" /\ runs'[c].parent = r
      BY <2>1, <2>2, <2>3, <2>5 DEF OnlyRun, Untouched
    <2>7. SpawnedBy(r)' # {} BY <2>6 DEF SpawnedBy
    <2>8. Tidy(r)' BY <2>3, <2>5, <2>7 DEF Tidy, Busy, Terminal
    <2> QED BY <2>5, <2>8 DEF OnlyRun
  <1> QED BY <1>1, <1>2 DEF Spawning

\* A run the step does not touch stays tidy: its children stay its children.
LEMMA UntouchedTidy ==
  ASSUME KinStep, NEW q \in Runs, Untouched(q), Tidy(q)
  PROVE  Tidy(q)'
  <1>1. \A c \in Runs : runs[c].status # "none" =>
          runs'[c].status # "none" /\ runs'[c].parent = runs[c].parent
    BY DEF KinStep, SameRun, KinRow, BornRoot, BornChild
  <1>2. \A c \in SpawnedBy(q) : c \in Runs /\ runs'[c].status # "none" /\ runs'[c].parent = q
    BY <1>1 DEF SpawnedBy
  <1>3. Busy(q) => Busy(q)'
    BY <1>2 DEF Untouched, Busy, Live, EffectsOf, RunOf, SpawnedBy
  <1>4. \A k : Needed(k, q) => Needed(k, q)'
    BY DEF Untouched, Needed, Blocks, Live, EffectsOf, RunOf
  <1> QED BY <1>3, <1>4 DEF Tidy, Untouched, Admits

\* Claims, expiring leases and sweeps keep every run tidy.
LEMMA SweepTidy ==
  ASSUME TypeOK, AllOK, NEW q \in Runs, Tidy(q),
         Sweep \/ \E e \in Eff : Claim(e) \/ ExpireLease(e)
  PROVE  Tidy(q)'
  <1>1. ASSUME NEW e \in Eff, Claim(e) \/ ExpireLease(e) PROVE Tidy(q)'
    <2>1. effects[e] \in Effect BY RowTypes
    <2>2. /\ runs' = runs /\ pins' = pins
          /\ \A x \in Eff \ {e} : effects'[x] = effects[x]
          /\ effects'[e].status = "claimed" /\ effects'[e].key = effects[e].key
          /\ effects[e].status \in {"ready", "claimed"}
      BY <1>1, <2>1 DEF Claim, ExpireLease, TypeOK, Effect
    <2>3. \A x \in EffectsOf(q) :
            /\ effects'[x].key = effects[x].key
            /\ effects[x].status \in {"ready", "claimed"} => effects'[x].status \in {"ready", "claimed"}
            /\ effects[x].status \notin {"ready", "claimed"} => effects'[x].status = effects[x].status
      BY <2>2, EffectsOfRun
    <2>4. \A k : Needed(k, q) => Needed(k, q)'
      BY <2>2, <2>3 DEF Needed, Blocks, Live, EffectsOf, RunOf
    <2>5. Busy(q) => Busy(q)' BY <2>2, <2>3 DEF Busy, Live, EffectsOf, RunOf, SpawnedBy
    <2> QED BY <2>2, <2>4, <2>5 DEF Tidy, Admits
  <1>2. ASSUME Sweep PROVE Tidy(q)'
    <2>1. PICK S \in SUBSET Expired, wall \in [Runs -> 0..MaxWall] : Recover(S, wall)
      BY <1>2 DEF Sweep
    <2> DEFINE H == S \cap EffectsOf(q)
               kept == \A e \in H : CancelLate(e)
               timed == [runs[q] EXCEPT !.wall = wall[q]]
               seal == SealRun(timed, "unknown")
               free == {e \in H : IsModel(e) /\ ~kept}
    <2>2. /\ effects' = [e \in Eff |->
               IF e \in S
               THEN [effects[e] EXCEPT !.status = "unknown", !.expired = FALSE,
                                       !.charge = effects[e].reserve]
               ELSE effects[e]]
          /\ runs'[q] = IF H = {} THEN runs[q] ELSE IF kept THEN timed ELSE seal
          /\ pins'[q] = IF H = {} THEN pins[q] ELSE pins[q] \ RunPinReleaseSet(q, free)
      BY <2>1 DEF Recover, Walled
    <2>3. /\ \A x \in H : effects'[x].status = "unknown" /\ effects'[x].key = effects[x].key
          /\ \A x \in EffectsOf(q) \ H : effects'[x] = effects[x]
      BY <2>2, EffectsOfRun, RowTypes DEF Effect
    <2>4. CASE H = {}
      <3>1. Untouched(q) BY <2>2, <2>3, <2>4 DEF Untouched
      <3>2. KinStep BY <1>2, SweepKin
      <3> QED BY <3>1, <3>2, UntouchedTidy
    <2>5. CASE H # {}
      <3>1. kept => runs[q].status = "cancelled" BY <2>5, EffectsOfRun DEF CancelLate
      <3>2. runs[q] \in Run /\ timed \in Run /\ timed.status = runs[q].status
        BY RowTypes DEF Run
      <3>3. runs'[q].status # "running"
        <4>1. seal.status # "running"
          <5> HIDE DEF timed
          <5> QED BY <3>2, SealedStatus
        <4> HIDE DEF seal, timed, kept
        <4> QED BY <2>2, <2>5, <3>1, <3>2, <4>1
      <3>4. ASSUME NEW k \in pins'[q] PROVE Needed(k, q)'
        <4>1. k \in pins[q] \ RunPinReleaseSet(q, free) BY <2>2, <2>5
        <4>2. PICK x \in EffectsOf(q) \ free : effects[x].key = k /\ Blocks(x)
          BY <4>1 DEF RunPinReleaseSet
        <4>3. effects'[x].key = k /\ effects'[x].status \in {"ready", "claimed", "unknown"}
          BY <2>3, <4>2 DEF Blocks, Live
        <4> QED BY <4>2, <4>3 DEF Needed, Blocks, Live, EffectsOf, RunOf
      <3> QED BY <3>3, <3>4 DEF Tidy
    <2> QED BY <2>4, <2>5
  <1> QED BY <1>1, <1>2

\* Every step keeps every run tidy.
LEMMA StepTidy ==
  ASSUME TypeOK, AllOK, Next, \A r \in Runs : Tidy(r)
  PROVE  \A r \in Runs : Tidy(r)'
  <1>1. KinStep BY StepKin
  <1>2. ASSUME \E r \in Runs : OnlyRun(r) /\ Tidy(r)', NEW q \in Runs PROVE Tidy(q)'
    BY <1>1, <1>2, UntouchedTidy DEF OnlyRun
  <1>3. ASSUME Spawning, NEW q \in Runs PROVE Tidy(q)'
    BY <1>1, <1>3, SpawningTidy, UntouchedTidy
  <1>4. CASE UserCommand BY <1>2, <1>4, UserCommandTidy
  <1>5. CASE ModelSettlement BY <1>2, <1>5, ModelSettlementTidy
  <1>6. CASE ToolSettlement BY <1>2, <1>6, ToolSettlementTidy
  <1>7. CASE Sweep \/ \E e \in Eff : Claim(e) \/ ExpireLease(e) BY <1>7, SweepTidy
  <1> QED BY <1>3, <1>4, <1>5, <1>6, <1>7 DEF Next

\* Every reachable run is tidy.
THEOREM TidyHolds == Spec => [](LoopInvariant /\ WorkInFlight /\ PinsDrain)
  <1>1. Init => \A r \in Runs : Tidy(r) BY DEF Init, NoRun, Tidy, Terminal
  <1>2. LoopInvariant /\ (\A r \in Runs : Tidy(r)) /\ [Next]_vars => (\A r \in Runs : Tidy(r))'
    <2> SUFFICES ASSUME LoopInvariant, \A r \in Runs : Tidy(r), [Next]_vars,
                        NEW q \in Runs
                 PROVE  Tidy(q)'
      OBVIOUS
    <2>1. TypeOK /\ AllOK BY InvariantByRun
    <2>2. CASE Next BY <2>1, <2>2, StepTidy
    <2>3. CASE UNCHANGED vars
      <3>1. KinStep /\ Untouched(q) BY <2>3 DEF vars, KinStep, SameRun, Untouched
      <3> QED BY <3>1, UntouchedTidy
    <2> QED BY <2>2, <2>3
  <1>3. (\A r \in Runs : Tidy(r)) => WorkInFlight /\ PinsDrain BY TidyByRun
  <1> QED BY <1>1, <1>2, <1>3, LoopSafe, PTL DEF Spec

\* A running run that can pay for a model call has work in flight or has spawned: no order
\* of steers, answers, late receipts and spawns leaves it with nobody to drive it.
THEOREM SomebodyWorks == Spec => []WorkInFlight
  BY TidyHolds, PTL

\* A sealed run has given back every pin that no live or unknown tool needs, except those
\* of tools a sealing steer archived.
THEOREM PinsAreReturned == Spec => []PinsDrain
  BY TidyHolds, PTL

-----------------------------------------------------------------------------
(* Accounts: sums *)

\* The units Total counts.
Units(f) == UNION {{x} \X (1..f[x]) : x \in DOMAIN f}

\* Finitely many values have finitely many units.
LEMMA UnitsFinite ==
  ASSUME NEW S, IsFiniteSet(S), NEW f \in [S -> Int]
  PROVE  /\ IsFiniteSet(Units(f))
         /\ Total(f) = Cardinality(Units(f)) /\ Total(f) \in Nat
         /\ \A u : u \in Units(f) <=> \E x \in S : u \in {x} \X (1..f[x])
  <1> DEFINE F == [x \in S |-> {x} \X (1..f[x])]
             T == {{x} \X (1..f[x]) : x \in DOMAIN f}
  <1>1. IsFiniteSet(T)
    <2>1. F \in Surjection(S, T) BY DEF Surjection
    <2> HIDE DEF F, T
    <2> QED BY <2>1, FS_Surjection
  <1>2. \A t \in T : IsFiniteSet(t)
    <2> SUFFICES ASSUME NEW x \in S PROVE IsFiniteSet({x} \X (1..f[x]))
      OBVIOUS
    <2>1. f[x] \in Int OBVIOUS
    <2>2. IsFiniteSet(1..f[x]) BY <2>1, FS_Interval
    <2>3. IsFiniteSet({x}) BY FS_Singleton
    <2> QED BY <2>2, <2>3, FS_Product
  <1>3. IsFiniteSet(UNION T) BY <1>1, <1>2, FS_UNION
  <1>4. Units(f) = UNION T /\ Total(f) = Cardinality(UNION T) BY DEF Units, Total
  <1>5. \A u : u \in UNION T <=> \E x \in S : u \in {x} \X (1..f[x]) OBVIOUS
  <1> HIDE DEF T
  <1> QED BY <1>3, <1>4, <1>5, FS_CardinalityType

\* One value can be counted apart.
LEMMA TotalSplit ==
  ASSUME NEW S, IsFiniteSet(S), NEW f \in [S -> Int], NEW x \in S, f[x] \in Nat
  PROVE  Total(f) = f[x] + Total([y \in S \ {x} |-> f[y]])
  <1> DEFINE g == [y \in S \ {x} |-> f[y]]
             own == {x} \X (1..f[x])
  <1>1. IsFiniteSet(S \ {x}) /\ g \in [S \ {x} -> Int] BY FS_RemoveElement
  <1>2. /\ IsFiniteSet(Units(f)) /\ Total(f) = Cardinality(Units(f))
        /\ \A u : u \in Units(f) <=> \E y \in S : u \in {y} \X (1..f[y])
    BY UnitsFinite
  <1>3. /\ IsFiniteSet(Units(g)) /\ Total(g) = Cardinality(Units(g)) /\ Total(g) \in Nat
        /\ \A u : u \in Units(g) <=> \E y \in S \ {x} : u \in {y} \X (1..g[y])
    <2> HIDE DEF g
    <2> QED BY <1>1, UnitsFinite
  <1>4. IsFiniteSet(own) /\ Cardinality(own) = f[x]
    <2>1. IsFiniteSet(1..f[x]) /\ Cardinality(1..f[x]) = f[x] BY FS_Interval
    <2>2. IsFiniteSet({x}) /\ Cardinality({x}) = 1 BY FS_Singleton
    <2>3. IsFiniteSet(own) /\ Cardinality(own) = Cardinality({x}) * Cardinality(1..f[x])
      BY <2>1, <2>2, FS_Product
    <2> QED BY <2>1, <2>2, <2>3
  <1>5. \A u : u \in Units(g) <=> \E y \in S \ {x} : u \in {y} \X (1..f[y])
    BY <1>3
  <1>6. Units(f) = own \cup Units(g) BY <1>2, <1>5
  <1>7. own \cap Units(g) = {} BY <1>5
  <1> HIDE DEF g, own
  <1>8. Cardinality(own \cup Units(g))
          = Cardinality(own) + Cardinality(Units(g)) - Cardinality({})
    BY <1>3, <1>4, <1>7, FS_Union
  <1>9. Cardinality({}) = 0 BY FS_EmptySet
  <1>10. Total(f) = f[x] + Total(g) BY <1>2, <1>3, <1>4, <1>6, <1>8, <1>9
  <1> QED BY <1>10 DEF g

\* One value that changes changes the sum by as much.
LEMMA TotalChange ==
  ASSUME NEW S, IsFiniteSet(S), NEW f \in [S -> Int], NEW g \in [S -> Int], NEW x \in S,
         f[x] \in Nat, g[x] \in Nat, \A y \in S \ {x} : g[y] = f[y]
  PROVE  Total(g) = Total(f) - f[x] + g[x]
  <1> DEFINE rest == [y \in S \ {x} |-> f[y]]
  <1>1. rest = [y \in S \ {x} |-> g[y]] OBVIOUS
  <1>2. Total(f) = f[x] + Total(rest) BY TotalSplit
  <1>3. Total(g) = g[x] + Total(rest)
    <2>1. Total(g) = g[x] + Total([y \in S \ {x} |-> g[y]]) BY TotalSplit
    <2> HIDE DEF rest
    <2> QED BY Zenon, <1>1, <2>1
  <1>4. Total(f) \in Nat /\ Total(g) \in Nat BY UnitsFinite
  <1>5. Total(rest) \in Nat
    <2>1. IsFiniteSet(S \ {x}) /\ rest \in [S \ {x} -> Int] BY FS_RemoveElement
    <2> HIDE DEF rest
    <2> QED BY <2>1, UnitsFinite
  <1> HIDE DEF rest
  <1> QED BY <1>2, <1>3, <1>4, <1>5

\* A value that joins adds itself to the sum.
LEMMA TotalJoin ==
  ASSUME NEW S, IsFiniteSet(S), NEW f \in [S -> Int], NEW x, x \notin S,
         NEW T, T = S \cup {x}, NEW g \in [T -> Int], g[x] \in Nat, \A y \in S : g[y] = f[y]
  PROVE  Total(g) = Total(f) + g[x]
  <1>1. IsFiniteSet(T) /\ x \in T BY FS_AddElement
  <1>2. f = [y \in T \ {x} |-> g[y]] OBVIOUS
  <1>3. Total(g) = g[x] + Total(f)
    <2>1. Total(g) = g[x] + Total([y \in T \ {x} |-> g[y]]) BY <1>1, TotalSplit
    <2> QED BY Zenon, <1>2, <2>1
  <1>4. Total(f) \in Nat BY UnitsFinite
  <1> QED BY <1>3, <1>4

\* A run has finitely many effects.
LEMMA EffectsFinite ==
  ASSUME NEW r \in Runs
  PROVE  IsFiniteSet(EffectsOf(r))
  <1> DEFINE P == (1..MaxModels) \X (0..MaxTools)
             F == [p \in P |-> <<r, p[1], p[2]>>]
             T == {F[p] : p \in P}
  <1>1. IsFiniteSet(P)
    <2>1. IsFiniteSet(1..MaxModels) /\ IsFiniteSet(0..MaxTools)
      BY FS_Interval, BoundAssumption
    <2> QED BY <2>1, FS_Product
  <1>2. F \in Surjection(P, T) BY DEF Surjection
  <1>3. IsFiniteSet(T)
    <2> HIDE DEF F, P, T
    <2> QED BY <1>1, <1>2, FS_Surjection
  <1>4. EffectsOf(r) \subseteq T
    <2> SUFFICES ASSUME NEW x \in EffectsOf(r) PROVE x \in T OBVIOUS
    <2>1. x \in Runs \X (1..MaxModels) \X (0..MaxTools) /\ x[1] = r
      BY DEF EffectsOf, Eff, RunOf
    <2>2. <<x[2], x[3]>> \in P /\ x = <<r, x[2], x[3]>> BY <2>1
    <2>3. F[<<x[2], x[3]>>] = x BY <2>2
    <2> QED BY <2>2, <2>3
  <1> HIDE DEF F, P, T
  <1> QED BY <1>3, <1>4, FS_Subset

-----------------------------------------------------------------------------
(* Accounts: the balance of one run *)

\* What a model call costs its run: its reserve while it is live, then its charge.
Cost(row) == IF Queued(row.status) THEN row.reserve ELSE row.charge
Models(rows, r) == {e \in EffectsOf(r) : IsModel(e) /\ rows[e].status # "none"}
Tools(rows, r) == {e \in EffectsOf(r) : IsTool(e) /\ rows[e].status # "none"}
Held(rows, r) == Total([e \in Models(rows, r) |-> Cost(rows[e])])

\* What a run gave to its children.
Sums == [tokens : Nat, steps : Nat, calls : Nat]
Given(r) ==
  [tokens |-> Total([c \in SpawnedBy(r) |-> runs[c].granted.tokens]),
   steps |-> Total([c \in SpawnedBy(r) |-> runs[c].granted.steps]),
   calls |-> Total([c \in SpawnedBy(r) |-> runs[c].granted.calls])]

\* The ledgers of one run, for rows a step is about to write.  A live model call of a
\* bounded run has a reserve, so that what it is charged is what it gives back less.
Balanced(run, rows, r, given) ==
  /\ run.granted.tokens > 0 =>
       /\ run.tokens \in Nat
       /\ run.granted.tokens = run.tokens + Held(rows, r) + given.tokens
       /\ \A e \in EffectsOf(r) : IsModel(e) /\ Queued(rows[e].status) => rows[e].reserve >= 1
  /\ run.granted.steps = run.steps + Cardinality(Models(rows, r))
                         - (IF run.parent = None THEN 0 ELSE 1) + given.steps
  /\ run.granted.calls = run.calls + Cardinality(Tools(rows, r)) + given.calls
  /\ \A e \in EffectsOf(r) : rows[e].status = "ready" => rows[e].charge = 0

\* The sums of a run are numbers.
LEMMA HeldType ==
  ASSUME NEW r \in Runs, NEW rows \in [Eff -> Effect]
  PROVE  /\ IsFiniteSet(Models(rows, r)) /\ IsFiniteSet(Tools(rows, r))
         /\ [e \in Models(rows, r) |-> Cost(rows[e])] \in [Models(rows, r) -> Int]
         /\ \A e \in Models(rows, r) : Cost(rows[e]) \in Nat
         /\ Held(rows, r) \in Nat
         /\ Cardinality(Models(rows, r)) \in Nat /\ Cardinality(Tools(rows, r)) \in Nat
  <1>1. IsFiniteSet(EffectsOf(r)) BY EffectsFinite
  <1>2. /\ Models(rows, r) \in SUBSET EffectsOf(r) /\ Tools(rows, r) \in SUBSET EffectsOf(r)
        /\ EffectsOf(r) \subseteq Eff
    BY DEF Models, Tools, EffectsOf
  <1>3. IsFiniteSet(Models(rows, r)) /\ IsFiniteSet(Tools(rows, r)) BY <1>1, <1>2, FS_Subset
  <1>4. \A e \in Models(rows, r) : Cost(rows[e]) \in Nat BY <1>2 DEF Cost, Effect
  <1>5. Held(rows, r) \in Nat
    <2> DEFINE f == [e \in Models(rows, r) |-> Cost(rows[e])]
    <2>1. f \in [Models(rows, r) -> Int] BY <1>4
    <2> HIDE DEF f
    <2>2. Total(f) \in Nat BY <1>3, <2>1, UnitsFinite
    <2> QED BY <2>2 DEF f, Held
  <1> QED BY <1>3, <1>4, <1>5, FS_CardinalityType

\* Rows that cost their run the same.
SameCost(old, new) ==
  /\ new.status = "none" <=> old.status = "none"
  /\ Queued(new.status) => Queued(old.status) /\ new.reserve = old.reserve
  /\ new.status = "ready" => old.status = "ready" /\ new.charge = old.charge

SameMoney(run, old) ==
  /\ run.granted = old.granted /\ run.parent = old.parent
  /\ run.tokens = old.tokens /\ run.steps = old.steps /\ run.calls = old.calls

\* Nothing that counts has changed.
LEMMA BalancedSame ==
  ASSUME NEW r, NEW given, NEW run, NEW rows, Balanced(run, rows, r, given),
         NEW next, SameMoney(next, run), NEW later,
         \A e \in EffectsOf(r) : /\ SameCost(rows[e], later[e])
                                 /\ IsModel(e) => Cost(later[e]) = Cost(rows[e])
  PROVE  Balanced(next, later, r, given)
  <1>1. Models(later, r) = Models(rows, r) /\ Tools(later, r) = Tools(rows, r)
    BY DEF Models, Tools, SameCost
  <1>2. \A e \in Models(rows, r) : Cost(later[e]) = Cost(rows[e]) BY DEF Models
  <1>3. Held(later, r) = Held(rows, r)
    <2>1. [e \in Models(later, r) |-> Cost(later[e])] = [e \in Models(rows, r) |-> Cost(rows[e])]
      BY <1>1, <1>2
    <2> QED BY Zenon, <2>1 DEF Held
  <1>4. \A e \in EffectsOf(r) : later[e].status = "ready" => later[e].charge = 0
    BY DEF Balanced, SameCost
  <1>5. /\ next.granted = run.granted /\ next.parent = run.parent
        /\ next.tokens = run.tokens /\ next.steps = run.steps /\ next.calls = run.calls
    BY DEF SameMoney
  <1>6. next.granted.tokens > 0 =>
          \A e \in EffectsOf(r) : IsModel(e) /\ Queued(later[e].status) => later[e].reserve >= 1
    BY <1>5 DEF Balanced, SameCost
  <1> HIDE DEF Models, Tools, Held
  <1> QED BY <1>1, <1>3, <1>4, <1>5, <1>6 DEF Balanced

\* A settled model call is charged what it gave back less.
LEMMA BalancedSettled ==
  ASSUME NEW r \in Runs, NEW given \in Sums, NEW run \in Run, NEW rows \in [Eff -> Effect],
         Balanced(run, rows, r, given),
         NEW e \in EffectsOf(r), IsModel(e), rows[e].status = "claimed",
         NEW u \in Nat, rows[e].reserve > 0 => u <= rows[e].reserve,
         NEW later \in [Eff -> Effect], later[e].status \in Fact, later[e].charge = u,
         \A x \in EffectsOf(r) \ {e} : later[x] = rows[x],
         NEW next, next.granted = run.granted, next.parent = run.parent,
         next.steps = run.steps, next.calls = run.calls,
         next.tokens = Refund(run.tokens, rows[e].reserve, u)
  PROVE  Balanced(next, later, r, given)
  <1>1. /\ ~Queued(later[e].status) /\ later[e].status # "none" /\ later[e].status # "ready"
        /\ Queued(rows[e].status) /\ rows[e].status # "none"
    BY DEF Queued, Fact
  <1>2. e \in Models(rows, r) /\ ~IsTool(e) BY <1>1 DEF Models, IsModel, IsTool
  <1>3. Models(later, r) = Models(rows, r) /\ Tools(later, r) = Tools(rows, r)
    BY <1>1 DEF Models, Tools, IsModel, IsTool
  <1>4. e \in Eff /\ rows[e] \in Effect /\ rows[e].reserve \in Nat BY DEF EffectsOf, Effect
  <1>5. Held(later, r) = Held(rows, r) - rows[e].reserve + u
    <2> DEFINE S == Models(rows, r)
               f == [x \in S |-> Cost(rows[x])]
               g == [x \in S |-> Cost(later[x])]
    <2>1. IsFiniteSet(S) /\ f \in [S -> Int] BY HeldType
    <2>2. \A x \in S : Cost(later[x]) \in Nat BY <1>3, HeldType
    <2>3. g \in [S -> Int] BY <2>2
    <2>4. f[e] = rows[e].reserve /\ g[e] = u BY <1>1, <1>2 DEF Cost
    <2>5. \A x \in S \ {e} : g[x] = f[x] BY DEF Models
    <2>6. Held(rows, r) = Total(f) /\ Held(later, r) = Total(g) BY <1>3 DEF Held
    <2> HIDE DEF f, g, S
    <2>7. e \in S BY <1>2 DEF S
    <2>8. Total(g) = Total(f) - f[e] + g[e] BY <1>4, <2>1, <2>3, <2>4, <2>5, <2>7, TotalChange
    <2> QED BY <2>4, <2>6, <2>8
  <1>6. Held(rows, r) \in Nat BY HeldType
  <1>7. given.tokens \in Nat BY DEF Sums
  <1>8. ASSUME run.granted.tokens > 0
        PROVE  /\ next.tokens \in Nat
               /\ run.granted.tokens = next.tokens + Held(later, r) + given.tokens
               /\ \A x \in EffectsOf(r) :
                    IsModel(x) /\ Queued(later[x].status) => later[x].reserve >= 1
    <2>1. /\ run.tokens \in Nat
          /\ run.granted.tokens = run.tokens + Held(rows, r) + given.tokens
          /\ rows[e].reserve >= 1
      BY <1>1, <1>8 DEF Balanced
    <2>2. u <= rows[e].reserve BY <1>4, <2>1
    <2>3. next.tokens = run.tokens + rows[e].reserve - u
      BY <1>4, <2>1, <2>2 DEF Refund, Unlimited
    <2>4. \A x \in EffectsOf(r) :
            IsModel(x) /\ Queued(later[x].status) => later[x].reserve >= 1
      BY <1>1, <1>8 DEF Balanced
    <2> QED BY <1>4, <1>5, <1>6, <1>7, <2>1, <2>2, <2>3, <2>4
  <1>9. \A x \in EffectsOf(r) : later[x].status = "ready" => later[x].charge = 0
    BY <1>1 DEF Balanced
  <1> HIDE DEF Models, Tools, Held
  <1> QED BY <1>3, <1>8, <1>9 DEF Balanced

\* An admitted model call takes a step and reserves its tokens.
LEMMA BalancedAdmitted ==
  ASSUME NEW r \in Runs, NEW given \in Sums, NEW run \in Run, NEW rows \in [Eff -> Effect],
         Balanced(run, rows, r, given), run.granted.tokens > 0 => run.tokens # 0,
         NEW n \in EffectsOf(r), IsModel(n), rows[n].status = "none",
         NEW later \in [Eff -> Effect], later[n].status = "ready",
         later[n].reserve = ModelReserve(run.tokens), later[n].charge = 0,
         \A x \in EffectsOf(r) \ {n} : later[x] = rows[x],
         NEW next, next.granted = run.granted, next.parent = run.parent,
         next.steps = run.steps - 1, next.calls = run.calls,
         next.tokens = Debit(run.tokens, ModelReserve(run.tokens))
  PROVE  Balanced(next, later, r, given)
  <1> DEFINE S == Models(rows, r)
             f == [x \in S |-> Cost(rows[x])]
             T == Models(later, r)
             g == [x \in T |-> Cost(later[x])]
  <1>1. n \notin S /\ ~IsTool(n) BY DEF Models, IsModel, IsTool
  <1>2. Models(later, r) = S \cup {n} /\ Tools(later, r) = Tools(rows, r)
    BY DEF Models, Tools, IsModel, IsTool
  <1>3. IsFiniteSet(S) /\ f \in [S -> Int] BY HeldType
  <1>4. Cardinality(Models(later, r)) = Cardinality(S) + 1
    BY <1>1, <1>2, <1>3, FS_AddElement
  <1>5. Queued(later[n].status) /\ Cost(later[n]) = ModelReserve(run.tokens)
    BY DEF Queued, Cost
  <1>6. Held(later, r) = Held(rows, r) + ModelReserve(run.tokens)
    <2>1. \A x \in T : Cost(later[x]) \in Nat BY HeldType
    <2>2. g \in [T -> Int] /\ n \in T BY <1>2, <2>1
    <2>3. g[n] \in Nat BY <2>1, <2>2
    <2>4. \A x \in S : g[x] = f[x] BY <1>1, <1>2 DEF Models
    <2>5. Held(rows, r) = Total(f) /\ Held(later, r) = Total(g) BY DEF Held
    <2>6. g[n] = ModelReserve(run.tokens) BY <1>5, <2>2
    <2>7. T = S \cup {n} BY <1>2
    <2> HIDE DEF f, g, S, T
    <2>8. Total(g) = Total(f) + g[n] BY <1>1, <1>3, <2>2, <2>3, <2>4, <2>7, TotalJoin
    <2> QED BY <2>5, <2>6, <2>8
  <1>7. Held(rows, r) \in Nat /\ Cardinality(S) \in Nat BY HeldType
  <1>8. given.tokens \in Nat /\ given.steps \in Nat BY DEF Sums
  <1>9. run.steps \in Nat /\ run.granted.steps \in Nat BY DEF Run, Budget
  <1>10. ASSUME run.granted.tokens > 0
         PROVE  /\ next.tokens \in Nat
                /\ run.granted.tokens = next.tokens + Held(later, r) + given.tokens
                /\ \A x \in EffectsOf(r) :
                     IsModel(x) /\ Queued(later[x].status) => later[x].reserve >= 1
    <2>1. /\ run.tokens \in Nat
          /\ run.granted.tokens = run.tokens + Held(rows, r) + given.tokens
      BY <1>10 DEF Balanced
    <2>2. ModelReserve(run.tokens) \in 1..run.tokens
      BY <1>10, <2>1, BoundAssumption DEF ModelReserve
    <2>3. next.tokens = run.tokens - ModelReserve(run.tokens)
      BY <2>1 DEF Debit, Unlimited
    <2>4. \A x \in EffectsOf(r) :
            IsModel(x) /\ Queued(later[x].status) => later[x].reserve >= 1
      BY <1>10, <2>1, <2>2 DEF Balanced
    <2> QED BY <1>6, <1>7, <1>8, <2>1, <2>2, <2>3, <2>4
  <1>11. \A x \in EffectsOf(r) : later[x].status = "ready" => later[x].charge = 0
    BY DEF Balanced
  <1>12. run.granted.steps = next.steps + Cardinality(Models(later, r))
                             - (IF run.parent = None THEN 0 ELSE 1) + given.steps
    <2>1. run.granted.steps = run.steps + Cardinality(S)
                              - (IF run.parent = None THEN 0 ELSE 1) + given.steps
      BY DEF Balanced
    <2> HIDE DEF S
    <2> QED BY <1>4, <1>7, <1>8, <1>9, <2>1
  <1> HIDE DEF Models, Tools, Held
  <1> QED BY <1>2, <1>10, <1>11, <1>12 DEF Balanced

\* Archiving gives back what the ready model call had reserved.
LEMMA BalancedArchived ==
  ASSUME TypeOK, NEW r \in Runs, RunOK(r), NEW given \in Sums,
         Balanced(runs[r], effects, r, given), NEW revoke \in BOOLEAN,
         NEW next, next.granted = runs[r].granted, next.parent = runs[r].parent,
         next.steps = runs[r].steps, next.calls = runs[r].calls,
         next.tokens = Credit(runs[r].tokens, ReadyReserve(r))
  PROVE  Balanced(next, Archived(r, revoke), r, given)
  <1> DEFINE later == Archived(r, revoke)
             S == Models(effects, r)
  <1>1. /\ runs[r] \in Run /\ effects \in [Eff -> Effect] /\ later \in [Eff -> Effect]
        /\ runs[r].tokens \in Tokens /\ EffectsOf(r) \subseteq Eff
    BY RowTypes, ArchivedType DEF TypeOK, EffectsOf, Run, Tokens
  <1>2. \A x \in EffectsOf(r) :
          /\ effects[x].status = "ready" => later[x].status = "cancelled"
          /\ effects[x].status # "ready" => later[x].status = effects[x].status
          /\ later[x].reserve = effects[x].reserve /\ later[x].charge = effects[x].charge
    BY <1>1 DEF Archived, ReadyOf, ClaimedOf, Effect
  <1>3. \A x \in EffectsOf(r) :
          /\ SameCost(effects[x], later[x])
          /\ effects[x].status # "ready" => Cost(later[x]) = Cost(effects[x])
    BY <1>2 DEF SameCost, Cost, Queued
  <1> HIDE DEF later
  <1>4. CASE \A x \in EffectsOf(r) : IsModel(x) => effects[x].status # "ready"
    <2>1. ReadyReserve(r) = 0 BY <1>4 DEF ReadyReserve, ReadyOf
    <2>2. next.tokens = runs[r].tokens BY <1>1, <2>1 DEF Credit, Tokens, Unlimited
    <2>3. SameMoney(next, runs[r]) BY <2>2 DEF SameMoney
    <2>4. Balanced(next, later, r, given) BY <1>3, <1>4, <2>3, BalancedSame
    <2> QED BY <2>4 DEF later
  <1>5. CASE \E x \in EffectsOf(r) : IsModel(x) /\ effects[x].status = "ready"
    <2> DEFINE m == CHOOSE x \in ReadyOf(r) : IsModel(x)
    <2>1. m \in EffectsOf(r) /\ effects[m].status = "ready" /\ IsModel(m)
          /\ ReadyReserve(r) = effects[m].reserve
      <3>1. \E x \in ReadyOf(r) : IsModel(x) BY <1>5 DEF ReadyOf
      <3> QED BY <3>1 DEF ReadyReserve, ReadyOf
    <2> HIDE DEF m
    <2>2. \A x \in EffectsOf(r) \ {m} : effects[x].status # "ready"
      <3>1. Live(m) /\ ~IsTool(m) BY <2>1 DEF Live, IsModel, IsTool
      <3>2. \A x \in EffectsOf(r) \ {m} : ~Live(x) BY <2>1, <3>1 DEF RunOK
      <3> QED BY <3>2 DEF Live
    <2>3. /\ m \in S /\ effects[m].charge = 0 /\ effects[m].reserve \in Nat
          /\ Cost(effects[m]) = effects[m].reserve /\ Cost(later[m]) = 0
      BY <1>1, <1>2, <2>1 DEF Models, Balanced, Cost, Queued, Effect
    <2>4. Models(later, r) = S /\ Tools(later, r) = Tools(effects, r)
      BY <1>3 DEF Models, Tools, SameCost
    <2>5. Held(later, r) = Held(effects, r) - effects[m].reserve
      <3> DEFINE f == [x \in S |-> Cost(effects[x])]
                 g == [x \in S |-> Cost(later[x])]
      <3>1. IsFiniteSet(S) /\ f \in [S -> Int] BY <1>1, HeldType
      <3>2. \A x \in S : Cost(later[x]) \in Nat BY <1>1, <2>4, HeldType
      <3>3. g \in [S -> Int] BY <3>2
      <3>4. f[m] = effects[m].reserve /\ g[m] = 0 BY <2>3
      <3>5. \A x \in S \ {m} : g[x] = f[x] BY <1>3, <2>2 DEF Models
      <3>6. Held(effects, r) = Total(f) /\ Held(later, r) = Total(g) BY <2>4 DEF Held
      <3> HIDE DEF f, g, S
      <3>7. Total(g) = Total(f) - f[m] + g[m] BY <2>3, <3>1, <3>3, <3>4, <3>5, TotalChange
      <3>8. Total(f) \in Nat BY <3>1, UnitsFinite
      <3> QED BY <2>3, <3>4, <3>6, <3>7, <3>8
    <2>6. Held(effects, r) \in Nat BY <1>1, HeldType
    <2>7. given.tokens \in Nat BY DEF Sums
    <2>8. ASSUME runs[r].granted.tokens > 0
          PROVE  /\ next.tokens \in Nat
                 /\ runs[r].granted.tokens = next.tokens + Held(later, r) + given.tokens
                 /\ \A x \in EffectsOf(r) :
                      IsModel(x) /\ Queued(later[x].status) => later[x].reserve >= 1
      <3>1. /\ runs[r].tokens \in Nat
            /\ runs[r].granted.tokens = runs[r].tokens + Held(effects, r) + given.tokens
        BY <2>8 DEF Balanced
      <3>2. next.tokens = runs[r].tokens + effects[m].reserve
        BY <2>1, <3>1 DEF Credit, Unlimited
      <3>3. \A x \in EffectsOf(r) :
              IsModel(x) /\ Queued(later[x].status) => later[x].reserve >= 1
        BY <1>3, <2>8 DEF Balanced, SameCost
      <3> QED BY <2>3, <2>5, <2>6, <2>7, <3>1, <3>2, <3>3
    <2>9. \A x \in EffectsOf(r) : later[x].status = "ready" => later[x].charge = 0
      BY <1>3 DEF SameCost, Balanced
    <2>10. Balanced(next, later, r, given)
      <3> HIDE DEF S
      <3>1. Models(later, r) = Models(effects, r) BY <2>4 DEF S
      <3> QED BY <2>4, <2>8, <2>9, <3>1 DEF Balanced
    <2> QED BY <2>10 DEF later
  <1> QED BY <1>4, <1>5

\* The tools of one batch.
LEMMA BatchSize ==
  ASSUME NEW r \in Runs, NEW e \in EffectsOf(r), IsModel(e), NEW n \in 1..MaxTools
  PROVE  LET N == {x \in EffectsOf(r) : ModelOf(x) = e /\ x[3] \in 1..n}
         IN IsFiniteSet(N) /\ Cardinality(N) = n
  <1> DEFINE N == {x \in EffectsOf(r) : ModelOf(x) = e /\ x[3] \in 1..n}
             F == [i \in 1..n |-> <<e[1], e[2], i>>]
  <1>1. e \in Runs \X (1..MaxModels) \X (0..MaxTools) /\ e[1] = r /\ e = <<r, e[2], 0>>
    BY DEF EffectsOf, Eff, RunOf, IsModel
  <1>2. n \in Nat /\ n <= MaxTools BY BoundAssumption
  <1>3. \A i \in 1..n : F[i] \in N
    <2> SUFFICES ASSUME NEW i \in 1..n PROVE <<e[1], e[2], i>> \in N OBVIOUS
    <2>1. i \in 0..MaxTools BY <1>2, BoundAssumption
    <2>2. <<e[1], e[2], i>> \in Eff BY <1>1, <2>1 DEF Eff
    <2> QED BY <1>1, <2>2 DEF EffectsOf, RunOf, ModelOf
  <1>4. \A x \in N : x[3] \in 1..n /\ F[x[3]] = x
    <2> SUFFICES ASSUME NEW x \in N PROVE x[3] \in 1..n /\ <<e[1], e[2], x[3]>> = x OBVIOUS
    <2>1. x \in Runs \X (1..MaxModels) \X (0..MaxTools) BY DEF EffectsOf, Eff
    <2>2. <<x[1], x[2], 0>> = e /\ x[3] \in 1..n BY DEF ModelOf
    <2>3. e[1] = x[1] /\ e[2] = x[2] BY <2>2
    <2> QED BY <2>1, <2>2, <2>3
  <1>5. F \in Bijection(1..n, N)
    <2>1. F \in [1..n -> N] BY <1>3
    <2>2. \A i, j \in 1..n : F[i] = F[j] => i = j OBVIOUS
    <2>3. \A x \in N : \E i \in 1..n : F[i] = x BY <1>4
    <2> HIDE DEF F, N
    <2> QED BY <2>1, <2>2, <2>3 DEF Bijection, Injection, IsInjective, Surjection
  <1>6. ExistsBijection(1..n, N) BY <1>5 DEF ExistsBijection
  <1>7. IsFiniteSet(N) /\ Cardinality(N) = n
    <2> HIDE DEF F, N
    <2> QED BY <1>2, <1>6, FS_CountingElements, FS_NatBijection
  <1> QED BY <1>7

\* A batch takes one call for each of its tools.
LEMMA BalancedBatch ==
  ASSUME NEW r \in Runs, NEW given \in Sums, NEW run \in Run, NEW rows \in [Eff -> Effect],
         Balanced(run, rows, r, given),
         NEW e \in EffectsOf(r), IsModel(e), NEW n \in 1..MaxTools,
         NEW later \in [Eff -> Effect],
         \A x \in EffectsOf(r) :
           IF ModelOf(x) = e /\ x[3] \in 1..n
           THEN rows[x].status = "none" /\ later[x].status = "ready" /\ later[x].charge = 0
           ELSE later[x] = rows[x],
         NEW next, next.granted = run.granted, next.parent = run.parent,
         next.tokens = run.tokens, next.steps = run.steps, next.calls = run.calls - n
  PROVE  Balanced(next, later, r, given)
  <1> DEFINE N == {x \in EffectsOf(r) : ModelOf(x) = e /\ x[3] \in 1..n}
  <1>1. IsFiniteSet(N) /\ Cardinality(N) = n BY BatchSize
  <1>2. \A x \in N : IsTool(x) /\ ~IsModel(x) BY DEF IsTool, IsModel
  <1>3. \A x \in EffectsOf(r) : IsModel(x) => later[x] = rows[x] BY <1>2
  <1>4. Models(later, r) = Models(rows, r) /\ Held(later, r) = Held(rows, r)
    <2>1. Models(later, r) = Models(rows, r) BY <1>3 DEF Models
    <2>2. \A x \in Models(rows, r) : later[x] = rows[x] BY <1>3 DEF Models
    <2>3. [x \in Models(later, r) |-> Cost(later[x])] = [x \in Models(rows, r) |-> Cost(rows[x])]
      BY <2>1, <2>2
    <2> QED BY Zenon, <2>1, <2>3 DEF Held
  <1>5. Tools(later, r) = Tools(rows, r) \cup N /\ Tools(rows, r) \cap N = {}
    BY <1>2 DEF Tools
  <1>6. IsFiniteSet(Tools(rows, r)) /\ Cardinality(Tools(rows, r)) \in Nat BY HeldType
  <1>7. \A x \in EffectsOf(r) : later[x].status = "ready" => later[x].charge = 0
    BY DEF Balanced
  <1> HIDE DEF N
  <1>8. Cardinality(Tools(rows, r) \cup N) = Cardinality(Tools(rows, r)) + n
    <2>1. Cardinality(Tools(rows, r) \cap N) = 0 BY <1>5, FS_EmptySet
    <2>2. n \in Nat BY BoundAssumption
    <2>3. Cardinality(Tools(rows, r) \cup N)
            = Cardinality(Tools(rows, r)) + Cardinality(N) - Cardinality(Tools(rows, r) \cap N)
      BY <1>1, <1>6, FS_Union
    <2> QED BY <1>1, <1>6, <2>1, <2>2, <2>3
  <1>9. n \in Nat /\ run.calls \in Nat /\ given.calls \in Nat
    BY BoundAssumption DEF Run, Sums
  <1>10. run.granted.calls = next.calls + Cardinality(Tools(later, r)) + given.calls
    <2>1. run.granted.calls = run.calls + Cardinality(Tools(rows, r)) + given.calls
      BY DEF Balanced
    <2> QED BY <1>5, <1>6, <1>8, <1>9, <2>1
  <1>11. run.granted.tokens > 0 =>
           \A x \in EffectsOf(r) : IsModel(x) /\ Queued(later[x].status) => later[x].reserve >= 1
    BY <1>3 DEF Balanced
  <1> HIDE DEF Models, Tools, Held
  <1> QED BY <1>4, <1>7, <1>10, <1>11 DEF Balanced

-----------------------------------------------------------------------------
(* Accounts: steps *)

\* Ledgers, and what makes it inductive: an absent run holds no grant, every other one
\* balances, and runs have been given to finitely many children.
Accounts ==
  /\ \A r \in Runs : IF runs[r].status = "none" THEN runs[r].granted.tokens = 0
                     ELSE Balanced(runs[r], effects, r, Given(r))
  /\ IsFiniteSet({c \in Runs : runs[c].parent # None})

\* What a run gave away are numbers.
LEMMA GivenType ==
  ASSUME TypeOK, NEW r \in Runs, IsFiniteSet({c \in Runs : runs[c].parent # None})
  PROVE  /\ IsFiniteSet(SpawnedBy(r)) /\ Given(r) \in Sums
         /\ \A c \in SpawnedBy(r) : runs[c].granted \in Budget
  <1> DEFINE S == SpawnedBy(r)
             tokens == [c \in S |-> runs[c].granted.tokens]
             steps == [c \in S |-> runs[c].granted.steps]
             calls == [c \in S |-> runs[c].granted.calls]
  <1>1. S \in SUBSET {c \in Runs : runs[c].parent # None} BY RunAssumption DEF SpawnedBy
  <1>2. IsFiniteSet(S) BY <1>1, FS_Subset
  <1>3. \A c \in S : runs[c].granted \in Budget BY DEF SpawnedBy, TypeOK, Run
  <1>4. tokens \in [S -> Int] /\ steps \in [S -> Int] /\ calls \in [S -> Int]
    BY <1>3 DEF Budget, Unlimited
  <1>5. Total(tokens) \in Nat /\ Total(steps) \in Nat /\ Total(calls) \in Nat
    <2> HIDE DEF tokens, steps, calls, S
    <2> QED BY <1>2, <1>4, UnitsFinite
  <1>6. Given(r) = [tokens |-> Total(tokens), steps |-> Total(steps), calls |-> Total(calls)]
    BY DEF Given
  <1> HIDE DEF tokens, steps, calls
  <1> QED BY <1>2, <1>3, <1>5, <1>6 DEF Sums

\* The two ledgers follow.
LEMMA AccountsAddUp ==
  ASSUME TypeOK, Accounts
  PROVE  Ledgers
  <1>1. ASSUME NEW r \in Runs, Balanced(runs[r], effects, r, Given(r))
        PROVE  /\ runs[r].granted.tokens > 0 =>
                    runs[r].granted.tokens = runs[r].tokens
                      + Total([e \in ModelsOf(r) |->
                                 IF Live(e) THEN effects[e].reserve ELSE effects[e].charge])
                      + Total([c \in SpawnedBy(r) |-> runs[c].granted.tokens])
               /\ runs[r].granted.steps =
                    runs[r].steps
                    + Cardinality(ModelsOf(r)) - (IF runs[r].parent = None THEN 0 ELSE 1)
                    + Total([c \in SpawnedBy(r) |-> runs[c].granted.steps])
               /\ runs[r].granted.calls =
                    runs[r].calls + Cardinality(ToolsOf(r))
                    + Total([c \in SpawnedBy(r) |-> runs[c].granted.calls])
    <2>1. Models(effects, r) = ModelsOf(r) /\ Tools(effects, r) = ToolsOf(r)
      BY DEF Models, ModelsOf, Tools, ToolsOf
    <2>2. Held(effects, r) = Total([e \in ModelsOf(r) |->
                                IF Live(e) THEN effects[e].reserve ELSE effects[e].charge])
      BY <2>1 DEF Held, Cost, Queued, Live
    <2>3. /\ Given(r).tokens = Total([c \in SpawnedBy(r) |-> runs[c].granted.tokens])
          /\ Given(r).steps = Total([c \in SpawnedBy(r) |-> runs[c].granted.steps])
          /\ Given(r).calls = Total([c \in SpawnedBy(r) |-> runs[c].granted.calls])
      BY DEF Given
    <2> QED BY <1>1, <2>1, <2>2, <2>3 DEF Balanced
  <1>2. \A r \in Runs : IF runs[r].status = "none" THEN runs[r].granted.tokens = 0
                        ELSE Balanced(runs[r], effects, r, Given(r))
    BY DEF Accounts
  <1>3. TokenLedger
    <2> SUFFICES ASSUME NEW r \in Runs, runs[r].granted.tokens > 0
                 PROVE  runs[r].granted.tokens = runs[r].tokens
                          + Total([e \in ModelsOf(r) |->
                                     IF Live(e) THEN effects[e].reserve ELSE effects[e].charge])
                          + Total([c \in SpawnedBy(r) |-> runs[c].granted.tokens])
      BY DEF TokenLedger
    <2>1. runs[r].granted.tokens # 0 OBVIOUS
    <2>2. Balanced(runs[r], effects, r, Given(r)) BY <1>2, <2>1
    <2> QED BY <1>1, <2>2
  <1>4. CountLedger BY <1>1, <1>2 DEF CountLedger
  <1> QED BY <1>3, <1>4 DEF Ledgers

\* Runs that keep their parents and the grants of children have given the same.
LEMMA GivenKept ==
  ASSUME Kinship, Kinship', NEW r \in Runs,
         \A c \in Runs : runs[c].parent = r \/ runs'[c].parent = r =>
           runs'[c].parent = runs[c].parent /\ runs'[c].granted = runs[c].granted
  PROVE  Given(r)' = Given(r)
  <1>1. r # None BY RunAssumption
  <1>2. \A c \in Runs : /\ runs[c].parent = r => runs[c].status # "none"
                        /\ runs'[c].parent = r => runs'[c].status # "none"
    BY <1>1 DEF Kinship
  <1>3. SpawnedBy(r)' = SpawnedBy(r) BY <1>2 DEF SpawnedBy
  <1>4. \A c \in SpawnedBy(r) : runs'[c].granted = runs[c].granted BY DEF SpawnedBy
  <1> DEFINE S == SpawnedBy(r)
             T == SpawnedBy(r)'
  <1>5. /\ [c \in T |-> runs'[c].granted.tokens] = [c \in S |-> runs[c].granted.tokens]
        /\ [c \in T |-> runs'[c].granted.steps] = [c \in S |-> runs[c].granted.steps]
        /\ [c \in T |-> runs'[c].granted.calls] = [c \in S |-> runs[c].granted.calls]
    BY <1>3, <1>4
  <1>6. Given(r)' = [tokens |-> Total([c \in T |-> runs'[c].granted.tokens]),
                     steps |-> Total([c \in T |-> runs'[c].granted.steps]),
                     calls |-> Total([c \in T |-> runs'[c].granted.calls])]
    BY DEF Given, Total
  <1>7. Given(r) = [tokens |-> Total([c \in S |-> runs[c].granted.tokens]),
                    steps |-> Total([c \in S |-> runs[c].granted.steps]),
                    calls |-> Total([c \in S |-> runs[c].granted.calls])]
    BY DEF Given
  <1> QED BY Zenon, <1>5, <1>6, <1>7

\* A run with the rows and the gifts it had balances as before.
LEMMA BalanceKept ==
  ASSUME NEW r \in Runs, runs'[r] = runs[r], Given(r)' = Given(r),
         \A x \in EffectsOf(r) : effects'[x] = effects[x],
         Balanced(runs[r], effects, r, Given(r))
  PROVE  Balanced(runs'[r], effects', r, Given(r)')
  <1>1. SameMoney(runs[r], runs[r]) BY DEF SameMoney
  <1>2. \A x \in EffectsOf(r) : SameCost(effects[x], effects'[x]) /\ Cost(effects'[x]) = Cost(effects[x])
    BY DEF SameCost
  <1> DEFINE later == effects'
  <1>3. \A x \in EffectsOf(r) : SameCost(effects[x], later[x]) /\ Cost(later[x]) = Cost(effects[x])
    BY <1>2
  <1> HIDE DEF later
  <1>4. Balanced(runs[r], later, r, Given(r)) BY <1>1, <1>3, BalancedSame
  <1> QED BY Zenon, <1>4 DEF later

\* A step without a birth that changes the rows of one run has to balance that run.
LEMMA AccountsFrame ==
  ASSUME TypeOK, TypeOK', Kinship, Kinship', Accounts,
         NEW r \in Runs, runs[r].status # "none", OnlyRun(r), KinRow(runs'[r], r),
         NEW run, runs'[r] = run, NEW rows, effects' = rows, Balanced(run, rows, r, Given(r))
  PROVE  Accounts'
  <1>1. \A c \in Runs \ {r} : runs'[c] = runs[c] /\ \A x \in EffectsOf(c) : effects'[x] = effects[x]
    BY DEF OnlyRun, Untouched
  <1>2. /\ runs'[r].parent = runs[r].parent /\ runs'[r].granted = runs[r].granted
        /\ runs'[r].status # "none"
    BY DEF KinRow
  <1>3. \A c \in Runs : Given(c)' = Given(c) BY <1>1, <1>2, GivenKept
  <1>4. {c \in Runs : runs'[c].parent # None} = {c \in Runs : runs[c].parent # None}
    BY <1>1, <1>2
  <1>5. Balanced(runs'[r], effects', r, Given(r)') BY Zenon, <1>3
  <1>6. ASSUME NEW c \in Runs \ {r}, runs[c].status # "none"
        PROVE  Balanced(runs'[c], effects', c, Given(c)')
    BY <1>1, <1>3, <1>6, BalanceKept DEF Accounts
  <1>7. \A c \in Runs : IF runs'[c].status = "none" THEN runs'[c].granted.tokens = 0
                        ELSE Balanced(runs'[c], effects', c, Given(c)')
    BY <1>1, <1>2, <1>5, <1>6 DEF Accounts
  <1>8. IsFiniteSet({c \in Runs : runs'[c].parent # None}) BY Zenon, <1>4 DEF Accounts
  <1>9. \A c \in Runs : Balanced(runs'[c], effects', c, Given(c)')
                          <=> Balanced(runs[c], effects, c, Given(c))'
    BY DEF Balanced, Held, Models, Tools, Total, EffectsOf, Eff, RunOf, IsModel, IsTool, Cost, Queued
  <1> QED BY <1>7, <1>8, <1>9 DEF Accounts

\* Seals, close reasons, answers and time cost nothing.
LEMMA FreeMoney ==
  ASSUME NEW run \in Run
  PROVE  /\ SameMoney(run, run)
         /\ \A close : SameMoney(SealRun(run, close), run)
         /\ \A close : SameMoney([run EXCEPT !.close = close], run)
         /\ SameMoney([run EXCEPT !.pending = NoSteer], run)
         /\ SameMoney([run EXCEPT !.close = "none", !.interaction = 0], run)
         /\ \A i : SameMoney([run EXCEPT !.status = "waiting", !.interaction = i,
                                         !.close = "none", !.pending = NoSteer], run)
         /\ \A w : SameMoney([run EXCEPT !.wall = w], run)
         /\ \A w : SameMoney(SealRun([run EXCEPT !.wall = w], "unknown"), run)
         /\ \A p : SameMoney([run EXCEPT !.pending = p], run)
  BY DEF SameMoney, SealRun, Run

\* What a step and a reserve leave of a run.
Admitted(next, run) ==
  /\ next.granted = run.granted /\ next.parent = run.parent
  /\ next.steps = run.steps - 1 /\ next.calls = run.calls
  /\ next.tokens = Debit(run.tokens, ModelReserve(run.tokens))

\* Admitting a model call takes a step and its reserve and gives nothing away.
LEMMA AdmitMoney ==
  ASSUME NEW run \in Run
  PROVE  /\ Admitted(AdmitModel(run), run)
         /\ Admitted([AdmitModel(run) EXCEPT !.close = "none"], run)
         /\ Admitted([AdmitModel(run) EXCEPT !.pending = NoSteer], run)
  BY DEF Admitted, AdmitModel, Run

\* A commit that costs nothing.
LEMMA KeptAccounts ==
  ASSUME TypeOK, TypeOK', Kinship, Kinship', Accounts,
         NEW r \in Runs, runs[r].status # "none", NEW run, NEW rows,
         Balanced(run, rows, r, Given(r)), Local(r, rows),
         NEW next, KinRow(next, r), SameMoney(next, run),
         NEW released, Commit(r, next, rows, released)
  PROVE  Accounts'
  <1>1. OnlyRun(r) /\ runs'[r] = next /\ effects' = rows BY CommitFrame DEF Local
  <1>2. Balanced(next, rows, r, Given(r))
    <2>1. \A e \in EffectsOf(r) : /\ SameCost(rows[e], rows[e])
                                  /\ IsModel(e) => Cost(rows[e]) = Cost(rows[e])
      BY DEF SameCost
    <2> QED BY <2>1, BalancedSame
  <1>3. KinRow(runs'[r], r) BY <1>1
  <1> QED BY <1>1, <1>2, <1>3, AccountsFrame

\* A commit that admits a model call.
LEMMA AdmittedAccounts ==
  ASSUME TypeOK, TypeOK', AllOK, Kinship, Kinship', Accounts,
         NEW r \in Runs, runs[r].status # "none", NEW run \in Run, NEW rows \in [Eff -> Effect],
         Balanced(run, rows, r, Given(r)), Local(r, rows), Admits(run), RoomForModel(r),
         rows[NextModel(r)].status = "none",
         NEW next, KinRow(next, r), Admitted(next, run),
         NEW epoch \in Nat, NEW gen \in Nat, NEW from \in 0..MaxModels, NEW released,
         Commit(r, next, [rows EXCEPT ![NextModel(r)] = ModelRow(run, epoch, gen, from)],
                released)
  PROVE  Accounts'
  <1> DEFINE n == NextModel(r)
             row == ModelRow(run, epoch, gen, from)
             later == [rows EXCEPT ![n] = row]
  <1>1. n \in Eff /\ n \in EffectsOf(r) /\ IsModel(n) /\ RunOf(n) = r BY NextIsNew
  <1>2. run.tokens \in Tokens BY DEF Run, Tokens
  <1>3. row \in Effect BY <1>2, ModelRowType
  <1>4. row.status = "ready" /\ row.reserve = ModelReserve(run.tokens) /\ row.charge = 0
    BY DEF ModelRow, NoEffect
  <1>5. Commit(r, next, later, released) OBVIOUS
  <1>6. rows[n].status = "none" OBVIOUS
  <1> HIDE DEF n, row
  <1>7. /\ later \in [Eff -> Effect] /\ later[n] = row
        /\ \A x \in Eff \ {n} : later[x] = rows[x]
    BY <1>1, <1>3
  <1> HIDE DEF later
  <1>8. Local(r, later) BY <1>1, <1>7 DEF Local
  <1>9. OnlyRun(r) /\ runs'[r] = next /\ effects' = later BY <1>5, <1>8, CommitFrame DEF Local
  <1>10. Given(r) \in Sums BY GivenType DEF Accounts
  <1>11. \A x \in EffectsOf(r) \ {n} : later[x] = rows[x] BY <1>7 DEF EffectsOf
  <1>12. later[n].status = "ready" /\ later[n].reserve = ModelReserve(run.tokens)
         /\ later[n].charge = 0
    BY <1>4, <1>7
  <1>13. /\ next.granted = run.granted /\ next.parent = run.parent
         /\ next.steps = run.steps - 1 /\ next.calls = run.calls
         /\ next.tokens = Debit(run.tokens, ModelReserve(run.tokens))
    BY DEF Admitted
  <1>14. later \in [Eff -> Effect] BY <1>7
  <1>15. Balanced(next, later, r, Given(r))
    BY <1>1, <1>6, <1>10, <1>11, <1>12, <1>13, <1>14, BalancedAdmitted DEF Admits
  <1>16. KinRow(runs'[r], r) BY <1>9
  <1> QED BY <1>9, <1>15, <1>16, AccountsFrame

\* Closing a run, now or later, costs nothing.
LEMMA ClosedAccounts ==
  ASSUME TypeOK, TypeOK', Kinship, Kinship', Accounts,
         NEW e \in Eff, runs[RunOf(e)].status # "none", NEW run \in Run, NEW rows,
         Balanced(run, rows, RunOf(e), Given(RunOf(e))), Local(RunOf(e), rows),
         KinRow(run, RunOf(e)), NEW close \in {"final", "budget"},
         CloseRun(e, run, rows, close)
  PROVE  Accounts'
  <1> DEFINE r == RunOf(e)
             seal == SealRun(run, close)
             kept == [run EXCEPT !.close = close]
  <1>1. r \in Runs /\ runs[r].steps \in Nat BY EffParts, RowTypes DEF Run
  <1>2. KinRow(seal, r) BY <1>1, AdmitKin
  <1>3. KinRow(kept, r) BY DEF KinRow, Run
  <1>4. SameMoney(seal, run) /\ SameMoney(kept, run) BY FreeMoney
  <1>5. \E released : Commit(r, seal, rows, released) \/ Commit(r, kept, rows, released)
    BY DEF CloseRun
  <1> HIDE DEF r, seal, kept
  <1>6. Balanced(run, rows, r, Given(r)) /\ Local(r, rows) /\ runs[r].status # "none" BY DEF r
  <1> QED BY <1>1, <1>2, <1>3, <1>4, <1>5, <1>6, KeptAccounts

\* Consuming a steer admits a call, seals the run or drops the steer.
LEMMA ConsumedAccounts ==
  ASSUME TypeOK, TypeOK', AllOK, Kinship, Kinship', Accounts,
         NEW e \in Eff, runs[RunOf(e)].status # "none", NEW run \in Run,
         NEW rows \in [Eff -> Effect],
         Balanced(run, rows, RunOf(e), Given(RunOf(e))), Local(RunOf(e), rows),
         KinRow(run, RunOf(e)),
         RoomForModel(RunOf(e)) => rows[NextModel(RunOf(e))].status = "none",
         ConsumeSteer(RunOf(e), e, run, rows)
  PROVE  Accounts'
  <1> DEFINE r == RunOf(e)
             gen == IF run.gen > run.pending.gen THEN run.gen ELSE run.pending.gen
             next == [AdmitModel(run) EXCEPT !.pending = NoSteer]
             seal == SealRun(run, "budget")
             kept == [run EXCEPT !.pending = NoSteer]
             none == {}
  <1>1. r \in Runs /\ runs[r].steps \in Nat BY EffParts, RowTypes DEF Run
  <1>2. KinRow(next, r) /\ KinRow(seal, r) BY <1>1, AdmitKin
  <1>3. KinRow(kept, r) BY DEF KinRow, Run
  <1>4. SameMoney(seal, run) /\ SameMoney(kept, run) BY FreeMoney
  <1>5. Admitted(next, run) BY AdmitMoney
  <1>6. run.pending.epoch \in Nat /\ gen \in Nat /\ 0 \in 0..MaxModels
    BY BoundAssumption DEF Run
  <1>7. \/ /\ Admits(run) /\ RoomForModel(r)
           /\ Commit(r, next, [rows EXCEPT ![NextModel(r)] =
                                 ModelRow(run, run.pending.epoch, gen, 0)], none)
        \/ \E released : Commit(r, seal, rows, released) \/ Commit(r, kept, rows, released)
    BY DEF ConsumeSteer
  <1>8. /\ Balanced(run, rows, r, Given(r)) /\ Local(r, rows) /\ runs[r].status # "none"
        /\ RoomForModel(r) => rows[NextModel(r)].status = "none"
    OBVIOUS
  <1> HIDE DEF r, gen, next, seal, kept, none
  <1>9. CASE \E released : Commit(r, seal, rows, released) \/ Commit(r, kept, rows, released)
    BY <1>1, <1>2, <1>3, <1>4, <1>8, <1>9, KeptAccounts
  <1>10. CASE /\ Admits(run) /\ RoomForModel(r)
              /\ Commit(r, next, [rows EXCEPT ![NextModel(r)] =
                                    ModelRow(run, run.pending.epoch, gen, 0)], none)
    BY <1>1, <1>2, <1>5, <1>6, <1>8, <1>10, AdmittedAccounts
  <1> QED BY <1>7, <1>9, <1>10

\* A receipt stored for a model call balances with what the call is paid.
LEMMA PaidBalanced ==
  ASSUME TypeOK, AllOK, Accounts, NEW e \in Eff, ModelSettles(e), NEW u \in Usages,
         Trusted(e, u), NEW w \in WallAfter(e), NEW f \in Fact
  PROVE  Balanced(Paid(e, u, w), Settled(e, f, u), RunOf(e), Given(RunOf(e)))
  <1> DEFINE r == RunOf(e)
             next == Paid(e, u, w)
             later == Settled(e, f, u)
  <1>1. r \in Runs /\ runs[r] \in Run /\ runs[r].status # "none" /\ e \in EffectsOf(r)
    BY PaidKin, EffParts, RowTypes
  <1>2. IsModel(e) /\ effects[e].status = "claimed" BY DEF ModelSettles
  <1>3. u \in Nat /\ f \in {"succeeded", "failed", "unknown"} /\ f \in EffectStatus
    BY BoundAssumption DEF Fact, EffectStatus
  <1>4. /\ later \in [Eff -> Effect] /\ later[e].status = f
        /\ \A x \in Eff \ {e} : later[x] = effects[x]
    BY <1>2, <1>3, SettledType, SettledRests
  <1>5. later[e].charge = u
    <2>1. effects[e] \in Effect /\ DOMAIN effects = Eff BY DEF TypeOK
    <2> QED BY <2>1 DEF Settled, Effect
  <1>6. /\ next.granted = runs[r].granted /\ next.parent = runs[r].parent
        /\ next.steps = runs[r].steps /\ next.calls = runs[r].calls
        /\ next.tokens = Refund(runs[r].tokens, effects[e].reserve, u)
    BY <1>1 DEF Paid, Run
  <1>7. Balanced(runs[r], effects, r, Given(r)) /\ Given(r) \in Sums
    BY <1>1, GivenType DEF Accounts
  <1>8. effects \in [Eff -> Effect] BY DEF TypeOK
  <1>9. effects[e].reserve > 0 => u <= effects[e].reserve BY DEF Trusted
  <1>10. \A x \in EffectsOf(r) \ {e} : later[x] = effects[x] BY <1>4 DEF EffectsOf
  <1>11. later[e].status \in Fact BY <1>4
  <1> HIDE DEF r, next, later
  <1>12. Balanced(next, later, r, Given(r))
    BY <1>1, <1>2, <1>3, <1>4, <1>5, <1>6, <1>7, <1>8, <1>9, <1>10, <1>11, BalancedSettled
  <1> QED BY <1>12 DEF r, next, later

\* A receipt of a tool costs nothing, and an unknown call keeps its reserve spent.
LEMMA FactBalanced ==
  ASSUME TypeOK, Accounts, NEW e \in Eff, effects[e].status = "claimed",
         runs[RunOf(e)].status # "none", NEW w,
         NEW f \in Fact \cup {"unknown"}, NEW charge,
         IsModel(e) => f = "unknown" /\ charge = effects[e].reserve
  PROVE  Balanced(Elapsed(e, w), Settled(e, f, charge), RunOf(e), Given(RunOf(e)))
  <1> DEFINE r == RunOf(e)
             later == Settled(e, f, charge)
  <1>1. r \in Runs /\ runs[r] \in Run /\ effects[e] \in Effect /\ DOMAIN effects = Eff
    BY EffParts, RowTypes DEF TypeOK
  <1>2. /\ later[e].status = f /\ later[e].charge = charge /\ later[e].reserve = effects[e].reserve
        /\ \A x \in Eff \ {e} : later[x] = effects[x]
    BY <1>1 DEF Settled, Effect
  <1>3. \A x \in EffectsOf(r) : /\ SameCost(effects[x], later[x])
                                /\ IsModel(x) => Cost(later[x]) = Cost(effects[x])
    <2>1. SameCost(effects[e], later[e]) BY <1>2 DEF SameCost, Queued, Fact
    <2>2. IsModel(e) => Cost(later[e]) = Cost(effects[e]) BY <1>2 DEF Cost, Queued
    <2>3. ASSUME NEW x \in EffectsOf(r), x # e
          PROVE  SameCost(effects[x], later[x]) /\ Cost(later[x]) = Cost(effects[x])
      <3>1. later[x] = effects[x] BY <1>2, <2>3 DEF EffectsOf
      <3> QED BY <3>1 DEF SameCost
    <2> QED BY <2>1, <2>2, <2>3
  <1>4. SameMoney(Elapsed(e, w), runs[r]) BY <1>1, FreeMoney DEF Elapsed
  <1>5. Balanced(runs[r], effects, r, Given(r)) BY <1>1 DEF Accounts
  <1> HIDE DEF later
  <1>6. Balanced(Elapsed(e, w), later, r, Given(r)) BY <1>3, <1>4, <1>5, BalancedSame
  <1> QED BY <1>6 DEF later

\* The rows of a receipt: its own changes, the next model call is still to come.
LEMMA ReceiptRows ==
  ASSUME TypeOK, AllOK, NEW e \in Eff, effects[e].status = "claimed",
         NEW f \in Fact \cup {"unknown"}, NEW charge \in Nat
  PROVE  /\ Settled(e, f, charge) \in [Eff -> Effect]
         /\ Local(RunOf(e), Settled(e, f, charge))
         /\ RoomForModel(RunOf(e)) => Settled(e, f, charge)[NextModel(RunOf(e))].status = "none"
  <1>1. f \in EffectStatus /\ f \in {"succeeded", "failed", "unknown"} BY DEF Fact, EffectStatus
  <1>2. ASSUME RoomForModel(RunOf(e))
        PROVE  Settled(e, f, charge)[NextModel(RunOf(e))].status = "none"
    <2>1. NextModel(RunOf(e)) \in Eff /\ effects[NextModel(RunOf(e))].status = "none"
      BY <1>2, NextIsNew, EffParts
    <2> QED BY <1>1, <2>1, SettledRests
  <1> QED BY <1>1, <1>2, SettledType, LocalRows

\* Receipts for tools keep the accounts.
LEMMA ToolSettlementAccounts ==
  ASSUME TypeOK, TypeOK', AllOK, Kinship, Kinship', Accounts, ToolSettlement
  PROVE  Accounts'
  <1>1. ASSUME NEW e \in Eff, NEW f \in Fact, NEW w \in WallAfter(e),
               SettleToolUnknown(e, w) \/ SettleToolOpen(e, f, w) \/ SettleToolLate(e, f, w)
                 \/ SettleToolClosing(e, f, w)
        PROVE  Accounts'
    <2> DEFINE r == RunOf(e)
               run == Elapsed(e, w)
               seal == SealRun(run, "unknown")
               next == [AdmitModel(run) EXCEPT !.close = "none"]
               known == Settled(e, f, 0)
               lost == Settled(e, "unknown", 0)
               none == {}
    <2>1. ToolSettles(e)
      BY <1>1 DEF SettleToolUnknown, SettleToolOpen, SettleToolLate, SettleToolClosing
    <2>2. /\ r \in Runs /\ runs[r] \in Run /\ e \in EffectsOf(r) /\ runs[r].status # "none"
          /\ effects[e].status = "claimed" /\ IsTool(e) /\ ~IsModel(e)
      <3>1. RunOf(e) \in Runs /\ runs[RunOf(e)] \in Run /\ e \in EffectsOf(RunOf(e))
        BY EffParts, RowTypes
      <3> QED BY <2>1, <3>1 DEF AllOK, RunOK, ToolSettles, Live, IsTool, IsModel
    <2>3. /\ w \in Nat /\ w <= runs[r].wall /\ runs[r].steps \in Nat /\ runs[r].calls \in Nat
          /\ e[2] \in 0..MaxModels
      BY <2>2, EffParts, BoundAssumption DEF WallAfter, Run
    <2>4. run \in Run /\ KinRow(run, r)
      BY <2>2, <2>3, ElapsedType DEF Elapsed, KinRow, Run
    <2>5. KinRow(seal, r) /\ KinRow(next, r) BY <2>3, <2>4, AdmitKin
    <2>6. /\ Balanced(run, known, r, Given(r)) /\ Balanced(run, lost, r, Given(r))
          /\ known \in [Eff -> Effect] /\ Local(r, known) /\ Local(r, lost)
          /\ RoomForModel(r) => known[NextModel(r)].status = "none"
      BY <2>2, FactBalanced, ReceiptRows
    <2>7. SameMoney(seal, run) /\ SameMoney(run, run) /\ Admitted(next, run)
      BY <2>4, FreeMoney, AdmitMoney
    <2>8. run.epoch \in Nat /\ run.gen \in Nat BY <2>4 DEF Run
    <2>9. \/ \E released : \/ Commit(r, run, lost, released)
                           \/ Commit(r, seal, lost, released)
                           \/ Commit(r, run, known, released)
          \/ ConsumeSteer(r, e, run, known)
          \/ \E close \in {"final", "budget"} : CloseRun(e, run, known, close)
          \/ /\ Admits(run) /\ RoomForModel(r)
             /\ Commit(r, next, [known EXCEPT ![NextModel(r)] =
                                   ModelRow(run, run.epoch, run.gen, e[2])], none)
      BY <1>1 DEF SettleToolUnknown, SettleToolOpen, SettleToolLate, SettleToolClosing
    <2> HIDE DEF run, seal, next, known, lost, none
    <2>10. CASE \E released : \/ Commit(r, run, lost, released)
                              \/ Commit(r, seal, lost, released)
                              \/ Commit(r, run, known, released)
      BY <2>2, <2>4, <2>5, <2>6, <2>7, <2>10, KeptAccounts
    <2>11. CASE ConsumeSteer(r, e, run, known)
      BY <2>2, <2>4, <2>6, <2>11, ConsumedAccounts
    <2>12. CASE \E close \in {"final", "budget"} : CloseRun(e, run, known, close)
      BY <2>2, <2>4, <2>6, <2>12, ClosedAccounts
    <2>13. CASE /\ Admits(run) /\ RoomForModel(r)
                /\ Commit(r, next, [known EXCEPT ![NextModel(r)] =
                                   ModelRow(run, run.epoch, run.gen, e[2])], none)
      <3> HIDE DEF r
      <3> QED BY <2>2, <2>3, <2>4, <2>5, <2>6, <2>7, <2>8, <2>13, AdmittedAccounts
    <2> QED BY <2>9, <2>10, <2>11, <2>12, <2>13
  <1> QED BY <1>1 DEF ToolSettlement, Fact

\* A batch is paid for when it is published.
LEMMA BatchAccounts ==
  ASSUME TypeOK, TypeOK', AllOK, Lineage, Kinship, Kinship', Accounts,
         NEW e \in Eff, NEW u \in Usages, NEW w \in WallAfter(e), ModelSettlesNow(e, u),
         NEW n \in 1..MaxTools, NEW batch, n <= Paid(e, u, w).calls,
         SettleModelTools(e, u, w, n, batch)
  PROVE  Accounts'
  <1> DEFINE r == RunOf(e)
             run == Paid(e, u, w)
             rows == Settled(e, "succeeded", u)
             next == [run EXCEPT !.calls = @ - n]
             later == [x \in Eff |-> IF ModelOf(x) = e /\ x[3] \in 1..n
                                     THEN ToolRow(run, batch[x[3]]) ELSE rows[x]]
             none == {}
  <1>1. ModelSettles(e) /\ Trusted(e, u) /\ IsModel(e) /\ effects[e].status = "claimed"
    BY DEF ModelSettlesNow, ModelSettles
  <1>2. r \in Runs /\ runs[r].status # "none" /\ run \in Run /\ KinRow(run, r) /\ e \in EffectsOf(r)
    BY <1>1, PaidKin, EffParts
  <1>3. "succeeded" \in Fact /\ u \in Nat BY BoundAssumption DEF Fact
  <1>4. Balanced(run, rows, r, Given(r)) BY <1>1, <1>3, PaidBalanced
  <1>5. rows \in [Eff -> Effect] /\ Local(r, rows) BY <1>1, <1>3, ReceiptRows
  <1>6. \A x \in Eff : ModelOf(x) = e /\ x[3] \in 1..n => rows[x].status = "none"
    <2> SUFFICES ASSUME NEW x \in Eff, ModelOf(x) = e, x[3] \in 1..n
                 PROVE  rows[x].status = "none"
      OBVIOUS
    <2>1. IsTool(x) /\ x # e BY <1>1 DEF IsTool, IsModel
    <2>2. effects[x].status = "none"
      BY <1>1, <2>1 DEF Lineage, BatchRules, InheritsGeneration
    <2>3. rows[x] = effects[x] BY <1>1, <2>1, SettledRests
    <2> QED BY <2>2, <2>3
  <1>7. Commit(r, next, later, none)
    <2>1. ~(n > run.calls)
      <3>1. run.calls \in Nat /\ n \in Nat BY <1>2, BoundAssumption DEF Run
      <3> HIDE DEF run
      <3>2. n <= run.calls BY DEF run
      <3> QED BY <3>1, <3>2
    <2> QED BY <2>1 DEF SettleModelTools
  <1>8. /\ next.granted = run.granted /\ next.parent = run.parent /\ next.tokens = run.tokens
        /\ next.steps = run.steps /\ next.calls = run.calls - n
        /\ next.status = run.status /\ next.spawnkey = run.spawnkey /\ next.wall = run.wall
    <2> HIDE DEF run
    <2> QED BY <1>2 DEF Run
  <1>9. KinRow(next, r)
    <2>1. n \in Nat /\ run.calls \in Nat /\ runs[r].calls \in Nat
      BY <1>2, RowTypes, BoundAssumption DEF Run
    <2> HIDE DEF run, next, r
    <2> QED BY <1>2, <1>8, <2>1 DEF KinRow
  <1>10. \A x \in Eff :
           IF ModelOf(x) = e /\ x[3] \in 1..n
           THEN later[x].status = "ready" /\ later[x].charge = 0
           ELSE later[x] = rows[x]
    BY DEF ToolRow, NoEffect
  <1> HIDE DEF later, rows, next, run, none
  <1>11. \A x \in EffectsOf(r) :
           IF ModelOf(x) = e /\ x[3] \in 1..n
           THEN rows[x].status = "none" /\ later[x].status = "ready" /\ later[x].charge = 0
           ELSE later[x] = rows[x]
    BY <1>6, <1>10 DEF EffectsOf
  <1>12. Local(r, later)
    <2> SUFFICES ASSUME NEW x \in Eff, RunOf(x) # r PROVE later[x] = effects[x]
      BY DEF Local
    <2>1. ModelOf(x) # e BY DEF ModelOf, RunOf
    <2> QED BY <1>5, <1>10, <2>1 DEF Local
  <1>13. OnlyRun(r) /\ runs'[r] = next /\ effects' = later
    BY <1>2, <1>7, <1>12, CommitFrame DEF Local
  <1>14. later \in [Eff -> Effect] BY <1>13 DEF TypeOK
  <1>15. Given(r) \in Sums BY <1>2, GivenType DEF Accounts
  <1>16. Balanced(next, later, r, Given(r))
    <2> HIDE DEF r
    <2> QED BY <1>1, <1>2, <1>4, <1>5, <1>8, <1>11, <1>14, <1>15, BalancedBatch
  <1>17. KinRow(runs'[r], r) BY <1>9, <1>13
  <1> HIDE DEF r
  <1> QED BY <1>2, <1>13, <1>16, <1>17, AccountsFrame

\* Receipts for model calls keep the accounts.
LEMMA ModelSettlementAccounts ==
  ASSUME TypeOK, TypeOK', AllOK, Lineage, Kinship, Kinship', Accounts, ModelSettlement
  PROVE  Accounts'
  <1>1. ASSUME NEW e \in Eff, NEW w \in WallAfter(e), SettleModelUnknown(e, w)
        PROVE  Accounts'
    <2> DEFINE r == RunOf(e)
               run == Elapsed(e, w)
               seal == SealRun(run, "unknown")
               lost == Settled(e, "unknown", effects[e].reserve)
    <2>1. ModelSettles(e) /\ effects[e].status = "claimed" BY <1>1 DEF SettleModelUnknown, ModelSettles
    <2>2. r \in Runs /\ runs[r].status # "none" /\ run \in Run /\ KinRow(run, r)
      BY <2>1, PaidKin
    <2>3. KinRow(seal, r) BY <2>2, RowTypes, AdmitKin DEF Run
    <2>4. effects[e].reserve \in Nat BY RowTypes DEF Effect
    <2>5. Balanced(run, lost, r, Given(r)) /\ Local(r, lost)
      BY <2>1, <2>2, <2>4, FactBalanced, ReceiptRows
    <2>6. SameMoney(seal, run) /\ SameMoney(run, run) BY <2>2, FreeMoney
    <2>7. \E released : Commit(r, run, lost, released) \/ Commit(r, seal, lost, released)
      BY <1>1 DEF SettleModelUnknown, Elapsed
    <2> HIDE DEF r, run, seal, lost
    <2> QED BY <2>2, <2>3, <2>5, <2>6, <2>7, KeptAccounts
  <1>2. ASSUME NEW e \in Eff, NEW u \in Usages, NEW w \in WallAfter(e),
               ModelSettles(e), Trusted(e, u), NEW f \in Fact
        PROVE  /\ RunOf(e) \in Runs /\ runs[RunOf(e)].status # "none" /\ runs[RunOf(e)].steps \in Nat
               /\ Paid(e, u, w) \in Run /\ KinRow(Paid(e, u, w), RunOf(e))
               /\ Balanced(Paid(e, u, w), Settled(e, f, u), RunOf(e), Given(RunOf(e)))
               /\ Settled(e, f, u) \in [Eff -> Effect] /\ Local(RunOf(e), Settled(e, f, u))
               /\ RoomForModel(RunOf(e)) => Settled(e, f, u)[NextModel(RunOf(e))].status = "none"
               /\ Paid(e, u, w).epoch \in Nat /\ Paid(e, u, w).gen \in Nat
               /\ e[2] \in 0..MaxModels
    <2>1. effects[e].status = "claimed" /\ u \in Nat BY <1>2, BoundAssumption DEF ModelSettles
    <2>2. e[2] \in 0..MaxModels BY EffParts, BoundAssumption
    <2>3. Paid(e, u, w) \in Run BY <1>2, PaidKin
    <2>4. Paid(e, u, w).epoch \in Nat /\ Paid(e, u, w).gen \in Nat BY <2>3 DEF Run
    <2>5. runs[RunOf(e)].steps \in Nat BY EffParts, RowTypes DEF Run
    <2> QED BY <1>2, <2>1, <2>2, <2>3, <2>4, <2>5, PaidKin, PaidBalanced, ReceiptRows
  <1>3. ASSUME NEW e \in Eff, NEW f \in Fact, NEW u \in Usages, NEW w \in WallAfter(e),
               \/ SettleModelCancelLate(e, f, u, w) \/ SettleModelLate(e, f, u, w)
               \/ SettleModelFailure(e, u, w) \/ SettleModelFinal(e, u, w)
               \/ SettleModelInteraction(e, u, w) \/ SettleModelText(e, u, w)
               \/ \E n \in 1..MaxTools : \E batch \in [1..n -> pins[RunOf(e)]] :
                    SettleModelTools(e, u, w, n, batch)
        PROVE  Accounts'
    <2> DEFINE r == RunOf(e)
               run == Paid(e, u, w)
               rows(g) == Settled(e, g, u)
               seal == SealRun(run, "abort")
               next == [AdmitModel(run) EXCEPT !.close = "none"]
               asks == [run EXCEPT !.status = "waiting", !.interaction = e[2],
                                   !.close = "none", !.pending = NoSteer]
               none == {}
    <2>1. ModelSettles(e) /\ Trusted(e, u)
      BY <1>3 DEF SettleModelCancelLate, SettleModelLate, SettleModelFailure, SettleModelFinal,
         SettleModelInteraction, SettleModelText, SettleModelTools, ModelSettlesNow
    <2>2. /\ r \in Runs /\ runs[r].status # "none" /\ runs[r].steps \in Nat
          /\ run \in Run /\ KinRow(run, r) /\ run.epoch \in Nat /\ run.gen \in Nat
          /\ e[2] \in 0..MaxModels
      BY <1>2, <2>1
    <2>3. \A g \in Fact : /\ Balanced(run, rows(g), r, Given(r))
                          /\ rows(g) \in [Eff -> Effect] /\ Local(r, rows(g))
                          /\ RoomForModel(r) => rows(g)[NextModel(r)].status = "none"
      BY <1>2, <2>1
    <2>4. KinRow(seal, r) /\ KinRow(next, r) BY <2>2, AdmitKin
    <2>5. KinRow(asks, r)
      <3> HIDE DEF run, r
      <3> QED BY <2>2 DEF KinRow, Run
    <2>6. SameMoney(run, run) /\ SameMoney(seal, run) /\ SameMoney(asks, run)
          /\ Admitted(next, run)
      BY <2>2, FreeMoney, AdmitMoney
    <2>7. \/ \E g \in Fact : \E released : \/ Commit(r, run, rows(g), released)
                                       \/ Commit(r, seal, rows(g), released)
                                       \/ Commit(r, asks, rows(g), released)
          \/ \E g \in Fact : ConsumeSteer(r, e, run, rows(g))
          \/ \E g \in Fact, close \in {"final", "budget"} : CloseRun(e, run, rows(g), close)
          \/ \E g \in Fact : /\ Admits(run) /\ RoomForModel(r)
                             /\ Commit(r, next, [rows(g) EXCEPT ![NextModel(r)] =
                                         ModelRow(run, run.epoch, run.gen, e[2])], none)
          \/ \E n \in 1..MaxTools : \E batch :
               /\ SettleModelTools(e, u, w, n, batch) /\ ModelSettlesNow(e, u) /\ n <= run.calls
      <3>1. "succeeded" \in Fact /\ "failed" \in Fact BY DEF Fact
      <3>2. CASE SettleModelCancelLate(e, f, u, w) BY <3>2 DEF SettleModelCancelLate
      <3>3. CASE SettleModelLate(e, f, u, w) BY <3>3 DEF SettleModelLate
      <3>4. CASE SettleModelFailure(e, u, w) BY <3>1, <3>4 DEF SettleModelFailure
      <3>5. CASE SettleModelFinal(e, u, w) BY <3>1, <3>5 DEF SettleModelFinal
      <3>6. CASE SettleModelInteraction(e, u, w) BY <3>1, <3>6 DEF SettleModelInteraction
      <3>7. CASE SettleModelText(e, u, w) BY <3>1, <3>7 DEF SettleModelText
      <3>8. ASSUME NEW n \in 1..MaxTools, NEW batch, SettleModelTools(e, u, w, n, batch)
            PROVE  \/ CloseRun(e, run, rows("succeeded"), "budget")
                   \/ ModelSettlesNow(e, u) /\ n <= run.calls
        <4>1. n \in Nat /\ run.calls \in Nat BY <2>2, BoundAssumption DEF Run
        <4>2. CASE n > run.calls BY <3>8, <4>2 DEF SettleModelTools
        <4>3. CASE ~(n > run.calls)
          <5>1. ModelSettlesNow(e, u) BY <3>8 DEF SettleModelTools
          <5> HIDE DEF run
          <5> QED BY <4>1, <4>3, <5>1
        <4> QED BY <4>2, <4>3
      <3> HIDE DEF r, run, rows, seal, next, asks, none
      <3> QED BY <1>3, <3>1, <3>2, <3>3, <3>4, <3>5, <3>6, <3>7, <3>8
    <2> HIDE DEF rows, run, seal, next, asks, none
    <2>8. CASE \E g \in Fact : \E released : \/ Commit(r, run, rows(g), released)
                                         \/ Commit(r, seal, rows(g), released)
                                         \/ Commit(r, asks, rows(g), released)
      <3> HIDE DEF r
      <3> QED BY <2>2, <2>3, <2>4, <2>5, <2>6, <2>8, KeptAccounts
    <2>9. CASE \E g \in Fact : ConsumeSteer(r, e, run, rows(g))
      BY <2>2, <2>3, <2>9, ConsumedAccounts
    <2>10. CASE \E g \in Fact, close \in {"final", "budget"} : CloseRun(e, run, rows(g), close)
      BY <2>2, <2>3, <2>10, ClosedAccounts
    <2>11. CASE \E g \in Fact : /\ Admits(run) /\ RoomForModel(r)
                             /\ Commit(r, next, [rows(g) EXCEPT ![NextModel(r)] =
                                         ModelRow(run, run.epoch, run.gen, e[2])], none)
      <3> HIDE DEF r
      <3> QED BY <2>2, <2>3, <2>4, <2>6, <2>11, AdmittedAccounts
    <2>12. CASE \E n \in 1..MaxTools : \E batch :
               /\ SettleModelTools(e, u, w, n, batch) /\ ModelSettlesNow(e, u) /\ n <= run.calls
      BY <2>12, BatchAccounts DEF run
    <2> QED BY <2>7, <2>8, <2>9, <2>10, <2>11, <2>12
  <1> QED BY <1>1, <1>3 DEF ModelSettlement, Fact

-----------------------------------------------------------------------------
(* Accounts: births *)

NoneGiven == [tokens |-> 0, steps |-> 0, calls |-> 0]

\* Nothing adds up to nothing.
LEMMA TotalEmpty ==
  ASSUME NEW f, DOMAIN f = {}
  PROVE  Total(f) = 0
  <1>1. UNION {{x} \X (1..f[x]) : x \in DOMAIN f} = {} OBVIOUS
  <1> QED BY <1>1, FS_EmptySet DEF Total

\* Nobody is a child of a run that was not started, and that run's rows are empty.
LEMMA AbsentRun ==
  ASSUME TypeOK, AllOK, Kinship, NEW r \in Runs, runs[r].status = "none"
  PROVE  /\ Given(r) = NoneGiven /\ \A c \in Runs : runs[c].parent # r
         /\ \A x \in EffectsOf(r) : effects[x].status = "none"
  <1>1. r # None BY RunAssumption
  <1>2. \A c \in Runs : runs[c].parent # r BY <1>1 DEF Kinship
  <1>3. SpawnedBy(r) = {} BY <1>2 DEF SpawnedBy
  <1>4. \A x \in EffectsOf(r) : effects[x].status = "none"
    <2> SUFFICES ASSUME NEW x \in EffectsOf(r), effects[x].status # "none" PROVE FALSE
      OBVIOUS
    <2>1. RunOK(r) BY DEF AllOK
    <2>2. runs[r].models = 0 /\ x[2] <= runs[r].models BY <2>1 DEF RunOK
    <2>3. x[2] \in 1..MaxModels BY EffParts DEF EffectsOf
    <2> QED BY <2>2, <2>3
  <1> DEFINE tokens == [c \in SpawnedBy(r) |-> runs[c].granted.tokens]
             steps == [c \in SpawnedBy(r) |-> runs[c].granted.steps]
             calls == [c \in SpawnedBy(r) |-> runs[c].granted.calls]
  <1>5. DOMAIN tokens = {} /\ DOMAIN steps = {} /\ DOMAIN calls = {} BY <1>3
  <1>6. Given(r) = [tokens |-> Total(tokens), steps |-> Total(steps), calls |-> Total(calls)]
    BY DEF Given
  <1> HIDE DEF tokens, steps, calls
  <1>7. Total(tokens) = 0 /\ Total(steps) = 0 /\ Total(calls) = 0 BY <1>5, TotalEmpty
  <1> QED BY <1>2, <1>4, <1>6, <1>7 DEF NoneGiven

\* A run that has spent nothing balances.
LEMMA BalancedEmpty ==
  ASSUME NEW r \in Runs, NEW run \in Run, NEW rows,
         \A x \in EffectsOf(r) : rows[x].status = "none",
         run.granted.tokens > 0 => run.tokens = run.granted.tokens,
         run.granted.steps = run.steps - (IF run.parent = None THEN 0 ELSE 1),
         run.granted.calls = run.calls
  PROVE  Balanced(run, rows, r, NoneGiven)
  <1>1. Models(rows, r) = {} /\ Tools(rows, r) = {} BY DEF Models, Tools
  <1>2. Held(rows, r) = 0
    <2>1. DOMAIN [e \in Models(rows, r) |-> Cost(rows[e])] = {} BY <1>1
    <2> QED BY <2>1, TotalEmpty DEF Held
  <1>3. Cardinality(Models(rows, r)) = 0 /\ Cardinality(Tools(rows, r)) = 0
    BY <1>1, FS_EmptySet
  <1>4. /\ run.steps \in Nat /\ run.calls \in Nat /\ run.granted.steps \in Nat
        /\ run.granted.calls \in Nat
    BY DEF Run, Budget
  <1>5. run.granted.tokens > 0 => run.tokens \in Nat
    <2>1. run.granted.tokens \in Nat \cup {Unlimited} BY DEF Run, Budget
    <2> QED BY <2>1 DEF Unlimited
  <1>6. \A x \in EffectsOf(r) : ~Queued(rows[x].status) /\ rows[x].status # "ready"
    BY DEF Queued
  <1>7. run.granted.tokens > 0 => run.granted.tokens = run.tokens + Held(rows, r) + 0
    BY <1>2, <1>5
  <1>8. /\ run.granted.steps = run.steps + Cardinality(Models(rows, r))
                         - (IF run.parent = None THEN 0 ELSE 1) + 0
        /\ run.granted.calls = run.calls + Cardinality(Tools(rows, r)) + 0
    BY <1>3, <1>4
  <1> HIDE DEF Models, Tools, Held
  <1> QED BY <1>5, <1>6, <1>7, <1>8 DEF Balanced, NoneGiven

\* The first model call of a new run: a root pays a step for it, a child does not.
LEMMA BalancedBirth ==
  ASSUME NEW r \in Runs, NEW rows \in [Eff -> Effect],
         \A x \in EffectsOf(r) : rows[x].status = "none",
         NEW b \in Budget, NEW run \in Run, run.granted = b,
         run.tokens = Debit(b.tokens, ModelReserve(b.tokens)),
         run.calls = b.calls, run.steps = IF run.parent = None THEN b.steps - 1 ELSE b.steps,
         NEW later \in [Eff -> Effect], later[<<r, 1, 0>>].status = "ready",
         later[<<r, 1, 0>>].reserve = ModelReserve(b.tokens), later[<<r, 1, 0>>].charge = 0,
         \A x \in EffectsOf(r) \ {<<r, 1, 0>>} : later[x] = rows[x]
  PROVE  Balanced(run, later, r, NoneGiven)
  <1> DEFINE n == <<r, 1, 0>>
             full == [run EXCEPT !.tokens = b.tokens, !.steps = run.steps + 1]
  <1>1. n \in EffectsOf(r) /\ IsModel(n)
    <2>1. 1 \in 1..MaxModels /\ 0 \in 0..MaxTools BY BoundAssumption
    <2> QED BY <2>1 DEF EffectsOf, Eff, RunOf, IsModel
  <1>2. /\ b.tokens \in Nat \cup {Unlimited} /\ b.steps \in Nat /\ run.steps \in Nat
    BY DEF Budget, Run
  <1>3. /\ full \in Run /\ full.tokens = b.tokens /\ full.steps = run.steps + 1
        /\ full.granted = b /\ full.parent = run.parent /\ full.calls = run.calls
    <2> DEFINE more == run.steps + 1
               tokens == b.tokens
    <2>1. more \in Nat /\ tokens \in Nat \cup {Unlimited} BY <1>2
    <2> HIDE DEF more, tokens
    <2>2. [run EXCEPT !.tokens = tokens, !.steps = more] \in Run BY <2>1 DEF Run
    <2>3. /\ [run EXCEPT !.tokens = tokens, !.steps = more].tokens = tokens
          /\ [run EXCEPT !.tokens = tokens, !.steps = more].steps = more
          /\ [run EXCEPT !.tokens = tokens, !.steps = more].granted = run.granted
          /\ [run EXCEPT !.tokens = tokens, !.steps = more].parent = run.parent
          /\ [run EXCEPT !.tokens = tokens, !.steps = more].calls = run.calls
      BY DEF Run
    <2> QED BY <2>2, <2>3 DEF more, tokens
  <1> HIDE DEF full, n
  <1>4. Balanced(full, rows, r, NoneGiven)
    <2>1. b.steps = full.steps - (IF full.parent = None THEN 0 ELSE 1) BY <1>2, <1>3
    <2> QED BY <1>3, <2>1, BalancedEmpty
  <1>5. NoneGiven \in Sums BY DEF NoneGiven, Sums
  <1>6. full.granted.tokens > 0 => full.tokens # 0 BY <1>2, <1>3
  <1>7. run.steps = full.steps - 1 BY <1>2, <1>3
  <1>8. rows[n].status = "none" BY <1>1
  <1>9. /\ later[n].status = "ready" /\ later[n].reserve = ModelReserve(full.tokens)
        /\ later[n].charge = 0 /\ \A x \in EffectsOf(r) \ {n} : later[x] = rows[x]
    BY <1>3 DEF n
  <1>10. run.granted = full.granted /\ run.parent = full.parent /\ run.calls = full.calls
         /\ run.tokens = Debit(full.tokens, ModelReserve(full.tokens))
    BY <1>3
  <1> QED BY <1>1, <1>3, <1>4, <1>5, <1>6, <1>7, <1>8, <1>9, <1>10, BalancedAdmitted

\* A grant is taken from what the run had left.
LEMMA BalancedGrant ==
  ASSUME NEW r \in Runs, NEW given \in Sums, NEW run \in Run, NEW rows \in [Eff -> Effect],
         Balanced(run, rows, r, given), NEW g \in Budget, Fits(g, run),
         NEW more \in Sums, more.steps = given.steps + g.steps, more.calls = given.calls + g.calls,
         g.tokens \in Nat => more.tokens = given.tokens + g.tokens,
         NEW next, next.granted = run.granted, next.parent = run.parent,
         next.steps = run.steps - g.steps, next.calls = run.calls - g.calls,
         next.tokens = Debit(run.tokens, g.tokens)
  PROVE  Balanced(next, rows, r, more)
  <1>1. /\ Held(rows, r) \in Nat /\ Cardinality(Models(rows, r)) \in Nat
        /\ Cardinality(Tools(rows, r)) \in Nat
    BY HeldType
  <1>2. /\ g.steps \in Nat /\ g.calls \in Nat /\ g.tokens \in Nat \cup {Unlimited}
        /\ run.steps \in Nat /\ run.calls \in Nat
        /\ given.tokens \in Nat /\ given.steps \in Nat /\ given.calls \in Nat
    BY DEF Budget, Run, Sums
  <1>3. ASSUME run.granted.tokens > 0
        PROVE  /\ next.tokens \in Nat
               /\ run.granted.tokens = next.tokens + Held(rows, r) + more.tokens
    <2>1. /\ run.tokens \in Nat
          /\ run.granted.tokens = run.tokens + Held(rows, r) + given.tokens
      BY <1>3 DEF Balanced
    <2>2. g.tokens \in Nat /\ g.tokens <= run.tokens BY <1>2, <2>1 DEF Fits, Unlimited
    <2>3. next.tokens = run.tokens - g.tokens BY <2>1 DEF Debit, Unlimited
    <2>4. more.tokens = given.tokens + g.tokens BY <2>2
    <2> QED BY <1>1, <1>2, <2>1, <2>2, <2>3, <2>4
  <1>4. /\ run.granted.steps = run.steps + Cardinality(Models(rows, r))
                               - (IF run.parent = None THEN 0 ELSE 1) + given.steps
        /\ run.granted.calls = run.calls + Cardinality(Tools(rows, r)) + given.calls
    BY DEF Balanced
  <1>5. /\ run.granted.steps = next.steps + Cardinality(Models(rows, r))
                               - (IF run.parent = None THEN 0 ELSE 1) + more.steps
        /\ run.granted.calls = next.calls + Cardinality(Tools(rows, r)) + more.calls
    BY <1>1, <1>2, <1>4
  <1>6. /\ \A e \in EffectsOf(r) : rows[e].status = "ready" => rows[e].charge = 0
        /\ run.granted.tokens > 0 =>
             \A e \in EffectsOf(r) : IsModel(e) /\ Queued(rows[e].status) => rows[e].reserve >= 1
    BY DEF Balanced
  <1> QED BY <1>3, <1>5, <1>6 DEF Balanced

\* The other runs stay who they are.
KinKept(c) ==
  \A q \in Runs \ {c} : /\ runs'[q].parent = runs[q].parent /\ runs'[q].granted = runs[q].granted
                        /\ runs'[q].status = "none" <=> runs[q].status = "none"

\* A run with one child more has given the child's grant.
LEMMA GivenJoined ==
  ASSUME TypeOK, TypeOK', IsFiniteSet({q \in Runs : runs[q].parent # None}),
         NEW r \in Runs, NEW c \in Runs, r # c, runs[c].status = "none", KinKept(c),
         NEW g \in Budget, runs'[c].granted = g, runs'[c].parent = r, runs'[c].status # "none"
  PROVE  /\ Given(r)' \in Sums
         /\ Given(r)'.steps = Given(r).steps + g.steps
         /\ Given(r)'.calls = Given(r).calls + g.calls
         /\ g.tokens \in Nat => Given(r)'.tokens = Given(r).tokens + g.tokens
  <1> DEFINE S == SpawnedBy(r)
             T == SpawnedBy(r)'
             later == runs'
             tokens == [q \in S |-> runs[q].granted.tokens]
             steps == [q \in S |-> runs[q].granted.steps]
             calls == [q \in S |-> runs[q].granted.calls]
             tokensT == [q \in T |-> later[q].granted.tokens]
             stepsT == [q \in T |-> later[q].granted.steps]
             callsT == [q \in T |-> later[q].granted.calls]
  <1>1. T = S \cup {c} /\ c \notin S
    BY DEF SpawnedBy, KinKept
  <1>2. IsFiniteSet(S) /\ \A q \in S : runs[q].granted \in Budget BY GivenType
  <1>3. \A q \in T : later[q].granted \in Budget BY DEF SpawnedBy, TypeOK, Run
  <1>4. \A q \in S : later[q].granted = runs[q].granted
    BY <1>1 DEF SpawnedBy, KinKept
  <1>5. later[c].granted = g OBVIOUS
  <1>6. g.steps \in Nat /\ g.calls \in Nat /\ g.tokens \in Int BY DEF Budget, Unlimited
  <1>7. Given(r)' = [tokens |-> Total(tokensT), steps |-> Total(stepsT), calls |-> Total(callsT)]
    BY DEF Given, Total
  <1>8. Given(r) = [tokens |-> Total(tokens), steps |-> Total(steps), calls |-> Total(calls)]
    BY DEF Given
  <1> HIDE DEF T, S, later
  <1>9. /\ tokens \in [S -> Int] /\ steps \in [S -> Int] /\ calls \in [S -> Int]
        /\ tokensT \in [T -> Int] /\ stepsT \in [T -> Int] /\ callsT \in [T -> Int]
    BY <1>2, <1>3 DEF Budget, Unlimited
  <1>10. /\ tokensT[c] = g.tokens /\ stepsT[c] = g.steps /\ callsT[c] = g.calls
         /\ \A q \in S : /\ tokensT[q] = tokens[q] /\ stepsT[q] = steps[q]
                         /\ callsT[q] = calls[q]
    BY <1>1, <1>4, <1>5
  <1>11. IsFiniteSet(T) BY <1>1, <1>2, FS_AddElement
  <1> HIDE DEF tokens, steps, calls, tokensT, stepsT, callsT
  <1>12. /\ Total(tokensT) \in Nat /\ Total(stepsT) \in Nat /\ Total(callsT) \in Nat
    BY <1>9, <1>11, UnitsFinite
  <1>13. Total(stepsT) = Total(steps) + stepsT[c]
    <2>1. stepsT[c] \in Nat /\ \A q \in S : stepsT[q] = steps[q] BY <1>6, <1>10
    <2>2. IsFiniteSet(S) /\ steps \in [S -> Int] /\ stepsT \in [T -> Int] BY <1>2, <1>9
    <2> QED BY <1>1, <2>1, <2>2, TotalJoin
  <1>14. Total(callsT) = Total(calls) + callsT[c]
    <2>1. callsT[c] \in Nat /\ \A q \in S : callsT[q] = calls[q] BY <1>6, <1>10
    <2>2. IsFiniteSet(S) /\ calls \in [S -> Int] /\ callsT \in [T -> Int] BY <1>2, <1>9
    <2> QED BY <1>1, <2>1, <2>2, TotalJoin
  <1>15. ASSUME g.tokens \in Nat PROVE Total(tokensT) = Total(tokens) + tokensT[c]
    <2>1. tokensT[c] \in Nat /\ \A q \in S : tokensT[q] = tokens[q] BY <1>10, <1>15
    <2>2. IsFiniteSet(S) /\ tokens \in [S -> Int] /\ tokensT \in [T -> Int] BY <1>2, <1>9
    <2> QED BY <1>1, <2>1, <2>2, TotalJoin
  <1>16. Given(r)' \in Sums BY <1>7, <1>12 DEF Sums
  <1> QED BY <1>7, <1>8, <1>10, <1>13, <1>14, <1>15, <1>16

\* A step that starts one run has to balance that run and the one it settles.
LEMMA BirthAccounts ==
  ASSUME TypeOK, TypeOK', AllOK, Kinship, Kinship', Accounts,
         NEW c \in Runs, runs[c].status = "none", KinKept(c),
         NEW run, runs'[c] = run, run.status # "none", run.parent # c,
         NEW rows, effects' = rows, Balanced(run, rows, c, NoneGiven),
         \A q \in Runs \ {c} :
           \/ /\ run.parent # q /\ runs'[q] = runs[q]
              /\ \A x \in EffectsOf(q) : rows[x] = effects[x]
           \/ runs[q].status # "none" /\ Balanced(runs'[q], rows, q, Given(q)')
  PROVE  Accounts'
  <1>1. ASSUME NEW q \in Runs \ {c}
        PROVE  IF runs'[q].status = "none" THEN runs'[q].granted.tokens = 0
               ELSE Balanced(runs'[q], effects', q, Given(q)')
    <2>1. CASE runs[q].status # "none" /\ Balanced(runs'[q], rows, q, Given(q)')
      <3>1. Balanced(runs'[q], effects', q, Given(q)') BY Zenon, <2>1
      <3>2. runs'[q].status # "none" BY <2>1 DEF KinKept
      <3> QED BY <3>1, <3>2
    <2>2. CASE /\ run.parent # q /\ runs'[q] = runs[q]
               /\ \A x \in EffectsOf(q) : rows[x] = effects[x]
      <3>1. \A p \in Runs : runs[p].parent = q \/ runs'[p].parent = q =>
              runs'[p].parent = runs[p].parent /\ runs'[p].granted = runs[p].granted
        <4> SUFFICES ASSUME NEW p \in Runs, runs[p].parent = q \/ runs'[p].parent = q
                     PROVE  runs'[p].parent = runs[p].parent /\ runs'[p].granted = runs[p].granted
          OBVIOUS
        <4>1. q # None BY RunAssumption
        <4>2. p # c BY <2>2, <4>1 DEF Kinship
        <4> QED BY <4>2 DEF KinKept
      <3>2. Given(q)' = Given(q) BY <3>1, GivenKept
      <3>3. CASE runs[q].status = "none"
        BY <2>2, <3>3 DEF Accounts
      <3>4. CASE runs[q].status # "none"
        <4>1. Balanced(runs[q], effects, q, Given(q)) BY <3>4 DEF Accounts
        <4>2. \A x \in EffectsOf(q) : effects'[x] = effects[x] BY <2>2
        <4>3. Balanced(runs'[q], effects', q, Given(q)') BY <2>2, <3>2, <4>1, <4>2, BalanceKept
        <4>4. runs'[q].status # "none" BY <2>2, <3>4
        <4> QED BY <4>3, <4>4
      <3> QED BY <3>3, <3>4
    <2> QED BY <2>1, <2>2
  <1>2. Balanced(runs'[c], effects', c, Given(c)')
    <2>1. \A p \in Runs : runs[p].parent # c BY AbsentRun
    <2>2. \A p \in Runs : runs'[p].parent # c BY <2>1 DEF KinKept
    <2>3. Given(c)' = Given(c) BY <2>1, <2>2, GivenKept
    <2>4. Given(c) = NoneGiven BY AbsentRun
    <2> QED BY Zenon, <2>3, <2>4
  <1>3. \A q \in Runs : IF runs'[q].status = "none" THEN runs'[q].granted.tokens = 0
                        ELSE Balanced(runs'[q], effects', q, Given(q)')
    BY <1>1, <1>2
  <1>4. IsFiniteSet({q \in Runs : runs'[q].parent # None})
    <2> DEFINE old == {q \in Runs : runs[q].parent # None}
               new == {q \in Runs : runs'[q].parent # None}
    <2>1. new \in SUBSET (old \cup {c}) BY DEF KinKept
    <2>2. IsFiniteSet(old) BY DEF Accounts
    <2> HIDE DEF old
    <2>3. IsFiniteSet(old \cup {c}) BY <2>2, FS_AddElement
    <2> QED BY <2>1, <2>3, FS_Subset
  <1>5. \A q \in Runs : Balanced(runs'[q], effects', q, Given(q)')
                          <=> Balanced(runs[q], effects, q, Given(q))'
    BY DEF Balanced, Held, Models, Tools, Total, EffectsOf, Eff, RunOf, IsModel, IsTool, Cost, Queued
  <1> QED BY <1>3, <1>4, <1>5 DEF Accounts

\* Spawning: the grant a child starts with is what its parent has less.
LEMMA SpawnChildAccounts ==
  ASSUME TypeOK, TypeOK', AllOK, Kinship, Kinship', Accounts,
         NEW e \in Eff, NEW u \in Usages, NEW key \in SpawnKeys, NEW g \in Grants,
         NEW c \in Runs, NEW owned, NEW w \in WallAfter(e), SpawnChild(e, u, w, key, g, c, owned)
  PROVE  Accounts'
  <1> DEFINE r == RunOf(e)
             run == Paid(e, u, w)
             rows == Settled(e, "succeeded", u)
             n == <<c, 1, 0>>
             row == ModelRow(g, 0, 0, 0)
             child == [NoRun EXCEPT !.status = "running", !.steps = g.steps,
                             !.calls = g.calls, !.wall = g.wall, !.models = 1,
                             !.tokens = Debit(g.tokens, ModelReserve(g.tokens)),
                             !.parent = r, !.spawnkey = key, !.granted = g]
             left == [run EXCEPT !.close = "none", !.interaction = 0,
                             !.steps = @ - g.steps, !.calls = @ - g.calls,
                             !.wall = @ - g.wall, !.tokens = Debit(@, g.tokens)]
             later == [rows EXCEPT ![n] = row]
  <1>1. /\ ModelSettles(e) /\ Trusted(e, u) /\ effects[e].status = "claimed"
        /\ runs[r].status = "running" /\ runs[c].status = "none" /\ Fits(g, run)
        /\ runs' = [runs EXCEPT ![r] = left, ![c] = child] /\ effects' = later
    BY DEF SpawnChild, ModelSettlesNow, ModelSettles
  <1>2. r \in Runs /\ run \in Run /\ KinRow(run, r) /\ r # c /\ r # None
    BY <1>1, PaidKin, RunAssumption
  <1>3. "succeeded" \in Fact /\ u \in Nat /\ g \in Budget
    BY BoundAssumption, BudgetAssumption DEF Fact
  <1>4. Balanced(run, rows, r, Given(r)) BY <1>1, <1>3, PaidBalanced
  <1>5. rows \in [Eff -> Effect] /\ Local(r, rows) BY <1>1, <1>3, ReceiptRows
  <1>6. n \in Eff /\ n \in EffectsOf(c) /\ RunOf(n) = c
    <2>1. 1 \in 1..MaxModels /\ 0 \in 0..MaxTools BY BoundAssumption
    <2> QED BY <2>1 DEF EffectsOf, Eff, RunOf
  <1>7. row.status = "ready" /\ row.reserve = ModelReserve(g.tokens) /\ row.charge = 0
    BY DEF ModelRow, NoEffect
  <1>8. /\ child.status = "running" /\ child.parent = r /\ child.granted = g
        /\ child.steps = g.steps /\ child.calls = g.calls
        /\ child.tokens = Debit(g.tokens, ModelReserve(g.tokens))
    BY DEF NoRun
  <1>9. /\ left.granted = run.granted /\ left.parent = run.parent /\ left.status = run.status
        /\ left.steps = run.steps - g.steps /\ left.calls = run.calls - g.calls
        /\ left.tokens = Debit(run.tokens, g.tokens)
    <2> HIDE DEF run
    <2> QED BY <1>2 DEF Run
  <1>10. /\ runs'[r] = left /\ runs'[c] = child
         /\ \A q \in Runs \ {r, c} : runs'[q] = runs[q]
    <2> HIDE DEF left, child, r
    <2> QED BY <1>1, <1>2 DEF TypeOK
  <1>11. later[n] = row /\ \A x \in Eff \ {n} : later[x] = rows[x]
    <2> HIDE DEF rows, row, n
    <2> QED BY <1>5, <1>6
  <1> HIDE DEF left, child, run, rows, row, later, n
  <1>12. later \in [Eff -> Effect] /\ child \in Run
    BY <1>1, <1>10 DEF TypeOK
  <1>13. /\ \A x \in EffectsOf(r) : later[x] = rows[x]
         /\ \A x \in EffectsOf(c) : rows[x].status = "none"
         /\ \A x \in EffectsOf(c) \ {n} : later[x] = rows[x]
    <2>1. \A x \in EffectsOf(r) : x \in Eff \ {n} BY <1>2, <1>6 DEF EffectsOf
    <2>2. \A x \in EffectsOf(c) : rows[x] = effects[x] BY <1>2, <1>5 DEF EffectsOf, Local
    <2>3. \A x \in EffectsOf(c) : effects[x].status = "none" BY <1>1, AbsentRun
    <2> QED BY <1>11, <2>1, <2>2, <2>3 DEF EffectsOf
  <1>14. KinKept(c)
    <2>1. /\ left.parent = runs[r].parent /\ left.granted = runs[r].granted
          /\ left.status # "none" /\ runs[r].status # "none"
      BY <1>1, <1>2, <1>9 DEF KinRow
    <2> HIDE DEF r
    <2> QED BY <1>10, <2>1 DEF KinKept
  <1> HIDE DEF r
  <1>15. /\ Given(r)' \in Sums
         /\ Given(r)'.steps = Given(r).steps + g.steps
         /\ Given(r)'.calls = Given(r).calls + g.calls
         /\ g.tokens \in Nat => Given(r)'.tokens = Given(r).tokens + g.tokens
    <2>1. IsFiniteSet({q \in Runs : runs[q].parent # None}) BY DEF Accounts
    <2>2. runs'[c].granted = g /\ runs'[c].parent = r /\ runs'[c].status # "none"
      BY <1>8, <1>10
    <2> QED BY <1>1, <1>2, <1>3, <1>14, <2>1, <2>2, GivenJoined
  <1>16. Balanced(left, later, r, Given(r)')
    <2> DEFINE more == Given(r)'
    <2>1. /\ more \in Sums /\ more.steps = Given(r).steps + g.steps
          /\ more.calls = Given(r).calls + g.calls
          /\ g.tokens \in Nat => more.tokens = Given(r).tokens + g.tokens
      BY <1>15
    <2>2. Given(r) \in Sums BY <1>2, GivenType DEF Accounts
    <2> HIDE DEF more
    <2>3. Balanced(left, rows, r, more)
      BY <1>1, <1>2, <1>3, <1>4, <1>5, <1>9, <2>1, <2>2, BalancedGrant
    <2>4. \A x \in EffectsOf(r) : /\ SameCost(rows[x], later[x])
                                  /\ IsModel(x) => Cost(later[x]) = Cost(rows[x])
      BY <1>13 DEF SameCost
    <2>5. SameMoney(left, left) BY DEF SameMoney
    <2>6. Balanced(left, later, r, more) BY <2>3, <2>4, <2>5, BalancedSame
    <2> QED BY <2>6 DEF more
  <1>17. Balanced(child, later, c, NoneGiven)
    <2>1. child.steps = IF child.parent = None THEN g.steps - 1 ELSE g.steps BY <1>2, <1>8
    <2>2. /\ later[n].status = "ready" /\ later[n].reserve = ModelReserve(g.tokens)
          /\ later[n].charge = 0
      BY <1>7, <1>11
    <2> QED BY <1>3, <1>5, <1>8, <1>12, <1>13, <2>1, <2>2, BalancedBirth DEF n
  <1>18. \A q \in Runs \ {c} :
           \/ /\ child.parent # q /\ runs'[q] = runs[q]
              /\ \A x \in EffectsOf(q) : later[x] = effects[x]
           \/ runs[q].status # "none" /\ Balanced(runs'[q], later, q, Given(q)')
    <2> SUFFICES ASSUME NEW q \in Runs \ {c}
                 PROVE  \/ /\ child.parent # q /\ runs'[q] = runs[q]
                           /\ \A x \in EffectsOf(q) : later[x] = effects[x]
                        \/ runs[q].status # "none" /\ Balanced(runs'[q], later, q, Given(q)')
      OBVIOUS
    <2>1. CASE q = r
      <3>1. runs'[r] = left /\ runs[r].status # "none" BY <1>1, <1>10
      <3>2. Balanced(runs'[r], later, r, Given(r)') BY Zenon, <1>16, <3>1
      <3> QED BY Zenon, <2>1, <3>1, <3>2
    <2>2. CASE q # r
      <3>1. child.parent # q /\ runs'[q] = runs[q] BY <1>8, <1>10, <2>2
      <3>2. \A x \in EffectsOf(q) : x \in Eff \ {n} /\ RunOf(x) # r
        BY <1>6, <2>2 DEF EffectsOf
      <3>3. \A x \in EffectsOf(q) : later[x] = effects[x]
        BY <1>5, <1>11, <3>2 DEF Local
      <3> QED BY <3>1, <3>3
    <2> QED BY <2>1, <2>2
  <1>19. runs'[c] = child /\ child.status # "none" /\ child.parent # c /\ effects' = later
    BY <1>1, <1>2, <1>8, <1>10
  <1> QED BY <1>1, <1>14, <1>17, <1>18, <1>19, BirthAccounts

\* Spawning keeps the accounts, and repeating it costs nothing but the call.
LEMMA SpawningAccounts ==
  ASSUME TypeOK, TypeOK', AllOK, Kinship, Kinship', Accounts, Spawning
  PROVE  Accounts'
  <1>1. ASSUME NEW e \in Eff, NEW u \in Usages, NEW key \in SpawnKeys, NEW g \in Grants,
               NEW w \in WallAfter(e), SpawnReplay(e, u, w, key, g)
        PROVE  Accounts'
    <2> DEFINE r == RunOf(e)
               run == Paid(e, u, w)
               rows == Settled(e, "succeeded", u)
               next == [run EXCEPT !.close = "none", !.interaction = 0]
               none == {}
    <2>1. ModelSettles(e) /\ Trusted(e, u) /\ effects[e].status = "claimed"
      BY <1>1 DEF SpawnReplay, ModelSettlesNow, ModelSettles
    <2>2. r \in Runs /\ runs[r].status # "none" /\ run \in Run /\ KinRow(run, r)
      BY <2>1, PaidKin
    <2>3. "succeeded" \in Fact /\ u \in Nat BY BoundAssumption DEF Fact
    <2>4. Balanced(run, rows, r, Given(r)) /\ Local(r, rows)
      BY <2>1, <2>3, PaidBalanced, ReceiptRows
    <2>5. Commit(r, next, rows, none) BY <1>1 DEF SpawnReplay
    <2>6. KinRow(next, r)
      <3> HIDE DEF run
      <3> QED BY <2>2 DEF KinRow, Run
    <2>7. SameMoney(next, run) BY <2>2, FreeMoney
    <2> HIDE DEF r, run, rows, next, none
    <2> QED BY <2>2, <2>4, <2>5, <2>6, <2>7, KeptAccounts
  <1> QED BY <1>1, SpawnChildAccounts DEF Spawning

-----------------------------------------------------------------------------
(* Accounts: commands, workers and sweeps *)

\* Commands keep the accounts: what they archive is given back, what they admit is paid.
LEMMA UserCommandAccounts ==
  ASSUME TypeOK, TypeOK', AllOK, Kinship, Kinship', Accounts, UserCommand
  PROVE  Accounts'
  <1>1. ASSUME NEW r \in Runs, NEW b \in Budgets, NEW required \in SUBSET Keys,
               Start(r, b, required)
        PROVE  Accounts'
    <2> DEFINE run == AdmitModel(Started(b))
               row == ModelRow(Started(b), 1, 1, 0)
               n == <<r, 1, 0>>
               later == [effects EXCEPT ![n] = row]
    <2>1. /\ runs[r].status = "none" /\ runs' = [runs EXCEPT ![r] = run] /\ effects' = later
      BY <1>1 DEF Start
    <2>2. b \in Budget BY BudgetAssumption
    <2>3. /\ run.status = "running" /\ run.parent = None /\ run.granted = b
          /\ run.steps = b.steps - 1 /\ run.calls = b.calls
          /\ run.tokens = Debit(b.tokens, ModelReserve(b.tokens))
      BY DEF AdmitModel, Started, NoRun
    <2>4. row.status = "ready" /\ row.reserve = ModelReserve(b.tokens) /\ row.charge = 0
      BY DEF ModelRow, NoEffect, Started, NoRun
    <2> HIDE DEF run, row, n
    <2>5. n \in EffectsOf(r) /\ n \in Eff
      <3>1. 1 \in 1..MaxModels /\ 0 \in 0..MaxTools BY BoundAssumption
      <3> QED BY <3>1 DEF EffectsOf, Eff, RunOf, n
    <2>6. later[n] = row /\ \A x \in Eff \ {n} : later[x] = effects[x]
      BY <2>5 DEF TypeOK
    <2>7. runs'[r] = run /\ \A c \in Runs \ {r} : runs'[c] = runs[c] BY <2>1 DEF TypeOK
    <2> HIDE DEF later
    <2>8. run \in Run /\ later \in [Eff -> Effect] /\ effects \in [Eff -> Effect]
      BY <2>1, <2>7 DEF TypeOK
    <2>9. \A x \in EffectsOf(r) : effects[x].status = "none" BY <2>1, AbsentRun
    <2>10. Balanced(run, later, r, NoneGiven)
      <3>1. \A x \in EffectsOf(r) \ {n} : later[x] = effects[x] BY <2>6 DEF EffectsOf
      <3>2. /\ later[n].status = "ready" /\ later[n].reserve = ModelReserve(b.tokens)
            /\ later[n].charge = 0
        BY <2>4, <2>6
      <3>3. run.steps = IF run.parent = None THEN b.steps - 1 ELSE b.steps BY <2>3
      <3> QED BY <2>2, <2>3, <2>8, <2>9, <3>1, <3>2, <3>3, BalancedBirth DEF n
    <2>11. KinKept(r) BY <2>7 DEF KinKept
    <2>12. \A q \in Runs \ {r} : /\ run.parent # q /\ runs'[q] = runs[q]
                                 /\ \A x \in EffectsOf(q) : later[x] = effects[x]
      <3>1. \A q \in Runs \ {r} : run.parent # q BY <2>3, RunAssumption
      <3>2. \A q \in Runs \ {r} : \A x \in EffectsOf(q) : x \in Eff \ {n}
        BY <2>5 DEF EffectsOf
      <3> QED BY <2>6, <2>7, <3>1, <3>2
    <2>13. run.status # "none" /\ run.parent # r BY <2>3, RunAssumption
    <2> QED BY <2>1, <2>7, <2>10, <2>11, <2>12, <2>13, BirthAccounts
  <1>2. ASSUME NEW r \in Runs, runs[r].status \in {"running", "waiting"}
        PROVE  /\ KinRow(Cancelled(r), r) /\ KinRow(Steered(r), r) /\ KinRow(Answered(r), r)
               /\ Steered(r) \in Run /\ Answered(r) \in Run /\ runs[r] \in Run
               /\ \A p : KinRow([Steered(r) EXCEPT !.pending = p], r)
               /\ KinRow(AdmitModel(Steered(r)), r) /\ KinRow(SealRun(Steered(r), "budget"), r)
               /\ KinRow(AdmitModel(Answered(r)), r) /\ KinRow(SealRun(Answered(r), "budget"), r)
    <2>1. /\ runs[r] \in Run /\ runs[r].steps \in Nat /\ runs[r].calls \in Nat
          /\ runs[r].wall \in Nat
      BY RowTypes DEF Run
    <2>2. Steered(r) \in Run /\ Answered(r) \in Run BY <1>2, SteeredType, AnsweredType
    <2>3. KinRow(Cancelled(r), r) BY <1>2, <2>1 DEF KinRow, Cancelled, Run
    <2>4. KinRow(Steered(r), r) BY <1>2, <2>1 DEF KinRow, Steered, Run
    <2>5. KinRow(Answered(r), r) BY <1>2, <2>1 DEF KinRow, Answered, Run
    <2>6. \A p : KinRow([Steered(r) EXCEPT !.pending = p], r) BY <2>2, <2>4 DEF KinRow, Run
    <2> QED BY <2>1, <2>2, <2>3, <2>4, <2>5, <2>6, AdmitKin
  <1>3. ASSUME NEW r \in Runs, runs[r].status \in {"running", "waiting"}
        PROVE  /\ Balanced(runs[r], effects, r, Given(r))
               /\ \A revoke \in BOOLEAN :
                    /\ Balanced(Cancelled(r), Archived(r, revoke), r, Given(r))
                    /\ Balanced(Steered(r), Archived(r, revoke), r, Given(r))
                    /\ Local(r, Archived(r, revoke))
                    /\ Archived(r, revoke) \in [Eff -> Effect]
                    /\ RoomForModel(r) => Archived(r, revoke)[NextModel(r)].status = "none"
               /\ Local(r, effects) /\ effects \in [Eff -> Effect]
               /\ RoomForModel(r) => effects[NextModel(r)].status = "none"
    <2>1. Balanced(runs[r], effects, r, Given(r)) /\ RunOK(r) /\ runs[r] \in Run
      BY <1>3, RowTypes DEF Accounts, AllOK
    <2>2. Given(r) \in Sums BY GivenType DEF Accounts
    <2>3. RoomForModel(r) => NextModel(r) \in Eff /\ effects[NextModel(r)].status = "none"
      BY NextIsNew
    <2>4. ASSUME NEW revoke \in BOOLEAN
          PROVE  /\ Balanced(Cancelled(r), Archived(r, revoke), r, Given(r))
                 /\ Balanced(Steered(r), Archived(r, revoke), r, Given(r))
                 /\ Local(r, Archived(r, revoke))
                 /\ Archived(r, revoke) \in [Eff -> Effect]
                 /\ RoomForModel(r) => Archived(r, revoke)[NextModel(r)].status = "none"
      <3>1. /\ Cancelled(r).granted = runs[r].granted /\ Cancelled(r).parent = runs[r].parent
            /\ Cancelled(r).steps = runs[r].steps /\ Cancelled(r).calls = runs[r].calls
            /\ Cancelled(r).tokens = Credit(runs[r].tokens, ReadyReserve(r))
        BY <2>1 DEF Cancelled, Run
      <3>2. /\ Steered(r).granted = runs[r].granted /\ Steered(r).parent = runs[r].parent
            /\ Steered(r).steps = runs[r].steps /\ Steered(r).calls = runs[r].calls
            /\ Steered(r).tokens = Credit(runs[r].tokens, ReadyReserve(r))
        BY <2>1 DEF Steered, Run
      <3>3. Balanced(Cancelled(r), Archived(r, revoke), r, Given(r))
        BY <2>1, <2>2, <3>1, BalancedArchived
      <3>4. Balanced(Steered(r), Archived(r, revoke), r, Given(r))
        BY <2>1, <2>2, <3>2, BalancedArchived
      <3>5. Local(r, Archived(r, revoke))
        BY DEF Local, Archived, ReadyOf, ClaimedOf, EffectsOf
      <3>6. RoomForModel(r) => Archived(r, revoke)[NextModel(r)].status = "none"
        BY <2>3 DEF Archived, ReadyOf, ClaimedOf
      <3> QED BY <3>3, <3>4, <3>5, <3>6, ArchivedType
    <2> QED BY <2>1, <2>3, <2>4 DEF Local, TypeOK
  <1>4. ASSUME NEW r \in Runs, Cancel(r) PROVE Accounts'
    <2> DEFINE rows == Archived(r, TRUE)
    <2>1. runs[r].status \in {"running", "waiting"}
          /\ \E released : Commit(r, Cancelled(r), rows, released)
      BY <1>4 DEF Cancel
    <2>2. SameMoney(Cancelled(r), Cancelled(r)) BY DEF SameMoney
    <2>3. KinRow(Cancelled(r), r) BY <1>2, <2>1
    <2>4. Balanced(Cancelled(r), rows, r, Given(r)) /\ Local(r, rows) BY <1>3, <2>1
    <2> HIDE DEF rows
    <2> QED BY <2>1, <2>2, <2>3, <2>4, KeptAccounts
  <1>5. ASSUME NEW r \in Runs, SteerDeferred(r) \/ SteerExhausted(r) PROVE Accounts'
    <2> DEFINE rows == Archived(r, FALSE)
               run == Steered(r)
               deferred == [run EXCEPT !.pending = [epoch |-> runs[r].epoch + 1,
                                                    gen |-> runs[r].gen + 1]]
               seal == SealRun(run, "budget")
    <2>1. /\ runs[r].status \in {"running", "waiting"}
          /\ \E released : \/ Commit(r, deferred, rows, released)
                           \/ Commit(r, run, rows, released)
                           \/ Commit(r, seal, rows, released)
      BY <1>5 DEF SteerDeferred, SteerExhausted
    <2>2. run \in Run /\ KinRow(run, r) /\ KinRow(deferred, r) /\ KinRow(seal, r)
      BY <1>2, <2>1
    <2>3. SameMoney(run, run) /\ SameMoney(deferred, run) /\ SameMoney(seal, run)
      BY <2>2, FreeMoney
    <2>4. Balanced(run, rows, r, Given(r)) /\ Local(r, rows) BY <1>3, <2>1
    <2> HIDE DEF rows, run, deferred, seal
    <2> QED BY <2>1, <2>2, <2>3, <2>4, KeptAccounts
  <1>6. ASSUME NEW r \in Runs, SteerAdmitted(r) PROVE Accounts'
    <2> DEFINE rows == Archived(r, FALSE)
               run == Steered(r)
               next == AdmitModel(run)
               none == {}
               epoch == runs[r].epoch + 1
               gen == runs[r].gen + 1
    <2>1. /\ runs[r].status \in {"running", "waiting"} /\ Admits(run) /\ RoomForModel(r)
          /\ Commit(r, next, [rows EXCEPT ![NextModel(r)] = ModelRow(run, epoch, gen, 0)], none)
      BY <1>6 DEF SteerAdmitted
    <2>2. run \in Run /\ KinRow(next, r) /\ runs[r] \in Run BY <1>2, <2>1
    <2>3. Admitted(next, run) BY <2>2, AdmitMoney
    <2>4. /\ Balanced(run, rows, r, Given(r)) /\ Local(r, rows) /\ rows \in [Eff -> Effect]
          /\ rows[NextModel(r)].status = "none"
      BY <1>3, <2>1
    <2>5. epoch \in Nat /\ gen \in Nat /\ 0 \in 0..MaxModels BY <2>2, BoundAssumption DEF Run
    <2>6. runs[r].status # "none" BY <2>1
    <2> HIDE DEF rows, run, next, none, epoch, gen
    <2> QED BY <2>1, <2>2, <2>3, <2>4, <2>5, <2>6, AdmittedAccounts
  <1>7. ASSUME NEW r \in Runs, RespondAdmitted(r) PROVE Accounts'
    <2> DEFINE run == runs[r]
               next == AdmitModel(Answered(r))
               none == {}
               epoch == runs[r].epoch
               gen == runs[r].gen + 1
    <2>1. /\ runs[r].status \in {"running", "waiting"} /\ Admits(run) /\ RoomForModel(r)
          /\ Commit(r, next, [effects EXCEPT ![NextModel(r)] = ModelRow(run, epoch, gen, 0)], none)
      BY <1>7 DEF RespondAdmitted
    <2>2. run \in Run /\ KinRow(next, r) /\ Answered(r) \in Run BY <1>2, <2>1
    <2>3. Admitted(next, run)
      <3>1. Admitted(next, Answered(r)) BY <2>2, AdmitMoney
      <3>2. /\ Answered(r).granted = run.granted /\ Answered(r).parent = run.parent
            /\ Answered(r).steps = run.steps /\ Answered(r).calls = run.calls
            /\ Answered(r).tokens = run.tokens
        BY <2>2 DEF Answered, Run
      <3> HIDE DEF next, run
      <3> QED BY <3>1, <3>2 DEF Admitted
    <2>4. /\ Balanced(run, effects, r, Given(r)) /\ Local(r, effects)
          /\ effects \in [Eff -> Effect] /\ effects[NextModel(r)].status = "none"
      BY <1>3, <2>1
    <2>5. epoch \in Nat /\ gen \in Nat /\ 0 \in 0..MaxModels BY <2>2, BoundAssumption DEF Run
    <2>6. runs[r].status # "none" BY <2>1
    <2> HIDE DEF run, next, none, epoch, gen
    <2> QED BY <2>1, <2>2, <2>3, <2>4, <2>5, <2>6, AdmittedAccounts
  <1>8. ASSUME NEW r \in Runs, RespondExhausted(r) PROVE Accounts'
    <2> DEFINE run == runs[r]
               next == Answered(r)
               seal == SealRun(next, "budget")
    <2>1. /\ runs[r].status \in {"running", "waiting"}
          /\ \E released : Commit(r, next, effects, released) \/ Commit(r, seal, effects, released)
      BY <1>8 DEF RespondExhausted
    <2>2. run \in Run /\ KinRow(next, r) /\ KinRow(seal, r) /\ next \in Run BY <1>2, <2>1
    <2>3. SameMoney(next, run) BY <2>2 DEF SameMoney, Answered, Run
    <2>4. SameMoney(seal, run)
      <3>1. SameMoney(seal, next) BY <2>2, FreeMoney
      <3> HIDE DEF seal, run, next
      <3> QED BY <2>3, <3>1 DEF SameMoney
    <2>5. Balanced(run, effects, r, Given(r)) /\ Local(r, effects) BY <1>3, <2>1
    <2>6. runs[r].status # "none" BY <2>1
    <2> HIDE DEF run, next, seal
    <2> QED BY <2>1, <2>2, <2>3, <2>4, <2>5, <2>6, KeptAccounts
  <1> QED BY <1>1, <1>4, <1>5, <1>6, <1>7, <1>8 DEF UserCommand

\* A step that moves no balance and no cost keeps the accounts.
LEMMA QuietAccounts ==
  ASSUME Kinship, Kinship', Accounts,
         \A c \in Runs : /\ SameMoney(runs'[c], runs[c])
                         /\ runs'[c].status = "none" <=> runs[c].status = "none",
         \A x \in Eff : /\ SameCost(effects[x], effects'[x])
                        /\ IsModel(x) => Cost(effects'[x]) = Cost(effects[x])
  PROVE  Accounts'
  <1>1. ASSUME NEW c \in Runs
        PROVE  IF runs'[c].status = "none" THEN runs'[c].granted.tokens = 0
               ELSE Balanced(runs'[c], effects', c, Given(c)')
    <2> DEFINE next == runs'[c]
               later == effects'
    <2>1. SameMoney(next, runs[c]) /\ (next.status = "none" <=> runs[c].status = "none") OBVIOUS
    <2>2. \A x \in EffectsOf(c) : /\ SameCost(effects[x], later[x])
                                  /\ IsModel(x) => Cost(later[x]) = Cost(effects[x])
      BY DEF EffectsOf
    <2>3. Given(c)' = Given(c)
      <3>1. \A p \in Runs : runs'[p].parent = runs[p].parent /\ runs'[p].granted = runs[p].granted
        BY DEF SameMoney
      <3> QED BY <3>1, GivenKept
    <2> HIDE DEF next, later
    <2>4. CASE next.status = "none" BY <2>1, <2>4 DEF SameMoney, Accounts, next
    <2>5. CASE next.status # "none"
      <3>1. Balanced(runs[c], effects, c, Given(c)) BY <2>1, <2>5 DEF Accounts
      <3>2. Balanced(next, later, c, Given(c)) BY <2>1, <2>2, <3>1, BalancedSame
      <3>3. Balanced(runs'[c], effects', c, Given(c)') BY Zenon, <2>3, <3>2 DEF next, later
      <3> QED BY <2>5, <3>3 DEF next
    <2> QED BY <2>4, <2>5
  <1>2. {c \in Runs : runs'[c].parent # None} = {c \in Runs : runs[c].parent # None}
    BY DEF SameMoney
  <1>3. IsFiniteSet({c \in Runs : runs'[c].parent # None}) BY Zenon, <1>2 DEF Accounts
  <1>4. \A c \in Runs : Balanced(runs'[c], effects', c, Given(c)')
                          <=> Balanced(runs[c], effects, c, Given(c))'
    BY DEF Balanced, Held, Models, Tools, Total, EffectsOf, Eff, RunOf, IsModel, IsTool, Cost, Queued
  <1> QED BY <1>1, <1>3, <1>4 DEF Accounts

\* Claims and expired leases cost nothing.
LEMMA WorkerAccounts ==
  ASSUME TypeOK, Kinship, Kinship', Accounts, NEW e \in Eff, Claim(e) \/ ExpireLease(e)
  PROVE  Accounts'
  <1>1. \A c \in Runs : /\ SameMoney(runs'[c], runs[c])
                        /\ runs'[c].status = "none" <=> runs[c].status = "none"
    BY DEF SameMoney, Claim, ExpireLease
  <1>2. effects[e] \in Effect /\ DOMAIN effects = Eff BY DEF TypeOK
  <1>3. /\ effects'[e].reserve = effects[e].reserve /\ effects'[e].charge = effects[e].charge
        /\ \/ effects[e].status = "ready" /\ effects'[e].status = "claimed"
           \/ effects[e].status = "claimed" /\ effects'[e].status = "claimed"
        /\ \A x \in Eff \ {e} : effects'[x] = effects[x]
    BY <1>2 DEF Claim, ExpireLease, Effect
  <1>4. \A x \in Eff : /\ SameCost(effects[x], effects'[x])
                       /\ IsModel(x) => Cost(effects'[x]) = Cost(effects[x])
    <2>1. SameCost(effects[e], effects'[e]) /\ Cost(effects'[e]) = Cost(effects[e])
      BY <1>3 DEF SameCost, Cost, Queued
    <2>2. \A x \in Eff \ {e} : SameCost(effects[x], effects'[x]) /\ Cost(effects'[x]) = Cost(effects[x])
      BY <1>3 DEF SameCost
    <2> QED BY <2>1, <2>2
  <1> QED BY <1>1, <1>4, QuietAccounts

\* A sweep keeps the reserve of a lost model call spent.
LEMMA SweepAccounts ==
  ASSUME TypeOK, AllOK, Kinship, Kinship', Accounts, Sweep
  PROVE  Accounts'
  <1>1. PICK S \in SUBSET Expired, wall \in [Runs -> 0..MaxWall] :
          Recover(S, wall) /\ \A r \in Runs : wall[r] <= runs[r].wall
    BY DEF Sweep
  <1>2. ASSUME NEW c \in Runs
        PROVE  /\ SameMoney(runs'[c], runs[c])
               /\ runs'[c].status = "none" <=> runs[c].status = "none"
    <2> DEFINE H == S \cap EffectsOf(c)
               timed == [runs[c] EXCEPT !.wall = wall[c]]
               seal == SealRun(timed, "unknown")
    <2>1. runs'[c] = runs[c] \/ (H # {} /\ runs'[c] \in {timed, seal})
      BY <1>1 DEF Recover, Walled
    <2>2. runs[c] \in Run BY RowTypes
    <2>3. SameMoney(timed, runs[c]) /\ SameMoney(seal, runs[c]) /\ SameMoney(runs[c], runs[c])
      BY <2>2, FreeMoney
    <2>4. timed.status = runs[c].status /\ seal.status # "none"
      BY <2>2 DEF Run, SealRun
    <2>5. ASSUME NEW x \in H PROVE runs[c].status # "none"
      <3>1. x \in EffectsOf(c) /\ Live(x) BY DEF Expired, Live
      <3>2. RunOK(c) BY DEF AllOK
      <3> QED BY <3>1, <3>2 DEF RunOK
    <2> HIDE DEF timed, seal, H
    <2> QED BY <2>1, <2>3, <2>4, <2>5
  <1>3. ASSUME NEW x \in Eff
        PROVE  /\ SameCost(effects[x], effects'[x])
               /\ IsModel(x) => Cost(effects'[x]) = Cost(effects[x])
    <2>1. effects'[x] = effects[x]
          \/ /\ effects[x].status = "claimed" /\ effects'[x].status = "unknown"
             /\ effects'[x].charge = effects[x].reserve
      <3>1. effects[x] \in Effect BY RowTypes
      <3>2. x \in S => effects[x].status = "claimed" BY DEF Expired
      <3>3. effects'[x] = IF x \in S
                          THEN [effects[x] EXCEPT !.status = "unknown", !.expired = FALSE,
                                                  !.charge = effects[x].reserve]
                          ELSE effects[x]
        BY <1>1 DEF Recover
      <3> QED BY <3>1, <3>2, <3>3 DEF Effect
    <2> QED BY <2>1 DEF SameCost, Cost, Queued
  <1> QED BY <1>2, <1>3, QuietAccounts

\* Accounts is an invariant beside what is known of runs and their origin.
THEOREM AccountsHold == Spec => [](LoopInvariant /\ Kinship /\ Lineage /\ Accounts)
  <1>1. Init => Accounts
    <2> SUFFICES ASSUME Init PROVE Accounts OBVIOUS
    <2>1. {c \in Runs : runs[c].parent # None} = {} BY DEF Init, NoRun
    <2>2. \A r \in Runs : runs[r].status = "none" /\ runs[r].granted.tokens = 0
      BY DEF Init, NoRun, NoBudget
    <2>3. IsFiniteSet({c \in Runs : runs[c].parent # None}) BY <2>1, FS_EmptySet
    <2> QED BY <2>2, <2>3 DEF Accounts
  <1>2. /\ LoopInvariant /\ LoopInvariant' /\ Kinship /\ Kinship' /\ Lineage /\ Accounts
        /\ [Next]_vars
        => Accounts'
    <2> SUFFICES ASSUME LoopInvariant, LoopInvariant', Kinship, Kinship', Lineage, Accounts,
                        [Next]_vars
                 PROVE  Accounts'
      OBVIOUS
    <2>1. TypeOK /\ TypeOK' /\ AllOK BY InvariantByRun DEF LoopInvariant
    <2>2. CASE Next
      BY <2>1, <2>2, UserCommandAccounts, WorkerAccounts, ModelSettlementAccounts,
         SpawningAccounts, ToolSettlementAccounts, SweepAccounts DEF Next
    <2>3. CASE UNCHANGED vars
      <3>1. runs' = runs /\ effects' = effects BY <2>3 DEF vars
      <3>2. \A c \in Runs : /\ SameMoney(runs'[c], runs[c])
                            /\ runs'[c].status = "none" <=> runs[c].status = "none"
        BY <3>1 DEF SameMoney
      <3>3. \A x \in Eff : /\ SameCost(effects[x], effects'[x])
                           /\ IsModel(x) => Cost(effects'[x]) = Cost(effects[x])
        BY <3>1 DEF SameCost
      <3> QED BY <3>2, <3>3, QuietAccounts
    <2> QED BY <2>2, <2>3
  <1> QED BY <1>1, <1>2, KinshipHolds, LineageHolds, PTL DEF Spec

\* Whatever refunds, archives, grants, late receipts and sweeps do, what a run was granted
\* is what it has left, holds in reserve, used and gave away.
THEOREM AccountsBalance == Spec => []Ledgers
  <1>1. LoopInvariant /\ Kinship /\ Lineage /\ Accounts => Ledgers
    BY AccountsAddUp DEF LoopInvariant
  <1> QED BY <1>1, AccountsHold, PTL

\* A repeated spawn intent finds the one child of its key, which was paid for once and in
\* full by its parent.
THEOREM SpawnsArePaid == Spec => []SpawnRules
  <1>1. LoopInvariant /\ Kinship /\ Lineage /\ Accounts => SpawnRules
    BY AccountsAddUp DEF LoopInvariant, Kinship, SpawnRules
  <1> QED BY <1>1, AccountsHold, PTL

=============================================================================
