------------------------ MODULE RunLoopSafetyProof ------------------------
(***************************************************************************)
(* Type correctness and the safety invariants of RunLoop, for every value  *)
(* of its constants.  The types come first; RunOK(r), below, is the        *)
(* inductive invariant of one run that the safety invariants rest on.      *)
(***************************************************************************)
EXTENDS RunLoop, TLAPS

-----------------------------------------------------------------------------
(* Rows and their identities. *)

\* An effect's identity splits into a run, a model number and an ordinal.
LEMMA EffParts ==
  ASSUME NEW e \in Eff
  PROVE  /\ e = <<e[1], e[2], e[3]>>
         /\ e[1] \in Runs /\ e[2] \in 1..MaxModels /\ e[3] \in 0..MaxTools
         /\ RunOf(e) \in Runs /\ e \in EffectsOf(RunOf(e))
  BY DEF Eff, RunOf, EffectsOf

\* A triple of in-range parts names an effect of the run it starts with.
LEMMA EffBuilt ==
  ASSUME NEW r \in Runs, NEW m \in 1..MaxModels, NEW n \in 0..MaxTools
  PROVE  <<r, m, n>> \in Eff /\ RunOf(<<r, m, n>>) = r
  BY DEF Eff, RunOf

\* The identity the next model call of a run gets, while the bound leaves room.
LEMMA NextModelEff ==
  ASSUME TypeOK, NEW r \in Runs, RoomForModel(r)
  PROVE  NextModel(r) \in Eff /\ RunOf(NextModel(r)) = r
  <1>1. runs[r].models \in 0..MaxModels BY DEF TypeOK, Run
  <1>2. runs[r].models + 1 \in 1..MaxModels BY <1>1, BoundAssumption DEF RoomForModel
  <1>3. 0 \in 0..MaxTools BY BoundAssumption
  <1> QED BY <1>2, <1>3, EffBuilt DEF NextModel

-----------------------------------------------------------------------------
(* Budget arithmetic stays in the domain of the columns. *)

Tokens == Nat \cup {Unlimited}

\* A reserve never takes a token balance below zero (v24.model_reserve).
LEMMA ReserveType ==
  ASSUME NEW t \in Tokens
  PROVE  ModelReserve(t) \in Nat /\ Debit(t, ModelReserve(t)) \in Tokens
  BY BoundAssumption DEF Tokens, Unlimited, ModelReserve, Debit

\* Refunds and credits keep a token balance a natural number or unlimited.
LEMMA RefundType ==
  ASSUME NEW t \in Tokens, NEW n \in Nat, NEW u \in Nat
  PROVE  Refund(t, n, u) \in Tokens /\ Credit(t, n) \in Tokens
  BY DEF Tokens, Unlimited, Refund, Credit

-----------------------------------------------------------------------------
(* The rows the actions write have the shape of their tables. *)

\* TypeOK, read row by row.
LEMMA RowTypes ==
  ASSUME TypeOK
  PROVE  /\ \A r \in Runs : runs[r] \in Run
         /\ \A e \in Eff : effects[e] \in Effect /\ runs[RunOf(e)] \in Run
  BY EffParts DEF TypeOK

\* The empty rows are well typed.
LEMMA EmptyRowTypes ==
  NoRun \in Run /\ NoEffect \in Effect
  <1>1. 0 \in 0..MaxModels BY BoundAssumption
  <1>2. NoSteer \in [epoch : Nat, gen : Nat] BY DEF NoSteer
  <1>3. NoRun \in Run
    BY <1>1, <1>2 DEF NoRun, NoBudget, Budget, Run, RunStatus, CloseIntent
  <1>4. NoEffect \in Effect BY <1>1 DEF NoEffect, Effect, EffectStatus
  <1> QED BY <1>3, <1>4

\* Admitting a model call with a step left keeps the run row well typed.
LEMMA AdmitModelType ==
  ASSUME NEW run \in Run, run.steps >= 1, run.models < MaxModels
  PROVE  AdmitModel(run) \in Run
  <1>1. run.tokens \in Tokens BY DEF Run, Tokens
  <1>2. Debit(run.tokens, ModelReserve(run.tokens)) \in Tokens BY <1>1, ReserveType
  <1>3. run.steps - 1 \in Nat BY DEF Run
  <1>4. run.models + 1 \in 0..MaxModels BY BoundAssumption DEF Run
  <1> QED BY <1>2, <1>3, <1>4 DEF Run, AdmitModel, Tokens

\* The row of an admitted model call is well typed.
LEMMA ModelRowType ==
  ASSUME NEW run, run.tokens \in Tokens, NEW epoch \in Nat, NEW gen \in Nat,
         NEW from \in 0..MaxModels
  PROVE  ModelRow(run, epoch, gen, from) \in Effect
  <1>1. ModelReserve(run.tokens) \in Nat BY ReserveType
  <1>2. 0 \in 0..MaxModels BY BoundAssumption
  <1> QED BY <1>1, <1>2 DEF ModelRow, NoEffect, Effect, EffectStatus

\* Sealing a run keeps its row well typed.
LEMMA SealRunType ==
  ASSUME NEW run \in Run, NEW close \in {"final", "budget", "abort", "unknown"}
  PROVE  SealRun(run, close) \in Run
  <1>1. 0 \in 0..MaxModels BY BoundAssumption
  <1> QED BY <1>1 DEF SealRun, Run, NoSteer, RunStatus, CloseIntent

\* Storing a receipt keeps every effect row well typed.
LEMMA SettledType ==
  ASSUME TypeOK, NEW e \in Eff, NEW status \in EffectStatus, NEW charge \in Nat
  PROVE  Settled(e, status, charge) \in [Eff -> Effect]
  BY DEF TypeOK, Settled, Effect

\* Charging a model receipt keeps the run row well typed: no balance underflows.
LEMMA PaidType ==
  ASSUME TypeOK, NEW e \in Eff, NEW u \in Nat, NEW w \in Nat
  PROVE  Paid(e, u, w) \in Run
  <1>1. runs[RunOf(e)] \in Run /\ effects[e] \in Effect BY RowTypes
  <1>2. Refund(runs[RunOf(e)].tokens, effects[e].reserve, u) \in Tokens
    BY <1>1, RefundType DEF Run, Effect, Tokens
  <1> QED BY <1>1, <1>2 DEF Paid, Run, Tokens

\* Taking elapsed time off keeps the run row well typed.
LEMMA ElapsedType ==
  ASSUME TypeOK, NEW e \in Eff, NEW w \in Nat
  PROVE  Elapsed(e, w) \in Run
  BY RowTypes DEF Elapsed, Run

\* What a ready model call gives back when it is archived is a natural number.
LEMMA ReadyReserveType ==
  ASSUME TypeOK, NEW r \in Runs
  PROVE  ReadyReserve(r) \in Nat
  <1>1. CASE \E e \in ReadyOf(r) : IsModel(e)
    <2>1. (CHOOSE e \in ReadyOf(r) : IsModel(e)) \in Eff
      BY <1>1 DEF ReadyOf, EffectsOf
    <2> QED BY <1>1, <2>1, RowTypes DEF ReadyReserve, Effect
  <1>2. CASE ~ \E e \in ReadyOf(r) : IsModel(e)
    BY <1>2 DEF ReadyReserve
  <1> QED BY <1>1, <1>2

\* A steer keeps the run row well typed.
LEMMA SteeredType ==
  ASSUME TypeOK, NEW r \in Runs
  PROVE  Steered(r) \in Run
  <1>1. runs[r] \in Run BY RowTypes
  <1>2. Credit(runs[r].tokens, ReadyReserve(r)) \in Tokens
    BY <1>1, ReadyReserveType, RefundType DEF Run, Tokens
  <1>3. 0 \in 0..MaxModels BY BoundAssumption
  <1>4. runs[r].epoch + 1 \in Nat /\ runs[r].gen + 1 \in Nat BY <1>1 DEF Run
  <1> QED BY <1>1, <1>2, <1>3, <1>4 DEF Steered, Run, Tokens, NoSteer, RunStatus

\* An answer keeps the run row well typed.
LEMMA AnsweredType ==
  ASSUME TypeOK, NEW r \in Runs
  PROVE  Answered(r) \in Run
  <1>1. 0 \in 0..MaxModels BY BoundAssumption
  <1>2. runs[r] \in Run BY RowTypes
  <1>3. runs[r].gen + 1 \in Nat BY <1>2 DEF Run
  <1> QED BY <1>1, <1>2, <1>3 DEF Answered, Run, RunStatus

\* Archiving the ready effects keeps every effect row well typed.
LEMMA ArchivedType ==
  ASSUME TypeOK, NEW r \in Runs, NEW revoke \in BOOLEAN
  PROVE  Archived(r, revoke) \in [Eff -> Effect]
  BY RowTypes DEF Archived, Effect, EffectStatus

\* A commit of well-typed rows keeps the type invariant.
LEMMA CommitType ==
  ASSUME TypeOK, NEW r \in Runs, NEW run \in Run, NEW rows \in [Eff -> Effect],
         NEW released, Commit(r, run, rows, released)
  PROVE  TypeOK'
  BY DEF Commit, TypeOK

\* Sealing or freezing a close keeps the type invariant.
LEMMA CloseRunType ==
  ASSUME TypeOK, NEW e \in Eff, NEW run \in Run, NEW rows \in [Eff -> Effect],
         NEW close \in {"final", "budget"}, CloseRun(e, run, rows, close)
  PROVE  TypeOK'
  <1>1. SealRun(run, close) \in Run BY SealRunType
  <1>2. [run EXCEPT !.close = close] \in Run BY DEF Run, CloseIntent
  <1> QED BY <1>1, <1>2, CommitType, EffParts DEF CloseRun

\* Consuming a deferred steer keeps the type invariant.
LEMMA ConsumeSteerType ==
  ASSUME TypeOK, NEW r \in Runs, NEW self \in Eff, NEW run \in Run,
         NEW rows \in [Eff -> Effect], run.models = runs[r].models,
         ConsumeSteer(r, self, run, rows)
  PROVE  TypeOK'
  <1>0. NoSteer \in [epoch : Nat, gen : Nat] BY DEF NoSteer
  <1>1. CASE Admits(run)
    <2>1. RoomForModel(r) BY <1>1 DEF ConsumeSteer
    <2>2. AdmitModel(run) \in Run
      BY <1>1, <2>1, AdmitModelType DEF Admits, RoomForModel
    <2>3. [AdmitModel(run) EXCEPT !.pending = NoSteer] \in Run BY <2>2, <1>0 DEF Run
    <2> DEFINE gen == IF run.gen > run.pending.gen THEN run.gen ELSE run.pending.gen
    <2>4. 0 \in 0..MaxModels BY BoundAssumption
    <2>5. run.tokens \in Tokens /\ run.pending.epoch \in Nat /\ gen \in Nat
      BY DEF Run, Tokens
    <2>6. ModelRow(run, run.pending.epoch, gen, 0) \in Effect
      BY <2>4, <2>5, ModelRowType
    <2>7. [rows EXCEPT ![NextModel(r)] = ModelRow(run, run.pending.epoch, gen, 0)]
            \in [Eff -> Effect]
      BY <2>6
    <2> QED BY <1>1, <2>3, <2>7, CommitType DEF ConsumeSteer
  <1>2. CASE ~Admits(run)
    <2>1. SealRun(run, "budget") \in Run BY SealRunType
    <2>2. [run EXCEPT !.pending = NoSteer] \in Run BY <1>0 DEF Run
    <2> QED BY <1>2, <2>1, <2>2, CommitType DEF ConsumeSteer
  <1> QED BY <1>1, <1>2

-----------------------------------------------------------------------------
(* Type correctness, one lemma per group of actions. *)

\* Start, cancel, steer and respond keep the type invariant.
LEMMA UserCommandType ==
  ASSUME TypeOK, UserCommand
  PROVE  TypeOK'
  <1>0. /\ NoSteer \in [epoch : Nat, gen : Nat]
        /\ 0 \in 0..MaxModels /\ 0 \in 0..MaxTools /\ 1 \in 1..MaxModels
    BY BoundAssumption DEF NoSteer
  <1>1. ASSUME NEW r \in Runs, NEW b \in Budgets, NEW required \in SUBSET Keys,
               Start(r, b, required)
        PROVE  TypeOK'
    <2> DEFINE run == [NoRun EXCEPT !.status = "running", !.epoch = 1, !.gen = 1,
                                    !.steps = b.steps, !.calls = b.calls,
                                    !.tokens = b.tokens, !.wall = b.wall,
                                    !.granted = b]
    <2>1. b \in Budget /\ b.steps >= 1 BY BudgetAssumption
    <2>2. run \in Run /\ run.steps >= 1 /\ run.models < MaxModels
      <3>1. NoRun \in Run BY EmptyRowTypes
      <3>2. /\ b.steps \in Nat /\ b.calls \in Nat /\ b.wall \in Nat
            /\ b.tokens \in Nat \cup {Unlimited}
        BY <2>1 DEF Budget
      <3>3. run \in Run BY <2>1, <3>1, <3>2 DEF Run, RunStatus
      <3>4. run.steps = b.steps /\ run.models = NoRun.models BY <3>1 DEF Run
      <3>5. NoRun.models = 0 BY DEF NoRun
      <3> QED BY <2>1, <3>3, <3>4, <3>5, BoundAssumption
    <2>3. AdmitModel(run) \in Run BY <2>2, AdmitModelType
    <2>4. run.tokens \in Tokens BY <2>2 DEF Run, Tokens
    <2>5. ModelRow(run, 1, 1, 0) \in Effect BY <2>4, <1>0, ModelRowType
    <2>6. /\ runs' = [runs EXCEPT ![r] = AdmitModel(run)]
          /\ effects' = [effects EXCEPT ![<<r, 1, 0>>] = ModelRow(run, 1, 1, 0)]
          /\ pins' = [pins EXCEPT ![r] = required]
      BY <1>1 DEF Start, Started
    <2> HIDE DEF run
    <2> QED BY <2>3, <2>5, <2>6 DEF TypeOK
  <1>2. ASSUME NEW r \in Runs, Cancel(r) PROVE TypeOK'
    <2> DEFINE run == [runs[r] EXCEPT !.status = "cancelled", !.interaction = 0,
                            !.pending = NoSteer, !.close = "cancel",
                            !.tokens = Credit(@, ReadyReserve(r)), !.gen = @ + 1]
    <2>1. runs[r] \in Run BY RowTypes
    <2>2. Credit(runs[r].tokens, ReadyReserve(r)) \in Tokens
      BY <2>1, ReadyReserveType, RefundType DEF Run, Tokens
    <2>3. runs[r].gen + 1 \in Nat BY <2>1 DEF Run
    <2>4. run \in Run BY <1>0, <2>1, <2>2, <2>3 DEF Run, RunStatus, CloseIntent, Tokens
    <2> QED BY <1>2, <2>4, ArchivedType, CommitType DEF Cancel, Cancelled
  <1>3. ASSUME NEW r \in Runs, SteerDeferred(r) PROVE TypeOK'
    <2> DEFINE run == [Steered(r) EXCEPT !.pending = [epoch |-> runs[r].epoch + 1,
                                                     gen |-> runs[r].gen + 1]]
    <2>1. runs[r] \in Run BY RowTypes
    <2>2. [epoch |-> runs[r].epoch + 1, gen |-> runs[r].gen + 1]
            \in [epoch : Nat, gen : Nat]
      BY <2>1 DEF Run
    <2>3. run \in Run BY <2>2, SteeredType DEF Run
    <2> QED BY <1>3, <2>3, ArchivedType, CommitType DEF SteerDeferred
  <1>4. ASSUME NEW r \in Runs, SteerAdmitted(r) PROVE TypeOK'
    <2>1. Steered(r) \in Run /\ runs[r] \in Run BY SteeredType, RowTypes
    <2>2. Steered(r).models = runs[r].models BY <2>1 DEF Steered, Run
    <2>3. AdmitModel(Steered(r)) \in Run
      BY <1>4, <2>1, <2>2, AdmitModelType DEF SteerAdmitted, Admits, RoomForModel
    <2>4. /\ Steered(r).tokens \in Tokens
          /\ runs[r].epoch + 1 \in Nat /\ runs[r].gen + 1 \in Nat
      BY <2>1 DEF Run, Tokens
    <2>5. ModelRow(Steered(r), runs[r].epoch + 1, runs[r].gen + 1, 0) \in Effect
      BY <1>0, <2>4, ModelRowType
    <2>6. [Archived(r, FALSE) EXCEPT ![NextModel(r)] =
             ModelRow(Steered(r), runs[r].epoch + 1, runs[r].gen + 1, 0)]
            \in [Eff -> Effect]
      BY <2>5, ArchivedType
    <2> QED BY <1>4, <2>3, <2>6, CommitType DEF SteerAdmitted
  <1>5. ASSUME NEW r \in Runs, SteerExhausted(r) PROVE TypeOK'
    <2>1. Steered(r) \in Run /\ SealRun(Steered(r), "budget") \in Run
      BY SteeredType, SealRunType
    <2> QED BY <1>5, <2>1, ArchivedType, CommitType DEF SteerExhausted
  <1>6. ASSUME NEW r \in Runs, RespondAdmitted(r) PROVE TypeOK'
    <2>1. Answered(r) \in Run /\ runs[r] \in Run BY AnsweredType, RowTypes
    <2>2. Answered(r).models = runs[r].models /\ Answered(r).steps = runs[r].steps
      BY <2>1 DEF Answered, Run
    <2>3. AdmitModel(Answered(r)) \in Run
      BY <1>6, <2>1, <2>2, AdmitModelType DEF RespondAdmitted, Admits, RoomForModel
    <2>4. runs[r].tokens \in Tokens /\ runs[r].epoch \in Nat /\ runs[r].gen + 1 \in Nat
      BY <2>1 DEF Run, Tokens
    <2>5. ModelRow(runs[r], runs[r].epoch, runs[r].gen + 1, 0) \in Effect
      BY <1>0, <2>4, ModelRowType
    <2>6. [effects EXCEPT ![NextModel(r)] =
             ModelRow(runs[r], runs[r].epoch, runs[r].gen + 1, 0)] \in [Eff -> Effect]
      BY <2>5 DEF TypeOK
    <2> QED BY <1>6, <2>3, <2>6, CommitType DEF RespondAdmitted
  <1>7. ASSUME NEW r \in Runs, RespondExhausted(r) PROVE TypeOK'
    <2>1. Answered(r) \in Run /\ SealRun(Answered(r), "budget") \in Run
      BY AnsweredType, SealRunType
    <2>2. effects \in [Eff -> Effect] BY DEF TypeOK
    <2> QED BY <1>7, <2>1, <2>2, CommitType DEF RespondExhausted
  <1> QED BY <1>1, <1>2, <1>3, <1>4, <1>5, <1>6, <1>7 DEF UserCommand

\* The settlement of a model call keeps the type invariant.
LEMMA ModelSettlementType ==
  ASSUME TypeOK, ModelSettlement
  PROVE  TypeOK'
  <1>0. /\ \A u \in Usages : u \in Nat
        /\ \A f \in Fact : f \in EffectStatus
        /\ \A e \in Eff : \A w \in WallAfter(e) : w \in Nat
        /\ NoSteer \in [epoch : Nat, gen : Nat]
    BY BoundAssumption DEF Fact, EffectStatus, WallAfter, NoSteer
  <1>p. \A e \in Eff, u \in Usages : \A w \in WallAfter(e) :
          /\ Paid(e, u, w) \in Run
          /\ Paid(e, u, w).models = runs[RunOf(e)].models
    <2> SUFFICES ASSUME NEW e \in Eff, NEW u \in Usages, NEW w \in WallAfter(e)
                 PROVE  /\ Paid(e, u, w) \in Run
                        /\ Paid(e, u, w).models = runs[RunOf(e)].models
      OBVIOUS
    <2>1. runs[RunOf(e)] \in Run BY RowTypes
    <2> QED BY <1>0, <2>1, PaidType DEF Paid, Run
  <1>s. \A e \in Eff, f \in Fact, u \in Usages : Settled(e, f, u) \in [Eff -> Effect]
    BY <1>0, SettledType
  <1>f. "succeeded" \in Fact /\ "failed" \in Fact BY DEF Fact
  <1>1. ASSUME NEW e \in Eff, NEW w \in WallAfter(e), SettleModelUnknown(e, w)
        PROVE  TypeOK'
    <2>1. runs[RunOf(e)] \in Run /\ effects[e] \in Effect /\ RunOf(e) \in Runs
      BY RowTypes, EffParts
    <2>2. [runs[RunOf(e)] EXCEPT !.wall = w] \in Run BY <1>0, <2>1 DEF Run
    <2>3. SealRun([runs[RunOf(e)] EXCEPT !.wall = w], "unknown") \in Run
      BY <2>2, SealRunType
    <2>4. Settled(e, "unknown", effects[e].reserve) \in [Eff -> Effect]
      BY <2>1, SettledType DEF EffectStatus, Effect
    <2> QED BY <1>1, <2>1, <2>2, <2>3, <2>4, CommitType DEF SettleModelUnknown
  <1>2. ASSUME NEW e \in Eff, NEW f \in Fact, NEW u \in Usages, NEW w \in WallAfter(e),
               SettleModelCancelLate(e, f, u, w)
        PROVE  TypeOK'
    BY <1>2, <1>p, <1>s, EffParts, CommitType DEF SettleModelCancelLate
  <1>3. ASSUME NEW e \in Eff, NEW f \in Fact, NEW u \in Usages, NEW w \in WallAfter(e),
               SettleModelLate(e, f, u, w)
        PROVE  TypeOK'
    BY <1>3, <1>p, <1>s, EffParts, CommitType, ConsumeSteerType DEF SettleModelLate
  <1>4. ASSUME NEW e \in Eff, NEW u \in Usages, NEW w \in WallAfter(e),
               SettleModelFailure(e, u, w)
        PROVE  TypeOK'
    <2>1. SealRun(Paid(e, u, w), "abort") \in Run BY <1>p, SealRunType
    <2> QED BY <1>4, <2>1, <1>s, <1>f, EffParts, CommitType DEF SettleModelFailure
  <1>5. ASSUME NEW e \in Eff, NEW u \in Usages, NEW w \in WallAfter(e),
               SettleModelFinal(e, u, w)
        PROVE  TypeOK'
    BY <1>5, <1>p, <1>s, <1>f, CloseRunType DEF SettleModelFinal
  <1>6. ASSUME NEW e \in Eff, NEW u \in Usages, NEW w \in WallAfter(e),
               SettleModelInteraction(e, u, w)
        PROVE  TypeOK'
    <2>1. Paid(e, u, w) \in Run /\ e[2] \in 0..MaxModels
      BY <1>p, EffParts, BoundAssumption
    <2>2. [Paid(e, u, w) EXCEPT !.status = "waiting", !.interaction = e[2],
                                !.close = "none", !.pending = NoSteer] \in Run
      BY <2>1, <1>0 DEF Run, RunStatus, CloseIntent
    <2> QED BY <1>6, <2>2, <1>s, <1>f, EffParts, CommitType DEF SettleModelInteraction
  <1>7. ASSUME NEW e \in Eff, NEW u \in Usages, NEW w \in WallAfter(e),
               SettleModelText(e, u, w)
        PROVE  TypeOK'
    <2> DEFINE r == RunOf(e)
               run == Paid(e, u, w)
               rows == Settled(e, "succeeded", u)
    <2>0. /\ r \in Runs /\ run \in Run /\ rows \in [Eff -> Effect]
          /\ run.models = runs[r].models /\ e[2] \in 0..MaxModels
      BY <1>p, <1>s, <1>f, EffParts, BoundAssumption
    <2>1. CASE Admits(run)
      <3>1. RoomForModel(r) BY <1>7, <2>1 DEF SettleModelText
      <3>2. AdmitModel(run) \in Run
        BY <2>0, <2>1, <3>1, AdmitModelType DEF Admits, RoomForModel
      <3>3. [AdmitModel(run) EXCEPT !.close = "none"] \in Run
        BY <3>2 DEF Run, CloseIntent
      <3>4. run.tokens \in Tokens /\ run.epoch \in Nat /\ run.gen \in Nat
        BY <2>0 DEF Run, Tokens
      <3>5. ModelRow(run, run.epoch, run.gen, e[2]) \in Effect
        BY <2>0, <3>4, ModelRowType
      <3>6. [rows EXCEPT ![NextModel(r)] = ModelRow(run, run.epoch, run.gen, e[2])]
              \in [Eff -> Effect]
        BY <2>0, <3>5
      <3> HIDE DEF r, rows, run
      <3>7. Commit(r, [AdmitModel(run) EXCEPT !.close = "none"],
                   [rows EXCEPT ![NextModel(r)] = ModelRow(run, run.epoch, run.gen, e[2])],
                   {})
        BY <1>7, <2>1 DEF SettleModelText, r, rows, run
      <3> QED BY <2>0, <3>3, <3>6, <3>7, CommitType
    <2>2. CASE ~Admits(run)
      <3>1. CloseRun(e, run, rows, "budget") BY <1>7, <2>2 DEF SettleModelText
      <3> QED BY <2>0, <3>1, CloseRunType
    <2> QED BY <2>1, <2>2
  <1>8. ASSUME NEW e \in Eff, NEW u \in Usages, NEW n \in 1..MaxTools,
               NEW w \in WallAfter(e), NEW batch \in [1..n -> pins[RunOf(e)]],
               SettleModelTools(e, u, w, n, batch)
        PROVE  TypeOK'
    <2> DEFINE r == RunOf(e)
               run == Paid(e, u, w)
               rows == Settled(e, "succeeded", u)
               spread == [x \in Eff |-> IF ModelOf(x) = e /\ x[3] \in 1..n
                                        THEN ToolRow(run, batch[x[3]]) ELSE rows[x]]
    <2>0. r \in Runs /\ run \in Run /\ rows \in [Eff -> Effect]
      BY <1>p, <1>s, <1>f, EffParts
    <2>1. CASE n > run.calls
      <3>1. CloseRun(e, run, rows, "budget") BY <1>8, <2>1 DEF SettleModelTools
      <3> QED BY <2>0, <3>1, CloseRunType
    <2>2. CASE ~(n > run.calls)
      <3>1. [run EXCEPT !.calls = @ - n] \in Run
        <4>1. run.calls \in Nat BY <2>0 DEF Run
        <4>2. run.calls - n \in Nat BY <4>1, <2>2
        <4> HIDE DEF run
        <4> QED BY <2>0, <4>2 DEF Run
      <3>2. \A i \in 1..n : ToolRow(run, batch[i]) \in Effect
        <4>1. pins[r] \subseteq Keys BY <2>0 DEF TypeOK
        <4>2. run.epoch \in Nat /\ run.gen \in Nat BY <2>0 DEF Run
        <4> HIDE DEF run
        <4> QED BY <4>1, <4>2, EmptyRowTypes DEF ToolRow, Effect, EffectStatus
      <3>3. spread \in [Eff -> Effect] BY <2>0, <3>2
      <3>4. Commit(r, [run EXCEPT !.calls = @ - n], spread, {})
        BY <1>8, <2>2 DEF SettleModelTools
      <3> HIDE DEF run, spread, r
      <3> QED BY <2>0, <3>1, <3>3, <3>4, CommitType
    <2> QED BY <2>1, <2>2
  <1> QED BY <1>1, <1>2, <1>3, <1>4, <1>5, <1>6, <1>7, <1>8 DEF ModelSettlement

\* Spawning a child, or replaying a spawn, keeps the type invariant.
LEMMA SpawningType ==
  ASSUME TypeOK, Spawning
  PROVE  TypeOK'
  <1>0. /\ \A u \in Usages : u \in Nat
        /\ \A e \in Eff : \A w \in WallAfter(e) : w \in Nat
        /\ 0 \in 0..MaxModels /\ 1 \in 0..MaxModels
        /\ "succeeded" \in EffectStatus
    BY BoundAssumption DEF EffectStatus, WallAfter
  <1>1. ASSUME NEW e \in Eff, NEW u \in Usages, NEW key \in SpawnKeys, NEW g \in Grants,
               NEW c \in Runs, NEW owned \in {{}} \cup {{k} : k \in Keys},
               NEW w \in WallAfter(e), SpawnChild(e, u, w, key, g, c, owned)
        PROVE  TypeOK'
    <2> DEFINE r == RunOf(e)
               run == Paid(e, u, w)
               child == [NoRun EXCEPT !.status = "running", !.steps = g.steps,
                             !.calls = g.calls, !.wall = g.wall, !.models = 1,
                             !.tokens = Debit(g.tokens, ModelReserve(g.tokens)),
                             !.parent = r, !.spawnkey = key, !.granted = g]
               left == [run EXCEPT !.close = "none", !.interaction = 0,
                             !.steps = @ - g.steps, !.calls = @ - g.calls,
                             !.wall = @ - g.wall, !.tokens = Debit(@, g.tokens)]
               rows == Settled(e, "succeeded", u)
    <2>1. /\ r \in Runs /\ run \in Run /\ rows \in [Eff -> Effect]
          /\ g \in Budget /\ owned \in SUBSET Keys
      BY <1>0, EffParts, PaidType, SettledType, BudgetAssumption
    <2>2. /\ runs' = [runs EXCEPT ![r] = left, ![c] = child]
          /\ effects' = [rows EXCEPT ![<<c, 1, 0>>] = ModelRow(g, 0, 0, 0)]
          /\ pins' = [pins EXCEPT ![c] = owned]
          /\ Fits(g, run)
      BY <1>1 DEF SpawnChild
    <2>3. /\ g.steps \in Nat /\ g.calls \in Nat /\ g.wall \in Nat /\ g.tokens \in Tokens
          /\ Debit(g.tokens, ModelReserve(g.tokens)) \in Tokens
      BY <2>1, ReserveType DEF Budget, Tokens
    <2>4. child \in Run
      BY <1>0, <2>1, <2>3, EmptyRowTypes DEF Run, RunStatus, Tokens
    <2>5. left \in Run
      <3> HIDE DEF run
      <3>1. /\ run.steps - g.steps \in Nat /\ run.calls - g.calls \in Nat
            /\ run.wall - g.wall \in Nat
        BY <2>1, <2>2, <2>3 DEF Fits, Run
      <3>2. Debit(run.tokens, g.tokens) \in Tokens
        BY <2>1, <2>2, <2>3 DEF Fits, Debit, Run, Tokens, Unlimited
      <3> QED BY <1>0, <2>1, <3>1, <3>2 DEF Run, CloseIntent, Tokens
    <2>6. ModelRow(g, 0, 0, 0) \in Effect BY <1>0, <2>3, ModelRowType
    <2> HIDE DEF left, child, rows, r
    <2> QED BY <2>1, <2>2, <2>4, <2>5, <2>6 DEF TypeOK
  <1>2. ASSUME NEW e \in Eff, NEW u \in Usages, NEW key \in SpawnKeys, NEW g \in Grants,
               NEW w \in WallAfter(e), SpawnReplay(e, u, w, key, g)
        PROVE  TypeOK'
    <2>1. Paid(e, u, w) \in Run /\ Settled(e, "succeeded", u) \in [Eff -> Effect]
      BY <1>0, PaidType, SettledType
    <2>2. [Paid(e, u, w) EXCEPT !.close = "none", !.interaction = 0] \in Run
      BY <1>0, <2>1 DEF Run, CloseIntent
    <2> QED BY <1>2, <2>1, <2>2, EffParts, CommitType DEF SpawnReplay
  <1> QED BY <1>1, <1>2 DEF Spawning

\* The settlement of a tool call keeps the type invariant.
LEMMA ToolSettlementType ==
  ASSUME TypeOK, ToolSettlement
  PROVE  TypeOK'
  <1>0. /\ \A f \in Fact : f \in EffectStatus
        /\ \A e \in Eff : \A w \in WallAfter(e) : w \in Nat
        /\ "unknown" \in EffectStatus
    BY DEF Fact, EffectStatus, WallAfter
  <1>p. \A e \in Eff : \A w \in WallAfter(e) :
          /\ Elapsed(e, w) \in Run
          /\ Elapsed(e, w).models = runs[RunOf(e)].models
    <2> SUFFICES ASSUME NEW e \in Eff, NEW w \in WallAfter(e)
                 PROVE  /\ Elapsed(e, w) \in Run
                        /\ Elapsed(e, w).models = runs[RunOf(e)].models
      OBVIOUS
    <2>1. runs[RunOf(e)] \in Run BY RowTypes
    <2> QED BY <1>0, <2>1, ElapsedType DEF Elapsed, Run
  <1>s. \A e \in Eff, f \in Fact \cup {"unknown"} : Settled(e, f, 0) \in [Eff -> Effect]
    BY <1>0, SettledType
  <1>1. ASSUME NEW e \in Eff, NEW w \in WallAfter(e), SettleToolUnknown(e, w)
        PROVE  TypeOK'
    <2>1. Elapsed(e, w) \in Run /\ SealRun(Elapsed(e, w), "unknown") \in Run
      BY <1>p, SealRunType
    <2> QED BY <1>1, <2>1, <1>s, EffParts, CommitType DEF SettleToolUnknown
  <1>2. ASSUME NEW e \in Eff, NEW f \in Fact, NEW w \in WallAfter(e), SettleToolOpen(e, f, w)
        PROVE  TypeOK'
    BY <1>2, <1>p, <1>s, EffParts, CommitType DEF SettleToolOpen
  <1>3. ASSUME NEW e \in Eff, NEW f \in Fact, NEW w \in WallAfter(e), SettleToolLate(e, f, w)
        PROVE  TypeOK'
    BY <1>3, <1>p, <1>s, EffParts, CommitType, ConsumeSteerType DEF SettleToolLate
  <1>4. ASSUME NEW e \in Eff, NEW f \in Fact, NEW w \in WallAfter(e),
               SettleToolClosing(e, f, w)
        PROVE  TypeOK'
    <2> DEFINE r == RunOf(e)
               run == Elapsed(e, w)
               rows == Settled(e, f, 0)
    <2>0. /\ r \in Runs /\ run \in Run /\ rows \in [Eff -> Effect]
          /\ run.models = runs[r].models /\ e[2] \in 0..MaxModels
      BY <1>p, <1>s, EffParts, BoundAssumption
    <2>1. CASE run.close = "final"
      BY <1>4, <2>0, <2>1, CloseRunType DEF SettleToolClosing
    <2>2. CASE run.close # "final" /\ Admits(run)
      <3>1. RoomForModel(r) BY <1>4, <2>2 DEF SettleToolClosing
      <3>2. AdmitModel(run) \in Run
        BY <2>0, <2>2, <3>1, AdmitModelType DEF Admits, RoomForModel
      <3>3. [AdmitModel(run) EXCEPT !.close = "none"] \in Run
        BY <3>2 DEF Run, CloseIntent
      <3>4. run.tokens \in Tokens /\ run.epoch \in Nat /\ run.gen \in Nat
        BY <2>0 DEF Run, Tokens
      <3>5. ModelRow(run, run.epoch, run.gen, e[2]) \in Effect
        BY <2>0, <3>4, ModelRowType
      <3>6. [rows EXCEPT ![NextModel(r)] = ModelRow(run, run.epoch, run.gen, e[2])]
              \in [Eff -> Effect]
        BY <2>0, <3>5
      <3> HIDE DEF r, rows, run
      <3>7. Commit(r, [AdmitModel(run) EXCEPT !.close = "none"],
                   [rows EXCEPT ![NextModel(r)] = ModelRow(run, run.epoch, run.gen, e[2])],
                   {})
        BY <1>4, <2>2 DEF SettleToolClosing, r, rows, run
      <3> QED BY <2>0, <3>3, <3>6, <3>7, CommitType
    <2>3. CASE run.close # "final" /\ ~Admits(run)
      BY <1>4, <2>0, <2>3, CloseRunType DEF SettleToolClosing
    <2> QED BY <2>1, <2>2, <2>3
  <1> QED BY <1>1, <1>2, <1>3, <1>4 DEF ToolSettlement

\* A recovery sweep keeps the type invariant.
LEMMA SweepType ==
  ASSUME TypeOK, Sweep
  PROVE  TypeOK'
  <1>1. PICK S \in SUBSET Expired, wall \in [Runs -> 0..MaxWall] : Recover(S, wall)
    BY DEF Sweep
  <1> DEFINE Hit(r) == S \cap EffectsOf(r)
             Kept(r) == \A e \in Hit(r) : CancelLate(e)
             timed(r) == [runs[r] EXCEPT !.wall = wall[r]]
  <1>2. ASSUME NEW r \in Runs PROVE timed(r) \in Run /\ SealRun(timed(r), "unknown") \in Run
    <2>1. runs[r] \in Run /\ wall[r] \in Nat BY RowTypes
    <2>2. timed(r) \in Run BY <2>1 DEF Run
    <2> QED BY <2>2, SealRunType
  <1>3. runs' \in [Runs -> Run]
    <2>1. runs' = [r \in Runs |->
                     IF Hit(r) = {} THEN runs[r]
                     ELSE IF Kept(r) THEN timed(r) ELSE SealRun(timed(r), "unknown")]
      BY <1>1 DEF Recover, Walled
    <2> HIDE DEF timed, Hit, Kept
    <2> QED BY <1>2, <2>1, RowTypes
  <1>4. effects' \in [Eff -> Effect]
    <2>1. effects' = [e \in Eff |->
            IF e \in S
            THEN [effects[e] EXCEPT !.status = "unknown", !.expired = FALSE,
                                    !.charge = effects[e].reserve]
            ELSE effects[e]]
      BY <1>1 DEF Recover, Walled
    <2>2. \A e \in Eff :
            [effects[e] EXCEPT !.status = "unknown", !.expired = FALSE,
                               !.charge = effects[e].reserve] \in Effect
      BY RowTypes DEF Effect, EffectStatus
    <2> QED BY <2>1, <2>2, RowTypes
  <1>5. pins' \in [Runs -> SUBSET Keys]
    <2>1. pins' = [r \in Runs |->
          IF Hit(r) = {} THEN pins[r]
          ELSE pins[r] \ RunPinReleaseSet(r, {e \in Hit(r) : IsModel(e) /\ ~Kept(r)})]
      BY <1>1 DEF Recover, Walled
    <2> QED BY <2>1 DEF TypeOK
  <1> QED BY <1>3, <1>4, <1>5 DEF TypeOK

\* Claims and expiring leases keep the type invariant.
LEMMA WorkerType ==
  ASSUME TypeOK, NEW e \in Eff, Claim(e) \/ ExpireLease(e)
  PROVE  TypeOK'
  <1>1. effects[e] \in Effect BY RowTypes
  <1>2. /\ [effects[e] EXCEPT !.status = "claimed"] \in Effect
        /\ [effects[e] EXCEPT !.expired = TRUE] \in Effect
    BY <1>1 DEF Effect, EffectStatus
  <1> QED BY <1>2 DEF Claim, ExpireLease, TypeOK

\* The empty tables are well typed.
LEMMA InitType ==
  ASSUME Init
  PROVE  TypeOK
  BY EmptyRowTypes DEF Init, TypeOK

\* Every step keeps the type invariant.
LEMMA StepType ==
  ASSUME TypeOK, [Next]_vars
  PROVE  TypeOK'
  <1>1. CASE Next
    BY <1>1, UserCommandType, ModelSettlementType, SpawningType, ToolSettlementType,
       SweepType, WorkerType DEF Next
  <1>2. CASE UNCHANGED vars BY <1>2 DEF vars, TypeOK
  <1> QED BY <1>1, <1>2

\* Every run, effect and pin row keeps the domain of its table: in particular no
\* step, call, token or wall balance is ever debited below zero, whatever
\* receipts, steers and spawns interleave (v24.runs check constraints).
THEOREM TypeCorrect == Spec => []TypeOK
  <1>1. Init => TypeOK BY InitType
  <1>2. TypeOK /\ [Next]_vars => TypeOK' BY StepType
  <1> QED BY <1>1, <1>2, PTL DEF Spec

-----------------------------------------------------------------------------
(* The safety invariants.  None of them is inductive alone: a steer may be
   consumed at once only because no unknown effect is left on an open run, a
   frozen close intent cannot happen only because live effects share one batch,
   and so on.  RunOK(r) is their conjunction for one run.  Every action but a
   spawn and a sweep writes the rows of one run only, so the proof is one lemma
   per action about that run and a frame lemma for the others. *)

RunOK(r) ==
  /\ runs[r].status = "none" => runs[r].models = 0
  /\ runs[r].status = "blocked_unknown" =>
       /\ runs[r].close = "unknown"
       /\ \E x \in EffectsOf(r) : effects[x].status = "unknown"
  /\ runs[r].status \in {"running", "waiting"} => runs[r].close = "none"
  /\ runs[r].interaction # 0 <=> runs[r].status = "waiting"
  /\ runs[r].pending # NoSteer =>
       /\ runs[r].status = "running"
       /\ runs[r].pending = [epoch |-> runs[r].epoch, gen |-> runs[r].gen]
       /\ \E x \in EffectsOf(r) : effects[x].status = "claimed"
       /\ \A x \in EffectsOf(r) :
            Live(x) => effects[x].status = "claimed" /\ effects[x].gen < runs[r].gen
  /\ \A x, y \in EffectsOf(r) :
       Live(x) /\ Live(y) /\ x # y => IsTool(x) /\ IsTool(y) /\ x[2] = y[2]
  /\ \A x \in EffectsOf(r) :
       /\ effects[x].status # "none" => x[2] <= runs[r].models
       /\ Live(x) /\ runs[r].status \in {"running", "waiting"} /\ runs[r].pending = NoSteer
            => effects[x].gen = runs[r].gen /\ effects[x].epoch = runs[r].epoch
       /\ Live(x) => /\ runs[r].status \in {"running", "cancelled", "blocked_unknown"}
                     /\ runs[r].status = "cancelled"
                          => effects[x].status = "claimed" /\ effects[x].cancelreq
       /\ effects[x].status = "unknown" => runs[r].status \in {"blocked_unknown", "cancelled"}
       /\ IsTool(x) /\ Blocks(x) => effects[x].key \in pins[r]

AllOK == \A r \in Runs : RunOK(r)

\* The effects of a run are effects, and they are that run's.
LEMMA EffectsOfRun ==
  ASSUME NEW r, NEW x \in EffectsOf(r)
  PROVE  x \in Eff /\ RunOf(x) = r
  BY DEF EffectsOf

\* LoopInvariant speaks of one run at a time.
LEMMA InvariantByRun ==
  LoopInvariant <=> TypeOK /\ AllOK
  <1>1. ASSUME LoopInvariant, NEW r \in Runs PROVE RunOK(r)
    BY <1>1 DEF LoopInvariant, RunOK, Numbered, OneDriver, SteerNotLost, CurrentGeneration,
       QuietSeal, UnknownWall, NoFrozenClose, PinsCoverTools, EffectsOf, ClaimedOf, Late
  <1>2. ASSUME TypeOK, AllOK PROVE LoopInvariant
    <2> USE EffParts, EffectsOfRun
    <2>1. Numbered BY <1>2 DEF AllOK, RunOK, Numbered
    <2>2. OneDriver
      <3> SUFFICES ASSUME NEW d \in Eff, NEW e \in Eff,
                          Live(d), Live(e), RunOf(d) = RunOf(e), d # e
                   PROVE  IsTool(d) /\ IsTool(e) /\ d[2] = e[2]
        BY DEF OneDriver
      <3>1. RunOK(RunOf(e)) /\ d \in EffectsOf(RunOf(e)) /\ e \in EffectsOf(RunOf(e))
        BY <1>2 DEF AllOK
      <3> QED BY <3>1 DEF RunOK
    <2>3. SteerNotLost BY <1>2 DEF AllOK, RunOK, SteerNotLost, ClaimedOf
    <2>4. CurrentGeneration BY <1>2 DEF AllOK, RunOK, CurrentGeneration, Late
    <2>5. QuietSeal BY <1>2 DEF AllOK, RunOK, QuietSeal
    <2>6. UnknownWall BY ZenonT(60), <1>2 DEF AllOK, RunOK, UnknownWall
    <2>7. NoFrozenClose BY <1>2 DEF AllOK, RunOK, NoFrozenClose
    <2>8. PinsCoverTools BY <1>2 DEF AllOK, RunOK, PinsCoverTools
    <2> QED BY <1>2, <2>1, <2>2, <2>3, <2>4, <2>5, <2>6, <2>7, <2>8 DEF LoopInvariant
  <1> QED BY <1>1, <1>2 DEF LoopInvariant, AllOK

\* The same, of the state after a step.
LEMMA InvariantByRunPrime ==
  ASSUME TypeOK', AllOK'
  PROVE  LoopInvariant'
  BY InvariantByRun, PTL

-----------------------------------------------------------------------------
(* What a step leaves alone. *)

Untouched(r) ==
  /\ runs'[r] = runs[r] /\ pins'[r] = pins[r]
  /\ \A x \in EffectsOf(r) : effects'[x] = effects[x]

OnlyRun(r) == \A q \in Runs \ {r} : Untouched(q)

\* A run the step does not touch stays as it was.
LEMMA UntouchedOK ==
  ASSUME NEW r, RunOK(r), Untouched(r)
  PROVE  RunOK(r)'
  BY DEF RunOK, Untouched, EffectsOf, Live, Blocks, RunOf, IsTool

\* A step that touches one run only has to restore that run.
LEMMA FrameOK ==
  ASSUME AllOK, NEW r \in Runs, OnlyRun(r), RunOK(r)'
  PROVE  AllOK'
  BY UntouchedOK DEF AllOK, OnlyRun

\* A commit touches the run it names and no other.
LEMMA CommitFrame ==
  ASSUME TypeOK, NEW r \in Runs, NEW run, NEW rows, NEW released,
         Commit(r, run, rows, released),
         \A x \in Eff : RunOf(x) # r => rows[x] = effects[x]
  PROVE  /\ OnlyRun(r) /\ runs'[r] = run /\ effects' = rows
         /\ pins'[r] = pins[r] \ released
  BY EffectsOfRun DEF Commit, OnlyRun, Untouched, TypeOK

-----------------------------------------------------------------------------
(* Facts about the state a settlement starts from. *)

\* Nothing else of the run blocks: the settling effect is the last one.
Solo(r, e) == \A x \in EffectsOf(r) \ {e} : ~Blocks(x)

\* The run a settlement pays from differs from the row in its balances only.
Charged(run, r) ==
  /\ run.status = runs[r].status /\ run.epoch = runs[r].epoch /\ run.gen = runs[r].gen
  /\ run.interaction = runs[r].interaction /\ run.pending = runs[r].pending
  /\ run.close = runs[r].close /\ run.models = runs[r].models

\* Charging a receipt moves balances only: status, generation, steer and numbering stay.
LEMMA PaidCharged ==
  ASSUME TypeOK, NEW e \in Eff, NEW u, NEW w
  PROVE  Charged(Paid(e, u, w), RunOf(e)) /\ Charged(Elapsed(e, w), RunOf(e))
  <1>1. runs[RunOf(e)] \in Run BY RowTypes
  <1> QED BY <1>1 DEF Paid, Elapsed, Charged, Run

\* A model call that settles in its own generation is alone on a running run
\* without a deferred steer.
LEMMA ModelAlone ==
  ASSUME TypeOK, NEW e \in Eff, RunOK(RunOf(e)), NEW u, ModelSettlesNow(e, u)
  PROVE  /\ runs[RunOf(e)].status = "running" /\ runs[RunOf(e)].pending = NoSteer
         /\ Solo(RunOf(e), e)
  <1> DEFINE r == RunOf(e)
  <1>1. /\ Live(e) /\ IsModel(e) /\ ~IsTool(e) /\ ~Late(e)
        /\ runs[r].status \in {"running", "waiting"}
    BY DEF ModelSettlesNow, ModelSettles, Live, IsModel, IsTool
  <1>2. e \in EffectsOf(r) BY EffParts
  <1>3. runs[r].status = "running" BY <1>1, <1>2 DEF RunOK
  <1>4. effects[e].gen \in Nat /\ runs[r].gen \in Nat BY RowTypes DEF Effect, Run
  <1>5. runs[r].pending = NoSteer
    <2> SUFFICES ASSUME runs[r].pending # NoSteer PROVE FALSE OBVIOUS
    <2>1. effects[e].gen < runs[r].gen BY <1>1, <1>2 DEF RunOK
    <2> QED BY <1>1, <1>4, <2>1 DEF Late
  <1>6. ASSUME NEW x \in EffectsOf(r) \ {e} PROVE ~Blocks(x)
    <2>1. ~Live(x) BY <1>1, <1>2 DEF RunOK
    <2>2. effects[x].status # "unknown" BY <1>3 DEF RunOK
    <2> QED BY <2>1, <2>2 DEF Blocks
  <1> QED BY <1>3, <1>5, <1>6 DEF Solo

\* The settlement that consumes a deferred steer is the last one of its run.
LEMMA ConsumerAlone ==
  ASSUME TypeOK, NEW e \in Eff, RunOK(RunOf(e)), SteerConsumable(RunOf(e), e)
  PROVE  /\ runs[RunOf(e)].status = "running"
         /\ runs[RunOf(e)].pending = [epoch |-> runs[RunOf(e)].epoch,
                                      gen |-> runs[RunOf(e)].gen]
         /\ Solo(RunOf(e), e)
  <1> DEFINE r == RunOf(e)
  <1>1. /\ runs[r].status = "running"
        /\ runs[r].pending = [epoch |-> runs[r].epoch, gen |-> runs[r].gen]
        /\ \A x \in EffectsOf(r) :
             Live(x) => effects[x].status = "claimed" /\ effects[x].gen < runs[r].gen
    BY DEF SteerConsumable, RunOK
  <1>2. ASSUME NEW x \in EffectsOf(r) \ {e} PROVE ~Blocks(x)
    <2>1. ~Live(x) BY <1>1 DEF SteerConsumable
    <2>2. effects[x].status # "unknown" BY <1>1 DEF RunOK
    <2> QED BY <2>1, <2>2 DEF Blocks
  <1> QED BY <1>1, <1>2 DEF Solo

\* A tool that closes its batch in its own generation is the last effect.
LEMMA ToolAlone ==
  ASSUME TypeOK, NEW e \in Eff, RunOK(RunOf(e)), ToolSettles(e),
         \A x \in Siblings(e) : ~Live(x), ~ToolLate(e)
  PROVE  /\ runs[RunOf(e)].status = "running" /\ runs[RunOf(e)].pending = NoSteer
         /\ Solo(RunOf(e), e)
  <1> DEFINE r == RunOf(e)
  <1>1. Live(e) /\ IsTool(e) /\ ~Late(e) /\ runs[r].status \notin Terminal
    BY DEF ToolSettles, Live, ToolLate
  <1>2. e \in EffectsOf(r) BY EffParts
  <1>3. runs[r].status = "running" BY <1>1, <1>2 DEF RunOK, Terminal
  <1>4. effects[e].gen \in Nat /\ runs[r].gen \in Nat BY RowTypes DEF Effect, Run
  <1>5. runs[r].pending = NoSteer
    <2> SUFFICES ASSUME runs[r].pending # NoSteer PROVE FALSE OBVIOUS
    <2>1. effects[e].gen < runs[r].gen BY <1>1, <1>2 DEF RunOK
    <2> QED BY <1>1, <1>4, <2>1 DEF Late
  <1>6. ASSUME NEW x \in EffectsOf(r) \ {e} PROVE ~Blocks(x)
    <2>1. ~Live(x)
      <3> SUFFICES ASSUME Live(x) PROVE FALSE OBVIOUS
      <3>1. IsTool(x) /\ x[2] = e[2] BY <1>1, <1>2 DEF RunOK
      <3>2. x[1] = e[1] BY EffectsOfRun DEF RunOf
      <3>3. x \in Siblings(e) BY <3>1, <3>2 DEF Siblings, ModelOf
      <3> QED BY <3>3
    <2>2. effects[x].status # "unknown" BY <1>3 DEF RunOK
    <2> QED BY <2>1, <2>2 DEF Blocks
  <1> QED BY <1>3, <1>5, <1>6 DEF Solo

-----------------------------------------------------------------------------
(* What makes a run well-formed after a step. *)

\* Enough for a run with no deferred steer and no unknown effect.
LEMMA RenewedOK ==
  ASSUME NEW r,
         runs'[r].status \in {"running", "waiting", "completed", "failed"},
         runs'[r].pending = NoSteer,
         runs'[r].status \in {"running", "waiting"} => runs'[r].close = "none",
         runs'[r].interaction # 0 <=> runs'[r].status = "waiting",
         \A x \in EffectsOf(r) :
           /\ effects'[x].status # "none" => x[2] <= runs'[r].models
           /\ effects'[x].status # "unknown"
           /\ effects'[x].status \in {"ready", "claimed"} =>
                /\ runs'[r].status = "running"
                /\ effects'[x].gen = runs'[r].gen /\ effects'[x].epoch = runs'[r].epoch
                /\ IsTool(x) => effects'[x].key \in pins'[r],
         \A x, y \in EffectsOf(r) :
           /\ effects'[x].status \in {"ready", "claimed"}
           /\ effects'[y].status \in {"ready", "claimed"}
           /\ x # y
           => IsTool(x) /\ IsTool(y) /\ x[2] = y[2]
  PROVE  RunOK(r)'
  BY DEF RunOK, EffectsOf, RunOf, Live, Blocks, IsTool

\* Rows after the last effect of a run settles with a fact: nothing is live.
LEMMA SoloRows ==
  ASSUME TypeOK, NEW r \in Runs, RunOK(r), NEW e \in EffectsOf(r), Live(e), Solo(r, e),
         NEW f \in Fact, NEW charge, NEW x \in EffectsOf(r)
  PROVE  /\ Settled(e, f, charge)[x].status \notin {"ready", "claimed", "unknown"}
         /\ x # e => Settled(e, f, charge)[x] = effects[x]
         /\ Settled(e, f, charge)[x].status # "none" => x[2] <= runs[r].models
  <1>1. x \in Eff /\ e \in Eff BY EffectsOfRun
  <1>2. effects[e] \in Effect BY <1>1, RowTypes
  <1>3. CASE x = e
    <2>1. Settled(e, f, charge)[e].status = f BY <1>1, <1>2 DEF Settled, TypeOK, Effect
    <2>2. effects[e].status # "none" BY DEF Live
    <2> QED BY <1>3, <2>1, <2>2 DEF Fact, RunOK
  <1>4. CASE x # e
    <2>1. Settled(e, f, charge)[x] = effects[x] BY <1>1, <1>4 DEF Settled, TypeOK
    <2> QED BY <1>4, <2>1 DEF Solo, Blocks, Live, RunOK
  <1> QED BY <1>3, <1>4

\* Storing a receipt leaves the effects of every other run alone.
LEMMA SettledFrame ==
  ASSUME TypeOK, NEW e \in Eff, NEW f, NEW charge, NEW x \in Eff, RunOf(x) # RunOf(e)
  PROVE  Settled(e, f, charge)[x] = effects[x]
  BY DEF Settled, TypeOK

\* The last effect settles and the run rests: it is sealed or asks a question.
LEMMA RestingOK ==
  ASSUME TypeOK, NEW e \in Eff, RunOK(RunOf(e)), Live(e), Solo(RunOf(e), e),
         NEW f \in Fact, NEW charge, NEW run, NEW released,
         Commit(RunOf(e), run, Settled(e, f, charge), released),
         run.status \in {"waiting", "completed", "failed"},
         run.status = "waiting" => run.close = "none",
         run.interaction # 0 <=> run.status = "waiting",
         run.pending = NoSteer, run.models = runs[RunOf(e)].models
  PROVE  OnlyRun(RunOf(e)) /\ RunOK(RunOf(e))'
  <1> DEFINE r == RunOf(e)
  <1>1. r \in Runs /\ e \in EffectsOf(r) BY EffParts
  <1>2. /\ OnlyRun(r) /\ runs'[r] = run /\ effects' = Settled(e, f, charge)
    BY <1>1, CommitFrame, SettledFrame
  <1>3. \A x \in EffectsOf(r) :
          /\ effects'[x].status \notin {"ready", "claimed", "unknown"}
          /\ effects'[x].status # "none" => x[2] <= run.models
    BY <1>1, <1>2, SoloRows
  <1>4. RunOK(r)'
    <2> HIDE DEF r
    <2> QED BY <1>2, <1>3, RenewedOK DEF r
  <1> QED BY <1>2, <1>4

\* The last effect settles and one model call of the current generation follows.
LEMMA ContinuedOK ==
  ASSUME TypeOK, NEW e \in Eff, RunOK(RunOf(e)), Live(e), Solo(RunOf(e), e),
         RoomForModel(RunOf(e)), NEW f \in Fact, NEW charge, NEW run, NEW released,
         NEW row, row.status = "ready", row.epoch = run.epoch, row.gen = run.gen,
         Commit(RunOf(e), run,
                [Settled(e, f, charge) EXCEPT ![NextModel(RunOf(e))] = row], released),
         run.status = "running", run.close = "none", run.interaction = 0,
         run.pending = NoSteer, run.models = runs[RunOf(e)].models + 1
  PROVE  OnlyRun(RunOf(e)) /\ RunOK(RunOf(e))'
  <1> DEFINE r == RunOf(e)
             m == NextModel(r)
             rows == [Settled(e, f, charge) EXCEPT ![m] = row]
  <1>1. /\ r \in Runs /\ e \in EffectsOf(r) /\ m \in Eff /\ RunOf(m) = r
        /\ ~IsTool(m) /\ m[2] = runs[r].models + 1 /\ runs[r].models \in Nat
    BY EffParts, NextModelEff, RowTypes DEF NextModel, IsTool, Run
  <1>2. \A x \in Eff : rows[x] = IF x = m THEN row ELSE Settled(e, f, charge)[x]
    BY <1>1 DEF Settled, TypeOK
  <1>3. \A x \in Eff : RunOf(x) # r => rows[x] = effects[x]
    BY <1>1, <1>2, SettledFrame
  <1>4. Commit(r, run, rows, released) OBVIOUS
  <1> HIDE DEF rows, m, r
  <1>5. OnlyRun(r) /\ runs'[r] = run /\ effects' = rows
    BY <1>1, <1>3, <1>4, CommitFrame
  <1>6. \A x \in EffectsOf(r) : x # m =>
          /\ effects'[x].status \notin {"ready", "claimed", "unknown"}
          /\ effects'[x].status # "none" => x[2] <= runs[r].models
    BY <1>1, <1>2, <1>5, SoloRows, EffectsOfRun DEF r
  <1>7. /\ effects'[m].status = "ready" /\ effects'[m].epoch = run.epoch
        /\ effects'[m].gen = run.gen
    BY <1>1, <1>2, <1>5
  <1>8. \A x \in EffectsOf(r) : x[2] \in Nat BY EffectsOfRun, EffParts
  <1>9. RunOK(r)' BY <1>1, <1>5, <1>6, <1>7, <1>8, RenewedOK DEF r
  <1> QED BY <1>5, <1>9 DEF r

\* Closing behind the last effect always seals: no close intent is left frozen.
LEMMA CloseRunOK ==
  ASSUME TypeOK, NEW e \in Eff, RunOK(RunOf(e)), Live(e), Solo(RunOf(e), e),
         runs[RunOf(e)].status = "running", runs[RunOf(e)].pending = NoSteer,
         NEW f \in Fact, NEW charge, NEW run \in Run, Charged(run, RunOf(e)),
         NEW close \in {"final", "budget"},
         CloseRun(e, run, Settled(e, f, charge), close)
  PROVE  OnlyRun(RunOf(e)) /\ RunOK(RunOf(e))'
  <1>1. LoopSealable(RunOf(e), {e}, run.pending, FALSE)
    BY DEF LoopSealable, Solo, Charged
  <1>2. Commit(RunOf(e), SealRun(run, close), Settled(e, f, charge),
               RunPinReleaseSet(RunOf(e), {e}))
    BY <1>1 DEF CloseRun
  <1>3. /\ SealRun(run, close).status = "completed" /\ SealRun(run, close).interaction = 0
        /\ SealRun(run, close).pending = NoSteer
        /\ SealRun(run, close).models = runs[RunOf(e)].models
    BY DEF SealRun, Run, Charged
  <1> QED BY <1>2, <1>3, RestingOK

\* Consuming the steer admits one model call of its generation, or seals.
LEMMA ConsumeSteerOK ==
  ASSUME TypeOK, NEW e \in Eff, RunOK(RunOf(e)), Live(e), SteerConsumable(RunOf(e), e),
         NEW f \in Fact, NEW charge, NEW run \in Run, Charged(run, RunOf(e)),
         ConsumeSteer(RunOf(e), e, run, Settled(e, f, charge))
  PROVE  OnlyRun(RunOf(e)) /\ RunOK(RunOf(e))'
  <1> DEFINE r == RunOf(e)
  <1>1. /\ runs[r].status = "running" /\ Solo(r, e)
        /\ runs[r].pending = [epoch |-> runs[r].epoch, gen |-> runs[r].gen]
    BY ConsumerAlone
  <1>2. /\ run.pending.epoch = run.epoch /\ run.pending.gen = run.gen
        /\ run.status = "running" /\ run.close = "none" /\ run.interaction = 0
    BY <1>1 DEF Charged, RunOK
  <1>3. CASE Admits(run)
    <2> DEFINE gen == IF run.gen > run.pending.gen THEN run.gen ELSE run.pending.gen
               row == ModelRow(run, run.pending.epoch, gen, 0)
               next == [AdmitModel(run) EXCEPT !.pending = NoSteer]
    <2>1. RoomForModel(r) BY <1>3 DEF ConsumeSteer
    <2>2. /\ next.status = "running" /\ next.close = "none" /\ next.interaction = 0
          /\ next.pending = NoSteer /\ next.models = runs[r].models + 1
          /\ next.epoch = run.epoch /\ next.gen = run.gen
      BY <1>2 DEF AdmitModel, Run, Charged
    <2>3. gen = run.gen BY <1>2
    <2>4. row.status = "ready" /\ row.epoch = run.epoch /\ row.gen = run.gen
      BY <1>2, <2>3 DEF ModelRow, NoEffect
    <2>5. Commit(r, next, [Settled(e, f, charge) EXCEPT ![NextModel(r)] = row], {})
      BY <1>3 DEF ConsumeSteer
    <2> HIDE DEF row, next
    <2> QED BY <1>1, <2>1, <2>2, <2>4, <2>5, ContinuedOK
  <1>4. CASE ~Admits(run)
    <2>1. LoopSealable(r, {e}, NoSteer, FALSE) BY <1>1 DEF LoopSealable, Solo
    <2>2. Commit(r, SealRun(run, "budget"), Settled(e, f, charge), RunPinReleaseSet(r, {e}))
      BY <1>4, <2>1 DEF ConsumeSteer
    <2>3. /\ SealRun(run, "budget").status = "completed"
          /\ SealRun(run, "budget").interaction = 0
          /\ SealRun(run, "budget").pending = NoSteer
          /\ SealRun(run, "budget").models = runs[r].models
      BY DEF SealRun, Run, Charged
    <2> QED BY <1>1, <2>2, <2>3, RestingOK
  <1> QED BY <1>3, <1>4

\* An effect settles with a fact and publishes nothing: the other rows stay, no
\* pin of a blocking effect goes, and a deferred steer keeps another claim.
LEMMA FactOK ==
  ASSUME TypeOK, NEW e \in Eff, RunOK(RunOf(e)), Live(e),
         NEW f \in Fact, NEW charge, NEW run, Charged(run, RunOf(e)), NEW released,
         Commit(RunOf(e), run, Settled(e, f, charge), released),
         released \subseteq RunPinReleaseSet(RunOf(e), {e}),
         runs[RunOf(e)].pending # NoSteer =>
           \E x \in EffectsOf(RunOf(e)) \ {e} : effects[x].status = "claimed"
  PROVE  OnlyRun(RunOf(e)) /\ RunOK(RunOf(e))'
  <1> DEFINE r == RunOf(e)
  <1>1. r \in Runs /\ e \in EffectsOf(r) BY EffParts
  <1>2. /\ OnlyRun(r) /\ runs'[r] = run /\ effects' = Settled(e, f, charge)
        /\ pins'[r] = pins[r] \ released
    BY <1>1, CommitFrame, SettledFrame
  <1>3. effects[e] \in Effect /\ effects[e].status # "none" BY RowTypes DEF Live
  <1>4. effects'[e].status = f BY <1>2, <1>3 DEF Settled, TypeOK, Effect
  <1>5. \A x \in EffectsOf(r) \ {e} : effects'[x] = effects[x]
    BY <1>2, EffectsOfRun DEF Settled, TypeOK
  <1>6. effects'[e].status \notin {"ready", "claimed", "unknown", "none"} BY <1>4 DEF Fact
  <1>7. \A x \in EffectsOf(r) \ {e} :
          IsTool(x) /\ Blocks(x) => effects[x].key \in pins'[r]
    BY <1>2 DEF RunOK, RunPinReleaseSet
  <1>8. Charged(runs'[r], r) BY <1>2
  <1> HIDE DEF r
  <1>9. RunOK(r)'
    BY <1>1, <1>3, <1>5, <1>6, <1>7, <1>8
       DEF RunOK, Charged, EffectsOf, RunOf, Live, Blocks, IsTool, r
  <1> QED BY <1>2, <1>9 DEF r

\* Claims turn unknown: the run is walled off, or was cancelled before, and the
\* pins of all tools that block keep standing.
LEMMA WallOK ==
  ASSUME NEW r, RunOK(r), NEW S \in SUBSET EffectsOf(r), S # {},
         \A x \in S : /\ Live(x) /\ effects'[x].status = "unknown"
                      /\ effects'[x].key = effects[x].key,
         \A x \in EffectsOf(r) \ S : effects'[x] = effects[x],
         \A x \in EffectsOf(r) : IsTool(x) /\ Blocks(x) => effects[x].key \in pins'[r],
         \/ /\ runs'[r].status = "blocked_unknown" /\ runs'[r].close = "unknown"
            /\ runs'[r].interaction = 0 /\ runs'[r].pending = NoSteer
            /\ runs'[r].models = runs[r].models
         \/ runs[r].status = "cancelled" /\ Charged(runs'[r], r)
  PROVE  RunOK(r)'
  <1>1. \A x \in S : effects[x].status # "none" BY DEF Live
  <1> QED BY <1>1 DEF RunOK, Charged, EffectsOf, RunOf, Live, Blocks, IsTool

\* One settlement with an unknown outcome.
LEMMA UnknownOK ==
  ASSUME TypeOK, NEW e \in Eff, RunOK(RunOf(e)), effects[e].status = "claimed",
         NEW charge, NEW run \in Run, Charged(run, RunOf(e)), NEW released,
         \/ /\ CancelLate(e)
            /\ Commit(RunOf(e), run, Settled(e, "unknown", charge), released)
         \/ Commit(RunOf(e), SealRun(run, "unknown"), Settled(e, "unknown", charge), released),
         \/ released = RunPinReleaseSet(RunOf(e), {})
         \/ released = RunPinReleaseSet(RunOf(e), {e}) /\ IsModel(e)
  PROVE  OnlyRun(RunOf(e)) /\ RunOK(RunOf(e))'
  <1> DEFINE r == RunOf(e)
             rows == Settled(e, "unknown", charge)
  <1>1. r \in Runs /\ e \in EffectsOf(r) /\ Live(e) BY EffParts DEF Live
  <1>2. \A x \in Eff : RunOf(x) # r => rows[x] = effects[x] BY SettledFrame
  <1>3. SealRun(run, "unknown") = SealRun(run, "unknown") OBVIOUS
  <1>4. /\ OnlyRun(r) /\ effects' = rows /\ pins'[r] = pins[r] \ released
        /\ \/ CancelLate(e) /\ runs'[r] = run
           \/ runs'[r] = SealRun(run, "unknown")
    BY <1>1, <1>2, CommitFrame
  <1>5. effects[e] \in Effect BY RowTypes
  <1>6. effects'[e].status = "unknown" /\ effects'[e].key = effects[e].key
    BY <1>4, <1>5 DEF Settled, TypeOK, Effect
  <1>7. \A x \in EffectsOf(r) \ {e} : effects'[x] = effects[x]
    BY <1>4, EffectsOfRun DEF Settled, TypeOK
  <1>8. \A x \in EffectsOf(r) : IsTool(x) /\ Blocks(x) => effects[x].key \in pins'[r]
    <2>1. IsModel(e) => ~IsTool(e) BY DEF IsModel, IsTool
    <2> QED BY <1>4, <2>1 DEF RunOK, RunPinReleaseSet
  <1>9. /\ SealRun(run, "unknown").status = "blocked_unknown"
        /\ SealRun(run, "unknown").close = "unknown"
        /\ SealRun(run, "unknown").interaction = 0
        /\ SealRun(run, "unknown").pending = NoSteer
        /\ SealRun(run, "unknown").models = runs[r].models
    BY DEF SealRun, Run, Charged
  <1>10. RunOK(r)'
    <2>1. CancelLate(e) => runs[r].status = "cancelled" BY DEF CancelLate
    <2> HIDE DEF r
    <2> QED BY <1>1, <1>4, <1>6, <1>7, <1>8, <1>9, <2>1, WallOK DEF r
  <1> QED BY <1>4, <1>10

\* While a steer is deferred and the settling effect is not its consumer,
\* another claim is left that may be.
LEMMA OtherClaim ==
  ASSUME NEW e \in Eff, RunOK(RunOf(e)), Live(e), ~SteerConsumable(RunOf(e), e),
         runs[RunOf(e)].pending # NoSteer
  PROVE  \E x \in EffectsOf(RunOf(e)) \ {e} : effects[x].status = "claimed"
  <1>1. e \in EffectsOf(RunOf(e)) BY EffParts
  <1>2. effects[e].gen < runs[RunOf(e)].gen /\ runs[RunOf(e)].status \notin Terminal
    BY <1>1 DEF RunOK, Terminal
  <1>3. \E x \in EffectsOf(RunOf(e)) \ {e} : Live(x)
    BY <1>2 DEF SteerConsumable
  <1> QED BY <1>3 DEF RunOK

\* A model call fans out into the tools of one batch, each of which names a pin.
LEMMA FanOutOK ==
  ASSUME TypeOK, NEW e \in Eff, IsModel(e), RunOK(RunOf(e)), Live(e), Solo(RunOf(e), e),
         runs[RunOf(e)].status = "running", runs[RunOf(e)].pending = NoSteer,
         NEW f \in Fact, NEW charge, NEW run \in Run, Charged(run, RunOf(e)),
         NEW n \in 1..MaxTools, NEW batch \in [1..n -> pins[RunOf(e)]],
         Commit(RunOf(e), [run EXCEPT !.calls = @ - n],
                [x \in Eff |-> IF ModelOf(x) = e /\ x[3] \in 1..n
                               THEN ToolRow(run, batch[x[3]])
                               ELSE Settled(e, f, charge)[x]],
                {})
  PROVE  OnlyRun(RunOf(e)) /\ RunOK(RunOf(e))'
  <1> DEFINE r == RunOf(e)
             New(x) == ModelOf(x) = e /\ x[3] \in 1..n
             rows == [x \in Eff |-> IF New(x) THEN ToolRow(run, batch[x[3]])
                                    ELSE Settled(e, f, charge)[x]]
  <1>1. r \in Runs /\ e \in EffectsOf(r) BY EffParts
  <1>2. \A x \in Eff : New(x) => RunOf(x) = r /\ x[2] = e[2] /\ IsTool(x)
    BY EffParts DEF ModelOf, RunOf, IsTool
  <1>3. \A x \in Eff : RunOf(x) # r => rows[x] = effects[x]
    BY <1>2, SettledFrame
  <1>4. Commit(r, [run EXCEPT !.calls = @ - n], rows, {}) OBVIOUS
  <1> HIDE DEF rows, r
  <1>5. /\ OnlyRun(r) /\ runs'[r] = [run EXCEPT !.calls = @ - n] /\ effects' = rows
        /\ pins'[r] = pins[r]
    <2> DEFINE next == [run EXCEPT !.calls = @ - n]
               none == {}
    <2>1. Commit(r, next, rows, none) BY <1>4
    <2> HIDE DEF next, none
    <2>2. OnlyRun(r) /\ runs'[r] = next /\ effects' = rows /\ pins'[r] = pins[r] \ none
      BY <1>1, <1>3, <2>1, CommitFrame
    <2>3. pins[r] \ none = pins[r] BY DEF none
    <2> QED BY <2>2, <2>3 DEF next
  <1>6. Charged(runs'[r], r) BY <1>5 DEF Run, Charged, r
  <1>7. ASSUME NEW x \in EffectsOf(r), New(x)
        PROVE  /\ effects'[x].status = "ready"
               /\ effects'[x].epoch = runs'[r].epoch /\ effects'[x].gen = runs'[r].gen
               /\ effects'[x].key \in pins'[r] /\ IsTool(x) /\ x[2] = e[2]
    <2>1. x \in Eff BY EffectsOfRun
    <2>2. effects'[x] = ToolRow(run, batch[x[3]]) BY <1>5, <1>7, <2>1 DEF rows
    <2>3. batch[x[3]] \in pins'[r] BY <1>5, <1>7 DEF r
    <2>4. run.epoch = runs'[r].epoch /\ run.gen = runs'[r].gen BY <1>6 DEF Charged, r
    <2> QED BY <1>2, <1>7, <2>1, <2>2, <2>3, <2>4 DEF ToolRow, NoEffect
  <1>8. ASSUME NEW x \in EffectsOf(r), ~New(x)
        PROVE  /\ effects'[x].status \notin {"ready", "claimed", "unknown"}
               /\ effects'[x].status # "none" => x[2] <= runs[r].models
    BY <1>1, <1>5, <1>8, SoloRows, EffectsOfRun DEF rows, r
  <1>9. e[2] <= runs[r].models BY <1>1 DEF RunOK, Live, r
  <1>10. RunOK(r)'
    <2> HIDE DEF New
    <2>1. /\ runs'[r].status = "running" /\ runs'[r].pending = NoSteer
          /\ runs'[r].close = "none" /\ runs'[r].interaction = 0
          /\ runs'[r].models = runs[r].models
      BY <1>6 DEF Charged, RunOK, r
    <2> QED BY <1>7, <1>8, <1>9, <2>1, RenewedOK
  <1> QED BY <1>5, <1>10 DEF r

-----------------------------------------------------------------------------
(* Settlements. *)

\* The settlement of a model call restores the invariant of its run.
LEMMA ModelSettlementOK ==
  ASSUME TypeOK, AllOK, ModelSettlement
  PROVE  AllOK'
  <1>0. /\ \A u \in Usages : u \in Nat
        /\ \A e \in Eff : \A w \in WallAfter(e) : w \in Nat
        /\ "succeeded" \in Fact /\ "failed" \in Fact
    BY BoundAssumption DEF Fact, WallAfter
  <1>r. \A e \in Eff : RunOf(e) \in Runs /\ RunOK(RunOf(e)) BY EffParts DEF AllOK
  <1>p. \A e \in Eff, u \in Usages : \A w \in WallAfter(e) :
          Paid(e, u, w) \in Run /\ Charged(Paid(e, u, w), RunOf(e))
    BY <1>0, PaidType, PaidCharged
  <1>l. \A e \in Eff : ModelSettles(e) => Live(e) BY DEF ModelSettles, Live
  <1>n. \A e \in Eff, u \in Usages : ModelSettlesNow(e, u) =>
          /\ Live(e) /\ Solo(RunOf(e), e)
          /\ runs[RunOf(e)].status = "running" /\ runs[RunOf(e)].pending = NoSteer
    BY <1>r, <1>l, ModelAlone DEF ModelSettlesNow
  <1>1. ASSUME NEW e \in Eff, NEW w \in WallAfter(e), SettleModelUnknown(e, w)
        PROVE  AllOK'
    <2> DEFINE run == [runs[RunOf(e)] EXCEPT !.wall = w]
    <2>1. run \in Run /\ Charged(run, RunOf(e))
      BY <1>0, ElapsedType, PaidCharged DEF Elapsed
    <2>2. effects[e].status = "claimed" /\ IsModel(e)
      BY <1>1 DEF SettleModelUnknown, ModelSettles
    <2>3. \/ /\ CancelLate(e)
             /\ Commit(RunOf(e), run, Settled(e, "unknown", effects[e].reserve),
                       RunPinReleaseSet(RunOf(e), {}))
          \/ Commit(RunOf(e), SealRun(run, "unknown"),
                    Settled(e, "unknown", effects[e].reserve),
                    RunPinReleaseSet(RunOf(e), {e}))
      BY <1>1 DEF SettleModelUnknown
    <2> HIDE DEF run
    <2> QED BY <1>r, <2>1, <2>2, <2>3, UnknownOK, FrameOK
  <1>2. ASSUME NEW e \in Eff, NEW f \in Fact, NEW u \in Usages, NEW w \in WallAfter(e),
               SettleModelCancelLate(e, f, u, w)
        PROVE  AllOK'
    <2>1. /\ Live(e) /\ runs[RunOf(e)].status = "cancelled"
          /\ Commit(RunOf(e), Paid(e, u, w), Settled(e, f, u), RunPinReleaseSet(RunOf(e), {e}))
      BY <1>2, <1>l DEF SettleModelCancelLate, CancelLate
    <2>2. runs[RunOf(e)].pending = NoSteer BY <1>r, <2>1 DEF RunOK
    <2> QED BY <1>r, <1>p, <2>1, <2>2, FactOK, FrameOK
  <1>3. ASSUME NEW e \in Eff, NEW f \in Fact, NEW u \in Usages, NEW w \in WallAfter(e),
               SettleModelLate(e, f, u, w)
        PROVE  AllOK'
    <2>1. CASE SteerConsumable(RunOf(e), e)
      <3>1. Live(e) /\ ConsumeSteer(RunOf(e), e, Paid(e, u, w), Settled(e, f, u))
        BY <1>3, <1>l, <2>1 DEF SettleModelLate
      <3> QED BY <1>r, <1>p, <2>1, <3>1, ConsumeSteerOK, FrameOK
    <2>2. CASE ~SteerConsumable(RunOf(e), e)
      <3> DEFINE none == {}
      <3>1. Live(e) /\ Commit(RunOf(e), Paid(e, u, w), Settled(e, f, u), none)
        BY <1>3, <1>l, <2>2 DEF SettleModelLate
      <3>0. none \subseteq RunPinReleaseSet(RunOf(e), {e}) OBVIOUS
      <3> HIDE DEF none
      <3>2. runs[RunOf(e)].pending # NoSteer =>
              \E x \in EffectsOf(RunOf(e)) \ {e} : effects[x].status = "claimed"
        BY <1>r, <2>2, <3>1, OtherClaim
      <3>3. OnlyRun(RunOf(e)) /\ RunOK(RunOf(e))' BY <1>r, <1>p, <3>0, <3>1, <3>2, FactOK
      <3> QED BY <1>r, <3>3, FrameOK
    <2> QED BY <2>1, <2>2
  <1>4. ASSUME NEW e \in Eff, NEW u \in Usages, NEW w \in WallAfter(e),
               SettleModelFailure(e, u, w)
        PROVE  AllOK'
    <2> DEFINE run == SealRun(Paid(e, u, w), "abort")
    <2>1. /\ run.status = "failed" /\ run.interaction = 0 /\ run.pending = NoSteer
          /\ run.models = runs[RunOf(e)].models
      BY <1>p DEF SealRun, Run, Charged
    <2>2. /\ ModelSettlesNow(e, u)
          /\ Commit(RunOf(e), run, Settled(e, "failed", u), RunPinReleaseSet(RunOf(e), {e}))
      BY <1>4 DEF SettleModelFailure
    <2> HIDE DEF run
    <2> QED BY <1>0, <1>r, <1>n, <2>1, <2>2, RestingOK, FrameOK
  <1>5. ASSUME NEW e \in Eff, NEW u \in Usages, NEW w \in WallAfter(e),
               SettleModelFinal(e, u, w)
        PROVE  AllOK'
    <2>1. /\ ModelSettlesNow(e, u)
          /\ CloseRun(e, Paid(e, u, w), Settled(e, "succeeded", u), "final")
      BY <1>5 DEF SettleModelFinal
    <2> QED BY <1>0, <1>r, <1>p, <1>n, <2>1, CloseRunOK, FrameOK
  <1>6. ASSUME NEW e \in Eff, NEW u \in Usages, NEW w \in WallAfter(e),
               SettleModelInteraction(e, u, w)
        PROVE  AllOK'
    <2> DEFINE run == [Paid(e, u, w) EXCEPT !.status = "waiting", !.interaction = e[2],
                                            !.close = "none", !.pending = NoSteer]
    <2>1. /\ run.status = "waiting" /\ run.interaction = e[2] /\ run.pending = NoSteer
          /\ run.close = "none" /\ run.models = runs[RunOf(e)].models
      BY <1>p DEF Run, Charged
    <2>2. e[2] # 0 BY EffParts, BoundAssumption
    <2>3. /\ ModelSettlesNow(e, u)
          /\ Commit(RunOf(e), run, Settled(e, "succeeded", u), {})
      BY <1>6 DEF SettleModelInteraction
    <2> HIDE DEF run
    <2> QED BY <1>0, <1>r, <1>n, <2>1, <2>2, <2>3, RestingOK, FrameOK
  <1>7. ASSUME NEW e \in Eff, NEW u \in Usages, NEW w \in WallAfter(e),
               SettleModelText(e, u, w)
        PROVE  AllOK'
    <2> DEFINE r == RunOf(e)
               run == Paid(e, u, w)
               next == [AdmitModel(run) EXCEPT !.close = "none"]
               row == ModelRow(run, run.epoch, run.gen, e[2])
    <2>0. /\ r \in Runs /\ RunOK(r) /\ run \in Run /\ Charged(run, r)
          /\ Live(e) /\ Solo(r, e) /\ runs[r].status = "running" /\ runs[r].pending = NoSteer
      BY <1>7, <1>r, <1>p, <1>n DEF SettleModelText
    <2>1. CASE Admits(run)
      <3>1. /\ next.status = "running" /\ next.close = "none" /\ next.pending = NoSteer
            /\ next.interaction = 0 /\ next.models = runs[r].models + 1
            /\ next.epoch = run.epoch /\ next.gen = run.gen
        <4> HIDE DEF r, run
        <4> QED BY <2>0 DEF AdmitModel, Run, Charged, RunOK
      <3>2. row.status = "ready" /\ row.epoch = run.epoch /\ row.gen = run.gen
        BY DEF ModelRow, NoEffect
      <3>3. /\ RoomForModel(r)
            /\ Commit(r, next, [Settled(e, "succeeded", u) EXCEPT ![NextModel(r)] = row], {})
        BY <1>7, <2>1 DEF SettleModelText
      <3> HIDE DEF next, row, run
      <3> QED BY <1>0, <2>0, <3>1, <3>2, <3>3, ContinuedOK, FrameOK
    <2>2. CASE ~Admits(run)
      <3>1. CloseRun(e, run, Settled(e, "succeeded", u), "budget")
        BY <1>7, <2>2 DEF SettleModelText
      <3> QED BY <1>0, <2>0, <3>1, CloseRunOK, FrameOK
    <2> QED BY <2>1, <2>2
  <1>8. ASSUME NEW e \in Eff, NEW u \in Usages, NEW n \in 1..MaxTools,
               NEW w \in WallAfter(e), NEW batch \in [1..n -> pins[RunOf(e)]],
               SettleModelTools(e, u, w, n, batch)
        PROVE  AllOK'
    <2> DEFINE r == RunOf(e)
               run == Paid(e, u, w)
               rows == Settled(e, "succeeded", u)
    <2>0. /\ r \in Runs /\ RunOK(r) /\ run \in Run /\ Charged(run, r)
          /\ Live(e) /\ Solo(r, e) /\ runs[r].status = "running" /\ runs[r].pending = NoSteer
      BY <1>8, <1>r, <1>p, <1>n DEF SettleModelTools
    <2>1. CASE n > run.calls
      <3>1. CloseRun(e, run, rows, "budget") BY <1>8, <2>1 DEF SettleModelTools
      <3> QED BY <1>0, <2>0, <3>1, CloseRunOK, FrameOK
    <2>2. CASE ~(n > run.calls)
      <3>1. IsModel(e) BY <1>8 DEF SettleModelTools, ModelSettlesNow, ModelSettles
      <3>2. Commit(r, [run EXCEPT !.calls = @ - n],
                   [x \in Eff |-> IF ModelOf(x) = e /\ x[3] \in 1..n
                                  THEN ToolRow(run, batch[x[3]]) ELSE rows[x]],
                   {})
        BY <1>8, <2>2 DEF SettleModelTools
      <3>3. OnlyRun(r) /\ RunOK(r)' BY <1>0, <2>0, <3>1, <3>2, FanOutOK
      <3> QED BY <2>0, <3>3, FrameOK
    <2> QED BY <2>1, <2>2
  <1> QED BY <1>1, <1>2, <1>3, <1>4, <1>5, <1>6, <1>7, <1>8 DEF ModelSettlement

\* The settlement of a tool call restores the invariant of its run.
LEMMA ToolSettlementOK ==
  ASSUME TypeOK, AllOK, ToolSettlement
  PROVE  AllOK'
  <1>0. \A e \in Eff : \A w \in WallAfter(e) : w \in Nat BY DEF WallAfter
  <1>r. \A e \in Eff : RunOf(e) \in Runs /\ RunOK(RunOf(e)) BY EffParts DEF AllOK
  <1>p. \A e \in Eff : \A w \in WallAfter(e) :
          Elapsed(e, w) \in Run /\ Charged(Elapsed(e, w), RunOf(e))
    BY <1>0, ElapsedType, PaidCharged
  <1>l. \A e \in Eff : ToolSettles(e) => Live(e) BY DEF ToolSettles, Live
  <1>1. ASSUME NEW e \in Eff, NEW w \in WallAfter(e), SettleToolUnknown(e, w)
        PROVE  AllOK'
    <2>1. /\ effects[e].status = "claimed"
          /\ \/ /\ CancelLate(e)
                /\ Commit(RunOf(e), Elapsed(e, w), Settled(e, "unknown", 0),
                          RunPinReleaseSet(RunOf(e), {}))
             \/ Commit(RunOf(e), SealRun(Elapsed(e, w), "unknown"),
                       Settled(e, "unknown", 0), RunPinReleaseSet(RunOf(e), {}))
      BY <1>1 DEF SettleToolUnknown, ToolSettles
    <2> QED BY <1>r, <1>p, <2>1, UnknownOK, FrameOK
  <1>2. ASSUME NEW e \in Eff, NEW f \in Fact, NEW w \in WallAfter(e), SettleToolOpen(e, f, w)
        PROVE  AllOK'
    <2> DEFINE released == IF runs[RunOf(e)].status \in Terminal
                           THEN RunPinReleaseSet(RunOf(e), {e}) ELSE {}
    <2>1. /\ Live(e)
          /\ Commit(RunOf(e), Elapsed(e, w), Settled(e, f, 0), released)
      BY <1>2, <1>l DEF SettleToolOpen
    <2>2. released \subseteq RunPinReleaseSet(RunOf(e), {e}) OBVIOUS
    <2>3. PICK x \in Siblings(e) : Live(x) BY <1>2 DEF SettleToolOpen
    <2>4. x \in EffectsOf(RunOf(e)) \ {e} BY DEF Siblings
    <2>5. runs[RunOf(e)].pending # NoSteer => effects[x].status = "claimed"
      BY <1>r, <2>3, <2>4 DEF RunOK
    <2> HIDE DEF released
    <2>6. OnlyRun(RunOf(e)) /\ RunOK(RunOf(e))'
      BY <1>r, <1>p, <2>1, <2>2, <2>4, <2>5, FactOK
    <2> QED BY <1>r, <2>6, FrameOK
  <1>3. ASSUME NEW e \in Eff, NEW f \in Fact, NEW w \in WallAfter(e), SettleToolLate(e, f, w)
        PROVE  AllOK'
    <2>1. CASE SteerConsumable(RunOf(e), e)
      <3>1. Live(e) /\ ConsumeSteer(RunOf(e), e, Elapsed(e, w), Settled(e, f, 0))
        BY <1>3, <1>l, <2>1 DEF SettleToolLate
      <3> QED BY <1>r, <1>p, <2>1, <3>1, ConsumeSteerOK, FrameOK
    <2>2. CASE ~SteerConsumable(RunOf(e), e)
      <3> DEFINE released == IF runs[RunOf(e)].status \in Terminal
                             THEN RunPinReleaseSet(RunOf(e), {e}) ELSE {}
      <3>1. /\ Live(e)
            /\ Commit(RunOf(e), Elapsed(e, w), Settled(e, f, 0), released)
        BY <1>3, <1>l, <2>2 DEF SettleToolLate
      <3>2. released \subseteq RunPinReleaseSet(RunOf(e), {e}) OBVIOUS
      <3>3. runs[RunOf(e)].pending # NoSteer =>
              \E x \in EffectsOf(RunOf(e)) \ {e} : effects[x].status = "claimed"
        BY <1>r, <2>2, <3>1, OtherClaim
      <3> HIDE DEF released
      <3>4. OnlyRun(RunOf(e)) /\ RunOK(RunOf(e))'
        BY <1>r, <1>p, <3>1, <3>2, <3>3, FactOK
      <3> QED BY <1>r, <3>4, FrameOK
    <2> QED BY <2>1, <2>2
  <1>4. ASSUME NEW e \in Eff, NEW f \in Fact, NEW w \in WallAfter(e),
               SettleToolClosing(e, f, w)
        PROVE  AllOK'
    <2> DEFINE r == RunOf(e)
               run == Elapsed(e, w)
               next == [AdmitModel(run) EXCEPT !.close = "none"]
               row == ModelRow(run, run.epoch, run.gen, e[2])
    <2>0. /\ r \in Runs /\ RunOK(r) /\ run \in Run /\ Charged(run, r) /\ Live(e)
      BY <1>4, <1>r, <1>p, <1>l DEF SettleToolClosing
    <2>a. /\ ToolSettles(e) /\ ~ToolLate(e) /\ \A x \in Siblings(e) : ~Live(x)
      BY <1>4 DEF SettleToolClosing
    <2>b. Solo(r, e) /\ runs[r].status = "running" /\ runs[r].pending = NoSteer
      BY <2>0, <2>a, ToolAlone
    <2>c. run.close = "none" BY <2>0, <2>b DEF Charged, RunOK
    <2>1. CASE Admits(run)
      <3>1. /\ next.status = "running" /\ next.close = "none" /\ next.pending = NoSteer
            /\ next.interaction = 0 /\ next.models = runs[r].models + 1
            /\ next.epoch = run.epoch /\ next.gen = run.gen
        <4> HIDE DEF r, run
        <4> QED BY <2>0, <2>b DEF AdmitModel, Run, Charged, RunOK
      <3>2. row.status = "ready" /\ row.epoch = run.epoch /\ row.gen = run.gen
        BY DEF ModelRow, NoEffect
      <3>3. /\ RoomForModel(r)
            /\ Commit(r, next, [Settled(e, f, 0) EXCEPT ![NextModel(r)] = row], {})
        BY <1>4, <2>1, <2>c DEF SettleToolClosing
      <3> HIDE DEF next, row, run
      <3> QED BY <1>0, <2>0, <2>b, <3>1, <3>2, <3>3, ContinuedOK, FrameOK
    <2>2. CASE ~Admits(run)
      <3>1. CloseRun(e, run, Settled(e, f, 0), "budget")
        BY <1>4, <2>2, <2>c DEF SettleToolClosing
      <3> QED BY <2>0, <2>b, <3>1, CloseRunOK, FrameOK
    <2> QED BY <2>1, <2>2
  <1> QED BY <1>1, <1>2, <1>3, <1>4 DEF ToolSettlement

-----------------------------------------------------------------------------
(* Spawning writes the parent's and the child's rows. *)

\* A new run whose only effect is its first model call.
LEMMA NewRunOK ==
  ASSUME TypeOK, NEW r \in Runs, RunOK(r), runs[r].status = "none", NEW row,
         runs'[r].status = "running", runs'[r].pending = NoSteer,
         runs'[r].close = "none", runs'[r].interaction = 0, runs'[r].models = 1,
         row.status = "ready", row.gen = runs'[r].gen, row.epoch = runs'[r].epoch,
         effects'[<<r, 1, 0>>] = row,
         \A x \in EffectsOf(r) \ {<<r, 1, 0>>} : effects'[x] = effects[x]
  PROVE  RunOK(r)'
  <1>1. ASSUME NEW x \in EffectsOf(r) PROVE effects[x].status = "none"
    <2>1. x[2] \in 1..MaxModels BY EffectsOfRun, EffParts
    <2>2. runs[r].models = 0 /\ (effects[x].status # "none" => x[2] <= runs[r].models)
      BY DEF RunOK
    <2> QED BY <2>1, <2>2
  <1>2. ~IsTool(<<r, 1, 0>>) /\ <<r, 1, 0>>[2] = 1 BY DEF IsTool
  <1>3. \A x \in EffectsOf(r) \ {<<r, 1, 0>>} : effects'[x].status = "none" BY <1>1
  <1> QED BY <1>2, <1>3, RenewedOK

\* A spawn restores the invariant of the parent and of the new child.
LEMMA SpawningOK ==
  ASSUME TypeOK, AllOK, Spawning
  PROVE  AllOK'
  <1>0. /\ \A u \in Usages : u \in Nat
        /\ \A e \in Eff : \A w \in WallAfter(e) : w \in Nat
        /\ "succeeded" \in Fact
    BY BoundAssumption DEF Fact, WallAfter
  <1>r. \A e \in Eff : RunOf(e) \in Runs /\ RunOK(RunOf(e)) BY EffParts DEF AllOK
  <1>p. \A e \in Eff, u \in Usages : \A w \in WallAfter(e) :
          Paid(e, u, w) \in Run /\ Charged(Paid(e, u, w), RunOf(e))
    BY <1>0, PaidType, PaidCharged
  <1>n. \A e \in Eff, u \in Usages : ModelSettlesNow(e, u) =>
          /\ Live(e) /\ Solo(RunOf(e), e)
          /\ runs[RunOf(e)].status = "running" /\ runs[RunOf(e)].pending = NoSteer
    BY <1>r, ModelAlone DEF ModelSettlesNow, ModelSettles, Live
  <1>1. ASSUME NEW e \in Eff, NEW u \in Usages, NEW key \in SpawnKeys, NEW g \in Grants,
               NEW c \in Runs, NEW owned \in {{}} \cup {{k} : k \in Keys},
               NEW w \in WallAfter(e), SpawnChild(e, u, w, key, g, c, owned)
        PROVE  AllOK'
    <2> DEFINE r == RunOf(e)
               run == Paid(e, u, w)
               child == [NoRun EXCEPT !.status = "running", !.steps = g.steps,
                             !.calls = g.calls, !.wall = g.wall, !.models = 1,
                             !.tokens = Debit(g.tokens, ModelReserve(g.tokens)),
                             !.parent = r, !.spawnkey = key, !.granted = g]
               left == [run EXCEPT !.close = "none", !.interaction = 0,
                             !.steps = @ - g.steps, !.calls = @ - g.calls,
                             !.wall = @ - g.wall, !.tokens = Debit(@, g.tokens)]
               rows == Settled(e, "succeeded", u)
               m == <<c, 1, 0>>
    <2>1. /\ r \in Runs /\ RunOK(r) /\ run \in Run /\ Charged(run, r)
          /\ Live(e) /\ Solo(r, e) /\ runs[r].status = "running" /\ runs[r].pending = NoSteer
      BY <1>1, <1>r, <1>p, <1>n DEF SpawnChild
    <2>2. /\ runs' = [runs EXCEPT ![r] = left, ![c] = child]
          /\ effects' = [rows EXCEPT ![m] = ModelRow(g, 0, 0, 0)]
          /\ pins' = [pins EXCEPT ![c] = owned]
          /\ runs[c].status = "none"
      BY <1>1 DEF SpawnChild
    <2>3. r # c BY <2>1, <2>2
    <2>4. m \in Eff /\ RunOf(m) = c
      BY EffBuilt, BoundAssumption
    <2>5. child.status = "running" /\ child.pending = NoSteer /\ child.close = "none"
          /\ child.interaction = 0 /\ child.models = 1 /\ child.gen = 0 /\ child.epoch = 0
      BY DEF NoRun
    <2>6. Charged(left, r)
      <3>1. runs[r].close = "none" /\ runs[r].interaction = 0 BY <2>1 DEF RunOK
      <3> HIDE DEF run, r
      <3> QED BY <2>1, <3>1 DEF Charged, Run
    <2>7. /\ runs'[r] = left /\ runs'[c] = child
          /\ \A q \in Runs \ {r, c} : runs'[q] = runs[q]
          /\ \A q \in Runs \ {c} : pins'[q] = pins[q]
      <3> HIDE DEF left, child, r
      <3> QED BY <2>1, <2>2, <2>3 DEF TypeOK
    <2>8. /\ effects'[m] = ModelRow(g, 0, 0, 0)
          /\ \A x \in Eff \ {m} : effects'[x] = rows[x]
      BY <2>2, <2>4 DEF Settled, TypeOK
    <2>9. \A x \in Eff : RunOf(x) # r => rows[x] = effects[x] BY SettledFrame
    <2> HIDE DEF rows
    <2>10. \A q \in Runs \ {r, c} : Untouched(q)
      BY <2>4, <2>7, <2>8, <2>9, EffectsOfRun DEF Untouched
    <2>11. RunOK(c)'
      <3>1. RunOK(c) BY DEF AllOK
      <3> DEFINE row == ModelRow(g, 0, 0, 0)
      <3>2. row.status = "ready" /\ row.gen = 0 /\ row.epoch = 0
        BY DEF ModelRow, NoEffect
      <3>3. \A x \in EffectsOf(c) \ {m} : effects'[x] = effects[x]
        BY <2>3, <2>8, <2>9, EffectsOfRun
      <3>4. effects'[<<c, 1, 0>>] = row BY <2>8
      <3>5. /\ runs'[c].status = "running" /\ runs'[c].pending = NoSteer
            /\ runs'[c].close = "none" /\ runs'[c].interaction = 0
            /\ runs'[c].models = 1 /\ row.gen = runs'[c].gen /\ row.epoch = runs'[c].epoch
        BY <2>5, <2>7, <3>2
      <3> HIDE DEF row
      <3> QED BY <2>2, <3>1, <3>2, <3>3, <3>4, <3>5, NewRunOK
    <2>12. RunOK(r)'
      <3>1. /\ runs'[r].status = "running" /\ runs'[r].pending = NoSteer
            /\ runs'[r].close = "none" /\ runs'[r].interaction = 0
            /\ runs'[r].models = runs[r].models
        <4> HIDE DEF left, r
        <4> QED BY <2>1, <2>6, <2>7 DEF Charged, RunOK
      <3>2. e \in EffectsOf(r) BY EffParts
      <3>3. \A x \in EffectsOf(r) :
              /\ effects'[x].status \notin {"ready", "claimed", "unknown"}
              /\ effects'[x].status # "none" => x[2] <= runs[r].models
        BY <1>0, <2>1, <2>3, <2>4, <2>8, <3>2, SoloRows, EffectsOfRun DEF rows
      <3> HIDE DEF r
      <3> QED BY <3>1, <3>3, RenewedOK
    <2> QED BY <2>10, <2>11, <2>12, UntouchedOK DEF AllOK
  <1>2. ASSUME NEW e \in Eff, NEW u \in Usages, NEW key \in SpawnKeys, NEW g \in Grants,
               NEW w \in WallAfter(e), SpawnReplay(e, u, w, key, g)
        PROVE  AllOK'
    <2> DEFINE r == RunOf(e)
               run == Paid(e, u, w)
               next == [run EXCEPT !.close = "none", !.interaction = 0]
               none == {}
    <2>1. /\ r \in Runs /\ RunOK(r) /\ run \in Run /\ Charged(run, r)
          /\ Live(e) /\ runs[r].status = "running" /\ runs[r].pending = NoSteer
      BY <1>2, <1>r, <1>p, <1>n DEF SpawnReplay
    <2>2. Charged(next, r)
      <3>1. runs[r].close = "none" /\ runs[r].interaction = 0 BY <2>1 DEF RunOK
      <3> HIDE DEF run, r
      <3> QED BY <2>1, <3>1 DEF Charged, Run
    <2>3. /\ Commit(r, next, Settled(e, "succeeded", u), none)
          /\ none \subseteq RunPinReleaseSet(r, {e})
      BY <1>2 DEF SpawnReplay
    <2> HIDE DEF next, none
    <2>4. OnlyRun(r) /\ RunOK(r)' BY <1>0, <2>1, <2>2, <2>3, FactOK
    <2> QED BY <2>1, <2>4, FrameOK
  <1> QED BY <1>1, <1>2 DEF Spawning

-----------------------------------------------------------------------------
(* User commands. *)

\* What archiving does to a row: ready becomes cancelled, a claim survives.
LEMMA ArchivedRows ==
  ASSUME TypeOK, NEW r \in Runs, NEW revoke \in BOOLEAN, NEW x \in Eff
  PROVE  /\ RunOf(x) # r => Archived(r, revoke)[x] = effects[x]
         /\ RunOf(x) = r /\ effects[x].status = "ready" =>
              Archived(r, revoke)[x].status = "cancelled"
         /\ RunOf(x) = r /\ effects[x].status = "claimed" =>
              /\ Archived(r, revoke)[x].status = "claimed"
              /\ Archived(r, revoke)[x].gen = effects[x].gen
              /\ Archived(r, revoke)[x].key = effects[x].key
              /\ revoke => Archived(r, revoke)[x].cancelreq
         /\ effects[x].status \notin {"ready", "claimed"} =>
              Archived(r, revoke)[x] = effects[x]
  <1>1. effects[x] \in Effect BY RowTypes
  <1> QED BY <1>1 DEF Archived, ReadyOf, ClaimedOf, EffectsOf, Effect

\* Cancel leaves only revoked claims live on the run it seals.
LEMMA CancelOK ==
  ASSUME TypeOK, NEW r \in Runs, RunOK(r), Cancel(r)
  PROVE  OnlyRun(r) /\ RunOK(r)'
  <1> DEFINE run == [runs[r] EXCEPT !.status = "cancelled", !.interaction = 0,
                            !.pending = NoSteer, !.close = "cancel",
                            !.tokens = Credit(@, ReadyReserve(r)), !.gen = @ + 1]
             rows == Archived(r, TRUE)
             released == RunPinReleaseSet(r, ReadyOf(r))
  <1>1. runs[r] \in Run BY RowTypes
  <1>2. /\ run.status = "cancelled" /\ run.interaction = 0 /\ run.pending = NoSteer
        /\ run.models = runs[r].models
    BY <1>1 DEF Run
  <1>3. Commit(r, run, rows, released) /\ runs[r].status \in {"running", "waiting"}
    BY DEF Cancel, Cancelled
  <1>f. \A x \in Eff : RunOf(x) # r => rows[x] = effects[x] BY ArchivedRows
  <1> HIDE DEF run, released, rows
  <1>4. OnlyRun(r) /\ runs'[r] = run /\ effects' = rows /\ pins'[r] = pins[r] \ released
    BY <1>3, <1>f, CommitFrame
  <1>5. ASSUME NEW x \in EffectsOf(r)
        PROVE  /\ effects'[x].status = "claimed" =>
                    /\ effects[x].status = "claimed" /\ effects'[x].cancelreq
                    /\ effects'[x].key = effects[x].key
               /\ effects'[x].status # "ready"
               /\ effects'[x].status = "unknown" => effects'[x] = effects[x]
               /\ effects'[x].status # "none" => effects[x].status # "none"
    BY <1>4, EffectsOfRun, ArchivedRows DEF rows
  <1>6. ASSUME NEW x \in EffectsOf(r), IsTool(x), effects[x].status \in {"claimed", "unknown"}
        PROVE  effects[x].key \in pins'[r]
    <2>1. x \notin ReadyOf(r) /\ Blocks(x) BY <1>6 DEF ReadyOf, Blocks, Live
    <2>2. effects[x].key \in pins[r] BY <1>6, <2>1 DEF RunOK
    <2> QED BY <1>4, <2>1, <2>2 DEF released, RunPinReleaseSet
  <1>7. ASSUME NEW x \in EffectsOf(r), NEW y \in EffectsOf(r), x # y,
               effects'[x].status = "claimed", effects'[y].status = "claimed"
        PROVE  IsTool(x) /\ IsTool(y) /\ x[2] = y[2]
    BY <1>5, <1>7 DEF RunOK, Live
  <1>8. ASSUME NEW x \in EffectsOf(r), effects'[x].status # "none"
        PROVE  x[2] <= run.models
    BY <1>2, <1>5, <1>8 DEF RunOK
  <1>9. ASSUME NEW x \in EffectsOf(r), IsTool(x), effects'[x].status \in {"claimed", "unknown"}
        PROVE  effects'[x].key \in pins'[r]
    <2>1. effects[x].status \in {"claimed", "unknown"} /\ effects'[x].key = effects[x].key
      BY <1>5, <1>9
    <2> QED BY <1>6, <1>9, <2>1
  <1>10. /\ runs'[r].status = "cancelled" /\ runs'[r].interaction = 0
         /\ runs'[r].pending = NoSteer /\ runs'[r].models = run.models
    BY <1>2, <1>4
  <1>11. RunOK(r)'
    BY <1>5, <1>7, <1>8, <1>9, <1>10
       DEF RunOK, EffectsOf, RunOf, Live, Blocks, IsTool
  <1> QED BY <1>4, <1>11

\* What Steered changes and keeps.
LEMMA SteeredRow ==
  ASSUME TypeOK, NEW r \in Runs
  PROVE  /\ Steered(r).status = "running" /\ Steered(r).interaction = 0
         /\ Steered(r).pending = NoSteer /\ Steered(r).close = runs[r].close
         /\ Steered(r).models = runs[r].models
         /\ Steered(r).epoch = runs[r].epoch + 1 /\ Steered(r).gen = runs[r].gen + 1
  <1>1. runs[r] \in Run BY RowTypes
  <1> QED BY <1>1 DEF Steered, Run

\* A deferred steer leaves only superseded claims live, and at least one of them.
LEMMA SteerDeferredOK ==
  ASSUME TypeOK, NEW r \in Runs, RunOK(r), SteerDeferred(r)
  PROVE  OnlyRun(r) /\ RunOK(r)'
  <1> DEFINE run == [Steered(r) EXCEPT !.pending = [epoch |-> runs[r].epoch + 1,
                                                   gen |-> runs[r].gen + 1]]
             rows == Archived(r, FALSE)
             none == {}
  <1>0. Steered(r) \in Run /\ runs[r] \in Run BY SteeredType, RowTypes
  <1>1. /\ run.status = "running" /\ run.interaction = 0 /\ run.close = runs[r].close
        /\ run.pending = [epoch |-> run.epoch, gen |-> run.gen]
        /\ run.models = runs[r].models /\ run.gen = runs[r].gen + 1
    BY <1>0, SteeredRow DEF Run
  <1>2. run.pending # NoSteer
    BY <1>0, <1>1 DEF NoSteer, Run
  <1>3. Commit(r, run, rows, none) /\ runs[r].status \in {"running", "waiting"}
        /\ ClaimedOf(r) # {}
    BY DEF SteerDeferred
  <1>a. runs[r].close = "none" BY <1>3 DEF RunOK
  <1>f. \A x \in Eff : RunOf(x) # r => rows[x] = effects[x] BY ArchivedRows
  <1> HIDE DEF run, none, rows
  <1>n. pins[r] \ none = pins[r] BY DEF none
  <1>4. OnlyRun(r) /\ runs'[r] = run /\ effects' = rows /\ pins'[r] = pins[r]
    <2>1. Commit(r, run, rows, none) BY <1>3
    <2>2. OnlyRun(r) /\ runs'[r] = run /\ effects' = rows /\ pins'[r] = pins[r] \ none
      BY <1>f, <2>1, CommitFrame
    <2> QED BY <1>n, <2>2
  <1>5. ASSUME NEW x \in EffectsOf(r)
        PROVE  /\ effects'[x].status = "claimed" =>
                    /\ effects[x].status = "claimed" /\ effects'[x].gen = effects[x].gen
                    /\ effects'[x].key = effects[x].key
               /\ effects[x].status = "claimed" => effects'[x].status = "claimed"
               /\ effects'[x].status # "ready"
               /\ effects'[x].status = "unknown" => effects[x].status = "unknown"
               /\ effects'[x].status # "none" => effects[x].status # "none"
    BY <1>4, EffectsOfRun, ArchivedRows DEF rows
  <1>6. \E x \in EffectsOf(r) : effects'[x].status = "claimed"
    BY <1>3, <1>5 DEF ClaimedOf
  <1>7. ASSUME NEW x \in EffectsOf(r), effects[x].status = "claimed"
        PROVE  effects[x].gen < run.gen
    <2>1. effects[x].gen \in Nat /\ runs[r].gen \in Nat
      BY EffectsOfRun, RowTypes DEF Effect, Run
    <2>2. effects[x].gen <= runs[r].gen
      BY <1>3, <1>7, <2>1 DEF RunOK, Live
    <2> QED BY <1>1, <2>1, <2>2
  <1>8. ASSUME NEW x \in EffectsOf(r)
        PROVE  effects'[x].status # "unknown"
    BY <1>3, <1>5 DEF RunOK
  <1>9. ASSUME NEW x \in EffectsOf(r), IsTool(x), effects'[x].status = "claimed"
        PROVE  effects'[x].key \in pins'[r]
    BY <1>4, <1>5, <1>9 DEF RunOK, Live, Blocks
  <1>10. ASSUME NEW x \in EffectsOf(r), NEW y \in EffectsOf(r), x # y,
                effects'[x].status = "claimed", effects'[y].status = "claimed"
         PROVE  IsTool(x) /\ IsTool(y) /\ x[2] = y[2]
    BY <1>5, <1>10 DEF RunOK, Live
  <1>11. ASSUME NEW x \in EffectsOf(r), effects'[x].status # "none"
         PROVE  x[2] <= run.models
    BY <1>1, <1>5, <1>11 DEF RunOK
  <1>12. RunOK(r)'
    BY <1>1, <1>2, <1>a, <1>4, <1>5, <1>6, <1>7, <1>8, <1>9, <1>10, <1>11
       DEF RunOK, EffectsOf, RunOf, Live, Blocks, IsTool
  <1> QED BY <1>4, <1>12

\* Rows an open run without claims has after its ready effects are archived.
LEMMA ArchivedIdle ==
  ASSUME TypeOK, NEW r \in Runs, RunOK(r), runs[r].status \in {"running", "waiting"},
         ClaimedOf(r) = {}, NEW x \in EffectsOf(r)
  PROVE  /\ Archived(r, FALSE)[x].status \notin {"ready", "claimed", "unknown"}
         /\ Archived(r, FALSE)[x].status # "none" => x[2] <= runs[r].models
  <1>1. x \in Eff /\ RunOf(x) = r BY EffectsOfRun
  <1>2. effects[x].status \notin {"claimed", "unknown"} BY DEF ClaimedOf, RunOK
  <1>3. CASE effects[x].status = "ready"
    BY <1>1, <1>3, ArchivedRows DEF RunOK
  <1>4. CASE effects[x].status # "ready"
    <2>1. Archived(r, FALSE)[x] = effects[x] BY <1>1, <1>2, <1>4, ArchivedRows
    <2> QED BY <1>2, <1>4, <2>1 DEF RunOK
  <1> QED BY <1>3, <1>4

\* A run whose rows are idle either rests or gets one fresh model call.
LEMMA AdmittedOK ==
  ASSUME TypeOK, NEW r \in Runs, RoomForModel(r), NEW run, NEW rows \in [Eff -> Effect],
         NEW row, row.status = "ready", row.epoch = run.epoch, row.gen = run.gen,
         Commit(r, run, [rows EXCEPT ![NextModel(r)] = row], {}),
         \A x \in Eff : RunOf(x) # r => rows[x] = effects[x],
         \A x \in EffectsOf(r) :
           /\ rows[x].status \notin {"ready", "claimed", "unknown"}
           /\ rows[x].status # "none" => x[2] <= runs[r].models,
         run.status = "running", run.close = "none", run.interaction = 0,
         run.pending = NoSteer, run.models = runs[r].models + 1
  PROVE  OnlyRun(r) /\ RunOK(r)'
  <1> DEFINE m == NextModel(r)
             full == [rows EXCEPT ![m] = row]
             none == {}
  <1>1. /\ m \in Eff /\ RunOf(m) = r
        /\ ~IsTool(m) /\ m[2] = runs[r].models + 1 /\ runs[r].models \in Nat
    BY NextModelEff, RowTypes DEF NextModel, IsTool, Run
  <1>2. \A x \in Eff : full[x] = IF x = m THEN row ELSE rows[x] BY <1>1
  <1>3. Commit(r, run, full, none) OBVIOUS
  <1> HIDE DEF full, m, none
  <1>4. OnlyRun(r) /\ runs'[r] = run /\ effects' = full
    BY <1>1, <1>2, <1>3, CommitFrame
  <1>5. \A x \in EffectsOf(r) : x # m =>
          /\ effects'[x].status \notin {"ready", "claimed", "unknown"}
          /\ effects'[x].status # "none" => x[2] <= runs[r].models
    BY <1>2, <1>4, EffectsOfRun
  <1>6. effects'[m] = row BY <1>1, <1>2, <1>4
  <1>7. \A x \in EffectsOf(r) : x[2] \in Nat BY EffectsOfRun, EffParts
  <1>8. RunOK(r)' BY <1>1, <1>4, <1>5, <1>6, <1>7, RenewedOK
  <1> QED BY <1>4, <1>8

\* A run left with no live and no unknown effect is in order.
LEMMA IdleOK ==
  ASSUME TypeOK, NEW r \in Runs, NEW run, NEW rows, NEW released,
         Commit(r, run, rows, released),
         \A x \in Eff : RunOf(x) # r => rows[x] = effects[x],
         \A x \in EffectsOf(r) :
           /\ rows[x].status \notin {"ready", "claimed", "unknown"}
           /\ rows[x].status # "none" => x[2] <= runs[r].models,
         run.status \in {"running", "completed"}, run.status = "running" => run.close = "none",
         run.interaction = 0, run.pending = NoSteer, run.models = runs[r].models
  PROVE  OnlyRun(r) /\ RunOK(r)'
  <1>1. OnlyRun(r) /\ runs'[r] = run /\ effects' = rows BY CommitFrame
  <1>2. RunOK(r)' BY <1>1, RenewedOK
  <1> QED BY <1>1, <1>2

\* A steer that finds no claim publishes one model call, or none.
LEMMA SteerOK ==
  ASSUME TypeOK, NEW r \in Runs, RunOK(r), SteerAdmitted(r) \/ SteerExhausted(r)
  PROVE  OnlyRun(r) /\ RunOK(r)'
  <1> DEFINE run == Steered(r)
             rows == Archived(r, FALSE)
  <1>0. runs[r].status \in {"running", "waiting"} /\ ClaimedOf(r) = {}
    BY DEF SteerAdmitted, SteerExhausted
  <1>1. /\ \A x \in Eff : RunOf(x) # r => rows[x] = effects[x]
        /\ \A x \in EffectsOf(r) :
             /\ rows[x].status \notin {"ready", "claimed", "unknown"}
             /\ rows[x].status # "none" => x[2] <= runs[r].models
        /\ rows \in [Eff -> Effect]
    BY <1>0, ArchivedRows, ArchivedIdle, ArchivedType
  <1>2. /\ run \in Run /\ run.status = "running" /\ run.interaction = 0
        /\ run.pending = NoSteer /\ run.close = "none" /\ run.models = runs[r].models
        /\ run.epoch = runs[r].epoch + 1 /\ run.gen = runs[r].gen + 1
    BY <1>0, SteeredRow, SteeredType DEF RunOK
  <1>3. CASE SteerAdmitted(r)
    <2> DEFINE next == AdmitModel(run)
               row == ModelRow(run, runs[r].epoch + 1, runs[r].gen + 1, 0)
    <2>1. RoomForModel(r) /\ Commit(r, next, [rows EXCEPT ![NextModel(r)] = row], {})
      BY <1>3 DEF SteerAdmitted
    <2> HIDE DEF run, rows
    <2>2. /\ next.status = "running" /\ next.interaction = 0 /\ next.close = "none"
          /\ next.pending = NoSteer /\ next.models = runs[r].models + 1
          /\ next.epoch = run.epoch /\ next.gen = run.gen
      BY <1>2 DEF AdmitModel, Run
    <2>3. row.status = "ready" /\ row.epoch = run.epoch /\ row.gen = run.gen
      BY <1>2 DEF ModelRow, NoEffect
    <2> HIDE DEF next, row
    <2> QED BY <1>1, <2>1, <2>2, <2>3, AdmittedOK
  <1>4. CASE SteerExhausted(r)
    <2> HIDE DEF run, rows
    <2>1. /\ SealRun(run, "budget").status = "completed"
          /\ SealRun(run, "budget").interaction = 0
          /\ SealRun(run, "budget").pending = NoSteer
          /\ SealRun(run, "budget").models = runs[r].models
      BY <1>2 DEF SealRun, Run
    <2> DEFINE none == {}
    <2>2. \/ Commit(r, SealRun(run, "budget"), rows, RunPinReleaseSet(r, {}))
          \/ Commit(r, run, rows, none)
      BY <1>4 DEF SteerExhausted, run, rows
    <2> HIDE DEF none
    <2> QED BY <1>1, <1>2, <2>1, <2>2, IdleOK
  <1> QED BY <1>3, <1>4

\* An answer publishes one model call on the waiting run, or none.
LEMMA RespondOK ==
  ASSUME TypeOK, NEW r \in Runs, RunOK(r), RespondAdmitted(r) \/ RespondExhausted(r)
  PROVE  OnlyRun(r) /\ RunOK(r)'
  <1> DEFINE run == Answered(r)
  <1>0. runs[r].status = "waiting" /\ runs[r] \in Run /\ effects \in [Eff -> Effect]
    BY RowTypes DEF RespondAdmitted, RespondExhausted, TypeOK
  <1>1. /\ \A x \in EffectsOf(r) :
             /\ effects[x].status \notin {"ready", "claimed", "unknown"}
             /\ effects[x].status # "none" => x[2] <= runs[r].models
    BY <1>0 DEF RunOK, Live
  <1>2. /\ run \in Run /\ run.status = "running" /\ run.interaction = 0
        /\ run.pending = NoSteer /\ run.close = "none" /\ run.models = runs[r].models
        /\ run.epoch = runs[r].epoch /\ run.gen = runs[r].gen + 1
    BY <1>0, AnsweredType DEF RunOK, Answered, Run
  <1>3. CASE RespondAdmitted(r)
    <2> DEFINE next == AdmitModel(run)
               row == ModelRow(runs[r], runs[r].epoch, runs[r].gen + 1, 0)
    <2>1. RoomForModel(r) /\ Commit(r, next, [effects EXCEPT ![NextModel(r)] = row], {})
      BY <1>3 DEF RespondAdmitted
    <2> HIDE DEF run
    <2>2. /\ next.status = "running" /\ next.interaction = 0 /\ next.close = "none"
          /\ next.pending = NoSteer /\ next.models = runs[r].models + 1
          /\ next.epoch = run.epoch /\ next.gen = run.gen
      BY <1>2 DEF AdmitModel, Run
    <2>3. row.status = "ready" /\ row.epoch = run.epoch /\ row.gen = run.gen
      BY <1>2 DEF ModelRow, NoEffect
    <2> HIDE DEF next, row
    <2> QED BY <1>0, <1>1, <2>1, <2>2, <2>3, AdmittedOK
  <1>4. CASE RespondExhausted(r)
    <2> HIDE DEF run
    <2>1. /\ SealRun(run, "budget").status = "completed"
          /\ SealRun(run, "budget").interaction = 0
          /\ SealRun(run, "budget").pending = NoSteer
          /\ SealRun(run, "budget").models = runs[r].models
      BY <1>2 DEF SealRun, Run
    <2> DEFINE none == {}
    <2>2. \/ Commit(r, SealRun(run, "budget"), effects, RunPinReleaseSet(r, {}))
          \/ Commit(r, run, effects, none)
      BY <1>4 DEF RespondExhausted, run
    <2> HIDE DEF none
    <2> QED BY <1>1, <1>2, <2>1, <2>2, IdleOK
  <1> QED BY <1>3, <1>4

\* A started run has exactly one live effect.
LEMMA StartOK ==
  ASSUME TypeOK, NEW r \in Runs, RunOK(r), NEW b \in Budgets, NEW required \in SUBSET Keys,
         Start(r, b, required)
  PROVE  OnlyRun(r) /\ RunOK(r)'
  <1> DEFINE run == [NoRun EXCEPT !.status = "running", !.epoch = 1, !.gen = 1,
                                  !.steps = b.steps, !.calls = b.calls,
                                  !.tokens = b.tokens, !.wall = b.wall,
                                  !.granted = b]
             next == AdmitModel(run)
             row == ModelRow(run, 1, 1, 0)
             m == <<r, 1, 0>>
  <1>1. /\ runs[r].status = "none"
        /\ runs' = [runs EXCEPT ![r] = next]
        /\ effects' = [effects EXCEPT ![m] = row]
        /\ pins' = [pins EXCEPT ![r] = required]
    BY DEF Start, Started
  <1>2. /\ next.status = "running" /\ next.pending = NoSteer /\ next.close = "none"
        /\ next.interaction = 0 /\ next.models = 1 /\ next.gen = 1 /\ next.epoch = 1
    BY DEF AdmitModel, NoRun
  <1>3. row.status = "ready" /\ row.gen = 1 /\ row.epoch = 1 BY DEF ModelRow, NoEffect
  <1>4. m \in Eff /\ RunOf(m) = r BY EffBuilt, BoundAssumption
  <1> HIDE DEF next, row
  <1>5. /\ runs'[r] = next /\ effects'[m] = row
        /\ \A x \in Eff \ {m} : effects'[x] = effects[x]
        /\ \A q \in Runs \ {r} : runs'[q] = runs[q] /\ pins'[q] = pins[q]
    BY <1>1, <1>4 DEF TypeOK
  <1>6. OnlyRun(r) BY <1>4, <1>5, EffectsOfRun DEF OnlyRun, Untouched
  <1>7. /\ runs'[r].status = "running" /\ runs'[r].pending = NoSteer
        /\ runs'[r].close = "none" /\ runs'[r].interaction = 0 /\ runs'[r].models = 1
        /\ row.gen = runs'[r].gen /\ row.epoch = runs'[r].epoch
        /\ effects'[<<r, 1, 0>>] = row
        /\ \A x \in EffectsOf(r) \ {<<r, 1, 0>>} : effects'[x] = effects[x]
    BY <1>2, <1>3, <1>5, EffectsOfRun
  <1>8. RunOK(r)' BY <1>1, <1>3, <1>7, NewRunOK
  <1> QED BY <1>6, <1>8

\* The user commands keep the invariant of every run.
LEMMA UserCommandOK ==
  ASSUME TypeOK, AllOK, UserCommand
  PROVE  AllOK'
  <1>1. PICK r \in Runs :
          \/ \E b \in Budgets, required \in SUBSET Keys : Start(r, b, required)
          \/ Cancel(r) \/ SteerDeferred(r) \/ SteerAdmitted(r) \/ SteerExhausted(r)
          \/ RespondAdmitted(r) \/ RespondExhausted(r)
    BY DEF UserCommand
  <1>2. RunOK(r) BY DEF AllOK
  <1>3. OnlyRun(r) /\ RunOK(r)'
    BY <1>1, <1>2, StartOK, CancelOK, SteerDeferredOK, SteerOK, RespondOK
  <1> QED BY <1>3, FrameOK

-----------------------------------------------------------------------------
(* Claims, leases and the recovery sweep. *)

\* Claims and expiring leases keep the invariant of every run.
LEMMA WorkerOK ==
  ASSUME TypeOK, AllOK, NEW e \in Eff, Claim(e) \/ ExpireLease(e)
  PROVE  AllOK'
  <1> DEFINE r == RunOf(e)
  <1>1. r \in Runs /\ RunOK(r) /\ e \in EffectsOf(r) BY EffParts DEF AllOK
  <1>2. effects[e] \in Effect BY RowTypes
  <1>3. /\ runs' = runs /\ pins' = pins
        /\ \A x \in Eff \ {e} : effects'[x] = effects[x]
        /\ effects'[e].status = "claimed"
        /\ effects'[e].gen = effects[e].gen /\ effects'[e].epoch = effects[e].epoch
        /\ effects'[e].key = effects[e].key /\ effects'[e].cancelreq = effects[e].cancelreq
        /\ effects[e].status \in {"ready", "claimed"}
    BY <1>2 DEF Claim, ExpireLease, TypeOK, Effect
  <1>4. OnlyRun(r) BY <1>3, EffectsOfRun DEF OnlyRun, Untouched
  <1>5. \A x \in EffectsOf(r) \ {e} : effects'[x] = effects[x] BY <1>3, EffectsOfRun
  <1>6. RunOK(r)'
    <2> HIDE DEF r
    <2> QED BY <1>1, <1>3, <1>5 DEF RunOK, EffectsOf, RunOf, Live, Blocks, IsTool
  <1> QED BY <1>1, <1>4, <1>6, FrameOK

\* A recovery sweep keeps the invariant of every run it hits.
LEMMA SweepOK ==
  ASSUME TypeOK, AllOK, Sweep
  PROVE  AllOK'
  <1>1. PICK S \in SUBSET Expired, wall \in [Runs -> 0..MaxWall] : Recover(S, wall)
    BY DEF Sweep
  <1> SUFFICES ASSUME NEW r \in Runs PROVE RunOK(r)' BY DEF AllOK
  <1>2. RunOK(r) /\ runs[r] \in Run /\ wall[r] \in Nat BY RowTypes DEF AllOK
  <1> DEFINE H == S \cap EffectsOf(r)
             kept == \A e \in H : CancelLate(e)
             timed == [runs[r] EXCEPT !.wall = wall[r]]
  <1>3. /\ effects' = [e \in Eff |->
             IF e \in S
             THEN [effects[e] EXCEPT !.status = "unknown", !.expired = FALSE,
                                     !.charge = effects[e].reserve]
             ELSE effects[e]]
        /\ runs'[r] = IF H = {} THEN runs[r]
                      ELSE IF kept THEN timed ELSE SealRun(timed, "unknown")
        /\ pins'[r] = IF H = {} THEN pins[r]
                      ELSE pins[r] \ RunPinReleaseSet(r, {e \in H : IsModel(e) /\ ~kept})
    BY <1>1 DEF Recover, Walled
  <1>4. \A x \in S : x \in Eff /\ Live(x) BY DEF Expired, Live
  <1>5. /\ \A x \in H : effects'[x].status = "unknown" /\ effects'[x].key = effects[x].key
        /\ \A x \in EffectsOf(r) \ H : effects'[x] = effects[x]
    BY <1>3, <1>4, EffectsOfRun, RowTypes DEF Effect
  <1>6. CASE H = {}
    <2>1. Untouched(r) BY <1>3, <1>5, <1>6 DEF Untouched
    <2> QED BY <1>2, <2>1, UntouchedOK
  <1>7. CASE H # {}
    <2>1. timed \in Run BY <1>2 DEF Run
    <2>2. Charged(timed, r) BY <1>2 DEF Charged, Run
    <2>3. kept => runs[r].status = "cancelled"
      BY <1>7, EffectsOfRun DEF CancelLate
    <2>4. /\ SealRun(timed, "unknown").status = "blocked_unknown"
          /\ SealRun(timed, "unknown").close = "unknown"
          /\ SealRun(timed, "unknown").interaction = 0
          /\ SealRun(timed, "unknown").pending = NoSteer
          /\ SealRun(timed, "unknown").models = runs[r].models
      <3> HIDE DEF timed
      <3> QED BY <2>1, <2>2 DEF SealRun, Run, Charged
    <2>5. \A x \in EffectsOf(r) : IsTool(x) /\ Blocks(x) => effects[x].key \in pins'[r]
      BY <1>2, <1>3, <1>7 DEF RunOK, RunPinReleaseSet, IsModel, IsTool
    <2>6. \/ /\ runs'[r].status = "blocked_unknown" /\ runs'[r].close = "unknown"
             /\ runs'[r].interaction = 0 /\ runs'[r].pending = NoSteer
             /\ runs'[r].models = runs[r].models
          \/ runs[r].status = "cancelled" /\ Charged(runs'[r], r)
      <3> HIDE DEF timed, kept, H
      <3> QED BY <1>3, <1>7, <2>2, <2>3, <2>4
    <2>7. H \in SUBSET EffectsOf(r) /\ \A x \in H : Live(x) BY <1>4
    <2> HIDE DEF H
    <2> QED BY <1>2, <1>5, <1>7, <2>5, <2>6, <2>7, WallOK
  <1> QED BY <1>6, <1>7

-----------------------------------------------------------------------------
(* The invariant theorem. *)

\* The empty tables satisfy the invariant.
LEMMA InitOK ==
  ASSUME Init
  PROVE  AllOK
  <1> SUFFICES ASSUME NEW r \in Runs PROVE RunOK(r) BY DEF AllOK
  <1>1. /\ runs[r].status = "none" /\ runs[r].models = 0 /\ runs[r].interaction = 0
        /\ runs[r].pending = NoSteer
    BY DEF Init, NoRun
  <1>2. \A x \in EffectsOf(r) : effects[x].status = "none"
    BY EffectsOfRun DEF Init, NoEffect
  <1> QED BY <1>1, <1>2 DEF RunOK, Live, Blocks

\* Every step keeps the invariant of every run.
LEMMA StepOK ==
  ASSUME TypeOK, AllOK, Next
  PROVE  AllOK'
  BY UserCommandOK, WorkerOK, ModelSettlementOK, SpawningOK, ToolSettlementOK, SweepOK
     DEF Next

\* The safety properties of the run loop hold in every reachable state, for any
\* number of runs, keys, tools, budgets and usages: one driver per run, no lost
\* steer, no superseded work, quiet seals, the unknown wall, no frozen close
\* intent and pins that outlive the tools behind them.
THEOREM LoopSafe == Spec => []LoopInvariant
  <1>1. Init => LoopInvariant BY InitType, InitOK, InvariantByRun
  <1>2. LoopInvariant /\ [Next]_vars => LoopInvariant'
    <2>1. ASSUME LoopInvariant, Next PROVE LoopInvariant'
      <3>1. TypeOK /\ AllOK BY <2>1, InvariantByRun
      <3>2. TypeOK' /\ AllOK' BY <2>1, <3>1, StepType, StepOK
      <3> QED BY <3>2, InvariantByRunPrime
    <2>2. ASSUME LoopInvariant, UNCHANGED vars PROVE LoopInvariant'
      <3>1. TypeOK /\ AllOK BY <2>2, InvariantByRun
      <3>2. AllOK' BY <2>2, <3>1, UntouchedOK DEF AllOK, Untouched, vars
      <3>3. TypeOK' BY <2>2, <3>1 DEF TypeOK, vars
      <3> QED BY <3>2, <3>3, InvariantByRunPrime
    <2> QED BY <2>1, <2>2
  <1> QED BY <1>1, <1>2, PTL DEF Spec

\* At most one model call drives a run, and never beside a tool.
THEOREM OneDriverAlways == Spec => []OneDriver
  <1>1. LoopInvariant => OneDriver BY DEF LoopInvariant
  <1> QED BY <1>1, LoopSafe, PTL

\* A deferred steer always has a claimed effect left that will consume it.
THEOREM SteerNeverLost == Spec => []SteerNotLost
  <1>1. LoopInvariant => SteerNotLost BY DEF LoopInvariant
  <1> QED BY <1>1, LoopSafe, PTL

\* An unknown outcome walls its run off, and nothing else does.
THEOREM UnknownWallAlways == Spec => []UnknownWall
  <1>1. LoopInvariant => UnknownWall BY DEF LoopInvariant
  <1> QED BY <1>1, LoopSafe, PTL

=============================================================================
