-------------------------- MODULE CordisCallsProof --------------------------
(***************************************************************************)
(* Safety of a run of Cordis and its executors, for any executors, step    *)
(* counts, batch sizes and faults.                                         *)
(*                                                                         *)
(* The invariant has a part about the kernel (RowsOK, LedgerOK) and a part *)
(* about each executor (ExecutorOK).  The first is changed by claims and   *)
(* settlements only; the second survives whatever others do, because the   *)
(* rows only move forward (Forward).                                       *)
(***************************************************************************)
EXTENDS CordisCalls, FiniteSetTheorems, WellFoundedInduction, TLAPS

-----------------------------------------------------------------------------
(* The inductive invariant. *)

EffectRow == [kind : {"none", "run_start", "model_call", "tool_call"},
              status : {"none", "ready", "claimed", "settled", "unknown"}, fence : Nat,
              leased : BOOLEAN, batch : Effects \cup {0}, outcome : Receipts]
RunRow == [phase : {"none", "refused", "model", "tools", "sealed"}, steps : 0..MaxSteps]
BindRow == [step : {"rest", "looked", "read", "free", "made", "written", "resolved"},
            n : Steps \cup {0}]
SourceRow == [inbox : Steps \cup {0}, tmp : [Hosts -> Steps \cup {0}], bound : Steps \cup {0}]
Pass == [part : {"off", "replay", "serve"}, seen : SUBSET Effects, todo : SUBSET Receipts,
         rows : SUBSET Effects, bind : BindRow, work : Receipts]

\* The columns of the kernel, the journals and the passes.
Shape ==
    /\ contracts \in [start : BOOLEAN, bindings : BOOLEAN]
    /\ effects \in [Effects -> EffectRow]
    /\ run \in RunRow
    /\ owner \in {"active", "closing", "closed"}
    /\ source \in SourceRow
    /\ journal \in [Hosts -> SUBSET Receipts]
    /\ host \in [Hosts -> Pass]

\* A receipt of the run_start that is a success carries a request.
Bound(r) == r.effect = Start /\ r.what = "success" => r.n \in Steps

RowOK(e) ==
    /\ effects[e].kind = "none" <=> effects[e].status = "none"
    /\ effects[e].kind = "run_start" <=> e = Start
    /\ effects[e].status \in {"none", "ready"} => effects[e].fence = 0
    /\ effects[e].fence > 1 => Repeats(e)
    /\ Terminal(e) => effects[e].outcome.fence = effects[e].fence
    /\ Bound(effects[e].outcome)

\* The calls of the run that settled, and those that have not.
Done == {e \in Effects \ {Start} : effects[e].status = "settled"}
Due == {e \in Effects \ {Start} : effects[e].status \in {"ready", "claimed", "unknown"}}

\* The phase of a run says what is outstanding; what is left covers it.
LedgerOK ==
    /\ Used = 1..Cardinality(Used)
    /\ run.phase = "none" => Open(Start) /\ Done = {} /\ Due = {}
    /\ run.phase # "none" => effects[Start].status = "settled"
    /\ run.phase \in {"model", "tools", "sealed"} =>
           /\ effects[Start].outcome.n \in Steps
           /\ run.steps + Cardinality(Done) = effects[Start].outcome.n
    /\ run.phase = "model" => \E e \in Effects : Due = {e} /\ effects[e].kind = "model_call"
    /\ run.phase = "tools" =>
           /\ Due # {}
           /\ Cardinality(Due) <= run.steps
           /\ \A e \in Due : effects[e].kind = "tool_call"
           /\ \A e, f \in Due : effects[e].batch = effects[f].batch
    /\ run.phase \in {"refused", "sealed"} => Due = {}
    /\ owner = "closed" => run.phase \in {"refused", "sealed"}

\* A receipt belongs to a token that was given out, and says what a handler may say.
ReceiptOK(r) ==
    /\ r.effect \in Effects
    /\ effects[r.effect].status # "none"
    /\ r.fence >= 1 /\ r.fence <= effects[r.effect].fence
    /\ r.effect = Start => r.what \in {"success", "failure", "invalid"}
    /\ r.what = "tools" => r.n # 0
    /\ Bound(r)

\* What an executor knows in pass p with the receipts J: no row of its page has a receipt,
\* and nor has the call it is at.
KnowsOK(p, J) ==
    /\ \A r \in J : ReceiptOK(r)
    /\ p.todo \subseteq J
    /\ p.work # NoReceipt => p.part = "serve"
    /\ p.part = "replay" => \A r \in J : r \in p.todo \/ r.effect \in p.seen
    /\ p.part = "serve" => p.todo = {} /\ \A r \in J : r.effect \notin p.rows
    /\ p.work # NoReceipt /\ p.work.what = "none" =>
           /\ p.work.effect \in Effects \ p.rows
           /\ effects[p.work.effect].status # "none"
           /\ p.work.fence >= 1 /\ p.work.fence <= effects[p.work.effect].fence
           /\ p.work.effect = Start => p.work.n \in Steps \cup {0}
           /\ \A r \in J : r.effect # p.work.effect
    /\ p.work # NoReceipt /\ p.work.what # "none" => p.work \in J

ExecutorOK(h) == KnowsOK(host[h], journal[h])

TeamOK == Team \in Teams /\ faults \in 0..MaxFaults[Team]

CallsInvariant ==
    /\ Shape
    /\ \A e \in Effects : RowOK(e)
    /\ LedgerOK
    /\ \A h \in Hosts : ExecutorOK(h)
    /\ TeamOK

-----------------------------------------------------------------------------
(* Counting. *)

\* The request with the most steps exists.
LEMMA MostSteps ==
    /\ MaxSteps \in Steps /\ MaxSteps \in Nat /\ MaxSteps >= 1
    /\ \A s \in Steps : s \in Nat /\ s >= 1 /\ s <= MaxSteps
<1> DEFINE Above(s) == {t \in Steps : s < t}
           All == {Above(s) : s \in Steps}
<1>1. Steps \subseteq Nat \ {0} /\ IsFiniteSet(Steps) /\ Steps # {}
  BY CallsAssumption
<1>2. All \subseteq FiniteSubsetsOf(Steps) /\ All # {}
  <2>1. \A s : Above(s) \in SUBSET Steps
    OBVIOUS
  <2>2. FiniteSubsetsOf(Steps) = SUBSET Steps
    BY <1>1, FS_FiniteSubsetsOfFinite
  <2>3. PICK s \in Steps : TRUE
    BY <1>1
  <2>4. Above(s) \in All
    BY <2>3
  <2>5. \A T \in All : T \in SUBSET Steps
    BY <2>1
  <2> HIDE DEF All
  <2> QED
    BY <2>2, <2>4, <2>5
<1>3. IsWellFoundedOn(StrictSubsetOrdering(Steps), FiniteSubsetsOf(Steps))
  BY FS_StrictSubsetOrderingWellFounded
<1>4. PICK S \in All : \A T \in All : ~(<<T, S>> \in StrictSubsetOrdering(Steps))
  BY <1>2, <1>3, WFMin
<1>5. PICK s \in Steps : S = Above(s)
  BY <1>4
<1>6. ASSUME NEW t \in Steps PROVE t <= s
  <2>1. s \in Nat /\ t \in Nat
    BY <1>1
  <2>2. CASE s < t
    <3>1. Above(t) \subseteq Above(s) /\ t \in Above(s) /\ t \notin Above(t)
      <4>1. ASSUME NEW x \in Steps, t < x PROVE s < x
        <5>1. x \in Nat
          BY <1>1
        <5> QED
          BY <2>1, <2>2, <4>1, <5>1
      <4>2. ~(t < t)
        BY <2>1
      <4> QED
        BY <2>2, <4>1, <4>2
    <3>2. <<Above(t), Above(s)>> \in StrictSubsetOrdering(Steps)
      BY <3>1 DEF StrictSubsetOrdering
    <3> QED
      BY <3>2, <1>4, <1>5
  <2> QED
    BY <2>1, <2>2
<1>7. MaxSteps \in Steps /\ \A t \in Steps : t <= MaxSteps
  BY <1>6 DEF MaxSteps
<1> QED
  BY <1>1, <1>7

\* The effects of a run are the numbers up to the last that a request may need.
LEMMA EffectNumbers ==
    /\ Effects = 1..(MaxSteps + 1) /\ Effects \subseteq Nat /\ 0 \notin Effects
    /\ IsFiniteSet(Effects) /\ Start \in Effects
<1>1. MaxSteps \in Nat /\ MaxSteps >= 1
  BY MostSteps
<1> QED
  BY <1>1, FS_Interval DEF Effects, Start

RowsOK == \A e \in Effects : RowOK(e)

\* Every effect in use is the run_start, a call that settled or one that is due.
LEMMA Tally ==
    ASSUME Shape, RowsOK
    PROVE  /\ Used = {Start} \cup Done \cup Due /\ Done \cap Due = {}
           /\ IsFiniteSet(Used) /\ IsFiniteSet(Done) /\ IsFiniteSet(Due)
           /\ Cardinality(Used) \in Nat /\ Cardinality(Done) \in Nat /\ Cardinality(Due) \in Nat
           /\ Cardinality(Used) = 1 + Cardinality(Done) + Cardinality(Due)
<1>1. Used \subseteq Effects /\ Done \subseteq Effects /\ Due \subseteq Effects
  BY DEF Used, Done, Due
<1>2. IsFiniteSet(Used) /\ IsFiniteSet(Done) /\ IsFiniteSet(Due)
  BY <1>1, EffectNumbers, FS_Subset
<1>3. Used = {Start} \cup Done \cup Due
  <2>1. \A e \in Effects : effects[e].status \in {"none", "ready", "claimed", "settled", "unknown"}
    BY DEF Shape, EffectRow
  <2> QED
    BY <2>1, EffectNumbers DEF RowsOK, RowOK, Used, Done, Due
<1>4. Start \notin Done \cup Due /\ Done \cap Due = {}
  BY DEF Done, Due
<1>5. IsFiniteSet(Done \cup Due) /\ Cardinality(Done \cup Due) = Cardinality(Done) + Cardinality(Due)
  <2>1. /\ IsFiniteSet(Done \cup Due)
        /\ Cardinality(Done \cup Due) = Cardinality(Done) + Cardinality(Due) - Cardinality(Done \cap Due)
    BY <1>2, FS_Union
  <2>2. Cardinality(Done) \in Nat /\ Cardinality(Due) \in Nat /\ Cardinality(Done \cap Due) = 0
    BY <1>2, <1>4, FS_CardinalityType, FS_EmptySet
  <2> QED
    BY <2>1, <2>2
<1>6. Cardinality((Done \cup Due) \cup {Start}) = Cardinality(Done \cup Due) + 1
  BY <1>4, <1>5, FS_AddElement
<1>7. Used = (Done \cup Due) \cup {Start}
  BY <1>3
<1>8. Cardinality(Used) \in Nat /\ Cardinality(Done) \in Nat /\ Cardinality(Due) \in Nat
  BY <1>2, FS_CardinalityType
<1>9. Cardinality(Used) = Cardinality(Done \cup Due) + 1
  BY <1>6, <1>7
<1>10. Cardinality(Used) = 1 + Cardinality(Done) + Cardinality(Due)
  BY <1>5, <1>8, <1>9
<1> QED
  BY <1>2, <1>3, <1>4, <1>8, <1>10

\* A settlement that the steps cover finds enough numbers that nobody has used.
LEMMA FreshNumbers ==
    ASSUME Shape, RowsOK, Used = 1..Cardinality(Used), NEW n \in Nat,
           Cardinality(Done) + Cardinality(Due) + n <= MaxSteps
    PROVE  /\ Fresh(n) \cap Used = {} /\ Fresh(n) \subseteq Effects
           /\ IsFiniteSet(Fresh(n)) /\ Cardinality(Fresh(n)) = n
           /\ Used \cup Fresh(n) = 1..(Cardinality(Used) + n)
<1> DEFINE k == Cardinality(Used)
<1>1. k \in Nat /\ k + n <= MaxSteps + 1 /\ MaxSteps \in Nat
  BY Tally, MostSteps
<1>2. Fresh(n) = (k + 1)..(k + n)
  <2> HIDE DEF k
  <2>1. Fresh(n) = {e \in Effects : k < e /\ e <= k + n}
    BY DEF Fresh, k
  <2>2. Effects = 1..(MaxSteps + 1)
    BY EffectNumbers
  <2> QED
    BY <1>1, <2>1, <2>2
<1>3. Used = 1..k
  OBVIOUS
<1> HIDE DEF k
<1>4. IsFiniteSet(Fresh(n)) /\ Cardinality(Fresh(n)) = n
  <2>1. /\ IsFiniteSet((k + 1)..(k + n))
        /\ Cardinality((k + 1)..(k + n)) = IF k + 1 > k + n THEN 0 ELSE (k + n) - (k + 1) + 1
    <3>1. k + 1 \in Int /\ k + n \in Int
      BY <1>1
    <3> QED
      BY <3>1, FS_Interval
  <2> QED
    BY <1>1, <1>2, <2>1
<1>5. Fresh(n) \cap Used = {} /\ Used \cup Fresh(n) = 1..(k + n)
  BY <1>1, <1>2, <1>3
<1>6. Fresh(n) \subseteq Effects
  BY DEF Fresh
<1> QED
  BY <1>4, <1>5, <1>6 DEF k

\* Where nothing is emitted, nothing is fresh.
LEMMA NothingFresh ==
    ASSUME Shape, RowsOK
    PROVE  Fresh(0) = {}
<1>1. Cardinality(Used) \in Nat
  BY Tally
<1> QED
  BY <1>1, EffectNumbers DEF Fresh

-----------------------------------------------------------------------------
(* Settlements. *)

\* The kernel takes the receipt r of a claim, gives its effect a status and emits n others.
Takes(r, status, kind, n) ==
    /\ r \in Receipts /\ r.effect \in Effects
    /\ effects[r.effect].status = "claimed" /\ effects[r.effect].fence = r.fence
    /\ Bound(r)
    /\ status \in {"settled", "unknown"}
    /\ \/ kind = "none" /\ n = 0
       \/ kind \in {"model_call", "tool_call"} /\ n \in Nat /\ Fresh(n) \cap Used = {}
    /\ Outcome(r, status, kind, n)
    /\ UNCHANGED contracts

\* The rows after that.
LEMMA TakenRows ==
    ASSUME Shape, RowsOK, NEW r, NEW status, NEW kind, NEW n, Takes(r, status, kind, n)
    PROVE  /\ Fresh(n) \cap Used = {} /\ r.effect \in Used /\ r.effect \notin Fresh(n)
           /\ effects' \in [Effects -> EffectRow]
           /\ effects'[r.effect].kind = effects[r.effect].kind
           /\ effects'[r.effect].fence = effects[r.effect].fence
           /\ effects'[r.effect].batch = effects[r.effect].batch
           /\ effects'[r.effect].status = status /\ effects'[r.effect].outcome = r
           /\ \A e \in Fresh(n) :
                  /\ effects'[e].kind = kind /\ effects'[e].status = "ready"
                  /\ effects'[e].fence = 0 /\ effects'[e].batch = r.effect
                  /\ effects'[e].outcome = NoReceipt
           /\ \A e \in Effects : e \notin Fresh(n) /\ e # r.effect => effects'[e] = effects[e]
<1>1. Fresh(n) \cap Used = {}
  BY NothingFresh DEF Takes
<1>2. r.effect \in Used
  BY DEF Takes, Used, RowsOK, RowOK
<1>3. effects[r.effect] \in EffectRow /\ r \in Receipts /\ 0 \notin Effects /\ r.effect \in Effects
  BY EffectNumbers DEF Takes, Shape
<1>4. [effects[r.effect] EXCEPT !.status = status, !.leased = FALSE, !.outcome = r] \in EffectRow
  BY <1>3 DEF Takes, EffectRow
<1>5. NoReceipt \in Receipts
  BY DEF NoReceipt, Receipts
<1>6. Ready(kind, r.effect) \in EffectRow
  BY <1>3, <1>5 DEF Ready, Absent, EffectRow, Takes
<1>7. effects' = [e \in Effects |->
        IF e = r.effect
        THEN [effects[e] EXCEPT !.status = status, !.leased = FALSE, !.outcome = r]
        ELSE IF e \in Fresh(n) THEN Ready(kind, r.effect) ELSE effects[e]]
  BY DEF Takes, Outcome
<1>8. \A e \in Effects : effects'[e] \in EffectRow
  BY <1>4, <1>6, <1>7 DEF Shape
<1>9. effects' \in [Effects -> EffectRow]
  BY <1>7, <1>8
<1>10. Fresh(n) \subseteq Effects /\ r.effect \notin Fresh(n) /\ r.effect \in Effects
  BY <1>1, <1>2, <1>3 DEF Fresh
<1>11. effects'[r.effect] = [effects[r.effect] EXCEPT !.status = status, !.leased = FALSE,
                                                      !.outcome = r]
  BY <1>7, <1>10
<1>12. /\ effects'[r.effect].kind = effects[r.effect].kind
       /\ effects'[r.effect].fence = effects[r.effect].fence
       /\ effects'[r.effect].batch = effects[r.effect].batch
       /\ effects'[r.effect].status = status /\ effects'[r.effect].outcome = r
  BY <1>3, <1>11 DEF EffectRow
<1>13. ASSUME NEW e \in Fresh(n)
       PROVE  /\ effects'[e].kind = kind /\ effects'[e].status = "ready"
              /\ effects'[e].fence = 0 /\ effects'[e].batch = r.effect
              /\ effects'[e].outcome = NoReceipt
  <2>1. effects'[e] = Ready(kind, r.effect)
    BY <1>7, <1>10, <1>13
  <2> QED
    BY <2>1 DEF Ready, Absent
<1>14. ASSUME NEW e \in Effects, e \notin Fresh(n), e # r.effect PROVE effects'[e] = effects[e]
  BY <1>7, <1>14
<1> QED
  BY <1>1, <1>2, <1>9, <1>10, <1>12, <1>13, <1>14

\* The same by the columns that matter, for the effect that settled and those it emitted.
LEMMA TakenColumns ==
    ASSUME Shape, RowsOK, NEW r, NEW status, NEW kind, NEW n, Takes(r, status, kind, n)
    PROVE  LET s == effects[r.effect]
               t == effects'[r.effect]
           IN  /\ r.effect \in Effects /\ r.effect \in Used /\ s.status = "claimed"
               /\ status \in {"settled", "unknown"}
               /\ t.kind = s.kind /\ t.fence = s.fence /\ t.batch = s.batch
               /\ t.status = status /\ t.outcome = r /\ s.fence = r.fence
               /\ s.kind # "none"
               /\ \A e \in Fresh(n) :
                      /\ e \in Effects /\ e \notin Used /\ effects[e].status = "none"
                      /\ e # r.effect /\ kind \in {"model_call", "tool_call"}
                      /\ effects'[e].kind = kind /\ effects'[e].status = "ready"
                      /\ effects'[e].fence = 0 /\ effects'[e].batch = r.effect
                      /\ effects'[e].outcome = NoReceipt
<1>1. effects[r.effect].kind # "none"
  BY TakenRows DEF Used
<1>2. ASSUME NEW e \in Fresh(n)
      PROVE  /\ e \in Effects /\ e \notin Used /\ effects[e].status = "none" /\ e # r.effect
             /\ kind \in {"model_call", "tool_call"}
  <2>1. e \in Effects /\ e \notin Used /\ e # r.effect
    BY TakenRows DEF Fresh
  <2>2. effects[e].status = "none"
    BY <2>1 DEF Used, RowsOK, RowOK
  <2>3. n # 0
    BY NothingFresh
  <2> QED
    BY <2>1, <2>2, <2>3 DEF Takes
<1> QED
  BY <1>1, <1>2, TakenRows DEF Takes

\* The rows stay well.
LEMMA TakenRowsOK ==
    ASSUME Shape, RowsOK, NEW r, NEW status, NEW kind, NEW n, Takes(r, status, kind, n)
    PROVE  RowsOK'
<1>1. contracts' = contracts /\ Bound(r)
  BY DEF Takes
<1>2. Bound(r)'
  BY <1>1 DEF Bound
<1>3. ASSUME NEW e \in Effects PROVE RowOK(e)'
  <2>1. RowOK(e)
    BY DEF RowsOK
  <2>2. CASE e = r.effect
    <3>1. /\ effects[e].status = "claimed" /\ effects[e].kind # "none"
          /\ effects'[e].kind = effects[e].kind /\ effects'[e].fence = effects[e].fence
          /\ effects'[e].outcome = r /\ effects'[e].fence = r.fence
          /\ effects'[e].status \in {"settled", "unknown"}
      BY <2>2, TakenColumns
    <3> QED
      BY <1>1, <1>2, <2>1, <2>2, <3>1 DEF RowOK, Terminal, Repeats
  <2>3. CASE e \in Fresh(n)
    <3>1. /\ effects[e].status = "none" /\ kind \in {"model_call", "tool_call"}
          /\ effects'[e].kind = kind /\ effects'[e].status = "ready"
          /\ effects'[e].fence = 0 /\ effects'[e].outcome = NoReceipt
      BY <2>3, TakenColumns
    <3>2. Bound(effects[e].outcome)' /\ NoReceipt.effect = 0 /\ Start # 0
      BY <3>1 DEF NoReceipt, Bound, Start
    <3>3. e # Start
      BY <2>1, <3>1 DEF RowOK
    <3>4. ~(effects'[e].fence > 1)
      BY <3>1
    <3> QED
      BY <3>1, <3>2, <3>3, <3>4 DEF RowOK, Terminal
  <2>4. CASE e # r.effect /\ e \notin Fresh(n)
    <3>1. effects'[e] = effects[e]
      BY <2>4, TakenRows
    <3> QED
      BY <1>1, <2>1, <3>1 DEF RowOK, Terminal, Repeats, Bound
  <2> QED
    BY <2>2, <2>3, <2>4
<1> QED
  BY <1>3 DEF RowsOK

\* What is in use, done and due after it.
LEMMA TakenSets ==
    ASSUME Shape, RowsOK, NEW r, NEW status, NEW kind, NEW n, Takes(r, status, kind, n)
    PROVE  /\ Used' = Used \cup Fresh(n)
           /\ Done' = IF status = "settled" /\ r.effect # Start THEN Done \cup {r.effect} ELSE Done
           /\ r.effect # Start =>
                  Due' = (IF status = "settled" THEN Due \ {r.effect} ELSE Due) \cup Fresh(n)
           /\ r.effect = Start => Due' = Due \cup Fresh(n)
           /\ r.effect # Start => r.effect \in Due /\ r.effect \notin Done
<1>1. ASSUME NEW e \in Effects
      PROVE  /\ e = r.effect => /\ effects[e].status = "claimed" /\ effects'[e].status = status
                                /\ effects[e].kind # "none" /\ effects'[e].kind # "none"
             /\ e \in Fresh(n) => /\ effects[e].status = "none" /\ effects'[e].status = "ready"
                                  /\ effects'[e].kind # "none" /\ e # Start
             /\ e # r.effect /\ e \notin Fresh(n) => effects'[e] = effects[e]
  <2>1. effects[Start].status # "none"
    BY EffectNumbers DEF RowsOK, RowOK
  <2>2. e \in Fresh(n) => e # Start
    BY <2>1, TakenColumns
  <2> QED
    BY <2>2, TakenRows, TakenColumns
<1>2. Fresh(n) \subseteq Effects /\ r.effect \in Effects /\ status \in {"settled", "unknown"}
  BY TakenColumns
<1>3. \A e : e \in Used' <=> e \in Used \/ e \in Fresh(n)
  BY <1>1, <1>2 DEF Used
<1>4. \A e : e \in Done' <=> e \in Done \/ (status = "settled" /\ r.effect # Start /\ e = r.effect)
  BY <1>1, <1>2 DEF Done
<1>5. ASSUME r.effect # Start
      PROVE  \A e : e \in Due' <=> \/ e \in Due /\ ~(status = "settled" /\ e = r.effect)
                                   \/ e \in Fresh(n)
  BY <1>1, <1>2, <1>5 DEF Due
<1>6. r.effect = Start => \A e : e \in Due' <=> e \in Due \/ e \in Fresh(n)
  BY <1>1, <1>2 DEF Due
<1>7. r.effect # Start => r.effect \in Due /\ r.effect \notin Done
  BY <1>1, <1>2 DEF Due, Done
<1> QED
  BY <1>3, <1>4, <1>5, <1>6, <1>7

\* The numbers in use stay without a gap when a settlement that the steps cover emits some.
LEMMA TakenNumbers ==
    ASSUME Shape, RowsOK, Used = 1..Cardinality(Used),
           NEW r, NEW status, NEW kind, NEW n \in Nat, Takes(r, status, kind, n),
           Cardinality(Done) + Cardinality(Due) + n <= MaxSteps
    PROVE  (Used = 1..Cardinality(Used))'
<1>1. Used' = 1..(Cardinality(Used) + n)
  BY TakenSets, FreshNumbers
<1>2. Cardinality(Used) \in Nat
  BY Tally
<1>3. Cardinality(1..(Cardinality(Used) + n)) = Cardinality(Used) + n
  <2> DEFINE m == Cardinality(Used) + n
  <2>1. m \in Nat
    BY <1>2
  <2> HIDE DEF m
  <2>2. Cardinality(1..m) = IF 1 > m THEN 0 ELSE m - 1 + 1
    BY <2>1, FS_Interval
  <2>3. Cardinality(1..m) = m
    BY <2>1, <2>2
  <2> QED
    BY <2>3 DEF m
<1> QED
  BY <1>1, <1>3

\* A receipt of another effect than the run_start leaves the request alone.
LEMMA StartKept ==
    ASSUME Shape, RowsOK, NEW r, NEW status, NEW kind, NEW n, Takes(r, status, kind, n),
           r.effect # Start
    PROVE  effects'[Start] = effects[Start]
<1>1. Start \in Effects /\ effects[Start].status # "none"
  BY EffectNumbers DEF RowsOK, RowOK
<1>2. Start \notin Fresh(n)
  BY <1>1, TakenColumns
<1> QED
  BY <1>1, <1>2, TakenRows

\* Where an effect is claimed, the phase of the run is the one it works for, and the steps
\* that are left have numbers.
LEMMA PhaseOfClaim ==
    ASSUME Shape, RowsOK, LedgerOK, NEW e \in Effects, effects[e].status = "claimed"
    PROVE  /\ e = Start => run.phase = "none"
           /\ e # Start => run.phase \in {"model", "tools"} /\ owner # "closed" /\ e \in Due
           /\ run.phase = "model" => Due = {e} /\ effects[e].kind = "model_call"
           /\ run.phase = "tools" => effects[e].kind = "tool_call"
           /\ run.phase \in {"model", "tools"} => Cardinality(Done) + run.steps <= MaxSteps
<1>1. run.phase \in {"none", "refused", "model", "tools", "sealed"} /\ run.steps \in 0..MaxSteps
  BY DEF Shape, RunRow
<1>2. e # Start => e \in Due
  BY DEF Due
<1>3. ASSUME run.phase \in {"model", "tools"} PROVE Cardinality(Done) + run.steps <= MaxSteps
  <2>1. /\ effects[Start].outcome.n \in Steps
        /\ run.steps + Cardinality(Done) = effects[Start].outcome.n
    BY <1>3 DEF LedgerOK
  <2>2. Cardinality(Done) \in Nat /\ run.steps \in Nat
    BY <1>1, Tally, MostSteps
  <2> QED
    BY <2>1, <2>2, MostSteps
<1> QED
  BY <1>1, <1>2, <1>3 DEF LedgerOK

\* The same for a call that is settled.
LEMMA PhaseOfCall ==
    ASSUME Shape, RowsOK, LedgerOK, NEW r, NEW status, NEW kind, NEW n, Takes(r, status, kind, n)
    PROVE  /\ r.effect = Start => run.phase = "none"
           /\ r.effect # Start => run.phase \in {"model", "tools"} /\ owner # "closed"
           /\ run.phase = "model" => Due = {r.effect} /\ effects[r.effect].kind = "model_call"
           /\ run.phase = "tools" => effects[r.effect].kind = "tool_call"
  BY PhaseOfClaim DEF Takes

\* A call with an unknown outcome stays due, and no step is paid.
LEMMA LedgerUnknown ==
    ASSUME Shape, RowsOK, LedgerOK, NEW r, Takes(r, "unknown", "none", 0), r.effect # Start,
           run' = run, owner' = owner
    PROVE  LedgerOK'
<1>1. Fresh(0) = {}
  BY NothingFresh
<1>2. Used' = Used /\ Done' = Done /\ Due' = Due
  BY <1>1, TakenSets
<1>3. effects'[Start] = effects[Start]
  BY StartKept
<1>4. \A e \in Due : effects'[e].kind = effects[e].kind /\ effects'[e].batch = effects[e].batch
  BY <1>1, TakenRows DEF Due
<1>5. run.phase \in {"model", "tools"} /\ owner # "closed"
  BY PhaseOfCall
<1>6. Due' # {} /\ \A e \in Due' : e \in Effects
  BY <1>2, <1>5 DEF LedgerOK, Due
<1>7. run.phase = "model" => \E e \in Effects : Due' = {e} /\ effects'[e].kind = "model_call"
  BY <1>2, <1>4 DEF LedgerOK
<1>8. run.phase = "tools" => /\ Cardinality(Due') <= run.steps
                             /\ \A e \in Due' : effects'[e].kind = "tool_call"
                             /\ \A e, f \in Due' : effects'[e].batch = effects'[f].batch
  BY <1>2, <1>4 DEF LedgerOK
<1>9. Used' = 1..Cardinality(Used')
  BY <1>2 DEF LedgerOK
<1>10. run.steps + Cardinality(Done') = effects'[Start].outcome.n
       /\ effects'[Start].outcome.n \in Steps /\ effects'[Start].status = "settled"
  BY <1>2, <1>3, <1>5 DEF LedgerOK
<1> QED
  BY <1>5, <1>6, <1>7, <1>8, <1>9, <1>10 DEF LedgerOK

\* The run opens with the request of its run_start.
LEMMA LedgerOpens ==
    ASSUME Shape, RowsOK, LedgerOK, NEW r, Takes(r, "settled", "model_call", 1), r.effect = Start,
           r.what = "success", run' = [phase |-> "model", steps |-> r.n], owner' = owner
    PROVE  LedgerOK' /\ run' \in RunRow
<1>1. r.n \in Steps /\ r.n \in 0..MaxSteps
  <2>2. r.n \in Steps
    BY DEF Takes, Bound
  <2>3. r.n \in Nat /\ r.n <= MaxSteps /\ MaxSteps \in Nat
    BY <2>2, MostSteps
  <2> QED
    BY <2>2, <2>3
<1>2. run.phase = "none" /\ Done = {} /\ Due = {} /\ owner # "closed"
  BY PhaseOfCall DEF LedgerOK
<1>3. Cardinality(Done) = 0 /\ Cardinality(Due) = 0 /\ MaxSteps \in Nat /\ MaxSteps >= 1
  BY <1>2, FS_EmptySet, MostSteps
<1>4. IsFiniteSet(Fresh(1)) /\ Cardinality(Fresh(1)) = 1
  BY <1>3, FreshNumbers DEF LedgerOK
<1>5. PICK x : Fresh(1) = {x}
  BY <1>4, FS_Singleton
<1>6. Done' = {} /\ Due' = {x}
  BY <1>2, <1>5, TakenSets
<1>7. x \in Effects /\ effects'[x].kind = "model_call"
  BY <1>5, TakenColumns
<1>8. effects'[Start].status = "settled" /\ effects'[Start].outcome = r
  BY TakenColumns
<1>9. (Used = 1..Cardinality(Used))'
  BY <1>3, TakenNumbers DEF LedgerOK
<1>10. r.n + Cardinality(Done') = r.n
  BY <1>1, <1>6, FS_EmptySet
<1>11. run'.phase = "model" /\ run'.steps = r.n
  OBVIOUS
<1>12. run' \in RunRow
  BY <1>1 DEF RunRow
<1> QED
  BY <1>1, <1>2, <1>6, <1>7, <1>8, <1>9, <1>10, <1>11, <1>12 DEF LedgerOK

\* A run that is refused has nothing but its run_start.
LEMMA LedgerRefused ==
    ASSUME Shape, RowsOK, LedgerOK, NEW r, Takes(r, "settled", "none", 0), r.effect = Start,
           run' = [run EXCEPT !.phase = "refused"], owner' = owner
    PROVE  LedgerOK' /\ run' \in RunRow
<1>1. run.phase = "none" /\ Done = {} /\ Due = {} /\ owner # "closed"
  BY PhaseOfCall DEF LedgerOK
<1>2. Fresh(0) = {}
  BY NothingFresh
<1>3. Used' = Used /\ Due' = {}
  BY <1>1, <1>2, TakenSets
<1>4. effects'[Start].status = "settled"
  BY TakenColumns
<1>5. run' \in RunRow /\ run'.phase = "refused"
  BY DEF Shape, RunRow
<1>6. Used' = 1..Cardinality(Used')
  BY <1>3 DEF LedgerOK
<1> QED
  BY <1>1, <1>3, <1>4, <1>5, <1>6 DEF LedgerOK

\* What one call that settles does to the counts.
LEMMA CallPaid ==
    ASSUME Shape, RowsOK, LedgerOK, NEW r, NEW kind, NEW n, Takes(r, "settled", kind, n),
           r.effect # Start, run.steps >= 1
    PROVE  /\ run.steps \in 1..MaxSteps /\ run.steps - 1 \in 0..MaxSteps
           /\ Cardinality(Done) \in Nat /\ Cardinality(Due) \in Nat /\ Cardinality(Due) >= 1
           /\ Done' = Done \cup {r.effect} /\ Due' = (Due \ {r.effect}) \cup Fresh(n)
           /\ Cardinality(Done') = Cardinality(Done) + 1
           /\ Cardinality(Due \ {r.effect}) = Cardinality(Due) - 1
           /\ effects'[Start] = effects[Start] /\ effects[Start].status = "settled"
           /\ effects[Start].outcome.n \in Steps
           /\ (run.steps - 1) + Cardinality(Done') = effects'[Start].outcome.n
           /\ Cardinality(Done) + run.steps <= MaxSteps
           /\ owner # "closed"
<1>1. run.phase \in {"model", "tools"} /\ owner # "closed"
  BY PhaseOfCall
<1>2. run.steps \in 0..MaxSteps /\ MaxSteps \in Nat
  BY MostSteps DEF Shape, RunRow
<1>3. r.effect \in Due /\ r.effect \notin Done /\ Done' = Done \cup {r.effect}
      /\ Due' = (Due \ {r.effect}) \cup Fresh(n)
  BY TakenSets
<1>4. /\ IsFiniteSet(Done) /\ IsFiniteSet(Due)
      /\ Cardinality(Done) \in Nat /\ Cardinality(Due) \in Nat
  BY Tally
<1>5. Cardinality(Done') = Cardinality(Done) + 1
  BY <1>3, <1>4, FS_AddElement
<1>6. Cardinality(Due \ {r.effect}) = Cardinality(Due) - 1 /\ Cardinality(Due) >= 1
  <2>1. /\ IsFiniteSet(Due \ {r.effect})
        /\ Cardinality(Due \ {r.effect}) = Cardinality(Due) - 1
    BY <1>3, <1>4, FS_RemoveElement
  <2>2. Cardinality(Due \ {r.effect}) \in Nat
    BY <2>1, FS_CardinalityType
  <2> QED
    BY <1>4, <2>1, <2>2
<1>7. effects'[Start] = effects[Start]
  BY StartKept
<1>8. /\ effects[Start].status = "settled" /\ effects[Start].outcome.n \in Steps
      /\ run.steps + Cardinality(Done) = effects[Start].outcome.n
  BY <1>1 DEF LedgerOK
<1>9. run.steps + Cardinality(Done) <= MaxSteps
  BY <1>8, MostSteps
<1>10. (run.steps - 1) + Cardinality(Done') = effects'[Start].outcome.n
  BY <1>2, <1>4, <1>5, <1>7, <1>8
<1> QED
  BY <1>1, <1>2, <1>3, <1>4, <1>5, <1>6, <1>7, <1>8, <1>9, <1>10

\* A run that seals has nothing due.
LEMMA LedgerSealed ==
    ASSUME Shape, RowsOK, LedgerOK, NEW r, Takes(r, "settled", "none", 0), r.effect # Start,
           run.steps >= 1, Due = {r.effect}, owner' = owner,
           run' = [phase |-> "sealed", steps |-> run.steps - 1]
    PROVE  LedgerOK' /\ run' \in RunRow
<1>1. Due' = {}
  BY CallPaid, NothingFresh
<1>2. Used' = 1..Cardinality(Used')
  <2>1. Used' = Used
    BY NothingFresh, TakenSets
  <2> QED
    BY <2>1 DEF LedgerOK
<1>3. run' \in RunRow /\ run'.phase = "sealed" /\ run'.steps = run.steps - 1
  BY CallPaid DEF RunRow
<1>4. /\ effects'[Start].status = "settled" /\ effects'[Start].outcome.n \in Steps
      /\ run'.steps + Cardinality(Done') = effects'[Start].outcome.n
  BY <1>3, CallPaid
<1> QED
  BY <1>1, <1>2, <1>3, <1>4 DEF LedgerOK

\* The model asks for a batch that the steps cover.
LEMMA LedgerBatch ==
    ASSUME Shape, RowsOK, LedgerOK, NEW r, NEW n \in Nat, Takes(r, "settled", "tool_call", n),
           r.effect # Start, run.steps >= 1, run.phase = "model", n >= 1, n <= run.steps - 1,
           run' = [phase |-> "tools", steps |-> run.steps - 1], owner' = owner
    PROVE  LedgerOK' /\ run' \in RunRow
<1>1. Due = {r.effect} /\ Cardinality(Due) = 1
  BY PhaseOfCall, FS_Singleton
<1>2. Cardinality(Done) + Cardinality(Due) + n <= MaxSteps
  <2>1. Cardinality(Done) \in Nat /\ Cardinality(Done) + run.steps <= MaxSteps
    BY CallPaid
  <2>2. run.steps \in Nat /\ MaxSteps \in Nat
    BY MostSteps DEF Shape, RunRow
  <2> QED
    BY <1>1, <2>1, <2>2
<1>3. Due' = Fresh(n)
  BY <1>1, CallPaid
<1>4. IsFiniteSet(Fresh(n)) /\ Cardinality(Fresh(n)) = n
  BY <1>2, FreshNumbers DEF LedgerOK
<1>5. Due' # {}
  BY <1>3, <1>4, FS_EmptySet
<1>6. \A e \in Due' : effects'[e].kind = "tool_call" /\ effects'[e].batch = r.effect
  BY <1>3, TakenColumns
<1>7. (Used = 1..Cardinality(Used))'
  BY <1>2, TakenNumbers DEF LedgerOK
<1>8. run' \in RunRow /\ run'.phase = "tools" /\ run'.steps = run.steps - 1
  BY CallPaid DEF RunRow
<1>9. /\ effects'[Start].status = "settled" /\ effects'[Start].outcome.n \in Steps
      /\ run'.steps + Cardinality(Done') = effects'[Start].outcome.n
      /\ owner # "closed"
  BY <1>8, CallPaid
<1>10. Cardinality(Due') <= run'.steps
  BY <1>3, <1>4, <1>8
<1> QED
  BY <1>5, <1>6, <1>7, <1>8, <1>9, <1>10 DEF LedgerOK

\* A call of a batch that has others due pays its step.
LEMMA LedgerWaits ==
    ASSUME Shape, RowsOK, LedgerOK, NEW r, Takes(r, "settled", "none", 0), r.effect # Start,
           run.steps >= 1, run.phase = "tools", Due # {r.effect}, owner' = owner,
           run' = [run EXCEPT !.steps = run.steps - 1]
    PROVE  LedgerOK' /\ run' \in RunRow
<1>1. Fresh(0) = {}
  BY NothingFresh
<1>2. Due' = Due \ {r.effect} /\ r.effect \in Due
  BY <1>1, CallPaid, TakenSets
<1>3. Due' # {}
  BY <1>2
<1>4. \A e \in Due' : e \in Due /\ effects'[e] = effects[e]
  BY <1>1, <1>2, TakenRows DEF Due
<1>5. run' \in RunRow /\ run'.phase = "tools" /\ run'.steps = run.steps - 1
  BY CallPaid DEF Shape, RunRow
<1>6. Cardinality(Due') <= run'.steps
  <2>1. Cardinality(Due') = Cardinality(Due) - 1 /\ Cardinality(Due) \in Nat
    BY <1>2, CallPaid
  <2>2. Cardinality(Due) <= run.steps /\ run.steps \in Nat
    BY MostSteps DEF LedgerOK, Shape, RunRow
  <2> QED
    BY <1>5, <2>1, <2>2
<1>7. Used' = 1..Cardinality(Used')
  <2>1. Used' = Used
    BY <1>1, TakenSets
  <2> QED
    BY <2>1 DEF LedgerOK
<1>8. /\ effects'[Start].status = "settled" /\ effects'[Start].outcome.n \in Steps
      /\ run'.steps + Cardinality(Done') = effects'[Start].outcome.n
      /\ owner # "closed"
  BY <1>5, CallPaid
<1>9. /\ \A e \in Due' : effects'[e].kind = "tool_call"
      /\ \A e, f \in Due' : effects'[e].batch = effects'[f].batch
  BY <1>4 DEF LedgerOK
<1> QED
  BY <1>3, <1>5, <1>6, <1>7, <1>8, <1>9 DEF LedgerOK

\* The last call of a batch is followed by the next model call.
LEMMA LedgerContinues ==
    ASSUME Shape, RowsOK, LedgerOK, NEW r, Takes(r, "settled", "model_call", 1), r.effect # Start,
           run.steps >= 2, Due = {r.effect}, owner' = owner,
           run' = [phase |-> "model", steps |-> run.steps - 1]
    PROVE  LedgerOK' /\ run' \in RunRow
<1>0. run.steps >= 1
  BY DEF Shape, RunRow
<1>1. Cardinality(Due) = 1
  BY FS_Singleton
<1>2. Cardinality(Done) + Cardinality(Due) + 1 <= MaxSteps
  <2>1. Cardinality(Done) \in Nat /\ Cardinality(Done) + run.steps <= MaxSteps
    BY <1>0, CallPaid
  <2>2. run.steps \in Nat /\ MaxSteps \in Nat
    BY MostSteps DEF Shape, RunRow
  <2> QED
    BY <1>1, <2>1, <2>2
<1>3. IsFiniteSet(Fresh(1)) /\ Cardinality(Fresh(1)) = 1
  BY <1>2, FreshNumbers DEF LedgerOK
<1>4. PICK x : Fresh(1) = {x}
  BY <1>3, FS_Singleton
<1>5. Due' = {x}
  BY <1>0, <1>4, CallPaid
<1>6. x \in Effects /\ effects'[x].kind = "model_call"
  BY <1>4, TakenColumns
<1>7. (Used = 1..Cardinality(Used))'
  BY <1>2, TakenNumbers DEF LedgerOK
<1>8. run' \in RunRow /\ run'.phase = "model" /\ run'.steps = run.steps - 1
  BY <1>0, CallPaid DEF RunRow
<1>9. /\ effects'[Start].status = "settled" /\ effects'[Start].outcome.n \in Steps
      /\ run'.steps + Cardinality(Done') = effects'[Start].outcome.n
      /\ owner # "closed"
  BY <1>0, <1>8, CallPaid
<1> QED
  BY <1>5, <1>6, <1>7, <1>8, <1>9 DEF LedgerOK

\* The kernel answers to a receipt by the claim it belongs to.
LEMMA Replies ==
    ASSUME Shape, RowsOK, NEW r \in Receipts, ReceiptOK(r)
    PROVE  LET e == effects[r.effect]
           IN  /\ Reply(r) = "committed" <=> e.status = "claimed" /\ e.fence = r.fence /\ ~Refused(r)
               /\ Reply(r) = "error" => e.status = "claimed" /\ e.fence = r.fence /\ Refused(r)
               /\ Reply(r) \notin {"committed", "error"} => Terminal(r.effect) \/ e.fence > r.fence
<1>1. /\ effects[r.effect].status \in {"none", "ready", "claimed", "settled", "unknown"}
      /\ effects[r.effect].fence \in Nat /\ r.fence \in Nat
  BY DEF Shape, EffectRow, Receipts, ReceiptOK
<1>2. effects[r.effect].status \in {"claimed", "settled", "unknown"}
  BY <1>1 DEF ReceiptOK, RowsOK, RowOK
<1>3. CASE effects[r.effect].status = "claimed" /\ effects[r.effect].fence # r.fence
  <2>1. Reply(r) = "stale_claim"
    BY <1>3 DEF Reply, Terminal
  <2>2. effects[r.effect].fence > r.fence
    BY <1>1, <1>3 DEF ReceiptOK
  <2> QED
    BY <1>3, <2>1, <2>2
<1>4. CASE effects[r.effect].status = "claimed" /\ effects[r.effect].fence = r.fence
  <2>1. Reply(r) = IF Refused(r) THEN "error" ELSE "committed"
    BY <1>4 DEF Reply, Terminal
  <2> QED
    BY <1>4, <2>1
<1>5. CASE effects[r.effect].status \in {"settled", "unknown"}
  <2>1. Terminal(r.effect)
    BY <1>5 DEF Terminal
  <2>2. Reply(r) \in {"replay", "receipt_conflict"}
    BY <1>5, <2>1 DEF Reply
  <2> QED
    BY <1>5, <2>1, <2>2
<1> QED
  BY <1>2, <1>3, <1>4, <1>5

\* Rows move forward: tokens are not taken back, and an effect that exists stays what it is.
Forward ==
    \A e \in Effects :
        /\ effects[e].fence <= effects'[e].fence
        /\ effects[e].status # "none" => effects'[e].status # "none"
        /\ effects[e].kind # "none" => effects'[e].kind = effects[e].kind

\* A receipt that is taken moves its effect and those it emits.
LEMMA TakenForward ==
    ASSUME Shape, RowsOK, NEW r, NEW status, NEW kind, NEW n, Takes(r, status, kind, n)
    PROVE  Forward
<1>1. ASSUME NEW e \in Effects
      PROVE  /\ effects[e].fence <= effects'[e].fence
             /\ effects[e].status # "none" => effects'[e].status # "none"
             /\ effects[e].kind # "none" => effects'[e].kind = effects[e].kind
  <2>0. effects[e].fence \in Nat
    BY DEF Shape, EffectRow
  <2>1. CASE e = r.effect
    BY <2>0, <2>1, TakenColumns
  <2>2. CASE e \in Fresh(n)
    <3>1. effects[e].status = "none" /\ e \notin Used /\ effects'[e].fence = 0
      BY <2>2, TakenColumns
    <3>2. effects[e].kind = "none" /\ effects[e].fence = 0
      BY <3>1 DEF RowsOK, RowOK
    <3> QED
      BY <3>1, <3>2
  <2>3. CASE e # r.effect /\ e \notin Fresh(n)
    <3>1. effects'[e] = effects[e]
      BY <2>3, TakenRows
    <3> QED
      BY <2>0, <3>1
  <2> QED
    BY <2>1, <2>2, <2>3
<1> QED
  BY <1>1 DEF Takes, Forward

\* The kernel as a settlement or a claim leaves it.
KernelOK ==
    effects' \in [Effects -> EffectRow] /\ run' \in RunRow /\ RowsOK' /\ LedgerOK' /\ Forward

\* The calls of a batch are awaited when others of it are due.
LEMMA Siblings ==
    ASSUME Shape, RowsOK, LedgerOK, run.phase = "tools", NEW e \in Due, effects[e].status = "claimed"
    PROVE  LiveSiblings(e) # {} \/ UnknownInRun <=> Due # {e}
<1>1. effects[Start].status = "settled"
  BY DEF LedgerOK
<1>2. ASSUME NEW f \in LiveSiblings(e) PROVE f \in Due /\ f # e
  BY <1>1, <1>2 DEF LiveSiblings, Open, Due
<1>3. ASSUME NEW f \in Effects, effects[f].status = "unknown" PROVE f \in Due /\ f # e
  BY <1>1, <1>3 DEF Due
<1>4. ASSUME NEW f \in Due, f # e PROVE f \in LiveSiblings(e) \/ UnknownInRun
  <2>1. f \in Effects /\ effects[f].status \in {"ready", "claimed", "unknown"}
    BY DEF Due
  <2>2. effects[f].kind = "tool_call" /\ effects[f].batch = effects[e].batch
    BY DEF LedgerOK
  <2> QED
    BY <1>4, <2>1, <2>2 DEF LiveSiblings, Open, UnknownInRun
<1>5. LiveSiblings(e) # {} => Due # {e}
  BY <1>2
<1>6. UnknownInRun => Due # {e}
  BY <1>3 DEF UnknownInRun
<1>7. Due # {e} => LiveSiblings(e) # {} \/ UnknownInRun
  BY <1>4
<1> QED
  BY <1>5, <1>6, <1>7

\* A receipt is applied at most once, and what it does keeps the ledger.
LEMMA CommittedOK ==
    ASSUME Shape, RowsOK, LedgerOK, NEW r \in Receipts, ReceiptOK(r), Reply(r) = "committed",
           Settle(r), UNCHANGED <<contracts, owner>>
    PROVE  KernelOK /\ Terminal(r.effect)'
<1> DEFINE Can(status, kind, n) == Takes(r, status, kind, n)
           Good == LedgerOK' /\ run' \in RunRow
<1>1. /\ effects[r.effect].status = "claimed" /\ effects[r.effect].fence = r.fence
      /\ ~Refused(r) /\ r.effect \in Effects /\ Bound(r) /\ effects[r.effect].kind # "none"
      /\ effects[r.effect].kind \in {"none", "run_start", "model_call", "tool_call"}
  BY Replies DEF ReceiptOK, RowsOK, RowOK, Shape, EffectRow
<1>2. ASSUME NEW status \in {"settled", "unknown"}, Outcome(r, status, "none", 0)
      PROVE  Can(status, "none", 0)
  BY <1>1, <1>2 DEF Takes
<1>3. ASSUME NEW kind \in {"model_call", "tool_call"}, NEW n \in Nat,
             Outcome(r, "settled", kind, n), Cardinality(Done) + Cardinality(Due) + n <= MaxSteps
      PROVE  Can("settled", kind, n)
  <2>1. Fresh(n) \cap Used = {}
    BY <1>3, FreshNumbers DEF LedgerOK
  <2> QED
    BY <1>1, <1>3, <2>1 DEF Takes
<1>4. ASSUME NEW status, NEW kind, NEW n, Can(status, kind, n), Good
      PROVE  KernelOK /\ Terminal(r.effect)'
  <2>1. effects' \in [Effects -> EffectRow]
    BY <1>4, TakenRows
  <2>2. RowsOK' /\ Forward
    BY <1>4, TakenRowsOK, TakenForward
  <2>3. effects'[r.effect].status \in {"settled", "unknown"}
    BY <1>4, TakenColumns
  <2> QED
    BY <1>4, <2>1, <2>2, <2>3 DEF KernelOK, Terminal
<1>5. run.phase \in {"none", "refused", "model", "tools", "sealed"} /\ run \in RunRow
      /\ run.steps \in 0..MaxSteps /\ run.steps \in Nat /\ MaxSteps \in Nat /\ MaxSteps >= 1
      /\ Cardinality(Done) \in Nat /\ Cardinality(Due) \in Nat
  BY MostSteps, Tally DEF Shape, RunRow
<1> HIDE DEF Can, Good
<1>6. CASE r.what = "unknown"
  <2>1. run' = run /\ Outcome(r, "unknown", "none", 0) /\ r.effect # Start
    BY <1>6 DEF Settle, ReceiptOK
  <2>2. Can("unknown", "none", 0)
    BY <1>2, <2>1
  <2>3. LedgerOK'
    BY <2>1, <2>2, LedgerUnknown DEF Can
  <2> QED
    BY <1>4, <1>5, <2>1, <2>2, <2>3 DEF Good
<1>7. CASE r.what # "unknown" /\ effects[r.effect].kind = "run_start"
  <2>1. r.effect = Start /\ SettleStart(r) /\ ReceiptOK(r)
    BY <1>1, <1>7 DEF Settle, RowsOK, RowOK
  <2>2. run.phase = "none" /\ Done = {} /\ Due = {}
    BY <1>1, <2>1, PhaseOfClaim DEF LedgerOK
  <2>3. Cardinality(Done) + Cardinality(Due) + 1 <= MaxSteps
    <3>1. Cardinality(Done) = 0 /\ Cardinality(Due) = 0
      BY <2>2, FS_EmptySet
    <3> QED
      BY <1>5, <3>1
  <2>4. CASE r.what = "success" /\ owner = "active" /\ contracts.bindings
    <3>1. run' = [phase |-> "model", steps |-> r.n] /\ Outcome(r, "settled", "model_call", 1)
      BY <2>1, <2>4 DEF SettleStart
    <3>2. Can("settled", "model_call", 1)
      BY <1>3, <2>3, <3>1
    <3>3. Good
      BY <2>1, <2>4, <3>1, <3>2, LedgerOpens DEF Can, Good
    <3> QED
      BY <1>4, <3>2, <3>3
  <2>5. CASE ~(r.what = "success" /\ owner = "active" /\ contracts.bindings)
    <3>1. run' = [run EXCEPT !.phase = "refused"] /\ Outcome(r, "settled", "none", 0)
      BY <2>1, <2>5 DEF SettleStart
    <3>2. Can("settled", "none", 0)
      BY <1>2, <3>1
    <3>3. Good
      BY <2>1, <3>1, <3>2, LedgerRefused DEF Can, Good
    <3> QED
      BY <1>4, <3>2, <3>3
  <2> QED
    BY <2>4, <2>5
<1>8. ASSUME r.effect # Start, run.steps >= 1, Due = {r.effect}, Seal(r)
      PROVE  KernelOK /\ Terminal(r.effect)'
  <2>1. run' = [phase |-> "sealed", steps |-> run.steps - 1] /\ Outcome(r, "settled", "none", 0)
    BY <1>8 DEF Seal
  <2>2. Can("settled", "none", 0)
    BY <1>2, <2>1
  <2>3. Good
    BY <1>8, <2>1, <2>2, LedgerSealed DEF Can, Good
  <2> QED
    BY <1>4, <2>2, <2>3
<1>9. CASE r.what # "unknown" /\ effects[r.effect].kind = "model_call"
  <2>1. r.effect # Start /\ SettleModel(r) /\ ~(run.steps < 1)
    BY <1>1, <1>9 DEF Settle, RowsOK, RowOK, Refused
  <2>2. run.phase = "model" /\ Due = {r.effect} /\ Cardinality(Done) + run.steps <= MaxSteps
    BY <1>1, <1>9, <2>1, PhaseOfClaim
  <2>3. run.steps >= 1
    BY <1>5, <2>1
  <2>4. CASE Seal(r)
    BY <1>8, <2>1, <2>2, <2>3, <2>4
  <2>5. CASE r.what = "tools" /\ run.steps - 1 # 0 /\ ~(r.n > run.steps - 1)
    <3>1. /\ run' = [phase |-> "tools", steps |-> run.steps - 1]
          /\ Outcome(r, "settled", "tool_call", r.n)
      BY <2>1, <2>5 DEF SettleModel
    <3>2. r.n \in Nat /\ r.n >= 1 /\ r.n <= run.steps - 1
      <4>1. r.n \in Nat /\ r.n # 0
        BY <2>5 DEF ReceiptOK, Receipts
      <4> QED
        BY <1>5, <2>5, <4>1
    <3>3. Cardinality(Done) + Cardinality(Due) + r.n <= MaxSteps
      <4>1. Cardinality(Due) = 1
        BY <2>2, FS_Singleton
      <4> QED
        BY <1>5, <2>2, <3>2, <4>1
    <3>4. Can("settled", "tool_call", r.n)
      BY <1>3, <3>1, <3>2, <3>3
    <3>5. Good
      BY <2>1, <2>2, <2>3, <3>1, <3>2, <3>4, LedgerBatch DEF Can, Good
    <3> QED
      BY <1>4, <3>4, <3>5
  <2> QED
    BY <2>1, <2>4, <2>5 DEF SettleModel
<1>10. CASE r.what # "unknown" /\ effects[r.effect].kind = "tool_call"
  <2>1. r.effect # Start /\ SettleTool(r) /\ ~(run.steps < 1) /\ run.phase = "tools"
    BY <1>1, <1>10 DEF Settle, RowsOK, RowOK, Refused
  <2>2. /\ r.effect \in Due /\ Cardinality(Done) + run.steps <= MaxSteps
        /\ LiveSiblings(r.effect) # {} \/ UnknownInRun <=> Due # {r.effect}
    BY <1>1, <2>1, PhaseOfClaim, Siblings
  <2>3. run.steps >= 1
    BY <1>5, <2>1
  <2>4. CASE Due # {r.effect}
    <3>1. run' = [run EXCEPT !.steps = run.steps - 1] /\ Outcome(r, "settled", "none", 0)
      BY <2>1, <2>2, <2>4 DEF SettleTool
    <3>2. Can("settled", "none", 0)
      BY <1>2, <3>1
    <3>3. Good
      BY <2>1, <2>3, <2>4, <3>1, <3>2, LedgerWaits DEF Can, Good
    <3> QED
      BY <1>4, <3>2, <3>3
  <2>5. CASE Due = {r.effect} /\ run.steps - 1 = 0
    <3>1. Seal(r)
      BY <2>1, <2>2, <2>5 DEF SettleTool
    <3> QED
      BY <1>8, <2>1, <2>3, <2>5, <3>1
  <2>6. CASE Due = {r.effect} /\ run.steps - 1 # 0
    <3>1. /\ run' = [phase |-> "model", steps |-> run.steps - 1]
          /\ Outcome(r, "settled", "model_call", 1)
      BY <2>1, <2>2, <2>6 DEF SettleTool
    <3>2. run.steps >= 2
      BY <1>5, <2>3, <2>6
    <3>3. Cardinality(Done) + Cardinality(Due) + 1 <= MaxSteps
      <4>1. Cardinality(Due) = 1
        BY <2>6, FS_Singleton
      <4> QED
        BY <1>5, <2>2, <3>2, <4>1
    <3>4. Can("settled", "model_call", 1)
      BY <1>3, <3>1, <3>3
    <3>5. Good
      BY <2>1, <2>6, <3>1, <3>2, <3>4, LedgerContinues DEF Can, Good
    <3> QED
      BY <1>4, <3>4, <3>5
  <2> QED
    BY <2>4, <2>5, <2>6
<1> QED
  BY <1>1, <1>6, <1>7, <1>9, <1>10

-----------------------------------------------------------------------------
(* Claims, leases and the owner. *)

\* Rows that at most are claimed keep the ledger.
LEMMA StillOK ==
    ASSUME LedgerOK, run' = run, owner' = owner,
           \A e \in Effects :
               /\ effects'[e].kind = effects[e].kind /\ effects'[e].batch = effects[e].batch
               /\ effects'[e].outcome = effects[e].outcome
               /\ \/ effects'[e].status = effects[e].status
                  \/ effects[e].status = "ready" /\ effects'[e].status = "claimed"
    PROVE  LedgerOK'
<1>1. Used' = Used
  BY DEF Used
<1>2. Done' = Done
  BY DEF Done
<1>3. Due' = Due /\ Due \subseteq Effects
  BY DEF Due
<1>4. /\ effects'[Start].outcome = effects[Start].outcome
      /\ Open(Start) => Open(Start)'
      /\ effects[Start].status = "settled" => effects'[Start].status = "settled"
  BY EffectNumbers DEF Open
<1> QED
  BY <1>1, <1>2, <1>3, <1>4 DEF LedgerOK

\* A claim gives out a new token of an effect that may be called, or called again.
LEMMA ClaimedOK ==
    ASSUME Shape, RowsOK, LedgerOK, NEW e \in Effects, ClaimEffect(e),
           UNCHANGED <<contracts, owner>>
    PROVE  KernelOK /\ effects'[e].fence >= 1 /\ effects'[e].status = "claimed"
<1> DEFINE row == [effects[e] EXCEPT !.status = "claimed", !.fence = effects[e].fence + 1,
                                     !.leased = TRUE]
<1>1. effects[e] \in EffectRow /\ effects[e].fence \in Nat
  BY DEF Shape, EffectRow
<1>2. effects' = [effects EXCEPT ![e] = row] /\ run' = run /\ Claimable(e)
  BY DEF ClaimEffect, Shape
<1>3. row \in EffectRow
  <2>1. effects[e].fence + 1 \in Nat /\ "claimed" \in {"none", "ready", "claimed", "settled", "unknown"}
    BY <1>1
  <2> QED
    BY <1>1, <2>1 DEF EffectRow
<1>4. effects' \in [Effects -> EffectRow] /\ effects'[e] = row
      /\ \A f \in Effects \ {e} : effects'[f] = effects[f]
  <2> HIDE DEF row
  <2> QED
    BY <1>2, <1>3 DEF Shape
<1>5. /\ effects'[e].kind = effects[e].kind /\ effects'[e].batch = effects[e].batch
      /\ effects'[e].outcome = effects[e].outcome /\ effects'[e].status = "claimed"
      /\ effects'[e].fence = effects[e].fence + 1
  BY <1>1, <1>4 DEF EffectRow
<1> HIDE DEF row
<1>6. effects[e].status \in {"ready", "claimed"} /\ (effects[e].status = "claimed" => Repeats(e))
  BY <1>2 DEF Claimable
<1>7. LedgerOK'
  BY <1>2, <1>4, <1>5, <1>6, StillOK
<1>8. ASSUME NEW f \in Effects PROVE RowOK(f)'
  <2>1. RowOK(f)
    BY DEF RowsOK
  <2>2. CASE f = e
    <3>1. effects[e].status = "ready" => effects'[e].fence = 1
      BY <1>1, <1>5, <1>6, <2>1, <2>2 DEF RowOK
    <3>2. effects'[e].fence > 1 => Repeats(e)
      BY <1>6, <3>1
    <3>3. Repeats(e)' = Repeats(e)
      BY DEF Repeats
    <3>4. Bound(effects[e].outcome)'
      BY <1>5, <2>1, <2>2 DEF RowOK, Bound
    <3> QED
      BY <1>5, <1>6, <2>1, <2>2, <3>2, <3>3, <3>4 DEF RowOK, Terminal
  <2>3. CASE f # e
    <3>1. effects'[f] = effects[f]
      BY <1>4, <2>3
    <3> QED
      BY <2>1, <3>1 DEF RowOK, Terminal, Repeats, Bound
  <2> QED
    BY <2>2, <2>3
<1>9. Forward
  <2>1. ASSUME NEW f \in Effects
        PROVE  /\ effects[f].fence <= effects'[f].fence
               /\ effects[f].status # "none" => effects'[f].status # "none"
               /\ effects[f].kind # "none" => effects'[f].kind = effects[f].kind
    <3>1. effects[f].fence \in Nat
      BY DEF Shape, EffectRow
    <3> QED
      BY <1>4, <1>5, <3>1
  <2> QED
    BY <2>1 DEF Forward
<1> QED
  BY <1>1, <1>2, <1>4, <1>5, <1>7, <1>8, <1>9 DEF KernelOK, RowsOK, Shape

\* A lease that ends changes nothing else.
LEMMA ExpiredOK ==
    ASSUME Shape, RowsOK, LedgerOK, NEW e \in Effects, Expire(e)
    PROVE  KernelOK
<1> DEFINE row == [effects[e] EXCEPT !.leased = FALSE]
<1>1. effects[e] \in EffectRow /\ effects[e].fence \in Nat
  BY DEF Shape, EffectRow
<1>2. effects' = [effects EXCEPT ![e] = row] /\ UNCHANGED <<run, contracts, owner>>
  BY DEF Expire, Shape
<1>3. row \in EffectRow
  BY <1>1 DEF EffectRow
<1>4. effects' \in [Effects -> EffectRow] /\ effects'[e] = row
      /\ \A f \in Effects \ {e} : effects'[f] = effects[f]
  <2> HIDE DEF row
  <2> QED
    BY <1>2, <1>3 DEF Shape
<1>5. /\ effects'[e].kind = effects[e].kind /\ effects'[e].batch = effects[e].batch
      /\ effects'[e].outcome = effects[e].outcome /\ effects'[e].status = effects[e].status
      /\ effects'[e].fence = effects[e].fence
  BY <1>1, <1>4 DEF EffectRow
<1> HIDE DEF row
<1>6. ASSUME NEW f \in Effects
      PROVE  /\ effects'[f].kind = effects[f].kind /\ effects'[f].batch = effects[f].batch
             /\ effects'[f].outcome = effects[f].outcome /\ effects'[f].status = effects[f].status
             /\ effects'[f].fence = effects[f].fence /\ effects[f].fence \in Nat
  BY <1>4, <1>5 DEF Shape, EffectRow
<1>7. LedgerOK'
  BY <1>2, <1>6, StillOK
<1>8. RowsOK'
  BY <1>2, <1>6 DEF RowsOK, RowOK, Terminal, Repeats, Bound
<1>9. Forward
  BY <1>2, <1>6 DEF Forward
<1> QED
  BY <1>2, <1>4, <1>7, <1>8, <1>9 DEF KernelOK, Shape

\* Rows that stay keep the kernel.
LEMMA RowsStay ==
    ASSUME Shape, RowsOK, LedgerOK, UNCHANGED <<contracts, effects, run>>,
           owner' = "closed" => owner = "closed" \/ run.phase \in {"refused", "sealed"}
    PROVE  KernelOK
<1>1. \A r : Bound(r) => Bound(r)'
  BY DEF Bound
<1>2. RowsOK'
  BY <1>1 DEF RowsOK, RowOK, Terminal, Repeats
<1>3. LedgerOK'
  BY DEF LedgerOK, Used, Done, Due, Open
<1>4. Forward
  BY DEF Forward, Shape, EffectRow
<1> QED
  BY <1>2, <1>3, <1>4 DEF KernelOK, Shape

-----------------------------------------------------------------------------
(* Executors. *)

\* The kernel before and after a step.
Steady == Shape /\ RowsOK /\ KernelOK

\* A receipt that is fine stays fine.
LEMMA ReceiptStays ==
    ASSUME Steady, NEW r \in Receipts, ReceiptOK(r)
    PROVE  ReceiptOK(r)'
<1>1. r.effect \in Effects /\ r.fence \in Nat
  BY DEF ReceiptOK, Receipts
<1>2. /\ effects[r.effect].fence \in Nat /\ effects'[r.effect].fence \in Nat
      /\ effects[r.effect].fence <= effects'[r.effect].fence
      /\ effects'[r.effect].status # "none"
  BY <1>1 DEF Steady, Shape, KernelOK, EffectRow, Forward, ReceiptOK
<1>3. Bound(r)'
  BY DEF ReceiptOK, Bound, Steady, KernelOK, Forward
<1> QED
  BY <1>1, <1>2, <1>3 DEF ReceiptOK

\* What an executor knows stays true whatever others do.
LEMMA KnowledgeStays ==
    ASSUME Steady, NEW p \in Pass, NEW J \in SUBSET Receipts, KnowsOK(p, J)
    PROVE  KnowsOK(p, J)'
<1>1. \A r \in J : ReceiptOK(r)'
  BY ReceiptStays DEF KnowsOK
<1>2. ASSUME p.work # NoReceipt, p.work.what = "none"
      PROVE  /\ effects'[p.work.effect].status # "none"
             /\ p.work.fence >= 1 /\ p.work.fence <= effects'[p.work.effect].fence
  <2>1. /\ p.work.effect \in Effects /\ effects[p.work.effect].status # "none"
        /\ p.work.fence >= 1 /\ p.work.fence <= effects[p.work.effect].fence
    BY <1>2 DEF KnowsOK
  <2>2. p.work.fence \in Nat
    BY DEF Pass, Receipts
  <2>3. /\ effects[p.work.effect].fence \in Nat /\ effects'[p.work.effect].fence \in Nat
        /\ effects[p.work.effect].fence <= effects'[p.work.effect].fence
        /\ effects'[p.work.effect].status # "none"
    BY <2>1 DEF Steady, Shape, KernelOK, EffectRow, Forward
  <2> QED
    BY <2>1, <2>2, <2>3 DEF Steady, KernelOK, Forward
<1> QED
  BY <1>1, <1>2 DEF KnowsOK

\* A step that moves executor h at most: its journal and its pass are fine after it.
ExecutorStep(h) ==
    /\ journal' \in [Hosts -> SUBSET Receipts] /\ host' \in [Hosts -> Pass]
    /\ \A g \in Hosts \ {h} : journal'[g] = journal[g] /\ host'[g] = host[g]
    /\ host'[h].part = "off" <=> host[h].part = "off"
    /\ ExecutorOK(h)'

\* Such a step, by the pass and the receipts it leaves.
LEMMA Leaves ==
    ASSUME Shape, NEW h \in Hosts, NEW p \in Pass, NEW J \in SUBSET Receipts,
           host' = [host EXCEPT ![h] = p], journal' = [journal EXCEPT ![h] = J],
           p.part = "off" <=> host[h].part = "off", KnowsOK(p, J)'
    PROVE  ExecutorStep(h)
<1>1. host'[h] = p /\ journal'[h] = J
  BY DEF Shape
<1>2. ExecutorOK(h)'
  BY <1>1 DEF ExecutorOK, KnowsOK
<1> QED
  BY <1>1, <1>2 DEF ExecutorStep, Shape

\* Each executor has a well-typed pass and journal.
LEMMA Executors ==
    ASSUME Shape, NEW h \in Hosts
    PROVE  /\ host[h] \in Pass /\ journal[h] \in SUBSET Receipts
           /\ DOMAIN host = Hosts /\ DOMAIN journal = Hosts
           /\ host[h].part \in {"off", "replay", "serve"} /\ host[h].seen \subseteq Effects
           /\ host[h].todo \subseteq Receipts /\ host[h].rows \subseteq Effects
           /\ host[h].bind \in BindRow /\ host[h].work \in Receipts
           /\ journal = [journal EXCEPT ![h] = journal[h]]
  BY DEF Shape, Pass

\* A pass that begins knows what is in the journal.
LEMMA Begins ==
    ASSUME Steady, NEW h \in Hosts, ExecutorOK(h), host[h].part # "off",
           host' = [host EXCEPT ![h] = NewPass(h)], journal' = journal
    PROVE  ExecutorStep(h)
<1> DEFINE p == NewPass(h)
<1>1. /\ p.part = "replay" /\ p.seen = {} /\ p.todo = journal[h] /\ p.rows = {}
      /\ p.work = NoReceipt
  BY DEF NewPass
<1>2. p \in Pass /\ NoReceipt \in Receipts
  <2>1. NoReceipt \in Receipts /\ Rest \in BindRow
    BY DEF NoReceipt, Receipts, Rest, BindRow
  <2> QED
    BY <2>1, Executors DEF Steady, NewPass, Pass
<1>3. PICK q \in Pass : q = p
  BY <1>2
<1>4. PICK J \in SUBSET Receipts : J = journal[h]
  BY Executors DEF Steady
<1>5. \A r \in J : ReceiptOK(r)'
  BY <1>4, ReceiptStays DEF ExecutorOK, KnowsOK
<1>6. KnowsOK(q, J)'
  <2> HIDE DEF p
  <2> QED
    BY <1>1, <1>3, <1>4, <1>5 DEF KnowsOK
<1>7. host' = [host EXCEPT ![h] = q] /\ journal' = [journal EXCEPT ![h] = J]
  BY <1>3, <1>4, Executors DEF Steady
<1>8. q.part = "replay"
  BY <1>1, <1>3
<1> QED
  BY <1>4, <1>6, <1>7, <1>8, Leaves DEF Steady

\* The kernel takes a receipt or not, and a receipt that leaves the journal is not needed.
LEMMA PublishOK ==
    ASSUME Shape, RowsOK, LedgerOK, NEW h \in Hosts, NEW r \in Receipts, ReceiptOK(r),
           Publish(h, r), UNCHANGED <<contracts, owner>>
    PROVE  /\ KernelOK
           /\ \/ journal' = journal
              \/ /\ journal' = [journal EXCEPT ![h] = journal[h] \ {r}]
                 /\ Terminal(r.effect)' \/ effects'[r.effect].fence > r.fence
<1>1. CASE Settle(r) /\ Reply(r) = "committed"
  <2>1. KernelOK /\ Terminal(r.effect)'
    BY <1>1, CommittedOK
  <2>2. journal' = journal \/ journal' = [journal EXCEPT ![h] = journal[h] \ {r}]
    BY <1>1 DEF Publish, Filed
  <2> QED
    BY <2>1, <2>2
<1>2. CASE Settle(r) /\ Reply(r) # "committed"
  <2>1. UNCHANGED <<effects, run>>
    BY <1>2 DEF Settle, kernel
  <2>2. KernelOK
    BY <2>1, RowsStay
  <2>3. \/ journal' = journal
        \/ journal' = [journal EXCEPT ![h] = journal[h] \ {r}] /\ Reply(r) # "error"
    BY <1>2 DEF Publish, Filed
  <2>4. Reply(r) # "error" => Terminal(r.effect)' \/ effects'[r.effect].fence > r.fence
    BY <1>2, <2>1, Replies DEF Terminal
  <2> QED
    BY <2>2, <2>3, <2>4
<1>3. CASE UNCHANGED kernel /\ journal' = journal
  <2>1. UNCHANGED <<effects, run>>
    BY <1>3 DEF kernel
  <2> QED
    BY <1>3, <2>1, RowsStay
<1> QED
  BY <1>1, <1>2, <1>3 DEF Publish

\* A replay of a receipt: its effect is not handled in this pass.
LEMMA ReplayOK ==
    ASSUME Shape, RowsOK, LedgerOK, NEW h \in Hosts, ExecutorOK(h), Replay(h)
    PROVE  KernelOK /\ ExecutorStep(h)
<1>1. PICK r \in host[h].todo :
          /\ host[h].part = "replay"
          /\ host' = [host EXCEPT ![h].todo = @ \ {r}, ![h].seen = @ \cup {r.effect}]
          /\ Publish(h, r)
          /\ UNCHANGED <<contracts, owner, source>>
  BY DEF Replay
<1>2. r \in Receipts /\ r \in journal[h] /\ ReceiptOK(r)
  BY <1>1, Executors DEF ExecutorOK, KnowsOK
<1>3. KernelOK /\ (journal' = journal \/ journal' = [journal EXCEPT ![h] = journal[h] \ {r}])
  BY <1>1, <1>2, PublishOK
<1> DEFINE q == [host[h] EXCEPT !.todo = host[h].todo \ {r}, !.seen = host[h].seen \cup {r.effect}]
<1>4. host' = [host EXCEPT ![h] = q]
  BY <1>1, Executors
<1>5. /\ q.part = "replay" /\ q.todo = host[h].todo \ {r} /\ q.seen = host[h].seen \cup {r.effect}
      /\ q.rows = host[h].rows /\ q.work = host[h].work
  BY <1>1, Executors DEF Pass
<1>6. q \in Pass
  <2>1. r.effect \in Effects
    BY <1>2 DEF ReceiptOK
  <2>2. host[h] \in Pass /\ q.seen \subseteq Effects /\ q.todo \subseteq Receipts
    BY <1>5, <2>1, Executors
  <2> QED
    BY <2>1, <2>2, <1>5, Executors DEF Pass
<1> HIDE DEF q
<1>7. ASSUME NEW J \in SUBSET Receipts, journal' = [journal EXCEPT ![h] = J],
             J = journal[h] \/ J = journal[h] \ {r}
      PROVE  ExecutorStep(h)
  <2>1. PICK p \in Pass : p = q
    BY <1>6
  <2>2. KnowsOK(p, J)
    BY <1>1, <1>5, <1>7, <2>1 DEF ExecutorOK, KnowsOK
  <2>3. KnowsOK(p, J)'
    BY <1>3, <2>2, KnowledgeStays DEF Steady
  <2>4. host' = [host EXCEPT ![h] = p] /\ p.part = "replay"
    BY <1>4, <1>5, <2>1
  <2> QED
    BY <1>1, <1>7, <2>3, <2>4, Leaves
<1>8. journal[h] \ {r} \in SUBSET Receipts /\ journal[h] \in SUBSET Receipts
  BY Executors
<1> QED
  BY <1>3, <1>7, <1>8, Executors

\* A settlement of the call an executor is at.
LEMMA SettleWorkOK ==
    ASSUME Shape, RowsOK, LedgerOK, NEW h \in Hosts, ExecutorOK(h), SettleWork(h)
    PROVE  KernelOK /\ ExecutorStep(h)
<1> DEFINE r == host[h].work
           q == [host[h] EXCEPT !.work = NoReceipt]
<1>1. /\ r # NoReceipt /\ r.what # "none" /\ host' = [host EXCEPT ![h] = q]
      /\ Publish(h, r) /\ UNCHANGED <<contracts, owner, source>>
  BY Executors DEF SettleWork, Busy, Calling
<1>2. r \in Receipts /\ r \in journal[h] /\ ReceiptOK(r) /\ host[h].part = "serve"
  BY <1>1, Executors DEF ExecutorOK, KnowsOK
<1>3. KernelOK /\ (journal' = journal \/ journal' = [journal EXCEPT ![h] = journal[h] \ {r}])
  BY <1>1, <1>2, PublishOK
<1>4. /\ q.part = host[h].part /\ q.todo = host[h].todo /\ q.seen = host[h].seen
      /\ q.rows = host[h].rows /\ q.work = NoReceipt
  BY Executors DEF Pass
<1>5. q \in Pass
  <2>1. NoReceipt \in Receipts
    BY DEF NoReceipt, Receipts
  <2> QED
    BY <2>1, Executors DEF Pass
<1> HIDE DEF q
<1>6. ASSUME NEW J \in SUBSET Receipts, journal' = [journal EXCEPT ![h] = J],
             J = journal[h] \/ J = journal[h] \ {r}
      PROVE  ExecutorStep(h)
  <2>1. PICK p \in Pass : p = q
    BY <1>5
  <2>2. KnowsOK(p, J)
    BY <1>2, <1>4, <1>6, <2>1 DEF ExecutorOK, KnowsOK
  <2>3. KnowsOK(p, J)'
    BY <1>3, <2>2, KnowledgeStays DEF Steady
  <2>4. host' = [host EXCEPT ![h] = p] /\ p.part = "serve"
    BY <1>1, <1>2, <1>4, <2>1
  <2> QED
    BY <1>2, <1>6, <2>3, <2>4, Leaves
<1>7. journal[h] \ {r} \in SUBSET Receipts /\ journal[h] \in SUBSET Receipts
  BY Executors
<1> QED
  BY <1>3, <1>6, <1>7, Executors

\* A page holds no effect of which the journal keeps a receipt.
LEMMA ReadPageOK ==
    ASSUME Shape, RowsOK, LedgerOK, NEW h \in Hosts, ExecutorOK(h), ReadPage(h)
    PROVE  KernelOK /\ ExecutorStep(h)
<1> DEFINE page == {e \in Effects : Open(e)} \ host[h].seen
           q == [host[h] EXCEPT !.part = "serve", !.seen = {}, !.rows = page]
<1>1. /\ host[h].part = "replay" /\ host[h].todo = {} /\ host[h].work = NoReceipt
      /\ host' = [host EXCEPT ![h] = q]
      /\ UNCHANGED <<contracts, effects, run, owner, source, journal>>
  BY Executors DEF ReadPage, ExecutorOK, KnowsOK
<1>2. KernelOK
  BY <1>1, RowsStay
<1>3. page \subseteq Effects /\ \A r \in journal[h] : r.effect \notin page
  BY <1>1 DEF ExecutorOK, KnowsOK
<1> HIDE DEF page
<1>4. /\ q.part = "serve" /\ q.todo = {} /\ q.rows = page /\ q.work = NoReceipt /\ q \in Pass
  BY <1>1, <1>3, Executors DEF Pass
<1> HIDE DEF q
<1>5. KnowsOK(q, journal[h])
  BY <1>3, <1>4 DEF ExecutorOK, KnowsOK
<1>6. PICK p \in Pass : p = q
  BY <1>4
<1>7. PICK J \in SUBSET Receipts : J = journal[h]
  BY Executors
<1>8. KnowsOK(p, J)'
  BY <1>2, <1>5, <1>6, <1>7, KnowledgeStays DEF Steady
<1>9. host' = [host EXCEPT ![h] = p] /\ journal' = [journal EXCEPT ![h] = J] /\ p.part = "serve"
  BY <1>1, <1>4, <1>6, <1>7, Executors
<1> QED
  BY <1>1, <1>2, <1>8, <1>9, Leaves

\* A pass q that knows no more than the last one, and a journal that stays.
LEMMA Proceeds ==
    ASSUME Steady, NEW h \in Hosts, NEW q \in Pass, host' = [host EXCEPT ![h] = q],
           journal' = journal, q.part = "off" <=> host[h].part = "off",
           KnowsOK(q, journal[h])'
    PROVE  ExecutorStep(h)
<1>1. PICK J \in SUBSET Receipts : J = journal[h]
  BY Executors DEF Steady
<1>2. KnowsOK(q, J)' /\ journal' = [journal EXCEPT ![h] = J]
  BY <1>1, Executors DEF Steady, KnowsOK
<1> QED
  BY <1>2, Leaves DEF Steady

\* A row is taken up only if the journal has no receipt of it.
LEMMA ClaimOK ==
    ASSUME Shape, RowsOK, LedgerOK, NEW h \in Hosts, ExecutorOK(h), Claim(h)
    PROVE  KernelOK /\ ExecutorStep(h)
<1>1. PICK e \in host[h].rows :
          /\ host[h].part = "serve" /\ host[h].work = NoReceipt /\ ClaimEffect(e)
          /\ \/ host' = [host EXCEPT ![h].rows = @ \ {e}, ![h].bind = Rest,
                     ![h].work = [effect |-> e, fence |-> effects'[e].fence, what |-> "none", n |-> 0]]
             \/ host' = [host EXCEPT ![h].rows = @ \ {e}, ![h].bind = Rest]
          /\ UNCHANGED <<contracts, owner, source, journal>>
  BY DEF Claim, Free, Busy, Drops
<1>2. e \in Effects
  BY Executors
<1>3. KernelOK /\ effects'[e].fence >= 1 /\ effects'[e].status = "claimed"
  BY <1>1, <1>2, ClaimedOK
<1>4. effects'[e].fence \in Nat
  BY <1>2, <1>3 DEF KernelOK, EffectRow
<1>5. PICK w \in Receipts :
          w = [effect |-> e, fence |-> effects'[e].fence, what |-> "none", n |-> 0]
  BY <1>2, <1>4 DEF Receipts
<1>6. ASSUME NEW v \in Receipts,
             host' = [host EXCEPT ![h].rows = @ \ {e}, ![h].bind = Rest, ![h].work = v],
             v = w \/ v = NoReceipt
      PROVE  ExecutorStep(h)
  <2> DEFINE q == [host[h] EXCEPT !.rows = host[h].rows \ {e}, !.bind = Rest, !.work = v]
  <2>1. host' = [host EXCEPT ![h] = q]
    BY <1>6, Executors
  <2>2. /\ q.part = "serve" /\ q.todo = host[h].todo /\ q.rows = host[h].rows \ {e} /\ q.work = v
        /\ q \in Pass
    <3>1. PICK b \in BindRow : b = Rest
      BY DEF Rest, BindRow
    <3>2. q = [host[h] EXCEPT !.rows = host[h].rows \ {e}, !.bind = b, !.work = v]
      BY <3>1
    <3> HIDE DEF q
    <3>3. host[h] \in Pass /\ v \in Receipts /\ host[h].rows \ {e} \in SUBSET Effects
      BY <1>6, Executors
    <3>4. q \in Pass
      BY <3>2, <3>3 DEF Pass
    <3> QED
      BY <1>1, <3>2, <3>3 DEF Pass
  <2> HIDE DEF q
  <2>3. PICK p \in Pass : p = q
    BY <2>2
  <2>4. \A r \in journal[h] : ReceiptOK(r)' /\ r.effect \notin host[h].rows
    <3>1. \A r \in journal[h] : ReceiptOK(r) /\ r.effect \notin host[h].rows
      BY <1>1 DEF ExecutorOK, KnowsOK
    <3>2. \A r \in journal[h] : r \in Receipts
      BY Executors
    <3> QED
      BY <1>3, <3>1, <3>2, ReceiptStays DEF Steady
  <2>5. host[h].todo = {}
    BY <1>1 DEF ExecutorOK, KnowsOK
  <2>6. p.work # NoReceipt =>
            /\ p.work.effect = e /\ p.work.what = "none" /\ p.work.fence = effects'[e].fence
            /\ p.work.n = 0
    BY <1>5, <1>6, <2>2, <2>3
  <2>8. /\ p.part = "serve" /\ p.todo = {} /\ p.rows = host[h].rows \ {e} /\ journal' = journal
        /\ effects'[e].fence <= effects'[e].fence
    BY <1>1, <1>4, <2>2, <2>3, <2>5
  <2>9. KnowsOK(p, journal[h])'
    BY <1>1, <1>2, <1>3, <2>4, <2>6, <2>8 DEF KnowsOK
  <2> QED
    BY <1>1, <1>3, <2>1, <2>3, <2>8, <2>9, Proceeds DEF Steady
<1>7. NoReceipt \in Receipts
  BY DEF NoReceipt, Receipts
<1>8. CASE host' = [host EXCEPT ![h].rows = @ \ {e}, ![h].bind = Rest,
                     ![h].work = [effect |-> e, fence |-> effects'[e].fence, what |-> "none", n |-> 0]]
  BY <1>3, <1>5, <1>6, <1>8
<1>9. CASE host' = [host EXCEPT ![h].rows = @ \ {e}, ![h].bind = Rest]
  <2>1. [host[h] EXCEPT !.rows = host[h].rows \ {e}, !.bind = Rest]
            = [host[h] EXCEPT !.rows = host[h].rows \ {e}, !.bind = Rest, !.work = NoReceipt]
    BY <1>1, Executors DEF Pass
  <2>2. host' = [host EXCEPT ![h].rows = @ \ {e}, ![h].bind = Rest, ![h].work = NoReceipt]
    BY <1>9, <2>1, Executors
  <2> QED
    BY <1>3, <1>6, <1>7, <2>2
<1> QED
  BY <1>1, <1>8, <1>9

\* The receipt of a call says what a handler may say.
LEMMA AnswerReceipt ==
    ASSUME Shape, RowsOK, NEW e \in Effects, effects[e].status # "none",
           NEW n \in Nat, e = Start => n \in Steps, NEW a \in Answers(effects[e].kind, n)
    PROVE  /\ a[1] \in {"success", "failure", "final", "tools", "unknown", "invalid"} /\ a[2] \in Nat
           /\ e = Start => a[1] \in {"success", "failure", "invalid"}
           /\ e = Start => a[2] \in {n, 0}
           /\ e = Start /\ a[1] = "success" => a[2] \in Steps
           /\ a[1] = "tools" => a[2] # 0
<1>1. n \in Nat /\ MaxTools \in Nat
  BY CallsAssumption
<1>2. /\ effects[e].kind \in {"run_start", "model_call", "tool_call"}
      /\ effects[e].kind = "run_start" <=> e = Start
  BY DEF RowsOK, RowOK, Shape, EffectRow
<1>3. CASE effects[e].kind = "run_start"
  <2>1. a \in {<<"success", n>>, <<"failure", 0>>, <<"invalid", 0>>}
    BY <1>3 DEF Answers
  <2> QED
    BY <1>1, <1>2, <1>3, <2>1
<1>4. CASE effects[e].kind = "model_call"
  <2>1. a \in {<<"final", 0>>, <<"failure", 0>>, <<"unknown", 0>>, <<"invalid", 0>>}
              \cup {<<"tools", k>> : k \in 1..MaxTools}
    BY <1>4 DEF Answers
  <2>2. e # Start
    BY <1>2, <1>4
  <2>3. CASE a \in {<<"final", 0>>, <<"failure", 0>>, <<"unknown", 0>>, <<"invalid", 0>>}
    BY <2>2, <2>3
  <2>4. CASE a \in {<<"tools", k>> : k \in 1..MaxTools}
    BY <1>1, <2>2, <2>4
  <2> QED
    BY <2>1, <2>3, <2>4
<1>5. CASE effects[e].kind = "tool_call"
  <2>1. a \in {<<"success", 0>>, <<"unknown", 0>>, <<"invalid", 0>>}
    BY <1>5 DEF Answers
  <2>2. e # Start
    BY <1>2, <1>5
  <2> QED
    BY <2>1, <2>2
<1> QED
  BY <1>2, <1>3, <1>4, <1>5

\* An answer goes into a journal that has no receipt of its effect.
LEMMA AnswerOK ==
    ASSUME Shape, RowsOK, LedgerOK, NEW h \in Hosts, ExecutorOK(h), Answer(h)
    PROVE  KernelOK /\ ExecutorStep(h)
<1>1. /\ host[h].work # NoReceipt /\ host[h].work.what = "none"
      /\ UNCHANGED <<contracts, effects, run, owner>> /\ ~Unread(h)
  BY DEF Answer, Calling, Busy
<1>2. PICK a \in Answers(effects[host[h].work.effect].kind, host[h].work.n) :
          /\ host' = [host EXCEPT ![h].work = [host[h].work EXCEPT !.what = a[1], !.n = a[2]]]
          /\ journal' = [journal EXCEPT ![h] = @ \cup {host'[h].work}]
  BY DEF Answer
<1>3. PICK e \in Effects : e = host[h].work.effect
  BY <1>1 DEF ExecutorOK, KnowsOK
<1>4. /\ effects[e].status # "none" /\ host[h].work.fence >= 1
      /\ host[h].work.fence <= effects[e].fence /\ e \notin host[h].rows
      /\ e = Start => host[h].work.n \in Steps
      /\ \A r \in journal[h] : ReceiptOK(r) /\ r.effect \notin host[h].rows
      /\ host[h].part = "serve" /\ host[h].todo = {}
  BY <1>1, <1>3 DEF ExecutorOK, KnowsOK, Unread, Calling, Busy
<1>5. /\ a[1] \in {"success", "failure", "final", "tools", "unknown", "invalid"} /\ a[2] \in Nat
      /\ e = Start => a[1] \in {"success", "failure", "invalid"}
      /\ e = Start /\ a[1] = "success" => a[2] \in Steps
      /\ a[1] = "tools" => a[2] # 0
  <2>1. host[h].work.n \in Nat
    BY Executors DEF Receipts
  <2> QED
    BY <1>2, <1>3, <1>4, <2>1, AnswerReceipt
<1> DEFINE w == [host[h].work EXCEPT !.what = a[1], !.n = a[2]]
           q == [host[h] EXCEPT !.work = w]
<1>6. host' = [host EXCEPT ![h] = q]
  BY <1>2, Executors
<1>7. w \in Receipts /\ w.effect = e /\ w.fence = host[h].work.fence /\ w.what = a[1] /\ w.n = a[2]
  BY ZenonT(60), <1>3, <1>5, Executors DEF Receipts
<1> HIDE DEF w
<1>8. /\ q.part = "serve" /\ q.todo = {} /\ q.rows = host[h].rows /\ q.work = w /\ q \in Pass
  BY <1>4, <1>7, Executors DEF Pass
<1> HIDE DEF q
<1>9. host'[h] = q /\ journal' = [journal EXCEPT ![h] = journal[h] \cup {w}]
  <2>1. host'[h] = q
    BY <1>6, Executors
  <2> QED
    BY <1>2, <1>8, <2>1
<1>10. ReceiptOK(w) /\ w.what # "none" /\ w # NoReceipt
  <2>1. ReceiptOK(w)
    BY <1>4, <1>5, <1>7 DEF ReceiptOK, Bound
  <2>2. w.what # "none"
    BY <1>5, <1>7
  <2> QED
    BY <2>1, <2>2 DEF NoReceipt
<1>11. PICK J \in SUBSET Receipts : J = journal[h] \cup {w}
  BY <1>7, Executors
<1>12. PICK p \in Pass : p = q
  BY <1>8
<1>13. KnowsOK(p, J)
  BY <1>4, <1>7, <1>8, <1>10, <1>11, <1>12 DEF KnowsOK
<1>14. KernelOK
  BY <1>1, RowsStay
<1>15. KnowsOK(p, J)'
  BY <1>13, <1>14, KnowledgeStays DEF Steady
<1>16. /\ host' = [host EXCEPT ![h] = p] /\ journal' = [journal EXCEPT ![h] = J]
       /\ p.part = "serve"
  BY <1>6, <1>8, <1>9, <1>11, <1>12
<1> QED
  BY <1>4, <1>14, <1>15, <1>16, Leaves

\* Where a request is looked for, the pass moves on in the source or drops the run_start.
LEMMA SourceMoves ==
    ASSUME Shape, NEW h \in Hosts, Resolve(h)
    PROVE  /\ UNCHANGED <<contracts, effects, run, owner, journal, faults>>
           /\ \/ \E b \in BindRow : host' = [host EXCEPT ![h].bind = b]
              \/ host' = [host EXCEPT ![h].rows = @ \ {Start}, ![h].bind = Rest]
           /\ source' \in SourceRow
<1>1. /\ source \in SourceRow /\ host[h].bind.n \in Steps \cup {0}
      /\ source.inbox \in Steps \cup {0} /\ source.tmp[h] \in Steps \cup {0}
  BY Executors DEF Shape, SourceRow, BindRow
<1>2. ASSUME NEW step \in {"rest", "looked", "read", "free", "made", "written", "resolved"},
             NEW n \in Steps \cup {0}, Binds(h, step, n)
      PROVE  \E b \in BindRow : host' = [host EXCEPT ![h].bind = b]
  <2>1. [step |-> step, n |-> n] \in BindRow
    BY DEF BindRow
  <2> QED
    BY <1>2, <2>1 DEF Binds
<1>3. CASE LookUp(h)
  <2>1. /\ UNCHANGED <<contracts, effects, run, owner, source, journal, faults>>
        /\ Binds(h, "looked", 0) \/ Binds(h, "resolved", 0) \/ Drops(h, Start)
    BY <1>3 DEF LookUp
  <2> QED
    BY <1>1, <1>2, <2>1 DEF Drops
<1>4. CASE ReadInbox(h)
  BY <1>1, <1>2, <1>4 DEF ReadInbox, Drops
<1>5. CASE TestBinding(h)
  <2>1. /\ UNCHANGED <<contracts, effects, run, owner, source, journal, faults>>
        /\ Binds(h, "free", host[h].bind.n) \/ Binds(h, "written", 0) \/ Drops(h, Start)
    BY <1>5 DEF TestBinding
  <2> QED
    BY <1>1, <1>2, <2>1 DEF Drops
<1>6. CASE WriteBinding(h)
  <2>1. source' \in SourceRow
    BY <1>1, <1>6 DEF WriteBinding, SourceRow
  <2> QED
    BY <1>1, <1>2, <1>6, <2>1 DEF WriteBinding
<1>7. CASE MoveBinding(h)
  <2>1. source' \in SourceRow
    BY <1>1, <1>7 DEF MoveBinding, SourceRow
  <2> QED
    BY <1>2, <1>7, <2>1 DEF MoveBinding
<1>8. CASE Unlink(h)
  <2>1. source' \in SourceRow
    BY <1>1, <1>8 DEF Unlink, SourceRow
  <2> QED
    BY <1>2, <1>8, <2>1 DEF Unlink
<1> QED
  BY <1>3, <1>4, <1>5, <1>6, <1>7, <1>8 DEF Resolve

\* A row is passed over, a request is looked for, or a call ends without an answer.
LEMMA ForgetsOK ==
    ASSUME Shape, RowsOK, LedgerOK, NEW h \in Hosts, ExecutorOK(h),
           Resolve(h) \/ Skip(h) \/ Reread(h) \/ NoAnswer(h)
    PROVE  KernelOK /\ ExecutorStep(h)
<1>1. UNCHANGED <<contracts, effects, run, owner, journal>>
  BY SourceMoves DEF Skip, Reread, NoAnswer
<1>2. KernelOK
  BY <1>1, RowsStay
<1>3. ASSUME NEW q \in Pass, host' = [host EXCEPT ![h] = q], KnowsOK(q, journal[h]),
             q.part = "off" <=> host[h].part = "off"
      PROVE  ExecutorStep(h)
  <2>1. PICK J \in SUBSET Receipts : J = journal[h]
    BY Executors
  <2>2. KnowsOK(q, J)'
    BY <1>2, <1>3, <2>1, KnowledgeStays DEF Steady
  <2>3. journal' = [journal EXCEPT ![h] = J]
    BY <1>1, <2>1, Executors
  <2> QED
    BY <1>3, <2>2, <2>3, Leaves
<1>4. ASSUME NEW e, host' = [host EXCEPT ![h].rows = @ \ {e}, ![h].bind = Rest]
      PROVE  ExecutorStep(h)
  <2>1. Rest \in BindRow
    BY DEF Rest, BindRow
  <2>2. PICK q : q = [host[h] EXCEPT !.rows = host[h].rows \ {e}, !.bind = Rest]
    OBVIOUS
  <2>3. /\ q \in Pass /\ q.rows = host[h].rows \ {e} /\ q.part = host[h].part
        /\ q.todo = host[h].todo /\ q.seen = host[h].seen /\ q.work = host[h].work
    BY <2>1, <2>2, Executors DEF Pass
  <2>4. KnowsOK(q, journal[h])
    BY <2>3 DEF ExecutorOK, KnowsOK
  <2>5. host' = [host EXCEPT ![h] = q]
    BY <1>4, <2>2, Executors
  <2> QED
    BY <1>3, <2>3, <2>4, <2>5
<1>5. ASSUME host' = [host EXCEPT ![h].work = NoReceipt] PROVE ExecutorStep(h)
  <2>1. PICK q : q = [host[h] EXCEPT !.work = NoReceipt]
    OBVIOUS
  <2>2. NoReceipt \in Receipts
    BY DEF NoReceipt, Receipts
  <2>3. /\ q \in Pass /\ q.rows = host[h].rows /\ q.part = host[h].part
        /\ q.todo = host[h].todo /\ q.seen = host[h].seen /\ q.work = NoReceipt
    BY <2>1, <2>2, Executors DEF Pass
  <2>4. KnowsOK(q, journal[h])
    BY <2>3 DEF ExecutorOK, KnowsOK
  <2>5. host' = [host EXCEPT ![h] = q]
    BY <1>5, <2>1, Executors
  <2> QED
    BY <1>3, <2>3, <2>4, <2>5
<1>6. CASE Resolve(h)
  <2>1. ASSUME NEW b \in BindRow, host' = [host EXCEPT ![h].bind = b]
        PROVE  ExecutorStep(h)
    <3>1. PICK q : q = [host[h] EXCEPT !.bind = b]
      OBVIOUS
    <3>2. /\ q \in Pass /\ q.rows = host[h].rows /\ q.part = host[h].part
          /\ q.todo = host[h].todo /\ q.seen = host[h].seen /\ q.work = host[h].work
      BY <3>1, Executors DEF Pass
    <3>3. KnowsOK(q, journal[h])
      BY <3>2 DEF ExecutorOK, KnowsOK
    <3>4. host' = [host EXCEPT ![h] = q]
      BY <2>1, <3>1, Executors
    <3> QED
      BY <1>3, <3>2, <3>3, <3>4
  <2> QED
    BY <1>2, <1>4, <1>6, <2>1, SourceMoves
<1>7. CASE Skip(h)
  BY <1>2, <1>4, <1>7 DEF Skip, Drops
<1>8. CASE Reread(h)
  <2>1. /\ host[h].work # NoReceipt /\ host[h].work.what = "none" /\ host[h].work.effect = Start
        /\ \/ \E n \in Requests : host' = [host EXCEPT ![h].work.n = n]
           \/ host' = [host EXCEPT ![h].work = NoReceipt]
    BY <1>8 DEF Reread, Unread, Calling, Busy
  <2>2. CASE host' = [host EXCEPT ![h].work = NoReceipt]
    BY <1>2, <1>5, <2>2
  <2>3. CASE \E n \in Requests : host' = [host EXCEPT ![h].work.n = n]
    <3>1. PICK n \in Requests : host' = [host EXCEPT ![h].work.n = n]
      BY <2>3
    <3>2. n \in Steps /\ n \in Nat
      <4>1. n \in Steps
        BY DEF Requests, Shape, SourceRow
      <4> QED
        BY <4>1, MostSteps
    <3>3. PICK w : w = [host[h].work EXCEPT !.n = n]
      OBVIOUS
    <3>4. /\ w \in Receipts /\ w.effect = host[h].work.effect /\ w.fence = host[h].work.fence
          /\ w.what = host[h].work.what /\ w.n = n
      BY <3>2, <3>3, Executors DEF Receipts
    <3>5. PICK q : q = [host[h] EXCEPT !.work = w]
      OBVIOUS
    <3>6. /\ q \in Pass /\ q.rows = host[h].rows /\ q.part = host[h].part
          /\ q.todo = host[h].todo /\ q.seen = host[h].seen /\ q.work = w
      BY <3>4, <3>5, Executors DEF Pass
    <3>7. KnowsOK(q, journal[h])
      BY <2>1, <3>2, <3>4, <3>6 DEF ExecutorOK, KnowsOK
    <3>8. host' = [host EXCEPT ![h] = q]
      BY <3>1, <3>3, <3>5, Executors
    <3> QED
      BY <1>2, <1>3, <3>6, <3>7, <3>8
  <2> QED
    BY <2>1, <2>2, <2>3
<1>9. CASE NoAnswer(h)
  BY <1>2, <1>5, <1>9 DEF NoAnswer
<1> QED
  BY <1>6, <1>7, <1>8, <1>9

\* Ending a pass and dying leave the executor with its journal.
LEMMA RestartsOK ==
    ASSUME Shape, RowsOK, LedgerOK, NEW h \in Hosts, ExecutorOK(h), EndPass(h) \/ Crash(h)
    PROVE  KernelOK /\ ExecutorStep(h)
<1>1. UNCHANGED <<contracts, effects, run, owner, journal>>
  BY DEF EndPass, Crash
<1>2. KernelOK
  BY <1>1, RowsStay
<1>3. host' = [host EXCEPT ![h] = NewPass(h)] /\ host[h].part # "off"
  BY DEF EndPass, Free, Crash, Team
<1> QED
  BY <1>1, <1>2, <1>3, Begins DEF Steady

\* Every step of an executor.
LEMMA ExecutorNext ==
    ASSUME Shape, RowsOK, LedgerOK, NEW h \in Hosts, ExecutorOK(h),
           Work(h) \/ Crash(h)
    PROVE  KernelOK /\ ExecutorStep(h)
<1>1. CASE Replay(h)
  BY <1>1, ReplayOK
<1>2. CASE ReadPage(h)
  BY <1>2, ReadPageOK
<1>3. CASE Claim(h)
  BY <1>3, ClaimOK
<1>4. CASE Answer(h)
  BY <1>4, AnswerOK
<1>5. CASE SettleWork(h)
  BY <1>5, SettleWorkOK
<1>6. CASE Resolve(h) \/ Skip(h) \/ Reread(h) \/ NoAnswer(h)
  BY <1>6, ForgetsOK
<1>7. CASE EndPass(h) \/ Crash(h)
  BY <1>7, RestartsOK
<1> QED
  BY <1>1, <1>2, <1>3, <1>4, <1>5, <1>6, <1>7 DEF Work

-----------------------------------------------------------------------------
(* The invariant. *)

\* An executor that does not move keeps what it knows.
LEMMA OthersKnow ==
    ASSUME Steady, NEW g \in Hosts, ExecutorOK(g), journal'[g] = journal[g], host'[g] = host[g]
    PROVE  ExecutorOK(g)'
<1>1. PICK p \in Pass : p = host[g]
  BY Executors DEF Steady
<1>2. PICK J \in SUBSET Receipts : J = journal[g]
  BY Executors DEF Steady
<1>3. KnowsOK(p, J)'
  BY <1>1, <1>2, KnowledgeStays DEF ExecutorOK
<1> QED
  BY <1>1, <1>2, <1>3 DEF ExecutorOK, KnowsOK

\* What a step does to the kernel, the journals and the passes.
LEMMA StepOK ==
    ASSUME CallsInvariant, Next
    PROVE  /\ KernelOK /\ Team' = Team
           /\ journal' \in [Hosts -> SUBSET Receipts] /\ host' \in [Hosts -> Pass]
           /\ \A g \in Hosts : ExecutorOK(g)'
<1>1. Shape /\ RowsOK /\ LedgerOK /\ \A g \in Hosts : ExecutorOK(g)
  BY DEF CallsInvariant, RowsOK
<1>2. ASSUME NEW h \in Hosts, Work(h) \/ Crash(h)
      PROVE  /\ KernelOK /\ Team' = Team
             /\ journal' \in [Hosts -> SUBSET Receipts] /\ host' \in [Hosts -> Pass]
             /\ \A g \in Hosts : ExecutorOK(g)'
  <2>1. KernelOK /\ ExecutorStep(h)
    BY <1>1, <1>2, ExecutorNext
  <2>2. \A g \in Hosts : ExecutorOK(g)'
    BY <1>1, <2>1, OthersKnow DEF ExecutorStep, Steady
  <2>3. \A g \in Hosts : host'[g].part = "off" <=> host[g].part = "off"
    BY <2>1 DEF ExecutorStep
  <2> QED
    BY <2>1, <2>2, <2>3 DEF ExecutorStep, Team
<1>3. CASE (\E s \in Steps : Provide(s)) \/ OwnerLeaves \/ OwnerCloses \/ (\E e \in Effects : Expire(e))
  <2>1. UNCHANGED <<journal, host>>
    BY <1>3 DEF Provide, OwnerLeaves, OwnerCloses, Expire
  <2>2. ASSUME \E e \in Effects : Expire(e) PROVE KernelOK
    BY <1>1, <2>2, ExpiredOK
  <2>3. ASSUME (\E s \in Steps : Provide(s)) \/ OwnerLeaves PROVE KernelOK
    <3>1. /\ UNCHANGED <<contracts, effects, run>>
          /\ owner' = owner \/ owner' = "closing"
      BY <1>1, <2>3 DEF Provide, OwnerLeaves, Shape
    <3> QED
      BY <1>1, <3>1, RowsStay
  <2>4. ASSUME OwnerCloses PROVE KernelOK
    <3>1. UNCHANGED <<contracts, effects, run>> /\ run.phase \notin {"model", "tools"}
          /\ ~Open(Start)
      BY <2>4, EffectNumbers DEF OwnerCloses
    <3>2. run.phase \in {"refused", "sealed"}
      BY <1>1, <3>1 DEF LedgerOK, Shape, RunRow
    <3> QED
      BY <1>1, <3>1, <3>2, RowsStay
  <2>5. KernelOK
    BY <1>3, <2>2, <2>3, <2>4
  <2>6. \A g \in Hosts : ExecutorOK(g)'
    BY <1>1, <2>1, <2>5, OthersKnow DEF Steady
  <2> QED
    BY <1>1, <2>1, <2>5, <2>6 DEF Shape, Team
<1> QED
  BY <1>2, <1>3 DEF Next

\* The columns that no executor writes, and the faults that are left.
LEMMA OthersOK ==
    ASSUME CallsInvariant, Next
    PROVE  /\ contracts' = contracts /\ owner' \in {"active", "closing", "closed"}
           /\ source' \in SourceRow
           /\ faults' = faults \/ Fault
<1>1. /\ source \in SourceRow
      /\ owner \in {"active", "closing", "closed"}
  BY DEF CallsInvariant, Shape
<1>2. ASSUME NEW h \in Hosts, Work(h) \/ Crash(h)
      PROVE  /\ contracts' = contracts /\ owner' = owner
             /\ source' \in SourceRow
             /\ faults' = faults \/ Fault
  <2>1. CASE Resolve(h)
    BY <1>1, <2>1, SourceMoves DEF CallsInvariant
  <2>2. CASE Replay(h) \/ SettleWork(h)
    BY <1>1, <2>2 DEF Replay, SettleWork, Publish
  <2>3. CASE Claim(h) \/ Reread(h) \/ Answer(h) \/ NoAnswer(h) \/ ReadPage(h)
    BY <1>1, <2>3 DEF Claim, Reread, Answer, NoAnswer, ReadPage
  <2>4. CASE Skip(h) \/ EndPass(h) \/ Crash(h)
    BY <1>1, <2>4 DEF Skip, EndPass, Crash
  <2> QED
    BY <1>2, <2>1, <2>2, <2>3, <2>4 DEF Work
<1>3. CASE \E s \in Steps : Provide(s)
  BY <1>1, <1>3 DEF Provide, SourceRow
<1>4. CASE OwnerLeaves \/ OwnerCloses
  BY <1>1, <1>4 DEF OwnerLeaves, OwnerCloses
<1>5. CASE \E e \in Effects : Expire(e)
  BY <1>1, <1>5 DEF Expire
<1> QED
  BY <1>1, <1>2, <1>3, <1>4, <1>5 DEF Next

\* Every step keeps the invariant.
LEMMA CallsStep ==
    ASSUME CallsInvariant, [Next]_vars
    PROVE  CallsInvariant'
<1>1. CASE Next
  <2>1. Shape'
    BY <1>1, StepOK, OthersOK DEF CallsInvariant, Shape, KernelOK
  <2>2. TeamOK'
    <3>1. Team' = Team /\ (faults' = faults \/ Fault)
      BY <1>1, StepOK, OthersOK
    <3>2. Team \in Teams /\ faults \in 0..MaxFaults[Team] /\ MaxFaults[Team] \in Nat
      BY CallsAssumption DEF CallsInvariant, TeamOK
    <3>3. Fault => faults' \in 0..MaxFaults[Team]
      BY <3>2 DEF Fault
    <3> QED
      BY <3>1, <3>2, <3>3 DEF TeamOK
  <2> QED
    BY <1>1, <2>1, <2>2, StepOK DEF CallsInvariant, KernelOK, RowsOK
<1>2. CASE UNCHANGED vars
  BY <1>2 DEF vars, CallsInvariant, Shape, RowOK, Bound, Terminal, Repeats, LedgerOK, Used, Open,
              Done, Due, ExecutorOK, KnowsOK, ReceiptOK, TeamOK, Team
<1> QED
  BY <1>1, <1>2

\* A run_start that was just emitted satisfies it.
LEMMA CallsInit ==
    ASSUME Init
    PROVE  CallsInvariant
<1>1. /\ NoReceipt \in Receipts /\ Absent \in EffectRow /\ Ready("run_start", 0) \in EffectRow
      /\ Absent.kind = "none" /\ Absent.status = "none" /\ Absent.fence = 0
      /\ Absent.outcome = NoReceipt /\ NoReceipt.effect = 0
      /\ Ready("run_start", 0).kind = "run_start" /\ Ready("run_start", 0).status = "ready"
      /\ Ready("run_start", 0).fence = 0 /\ Ready("run_start", 0).outcome = NoReceipt
  BY DEF NoReceipt, Receipts, Absent, Ready, EffectRow
<1>2. /\ effects \in [Effects -> EffectRow] /\ effects[Start] = Ready("run_start", 0)
      /\ \A e \in Effects \ {Start} : effects[e] = Absent
  BY <1>1, EffectNumbers DEF Init
<1>3. \A e \in Effects : RowOK(e)
  BY <1>1, <1>2 DEF RowOK, Terminal, Bound, Start
<1>4. LedgerOK
  <2>1. Done = {} /\ Due = {} /\ Used = {Start} /\ Open(Start)
    BY <1>1, <1>2, EffectNumbers DEF Done, Due, Used, Open
  <2>2. Used = 1..Cardinality(Used)
    <3>1. Cardinality(Used) = 1
      BY <2>1, FS_Singleton
    <3>2. {1} = 1..1
      OBVIOUS
    <3> QED
      BY <2>1, <3>1, <3>2 DEF Start
  <2> QED
    BY <2>1, <2>2 DEF LedgerOK, Init
<1>5. PICK team \in Teams : host = [h \in Hosts |-> IF h \in team THEN NewPass(h) ELSE Off]
  BY DEF Init
<1>6. \A h \in Hosts :
          /\ journal[h] = {} /\ host[h] \in Pass
          /\ host[h].part = "off" <=> h \notin team
          /\ host[h].part # "serve" /\ host[h].todo = {} /\ host[h].work = NoReceipt
  <2>1. ASSUME NEW h \in Hosts, h \in team
        PROVE  host[h] = [part |-> "replay", seen |-> {}, todo |-> {}, rows |-> {},
                          bind |-> Rest, work |-> NoReceipt]
    BY <1>5, <2>1 DEF NewPass, Init
  <2>2. ASSUME NEW h \in Hosts, h \notin team
        PROVE  host[h] = [part |-> "off", seen |-> {}, todo |-> {}, rows |-> {},
                          bind |-> Rest, work |-> NoReceipt]
    BY <1>5, <2>2 DEF Off
  <2>3. Rest \in BindRow
    BY DEF Rest, BindRow
  <2> QED
    BY <1>1, <2>1, <2>2, <2>3 DEF Pass, Init
<1>7. \A h \in Hosts : ExecutorOK(h)
  BY <1>6 DEF ExecutorOK, KnowsOK
<1>8. TeamOK
  <2>1. team \subseteq Hosts /\ MaxFaults[team] \in Nat
    BY CallsAssumption
  <2>2. Team = team
    BY <1>6, <2>1 DEF Team
  <2> QED
    BY <2>1, <2>2 DEF TeamOK, Init
<1>9. Shape
  <2>1. run \in RunRow
    BY MostSteps DEF Init, RunRow
  <2>2. host \in [Hosts -> Pass]
    BY <1>5, <1>6
  <2>3. source \in SourceRow
    BY DEF Init, SourceRow
  <2> QED
    BY <1>2, <2>1, <2>2, <2>3 DEF Shape, Init
<1> QED
  BY <1>3, <1>4, <1>7, <1>8, <1>9 DEF CallsInvariant

\* The invariant holds in every behaviour.
THEOREM RunsSafe == Spec => []CallsInvariant
  BY CallsInit, CallsStep, PTL DEF Spec

\* The columns hold what they may.
LEMMA Typed ==
    ASSUME CallsInvariant
    PROVE  TypeOK
<1>1. Shape /\ TeamOK /\ \A h \in Hosts : ExecutorOK(h)
  BY DEF CallsInvariant
<1>2. /\ contracts \in [start : BOOLEAN, bindings : BOOLEAN]
      /\ effects \in [Effects -> [kind : {"none", "run_start", "model_call", "tool_call"},
                        status : {"none", "ready", "claimed", "settled", "unknown"}, fence : Nat,
                        leased : BOOLEAN, batch : Effects \cup {0}, outcome : Receipts]]
      /\ run \in [phase : {"none", "refused", "model", "tools", "sealed"}, steps : 0..MaxSteps]
      /\ owner \in {"active", "closing", "closed"}
      /\ source \in [inbox : Steps \cup {0}, tmp : [Hosts -> Steps \cup {0}],
                     bound : Steps \cup {0}]
  BY <1>1 DEF Shape, EffectRow, RunRow, SourceRow
<1>3. ASSUME NEW h \in Hosts
      PROVE  /\ journal[h] \subseteq Receipts
             /\ host[h].part \in {"off", "replay", "serve"}
             /\ host[h].seen \cup host[h].rows \subseteq Effects
             /\ host[h].todo \subseteq journal[h]
             /\ host[h].bind.n \in Steps \cup {0}
             /\ host[h].work \in Receipts
             /\ Busy(h) => host[h].part = "serve"
  BY <1>1, Executors DEF ExecutorOK, KnowsOK, Busy, BindRow
<1> QED
  BY <1>1, <1>2, <1>3 DEF TypeOK, TeamOK

\* The phases and the ledger say what RunLedger says.
LEMMA LedgerHolds ==
    ASSUME CallsInvariant
    PROVE  RunLedger
<1>1. Shape /\ RowsOK /\ LedgerOK
  BY DEF CallsInvariant, RowsOK
<1>2. ASSUME NEW e \in Effects
      PROVE  /\ effects[e].status \in {"none", "ready", "claimed", "settled", "unknown"}
             /\ effects[e].kind = "run_start" <=> e = Start
  BY <1>1 DEF Shape, EffectRow, RowsOK, RowOK
<1>3. \A kind \in {"model_call", "tool_call"} : OfKind(kind) = {e \in Due : effects[e].kind = kind}
  <2>1. ASSUME NEW kind \in {"model_call", "tool_call"}
        PROVE  \A e : e \in OfKind(kind) <=> e \in Due /\ effects[e].kind = kind
    BY <1>2 DEF OfKind, Due, Open
  <2> QED
    BY <2>1
<1>4. ASSUME run.phase \in {"model", "tools", "sealed"}
      PROVE  run.steps + Cardinality({e \in Effects \ {Start} : effects[e].status = "settled"})
                 = effects[Start].outcome.n
  BY <1>1, <1>4 DEF LedgerOK, Done
<1>5. ASSUME run.phase = "model"
      PROVE  Cardinality(OfKind("model_call")) = 1 /\ OfKind("tool_call") = {}
  <2>1. PICK e \in Effects : Due = {e} /\ effects[e].kind = "model_call"
    BY <1>1, <1>5 DEF LedgerOK
  <2>2. OfKind("model_call") = {e} /\ OfKind("tool_call") = {}
    BY <1>3, <2>1
  <2> QED
    BY <2>2, FS_Singleton
<1>6. ASSUME run.phase = "tools"
      PROVE  /\ OfKind("model_call") = {}
             /\ OfKind("tool_call") # {}
             /\ \A e, f \in OfKind("tool_call") : effects[e].batch = effects[f].batch
  <2>1. /\ Due # {} /\ \A e \in Due : effects[e].kind = "tool_call"
        /\ \A e, f \in Due : effects[e].batch = effects[f].batch
    BY <1>1, <1>6 DEF LedgerOK
  <2>2. OfKind("model_call") = {} /\ OfKind("tool_call") = Due
    BY <1>3, <2>1
  <2> QED
    BY <2>1, <2>2
<1>7. ASSUME run.phase \in {"refused", "sealed"} \/ owner = "closed", NEW e \in Effects
      PROVE  effects[e].status \in {"none", "settled"}
  <2>1. Due = {} /\ effects[Start].status = "settled"
    BY <1>1, <1>7 DEF LedgerOK
  <2> QED
    BY <1>2, <2>1 DEF Due
<1> QED
  BY <1>4, <1>5, <1>6, <1>7 DEF RunLedger

\* Journals and tokens say what ReceiptOnce says.
LEMMA OnceHolds ==
    ASSUME CallsInvariant
    PROVE  ReceiptOnce
<1>1. ASSUME NEW h \in Hosts, Calling(h), NEW r \in journal[h] PROVE r.effect # host[h].work.effect
  BY <1>1 DEF CallsInvariant, ExecutorOK, KnowsOK, Calling, Busy
<1>2. ASSUME NEW e \in Effects
      PROVE  /\ effects[e].fence > 1 => Repeats(e)
             /\ Terminal(e) => effects[e].outcome.fence = effects[e].fence
  BY DEF CallsInvariant, RowOK
<1> QED
  BY <1>1, <1>2 DEF ReceiptOnce

-----------------------------------------------------------------------------
(* The binding of a run_start, while one executor runs. *)

Filled(h) == source.tmp[h] # 0 \/ source.bound # 0

\* The receipts that carry a request: those that h keeps or works on, and the outcome.
Carried(h) == journal[h] \cup {host[h].work, effects[Start].outcome}

\* There is one file with a request at most, h looks for another only before it is there,
\* and a run_start is claimed only when it is.
Sole(h) ==
    /\ \A g \in Hosts \ {h} : source.tmp[g] = 0
    /\ source.tmp[h] = 0 \/ source.bound = 0
    /\ host[h].bind.step \in {"looked", "read", "free"} => ~Filled(h)
    /\ host[h].bind.step \in {"read", "free"} => host[h].bind.n # 0
    /\ host[h].bind.step = "made" => source.tmp[h] # 0
    /\ host[h].bind.step \in {"written", "resolved"} => Filled(h)
    /\ effects[Start].fence > 0 => Filled(h)
    /\ \A r \in Carried(h) : r.effect = Start => r.n \in {0, source.tmp[h], source.bound}

SoleInvariant == \A h \in Hosts : Team = {h} => Sole(h)

\* What a look-up finds then.
LEMMA SoleFile ==
    ASSUME NEW h \in Hosts, Sole(h)
    PROVE  /\ Bindings # {} <=> Filled(h)
           /\ ~Twice
           /\ \A n \in Requests : n \in {source.tmp[h], source.bound}
<1>1. \A g \in Hosts : source.tmp[g] # 0 => g = h
  BY DEF Sole
<1>2. Bindings = (IF source.tmp[h] # 0 THEN {<<"tmp", h>>} ELSE {}) \cup
                     (IF source.bound # 0 THEN {<<"bound">>} ELSE {})
  BY <1>1 DEF Bindings
<1>3. source.tmp[h] = 0 \/ source.bound = 0
  BY DEF Sole
<1>4. ~Twice
  BY <1>2, <1>3 DEF Twice
<1>5. Bindings # {} <=> Filled(h)
  BY <1>2 DEF Filled
<1>6. \A n \in Requests : n \in {source.tmp[h], source.bound}
  BY <1>1 DEF Requests
<1> QED
  BY <1>4, <1>5, <1>6

\* A step that leaves the source alone and adds no other request.
LEMMA SoleStays ==
    ASSUME NEW h \in Hosts, Sole(h), UNCHANGED <<source.tmp, source.bound>>,
           host'[h].bind \in {host[h].bind, Rest},
           effects'[Start].fence > 0 => effects[Start].fence > 0 \/ Filled(h),
           \A r \in Carried(h)' : r \in Carried(h) \/
               (r.effect = Start => r.n \in {0, source.tmp[h], source.bound})
    PROVE  Sole(h)'
<1>1. Filled(h)' = Filled(h)
  BY DEF Filled
<1>2. ASSUME NEW r \in Carried(h)', r.effect = Start
      PROVE  r.n \in {0, source.tmp[h], source.bound}
  BY <1>2 DEF Sole
<1>3. host'[h].bind.step = "rest" \/ host'[h].bind = host[h].bind
  BY DEF Rest
<1> QED
  BY <1>1, <1>2, <1>3 DEF Sole

\* Only an executor of the team moves.
LEMMA Movers ==
    ASSUME NEW g \in Hosts, ExecutorOK(g), Work(g) \/ Crash(g)
    PROVE  host[g].part # "off"
<1>1. host[g].work # NoReceipt => host[g].part = "serve"
  BY DEF ExecutorOK, KnowsOK
<1>2. CASE Replay(g) \/ ReadPage(g)
  BY <1>2 DEF Replay, ReadPage
<1>3. CASE Resolve(g) \/ Skip(g) \/ Claim(g) \/ EndPass(g)
  BY <1>3 DEF Resolve, LookUp, ReadInbox, TestBinding, WriteBinding, MoveBinding, Unlink, At,
              Skip, Claim, EndPass, Free
<1>4. CASE Reread(g) \/ Answer(g) \/ NoAnswer(g) \/ SettleWork(g)
  BY <1>1, <1>4 DEF Reread, Unread, Answer, NoAnswer, SettleWork, Calling, Busy
<1>5. CASE Crash(g)
  BY <1>5 DEF Crash, Team
<1> QED
  BY <1>2, <1>3, <1>4, <1>5 DEF Work

\* The outcome that a receipt gives to its effect is the receipt.
LEMMA SettledBy ==
    ASSUME Shape, RowsOK, NEW r \in Receipts, ReceiptOK(r), Settle(r)
    PROVE  /\ effects'[Start].outcome \in {effects[Start].outcome, r, NoReceipt}
           /\ effects'[Start].fence \in {effects[Start].fence, 0}
<1>1. CASE Reply(r) # "committed"
  BY <1>1 DEF Settle, kernel
<1>2. ASSUME NEW status, NEW kind, NEW n, Outcome(r, status, kind, n)
      PROVE  /\ effects'[Start].outcome \in {effects[Start].outcome, r, NoReceipt}
             /\ effects'[Start].fence \in {effects[Start].fence, 0}
  <2>1. effects[Start] \in EffectRow
    BY EffectNumbers DEF Shape
  <2>2. effects'[Start] =
            IF Start = r.effect
            THEN [effects[Start] EXCEPT !.status = status, !.leased = FALSE, !.outcome = r]
            ELSE IF Start \in Fresh(n) THEN Ready(kind, r.effect) ELSE effects[Start]
    BY <1>2, EffectNumbers DEF Outcome
  <2>3. Ready(kind, r.effect).outcome = NoReceipt /\ Ready(kind, r.effect).fence = 0
    BY DEF Ready, Absent
  <2> QED
    BY <2>1, <2>2, <2>3 DEF EffectRow
<1>3. CASE Reply(r) = "committed"
  <2>1. effects[r.effect].kind \in {"run_start", "model_call", "tool_call"}
    BY DEF Shape, EffectRow, RowsOK, RowOK, ReceiptOK
  <2>2. CASE r.what = "unknown"
    BY <1>2, <1>3, <2>2 DEF Settle
  <2>3. CASE r.what # "unknown" /\ effects[r.effect].kind = "run_start"
    BY <1>2, <1>3, <2>3 DEF Settle, SettleStart
  <2>4. CASE r.what # "unknown" /\ effects[r.effect].kind = "model_call"
    BY <1>2, <1>3, <2>4 DEF Settle, SettleModel, Seal
  <2>5. CASE r.what # "unknown" /\ effects[r.effect].kind = "tool_call"
    BY <1>2, <1>3, <2>5 DEF Settle, SettleTool, Seal
  <2> QED
    BY <2>1, <2>2, <2>3, <2>4, <2>5
<1> QED
  BY <1>1, <1>3

\* A receipt that is offered by the only executor.
LEMMA SolePublish ==
    ASSUME CallsInvariant, NEW h \in Hosts, Sole(h), NEW r \in journal[h], Publish(h, r),
           source' = source, host'[h].bind = host[h].bind, host'[h].work \in {host[h].work, NoReceipt}
    PROVE  Sole(h)'
<1>1. Shape /\ RowsOK /\ r \in Receipts /\ ReceiptOK(r) /\ NoReceipt.effect = 0 /\ Start # 0
  BY Executors DEF CallsInvariant, RowsOK, ExecutorOK, KnowsOK, NoReceipt, Start
<1>2. \/ Settle(r) /\ journal'[h] \subseteq journal[h]
      \/ UNCHANGED <<effects, run>> /\ journal'[h] \subseteq journal[h]
  BY <1>1, Executors DEF Publish, Filed, kernel
<1>3. /\ effects'[Start].outcome \in {effects[Start].outcome, r, NoReceipt}
      /\ effects'[Start].fence \in {effects[Start].fence, 0}
  BY <1>1, <1>2, SettledBy
<1>4. \A x \in Carried(h)' : x \in Carried(h) \/ x = NoReceipt
  BY <1>2, <1>3 DEF Carried
<1>5. ~(0 > 0)
  OBVIOUS
<1> QED
  BY <1>1, <1>3, <1>4, <1>5, SoleStays

\* The steps of a look-up, of a binding and of the inbox.
LEMMA SoleResolve ==
    ASSUME CallsInvariant, NEW h \in Hosts, Sole(h), Resolve(h)
    PROVE  Sole(h)'
<1>1. /\ source \in SourceRow /\ host[h].bind \in BindRow /\ DOMAIN host = Hosts
      /\ UNCHANGED <<effects, journal>>
  BY Executors, SourceMoves DEF CallsInvariant, Shape
<1>2. host'[h].work = host[h].work
  <2>1. \/ \E b \in BindRow : host' = [host EXCEPT ![h].bind = b]
        \/ host' = [host EXCEPT ![h].rows = @ \ {Start}, ![h].bind = Rest]
    BY SourceMoves DEF CallsInvariant
  <2>2. host[h] \in Pass
    BY Executors DEF CallsInvariant
  <2> QED
    BY <1>1, <2>1, <2>2 DEF Pass
<1>3. Carried(h)' = Carried(h)
  BY <1>1, <1>2 DEF Carried
<1>4. ASSUME NEW step, NEW n, Binds(h, step, n)
      PROVE  host'[h].bind.step = step /\ host'[h].bind.n = n
  BY <1>1, <1>4, Executors DEF Binds, CallsInvariant, Pass
<1>5. ASSUME Drops(h, Start) PROVE host'[h].bind.step = "rest"
  BY <1>5, Executors DEF Drops, CallsInvariant, Rest, Pass
<1>6. CASE source' = source /\ host'[h].bind.step = "rest"
  BY <1>1, <1>3, <1>6 DEF Sole, Filled
<1>7. CASE LookUp(h)
  <2>1. /\ source' = source
        /\ \/ Bindings = {} /\ host'[h].bind.step = "looked"
           \/ Bindings # {} /\ host'[h].bind.step = "resolved"
           \/ host'[h].bind.step = "rest"
    BY <1>4, <1>5, <1>7 DEF LookUp
  <2>2. Bindings # {} <=> Filled(h)
    BY SoleFile
  <2> QED
    BY <1>1, <1>3, <2>1, <2>2 DEF Sole, Filled
<1>8. CASE ReadInbox(h)
  <2>1. /\ source' = source /\ host[h].bind.step = "looked"
        /\ \/ host'[h].bind.step = "read" /\ host'[h].bind.n # 0
           \/ host'[h].bind.step = "rest"
    BY <1>4, <1>5, <1>8 DEF ReadInbox, At
  <2> QED
    BY <1>1, <1>3, <2>1 DEF Sole, Filled
<1>9. CASE TestBinding(h)
  <2>1. source' = source /\ host[h].bind.step = "read" /\ host[h].bind.n # 0 /\ source.bound = 0
    BY <1>9 DEF TestBinding, At, Sole, Filled
  <2>2. host'[h].bind.step = "free" /\ host'[h].bind.n = host[h].bind.n
    BY <1>4, <1>9, <2>1 DEF TestBinding
  <2> QED
    BY <1>1, <1>3, <2>1, <2>2 DEF Sole, Filled
<1>10. CASE WriteBinding(h)
  <2>1. /\ host[h].bind.step = "free" /\ host[h].bind.n # 0
        /\ source.tmp[h] = 0 /\ source.bound = 0
    BY <1>10 DEF WriteBinding, At, Sole, Filled
  <2>2. /\ source'.tmp = [source.tmp EXCEPT ![h] = host[h].bind.n] /\ source'.bound = 0
        /\ host'[h].bind.step = "made"
    BY <1>1, <1>4, <1>10, <2>1 DEF WriteBinding, SourceRow
  <2>3. source'.tmp[h] # 0 /\ \A g \in Hosts \ {h} : source'.tmp[g] = source.tmp[g]
    BY <1>1, <2>1, <2>2 DEF SourceRow
  <2> QED
    BY <1>1, <1>3, <2>1, <2>2, <2>3 DEF Sole, Filled
<1>11. CASE MoveBinding(h)
  <2>1. host[h].bind.step = "made" /\ source.tmp[h] # 0 /\ source.bound = 0
    BY <1>11 DEF MoveBinding, At, Sole
  <2>2. /\ source'.tmp = [source.tmp EXCEPT ![h] = 0] /\ source'.bound = source.tmp[h]
        /\ host'[h].bind.step = "written"
    BY <1>1, <1>4, <1>11 DEF MoveBinding, SourceRow
  <2>3. source'.tmp[h] = 0 /\ \A g \in Hosts \ {h} : source'.tmp[g] = source.tmp[g]
    BY <1>1, <2>2 DEF SourceRow
  <2> QED
    BY <1>1, <1>3, <2>1, <2>2, <2>3 DEF Sole, Filled
<1>12. CASE Unlink(h)
  <2>1. /\ host[h].bind.step = "written" /\ host'[h].bind.step = "resolved"
        /\ source'.tmp = source.tmp /\ source'.bound = source.bound
    BY <1>1, <1>4, <1>12 DEF Unlink, At, SourceRow
  <2> QED
    BY <1>1, <1>3, <2>1 DEF Sole, Filled
<1> QED
  BY <1>7, <1>8, <1>9, <1>10, <1>11, <1>12 DEF Resolve

\* A claim, and the answer to it.
LEMMA SoleCall ==
    ASSUME CallsInvariant, NEW h \in Hosts, Sole(h),
           Claim(h) \/ Reread(h) \/ Answer(h)
    PROVE  Sole(h)'
<1>1. /\ Shape /\ RowsOK /\ ExecutorOK(h) /\ host[h] \in Pass /\ DOMAIN host = Hosts
      /\ source \in SourceRow /\ source' = source
  BY Executors DEF CallsInvariant, RowsOK, Shape, Claim, Reread, Answer
<1>2. CASE Claim(h)
  <2>1. PICK e \in host[h].rows :
            /\ Sourced(h, e) /\ ClaimEffect(e) /\ journal' = journal
            /\ \/ host' = [host EXCEPT ![h].rows = @ \ {e}, ![h].bind = Rest,
                     ![h].work = [effect |-> e, fence |-> effects'[e].fence, what |-> "none", n |-> 0]]
               \/ host' = [host EXCEPT ![h].rows = @ \ {e}, ![h].bind = Rest]
    BY <1>2 DEF Claim, Drops
  <2>2. e \in Effects /\ effects' = [effects EXCEPT ![e].status = "claimed", ![e].fence = @ + 1, ![e].leased = TRUE]
    BY <2>1, Executors, <1>1 DEF ClaimEffect
  <2>3. host'[h].bind = Rest /\ (host'[h].work = host[h].work \/ host'[h].work.n = 0)
    BY <1>1, <2>1 DEF Pass
  <2>4. effects'[Start].outcome = effects[Start].outcome
    BY <1>1, <2>2, EffectNumbers DEF Shape, EffectRow
  <2>5. effects'[Start].fence > 0 => effects[Start].fence > 0 \/ Filled(h)
    <3>1. e = Start => Filled(h)
      BY <2>1 DEF Sourced, Sole
    <3>2. e # Start => effects'[Start] = effects[Start]
      BY <1>1, <2>2, EffectNumbers DEF Shape
    <3> QED
      BY <3>1, <3>2
  <2>6. \A r \in Carried(h)' : r \in Carried(h) \/ r.n = 0
    BY <2>1, <2>3, <2>4 DEF Carried
  <2> QED
    BY <1>1, <2>3, <2>5, <2>6, SoleStays
<1>3. CASE Reread(h)
  <2>1. /\ UNCHANGED <<effects, journal>>
        /\ \/ \E n \in Requests : host' = [host EXCEPT ![h].work.n = n]
           \/ host' = [host EXCEPT ![h].work = NoReceipt]
    BY <1>3 DEF Reread
  <2>2. NoReceipt.n = 0
    BY DEF NoReceipt
  <2>3. host'[h].bind = host[h].bind /\ host'[h].work.n \in {0, source.tmp[h], source.bound}
    <3>1. CASE host' = [host EXCEPT ![h].work = NoReceipt]
      BY <1>1, <2>2, <3>1 DEF Pass
    <3>2. CASE \E n \in Requests : host' = [host EXCEPT ![h].work.n = n]
      <4>1. PICK n \in Requests : host' = [host EXCEPT ![h].work.n = n]
        BY <3>2
      <4>2. host'[h].work.n = n /\ host'[h].bind = host[h].bind
        BY <1>1, <4>1 DEF Pass, Receipts
      <4> QED
        BY <4>2, SoleFile
    <3> QED
      BY <2>1, <3>1, <3>2
  <2>4. \A r \in Carried(h)' : r \in Carried(h) \/ r.n \in {0, source.tmp[h], source.bound}
    BY <2>1, <2>3 DEF Carried
  <2> QED
    BY <1>1, <2>1, <2>3, <2>4, SoleStays
<1>4. CASE Answer(h)
  <2>1. PICK a \in Answers(effects[host[h].work.effect].kind, host[h].work.n) :
            /\ host' = [host EXCEPT ![h].work = [host[h].work EXCEPT !.what = a[1], !.n = a[2]]]
            /\ journal' = [journal EXCEPT ![h] = @ \cup {host'[h].work}]
    BY <1>4 DEF Answer
  <2>2. effects' = effects /\ host[h].work # NoReceipt /\ host[h].work.what = "none" /\ ~Unread(h)
    BY <1>4 DEF Answer, Calling, Busy
  <2>3. PICK e \in Effects : e = host[h].work.effect
    BY <1>1, <2>2 DEF ExecutorOK, KnowsOK
  <2>4. effects[e].status # "none" /\ (e = Start => host[h].work.n \in Steps)
    BY <1>1, <2>2, <2>3 DEF ExecutorOK, KnowsOK, Unread, Calling, Busy
  <2>5. e = Start => a[2] \in {host[h].work.n, 0}
    <3>1. host[h].work.n \in Nat
      BY <1>1 DEF Pass, Receipts
    <3> QED
      BY <1>1, <2>1, <2>3, <2>4, <3>1, AnswerReceipt
  <2>6. /\ host'[h].bind = host[h].bind /\ host'[h].work.effect = e /\ host'[h].work.n = a[2]
    BY <1>1, <2>1, <2>3 DEF Pass, Receipts
  <2>7. journal'[h] = journal[h] \cup {host'[h].work}
    BY <1>1, <2>1 DEF Shape
  <2>8. e = Start => a[2] \in {0, source.tmp[h], source.bound}
    BY <2>3, <2>5 DEF Sole, Carried
  <2>9. \A r \in Carried(h)' :
            r \in Carried(h) \/ (r.effect = Start => r.n \in {0, source.tmp[h], source.bound})
    BY <2>2, <2>6, <2>7, <2>8 DEF Carried
  <2> QED
    BY <1>1, <2>2, <2>6, <2>9, SoleStays
<1> QED
  BY <1>2, <1>3, <1>4

\* Every step while one executor runs.
LEMMA SoleStep ==
    ASSUME CallsInvariant, NEW h \in Hosts, Team = {h}, Sole(h), Next
    PROVE  Sole(h)'
<1>1. /\ Shape /\ ExecutorOK(h) /\ host[h] \in Pass /\ DOMAIN host = Hosts /\ source \in SourceRow
      /\ NoReceipt.n = 0
  BY Executors DEF CallsInvariant, Shape, NoReceipt
<1>2. ASSUME NEW g \in Hosts, Work(g) \/ Crash(g) PROVE g = h
  <2>1. host[g].part # "off"
    BY <1>2, Movers DEF CallsInvariant
  <2> QED
    BY <2>1 DEF Team
<1>3. CASE Replay(h)
  <2>1. PICK r \in host[h].todo :
            /\ host' = [host EXCEPT ![h].todo = @ \ {r}, ![h].seen = @ \cup {r.effect}]
            /\ Publish(h, r) /\ source' = source
    BY <1>3 DEF Replay
  <2>2. host'[h].bind = host[h].bind /\ host'[h].work = host[h].work /\ r \in journal[h]
    BY <1>1, <2>1 DEF Pass, ExecutorOK, KnowsOK
  <2> QED
    BY <2>1, <2>2, SolePublish
<1>4. CASE SettleWork(h)
  <2>1. /\ host' = [host EXCEPT ![h].work = NoReceipt] /\ Publish(h, host[h].work)
        /\ source' = source /\ host[h].work # NoReceipt /\ host[h].work.what # "none"
    BY <1>4 DEF SettleWork, Calling, Busy
  <2>2. host'[h].bind = host[h].bind /\ host'[h].work = NoReceipt /\ host[h].work \in journal[h]
    BY <1>1, <2>1 DEF Pass, ExecutorOK, KnowsOK
  <2> QED
    BY <2>1, <2>2, SolePublish
<1>5. CASE Resolve(h)
  BY <1>5, SoleResolve
<1>6. CASE Claim(h) \/ Reread(h) \/ Answer(h)
  BY <1>6, SoleCall
<1>7. CASE ReadPage(h) \/ Skip(h) \/ NoAnswer(h) \/ EndPass(h) \/ Crash(h)
  <2>1. UNCHANGED <<effects, source, journal>>
    BY <1>7 DEF ReadPage, Skip, NoAnswer, EndPass, Crash
  <2>2. /\ host'[h].bind \in {host[h].bind, Rest}
        /\ host'[h].work \in {host[h].work, NoReceipt}
    <3>1. CASE ReadPage(h)
      BY <1>1, <3>1 DEF ReadPage, Pass
    <3>2. CASE Skip(h)
      BY <1>1, <3>2 DEF Skip, Drops, Pass
    <3>3. CASE NoAnswer(h)
      BY <1>1, <3>3 DEF NoAnswer, Pass
    <3>4. CASE EndPass(h) \/ Crash(h)
      <4>1. host' = [host EXCEPT ![h] = NewPass(h)]
        BY <3>4 DEF EndPass, Crash
      <4> QED
        BY <1>1, <4>1 DEF NewPass
    <3> QED
      BY <1>7, <3>1, <3>2, <3>3, <3>4
  <2>3. \A r \in Carried(h)' : r \in Carried(h) \/ r.n = 0
    BY <1>1, <2>1, <2>2 DEF Carried
  <2> QED
    BY <2>1, <2>2, <2>3, SoleStays
<1>8. CASE (\E s \in Steps : Provide(s)) \/ OwnerLeaves \/ OwnerCloses
  <2>1. UNCHANGED <<effects, host, journal, source.tmp, source.bound>>
    BY <1>1, <1>8 DEF Provide, OwnerLeaves, OwnerCloses, SourceRow
  <2>2. Carried(h)' = Carried(h)
    BY <2>1 DEF Carried
  <2> QED
    BY <2>1, <2>2, SoleStays
<1>9. CASE \E e \in Effects : Expire(e)
  <2>1. PICK e \in Effects : effects' = [effects EXCEPT ![e].leased = FALSE]
    BY <1>9 DEF Expire
  <2>2. UNCHANGED <<host, journal, source>>
    BY <1>9 DEF Expire
  <2>3. effects'[Start].outcome = effects[Start].outcome /\ effects'[Start].fence = effects[Start].fence
    BY <1>1, <2>1, EffectNumbers DEF Shape, EffectRow
  <2>4. Carried(h)' = Carried(h)
    BY <2>2, <2>3 DEF Carried
  <2> QED
    BY <2>2, <2>3, <2>4, SoleStays
<1> QED
  BY <1>2, <1>3, <1>4, <1>5, <1>6, <1>7, <1>8, <1>9 DEF Next, Work

\* One executor that starts with no binding.
LEMMA SoleInit ==
    ASSUME Init
    PROVE  SoleInvariant
<1>1. ASSUME NEW h \in Hosts PROVE Sole(h)
  <2>1. source.bound = 0 /\ \A g \in Hosts : source.tmp[g] = 0
    BY DEF Init
  <2>2. host[h].bind.step = "rest" /\ host[h].work = NoReceipt /\ journal[h] = {}
    BY DEF Init, NewPass, Off, Rest
  <2>3. effects[Start].fence = 0 /\ effects[Start].outcome = NoReceipt
    BY EffectNumbers DEF Init, Ready, Absent
  <2>4. NoReceipt.n = 0 /\ ~(0 > 0)
    BY DEF NoReceipt
  <2> QED
    BY <2>1, <2>2, <2>3, <2>4 DEF Sole, Filled, Carried
<1> QED
  BY <1>1 DEF SoleInvariant

\* The binding in every behaviour.
LEMMA SoleHolds == Spec => []SoleInvariant
<1>1. ASSUME CallsInvariant, SoleInvariant, [Next]_vars PROVE SoleInvariant'
  <2>1. SUFFICES ASSUME NEW h \in Hosts, Team' = {h} PROVE Sole(h)'
    BY DEF SoleInvariant
  <2>2. CASE Next
    <3>1. Team = {h}
      BY <1>1, <2>1, <2>2, StepOK
    <3> QED
      BY <1>1, <2>2, <3>1, SoleStep DEF SoleInvariant
  <2>3. CASE UNCHANGED vars
    BY <1>1, <2>1, <2>3 DEF SoleInvariant, vars, Team, Sole, Filled, Carried
  <2> QED
    BY <1>1, <2>2, <2>3
<1> QED
  BY <1>1, SoleInit, RunsSafe, PTL DEF Spec

\* That is what OneRequest says.
LEMMA RequestHolds ==
    ASSUME SoleInvariant
    PROVE  OneRequest
<1>1. SUFFICES ASSUME NEW h \in Hosts, Team = {h}, effects[Start].fence > 0
               PROVE  /\ Bindings # {} /\ ~Twice
                      /\ \A r \in journal[h] \cup {host[h].work, effects[Start].outcome} :
                             r.effect = Start /\ r.n # 0 => r.n \in Requests
  BY DEF OneRequest
<1>2. Sole(h)
  BY <1>1 DEF SoleInvariant
<1>3. Bindings # {} /\ ~Twice
  BY <1>1, <1>2, SoleFile DEF Sole
<1>4. ASSUME NEW r \in Carried(h), r.effect = Start, r.n # 0 PROVE r.n \in Requests
  BY <1>2, <1>4 DEF Sole, Requests
<1> QED
  BY <1>3, <1>4 DEF Carried

\* What every claim, settlement and pass of an executor preserves: the types, the steps paid
\* against the request and the work of each phase (run_settle_facts, reduce_chat_tool), no
\* call of an executor that keeps a receipt of it, and while one executor runs a single
\* binding whose request all its calls and receipts carry (RunStartSource.resolve).
THEOREM CallsAreSafe == Spec => []CallsSafe
<1>1. CallsInvariant /\ SoleInvariant => CallsSafe
  BY Typed, LedgerHolds, OnceHolds, RequestHolds DEF CallsSafe
<1> QED
  BY <1>1, RunsSafe, SoleHolds, PTL

\* reconcile_journal and the executor's passes remove a receipt only when its effect has an
\* outcome or was handed out again.
THEOREM ReceiptsAreKept == Spec => ReceiptKept
<1> DEFINE Kept == \A h \in Hosts : \A r \in journal[h] \ journal'[h] :
                       Terminal(r.effect)' \/ effects'[r.effect].fence > r.fence
<1>1. ASSUME CallsInvariant, Next PROVE Kept
  <2>1. SUFFICES ASSUME NEW h \in Hosts, NEW r \in journal[h], r \notin journal'[h]
                 PROVE  Terminal(r.effect)' \/ effects'[r.effect].fence > r.fence
    OBVIOUS
  <2>2. Shape /\ RowsOK /\ LedgerOK /\ \A g \in Hosts : ExecutorOK(g)
    BY <1>1 DEF CallsInvariant, RowsOK
  <2>3. ASSUME NEW g \in Hosts, NEW x \in Receipts, x \in journal[g], Publish(g, x),
               UNCHANGED <<contracts, owner>>
        PROVE  Terminal(r.effect)' \/ effects'[r.effect].fence > r.fence
    <3>1. ReceiptOK(x)
      BY <2>2, <2>3 DEF ExecutorOK, KnowsOK
    <3>2. \/ journal' = journal
          \/ /\ journal' = [journal EXCEPT ![g] = journal[g] \ {x}]
             /\ Terminal(x.effect)' \/ effects'[x.effect].fence > x.fence
      BY <2>2, <2>3, <3>1, PublishOK
    <3>3. journal' = [journal EXCEPT ![g] = journal[g] \ {x}] => r = x
      BY <2>1, <2>2, Executors
    <3> QED
      BY <2>1, <3>2, <3>3
  <2>4. CASE \E g \in Hosts : Replay(g)
    <3>1. PICK g \in Hosts : Replay(g)
      BY <2>4
    <3>2. PICK x \in host[g].todo : Publish(g, x) /\ UNCHANGED <<contracts, owner, source>>
      BY <3>1 DEF Replay
    <3>3. x \in journal[g] /\ x \in Receipts
      BY <2>2, Executors DEF ExecutorOK, KnowsOK
    <3> QED
      BY <2>3, <3>2, <3>3
  <2>5. CASE \E g \in Hosts : SettleWork(g)
    <3>1. PICK g \in Hosts : SettleWork(g)
      BY <2>5
    <3>2. /\ Publish(g, host[g].work) /\ UNCHANGED <<contracts, owner, source>>
          /\ host[g].work # NoReceipt /\ host[g].work.what # "none"
      BY <3>1 DEF SettleWork, Calling, Busy
    <3>3. host[g].work \in journal[g] /\ host[g].work \in Receipts
      BY <2>2, <3>2, Executors DEF ExecutorOK, KnowsOK
    <3> QED
      BY <2>3, <3>2, <3>3
  <2>6. CASE \E g \in Hosts : Answer(g)
    <3>1. PICK g \in Hosts : journal' = [journal EXCEPT ![g] = @ \cup {host'[g].work}]
      BY <2>6 DEF Answer
    <3>2. journal[h] \subseteq journal'[h]
      BY <2>2, <3>1, Executors
    <3> QED
      BY <2>1, <3>2
  <2>7. CASE UNCHANGED journal
    BY <2>1, <2>7
  <2>8. \/ \E g \in Hosts : Replay(g) \/ SettleWork(g) \/ Answer(g)
        \/ UNCHANGED journal
    BY <1>1, <2>2, SourceMoves DEF Next, Work, Provide, OwnerLeaves, OwnerCloses, Expire, ReadPage, Skip,
                Claim, Reread, NoAnswer, EndPass, Crash
  <2> QED
    BY <2>4, <2>5, <2>6, <2>7, <2>8
<1>2. CallsInvariant /\ [Next]_vars => [Kept]_vars
  BY <1>1
<1> QED
  BY <1>2, RunsSafe, PTL DEF Spec, ReceiptKept

=============================================================================
