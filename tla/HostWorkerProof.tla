--------------------------- MODULE HostWorkerProof ---------------------------
(* Safety of HostWorker, for any hosts, effects, receipt classes and bounds. *)
EXTENDS HostWorker, FiniteSetTheorems, WellFoundedInduction, NaturalsInduction, TLAPS

-----------------------------------------------------------------------------
(* The inductive invariant. *)

Sending == {"reread", "prepare", "start", "send"}
Owing == Sending \cup {"finish", "settle", "record"}
Working == Owing \cup {"claim", "resubmit", "rerecord"}
Repaying == {"reconcile", "resubmit", "rerecord"}

\* A host holds fence f of an effect: it journaled the claim, or works on it.
Holds(h, e, f) ==
  \/ journal[h][e].prepared = f
  \/ pc[h] \in Sending /\ task[h].effect = e /\ task[h].fence = f

\* The kernel's row and the calls made for it.
RowOK(e) ==
  /\ db[e].status = "claimed" => db[e].fence >= 1
  /\ db[e].status # "settled" => db[e].outcome = NoOutcome
  /\ db[e].status = "settled" => db[e].outcome.fence = db[e].fence
  /\ e \in Business => db[e].fence <= 1 /\ (db[e].status = "ready" => db[e].fence = 0)
  /\ \A f \in 1..MaxFence : sent[e][f] <= 1 /\ (f > db[e].fence => sent[e][f] = 0)

\* A journal entry trails the row, and what it calls undispatched was not sent.
EntryOK(h, e) ==
  /\ journal[h][e].prepared <= db[e].fence
  /\ journal[h][e].finished = NoOutcome
       \/ journal[h][e].finished.fence \in 1..db[e].fence
  /\ journal[h][e].settled = "agreed" =>
       db[e].status = "settled" /\ db[e].outcome = journal[h][e].outcome
  /\ journal[h][e].settled = "conflict" /\ e \in Business => Closed(e)
  /\ journal[h][e].prepared # 0 /\ journal[h][e].started = 0 =>
       sent[e][journal[h][e].prepared] = 0

\* What a host remembers of the effect it works on.
HostOK(h) ==
  /\ pc[h] \in Working => task[h].effect \in Effects
  /\ pc[h] \in Owing => task[h].fence \in 1..db[task[h].effect].fence
  /\ pc[h] \in Sending => sent[task[h].effect][task[h].fence] = 0
  /\ pc[h] = "send" => journal[h][task[h].effect].started # 0
  /\ pc[h] \in {"finish", "settle"} => task[h].outcome.fence = task[h].fence
  /\ pc[h] \in {"record", "rerecord"} =>
       /\ db[task[h].effect].status = "settled"
       /\ db[task[h].effect].outcome = task[h].outcome
  /\ pc[h] \in Repaying => \A e \in todo[h] : journal[h][e].finished # NoOutcome
  /\ pc[h] = "resume" => todo[h] \subseteq PreparedWithoutDispatch(h)

OneHolder ==
  \A h, k \in Hosts, e \in Effects, f \in 1..MaxFence :
    Holds(h, e, f) /\ Holds(k, e, f) => h = k

HostInvariant ==
  /\ TypeOK
  /\ \A e \in Effects : RowOK(e)
  /\ \A h \in Hosts, e \in Effects : EntryOK(h, e)
  /\ \A h \in Hosts : HostOK(h)
  /\ OneHolder

-----------------------------------------------------------------------------
(* Type correctness. *)

\* A set of effect ids that is not empty has a first one: discovery's order is total.
LEMMA FirstExists ==
  ASSUME NEW S, S \subseteq Effects, S # {}
  PROVE  First(S) \in S
  <1> DEFINE Less == {p \in Nat \X Nat : p[1] < p[2]}
  <1>1. Effects \subseteq Nat BY EffectAssumption DEF Effects
  <1>2. IsWellFoundedOn(Less, Nat) BY NatLessThanWellFounded DEF OpToRel
  <1>3. \E x \in S : \A y \in S : ~(<<y, x>> \in Less)
    <2> HIDE DEF Less
    <2> QED BY <1>1, <1>2, WFMin
  <1>4. PICK x \in S : \A y \in S : ~(<<y, x>> \in Less) BY <1>3
  <1>5. \A y \in S : x <= y
    <2> SUFFICES ASSUME NEW y \in S PROVE x <= y OBVIOUS
    <2>1. x \in Nat /\ y \in Nat BY <1>1
    <2>2. ~(y < x) BY <1>4, <2>1
    <2> QED BY <2>1, <2>2
  <1> QED BY <1>5 DEF First

\* The constants of the record types.
LEMMA Shapes ==
  /\ NoOutcome \in Outcome /\ NoEntry \in Entry
  /\ 0 \in Fence /\ 1 \in Fence
  /\ \A c \in Classes, f \in Fence : [class |-> c, fence |-> f] \in Outcome
  /\ \A f \in Fence : [class |-> "recovered", fence |-> f] \in Outcome
  /\ \A e \in Effects \cup {0}, f \in Fence, o \in Outcome :
       [effect |-> e, fence |-> f, outcome |-> o]
         \in [effect : Effects \cup {0}, fence : Fence, outcome : Outcome]
  BY HostBoundAssumption DEF NoOutcome, Outcome, NoEntry, Entry, Fence

\* A journal append of a well-typed entry.
LEMMA WriteType ==
  ASSUME TypeOK, NEW h \in Hosts, NEW e \in Effects, NEW x \in Entry, Write(h, e, x)
  PROVE  journal' \in [Hosts -> [Effects -> Entry]]
  BY DEF TypeOK, Write

\* Writing a settled record keeps the journals well typed.
LEMMA RecordType ==
  ASSUME TypeOK, NEW h \in Hosts, NEW e \in Effects, NEW v \in {"agreed", "conflict"},
         NEW o \in Outcome, RecordSettlement(h, e, v, o)
  PROVE  journal' \in [Hosts -> [Effects -> Entry]]
  <1>1. journal[h][e] \in Entry BY DEF TypeOK
  <1>2. [journal[h][e] EXCEPT !.settled = v, !.outcome = o] \in Entry BY <1>1 DEF Entry
  <1> QED BY <1>1, <1>2, WriteType DEF RecordSettlement

\* Taking an effect on keeps the hosts' notes well typed.
LEMMA TakeType ==
  ASSUME TypeOK, NEW h \in Hosts, NEW e \in Effects \cup {0}, NEW f \in Fence,
         NEW o \in Outcome, Take(h, e, f, o)
  PROVE  task' \in [Hosts -> [effect : Effects \cup {0}, fence : Fence, outcome : Outcome]]
  BY Shapes DEF TypeOK, Take

\* The parts of the invariant a step of one host relies on.
LEMMA Facts ==
  ASSUME HostInvariant, NEW h \in Hosts
  PROVE  /\ TypeOK /\ HostOK(h)
         /\ \A e \in Effects : db[e] \in Row /\ journal[h][e] \in Entry
         /\ task[h].effect \in Effects \cup {0} /\ task[h].fence \in Fence
         /\ task[h].outcome \in Outcome /\ pc[h] \in Step
         /\ todo[h] \subseteq Effects
         /\ pc[h] \in Working => task[h].effect \in Effects
         /\ pc[h] \in Owing => task[h].fence \in 1..db[task[h].effect].fence
  BY DEF HostInvariant, TypeOK, HostOK

\* Steps of the round that repay debts and resume prepared effects.
LEMMA ResumingType ==
  ASSUME HostInvariant, NEW h \in Hosts,
         \/ BeginRound(h) \/ (\E e \in Effects : Reconcile(h, e))
         \/ Resubmit(h) \/ ResubmitRefused(h) \/ Rerecord(h) \/ Reconciled(h)
         \/ (\E e \in Effects : ResumeReady(h, e) \/ ResumeClaimed(h, e)
                                  \/ ResumeSkipped(h, e) \/ ResumeClosed(h, e))
         \/ Resumed(h)
  PROVE  TypeOK'
  <1>1. CASE BeginRound(h)
    BY <1>1, Facts DEF BeginRound, TypeOK, Goto, Step, PendingSettlements
  <1>2. ASSUME NEW e \in Effects, Reconcile(h, e) PROVE TypeOK'
    <2>1. journal[h][e].finished \in Outcome /\ journal[h][e].finished.fence \in Fence
      BY Facts DEF Entry, Outcome
    <2>2. Verdict(e, journal[h][e].finished) \in {"agreed", "conflict"} BY DEF Verdict
    <2>3. task' \in [Hosts -> [effect : Effects \cup {0}, fence : Fence, outcome : Outcome]]
      BY <1>2, <2>1, TakeType, Facts DEF Reconcile, TypeOK
    <2>4. journal' \in [Hosts -> [Effects -> Entry]]
      BY <1>2, <2>1, <2>2, RecordType, Facts DEF Reconcile, TypeOK
    <2>5. pc' \in [Hosts -> Step] /\ todo' \in [Hosts -> SUBSET Effects]
      BY <1>2, Facts DEF Reconcile, TypeOK, Goto, Step
    <2> QED BY <1>2, <2>3, <2>4, <2>5, Facts DEF Reconcile, TypeOK
  <1>3. CASE Resubmit(h)
    <2>1. task[h].effect \in Effects BY <1>3, Facts DEF Resubmit, Working
    <2>2. db' \in [Effects -> Row]
      BY <1>3, <2>1, Facts DEF Resubmit, Settled, TypeOK, Row
    <2> QED BY <1>3, <2>2, Facts DEF Resubmit, TypeOK, Goto, Step
  <1>4. CASE ResubmitRefused(h)
    BY <1>4, Facts DEF ResubmitRefused, TypeOK, Goto, Step
  <1>5. CASE Rerecord(h)
    <2>1. task[h].effect \in Effects BY <1>5, Facts DEF Rerecord, Working
    <2>2. journal' \in [Hosts -> [Effects -> Entry]]
      BY <1>5, <2>1, RecordType, Facts DEF Rerecord
    <2> QED BY <1>5, <2>2, Facts DEF Rerecord, TypeOK, Goto, Step
  <1>6. CASE Reconciled(h)
    BY <1>6, Facts DEF Reconciled, TypeOK, Goto, Step, PreparedWithoutDispatch
  <1>7. ASSUME NEW e \in Effects, ResumeReady(h, e) PROVE TypeOK'
    <2>1. task' \in [Hosts -> [effect : Effects \cup {0}, fence : Fence, outcome : Outcome]]
      BY <1>7, Shapes, TakeType, Facts DEF ResumeReady
    <2> QED BY <1>7, <2>1, Facts DEF ResumeReady, TypeOK, Goto, Step
  <1>8. ASSUME NEW e \in Effects, ResumeClaimed(h, e) PROVE TypeOK'
    <2>1. db[e].fence \in Fence BY Facts DEF Row
    <2>2. task' \in [Hosts -> [effect : Effects \cup {0}, fence : Fence, outcome : Outcome]]
      BY <1>8, <2>1, Shapes, TakeType, Facts DEF ResumeClaimed
    <2> QED BY <1>8, <2>2, Facts DEF ResumeClaimed, TypeOK, Goto, Step
  <1>9. ASSUME NEW e \in Effects, ResumeSkipped(h, e) PROVE TypeOK'
    BY <1>9, Facts DEF ResumeSkipped, TypeOK
  <1>10. ASSUME NEW e \in Effects, ResumeClosed(h, e) PROVE TypeOK'
    <2>1. journal' \in [Hosts -> [Effects -> Entry]]
      BY <1>10, Shapes, RecordType, Facts DEF ResumeClosed
    <2> QED BY <1>10, <2>1, Facts DEF ResumeClosed, TypeOK
  <1>11. CASE Resumed(h)
    BY <1>11, Facts DEF Resumed, TypeOK, Goto, Step
  <1> QED BY <1>1, <1>2, <1>3, <1>4, <1>5, <1>6, <1>7, <1>8, <1>9, <1>10, <1>11

\* Leaving a round.
LEMMA EndRoundType ==
  ASSUME TypeOK, NEW h \in Hosts, EndRound(h)
  PROVE  /\ pc' \in [Hosts -> Step]
         /\ task' \in [Hosts -> [effect : Effects \cup {0}, fence : Fence, outcome : Outcome]]
  BY Shapes DEF EndRound, TypeOK, Goto, Step, NoTask

\* Discovery picks an effect.
LEMMA Discovered ==
  ASSUME NEW h \in Hosts, Discover(h)
  PROVE  \E e \in Effects : Take(h, e, 0, NoOutcome)
  <1> DEFINE class == IF Ready \cap Resources # {} THEN Ready \cap Resources ELSE Ready
  <1>1. class \subseteq Effects /\ class # {} BY DEF Discover, Ready
  <1>2. First(class) \in Effects
    <2> HIDE DEF class
    <2> QED BY <1>1, FirstExists
  <1> QED BY <1>2 DEF Discover

\* Steps of the round that look for work and claim it.
LEMMA ClaimingType ==
  ASSUME HostInvariant, NEW h \in Hosts,
         \/ Isolate(h) \/ PassOrphans(h) \/ (\E reset \in SUBSET Resources : SweepScope(h, reset))
         \/ Discover(h) \/ DiscoverNothing(h) \/ Claim(h) \/ ClaimRefused(h) \/ Reread(h)
  PROVE  TypeOK'
  <1>1. CASE Isolate(h) BY <1>1, EndRoundType, Facts DEF Isolate, TypeOK
  <1>2. CASE PassOrphans(h) BY <1>2, Facts DEF PassOrphans, TypeOK, Goto, Step
  <1>3. ASSUME NEW reset \in SUBSET Resources, SweepScope(h, reset) PROVE TypeOK'
    <2>1. \A e \in Effects : Recovered(reset)[e] \in Row
      <3> SUFFICES ASSUME NEW e \in Effects PROVE Recovered(reset)[e] \in Row OBVIOUS
      <3>1. db[e] \in Row /\ db[e].fence \in Fence BY Facts DEF Row
      <3>2. [class |-> "recovered", fence |-> db[e].fence] \in Outcome BY <3>1, Shapes
      <3> QED BY <3>1, <3>2 DEF Recovered, Row
    <2>2. Recovered(reset) \in [Effects -> Row] BY <2>1 DEF Recovered
    <2> QED BY <1>3, <2>2, Facts DEF SweepScope, TypeOK, Goto, Step
  <1>4. CASE Discover(h)
    <2>1. PICK e \in Effects : Take(h, e, 0, NoOutcome) BY <1>4, Discovered
    <2>2. task' \in [Hosts -> [effect : Effects \cup {0}, fence : Fence, outcome : Outcome]]
      BY <2>1, Shapes, TakeType, Facts
    <2> QED BY <1>4, <2>2, Facts DEF Discover, TypeOK, Goto, Step
  <1>5. CASE DiscoverNothing(h) BY <1>5, EndRoundType, Facts DEF DiscoverNothing, TypeOK
  <1>6. CASE Claim(h)
    <2> DEFINE e == task[h].effect
    <2>1. e \in Effects BY <1>6, Facts DEF Claim, Working
    <2>2. db[e].fence + 1 \in Fence
      BY <1>6, <2>1, Facts, HostBoundAssumption DEF Claim, Claims, Row, Fence
    <2>3. db' \in [Effects -> Row] BY ZenonT(60), <1>6, <2>1, <2>2, Facts DEF Claim, TypeOK, Row
    <2>4. task' \in [Hosts -> [effect : Effects \cup {0}, fence : Fence, outcome : Outcome]]
      BY <1>6, <2>1, <2>2, Shapes, TakeType, Facts DEF Claim
    <2> QED BY <1>6, <2>3, <2>4, Facts DEF Claim, TypeOK, Goto, Step
  <1>7. CASE ClaimRefused(h) BY <1>7, EndRoundType, Facts DEF ClaimRefused, TypeOK
  <1>8. CASE Reread(h)
    <2>1. pc' \in [Hosts -> Step]
          /\ task' \in [Hosts -> [effect : Effects \cup {0}, fence : Fence, outcome : Outcome]]
      BY <1>8, EndRoundType, Facts DEF Reread, TypeOK, Goto, Step
    <2> QED BY <1>8, <2>1, Facts DEF Reread, TypeOK
  <1> QED BY <1>1, <1>2, <1>3, <1>4, <1>5, <1>6, <1>7, <1>8

\* Counting one more call.
LEMMA CountType ==
  ASSUME NEW S, NEW c \in [S -> Nat], NEW x \in S
  PROVE  [c EXCEPT ![x] = @ + 1] \in [S -> Nat]
  OBVIOUS

\* Steps that execute a claim.
LEMMA ExecutingType ==
  ASSUME HostInvariant, NEW h \in Hosts,
         \/ Prepare(h) \/ PrepareWithoutIO(h) \/ Start(h) \/ Send(h) \/ Finish(h)
         \/ Settle(h) \/ SettleRefused(h) \/ Record(h)
  PROVE  TypeOK'
  <1> DEFINE e == task[h].effect
             j == journal[h][task[h].effect]
             Tasks == [effect : Effects \cup {0}, fence : Fence, outcome : Outcome]
  <1>0. pc[h] \in Owing => e \in Effects /\ j \in Entry BY Facts DEF Owing, Working
  <1>1. ASSUME e \in Effects, Prepared(h) PROVE journal' \in [Hosts -> [Effects -> Entry]]
    <2>1. [j EXCEPT !.prepared = IF @ = 0 THEN task[h].fence ELSE @] \in Entry
      BY <1>1, Facts DEF Entry
    <2> QED BY <1>1, <2>1, WriteType, Facts DEF Prepared
  <1>2. CASE Prepare(h)
    <2>1. journal' \in [Hosts -> [Effects -> Entry]]
      BY <1>0, <1>1, <1>2 DEF Prepare, Owing, Sending
    <2> QED BY <1>2, <2>1, Facts DEF Prepare, TypeOK, Goto, Step
  <1>3. CASE PrepareWithoutIO(h)
    <2>1. journal' \in [Hosts -> [Effects -> Entry]]
      BY <1>0, <1>1, <1>3 DEF PrepareWithoutIO, Owing, Sending
    <2>2. task' \in [Hosts -> Tasks]
      BY <1>3, Shapes, TakeType, Facts DEF PrepareWithoutIO
    <2> QED BY <1>3, <2>1, <2>2, Facts DEF PrepareWithoutIO, TypeOK, Goto, Step
  <1>4. CASE Start(h)
    <2>1. e \in Effects /\ j \in Entry BY <1>0, <1>4 DEF Start, Owing, Sending
    <2>2. [j EXCEPT !.started = task[h].fence] \in Entry BY <2>1, Facts DEF Entry
    <2>3. journal' \in [Hosts -> [Effects -> Entry]] BY <1>4, <2>1, <2>2, WriteType, Facts DEF Start
    <2> QED BY <1>4, <2>3, Facts DEF Start, TypeOK, Goto, Step
  <1>5. CASE Send(h)
    <2>1. task' \in [Hosts -> Tasks] BY <1>5, Shapes, TakeType, Facts DEF Send
    <2>2. e \in Effects /\ task[h].fence \in 1..MaxFence
      BY <1>0, <1>5, Facts, HostBoundAssumption DEF Send, Owing, Sending, Fence, Row
    <2>3. sent \in [Effects -> [1..MaxFence -> Nat]] BY Facts DEF TypeOK
    <2>4. [sent[e] EXCEPT ![task[h].fence] = @ + 1] \in [1..MaxFence -> Nat]
      BY <2>2, <2>3, CountType
    <2>5. sent' = [sent EXCEPT ![e] = [sent[e] EXCEPT ![task[h].fence] = @ + 1]]
      BY <1>5 DEF Send
    <2>6. sent' \in [Effects -> [1..MaxFence -> Nat]] BY <2>2, <2>3, <2>4, <2>5
    <2> QED BY <1>5, <2>1, <2>6, Facts DEF Send, TypeOK, Goto, Step
  <1>6. CASE Finish(h)
    <2>1. e \in Effects /\ j \in Entry BY <1>0, <1>6 DEF Finish, Owing
    <2>2. [j EXCEPT !.finished = task[h].outcome] \in Entry BY <2>1, Facts DEF Entry
    <2>3. journal' \in [Hosts -> [Effects -> Entry]] BY <1>6, <2>1, <2>2, WriteType, Facts DEF Finish
    <2> QED BY <1>6, <2>3, Facts DEF Finish, TypeOK, Goto, Step
  <1>7. CASE Settle(h)
    <2>1. e \in Effects BY <1>0, <1>7 DEF Settle, Owing
    <2>2. db' \in [Effects -> Row] BY <1>7, <2>1, Facts DEF Settle, Settled, TypeOK, Row
    <2> QED BY <1>7, <2>2, Facts DEF Settle, TypeOK, Goto, Step
  <1>8. CASE SettleRefused(h) BY <1>8, EndRoundType, Facts DEF SettleRefused, TypeOK
  <1>9. CASE Record(h)
    <2>1. e \in Effects /\ j \in Entry BY <1>0, <1>9 DEF Record, Owing
    <2>2. [j EXCEPT !.settled = "agreed", !.outcome = task[h].outcome] \in Entry
      BY <2>1, Facts DEF Entry
    <2>3. journal' \in [Hosts -> [Effects -> Entry]] BY <1>9, <2>1, <2>2, WriteType, Facts DEF Record
    <2> QED BY <1>9, <2>3, EndRoundType, Facts DEF Record, TypeOK
  <1> QED BY <1>2, <1>3, <1>4, <1>5, <1>6, <1>7, <1>8, <1>9

\* Steps nobody's round takes: crashes, restarts, time and commands of users.
LEMMA OutsideType ==
  ASSUME HostInvariant,
         \/ \E h \in Hosts : Crash(h) \/ Restart(h)
         \/ \E e \in Effects : ExpireLease(e) \/ Withdraw(e)
  PROVE  TypeOK'
  <1>0. TypeOK BY DEF HostInvariant
  <1>1. ASSUME NEW h \in Hosts, Crash(h) PROVE TypeOK'
    <2>1. crashes' \in 0..MaxCrashes BY <1>0, <1>1, HostBoundAssumption DEF Crash, TypeOK
    <2> QED BY <1>0, <1>1, <2>1, Shapes DEF Crash, TypeOK, Goto, Step, NoTask
  <1>2. ASSUME NEW h \in Hosts, Restart(h) PROVE TypeOK'
    BY <1>0, <1>2 DEF Restart, TypeOK, Goto, Step
  <1>3. ASSUME NEW e \in Effects, ExpireLease(e) \/ Withdraw(e) PROVE TypeOK'
    <2>1. db[e] \in Row BY <1>0 DEF TypeOK
    <2>2. [db[e] EXCEPT !.live = FALSE] \in Row /\ [db[e] EXCEPT !.status = "cancelled"] \in Row
      BY <2>1 DEF Row
    <2>3. db' \in [Effects -> Row] BY <1>0, <1>3, <2>2 DEF ExpireLease, Withdraw, TypeOK
    <2> QED BY <1>0, <1>3, <2>3 DEF ExpireLease, Withdraw, TypeOK
  <1> QED BY <1>1, <1>2, <1>3

-----------------------------------------------------------------------------
(* Who is disturbed by a step. *)

\* Everything a step leaves to the other hosts.
OthersKept(h) ==
  \A k \in Hosts \ {h} :
    /\ pc'[k] = pc[k] /\ task'[k] = task[k] /\ todo'[k] = todo[k] /\ journal'[k] = journal[k]

\* A holder's fence was given out by the kernel.
LEMMA HeldFence ==
  ASSUME HostInvariant, NEW h \in Hosts, NEW e \in Effects, NEW f \in 1..MaxFence, Holds(h, e, f)
  PROVE  f <= db[e].fence
  BY HostBoundAssumption
     DEF HostInvariant, TypeOK, Row, Fence, EntryOK, HostOK, Holds, Owing

\* A step of one host that only changes its place, its notes and its journal.
LEMMA HostStep ==
  ASSUME HostInvariant, TypeOK', NEW h \in Hosts, UNCHANGED <<db, sent>>, OthersKept(h),
         \A e \in Effects : EntryOK(h, e)', HostOK(h)',
         \A e \in Effects, f \in 1..MaxFence : Holds(h, e, f)' => Holds(h, e, f)
  PROVE  HostInvariant'
  <1>1. \A e \in Effects : RowOK(e)' BY DEF HostInvariant, RowOK
  <1>2. \A k \in Hosts, e \in Effects : EntryOK(k, e)'
    BY DEF HostInvariant, EntryOK, OthersKept, Closed
  <1>3. \A k \in Hosts : HostOK(k)' BY DEF HostInvariant, HostOK, OthersKept, PreparedWithoutDispatch
  <1>4. \A k \in Hosts, e \in Effects, f \in 1..MaxFence : Holds(k, e, f)' => Holds(k, e, f)
    BY DEF OthersKept, Holds
  <1>5. OneHolder' BY <1>4 DEF HostInvariant, OneHolder
  <1> QED BY <1>1, <1>2, <1>3, <1>5 DEF HostInvariant

\* What no statement of the kernel does to a row: take a fence back, reopen a closed
\* effect, replace an outcome.
Advances(e) ==
  /\ db'[e].fence >= db[e].fence
  /\ db[e].status \in {"settled", "cancelled"} => db'[e].status = db[e].status
  /\ db[e].status = "settled" => db'[e].outcome = db[e].outcome

\* A statement of the kernel keeps what the journals and the hosts know.
LEMMA KernelKeeps ==
  ASSUME HostInvariant, TypeOK', UNCHANGED <<sent, journal>>, \A e \in Effects : Advances(e)
  PROVE  /\ \A k \in Hosts, e \in Effects : EntryOK(k, e)'
         /\ \A k \in Hosts : pc'[k] = pc[k] /\ task'[k] = task[k] /\ todo'[k] = todo[k]
              => HostOK(k)'
  <1>1. \A e \in Effects : db[e].fence \in Nat /\ db'[e].fence \in Nat
    BY HostBoundAssumption DEF HostInvariant, TypeOK, Row, Fence
  <1>2. ASSUME NEW k \in Hosts, NEW e \in Effects PROVE EntryOK(k, e)'
    <2>1. EntryOK(k, e) /\ Advances(e) BY DEF HostInvariant
    <2>2. journal[k][e].prepared \in Nat /\ journal[k][e].finished.fence \in Nat
      BY HostBoundAssumption DEF HostInvariant, TypeOK, Entry, Outcome, Fence
    <2> QED BY <1>1, <2>1, <2>2 DEF EntryOK, Advances, Closed
  <1>3. ASSUME NEW k \in Hosts, pc'[k] = pc[k], task'[k] = task[k], todo'[k] = todo[k]
        PROVE  HostOK(k)'
    <2>1. HostOK(k) BY DEF HostInvariant
    <2>2. task[k].fence \in Nat
      BY HostBoundAssumption DEF HostInvariant, TypeOK, Fence
    <2>3. pc[k] \in Working => Advances(task[k].effect) /\ db[task[k].effect].fence \in Nat
                                 /\ db'[task[k].effect].fence \in Nat
      BY <1>1, <2>1 DEF HostOK
    <2> QED BY <1>3, <2>1, <2>2, <2>3 DEF HostOK, Advances, Working, Owing, Sending,
                                          PreparedWithoutDispatch
  <1> QED BY <1>2, <1>3

\* A statement of the kernel a host issues; only a fresh fence finds a new holder.
LEMMA KernelStep ==
  ASSUME HostInvariant, TypeOK', NEW h \in Hosts, UNCHANGED <<sent, journal>>, OthersKept(h),
         \A e \in Effects : Advances(e) /\ RowOK(e)', HostOK(h)',
         \A e \in Effects, f \in 1..MaxFence :
           Holds(h, e, f)' => Holds(h, e, f) \/ f > db[e].fence
  PROVE  HostInvariant'
  <1>1. \A k \in Hosts, e \in Effects : EntryOK(k, e)' BY KernelKeeps
  <1>2. \A k \in Hosts : HostOK(k)' BY KernelKeeps DEF OthersKept
  <1>3. OneHolder'
    <2> SUFFICES ASSUME NEW k \in Hosts, NEW l \in Hosts, NEW e \in Effects, NEW f \in 1..MaxFence,
                        Holds(k, e, f)', Holds(l, e, f)'
                 PROVE  k = l
      BY DEF OneHolder
    <2>1. \A i \in Hosts \ {h} : Holds(i, e, f)' => Holds(i, e, f) BY DEF OthersKept, Holds
    <2>2. \A i \in Hosts : Holds(i, e, f) => ~(f > db[e].fence)
      <3>1. db[e].fence \in Nat BY HostBoundAssumption DEF HostInvariant, TypeOK, Row, Fence
      <3> QED BY <3>1, HeldFence
    <2>3. CASE k = h /\ l # h BY <2>1, <2>2, <2>3 DEF HostInvariant, OneHolder
    <2>4. CASE k # h /\ l = h BY <2>1, <2>2, <2>4 DEF HostInvariant, OneHolder
    <2>5. CASE k # h /\ l # h BY <2>1, <2>5 DEF HostInvariant, OneHolder
    <2> QED BY <2>3, <2>4, <2>5
  <1> QED BY <1>1, <1>2, <1>3 DEF HostInvariant

-----------------------------------------------------------------------------
(* Each step keeps the invariant. *)

\* No outcome of an execution is the empty one: its fence was claimed.
LEMMA RealOutcome ==
  ASSUME NEW o, o.fence >= 1
  PROVE  o # NoOutcome
  BY DEF NoOutcome

\* The host's own parts of the invariant.
LEMMA OwnParts ==
  ASSUME HostInvariant, NEW h \in Hosts
  PROVE  /\ TypeOK /\ HostOK(h)
         /\ \A e \in Effects : EntryOK(h, e) /\ RowOK(e)
  BY DEF HostInvariant

\* Steps that write nothing durable.
LEMMA LocalSafe ==
  ASSUME HostInvariant, TypeOK', NEW h \in Hosts,
         \/ BeginRound(h) \/ ResubmitRefused(h) \/ Reconciled(h)
         \/ (\E e \in Effects : ResumeReady(h, e) \/ ResumeClaimed(h, e) \/ ResumeSkipped(h, e))
         \/ Resumed(h) \/ Isolate(h) \/ PassOrphans(h) \/ Discover(h) \/ DiscoverNothing(h)
         \/ ClaimRefused(h) \/ Reread(h) \/ SettleRefused(h) \/ Crash(h) \/ Restart(h)
  PROVE  HostInvariant'
  <1> USE DEF Goto, Take, EndRound
  <1>1. UNCHANGED <<db, sent, journal>>
    BY DEF BeginRound, ResubmitRefused, Reconciled, ResumeReady, ResumeClaimed, ResumeSkipped,
           Resumed, Isolate, PassOrphans, Discover, DiscoverNothing, ClaimRefused, Reread,
           SettleRefused, Crash, Restart
  <1>2. OthersKept(h)
    BY OwnParts
       DEF BeginRound, ResubmitRefused, Reconciled, ResumeReady, ResumeClaimed, ResumeSkipped,
           Resumed, Isolate, PassOrphans, Discover, DiscoverNothing, ClaimRefused, Reread,
           SettleRefused, Crash, Restart, OthersKept, TypeOK
  <1>3. \A e \in Effects : EntryOK(h, e)' BY <1>1, OwnParts DEF EntryOK, Closed
  <1>4. HostOK(h)' /\ \A e \in Effects, f \in 1..MaxFence : Holds(h, e, f)' => Holds(h, e, f)
    <2> USE DEF Working, Owing, Sending, Repaying, HostOK, Holds
    <2>1. CASE BeginRound(h)
      BY <1>1, <2>1, OwnParts DEF BeginRound, TypeOK, PendingSettlements
    <2>2. CASE ResubmitRefused(h) BY <1>1, <2>2, OwnParts DEF ResubmitRefused, TypeOK
    <2>3. CASE Reconciled(h) BY <1>1, <2>3, OwnParts DEF Reconciled, TypeOK, PreparedWithoutDispatch
    <2>4. ASSUME NEW e \in Effects, ResumeReady(h, e)
          PROVE  HostOK(h)' /\ \A x \in Effects, f \in 1..MaxFence : Holds(h, x, f)' => Holds(h, x, f)
      BY <1>1, <2>4, OwnParts DEF ResumeReady, TypeOK
    <2>5. ASSUME NEW e \in Effects, ResumeClaimed(h, e)
          PROVE  HostOK(h)' /\ \A x \in Effects, f \in 1..MaxFence : Holds(h, x, f)' => Holds(h, x, f)
      <3>1. journal[h][e].prepared = db[e].fence /\ db[e].fence \in 1..db[e].fence
        BY <2>5, OwnParts, HostBoundAssumption DEF ResumeClaimed, RowOK, TypeOK, Row, Fence
      <3>2. sent[e][db[e].fence] = 0
        BY <2>5, <3>1, OwnParts DEF ResumeClaimed, PreparedWithoutDispatch, EntryOK
      <3> QED BY <1>1, <2>5, <3>1, <3>2, OwnParts DEF ResumeClaimed, TypeOK
    <2>6. ASSUME NEW e \in Effects, ResumeSkipped(h, e)
          PROVE  HostOK(h)' /\ \A x \in Effects, f \in 1..MaxFence : Holds(h, x, f)' => Holds(h, x, f)
      BY <1>1, <2>6, OwnParts DEF ResumeSkipped, TypeOK, PreparedWithoutDispatch
    <2>7. CASE Resumed(h) BY <1>1, <2>7, OwnParts DEF Resumed, TypeOK
    <2>8. CASE Isolate(h) BY <1>1, <2>8, OwnParts DEF Isolate, TypeOK
    <2>9. CASE PassOrphans(h) BY <1>1, <2>9, OwnParts DEF PassOrphans, TypeOK
    <2>10. CASE Discover(h)
      <3>1. PICK e \in Effects : Take(h, e, 0, NoOutcome) BY <2>10, Discovered
      <3> QED BY <1>1, <2>10, <3>1, OwnParts DEF Discover, TypeOK
    <2>11. CASE DiscoverNothing(h) BY <1>1, <2>11, OwnParts DEF DiscoverNothing, TypeOK
    <2>12. CASE ClaimRefused(h) BY <1>1, <2>12, OwnParts DEF ClaimRefused, TypeOK
    <2>13. CASE Reread(h) BY <1>1, <2>13, OwnParts DEF Reread, TypeOK
    <2>14. CASE SettleRefused(h) BY <1>1, <2>14, OwnParts DEF SettleRefused, TypeOK
    <2>15. CASE Crash(h) BY <1>1, <2>15, OwnParts DEF Crash, TypeOK
    <2>16. CASE Restart(h) BY <1>1, <2>16, OwnParts DEF Restart, TypeOK
    <2> QED BY <2>1, <2>2, <2>3, <2>4, <2>5, <2>6, <2>7, <2>8, <2>9, <2>10, <2>11, <2>12,
               <2>13, <2>14, <2>15, <2>16
  <1> QED BY <1>1, <1>2, <1>3, <1>4, HostStep

\* A verdict that is true of the row keeps the entry's part of the invariant.
LEMMA VerdictSafe ==
  ASSUME HostInvariant, UNCHANGED <<db, sent>>, NEW h \in Hosts, NEW e \in Effects,
         NEW v \in {"agreed", "conflict"}, NEW o \in Outcome, RecordSettlement(h, e, v, o),
         v = "agreed" => db[e].status = "settled" /\ db[e].outcome = o,
         v = "conflict" /\ e \in Business => Closed(e)
  PROVE  /\ \A y \in Effects : EntryOK(h, y)'
         /\ \A y \in Effects : /\ journal'[h][y].prepared = journal[h][y].prepared
                                /\ journal'[h][y].started = journal[h][y].started
                                /\ journal'[h][y].finished = journal[h][y].finished
         /\ \A y \in Effects \ {e} : journal'[h][y] = journal[h][y]
  <1>1. journal[h][e] \in Entry BY OwnParts DEF TypeOK
  <1>2. \A y \in Effects \ {e} : journal'[h][y] = journal[h][y]
    BY OwnParts DEF RecordSettlement, Write, TypeOK
  <1>3. journal'[h][e] = IF journal[h][e].settled = "no"
                         THEN [journal[h][e] EXCEPT !.settled = v, !.outcome = o]
                         ELSE journal[h][e]
    BY OwnParts DEF RecordSettlement, Write, TypeOK
  <1>4. /\ journal'[h][e].prepared = journal[h][e].prepared
        /\ journal'[h][e].started = journal[h][e].started
        /\ journal'[h][e].finished = journal[h][e].finished
        /\ \/ journal'[h][e] = journal[h][e]
           \/ journal'[h][e].settled = v /\ journal'[h][e].outcome = o
    BY <1>1, <1>3 DEF Entry
  <1>5. EntryOK(h, e)' BY <1>4, OwnParts DEF EntryOK, Closed
  <1>6. \A y \in Effects \ {e} : EntryOK(h, y)' BY <1>2, OwnParts DEF EntryOK, Closed
  <1> QED BY <1>2, <1>4, <1>5, <1>6

\* Steps that append to the journal.
LEMMA JournalSafe ==
  ASSUME HostInvariant, TypeOK', NEW h \in Hosts,
         \/ (\E e \in Effects : Reconcile(h, e) \/ ResumeClosed(h, e))
         \/ Rerecord(h) \/ Prepare(h) \/ PrepareWithoutIO(h) \/ Start(h) \/ Finish(h) \/ Record(h)
  PROVE  HostInvariant'
  <1> USE DEF Goto, Take, EndRound, Write
  <1>1. UNCHANGED <<db, sent>>
    BY DEF Reconcile, ResumeClosed, Rerecord, Prepare, PrepareWithoutIO, Start, Finish, Record
  <1>2. OthersKept(h)
    BY ZenonT(60), OwnParts
       DEF Reconcile, ResumeClosed, Rerecord, Prepare, PrepareWithoutIO, Start, Finish, Record,
           RecordSettlement, Prepared, OthersKept, TypeOK
  <1> DEFINE Own == /\ HostOK(h)' /\ \A e \in Effects : EntryOK(h, e)'
                    /\ \A e \in Effects, f \in 1..MaxFence : Holds(h, e, f)' => Holds(h, e, f)
  <1>0. PICK x : x = task[h].effect OBVIOUS
  <1>3. ASSUME NEW e \in Effects, Reconcile(h, e) PROVE Own
    <2> DEFINE o == journal[h][e].finished
    <2>1. o # NoOutcome /\ o.fence \in 1..db[e].fence
      BY <1>3, OwnParts DEF Reconcile, HostOK, Repaying, EntryOK
    <2>2. CASE db[e].status = "claimed" /\ db[e].fence = o.fence
      <3>1. /\ journal' = journal /\ pc' = [pc EXCEPT ![h] = "resubmit"]
            /\ task' = [task EXCEPT ![h] = [effect |-> e, fence |-> o.fence, outcome |-> o]]
            /\ todo' = [todo EXCEPT ![h] = @ \ {e}] /\ pc[h] = "reconcile"
        BY <1>3, <2>2 DEF Reconcile
      <3>2. HostOK(h)' BY <1>1, <3>1, OwnParts DEF HostOK, Working, Owing, Sending, Repaying, TypeOK
      <3>3. \A y \in Effects : EntryOK(h, y)' BY <1>1, <3>1, OwnParts DEF EntryOK, Closed
      <3> QED BY <3>1, <3>2, <3>3, <1>0, OwnParts DEF Holds, Sending, TypeOK
    <2>3. CASE ~(db[e].status = "claimed" /\ db[e].fence = o.fence)
      <3>1. /\ RecordSettlement(h, e, Verdict(e, o), o) /\ UNCHANGED <<pc, task>>
            /\ todo' = [todo EXCEPT ![h] = @ \ {e}] /\ pc[h] = "reconcile"
        BY <1>3, <2>3 DEF Reconcile
      <3>2. Verdict(e, o) \in {"agreed", "conflict"} /\ o \in Outcome
        BY OwnParts DEF Verdict, TypeOK, Entry
      <3>3. Verdict(e, o) = "agreed" => db[e].status = "settled" /\ db[e].outcome = o
        BY <2>1, OwnParts DEF Verdict, RowOK
      <3>4. e \in Business => Closed(e) \/ Verdict(e, o) = "agreed"
        <4>1. db[e].fence \in Nat /\ db[e].status \in {"ready", "claimed", "settled", "cancelled"}
          BY OwnParts, HostBoundAssumption DEF TypeOK, Row, Fence
        <4> QED BY <2>1, <2>3, <4>1, OwnParts DEF RowOK, Closed
      <3>5. /\ \A y \in Effects : EntryOK(h, y)'
            /\ \A y \in Effects : /\ journal'[h][y].prepared = journal[h][y].prepared
                                   /\ journal'[h][y].started = journal[h][y].started
                                   /\ journal'[h][y].finished = journal[h][y].finished
        <4> HIDE DEF o
        <4> QED BY <1>1, <3>1, <3>2, <3>3, <3>4, VerdictSafe
      <3>6. HostOK(h)'
        BY <1>1, <3>1, <3>5, OwnParts DEF HostOK, Working, Owing, Sending, Repaying, TypeOK
      <3> QED BY <3>1, <3>5, <3>6 DEF Holds
    <2> QED BY <2>2, <2>3
  <1>4. ASSUME NEW e \in Effects, ResumeClosed(h, e) PROVE Own
    <2>1. /\ RecordSettlement(h, e, "conflict", NoOutcome) /\ UNCHANGED <<pc, task>>
          /\ todo' = [todo EXCEPT ![h] = @ \ {e}] /\ pc[h] = "resume" /\ Closed(e)
      BY <1>4 DEF ResumeClosed
    <2>2. /\ \A y \in Effects : EntryOK(h, y)'
          /\ \A y \in Effects : /\ journal'[h][y].prepared = journal[h][y].prepared
                                 /\ journal'[h][y].started = journal[h][y].started
                                 /\ journal'[h][y].finished = journal[h][y].finished
          /\ \A y \in Effects \ {e} : journal'[h][y] = journal[h][y]
      BY <1>1, <2>1, Shapes, VerdictSafe
    <2>3. HostOK(h)'
      BY <1>1, <2>1, <2>2, OwnParts
         DEF HostOK, Working, Owing, Sending, Repaying, PreparedWithoutDispatch, TypeOK
    <2> QED BY <2>1, <2>2, <2>3 DEF Holds
  <1>5. ASSUME Rerecord(h) PROVE Own
    <2>1. /\ RecordSettlement(h, x, "agreed", task[h].outcome) /\ UNCHANGED <<task, todo>>
          /\ pc' = [pc EXCEPT ![h] = "reconcile"] /\ pc[h] = "rerecord"
      BY <1>0, <1>5 DEF Rerecord
    <2>2. x \in Effects /\ task[h].outcome \in Outcome /\ db[x].status = "settled"
          /\ db[x].outcome = task[h].outcome
      BY <1>0, <2>1, Facts, OwnParts DEF HostOK, Working
    <2>3. /\ \A y \in Effects : EntryOK(h, y)'
          /\ \A y \in Effects : /\ journal'[h][y].prepared = journal[h][y].prepared
                                 /\ journal'[h][y].started = journal[h][y].started
                                 /\ journal'[h][y].finished = journal[h][y].finished
      BY <1>1, <2>1, <2>2, VerdictSafe
    <2>4. HostOK(h)'
      <3>1. pc'[h] = "reconcile" /\ todo'[h] = todo[h] /\ todo[h] \subseteq Effects
        BY <2>1, OwnParts DEF TypeOK
      <3>2. \A y \in todo[h] : journal[h][y].finished # NoOutcome
        BY <2>1, OwnParts DEF HostOK, Repaying
      <3> QED BY <2>3, <3>1, <3>2 DEF HostOK, Working, Owing, Sending
    <2> QED BY <2>1, <2>3, <2>4, <1>0, OwnParts DEF Holds, TypeOK, Sending
  <1>6. ASSUME pc[h] \in Owing
        PROVE  /\ x \in Effects /\ journal[h][x] \in Entry /\ task[h].fence \in 1..db[x].fence
               /\ task[h].fence \in Nat /\ db[x].fence \in Nat /\ EntryOK(h, x)
    BY <1>0, <1>6, Facts, OwnParts, HostBoundAssumption DEF Working, TypeOK, Row, Fence
  <1>7. ASSUME Prepare(h) \/ PrepareWithoutIO(h) PROVE Own
    <2>1. pc[h] = "prepare" /\ Prepared(h) /\ UNCHANGED todo BY <1>7 DEF Prepare, PrepareWithoutIO
    <2>2. pc[h] \in Owing /\ pc[h] \in Sending BY <2>1 DEF Owing, Sending
    <2>3. \A y \in Effects \ {x} : journal'[h][y] = journal[h][y]
      BY <2>1, <1>0, OwnParts DEF Prepared, TypeOK
    <2>4. journal'[h][x] = [journal[h][x] EXCEPT !.prepared = IF @ = 0 THEN task[h].fence ELSE @]
      BY <1>6, <2>1, <2>2, <1>0, OwnParts DEF Prepared, TypeOK
    <2>5. /\ journal'[h][x].prepared = IF journal[h][x].prepared = 0 THEN task[h].fence
                                                                    ELSE journal[h][x].prepared
          /\ journal'[h][x].started = journal[h][x].started
          /\ journal'[h][x].finished = journal[h][x].finished
          /\ journal'[h][x].settled = journal[h][x].settled
          /\ journal'[h][x].outcome = journal[h][x].outcome
      BY <1>6, <2>2, <2>4 DEF Entry
    <2>6. sent[x][task[h].fence] = 0 BY <1>0, <2>2, OwnParts DEF HostOK
    <2>7. EntryOK(h, x)'
      BY SMTT(30), <1>0, <1>1, <1>6, <2>2, <2>5, <2>6 DEF EntryOK, Closed
    <2>8. \A y \in Effects : EntryOK(h, y)' BY <1>1, <2>3, <2>7, OwnParts DEF EntryOK, Closed
    <2>9. /\ pc'[h] \in {"start", "settle"} /\ task'[h].effect = x /\ task'[h].fence = task[h].fence
          /\ pc'[h] = "settle" => task'[h].outcome.fence = task'[h].fence
      BY <1>7, <1>0, OwnParts DEF Prepare, PrepareWithoutIO, TypeOK
    <2>10. HostOK(h)'
      BY <1>0, <1>1, <1>6, <2>1, <2>2, <2>6, <2>9 DEF HostOK, Working, Owing, Sending, Repaying
    <2>11. \A e \in Effects, f \in 1..MaxFence : Holds(h, e, f)' => Holds(h, e, f)
      BY <2>1, <2>2, <2>3, <2>5, <2>9, <1>0 DEF Holds, Sending
    <2> QED BY <2>8, <2>10, <2>11
  <1>8. ASSUME Start(h) PROVE Own
    <2>1. /\ pc[h] = "start" /\ pc' = [pc EXCEPT ![h] = "send"] /\ UNCHANGED <<task, todo>>
          /\ journal' = [journal EXCEPT ![h][x] = [journal[h][x] EXCEPT !.started = task[h].fence]]
      BY <1>0, <1>8 DEF Start
    <2>2. pc[h] \in Owing /\ pc[h] \in Sending BY <2>1 DEF Owing, Sending
    <2>3. \A y \in Effects \ {x} : journal'[h][y] = journal[h][y] BY <2>1, OwnParts DEF TypeOK
    <2>4. /\ journal'[h][x].prepared = journal[h][x].prepared
          /\ journal'[h][x].started = task[h].fence
          /\ journal'[h][x].finished = journal[h][x].finished
          /\ journal'[h][x].settled = journal[h][x].settled
          /\ journal'[h][x].outcome = journal[h][x].outcome
      BY <1>6, <2>1, <2>2, OwnParts DEF TypeOK, Entry
    <2>5. task[h].fence # 0 BY <1>6, <2>2
    <2>6. \A y \in Effects : EntryOK(h, y)' BY <1>1, <2>3, <2>4, <2>5, OwnParts DEF EntryOK, Closed
    <2>7. HostOK(h)'
      BY <1>0, <1>1, <1>6, <2>1, <2>2, <2>4, <2>5, OwnParts
         DEF HostOK, Working, Owing, Sending, Repaying, TypeOK
    <2>8. \A e \in Effects, f \in 1..MaxFence : Holds(h, e, f)' => Holds(h, e, f)
      BY <2>1, <2>2, <2>3, <2>4, <1>0, OwnParts DEF Holds, Sending, TypeOK
    <2> QED BY <2>6, <2>7, <2>8
  <1>9. ASSUME Finish(h) PROVE Own
    <2>1. /\ pc[h] = "finish" /\ pc' = [pc EXCEPT ![h] = "settle"] /\ UNCHANGED <<task, todo>>
          /\ journal' = [journal EXCEPT ![h][x] = [journal[h][x] EXCEPT !.finished = task[h].outcome]]
      BY <1>0, <1>9 DEF Finish
    <2>2. pc[h] \in Owing BY <2>1 DEF Owing
    <2>3. \A y \in Effects \ {x} : journal'[h][y] = journal[h][y] BY <2>1, OwnParts DEF TypeOK
    <2>4. /\ journal'[h][x].prepared = journal[h][x].prepared
          /\ journal'[h][x].started = journal[h][x].started
          /\ journal'[h][x].finished = task[h].outcome
          /\ journal'[h][x].settled = journal[h][x].settled
          /\ journal'[h][x].outcome = journal[h][x].outcome
      BY <1>6, <2>1, <2>2, OwnParts DEF TypeOK, Entry
    <2>5. task[h].outcome.fence = task[h].fence BY <1>0, <2>1, OwnParts DEF HostOK
    <2>6. \A y \in Effects : EntryOK(h, y)'
      BY SMTT(30), <1>0, <1>1, <1>6, <2>2, <2>3, <2>4, <2>5, OwnParts DEF EntryOK, Closed
    <2>7. HostOK(h)'
      BY <1>0, <1>1, <1>6, <2>1, <2>2, <2>5, OwnParts DEF HostOK, Working, Owing, Sending, Repaying, TypeOK
    <2>8. \A e \in Effects, f \in 1..MaxFence : Holds(h, e, f)' => Holds(h, e, f)
      BY <2>1, <2>3, <2>4, <1>0, OwnParts DEF Holds, Sending, TypeOK
    <2> QED BY <2>6, <2>7, <2>8
  <1>10. ASSUME Record(h) PROVE Own
    <2>1. /\ pc[h] = "record" /\ pc' = [pc EXCEPT ![h] = "idle"] /\ UNCHANGED todo
          /\ journal' = [journal EXCEPT ![h][x] =
               [journal[h][x] EXCEPT !.settled = "agreed", !.outcome = task[h].outcome]]
      BY <1>0, <1>10 DEF Record
    <2>2. pc[h] \in Owing BY <2>1 DEF Owing
    <2>3. \A y \in Effects \ {x} : journal'[h][y] = journal[h][y] BY <2>1, OwnParts DEF TypeOK
    <2>4. /\ journal'[h][x].prepared = journal[h][x].prepared
          /\ journal'[h][x].started = journal[h][x].started
          /\ journal'[h][x].finished = journal[h][x].finished
          /\ journal'[h][x].settled = "agreed"
          /\ journal'[h][x].outcome = task[h].outcome
      BY <1>6, <2>1, <2>2, OwnParts DEF TypeOK, Entry
    <2>5. db[x].status = "settled" /\ db[x].outcome = task[h].outcome
      BY <1>0, <2>1, OwnParts DEF HostOK
    <2>6. \A y \in Effects : EntryOK(h, y)'
      BY <1>1, <2>3, <2>4, <2>5, OwnParts DEF EntryOK, Closed
    <2>7. HostOK(h)' BY <1>0, <2>1, OwnParts DEF HostOK, Working, Owing, Sending, Repaying, TypeOK
    <2>8. \A e \in Effects, f \in 1..MaxFence : Holds(h, e, f)' => Holds(h, e, f)
      BY <2>1, <2>3, <2>4, <1>0, OwnParts DEF Holds, Sending, TypeOK
    <2> QED BY <2>6, <2>7, <2>8
  <1>11. Own BY <1>3, <1>4, <1>5, <1>7, <1>8, <1>9, <1>10
  <1> QED BY <1>1, <1>2, <1>11, HostStep

\* A receipt the kernel accepts.
LEMMA SettledAdvances ==
  ASSUME HostInvariant, NEW e \in Effects, NEW o \in Outcome, SettleAccepts(e, o), Settled(e, o)
  PROVE  /\ \A y \in Effects : Advances(y) /\ db'[y].fence = db[y].fence
         /\ \A y \in Effects : UNCHANGED sent => RowOK(y)'
         /\ db'[e].status = "settled" /\ db'[e].outcome = o
  <1>1. db[e] \in Row /\ RowOK(e) BY DEF HostInvariant, TypeOK
  <1>2. \A y \in Effects : db[y].fence \in Nat
    BY HostBoundAssumption DEF HostInvariant, TypeOK, Row, Fence
  <1>3. \A y \in Effects \ {e} : db'[y] = db[y] BY DEF HostInvariant, TypeOK, Settled
  <1>4. db'[e].status = "settled" /\ db'[e].outcome = o /\ db'[e].fence = db[e].fence
    BY <1>1 DEF HostInvariant, TypeOK, Settled, Row
  <1>5. o.fence = db[e].fence /\ (db[e].status = "settled" => o = db[e].outcome)
        /\ db[e].status # "cancelled"
    BY <1>1 DEF SettleAccepts, RowOK
  <1>6. \A y \in Effects : Advances(y) /\ db'[y].fence = db[y].fence
    BY <1>2, <1>3, <1>4, <1>5 DEF Advances
  <1>7. ASSUME NEW y \in Effects, UNCHANGED sent PROVE RowOK(y)'
    BY <1>1, <1>3, <1>4, <1>5, <1>7 DEF HostInvariant, RowOK
  <1> QED BY <1>4, <1>6, <1>7

\* Settling, now or again from the journal.
LEMMA SettlingSafe ==
  ASSUME HostInvariant, TypeOK', NEW h \in Hosts, Resubmit(h) \/ Settle(h)
  PROVE  HostInvariant'
  <1>0. PICK x : x = task[h].effect OBVIOUS
  <1>1. /\ UNCHANGED <<sent, journal, task, todo>> /\ SettleAccepts(x, task[h].outcome)
        /\ Settled(x, task[h].outcome) /\ x \in Effects /\ task[h].outcome \in Outcome
        /\ \/ pc[h] = "resubmit" /\ pc' = [pc EXCEPT ![h] = "rerecord"]
           \/ pc[h] = "settle" /\ pc' = [pc EXCEPT ![h] = "record"]
    BY <1>0, Facts DEF Resubmit, Settle, Goto, Working, Owing
  <1>2. /\ \A y \in Effects : Advances(y) /\ RowOK(y)' /\ db'[y].fence = db[y].fence
        /\ db'[x].status = "settled" /\ db'[x].outcome = task[h].outcome
    BY <1>1, SettledAdvances
  <1>3. OthersKept(h) BY <1>1, OwnParts DEF OthersKept, TypeOK
  <1>4. HostOK(h)'
    <2>1. pc'[h] = IF pc[h] = "resubmit" THEN "rerecord" ELSE "record" BY <1>1, OwnParts DEF TypeOK
    <2> QED BY <1>0, <1>1, <1>2, <2>1, OwnParts DEF HostOK, Working, Owing, Sending, Repaying
  <1>5. \A e \in Effects, f \in 1..MaxFence : Holds(h, e, f)' => Holds(h, e, f)
    BY <1>1, OwnParts DEF Holds, Sending, TypeOK
  <1> QED BY <1>1, <1>2, <1>3, <1>4, <1>5, KernelStep

\* Claiming: the one step that hands a fence out.
LEMMA ClaimSafe ==
  ASSUME HostInvariant, TypeOK', NEW h \in Hosts, Claim(h)
  PROVE  HostInvariant'
  <1>0. PICK x : x = task[h].effect OBVIOUS
  <1>1. /\ pc[h] = "claim" /\ pc' = [pc EXCEPT ![h] = "reread"] /\ Claims(x)
        /\ db' = [db EXCEPT ![x] = [@ EXCEPT !.status = "claimed", !.live = TRUE,
                                            !.fence = db[x].fence + 1]]
        /\ task' = [task EXCEPT ![h] =
                     [effect |-> x, fence |-> db[x].fence + 1, outcome |-> NoOutcome]]
        /\ UNCHANGED <<sent, journal, todo>> /\ x \in Effects
    BY <1>0, Facts DEF Claim, Goto, Take, Working
  <1>2. db[x] \in Row /\ db[x].fence \in Nat /\ db[x].fence < MaxFence /\ RowOK(x)
    BY <1>1, HostBoundAssumption DEF HostInvariant, TypeOK, Row, Fence, Claims
  <1>3. \A y \in Effects \ {x} : db'[y] = db[y] BY <1>1 DEF HostInvariant, TypeOK
  <1>4. /\ db'[x].status = "claimed" /\ db'[x].fence = db[x].fence + 1
        /\ db'[x].outcome = db[x].outcome
    BY <1>1, <1>2 DEF HostInvariant, TypeOK, Row
  <1>5. db[x].status = "ready" \/ (db[x].status = "claimed" /\ x \notin Business)
    BY <1>1, EffectAssumption DEF Claims, Expired
  <1>6. \A y \in Effects : Advances(y)
    <2>1. \A y \in Effects : db[y].fence \in Nat
      BY HostBoundAssumption DEF HostInvariant, TypeOK, Row, Fence
    <2> QED BY <1>2, <1>3, <1>4, <1>5, <2>1 DEF Advances
  <1>7. RowOK(x)' BY <1>1, <1>2, <1>4, <1>5, HostBoundAssumption DEF RowOK
  <1>8. \A y \in Effects : RowOK(y)' BY <1>1, <1>3, <1>7 DEF HostInvariant, RowOK
  <1>9. OthersKept(h) BY <1>1, OwnParts DEF OthersKept, TypeOK
  <1>10. pc'[h] = "reread" /\ task'[h].effect = x /\ task'[h].fence = db[x].fence + 1
    BY <1>1, OwnParts DEF TypeOK
  <1>11. db[x].fence + 1 \in 1..MaxFence /\ sent[x][db[x].fence + 1] = 0
    BY <1>2, HostBoundAssumption DEF RowOK
  <1>12. HostOK(h)'
    BY <1>1, <1>2, <1>4, <1>10, <1>11 DEF HostOK, Working, Owing, Sending, Repaying
  <1>13. \A e \in Effects, f \in 1..MaxFence :
           Holds(h, e, f)' => Holds(h, e, f) \/ f > db[e].fence
    BY <1>1, <1>2, <1>10 DEF Holds, Sending
  <1> QED BY <1>1, <1>6, <1>8, <1>9, <1>12, <1>13, KernelStep

\* The sweep closes or resets what expired; no fence moves.
LEMMA SweepSafe ==
  ASSUME HostInvariant, TypeOK', NEW h \in Hosts, NEW reset \in SUBSET Resources,
         SweepScope(h, reset)
  PROVE  HostInvariant'
  <1>1. /\ pc[h] = "sweep" /\ pc' = [pc EXCEPT ![h] = "discover"] /\ db' = Recovered(reset)
        /\ UNCHANGED <<sent, journal, task, todo>>
    BY DEF SweepScope, Goto
  <1>2. ASSUME NEW y \in Effects PROVE Advances(y) /\ RowOK(y)'
    <2>1. db[y] \in Row /\ db[y].fence \in Nat /\ RowOK(y)
      BY HostBoundAssumption DEF HostInvariant, TypeOK, Row, Fence
    <2>2. CASE y \notin Expired
      <3>1. db'[y] = db[y] BY <1>1, <2>2 DEF Recovered
      <3> QED BY <1>1, <2>1, <3>1 DEF Advances, RowOK
    <2>3. CASE y \in Expired /\ y \in reset
      <3>1. db'[y].status = "ready" /\ db'[y].fence = db[y].fence /\ db'[y].outcome = db[y].outcome
        BY <1>1, <2>1, <2>3 DEF Recovered, Row
      <3>2. y \notin Business /\ db[y].status = "claimed" BY <2>3, EffectAssumption DEF Expired
      <3> QED BY <1>1, <2>1, <3>1, <3>2 DEF Advances, RowOK
    <2>4. CASE y \in Expired /\ y \notin reset
      <3>1. /\ db'[y].status = "settled" /\ db'[y].fence = db[y].fence
            /\ db'[y].outcome.fence = db[y].fence
        BY <1>1, <2>1, <2>4 DEF Recovered, Row
      <3>2. db[y].status = "claimed" BY <2>4 DEF Expired
      <3> QED BY <1>1, <2>1, <3>1, <3>2 DEF Advances, RowOK
    <2> QED BY <2>2, <2>3, <2>4
  <1>3. OthersKept(h) BY <1>1, OwnParts DEF OthersKept, TypeOK
  <1>4. HostOK(h)' BY <1>1, OwnParts DEF HostOK, Working, Owing, Sending, Repaying, TypeOK
  <1>5. \A e \in Effects, f \in 1..MaxFence : Holds(h, e, f)' => Holds(h, e, f)
    BY <1>1, OwnParts DEF Holds, Sending, TypeOK
  <1> QED BY <1>1, <1>2, <1>3, <1>4, <1>5, KernelStep

\* The external call: the one step that counts a dispatch.
LEMMA SendSafe ==
  ASSUME HostInvariant, TypeOK', NEW h \in Hosts, Send(h)
  PROVE  HostInvariant'
  <1>0. PICK x, f : x = task[h].effect /\ f = task[h].fence OBVIOUS
  <1>1. PICK c \in Classes :
          /\ pc[h] = "send" /\ pc' = [pc EXCEPT ![h] = "finish"]
          /\ sent' = [sent EXCEPT ![x][f] = sent[x][f] + 1]
          /\ task' = [task EXCEPT ![h] =
                       [effect |-> x, fence |-> f, outcome |-> [class |-> c, fence |-> f]]]
          /\ UNCHANGED <<db, journal, todo>>
    BY <1>0 DEF Send, Goto, Take
  <1>2. /\ x \in Effects /\ db[x].fence \in Nat /\ db[x].fence <= MaxFence
        /\ f \in 1..db[x].fence /\ f \in 1..MaxFence
    BY <1>0, <1>1, Facts, HostBoundAssumption DEF Working, Owing, Sending, TypeOK, Row, Fence
  <1>3. sent[x][f] = 0 /\ journal[h][x].started # 0 BY <1>0, <1>1, OwnParts DEF HostOK, Sending
  <1>4. /\ \A y \in Effects \ {x} : sent'[y] = sent[y]
        /\ \A g \in 1..MaxFence : g # f => sent'[x][g] = sent[x][g]
        /\ sent'[x][f] = 1
    BY <1>1, <1>2, <1>3, OwnParts DEF TypeOK
  <1>5. \A y \in Effects : RowOK(y)'
    <2>1. RowOK(x)' BY <1>1, <1>2, <1>4, OwnParts DEF RowOK
    <2> QED BY <1>1, <1>4, <2>1, OwnParts DEF RowOK
  <1>6. Holds(h, x, f) BY <1>0, <1>1 DEF Holds, Sending
  <1>7. ASSUME NEW k \in Hosts, NEW y \in Effects PROVE EntryOK(k, y)'
    <2>1. EntryOK(k, y) /\ journal[k][y].prepared \in Fence
      BY DEF HostInvariant, TypeOK, Entry
    <2>2. CASE y = x /\ k # h
      <3>1. journal[k][x].prepared # f BY <1>2, <1>6, <2>2 DEF HostInvariant, OneHolder, Holds
      <3>2. journal[k][x].prepared = 0 \/ journal[k][x].prepared \in 1..MaxFence
        BY <2>1, <2>2, HostBoundAssumption DEF Fence
      <3> QED BY <1>1, <1>4, <2>1, <2>2, <3>1, <3>2 DEF EntryOK, Closed
    <2>3. CASE y = x /\ k = h BY <1>1, <1>3, <2>1, <2>3 DEF EntryOK, Closed
    <2>4. CASE y # x
      <3>1. sent'[y] = sent[y] BY <1>4, <2>4
      <3> QED BY <1>1, <2>1, <3>1 DEF EntryOK, Closed
    <2> QED BY <2>2, <2>3, <2>4
  <1>8. ASSUME NEW k \in Hosts PROVE HostOK(k)'
    <2>1. CASE k = h
      <3>1. /\ pc'[h] = "finish" /\ task'[h].effect = x /\ task'[h].fence = f
            /\ task'[h].outcome.fence = f
        BY <1>1, OwnParts DEF TypeOK
      <3> QED BY <1>1, <1>2, <2>1, <3>1 DEF HostOK, Working, Owing, Sending, Repaying
    <2>2. CASE k # h
      <3>1. pc'[k] = pc[k] /\ task'[k] = task[k] /\ HostOK(k)
        BY <1>1, <2>2 DEF HostInvariant, TypeOK
      <3>2. pc[k] \in Sending => sent'[task[k].effect][task[k].fence] = 0
        <4> SUFFICES ASSUME pc[k] \in Sending
                     PROVE  sent'[task[k].effect][task[k].fence] = 0
          OBVIOUS
        <4>1. /\ task[k].effect \in Effects /\ task[k].fence \in 1..MaxFence
              /\ sent[task[k].effect][task[k].fence] = 0
          BY Facts, <3>1, HostBoundAssumption DEF HostOK, Working, Owing, TypeOK, Row, Fence
        <4>2. ~(task[k].effect = x /\ task[k].fence = f)
          BY <1>2, <1>6, <2>2 DEF HostInvariant, OneHolder, Holds
        <4> QED BY <1>4, <4>1, <4>2
      <3> QED BY <1>1, <3>1, <3>2 DEF HostOK, PreparedWithoutDispatch
    <2> QED BY <2>1, <2>2
  <1>9. OneHolder'
    <2>1. \A k \in Hosts, y \in Effects, g \in 1..MaxFence : Holds(k, y, g)' => Holds(k, y, g)
      BY <1>1, OwnParts DEF Holds, Sending, TypeOK
    <2> QED BY <2>1 DEF HostInvariant, OneHolder
  <1> QED BY <1>5, <1>7, <1>8, <1>9 DEF HostInvariant

\* Time passes for a lease, or a user withdraws what nobody has claimed.
LEMMA RowMovesSafe ==
  ASSUME HostInvariant, TypeOK', NEW e \in Effects, ExpireLease(e) \/ Withdraw(e)
  PROVE  HostInvariant'
  <1>1. /\ UNCHANGED <<sent, journal, pc, task, todo>>
        /\ \/ db' = [db EXCEPT ![e].live = FALSE]
           \/ db[e].status = "ready" /\ db' = [db EXCEPT ![e].status = "cancelled"]
    BY DEF ExpireLease, Withdraw
  <1>2. ASSUME NEW y \in Effects PROVE Advances(y) /\ RowOK(y)'
    <2>1. db[y] \in Row /\ db[y].fence \in Nat /\ RowOK(y)
      BY HostBoundAssumption DEF HostInvariant, TypeOK, Row, Fence
    <2>2. /\ db'[y].fence = db[y].fence /\ db'[y].outcome = db[y].outcome
          /\ \/ db'[y].status = db[y].status
             \/ db[y].status = "ready" /\ db'[y].status = "cancelled"
      BY <1>1, <2>1 DEF HostInvariant, TypeOK, Row
    <2> QED BY <1>1, <2>1, <2>2 DEF Advances, RowOK
  <1>3. \A k \in Hosts, y \in Effects : EntryOK(k, y)' BY <1>1, <1>2, KernelKeeps
  <1>4. \A k \in Hosts : HostOK(k)' BY <1>1, <1>2, KernelKeeps
  <1>5. OneHolder' BY <1>1 DEF HostInvariant, OneHolder, Holds
  <1> QED BY <1>2, <1>3, <1>4, <1>5 DEF HostInvariant

-----------------------------------------------------------------------------
(* Every step is one the effect's life allows. *)

\* The moves of EffectLife, in terms of the kernel's rows.
LifeMove(e) ==
  \/ db'[e].status = db[e].status
  \/ db[e].status = "ready" /\ db'[e].status \in {"claimed", "cancelled"}
  \/ db[e].status = "claimed" /\ db'[e].status = "settled"
  \/ db[e].status = "claimed" /\ db'[e].status = "ready" /\ e \in Resources

Hand(e) == db[e].status # "claimed" /\ db'[e].status = "claimed"

\* A step moves each row along its life and hands out one effect at most.
LEMMA StepMoves ==
  ASSUME HostInvariant, HostInvariant', Next
  PROVE  /\ \A e \in Effects : LifeMove(e)
         /\ \A e, f \in Effects : Hand(e) /\ Hand(f) => e = f
  <1> DEFINE Legal == /\ \A e \in Effects : LifeMove(e)
                      /\ \A e, f \in Effects : Hand(e) /\ Hand(f) => e = f
  <1>1. CASE UNCHANGED db BY <1>1 DEF LifeMove, Hand
  <1>2. ASSUME NEW x, NEW o, SettleAccepts(x, o), Settled(x, o) PROVE Legal
    BY <1>2 DEF SettleAccepts, Settled, LifeMove, Hand, HostInvariant, TypeOK, Row
  <1>3. ASSUME NEW h \in Hosts, RunOnce(h) PROVE Legal
    <2>1. CASE Resubmit(h) \/ Settle(h) BY <1>2, <2>1 DEF Resubmit, Settle
    <2>2. ASSUME NEW reset \in SUBSET Resources, SweepScope(h, reset) PROVE Legal
      <3>1. db' = Recovered(reset) BY <2>2 DEF SweepScope
      <3>2. \A e \in Effects : db[e] \in Row BY DEF HostInvariant, TypeOK
      <3> QED BY <3>1, <3>2 DEF Recovered, Expired, LifeMove, Hand, Row
    <2>3. CASE Claim(h)
      <3>1. PICK x : /\ Claims(x)
                     /\ \A y \in Effects \ {x} : db'[y] = db[y]
                     /\ x \in Effects => db'[x].status = "claimed"
        BY <2>3 DEF Claim, HostInvariant, TypeOK, Row
      <3> QED BY <3>1 DEF Claims, Expired, LifeMove, Hand
    <2>4. UNCHANGED db \/ Resubmit(h) \/ Settle(h) \/ Claim(h)
            \/ \E reset \in SUBSET Resources : SweepScope(h, reset)
      BY <1>3
         DEF RunOnce, BeginRound, Reconcile, ResubmitRefused, Rerecord, Reconciled, ResumeReady,
             ResumeClaimed, ResumeSkipped, ResumeClosed, Resumed, Isolate, PassOrphans, Discover,
             DiscoverNothing, ClaimRefused, Reread, Prepare, PrepareWithoutIO, Start, Send,
             Finish, SettleRefused, Record
    <2> QED BY <1>1, <2>1, <2>2, <2>3, <2>4
  <1>4. ASSUME NEW h \in Hosts, Crash(h) \/ Restart(h) PROVE Legal
    BY <1>1, <1>4 DEF Crash, Restart
  <1>5. ASSUME NEW e \in Effects, ExpireLease(e) \/ Withdraw(e) PROVE Legal
    <2>1. \A y \in Effects \ {e} : db'[y] = db[y]
      BY <1>5 DEF ExpireLease, Withdraw, HostInvariant, TypeOK
    <2>2. db[e] \in Row BY DEF HostInvariant, TypeOK
    <2>3. \/ db'[e].status = db[e].status
          \/ db[e].status = "ready" /\ db'[e].status = "cancelled"
      BY <1>5, <2>2 DEF ExpireLease, Withdraw, HostInvariant, TypeOK, Row
    <2> QED BY <2>1, <2>3 DEF LifeMove, Hand
  <1> QED BY <1>3, <1>4, <1>5 DEF Next

-----------------------------------------------------------------------------
(* The theorems. *)

\* No step of a host, of time or of a user breaks the invariant.
LEMMA StepSafe ==
  ASSUME HostInvariant, [Next]_vars
  PROVE  HostInvariant'
  <1>1. ASSUME NEW h \in Hosts, RunOnce(h) PROVE HostInvariant'
    <2>1. TypeOK'
      BY <1>1, ResumingType, ClaimingType, ExecutingType DEF RunOnce
    <2> QED BY <1>1, <2>1, LocalSafe, JournalSafe, SettlingSafe, ClaimSafe, SweepSafe, SendSafe
            DEF RunOnce
  <1>2. ASSUME NEW h \in Hosts, Crash(h) \/ Restart(h) PROVE HostInvariant'
    BY <1>2, OutsideType, LocalSafe
  <1>3. ASSUME NEW e \in Effects, ExpireLease(e) \/ Withdraw(e) PROVE HostInvariant'
    BY <1>3, OutsideType, RowMovesSafe
  <1>4. CASE UNCHANGED vars
    BY <1>4
       DEF vars, HostInvariant, TypeOK, RowOK, EntryOK, HostOK, OneHolder, Holds, Closed,
           PreparedWithoutDispatch
  <1> QED BY <1>1, <1>2, <1>3, <1>4 DEF Next

\* A fresh installation.
LEMMA InitSafe ==
  ASSUME Init
  PROVE  HostInvariant
  <1>1. TypeOK BY Shapes, HostBoundAssumption DEF Init, TypeOK, Row, Step, NoTask, NoOutcome
  <1>2. \A e \in Effects : RowOK(e) BY HostBoundAssumption DEF Init, RowOK
  <1>3. \A h \in Hosts, e \in Effects : EntryOK(h, e) BY DEF Init, EntryOK, NoEntry
  <1>4. \A h \in Hosts : HostOK(h)
    BY DEF Init, HostOK, Working, Owing, Sending, Repaying
  <1>5. OneHolder BY DEF Init, OneHolder, Holds, NoEntry, Sending
  <1> QED BY <1>1, <1>2, <1>3, <1>4, <1>5 DEF HostInvariant

\* Every variable of the host worker keeps its shape, and journals, hosts and the
\* kernel's rows keep the relations the other theorems rest on.
THEOREM HostSafe == Spec => []HostInvariant
  <1>1. Init => HostInvariant BY InitSafe
  <1>2. HostInvariant /\ [Next]_vars => HostInvariant' BY StepSafe
  <1> QED BY <1>1, <1>2, PTL DEF Spec

\* Every variable of the host worker keeps its shape.
THEOREM HostTypeCorrect == Spec => []TypeOK
  <1>1. HostInvariant => TypeOK BY DEF HostInvariant
  <1> QED BY <1>1, HostSafe, PTL

\* The external call of a claim is made at most once, however many hosts crash, restart,
\* resume from their journals and take claims over; a business call at most once at all.
THEOREM CallsAtMostOnce == Spec => []DispatchedOnce
  <1>1. HostInvariant => DispatchedOnce
    <2> SUFFICES ASSUME HostInvariant, NEW e \in Effects
                 PROVE  /\ \A f \in 1..MaxFence : sent[e][f] <= 1
                        /\ e \in Business => Cardinality({f \in 1..MaxFence : sent[e][f] > 0}) <= 1
      BY DEF DispatchedOnce
    <2>1. RowOK(e) /\ db[e].fence \in Nat
      BY HostBoundAssumption DEF HostInvariant, TypeOK, Row, Fence
    <2>2. ASSUME e \in Business PROVE Cardinality({f \in 1..MaxFence : sent[e][f] > 0}) <= 1
      <3> DEFINE D == {f \in 1..MaxFence : sent[e][f] > 0}
      <3>1. D \subseteq {1} BY <2>1, <2>2, HostBoundAssumption DEF RowOK
      <3>2. D = {} \/ D = {1} BY <3>1
      <3>3. Cardinality({}) = 0 /\ Cardinality({1}) = 1 BY FS_EmptySet, FS_Singleton
      <3> QED BY <3>2, <3>3
    <2> QED BY <2>1, <2>2 DEF RowOK
  <1> QED BY <1>1, HostSafe, PTL

\* What a journal calls committed is what the database holds for ever; a receipt settles
\* only the claim it was made under; and the receipt of a business call stays a debt of
\* its journal while the claim is open.
THEOREM ReceiptsAreTrue == Spec => []ReceiptDiscipline
  <1>1. HostInvariant => ReceiptDiscipline
    <2> SUFFICES ASSUME HostInvariant PROVE ReceiptDiscipline OBVIOUS
    <2>1. JournalTruth BY DEF HostInvariant, EntryOK, JournalTruth
    <2>2. ReceiptFenced BY DEF HostInvariant, RowOK, ReceiptFenced
    <2>3. BusinessReceiptKept
      <3> SUFFICES ASSUME NEW h \in Hosts, NEW e \in Business, db[e].status = "claimed",
                          journal[h][e].finished.fence = db[e].fence
                   PROVE  e \in PendingSettlements(h)
        BY DEF BusinessReceiptKept
      <3>1. e \in Effects BY DEF Effects
      <3>2. EntryOK(h, e) /\ RowOK(e) /\ journal[h][e].settled \in {"no", "agreed", "conflict"}
        BY <3>1 DEF HostInvariant, TypeOK, Entry
      <3>3. journal[h][e].finished # NoOutcome BY <3>2 DEF RowOK, NoOutcome
      <3> QED BY <3>1, <3>2, <3>3 DEF EntryOK, PendingSettlements, Closed
    <2> QED BY <2>1, <2>2, <2>3 DEF ReceiptDiscipline
  <1> QED BY <1>1, HostSafe, PTL

\* Whatever hosts do, an effect gets one outcome for good, a business call is handed out
\* once, and nobody is handed two effects in one statement: the worker and its kernel
\* implement EffectLife.
THEOREM HostsImplementLife == Spec => ImplementsLife
  <1> DEFINE status == [e \in Effects |-> db[e].status]
  <1>1. Init => Life!Init BY DEF Init, Life!Init
  <1>2. HostInvariant /\ HostInvariant' /\ [Next]_vars => [Life!Next]_status
    <2> SUFFICES ASSUME HostInvariant, HostInvariant', [Next]_vars, ~ UNCHANGED status
                 PROVE  Life!Next
      OBVIOUS
    <2>1. Next BY DEF vars
    <2>2. \A e \in Effects : LifeMove(e) BY <2>1, StepMoves
    <2>3. \A e, f \in Effects : Hand(e) /\ Hand(f) => e = f BY <2>1, StepMoves
    <2>4. status' = [e \in Effects |-> db'[e].status] OBVIOUS
    <2>5. status' \in [Effects -> Life!Status]
      BY <2>4 DEF HostInvariant, TypeOK, Row, Life!Status
    <2>6. \A e \in Effects : status'[e] \in Life!Moves(e)
      BY <2>2, <2>4 DEF LifeMove, Life!Moves, HostInvariant, TypeOK, Row
    <2>7. \A e, f \in Effects : Life!HandedOut(e) /\ Life!HandedOut(f) => e = f
      BY <2>3, <2>4 DEF Hand, Life!HandedOut
    <2> QED BY <2>5, <2>6, <2>7 DEF Life!Next
  <1> QED BY <1>1, <1>2, HostSafe, PTL DEF Spec, ImplementsLife, Life!Spec

=============================================================================
