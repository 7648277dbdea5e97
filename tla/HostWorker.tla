----------------------------- MODULE HostWorker -----------------------------
(***************************************************************************)
(* The host worker of v24 (v24/host/worker.py, run_once) with its journal. *)
(* A host claims ready effects, performs the external call and settles the *)
(* receipt.  It keeps a write-ahead journal, may crash between any two     *)
(* durable steps and restarts from the journal alone.  Several hosts, each *)
(* with a journal of its own, may serve the same scope.                    *)
(*                                                                         *)
(* A step is one database call, one journal append or the external call.   *)
(* A journal append that follows a read and depends on nothing else is     *)
(* taken together with it: no other process looks at the journal.          *)
(***************************************************************************)
EXTENDS Integers, FiniteSets

CONSTANTS
  Hosts,       \* worker processes, one journal each
  Business,    \* effect ids of kind model_call and tool_call
  Resources,   \* effect ids of kind host_prepare, host_release, inspect_resource
  Classes,     \* receipt classes an execution may end with
  MaxFence,    \* bound: claims of one effect
  MaxCrashes   \* bound: crashes of all hosts together

Effects == Business \cup Resources

\* Discovery orders effects by id, so ids are numbers.
ASSUME EffectAssumption ==
  Business \subseteq Nat /\ Resources \subseteq Nat /\ Business \cap Resources = {}

ASSUME HostBoundAssumption ==
  MaxFence \in Nat \ {0} /\ MaxCrashes \in Nat /\ "recovered" \notin Classes

VARIABLES
  db,        \* what v24.host_effect shows of each effect
  sent,      \* external calls made, by effect and fence
  journal,   \* last record of each event type, by host and effect
  pc,        \* where each host is in run_once
  task,      \* the effect it works on, the claim's fence and the outcome
  todo,      \* journal entries the current loop has not visited
  crashes    \* crashes so far

vars == <<db, sent, journal, pc, task, todo, crashes>>

-----------------------------------------------------------------------------

Fence == 0..MaxFence
Outcome == [class : Classes \cup {"none", "recovered"}, fence : Fence]
NoOutcome == [class |-> "none", fence |-> 0]

Row == [status : {"ready", "claimed", "settled", "cancelled"},
        fence : Fence, live : BOOLEAN, outcome : Outcome]

\* settled is the verdict of settlement_committed: "agreed" when the database
\* holds the outcome, "conflict" when it does not.
Entry == [prepared : Fence, started : Fence, finished : Outcome,
          settled : {"no", "agreed", "conflict"}, outcome : Outcome]
NoEntry == [prepared |-> 0, started |-> 0, finished |-> NoOutcome,
            settled |-> "no", outcome |-> NoOutcome]

Step == {"down", "idle", "reconcile", "resubmit", "rerecord", "resume", "orphan",
         "sweep", "discover", "claim", "reread", "prepare", "start", "send",
         "finish", "settle", "record"}

NoTask == [effect |-> 0, fence |-> 0, outcome |-> NoOutcome]

Closed(e) == db[e].status \in {"settled", "cancelled"}

\* The journal's queries are keyed by the effect alone.
PendingSettlements(h) ==
  {e \in Effects : journal[h][e].finished # NoOutcome /\ journal[h][e].settled = "no"}

\* Mutation of PreparedWithoutDispatch: a started dispatch is resumed too.
PreparedWithoutFinish(h) ==
  {e \in Effects : journal[h][e].prepared # 0 /\ journal[h][e].settled = "no"
                     /\ journal[h][e].finished = NoOutcome}

PreparedWithoutDispatch(h) ==
  {e \in Effects : journal[h][e].prepared # 0 /\ journal[h][e].started = 0
                     /\ journal[h][e].settled = "no"}

UnfinishedDispatches(h) ==
  {e \in Effects : journal[h][e].started # 0 /\ journal[h][e].finished = NoOutcome}

Write(h, e, entry) == journal' = [journal EXCEPT ![h][e] = entry]

\* _record_settlement writes at most one verdict.
RecordSettlement(h, e, verdict, outcome) ==
  Write(h, e, IF journal[h][e].settled = "no"
              THEN [journal[h][e] EXCEPT !.settled = verdict, !.outcome = outcome]
              ELSE journal[h][e])

Goto(h, step) == pc' = [pc EXCEPT ![h] = step]
Take(h, e, fence, outcome) ==
  task' = [task EXCEPT ![h] = [effect |-> e, fence |-> fence, outcome |-> outcome]]

\* The round is over; the next one starts from the journal.
EndRound(h) ==
  /\ Goto(h, "idle")
  /\ task' = [task EXCEPT ![h] = NoTask]

-----------------------------------------------------------------------------
(* The kernel, as the host sees it. *)

\* A receipt needs the current claim token; a stored receipt may be repeated.
SettleAccepts(e, outcome) ==
  \/ db[e].status = "claimed" /\ db[e].fence = outcome.fence
  \/ db[e].status = "settled" /\ db[e].outcome = outcome

Settled(e, outcome) ==
  db' = [db EXCEPT ![e] = [@ EXCEPT !.status = "settled", !.live = FALSE,
                                    !.outcome = outcome]]

Expired == {e \in Effects : db[e].status = "claimed" /\ ~db[e].live}

\* Mutation of Recovered: the sweep advances the fence of what it puts back.
RecoveredAdvancing(reset) ==
  [e \in Effects |->
     IF e \in Expired /\ e \in reset
     THEN [db[e] EXCEPT !.status = "ready", !.fence = @ + 1] ELSE db[e]]

\* Business claims end unknown; a resource goes back to ready while its install
\* still waits for it, and ends unknown otherwise.
Recovered(reset) ==
  [e \in Effects |->
     IF e \notin Expired THEN db[e]
     ELSE IF e \in reset THEN [db[e] EXCEPT !.status = "ready"]
     ELSE [db[e] EXCEPT !.status = "settled",
                        !.outcome = [class |-> "recovered", fence |-> db[e].fence]]]

\* An expired resource claim may be taken over; a business claim never.
Claims(e) ==
  /\ db[e].fence < MaxFence
  /\ db[e].status = "ready" \/ (e \in Expired /\ e \in Resources)

ExpireLease(e) ==
  /\ db[e].status = "claimed" /\ db[e].live
  /\ db' = [db EXCEPT ![e].live = FALSE]
  /\ UNCHANGED <<sent, journal, pc, task, todo, crashes>>

\* Mutation of Withdraw: a cancel closes what a host has claimed as well.
WithdrawClaimed(e) ==
  /\ e \in Business /\ db[e].status \in {"ready", "claimed"}
  /\ db' = [db EXCEPT ![e].status = "cancelled"]
  /\ UNCHANGED <<sent, journal, pc, task, todo, crashes>>

\* A cancel or a steer archives a ready business effect.
Withdraw(e) ==
  /\ e \in Business /\ db[e].status = "ready"
  /\ db' = [db EXCEPT ![e].status = "cancelled"]
  /\ UNCHANGED <<sent, journal, pc, task, todo, crashes>>

-----------------------------------------------------------------------------
(* 1. Reconciliation of journaled outcomes. *)

BeginRound(h) ==
  /\ pc[h] = "idle" /\ Goto(h, "reconcile")
  /\ todo' = [todo EXCEPT ![h] = PendingSettlements(h)]
  /\ UNCHANGED <<db, sent, journal, task, crashes>>

\* Mutation of Verdict: any closed effect counts as this host's receipt.
VerdictTrusting(e, outcome) == IF db[e].status = "claimed" THEN "conflict" ELSE "agreed"

Verdict(e, outcome) ==
  IF db[e].status # "claimed" /\ db[e].outcome = outcome THEN "agreed" ELSE "conflict"

\* The claim is still ours: resubmit.  Otherwise the debt is closed with a verdict.
Reconcile(h, e) ==
  LET outcome == journal[h][e].finished
  IN /\ pc[h] = "reconcile" /\ e \in todo[h]
     /\ todo' = [todo EXCEPT ![h] = @ \ {e}]
     /\ IF db[e].status = "claimed" /\ db[e].fence = outcome.fence
        THEN /\ Goto(h, "resubmit") /\ Take(h, e, outcome.fence, outcome)
             /\ UNCHANGED journal
        ELSE /\ RecordSettlement(h, e, Verdict(e, outcome), outcome)
             /\ UNCHANGED <<pc, task>>
     /\ UNCHANGED <<db, sent, crashes>>

Resubmit(h) ==
  /\ pc[h] = "resubmit" /\ SettleAccepts(task[h].effect, task[h].outcome)
  /\ Settled(task[h].effect, task[h].outcome)
  /\ Goto(h, "rerecord")
  /\ UNCHANGED <<sent, journal, task, todo, crashes>>

\* A stale token, another receipt, or a receipt the kernel's checks reject.
ResubmitRefused(h) ==
  /\ pc[h] = "resubmit" /\ Goto(h, "reconcile")
  /\ UNCHANGED <<db, sent, journal, task, todo, crashes>>

Rerecord(h) ==
  /\ pc[h] = "rerecord" /\ Goto(h, "reconcile")
  /\ RecordSettlement(h, task[h].effect, "agreed", task[h].outcome)
  /\ UNCHANGED <<db, sent, task, todo, crashes>>

Reconciled(h) ==
  /\ pc[h] = "reconcile" /\ todo[h] = {} /\ Goto(h, "resume")
  /\ todo' = [todo EXCEPT ![h] = PreparedWithoutDispatch(h)]
  /\ UNCHANGED <<db, sent, journal, task, crashes>>

-----------------------------------------------------------------------------
(* Prepared effects that never reached their dispatch. *)

\* The effect went back to ready: claim it again.
ResumeReady(h, e) ==
  /\ pc[h] = "resume" /\ e \in todo[h] /\ db[e].status = "ready"
  /\ Goto(h, "claim") /\ Take(h, e, 0, NoOutcome)
  /\ todo' = [todo EXCEPT ![h] = {}]
  /\ UNCHANGED <<db, sent, journal, crashes>>

\* The original claim still has enough of its lease.
ResumeClaimed(h, e) ==
  /\ pc[h] = "resume" /\ e \in todo[h]
  /\ db[e].status = "claimed" /\ db[e].live /\ db[e].fence = journal[h][e].prepared
  /\ Goto(h, "prepare") /\ Take(h, e, db[e].fence, NoOutcome)
  /\ todo' = [todo EXCEPT ![h] = {}]
  /\ UNCHANGED <<db, sent, journal, crashes>>

\* A model call needs its timeout plus a margin; a resource any live lease.
ResumeSkipped(h, e) ==
  /\ pc[h] = "resume" /\ e \in todo[h] /\ db[e].status = "claimed"
  /\ db[e].live /\ db[e].fence = journal[h][e].prepared => e \in Business
  /\ todo' = [todo EXCEPT ![h] = @ \ {e}]
  /\ UNCHANGED <<db, sent, journal, pc, task, crashes>>

ResumeClosed(h, e) ==
  /\ pc[h] = "resume" /\ e \in todo[h] /\ Closed(e)
  /\ RecordSettlement(h, e, "conflict", NoOutcome)
  /\ todo' = [todo EXCEPT ![h] = @ \ {e}]
  /\ UNCHANGED <<db, sent, pc, task, crashes>>

Resumed(h) ==
  /\ pc[h] = "resume" /\ todo[h] = {} /\ Goto(h, "orphan")
  /\ UNCHANGED <<db, sent, journal, task, todo, crashes>>

-----------------------------------------------------------------------------
(* 2. and 3. Orphans and the recovery sweep. *)

\* Mutation of LiveOrphan: an orphan isolates the host until it is settled.
ClaimedOrphan(h) == \E e \in UnfinishedDispatches(h) : db[e].status = "claimed"

LiveOrphan(h) ==
  \E e \in UnfinishedDispatches(h) : db[e].status = "claimed" /\ db[e].live

\* A dispatch that may still be running is left alone until its lease ends.
Isolate(h) ==
  /\ pc[h] = "orphan" /\ LiveOrphan(h)
  /\ EndRound(h)
  /\ UNCHANGED <<db, sent, journal, todo, crashes>>

PassOrphans(h) ==
  /\ pc[h] = "orphan" /\ ~LiveOrphan(h)
  /\ Goto(h, IF Expired # {} THEN "sweep" ELSE "discover")
  /\ UNCHANGED <<db, sent, journal, task, todo, crashes>>

SweepScope(h, reset) ==
  /\ pc[h] = "sweep" /\ Goto(h, "discover")
  /\ db' = Recovered(reset)
  /\ UNCHANGED <<sent, journal, task, todo, crashes>>

-----------------------------------------------------------------------------
(* 4. Claim one effect and execute it. *)

First(S) == CHOOSE e \in S : \A x \in S : e <= x

Ready == {e \in Effects : db[e].status = "ready" /\ db[e].fence < MaxFence}

\* Host resources before business effects, then by id.
Discover(h) ==
  /\ pc[h] = "discover" /\ Ready # {} /\ Goto(h, "claim")
  /\ LET class == IF Ready \cap Resources # {} THEN Ready \cap Resources ELSE Ready
     IN Take(h, First(class), 0, NoOutcome)
  /\ UNCHANGED <<db, sent, journal, todo, crashes>>

DiscoverNothing(h) ==
  /\ pc[h] = "discover" /\ Ready = {}
  /\ EndRound(h)
  /\ UNCHANGED <<db, sent, journal, todo, crashes>>

Claim(h) ==
  LET e == task[h].effect
  IN /\ pc[h] = "claim" /\ Claims(e) /\ Goto(h, "reread")
     /\ db' = [db EXCEPT ![e] = [@ EXCEPT !.status = "claimed", !.live = TRUE,
                                          !.fence = db[e].fence + 1]]
     /\ Take(h, e, db[e].fence + 1, NoOutcome)
     /\ UNCHANGED <<sent, journal, todo, crashes>>

\* Deferred, stale or closed since it was discovered.
ClaimRefused(h) ==
  /\ pc[h] = "claim" /\ ~Claims(task[h].effect)
  /\ EndRound(h)
  /\ UNCHANGED <<db, sent, journal, todo, crashes>>

\* The committed claim is read back before anything else happens.
Reread(h) ==
  /\ pc[h] = "reread"
  /\ IF db[task[h].effect].status = "claimed" /\ db[task[h].effect].fence = task[h].fence
     THEN Goto(h, "prepare") /\ UNCHANGED task
     ELSE EndRound(h)
  /\ UNCHANGED <<db, sent, journal, todo, crashes>>

\* effect_prepared is written once, whatever the attempt.
Prepared(h) ==
  LET e == task[h].effect
  IN Write(h, e, [journal[h][e] EXCEPT !.prepared = IF @ = 0 THEN task[h].fence ELSE @])

Prepare(h) ==
  /\ pc[h] = "prepare" /\ Goto(h, "start") /\ Prepared(h)
  /\ UNCHANGED <<db, sent, task, todo, crashes>>

\* A missing adapter, pin or lease, or an unknown tool call: settled without I/O.
PrepareWithoutIO(h) ==
  /\ pc[h] = "prepare" /\ task[h].effect \in Business
  /\ Goto(h, "settle") /\ Prepared(h)
  /\ \E c \in Classes \ {"success"} :
       Take(h, task[h].effect, task[h].fence, [class |-> c, fence |-> task[h].fence])
  /\ UNCHANGED <<db, sent, todo, crashes>>

Start(h) ==
  /\ pc[h] = "start" /\ Goto(h, "send")
  /\ Write(h, task[h].effect,
           [journal[h][task[h].effect] EXCEPT !.started = task[h].fence])
  /\ UNCHANGED <<db, sent, task, todo, crashes>>

Send(h) ==
  /\ pc[h] = "send" /\ Goto(h, "finish")
  /\ sent' = [sent EXCEPT ![task[h].effect][task[h].fence] = @ + 1]
  /\ \E c \in Classes :
       Take(h, task[h].effect, task[h].fence, [class |-> c, fence |-> task[h].fence])
  /\ UNCHANGED <<db, journal, todo, crashes>>

Finish(h) ==
  /\ pc[h] = "finish" /\ Goto(h, "settle")
  /\ Write(h, task[h].effect,
           [journal[h][task[h].effect] EXCEPT !.finished = task[h].outcome])
  /\ UNCHANGED <<db, sent, task, todo, crashes>>

Settle(h) ==
  /\ pc[h] = "settle" /\ SettleAccepts(task[h].effect, task[h].outcome)
  /\ Settled(task[h].effect, task[h].outcome)
  /\ Goto(h, "record")
  /\ UNCHANGED <<sent, journal, task, todo, crashes>>

\* The journaled outcome stays pending for the next round.
SettleRefused(h) ==
  /\ pc[h] = "settle"
  /\ EndRound(h)
  /\ UNCHANGED <<db, sent, journal, todo, crashes>>

Record(h) ==
  /\ pc[h] = "record"
  /\ Write(h, task[h].effect, [journal[h][task[h].effect] EXCEPT
                                 !.settled = "agreed", !.outcome = task[h].outcome])
  /\ EndRound(h)
  /\ UNCHANGED <<db, sent, todo, crashes>>

-----------------------------------------------------------------------------
(* Crashes: everything but the journal and the database is lost. *)

Crash(h) ==
  /\ pc[h] # "down" /\ crashes < MaxCrashes
  /\ crashes' = crashes + 1
  /\ Goto(h, "down")
  /\ task' = [task EXCEPT ![h] = NoTask]
  /\ todo' = [todo EXCEPT ![h] = {}]
  /\ UNCHANGED <<db, sent, journal>>

Restart(h) ==
  /\ pc[h] = "down" /\ Goto(h, "idle")
  /\ UNCHANGED <<db, sent, journal, task, todo, crashes>>

-----------------------------------------------------------------------------

Init ==
  /\ db = [e \in Effects |-> [status |-> "ready", fence |-> 0, live |-> FALSE,
                              outcome |-> NoOutcome]]
  /\ sent = [e \in Effects |-> [f \in 1..MaxFence |-> 0]]
  /\ journal = [h \in Hosts |-> [e \in Effects |-> NoEntry]]
  /\ pc = [h \in Hosts |-> "idle"]
  /\ task = [h \in Hosts |-> NoTask]
  /\ todo = [h \in Hosts |-> {}]
  /\ crashes = 0

RunOnce(h) ==
  \/ BeginRound(h)
  \/ \E e \in Effects : Reconcile(h, e)
  \/ Resubmit(h)
  \/ ResubmitRefused(h)
  \/ Rerecord(h)
  \/ Reconciled(h)
  \/ \E e \in Effects : ResumeReady(h, e)
  \/ \E e \in Effects : ResumeClaimed(h, e)
  \/ \E e \in Effects : ResumeSkipped(h, e)
  \/ \E e \in Effects : ResumeClosed(h, e)
  \/ Resumed(h)
  \/ Isolate(h)
  \/ PassOrphans(h)
  \/ \E reset \in SUBSET Resources : SweepScope(h, reset)
  \/ Discover(h)
  \/ DiscoverNothing(h)
  \/ Claim(h)
  \/ ClaimRefused(h)
  \/ Reread(h)
  \/ Prepare(h)
  \/ PrepareWithoutIO(h)
  \/ Start(h)
  \/ Send(h)
  \/ Finish(h)
  \/ Settle(h)
  \/ SettleRefused(h)
  \/ Record(h)

Next ==
  \/ \E h \in Hosts : RunOnce(h)
  \/ \E h \in Hosts : Crash(h)
  \/ \E h \in Hosts : Restart(h)
  \/ \E e \in Effects : ExpireLease(e)
  \/ \E e \in Effects : Withdraw(e)

Spec == Init /\ [][Next]_vars

\* The driver calls run_once in a loop, a crashed host is started again and
\* time passes.
Fairness ==
  /\ \A h \in Hosts : WF_vars(RunOnce(h)) /\ WF_vars(Restart(h))
  /\ \A e \in Effects : WF_vars(ExpireLease(e))

FairSpec == Spec /\ Fairness

-----------------------------------------------------------------------------
(* Properties. *)

\* Every variable has its shape, and a host is at a place it can be in.
TypeOK ==
  /\ db \in [Effects -> Row]
  /\ sent \in [Effects -> [1..MaxFence -> Nat]]
  /\ journal \in [Hosts -> [Effects -> Entry]]
  /\ pc \in [Hosts -> Step]
  /\ task \in [Hosts -> [effect : Effects \cup {0}, fence : Fence, outcome : Outcome]]
  /\ todo \in [Hosts -> SUBSET Effects]
  /\ crashes \in 0..MaxCrashes

\* The external call of a claim is made at most once, however hosts crash,
\* restart, resume and take over; a business call is made at most once at all.
DispatchedOnce ==
  \A e \in Effects :
    /\ \A f \in 1..MaxFence : sent[e][f] <= 1
    /\ e \in Business => Cardinality({f \in 1..MaxFence : sent[e][f] > 0}) <= 1

\* What a journal calls committed is what the database holds, for ever.
JournalTruth ==
  \A h \in Hosts, e \in Effects : journal[h][e].settled = "agreed" =>
    db[e].status = "settled" /\ db[e].outcome = journal[h][e].outcome

\* A receipt belongs to the claim it settles: a host that lost its claim to
\* another host or to an earlier restart cannot settle for the new owner.
ReceiptFenced ==
  \A e \in Effects : db[e].status = "settled" => db[e].outcome.fence = db[e].fence

\* The receipt of a business dispatch stays a debt as long as its claim is open.
BusinessReceiptKept ==
  \A h \in Hosts, e \in Business :
    db[e].status = "claimed" /\ journal[h][e].finished.fence = db[e].fence
      => e \in PendingSettlements(h)

\* Journal and database agree about receipts: none is called committed that the database
\* does not hold, none settles somebody else's claim, and none is forgotten while its
\* claim is open.
ReceiptDiscipline == JournalTruth /\ ReceiptFenced /\ BusinessReceiptKept

\* Every business effect is closed in the end, whichever step its host dies in.
BusinessSettles == \A e \in Business : <>Closed(e)

\* A journaled debt is paid in the end or closed with a conflict.
DebtsCleared ==
  \A h \in Hosts, e \in Effects :
    e \in PendingSettlements(h) ~> e \notin PendingSettlements(h)

\* Neither the kernel nor a journal is left with work that nobody finishes.
WorkEnds == BusinessSettles /\ DebtsCleared

-----------------------------------------------------------------------------
(* The hosts keep the promise EffectLife makes of an effect. *)

Life == INSTANCE EffectLife WITH
  Repeatable <- Resources,
  status <- [e \in Effects |-> db[e].status]

\* However hosts crash, take over and repeat receipts, an effect gets one outcome, and
\* only a resource effect is handed out again.
ImplementsLife == Life!Spec

=============================================================================
