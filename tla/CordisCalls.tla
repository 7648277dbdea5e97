----------------------------- MODULE CordisCalls -----------------------------
(***************************************************************************)
(* A run of Cordis and the executors that make its external calls.         *)
(*                                                                         *)
(* The activation of a chat episode emits run_start.  Its settlement opens *)
(* the run with the steps of a request from the source; a model call       *)
(* that settles ends the run or emits a batch of tool calls, the last tool *)
(* call that settles emits the next model call, and each settlement costs  *)
(* a step.  An executor claims an effect, calls the handler with no        *)
(* transaction open, writes the receipt into its journal, settles, and     *)
(* only then removes the receipt.  It may crash between any two of these   *)
(* steps, and lose any answer; a pass first replays what its journal holds.*)
(*                                                                         *)
(* An advance of the kernel is one transaction, so a claim or a settlement *)
(* is one step.  The removal of a receipt from the journal is one step     *)
(* with the settlement it follows: what makes it removable never changes   *)
(* back, and a crash between the two is SettleLost.                        *)
(*                                                                         *)
(* The source is a directory that executors share without a lock: a        *)
(* request in the inbox is bound to the run_start in several steps, which  *)
(* those of another executor and of whoever fills the inbox may follow in  *)
(* any order.  The file of a binding is written beside its place and then  *)
(* moved there, and the look-up finds it in both.                          *)
(*                                                                         *)
(* The pins of the run hold its providers (module Cordis has the release), *)
(* so that a receipt is never refused for a dependency.  succeeded and     *)
(* failed are one status here, settled; the receipt tells them apart.      *)
(***************************************************************************)
EXTENDS Naturals, FiniteSets

CONSTANTS
    Hosts,          \* executors, each with its journal
    Teams,          \* the executors that run: one, or also another that overlaps it
    Steps,          \* step counts that a request may ask for; 1..64 in the code
    MaxTools,       \* tool calls of one answer of the model; 16 in the code
    MaxFaults,      \* bound of a team: crashes, lost answers and receipts, invalid or late answers
    Leaving         \* bound: the teams while which the owner may leave; all of them in the code

ASSUME CallsAssumption ==
    /\ Steps \subseteq Nat \ {0}
    /\ IsFiniteSet(Steps)
    /\ Steps # {}
    /\ MaxTools \in Nat \ {0}
    /\ Teams \subseteq (SUBSET Hosts) \ {{}}
    /\ MaxFaults \in [Teams -> Nat]
    /\ Leaving \subseteq Teams

MaxSteps == CHOOSE s \in Steps : \A t \in Steps : t <= s

\* run_start, then at most one effect for each step.
Effects == 1..(MaxSteps + 1)

Start == 1

VARIABLES
    contracts,  \* which calls may be repeated and concurrent: start's, those of all the bindings
    effects,    \* effects[e]: kind, status, fence, whether the lease runs, the batch, the receipt
    run,        \* its phase and the steps that remain
    owner,      \* the episode that owns the run: active, closing or closed
    source,     \* requests: in the inbox, in h's unfinished binding tmp[h], in the binding; 0 if none
    journal,    \* journal[h]: the receipts that host h keeps
    host,       \* the pass of each executor, where it is in the source, and the call it is at
    faults      \* how many of the MaxFaults have happened
vars == <<contracts, effects, run, owner, source, journal, host, faults>>

kernel == <<effects, run>>

NoReceipt == [effect |-> 0, fence |-> 0, what |-> "none", n |-> 0]

Absent == [kind |-> "none", status |-> "none", fence |-> 0, leased |-> FALSE, batch |-> 0,
           outcome |-> NoReceipt]

Ready(kind, batch) == [Absent EXCEPT !.kind = kind, !.status = "ready", !.batch = batch]

Rest == [step |-> "rest", n |-> 0]

\* A pass begins with the receipts of the journal.
NewPass(h) ==
    [part |-> "replay", seen |-> {}, todo |-> journal[h], rows |-> {}, bind |-> Rest,
     work |-> NoReceipt]

Off ==
    [part |-> "off", seen |-> {}, todo |-> {}, rows |-> {}, bind |-> Rest, work |-> NoReceipt]

Team == {h \in Hosts : host[h].part # "off"}

\* The episode has just become active (run_start_successor).
Init ==
    /\ contracts \in [start : BOOLEAN, bindings : BOOLEAN]
    /\ effects = [e \in Effects |-> IF e = Start THEN Ready("run_start", 0) ELSE Absent]
    /\ run = [phase |-> "none", steps |-> 0]
    /\ owner = "active"
    /\ source = [inbox |-> 0, tmp |-> [h \in Hosts |-> 0], bound |-> 0]
    /\ journal = [h \in Hosts |-> {}]
    /\ \E team \in Teams : host = [h \in Hosts |-> IF h \in team THEN NewPass(h) ELSE Off]
    /\ faults = 0

Fault == faults < MaxFaults[Team] /\ faults' = faults + 1

-----------------------------------------------------------------------------
(* The run loop of the kernel. *)

Open(e) == effects[e].status \in {"ready", "claimed"}
Terminal(e) == effects[e].status \in {"settled", "unknown"}
UnknownInRun == \E e \in Effects : effects[e].status = "unknown"

\* Tool calls of the same batch that have no outcome yet.
LiveSiblings(e) ==
    {f \in Effects \ {e} :
        effects[f].kind = "tool_call" /\ effects[f].batch = effects[e].batch /\ Open(f)}

Used == {e \in Effects : effects[e].kind # "none"}

\* The next n effects that will be emitted.
Fresh(n) == {e \in Effects : Cardinality(Used) < e /\ e <= Cardinality(Used) + n}

\* The effects after e has the outcome r and n effects of a kind are emitted by it.
Outcome(r, status, kind, n) ==
    effects' = [e \in Effects |->
        IF e = r.effect
        THEN [effects[e] EXCEPT !.status = status, !.leased = FALSE, !.outcome = r]
        ELSE IF e \in Fresh(n) THEN Ready(kind, r.effect) ELSE effects[e]]

\* A run_start opens the run, unless it failed, the owner leaves or a call may not be repeated.
SettleStart(r) ==
    IF r.what = "success" /\ owner = "active" /\ contracts.bindings
    THEN run' = [phase |-> "model", steps |-> r.n] /\ Outcome(r, "settled", "model_call", 1)
    ELSE run' = [run EXCEPT !.phase = "refused"] /\ Outcome(r, "settled", "none", 0)

Seal(r) ==
    /\ run' = [phase |-> "sealed", steps |-> run.steps - 1]
    /\ Outcome(r, "settled", "none", 0)

\* A failure and a final answer seal the run, and so does a batch that the steps do not cover.
SettleModel(r) ==
    LET left == run.steps - 1 IN
    IF r.what # "tools" \/ left = 0 \/ r.n > left
    THEN Seal(r)
    ELSE run' = [phase |-> "tools", steps |-> left] /\ Outcome(r, "settled", "tool_call", r.n)

\* Mutant: the call of a sibling is forgotten when the next model call is emitted.
SettleToolAlone(r) ==
    LET left == run.steps - 1 IN
    IF UnknownInRun
    THEN run' = [run EXCEPT !.steps = left] /\ Outcome(r, "settled", "none", 0)
    ELSE IF left = 0
    THEN Seal(r)
    ELSE run' = [phase |-> "model", steps |-> left] /\ Outcome(r, "settled", "model_call", 1)

\* The batch is awaited; a call with an unknown outcome stops the run where it is.
SettleTool(r) ==
    LET left == run.steps - 1 IN
    IF LiveSiblings(r.effect) # {} \/ UnknownInRun
    THEN run' = [run EXCEPT !.steps = left] /\ Outcome(r, "settled", "none", 0)
    ELSE IF left = 0
    THEN Seal(r)
    ELSE run' = [phase |-> "model", steps |-> left] /\ Outcome(r, "settled", "model_call", 1)

\* Errors of run_settle_facts and of the reducer: the receipt is not publishable now.
Refused(r) ==
    \/ r.what = "invalid"
    \/ /\ effects[r.effect].kind # "run_start"
       /\ \/ run.phase = "sealed"
          \/ r.what # "unknown" /\ run.steps < 1
          \/ effects[r.effect].kind = "tool_call" /\ r.what # "unknown" /\ run.phase # "tools"

\* What the kernel answers to the receipt r; the first that applies.
Reply(r) ==
    CASE Terminal(r.effect) /\ effects[r.effect].outcome = r -> "replay"
      [] Terminal(r.effect) /\ effects[r.effect].outcome # r -> "receipt_conflict"
      [] effects[r.effect].status = "ready" -> "stale_claim"
      [] effects[r.effect].status = "claimed" /\ effects[r.effect].fence # r.fence -> "stale_claim"
      [] effects[r.effect].status = "claimed" /\ effects[r.effect].fence = r.fence
            -> IF Refused(r) THEN "error" ELSE "committed"

\* Settlement through advance.
Settle(r) ==
    IF Reply(r) # "committed" THEN UNCHANGED kernel
    ELSE IF r.what = "unknown"
    THEN run' = run /\ Outcome(r, "unknown", "none", 0)
    ELSE CASE effects[r.effect].kind = "run_start" -> SettleStart(r)
           [] effects[r.effect].kind = "model_call" -> SettleModel(r)
           [] effects[r.effect].kind = "tool_call" -> SettleTool(r)

Repeats(e) == IF e = Start THEN contracts.start ELSE contracts.bindings

\* Mutant: an expired claim is not handed out again.
ClaimableReady(e) == (e # Start => ~UnknownInRun) /\ effects[e].status = "ready"

\* A claim is refused while an outcome of the run is unknown, or a lease runs;
\* one that expired is claimed again if the contract allows to repeat the call.
Claimable(e) ==
    /\ e # Start => ~UnknownInRun
    /\ \/ effects[e].status = "ready"
       \/ effects[e].status = "claimed" /\ ~effects[e].leased /\ Repeats(e)

ClaimEffect(e) ==
    /\ Claimable(e)
    /\ effects' = [effects EXCEPT ![e].status = "claimed", ![e].fence = @ + 1, ![e].leased = TRUE]
    /\ run' = run

-----------------------------------------------------------------------------
(* Surroundings. *)

\* Somebody puts a request for this run_start into the inbox, or another over it.
Provide(s) ==
    /\ source.inbox # s
    /\ source' = [source EXCEPT !.inbox = s]
    /\ UNCHANGED <<contracts, effects, run, owner, journal, host, faults>>

\* The owner is turned off, loses a provider or its own owner.
OwnerLeaves ==
    /\ owner = "active"
    /\ Team \in Leaving
    /\ owner' = "closing"
    /\ UNCHANGED <<contracts, effects, run, source, journal, host, faults>>

\* A closing episode waits for its calls and its run; an unknown outcome blocks it.
OwnerCloses ==
    /\ owner = "closing"
    /\ \A e \in Effects : ~Open(e)
    /\ ~UnknownInRun
    /\ run.phase \notin {"model", "tools"}
    /\ owner' = "closed"
    /\ UNCHANGED <<contracts, effects, run, source, journal, host, faults>>

Worked(e) == \E h \in Hosts : host[h].work.effect = e /\ host[h].work.fence = effects[e].fence

\* The lease of a claim that nobody works on ends; of one that is worked on only by a fault.
Expire(e) ==
    /\ effects[e].status = "claimed"
    /\ effects[e].leased
    /\ IF Worked(e) THEN Fault ELSE UNCHANGED faults
    /\ effects' = [effects EXCEPT ![e].leased = FALSE]
    /\ UNCHANGED <<contracts, run, owner, source, journal, host>>

-----------------------------------------------------------------------------
(* A pass of an executor. *)

Busy(h) == host[h].work # NoReceipt

\* Mutant: a receipt that the kernel would not take is dropped as well.
FiledAll(h, r) == journal' = [journal EXCEPT ![h] = @ \ {r}]

\* committed and replay confirm the receipt, stale_claim and receipt_conflict put it
\* aside; any other error keeps it.
Filed(h, r) ==
    IF Reply(r) = "error" THEN UNCHANGED journal ELSE journal' = [journal EXCEPT ![h] = @ \ {r}]

\* The answer of the kernel arrives, or it is lost, whether or not the kernel was reached.
Publish(h, r) ==
    \/ Settle(r) /\ Filed(h, r) /\ UNCHANGED faults
    \/ (Settle(r) \/ UNCHANGED kernel) /\ Fault /\ UNCHANGED journal

\* reconcile_journal: the receipts are offered again, with the tokens they were made with.
Replay(h) ==
    \E r \in host[h].todo :
        /\ host[h].part = "replay"
        /\ host' = [host EXCEPT ![h].todo = @ \ {r}, ![h].seen = @ \cup {r.effect}]
        /\ Publish(h, r)
        /\ UNCHANGED <<contracts, owner, source>>

\* The page of external effects; one that was replayed is not handled in this pass.
ReadPage(h) ==
    /\ host[h].part = "replay"
    /\ host[h].todo = {}
    /\ host' = [host EXCEPT ![h].part = "serve", ![h].seen = {},
                            ![h].rows = {e \in Effects : Open(e)} \ host[h].seen]
    /\ UNCHANGED <<contracts, effects, run, owner, source, journal, faults>>

\* The files that a look-up takes for the binding, and the request that the one of them has.
Bindings ==
    {<<"tmp", h>> : h \in {g \in Hosts : source.tmp[g] # 0}} \cup
        (IF source.bound # 0 THEN {<<"bound">>} ELSE {})

Twice == \E a, b \in Bindings : a # b

Requests == ({source.tmp[h] : h \in Hosts} \cup {source.bound}) \ {0}

Free(h) == host[h].part = "serve" /\ ~Busy(h)
At(h, step) == Free(h) /\ Start \in host[h].rows /\ host[h].bind.step = step

Binds(h, step, n) == host' = [host EXCEPT ![h].bind = [step |-> step, n |-> n]]

\* The row of e is not handled any more in this pass.
Drops(h, e) == host' = [host EXCEPT ![h].rows = @ \ {e}, ![h].bind = Rest]

\* resolve: the binding is looked up; two of them are refused.
LookUp(h) ==
    /\ At(h, "rest")
    /\ \/ Bindings = {} /\ Binds(h, "looked", 0)
       \/ Bindings # {} /\ ~Twice /\ Binds(h, "resolved", 0)
       \/ Twice /\ Drops(h, Start)
    /\ UNCHANGED <<contracts, effects, run, owner, source, journal, faults>>

\* Without a binding a request is read from the inbox.
ReadInbox(h) ==
    /\ At(h, "looked")
    /\ IF source.inbox = 0 THEN Drops(h, Start) ELSE Binds(h, "read", source.inbox)
    /\ UNCHANGED <<contracts, effects, run, owner, source, journal, faults>>

\* _write_binding: a binding that has appeared is kept; the request must be the same.
TestBinding(h) ==
    /\ At(h, "read")
    /\ CASE source.bound = 0 -> Binds(h, "free", host[h].bind.n)
         [] source.bound = host[h].bind.n -> Binds(h, "written", 0)
         [] source.bound \notin {0, host[h].bind.n} -> Drops(h, Start)
    /\ UNCHANGED <<contracts, effects, run, owner, source, journal, faults>>

\* atomic_write, first half: the file is complete but not in its place.
WriteBinding(h) ==
    /\ At(h, "free")
    /\ source' = [source EXCEPT !.tmp[h] = host[h].bind.n]
    /\ Binds(h, "made", host[h].bind.n)
    /\ UNCHANGED <<contracts, effects, run, owner, journal, faults>>

\* Second half: it replaces what is in its place by now.
MoveBinding(h) ==
    /\ At(h, "made")
    /\ source' = [source EXCEPT !.tmp[h] = 0, !.bound = source.tmp[h]]
    /\ Binds(h, "written", 0)
    /\ UNCHANGED <<contracts, effects, run, owner, journal, faults>>

\* The inbox is emptied, whatever request it has by now.
Unlink(h) ==
    /\ At(h, "written")
    /\ source' = [source EXCEPT !.inbox = 0]
    /\ Binds(h, "resolved", 0)
    /\ UNCHANGED <<contracts, effects, run, owner, journal, faults>>

Resolve(h) ==
    \/ LookUp(h) \/ ReadInbox(h) \/ TestBinding(h)
    \/ WriteBinding(h) \/ MoveBinding(h) \/ Unlink(h)

\* A run_start is claimed with a binding, another effect without one.
Sourced(h, e) == host[h].bind.step = IF e = Start THEN "resolved" ELSE "rest"

\* A row that has changed since the page was read, or is refused.
Skip(h) ==
    \E e \in host[h].rows :
        /\ Free(h)
        /\ Sourced(h, e)
        /\ ~Claimable(e)
        /\ Drops(h, e)
        /\ UNCHANGED <<contracts, effects, run, owner, source, journal, faults>>

\* The claim is committed and the handler is called; or the token never arrives.
Claim(h) ==
    \E e \in host[h].rows :
        /\ Free(h)
        /\ Sourced(h, e)
        /\ ClaimEffect(e)
        /\ \/ /\ UNCHANGED faults
              /\ host' = [host EXCEPT ![h].rows = @ \ {e}, ![h].bind = Rest,
                     ![h].work = [effect |-> e, fence |-> effects'[e].fence, what |-> "none", n |-> 0]]
           \/ /\ Fault
              /\ Drops(h, e)
        /\ UNCHANGED <<contracts, owner, source, journal>>

\* What a handler may answer; the request of a run_start is the n that was looked up.
Answers(kind, n) ==
    CASE kind = "run_start" -> {<<"success", n>>, <<"failure", 0>>, <<"invalid", 0>>}
      [] kind = "model_call" -> {<<"final", 0>>, <<"failure", 0>>, <<"unknown", 0>>, <<"invalid", 0>>}
                                \cup {<<"tools", k>> : k \in 1..MaxTools}
      [] kind = "tool_call" -> {<<"success", 0>>, <<"unknown", 0>>, <<"invalid", 0>>}

Calling(h) == Busy(h) /\ host[h].work.what = "none"

\* Before the handler of a run_start is called its binding is looked up once more.
Unread(h) == Calling(h) /\ host[h].work.effect = Start /\ host[h].work.n = 0

\* If there are two by now the effect stays claimed.
Reread(h) ==
    /\ Unread(h)
    /\ IF Twice
       THEN host' = [host EXCEPT ![h].work = NoReceipt]
       ELSE \E n \in Requests : host' = [host EXCEPT ![h].work.n = n]
    /\ UNCHANGED <<contracts, effects, run, owner, source, journal, faults>>

\* The handler answers and the receipt is on disk.
Answer(h) ==
    /\ Calling(h) /\ ~Unread(h)
    /\ \E a \in Answers(effects[host[h].work.effect].kind, host[h].work.n) :
        /\ IF a[1] = "invalid" THEN Fault ELSE UNCHANGED faults
        /\ host' = [host EXCEPT ![h].work = [host[h].work EXCEPT !.what = a[1], !.n = a[2]]]
        /\ journal' = [journal EXCEPT ![h] = @ \cup {host'[h].work}]
    /\ UNCHANGED <<contracts, effects, run, owner, source>>

\* The handler raises, or has no receipt, or the journal cannot be written: the effect
\* stays claimed.
NoAnswer(h) ==
    /\ Calling(h)
    /\ Fault
    /\ host' = [host EXCEPT ![h].work = NoReceipt]
    /\ UNCHANGED <<contracts, effects, run, owner, source, journal>>

SettleWork(h) ==
    /\ Busy(h)
    /\ ~Calling(h)
    /\ host' = [host EXCEPT ![h].work = NoReceipt]
    /\ Publish(h, host[h].work)
    /\ UNCHANGED <<contracts, owner, source>>

EndPass(h) ==
    /\ Free(h)
    /\ host[h].rows = {}
    /\ host' = [host EXCEPT ![h] = NewPass(h)]
    /\ UNCHANGED <<contracts, effects, run, owner, source, journal, faults>>

\* Memory is lost; the executor that is started next begins a pass.
Crash(h) ==
    /\ h \in Team
    /\ host[h] # NewPass(h)
    /\ Fault
    /\ host' = [host EXCEPT ![h] = NewPass(h)]
    /\ UNCHANGED <<contracts, effects, run, owner, source, journal>>

\* What an executor does when nothing stops it.
Work(h) ==
    \/ Replay(h) \/ ReadPage(h)
    \/ Resolve(h) \/ Skip(h)
    \/ Claim(h) \/ Reread(h) \/ Answer(h) \/ NoAnswer(h) \/ SettleWork(h)
    \/ EndPass(h)

-----------------------------------------------------------------------------
Next ==
    \/ \E s \in Steps : Provide(s)
    \/ OwnerLeaves
    \/ OwnerCloses
    \/ \E e \in Effects : Expire(e)
    \/ \E h \in Hosts : Work(h) \/ Crash(h)

Spec == Init /\ [][Next]_vars

\* Executors are started again and keep making passes; a lease that nobody renews runs out.
FairSpec ==
    /\ Spec
    /\ \A h \in Hosts : WF_vars(Work(h))
    /\ \A e \in Effects : WF_vars(~Worked(e) /\ Expire(e))
-----------------------------------------------------------------------------
Receipts ==
    [effect : Effects \cup {0}, fence : Nat,
     what : {"none", "success", "failure", "final", "tools", "unknown", "invalid"}, n : Nat]

(* Type invariant: what the columns, the journals and a pass hold.         *)
TypeOK ==
    /\ contracts \in [start : BOOLEAN, bindings : BOOLEAN]
    /\ effects \in [Effects -> [kind : {"none", "run_start", "model_call", "tool_call"},
                        status : {"none", "ready", "claimed", "settled", "unknown"}, fence : Nat,
                        leased : BOOLEAN, batch : Effects \cup {0}, outcome : Receipts]]
    /\ run \in [phase : {"none", "refused", "model", "tools", "sealed"}, steps : 0..MaxSteps]
    /\ owner \in {"active", "closing", "closed"}
    /\ source \in [inbox : Steps \cup {0}, tmp : [Hosts -> Steps \cup {0}], bound : Steps \cup {0}]
    /\ \A h \in Hosts :
           /\ journal[h] \subseteq Receipts
           /\ host[h].part \in {"off", "replay", "serve"}
           /\ host[h].seen \cup host[h].rows \subseteq Effects
           /\ host[h].todo \subseteq journal[h]
           /\ host[h].bind.n \in Steps \cup {0}
           /\ host[h].work \in Receipts
           /\ Busy(h) => host[h].part = "serve"
    /\ Team \in Teams
    /\ faults \in 0..MaxFaults[Team]

OfKind(kind) == {e \in Effects : effects[e].kind = kind /\ (Open(e) \/ effects[e].status = "unknown")}

(* Every settlement is applied once, whoever offers its receipt and        *)
(* however often: the steps that are left and the calls that settled add   *)
(* up to the request.  A run that is open has exactly the work of its      *)
(* phase outstanding, one model call or some of a batch; one that ended,   *)
(* was refused or has a closed owner has none.                             *)
RunLedger ==
    /\ run.phase \in {"model", "tools", "sealed"} =>
           run.steps + Cardinality({e \in Effects \ {Start} : effects[e].status = "settled"})
               = effects[Start].outcome.n
    /\ run.phase = "model" =>
           Cardinality(OfKind("model_call")) = 1 /\ OfKind("tool_call") = {}
    /\ run.phase = "tools" =>
           /\ OfKind("model_call") = {}
           /\ OfKind("tool_call") # {}
           /\ \A e, f \in OfKind("tool_call") : effects[e].batch = effects[f].batch
    /\ run.phase \in {"refused", "sealed"} \/ owner = "closed" =>
           \A e \in Effects : effects[e].status \in {"none", "settled"}

(* A handler is not called again by an executor that still keeps a receipt *)
(* of the effect, across crashes and lost answers; an effect is handed out *)
(* again only if its contract allows it, and its outcome is of the last    *)
(* token.                                                                  *)
ReceiptOnce ==
    /\ \A h \in Hosts : Calling(h) => \A r \in journal[h] : r.effect # host[h].work.effect
    /\ \A e \in Effects :
           /\ effects[e].fence > 1 => Repeats(e)
           /\ Terminal(e) => effects[e].outcome.fence = effects[e].fence

(* While one executor runs, a run_start that was ever claimed has one      *)
(* binding, and its calls, receipts and outcome all carry the request of   *)
(* it, whatever the executor crashes at and whatever is put into the inbox *)
(* then.  Two executors may replace a binding that one of them has used.   *)
OneRequest ==
    \A h \in Hosts : Team = {h} /\ effects[Start].fence > 0 =>
        /\ Bindings # {} /\ ~Twice
        /\ \A r \in journal[h] \cup {host[h].work, effects[Start].outcome} :
               r.effect = Start /\ r.n # 0 => r.n \in Requests

\* What every claim, settlement and pass preserves.
CallsSafe == TypeOK /\ RunLedger /\ ReceiptOnce /\ OneRequest

(* A receipt leaves a journal only when it cannot be needed any more: the  *)
(* effect has an outcome, or was handed out again.                         *)
ReceiptKept ==
    [][\A h \in Hosts : \A r \in journal[h] \ journal'[h] :
           Terminal(r.effect)' \/ effects'[r.effect].fence > r.fence]_vars

\* Nobody has asked for a run, it has two bindings, an outcome is unknown, a run_start that
\* may not be repeated has no receipt that the kernel takes, or no executor has one.
Stuck ==
    \/ source.inbox = 0 /\ Bindings = {}
    \/ Twice
    \/ UnknownInRun
    \/ /\ effects[Start].status = "claimed"
       /\ ~Repeats(Start)
       /\ \A h \in Hosts : \A r \in journal[h] : r.effect = Start => r.what = "invalid"
    \/ \E e \in Effects : \A h \in Team : \E r \in journal[h] : r.effect = e /\ r.what = "invalid"

(* Whatever crashes and is lost, the run is refused or ends, unless it is  *)
(* stuck for one of the reasons that the code leaves to an operator.       *)
RunEnds == <>[](run.phase \in {"refused", "sealed"} \/ Stuck)
=============================================================================
