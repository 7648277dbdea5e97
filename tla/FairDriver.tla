----------------------------- MODULE FairDriver -----------------------------
(***************************************************************************)
(* The multi-scope driver of the v24 host worker (run_scopes_until_idle in *)
(* v24/host/worker.py).  One process visits the scopes of a fixed roster   *)
(* in turn.  A visit pays journaled debts, resumes at most one prepared    *)
(* effect, sweeps expired claims and gives at most one ready effect a      *)
(* claim.  Cursors and streaks live in the process and survive an          *)
(* invocation that raises, not a crash.                                    *)
(*                                                                         *)
(* HostWorker has the journal's durable steps one by one; here an execution *)
(* is one step, and a crash inside it leaves any prefix of its records.    *)
(***************************************************************************)
EXTENDS Integers, Sequences, SequencesExt, FiniteSets

CONSTANTS
  Scopes,      \* scope ids, ordered as the roster sorts them
  HostKind,    \* effect slots of kind host_prepare, host_release, inspect_resource
  Business,    \* effect slots of kind model_call and tool_call
  ScopeOf,     \* the scope of each slot
  Manual,      \* slots whose effects have replay policy manual
  Recurring,   \* slots that receive a new effect once the last one is done with
  Poison,      \* slots whose claim the kernel refuses as invalid, ready or not
  Rosters,     \* sets of scopes an invocation is called with
  MaxRounds,   \* max_rounds: visits of one invocation
  Burst,       \* host opportunities in a row while business waits: 3
  SweepLimit,  \* effects one recovery command takes: 16
  MaxFence,    \* bound: claims of one effect
  MaxRivals,   \* bound: claims of other hosts
  MaxFaults    \* bound: exceptions and crashes

Effects == HostKind \cup Business

ASSUME RosterAssumption ==
  /\ Scopes \subseteq Nat /\ IsFiniteSet(Scopes)
  /\ ScopeOf \in [Effects -> Scopes] /\ HostKind \cap Business = {}

ASSUME DriverBoundAssumption ==
  /\ Manual \subseteq Effects /\ Recurring \subseteq Effects /\ Poison \subseteq Effects
  /\ Rosters \subseteq SUBSET Scopes /\ {} \notin Rosters
  /\ {MaxRounds, Burst, SweepLimit, MaxFence} \subseteq Nat \ {0}
  /\ {MaxRivals, MaxFaults} \subseteq Nat

VARIABLES
  db,       \* what v24.host_effect shows of the effect in each slot
  queue,    \* slots by (created_at, effect_id) of their effects
  journal,  \* prepared, started, finished (as fences of 0) and settled
  order,    \* slots by the sequence number of their first journal record
  mem,      \* what the process keeps between invocations
  call,     \* what one invocation keeps
  visit,    \* what one visit keeps
  pc,       \* where the driver is
  rivals, faults,
  burst, lag  \* history: see HostBurst and ScopeTurn

vars == <<db, queue, journal, order, mem, call, visit, pc, rivals, faults, burst, lag>>
kernel == <<db, queue, rivals>>
books == <<journal, order>>
history == <<burst, lag>>

-----------------------------------------------------------------------------

Fence == 0..MaxFence
NoRow == [status |-> "absent", fence |-> 0, live |-> FALSE, rival |-> FALSE]
Fresh == [NoRow EXCEPT !.status = "ready"]
NoEntry == [prepared |-> 0, started |-> 0, finished |-> 0, settled |-> FALSE]

Class(e) == IF e \in HostKind THEN "host" ELSE "business"
In(s) == {e \in Effects : ScopeOf[e] = s}
Open(e) == db[e].status \in {"ready", "claimed"}
Owned(e, fence) == db[e].status = "claimed" /\ db[e].fence = fence
LeaseOver(e) == db[e].status = "claimed" /\ ~db[e].live

\* A new process: no cursor, no streak.
ColdStart ==
  [after |-> 0, streak |-> [s \in Scopes |-> 0], anchor |-> [s \in Scopes |-> 0],
   behind |-> [s \in Scopes |-> [k \in {"host", "business"} |-> {}]]]

NoCall == [roster |-> {}, attempted |-> {}, visited |-> {}, pending |-> {},
           progress |-> FALSE, rounds |-> 0, since |-> {}, stop |-> "none"]

NoVisit == [scope |-> 0, todo |-> {}, found |-> {}, expired |-> FALSE,
            more |-> FALSE, progress |-> FALSE, fresh |-> FALSE, reread |-> FALSE, effect |-> 0, fence |-> 0]

Goto(step) == pc' = step
Position(s, e) == CHOOSE i \in 1..Len(s) : s[i] = e
Before(s, e) == IF Position(s, e) = 1 THEN 0 ELSE s[Position(s, e) - 1]
Without(s, e) == IF e \in Range(s) THEN RemoveAt(s, Position(s, e)) ELSE s
FirstOf(s, S) == s[CHOOSE i \in 1..Len(s) : s[i] \in S /\ \A j \in 1..(i - 1) : s[j] \notin S]

\* The three journal queries are keyed by the effect alone.
Pending == {e \in Effects : journal[e].finished # 0 /\ ~journal[e].settled}
Resumable == {e \in Effects : journal[e].prepared # 0 /\ journal[e].started = 0
                                /\ journal[e].finished = 0 /\ ~journal[e].settled}
Unfinished == {e \in Effects : journal[e].started # 0 /\ journal[e].finished = 0
                                 /\ ~journal[e].settled}
JournalIds == {e \in Effects : journal[e].prepared # 0 /\ ~journal[e].settled}

\* An unfinished dispatch whose effect is closed is written off as a conflict.
CloseOrphans(S) ==
  [e \in Effects |-> IF e \in S \cap Unfinished /\ db[e].status = "closed"
                     THEN [journal[e] EXCEPT !.settled = TRUE] ELSE journal[e]]

-----------------------------------------------------------------------------
(* Invocations. *)

\* Mutation of NextScope: every invocation starts at the head of the roster.
NextScopeFirst(roster, after) == CHOOSE s \in roster : \A t \in roster : s <= t

NextScope(roster, after) ==
  LET later == {s \in roster : s > after}
      S == IF later # {} THEN later ELSE roster
  IN CHOOSE s \in S : \A t \in S : s <= t

\* Cursors of scopes outside the roster are forgotten.
Pruned(roster) ==
  [mem EXCEPT !.streak = [s \in Scopes |-> IF s \in roster THEN @[s] ELSE 0],
              !.anchor = [s \in Scopes |-> IF s \in roster THEN @[s] ELSE 0],
              !.behind = [s \in Scopes |-> IF s \in roster THEN @[s]
                                           ELSE ColdStart.behind[s]]]

\* A debt outside the roster makes the invocation fail before it does anything.
Begin(roster) ==
  /\ pc = "off" /\ roster \in Rosters
  /\ \A e \in JournalIds : ScopeOf[e] \in roster
  /\ journal' = CloseOrphans(Effects)
  /\ mem' = Pruned(roster)
  /\ call' = [NoCall EXCEPT !.roster = roster, !.since = {e \in Effects : Open(e)}]
  /\ lag' = [s \in Scopes |-> IF s \in roster THEN lag[s] ELSE 0]
  /\ burst' = [s \in Scopes |-> IF s \in roster THEN burst[s] ELSE 0]
  /\ Goto("next")
  /\ UNCHANGED <<kernel, order, visit, faults>>

\* The turn is taken before the visit, which may raise.
StartVisit ==
  LET s == NextScope(call.roster, mem.after)
  IN /\ pc = "next" /\ call.rounds < MaxRounds /\ Goto("reconcile")
     /\ mem' = [mem EXCEPT !.after = s]
     /\ call' = [call EXCEPT !.rounds = @ + 1]
     /\ visit' = [NoVisit EXCEPT !.scope = s, !.todo = Pending \cap In(s)]
     /\ lag' = [t \in Scopes |-> IF t = s \/ t \notin call.roster THEN 0 ELSE lag[t] + 1]
     /\ UNCHANGED <<kernel, books, faults, burst>>

\* The sets of an invocation end with it; its verdict is kept.
Ended(reason) ==
  [NoCall EXCEPT !.roster = call.roster, !.since = call.since, !.stop = reason]

Stop(reason) ==
  /\ Goto("off")
  /\ call' = Ended(reason)
  /\ visit' = NoVisit

BudgetExhausted ==
  /\ pc = "next" /\ call.rounds = MaxRounds /\ Stop("budget_exhausted")
  /\ UNCHANGED <<kernel, books, mem, faults, history>>

-----------------------------------------------------------------------------
(* A visit. *)

\* The claim is still ours: the outcome is resubmitted, and may be refused.
Reconcile(e) ==
  /\ pc = "reconcile" /\ e \in visit.todo
  /\ \/ /\ Owned(e, journal[e].finished)
        /\ db' = [db EXCEPT ![e].status = "closed", ![e].live = FALSE]
        /\ journal' = [journal EXCEPT ![e].settled = TRUE]
        /\ visit' = [visit EXCEPT !.todo = @ \ {e}, !.progress = TRUE]
     \/ /\ Owned(e, journal[e].finished)
        /\ visit' = [visit EXCEPT !.todo = @ \ {e}]
        /\ UNCHANGED <<db, journal>>
     \/ /\ ~Owned(e, journal[e].finished)
        /\ journal' = [journal EXCEPT ![e].settled = TRUE]
        /\ visit' = [visit EXCEPT !.todo = @ \ {e}, !.progress = TRUE]
        /\ UNCHANGED db
  /\ UNCHANGED <<queue, rivals, order, mem, call, pc, faults, history>>

Reconciled ==
  /\ pc = "reconcile" /\ visit.todo = {} /\ Goto("orphan1")
  /\ UNCHANGED <<kernel, books, mem, call, visit, faults, history>>

LiveOrphans == {e \in Unfinished \cap In(visit.scope) : db[e].status = "claimed" /\ db[e].live}
AfterOrphans == [orphan1 |-> "resume", orphan2 |-> "scan", orphan3 |-> "discover"]

\* A dispatch that may still be running ends the visit; other scopes go on.
Orphans ==
  LET s == visit.scope
      closed == journal' # journal
  IN /\ pc \in DOMAIN AfterOrphans
     /\ journal' = CloseOrphans(In(s))
     /\ visit' = [visit EXCEPT
          !.progress = @ \/ closed,
          !.expired = @ \/ (pc # "orphan3"
                             /\ \E e \in (Unfinished \cap In(s)) \ Manual : LeaseOver(e))]
     /\ IF LiveOrphans # {} THEN Goto("blocked") ELSE Goto(AfterOrphans[pc])
     /\ UNCHANGED <<kernel, order, mem, call, faults, history>>

\* Prepared effects of the scope, in the order of their first records, taken up
\* behind the anchor of the last look.
Candidates == Resumable \cap In(visit.scope)

Rank(e) ==
  LET a == mem.anchor[visit.scope]
      at == IF a \in Range(order) THEN Position(order, a) ELSE 0
  IN IF Position(order, e) > at THEN Position(order, e) ELSE Len(order) + Position(order, e)

\* A model call asks for more than a live lease, so a live claim may be left.
ResumeReady(e) == db[e].status = "ready" /\ e \notin call.attempted
ResumeHeld(e) == Owned(e, journal[e].prepared) /\ db[e].live
ResumeSure(e) == ResumeReady(e) \/ (ResumeHeld(e) /\ e \in HostKind)

Dead(S) == {e \in S : db[e].status = "closed"}

\* Closed candidates are written off as conflicts; the anchor is the last one seen.
LookAt(S) ==
  /\ journal' = [e \in Effects |-> IF e \in Dead(S)
                                   THEN [journal[e] EXCEPT !.settled = TRUE] ELSE journal[e]]
  /\ mem' = [mem EXCEPT !.anchor[visit.scope] =
               IF S = {} THEN @ ELSE CHOOSE e \in S : \A x \in S : Rank(x) <= Rank(e)]

Resume(e) ==
  LET seen == {x \in Candidates : Rank(x) <= Rank(e)}
  IN /\ pc = "resume" /\ e \in Candidates /\ (ResumeReady(e) \/ ResumeHeld(e))
     /\ \A x \in seen \ {e} : ~ResumeSure(x)
     /\ LookAt(seen)
     /\ Goto(IF db[e].status = "ready" THEN "claim" ELSE "execute")
     /\ visit' = [visit EXCEPT !.progress = @ \/ Dead(seen) # {}, !.effect = e,
                               !.fence = db[e].fence]
     /\ UNCHANGED <<kernel, order, call, faults, history>>

NothingResumed ==
  /\ pc = "resume" /\ \A x \in Candidates : ~ResumeSure(x)
  /\ LookAt(Candidates) /\ Goto("orphan2")
  /\ visit' = [visit EXCEPT !.progress = @ \/ Dead(Candidates) # {}]
  /\ UNCHANGED <<kernel, order, call, faults, history>>

\* The first scan looks for expired claims only.
Scan ==
  /\ pc = "scan"
  /\ Goto(IF visit.expired \/ \E e \in In(visit.scope) \ Manual : LeaseOver(e)
          THEN "sweep" ELSE "orphan3")
  /\ UNCHANGED <<kernel, books, mem, call, visit, faults, history>>

\* The kernel takes expired claims in lease order: business claims end unknown,
\* a resource goes back to ready or ends unknown.
Sweep(taken, reset) ==
  LET due == {e \in In(visit.scope) \ Manual : LeaseOver(e)}
  IN /\ pc = "sweep" /\ Goto("orphan3")
     /\ taken \subseteq due /\ reset \subseteq taken \cap HostKind
     /\ Cardinality(taken) = IF Cardinality(due) < SweepLimit THEN Cardinality(due) ELSE SweepLimit
     /\ \A e \in reset : db[e].fence < MaxFence
     /\ db' = [e \in Effects |-> IF e \in reset THEN [db[e] EXCEPT !.status = "ready"]
                                 ELSE IF e \in taken THEN [db[e] EXCEPT !.status = "closed"]
                                 ELSE db[e]]
     /\ visit' = [visit EXCEPT !.more = taken # due, !.progress = @ \/ taken # {}]
     /\ UNCHANGED <<queue, rivals, books, mem, call, faults, history>>

-----------------------------------------------------------------------------
(* Fresh opportunities. *)

\* Mutation of ChosenClass: host effects first, whatever the streak.
ChosenClassHostFirst(s, host, business) == IF host = {} THEN "business" ELSE "host"

ChosenClass(s, host, business) ==
  IF business # {} /\ (host = {} \/ mem.streak[s] = Burst) THEN "business" ELSE "host"

\* Mutation of Picked: always the oldest candidate.
PickedOldest(s, class, S) == FirstOf(queue, S)

\* The first candidate after the class's cursor, else the oldest.
Picked(s, class, S) ==
  LET later == S \ mem.behind[s][class]
  IN FirstOf(queue, IF later # {} THEN later ELSE S)

\* Mutation of Unattempted: a ready effect is offered in every visit.
UnattemptedAny(found) == {e \in found : db[e].status = "ready"}

Unattempted(found) == {e \in found : db[e].status = "ready"} \ call.attempted

\* Cursor and streak move with the choice, whatever comes of the claim.
Discover ==
  LET s == visit.scope
      found == {e \in In(s) : Open(e)}
      host == Unattempted(found) \cap HostKind
      business == Unattempted(found) \cap Business
      class == ChosenClass(s, host, business)
      S == IF class = "business" THEN business ELSE host
      e == Picked(s, class, S)
  IN /\ pc = "discover"
     /\ IF S = {}
        THEN /\ Goto("close") /\ visit' = [visit EXCEPT !.found = found]
             /\ UNCHANGED <<mem, burst>>
        ELSE /\ Goto("claim")
             /\ visit' = [visit EXCEPT !.found = found, !.effect = e, !.fresh = TRUE]
             /\ mem' = [mem EXCEPT
                  !.behind[s][class] = {queue[i] : i \in 1..Position(queue, e)},
                  !.streak[s] = IF class = "business" THEN 0
                                ELSE IF @ < Burst THEN @ + 1 ELSE Burst]
             /\ burst' = [burst EXCEPT ![s] = IF class = "host" /\ business # {} THEN @ + 1 ELSE 0]
     /\ UNCHANGED <<kernel, books, call, faults, lag>>

AfterWork == IF visit.fresh THEN "close" ELSE "orphan2"

\* The kernel grants a ready effect and a resource whose lease is over.
Grants(e) == db[e].status = "ready" \/ (e \in HostKind /\ LeaseOver(e) /\ db[e].fence < MaxFence)

Claimed(e, rival) ==
  [status |-> "claimed", fence |-> db[e].fence + 1, live |-> TRUE, rival |-> rival]

\* The attempt is noted before the request leaves.
Claim ==
  LET e == visit.effect
  IN /\ pc = "claim" /\ e \notin Poison
     /\ call' = [call EXCEPT !.attempted = @ \cup {e}]
     /\ IF Grants(e)
        THEN /\ Goto("execute")
             /\ db' = [db EXCEPT ![e] = Claimed(e, FALSE)]
             /\ visit' = [visit EXCEPT !.fence = db[e].fence + 1, !.reread = TRUE]
        ELSE Goto(AfterWork) /\ UNCHANGED <<db, visit>>
     /\ UNCHANGED <<queue, rivals, books, mem, faults, history>>

\* A refusal that no race explains leaves the invocation.
ClaimRaises ==
  /\ pc = "claim" /\ visit.effect \in Poison
  /\ IF db[visit.effect].status = "closed"
     THEN /\ Goto(AfterWork)
          /\ call' = [call EXCEPT !.attempted = @ \cup {visit.effect}]
          /\ UNCHANGED visit
     ELSE Stop("raised")
  /\ UNCHANGED <<kernel, books, mem, faults, history>>

\* The records of an execution, up to the given one.
Written(e, upto) ==
  [journal EXCEPT ![e] =
     [prepared |-> IF @.prepared = 0 THEN visit.fence ELSE @.prepared,
      started |-> IF upto = "prepared" THEN @.started ELSE visit.fence,
      finished |-> IF upto \in {"finished", "settled"} THEN visit.fence ELSE @.finished,
      settled |-> @.settled \/ upto = "settled"]]

\* An outcome without I/O is journaled too, unless an earlier one was.
WrittenLocally(e, settled) ==
  [journal EXCEPT ![e] =
     [prepared |-> IF @.prepared = 0 THEN visit.fence ELSE @.prepared,
      started |-> @.started,
      finished |-> IF @.finished = 0 THEN visit.fence ELSE @.finished,
      settled |-> @.settled \/ settled]]

Ordered(e) == order' = IF e \in Range(order) THEN order ELSE Append(order, e)

\* A claim made in this visit is read back; a resumed one was just read.
Holds == visit.reread => Owned(visit.effect, visit.fence)

\* The claim is read back; then the call is made, or refused without I/O, and
\* its receipt is stored or refused.
Execute(io, settled) ==
  LET e == visit.effect
  IN /\ pc = "execute" /\ Holds /\ Goto(AfterWork)
     /\ settled => Owned(e, visit.fence)
     /\ journal' = IF io THEN Written(e, IF settled THEN "settled" ELSE "finished")
                   ELSE WrittenLocally(e, settled)
     /\ Ordered(e)
     /\ db' = IF settled THEN [db EXCEPT ![e].status = "closed", ![e].live = FALSE] ELSE db
     /\ visit' = [visit EXCEPT !.progress = @ \/ io \/ settled]
     /\ UNCHANGED <<queue, rivals, mem, call, faults, history>>

ClaimGone ==
  /\ pc = "execute" /\ ~Holds /\ Goto(AfterWork)
  /\ UNCHANGED <<kernel, books, mem, call, visit, faults, history>>

-----------------------------------------------------------------------------
(* The verdict of a visit and of a pass. *)

\* Mutation of LeftOver: an execution counts as done with the visit.
LeftOverUndispatched(s) == visit.found \ call.attempted # {} \/ visit.more

\* What a visit saw stays pending until a later visit sees it gone.
LeftOver(s) == visit.found # {} \/ visit.more \/ JournalIds \cap In(s) # {}

Verdict(pending, progress) ==
  IF ~pending THEN "idle" ELSE IF ~progress THEN "blocked_no_progress" ELSE "none"

CloseVisit ==
  LET s == visit.scope
      left == pc = "blocked" \/ LeftOver(s)
      visited == call.visited \cup {s}
      pending == IF left THEN call.pending \cup {s} ELSE call.pending \ {s}
      progress == call.progress \/ visit.progress
      full == visited = call.roster
      verdict == Verdict(pending # {} \/ JournalIds # {}, progress)
  IN /\ pc \in {"blocked", "close"}
     /\ IF full /\ verdict # "none"
        THEN Goto("off") /\ call' = Ended(verdict)
        ELSE /\ Goto("next")
             /\ call' = [call EXCEPT
                  !.pending = pending,
                  !.visited = IF full THEN {} ELSE visited,
                  !.progress = ~full /\ progress,
                  !.since = IF full THEN {e \in Effects : Open(e)} ELSE @]
     /\ visit' = NoVisit
     /\ UNCHANGED <<kernel, books, mem, faults, history>>

-----------------------------------------------------------------------------
(* Faults and the rest of the world. *)

LastWritten == {"nothing", "prepared", "started", "finished"}

\* An execution that is broken off leaves a prefix of the records it writes.
BrokenOff(upto) ==
  IF pc = "execute" /\ Holds /\ upto # "nothing"
  THEN journal' = Written(visit.effect, upto) /\ Ordered(visit.effect)
  ELSE upto = "nothing" /\ UNCHANGED books

\* An error of the database, the contract or a handler leaves the invocation; the
\* process and its cursors stay.
Raise(upto) ==
  /\ pc # "off" /\ faults < MaxFaults /\ faults' = faults + 1
  /\ BrokenOff(upto)
  /\ Stop("raised")
  /\ UNCHANGED <<kernel, mem, history>>

\* A crash leaves the journal.
Crash(upto) ==
  /\ pc # "off" /\ faults < MaxFaults /\ faults' = faults + 1
  /\ BrokenOff(upto)
  /\ Goto("off") /\ mem' = ColdStart /\ call' = NoCall /\ visit' = NoVisit
  /\ burst' = [s \in Scopes |-> 0] /\ lag' = [s \in Scopes |-> 0]
  /\ UNCHANGED kernel

ExpireLease(e) ==
  /\ db[e].status = "claimed" /\ db[e].live
  /\ db' = [db EXCEPT ![e].live = FALSE]
  /\ UNCHANGED <<queue, rivals, books, mem, call, visit, pc, faults, history>>

\* A new effect takes the slot once nothing refers to the last one.
Arrive(e) ==
  /\ \/ db[e].status = "absent"
     \/ /\ e \in Recurring /\ db[e].status = "closed" /\ e \notin JournalIds
        /\ visit.effect # e
  /\ db' = [db EXCEPT ![e] = Fresh]
  /\ queue' = Append(Without(queue, e), e)
  /\ journal' = [journal EXCEPT ![e] = NoEntry]
  /\ order' = Without(order, e)
  /\ mem' = [mem EXCEPT !.behind[ScopeOf[e]][Class(e)] = @ \ {e},
                        !.anchor[ScopeOf[e]] = IF @ # e THEN @ ELSE Before(order, e)]
  /\ call' = [call EXCEPT !.attempted = @ \ {e}, !.since = @ \ {e}]
  /\ UNCHANGED <<rivals, visit, pc, faults, history>>

\* Another host claims an effect, and settles it or is cut off by its lease.
RivalClaims(e) ==
  /\ Grants(e) /\ rivals < MaxRivals /\ rivals' = rivals + 1
  /\ db' = [db EXCEPT ![e] = Claimed(e, TRUE)]
  /\ UNCHANGED <<queue, books, mem, call, visit, pc, faults, history>>

RivalSettles(e) ==
  /\ db[e].status = "claimed" /\ db[e].rival
  /\ db' = [db EXCEPT ![e].status = "closed", ![e].live = FALSE]
  /\ UNCHANGED <<queue, rivals, books, mem, call, visit, pc, faults, history>>

\* Another host's recovery command.
RivalSweeps(e) ==
  /\ LeaseOver(e) /\ e \notin Manual /\ MaxRivals > 0
  /\ \E status \in {"ready", "closed"} :
       /\ status = "ready" => e \in HostKind /\ db[e].fence < MaxFence
       /\ db' = [db EXCEPT ![e].status = status]
  /\ UNCHANGED <<queue, rivals, books, mem, call, visit, pc, faults, history>>

\* A cancel or a steer archives a ready business effect.
Withdraw(e) ==
  /\ e \in Business /\ db[e].status = "ready"
  /\ db' = [db EXCEPT ![e].status = "closed"]
  /\ UNCHANGED <<queue, rivals, books, mem, call, visit, pc, faults, history>>

-----------------------------------------------------------------------------

Init ==
  /\ db = [e \in Effects |-> NoRow]
  /\ queue = <<>> /\ order = <<>>
  /\ journal = [e \in Effects |-> NoEntry]
  /\ mem = ColdStart /\ call = NoCall /\ visit = NoVisit /\ pc = "off"
  /\ rivals = 0 /\ faults = 0
  /\ burst = [s \in Scopes |-> 0] /\ lag = [s \in Scopes |-> 0]

Drive ==
  \/ \E roster \in Rosters : Begin(roster)
  \/ StartVisit
  \/ BudgetExhausted
  \/ \E e \in Effects : Reconcile(e)
  \/ Reconciled
  \/ Orphans
  \/ \E e \in Effects : Resume(e)
  \/ NothingResumed
  \/ Scan
  \/ \E taken \in SUBSET Effects : \E reset \in SUBSET taken : Sweep(taken, reset)
  \/ Discover
  \/ Claim
  \/ ClaimRaises
  \/ \E io, settled \in BOOLEAN : Execute(io, settled)
  \/ ClaimGone
  \/ CloseVisit

Environment ==
  \/ \E upto \in LastWritten : Raise(upto)
  \/ \E upto \in LastWritten : Crash(upto)
  \/ \E e \in Effects : ExpireLease(e)
  \/ \E e \in Effects : Arrive(e)
  \/ \E e \in Effects : RivalClaims(e)
  \/ \E e \in Effects : RivalSettles(e)
  \/ \E e \in Effects : RivalSweeps(e)
  \/ \E e \in Effects : Withdraw(e)

Next == Drive \/ Environment

Spec == Init /\ [][Next]_vars

\* The host calls the driver again and again, and time passes.
FairSpec == Spec /\ WF_vars(Drive) /\ \A e \in Effects : WF_vars(ExpireLease(e))

-----------------------------------------------------------------------------
(* Properties. *)

\* Every variable has its shape.
TypeOK ==
  /\ db \in [Effects -> [status : {"absent", "ready", "claimed", "closed"},
                         fence : Fence, live : BOOLEAN, rival : BOOLEAN]]
  /\ journal \in [Effects -> [prepared : Fence, started : Fence, finished : Fence,
                              settled : BOOLEAN]]
  /\ Range(queue) = {e \in Effects : db[e].status # "absent"} /\ IsInjective(queue)
  /\ Range(order) = {e \in Effects : journal[e].prepared # 0} /\ IsInjective(order)
  /\ mem.after \in Scopes \cup {0} /\ mem.streak \in [Scopes -> 0..Burst]
  /\ call.attempted \subseteq Effects /\ call.visited \subseteq call.roster
  /\ call.rounds \in 0..MaxRounds
  /\ visit.effect \in Effects \cup {0} /\ visit.fence \in Fence

\* No effect is claimed twice in an invocation: the guard that raises "duplicate
\* physical claim" is never met, though a visit looks for work in two ways.
NoDuplicateClaim == pc = "claim" => visit.effect \notin call.attempted

\* The memory of the driver is what its next visit may rely on.
VisitsSound == TypeOK /\ NoDuplicateClaim

\* An invocation that reports idle leaves no journaled debt, and every effect
\* that was open when its last pass began has been closed, whoever closed it.
IdleIsTrue ==
  call.stop = "idle" =>
    /\ JournalIds = {}
    /\ \A e \in call.since : ScopeOf[e] \in call.roster => db[e].status = "closed"

\* While a business effect of the scope is on offer, host effects get at most
\* Burst opportunities in a row, across visits, invocations and exceptions.
HostBurst == \A s \in Scopes : burst[s] <= Burst

\* Between two visits of a scope that stays in the roster every other scope is
\* visited at most once, however invocations end and rosters change.
ScopeTurn == \A s \in Scopes : lag[s] < Cardinality(Scopes)

\* A ready effect is claimed or closed in the end, whatever effects of other
\* slots keep arriving, failing or being refused.
EffectServed ==
  \A e \in Effects \ (Recurring \cup Poison) :
    db[e].status = "ready" ~> db[e].status # "ready"

=============================================================================
