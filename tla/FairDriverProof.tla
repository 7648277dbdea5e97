--------------------------- MODULE FairDriverProof ---------------------------
(* Safety of FairDriver, for any roster, effects and bounds.                  *)
EXTENDS FairDriver, FiniteSetTheorems, WellFoundedInduction, NaturalsInduction, SequenceTheorems, TLAPS

-----------------------------------------------------------------------------
(* The inductive invariant. *)

Row == [status : {"absent", "ready", "claimed", "closed"},
        fence : Fence, live : BOOLEAN, rival : BOOLEAN]

\* The rows, and the records of the driver by their fields.
Shape ==
  /\ db \in [Effects -> Row]
  /\ \A e \in Effects : db[e].status = "ready" => db[e].fence < MaxFence
  /\ DOMAIN journal = Effects
  /\ DOMAIN mem = DOMAIN ColdStart /\ mem.after \in Nat
  /\ DOMAIN call = DOMAIN NoCall /\ call.roster \subseteq Scopes /\ call.since \subseteq Effects
  /\ DOMAIN visit = DOMAIN NoVisit

\* The scopes the roster has offered since the turn of s.
Passed(s, after) ==
  IF after >= s THEN {t \in Scopes : s < t /\ t <= after} ELSE {t \in Scopes : t > s \/ t <= after}

\* The histories never run ahead of what the process remembers.
Turns ==
  /\ mem.streak \in [Scopes -> 0..Burst]
  /\ burst \in [Scopes -> Nat] /\ lag \in [Scopes -> Nat]
  /\ \A s \in Scopes : burst[s] <= mem.streak[s] /\ lag[s] <= Cardinality(Passed(s, mem.after))

Closed(e) == db[e].status = "closed"

\* What a pass has established about the effects open at its start.
PassOK ==
  /\ pc # "off" => call.stop = "none" /\ call.roster \in Rosters
  /\ \A e \in call.since : db[e].status # "absent"
  /\ \A e \in call.since : ScopeOf[e] \in call.visited \ call.pending => Closed(e)

\* A visit that has discovered holds every open effect of its scope.
VisitOK ==
  /\ visit.fresh => pc \in {"claim", "execute", "close"}
  /\ pc = "close" \/ visit.fresh =>
       \A e \in call.since : ScopeOf[e] = visit.scope => e \in visit.found \/ Closed(e)

\* A sequence that holds every slot of a set once.
Lists(s, S) == s \in Seq(Effects) /\ Range(s) = S /\ IsInjective(s)

Entry == [prepared : Fence, started : Fence, finished : Fence, settled : BOOLEAN]
Known == {e \in Effects : db[e].status # "absent"}
Noted == {e \in Effects : journal[e].prepared # 0}

\* The journal and the two queues: each holds what it is the order of, once.
Books ==
  /\ journal \in [Effects -> Entry]
  /\ Lists(queue, Known) /\ Lists(order, Noted)

\* Where the invocation and the visit are.
Places ==
  /\ mem.after \in Scopes \cup {0}
  /\ call.attempted \subseteq Effects /\ call.visited \subseteq call.roster
  /\ call.rounds \in 0..MaxRounds
  /\ visit.effect \in Effects \cup {0} /\ visit.fence \in Fence
  /\ pc \notin {"off", "next"} => visit.scope \in call.roster
  /\ pc \in {"claim", "execute"} => visit.effect \in Effects
  /\ pc = "execute" => visit.fence # 0
  /\ NoDuplicateClaim

DriverInvariant == Shape /\ Turns /\ PassOK /\ VisitOK /\ Books /\ Places /\ IdleIsTrue


-----------------------------------------------------------------------------
(* Rows. *)

\* The rows of the kernel: a step of anyone writes well-typed ones, and a ready
\* effect can still be claimed.
LEMMA RowsStep ==
  ASSUME Shape, Next
  PROVE  /\ db' \in [Effects -> Row]
         /\ \A e \in Effects : db'[e].status = "ready" => db'[e].fence < MaxFence
  <1> DEFINE Good(x) == x \in Row /\ (x.status = "ready" => x.fence < MaxFence)
             Own == \A e \in Effects : Good(db'[e])
  <1>1. /\ db \in [Effects -> Row] /\ DOMAIN db = Effects /\ \A e \in Effects : Good(db[e])
        /\ MaxFence \in Nat /\ MaxFence > 0
    BY DriverBoundAssumption DEF Shape
  <1>2. ASSUME UNCHANGED db PROVE Own /\ db' \in [Effects -> Row]
    BY <1>1, <1>2
  <1>3. ASSUME NEW e, NEW v, e \in Effects => Good(v), db' = [db EXCEPT ![e] = v]
        PROVE  Own /\ db' \in [Effects -> Row]
    <2> HIDE DEF Good
    <2>1. ASSUME NEW x \in Effects PROVE Good(db'[x])
      BY <1>1, <1>3
    <2>2. \A x \in Effects : db'[x] \in Row BY <2>1 DEF Good
    <2>3. db' = [x \in Effects |-> db'[x]] BY <1>1, <1>3
    <2> QED BY <2>1, <2>2, <2>3
  <1>4. ASSUME NEW e \in Effects, NEW st \in {"closed", "ready"}, st = "ready" => db[e].fence < MaxFence
        PROVE  Good([db[e] EXCEPT !.status = st]) /\ Good([db[e] EXCEPT !.status = st, !.live = FALSE])
    BY <1>1, <1>4 DEF Row
  <1>5. ASSUME NEW e \in Effects, Grants(e), NEW r \in BOOLEAN PROVE Good(Claimed(e, r))
    <2>1. db[e] \in Row /\ Good(db[e]) BY <1>1
    <2>2. db[e].fence < MaxFence BY <1>5, <2>1 DEF Grants
    <2>3. db[e].fence + 1 \in Fence BY <1>1, <2>1, <2>2 DEF Row, Fence
    <2> QED BY <2>3 DEF Claimed, Row
  <1>6. Good(Fresh)
    <2>1. NoRow \in Row /\ NoRow.fence = 0 BY <1>1 DEF NoRow, Row, Fence
    <2>2. Fresh \in Row /\ Fresh.fence = 0 BY <2>1 DEF Fresh, Row
    <2> QED BY <1>1, <2>2
  <1> HIDE DEF Good
  <1>10. CASE \E e \in Effects : Reconcile(e)
    <2>1. PICK e \in Effects : Reconcile(e) BY <1>10
    <2>2. CASE db' = [db EXCEPT ![e].status = "closed", ![e].live = FALSE]
      <3>1. db' = [db EXCEPT ![e] = [db[e] EXCEPT !.status = "closed", !.live = FALSE]]
        BY <2>2, <1>1
      <3> QED BY <3>1, <1>3, <1>4 DEF Good
    <2>3. CASE UNCHANGED db BY <2>3, <1>2 DEF Good
    <2> QED BY <2>1, <2>2, <2>3 DEF Reconcile
  <1>11. CASE \E taken \in SUBSET Effects : \E reset \in SUBSET taken : Sweep(taken, reset)
    <2>1. PICK taken \in SUBSET Effects, reset \in SUBSET Effects : Sweep(taken, reset) BY <1>11
    <2>2. ASSUME NEW e \in Effects PROVE Good(db'[e])
      <3>1. CASE e \in reset BY <3>1, <2>1, <1>4 DEF Sweep
      <3>2. CASE e \notin reset /\ e \in taken BY <3>2, <2>1, <1>4 DEF Sweep
      <3>3. CASE e \notin taken BY <3>3, <2>1, <1>1 DEF Sweep
      <3> QED BY <3>1, <3>2, <3>3
    <2>3. db' = [e \in Effects |-> db'[e]] BY <2>1 DEF Sweep
    <2>4. db' \in [Effects -> Row] BY <2>2, <2>3 DEF Good
    <2> QED BY <2>2, <2>4 DEF Good
  <1>12. CASE Claim
    <2>1. CASE Grants(visit.effect)
      <3>1. db' = [db EXCEPT ![visit.effect] = Claimed(visit.effect, FALSE)]
        BY <2>1, <1>12 DEF Claim
      <3> QED BY <3>1, <2>1, <1>3, <1>5 DEF Good
    <2>2. CASE ~Grants(visit.effect) BY <2>2, <1>12, <1>2 DEF Claim, Good
    <2> QED BY <2>1, <2>2
  <1>13. CASE \E io, settled \in BOOLEAN : Execute(io, settled)
    <2>1. CASE UNCHANGED db BY <2>1, <1>2 DEF Good
    <2>2. CASE db' = [db EXCEPT ![visit.effect].status = "closed", ![visit.effect].live = FALSE]
      <3>1. db' = [db EXCEPT ![visit.effect] =
                     [db[visit.effect] EXCEPT !.status = "closed", !.live = FALSE]]
        BY <2>2, <1>1
      <3> QED BY <3>1, <1>3, <1>4 DEF Good
    <2> QED BY <1>13, <2>1, <2>2 DEF Execute
  <1>14. CASE \E e \in Effects : ExpireLease(e)
    <2>1. PICK e \in Effects : ExpireLease(e) BY <1>14
    <2>2. Good([db[e] EXCEPT !.live = FALSE]) BY <1>1 DEF Good, Row
    <2>3. db' = [db EXCEPT ![e] = [db[e] EXCEPT !.live = FALSE]] BY <2>1, <1>1 DEF ExpireLease
    <2> QED BY <2>2, <2>3, <1>3 DEF Good
  <1>15. CASE \E e \in Effects : Arrive(e)
    <2>1. PICK e \in Effects : db' = [db EXCEPT ![e] = Fresh] BY <1>15 DEF Arrive
    <2> QED BY <2>1, <1>3, <1>6 DEF Good
  <1>16. CASE \E e \in Effects : RivalClaims(e)
    <2>1. PICK e \in Effects : Grants(e) /\ db' = [db EXCEPT ![e] = Claimed(e, TRUE)]
      BY <1>16 DEF RivalClaims
    <2> QED BY <2>1, <1>3, <1>5 DEF Good
  <1>17. CASE \E e \in Effects : RivalSettles(e)
    <2>1. PICK e \in Effects : RivalSettles(e) BY <1>17
    <2>2. db' = [db EXCEPT ![e] = [db[e] EXCEPT !.status = "closed", !.live = FALSE]]
      BY <2>1, <1>1 DEF RivalSettles
    <2> QED BY <2>2, <1>3, <1>4 DEF Good
  <1>18. CASE \E e \in Effects : RivalSweeps(e)
    <2>1. PICK e \in Effects, st \in {"ready", "closed"} :
            (st = "ready" => db[e].fence < MaxFence) /\ db' = [db EXCEPT ![e].status = st]
      BY <1>18 DEF RivalSweeps
    <2>2. db' = [db EXCEPT ![e] = [db[e] EXCEPT !.status = st]] BY <2>1, <1>1
    <2> QED BY <2>1, <2>2, <1>3, <1>4 DEF Good
  <1>19. CASE \E e \in Effects : Withdraw(e)
    <2>1. PICK e \in Effects : Withdraw(e) BY <1>19
    <2>2. db' = [db EXCEPT ![e] = [db[e] EXCEPT !.status = "closed"]]
      BY <2>1, <1>1 DEF Withdraw
    <2> QED BY <2>2, <1>3, <1>4 DEF Good
  <1>20. CASE UNCHANGED db BY <1>20, <1>2 DEF Good
  <1> QED
    BY <1>10, <1>11, <1>12, <1>13, <1>14, <1>15, <1>16, <1>17, <1>18, <1>19, <1>20
    DEF Next, Drive, Environment, Begin, StartVisit, BudgetExhausted, Reconciled, Orphans,
        Resume, NothingResumed, Scan, Discover, ClaimRaises, ClaimGone, CloseVisit, Raise, Crash, kernel


-----------------------------------------------------------------------------
(* Turns. *)

\* A set of scope ids that is not empty has a least one.
LEMMA LeastExists ==
  ASSUME NEW S, S \subseteq Scopes, S # {}
  PROVE  \E s \in S : \A t \in S : s <= t
  <1> DEFINE Less == {p \in Nat \X Nat : p[1] < p[2]}
  <1>1. Scopes \subseteq Nat BY RosterAssumption
  <1>2. IsWellFoundedOn(Less, Nat) BY NatLessThanWellFounded DEF OpToRel
  <1>3. \E x \in S : \A y \in S : ~(<<y, x>> \in Less)
    <2> HIDE DEF Less
    <2> QED BY <1>1, <1>2, WFMin
  <1>4. PICK x \in S : \A y \in S : ~(<<y, x>> \in Less) BY <1>3
  <1>5. ASSUME NEW y \in S PROVE x <= y
    <2>1. x \in Nat /\ y \in Nat BY <1>1
    <2>2. ~(y < x) BY <1>4, <2>1
    <2> QED BY <2>1, <2>2
  <1> QED BY <1>5

\* The next scope is the first of the roster after the last one, and the head
\* of the roster when there is none.
LEMMA Turning ==
  ASSUME NEW roster \in Rosters, NEW after \in Nat
  PROVE  LET s == NextScope(roster, after)
         IN /\ s \in roster /\ s \in Scopes /\ s \in Nat
            /\ \A t \in roster : t > after => s > after /\ s <= t
            /\ s <= after => \A t \in roster : s <= t
  <1> DEFINE later == {t \in roster : t > after}
             S == IF later # {} THEN later ELSE roster
             s == NextScope(roster, after)
  <1>1. roster \subseteq Scopes /\ roster # {} /\ Scopes \subseteq Nat
    BY DriverBoundAssumption, RosterAssumption
  <1>2. S \subseteq Scopes /\ S # {} /\ S \subseteq roster BY <1>1
  <1>3. s = CHOOSE x \in S : \A t \in S : x <= t BY DEF NextScope
  <1>4. s \in S /\ \A t \in S : s <= t
    <2>1. \E x \in S : \A t \in S : x <= t BY <1>2, LeastExists
    <2> HIDE DEF S
    <2> QED BY <1>3, <2>1
  <1>5. ASSUME NEW t \in roster, t > after PROVE s > after /\ s <= t
    BY <1>4, <1>5
  <1>6. ASSUME s <= after, NEW t \in roster PROVE s <= t
    <2>1. ~\E u \in roster : u > after
      <3> SUFFICES ASSUME NEW u \in roster, u > after PROVE FALSE OBVIOUS
      <3>1. s > after BY <1>5
      <3>2. s \in Nat BY <1>1, <1>2, <1>4
      <3> HIDE DEF s
      <3> QED BY <1>6, <3>1, <3>2
    <2> QED BY <1>4, <2>1
  <1> HIDE DEF s
  <1>7. s \in roster /\ s \in Scopes /\ s \in Nat BY <1>1, <1>2, <1>4
  <1> QED BY <1>5, <1>6, <1>7 DEF s

-----------------------------------------------------------------------------
(* The records of the driver. *)

\* What the verdict of a visit leaves of the invocation.
LEMMA Closing ==
  ASSUME Shape, CloseVisit
  PROVE  LET s == visit.scope
             left == pc = "blocked" \/ LeftOver(s)
             visited == call.visited \cup {s}
             pending == IF left THEN call.pending \cup {s} ELSE call.pending \ {s}
         IN /\ DOMAIN call' = DOMAIN NoCall /\ call'.roster = call.roster
            /\ \/ /\ pc' = "off" /\ visited = call.roster
                  /\ call'.visited = {} /\ call'.since = call.since
                  /\ call'.stop = "idle" => pending = {} /\ JournalIds = {}
               \/ /\ pc' = "next" /\ call'.stop = call.stop /\ call'.pending = pending
                  /\ \/ call'.visited = {} /\ call'.since = {e \in Effects : Open(e)}
                     \/ call'.visited = visited /\ call'.since = call.since
            /\ call'.since \subseteq Effects
  <1> DEFINE s == visit.scope
             left == pc = "blocked" \/ LeftOver(s)
             visited == call.visited \cup {s}
             pending == IF left THEN call.pending \cup {s} ELSE call.pending \ {s}
             progress == call.progress \/ visit.progress
             full == visited = call.roster
             verdict == Verdict(pending # {} \/ JournalIds # {}, progress)
             open == {e \in Effects : Open(e)}
  <1>1. DOMAIN call = DOMAIN NoCall /\ call.since \subseteq Effects BY DEF Shape
  <1>2. CASE full /\ verdict # "none"
    <2>1. pc' = "off" /\ call' = Ended(verdict) BY <1>2 DEF CloseVisit, Goto
    <2>2. verdict = "idle" => pending = {} /\ JournalIds = {} BY DEF Verdict
    <2> HIDE DEF verdict, pending, visited
    <2>3. /\ call'.roster = call.roster /\ call'.since = call.since /\ call'.visited = {}
          /\ call'.stop = verdict /\ DOMAIN call' = DOMAIN NoCall
      BY <2>1 DEF Ended, NoCall
    <2> QED BY <1>1, <1>2, <2>1, <2>2, <2>3 DEF visited, pending
  <1>3. CASE ~(full /\ verdict # "none")
    <2>1. /\ pc' = "next"
          /\ call' = [call EXCEPT
               !.pending = pending,
               !.visited = IF full THEN {} ELSE visited,
               !.progress = ~full /\ progress,
               !.since = IF full THEN open ELSE @]
      BY <1>3 DEF CloseVisit, Goto
    <2>2. open \subseteq Effects OBVIOUS
    <2> HIDE DEF verdict, pending, visited, progress, full, open
    <2>3. /\ call'.roster = call.roster /\ call'.stop = call.stop /\ call'.pending = pending
          /\ call'.visited = IF full THEN {} ELSE visited
          /\ call'.since = IF full THEN open ELSE call.since
          /\ DOMAIN call' = DOMAIN NoCall
      BY <1>1, <2>1 DEF NoCall
    <2> QED BY <1>1, <2>1, <2>2, <2>3 DEF visited, pending, open
  <1> QED BY <1>2, <1>3

\* Every action writes whole records, and scopes and effects into them.
LEMMA ShapeStep ==
  ASSUME Shape, PassOK, Next
  PROVE  Shape'
  <1>1. /\ db' \in [Effects -> Row]
        /\ \A e \in Effects : db'[e].status = "ready" => db'[e].fence < MaxFence
    BY RowsStep
  <1>2. DOMAIN journal' = Effects
    <2>1. CASE UNCHANGED journal BY <2>1 DEF Shape
    <2>2. CASE \E roster \in Rosters : Begin(roster)
      BY <2>2 DEF Shape, Begin, CloseOrphans
    <2>3. CASE Orphans BY <2>3 DEF Shape, Orphans, CloseOrphans
    <2>4. CASE \E e \in Effects : Reconcile(e) BY <2>4 DEF Shape, Reconcile
    <2>5. CASE (\E e \in Effects : Resume(e)) \/ NothingResumed
      BY <2>5 DEF Resume, NothingResumed, LookAt
    <2>6. CASE \E io, settled \in BOOLEAN : Execute(io, settled)
      BY <2>6 DEF Shape, Execute, Written, WrittenLocally
    <2>7. CASE (\E upto \in LastWritten : Crash(upto)) \/ \E upto \in LastWritten : Raise(upto)
      BY <2>7 DEF Shape, Crash, Raise, BrokenOff, Written, books
    <2>8. CASE \E e \in Effects : Arrive(e) BY <2>8 DEF Shape, Arrive
    <2> QED
      BY <2>1, <2>2, <2>3, <2>4, <2>5, <2>6, <2>7, <2>8
      DEF Next, Drive, Environment, StartVisit, BudgetExhausted, Reconciled, Scan, Sweep,
          Discover, Claim, ClaimRaises, ClaimGone, CloseVisit, ExpireLease, RivalClaims,
          RivalSettles, RivalSweeps, Withdraw, books
  <1>3. DOMAIN mem' = DOMAIN ColdStart /\ mem'.after \in Nat
    <2>1. CASE UNCHANGED mem BY <2>1 DEF Shape
    <2>2. CASE StartVisit
      <3>1. NextScope(call.roster, mem.after) \in Nat
        BY <2>2, Turning DEF Shape, PassOK, StartVisit
      <3> QED BY <2>2, <3>1 DEF Shape, StartVisit, ColdStart
    <2>3. CASE \E roster \in Rosters : Begin(roster)
      BY <2>3 DEF Shape, Begin, Pruned, ColdStart
    <2>4. CASE (\E e \in Effects : Resume(e)) \/ NothingResumed
      <3>1. \E x : mem' = [mem EXCEPT !.anchor = x]
        BY <2>4 DEF Resume, NothingResumed, LookAt
      <3> QED BY <3>1 DEF Shape, ColdStart
    <2>5. CASE Discover
      <3>1. UNCHANGED mem \/ \E x, y : mem' = [mem EXCEPT !.behind = x, !.streak = y]
        BY <2>5 DEF Discover
      <3> QED BY <3>1 DEF Shape, ColdStart
    <2>6. CASE \E upto \in LastWritten : Crash(upto)
      BY <2>6 DEF Crash, ColdStart
    <2>7. CASE \E e \in Effects : Arrive(e)
      <3>1. \E x, y : mem' = [mem EXCEPT !.behind = x, !.anchor = y]
        BY ZenonT(60), <2>7 DEF Arrive
      <3> QED BY <3>1 DEF Shape, ColdStart
    <2> QED
      BY <2>1, <2>2, <2>3, <2>4, <2>5, <2>6, <2>7
      DEF Next, Drive, Environment, Reconcile, BudgetExhausted, Reconciled, Orphans, Scan, Sweep,
          Claim, ClaimRaises, Execute, ClaimGone, CloseVisit, Raise, ExpireLease, RivalClaims,
          RivalSettles, RivalSweeps, Withdraw
  <1>4. DOMAIN call' = DOMAIN NoCall /\ call'.roster \subseteq Scopes /\ call'.since \subseteq Effects
    <2>1. CASE UNCHANGED call BY <2>1 DEF Shape
    <2>2. ASSUME NEW r, call' = Ended(r)
          PROVE  DOMAIN call' = DOMAIN NoCall /\ call'.roster = call.roster /\ call'.since = call.since
      BY <2>2 DEF Ended, NoCall
    <2>3. CASE \E roster \in Rosters : Begin(roster)
      BY <2>3, DriverBoundAssumption DEF Begin, NoCall
    <2>4. CASE StartVisit BY <2>4 DEF Shape, StartVisit, NoCall
    <2>5. CASE Claim \/ ClaimRaises
      BY <2>5, <2>2 DEF Shape, Claim, ClaimRaises, NoCall, Stop
    <2>6. CASE CloseVisit BY <2>6, Closing DEF Shape
    <2>7. CASE \E upto \in LastWritten : Crash(upto)
      BY <2>7 DEF Crash, NoCall
    <2>8. CASE \E e \in Effects : Arrive(e)
      BY <2>8 DEF Shape, Arrive, NoCall
    <2>9. CASE BudgetExhausted \/ \E upto \in LastWritten : Raise(upto)
      BY <2>9, <2>2 DEF Shape, BudgetExhausted, Raise, Stop
    <2> QED
      BY <2>1, <2>3, <2>4, <2>5, <2>6, <2>7, <2>8, <2>9
      DEF Next, Drive, Environment, Reconcile, Reconciled, Orphans, Resume, NothingResumed, Scan, Sweep,
          Discover, Execute, ClaimGone, ExpireLease, RivalClaims,
          RivalSettles, RivalSweeps, Withdraw
  <1>5. DOMAIN visit' = DOMAIN NoVisit
    BY DEF Shape, Next, Drive, Environment, Begin, StartVisit, BudgetExhausted, Reconcile,
        Reconciled, Orphans, Resume, NothingResumed, Scan, Sweep, Discover, Claim, ClaimRaises, Execute,
        ClaimGone, CloseVisit, Raise, Crash, ExpireLease, Arrive, RivalClaims, RivalSettles,
        RivalSweeps, Withdraw, Stop, NoVisit
  <1> QED BY <1>1, <1>2, <1>3, <1>4, <1>5 DEF Shape

-----------------------------------------------------------------------------
(* Turns are fair. *)

\* A scope visited in its place is one more that the roster has offered.
LEMMA TurnTaken ==
  ASSUME NEW roster \in Rosters, NEW after \in Nat, NEW t \in roster,
         NextScope(roster, after) # t
  PROVE  Cardinality(Passed(t, after)) + 1 <= Cardinality(Passed(t, NextScope(roster, after)))
  <1> DEFINE s == NextScope(roster, after)
             old == Passed(t, after)
             new == Passed(t, s)
  <1>1. /\ s \in roster /\ s \in Scopes /\ s \in Nat
        /\ \A u \in roster : u > after => s > after /\ s <= u
        /\ s <= after => \A u \in roster : s <= u
    BY Turning
  <1>2. t \in Nat /\ t \in Scopes /\ Scopes \subseteq Nat /\ IsFiniteSet(Scopes)
    BY RosterAssumption, DriverBoundAssumption
  <1>3. s # t OBVIOUS
  <1> HIDE DEF s
  <1>4. /\ s \notin old
        /\ old \cup {s} \subseteq new
    <2>1. CASE after >= t /\ s > after
      <3>1. s >= t BY <1>1, <1>2, <2>1
      <3>2. old = {u \in Scopes : t < u /\ u <= after} BY <2>1 DEF Passed
      <3>3. new = {u \in Scopes : t < u /\ u <= s} BY <3>1 DEF Passed
      <3> HIDE DEF old, new
      <3>4. s \notin old /\ s \in new BY <1>1, <1>2, <2>1, <3>2, <3>3
      <3>5. ASSUME NEW u \in old PROVE u \in new BY <1>1, <1>2, <2>1, <3>2, <3>3
      <3> QED BY <3>4, <3>5
    <2>2. CASE after >= t /\ s <= after
      <3>1. s < t BY <1>1, <1>2, <1>3, <2>2
      <3> QED BY <1>1, <1>2, <2>2, <3>1 DEF Passed
    <2>3. CASE ~(after >= t)
      <3>1. s > after /\ s < t BY <1>1, <1>2, <1>3, <2>3
      <3>2. old = {u \in Scopes : u > t \/ u <= after} BY <2>3 DEF Passed
      <3>3. new = {u \in Scopes : u > t \/ u <= s} BY <1>1, <1>2, <3>1 DEF Passed
      <3> HIDE DEF old, new
      <3>4. s \notin old /\ s \in new BY <1>1, <1>2, <3>1, <3>2, <3>3
      <3>5. ASSUME NEW u \in old PROVE u \in new BY <1>1, <1>2, <3>1, <3>2, <3>3
      <3> QED BY <3>4, <3>5
    <2> QED BY <1>1, <1>2, <2>1, <2>2, <2>3
  <1>5. old \subseteq Scopes /\ new \subseteq Scopes BY DEF Passed
  <1>6. IsFiniteSet(old) /\ IsFiniteSet(new) /\ IsFiniteSet(old \cup {s})
    <2> HIDE DEF old, new
    <2> QED BY <1>1, <1>2, <1>5, FS_Subset, FS_AddElement
  <1> HIDE DEF old, new
  <1>7. Cardinality(old \cup {s}) = Cardinality(old) + 1 BY <1>4, <1>6, FS_AddElement
  <1>8. Cardinality(old \cup {s}) <= Cardinality(new) BY <1>4, <1>6, FS_Subset
  <1> QED BY <1>7, <1>8 DEF s, old, new

\* The scopes passed are counted, and never include the scope itself.
LEMMA PassedBound ==
  ASSUME NEW t \in Scopes, NEW after \in Nat
  PROVE  /\ Cardinality(Passed(t, after)) \in Nat
         /\ Cardinality(Passed(t, after)) < Cardinality(Scopes)
  <1>1. t \in Nat /\ Scopes \subseteq Nat /\ IsFiniteSet(Scopes) BY RosterAssumption
  <1>2. Passed(t, after) \subseteq Scopes \ {t} BY <1>1 DEF Passed
  <1>3. /\ IsFiniteSet(Scopes \ {t}) /\ Cardinality(Scopes \ {t}) = Cardinality(Scopes) - 1
        /\ Cardinality(Scopes) \in Nat
    BY <1>1, FS_RemoveElement, FS_CardinalityType
  <1>4. Cardinality(Passed(t, after)) \in Nat
        /\ Cardinality(Passed(t, after)) <= Cardinality(Scopes \ {t})
    BY <1>2, <1>3, FS_Subset, FS_CardinalityType
  <1> QED BY <1>3, <1>4

\* The two histories stay within what the cursor and the streak remember.
LEMMA TurnsStep ==
  ASSUME Shape, Turns, PassOK, Next
  PROVE  Turns'
  <1>0. /\ Burst \in Nat /\ Burst > 0 /\ mem.after \in Nat
        /\ mem.streak \in [Scopes -> 0..Burst] /\ burst \in [Scopes -> Nat] /\ lag \in [Scopes -> Nat]
        /\ \A s \in Scopes : burst[s] <= mem.streak[s] /\ lag[s] <= Cardinality(Passed(s, mem.after))
        /\ \A s \in Scopes : Cardinality(Passed(s, mem.after)) \in Nat
        /\ DOMAIN mem = {"after", "streak", "anchor", "behind"}
    BY DriverBoundAssumption, PassedBound DEF Shape, Turns, ColdStart
  <1>1. ASSUME UNCHANGED history, mem'.streak = mem.streak, mem'.after = mem.after
        PROVE  Turns'
    BY <1>0, <1>1 DEF Turns, history, Passed
  <1>2. CASE UNCHANGED <<history, mem>> BY <1>2, <1>1
  <1>3. CASE \E roster \in Rosters : Begin(roster)
    <2>1. PICK roster \in Rosters : Begin(roster) BY <1>3
    <2>2. /\ mem'.after = mem.after
          /\ mem'.streak = [s \in Scopes |-> IF s \in roster THEN mem.streak[s] ELSE 0]
      BY <2>1, <1>0 DEF Begin, Pruned
    <2>3. /\ lag' = [s \in Scopes |-> IF s \in roster THEN lag[s] ELSE 0]
          /\ burst' = [s \in Scopes |-> IF s \in roster THEN burst[s] ELSE 0]
      BY <2>1 DEF Begin
    <2>4. mem'.streak \in [Scopes -> 0..Burst] BY <1>0, <2>2
    <2>5. burst' \in [Scopes -> Nat] /\ lag' \in [Scopes -> Nat] BY <1>0, <2>3
    <2>6. ASSUME NEW s \in Scopes
          PROVE  burst'[s] <= mem'.streak[s] /\ lag'[s] <= Cardinality(Passed(s, mem'.after))
      BY <1>0, <2>2, <2>3
    <2> QED BY <2>4, <2>5, <2>6 DEF Turns, Passed
  <1>4. CASE StartVisit
    <2> DEFINE s == NextScope(call.roster, mem.after)
    <2>1. /\ mem'.after = s /\ mem'.streak = mem.streak /\ UNCHANGED burst
          /\ lag' = [t \in Scopes |-> IF t = s \/ t \notin call.roster THEN 0 ELSE lag[t] + 1]
          /\ call.roster \in Rosters
      BY <1>4, <1>0 DEF StartVisit, PassOK
    <2>2. s \in Nat BY <2>1, <1>0, Turning
    <2>3. lag' \in [Scopes -> Nat] BY <1>0, <2>1
    <2>4. ASSUME NEW t \in Scopes PROVE lag'[t] <= Cardinality(Passed(t, s))
      <3>1. Cardinality(Passed(t, s)) \in Nat BY <2>2, PassedBound
      <3>2. CASE t = s \/ t \notin call.roster
        <4>1. lag'[t] = 0 BY <2>1, <3>2
        <4> QED BY <3>1, <4>1
      <3>3. CASE t # s /\ t \in call.roster
        <4>1. Cardinality(Passed(t, mem.after)) + 1 <= Cardinality(Passed(t, s))
          BY <3>3, <2>1, <1>0, TurnTaken
        <4>2. lag'[t] = lag[t] + 1 BY <2>1, <3>3
        <4> QED BY <1>0, <3>1, <4>1, <4>2
      <3> QED BY <3>2, <3>3
    <2> HIDE DEF s
    <2> QED BY <1>0, <2>1, <2>3, <2>4 DEF Turns, Passed
  <1>5. CASE (\E e \in Effects : Resume(e)) \/ NothingResumed
    <2>1. \E x : mem' = [mem EXCEPT !.anchor = x] /\ UNCHANGED history
      BY <1>5 DEF Resume, NothingResumed, LookAt
    <2> QED BY <2>1, <1>0, <1>1
  <1>6. CASE \E e \in Effects : Arrive(e)
    <2>1. \E x, y : mem' = [mem EXCEPT !.behind = x, !.anchor = y] /\ UNCHANGED history
      BY ZenonT(60), <1>6 DEF Arrive
    <2> QED BY <2>1, <1>0, <1>1
  <1>7. CASE \E upto \in LastWritten : Crash(upto)
    <2>1. /\ mem' = ColdStart /\ burst' = [s \in Scopes |-> 0] /\ lag' = [s \in Scopes |-> 0]
      BY <1>7 DEF Crash
    <2>2. mem'.after = 0 /\ mem'.streak = [s \in Scopes |-> 0] BY <2>1 DEF ColdStart
    <2>3. \A s \in Scopes : Cardinality(Passed(s, 0)) \in Nat BY PassedBound
    <2> QED BY <1>0, <2>1, <2>2, <2>3 DEF Turns, Passed
  <1>8. CASE Discover
    <2> DEFINE s == visit.scope
               found == {e \in In(s) : Open(e)}
               host == Unattempted(found) \cap HostKind
               business == Unattempted(found) \cap Business
               class == ChosenClass(s, host, business)
    <2>1. CASE UNCHANGED <<mem, burst>> BY <2>1, <1>8, <1>2 DEF Discover, history
    <2>2. CASE ~UNCHANGED <<mem, burst>>
      <3>1. /\ \E x : mem' = [mem EXCEPT !.behind = x,
                               !.streak[s] = IF class = "business" THEN 0
                                             ELSE IF @ < Burst THEN @ + 1 ELSE Burst]
            /\ burst' = [burst EXCEPT ![s] = IF class = "host" /\ business # {} THEN @ + 1 ELSE 0]
            /\ UNCHANGED lag
        BY <1>8, <2>2 DEF Discover
      <3>2. class = "host" /\ business # {} => mem.streak[s] # Burst
        BY DEF ChosenClass
      <3> HIDE DEF s, class, business
      <3> DEFINE step == IF class = "business" THEN 0
                         ELSE IF mem.streak[s] < Burst THEN mem.streak[s] + 1 ELSE Burst
                 more == IF class = "host" /\ business # {} THEN burst[s] + 1 ELSE 0
      <3>3. /\ mem'.after = mem.after
            /\ mem'.streak = [mem.streak EXCEPT ![s] = step]
            /\ burst' = [burst EXCEPT ![s] = more]
        BY <3>1, <1>0
      <3>4. s \in Scopes => step \in 0..Burst /\ more \in Nat /\ more <= step
        BY <1>0, <3>2
      <3> HIDE DEF step, more
      <3>5. mem'.streak \in [Scopes -> 0..Burst] BY <1>0, <3>3, <3>4
      <3>6. burst' \in [Scopes -> Nat] BY <1>0, <3>3, <3>4
      <3>7. ASSUME NEW t \in Scopes PROVE burst'[t] <= mem'.streak[t]
        BY <1>0, <3>3, <3>4
      <3>8. ASSUME NEW t \in Scopes PROVE lag'[t] <= Cardinality(Passed(t, mem'.after))
        BY <1>0, <3>1, <3>3
      <3> QED BY <1>0, <3>1, <3>5, <3>6, <3>7, <3>8 DEF Turns, Passed
    <2> QED BY <2>1, <2>2
  <1> QED
    BY <1>2, <1>3, <1>4, <1>5, <1>6, <1>7, <1>8
    DEF Next, Drive, Environment, Reconcile, BudgetExhausted, Reconciled, Orphans, Scan, Sweep,
        Claim, ClaimRaises, Execute, ClaimGone, CloseVisit, Raise, ExpireLease, RivalClaims,
        RivalSettles, RivalSweeps, Withdraw, history

-----------------------------------------------------------------------------
(* What a pass has established. *)

\* What was closed stays closed and what was open stays known, until a new
\* effect takes the slot, which is then none of those the pass began with.
LEMMA Standing ==
  ASSUME Shape, Next, NEW e \in call.since, e \in call'.since
  PROVE  /\ Closed(e) => Closed(e)'
         /\ db[e].status # "absent" => db'[e].status # "absent"
  <1>0. /\ db \in [Effects -> Row] /\ e \in Effects /\ DOMAIN db = Effects
        /\ DOMAIN db[e] = {"status", "fence", "live", "rival"}
        /\ DOMAIN call = DOMAIN NoCall
    BY DEF Shape, Row
  <1>1. CASE UNCHANGED db BY <1>1 DEF Closed
  <1>2. ASSUME NEW x, NEW v, db' = [db EXCEPT ![x] = v],
               x = e => (~Closed(e) /\ v.status # "absent") \/ v.status = "closed"
        PROVE  /\ Closed(e) => Closed(e)'
               /\ db[e].status # "absent" => db'[e].status # "absent"
    BY <1>0, <1>2 DEF Closed
  <1>3. ASSUME NEW x, db' = [db EXCEPT ![x].status = "closed", ![x].live = FALSE]
        PROVE  /\ Closed(e) => Closed(e)'
               /\ db[e].status # "absent" => db'[e].status # "absent"
    BY <1>0, <1>3 DEF Closed
  <1>4. CASE \E x \in Effects : Reconcile(x) BY <1>4, <1>1, <1>3 DEF Reconcile
  <1>5. CASE \E taken \in SUBSET Effects : \E reset \in SUBSET taken : Sweep(taken, reset)
    <2>1. PICK taken \in SUBSET Effects, reset \in SUBSET Effects : Sweep(taken, reset) BY <1>5
    <2>2. e \in reset => ~Closed(e) BY <2>1 DEF Sweep, LeaseOver, Closed
    <2>3. db'[e] = IF e \in reset THEN [db[e] EXCEPT !.status = "ready"]
                   ELSE IF e \in taken THEN [db[e] EXCEPT !.status = "closed"] ELSE db[e]
      BY <1>0, <2>1 DEF Sweep
    <2> QED BY <1>0, <2>2, <2>3 DEF Closed
  <1>6. ASSUME NEW x, NEW r, x = e => Grants(x), db' = [db EXCEPT ![x] = Claimed(x, r)]
        PROVE  /\ Closed(e) => Closed(e)'
               /\ db[e].status # "absent" => db'[e].status # "absent"
    <2>1. x = e => ~Closed(e) BY <1>6 DEF Grants, LeaseOver, Closed
    <2>2. Claimed(x, r).status = "claimed" BY DEF Claimed
    <2> QED BY <1>2, <1>6, <2>1, <2>2
  <1>7. CASE Claim
    <2>1. CASE Grants(visit.effect) BY <2>1, <1>6, <1>7 DEF Claim
    <2>2. CASE ~Grants(visit.effect) BY <2>2, <1>1, <1>7 DEF Claim
    <2> QED BY <2>1, <2>2
  <1>8. CASE \E io, settled \in BOOLEAN : Execute(io, settled) BY <1>8, <1>1, <1>3 DEF Execute
  <1>9. CASE \E x \in Effects : ExpireLease(x)
    BY <1>0, <1>9 DEF ExpireLease, Closed
  <1>10. CASE \E x \in Effects : Arrive(x)
    <2>1. PICK x \in Effects : Arrive(x) BY <1>10
    <2>2. call'.since = call.since \ {x} BY <1>0, <2>1 DEF Arrive, NoCall
    <2>3. x # e BY <2>2
    <2>4. db' = [db EXCEPT ![x] = Fresh] BY <2>1 DEF Arrive
    <2> QED BY <1>2, <2>3, <2>4
  <1>11. CASE \E x \in Effects : RivalClaims(x) BY <1>6, <1>11 DEF RivalClaims
  <1>12. CASE \E x \in Effects : RivalSettles(x) BY <1>3, <1>12 DEF RivalSettles
  <1>13. CASE \E x \in Effects : RivalSweeps(x)
    <2>1. PICK x \in Effects, st \in {"ready", "closed"} :
            db[x].status = "claimed" /\ db' = [db EXCEPT ![x].status = st]
      BY <1>13 DEF RivalSweeps, LeaseOver
    <2> QED BY <1>0, <2>1 DEF Closed
  <1>14. CASE \E x \in Effects : Withdraw(x)
    BY <1>0, <1>14 DEF Withdraw, Closed
  <1> QED
    BY <1>1, <1>4, <1>5, <1>7, <1>8, <1>9, <1>10, <1>11, <1>12, <1>13, <1>14
    DEF Next, Drive, Environment, Begin, StartVisit, BudgetExhausted, Reconciled, Orphans,
        Resume, NothingResumed, Scan, Discover, ClaimRaises, ClaimGone, CloseVisit, Raise, Crash, kernel

\* Steps that leave the sets of the invocation alone, but for effects replaced.
LEMMA PassKept ==
  ASSUME Shape, PassOK, Next,
         call'.roster = call.roster, call'.stop = call.stop, call'.visited = call.visited,
         call'.pending = call.pending, call'.since \subseteq call.since,
         pc' # "off" => pc # "off"
  PROVE  PassOK'
  <1>1. pc' # "off" => call'.stop = "none" /\ call'.roster \in Rosters BY DEF PassOK
  <1>2. ASSUME NEW e \in call'.since PROVE db'[e].status # "absent"
    BY Standing DEF PassOK
  <1>3. ASSUME NEW e \in call'.since, ScopeOf[e] \in call'.visited \ call'.pending
        PROVE  Closed(e)'
    BY <1>3, Standing DEF PassOK
  <1> QED BY <1>1, <1>2, <1>3 DEF PassOK

\* Steps that leave what the visit found alone.
LEMMA VisitKept ==
  ASSUME Shape, VisitOK, Next,
         visit'.fresh = visit.fresh, visit'.found = visit.found, visit'.scope = visit.scope,
         call'.since \subseteq call.since,
         visit.fresh => pc' \in {"claim", "execute", "close"},
         pc' = "close" => pc = "close" \/ visit.fresh
  PROVE  VisitOK'
  <1>1. ASSUME pc' = "close" \/ visit'.fresh, NEW e \in call'.since, ScopeOf[e] = visit'.scope
        PROVE  e \in visit'.found \/ Closed(e)'
    BY <1>1, Standing DEF VisitOK
  <1> QED BY <1>1 DEF VisitOK

\* An invocation that goes on, or ends otherwise than idle, reports nothing.
LEMMA NotIdle ==
  ASSUME PassOK', pc' # "off" \/ call'.stop # "idle"
  PROVE  IdleIsTrue'
  BY DEF PassOK, IdleIsTrue

\* An exception ends the invocation and the visit.
LEMMA Stopped ==
  ASSUME Shape, PassOK, Next, NEW r \in {"raised", "budget_exhausted"}, Stop(r)
  PROVE  PassOK' /\ VisitOK' /\ IdleIsTrue'
  <1>1. /\ call'.roster = call.roster /\ call'.since = call.since /\ call'.stop = r
        /\ call'.visited = {} /\ pc' = "off" /\ visit'.fresh = FALSE
    BY DEF Stop, Ended, NoCall, NoVisit, Goto
  <1>2. \A e \in call'.since : db'[e].status # "absent" BY <1>1, Standing DEF PassOK
  <1>3. PassOK' BY <1>1, <1>2 DEF PassOK
  <1>4. VisitOK' BY <1>1 DEF VisitOK
  <1> QED BY <1>1, <1>3, <1>4, NotIdle

\* While no invocation runs, the verdict of the last one stays true.
LEMMA VerdictStands ==
  ASSUME Shape, IdleIsTrue, Next,
         call'.stop = call.stop, call'.roster = call.roster, call'.since \subseteq call.since,
         UNCHANGED journal \/ \E e \in Effects : journal' = [journal EXCEPT ![e] = NoEntry]
  PROVE  IdleIsTrue'
  <1> SUFFICES ASSUME call.stop = "idle"
               PROVE  /\ JournalIds' = {}
                      /\ \A e \in call'.since : ScopeOf[e] \in call'.roster => Closed(e)'
    BY DEF IdleIsTrue, Closed
  <1>1. JournalIds = {} /\ \A e \in call.since : ScopeOf[e] \in call.roster => Closed(e)
    BY DEF IdleIsTrue, Closed
  <1>2. ASSUME NEW e \in Effects, NEW x \in Effects, journal' = [journal EXCEPT ![e] = NoEntry]
        PROVE  journal'[x] = journal[x] \/ journal'[x].prepared = 0
    BY <1>2 DEF Shape, NoEntry
  <1>3. JournalIds' = {} BY <1>1, <1>2 DEF JournalIds
  <1> QED BY <1>1, <1>3, Standing

\* A visit that closes with nothing found, nothing left and nothing owed shows
\* that what its scope had open when the pass began is closed.
LEMMA Closes ==
  ASSUME Shape, PassOK, VisitOK, Next, CloseVisit
  PROVE  PassOK' /\ VisitOK' /\ IdleIsTrue'
  <1> DEFINE s == visit.scope
             left == pc = "blocked" \/ LeftOver(s)
             visited == call.visited \cup {s}
             pending == IF left THEN call.pending \cup {s} ELSE call.pending \ {s}
  <1>1. /\ call'.roster = call.roster
        /\ \/ /\ pc' = "off" /\ visited = call.roster
              /\ call'.visited = {} /\ call'.since = call.since
              /\ call'.stop = "idle" => pending = {} /\ JournalIds = {}
           \/ /\ pc' = "next" /\ call'.stop = call.stop /\ call'.pending = pending
              /\ \/ call'.visited = {} /\ call'.since = {e \in Effects : Open(e)}
                 \/ call'.visited = visited /\ call'.since = call.since
    BY Closing
  <1>2. /\ pc \in {"blocked", "close"} /\ pc # "off" /\ visit' = NoVisit
        /\ UNCHANGED <<db, journal>>
    BY DEF CloseVisit, kernel, books
  <1>3. \A e \in Effects : Closed(e)' <=> Closed(e) BY <1>2 DEF Closed
  <1>4. call.since \subseteq Effects BY DEF Shape
  <1>5. ASSUME NEW e \in call.since, ScopeOf[e] \in visited \ pending PROVE Closed(e)
    <2>1. CASE ScopeOf[e] = s
      <3>1. ~left BY <1>5, <2>1
      <3>2. pc = "close" /\ visit.found = {} BY <1>2, <3>1 DEF LeftOver
      <3> QED BY <2>1, <3>2 DEF VisitOK
    <2>2. CASE ScopeOf[e] # s
      <3>1. ScopeOf[e] \in call.visited \ call.pending BY <1>5, <2>2
      <3> QED BY <3>1 DEF PassOK
    <2> QED BY <2>1, <2>2
  <1> HIDE DEF s, left, visited, pending
  <1>6. VisitOK' BY <1>1, <1>2 DEF VisitOK, NoVisit
  <1>7. \A e \in call'.since : db'[e].status # "absent"
    BY <1>1, <1>2 DEF PassOK, Open
  <1>8. PassOK'
    <2>1. pc' # "off" => call'.stop = "none" /\ call'.roster \in Rosters
      BY <1>1, <1>2 DEF PassOK
    <2>2. ASSUME NEW e \in call'.since, ScopeOf[e] \in call'.visited \ call'.pending
          PROVE  Closed(e)'
      <3>1. e \in call.since /\ ScopeOf[e] \in visited \ pending BY <1>1, <2>2
      <3> QED BY <1>3, <1>4, <1>5, <3>1
    <2> QED BY <1>7, <2>1, <2>2 DEF PassOK
  <1>9. IdleIsTrue'
    <2>1. CASE pc' # "off" \/ call'.stop # "idle" BY <1>8, <2>1, NotIdle
    <2>2. CASE pc' = "off" /\ call'.stop = "idle"
      <3>1. /\ visited = call'.roster /\ call'.since = call.since /\ pending = {}
            /\ JournalIds = {}
        BY <1>1, <2>2
      <3>2. JournalIds' = {} BY <1>2, <3>1 DEF JournalIds
      <3>3. ASSUME NEW e \in call'.since, ScopeOf[e] \in call'.roster PROVE Closed(e)'
        BY <1>3, <1>4, <1>5, <3>1, <3>3
      <3> QED BY <3>2, <3>3 DEF IdleIsTrue, Closed
    <2> QED BY <2>1, <2>2
  <1> QED BY <1>6, <1>8, <1>9

\* Every step keeps what a pass and a visit have established.
LEMMA PassStep ==
  ASSUME Shape, PassOK, VisitOK, IdleIsTrue, Next
  PROVE  PassOK' /\ VisitOK' /\ IdleIsTrue'
  <1> DEFINE Kept == PassOK' /\ VisitOK' /\ IdleIsTrue'
  <1>0. /\ DOMAIN call = DOMAIN NoCall /\ DOMAIN visit = DOMAIN NoVisit
        /\ DOMAIN NoCall = {"roster", "attempted", "visited", "pending", "progress", "rounds",
                            "since", "stop"}
        /\ DOMAIN NoVisit = {"scope", "todo", "found", "expired", "more", "progress", "fresh",
                             "reread", "effect", "fence"}
    BY DEF Shape, NoCall, NoVisit
  <1>1. ASSUME NEW x, call' = [call EXCEPT !.attempted = x] \/ call' = [call EXCEPT !.rounds = x]
                        \/ UNCHANGED call
        PROVE  /\ call'.roster = call.roster /\ call'.stop = call.stop
               /\ call'.visited = call.visited /\ call'.pending = call.pending
               /\ call'.since = call.since
    BY <1>0, <1>1
  <1>2. CASE \E roster \in Rosters : Begin(roster)
    <2>1. PICK roster \in Rosters : Begin(roster) BY <1>2
    <2>2. /\ call'.stop = "none" /\ call'.roster = roster /\ call'.visited = {}
          /\ call'.since = {e \in Effects : Open(e)} /\ pc' = "next"
          /\ UNCHANGED <<db, visit>> /\ pc = "off"
      BY <2>1 DEF Begin, NoCall, Goto, kernel
    <2>3. PassOK' BY <2>2 DEF PassOK, Open
    <2>4. VisitOK' BY <2>2 DEF VisitOK
    <2> QED BY <2>2, <2>3, <2>4, NotIdle
  <1>3. CASE StartVisit
    <2>1. pc = "next" /\ pc' = "reconcile" /\ call' = [call EXCEPT !.rounds = @ + 1]
          /\ visit'.fresh = FALSE
      BY <1>3 DEF StartVisit, Goto, NoVisit
    <2>2. PassOK' BY <1>1, <2>1, PassKept
    <2>3. VisitOK' BY <2>1 DEF VisitOK
    <2> QED BY <2>1, <2>2, <2>3, NotIdle
  <1>4. CASE BudgetExhausted \/ \E upto \in LastWritten : Raise(upto)
    BY <1>4, Stopped DEF BudgetExhausted, Raise
  <1>5. ASSUME pc \notin {"off", "claim", "execute", "close"}, UNCHANGED call,
               pc' \notin {"off", "close"}, visit'.fresh = visit.fresh
        PROVE  Kept
    <2>1. visit'.fresh => FALSE BY <1>5 DEF VisitOK
    <2>2. PassOK' BY <1>1, <1>5, PassKept
    <2>3. VisitOK' BY <1>5, <2>1 DEF VisitOK
    <2> QED BY <1>5, <2>2, <2>3, NotIdle
  <1>6. CASE \E e \in Effects : Reconcile(e)
    <2>1. \E x, y : visit' = [visit EXCEPT !.todo = x, !.progress = y]
                     \/ visit' = [visit EXCEPT !.todo = x]
      BY <1>6 DEF Reconcile
    <2>2. visit'.fresh = visit.fresh BY <1>0, <2>1
    <2> QED BY <1>5, <1>6, <2>2 DEF Reconcile
  <1>7. CASE Reconciled \/ Scan BY <1>5, <1>7 DEF Reconciled, Scan, Goto
  <1>8. CASE Orphans
    <2>1. pc \in {"orphan1", "orphan2", "orphan3"} /\ UNCHANGED call
          /\ pc' \in {"blocked", "resume", "scan", "discover"}
      BY <1>8 DEF Orphans, AfterOrphans, Goto
    <2>2. \E x, y : visit' = [visit EXCEPT !.progress = x, !.expired = y] BY <1>8 DEF Orphans
    <2>3. visit'.fresh = visit.fresh BY <1>0, <2>2
    <2> QED BY <1>5, <2>1, <2>3
  <1>9. CASE (\E e \in Effects : Resume(e)) \/ NothingResumed
    <2>1. pc = "resume" /\ UNCHANGED call /\ pc' \in {"orphan2", "claim", "execute"}
      BY <1>9 DEF Resume, NothingResumed, Goto
    <2>2. \/ \E x : visit' = [visit EXCEPT !.progress = x]
          \/ \E x, y, z : visit' = [visit EXCEPT !.progress = x, !.effect = y, !.fence = z]
      <3>1. CASE NothingResumed BY <3>1 DEF NothingResumed
      <3>2. CASE \E e \in Effects : Resume(e)
        <4>1. PICK e \in Effects : Resume(e) BY <3>2
        <4>2. \E x : visit' = [visit EXCEPT !.progress = x, !.effect = e, !.fence = db[e].fence]
          BY <4>1 DEF Resume
        <4> QED BY <4>2
      <3> QED BY <1>9, <3>1, <3>2
    <2>3. visit'.fresh = visit.fresh BY <1>0, <2>2
    <2> QED BY <1>5, <2>1, <2>3
  <1>10. CASE \E taken \in SUBSET Effects : \E reset \in SUBSET taken : Sweep(taken, reset)
    <2>1. pc = "sweep" /\ UNCHANGED call /\ pc' = "orphan3" BY <1>10 DEF Sweep, Goto
    <2>2. \E x, y : visit' = [visit EXCEPT !.more = x, !.progress = y] BY <1>10 DEF Sweep
    <2>3. visit'.fresh = visit.fresh BY <1>0, <2>2
    <2> QED BY <1>5, <2>1, <2>3
  <1>11. CASE Discover
    <2>1. /\ pc = "discover" /\ UNCHANGED <<call, db>> /\ pc' \in {"close", "claim"}
          /\ pc' = "close" => visit' = [visit EXCEPT !.found = {e \in In(visit.scope) : Open(e)}]
          /\ pc' = "claim" => \E x : visit' = [visit EXCEPT
                                !.found = {e \in In(visit.scope) : Open(e)}, !.effect = x, !.fresh = TRUE]
      BY <1>11 DEF Discover, Goto, kernel
    <2>2. /\ visit'.found = {e \in In(visit.scope) : Open(e)} /\ visit'.scope = visit.scope
          /\ visit'.fresh => pc' = "claim" \/ visit.fresh
      BY <1>0, <2>1
    <2>3. PassOK' BY <1>1, <2>1, PassKept
    <2>4. ASSUME NEW e \in call'.since, ScopeOf[e] = visit'.scope
          PROVE  e \in visit'.found \/ Closed(e)'
      <3>1. e \in Effects /\ db[e] \in Row /\ db[e].status # "absent"
        BY <2>1 DEF Shape, PassOK
      <3>2. Open(e) \/ Closed(e) BY <3>1 DEF Row, Open, Closed
      <3> QED BY <2>1, <2>2, <2>4, <3>1, <3>2 DEF In, Closed
    <2>5. VisitOK' BY <2>1, <2>2, <2>4 DEF VisitOK
    <2> QED BY <2>1, <2>3, <2>5, NotIdle
  <1>12. ASSUME pc \in {"claim", "execute"}, pc' \in {"execute", AfterWork},
                NEW x, call' = [call EXCEPT !.attempted = x] \/ UNCHANGED call,
                visit'.fresh = visit.fresh, visit'.found = visit.found, visit'.scope = visit.scope
         PROVE  Kept
    <2>1. PassOK' BY <1>1, <1>12, PassKept
    <2>2. VisitOK' BY <1>1, <1>12, VisitKept DEF AfterWork
    <2> QED BY <1>12, <2>1, <2>2, NotIdle DEF AfterWork
  <1>13. CASE Claim
    <2>1. pc = "claim" /\ pc' \in {"execute", AfterWork}
          /\ call' = [call EXCEPT !.attempted = @ \cup {visit.effect}]
      BY <1>13 DEF Claim, Goto
    <2>2. UNCHANGED visit \/ \E y : visit' = [visit EXCEPT !.fence = y, !.reread = TRUE]
      BY <1>13 DEF Claim
    <2>3. visit'.fresh = visit.fresh /\ visit'.found = visit.found /\ visit'.scope = visit.scope
      BY <1>0, <2>2
    <2> QED BY <1>12, <2>1, <2>3
  <1>14. CASE ClaimRaises
    <2>1. CASE Stop("raised") BY <2>1, Stopped
    <2>2. CASE ~Stop("raised")
      <3>1. pc = "claim" /\ pc' = AfterWork /\ UNCHANGED visit
            /\ call' = [call EXCEPT !.attempted = @ \cup {visit.effect}]
        BY <1>14, <2>2 DEF ClaimRaises, Goto
      <3> QED BY <1>12, <3>1
    <2> QED BY <2>1, <2>2
  <1>15. CASE \E io, settled \in BOOLEAN : Execute(io, settled)
    <2>1. pc = "execute" /\ pc' = AfterWork /\ UNCHANGED call BY <1>15 DEF Execute, Goto
    <2>2. \E y : visit' = [visit EXCEPT !.progress = y] BY <1>15 DEF Execute
    <2>3. visit'.fresh = visit.fresh /\ visit'.found = visit.found /\ visit'.scope = visit.scope
      BY <1>0, <2>2
    <2> QED BY <1>12, <2>1, <2>3
  <1>16. CASE ClaimGone BY <1>12, <1>16 DEF ClaimGone, Goto
  <1>17. CASE CloseVisit BY <1>17, Closes
  <1>18. CASE \E upto \in LastWritten : Crash(upto)
    <2>1. pc' = "off" /\ call' = NoCall /\ visit' = NoVisit BY <1>18 DEF Crash, Goto
    <2>2. call'.since = {} /\ call'.stop = "none" /\ visit'.fresh = FALSE
      BY <2>1 DEF NoCall, NoVisit
    <2> QED BY <2>1, <2>2 DEF PassOK, VisitOK, IdleIsTrue
  <1>19. ASSUME UNCHANGED <<visit, pc>>,
                call'.roster = call.roster, call'.stop = call.stop, call'.visited = call.visited,
                call'.pending = call.pending, call'.since \subseteq call.since,
                UNCHANGED journal \/ \E e \in Effects : journal' = [journal EXCEPT ![e] = NoEntry]
         PROVE  Kept
    <2>1. PassOK' BY <1>19, PassKept
    <2>2. VisitOK' BY <1>19, VisitKept DEF VisitOK
    <2>3. IdleIsTrue' BY <1>19, VerdictStands
    <2> QED BY <2>1, <2>2, <2>3
  <1>20. CASE \E e \in Effects : Arrive(e)
    <2>1. PICK e \in Effects : Arrive(e) BY <1>20
    <2>2. /\ call' = [call EXCEPT !.attempted = @ \ {e}, !.since = @ \ {e}]
          /\ journal' = [journal EXCEPT ![e] = NoEntry] /\ UNCHANGED <<visit, pc>>
      BY <2>1 DEF Arrive
    <2>3. /\ call'.roster = call.roster /\ call'.stop = call.stop /\ call'.visited = call.visited
          /\ call'.pending = call.pending /\ call'.since = call.since \ {e}
      BY <1>0, <2>2
    <2> QED BY <1>19, <2>2, <2>3
  <1>21. CASE \E e \in Effects : ExpireLease(e) \/ RivalClaims(e) \/ RivalSettles(e)
                                   \/ RivalSweeps(e) \/ Withdraw(e)
    BY <1>19, <1>21 DEF ExpireLease, RivalClaims, RivalSettles, RivalSweeps, Withdraw, books
  <1> QED
    BY <1>2, <1>3, <1>4, <1>6, <1>7, <1>8, <1>9, <1>10, <1>11, <1>13, <1>14, <1>15, <1>16, <1>17,
       <1>18, <1>20, <1>21
    DEF Next, Drive, Environment

-----------------------------------------------------------------------------
(* Queues. *)

\* The indices of such a sequence, in a form the provers use.
LEMMA Indices ==
  ASSUME NEW s, NEW S
  PROVE  Lists(s, S) <=> /\ s \in Seq(Effects)
                         /\ \A i \in 1..Len(s) : s[i] \in S
                         /\ \A x \in S : \E i \in 1..Len(s) : s[i] = x
                         /\ \A i, j \in 1..Len(s) : s[i] = s[j] => i = j
  <1>1. ASSUME s \in Seq(Effects)
        PROVE  Range(s) = S <=> /\ \A i \in 1..Len(s) : s[i] \in S
                                /\ \A x \in S : \E i \in 1..Len(s) : s[i] = x
    <2>1. DOMAIN s = 1..Len(s) BY <1>1
    <2>2. Range(s) = {s[i] : i \in 1..Len(s)} BY <2>1 DEF Range
    <2>3. ASSUME Range(s) = S
          PROVE  /\ \A i \in 1..Len(s) : s[i] \in S
                 /\ \A x \in S : \E i \in 1..Len(s) : s[i] = x
      BY Zenon, <2>2, <2>3
    <2>4. ASSUME /\ \A i \in 1..Len(s) : s[i] \in S
                 /\ \A x \in S : \E i \in 1..Len(s) : s[i] = x
          PROVE  Range(s) = S
      BY Zenon, <2>2, <2>4
    <2> QED BY <2>3, <2>4
  <1>2. ASSUME s \in Seq(Effects)
        PROVE  IsInjective(s) <=> \A i, j \in 1..Len(s) : s[i] = s[j] => i = j
    <2>1. DOMAIN s = 1..Len(s) BY <1>2
    <2> QED BY Zenon, <2>1 DEF IsInjective
  <1> QED BY <1>1, <1>2 DEF Lists

\* A new slot goes to the end.
LEMMA Enlist ==
  ASSUME NEW s, NEW S, Lists(s, S), NEW e \in Effects, e \notin S
  PROVE  Lists(Append(s, e), S \cup {e})
  <1>1. /\ s \in Seq(Effects) /\ Len(s) \in Nat
        /\ \A i \in 1..Len(s) : s[i] \in S
        /\ \A x \in S : \E i \in 1..Len(s) : s[i] = x
        /\ \A i, j \in 1..Len(s) : s[i] = s[j] => i = j
    BY Indices
  <1> PICK t : t = Append(s, e) OBVIOUS
  <1>2. /\ t \in Seq(Effects) /\ Len(t) = Len(s) + 1 /\ t[Len(s) + 1] = e
        /\ \A i \in 1..Len(s) : t[i] = s[i]
    BY <1>1
  <1>3. ASSUME NEW i \in 1..Len(t) PROVE t[i] \in S \cup {e}
    BY <1>1, <1>2
  <1>4. ASSUME NEW x \in S \cup {e} PROVE \E i \in 1..Len(t) : t[i] = x
    <2>1. CASE x = e BY <1>1, <1>2, <2>1
    <2>2. CASE x \in S
      <3>1. PICK i \in 1..Len(s) : s[i] = x BY <1>1, <2>2
      <3>2. i \in 1..Len(t) /\ t[i] = x BY <1>1, <1>2, <3>1
      <3> QED BY <3>2
    <2> QED BY <2>1, <2>2
  <1>5. ASSUME NEW i \in 1..Len(t), NEW j \in 1..Len(t), t[i] = t[j] PROVE i = j
    <2>1. CASE i = Len(s) + 1 BY <1>1, <1>2, <1>5, <2>1
    <2>2. CASE j = Len(s) + 1 BY <1>1, <1>2, <1>5, <2>2
    <2>3. CASE i # Len(s) + 1 /\ j # Len(s) + 1 BY <1>1, <1>2, <1>5, <2>3
    <2> QED BY <2>1, <2>2, <2>3
  <1>6. Lists(t, S \cup {e}) BY Zenon, <1>2, <1>3, <1>4, <1>5, Indices
  <1> QED BY <1>6

\* A slot that is taken out leaves the others as they were.
LEMMA Unlist ==
  ASSUME NEW s, NEW S, Lists(s, S), NEW e
  PROVE  Lists(Without(s, e), S \ {e})
  <1>1. /\ s \in Seq(Effects) /\ Len(s) \in Nat /\ Range(s) = S
        /\ \A i \in 1..Len(s) : s[i] \in S
        /\ \A x \in S : \E i \in 1..Len(s) : s[i] = x
        /\ \A i, j \in 1..Len(s) : s[i] = s[j] => i = j
    <2>1. s \in Seq(Effects) /\ Range(s) = S BY DEF Lists
    <2> QED BY <2>1, Indices
  <1>2. CASE e \notin S
    <2>1. S \ {e} = S /\ Without(s, e) = s BY <1>1, <1>2 DEF Without
    <2> QED BY <2>1
  <1>3. CASE e \in S
    <2>1. \E i \in 1..Len(s) : s[i] = e BY <1>1, <1>3
    <2> PICK at : at = Position(s, e) OBVIOUS
    <2>2. at \in 1..Len(s) /\ s[at] = e BY <2>1 DEF Position
    <2> PICK t : t = RemoveAt(s, at) OBVIOUS
    <2>3. t = Without(s, e) BY <1>1, <1>3 DEF Without
    <2>4. /\ t \in Seq(Effects) /\ Len(t) = Len(s) - 1
          /\ \A i \in 1..Len(t) : t[i] = IF i < at THEN s[i] ELSE s[i + 1]
      <3> DEFINE u == SubSeq(s, 1, at - 1)
                 v == SubSeq(s, at + 1, Len(s))
      <3>1. /\ u \in Seq(Effects) /\ Len(u) = at - 1 /\ \A i \in 1..(at - 1) : u[i] = s[i]
        BY <1>1, <2>2
      <3>2. /\ v \in Seq(Effects) /\ Len(v) = Len(s) - at
            /\ \A i \in 1..(Len(s) - at) : v[i] = s[at + i]
        BY <1>1, <2>2
      <3>3. t = u \o v BY DEF RemoveAt
      <3> HIDE DEF u, v
      <3>4. t \in Seq(Effects) /\ Len(t) = Len(s) - 1 BY <1>1, <2>2, <3>1, <3>2, <3>3
      <3>5. ASSUME NEW i \in 1..Len(t) PROVE t[i] = IF i < at THEN s[i] ELSE s[i + 1]
        <4>0. /\ i \in 1..(Len(u) + Len(v))
              /\ t[i] = IF i <= Len(u) THEN u[i] ELSE v[i - Len(u)]
          <5>1. i \in 1..(Len(u) + Len(v)) BY <1>1, <2>2, <3>1, <3>2, <3>4
          <5>2. u \in Seq(Effects) /\ v \in Seq(Effects) BY <3>1, <3>2
          <5>3. (u \o v)[i] = IF i <= Len(u) THEN u[i] ELSE v[i - Len(u)]
            BY Zenon, <5>1, <5>2, ConcatProperties
          <5> QED BY Zenon, <3>3, <5>1, <5>3
        <4>1. CASE i < at BY <1>1, <2>2, <3>1, <4>0, <4>1
        <4>2. CASE ~(i < at)
          <5>1. t[i] = v[i - (at - 1)] BY <1>1, <2>2, <3>1, <4>0, <4>2
          <5>2. i - (at - 1) \in 1..(Len(s) - at) /\ at + (i - (at - 1)) = i + 1
            BY <1>1, <2>2, <3>4, <4>2
          <5>3. v[i - (at - 1)] = s[at + (i - (at - 1))] BY <3>2, <5>2
          <5> QED BY <4>2, <5>1, <5>2, <5>3
        <4> QED BY <4>1, <4>2
      <3> QED BY <3>4, <3>5
    <2>5. ASSUME NEW i \in 1..Len(t) PROVE t[i] \in S \ {e}
      BY <1>1, <2>2, <2>4
    <2>6. ASSUME NEW x \in S \ {e} PROVE \E i \in 1..Len(t) : t[i] = x
      <3>1. PICK i \in 1..Len(s) : s[i] = x BY <1>1
      <3>2. i # at BY <2>2, <3>1
      <3>3. CASE i < at
        <4>1. i \in 1..Len(t) /\ t[i] = x BY <1>1, <2>2, <2>4, <3>1, <3>3
        <4> QED BY <4>1
      <3>4. CASE i > at
        <4>1. i - 1 \in 1..Len(t) /\ ~(i - 1 < at) /\ (i - 1) + 1 = i BY <1>1, <2>2, <2>4, <3>4
        <4>2. t[i - 1] = x BY <2>4, <3>1, <4>1
        <4> QED BY <4>1, <4>2
      <3> QED BY <1>1, <2>2, <3>2, <3>3, <3>4
    <2>7. ASSUME NEW i \in 1..Len(t), NEW j \in 1..Len(t), t[i] = t[j] PROVE i = j
      <3>1. i \in 1..Len(s) /\ i + 1 \in 1..Len(s) /\ j \in 1..Len(s) /\ j + 1 \in 1..Len(s)
        BY <1>1, <2>4
      <3>2. CASE i < at /\ j < at BY <1>1, <2>4, <2>7, <3>1, <3>2
      <3>3. CASE i < at /\ ~(j < at)
        <4>1. s[i] = s[j + 1] BY <2>4, <2>7, <3>3
        <4>2. i = j + 1 BY <1>1, <3>1, <4>1
        <4> QED BY <2>2, <3>1, <3>3, <4>2
      <3>4. CASE ~(i < at) /\ j < at
        <4>1. s[i + 1] = s[j] BY <2>4, <2>7, <3>4
        <4>2. i + 1 = j BY <1>1, <3>1, <4>1
        <4> QED BY <2>2, <3>1, <3>4, <4>2
      <3>5. CASE ~(i < at) /\ ~(j < at)
        <4>1. s[i + 1] = s[j + 1] BY <2>4, <2>7, <3>5
        <4>2. i + 1 = j + 1 BY <1>1, <3>1, <4>1
        <4> QED BY <3>1, <4>2
      <3> QED BY <3>2, <3>3, <3>4, <3>5
    <2>8. Lists(t, S \ {e}) BY Zenon, <2>4, <2>5, <2>6, <2>7, Indices
    <2> QED BY <2>3, <2>8
  <1> QED BY <1>2, <1>3

\* The first slot of a set that a queue holds is a slot of the set.
LEMMA FirstListed ==
  ASSUME NEW s, NEW S, Lists(s, S), NEW T, T \subseteq S, T # {}
  PROVE  FirstOf(s, T) \in T
  <1>1. /\ s \in Seq(Effects) /\ Len(s) \in Nat
        /\ \A x \in S : \E i \in 1..Len(s) : s[i] = x
    BY Indices
  <1> DEFINE Less == {p \in Nat \X Nat : p[1] < p[2]}
             at == {i \in 1..Len(s) : s[i] \in T}
  <1>2. at \subseteq Nat /\ at # {} BY <1>1
  <1>3. IsWellFoundedOn(Less, Nat) BY NatLessThanWellFounded DEF OpToRel
  <1>4. \E i \in at : \A j \in at : ~(<<j, i>> \in Less)
    <2> HIDE DEF Less, at
    <2> QED BY <1>2, <1>3, WFMin
  <1>5. PICK i \in at : \A j \in at : ~(<<j, i>> \in Less) BY <1>4
  <1>6. ASSUME NEW j \in 1..(i - 1) PROVE s[j] \notin T
    <2>1. i \in Nat /\ j \in Nat /\ j < i /\ j \in 1..Len(s) BY <1>1
    <2>2. <<j, i>> \in Less BY <2>1
    <2> QED BY <1>5, <2>1, <2>2
  <1>7. i \in 1..Len(s) /\ s[i] \in T OBVIOUS
  <1>8. \E k \in 1..Len(s) : s[k] \in T /\ \A j \in 1..(k - 1) : s[j] \notin T
    BY <1>6, <1>7
  <1> HIDE DEF at, Less
  <1>9. PICK k : k = CHOOSE m \in 1..Len(s) : s[m] \in T /\ \A j \in 1..(m - 1) : s[j] \notin T
    OBVIOUS
  <1>10. s[k] \in T BY <1>8, <1>9
  <1> QED BY <1>9, <1>10 DEF FirstOf

-----------------------------------------------------------------------------
(* What the driver remembers. *)

\* Only an arrival makes an effect known: a step that moves one knew it.
LEMMA KnownKept ==
  ASSUME Shape, Next, ~\E x \in Effects : Arrive(x)
  PROVE  Known' = Known
  <1>0. /\ db \in [Effects -> Row] /\ DOMAIN db = Effects
        /\ \A e \in Effects : DOMAIN db[e] = {"status", "fence", "live", "rival"}
    BY DEF Shape, Row
  <1> DEFINE Same == \A e \in Effects : db'[e].status # "absent" <=> db[e].status # "absent"
  <1> SUFFICES Same BY Zenon DEF Known
  <1>1. ASSUME UNCHANGED db PROVE Same BY <1>1
  <1>2. ASSUME NEW x, NEW v, db' = [db EXCEPT ![x] = v],
               x \in Effects => db[x].status # "absent" /\ v.status # "absent"
        PROVE  Same
    BY <1>0, <1>2
  <1>3. ASSUME NEW x, x \in Effects => db[x].status # "absent",
               db' = [db EXCEPT ![x].status = "closed", ![x].live = FALSE]
        PROVE  Same
    BY <1>0, <1>3
  <1>4. CASE \E x \in Effects : Reconcile(x)
    BY <1>1, <1>3, <1>4 DEF Reconcile, Owned
  <1>5. CASE \E taken \in SUBSET Effects : \E reset \in SUBSET taken : Sweep(taken, reset)
    <2>1. PICK taken \in SUBSET Effects, reset \in SUBSET Effects : Sweep(taken, reset) BY <1>5
    <2>2. ASSUME NEW e \in Effects PROVE db'[e].status # "absent" <=> db[e].status # "absent"
      <3>1. reset \subseteq taken /\ (e \in taken => db[e].status = "claimed")
        BY <2>1 DEF Sweep, LeaseOver
      <3>2. db'[e] = IF e \in reset THEN [db[e] EXCEPT !.status = "ready"]
                     ELSE IF e \in taken THEN [db[e] EXCEPT !.status = "closed"] ELSE db[e]
        BY <1>0, <2>1 DEF Sweep
      <3> QED BY <1>0, <3>1, <3>2
    <2> QED BY <2>2
  <1>6. ASSUME NEW x, NEW r, Grants(x), db' = [db EXCEPT ![x] = Claimed(x, r)]
        PROVE  Same
    <2>1. db[x].status # "absent" BY <1>6 DEF Grants, LeaseOver
    <2>2. Claimed(x, r).status = "claimed" BY DEF Claimed
    <2> QED BY <1>2, <1>6, <2>1, <2>2
  <1>7. CASE Claim
    <2>1. CASE Grants(visit.effect) BY <2>1, <1>6, <1>7 DEF Claim
    <2>2. CASE ~Grants(visit.effect) BY <2>2, <1>1, <1>7 DEF Claim
    <2> QED BY <2>1, <2>2
  <1>8. CASE \E io, settled \in BOOLEAN : Execute(io, settled)
    BY <1>8, <1>1, <1>3 DEF Execute, Owned
  <1>9. CASE \E x \in Effects : ExpireLease(x)
    BY <1>0, <1>9 DEF ExpireLease
  <1>11. CASE \E x \in Effects : RivalClaims(x) BY <1>6, <1>11 DEF RivalClaims
  <1>12. CASE \E x \in Effects : RivalSettles(x) BY <1>3, <1>12 DEF RivalSettles
  <1>13. CASE \E x \in Effects : RivalSweeps(x)
    <2>1. PICK x \in Effects, st \in {"ready", "closed"} :
            db[x].status = "claimed" /\ db' = [db EXCEPT ![x].status = st]
      BY <1>13 DEF RivalSweeps, LeaseOver
    <2> QED BY <1>0, <2>1
  <1>14. CASE \E x \in Effects : Withdraw(x)
    BY <1>0, <1>14 DEF Withdraw
  <1> QED
    BY <1>1, <1>4, <1>5, <1>7, <1>8, <1>9, <1>11, <1>12, <1>13, <1>14
    DEF Next, Drive, Environment, Begin, StartVisit, BudgetExhausted, Reconciled, Orphans,
        Resume, NothingResumed, Scan, Discover, ClaimRaises, ClaimGone, CloseVisit, Raise, Crash, kernel

\* Records are only added to the journal, by an execution that holds a fence; an
\* effect that is replaced loses its own and its place.
LEMMA BooksStep ==
  ASSUME Shape, Books, Places, Next
  PROVE  Books'
  <1>0. /\ journal \in [Effects -> Entry] /\ DOMAIN journal = Effects
        /\ \A e \in Effects : journal[e] \in Entry
        /\ Lists(queue, Known) /\ Lists(order, Noted) /\ MaxFence \in Nat
        /\ visit.fence \in Fence
    BY DriverBoundAssumption DEF Books, Places
  <1>1. CASE \E x \in Effects : Arrive(x)
    <2>1. PICK e \in Effects : Arrive(e) BY <1>1
    <2>2. /\ db' = [db EXCEPT ![e] = Fresh] /\ journal' = [journal EXCEPT ![e] = NoEntry]
          /\ queue' = Append(Without(queue, e), e) /\ order' = Without(order, e)
      BY <2>1 DEF Arrive
    <2>3. NoEntry \in Entry /\ NoEntry.prepared = 0 BY <1>0 DEF NoEntry, Entry, Fence
    <2>4. journal' \in [Effects -> Entry] BY <1>0, <2>2, <2>3
    <2>5. Noted' = Noted \ {e} BY <1>0, <2>2, <2>3 DEF Noted
    <2>6. Fresh.status = "ready" BY DEF Fresh, NoRow
    <2>7. Known' = (Known \ {e}) \cup {e}
      <3>1. DOMAIN db = Effects BY DEF Shape
      <3>2. \A x \in Effects : db'[x] = IF x = e THEN Fresh ELSE db[x] BY <2>2, <3>1
      <3> QED BY <2>6, <3>2 DEF Known
    <2>8. Lists(order', Noted') BY Zenon, <1>0, <2>2, <2>5, Unlist
    <2>9. Lists(Without(queue, e), Known \ {e}) BY Zenon, <1>0, Unlist
    <2>10. e \notin Known \ {e} OBVIOUS
    <2>11. Lists(queue', Known') BY Zenon, <2>2, <2>7, <2>9, <2>10, Enlist
    <2> QED BY Zenon, <2>4, <2>8, <2>11 DEF Books
  <1>2. CASE ~\E x \in Effects : Arrive(x)
    <2>1. Known' = Known BY <1>2, KnownKept
    <2>2. queue' = queue
      BY <1>2 DEF Next, Drive, Environment, Begin, StartVisit, BudgetExhausted, Reconcile,
        Reconciled, Orphans, Resume, NothingResumed, Scan, Sweep, Discover, Claim, ClaimRaises,
        Execute, ClaimGone, CloseVisit, Raise, Crash, ExpireLease, RivalClaims, RivalSettles,
        RivalSweeps, Withdraw, kernel
    <2>3. Lists(queue', Known') BY Zenon, <1>0, <2>1, <2>2
    <2> DEFINE Kept == journal' \in [Effects -> Entry] /\ Lists(order', Noted')
    <2> SUFFICES Kept BY <2>3 DEF Books
    <2>4. ASSUME UNCHANGED order, journal' = [e \in Effects |-> journal'[e]],
                 \A e \in Effects : journal'[e] \in {journal[e], [journal[e] EXCEPT !.settled = TRUE]}
          PROVE  Kept
      <3>1. \A e \in Effects : journal'[e] \in Entry /\ journal'[e].prepared = journal[e].prepared
        BY ZenonT(60), <1>0, <2>4 DEF Entry
      <3>2. journal' \in [Effects -> Entry] BY Zenon, <2>4, <3>1
      <3>3. Noted' = Noted BY Zenon, <3>1 DEF Noted
      <3> QED BY Zenon, <1>0, <2>4, <3>2, <3>3
    <2>5. ASSUME UNCHANGED books PROVE Kept
      BY Zenon, <1>0, <2>5 DEF books, Noted
    <2>6. ASSUME NEW e \in Effects, NEW v \in Entry, v.prepared # 0,
                 journal' = [journal EXCEPT ![e] = v], Ordered(e)
          PROVE  Kept
      <3>1. journal' \in [Effects -> Entry] BY <1>0, <2>6
      <3>2. \A x \in Effects : journal'[x] = IF x = e THEN v ELSE journal[x] BY <1>0, <2>6
      <3>3. Noted' = Noted \cup {e} BY <2>6, <3>2 DEF Noted
      <3>4. Range(order) = Noted BY <1>0 DEF Lists
      <3>5. CASE e \in Noted
        <4>1. order' = order /\ Noted' = Noted BY <2>6, <3>3, <3>4, <3>5 DEF Ordered
        <4> QED BY Zenon, <1>0, <3>1, <4>1
      <3>6. CASE e \notin Noted
        <4>1. order' = Append(order, e) BY <2>6, <3>4, <3>6 DEF Ordered
        <4>2. Lists(order', Noted') BY Zenon, <1>0, <3>3, <3>6, <4>1, Enlist
        <4> QED BY <3>1, <4>2
      <3> QED BY <3>5, <3>6
    <2>7. ASSUME pc = "execute",
                 NEW upto \in {"prepared", "started", "finished", "settled"},
                 journal' = Written(visit.effect, upto), Ordered(visit.effect)
          PROVE  Kept
      <3>1. visit.effect \in Effects /\ visit.fence # 0 BY <2>7 DEF Places
      <3> PICK e : e = visit.effect OBVIOUS
      <3> DEFINE v == [prepared |-> IF journal[e].prepared = 0 THEN visit.fence ELSE journal[e].prepared,
                       started |-> IF upto = "prepared" THEN journal[e].started ELSE visit.fence,
                       finished |-> IF upto \in {"finished", "settled"} THEN visit.fence ELSE journal[e].finished,
                       settled |-> journal[e].settled \/ upto = "settled"]
      <3>2. journal' = [journal EXCEPT ![e] = v] BY <1>0, <2>7, <3>1 DEF Written
      <3>3. v \in Entry /\ v.prepared # 0 BY <1>0, <3>1 DEF Entry
      <3> HIDE DEF v, Kept
      <3> QED BY <2>6, <2>7, <3>1, <3>2, <3>3
    <2>8. ASSUME pc = "execute", NEW settled \in BOOLEAN,
                 journal' = WrittenLocally(visit.effect, settled), Ordered(visit.effect)
          PROVE  Kept
      <3>1. visit.effect \in Effects /\ visit.fence # 0 BY <2>8 DEF Places
      <3> PICK e : e = visit.effect OBVIOUS
      <3> DEFINE v == [prepared |-> IF journal[e].prepared = 0 THEN visit.fence ELSE journal[e].prepared,
                       started |-> journal[e].started,
                       finished |-> IF journal[e].finished = 0 THEN visit.fence ELSE journal[e].finished,
                       settled |-> journal[e].settled \/ settled]
      <3>2. journal' = [journal EXCEPT ![e] = v] BY <1>0, <2>8, <3>1 DEF WrittenLocally
      <3>3. v \in Entry /\ v.prepared # 0 BY <1>0, <3>1 DEF Entry
      <3> HIDE DEF v, Kept
      <3> QED BY <2>6, <2>8, <3>1, <3>2, <3>3
    <2> HIDE DEF Kept
    <2>9. ASSUME NEW S, journal' = CloseOrphans(S), UNCHANGED order PROVE Kept
      BY <2>4, <2>9 DEF CloseOrphans
    <2>10. ASSUME NEW S, LookAt(S), UNCHANGED order PROVE Kept
      BY <2>4, <2>10 DEF LookAt
    <2>11. CASE \E roster \in Rosters : Begin(roster) BY <2>9, <2>11 DEF Begin
    <2>12. CASE Orphans BY <2>9, <2>12 DEF Orphans
    <2>13. CASE (\E e \in Effects : Resume(e)) \/ NothingResumed
      BY <2>10, <2>13 DEF Resume, NothingResumed
    <2>14. CASE \E e \in Effects : Reconcile(e)
      <3>1. PICK e \in Effects : Reconcile(e) BY <2>14
      <3>2. UNCHANGED order BY <3>1 DEF Reconcile
      <3>3. CASE UNCHANGED journal BY <2>5, <3>2, <3>3 DEF books
      <3>4. CASE journal' = [journal EXCEPT ![e].settled = TRUE]
        <4>1. journal' = [x \in Effects |-> journal'[x]] BY <1>0, <3>4
        <4>2. \A x \in Effects : journal'[x] \in {journal[x], [journal[x] EXCEPT !.settled = TRUE]}
          BY <1>0, <3>4
        <4> QED BY <2>4, <3>2, <4>1, <4>2
      <3> QED BY <3>1, <3>3, <3>4 DEF Reconcile
    <2>15. CASE \E io, settled \in BOOLEAN : Execute(io, settled)
      <3>1. PICK io \in BOOLEAN, settled \in BOOLEAN : Execute(io, settled) BY <2>15
      <3>2. pc = "execute" /\ Ordered(visit.effect) BY <3>1 DEF Execute
      <3>3. CASE io
        <4>1. journal' = Written(visit.effect, IF settled THEN "settled" ELSE "finished")
          BY <3>1, <3>3 DEF Execute
        <4> QED BY <2>7, <3>2, <4>1
      <3>4. CASE ~io
        <4>1. journal' = WrittenLocally(visit.effect, settled) BY <3>1, <3>4 DEF Execute
        <4> QED BY <2>8, <3>2, <4>1
      <3> QED BY <3>3, <3>4
    <2>16. CASE \E upto \in LastWritten : Crash(upto) \/ Raise(upto)
      <3>1. PICK upto \in LastWritten : Crash(upto) \/ Raise(upto) BY <2>16
      <3>2. CASE UNCHANGED books BY <2>5, <3>2
      <3>3. CASE ~UNCHANGED books
        <4>1. /\ pc = "execute" /\ upto \in {"prepared", "started", "finished"}
              /\ journal' = Written(visit.effect, upto) /\ Ordered(visit.effect)
          BY <3>1, <3>3 DEF Crash, Raise, BrokenOff, LastWritten
        <4> QED BY <2>7, <4>1
      <3> QED BY <3>2, <3>3
    <2> QED
      BY <1>2, <2>5, <2>11, <2>12, <2>13, <2>14, <2>15, <2>16
      DEF Next, Drive, Environment, StartVisit, BudgetExhausted, Reconciled, Scan, Sweep,
          Discover, Claim, ClaimRaises, ClaimGone, CloseVisit, ExpireLease, RivalClaims,
          RivalSettles, RivalSweeps, Withdraw, books
  <1> QED BY <1>1, <1>2

\* Every step leaves the driver at a place it knows: a visit is of a scope of the
\* roster, and what it is about to claim it has not tried in this invocation.
LEMMA PlacesStep ==
  ASSUME Shape, PassOK, Books, Places, Next
  PROVE  Places'
  <1>0. /\ DOMAIN call = {"roster", "attempted", "visited", "pending", "progress", "rounds",
                          "since", "stop"}
        /\ DOMAIN visit = {"scope", "todo", "found", "expired", "more", "progress", "fresh",
                           "reread", "effect", "fence"}
        /\ DOMAIN mem = {"after", "streak", "anchor", "behind"}
        /\ MaxRounds \in Nat /\ MaxFence \in Nat /\ MaxFence > 0 /\ 0 \in Fence
    BY DriverBoundAssumption DEF Shape, NoCall, NoVisit, ColdStart, Fence
  <1>1. /\ mem.after \in Scopes \cup {0}
        /\ call.attempted \subseteq Effects /\ call.visited \subseteq call.roster
        /\ call.rounds \in 0..MaxRounds
        /\ visit.effect \in Effects \cup {0} /\ visit.fence \in Fence
        /\ pc \notin {"off", "next"} => visit.scope \in call.roster
        /\ pc \in {"claim", "execute"} => visit.effect \in Effects
        /\ pc = "execute" => visit.fence # 0
        /\ pc = "claim" => visit.effect \notin call.attempted
    BY DEF Places, NoDuplicateClaim
  <1>2. /\ db \in [Effects -> Row] /\ \A e \in Effects : db[e] \in Row /\ db[e].fence \in Fence
        /\ \A e \in Effects : db[e].status = "ready" => db[e].fence < MaxFence
    BY DEF Shape, Row
  <1>3. ASSUME mem'.after = mem.after, call'.roster = call.roster,
               call'.attempted \subseteq Effects, call'.visited = call.visited,
               call'.rounds = call.rounds, visit'.scope = visit.scope,
               visit'.effect = visit.effect, visit'.fence = visit.fence,
               pc \notin {"off", "next"} \/ pc' = pc, pc' \notin {"claim", "execute"}
        PROVE  Places'
    BY <1>1, <1>3 DEF Places, NoDuplicateClaim
  <1>4. ASSUME mem'.after \in Scopes \cup {0}, pc' \in {"off", "next"},
               call'.attempted \subseteq Effects, call'.visited \subseteq call'.roster,
               call'.rounds \in 0..MaxRounds, visit' = NoVisit \/ UNCHANGED visit
        PROVE  Places'
    <2>1. NoVisit.effect = 0 /\ NoVisit.fence = 0 BY DEF NoVisit
    <2> QED BY <1>0, <1>1, <1>4, <2>1 DEF Places, NoDuplicateClaim
  <1>5. ASSUME NEW r, Stop(r), UNCHANGED mem PROVE Places'
    <2>1. /\ call'.attempted = {} /\ call'.visited = {} /\ call'.rounds = 0
          /\ visit' = NoVisit /\ pc' = "off"
      BY <1>5 DEF Stop, Ended, NoCall, Goto
    <2> QED BY <1>0, <1>1, <1>4, <1>5, <2>1
  <1>6. CASE \E roster \in Rosters : Begin(roster)
    <2>1. PICK roster \in Rosters : Begin(roster) BY <1>6
    <2>2. /\ call'.attempted = {} /\ call'.visited = {} /\ call'.rounds = 0
          /\ UNCHANGED visit /\ pc' = "next"
      BY <2>1 DEF Begin, NoCall, Goto
    <2>3. mem'.after = mem.after BY <1>0, <2>1 DEF Begin, Pruned
    <2> QED BY <1>0, <1>1, <1>4, <2>2, <2>3
  <1>7. CASE StartVisit
    <2> PICK s : s = NextScope(call.roster, mem.after) OBVIOUS
    <2>1. /\ pc = "next" /\ pc' = "reconcile" /\ call.rounds < MaxRounds
          /\ mem' = [mem EXCEPT !.after = s] /\ call' = [call EXCEPT !.rounds = @ + 1]
          /\ visit'.scope = s /\ visit'.effect = 0 /\ visit'.fence = 0
      BY <1>7 DEF StartVisit, Goto, NoVisit
    <2>2. call.roster \in Rosters /\ mem.after \in Nat BY <2>1 DEF PassOK, Shape
    <2>3. s \in call.roster /\ s \in Scopes BY <2>2, Turning
    <2>4. /\ mem'.after = s /\ call'.roster = call.roster /\ call'.attempted = call.attempted
          /\ call'.visited = call.visited /\ call'.rounds = call.rounds + 1
      BY <1>0, <2>1
    <2>5. call'.rounds \in 0..MaxRounds BY <1>0, <1>1, <2>1, <2>4
    <2> QED BY <1>0, <1>1, <2>1, <2>3, <2>4, <2>5 DEF Places, NoDuplicateClaim
  <1>8. CASE BudgetExhausted \/ \E upto \in LastWritten : Raise(upto)
    BY <1>5, <1>8 DEF BudgetExhausted, Raise
  <1>9. CASE (\E e \in Effects : Reconcile(e)) \/ Reconciled \/ Orphans \/ Scan
             \/ (\E taken \in SUBSET Effects : \E reset \in SUBSET taken : Sweep(taken, reset))
             \/ ClaimGone \/ (\E io, settled \in BOOLEAN : Execute(io, settled))
    <2>1. /\ UNCHANGED <<mem, call>>
          /\ pc \in {"reconcile", "orphan1", "orphan2", "orphan3", "scan", "sweep", "execute"}
          /\ pc' \in {"reconcile", "orphan1", "blocked", "resume", "scan", "sweep", "orphan3",
                      "discover", "close", "orphan2"}
      <3>1. CASE \E e \in Effects : Reconcile(e) BY <3>1 DEF Reconcile
      <3>2. CASE Reconciled \/ Scan \/ ClaimGone
        BY <3>2 DEF Reconciled, Scan, ClaimGone, Goto, AfterWork
      <3>3. CASE Orphans
        <4>1. pc \in {"orphan1", "orphan2", "orphan3"} BY <3>3 DEF Orphans, AfterOrphans
        <4> QED BY <3>3, <4>1 DEF Orphans, AfterOrphans, Goto
      <3>4. CASE \E taken \in SUBSET Effects : \E reset \in SUBSET taken : Sweep(taken, reset)
        BY <3>4 DEF Sweep, Goto
      <3>5. CASE \E io, settled \in BOOLEAN : Execute(io, settled)
        BY <3>5 DEF Execute, Goto, AfterWork
      <3> QED BY <1>9, <3>1, <3>2, <3>3, <3>4, <3>5
    <2>2. \/ UNCHANGED visit
          \/ \E x : visit' = [visit EXCEPT !.todo = x]
          \/ \E x, y : visit' = [visit EXCEPT !.todo = x, !.progress = y]
          \/ \E x, y : visit' = [visit EXCEPT !.progress = x, !.expired = y]
          \/ \E x, y : visit' = [visit EXCEPT !.more = x, !.progress = y]
          \/ \E x : visit' = [visit EXCEPT !.progress = x]
      <3>1. CASE \E e \in Effects : Reconcile(e) BY <3>1 DEF Reconcile
      <3>2. CASE Reconciled \/ Scan \/ ClaimGone BY <3>2 DEF Reconciled, Scan, ClaimGone
      <3>3. CASE Orphans BY <3>3 DEF Orphans
      <3>4. CASE \E taken \in SUBSET Effects : \E reset \in SUBSET taken : Sweep(taken, reset)
        BY <3>4 DEF Sweep
      <3>5. CASE \E io, settled \in BOOLEAN : Execute(io, settled) BY <3>5 DEF Execute
      <3> QED BY <1>9, <3>1, <3>2, <3>3, <3>4, <3>5
    <2>3. visit'.scope = visit.scope /\ visit'.effect = visit.effect /\ visit'.fence = visit.fence
      BY <1>0, <2>2
    <2> QED BY <1>1, <1>3, <2>1, <2>3
  <1>10. CASE NothingResumed
    <2>1. pc = "resume" /\ pc' = "orphan2" /\ UNCHANGED call /\ LookAt(Candidates)
          /\ \E x : visit' = [visit EXCEPT !.progress = x]
      BY <1>10 DEF NothingResumed, Goto
    <2>2. visit'.scope = visit.scope /\ visit'.effect = visit.effect /\ visit'.fence = visit.fence
      BY <1>0, <2>1
    <2>3. mem'.after = mem.after BY <1>0, <2>1 DEF LookAt
    <2> QED BY <1>1, <1>3, <2>1, <2>2, <2>3
  <1>11. CASE \E e \in Effects : Resume(e)
    <2>1. PICK e \in Effects : Resume(e) BY <1>11
    <2>2. /\ pc = "resume" /\ UNCHANGED call /\ e \in Candidates /\ (ResumeReady(e) \/ ResumeHeld(e))
          /\ pc' = (IF db[e].status = "ready" THEN "claim" ELSE "execute")
          /\ \E x : visit' = [visit EXCEPT !.progress = x, !.effect = e, !.fence = db[e].fence]
          /\ \E S : LookAt(S)
      BY <2>1 DEF Resume, Goto
    <2>3. visit'.scope = visit.scope /\ visit'.effect = e /\ visit'.fence = db[e].fence
      BY <1>0, <2>2
    <2>4. mem'.after = mem.after BY <1>0, <2>2 DEF LookAt
    <2>5. CASE db[e].status = "ready"
      <3>1. e \notin call.attempted BY <2>2, <2>5 DEF ResumeReady, ResumeHeld, Owned
      <3> QED BY <1>1, <1>2, <2>2, <2>3, <2>4, <2>5, <3>1 DEF Places, NoDuplicateClaim
    <2>6. CASE db[e].status # "ready"
      <3>1. db[e].fence = journal[e].prepared BY <2>2, <2>6 DEF ResumeReady, ResumeHeld, Owned
      <3>2. journal[e].prepared # 0 BY <2>2 DEF Candidates, Resumable
      <3> QED BY <1>1, <1>2, <2>2, <2>3, <2>4, <2>6, <3>1, <3>2 DEF Places, NoDuplicateClaim
    <2> QED BY <2>5, <2>6
  <1>12. CASE Discover
    <2> DEFINE s == visit.scope
               found == {e \in In(s) : Open(e)}
               host == Unattempted(found) \cap HostKind
               business == Unattempted(found) \cap Business
               class == ChosenClass(s, host, business)
               S == IF class = "business" THEN business ELSE host
               e == Picked(s, class, S)
    <2>1. pc = "discover" /\ UNCHANGED call BY <1>12 DEF Discover
    <2>2. CASE S = {}
      <3>1. pc' = "close" /\ UNCHANGED mem /\ visit' = [visit EXCEPT !.found = found]
        BY <1>12, <2>2 DEF Discover, Goto
      <3> HIDE DEF found
      <3>2. visit'.scope = visit.scope /\ visit'.effect = visit.effect /\ visit'.fence = visit.fence
        BY <1>0, <3>1
      <3> QED BY <1>1, <1>3, <2>1, <3>1, <3>2
    <2>3. CASE S # {}
      <3>1. /\ pc' = "claim" /\ visit' = [visit EXCEPT !.found = found, !.effect = e, !.fresh = TRUE]
            /\ \E x, y : mem' = [mem EXCEPT !.behind = x, !.streak = y]
        BY <1>12, <2>3 DEF Discover, Goto
      <3>2. S \subseteq Effects /\ S \cap call.attempted = {} /\ S \subseteq Known
        BY DEF Unattempted, In, Known
      <3>3. e \in S
        <4> DEFINE T == IF S \ mem.behind[s][class] # {} THEN S \ mem.behind[s][class] ELSE S
        <4>1. e = FirstOf(queue, T) BY DEF Picked
        <4> HIDE DEF S, e
        <4>2. T \subseteq S /\ T \subseteq Known /\ T # {} BY <2>3, <3>2
        <4>3. Lists(queue, Known) BY DEF Books
        <4> HIDE DEF T
        <4>4. FirstOf(queue, T) \in T BY <4>2, <4>3, FirstListed
        <4> QED BY <4>1, <4>2, <4>4
      <3> HIDE DEF S, e, found, class
      <3>4. visit'.scope = visit.scope /\ visit'.effect = e /\ visit'.fence = visit.fence
        BY <1>0, <3>1
      <3>5. mem'.after = mem.after BY <1>0, <3>1
      <3>6. e \in Effects /\ e \notin call.attempted BY <3>2, <3>3
      <3> QED BY <1>1, <2>1, <3>1, <3>4, <3>5, <3>6 DEF Places, NoDuplicateClaim
    <2> QED BY <2>2, <2>3
  <1>13. CASE Claim
    <2>1. /\ pc = "claim" /\ UNCHANGED mem
          /\ call' = [call EXCEPT !.attempted = @ \cup {visit.effect}]
      BY <1>13 DEF Claim
    <2>2. /\ call'.roster = call.roster /\ call'.attempted = call.attempted \cup {visit.effect}
          /\ call'.visited = call.visited /\ call'.rounds = call.rounds
      BY <1>0, <2>1
    <2>3. visit.effect \in Effects BY <1>1, <2>1
    <2>4. CASE Grants(visit.effect)
      <3> PICK f : f = db[visit.effect].fence + 1 OBVIOUS
      <3>1. pc' = "execute" /\ visit' = [visit EXCEPT !.fence = f, !.reread = TRUE]
        BY <1>13, <2>4 DEF Claim, Goto
      <3>2. visit'.scope = visit.scope /\ visit'.effect = visit.effect /\ visit'.fence = f
        BY <1>0, <3>1
      <3>3. db[visit.effect].fence < MaxFence BY <1>2, <2>3, <2>4 DEF Grants
      <3>4. f \in Fence /\ f # 0 BY <1>0, <1>2, <2>3, <3>3 DEF Fence
      <3> QED BY <1>1, <2>1, <2>2, <2>3, <3>1, <3>2, <3>4 DEF Places, NoDuplicateClaim
    <2>5. CASE ~Grants(visit.effect)
      <3>1. UNCHANGED visit /\ pc' \in {"close", "orphan2"}
        BY <1>13, <2>5 DEF Claim, Goto, AfterWork
      <3> QED BY <1>1, <1>3, <2>1, <2>2, <2>3, <3>1
    <2> QED BY <2>4, <2>5
  <1>14. CASE ClaimRaises
    <2>1. CASE Stop("raised") BY <1>5, <1>14, <2>1 DEF ClaimRaises
    <2>2. CASE ~Stop("raised")
      <3>1. /\ pc = "claim" /\ pc' \in {"close", "orphan2"} /\ UNCHANGED <<mem, visit>>
            /\ call' = [call EXCEPT !.attempted = @ \cup {visit.effect}]
        BY <1>14, <2>2 DEF ClaimRaises, Goto, AfterWork
      <3>2. /\ call'.roster = call.roster /\ call'.attempted = call.attempted \cup {visit.effect}
            /\ call'.visited = call.visited /\ call'.rounds = call.rounds
        BY <1>0, <3>1
      <3> QED BY <1>1, <1>3, <3>1, <3>2
    <2> QED BY <2>1, <2>2
  <1>15. CASE CloseVisit
    <2> PICK visited : visited = call.visited \cup {visit.scope} OBVIOUS
    <2>1. pc \in {"blocked", "close"} /\ visit' = NoVisit /\ UNCHANGED mem BY <1>15 DEF CloseVisit
    <2>2. visited \subseteq call.roster BY <1>1, <2>1
    <2>3. /\ call'.roster = call.roster /\ pc' \in {"off", "next"}
          /\ call'.visited \in {{}, visited}
      BY <1>15, Closing
    <2>4. \/ \E r : call' = Ended(r)
          \/ \E a, b, c, d : call' = [call EXCEPT !.pending = a, !.visited = b, !.progress = c, !.since = d]
      <3> DEFINE seen == call.visited \cup {visit.scope}
                 left == pc = "blocked" \/ LeftOver(visit.scope)
                 pending == IF left THEN call.pending \cup {visit.scope} ELSE call.pending \ {visit.scope}
                 progress == call.progress \/ visit.progress
                 full == seen = call.roster
                 verdict == Verdict(pending # {} \/ JournalIds # {}, progress)
      <3>1. CASE full /\ verdict # "none"
        <4>1. call' = Ended(verdict) BY <1>15, <3>1 DEF CloseVisit
        <4> QED BY Zenon, <4>1
      <3>2. CASE ~(full /\ verdict # "none")
        <4>1. call' = [call EXCEPT !.pending = pending, !.visited = IF full THEN {} ELSE seen,
                                   !.progress = ~full /\ progress,
                                   !.since = IF full THEN {e \in Effects : Open(e)} ELSE @]
          BY <1>15, <3>2 DEF CloseVisit
        <4> HIDE DEF seen, left, pending, progress, full, verdict
        <4> QED BY <4>1
      <3> QED BY <3>1, <3>2
    <2>5. call'.attempted \subseteq Effects /\ call'.rounds \in 0..MaxRounds
      <3>1. CASE \E r : call' = Ended(r) BY <1>0, <3>1 DEF Ended, NoCall
      <3>2. CASE \E a, b, c, d : call' = [call EXCEPT !.pending = a, !.visited = b, !.progress = c, !.since = d]
        <4>1. call'.attempted = call.attempted /\ call'.rounds = call.rounds BY <1>0, <3>2
        <4> QED BY <1>1, <4>1
      <3> QED BY <2>4, <3>1, <3>2
    <2> QED BY <1>1, <1>4, <2>1, <2>2, <2>3, <2>5
  <1>16. CASE \E upto \in LastWritten : Crash(upto)
    <2>1. pc' = "off" /\ mem' = ColdStart /\ call' = NoCall /\ visit' = NoVisit
      BY <1>16 DEF Crash, Goto
    <2>2. /\ mem'.after = 0 /\ call'.attempted = {} /\ call'.visited = {} /\ call'.rounds = 0
      BY <2>1 DEF NoCall, ColdStart
    <2> QED BY <1>0, <1>4, <2>1, <2>2
  <1>17. ASSUME mem'.after = mem.after, UNCHANGED <<visit, pc>>, call'.roster = call.roster,
                call'.attempted \subseteq call.attempted, call'.visited = call.visited,
                call'.rounds = call.rounds
         PROVE  Places'
    BY <1>1, <1>17 DEF Places, NoDuplicateClaim
  <1>18. CASE \E e \in Effects : Arrive(e)
    <2>1. PICK e \in Effects : Arrive(e) BY <1>18
    <2>2. /\ call' = [call EXCEPT !.attempted = @ \ {e}, !.since = @ \ {e}] /\ UNCHANGED <<visit, pc>>
      BY <2>1 DEF Arrive
    <2>3. \E x, y : mem' = [mem EXCEPT !.behind = x, !.anchor = y] BY ZenonT(60), <2>1 DEF Arrive
    <2>4. /\ call'.roster = call.roster /\ call'.visited = call.visited
          /\ call'.rounds = call.rounds /\ call'.attempted = call.attempted \ {e}
      BY <1>0, <2>2
    <2>5. mem'.after = mem.after BY <1>0, <2>3
    <2> QED BY <1>17, <2>2, <2>4, <2>5
  <1>19. CASE \E e \in Effects : ExpireLease(e) \/ RivalClaims(e) \/ RivalSettles(e)
                                   \/ RivalSweeps(e) \/ Withdraw(e)
    BY <1>17, <1>19 DEF ExpireLease, RivalClaims, RivalSettles, RivalSweeps, Withdraw
  <1> QED
    BY <1>6, <1>7, <1>8, <1>9, <1>10, <1>11, <1>12, <1>13, <1>14, <1>15, <1>16, <1>18, <1>19
    DEF Next, Drive, Environment

\* The invariant is that each part of it describes what every visit relies on.
LEMMA InvariantIsSound == ASSUME DriverInvariant PROVE VisitsSound
  <1>1. Shape /\ Turns /\ Books /\ Places BY DEF DriverInvariant
  <1>2. journal \in [Effects -> Entry] /\ Lists(queue, Known) /\ Lists(order, Noted)
    BY <1>1 DEF Books
  <1>3. /\ Range(queue) = {e \in Effects : db[e].status # "absent"} /\ IsInjective(queue)
        /\ Range(order) = {e \in Effects : journal[e].prepared # 0} /\ IsInjective(order)
    BY Zenon, <1>2 DEF Lists, Known, Noted
  <1>4. db \in [Effects -> Row] /\ mem.streak \in [Scopes -> 0..Burst] BY <1>1 DEF Shape, Turns
  <1> QED BY <1>1, <1>2, <1>3, <1>4 DEF VisitsSound, TypeOK, Places, Row, Entry

-----------------------------------------------------------------------------
(* The theorems. *)

\* A driver that was just started satisfies the invariant.
LEMMA DriverInit == ASSUME Init PROVE DriverInvariant
  <1>1. /\ Burst \in Nat /\ Burst > 0 /\ MaxFence \in Nat /\ MaxFence > 0
    BY DriverBoundAssumption
  <1>2. NoRow \in Row /\ NoRow.status = "absent" BY <1>1 DEF NoRow, Row, Fence
  <1>3. db = [e \in Effects |-> NoRow] /\ journal = [e \in Effects |-> NoEntry] BY DEF Init
  <1>4. /\ mem = ColdStart /\ mem.after = 0 /\ mem.streak = [s \in Scopes |-> 0]
    BY DEF Init, ColdStart
  <1>5. /\ call = NoCall /\ call.roster = {} /\ call.since = {} /\ call.stop = "none"
        /\ visit = NoVisit /\ visit.fresh = FALSE /\ pc = "off"
    BY DEF Init, NoCall, NoVisit
  <1>6. Shape BY <1>2, <1>3, <1>4, <1>5 DEF Shape
  <1>7. Turns
    <2>1. burst = [s \in Scopes |-> 0] /\ lag = [s \in Scopes |-> 0] BY DEF Init
    <2>2. \A s \in Scopes : Cardinality(Passed(s, mem.after)) \in Nat BY <1>4, PassedBound
    <2> QED BY <1>1, <1>4, <2>1, <2>2 DEF Turns
  <1>8. Books
    <2>1. NoEntry \in Entry /\ NoEntry.prepared = 0 BY <1>1 DEF NoEntry, Entry, Fence
    <2>2. Known = {} /\ Noted = {} BY <1>2, <1>3, <2>1 DEF Known, Noted
    <2>3. Lists(<<>>, {})
      <3>1. <<>> \in Seq(Effects) /\ 1..Len(<<>>) = {} OBVIOUS
      <3> QED BY Zenon, <3>1, Indices
    <2>4. queue = <<>> /\ order = <<>> BY DEF Init
    <2> QED BY <1>3, <2>1, <2>2, <2>3, <2>4 DEF Books
  <1>9. Places
    <2>1. /\ call.attempted = {} /\ call.visited = {} /\ call.rounds = 0
          /\ visit.effect = 0 /\ visit.fence = 0
      BY <1>5 DEF NoCall, NoVisit
    <2> QED BY <1>1, <1>4, <1>5, <2>1, DriverBoundAssumption DEF Places, NoDuplicateClaim, Fence
  <1> QED BY <1>5, <1>6, <1>7, <1>8, <1>9 DEF DriverInvariant, PassOK, VisitOK, IdleIsTrue

\* Every step of the driver, of its rival and of the world keeps the invariant.
LEMMA DriverStep == ASSUME DriverInvariant, [Next]_vars PROVE DriverInvariant'
  <1>1. CASE Next
    BY <1>1, ShapeStep, TurnsStep, PassStep, BooksStep, PlacesStep DEF DriverInvariant
  <1>2. CASE UNCHANGED vars
    BY <1>2 DEF vars, DriverInvariant, Shape, Turns, Passed, PassOK, VisitOK, Closed, IdleIsTrue,
                JournalIds, Books, Known, Noted, Places, NoDuplicateClaim
  <1> QED BY <1>1, <1>2

\* The invariant of the driver: what its cursors, its streaks, its invocation and
\* its visit remember is true of the kernel's rows and of the histories.
THEOREM DriverSafe == Spec => []DriverInvariant
  BY DriverInit, DriverStep, PTL DEF Spec

\* The memory of the driver is what its next visit relies on: the queues hold each
\* effect once, the journal's order is that of the effects it has records of, and
\* run_scopes_until_idle never meets its own "duplicate physical claim".
THEOREM VisitsAreSound == Spec => []VisitsSound
  BY InvariantIsSound, DriverSafe, PTL

\* run_scopes_until_idle reports idle only when no journaled debt is left and all
\* that was open when the last pass began has been closed: a scope seen empty is
\* not refilled with what was already there, by any host, sweep or crash.
THEOREM IdleMeansDone == Spec => []IdleIsTrue
  <1>1. DriverInvariant => IdleIsTrue BY DEF DriverInvariant
  <1> QED BY <1>1, DriverSafe, PTL

\* The streak kept by the process bounds the host opportunities given in a row to
\* a scope that has business waiting, for any limit and any number of scopes.
THEOREM BurstIsBounded == Spec => []HostBurst
  <1>1. ASSUME DriverInvariant PROVE HostBurst
    <2> SUFFICES ASSUME NEW s \in Scopes PROVE burst[s] <= Burst BY DEF HostBurst
    <2>1. /\ burst[s] \in Nat /\ mem.streak[s] \in 0..Burst /\ burst[s] <= mem.streak[s]
          /\ Burst \in Nat
      BY <1>1, DriverBoundAssumption DEF DriverInvariant, Turns
    <2> QED BY <2>1
  <1> QED BY <1>1, DriverSafe, PTL

\* The cursor of the roster passes every other scope at most once between two
\* visits of a scope that stays in it, whatever rosters the calls are given.
THEOREM ScopesTakeTurns == Spec => []ScopeTurn
  <1>1. ASSUME DriverInvariant PROVE ScopeTurn
    <2> SUFFICES ASSUME NEW s \in Scopes PROVE lag[s] < Cardinality(Scopes) BY DEF ScopeTurn
    <2>1. /\ lag[s] \in Nat /\ lag[s] <= Cardinality(Passed(s, mem.after)) /\ mem.after \in Nat
      BY <1>1 DEF DriverInvariant, Turns, Shape
    <2>2. /\ Cardinality(Passed(s, mem.after)) \in Nat
          /\ Cardinality(Passed(s, mem.after)) < Cardinality(Scopes)
      BY <2>1, PassedBound
    <2>3. Cardinality(Scopes) \in Nat BY RosterAssumption, FS_CardinalityType
    <2> QED BY <2>1, <2>2, <2>3
  <1> QED BY <1>1, DriverSafe, PTL

=============================================================================
