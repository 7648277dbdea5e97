----------------------------- MODULE CordisProof -----------------------------
(* Safety of the lifecycle kernel of Cordis, for any tree of installs, any   *)
(* manifests and any bounds.                                                 *)
EXTENDS Cordis, FiniteSetTheorems, TLAPS

-----------------------------------------------------------------------------
(* The inductive invariant. *)

\* What a pin holds is there, and its episode is open.
PinsHold == \A p \in pins : HeldBy(p) # {} /\ Current(p.fiber, p.epoch)

\* A contribution belongs to an open episode.
ContribsOpen == \A c \in contribs : Current(c.fiber, c.epoch)

\* A fiber that is not tombstoned is a child of the episode its install named.
ChildHeld(f) ==
    install[f] # "absent" /\ ~fiber[f].gone /\ OwnerOf[f] # NoOne =>
        \E c \in contribs : /\ c.fiber = OwnerOf[f] /\ c.epoch = fiber[f].owner
                            /\ c.kind = "child" /\ c.what = f

\* An address has one service.
ServedOnce ==
    \A c, d \in contribs :
        c.kind = "service" /\ d.kind = "service" /\ c.what = d.what => c = d

\* An install was put under an install.
Rooted(f) == install[f] # "absent" /\ OwnerOf[f] # NoOne => install[OwnerOf[f]] # "absent"

\* Only an episode that closes has given something back.
Undrained(f) == episode[f].phase \in {"reloading", "active"} => ~episode[f].drained

CordisInvariant ==
    /\ TypeOK
    /\ DOMAIN slot = Fibers
    /\ IsFiniteSet(contribs)
    /\ PinsHold
    /\ ContribsOpen
    /\ ServedOnce
    /\ \A f \in Fibers :
           /\ ChildHeld(f)
           /\ Rooted(f)
           /\ Undrained(f)
           /\ install[f] = "disposed" => Disposable(f)
    /\ SuccessorKept

-----------------------------------------------------------------------------
(* Types. *)

FiberRow == [want : BOOLEAN, seq : Nat, retire : BOOLEAN, failure : Nat,
             asked : BOOLEAN, gone : BOOLEAN, owner : Nat]
EpisodeRow == [epoch : Nat, phase : Phases, seq : Nat, next : Nat, drained : BOOLEAN]
Contrib == [fiber : Fibers, epoch : Nat, number : Nat, kind : {"service", "child"},
            what : Keys \cup Fibers, withdrawn : BOOLEAN]
Pin == [fiber : Fibers, epoch : Nat, key : Keys, provider : Fibers, providerEpoch : Nat]
States == {"absent", "installed", "dispose_pending", "disposed"}

\* The slot of a fiber whose sequence is seq.
SlotOK(S, seq) == S \subseteq [seq : Nat, epoch : Nat] /\ Cardinality(S) <= 1 /\ \A s \in S : s.seq <= seq

\* The type invariant with its row types named.
LEMMA TypeParts ==
    TypeOK <=> /\ install \in [Fibers -> States]
               /\ fiber \in [Fibers -> FiberRow]
               /\ episode \in [Fibers -> EpisodeRow]
               /\ contribs \subseteq Contrib
               /\ pins \subseteq Pin
               /\ \A f \in Fibers : SlotOK(slot[f], fiber[f].seq)
  BY DEF TypeOK, States, FiberRow, EpisodeRow, Contrib, Pin, SlotOK

\* An empty slot and a slot with one effect are well typed.
LEMMA SlotSizes ==
    /\ \A seq : SlotOK({}, seq)
    /\ \A seq \in Nat, epoch \in Nat : SlotOK({[seq |-> seq, epoch |-> epoch]}, seq)
<1>1. Cardinality({}) <= 1
  BY FS_EmptySet
<1>2. \A s : Cardinality({s}) = 1
  BY FS_Singleton
<1>3. ASSUME NEW seq \in Nat, NEW epoch \in Nat
      PROVE  SlotOK({[seq |-> seq, epoch |-> epoch]}, seq)
  <2> DEFINE s == [seq |-> seq, epoch |-> epoch]
  <2>1. s \in [seq : Nat, epoch : Nat] /\ s.seq <= seq
    OBVIOUS
  <2> HIDE DEF s
  <2>2. Cardinality({s}) = 1
    BY <1>2
  <2>3. Cardinality({s}) <= 1
    BY <2>2
  <2> QED
    BY <2>1, <2>3 DEF SlotOK, s
<1> QED
  BY <1>1, <1>3 DEF SlotOK

\* The image of a finite set is finite.
LEMMA ImageFinite ==
    ASSUME NEW S, IsFiniteSet(S), NEW F, F = [x \in S |-> F[x]]
    PROVE  IsFiniteSet({F[x] : x \in S})
<1> DEFINE T == {F[x] : x \in S}
<1>1. F \in Surjection(S, T)
  BY DEF Surjection
<1> QED
  BY <1>1, FS_Surjection

\* A step on the rows of one fiber.
OnlyRow(f) ==
    \A g \in Fibers \ {f} : fiber'[g] = fiber[g] /\ episode'[g] = episode[g] /\ slot'[g] = slot[g]

\* What Successor and NoSuccessor write.
LEMMA Scheduling ==
    ASSUME DOMAIN slot = Fibers, NEW f \in Fibers, Successor(f) \/ NoSuccessor(f)
    PROVE  /\ DOMAIN slot' = Fibers
           /\ \A g \in Fibers \ {f} : slot'[g] = slot[g]
           /\ NoSuccessor(f) => slot'[f] = {}
           /\ Successor(f) => slot'[f] = {[seq |-> fiber'[f].seq,
                  epoch |-> IF episode'[f].phase = "none" THEN 0 ELSE episode'[f].epoch]}
  BY DEF Successor, NoSuccessor

\* The rows of one fiber change and its slot with them.
LEMMA RowTypes ==
    ASSUME TypeOK, DOMAIN slot = Fibers, NEW f \in Fibers,
           \/ fiber' = fiber
           \/ \E x : x \in FiberRow /\ fiber' = [fiber EXCEPT ![f] = x],
           \/ episode' = episode
           \/ \E x : x \in EpisodeRow /\ episode' = [episode EXCEPT ![f] = x],
           fiber[f].seq <= fiber'[f].seq,
           Successor(f) \/ NoSuccessor(f) \/ UNCHANGED slot
    PROVE  /\ fiber' \in [Fibers -> FiberRow]
           /\ episode' \in [Fibers -> EpisodeRow]
           /\ \A g \in Fibers : SlotOK(slot'[g], fiber'[g].seq)
           /\ DOMAIN slot' = Fibers
           /\ OnlyRow(f)
<1>1. /\ fiber \in [Fibers -> FiberRow] /\ episode \in [Fibers -> EpisodeRow]
      /\ \A g \in Fibers : SlotOK(slot[g], fiber[g].seq)
  BY TypeParts
<1>2. fiber' \in [Fibers -> FiberRow] /\ \A g \in Fibers \ {f} : fiber'[g] = fiber[g]
  BY <1>1
<1>3. episode' \in [Fibers -> EpisodeRow] /\ \A g \in Fibers \ {f} : episode'[g] = episode[g]
  BY <1>1
<1>4. DOMAIN slot' = Fibers /\ \A g \in Fibers \ {f} : slot'[g] = slot[g]
  BY Scheduling
<1>5. fiber'[f] \in FiberRow /\ fiber'[f].seq \in Nat /\ fiber[f].seq \in Nat
  BY <1>1, <1>2 DEF FiberRow
<1>6. episode'[f].epoch \in Nat
  BY <1>3 DEF EpisodeRow
<1>7. SlotOK(slot'[f], fiber'[f].seq)
  <2>1. CASE NoSuccessor(f)
    BY <2>1, Scheduling, SlotSizes
  <2>2. CASE Successor(f)
    BY <1>5, <1>6, <2>2, Scheduling, SlotSizes
  <2>3. CASE UNCHANGED slot
    <3>1. SlotOK(slot[f], fiber[f].seq) /\ \A s \in slot[f] : s.seq \in Nat
      BY <1>1 DEF SlotOK
    <3> QED
      BY <1>5, <2>3, <3>1 DEF SlotOK
  <2> QED
    BY <2>1, <2>2, <2>3
<1> QED
  BY <1>1, <1>2, <1>3, <1>4, <1>7 DEF OnlyRow

-----------------------------------------------------------------------------
(* The steps by what they write. *)

\* The target of f, or nothing but its slot.
Retarget(f) ==
    /\ UNCHANGED <<install, episode, contribs, pins>>
    /\ ~fiber[f].gone
    /\ \E x \in FiberRow :
           /\ fiber' = [fiber EXCEPT ![f] = x]
           /\ fiber[f].seq <= x.seq /\ x.gone = fiber[f].gone /\ x.owner = fiber[f].owner
    /\ Successor(f) \/ UNCHANGED slot

\* The episode of f starts to close.
Closes(f) ==
    /\ episode[f].phase \in {"reloading", "active"}
    /\ \E failure \in BOOLEAN : \E lost : CloseStart(f, failure, lost)

\* Users' controls, ensure and the first stages of a dispose only retarget a fiber.
LEMMA Retargets ==
    ASSUME TypeOK, NEW f \in Fibers,
           \/ On(f) \/ Off(f) \/ OffAgain(f) \/ Retry(f) \/ Ensure(f)
           \/ \E i \in Fibers : RequestFiber(i, f) \/ ScheduleFiber(i, f)
    PROVE  Retarget(f)
<1>1. fiber \in [Fibers -> FiberRow] /\ fiber[f] \in FiberRow /\ fiber[f].seq \in Nat
  BY TypeParts DEF FiberRow
<1>2. fiber = [fiber EXCEPT ![f] = fiber[f]] /\ fiber[f].seq <= fiber[f].seq
  BY <1>1
<1>3. ASSUME NEW want \in BOOLEAN, NEW retire \in BOOLEAN, Target(f, want, retire), ~fiber[f].gone
      PROVE  Retarget(f)
  <2> DEFINE x == [fiber[f] EXCEPT !.want = want, !.seq = @ + 1, !.retire = @ \/ retire]
  <2>0. fiber[f].seq + 1 \in Nat /\ (fiber[f].retire \/ retire) \in BOOLEAN
    BY <1>1
  <2>1. x \in FiberRow
    BY <1>1, <2>0 DEF FiberRow
  <2>4. x.seq = fiber[f].seq + 1 /\ x.gone = fiber[f].gone /\ x.owner = fiber[f].owner
    BY <1>1 DEF FiberRow
  <2>2. fiber' = [fiber EXCEPT ![f] = x]
    BY <1>1, <1>3 DEF Target
  <2> HIDE DEF x
  <2>3. fiber[f].seq <= x.seq
    BY <1>1, <2>4
  <2>5. UNCHANGED <<install, episode, contribs, pins>> /\ (Successor(f) \/ UNCHANGED slot)
    BY <1>3 DEF Target, Coalesced
  <2> QED
    BY <1>3, <2>1, <2>2, <2>3, <2>4, <2>5 DEF Retarget
<1>4. CASE On(f)
  BY <1>3, <1>4 DEF On, Controllable
<1>5. CASE Off(f)
  BY <1>3, <1>5 DEF Off, Controllable, Open
<1>6. CASE Retry(f)
  <2> DEFINE retire == episode[f].phase \in {"reloading", "active"}
  <2>1. retire \in BOOLEAN
    OBVIOUS
  <2>2. Target(f, TRUE, retire)
    BY <1>6 DEF Retry
  <2>3. ~fiber[f].gone
    BY <1>6 DEF Retry, Controllable
  <2> HIDE DEF retire
  <2> QED
    BY <1>3, <2>1, <2>2, <2>3
<1>7. CASE OffAgain(f)
  BY <1>1, <1>2, <1>7 DEF OffAgain, Controllable, Retarget
<1>8. CASE Ensure(f)
  BY <1>1, <1>2, <1>8 DEF Ensure, Retarget
<1>9. ASSUME NEW i \in Fibers, ScheduleFiber(i, f) PROVE Retarget(f)
  BY <1>1, <1>2, <1>9 DEF ScheduleFiber, DisposeFiber, Unfinished, Retarget
<1>10. ASSUME NEW i \in Fibers, RequestFiber(i, f) PROVE Retarget(f)
  <2> DEFINE x == [fiber[f] EXCEPT !.want = FALSE, !.seq = @ + 1, !.asked = TRUE]
  <2>0. fiber[f].seq + 1 \in Nat
    BY <1>1
  <2>1. x \in FiberRow
    BY <1>1, <2>0 DEF FiberRow
  <2>5. x.seq = fiber[f].seq + 1 /\ x.gone = fiber[f].gone /\ x.owner = fiber[f].owner
    BY <1>1 DEF FiberRow
  <2>2. fiber' = [fiber EXCEPT ![f] = x]
    BY <1>1, <1>10 DEF RequestFiber
  <2> HIDE DEF x
  <2>3. fiber[f].seq <= x.seq
    BY <1>1, <2>5
  <2>4. /\ UNCHANGED <<install, episode, contribs, pins>> /\ (Successor(f) \/ UNCHANGED slot)
        /\ ~fiber[f].gone
    BY <1>10 DEF RequestFiber, DisposeFiber, Unfinished
  <2> QED
    BY <2>1, <2>2, <2>3, <2>4, <2>5 DEF Retarget
<1> QED
  BY <1>4, <1>5, <1>6, <1>7, <1>8, <1>9, <1>10

\* Every step of the kernel.
Moves(f) ==
    \/ Install(f) \/ Dispose(f) \/ Retarget(f) \/ Closes(f)
    \/ \E s \in slot[f] : \/ Nothing(f, s) \/ Begin(f, s) \/ Register(f, s) \/ Activate(f, s)
                          \/ Release(f, s) \/ ReleasePins(f, s) \/ Close(f, s)
    \/ \E i \in Fibers : FinishFiber(i, f) \/ FinishInstall(i, f)

\* Every step is one of the moves, of one fiber.
LEMMA NextMoves ==
    ASSUME TypeOK, Next
    PROVE  \E f \in Fibers : Moves(f)
<1>1. ASSUME NEW f \in Fibers, NEW s \in slot[f], Leave(f, s) \/ Divert(f, s) \/ Raise(f, s)
      PROVE  Closes(f)
  <2>1. /\ episode[f].phase \in {"reloading", "active"}
        /\ \/ CloseStart(f, FALSE, {c \in Own(f) : c.kind = "service"})
           \/ CloseStart(f, FALSE, {}) \/ CloseStart(f, TRUE, {})
    BY <1>1 DEF Leave, Divert, Raise
  <2> QED
    BY <2>1 DEF Closes
<1>2. ASSUME NEW f \in Fibers, Advance(f) PROVE Moves(f)
  <2>1. PICK s \in slot[f] :
            \/ Nothing(f, s) \/ Begin(f, s) \/ Leave(f, s) \/ Divert(f, s) \/ Raise(f, s)
            \/ Register(f, s) \/ Activate(f, s)
            \/ Release(f, s) \/ ReleasePins(f, s) \/ Close(f, s)
    BY <1>2 DEF Advance
  <2> QED
    BY <1>1, <2>1 DEF Moves
<1>3. ASSUME NEW i \in Fibers, DisposeStep(i) PROVE \E f \in Fibers : Moves(f)
  <2>1. PICK f \in Fibers :
            RequestFiber(i, f) \/ ScheduleFiber(i, f) \/ FinishFiber(i, f) \/ FinishInstall(i, f)
    BY <1>3 DEF DisposeStep
  <2> QED
    BY <2>1, Retargets DEF Moves
<1>4. PICK f \in Fibers :
          \/ Install(f) \/ On(f) \/ Off(f) \/ OffAgain(f) \/ Retry(f) \/ Dispose(f)
          \/ Advance(f) \/ Ensure(f) \/ DisposeStep(f)
  BY DEF Next
<1>5. CASE Install(f) \/ Dispose(f)
  BY <1>5 DEF Moves
<1>6. CASE On(f) \/ Off(f) \/ OffAgain(f) \/ Retry(f) \/ Ensure(f)
  BY <1>6, Retargets DEF Moves
<1>7. CASE Advance(f) \/ DisposeStep(f)
  BY <1>2, <1>3, <1>7
<1> QED
  BY <1>4, <1>5, <1>6, <1>7

-----------------------------------------------------------------------------
(* Every step keeps the types. *)

RowsOK ==
    /\ fiber \in [Fibers -> FiberRow]
    /\ episode \in [Fibers -> EpisodeRow]
    /\ \A g \in Fibers : SlotOK(slot[g], fiber[g].seq)
    /\ DOMAIN slot = Fibers

\* The rows of fibers, episodes and slots.
LEMMA RowsNext ==
    ASSUME TypeOK, DOMAIN slot = Fibers, NEW f \in Fibers, Moves(f)
    PROVE  RowsOK' /\ OnlyRow(f)
<1>1. /\ fiber \in [Fibers -> FiberRow] /\ episode \in [Fibers -> EpisodeRow]
      /\ fiber[f] \in FiberRow /\ episode[f] \in EpisodeRow
      /\ \A g \in Fibers : SlotOK(slot[g], fiber[g].seq)
      /\ fiber[f].seq \in Nat /\ episode[f].epoch \in Nat /\ episode[f].next \in Nat
      /\ episode[f].seq \in Nat /\ fiber[f].failure \in Nat
  BY TypeParts DEF FiberRow, EpisodeRow
<1>2. ASSUME NEW x \in FiberRow, fiber' = [fiber EXCEPT ![f] = x] \/ fiber' = fiber,
             NEW y \in EpisodeRow, episode' = [episode EXCEPT ![f] = y] \/ episode' = episode,
             fiber' = fiber \/ fiber[f].seq <= x.seq,
             Successor(f) \/ NoSuccessor(f) \/ UNCHANGED slot
      PROVE  RowsOK' /\ OnlyRow(f)
  <2>1. fiber[f].seq <= fiber'[f].seq
    BY <1>1, <1>2
  <2> QED
    BY <1>2, <2>1, RowTypes DEF RowsOK
<1>3. CASE UNCHANGED <<fiber, episode, slot>>
  BY <1>1, <1>2, <1>3
<1>4. ASSUME NEW x \in FiberRow, fiber' = [fiber EXCEPT ![f] = x], x.seq = fiber[f].seq,
             UNCHANGED <<episode, slot>>
      PROVE  RowsOK' /\ OnlyRow(f)
  <2>1. fiber[f].seq <= x.seq /\ episode[f] \in EpisodeRow
    BY <1>1, <1>4
  <2> QED
    BY <1>2, <1>4, <2>1
<1>5. ASSUME NEW y \in EpisodeRow, episode' = [episode EXCEPT ![f] = y], fiber' = fiber,
             Successor(f) \/ NoSuccessor(f)
      PROVE  RowsOK' /\ OnlyRow(f)
  BY <1>1, <1>2, <1>5
<1>6. CASE Install(f)
  <2>1. CASE OwnerOf[f] = NoOne
    BY <1>3, <1>6, <2>1 DEF Install
  <2>2. CASE OwnerOf[f] # NoOne
    <3> DEFINE x == [fiber[f] EXCEPT !.owner = episode[OwnerOf[f]].epoch]
    <3>1. OwnerOf[f] \in Fibers
      BY <2>2, OwnerAssumption
    <3>2. episode[OwnerOf[f]].epoch \in Nat
      BY <1>1, <3>1 DEF EpisodeRow
    <3>3. x \in FiberRow
      BY <1>1, <3>2 DEF FiberRow
    <3>4. x.seq = fiber[f].seq
      BY <1>1 DEF FiberRow
    <3>5. fiber' = [fiber EXCEPT ![f] = x] /\ UNCHANGED <<episode, slot>>
      BY <1>1, <1>6, <2>2 DEF Install
    <3> HIDE DEF x
    <3> QED
      BY <1>4, <3>3, <3>4, <3>5
  <2> QED
    BY <2>1, <2>2
<1>7. CASE Dispose(f) \/ \E i \in Fibers : FinishInstall(i, f)
  BY <1>3, <1>7 DEF Dispose, FinishInstall
<1>8. CASE Retarget(f)
  <2>1. PICK x \in FiberRow : fiber' = [fiber EXCEPT ![f] = x] /\ fiber[f].seq <= x.seq
    BY <1>8 DEF Retarget
  <2>2. episode' = episode /\ (Successor(f) \/ UNCHANGED slot)
    BY <1>8 DEF Retarget
  <2> QED
    BY <1>1, <1>2, <2>1, <2>2
<1>9. CASE Closes(f)
  <2>1. PICK failure, lost : CloseStart(f, failure, lost)
    BY <1>9 DEF Closes
  <2> DEFINE n == IF failure THEN episode[f].seq ELSE fiber[f].failure
             x == [fiber[f] EXCEPT !.retire = TRUE, !.failure = n]
             y == [episode[f] EXCEPT !.phase = "closing"]
  <2>2. n \in Nat
    BY <1>1
  <2>3. fiber' = [fiber EXCEPT ![f] = x] /\ episode' = [episode EXCEPT ![f] = y] /\ NoSuccessor(f)
    BY <1>1, <2>1 DEF CloseStart
  <2> HIDE DEF n
  <2>4. x \in FiberRow
    BY <1>1, <2>2 DEF FiberRow
  <2>5. x.seq = fiber[f].seq
    BY <1>1 DEF FiberRow
  <2>6. y \in EpisodeRow
    BY <1>1 DEF EpisodeRow, Phases
  <2> HIDE DEF x, y
  <2>7. fiber[f].seq <= x.seq
    BY <1>1, <2>5
  <2> QED
    BY <1>2, <2>3, <2>4, <2>6, <2>7
<1>10. ASSUME NEW s \in slot[f], Nothing(f, s) PROVE RowsOK' /\ OnlyRow(f)
  BY <1>1, <1>2, <1>10 DEF Nothing
<1>11. ASSUME NEW s \in slot[f], Begin(f, s) PROVE RowsOK' /\ OnlyRow(f)
  <2> DEFINE y == [epoch |-> episode[f].epoch + 1, phase |-> "reloading",
                   seq |-> fiber[f].seq, next |-> 0, drained |-> FALSE]
  <2>1. episode' = [episode EXCEPT ![f] = y] /\ fiber' = fiber /\ Successor(f)
    BY <1>11 DEF Begin
  <2>2. y \in EpisodeRow
    BY <1>1 DEF EpisodeRow, Phases
  <2> HIDE DEF y
  <2> QED
    BY <1>5, <2>1, <2>2
<1>12. ASSUME NEW s \in slot[f], Register(f, s) PROVE RowsOK' /\ OnlyRow(f)
  <2> DEFINE n == Cardinality(NextBatch(f))
             y == [episode[f] EXCEPT !.next = @ + n]
  <2>1. n \in Nat
    <3>1. DOMAIN Provides[f] = 1..Len(Provides[f]) /\ Len(Provides[f]) \in Nat
      BY ManifestAssumption
    <3>2. IsFiniteSet(1..Len(Provides[f]))
      BY <3>1, FS_Interval
    <3>3. NextBatch(f) \subseteq 1..Len(Provides[f])
      BY <3>1 DEF NextBatch
    <3> QED
      BY <3>2, <3>3, FS_Subset, FS_CardinalityType
  <2>2. episode' = [episode EXCEPT ![f] = y] /\ fiber' = fiber /\ Successor(f)
    BY <1>1, <1>12 DEF Register
  <2> HIDE DEF n
  <2>3. episode[f].next + n \in Nat
    BY <1>1, <2>1
  <2>4. y \in EpisodeRow
    BY <1>1, <2>3 DEF EpisodeRow
  <2> HIDE DEF y
  <2> QED
    BY <1>5, <2>2, <2>4
<1>13. ASSUME NEW s \in slot[f], Activate(f, s) PROVE RowsOK' /\ OnlyRow(f)
  <2> DEFINE y == [episode[f] EXCEPT !.phase = "active"]
  <2>1. episode' = [episode EXCEPT ![f] = y] /\ fiber' = fiber /\ NoSuccessor(f)
    BY <1>1, <1>13 DEF Activate
  <2>2. y \in EpisodeRow
    BY <1>1 DEF EpisodeRow, Phases
  <2> HIDE DEF y
  <2> QED
    BY <1>5, <2>1, <2>2
<1>14. ASSUME NEW s \in slot[f], Release(f, s) \/ ReleasePins(f, s) PROVE RowsOK' /\ OnlyRow(f)
  <2> DEFINE y == [episode[f] EXCEPT !.drained = TRUE]
  <2>1. episode' = [episode EXCEPT ![f] = y] /\ fiber' = fiber /\ Successor(f)
    BY <1>1, <1>14 DEF Release, ReleasePins
  <2>2. y \in EpisodeRow
    BY <1>1 DEF EpisodeRow
  <2> HIDE DEF y
  <2> QED
    BY <1>5, <2>1, <2>2
<1>15. ASSUME NEW s \in slot[f], Close(f, s) PROVE RowsOK' /\ OnlyRow(f)
  <2> DEFINE x == [fiber[f] EXCEPT !.retire = FALSE]
             y == [episode[f] EXCEPT !.phase = "none"]
  <2>1. fiber' = [fiber EXCEPT ![f] = x] /\ episode' = [episode EXCEPT ![f] = y] /\ NoSuccessor(f)
    BY <1>1, <1>15 DEF Close
  <2>2. x \in FiberRow
    BY <1>1 DEF FiberRow
  <2>3. x.seq = fiber[f].seq
    BY <1>1 DEF FiberRow
  <2>4. y \in EpisodeRow
    BY <1>1 DEF EpisodeRow, Phases
  <2> HIDE DEF x, y
  <2>5. fiber[f].seq <= x.seq
    BY <1>1, <2>3
  <2> QED
    BY <1>2, <2>1, <2>2, <2>4, <2>5
<1>16. ASSUME NEW i \in Fibers, FinishFiber(i, f) PROVE RowsOK' /\ OnlyRow(f)
  <2> DEFINE x == [fiber[f] EXCEPT !.asked = TRUE, !.gone = TRUE]
  <2>1. fiber' = [fiber EXCEPT ![f] = x] /\ UNCHANGED <<episode, slot>>
    BY <1>1, <1>16 DEF FinishFiber
  <2>2. x \in FiberRow
    BY <1>1 DEF FiberRow
  <2>3. x.seq = fiber[f].seq
    BY <1>1 DEF FiberRow
  <2> HIDE DEF x
  <2> QED
    BY <1>4, <2>1, <2>2, <2>3
<1> QED
  BY <1>6, <1>7, <1>8, <1>9, <1>10, <1>11, <1>12, <1>13, <1>14, <1>15, <1>16 DEF Moves

\* What a step may do to the episode of f: begin one, close the open one, or go on with it.
LEMMA EpisodeMoves ==
    ASSUME TypeOK, NEW f \in Fibers, Moves(f)
    PROVE  \/ episode'[f] = episode[f]
           \/ /\ \E s \in slot[f] : Begin(f, s)
              /\ ~Open(f)
              /\ episode'[f].phase = "reloading" /\ ~episode'[f].drained
              /\ episode'[f].epoch = episode[f].epoch + 1
           \/ /\ \E s \in slot[f] : Close(f, s)
              /\ Open(f)
              /\ episode'[f].phase = "none" /\ episode'[f].epoch = episode[f].epoch
           \/ /\ Open(f)
              /\ episode'[f].phase \in {"reloading", "active", "closing"}
              /\ episode'[f].phase = "reloading" => episode[f].phase = "reloading"
              /\ episode'[f].phase = "active" => episode[f].phase \in {"reloading", "active"}
              /\ episode'[f].epoch = episode[f].epoch
              /\ episode'[f].phase # "closing" => episode'[f].drained = episode[f].drained
<1>1. /\ episode \in [Fibers -> EpisodeRow] /\ episode[f] \in EpisodeRow
      /\ DOMAIN episode[f] = {"epoch", "phase", "seq", "next", "drained"}
      /\ episode[f].phase \in {"none", "reloading", "active", "closing"}
  BY TypeParts DEF EpisodeRow, Phases
<1>2. CASE UNCHANGED episode
  BY <1>2
<1>3. CASE Closes(f)
  <2>1. episode' = [episode EXCEPT ![f].phase = "closing"] /\ Open(f)
    BY <1>3 DEF Closes, CloseStart, Open
  <2>2. episode'[f] = [episode[f] EXCEPT !.phase = "closing"]
    BY <1>1, <2>1
  <2> QED
    BY <1>1, <2>1, <2>2
<1>4. ASSUME NEW s \in slot[f], Begin(f, s)
      PROVE  /\ ~Open(f)
             /\ episode'[f].phase = "reloading" /\ ~episode'[f].drained
             /\ episode'[f].epoch = episode[f].epoch + 1
  BY <1>1, <1>4 DEF Begin, CanBegin
<1>5. ASSUME NEW s \in slot[f], Register(f, s) \/ Activate(f, s)
      PROVE  /\ Open(f)
             /\ episode'[f].phase \in {"reloading", "active"}
             /\ episode[f].phase = "reloading"
             /\ episode'[f].epoch = episode[f].epoch /\ episode'[f].drained = episode[f].drained
  <2>1. \E n : episode' = [episode EXCEPT ![f].next = n] \/ episode' = [episode EXCEPT ![f].phase = "active"]
    BY <1>5 DEF Register, Activate
  <2>2. \E n : episode'[f] = [episode[f] EXCEPT !.next = n] \/ episode'[f] = [episode[f] EXCEPT !.phase = "active"]
    BY <1>1, <2>1
  <2>3. episode[f].phase = "reloading"
    BY <1>5 DEF Register, Activate
  <2> QED
    BY <1>1, <2>2, <2>3 DEF Open
<1>6. ASSUME NEW s \in slot[f], Release(f, s) \/ ReleasePins(f, s)
      PROVE  /\ Open(f) /\ episode'[f].phase = "closing"
             /\ episode'[f].epoch = episode[f].epoch
  <2>1. episode' = [episode EXCEPT ![f].drained = TRUE] /\ episode[f].phase = "closing"
    BY <1>6 DEF Release, ReleasePins
  <2>2. episode'[f] = [episode[f] EXCEPT !.drained = TRUE]
    BY <1>1, <2>1
  <2> QED
    BY <1>1, <2>1, <2>2 DEF Open
<1>7. ASSUME NEW s \in slot[f], Close(f, s)
      PROVE  /\ Open(f) /\ episode'[f].phase = "none" /\ episode'[f].epoch = episode[f].epoch
  <2>1. episode' = [episode EXCEPT ![f].phase = "none"] /\ episode[f].phase = "closing"
    BY <1>7 DEF Close
  <2>2. episode'[f] = [episode[f] EXCEPT !.phase = "none"]
    BY <1>1, <2>1
  <2> QED
    BY <1>1, <2>1, <2>2 DEF Open
<1>8. CASE Install(f) \/ Dispose(f) \/ Retarget(f) \/ \E i \in Fibers : FinishFiber(i, f) \/ FinishInstall(i, f)
  BY <1>2, <1>8 DEF Install, Dispose, Retarget, FinishFiber, FinishInstall
<1>9. CASE \E s \in slot[f] : Nothing(f, s)
  BY <1>2, <1>9 DEF Nothing
<1> QED
  BY <1>3, <1>4, <1>5, <1>6, <1>7, <1>8, <1>9 DEF Moves

\* An episode stays open until Close.
LEMMA StaysOpen ==
    ASSUME TypeOK, DOMAIN slot = Fibers, NEW f \in Fibers, Moves(f),
           NEW g \in Fibers, NEW e, Current(g, e),
           g = f => \A s \in slot[f] : ~Close(f, s)
    PROVE  Current(g, e)'
<1>1. CASE g # f
  BY <1>1, RowsNext DEF OnlyRow, Current, Open
<1>2. CASE g = f
  BY <1>2, EpisodeMoves DEF Current, Open
<1> QED
  BY <1>1, <1>2

-----------------------------------------------------------------------------
(* Contributions. *)

Served(C) == \A c, d \in C : c.kind = "service" /\ d.kind = "service" /\ c.what = d.what => c = d

\* Contributions that are only withdrawn, or given back.
LEMMA Withdrawing ==
    ASSUME contribs \subseteq Contrib, IsFiniteSet(contribs), NEW lost,
           contribs' = {IF c \in lost THEN [c EXCEPT !.withdrawn = TRUE] ELSE c : c \in contribs}
    PROVE  /\ contribs' \subseteq Contrib /\ IsFiniteSet(contribs')
           /\ \A d \in contribs' : \E c \in contribs :
                  /\ d = IF c \in lost THEN [c EXCEPT !.withdrawn = TRUE] ELSE c
                  /\ c.fiber = d.fiber /\ c.epoch = d.epoch /\ c.kind = d.kind /\ c.what = d.what
           /\ \A c \in contribs : \E d \in contribs' :
                  c.fiber = d.fiber /\ c.epoch = d.epoch /\ c.kind = d.kind /\ c.what = d.what
<1> DEFINE F == [c \in contribs |-> IF c \in lost THEN [c EXCEPT !.withdrawn = TRUE] ELSE c]
<1>1. ASSUME NEW c \in contribs
      PROVE  /\ F[c] \in Contrib
             /\ c.fiber = F[c].fiber /\ c.epoch = F[c].epoch
             /\ c.kind = F[c].kind /\ c.what = F[c].what
  BY DEF Contrib
<1>2. contribs' = {F[c] : c \in contribs}
  OBVIOUS
<1>3. \A c \in contribs : F[c] = IF c \in lost THEN [c EXCEPT !.withdrawn = TRUE] ELSE c
  OBVIOUS
<1>4. F = [c \in contribs |-> F[c]]
  OBVIOUS
<1> HIDE DEF F
<1>5. IsFiniteSet(contribs')
  BY <1>2, <1>4, ImageFinite
<1>6. contribs' \subseteq Contrib
  BY <1>1, <1>2
<1>7. ASSUME NEW d \in contribs'
      PROVE  \E c \in contribs :
                  /\ d = IF c \in lost THEN [c EXCEPT !.withdrawn = TRUE] ELSE c
                  /\ c.fiber = d.fiber /\ c.epoch = d.epoch /\ c.kind = d.kind /\ c.what = d.what
  <2>1. PICK c \in contribs : d = F[c]
    BY <1>2
  <2> QED
    BY <1>1, <1>3, <2>1
<1>8. ASSUME NEW c \in contribs
      PROVE  \E d \in contribs' :
                  c.fiber = d.fiber /\ c.epoch = d.epoch /\ c.kind = d.kind /\ c.what = d.what
  BY <1>1, <1>2
<1> QED
  BY <1>5, <1>6, <1>7, <1>8

\* The contributions that Install adds.
LEMMA ChildAdded ==
    ASSUME TypeOK, IsFiniteSet(contribs), NEW f \in Fibers, Install(f), OwnerOf[f] # NoOne
    PROVE  \E c \in Contrib :
               /\ contribs' = contribs \cup {c}
               /\ c.fiber = OwnerOf[f] /\ c.epoch = episode[OwnerOf[f]].epoch
               /\ c.kind = "child" /\ c.what = f
<1> DEFINE o == OwnerOf[f]
           c == [fiber |-> o, epoch |-> episode[o].epoch,
                 number |-> NextNumber(o), kind |-> "child", what |-> f, withdrawn |-> FALSE]
<1>1. o \in Fibers
  BY OwnerAssumption
<1>2. episode[o].epoch \in Nat
  BY <1>1, TypeParts DEF EpisodeRow
<1>3. NextNumber(o) \in Nat
  <2>1. Own(o) \subseteq contribs
    BY DEF Own
  <2> QED
    BY <2>1, FS_Subset, FS_CardinalityType DEF NextNumber
<1>4. contribs' = contribs \cup {c}
  BY DEF Install
<1> HIDE DEF o
<1>5. c \in Contrib
  BY <1>1, <1>2, <1>3 DEF Contrib
<1>6. c.fiber = o /\ c.epoch = episode[o].epoch /\ c.kind = "child" /\ c.what = f
  OBVIOUS
<1> QED
  BY <1>4, <1>5, <1>6 DEF o

\* The contributions that Register adds.
LEMMA BatchAdded ==
    ASSUME TypeOK, NEW f \in Fibers, NEW s \in slot[f], Register(f, s)
    PROVE  \E B \in SUBSET Contrib :
               /\ contribs' = contribs \cup B /\ IsFiniteSet(B)
               /\ \A c \in B : c.fiber = f /\ c.epoch = episode[f].epoch /\ c.kind = "service"
               /\ \A c \in B : Services(c.what) = {}
               /\ \A c, d \in B : c.what = d.what => c = d
<1> DEFINE F == [i \in NextBatch(f) |->
                    [fiber |-> f, epoch |-> episode[f].epoch, number |-> i - 1, kind |-> "service",
                     what |-> Provides[f][i], withdrawn |-> FALSE]]
           B == {F[i] : i \in NextBatch(f)}
<1>1. /\ DOMAIN Provides[f] = 1..Len(Provides[f]) /\ Len(Provides[f]) \in Nat
      /\ \A i \in DOMAIN Provides[f] : Provides[f][i] \in Keys
  BY ManifestAssumption
<1>2. NextBatch(f) \subseteq 1..Len(Provides[f])
  BY <1>1 DEF NextBatch
<1>3. IsFiniteSet(NextBatch(f))
  <2>1. IsFiniteSet(1..Len(Provides[f]))
    BY <1>1, FS_Interval
  <2> QED
    BY <1>2, <2>1, FS_Subset
<1>4. F = [i \in NextBatch(f) |-> F[i]]
  OBVIOUS
<1>5. contribs' = contribs \cup B
  BY DEF Register
<1>6. episode[f].epoch \in Nat
  BY TypeParts DEF EpisodeRow
<1>7. ASSUME NEW i \in NextBatch(f)
      PROVE  /\ F[i] \in Contrib
             /\ F[i].fiber = f /\ F[i].epoch = episode[f].epoch /\ F[i].kind = "service"
             /\ F[i].what = Provides[f][i]
  <2>1. i \in 1..Len(Provides[f]) /\ Provides[f][i] \in Keys /\ i - 1 \in Nat
    BY <1>1, <1>2
  <2> QED
    BY <1>6, <2>1 DEF Contrib
<1> HIDE DEF F
<1>8. B \subseteq Contrib
  BY <1>7
<1>9. IsFiniteSet(B)
  BY <1>3, <1>4, ImageFinite
<1>10. ~Conflict(f)
  BY DEF Register
<1>11. \A c \in B : Services(c.what) = {}
  BY <1>7, <1>10 DEF Conflict
<1>12. ASSUME NEW c \in B, NEW d \in B, c.what = d.what PROVE c = d
  <2>1. PICK i \in NextBatch(f) : c = F[i]
    OBVIOUS
  <2>2. PICK j \in NextBatch(f) : d = F[j]
    OBVIOUS
  <2>3. Provides[f][i] = Provides[f][j]
    BY <1>7, <1>12, <2>1, <2>2
  <2>4. ~(i < j) /\ ~(j < i)
    BY <1>10, <2>3 DEF Conflict
  <2>5. i \in Nat /\ j \in Nat
    BY <1>1, <1>2
  <2>6. i = j
    BY <2>4, <2>5
  <2> QED
    BY <2>1, <2>2, <2>6
<1>13. \A c \in B : c.fiber = f /\ c.epoch = episode[f].epoch /\ c.kind = "service"
  BY <1>7
<1> HIDE DEF B
<1> QED
  BY <1>5, <1>8, <1>9, <1>11, <1>12, <1>13

\* Contributions are well typed, of open episodes, and serve an address once.
LEMMA ContribsNext ==
    ASSUME CordisInvariant, NEW f \in Fibers, Moves(f)
    PROVE  contribs' \subseteq Contrib /\ IsFiniteSet(contribs') /\ ContribsOpen' /\ ServedOnce'
<1>1. /\ TypeOK /\ DOMAIN slot = Fibers
      /\ contribs \subseteq Contrib /\ IsFiniteSet(contribs) /\ Served(contribs)
      /\ \A c \in contribs : c.fiber \in Fibers /\ Current(c.fiber, c.epoch)
  BY TypeParts DEF CordisInvariant, ContribsOpen, ServedOnce, Served, Contrib
<1>2. ASSUME NEW s \in slot[f], Close(f, s), NEW c \in contribs PROVE c.fiber # f
  BY <1>1, <1>2 DEF Close, Own, Current
<1>3. \A c \in contribs : Current(c.fiber, c.epoch)'
  BY <1>1, <1>2, StaysOpen
<1>4. CASE contribs' \subseteq contribs
  <2>1. Served(contribs')
    BY <1>1, <1>4 DEF Served
  <2> QED
    BY <1>1, <1>3, <1>4, <2>1, FS_Subset DEF ContribsOpen, ServedOnce, Served
<1>5. ASSUME NEW c \in Contrib, contribs' = contribs \cup {c}, c.kind = "child",
             Current(c.fiber, c.epoch)'
      PROVE  contribs' \subseteq Contrib /\ IsFiniteSet(contribs') /\ ContribsOpen' /\ ServedOnce'
  BY <1>1, <1>3, <1>5, FS_AddElement DEF ContribsOpen, ServedOnce, Served
<1>6. CASE Install(f)
  <2>1. CASE OwnerOf[f] = NoOne
    BY <1>4, <1>6, <2>1 DEF Install
  <2>2. CASE OwnerOf[f] # NoOne
    <3>1. PICK c \in Contrib :
              /\ contribs' = contribs \cup {c}
              /\ c.fiber = OwnerOf[f] /\ c.epoch = episode[OwnerOf[f]].epoch
              /\ c.kind = "child" /\ c.what = f
      BY <1>1, <1>6, <2>2, ChildAdded DEF CordisInvariant
    <3>2. Current(OwnerOf[f], episode[OwnerOf[f]].epoch) /\ UNCHANGED episode
      BY <1>6, <2>2 DEF Install
    <3>3. Current(c.fiber, c.epoch)'
      BY <3>1, <3>2 DEF Current, Open
    <3> QED
      BY <1>5, <3>1, <3>3
  <2> QED
    BY <2>1, <2>2
<1>7. ASSUME NEW s \in slot[f], Register(f, s)
      PROVE  contribs' \subseteq Contrib /\ IsFiniteSet(contribs') /\ ContribsOpen' /\ ServedOnce'
  <2>1. PICK B \in SUBSET Contrib :
            /\ contribs' = contribs \cup B /\ IsFiniteSet(B)
            /\ \A c \in B : c.fiber = f /\ c.epoch = episode[f].epoch /\ c.kind = "service"
            /\ \A c \in B : Services(c.what) = {}
            /\ \A c, d \in B : c.what = d.what => c = d
    BY <1>1, <1>7, BatchAdded
  <2>2. Current(f, episode[f].epoch)
    BY <1>7 DEF Register, Current, Open
  <2>3. \A s2 \in slot[f] : ~Close(f, s2)
    BY <1>7 DEF Register, Close
  <2>5. \A c \in B : Current(c.fiber, c.epoch)'
    <3>1. PICK e : e = episode[f].epoch
      OBVIOUS
    <3>2. Current(f, e)'
      BY <1>1, <2>2, <2>3, <3>1, StaysOpen
    <3> QED
      BY <2>1, <3>1, <3>2
  <2>6. ContribsOpen'
    BY <1>3, <2>1, <2>5 DEF ContribsOpen
  <2>7. ASSUME NEW c \in B, NEW d \in contribs, d.kind = "service" PROVE c.what # d.what
    BY <2>1, <2>7 DEF Services
  <2>8. ServedOnce'
    BY <1>1, <2>1, <2>7 DEF ServedOnce, Served
  <2> QED
    BY <1>1, <2>1, <2>6, <2>8, FS_Union
<1>8. CASE Closes(f)
  <2>1. PICK lost :
            contribs' = {IF c \in lost THEN [c EXCEPT !.withdrawn = TRUE] ELSE c : c \in contribs}
    BY <1>8 DEF Closes, CloseStart
  <2>2. /\ contribs' \subseteq Contrib /\ IsFiniteSet(contribs')
        /\ \A d \in contribs' : \E c \in contribs :
               /\ d = IF c \in lost THEN [c EXCEPT !.withdrawn = TRUE] ELSE c
               /\ c.fiber = d.fiber /\ c.epoch = d.epoch /\ c.kind = d.kind /\ c.what = d.what
    BY ZenonT(60), <1>1, <2>1, Withdrawing
  <2>3. ContribsOpen'
    BY <1>3, <2>2 DEF ContribsOpen
  <2>4. ASSUME NEW c \in contribs', NEW d \in contribs',
               c.kind = "service", d.kind = "service", c.what = d.what
        PROVE  c = d
    <3>1. PICK a \in contribs : /\ c = IF a \in lost THEN [a EXCEPT !.withdrawn = TRUE] ELSE a
                                /\ a.kind = c.kind /\ a.what = c.what
      BY <2>2
    <3>2. PICK b \in contribs : /\ d = IF b \in lost THEN [b EXCEPT !.withdrawn = TRUE] ELSE b
                                /\ b.kind = d.kind /\ b.what = d.what
      BY <2>2
    <3>3. a = b
      BY <1>1, <2>4, <3>1, <3>2 DEF Served
    <3> QED
      BY <3>1, <3>2, <3>3
  <2>5. ServedOnce'
    BY <2>4 DEF ServedOnce
  <2> QED
    BY <2>2, <2>3, <2>5
<1>9. CASE \E s \in slot[f] : \/ Nothing(f, s) \/ Begin(f, s) \/ Activate(f, s)
                              \/ Release(f, s) \/ ReleasePins(f, s) \/ Close(f, s)
  BY <1>4, <1>9 DEF Nothing, Begin, Activate, Release, ReleasePins, Close
<1>10. CASE Dispose(f) \/ Retarget(f) \/ \E i \in Fibers : FinishFiber(i, f) \/ FinishInstall(i, f)
  BY <1>4, <1>10 DEF Dispose, Retarget, FinishFiber, FinishInstall, DisposeFiber
<1> QED
  BY <1>6, <1>7, <1>8, <1>9, <1>10 DEF Moves

\* A contribution stays, withdrawn or not, until its batch is released.
LEMMA ContribKept ==
    ASSUME CordisInvariant, NEW f \in Fibers, Moves(f), NEW c \in contribs,
           \A s \in slot[f] : Release(f, s) => c \notin LastBatch(f)
    PROVE  \E d \in contribs' :
               c.fiber = d.fiber /\ c.epoch = d.epoch /\ c.kind = d.kind /\ c.what = d.what
<1>1. TypeOK /\ contribs \subseteq Contrib /\ IsFiniteSet(contribs)
  BY TypeParts DEF CordisInvariant
<1>2. CASE c \in contribs'
  BY <1>2
<1>3. CASE Closes(f)
  <2>1. PICK lost :
            contribs' = {IF x \in lost THEN [x EXCEPT !.withdrawn = TRUE] ELSE x : x \in contribs}
    BY <1>3 DEF Closes, CloseStart
  <2> QED
    BY <1>1, <2>1, Withdrawing
<1>4. CASE Install(f)
  BY <1>2, <1>4 DEF Install
<1>5. CASE \E s \in slot[f] : \/ Nothing(f, s) \/ Begin(f, s) \/ Register(f, s) \/ Activate(f, s)
                              \/ Release(f, s) \/ ReleasePins(f, s) \/ Close(f, s)
  BY <1>2, <1>5 DEF Nothing, Begin, Register, Activate, Release, ReleasePins, Close
<1>6. CASE Dispose(f) \/ Retarget(f) \/ \E i \in Fibers : FinishFiber(i, f) \/ FinishInstall(i, f)
  BY <1>2, <1>6 DEF Dispose, Retarget, FinishFiber, FinishInstall, DisposeFiber
<1> QED
  BY <1>3, <1>4, <1>5, <1>6 DEF Moves

-----------------------------------------------------------------------------
(* Pins. *)

\* The pins that Begin puts, one on each service that its requirements resolve to.
LEMMA Bindings ==
    ASSUME CordisInvariant, NEW f \in Fibers, NEW s \in slot[f], Begin(f, s)
    PROVE  \E new \in SUBSET Pin :
               /\ pins' = pins \cup new
               /\ \A p \in new : /\ p.fiber = f /\ p.epoch = episode[f].epoch + 1
                                 /\ HeldBy(p) # {}
<1> DEFINE e == episode[f].epoch + 1
           pin(c) == [key |-> c.what, provider |-> c.fiber, providerEpoch |-> c.epoch,
                      fiber |-> f, epoch |-> e]
           found == UNION {Resolved(key) : key \in Requires[f]}
           new == {pin(c) : c \in found}
<1>1. pins' = pins \cup new
  BY DEF Begin
<1>2. contribs \subseteq Contrib /\ episode[f].epoch \in Nat /\ Requires[f] \subseteq Keys
  BY TypeParts, ManifestAssumption DEF CordisInvariant, EpisodeRow
<1>3. ASSUME NEW c \in found
      PROVE  /\ pin(c) \in Pin /\ pin(c).fiber = f /\ pin(c).epoch = e
             /\ c \in HeldBy(pin(c))
  <2>1. PICK key \in Requires[f] : c \in Resolved(key)
    OBVIOUS
  <2>2. c \in contribs /\ c.kind = "service" /\ c.what = key /\ c \in Contrib
    BY <1>2, <2>1 DEF Resolved, Services
  <2>3. c.what \in Keys /\ c.fiber \in Fibers /\ c.epoch \in Nat /\ e \in Nat
    BY <1>2, <2>1, <2>2 DEF Contrib
  <2>4. pin(c) \in Pin
    BY <2>3 DEF Pin
  <2>5. c \in HeldBy(pin(c))
    BY <2>2 DEF HeldBy, Services
  <2> QED
    BY <2>4, <2>5
<1> HIDE DEF found, pin
<1>4. new \subseteq Pin
  BY <1>3
<1>5. \A p \in new : p.fiber = f /\ p.epoch = e /\ HeldBy(p) # {}
  BY <1>3
<1> HIDE DEF new
<1> QED
  BY <1>1, <1>4, <1>5

\* A pin keeps what it holds, and its own episode stays open.
LEMMA PinKept ==
    ASSUME CordisInvariant, NEW f \in Fibers, Moves(f), NEW p \in pins,
           \A s \in slot[f] : ~Begin(f, s), p \in pins'
    PROVE  HeldBy(p)' # {} /\ Current(p.fiber, p.epoch)'
<1>1. /\ TypeOK /\ DOMAIN slot = Fibers /\ HeldBy(p) # {} /\ Current(p.fiber, p.epoch)
      /\ p.fiber \in Fibers
  BY TypeParts DEF CordisInvariant, PinsHold, Pin
<1>2. PICK c \in contribs : c \in HeldBy(p)
  BY <1>1 DEF HeldBy, Services
<1>3. \A s \in slot[f] : Release(f, s) => c \notin LastBatch(f)
  BY <1>2 DEF Release, Pinned
<1>4. PICK d \in contribs' :
          c.fiber = d.fiber /\ c.epoch = d.epoch /\ c.kind = d.kind /\ c.what = d.what
  BY <1>3, ContribKept
<1>5. d \in HeldBy(p)'
  BY <1>2, <1>4 DEF HeldBy, Services
<1>6. ASSUME NEW s \in slot[f], Close(f, s) PROVE p.fiber # f
  BY <1>1, <1>6 DEF Close, PinsOf, Current
<1>7. PICK e : e = p.epoch
  OBVIOUS
<1>8. Current(p.fiber, e)'
  BY <1>1, <1>6, <1>7, StaysOpen
<1>9. Current(p.fiber, p.epoch)'
  BY <1>7, <1>8
<1> QED
  BY <1>5, <1>9

\* No move leaves a pin without what it holds or without its open episode.
LEMMA PinsNext ==
    ASSUME CordisInvariant, NEW f \in Fibers, Moves(f)
    PROVE  pins' \subseteq Pin /\ PinsHold'
<1>1. /\ TypeOK /\ DOMAIN slot = Fibers /\ pins \subseteq Pin
      /\ \A p \in pins : HeldBy(p) # {} /\ Current(p.fiber, p.epoch)
  BY TypeParts DEF CordisInvariant, PinsHold
<1>2. CASE \E s \in slot[f] : Begin(f, s)
  <2>1. PICK s \in slot[f] : Begin(f, s)
    BY <1>2
  <2>2. PICK new \in SUBSET Pin :
            /\ pins' = pins \cup new
            /\ \A p \in new : /\ p.fiber = f /\ p.epoch = episode[f].epoch + 1
                              /\ HeldBy(p) # {}
    BY <2>1, Bindings
  <2>3. UNCHANGED contribs /\ \A s2 \in slot[f] : ~Close(f, s2)
    BY <2>1 DEF Begin, CanBegin, Close, Open
  <2>4. ASSUME NEW p \in pins' PROVE HeldBy(p)' # {}
    BY <1>1, <2>2, <2>3 DEF HeldBy, Services
  <2>5. ASSUME NEW p \in pins' PROVE Current(p.fiber, p.epoch)'
    <3>1. CASE p \in pins
      <4>1. p.fiber \in Fibers /\ Current(p.fiber, p.epoch)
        BY <1>1, <3>1 DEF Pin
      <4>2. PICK e : e = p.epoch
        OBVIOUS
      <4>3. Current(p.fiber, e)'
        BY <1>1, <2>3, <4>1, <4>2, StaysOpen
      <4> QED
        BY <4>2, <4>3
    <3>2. CASE p \in new
      <4>1. episode'[f].phase = "reloading" /\ episode'[f].epoch = episode[f].epoch + 1
        BY <1>1, <2>1 DEF Begin, TypeOK
      <4> QED
        BY <2>2, <3>2, <4>1 DEF Current, Open
    <3> QED
      BY <2>2, <3>1, <3>2
  <2> QED
    BY <1>1, <2>2, <2>4, <2>5 DEF PinsHold
<1>3. CASE \A s \in slot[f] : ~Begin(f, s)
  <2>1. pins' \subseteq pins
    BY <1>3 DEF Moves, Install, Dispose, Retarget, Closes, CloseStart, Nothing, Register, Activate,
                Release, ReleasePins, Close, FinishFiber, FinishInstall, DisposeFiber
  <2>2. \A p \in pins' : HeldBy(p)' # {} /\ Current(p.fiber, p.epoch)'
    BY <1>3, <2>1, PinKept
  <2> QED
    BY <1>1, <2>1, <2>2 DEF PinsHold
<1> QED
  BY <1>2, <1>3

-----------------------------------------------------------------------------
(* Installs and their fibers. *)

\* What a move may do to the install it is about.
LEMMA InstallMoves ==
    ASSUME TypeOK, NEW f \in Fibers, Moves(f)
    PROVE  /\ install' \in [Fibers -> States]
           /\ \A g \in Fibers \ {f} : install'[g] = install[g]
           /\ \/ install'[f] = install[f]
              \/ Install(f) /\ install[f] = "absent" /\ install'[f] = "installed"
              \/ Dispose(f) /\ install[f] = "installed" /\ install'[f] = "dispose_pending"
              \/ /\ \E i \in Fibers : FinishInstall(i, f)
                 /\ install[f] \notin {"absent", "disposed"} /\ install'[f] = "disposed"
<1>1. install \in [Fibers -> States] /\ install[f] \in States
  BY TypeParts
<1>2. CASE UNCHANGED install
  BY <1>1, <1>2
<1>3. CASE Install(f)
  BY <1>1, <1>3 DEF Install, States
<1>4. CASE Dispose(f)
  BY <1>1, <1>4 DEF Dispose, States
<1>5. CASE \E i \in Fibers : FinishInstall(i, f)
  BY <1>1, <1>5 DEF FinishInstall, Subtree, States
<1>6. CASE \/ Retarget(f) \/ Closes(f)
           \/ \E s \in slot[f] : \/ Nothing(f, s) \/ Begin(f, s) \/ Register(f, s) \/ Activate(f, s)
                                 \/ Release(f, s) \/ ReleasePins(f, s) \/ Close(f, s)
           \/ \E i \in Fibers : FinishFiber(i, f)
  BY <1>2, <1>6 DEF Retarget, Closes, CloseStart, Nothing, Begin, Register, Activate, Release,
                    ReleasePins, Close, FinishFiber, DisposeFiber
<1> QED
  BY <1>3, <1>4, <1>5, <1>6 DEF Moves

\* Tombstones are final, and only FinishFiber sets one.
LEMMA FiberMoves ==
    ASSUME TypeOK, NEW f \in Fibers, Moves(f)
    PROVE  /\ fiber[f].gone => fiber'[f].gone
           /\ fiber'[f].gone /\ ~fiber[f].gone => \E i \in Fibers : FinishFiber(i, f)
           /\ fiber'[f].owner = fiber[f].owner \/ Install(f)
           /\ fiber[f].gone /\ ~fiber[f].want => ~fiber'[f].want
<1>1. /\ fiber \in [Fibers -> FiberRow] /\ fiber[f] \in FiberRow
      /\ DOMAIN fiber[f] = {"want", "seq", "retire", "failure", "asked", "gone", "owner"}
  BY TypeParts DEF FiberRow
<1>2. CASE UNCHANGED fiber
  BY <1>2
<1>3. ASSUME NEW x, fiber' = [fiber EXCEPT ![f] = x],
             x.gone = fiber[f].gone, x.owner = fiber[f].owner, x.want = fiber[f].want
      PROVE  /\ fiber'[f].gone = fiber[f].gone /\ fiber'[f].owner = fiber[f].owner
             /\ fiber'[f].want = fiber[f].want
  BY <1>1, <1>3
<1>4. CASE Install(f)
  <2>1. \E n : fiber' = [fiber EXCEPT ![f].owner = n] \/ fiber' = fiber
    BY <1>4 DEF Install
  <2>2. \E n : fiber'[f] = [fiber[f] EXCEPT !.owner = n] \/ fiber'[f] = fiber[f]
    BY <1>1, <2>1
  <2>3. fiber'[f].gone = fiber[f].gone /\ fiber'[f].want = fiber[f].want
    BY <1>1, <2>2
  <2> QED
    BY <1>4, <2>3
<1>5. CASE Retarget(f)
  BY <1>1, <1>5 DEF Retarget
<1>6. CASE Closes(f)
  <2>1. \E n : fiber' = [fiber EXCEPT ![f].retire = TRUE, ![f].failure = n]
    BY <1>6 DEF Closes, CloseStart
  <2>2. \E n : fiber'[f] = [fiber[f] EXCEPT !.retire = TRUE, !.failure = n]
    BY <1>1, <2>1
  <2>3. /\ fiber'[f].gone = fiber[f].gone /\ fiber'[f].want = fiber[f].want
        /\ fiber'[f].owner = fiber[f].owner
    BY <1>1, <2>2
  <2> QED
    BY <2>3
<1>7. CASE \E s \in slot[f] : Close(f, s)
  <2>1. fiber' = [fiber EXCEPT ![f].retire = FALSE]
    BY <1>7 DEF Close
  <2>2. fiber'[f] = [fiber[f] EXCEPT !.retire = FALSE]
    BY <1>1, <2>1
  <2>3. /\ fiber'[f].gone = fiber[f].gone /\ fiber'[f].want = fiber[f].want
        /\ fiber'[f].owner = fiber[f].owner
    BY <1>1, <2>2
  <2> QED
    BY <2>3
<1>8. CASE \E i \in Fibers : FinishFiber(i, f)
  <2>1. fiber' = [fiber EXCEPT ![f].asked = TRUE, ![f].gone = TRUE]
    BY <1>8 DEF FinishFiber
  <2>2. fiber'[f] = [fiber[f] EXCEPT !.asked = TRUE, !.gone = TRUE]
    BY <1>1, <2>1
  <2>3. /\ fiber'[f].gone /\ fiber'[f].want = fiber[f].want
        /\ fiber'[f].owner = fiber[f].owner
    BY <1>1, <2>2
  <2> QED
    BY <1>8, <2>3
<1>9. CASE \/ Dispose(f) \/ \E i \in Fibers : FinishInstall(i, f)
           \/ \E s \in slot[f] : \/ Nothing(f, s) \/ Begin(f, s) \/ Register(f, s) \/ Activate(f, s)
                                 \/ Release(f, s) \/ ReleasePins(f, s)
  BY <1>2, <1>9 DEF Dispose, FinishInstall, Nothing, Begin, Register, Activate, Release, ReleasePins
<1> QED
  BY <1>4, <1>5, <1>6, <1>7, <1>8, <1>9 DEF Moves

\* A child is held by its owner's episode until it is tombstoned.
LEMMA ChildrenNext ==
    ASSUME CordisInvariant, NEW f \in Fibers, Moves(f), NEW g \in Fibers
    PROVE  ChildHeld(g)'
<1> SUFFICES ASSUME install'[g] # "absent", ~fiber'[g].gone, OwnerOf[g] # NoOne
             PROVE  \E c \in contribs' : /\ c.fiber = OwnerOf[g] /\ c.epoch = fiber'[g].owner
                                         /\ c.kind = "child" /\ c.what = g
  BY DEF ChildHeld
<1>1. TypeOK /\ DOMAIN slot = Fibers /\ IsFiniteSet(contribs) /\ OnlyRow(f)
  BY RowsNext DEF CordisInvariant
<1>2. CASE g = f /\ Install(f)
  <2>1. fiber[f].owner = fiber[f].owner /\ fiber \in [Fibers -> FiberRow] /\ fiber[f] \in FiberRow
    BY <1>1, TypeParts
  <2>2. fiber' = [fiber EXCEPT ![f].owner = episode[OwnerOf[f]].epoch]
    BY <1>2 DEF Install
  <2>3. fiber'[f] = [fiber[f] EXCEPT !.owner = episode[OwnerOf[f]].epoch]
    BY <2>1, <2>2
  <2>4. fiber'[f].owner = episode[OwnerOf[f]].epoch
    BY <2>1, <2>3 DEF FiberRow
  <2> QED
    BY <1>1, <1>2, <2>4, ChildAdded
<1>3. CASE ~(g = f /\ Install(f))
  <2>1. fiber'[g].owner = fiber[g].owner /\ ~fiber[g].gone
    BY <1>1, <1>3, FiberMoves DEF OnlyRow
  <2>2. install[g] # "absent"
    BY <1>1, <1>3, InstallMoves
  <2>3. PICK c \in contribs : /\ c.fiber = OwnerOf[g] /\ c.epoch = fiber[g].owner
                              /\ c.kind = "child" /\ c.what = g
    BY <2>1, <2>2 DEF CordisInvariant, ChildHeld
  <2>4. ASSUME NEW s \in slot[f], Release(f, s) PROVE c \notin LastBatch(f)
    BY <2>1, <2>3, <2>4 DEF Release, ChildrenGone, LastBatch
  <2>5. PICK d \in contribs' :
            c.fiber = d.fiber /\ c.epoch = d.epoch /\ c.kind = d.kind /\ c.what = d.what
    BY <2>4, ContribKept
  <2> QED
    BY <2>1, <2>3, <2>5
<1> QED
  BY <1>2, <1>3

\* An install is put under one that is there, and stays there.
LEMMA RootsNext ==
    ASSUME CordisInvariant, NEW f \in Fibers, Moves(f), NEW g \in Fibers
    PROVE  Rooted(g)' /\ Undrained(g)'
<1>1. /\ TypeOK /\ DOMAIN slot = Fibers /\ OnlyRow(f) /\ Rooted(g) /\ Undrained(g)
      /\ OwnerOf[g] # NoOne => OwnerOf[g] \in Fibers
  BY RowsNext, OwnerAssumption DEF CordisInvariant
<1>2. Undrained(g)'
  BY <1>1, EpisodeMoves DEF Undrained, OnlyRow, Open
<1>3. ASSUME OwnerOf[g] # NoOne, install[OwnerOf[g]] # "absent" PROVE install'[OwnerOf[g]] # "absent"
  BY <1>1, <1>3, InstallMoves
<1>4. ASSUME Install(f), g = f PROVE Rooted(g)'
  BY <1>1, <1>3, <1>4 DEF Install, Rooted
<1>5. ASSUME ~(Install(f) /\ g = f) PROVE Rooted(g)'
  <2>1. install'[g] # "absent" => install[g] # "absent"
    BY <1>1, <1>5, InstallMoves
  <2> QED
    BY <1>1, <1>3, <2>1 DEF Rooted
<1> QED
  BY <1>2, <1>4, <1>5

-----------------------------------------------------------------------------
(* Disposed installs. *)

\* Nothing is scheduled, begun or disposed of again under a disposed install.
LEMMA Untouched ==
    ASSUME CordisInvariant, NEW f \in Fibers, Moves(f)
    PROVE  install[f] # "disposed"
<1> SUFFICES ASSUME install[f] = "disposed" PROVE FALSE
  OBVIOUS
<1>1. fiber[f].gone /\ ~Open(f) /\ slot[f] = {}
  BY DEF CordisInvariant, Disposable
<1> QED
  BY <1>1 DEF Moves, Install, Dispose, Retarget, Closes, Open, FinishFiber, DisposeFiber, Unfinished,
              FinishInstall

\* An install is disposed of only when it has nothing left, and gets nothing afterwards.
LEMMA DisposedNext ==
    ASSUME CordisInvariant, NEW f \in Fibers, Moves(f), ContribsOpen', PinsHold', contribs' \subseteq Contrib,
           NEW j \in Fibers, install'[j] = "disposed"
    PROVE  Disposable(j)'
<1>1. /\ TypeOK /\ DOMAIN slot = Fibers /\ OnlyRow(f)
      /\ install[j] = "disposed" => Disposable(j)
  BY RowsNext DEF CordisInvariant
<1>2. CASE install[j] = "disposed"
  <2>1. j # f
    BY <1>2, Untouched
  <2>2. Disposable(j)
    BY <1>1, <1>2
  <2>3. fiber'[j].gone /\ ~fiber'[j].want /\ ~Open(j)' /\ slot'[j] = {}
    BY <1>1, <2>1, <2>2 DEF OnlyRow, Disposable, Open
  <2>4. \A c \in contribs' : c.fiber # j
    BY <2>3 DEF ContribsOpen, Current
  <2>5. ASSUME NEW p \in pins' PROVE p.fiber # j /\ p.provider # j
    <3>1. Current(p.fiber, p.epoch)' /\ HeldBy(p)' # {}
      BY DEF PinsHold
    <3>2. \E c \in contribs' : c.fiber = p.provider
      BY <3>1 DEF HeldBy, Services
    <3> QED
      BY <2>3, <2>4, <3>1, <3>2 DEF Current
  <2>6. ASSUME NEW c \in Fibers, OwnerOf[c] = j, install'[c] # "absent"
        PROVE  fiber'[c].gone /\ install'[c] = "disposed"
    <3>1. ~(Install(f) /\ c = f)
      <4>1. j # NoOne
        BY NoOneAssumption
      <4> QED
        BY <1>2, <2>6, <4>1 DEF Install
    <3>2. install[c] # "absent"
      BY <1>1, <2>6, <3>1, InstallMoves
    <3>3. fiber[c].gone /\ install[c] = "disposed"
      BY <2>2, <2>6, <3>2 DEF Disposable, Children
    <3>4. c # f
      BY <3>3, Untouched
    <3> QED
      BY <1>1, <3>3, <3>4, InstallMoves DEF OnlyRow
  <2> QED
    BY <2>3, <2>4, <2>5, <2>6 DEF Disposable, Children
<1>3. CASE install[j] # "disposed"
  <2>1. j = f
    BY <1>1, <1>3, InstallMoves
  <2>2. PICK i \in Fibers : FinishInstall(i, f)
    BY <1>1, <1>3, <2>1, InstallMoves
  <2>3. Disposable(f) /\ UNCHANGED <<fiber, episode, contribs, pins, slot>>
        /\ install' = [install EXCEPT ![f] = "disposed"]
    BY <2>2 DEF FinishInstall
  <2>4. \A c \in Children(f)' : c \in Children(f) \/ c = f
    BY <1>1, <2>3, TypeParts DEF Children
  <2>5. install \in [Fibers -> States]
    BY <1>1, TypeParts
  <2>6. \A c \in Children(f)' : fiber'[c].gone /\ install'[c] = "disposed"
    <3> SUFFICES ASSUME NEW c \in Children(f)' PROVE fiber'[c].gone /\ install'[c] = "disposed"
      OBVIOUS
    <3>1. c \in Fibers
      BY DEF Children
    <3>2. fiber[f].gone
      BY <2>3 DEF Disposable
    <3> QED
      BY <2>3, <2>4, <2>5, <3>1, <3>2 DEF Disposable
  <2> QED
    BY <2>1, <2>3, <2>6 DEF Disposable, Open
<1> QED
  BY <1>2, <1>3

\* Below a disposed install everything is disposed.
LEMMA DisposedBelow ==
    ASSUME CordisInvariant, NEW i \in Fibers, install[i] = "disposed", NEW f \in Subtree(i)
    PROVE  Disposable(f)
<1> DEFINE X == {g \in Fibers : install[g] \notin {"absent", "disposed"}}
<1>1. f \in Fibers /\ i \in Chain[f] /\ install[f] # "absent"
  BY DEF Subtree
<1>2. ASSUME NEW g \in X PROVE OwnerOf[g] \in X \cup {NoOne}
  <2>1. CASE OwnerOf[g] = NoOne
    BY <2>1
  <2>2. CASE OwnerOf[g] # NoOne
    <3>1. OwnerOf[g] \in Fibers /\ install[OwnerOf[g]] # "absent"
      BY <2>2, OwnerAssumption DEF CordisInvariant, Rooted
    <3>2. install[OwnerOf[g]] # "disposed"
      BY <3>1 DEF CordisInvariant, Disposable, Children
    <3> QED
      BY <3>1, <3>2
  <2> QED
    BY <2>1, <2>2
<1>3. f \notin X
  <2> SUFFICES ASSUME f \in X PROVE FALSE
    OBVIOUS
  <2>1. X \in SUBSET Fibers /\ \A g \in X : OwnerOf[g] \in X \cup {NoOne}
    BY <1>2
  <2>2. i \notin X
    OBVIOUS
  <2> HIDE DEF X
  <2>3. i \in X
    BY <1>1, <2>1 DEF Chain
  <2> QED
    BY <2>2, <2>3
<1> QED
  BY <1>1, <1>3 DEF CordisInvariant

-----------------------------------------------------------------------------
(* Slots. *)

\* Whoever has work left has a slot, and it is of the episode it will find.
LEMMA SlotsNext ==
    ASSUME CordisInvariant, NEW f \in Fibers, Moves(f)
    PROVE  SuccessorKept'
<1> DEFINE Kept(g) == /\ episode[g].phase = "reloading" => slot[g] # {}
                      /\ episode[g].phase = "closing" /\ episode[g].drained => slot[g] # {}
                      /\ \A s \in slot[g] : s.epoch = CurrentEpoch(g)
<1>1. /\ TypeOK /\ DOMAIN slot = Fibers /\ OnlyRow(f) /\ \A g \in Fibers : Kept(g)
      /\ Undrained(f) /\ episode \in [Fibers -> EpisodeRow] /\ episode[f] \in EpisodeRow
      /\ DOMAIN episode[f] = {"epoch", "phase", "seq", "next", "drained"}
  BY RowsNext, TypeParts DEF CordisInvariant, SuccessorKept, EpisodeRow
<1>2. \A g \in Fibers \ {f} : Kept(g)'
  BY <1>1 DEF OnlyRow, CurrentEpoch, Open
<1>3. ASSUME Successor(f) PROVE Kept(f)'
  <2>1. slot'[f] = {[seq |-> fiber'[f].seq,
                     epoch |-> IF episode'[f].phase = "none" THEN 0 ELSE episode'[f].epoch]}
    BY <1>1, <1>3, Scheduling
  <2> QED
    BY <2>1 DEF CurrentEpoch, Open
<1>4. ASSUME UNCHANGED <<slot, episode>> PROVE Kept(f)'
  BY <1>1, <1>4 DEF CurrentEpoch, Open
<1>5. ASSUME NoSuccessor(f), episode'[f].phase # "reloading",
             ~(episode'[f].phase = "closing" /\ episode'[f].drained)
      PROVE  Kept(f)'
  <2>1. slot'[f] = {}
    BY <1>1, <1>5, Scheduling
  <2> QED
    BY <1>5, <2>1
<1>6. ASSUME Retarget(f) PROVE Kept(f)'
  BY <1>3, <1>4, <1>6 DEF Retarget
<1>7. ASSUME Closes(f) PROVE Kept(f)'
  <2>1. NoSuccessor(f) /\ episode' = [episode EXCEPT ![f].phase = "closing"] /\ ~episode[f].drained
    BY <1>1, <1>7 DEF Closes, CloseStart, Undrained
  <2>2. episode'[f] = [episode[f] EXCEPT !.phase = "closing"]
    BY <1>1, <2>1
  <2>3. episode'[f].phase = "closing" /\ ~episode'[f].drained
    BY <1>1, <2>1, <2>2
  <2> HIDE DEF Kept
  <2> QED
    BY <1>5, <2>1, <2>3
<1>8. ASSUME NEW s \in slot[f], Nothing(f, s) PROVE Kept(f)'
  <2>1. NoSuccessor(f) /\ UNCHANGED episode /\ episode[f].phase \in {"none", "active"}
    BY <1>8 DEF Nothing, Open
  <2> HIDE DEF Kept
  <2> QED
    BY <1>5, <2>1
<1>9. ASSUME NEW s \in slot[f], Begin(f, s) \/ Register(f, s) \/ Release(f, s) \/ ReleasePins(f, s)
      PROVE  Kept(f)'
  <2>1. Successor(f)
    BY <1>9 DEF Begin, Register, Release, ReleasePins
  <2> HIDE DEF Kept
  <2> QED
    BY <1>3, <2>1
<1>10. ASSUME NEW s \in slot[f], Activate(f, s) \/ Close(f, s) PROVE Kept(f)'
  <2>1. NoSuccessor(f) /\ \E x \in {"active", "none"} : episode' = [episode EXCEPT ![f].phase = x]
    BY <1>10 DEF Activate, Close
  <2>2. \E x \in {"active", "none"} : episode'[f] = [episode[f] EXCEPT !.phase = x]
    BY <1>1, <2>1
  <2>3. episode'[f].phase \in {"active", "none"}
    BY <1>1, <2>2
  <2> HIDE DEF Kept
  <2> QED
    BY <1>5, <2>1, <2>3
<1>11. ASSUME Install(f) \/ Dispose(f) \/ \E i \in Fibers : FinishFiber(i, f) \/ FinishInstall(i, f)
       PROVE  Kept(f)'
  <2>1. UNCHANGED <<slot, episode>>
    BY <1>11 DEF Install, Dispose, FinishFiber, FinishInstall
  <2> HIDE DEF Kept
  <2> QED
    BY <1>4, <2>1
<1> HIDE DEF Kept
<1>12. Kept(f)'
  BY <1>6, <1>7, <1>8, <1>9, <1>10, <1>11 DEF Moves
<1>13. \A g \in Fibers : Kept(g)'
  BY <1>2, <1>12
<1> QED
  BY <1>13 DEF Kept, SuccessorKept

-----------------------------------------------------------------------------
(* The theorems. *)

\* The empty kernel satisfies the invariant.
LEMMA CordisInit == ASSUME Init PROVE CordisInvariant
<1>1. install \in [Fibers -> States] /\ \A f \in Fibers : install[f] = "absent"
  BY DEF Init, States
<1>2. fiber \in [Fibers -> FiberRow]
  BY DEF Init, FiberRow
<1>3. episode \in [Fibers -> EpisodeRow] /\ \A f \in Fibers : episode[f].phase = "none"
  BY DEF Init, EpisodeRow, Phases
<1>4. contribs = {} /\ pins = {} /\ IsFiniteSet(contribs)
  BY FS_EmptySet DEF Init
<1>5. DOMAIN slot = Fibers /\ \A f \in Fibers : slot[f] = {}
  BY DEF Init
<1>6. \A f \in Fibers : SlotOK(slot[f], fiber[f].seq)
  BY <1>5, SlotSizes
<1>7. TypeOK
  BY <1>1, <1>2, <1>3, <1>4, <1>6, TypeParts
<1> QED
  BY <1>1, <1>3, <1>4, <1>5, <1>7
  DEF CordisInvariant, PinsHold, ContribsOpen, ServedOnce, ChildHeld, Rooted, Undrained,
      SuccessorKept

\* Every command keeps the invariant.
LEMMA CordisStep == ASSUME CordisInvariant, [Next]_vars PROVE CordisInvariant'
<1>1. ASSUME NEW f \in Fibers, Moves(f) PROVE CordisInvariant'
  <2>1. RowsOK' /\ install' \in [Fibers -> States]
    BY <1>1, RowsNext, InstallMoves DEF CordisInvariant
  <2>2. contribs' \subseteq Contrib /\ IsFiniteSet(contribs') /\ ContribsOpen' /\ ServedOnce'
    BY <1>1, ContribsNext
  <2>3. pins' \subseteq Pin /\ PinsHold'
    BY <1>1, PinsNext
  <2>4. TypeOK' /\ DOMAIN slot' = Fibers
    BY <2>1, <2>2, <2>3, TypeParts DEF RowsOK, TypeOK, States, FiberRow, EpisodeRow, Contrib, Pin, SlotOK
  <2>5. \A g \in Fibers : ChildHeld(g)' /\ Rooted(g)' /\ Undrained(g)'
    BY <1>1, ChildrenNext, RootsNext
  <2>6. \A g \in Fibers : install'[g] = "disposed" => Disposable(g)'
    BY <1>1, <2>2, <2>3, DisposedNext
  <2>7. SuccessorKept'
    BY <1>1, SlotsNext
  <2> QED
    BY <2>2, <2>3, <2>4, <2>5, <2>6, <2>7 DEF CordisInvariant
<1>2. CASE Next
  BY <1>1, <1>2, NextMoves DEF CordisInvariant
<1>3. CASE UNCHANGED vars
  BY <1>3 DEF vars, CordisInvariant, TypeOK, PinsHold, HeldBy, Services, ContribsOpen, ServedOnce,
              ChildHeld, Rooted, Undrained, Disposable, Children, Open, Current, SuccessorKept,
              CurrentEpoch
<1> QED
  BY <1>2, <1>3

\* The invariant of the lifecycle kernel, for any tree of installs.
THEOREM CordisSafe == Spec => []CordisInvariant
  BY CordisInit, CordisStep, PTL DEF Spec

\* What every command of the kernel preserves: the columns hold what they may, teardown
\* takes nothing away from who still uses it, and work that has begun keeps its slot.
THEOREM KernelLifecycle == Spec => []Lifecycle
<1>1. ASSUME CordisInvariant PROVE TeardownOrder
  <2>1. \A p \in pins : HeldBy(p) # {} /\ Current(p.fiber, p.epoch)
    BY <1>1 DEF CordisInvariant, PinsHold
  <2>2. \A c \in contribs : Current(c.fiber, c.epoch)
    BY <1>1 DEF CordisInvariant, ContribsOpen
  <2>3. ASSUME NEW f \in Fibers, install[f] # "absent", ~fiber[f].gone, OwnerOf[f] # NoOne
        PROVE  Current(OwnerOf[f], fiber[f].owner)
    BY <1>1, <2>2, <2>3 DEF CordisInvariant, ChildHeld
  <2>4. ASSUME NEW key \in Keys PROVE Cardinality(Services(key)) <= 1
    <3>1. \A c, d \in Services(key) : c = d
      BY <1>1 DEF CordisInvariant, ServedOnce, Services
    <3>2. CASE Services(key) = {}
      BY <3>2, FS_EmptySet
    <3>3. CASE Services(key) # {}
      <4>1. PICK c : Services(key) = {c}
        BY <3>1, <3>3
      <4>2. Cardinality({c}) = 1
        BY FS_Singleton
      <4> QED
        BY <4>1, <4>2
    <3> QED
      BY <3>2, <3>3
  <2>5. ASSUME NEW i \in Fibers, install[i] = "disposed", NEW f \in Subtree(i)
        PROVE  Disposable(f)
    BY <1>1, <2>5, DisposedBelow
  <2> QED
    BY <2>1, <2>2, <2>3, <2>4, <2>5 DEF TeardownOrder
<1>2. CordisInvariant => Lifecycle
  BY <1>1 DEF CordisInvariant, Lifecycle
<1> QED
  BY <1>2, CordisSafe, PTL

=============================================================================
