------------------------------- MODULE Cordis -------------------------------
(***************************************************************************)
(* The lifecycle kernel of Cordis: installs, fibers and their episodes.    *)
(*                                                                         *)
(* An install has one fiber, which its owner's episode holds as a child.   *)
(* A fiber that is wanted begins an episode: it pins what it requires,     *)
(* registers what it provides batch by batch and becomes active.  An       *)
(* episode that is not wanted any more, or has lost a provider or its      *)
(* owner, closes: contributions are given back last in, first out, once    *)
(* the children are tombstoned and nobody holds a pin on them; then the    *)
(* own pins; then the episode.                                             *)
(*                                                                         *)
(* Every command is one transaction under one advisory lock, so a step of  *)
(* the model is a committed command; a command that is refused, deferred   *)
(* or blocked changes nothing.  A fiber has at most one open reconcile     *)
(* effect, its slot, with the control sequence and the episode frozen when *)
(* it was emitted.  Nothing notifies: a scanner advances every slot,       *)
(* ensures every fiber and repeats every dispose.                          *)
(*                                                                         *)
(* A key stands for a realm and a key; contracts, overlays and manifests   *)
(* are valid; the limits of 512 nodes are not reached.  Only rows that are *)
(* not released are kept.                                                  *)
(***************************************************************************)
EXTENDS Naturals, Sequences, FiniteSets

CONSTANTS
    Fibers,     \* installs, each with its fiber
    NoOne,      \* the owner of the root
    OwnerOf,    \* the owner that each install names
    Keys,       \* addresses of services
    Requires,   \* the keys its manifest requires
    Provides,   \* the sequence of keys its manifest provides
    Rank,       \* the order of the fibers' ids
    Batch,      \* contributions or pins in one delta; 32 in the code
    MayDispose, \* bound: the installs that users dispose of
    MaxSeq      \* bound: no on, off or retry of a fiber at this sequence

ASSUME NoOneAssumption == NoOne \notin Fibers
ASSUME OwnerAssumption ==
    /\ OwnerOf \in [Fibers -> Fibers \cup {NoOne}]
    /\ Cardinality({f \in Fibers : OwnerOf[f] = NoOne}) = 1
ASSUME ManifestAssumption ==
    /\ Requires \in [Fibers -> SUBSET Keys]
    /\ Provides \in [Fibers -> Seq(Keys)]
ASSUME BoundAssumption ==
    /\ Batch \in Nat \ {0}
    /\ MayDispose \subseteq Fibers
    /\ MaxSeq \in [Fibers -> Nat]
    /\ Rank \in [Fibers -> Nat]
    /\ \A f, g \in Fibers : Rank[f] = Rank[g] => f = g

VARIABLES
    install,    \* install[f]: absent, installed, dispose_pending or disposed
    fiber,      \* the target of each fiber, and its dispose
    episode,    \* the last episode of each fiber
    contribs,   \* contributions that are not released
    pins,       \* pins that are not released
    slot        \* the open reconcile effect of each fiber, a set of at most one
vars == <<install, fiber, episode, contribs, pins, slot>>

Phases == {"none", "reloading", "active", "closing"}

Init ==
    /\ install = [f \in Fibers |-> "absent"]
    /\ fiber = [f \in Fibers |-> [want |-> FALSE, seq |-> 0, retire |-> FALSE, failure |-> 0,
                                  asked |-> FALSE, gone |-> FALSE, owner |-> 0]]
    /\ episode = [f \in Fibers |-> [epoch |-> 0, phase |-> "none", seq |-> 0, next |-> 0,
                                    drained |-> FALSE]]
    /\ contribs = {}
    /\ pins = {}
    /\ slot = [f \in Fibers |-> {}]

-----------------------------------------------------------------------------
(* What the commands read. *)

\* A fiber and its owners: the smallest set that has it and the owner of each (fiber_chain).
Chain == [f \in Fibers |->
    {a \in Fibers : \A S \in SUBSET Fibers :
        f \in S /\ (\A c \in S : OwnerOf[c] \in S \cup {NoOne}) => a \in S}]

Subtree(i) == {f \in Fibers : i \in Chain[f] /\ install[f] # "absent"}

Children(f) == {c \in Fibers : OwnerOf[c] = f /\ install[c] # "absent"}

\* Every node that Next leads to from start, in as many steps as there are fibers.
Reach(start, Next(_)) ==
    LET grow[n \in 0..Cardinality(Fibers)] ==
            IF n = 0 THEN start
            ELSE LET near == grow[n - 1] IN near \cup UNION {Next(x) : x \in near}
    IN  grow[Cardinality(Fibers)]

Open(f) == episode[f].phase # "none"

\* e is the open episode of f.
Current(f, e) == Open(f) /\ episode[f].epoch = e

CurrentEpoch(f) == IF Open(f) THEN episode[f].epoch ELSE 0

Failed(f) == fiber[f].failure > 0 /\ fiber[f].failure = fiber[f].seq

\* A dispose of the fiber or of one of its owners has begun.
Sealed(f) ==
    \E a \in Chain[f] :
        fiber[a].asked \/ fiber[a].gone \/ install[a] \in {"dispose_pending", "disposed"}

\* The episode that owns f is still active and wanted.
OwnerHolds(f) ==
    OwnerOf[f] # NoOne =>
        LET o == OwnerOf[f] IN
        /\ Current(o, fiber[f].owner)
        /\ episode[o].phase = "active"
        /\ fiber[o].want
        /\ ~fiber[o].retire
        /\ ~fiber[o].asked
        /\ ~fiber[o].gone
        /\ ~Failed(o)

PinsOf(f, e) == {p \in pins : p.fiber = f /\ p.epoch = e}

Services(key) == {c \in contribs : c.kind = "service" /\ c.what = key}

\* The contribution that a pin holds.
HeldBy(p) == {c \in Services(p.key) : c.fiber = p.provider /\ c.epoch = p.providerEpoch}

\* Nothing is wrong with episode e of f itself, its owner and its pins.
NodeLive(f, e) ==
    /\ Current(f, e)
    /\ episode[f].phase = "active"
    /\ fiber[f].want
    /\ episode[f].seq = fiber[f].seq
    /\ ~fiber[f].retire
    /\ ~Failed(f)
    /\ ~Sealed(f)
    /\ OwnerHolds(f)
    /\ {p.key : p \in PinsOf(f, e)} = Requires[f]
    /\ \A p \in PinsOf(f, e) : \E c \in HeldBy(p) : ~c.withdrawn

\* The episodes that an episode depends on: its providers and its owner.
DependsOn(n) ==
    {<<p.provider, p.providerEpoch>> : p \in PinsOf(n[1], n[2])}
    \cup IF OwnerOf[n[1]] = NoOne THEN {} ELSE {<<OwnerOf[n[1]], fiber[n[1]].owner>>}

\* Episode e of f and all that it depends on are live.
Live(f, e) == \A n \in Reach({<<f, e>>}, DependsOn) : NodeLive(n[1], n[2])

\* The services that a new pin may be put on.
Resolved(key) == {c \in Services(key) : ~c.withdrawn /\ Live(c.fiber, c.epoch)}

\* May f be turned on (control), or go on activating?
Admission(f, control) ==
    /\ install[f] = "installed"
    /\ ~Sealed(f)
    /\ control \/ ~fiber[f].retire
    /\ OwnerHolds(f)
    /\ OwnerOf[f] # NoOne => Live(OwnerOf[f], fiber[f].owner)

\* An advance at sequence seq would begin an episode.
CanBegin(f, seq) ==
    /\ ~Open(f)
    /\ ~fiber[f].gone
    /\ seq = fiber[f].seq
    /\ fiber[f].want
    /\ Admission(f, FALSE)
    /\ \A key \in Requires[f] : Resolved(key) # {}

\* Everything the open episode of f pinned is what would be resolved now.
Consistent(f) ==
    \A key \in Requires[f] :
        \E p \in PinsOf(f, episode[f].epoch) : p.key = key /\ HeldBy(p) \cap Resolved(key) # {}

-----------------------------------------------------------------------------
(* What the deltas write. *)

\* The reconcile effect of f with the rows as they will be.
Successor(f) == slot' = [slot EXCEPT ![f] = {[seq |-> fiber'[f].seq,
                            epoch |-> IF episode'[f].phase = "none" THEN 0 ELSE episode'[f].epoch]}]

NoSuccessor(f) == slot' = [slot EXCEPT ![f] = {}]

\* A change of the target uses the slot that is open.
Coalesced(f) == IF slot[f] = {} THEN Successor(f) ELSE UNCHANGED slot

\* The open episode of f starts to close; lost are the contributions withdrawn from resolution.
CloseStart(f, failure, lost) ==
    /\ fiber' = [fiber EXCEPT ![f].retire = TRUE,
                              ![f].failure = IF failure THEN episode[f].seq ELSE @]
    /\ episode' = [episode EXCEPT ![f].phase = "closing"]
    /\ contribs' = {IF c \in lost THEN [c EXCEPT !.withdrawn = TRUE] ELSE c : c \in contribs}
    /\ NoSuccessor(f)
    /\ UNCHANGED <<install, pins>>

Own(f) == {c \in contribs : c.fiber = f /\ c.epoch = episode[f].epoch}

\* The next sequence number of a contribution of f's episode.
NextNumber(f) == Cardinality(Own(f))

-----------------------------------------------------------------------------
(* Commands of users. *)

\* command_install: an install, its fiber, and the fiber as a child of its owner's episode.
Install(f) ==
    LET o == OwnerOf[f] IN
    /\ install[f] = "absent"
    /\ o # NoOne => /\ install[o] = "installed"
                    /\ Current(o, episode[o].epoch)
                    /\ Live(o, episode[o].epoch)
    /\ install' = [install EXCEPT ![f] = "installed"]
    /\ IF o = NoOne
       THEN UNCHANGED <<fiber, contribs>>
       ELSE /\ fiber' = [fiber EXCEPT ![f].owner = episode[o].epoch]
            /\ contribs' = contribs \cup {[fiber |-> o, epoch |-> episode[o].epoch,
                    number |-> NextNumber(o), kind |-> "child", what |-> f, withdrawn |-> FALSE]}
    /\ UNCHANGED <<episode, pins, slot>>

\* on, off and retry are refused of what is being disposed.
Controllable(f) == install[f] = "installed" /\ ~fiber[f].asked /\ ~fiber[f].gone

Target(f, want, retire) ==
    /\ fiber[f].seq < MaxSeq[f]
    /\ fiber' = [fiber EXCEPT ![f].want = want, ![f].seq = @ + 1, ![f].retire = @ \/ retire]
    /\ episode' = episode
    /\ Coalesced(f)
    /\ UNCHANGED <<install, contribs, pins>>

On(f) ==
    /\ Controllable(f)
    /\ ~fiber[f].want
    /\ Admission(f, TRUE)
    /\ Target(f, TRUE, FALSE)

Off(f) ==
    /\ Controllable(f)
    /\ fiber[f].want
    /\ Target(f, FALSE, Open(f))

\* An off that is repeated wakes an episode that is still open.
OffAgain(f) ==
    /\ Controllable(f)
    /\ ~fiber[f].want
    /\ slot[f] = {}
    /\ Open(f)
    /\ UNCHANGED <<install, fiber, episode, contribs, pins>>
    /\ Successor(f)

Retry(f) ==
    /\ Controllable(f)
    /\ fiber[f].want
    /\ Admission(f, TRUE)
    /\ Failed(f) \/ episode[f].phase = "closing"
    /\ Target(f, TRUE, episode[f].phase \in {"reloading", "active"})

\* The first command_dispose of an install only seals it.
Dispose(i) ==
    /\ i \in MayDispose
    /\ install[i] = "installed"
    /\ install' = [install EXCEPT ![i] = "dispose_pending"]
    /\ UNCHANGED <<fiber, episode, contribs, pins, slot>>

-----------------------------------------------------------------------------
(* The advance of the slot of f, one branch each. *)

\* The slot names the open episode, or none if there is none; otherwise it is refused.
Bound(f, s) == s \in slot[f] /\ s.epoch = CurrentEpoch(f)

\* An obsolete slot, or one of an episode that is as it should be, is only settled.
Nothing(f, s) ==
    /\ Bound(f, s)
    /\ \/ ~Open(f) /\ ~fiber[f].gone /\ (s.seq # fiber[f].seq \/ ~fiber[f].want)
       \/ episode[f].phase = "active" /\ Live(f, episode[f].epoch)
    /\ NoSuccessor(f)
    /\ UNCHANGED <<install, fiber, episode, contribs, pins>>

\* p1: an episode begins with a pin on a provider of every key; no provider depends on f.
Begin(f, s) ==
    LET e == episode[f].epoch + 1
        bindings == {[key |-> c.what, provider |-> c.fiber, providerEpoch |-> c.epoch,
                      fiber |-> f, epoch |-> e] :
                         c \in UNION {Resolved(key) : key \in Requires[f]}}
    IN  /\ Bound(f, s)
        /\ CanBegin(f, s.seq)
        /\ \A p \in bindings :
               \A n \in Reach({<<p.provider, p.providerEpoch>>}, DependsOn) : n[1] # f
        /\ episode' = [episode EXCEPT ![f] = [epoch |-> e, phase |-> "reloading",
                           seq |-> fiber[f].seq, next |-> 0, drained |-> FALSE]]
        /\ pins' = pins \cup bindings
        /\ fiber' = fiber
        /\ Successor(f)
        /\ UNCHANGED <<install, contribs>>

\* An active episode that is not live any more withdraws its services and closes.
Leave(f, s) ==
    /\ Bound(f, s)
    /\ episode[f].phase = "active"
    /\ ~Live(f, episode[f].epoch)
    /\ CloseStart(f, FALSE, {c \in Own(f) : c.kind = "service"})

\* The slot and the episode still stand for the wanted target, and the bindings for the rows.
OnCourse(f, s) ==
    /\ fiber[f].want
    /\ s.seq = fiber[f].seq
    /\ episode[f].seq = fiber[f].seq
    /\ Admission(f, FALSE)
    /\ Consistent(f)

Divert(f, s) ==
    /\ Bound(f, s)
    /\ episode[f].phase = "reloading"
    /\ ~OnCourse(f, s)
    /\ CloseStart(f, FALSE, {})

\* The positions in the manifest that the next batch registers.
NextBatch(f) ==
    {i \in DOMAIN Provides[f] : episode[f].next < i /\ i <= episode[f].next + Batch}

\* Another service holds an address of the batch, or the batch has it twice.
Conflict(f) ==
    \E i \in NextBatch(f) :
        \/ Services(Provides[f][i]) # {}
        \/ \E j \in NextBatch(f) : j < i /\ Provides[f][j] = Provides[f][i]

\* p2: the episode fails, its failure suppresses another begin at the same sequence.
Raise(f, s) ==
    /\ Bound(f, s)
    /\ episode[f].phase = "reloading"
    /\ OnCourse(f, s)
    /\ Conflict(f)
    /\ CloseStart(f, TRUE, {})

Register(f, s) ==
    /\ Bound(f, s)
    /\ episode[f].phase = "reloading"
    /\ OnCourse(f, s)
    /\ NextBatch(f) # {}
    /\ ~Conflict(f)
    /\ contribs' = contribs \cup
           {[fiber |-> f, epoch |-> episode[f].epoch, number |-> i - 1, kind |-> "service",
             what |-> Provides[f][i], withdrawn |-> FALSE] : i \in NextBatch(f)}
    /\ episode' = [episode EXCEPT ![f].next = @ + Cardinality(NextBatch(f))]
    /\ fiber' = fiber
    /\ Successor(f)
    /\ UNCHANGED <<install, pins>>

\* p4.
Activate(f, s) ==
    /\ Bound(f, s)
    /\ episode[f].phase = "reloading"
    /\ OnCourse(f, s)
    /\ NextBatch(f) = {}
    /\ episode' = [episode EXCEPT ![f].phase = "active"]
    /\ NoSuccessor(f)
    /\ UNCHANGED <<install, fiber, contribs, pins>>

\* p6: the latest contributions that are left.
LastBatch(f) ==
    {c \in Own(f) : Cardinality({d \in Own(f) : d.number > c.number}) < Batch}

ChildrenGone(f) == \A c \in Own(f) : c.kind = "child" => fiber[c.what].gone

\* Mutant: what is withdrawn is taken for unused.
PinnedUnlessWithdrawn(c) == \E p \in pins : c \in HeldBy(p) /\ ~c.withdrawn

Pinned(c) == \E p \in pins : c \in HeldBy(p)

Release(f, s) ==
    /\ Bound(f, s)
    /\ episode[f].phase = "closing"
    /\ Own(f) # {}
    /\ ChildrenGone(f)
    /\ \A c \in LastBatch(f) : ~Pinned(c)
    /\ contribs' = contribs \ LastBatch(f)
    /\ episode' = [episode EXCEPT ![f].drained = TRUE]
    /\ fiber' = fiber
    /\ Successor(f)
    /\ UNCHANGED <<install, pins>>

ReleasePins(f, s) ==
    /\ Bound(f, s)
    /\ episode[f].phase = "closing"
    /\ Own(f) = {}
    /\ \E some \in SUBSET PinsOf(f, episode[f].epoch) :
        /\ some # {}
        /\ Cardinality(some) <= Batch
        /\ Cardinality(some) = Batch \/ some = PinsOf(f, episode[f].epoch)
        /\ pins' = pins \ some
    /\ episode' = [episode EXCEPT ![f].drained = TRUE]
    /\ fiber' = fiber
    /\ Successor(f)
    /\ UNCHANGED <<install, contribs>>

Close(f, s) ==
    /\ Bound(f, s)
    /\ episode[f].phase = "closing"
    /\ Own(f) = {}
    /\ PinsOf(f, episode[f].epoch) = {}
    /\ \A p \in pins : ~(p.provider = f /\ p.providerEpoch = episode[f].epoch)
    /\ episode' = [episode EXCEPT ![f].phase = "none"]
    /\ fiber' = [fiber EXCEPT ![f].retire = FALSE]
    /\ NoSuccessor(f)
    /\ UNCHANGED <<install, contribs, pins>>

Advance(f) ==
    \E s \in slot[f] :
        \/ Nothing(f, s) \/ Begin(f, s) \/ Leave(f, s) \/ Divert(f, s) \/ Raise(f, s)
        \/ Register(f, s) \/ Activate(f, s)
        \/ Release(f, s) \/ ReleasePins(f, s) \/ Close(f, s)

-----------------------------------------------------------------------------
(* The rest of a scanner's pass. *)

\* Mutant: ensure looks for what should begin, not for what should end.
EnsureBegin(f) ==
    /\ install[f] \in {"installed", "dispose_pending"}
    /\ ~fiber[f].gone
    /\ slot[f] = {}
    /\ CanBegin(f, fiber[f].seq) /\ ~Failed(f)
    /\ UNCHANGED <<install, fiber, episode, contribs, pins>>
    /\ Successor(f)

\* There is work that an advance would do and nobody has scheduled.
Ensure(f) ==
    /\ install[f] \in {"installed", "dispose_pending"}
    /\ ~fiber[f].gone
    /\ slot[f] = {}
    /\ \/ CanBegin(f, fiber[f].seq) /\ ~Failed(f)
       \/ episode[f].phase = "active" /\ ~Live(f, episode[f].epoch)
       \/ episode[f].phase = "closing" /\ ~episode[f].drained
    /\ UNCHANGED <<install, fiber, episode, contribs, pins>>
    /\ Successor(f)

\* A dispose takes the fibers one by one, the deepest first, the least id first.
Before(f, g) ==
    \/ Cardinality(Chain[f]) > Cardinality(Chain[g])
    \/ Cardinality(Chain[f]) = Cardinality(Chain[g]) /\ Rank[f] < Rank[g]

Unfinished(i) == {f \in Subtree(i) : ~fiber[f].gone}

\* The fibers below go first, then their installs, then the fiber of i.
DisposeFiber(i, f) ==
    /\ install[i] = "dispose_pending"
    /\ f \in Unfinished(i)
    /\ \A g \in Unfinished(i) : f = g \/ Before(f, g)
    /\ f = i => \A c \in Subtree(i) \ {i} : install[c] = "disposed"
    /\ slot[f] = {}
    /\ UNCHANGED <<install, contribs, pins>>

\* A wanted fiber is turned off for good; without an episode there is nothing to schedule.
RequestFiber(i, f) ==
    /\ DisposeFiber(i, f)
    /\ fiber[f].want
    /\ fiber' = [fiber EXCEPT ![f].want = FALSE, ![f].seq = @ + 1, ![f].asked = TRUE]
    /\ episode' = episode
    /\ IF Open(f) THEN Successor(f) ELSE UNCHANGED slot

ScheduleFiber(i, f) ==
    /\ DisposeFiber(i, f)
    /\ ~fiber[f].want
    /\ Open(f)
    /\ UNCHANGED <<fiber, episode>>
    /\ Successor(f)

FinishFiber(i, f) ==
    /\ DisposeFiber(i, f)
    /\ ~fiber[f].want
    /\ ~Open(f)
    /\ \A c \in contribs : c.fiber # f
    /\ \A p \in pins : p.fiber # f /\ p.provider # f
    /\ fiber' = [fiber EXCEPT ![f].asked = TRUE, ![f].gone = TRUE]
    /\ UNCHANGED <<episode, slot>>

\* Nothing of install j is left (dispose_block_reason).
Disposable(j) ==
    /\ fiber[j].gone
    /\ ~fiber[j].want
    /\ ~Open(j)
    /\ slot[j] = {}
    /\ \A c \in contribs : c.fiber # j
    /\ \A p \in pins : p.fiber # j /\ p.provider # j
    /\ \A c \in Children(j) : fiber[c].gone /\ install[c] = "disposed"

\* An install of the subtree, and i last.
FinishInstall(i, j) ==
    /\ install[i] = "dispose_pending"
    /\ j \in Subtree(i)
    /\ install[j] # "disposed"
    /\ \A f \in Unfinished(i) : f = i /\ j # i
    /\ Disposable(j)
    /\ install' = [install EXCEPT ![j] = "disposed"]
    /\ UNCHANGED <<fiber, episode, contribs, pins, slot>>

DisposeStep(i) ==
    \E f \in Fibers :
        RequestFiber(i, f) \/ ScheduleFiber(i, f) \/ FinishFiber(i, f) \/ FinishInstall(i, f)

-----------------------------------------------------------------------------
Next ==
    \E f \in Fibers :
        \/ Install(f) \/ On(f) \/ Off(f) \/ OffAgain(f) \/ Retry(f) \/ Dispose(f)
        \/ Advance(f) \/ Ensure(f) \/ DisposeStep(f)

Spec == Init /\ [][Next]_vars

\* A pass of the scanner visits every slot, every fiber and every dispose that has begun.
FairSpec ==
    /\ Spec
    /\ WF_vars(\E f \in Fibers : Advance(f) \/ Ensure(f) \/ DisposeStep(f))

-----------------------------------------------------------------------------
(* Type invariant: what the columns hold; released contributions and pins  *)
(* are not kept, and a fiber has one open reconcile effect at most.        *)
TypeOK ==
    /\ install \in [Fibers -> {"absent", "installed", "dispose_pending", "disposed"}]
    /\ fiber \in [Fibers -> [want : BOOLEAN, seq : Nat, retire : BOOLEAN, failure : Nat,
                             asked : BOOLEAN, gone : BOOLEAN, owner : Nat]]
    /\ episode \in [Fibers -> [epoch : Nat, phase : Phases, seq : Nat, next : Nat,
                               drained : BOOLEAN]]
    /\ contribs \subseteq [fiber : Fibers, epoch : Nat, number : Nat, kind : {"service", "child"},
                           what : Keys \cup Fibers, withdrawn : BOOLEAN]
    /\ pins \subseteq [fiber : Fibers, epoch : Nat, key : Keys, provider : Fibers,
                       providerEpoch : Nat]
    /\ \A f \in Fibers :
           /\ slot[f] \subseteq [seq : Nat, epoch : Nat]
           /\ Cardinality(slot[f]) <= 1
           /\ \A s \in slot[f] : s.seq <= fiber[f].seq

(* Teardown takes nothing away from who still uses it (two-phase release): *)
(* what a pin holds is not released; contributions and pins belong to an   *)
(* open episode, so that a close leaks none; a fiber that is not           *)
(* tombstoned has its owner's episode open under it, whether the child or  *)
(* the owner is turned off, fails or is disposed; an address is served     *)
(* once, also while an older provider drains; a disposed install has       *)
(* nothing, and nothing below it.                                          *)
TeardownOrder ==
    /\ \A p \in pins : HeldBy(p) # {} /\ Current(p.fiber, p.epoch)
    /\ \A c \in contribs : Current(c.fiber, c.epoch)
    /\ \A f \in Fibers :
           install[f] # "absent" /\ ~fiber[f].gone /\ OwnerOf[f] # NoOne =>
               Current(OwnerOf[f], fiber[f].owner)
    /\ \A key \in Keys : Cardinality(Services(key)) <= 1
    /\ \A i \in Fibers : install[i] = "disposed" => \A f \in Subtree(i) : Disposable(f)

(* Work that has begun is never without somebody to continue it: an        *)
(* episode that activates, or that has given something back, has a slot,   *)
(* because ensure takes a missing one for a fault and does not repair it.  *)
(* A slot never outlives the episode it is bound to, which would make it   *)
(* unsettlable.  Coalesced commands and disposes have to keep this up.     *)
SuccessorKept ==
    \A f \in Fibers :
        /\ episode[f].phase = "reloading" => slot[f] # {}
        /\ episode[f].phase = "closing" /\ episode[f].drained => slot[f] # {}
        /\ \A s \in slot[f] : s.epoch = CurrentEpoch(f)

\* What every command of the kernel preserves.
Lifecycle == TypeOK /\ TeardownOrder /\ SuccessorKept

\* The fiber is what its target says, or cannot be.
AtTarget(f) ==
    IF fiber[f].want
    THEN \/ episode[f].phase = "active" /\ Live(f, episode[f].epoch)
         \/ ~Open(f) /\ (Failed(f) \/ ~CanBegin(f, fiber[f].seq))
    ELSE ~Open(f)

\* The closing episodes that wait for a pin on this one, and so on.
Users(f) == Reach({f}, LAMBDA g : {p.fiber : p \in {q \in pins : q.provider = g}})

\* A closing episode waits for a child that nobody has disposed of.
WaitsForChild(f) ==
    /\ episode[f].phase = "closing"
    /\ \E g \in Users(f) : episode[g].phase = "closing" /\ \E c \in Children(g) : ~fiber[c].gone

\* A fiber that was wanted and had not begun when a dispose sealed it: its slot is refused
\* for ever, and the dispose waits for its slot.
Wedged(f) == fiber[f].want /\ ~Open(f) /\ slot[f] # {} /\ Sealed(f)

(* The scanner converges without being notified: once commands stop, every *)
(* fiber reaches its target or waits for the tombstone of a child, and     *)
(* every dispose ends unless it has sealed a slot that had not begun, or a *)
(* consumer of its services waits for the tombstone of a child.            *)
Converges ==
    <>[] /\ \A f \in Fibers : AtTarget(f) \/ WaitsForChild(f)
         /\ \A i \in Fibers : install[i] = "dispose_pending" =>
                \E f \in Subtree(i) : Wedged(f) \/ WaitsForChild(f)
=============================================================================
