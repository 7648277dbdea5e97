------------------------------ MODULE PlaneProof ------------------------------
(***************************************************************************)
(* Proofs about Plane.  Everything follows from one inductive invariant,   *)
(* PlaneInvariant: what the rows of an install may be together (RowOK),    *)
(* and what ties installs to one another (pins, owners, keys).             *)
(*                                                                         *)
(* Most steps wind rows down: they start nothing, and they end an episode  *)
(* only behind its barrier.  WindStep says so for all installs at once,    *)
(* and a step of it keeps the ties whichever command took it.  Only        *)
(* Activate and Install build something up.                                *)
(***************************************************************************)
EXTENDS Plane, TLAPS

Fibers == [want : BOOLEAN, failed : BOOLEAN, gone : BOOLEAN, epoch : 0..MaxEpochs,
           reconcile : BOOLEAN, episode : {"none", "active", "retiring"}]

Hosts == [prepare : EffectState, release : EffectState, inspect : EffectState,
          acted : BOOLEAN, doubt : BOOLEAN]

States == {"none", "preparing", "installed", "prepare_failed", "prepare_unknown",
           "dispose_pending", "disposed"}

Phases == {"none", "open", "request", "drain", "retire", "cascade", "barrier", "clean",
           "closed"}

SlotRows(i) == [DOMAIN Provides[i] -> {"live", "withdrawn", "released"}]

HeldIn(sl) == {n \in DOMAIN sl : sl[n] # "released"}

\* The episode of an install against its state and its slots.
EpisodeOK(st, f, sl) ==
    /\ f.episode # "none" => st \in {"installed", "dispose_pending"} /\ ~f.gone
    /\ f.episode = "active" => st = "installed"
    /\ f.episode = "none" => HeldIn(sl) = {}
    /\ f.episode = "active" => \A n \in DOMAIN sl : sl[n] = "live"
    /\ f.episode = "retiring" => \A n \in DOMAIN sl : sl[n] # "live"
    /\ \A n \in HeldIn(sl) : \A m \in DOMAIN sl : m < n => m \in HeldIn(sl)

\* The host effects of an install against its state and its fiber.
HostOK(st, f, h) ==
    /\ st = "none" => h.prepare = "none"
    /\ st = "preparing" <=> h.prepare \in Pending
    /\ st = "prepare_unknown" <=> h.prepare = "unknown"
    /\ h.release # "none" => /\ f.gone /\ f.episode = "none"
                             /\ st \in {"dispose_pending", "disposed"}
    /\ h.release = "unknown" => st = "dispose_pending"
    /\ h.inspect \in Pending => h.prepare = "unknown" \/ h.release = "unknown"
    /\ h.acted => h.release # "none"
    /\ f.gone => st \in {"prepare_failed", "dispose_pending", "disposed"}

\* The resource of an install against its rows.
ResourceOK(i, st, h, r) ==
    /\ h.prepare = "ran" => r
    /\ h.acted => ~r
    /\ Prepared(i) /\ st = "installed" => r
    /\ Prepared(i) /\ st = "dispose_pending" /\ h.release = "none" => r

RowOK(i, st, f, sl, h, r) ==
    EpisodeOK(st, f, sl) /\ HostOK(st, f, h) /\ ResourceOK(i, st, h, r)

RowsOK == \A i \in Installs : RowOK(i, install[i], fiber[i], slots[i], host[i], resource[i])

\* An install that is not disposed has its owner's episode still open.
OwnersOpen ==
    \A i \in Installs :
        Undisposed(i) /\ OwnerOf[i] # NoOne =>
            /\ fiber[OwnerOf[i]].episode # "none"
            /\ fiber[OwnerOf[i]].epoch = ownerEp[i]

PlaneInvariant ==
    /\ TypeOK
    /\ DOMAIN slots = Installs
    /\ RowsOK
    /\ OwnersOpen
    /\ ProviderOutlivesPins
    /\ OneSlotPerKey
    /\ ClosedIsEmpty

\* The rows of install i after a step that winds down are st, f, sl and h.
Winds(i, st, f, sl, h) ==
    /\ f.epoch = fiber[i].epoch
    /\ f.episode = "active" => fiber[i].episode = "active"
    /\ fiber[i].episode = "none" => f.episode = "none"
    /\ fiber[i].episode # "none" /\ f.episode = "none" => ~Barrier(i)
    /\ HeldIn(sl) \subseteq Held(i)
    /\ Barrier(i) => HeldIn(sl) = Held(i)
    /\ install[i] = "none" <=> st = "none"
    /\ install[i] \in {"dispose_pending", "disposed"} => st \in {"dispose_pending", "disposed"}
    /\ install[i] = "disposed" => st = "disposed"
    /\ install[i] # "disposed" /\ st = "disposed" => fiber[i].episode = "none"
    /\ install[i] = "disposed" /\ ~HostPending(i) => \A k \in Kinds : h[k] \notin Pending

Typed(i, st, f, sl, h) == st \in States /\ f \in Fibers /\ sl \in SlotRows(i) /\ h \in Hosts

\* Install i is well after the step, and the step wound it down.
Becomes(i) ==
    /\ Typed(i, install'[i], fiber'[i], slots'[i], host'[i])
    /\ resource'[i] \in BOOLEAN
    /\ RowOK(i, install'[i], fiber'[i], slots'[i], host'[i], resource'[i])
    /\ Winds(i, install'[i], fiber'[i], slots'[i], host'[i])

\* The variables stay functions on the installs.
Shaped ==
    /\ DOMAIN install = Installs /\ DOMAIN fiber = Installs /\ DOMAIN slots = Installs
    /\ DOMAIN host = Installs /\ DOMAIN resource = Installs
    /\ install = [i \in Installs |-> install[i]] /\ fiber = [i \in Installs |-> fiber[i]]
    /\ host = [i \in Installs |-> host[i]] /\ resource = [i \in Installs |-> resource[i]]

\* A step that winds every install down; only pins of episodes that are over go.
WindStep ==
    /\ Shaped' /\ \A i \in Installs : Becomes(i)
    /\ ownerEp' = ownerEp
    /\ pins' \subseteq pins
    /\ \A p \in pins \ pins' : fiber'[p.by].episode # "active"
    /\ \A p \in pins' : fiber'[p.by].episode # "none"

-----------------------------------------------------------------------------
(* Rows *)

\* The invariant read off for one install: its rows have their types and are well.
LEMMA RowFacts ==
    ASSUME PlaneInvariant, NEW i \in Installs
    PROVE  /\ Typed(i, install[i], fiber[i], slots[i], host[i])
           /\ resource[i] \in BOOLEAN
           /\ RowOK(i, install[i], fiber[i], slots[i], host[i], resource[i])
           /\ Held(i) = HeldIn(slots[i]) /\ DOMAIN slots[i] = DOMAIN Provides[i]
  BY DEF PlaneInvariant, TypeOK, Typed, RowsOK, States, Fibers, SlotRows, Hosts, Held, HeldIn

\* An install whose rows a step leaves alone is as well as before.
LEMMA RowStays ==
    ASSUME PlaneInvariant, NEW i \in Installs,
           install'[i] = install[i], fiber'[i] = fiber[i], slots'[i] = slots[i],
           host'[i] = host[i], resource'[i] = resource[i]
    PROVE  Becomes(i)
  BY RowFacts DEF Becomes, Winds, HostPending

\* The slots of an install are numbered from one to at most five, so a set of them has a
\* last one: the slot a stage takes back.
LEMMA LastSlot ==
    ASSUME NEW i \in Installs, NEW S \in SUBSET DOMAIN Provides[i], S # {}
    PROVE  \E n \in S : \A m \in S : m <= n
<1>1. PICK size \in 0..5 : DOMAIN Provides[i] = 1..size
  BY PlaneConstants
<1>2. S \subseteq 1..5
  BY <1>1
<1>3. CASE 5 \in S
  BY <1>2, <1>3
<1>4. CASE 5 \notin S /\ 4 \in S
  BY <1>2, <1>4
<1>5. CASE 5 \notin S /\ 4 \notin S /\ 3 \in S
  BY <1>2, <1>5
<1>6. CASE 5 \notin S /\ 4 \notin S /\ 3 \notin S /\ 2 \in S
  BY <1>2, <1>6
<1>7. CASE 5 \notin S /\ 4 \notin S /\ 3 \notin S /\ 2 \notin S
  <2>1. S \subseteq {1}
    BY <1>2, <1>7
  <2>2. S = {1}
    BY <2>1, Zenon
  <2> QED
    BY <2>2
<1> QED
  BY <1>3, <1>4, <1>5, <1>6, <1>7

\* Taking back the last slot keeps the slots below it.
LEMMA LastHeldIsLast ==
    ASSUME PlaneInvariant, NEW i \in Installs, Held(i) # {}
    PROVE  LastHeld(i) \in Held(i) /\ \A m \in Held(i) : m <= LastHeld(i)
<1>1. Held(i) \in SUBSET DOMAIN Provides[i]
  BY RowFacts DEF HeldIn
<1>2. \E n \in Held(i) : \A m \in Held(i) : m <= n
  BY <1>1, LastSlot
<1> QED
  BY <1>2 DEF LastHeld

\* What deactivate_stage makes of an open episode.
DownRow(i, w) ==
    /\ DOMAIN w = {"state", "fiber", "slots", "host", "drop"}
    /\ w.state = install[i] /\ w.host = host[i] /\ w.drop \in BOOLEAN
    /\ w.fiber \in Fibers /\ w.fiber.epoch = fiber[i].epoch /\ w.fiber.gone = fiber[i].gone
    /\ w.fiber.episode # "active"
    /\ w.slots \in SlotRows(i) /\ HeldIn(w.slots) \subseteq Held(i)
    /\ \A n \in DOMAIN w.slots : w.slots[n] # "live"
    /\ \A n \in HeldIn(w.slots) : \A m \in DOMAIN w.slots : m < n => m \in HeldIn(w.slots)
    /\ w.fiber.episode = "none" => HeldIn(w.slots) = {} /\ w.drop /\ ~Barrier(i)
    /\ Barrier(i) => HeldIn(w.slots) = Held(i)

\* RetireRow withdraws the live slots and keeps every one of them.
LEMMA RetireRowOK ==
    ASSUME PlaneInvariant, NEW i \in Installs, fiber[i].episode # "none"
    PROVE  DownRow(i, RetireRow(i))
<1>1. Withdrawn(i) \in SlotRows(i) /\ HeldIn(Withdrawn(i)) = Held(i)
  BY RowFacts DEF Withdrawn, SlotRows, HeldIn, Held, Typed
<1>2. \A n \in DOMAIN Withdrawn(i) : Withdrawn(i)[n] # "live"
  BY RowFacts DEF Withdrawn, SlotRows, Typed
<1>3. DOMAIN Withdrawn(i) = DOMAIN slots[i]
  BY DEF Withdrawn
<1>4. fiber[i] \in Fibers /\ EpisodeOK(install[i], fiber[i], slots[i])
  BY RowFacts DEF Typed, RowOK
<1> DEFINE down == [fiber[i] EXCEPT !.want = FALSE, !.episode = "retiring"]
<1>5. DOMAIN RetireRow(i) = {"state", "fiber", "slots", "host", "drop"}
  BY DEF RetireRow, Row
<1>6. RetireRow(i).state = install[i] /\ RetireRow(i).host = host[i]
      /\ RetireRow(i).slots = Withdrawn(i) /\ RetireRow(i).drop = FALSE
  BY DEF RetireRow, Row
<1>7. RetireRow(i).fiber = down
  BY <1>4 DEF RetireRow, Row, Fibers
<1>8. down \in Fibers /\ down.episode = "retiring" /\ down.epoch = fiber[i].epoch
      /\ down.gone = fiber[i].gone
  BY <1>4 DEF Fibers
<1>9. EpisodeOK(install[i], fiber[i], slots[i])
      => \A n \in HeldIn(Withdrawn(i)) : \A m \in DOMAIN Withdrawn(i) :
             m < n => m \in HeldIn(Withdrawn(i))
  BY <1>1, <1>3, RowFacts DEF EpisodeOK
<1> HIDE DEF down
<1> QED
  BY <1>1, <1>2, <1>3, <1>4, <1>5, <1>6, <1>7, <1>8, <1>9 DEF DownRow

\* ReleaseRow gives up the pins and the last slot, and the episode with the last slot.
LEMMA ReleaseRowOK ==
    ASSUME PlaneInvariant, NEW i \in Installs, fiber[i].episode # "none", ~Barrier(i)
    PROVE  DownRow(i, ReleaseRow(i))
<1> DEFINE left == IF Held(i) = {} THEN {} ELSE Held(i) \ {LastHeld(i)}
           kept == [n \in DOMAIN slots[i] |-> IF n \in left THEN "withdrawn" ELSE "released"]
           down == [fiber[i] EXCEPT !.want = FALSE,
                                    !.episode = IF left = {} THEN "none" ELSE "retiring"]
<1>1. fiber[i] \in Fibers /\ EpisodeOK(install[i], fiber[i], slots[i])
  BY RowFacts DEF Typed, RowOK
<1>2. DOMAIN slots[i] = DOMAIN Provides[i] /\ Held(i) = HeldIn(slots[i])
  BY RowFacts
<1>3. kept \in SlotRows(i) /\ HeldIn(kept) = left /\ \A n \in DOMAIN kept : kept[n] # "live"
  BY <1>2 DEF SlotRows, HeldIn
<1>4. down \in Fibers /\ down.epoch = fiber[i].epoch /\ down.gone = fiber[i].gone
  BY <1>1 DEF Fibers
<1>5. down.episode # "active" /\ (down.episode = "none" => left = {})
  BY <1>1 DEF Fibers
<1>6. left \subseteq Held(i)
  OBVIOUS
<1>7. DOMAIN Provides[i] \subseteq Int
  BY PlaneConstants
<1>8. \A n \in left : \A m \in DOMAIN slots[i] : m < n => m \in left
  <2> SUFFICES ASSUME NEW n \in left, NEW m \in DOMAIN slots[i], m < n PROVE m \in left
    OBVIOUS
  <2>1. n \in Held(i) /\ m \in Held(i)
    BY <1>1, <1>2 DEF EpisodeOK
  <2>2. n <= LastHeld(i) /\ LastHeld(i) \in Held(i)
    BY <2>1, LastHeldIsLast
  <2>3. m \in Int /\ n \in Int /\ LastHeld(i) \in Int
    BY <2>1, <2>2, <1>2, <1>7 DEF HeldIn
  <2> QED
    BY <2>1, <2>2, <2>3
<1>9. DOMAIN kept = DOMAIN slots[i]
  OBVIOUS
<1>10. DOMAIN ReleaseRow(i) = {"state", "fiber", "slots", "host", "drop"}
  BY DEF ReleaseRow, Row
<1>11. ReleaseRow(i).state = install[i] /\ ReleaseRow(i).host = host[i]
       /\ ReleaseRow(i).drop = TRUE
  BY DEF ReleaseRow, Row
<1>12. ReleaseRow(i).slots = kept
  BY DEF ReleaseRow, Row
<1>13. ReleaseRow(i).fiber = down
  BY <1>1 DEF ReleaseRow, Row, Fibers
<1> HIDE DEF left, kept, down
<1> QED
  BY <1>3, <1>4, <1>5, <1>6, <1>8, <1>9, <1>10, <1>11, <1>12, <1>13 DEF DownRow

\* deactivate_stage ends an episode only behind its barrier.
LEMMA DeactivatedRow ==
    ASSUME PlaneInvariant, NEW i \in Installs, fiber[i].episode # "none", NEW mode
    PROVE  DownRow(i, Deactivated(i, mode))
<1>1. CASE fiber[i].episode = "active" /\ (mode # "control" \/ Barrier(i))
  BY <1>1, RetireRowOK DEF Deactivated
<1>2. CASE fiber[i].episode # "active" /\ Barrier(i)
  <2>1. Deactivated(i, mode) = Row(i)
    BY <1>2 DEF Deactivated
  <2>2. Typed(i, install[i], fiber[i], slots[i], host[i])
        /\ EpisodeOK(install[i], fiber[i], slots[i]) /\ Held(i) = HeldIn(slots[i])
    BY RowFacts DEF RowOK
  <2>3. fiber[i].episode = "retiring"
    BY <1>2, <2>2 DEF Typed, Fibers
  <2> QED
    BY <1>2, <2>1, <2>2, <2>3 DEF DownRow, Row, Typed, EpisodeOK
<1>3. CASE ~(fiber[i].episode = "active" /\ (mode # "control" \/ Barrier(i)))
           /\ ~(fiber[i].episode # "active" /\ Barrier(i))
  <2>1. CASE Barrier(i)
    BY <1>3, <2>1
  <2>2. CASE ~Barrier(i)
    <3>1. Deactivated(i, mode) = ReleaseRow(i)
      BY <1>3, <2>2 DEF Deactivated
    <3> QED
      BY <2>2, <3>1, ReleaseRowOK
  <2> QED
    BY <2>1, <2>2
<1> QED
  BY <1>1, <1>2, <1>3

-----------------------------------------------------------------------------
(* Stages *)

\* What dispose_stage makes of the rows of an undisposed install: well again, wound
\* down, and out of the pins' way.
StagedRow(i, w) ==
    /\ Typed(i, w.state, w.fiber, w.slots, w.host)
    /\ RowOK(i, w.state, w.fiber, w.slots, w.host, resource[i])
    /\ Winds(i, w.state, w.fiber, w.slots, w.host)
    /\ w.drop => w.fiber.episode # "active"
    /\ fiber[i].episode # "none" /\ w.fiber.episode = "none" => w.drop

\* The rows of an install whose episode is not served any more: the committed ones, or
\* those after deactivate_stage.
LowRow(i, w) ==
    /\ DOMAIN w = {"state", "fiber", "slots", "host", "drop"}
    /\ w.state = install[i] /\ w.host = host[i] /\ w.drop \in BOOLEAN
    /\ w.fiber \in Fibers /\ w.fiber.epoch = fiber[i].epoch /\ w.fiber.gone = fiber[i].gone
    /\ w.fiber.episode # "active" /\ w.slots \in SlotRows(i)
    /\ fiber[i].episode = "none" => w.fiber.episode = "none"
    /\ EpisodeOK(install[i], w.fiber, w.slots)
    /\ HeldIn(w.slots) \subseteq Held(i)
    /\ Barrier(i) => HeldIn(w.slots) = Held(i)
    /\ fiber[i].episode # "none" /\ w.fiber.episode = "none" => w.drop /\ ~Barrier(i)

\* A row without an episode is one to go on from, and so is a deactivated one.
LEMMA LowRows ==
    ASSUME PlaneInvariant, NEW i \in Installs
    PROVE  /\ fiber[i].episode = "none" => LowRow(i, Row(i))
           /\ fiber[i].episode # "none" => LowRow(i, Deactivated(i, "dispose"))
<1>1. Typed(i, install[i], fiber[i], slots[i], host[i])
      /\ EpisodeOK(install[i], fiber[i], slots[i]) /\ Held(i) = HeldIn(slots[i])
  BY RowFacts DEF RowOK
<1>2. fiber[i].episode = "none" => LowRow(i, Row(i))
  BY <1>1 DEF LowRow, Row, Typed
<1>3. ASSUME fiber[i].episode # "none" PROVE LowRow(i, Deactivated(i, "dispose"))
  <2> DEFINE w == Deactivated(i, "dispose")
  <2>1. DownRow(i, w)
    BY <1>3, DeactivatedRow
  <2> HIDE DEF w
  <2>2. EpisodeOK(install[i], w.fiber, w.slots)
    BY <1>1, <1>3, <2>1 DEF DownRow, EpisodeOK, Fibers, SlotRows
  <2>3. LowRow(i, w)
    BY <1>3, <2>1, <2>2 DEF DownRow, LowRow
  <2> QED
    BY <2>3 DEF w
<1> QED
  BY <1>2, <1>3

\* The install of a stage that does not inspect is ready for its disposal to be recorded.
MarkedState(i) == IF install[i] = "installed" THEN "dispose_pending" ELSE install[i]

\* The marked row of an install differs from the drained one in its state alone.
LEMMA MarkedRowFacts ==
    ASSUME NEW i \in Installs, NEW w, LowRow(i, w)
    PROVE  LET m == MarkedRow(i, w)
           IN  /\ DOMAIN m = {"state", "fiber", "slots", "host", "drop"}
               /\ m.state = MarkedState(i) /\ m.fiber = w.fiber /\ m.slots = w.slots
               /\ m.host = host[i] /\ m.drop = w.drop
  BY DEF LowRow, MarkedRow, MarkedState

\* The stages end in one of these states.
LEMMA MarkedStates ==
    ASSUME PlaneInvariant, NEW i \in Installs, Undisposed(i), ~Inspects(i)
    PROVE  MarkedState(i) \in {"prepare_failed", "dispose_pending"}
  BY RowFacts DEF Typed, States, Undisposed, Inspects, MarkedState

\* A stage that cannot go on leaves the install marked and well.
LEMMA MarkedRowOK ==
    ASSUME PlaneInvariant, NEW i \in Installs, Undisposed(i), ~Inspects(i),
           NEW w, LowRow(i, w)
    PROVE  StagedRow(i, MarkedRow(i, w))
<1> DEFINE m == MarkedRow(i, w)
<1>1. /\ m.state = MarkedState(i) /\ m.fiber = w.fiber /\ m.slots = w.slots
      /\ m.host = host[i] /\ m.drop = w.drop
  BY MarkedRowFacts
<1>2. m.state \in {"prepare_failed", "dispose_pending"}
  BY <1>1, MarkedStates
<1>3. Typed(i, install[i], fiber[i], slots[i], host[i])
      /\ HostOK(install[i], fiber[i], host[i])
      /\ ResourceOK(i, install[i], host[i], resource[i])
  BY RowFacts DEF RowOK
<1> HIDE DEF m
<1>4. Typed(i, m.state, m.fiber, m.slots, m.host)
  BY <1>1, <1>2, <1>3 DEF Typed, LowRow, States
<1>5. EpisodeOK(m.state, m.fiber, m.slots)
  BY <1>1, <1>2 DEF LowRow, EpisodeOK, MarkedState
<1>6. HostOK(m.state, m.fiber, m.host)
  BY <1>1, <1>2, <1>3 DEF LowRow, HostOK, MarkedState, Undisposed, Pending
<1>7. ResourceOK(i, m.state, m.host, resource[i])
  BY <1>1, <1>3 DEF ResourceOK, MarkedState
<1>8. Winds(i, m.state, m.fiber, m.slots, m.host)
  BY <1>1, <1>2 DEF LowRow, Winds, MarkedState, Undisposed
<1>9. StagedRow(i, m)
  BY <1>1, <1>4, <1>5, <1>6, <1>7, <1>8 DEF StagedRow, RowOK, LowRow
<1> QED
  BY <1>9 DEF m

\* The tail of a stage: the fiber is tombstoned and the release goes out, once, and only
\* for an install that has no episode and no children.
LEMMA ReleaseHostOK ==
    ASSUME PlaneInvariant, NEW i \in Installs, Undisposed(i), ~Inspects(i),
           NEW w, LowRow(i, w), w.fiber.episode = "none"
    PROVE  StagedRow(i, ReleaseHost(i, MarkedRow(i, w)))
<1> DEFINE m == MarkedRow(i, w)
           gone == IF fiber[i].gone THEN m
                   ELSE [m EXCEPT !.fiber.gone = TRUE, !.fiber.want = FALSE]
           other == \E k \in Kinds \ {"release"} : host[i][k] \in Pending
           n == ReleaseHost(i, m)
<1>1. /\ m.state = MarkedState(i) /\ m.fiber = w.fiber /\ m.slots = w.slots
      /\ m.host = host[i] /\ m.drop = w.drop
      /\ DOMAIN m = {"state", "fiber", "slots", "host", "drop"}
  BY MarkedRowFacts
<1>2. m.state \in {"prepare_failed", "dispose_pending"}
  BY <1>1, MarkedStates
<1>3. /\ Typed(i, install[i], fiber[i], slots[i], host[i])
      /\ HostOK(install[i], fiber[i], host[i])
      /\ ResourceOK(i, install[i], host[i], resource[i])
  BY RowFacts DEF RowOK
<1>4. StagedRow(i, m)
  BY MarkedRowOK
<1>5. \/ n = m
      \/ /\ m.state = "prepare_failed" /\ host[i].release \notin Pending
         /\ ~other /\ n = [gone EXCEPT !.state = "disposed"]
      \/ /\ m.state # "prepare_failed" \/ host[i].release \in Pending
         /\ host[i].release \in Pending /\ n = gone
      \/ /\ m.state # "prepare_failed" /\ host[i].release \notin Pending
         /\ ~other /\ ~HostUnknown(i)
         /\ n = [gone EXCEPT !.host.release = "ready", !.host.acted = FALSE]
  BY DEF ReleaseHost
<1> HIDE DEF m, n, other
<1>6. /\ gone.state = m.state /\ gone.slots = m.slots /\ gone.host = m.host
      /\ gone.drop = m.drop /\ gone.fiber.epoch = m.fiber.epoch
      /\ gone.fiber \in Fibers /\ gone.fiber.episode = "none" /\ gone.fiber.gone
      /\ DOMAIN gone = {"state", "fiber", "slots", "host", "drop"}
  BY <1>1, <1>3 DEF LowRow, Fibers
<1> HIDE DEF gone
<1>7. ASSUME m.state = "prepare_failed", host[i].release \notin Pending, ~other,
             n = [gone EXCEPT !.state = "disposed"]
      PROVE  StagedRow(i, n)
  <2>1. /\ n.state = "disposed" /\ n.slots = m.slots /\ n.host = host[i]
        /\ n.drop = m.drop /\ n.fiber = gone.fiber
    BY <1>1, <1>6, <1>7
  <2>2. install[i] = "prepare_failed" /\ fiber[i].episode = "none"
    BY <1>1, <1>3, <1>7, RowFacts DEF MarkedState, RowOK, EpisodeOK
  <2>3. Typed(i, n.state, n.fiber, n.slots, n.host)
    BY <1>1, <1>3, <1>6, <2>1 DEF Typed, States, LowRow
  <2>4. EpisodeOK(n.state, n.fiber, n.slots)
    BY <1>1, <1>4, <1>6, <2>1 DEF StagedRow, RowOK, LowRow, EpisodeOK
  <2>5. HostOK(n.state, n.fiber, n.host)
    BY <1>1, <1>3, <1>6, <2>1, <2>2 DEF HostOK
  <2>6. ResourceOK(i, n.state, n.host, resource[i])
    BY <1>1, <1>3, <2>1, <2>2 DEF ResourceOK
  <2>7. Winds(i, n.state, n.fiber, n.slots, n.host)
    BY <1>1, <1>4, <1>6, <2>1, <2>2 DEF Winds, StagedRow
  <2> QED
    BY <1>4, <1>6, <2>1, <2>2, <2>3, <2>4, <2>5, <2>6, <2>7 DEF StagedRow, RowOK
<1>8. ASSUME host[i].release \in Pending, n = gone PROVE StagedRow(i, n)
  <2>1. fiber[i].gone /\ gone = m
    BY <1>3, <1>8 DEF HostOK, Pending, gone
  <2> QED
    BY <1>4, <1>8, <2>1
<1>9. ASSUME m.state # "prepare_failed", host[i].release \notin Pending, ~other,
             ~HostUnknown(i), n = [gone EXCEPT !.host.release = "ready", !.host.acted = FALSE]
      PROVE  StagedRow(i, n)
  <2>1. /\ n.state = "dispose_pending" /\ n.slots = m.slots
        /\ n.drop = m.drop /\ n.fiber = gone.fiber
    BY <1>1, <1>2, <1>6, <1>9
  <2>2. n.host = [host[i] EXCEPT !.release = "ready", !.acted = FALSE]
    BY <1>1, <1>3, <1>6, <1>9 DEF Typed, Hosts
  <2>3. /\ n.host \in Hosts /\ n.host.release = "ready" /\ ~n.host.acted
        /\ n.host.prepare = host[i].prepare /\ n.host.inspect = host[i].inspect
    BY <1>3, <2>2 DEF Typed, Hosts, EffectState, Pending
  <2>4. install[i] \in {"installed", "dispose_pending"}
    BY <1>1, <1>2, <1>9 DEF MarkedState
  <2>5. Typed(i, n.state, n.fiber, n.slots, n.host)
    BY <1>1, <1>6, <2>1, <2>3 DEF Typed, States, LowRow
  <2>6. EpisodeOK(n.state, n.fiber, n.slots)
    BY <1>1, <1>4, <1>6, <2>1 DEF StagedRow, RowOK, LowRow, EpisodeOK
  <2>7. host[i].inspect \notin Pending
    BY <1>9 DEF other, Kinds
  <2>8. HostOK(n.state, n.fiber, n.host)
    BY <1>1, <1>3, <1>6, <2>1, <2>3, <2>4, <2>7 DEF HostOK
  <2>9. ResourceOK(i, n.state, n.host, resource[i])
    BY <1>3, <2>1, <2>3 DEF ResourceOK
  <2>10. Winds(i, n.state, n.fiber, n.slots, n.host)
    BY <1>1, <1>4, <1>6, <2>1, <2>4 DEF Winds, StagedRow
  <2> QED
    BY <1>4, <1>6, <2>1, <2>5, <2>6, <2>8, <2>9, <2>10, <1>1 DEF StagedRow, RowOK
<1> QED
  <2>1. StagedRow(i, n)
    BY <1>4, <1>5, <1>7, <1>8, <1>9
  <2> QED
    BY <2>1 DEF n, m

\* An inspection is emitted for an unknown outcome and touches nothing else.
LEMMA InspectRowOK ==
    ASSUME PlaneInvariant, NEW i \in Installs, Undisposed(i)
    PROVE  StagedRow(i, InspectRow(i))
<1>1. /\ Typed(i, install[i], fiber[i], slots[i], host[i])
      /\ RowOK(i, install[i], fiber[i], slots[i], host[i], resource[i])
      /\ Held(i) = HeldIn(slots[i])
  BY RowFacts
<1>2. CASE "unknown" \in {host[i].prepare, host[i].release} /\ ~HostPending(i)
  <2> DEFINE w == InspectRow(i)
  <2>1. w.state = install[i] /\ w.fiber = fiber[i] /\ w.slots = slots[i] /\ w.drop = FALSE
    BY <1>2 DEF InspectRow, Row
  <2>2. w.host = [host[i] EXCEPT !.inspect = "ready"]
    BY <1>2 DEF InspectRow, Row
  <2> HIDE DEF w
  <2>3. /\ w.host \in Hosts /\ w.host.inspect = "ready" /\ w.host.prepare = host[i].prepare
        /\ w.host.release = host[i].release /\ w.host.acted = host[i].acted
    BY <1>1, <2>2 DEF Typed, Hosts, EffectState, Pending
  <2>4. HostOK(w.state, w.fiber, w.host)
    BY <1>1, <1>2, <2>1, <2>3 DEF RowOK, HostOK
  <2>5. ResourceOK(i, w.state, w.host, resource[i])
    BY <1>1, <2>1, <2>3 DEF RowOK, ResourceOK
  <2>6. Winds(i, w.state, w.fiber, w.slots, w.host)
    BY <1>1, <2>1 DEF Winds, Undisposed
  <2>7. StagedRow(i, w)
    BY <1>1, <2>1, <2>3, <2>4, <2>5, <2>6 DEF StagedRow, Typed, RowOK
  <2> QED
    BY <2>7 DEF w
<1>3. CASE ~("unknown" \in {host[i].prepare, host[i].release} /\ ~HostPending(i))
  <2>1. InspectRow(i) = Row(i)
    BY <1>3 DEF InspectRow
  <2> QED
    BY <1>1, <2>1 DEF Row, StagedRow, Winds, Undisposed
<1> QED
  BY <1>2, <1>3

\* Every stage on an undisposed install leaves it well and wound down.
LEMMA StageRowOK ==
    ASSUME PlaneInvariant, NEW i \in Installs, Undisposed(i)
    PROVE  StagedRow(i, StageRow(i))
<1> DEFINE down == Deactivated(i, "dispose")
<1>1. CASE Inspects(i)
  BY <1>1, InspectRowOK DEF StageRow
<1>2. CASE ~Inspects(i) /\ fiber[i].episode = "none"
  <2>1. LowRow(i, Row(i)) /\ Row(i).fiber.episode = "none"
    BY <1>2, LowRows DEF Row
  <2>2. StagedRow(i, ReleaseHost(i, MarkedRow(i, Row(i))))
    BY <1>2, <2>1, ReleaseHostOK
  <2> QED
    BY <1>2, <2>2 DEF StageRow
<1>3. CASE ~Inspects(i) /\ fiber[i].episode # "none"
  <2>1. LowRow(i, down)
    BY <1>3, LowRows
  <2>2. StageRow(i) = IF down.fiber.episode = "none" /\ Held(i) # {}
                      THEN ReleaseHost(i, MarkedRow(i, down)) ELSE MarkedRow(i, down)
    BY <1>3 DEF StageRow
  <2> HIDE DEF down
  <2>3. StagedRow(i, MarkedRow(i, down))
    BY <1>3, <2>1, MarkedRowOK
  <2>4. down.fiber.episode = "none" => StagedRow(i, ReleaseHost(i, MarkedRow(i, down)))
    BY <1>3, <2>1, ReleaseHostOK
  <2> QED
    BY <2>2, <2>3, <2>4
<1> QED
  BY <1>1, <1>2, <1>3

-----------------------------------------------------------------------------
(* Steps that wind down *)

\* The functions of the invariant are functions on the installs.
LEMMA ShapedNow ==
    ASSUME PlaneInvariant
    PROVE  Shaped
  BY DEF PlaneInvariant, TypeOK, Shaped

\* A live pin joins two installs with an open episode.
LEMMA PinFacts ==
    ASSUME PlaneInvariant, NEW p \in pins
    PROVE  /\ p.by \in Installs /\ p.to \in Installs
           /\ fiber[p.by].episode # "none" /\ fiber[p.by].epoch = p.byEp
           /\ fiber[p.to].episode # "none" /\ fiber[p.to].epoch = p.toEp
           /\ \E n \in Held(p.to) : Provides[p.to][n] = p.key
  BY DEF PlaneInvariant, TypeOK, ProviderOutlivesPins

\* The stages of one key, on one install or on a whole closure, wind down.
LEMMA WriteWinds ==
    ASSUME PlaneInvariant, NEW I \in SUBSET Installs, \A i \in I : Undisposed(i), Write(I)
    PROVE  WindStep
<1> DEFINE rows == [i \in I |-> StageRow(i)]
<1>1. ASSUME NEW i \in I
      PROVE  /\ install'[i] = StageRow(i).state /\ fiber'[i] = StageRow(i).fiber
             /\ slots'[i] = StageRow(i).slots /\ host'[i] = StageRow(i).host
             /\ resource'[i] = resource[i]
  BY DEF Write
<1>2. ASSUME NEW i \in Installs, i \notin I
      PROVE  /\ install'[i] = install[i] /\ fiber'[i] = fiber[i] /\ slots'[i] = slots[i]
             /\ host'[i] = host[i] /\ resource'[i] = resource[i]
  BY <1>2 DEF Write
<1>3. Shaped'
  BY ShapedNow DEF Write, Shaped
<1>4. ASSUME NEW i \in I PROVE StagedRow(i, StageRow(i))
  BY <1>4, StageRowOK
<1>5. ASSUME NEW i \in Installs PROVE Becomes(i)
  <2>1. CASE i \notin I
    BY <1>2, <2>1, RowStays
  <2>2. CASE i \in I
    BY <1>1, <1>4, <2>2, RowFacts DEF StagedRow, Becomes
  <2> QED
    BY <2>1, <2>2
<1>6. pins' = {p \in pins : ~(p.by \in I /\ StageRow(p.by).drop)}
  BY DEF Write
<1>7. ASSUME NEW p \in pins \ pins' PROVE fiber'[p.by].episode # "active"
  BY <1>1, <1>4, <1>6, <1>7 DEF StagedRow
<1>8. ASSUME NEW p \in pins' PROVE fiber'[p.by].episode # "none"
  <2>1. p \in pins
    BY <1>6
  <2>2. p.by \in Installs /\ fiber[p.by].episode # "none"
    BY <2>1, PinFacts
  <2>3. CASE p.by \in I
    BY <1>1, <1>4, <1>6, <2>2, <2>3 DEF StagedRow
  <2>4. CASE p.by \notin I
    BY <1>2, <2>2, <2>4
  <2> QED
    BY <2>3, <2>4
<1>9. ownerEp' = ownerEp
  BY DEF Write
<1> QED
  BY <1>3, <1>5, <1>6, <1>7, <1>8, <1>9 DEF WindStep

\* The rows of the other installs stay as they are.
OthersStay(i) ==
    \A j \in Installs \ {i} :
        /\ install'[j] = install[j] /\ fiber'[j] = fiber[j] /\ slots'[j] = slots[j]
        /\ host'[j] = host[j] /\ resource'[j] = resource[j]

\* A step on one install that ends no episode winds down.
LEMMA OneRowWinds ==
    ASSUME PlaneInvariant, NEW i \in Installs, Becomes(i), OthersStay(i), Shaped',
           ownerEp' = ownerEp, pins' = pins,
           fiber[i].episode # "none" => fiber'[i].episode # "none"
    PROVE  WindStep
<1>1. ASSUME NEW j \in Installs PROVE Becomes(j)
  <2>1. CASE j = i
    BY <2>1
  <2>2. CASE j # i
    BY <2>2, RowStays DEF OthersStay
  <2> QED
    BY <2>1, <2>2
<1>2. ASSUME NEW p \in pins' PROVE fiber'[p.by].episode # "none"
  BY PinFacts DEF OthersStay
<1> QED
  BY <1>1, <1>2 DEF WindStep

\* Recording what a client wants or that an activation failed touches no episode.
LEMMA FiberNoteWinds ==
    ASSUME PlaneInvariant, NEW i \in Installs, NEW f \in Fibers, SetFiber(i, f),
           f.episode = fiber[i].episode, f.epoch = fiber[i].epoch, f.gone = fiber[i].gone
    PROVE  WindStep
<1>1. fiber'[i] = f /\ OthersStay(i) /\ install'[i] = install[i] /\ slots'[i] = slots[i]
      /\ host'[i] = host[i] /\ resource'[i] = resource[i]
  BY ShapedNow DEF SetFiber, OthersStay, Shaped
<1>2. Shaped'
  BY ShapedNow DEF SetFiber, Shaped
<1>3. Becomes(i)
  BY <1>1, RowFacts DEF Becomes, Typed, RowOK, EpisodeOK, HostOK, ResourceOK, Winds, HostPending
<1> QED
  BY <1>1, <1>2, <1>3, OneRowWinds DEF SetFiber

\* A host's claim or a settlement changes the rows of one install and no episode.
LEMMA HostNoteWinds ==
    ASSUME PlaneInvariant, NEW i \in Installs, NEW h \in Hosts, NEW st \in States,
           host' = [host EXCEPT ![i] = h], install' = [install EXCEPT ![i] = st],
           ownerEp' = ownerEp, fiber' = fiber, slots' = slots, pins' = pins,
           resource' \in [Installs -> BOOLEAN],
           \A j \in Installs \ {i} : resource'[j] = resource[j],
           HostOK(st, fiber[i], h), ResourceOK(i, st, h, resource'[i]),
           EpisodeOK(st, fiber[i], slots[i]),
           install[i] = "none" <=> st = "none",
           install[i] \in {"dispose_pending", "disposed"} => st \in {"dispose_pending", "disposed"},
           install[i] = "disposed" => st = "disposed",
           st = "disposed" => fiber[i].episode = "none",
           install[i] = "disposed" /\ ~HostPending(i) => \A k \in Kinds : h[k] \notin Pending
    PROVE  WindStep
<1>1. /\ install'[i] = st /\ host'[i] = h /\ fiber'[i] = fiber[i] /\ slots'[i] = slots[i]
      /\ OthersStay(i)
  BY ShapedNow DEF Shaped, OthersStay
<1>2. Shaped'
  BY ShapedNow DEF Shaped
<1>3. Winds(i, st, fiber[i], slots[i], h)
  BY RowFacts DEF Winds
<1>4. Becomes(i)
  BY <1>1, <1>3, RowFacts DEF Becomes, Typed, RowOK
<1> QED
  BY <1>1, <1>2, <1>4, OneRowWinds

\* Turning an install off where nothing is on changes the fiber row alone.
LEMMA IdleRow ==
    ASSUME PlaneInvariant, NEW i \in Installs, fiber[i].episode = "none"
    PROVE  LET f == Deactivated(i, "control").fiber
           IN  f \in Fibers /\ f.epoch = fiber[i].epoch /\ f.gone = fiber[i].gone
<1>1. fiber[i] \in Fibers
  BY RowFacts DEF Typed
<1>2. CASE Barrier(i)
  BY <1>1, <1>2 DEF Deactivated, Row
<1>3. CASE ~Barrier(i)
  <2>1. Deactivated(i, "control") = ReleaseRow(i)
    BY <1>3 DEF Deactivated
  <2>2. PICK e \in {"none", "retiring"} :
            ReleaseRow(i).fiber = [fiber[i] EXCEPT !.want = FALSE, !.episode = e]
    BY <1>1 DEF ReleaseRow, Row, Fibers
  <2> QED
    BY <1>1, <2>1, <2>2 DEF Fibers
<1> QED
  BY <1>2, <1>3

\* Turning off winds down: the slots of an episode go one by one, behind the barrier.
LEMMA TurnOffWinds ==
    ASSUME PlaneInvariant, NEW i \in Installs, NEW action, TurnOff(i, action)
    PROVE  WindStep
<1> DEFINE row == Deactivated(i, "control")
           idle == fiber[i].episode = "none"
           f == [row.fiber EXCEPT !.want = FALSE, !.failed = FALSE,
                                  !.reconcile = ~idle /\ Barrier(i),
                                  !.episode = IF idle THEN "none" ELSE @]
<1>1. /\ fiber' = [fiber EXCEPT ![i] = f]
      /\ slots' = IF idle THEN slots ELSE [slots EXCEPT ![i] = row.slots]
      /\ pins' = IF ~idle /\ row.drop THEN {p \in pins : p.by # i} ELSE pins
      /\ install' = install /\ ownerEp' = ownerEp /\ host' = host /\ resource' = resource
  BY DEF TurnOff
<1>2. CASE idle
  <2>1. row.fiber \in Fibers /\ row.fiber.epoch = fiber[i].epoch
        /\ row.fiber.gone = fiber[i].gone
    BY <1>2, IdleRow
  <2>2. f \in Fibers /\ f.epoch = fiber[i].epoch /\ f.gone = fiber[i].gone
        /\ f.episode = fiber[i].episode
    BY <1>2, <2>1 DEF Fibers
  <2> HIDE DEF f, row
  <2>3. SetFiber(i, f)
    BY <1>1, <1>2 DEF SetFiber, TurnOff
  <2> QED
    BY <2>2, <2>3, FiberNoteWinds
<1>3. CASE ~idle
  <2>1. DownRow(i, row)
    BY <1>3, DeactivatedRow
  <2>2. f \in Fibers /\ f.epoch = fiber[i].epoch /\ f.gone = fiber[i].gone
        /\ f.episode = row.fiber.episode
    BY <1>3, <2>1 DEF Fibers, DownRow
  <2> HIDE DEF f, row
  <2>3. fiber'[i] = f /\ slots'[i] = row.slots /\ install'[i] = install[i]
        /\ host'[i] = host[i] /\ resource'[i] = resource[i] /\ OthersStay(i)
    BY <1>1, <1>3, ShapedNow DEF Shaped, OthersStay
  <2>4. Shaped'
    BY <1>1, ShapedNow DEF Shaped
  <2>5. /\ Typed(i, install[i], fiber[i], slots[i], host[i]) /\ resource[i] \in BOOLEAN
        /\ EpisodeOK(install[i], fiber[i], slots[i]) /\ HostOK(install[i], fiber[i], host[i])
        /\ ResourceOK(i, install[i], host[i], resource[i])
    BY RowFacts DEF RowOK
  <2>6. EpisodeOK(install[i], f, row.slots)
    BY <1>3, <2>1, <2>2, <2>5 DEF DownRow, EpisodeOK, Fibers, SlotRows
  <2>7. HostOK(install[i], f, host[i])
    BY <1>3, <2>1, <2>2, <2>5 DEF DownRow, HostOK
  <2>8. Winds(i, install[i], f, row.slots, host[i])
    BY <1>3, <2>1, <2>2, <2>5 DEF DownRow, Winds, EpisodeOK, HostPending
  <2>9. Becomes(i)
    BY <2>1, <2>2, <2>3, <2>5, <2>6, <2>7, <2>8 DEF Becomes, Typed, RowOK, DownRow
  <2>10. ASSUME NEW j \in Installs PROVE Becomes(j)
    BY <2>3, <2>9, RowStays DEF OthersStay
  <2>11. ASSUME NEW p \in pins \ pins' PROVE fiber'[p.by].episode # "active"
    BY <1>1, <1>3, <2>1, <2>2, <2>3, <2>11 DEF DownRow
  <2>12. ASSUME NEW p \in pins' PROVE fiber'[p.by].episode # "none"
    <3>1. p \in pins /\ (row.drop => p.by # i)
      BY <1>1, <1>3
    <3>2. p.by \in Installs /\ fiber[p.by].episode # "none"
      BY <3>1, PinFacts
    <3> QED
      BY <2>1, <2>2, <2>3, <3>1, <3>2 DEF DownRow, OthersStay
  <2> QED
    BY <1>1, <2>4, <2>10, <2>11, <2>12 DEF WindStep
<1> QED
  BY <1>2, <1>3

\* Every control but the one that starts an episode winds down.
LEMMA ControlWinds ==
    ASSUME PlaneInvariant, NEW i \in Installs, NEW action \in {"on", "off", "retry"},
           Flip(i, action) \/ StayOn(i, action) \/ ActivationFails(i, action)
               \/ TurnOff(i, action) \/ OnRefused(i)
    PROVE  WindStep
<1>1. fiber[i] \in Fibers
  BY RowFacts DEF Typed
<1>2. CASE Flip(i, action)
  <2> DEFINE f == [fiber[i] EXCEPT !.want = TargetOn(i, action)]
  <2>1. TargetOn(i, action) \in BOOLEAN
    BY <1>1 DEF TargetOn, Fibers
  <2>2. f \in Fibers /\ f.episode = fiber[i].episode /\ f.epoch = fiber[i].epoch
        /\ f.gone = fiber[i].gone
    BY <1>1, <2>1 DEF Fibers
  <2>3. SetFiber(i, f)
    BY <1>2 DEF Flip
  <2> HIDE DEF f
  <2> QED
    BY <2>2, <2>3, FiberNoteWinds
<1>3. CASE StayOn(i, action)
  <2> DEFINE f == [fiber[i] EXCEPT !.want = TRUE, !.failed = FALSE,
                                   !.reconcile = fiber[i].episode = "retiring"]
  <2>1. f \in Fibers /\ f.episode = fiber[i].episode /\ f.epoch = fiber[i].epoch
        /\ f.gone = fiber[i].gone
    BY <1>1 DEF Fibers
  <2>2. SetFiber(i, f)
    BY <1>3 DEF StayOn
  <2> HIDE DEF f
  <2> QED
    BY <2>1, <2>2, FiberNoteWinds
<1>4. CASE ActivationFails(i, action)
  <2> DEFINE f == [fiber[i] EXCEPT !.want = TRUE, !.failed = TRUE, !.reconcile = FALSE]
  <2>1. f \in Fibers /\ f.episode = fiber[i].episode /\ f.epoch = fiber[i].epoch
        /\ f.gone = fiber[i].gone
    BY <1>1 DEF Fibers
  <2>2. SetFiber(i, f)
    BY <1>4 DEF ActivationFails
  <2> HIDE DEF f
  <2> QED
    BY <2>1, <2>2, FiberNoteWinds
<1>5. CASE OnRefused(i)
  <2> DEFINE f == [fiber[i] EXCEPT !.failed = TRUE]
  <2>1. f \in Fibers /\ f.episode = fiber[i].episode /\ f.epoch = fiber[i].epoch
        /\ f.gone = fiber[i].gone
    BY <1>1 DEF Fibers
  <2>2. SetFiber(i, f)
    BY <1>5 DEF OnRefused
  <2> HIDE DEF f
  <2> QED
    BY <2>1, <2>2, FiberNoteWinds
<1> QED
  BY <1>2, <1>3, <1>4, <1>5, TurnOffWinds

\* The retire phase of a close withdraws slots and retires episodes; it ends none.
LEMMA CloseRetiresWinds ==
    ASSUME PlaneInvariant, NEW s \in Scopes, CloseRetires(s)
    PROVE  WindStep
<1> DEFINE I == {i \in Installs : Admitted(i) /\ ScopeOf[i] = s /\ ~fiber[i].gone}
           e(i) == IF fiber[i].episode = "active" THEN "retiring" ELSE fiber[i].episode
           f(i) == [fiber[i] EXCEPT !.want = FALSE, !.episode = e(i)]
<1>1. /\ install' = install /\ ownerEp' = ownerEp /\ pins' = pins /\ host' = host
      /\ resource' = resource
  BY DEF CloseRetires
<1>2. ASSUME NEW i \in I PROVE fiber'[i] = f(i) /\ slots'[i] = Withdrawn(i)
  <2>1. fiber[i] \in Fibers
    BY RowFacts DEF Typed
  <2>2. fiber'[i] = [fiber[i] EXCEPT !.want = FALSE,
                                     !.episode = IF @ = "active" THEN "retiring" ELSE @]
    BY DEF CloseRetires
  <2> QED
    BY <2>1, <2>2 DEF CloseRetires, Fibers
<1>3. ASSUME NEW i \in Installs, i \notin I
      PROVE  fiber'[i] = fiber[i] /\ slots'[i] = slots[i]
  BY <1>3 DEF CloseRetires
<1>4. Shaped'
  BY ShapedNow DEF CloseRetires, Shaped
<1>5. ASSUME NEW i \in Installs
      PROVE  Becomes(i) /\ (fiber[i].episode # "none" => fiber'[i].episode # "none")
  <2>1. CASE i \notin I
    BY <1>1, <1>3, <2>1, RowStays
  <2>2. CASE i \in I
    <3>1. /\ Typed(i, install[i], fiber[i], slots[i], host[i]) /\ resource[i] \in BOOLEAN
          /\ EpisodeOK(install[i], fiber[i], slots[i]) /\ HostOK(install[i], fiber[i], host[i])
          /\ ResourceOK(i, install[i], host[i], resource[i])
          /\ Held(i) = HeldIn(slots[i]) /\ DOMAIN slots[i] = DOMAIN Provides[i]
      BY RowFacts DEF RowOK
    <3>2. Withdrawn(i) \in SlotRows(i) /\ HeldIn(Withdrawn(i)) = Held(i)
          /\ DOMAIN Withdrawn(i) = DOMAIN slots[i]
      BY <3>1 DEF Withdrawn, SlotRows, HeldIn, Held, Typed
    <3>3. \A n \in DOMAIN Withdrawn(i) : Withdrawn(i)[n] # "live"
      BY <3>1 DEF Withdrawn
    <3>4. f(i) \in Fibers /\ f(i).epoch = fiber[i].epoch /\ f(i).gone = fiber[i].gone
          /\ f(i).episode = e(i)
      BY <3>1 DEF Typed, Fibers
    <3>5. EpisodeOK(install[i], f(i), Withdrawn(i))
      BY <3>1, <3>2, <3>3, <3>4 DEF EpisodeOK, Typed, Fibers
    <3>6. HostOK(install[i], f(i), host[i])
      BY <3>1, <3>4 DEF HostOK
    <3>7. Winds(i, install[i], f(i), Withdrawn(i), host[i])
      BY <3>1, <3>2, <3>4 DEF Winds, HostPending
    <3>8. fiber'[i] = f(i) /\ slots'[i] = Withdrawn(i)
      BY <1>2, <2>2
    <3> HIDE DEF f
    <3> QED
      BY <1>1, <3>1, <3>2, <3>4, <3>5, <3>6, <3>7, <3>8 DEF Becomes, Typed, RowOK
  <2> QED
    BY <2>1, <2>2
<1>6. ASSUME NEW p \in pins' PROVE fiber'[p.by].episode # "none"
  BY <1>1, <1>5, PinFacts
<1> QED
  BY <1>1, <1>4, <1>5, <1>6 DEF WindStep

\* A dispose and every phase of a close wind down.
LEMMA CleanupWinds ==
    ASSUME PlaneInvariant,
           (\E i \in Installs : Dispose(i)) \/ (\E s \in Scopes : Close(s) \/ CreateChild(s))
    PROVE  WindStep
<1>1. ASSUME NEW i \in Installs, Dispose(i) PROVE WindStep
  <2>1. Visited(i) \in SUBSET Installs /\ \A c \in Visited(i) : Undisposed(c)
    BY DEF Visited
  <2> QED
    BY <1>1, <2>1, WriteWinds DEF Dispose
<1>2. ASSUME NEW s \in Scopes, CloseCascades(s) PROVE WindStep
  <2> DEFINE I == UNION {Visited(i) : i \in {j \in Closure(s) : Undisposed(j)}}
  <2>1. I \in SUBSET Installs /\ \A c \in I : Undisposed(c)
    BY DEF Visited
  <2>2. Write(I)
    BY <1>2 DEF CloseCascades
  <2> HIDE DEF I
  <2> QED
    BY <2>1, <2>2, WriteWinds
<1>3. ASSUME NEW s \in Scopes, CloseBegins(s) \/ CloseEnds(s) \/ CreateChild(s) PROVE WindStep
  <2>1. UNCHANGED <<install, ownerEp, fiber, slots, pins, host, resource>>
    BY <1>3 DEF CloseBegins, CloseEnds, CreateChild
  <2>2. \A i \in Installs : Becomes(i)
    BY <2>1, RowStays
  <2>3. Shaped'
    BY <2>1, ShapedNow DEF Shaped
  <2>4. \A p \in pins' : fiber'[p.by].episode # "none"
    BY <2>1, PinFacts
  <2> QED
    BY <2>1, <2>2, <2>3, <2>4 DEF WindStep
<1> QED
  BY <1>1, <1>2, <1>3, CloseRetiresWinds DEF Close

-----------------------------------------------------------------------------
(* Hosts *)

\* What the invariant says of the host effects of an install.
HostFacts(i) ==
    /\ install[i] \in States /\ host[i] \in Hosts /\ resource[i] \in BOOLEAN
    /\ EpisodeOK(install[i], fiber[i], slots[i]) /\ HostOK(install[i], fiber[i], host[i])
    /\ ResourceOK(i, install[i], host[i], resource[i])

\* The invariant says all of this.
LEMMA HostFactsHold ==
    ASSUME PlaneInvariant, NEW i \in Installs
    PROVE  HostFacts(i)
  BY RowFacts DEF HostFacts, Typed, RowOK

\* A claim, a recovery or a call of the plugin moves one effect among its open states.
LEMMA OpenEffectWinds ==
    ASSUME PlaneInvariant, NEW i \in Installs, NEW k \in Kinds,
           Claim(i, k) \/ Recover(i, k) \/ Execute(i, k)
    PROVE  WindStep
<1>1. HostFacts(i) /\ Shaped
  BY HostFactsHold, ShapedNow
<1>2. install' = [install EXCEPT ![i] = install[i]]
  BY <1>1 DEF Claim, Recover, Execute, SetHost, Shaped
<1>3. ownerEp' = ownerEp /\ fiber' = fiber /\ slots' = slots /\ pins' = pins
  BY DEF Claim, Recover, Execute, SetHost
<1>4. host[i][k] \in Pending
  BY DEF Claim, Recover, Execute, Pending
<1>5. ASSUME NEW to \in Pending, host' = [host EXCEPT ![i] = [host[i] EXCEPT ![k] = to]],
             resource' = resource, to = "ran" => k # "prepare"
      PROVE  WindStep
  <2> DEFINE h == [host[i] EXCEPT ![k] = to]
  <2>1. h \in Hosts /\ h.acted = host[i].acted /\ h[k] = to
        /\ \A o \in Kinds \ {k} : h[o] = host[i][o]
    BY <1>1 DEF HostFacts, Hosts, Kinds, EffectState
  <2>2. HostOK(install[i], fiber[i], h)
    BY <1>1, <1>4, <2>1 DEF HostFacts, HostOK, Kinds, Pending
  <2>3. ResourceOK(i, install[i], h, resource[i])
    BY <1>1, <1>4, <1>5, <2>1 DEF HostFacts, ResourceOK, Kinds, Pending
  <2>4. HostPending(i)
    BY <1>4 DEF HostPending
  <2>5. resource' \in [Installs -> BOOLEAN] /\ resource'[i] = resource[i]
    BY <1>5 DEF PlaneInvariant, TypeOK
  <2>6. install[i] \in States /\ EpisodeOK(install[i], fiber[i], slots[i])
    BY <1>1 DEF HostFacts
  <2>7. install[i] = "disposed" => fiber[i].episode = "none"
    BY <2>6 DEF EpisodeOK
  <2>8. host' = [host EXCEPT ![i] = h]
    BY <1>5
  <2>9. \A j \in Installs \ {i} : resource'[j] = resource[j]
    BY <1>5
  <2> HIDE DEF h
  <2> QED
    BY <1>2, <1>3, <2>1, <2>2, <2>3, <2>4, <2>5, <2>6, <2>7, <2>8, <2>9, HostNoteWinds
<1>6. CASE Claim(i, k)
  <2>1. host' = [host EXCEPT ![i] = [host[i] EXCEPT ![k] = "claimed"]] /\ resource' = resource
    BY <1>6 DEF Claim, SetHost
  <2> QED
    BY <1>5, <2>1 DEF Pending
<1>7. CASE Recover(i, k)
  <2>1. host' = [host EXCEPT ![i] = [host[i] EXCEPT ![k] = "ready"]] /\ resource' = resource
    BY <1>7 DEF Recover, SetHost
  <2> QED
    BY <1>5, <2>1 DEF Pending
<1>8. CASE Execute(i, k)
  <2> DEFINE h == [host[i] EXCEPT ![k] = "ran", !.acted = host[i].acted \/ k = "release"]
  <2>1. host' = [host EXCEPT ![i] = h] /\ host[i][k] = "claimed" /\ k \in {"prepare", "release"}
    BY <1>1, <1>8 DEF Execute, Shaped, HostFacts, Hosts, Kinds
  <2>2. h \in Hosts /\ h[k] = "ran" /\ h.acted = (host[i].acted \/ k = "release")
        /\ \A o \in Kinds \ {k} : h[o] = host[i][o]
    BY <1>1, <2>1 DEF HostFacts, Hosts, Kinds, EffectState, Pending
  <2>3. HostOK(install[i], fiber[i], h)
    BY <1>1, <1>4, <2>1, <2>2 DEF HostFacts, HostOK, Kinds, Pending
  <2>4. resource' \in [Installs -> BOOLEAN] /\ resource'[i] = (k = "prepare")
        /\ \A j \in Installs \ {i} : resource'[j] = resource[j]
    BY <1>8 DEF Execute, PlaneInvariant, TypeOK
  <2>5. ResourceOK(i, install[i], h, resource'[i])
    BY <1>1, <2>1, <2>2, <2>4 DEF HostFacts, HostOK, ResourceOK, Kinds, Pending
  <2>6. HostPending(i)
    BY <1>4 DEF HostPending
  <2>7. install[i] \in States /\ EpisodeOK(install[i], fiber[i], slots[i])
    BY <1>1 DEF HostFacts
  <2>8. install[i] = "disposed" => fiber[i].episode = "none"
    BY <2>7 DEF EpisodeOK
  <2> HIDE DEF h
  <2> QED
    BY <1>2, <1>3, <2>1, <2>2, <2>3, <2>4, <2>5, <2>6, <2>7, <2>8, HostNoteWinds
<1> QED
  BY <1>6, <1>7, <1>8

\* A settlement leaves the install in state st and its host effects in h.
Settles(i, st, h) ==
    /\ host' = [host EXCEPT ![i] = h] /\ install' = [install EXCEPT ![i] = st]
    /\ UNCHANGED <<scope, ownerEp, fiber, slots, pins, resource>>

\* A settlement that leaves the rows of its install well winds down.
LEMMA SettlementWinds ==
    ASSUME PlaneInvariant, NEW i \in Installs, NEW st \in States, NEW h \in Hosts,
           Settles(i, st, h),
           HostOK(st, fiber[i], h), ResourceOK(i, st, h, resource[i]),
           EpisodeOK(st, fiber[i], slots[i]), st # "none", install[i] # "none",
           install[i] \in {"dispose_pending", "disposed"} => st \in {"dispose_pending", "disposed"},
           install[i] = "disposed" => st = "disposed",
           HostPending(i)
    PROVE  WindStep
<1>1. resource' \in [Installs -> BOOLEAN] /\ resource'[i] = resource[i]
      /\ \A j \in Installs \ {i} : resource'[j] = resource[j]
  BY DEF Settles, PlaneInvariant, TypeOK
<1>2. st = "disposed" => fiber[i].episode = "none"
  BY DEF EpisodeOK
<1> QED
  BY <1>1, <1>2, HostNoteWinds DEF Settles

\* Every receipt winds down: none of them opens an episode or revives an install.
LEMMA SettleWinds ==
    ASSUME PlaneInvariant, NEW i \in Installs, Settle(i)
    PROVE  WindStep
<1>1. HostFacts(i) /\ Shaped
  BY HostFactsHold, ShapedNow
<1>2. CASE PrepareSucceeds(i)
  <2> DEFINE h == [host[i] EXCEPT !.prepare = "done"]
  <2>1. Settles(i, "installed", h)
    BY <1>1, <1>2 DEF PrepareSucceeds, SetHost, Settles, Fault, Shaped
  <2>2. h \in Hosts /\ h.prepare = "done" /\ h.release = host[i].release /\ h.inspect = host[i].inspect /\ h.acted = host[i].acted
    BY <1>1, <1>2 DEF PrepareSucceeds, HostFacts, Hosts, EffectState, Pending
  <2>3. HostPending(i) /\ "installed" \in States
    BY <1>1, <1>2 DEF PrepareSucceeds, HostPending, Kinds, Pending, States, HostFacts
  <2>4. HostOK("installed", fiber[i], h) /\ EpisodeOK("installed", fiber[i], slots[i])
    BY <1>1, <1>2, <2>2 DEF PrepareSucceeds, HostFacts, HostOK, EpisodeOK, Pending
  <2>5. ResourceOK(i, "installed", h, resource[i])
    BY <1>1, <1>2, <2>2 DEF PrepareSucceeds, HostFacts, HostOK, ResourceOK, Pending
  <2>6. /\ "installed" # "none" /\ install[i] # "none"
        /\ install[i] \in {"dispose_pending", "disposed"} => "installed" \in {"dispose_pending", "disposed"}
        /\ install[i] = "disposed" => "installed" = "disposed"
    BY <1>1, <1>2 DEF PrepareSucceeds, HostFacts, HostOK, Pending
  <2> HIDE DEF h
  <2> QED
    BY <2>1, <2>2, <2>3, <2>4, <2>5, <2>6, SettlementWinds
<1>3. CASE PrepareFails(i)
  <2> DEFINE h == [host[i] EXCEPT !.prepare = "done"]
  <2>1. Settles(i, "prepare_failed", h)
    BY <1>1, <1>3 DEF PrepareFails, SetHost, Settles, Fault, Shaped
  <2>2. h \in Hosts /\ h.prepare = "done" /\ h.release = host[i].release /\ h.inspect = host[i].inspect /\ h.acted = host[i].acted
    BY <1>1, <1>3 DEF PrepareFails, HostFacts, Hosts, EffectState, Pending
  <2>3. HostPending(i) /\ "prepare_failed" \in States
    BY <1>1, <1>3 DEF PrepareFails, HostPending, Kinds, Pending, States, HostFacts
  <2>4. HostOK("prepare_failed", fiber[i], h) /\ EpisodeOK("prepare_failed", fiber[i], slots[i])
    BY <1>1, <1>3, <2>2 DEF PrepareFails, HostFacts, HostOK, EpisodeOK, Pending
  <2>5. ResourceOK(i, "prepare_failed", h, resource[i])
    BY <1>1, <1>3, <2>2 DEF PrepareFails, HostFacts, HostOK, ResourceOK, Pending
  <2>6. /\ "prepare_failed" # "none" /\ install[i] # "none"
        /\ install[i] \in {"dispose_pending", "disposed"} => "prepare_failed" \in {"dispose_pending", "disposed"}
        /\ install[i] = "disposed" => "prepare_failed" = "disposed"
    BY <1>1, <1>3 DEF PrepareFails, HostFacts, HostOK, Pending
  <2> HIDE DEF h
  <2> QED
    BY <2>1, <2>2, <2>3, <2>4, <2>5, <2>6, SettlementWinds
<1>4. CASE PrepareUnknown(i)
  <2> DEFINE h == [host[i] EXCEPT !.prepare = "unknown"]
  <2>1. Settles(i, "prepare_unknown", h)
    BY <1>1, <1>4 DEF PrepareUnknown, SetHost, Settles, Fault, Shaped
  <2>2. h \in Hosts /\ h.prepare = "unknown" /\ h.release = host[i].release /\ h.inspect = host[i].inspect /\ h.acted = host[i].acted
    BY <1>1, <1>4 DEF PrepareUnknown, HostFacts, Hosts, EffectState, Pending
  <2>3. HostPending(i) /\ "prepare_unknown" \in States
    BY <1>1, <1>4 DEF PrepareUnknown, HostPending, Kinds, Pending, States, HostFacts
  <2>4. HostOK("prepare_unknown", fiber[i], h) /\ EpisodeOK("prepare_unknown", fiber[i], slots[i])
    BY <1>1, <1>4, <2>2 DEF PrepareUnknown, HostFacts, HostOK, EpisodeOK, Pending
  <2>5. ResourceOK(i, "prepare_unknown", h, resource[i])
    BY <1>1, <1>4, <2>2 DEF PrepareUnknown, HostFacts, HostOK, ResourceOK, Pending
  <2>6. /\ "prepare_unknown" # "none" /\ install[i] # "none"
        /\ install[i] \in {"dispose_pending", "disposed"} => "prepare_unknown" \in {"dispose_pending", "disposed"}
        /\ install[i] = "disposed" => "prepare_unknown" = "disposed"
    BY <1>1, <1>4 DEF PrepareUnknown, HostFacts, HostOK, Pending
  <2> HIDE DEF h
  <2> QED
    BY <2>1, <2>2, <2>3, <2>4, <2>5, <2>6, SettlementWinds
<1>5. CASE ReleaseSucceeds(i)
  <2> DEFINE h == [host[i] EXCEPT !.release = "done"]
  <2>1. Settles(i, "disposed", h)
    BY <1>1, <1>5 DEF ReleaseSucceeds, SetHost, Settles, Fault, Shaped
  <2>2. h \in Hosts /\ h.prepare = host[i].prepare /\ h.release = "done" /\ h.inspect = host[i].inspect /\ h.acted = host[i].acted
    BY <1>1, <1>5 DEF ReleaseSucceeds, HostFacts, Hosts, EffectState, Pending
  <2>3. HostPending(i) /\ "disposed" \in States
    BY <1>1, <1>5 DEF ReleaseSucceeds, HostPending, Kinds, Pending, States, HostFacts, DisposedOk, Held, HeldIn
  <2>4. HostOK("disposed", fiber[i], h) /\ EpisodeOK("disposed", fiber[i], slots[i])
    BY <1>1, <1>5, <2>2 DEF ReleaseSucceeds, HostFacts, HostOK, EpisodeOK, Pending, DisposedOk, Held, HeldIn
  <2>5. ResourceOK(i, "disposed", h, resource[i])
    BY <1>1, <1>5, <2>2 DEF ReleaseSucceeds, HostFacts, HostOK, ResourceOK, Pending, DisposedOk, Held, HeldIn
  <2>6. /\ "disposed" # "none" /\ install[i] # "none"
        /\ install[i] \in {"dispose_pending", "disposed"} => "disposed" \in {"dispose_pending", "disposed"}
        /\ install[i] = "disposed" => "disposed" = "disposed"
    BY <1>1, <1>5 DEF ReleaseSucceeds, HostFacts, HostOK, Pending, DisposedOk, Held, HeldIn
  <2> HIDE DEF h
  <2> QED
    BY <2>1, <2>2, <2>3, <2>4, <2>5, <2>6, SettlementWinds
<1>6. CASE ReleaseFails(i)
  <2> DEFINE h == [host[i] EXCEPT !.release = "done"]
  <2>1. Settles(i, install[i], h)
    BY <1>1, <1>6 DEF ReleaseFails, SetHost, Settles, Fault, Shaped
  <2>2. h \in Hosts /\ h.prepare = host[i].prepare /\ h.release = "done" /\ h.inspect = host[i].inspect /\ h.acted = host[i].acted
    BY <1>1, <1>6 DEF ReleaseFails, HostFacts, Hosts, EffectState, Pending
  <2>3. HostPending(i) /\ install[i] \in States
    BY <1>1, <1>6 DEF ReleaseFails, HostPending, Kinds, Pending, States, HostFacts
  <2>4. HostOK(install[i], fiber[i], h) /\ EpisodeOK(install[i], fiber[i], slots[i])
    BY <1>1, <1>6, <2>2 DEF ReleaseFails, HostFacts, HostOK, EpisodeOK, Pending
  <2>5. ResourceOK(i, install[i], h, resource[i])
    BY <1>1, <1>6, <2>2 DEF ReleaseFails, HostFacts, HostOK, ResourceOK, Pending
  <2>6. /\ install[i] # "none" /\ install[i] # "none"
        /\ install[i] \in {"dispose_pending", "disposed"} => install[i] \in {"dispose_pending", "disposed"}
        /\ install[i] = "disposed" => install[i] = "disposed"
    BY <1>1, <1>6 DEF ReleaseFails, HostFacts, HostOK, Pending
  <2> HIDE DEF h
  <2> QED
    BY <2>1, <2>2, <2>3, <2>4, <2>5, <2>6, SettlementWinds
<1>7. CASE ReleaseUnknown(i)
  <2> DEFINE h == [host[i] EXCEPT !.release = "unknown"]
  <2>1. Settles(i, install[i], h)
    BY <1>1, <1>7 DEF ReleaseUnknown, SetHost, Settles, Fault, Shaped
  <2>2. h \in Hosts /\ h.prepare = host[i].prepare /\ h.release = "unknown" /\ h.inspect = host[i].inspect /\ h.acted = host[i].acted
    BY <1>1, <1>7 DEF ReleaseUnknown, HostFacts, Hosts, EffectState, Pending
  <2>3. HostPending(i) /\ install[i] \in States
    BY <1>1, <1>7 DEF ReleaseUnknown, HostPending, Kinds, Pending, States, HostFacts
  <2>4. HostOK(install[i], fiber[i], h) /\ EpisodeOK(install[i], fiber[i], slots[i])
    BY <1>1, <1>7, <2>2 DEF ReleaseUnknown, HostFacts, HostOK, EpisodeOK, Pending
  <2>5. ResourceOK(i, install[i], h, resource[i])
    BY <1>1, <1>7, <2>2 DEF ReleaseUnknown, HostFacts, HostOK, ResourceOK, Pending
  <2>6. /\ install[i] # "none" /\ install[i] # "none"
        /\ install[i] \in {"dispose_pending", "disposed"} => install[i] \in {"dispose_pending", "disposed"}
        /\ install[i] = "disposed" => install[i] = "disposed"
    BY <1>1, <1>7 DEF ReleaseUnknown, HostFacts, HostOK, Pending
  <2> HIDE DEF h
  <2> QED
    BY <2>1, <2>2, <2>3, <2>4, <2>5, <2>6, SettlementWinds
<1>8. CASE InspectFails(i)
  <2> DEFINE h == [host[i] EXCEPT !.inspect = "done"]
  <2>1. Settles(i, install[i], h)
    BY <1>1, <1>8 DEF InspectFails, SetHost, Settles, Fault, Shaped
  <2>2. h \in Hosts /\ h.prepare = host[i].prepare /\ h.release = host[i].release /\ h.inspect = "done" /\ h.acted = host[i].acted
    BY <1>1, <1>8 DEF InspectFails, HostFacts, Hosts, EffectState, Pending
  <2>3. HostPending(i) /\ install[i] \in States
    BY <1>1, <1>8 DEF InspectFails, HostPending, Kinds, Pending, States, HostFacts, Inspected, Target
  <2>4. HostOK(install[i], fiber[i], h) /\ EpisodeOK(install[i], fiber[i], slots[i])
    BY <1>1, <1>8, <2>2 DEF InspectFails, HostFacts, HostOK, EpisodeOK, Pending, Inspected, Target
  <2>5. ResourceOK(i, install[i], h, resource[i])
    BY <1>1, <1>8, <2>2 DEF InspectFails, HostFacts, HostOK, ResourceOK, Pending, Inspected, Target
  <2>6. /\ install[i] # "none" /\ install[i] # "none"
        /\ install[i] \in {"dispose_pending", "disposed"} => install[i] \in {"dispose_pending", "disposed"}
        /\ install[i] = "disposed" => install[i] = "disposed"
    BY <1>1, <1>8 DEF InspectFails, HostFacts, HostOK, Pending, Inspected, Target
  <2> HIDE DEF h
  <2> QED
    BY <2>1, <2>2, <2>3, <2>4, <2>5, <2>6, SettlementWinds
<1>9. CASE InspectUnknown(i)
  <2> DEFINE h == [host[i] EXCEPT !.inspect = "done", !.doubt = TRUE]
  <2>1. Settles(i, install[i], h)
    BY <1>1, <1>9 DEF InspectUnknown, SetHost, Settles, Fault, Shaped
  <2>2. h \in Hosts /\ h.prepare = host[i].prepare /\ h.release = host[i].release /\ h.inspect = "done" /\ h.acted = host[i].acted
    BY <1>1, <1>9 DEF InspectUnknown, HostFacts, Hosts, EffectState, Pending
  <2>3. HostPending(i) /\ install[i] \in States
    BY <1>1, <1>9 DEF InspectUnknown, HostPending, Kinds, Pending, States, HostFacts, Inspected, Target
  <2>4. HostOK(install[i], fiber[i], h) /\ EpisodeOK(install[i], fiber[i], slots[i])
    BY <1>1, <1>9, <2>2 DEF InspectUnknown, HostFacts, HostOK, EpisodeOK, Pending, Inspected, Target
  <2>5. ResourceOK(i, install[i], h, resource[i])
    BY <1>1, <1>9, <2>2 DEF InspectUnknown, HostFacts, HostOK, ResourceOK, Pending, Inspected, Target
  <2>6. /\ install[i] # "none" /\ install[i] # "none"
        /\ install[i] \in {"dispose_pending", "disposed"} => install[i] \in {"dispose_pending", "disposed"}
        /\ install[i] = "disposed" => install[i] = "disposed"
    BY <1>1, <1>9 DEF InspectUnknown, HostFacts, HostOK, Pending, Inspected, Target
  <2> HIDE DEF h
  <2> QED
    BY <2>1, <2>2, <2>3, <2>4, <2>5, <2>6, SettlementWinds
<1>10. CASE InspectAnswers(i) /\ Target(i) = "prepare" /\ Known(i)
  <2> DEFINE h == [host[i] EXCEPT !.inspect = "done", !.prepare = "done"]
  <2>0. Inspected(i) /\ host[i].inspect = "claimed" /\ host[i].prepare = "unknown"
    BY <1>10 DEF InspectAnswers, Inspected
  <2>1. Settles(i, "installed", h)
    BY <1>1, <1>10 DEF InspectAnswers, SetHost, Settles, Shaped
  <2>2. h \in Hosts /\ h.inspect = "done" /\ h.prepare = "done" /\ h.acted = host[i].acted
        /\ h.release = host[i].release
    BY <1>1 DEF HostFacts, Hosts, EffectState
  <2>3. HostPending(i) /\ "installed" \in States
    BY <1>1, <2>0 DEF HostPending, Kinds, Pending, States, HostFacts
  <2>4. HostOK("installed", fiber[i], h) /\ EpisodeOK("installed", fiber[i], slots[i])
    BY <1>1, <1>10, <2>0, <2>2 DEF InspectAnswers, HostFacts, HostOK, EpisodeOK, Pending
  <2>5. ResourceOK(i, "installed", h, resource[i])
    BY <1>1, <1>10, <2>0, <2>2 DEF HostFacts, HostOK, ResourceOK, Pending, Known
  <2>6. /\ "installed" # "none" /\ install[i] # "none"
        /\ install[i] \in {"dispose_pending", "disposed"} => "installed" \in {"dispose_pending", "disposed"}
        /\ install[i] = "disposed" => "installed" = "disposed"
    BY <1>1, <1>10, <2>0 DEF HostFacts, HostOK, Pending
  <2> HIDE DEF h
  <2> QED
    BY <2>1, <2>2, <2>3, <2>4, <2>5, <2>6, SettlementWinds
<1>11. CASE InspectAnswers(i) /\ Target(i) = "prepare" /\ ~Known(i)
  <2> DEFINE h == [host[i] EXCEPT !.inspect = "done", !.prepare = "done"]
  <2>0. Inspected(i) /\ host[i].inspect = "claimed" /\ host[i].prepare = "unknown"
    BY <1>11 DEF InspectAnswers, Inspected
  <2>1. Settles(i, "prepare_failed", h)
    BY <1>1, <1>11 DEF InspectAnswers, SetHost, Settles, Shaped
  <2>2. h \in Hosts /\ h.inspect = "done" /\ h.prepare = "done" /\ h.acted = host[i].acted
        /\ h.release = host[i].release
    BY <1>1 DEF HostFacts, Hosts, EffectState
  <2>3. HostPending(i) /\ "prepare_failed" \in States
    BY <1>1, <2>0 DEF HostPending, Kinds, Pending, States, HostFacts
  <2>4. HostOK("prepare_failed", fiber[i], h) /\ EpisodeOK("prepare_failed", fiber[i], slots[i])
    BY <1>1, <1>11, <2>0, <2>2 DEF InspectAnswers, HostFacts, HostOK, EpisodeOK, Pending
  <2>5. ResourceOK(i, "prepare_failed", h, resource[i])
    BY <1>1, <1>11, <2>0, <2>2 DEF HostFacts, HostOK, ResourceOK, Pending, Known
  <2>6. /\ "prepare_failed" # "none" /\ install[i] # "none"
        /\ install[i] \in {"dispose_pending", "disposed"} => "prepare_failed" \in {"dispose_pending", "disposed"}
        /\ install[i] = "disposed" => "prepare_failed" = "disposed"
    BY <1>1, <1>11, <2>0 DEF HostFacts, HostOK, Pending
  <2> HIDE DEF h
  <2> QED
    BY <2>1, <2>2, <2>3, <2>4, <2>5, <2>6, SettlementWinds
<1>12. CASE InspectAnswers(i) /\ Target(i) = "release" /\ Known(i)
  <2> DEFINE h == [host[i] EXCEPT !.inspect = "done", !.release = "done"]
  <2>0. Inspected(i) /\ host[i].inspect = "claimed" /\ host[i].release = "unknown"
    BY <1>12 DEF InspectAnswers, Inspected
  <2>1. Settles(i, "disposed", h)
    BY <1>1, <1>12 DEF InspectAnswers, SetHost, Settles, Shaped
  <2>2. h \in Hosts /\ h.inspect = "done" /\ h.release = "done" /\ h.acted = host[i].acted
        /\ h.prepare = host[i].prepare
    BY <1>1 DEF HostFacts, Hosts, EffectState
  <2>3. HostPending(i) /\ "disposed" \in States
    BY <1>1, <2>0 DEF HostPending, Kinds, Pending, States, HostFacts
  <2>4. HostOK("disposed", fiber[i], h) /\ EpisodeOK("disposed", fiber[i], slots[i])
    BY <1>1, <1>12, <2>0, <2>2 DEF InspectAnswers, HostFacts, HostOK, EpisodeOK, Pending
  <2>5. ResourceOK(i, "disposed", h, resource[i])
    BY <1>1, <1>12, <2>0, <2>2 DEF HostFacts, HostOK, ResourceOK, Pending, Known
  <2>6. /\ "disposed" # "none" /\ install[i] # "none"
        /\ install[i] \in {"dispose_pending", "disposed"} => "disposed" \in {"dispose_pending", "disposed"}
        /\ install[i] = "disposed" => "disposed" = "disposed"
    BY <1>1, <1>12, <2>0 DEF HostFacts, HostOK, Pending
  <2> HIDE DEF h
  <2> QED
    BY <2>1, <2>2, <2>3, <2>4, <2>5, <2>6, SettlementWinds
<1>13. CASE InspectAnswers(i) /\ Target(i) = "release" /\ ~Known(i)
  <2> DEFINE h == [host[i] EXCEPT !.inspect = "done", !.release = "done"]
  <2>0. Inspected(i) /\ host[i].inspect = "claimed" /\ host[i].release = "unknown"
    BY <1>13 DEF InspectAnswers, Inspected
  <2>1. Settles(i, install[i], h)
    BY <1>1, <1>13 DEF InspectAnswers, SetHost, Settles, Shaped
  <2>2. h \in Hosts /\ h.inspect = "done" /\ h.release = "done" /\ h.acted = host[i].acted
        /\ h.prepare = host[i].prepare
    BY <1>1 DEF HostFacts, Hosts, EffectState
  <2>3. HostPending(i) /\ install[i] \in States
    BY <1>1, <2>0 DEF HostPending, Kinds, Pending, States, HostFacts
  <2>4. HostOK(install[i], fiber[i], h) /\ EpisodeOK(install[i], fiber[i], slots[i])
    BY <1>1, <1>13, <2>0, <2>2 DEF InspectAnswers, HostFacts, HostOK, EpisodeOK, Pending
  <2>5. ResourceOK(i, install[i], h, resource[i])
    BY <1>1, <1>13, <2>0, <2>2 DEF HostFacts, HostOK, ResourceOK, Pending, Known
  <2>6. /\ install[i] # "none" /\ install[i] # "none"
        /\ install[i] \in {"dispose_pending", "disposed"} => install[i] \in {"dispose_pending", "disposed"}
        /\ install[i] = "disposed" => install[i] = "disposed"
    BY <1>1, <1>13, <2>0 DEF HostFacts, HostOK, Pending
  <2> HIDE DEF h
  <2> QED
    BY <2>1, <2>2, <2>3, <2>4, <2>5, <2>6, SettlementWinds
<1>14. Target(i) \in {"prepare", "release"}
  BY DEF Target
<1> QED
  BY <1>2, <1>3, <1>4, <1>5, <1>6, <1>7, <1>8, <1>9, <1>10, <1>11, <1>12, <1>13, <1>14 DEF Settle

-----------------------------------------------------------------------------
(* Steps that build up *)

\* What Activate does to the rows: install i goes from nothing to a served episode.
LEMMA ActivateFacts ==
    ASSUME PlaneInvariant, NEW i \in Installs, NEW action, Activate(i, action)
    PROVE  /\ install[i] = "installed" /\ fiber[i].episode = "none"
           /\ fiber'[i] \in Fibers /\ fiber'[i].episode = "active"
           /\ fiber'[i].gone = fiber[i].gone /\ fiber'[i].epoch = fiber[i].epoch + 1
           /\ slots'[i] = [n \in DOMAIN Provides[i] |-> "live"]
           /\ \A j \in Installs \ {i} : fiber'[j] = fiber[j] /\ slots'[j] = slots[j]
           /\ Shaped' /\ UNCHANGED <<scope, install, ownerEp, host, resource, faults>>
           /\ \A k \in Keys(i) : ~Taken(k)
<1> DEFINE f == [fiber[i] EXCEPT !.want = TRUE, !.failed = FALSE, !.reconcile = FALSE,
                                 !.episode = "active", !.epoch = fiber[i].epoch + 1]
<1>1. fiber[i] \in Fibers /\ Shaped
  BY RowFacts, ShapedNow DEF Typed
<1>2. fiber' = [fiber EXCEPT ![i] = f]
  BY <1>1 DEF Activate, Shaped, Fibers
<1>3. fiber[i].epoch + 1 \in 0..MaxEpochs
  BY <1>1, PlaneConstants DEF Activate, Fibers
<1>4. f \in Fibers /\ f.episode = "active" /\ f.gone = fiber[i].gone
      /\ f.epoch = fiber[i].epoch + 1
  BY <1>1, <1>3 DEF Fibers
<1>5. slots' = [slots EXCEPT ![i] = [n \in DOMAIN Provides[i] |-> "live"]]
      /\ UNCHANGED <<scope, install, ownerEp, host, resource, faults>>
  BY DEF Activate
<1>6. Shaped'
  BY <1>1, <1>2, <1>5 DEF Shaped
<1>7. install[i] = "installed" /\ fiber[i].episode = "none" /\ \A k \in Keys(i) : ~Taken(k)
  BY DEF Activate, Activates
<1> HIDE DEF f
<1> QED
  BY <1>1, <1>2, <1>4, <1>5, <1>6, <1>7 DEF Shaped

\* A new pin joins the new episode to a live slot of an active one.
LEMMA ActivatePins ==
    ASSUME PlaneInvariant, NEW i \in Installs, NEW action, Activate(i, action)
    PROVE  /\ pins \subseteq pins'
           /\ \A p \in pins' \ pins :
                 /\ p.by = i /\ p.byEp = fiber[i].epoch + 1
                 /\ p.to \in Installs /\ p.toEp = fiber[p.to].epoch
                 /\ fiber[p.to].episode = "active"
                 /\ \E n \in Held(p.to) : Provides[p.to][n] = p.key
<1>1. PICK chosen \in [Requires[i] -> Installs] :
          /\ \A k \in Requires[i] : chosen[k] \in Providers(k)
          /\ pins' = pins \cup
                 {[by |-> i, byEp |-> fiber[i].epoch + 1, key |-> k,
                   to |-> chosen[k], toEp |-> fiber[chosen[k]].epoch] : k \in Requires[i]}
  BY DEF Activate
<1>2. ASSUME NEW p \in pins' \ pins
      PROVE  /\ p.by = i /\ p.byEp = fiber[i].epoch + 1
             /\ p.to \in Installs /\ p.toEp = fiber[p.to].epoch
             /\ fiber[p.to].episode = "active"
             /\ \E n \in Held(p.to) : Provides[p.to][n] = p.key
  <2>1. PICK k \in Requires[i] :
            p = [by |-> i, byEp |-> fiber[i].epoch + 1, key |-> k,
                 to |-> chosen[k], toEp |-> fiber[chosen[k]].epoch]
    BY <1>1
  <2>2. p.to = chosen[k] /\ p.key = k /\ p.by = i /\ p.byEp = fiber[i].epoch + 1
        /\ p.toEp = fiber[p.to].epoch
    BY <2>1
  <2>3. chosen[k] \in Providers(k)
    BY <1>1
  <2>4. chosen[k] \in Installs /\ fiber[chosen[k]].episode = "active"
    BY <2>3 DEF Providers
  <2>5. \E n \in Held(chosen[k]) : Provides[chosen[k]][n] = k
    BY <2>3 DEF Providers, Held
  <2> QED
    BY <2>2, <2>4, <2>5
<1> QED
  BY <1>1, <1>2

\* The rows of an install that is admitted: nothing but the effect that prepares it.
LEMMA InstallFacts ==
    ASSUME PlaneInvariant, NEW i \in Installs, Install(i)
    PROVE  /\ install[i] = "none" /\ install'[i] \in {"preparing", "installed"}
           /\ Typed(i, install'[i], fiber'[i], slots'[i], host'[i])
           /\ RowOK(i, install'[i], fiber'[i], slots'[i], host'[i], resource'[i])
           /\ \A j \in Installs \ {i} : install'[j] = install[j] /\ host'[j] = host[j]
                                        /\ ownerEp'[j] = ownerEp[j]
           /\ Shaped' /\ UNCHANGED <<scope, fiber, slots, pins, resource, faults>>
           /\ ownerEp' \in [Installs -> 0..MaxEpochs]
<1> DEFINE st == IF Prepared(i) THEN "preparing" ELSE "installed"
           h == [host[i] EXCEPT !.prepare = IF Prepared(i) THEN "ready" ELSE "none"]
<1>1. HostFacts(i) /\ Shaped /\ Typed(i, install[i], fiber[i], slots[i], host[i])
  BY HostFactsHold, ShapedNow, RowFacts
<1>2. install' = [install EXCEPT ![i] = st] /\ host' = [host EXCEPT ![i] = h]
      /\ install[i] = "none" /\ UNCHANGED <<scope, fiber, slots, pins, resource, faults>>
  BY <1>1 DEF Install, Shaped, HostFacts, Hosts
<1>3. ownerEp' \in [Installs -> 0..MaxEpochs] /\ \A j \in Installs \ {i} : ownerEp'[j] = ownerEp[j]
  <2>1. ownerEp \in [Installs -> 0..MaxEpochs]
    BY DEF PlaneInvariant, TypeOK
  <2>2. (IF OwnerOf[i] = NoOne THEN 0 ELSE fiber[OwnerOf[i]].epoch) \in 0..MaxEpochs
    <3>1. CASE OwnerOf[i] = NoOne
      BY <3>1, PlaneConstants
    <3>2. CASE OwnerOf[i] # NoOne
      <4>1. OwnerOf[i] \in Installs
        BY <3>2, PlaneConstants
      <4>2. fiber[OwnerOf[i]] \in Fibers
        BY <4>1, RowFacts DEF Typed
      <4> QED
        BY <3>2, <4>2 DEF Fibers
    <3> QED
      BY <3>1, <3>2
  <2> QED
    BY <2>1, <2>2 DEF Install
<1>4. h \in Hosts /\ h.prepare = (IF Prepared(i) THEN "ready" ELSE "none")
      /\ h.release = host[i].release /\ h.inspect = host[i].inspect /\ h.acted = host[i].acted
  BY <1>1 DEF HostFacts, Hosts, EffectState, Pending
<1>5. HostOK(st, fiber[i], h) /\ ResourceOK(i, st, h, resource[i])
  BY <1>1, <1>2, <1>4 DEF HostFacts, HostOK, ResourceOK, Pending
<1>6. EpisodeOK(st, fiber[i], slots[i])
  BY <1>1, <1>2 DEF HostFacts, EpisodeOK
<1>7. Shaped'
  BY <1>1, <1>2 DEF Shaped
<1>8. install'[i] = st /\ host'[i] = h
  BY <1>1, <1>2 DEF Shaped
<1>9. st \in {"preparing", "installed"} /\ st \in States
  BY DEF States
<1> HIDE DEF h, st
<1> QED
  BY <1>1, <1>2, <1>3, <1>4, <1>5, <1>6, <1>7, <1>8, <1>9 DEF Typed, RowOK, Shaped

-----------------------------------------------------------------------------
(* The ties between installs are kept *)

\* Whichever it is, a step winds everything down or builds one install up.
LEMMA StepCases ==
    ASSUME PlaneInvariant, Next
    PROVE  \/ WindStep
           \/ \E i \in Installs, action \in {"on", "off", "retry"} : Activate(i, action)
           \/ \E i \in Installs : Install(i)
<1>1. CASE \E i \in Installs, action \in {"on", "off", "retry"} : FiberControl(i, action)
  BY <1>1, ControlWinds DEF FiberControl
<1>2. CASE \E i \in Installs : OnRefused(i)
  BY <1>2, ControlWinds
<1>3. CASE \E i \in Installs, k \in Kinds : Claim(i, k) \/ Recover(i, k) \/ Execute(i, k)
  BY <1>3, OpenEffectWinds
<1>4. CASE \E i \in Installs : Settle(i)
  BY <1>4, SettleWinds
<1>5. CASE (\E i \in Installs : Dispose(i)) \/ (\E s \in Scopes : Close(s) \/ CreateChild(s))
  BY <1>5, CleanupWinds
<1> QED
  BY <1>1, <1>2, <1>3, <1>4, <1>5 DEF Next

\* A scope is closed only behind Closable, by a step that touches no row.
LEMMA ScopeSteps ==
    ASSUME PlaneInvariant, Next \/ UNCHANGED vars
    PROVE  /\ scope' \in [Scopes -> Phases] /\ faults' \in 0..MaxFaults
           /\ \A s \in Scopes : scope[s] = "closed" => scope'[s] = "closed"
           /\ \A s \in Scopes : scope'[s] = "closed" /\ scope[s] # "closed" =>
                 Closable(s) /\ UNCHANGED <<install, fiber, slots, pins, host>>
           /\ \A s, c \in Scopes : scope[s] = "closed" /\ ParentOf[c] = s =>
                 (scope[c] \in {"none", "closed"} => scope'[c] = scope[c])
           /\ \A s, c \in Scopes : scope'[s] = "closed" /\ scope[s] # "closed" /\ c # s =>
                 scope'[c] = scope[c]
<1>1. scope \in [Scopes -> Phases] /\ faults \in 0..MaxFaults
  BY DEF PlaneInvariant, TypeOK, Phases
<1>2. faults' \in 0..MaxFaults
  <2>1. faults' = faults \/ (faults < MaxFaults /\ faults' = faults + 1)
    BY ZenonT(60) DEF Next, CreateChild, Install, FiberControl, Flip, StayOn, Activate, ActivationFails,
           TurnOff, OnRefused, Dispose, Close, CloseBegins, CloseRetires, CloseCascades, CloseEnds,
           Claim, Execute, Recover, Settle, PrepareSucceeds, PrepareFails, PrepareUnknown,
           ReleaseSucceeds, ReleaseFails, ReleaseUnknown, InspectAnswers, InspectFails,
           InspectUnknown, SetFiber, SetHost, Write, Fault, vars
  <2> QED
    BY <1>1, <2>1, PlaneConstants
<1>3. CASE scope' = scope
  BY <1>1, <1>2, <1>3
<1>4. ASSUME NEW s \in Scopes, CreateChild(s)
      PROVE  scope[s] = "none" /\ scope[ParentOf[s]] = "open"
             /\ scope' = [scope EXCEPT ![s] = "open"]
  BY <1>4 DEF CreateChild
<1>5. CASE \E s \in Scopes : CreateChild(s)
  BY <1>1, <1>2, <1>4, <1>5 DEF Phases
<1>6. ASSUME NEW s \in Scopes, Close(s)
      PROVE  /\ scope[s] \notin {"none", "closed"}
             /\ \E ph \in Phases :
                   /\ scope' = [scope EXCEPT ![s] = ph]
                   /\ ph = "closed" => Closable(s) /\ UNCHANGED <<install, fiber, slots, pins, host>>
  <2>1. CASE CloseBegins(s)
    BY <1>6, <2>1 DEF Close, CloseBegins, Phases
  <2>2. CASE CloseRetires(s)
    BY <1>6, <2>2 DEF Close, CloseRetires, Phases
  <2>3. CASE CloseCascades(s)
    BY <1>6, <2>3 DEF Close, CloseCascades, Phases
  <2>4. CASE CloseEnds(s)
    BY <1>6, <2>4 DEF Close, CloseEnds, Phases
  <2> QED
    BY <1>6, <2>1, <2>2, <2>3, <2>4 DEF Close
<1>7. CASE \E s \in Scopes : Close(s)
  BY <1>1, <1>2, <1>6, <1>7
<1>8. scope' = scope \/ (\E s \in Scopes : CreateChild(s) \/ Close(s))
  BY ZenonT(60) DEF Next, Install, FiberControl, Flip, StayOn, Activate, ActivationFails,
         TurnOff, OnRefused, Dispose, Claim, Execute, Recover, Settle, PrepareSucceeds,
         PrepareFails, PrepareUnknown, ReleaseSucceeds, ReleaseFails, ReleaseUnknown,
         InspectAnswers, InspectFails, InspectUnknown, SetFiber, SetHost, vars
<1> QED
  BY <1>3, <1>5, <1>7, <1>8

\* Every step leaves every install well.
LEMMA RowsNext ==
    ASSUME PlaneInvariant, Next
    PROVE  /\ Shaped'
           /\ \A i \in Installs :
                 /\ Typed(i, install'[i], fiber'[i], slots'[i], host'[i])
                 /\ resource'[i] \in BOOLEAN
                 /\ RowOK(i, install'[i], fiber'[i], slots'[i], host'[i], resource'[i])
<1>1. CASE WindStep
  BY <1>1 DEF WindStep, Becomes
<1>2. ASSUME NEW i \in Installs, NEW action, Activate(i, action), NEW j \in Installs
      PROVE  /\ Typed(j, install'[j], fiber'[j], slots'[j], host'[j])
             /\ resource'[j] \in BOOLEAN
             /\ RowOK(j, install'[j], fiber'[j], slots'[j], host'[j], resource'[j])
  <2>1. /\ Typed(j, install[j], fiber[j], slots[j], host[j]) /\ resource[j] \in BOOLEAN
        /\ RowOK(j, install[j], fiber[j], slots[j], host[j], resource[j])
    BY RowFacts
  <2>2. install'[j] = install[j] /\ host'[j] = host[j] /\ resource'[j] = resource[j]
    BY <1>2, ActivateFacts
  <2>3. CASE j # i
    <3>1. fiber'[j] = fiber[j] /\ slots'[j] = slots[j]
      BY ZenonT(60), <1>2, <2>3, ActivateFacts
    <3> QED
      BY <2>1, <2>2, <3>1
  <2>4. CASE j = i
    <3>1. /\ install[i] = "installed" /\ fiber'[i] \in Fibers /\ fiber'[i].episode = "active"
          /\ fiber'[i].gone = fiber[i].gone
      BY <1>2, ActivateFacts
    <3>2. slots'[i] = [n \in DOMAIN Provides[i] |-> "live"]
      BY <1>2, ActivateFacts
    <3>3. Typed(i, install'[i], fiber'[i], slots'[i], host'[i])
      BY <2>1, <2>2, <2>4, <3>1, <3>2 DEF Typed, SlotRows
    <3>4. ~fiber[i].gone
      BY <2>1, <2>4, <3>1 DEF RowOK, HostOK
    <3>5. EpisodeOK(install'[i], fiber'[i], slots'[i])
      BY <2>2, <2>4, <3>1, <3>2, <3>4 DEF EpisodeOK, HeldIn
    <3>6. HostOK(install'[i], fiber'[i], host'[i])
      BY <2>1, <2>2, <2>4, <3>1, <3>4 DEF RowOK, HostOK
    <3> QED
      BY <2>1, <2>2, <2>4, <3>3, <3>5, <3>6 DEF RowOK
  <2> QED
    BY <2>3, <2>4
<1>3. ASSUME NEW i \in Installs, Install(i), NEW j \in Installs
      PROVE  /\ Typed(j, install'[j], fiber'[j], slots'[j], host'[j])
             /\ resource'[j] \in BOOLEAN
             /\ RowOK(j, install'[j], fiber'[j], slots'[j], host'[j], resource'[j])
  <2>1. CASE j # i
    BY <1>3, <2>1, InstallFacts, RowFacts
  <2>2. CASE j = i
    BY <1>3, <2>2, InstallFacts, RowFacts
  <2> QED
    BY <2>1, <2>2
<1> QED
  BY <1>1, <1>2, <1>3, StepCases, ActivateFacts, InstallFacts

\* Types.
LEMMA TypeNext ==
    ASSUME PlaneInvariant, Next
    PROVE  TypeOK' /\ (DOMAIN slots = Installs)' /\ RowsOK'
<1>1. Shaped' /\ scope' \in [Scopes -> Phases] /\ faults' \in 0..MaxFaults
  BY RowsNext, ScopeSteps
<1>2. ownerEp' \in [Installs -> 0..MaxEpochs]
  BY StepCases, ActivateFacts, InstallFacts DEF WindStep, PlaneInvariant, TypeOK
<1>3. ASSUME NEW p \in pins' PROVE p.by \in Installs /\ p.to \in Installs
  <2>1. CASE p \in pins
    BY <2>1, PinFacts
  <2>2. CASE p \notin pins
    <3>1. \E i \in Installs, action \in {"on", "off", "retry"} : Activate(i, action)
      BY <2>2, StepCases, InstallFacts DEF WindStep
    <3> QED
      BY <2>2, <3>1, ActivatePins
  <2> QED
    BY <2>1, <2>2
<1>4. \A i \in Installs : /\ install'[i] \in States /\ fiber'[i] \in Fibers
                          /\ slots'[i] \in SlotRows(i) /\ host'[i] \in Hosts
                          /\ resource'[i] \in BOOLEAN
  BY RowsNext DEF Typed
<1>5. install' \in [Installs -> States] /\ fiber' \in [Installs -> Fibers]
      /\ host' \in [Installs -> Hosts] /\ resource' \in [Installs -> BOOLEAN]
  BY <1>1, <1>4 DEF Shaped
<1> QED
  BY <1>1, <1>2, <1>3, <1>4, <1>5, RowsNext
     DEF TypeOK, RowsOK, States, Fibers, Hosts, Phases, SlotRows, Shaped

\* An owner keeps the episode its children were admitted under until they are disposed.
LEMMA OwnersNext ==
    ASSUME PlaneInvariant, Next
    PROVE  OwnersOpen'
<1> SUFFICES ASSUME NEW i \in Installs, Undisposed(i)', OwnerOf[i] # NoOne
             PROVE  fiber'[OwnerOf[i]].episode # "none"
                    /\ fiber'[OwnerOf[i]].epoch = ownerEp'[i]
  BY DEF OwnersOpen
<1> DEFINE o == OwnerOf[i]
<1>1. o \in Installs
  BY PlaneConstants
<1>2. Undisposed(i) => fiber[o].episode # "none" /\ fiber[o].epoch = ownerEp[i] /\ ChildLeft(o)
  BY <1>1 DEF PlaneInvariant, OwnersOpen, ChildLeft, Children, Admitted, Undisposed
<1> HIDE DEF o
<1>3. CASE WindStep
  <2>1. Becomes(i) /\ Becomes(o)
    BY <1>1, <1>3 DEF WindStep
  <2>2. Undisposed(i)
    BY <2>1 DEF Becomes, Winds, Undisposed
  <2>3. Barrier(o)
    BY <1>2, <2>2 DEF Barrier
  <2> QED
    BY <1>2, <1>3, <2>1, <2>2, <2>3 DEF Becomes, Winds, WindStep, o
<1>4. ASSUME NEW j \in Installs, NEW action, Activate(j, action)
      PROVE  fiber'[o].episode # "none" /\ fiber'[o].epoch = ownerEp'[i]
  <2>1. Undisposed(i) /\ ownerEp' = ownerEp
    BY <1>4, ActivateFacts DEF Undisposed
  <2>2. o # j
    BY ZenonT(60), <1>2, <1>4, <2>1, ActivateFacts
  <2> QED
    BY <1>1, <1>2, <1>4, <2>1, <2>2, ActivateFacts
<1>5. ASSUME NEW j \in Installs, Install(j)
      PROVE  fiber'[o].episode # "none" /\ fiber'[o].epoch = ownerEp'[i]
  <2>1. CASE i # j
    BY <1>2, <1>5, <2>1, InstallFacts DEF Undisposed
  <2>2. CASE i = j
    <3>1. fiber[o].episode = "active"
      BY <1>5, <2>2 DEF Install, OwnerAccepts, o
    <3>2. ownerEp'[i] = fiber[o].epoch
      BY <1>5, <2>2 DEF Install, o, PlaneInvariant, TypeOK
    <3> QED
      BY <1>5, <3>1, <3>2, InstallFacts
  <2> QED
    BY <2>1, <2>2
<1> QED
  BY <1>3, <1>4, <1>5, StepCases DEF o

\* A pin keeps both its episodes and the slot it stands on.
LEMMA PinsNext ==
    ASSUME PlaneInvariant, Next
    PROVE  ProviderOutlivesPins'
<1> SUFFICES ASSUME NEW p \in pins'
             PROVE  /\ fiber'[p.by].episode # "none" /\ fiber'[p.by].epoch = p.byEp
                    /\ fiber'[p.to].episode # "none" /\ fiber'[p.to].epoch = p.toEp
                    /\ \E n \in Held(p.to)' : Provides[p.to][n] = p.key
  BY DEF ProviderOutlivesPins, Held
<1>1. CASE WindStep
  <2>1. p \in pins /\ fiber'[p.by].episode # "none"
    BY <1>1 DEF WindStep
  <2>2. Becomes(p.by) /\ Becomes(p.to)
    BY <1>1, <2>1, PinFacts DEF WindStep
  <2>3. Barrier(p.to)
    BY <2>1 DEF Barrier, Pinned
  <2>4. Held(p.to)' = Held(p.to)
    BY <2>2, <2>3 DEF Becomes, Winds, Held, HeldIn
  <2> QED
    BY <2>1, <2>2, <2>3, <2>4, PinFacts DEF Becomes, Winds
<1>2. ASSUME NEW i \in Installs, NEW action, Activate(i, action)
      PROVE  /\ fiber'[p.by].episode # "none" /\ fiber'[p.by].epoch = p.byEp
             /\ fiber'[p.to].episode # "none" /\ fiber'[p.to].epoch = p.toEp
             /\ \E n \in Held(p.to)' : Provides[p.to][n] = p.key
  <2>0. /\ \A j \in Installs \ {i} : fiber'[j] = fiber[j] /\ slots'[j] = slots[j]
        /\ fiber[i].episode = "none"
    BY <1>2, ActivateFacts
  <2>1. \A j \in Installs \ {i} : Held(j)' = Held(j) /\ fiber'[j] = fiber[j]
    BY <2>0 DEF Held
  <2>2. CASE p \in pins
    <3>1. p.by # i /\ p.to # i
      BY <2>0, <2>2, PinFacts
    <3> QED
      BY <2>1, <2>2, <3>1, PinFacts
  <2>3. CASE p \notin pins
    <3>1. /\ p.by = i /\ p.byEp = fiber[i].epoch + 1
          /\ p.to \in Installs /\ p.toEp = fiber[p.to].epoch
          /\ fiber[p.to].episode = "active"
          /\ \E n \in Held(p.to) : Provides[p.to][n] = p.key
      BY <1>2, <2>3, ActivatePins
    <3>2. p.to # i /\ fiber'[i].episode = "active" /\ fiber'[i].epoch = fiber[i].epoch + 1
      BY <1>2, <3>1, ActivateFacts
    <3> QED
      BY <2>1, <3>1, <3>2
  <2> QED
    BY <2>2, <2>3
<1>3. CASE \E i \in Installs : Install(i)
  BY <1>3, InstallFacts, PinFacts DEF Held
<1> QED
  BY <1>1, <1>2, <1>3, StepCases

\* A key stays with the slot that has it: a new episode takes none that is held.
LEMMA KeysNext ==
    ASSUME PlaneInvariant, Next
    PROVE  OneSlotPerKey'
<1> SUFFICES ASSUME NEW i \in Installs, NEW j \in Installs, NEW n \in Held(i)',
                    NEW m \in Held(j)', Provides[i][n] = Provides[j][m]
             PROVE  i = j /\ n = m
  BY DEF OneSlotPerKey
<1>1. \A a, b \in Installs : \A x \in Held(a), y \in Held(b) :
          Provides[a][x] = Provides[b][y] => a = b /\ x = y
  BY DEF PlaneInvariant, OneSlotPerKey
<1>2. CASE WindStep
  <2>1. n \in Held(i) /\ m \in Held(j)
    BY <1>2 DEF WindStep, Becomes, Winds, Held, HeldIn
  <2> QED
    BY <1>1, <2>1
<1>3. ASSUME NEW k \in Installs, NEW action, Activate(k, action) PROVE i = j /\ n = m
  <2>0. \A a \in Installs \ {k} : slots'[a] = slots[a]
    BY ZenonT(60), <1>3, ActivateFacts
  <2>1. \A a \in Installs \ {k} : Held(a)' = Held(a)
    BY <2>0 DEF Held
  <2>2. \A x \in Held(k)' : x \in DOMAIN Provides[k] /\ Provides[k][x] \in Keys(k)
    BY <1>3, ActivateFacts DEF Held, Keys
  <2>3. \A x \in Keys(k) : ~Taken(x)
    BY <1>3, ActivateFacts
  <2>4. CASE i # k /\ j # k
    BY <1>1, <2>1, <2>4
  <2>5. CASE i = k /\ j = k
    BY <2>2, <2>5, PlaneConstants
  <2>6. CASE i = k /\ j # k
    BY <2>1, <2>2, <2>3, <2>6 DEF Taken
  <2>7. CASE i # k /\ j = k
    BY <2>1, <2>2, <2>3, <2>7 DEF Taken
  <2> QED
    BY <2>4, <2>5, <2>6, <2>7
<1>4. CASE \E k \in Installs : Install(k)
  <2>1. slots' = slots
    BY <1>4, InstallFacts
  <2>2. n \in Held(i) /\ m \in Held(j)
    BY <2>1 DEF Held
  <2> QED
    BY <1>1, <2>2
<1> QED
  BY <1>2, <1>3, <1>4, StepCases

-----------------------------------------------------------------------------
(* Closed scopes *)

\* What is above an install is its owner and what is above the owner.
LEMMA OwnersAbove ==
    ASSUME NEW i \in Installs, NEW o \in Owners[i]
    PROVE  OwnerOf[i] \in Installs /\ (o = OwnerOf[i] \/ o \in Owners[OwnerOf[i]])
<1> DEFINE Above(S, c) == \A d \in S \cup {c} : OwnerOf[d] \in S \cup {NoOne}
<1>1. ASSUME NEW c \in Installs, NEW x
      PROVE  x \in Owners[c] <=> x \in Installs /\ \A S \in SUBSET Installs : Above(S, c) => x \in S
  BY DEF Owners
<1>2. OwnerOf[i] # NoOne
  <2>1. OwnerOf[i] = NoOne => Above({}, i)
    OBVIOUS
  <2>2. {} \in SUBSET Installs
    OBVIOUS
  <2> HIDE DEF Above
  <2>3. Above({}, i) => o \in {}
    BY <1>1, <2>2
  <2> QED
    BY <2>1, <2>3
<1>3. OwnerOf[i] \in Installs
  BY <1>2, PlaneConstants
<1> DEFINE p == OwnerOf[i]
           S == {p} \cup Owners[p]
<1>4. Owners[p] \subseteq Installs
  BY <1>1, <1>3
<1>5. ASSUME NEW d \in S PROVE OwnerOf[d] \in S \cup {NoOne}
  <2>1. d \in Installs /\ OwnerOf[d] \in Installs \cup {NoOne}
    BY <1>3, <1>4, PlaneConstants
  <2>2. ASSUME OwnerOf[d] # NoOne, NEW T \in SUBSET Installs, Above(T, p)
        PROVE  OwnerOf[d] \in T
    <3>1. d = p \/ d \in T
      BY <1>1, <1>3, <2>2
    <3> QED
      BY <2>2, <3>1
  <2>3. OwnerOf[d] # NoOne => OwnerOf[d] \in Owners[p]
    BY <1>1, <1>3, <2>1, <2>2
  <2> QED
    BY <2>3
<1>6. Above(S, i) /\ S \in SUBSET Installs
  BY <1>3, <1>4, <1>5
<1>7. o \in S
  <2> HIDE DEF Above, S
  <2> QED
    BY <1>1, <1>6
<1> QED
  BY <1>3, <1>7

\* Nothing is installed under a closed scope any more: its owner would have to be active.
LEMMA ClosureNext ==
    ASSUME PlaneInvariant, Next, NEW s \in Scopes, scope[s] = "closed"
    PROVE  Closure(s)' \subseteq Closure(s)
<1> SUFFICES ASSUME NEW i \in Closure(s)' PROVE i \in Closure(s)
  OBVIOUS
<1>1. i \in Installs /\ Admitted(i)' /\ (ScopeOf[i] = s \/ \E o \in Owners[i] : ScopeOf[o] = s)
  BY DEF Closure
<1>2. CASE Admitted(i)
  BY <1>1, <1>2 DEF Closure
<1>3. CASE ~Admitted(i)
  <2>1. CASE WindStep
    BY <1>1, <1>3, <2>1 DEF WindStep, Becomes, Winds, Admitted
  <2>2. CASE \E j \in Installs, action \in {"on", "off", "retry"} : Activate(j, action)
    BY <1>1, <1>3, <2>2, ActivateFacts DEF Admitted
  <2>3. ASSUME NEW j \in Installs, Install(j) PROVE FALSE
    <3>1. i = j
      BY <1>1, <1>3, <2>3, InstallFacts DEF Admitted
    <3>2. scope[ScopeOf[i]] = "open" /\ OwnerAccepts(i)
      BY <2>3, <3>1 DEF Install
    <3>3. PICK o \in Owners[i] : ScopeOf[o] = s
      BY <1>1, <3>2
    <3> DEFINE p == OwnerOf[i]
    <3>4. p \in Installs /\ (o = p \/ o \in Owners[p])
      BY <1>1, OwnersAbove
    <3>5. fiber[p].episode = "active"
      BY <3>2, <3>4, PlaneConstants DEF OwnerAccepts
    <3>6. install[p] = "installed"
      BY <3>4, <3>5, RowFacts DEF RowOK, EpisodeOK
    <3>7. p \in Closure(s)
      BY <3>3, <3>4, <3>6 DEF Closure, Admitted
    <3>8. install[p] = "disposed"
      BY <3>7 DEF PlaneInvariant, ClosedIsEmpty
    <3> QED
      BY <3>6, <3>8
  <2> QED
    BY <2>1, <2>2, <2>3, StepCases
<1> QED
  BY <1>2, <1>3

\* What is disposed and idle stays so.
LEMMA DisposedStays ==
    ASSUME PlaneInvariant, Next, NEW i \in Installs, install[i] = "disposed", ~Pinned(i),
           ~HostPending(i)
    PROVE  /\ install'[i] = "disposed" /\ fiber'[i].episode = "none"
           /\ ~Pinned(i)' /\ ~HostPending(i)'
<1>1. fiber[i].episode = "none"
  BY RowFacts DEF RowOK, EpisodeOK
<1>2. CASE WindStep
  <2>1. Becomes(i) /\ pins' \subseteq pins
    BY <1>2 DEF WindStep
  <2>2. install'[i] = "disposed" /\ fiber'[i].episode = "none"
        /\ \A k \in Kinds : host'[i][k] \notin Pending
    BY <1>1, <2>1 DEF Becomes, Winds
  <2> QED
    BY <2>1, <2>2 DEF Pinned, HostPending
<1>3. ASSUME NEW j \in Installs, NEW action, Activate(j, action)
      PROVE  /\ install'[i] = "disposed" /\ fiber'[i].episode = "none"
             /\ ~Pinned(i)' /\ ~HostPending(i)'
  <2>1. install[j] = "installed" /\ install' = install /\ host' = host
    BY <1>3, ActivateFacts
  <2>2. fiber'[i] = fiber[i]
    BY <1>3, <2>1, ActivateFacts
  <2>3. \A p \in pins' \ pins : fiber[p.to].episode = "active"
    BY <1>3, ActivatePins
  <2> QED
    BY <1>1, <2>1, <2>2, <2>3 DEF Pinned, HostPending
<1>4. ASSUME NEW j \in Installs, Install(j)
      PROVE  /\ install'[i] = "disposed" /\ fiber'[i].episode = "none"
             /\ ~Pinned(i)' /\ ~HostPending(i)'
  <2>1. install'[i] = install[i] /\ host'[i] = host[i] /\ fiber' = fiber /\ pins' = pins
    BY <1>4, InstallFacts
  <2> QED
    BY <1>1, <2>1 DEF Pinned, HostPending
<1> QED
  BY <1>2, <1>3, <1>4, StepCases

\* A closed scope stays empty, and a scope is empty when it is closed.
LEMMA ClosedNext ==
    ASSUME PlaneInvariant, Next
    PROVE  ClosedIsEmpty'
<1> SUFFICES ASSUME NEW s \in Scopes, scope'[s] = "closed"
             PROVE  /\ \A c \in Scopes : ParentOf[c] = s => scope'[c] \in {"none", "closed"}
                    /\ \A i \in Closure(s)' :
                          /\ install'[i] = "disposed" /\ fiber'[i].episode = "none"
                          /\ ~Pinned(i)' /\ ~HostPending(i)'
  BY DEF ClosedIsEmpty
<1>1. CASE scope[s] = "closed"
  <2>1. /\ \A c \in Scopes : ParentOf[c] = s => scope[c] \in {"none", "closed"}
        /\ \A i \in Closure(s) : install[i] = "disposed" /\ ~Pinned(i) /\ ~HostPending(i)
    BY <1>1 DEF PlaneInvariant, ClosedIsEmpty
  <2>2. \A c \in Scopes : ParentOf[c] = s => scope'[c] = scope[c]
    BY <1>1, <2>1, ScopeSteps
  <2>3. \A i \in Closure(s)' : i \in Closure(s) /\ i \in Installs
    BY <1>1, ClosureNext DEF Closure
  <2> QED
    BY <2>1, <2>2, <2>3, DisposedStays
<1>2. CASE scope[s] # "closed"
  <2>1. Closable(s) /\ UNCHANGED <<install, fiber, slots, pins, host>>
    BY <1>2, ScopeSteps
  <2>2. \A c \in Scopes : ParentOf[c] = s => scope'[c] \in {"none", "closed"}
    <3>1. \A c \in Scopes : c # s => scope'[c] = scope[c]
      BY <1>2, ScopeSteps
    <3> QED
      BY <2>1, <3>1 DEF Closable
  <2>3. Closure(s)' = Closure(s)
    BY <2>1 DEF Closure, Admitted
  <2>4. ASSUME NEW i \in Closure(s)
        PROVE  /\ install[i] = "disposed" /\ fiber[i].episode = "none"
               /\ ~Pinned(i) /\ ~HostPending(i)
    <3>1. i \in Installs /\ install[i] = "disposed" /\ ~HostPending(i)
      BY <2>1 DEF Closable, Closure, Admitted, Undisposed
    <3>2. fiber[i].episode = "none"
      BY <3>1, RowFacts DEF RowOK, EpisodeOK
    <3>3. ~Pinned(i)
      BY <2>1 DEF Closable, Pinned
    <3> QED
      BY <3>1, <3>2, <3>3
  <2> QED
    BY <2>1, <2>2, <2>3, <2>4 DEF Pinned, HostPending
<1> QED
  BY <1>1, <1>2

-----------------------------------------------------------------------------
(* Theorems *)

\* The empty plane satisfies the invariant.
LEMMA InvariantInit ==
    ASSUME Init
    PROVE  PlaneInvariant
<1>1. TypeOK /\ DOMAIN slots = Installs
  BY PlaneConstants DEF Init, TypeOK, NoFiber, NoHost, Released, EffectState
<1>2. \A i \in Installs : Held(i) = {} /\ fiber[i] = NoFiber /\ host[i] = NoHost
                          /\ install[i] = "none" /\ HeldIn(slots[i]) = {}
  BY DEF Init, Held, HeldIn, Released
<1>3. RowsOK
  BY <1>2 DEF RowsOK, RowOK, EpisodeOK, HostOK, ResourceOK, NoFiber, NoHost, Pending
<1>4. OwnersOpen /\ ProviderOutlivesPins /\ OneSlotPerKey
  BY <1>2 DEF OwnersOpen, ProviderOutlivesPins, OneSlotPerKey, Undisposed, Init
<1>5. ClosedIsEmpty
  BY DEF ClosedIsEmpty, Init
<1> QED
  BY <1>1, <1>3, <1>4, <1>5 DEF PlaneInvariant

\* Every command, and every step of a host, keeps the invariant.
LEMMA InvariantNext ==
    ASSUME PlaneInvariant, [Next]_vars
    PROVE  PlaneInvariant'
<1>1. CASE Next
  BY <1>1, TypeNext, OwnersNext, PinsNext, KeysNext, ClosedNext DEF PlaneInvariant
<1>2. CASE UNCHANGED vars
  BY <1>2 DEF vars, PlaneInvariant, TypeOK, RowsOK, OwnersOpen, ProviderOutlivesPins,
              OneSlotPerKey, ClosedIsEmpty, Undisposed, Held, Closure, Admitted, Pinned,
              HostPending
<1> QED
  BY <1>1, <1>2

\* The rows of every install stay well, and so do the ties between them.
THEOREM PlaneSafe == Spec => []PlaneInvariant
<1> QED
  BY InvariantInit, InvariantNext, PTL DEF Spec

\* The rows have the values the schema and the code allow.
THEOREM PlaneTypeCorrect == Spec => []TypeOK
<1>1. PlaneInvariant => TypeOK
  BY DEF PlaneInvariant
<1> QED
  BY <1>1, PlaneSafe, PTL

\* A key has one provider, and a provider stays until its last consumer has let go of the
\* slot it was promised, whichever of them is turned off, disposed or closed first.
THEOREM ProvidersStay == Spec => []SlotsHold
<1>1. PlaneInvariant => SlotsHold
  BY DEF PlaneInvariant, SlotsHold
<1> QED
  BY <1>1, PlaneSafe, PTL

\* Owners outlive their children, a resource is released when nobody uses the install any
\* more, slots are taken back last in, first out, and no episode runs without a resource.
THEOREM CleanedInOrder == Spec => []CleanupOrder
<1>1. ASSUME PlaneInvariant PROVE CleanupOrder
  <2>1. OwnerOutlivesChildren
    <3> SUFFICES ASSUME NEW i \in Installs, Undisposed(i), OwnerOf[i] # NoOne
                 PROVE  LET o == OwnerOf[i]
                        IN  /\ fiber[o].episode # "none" /\ fiber[o].epoch = ownerEp[i]
                            /\ Undisposed(o) /\ host[o].release = "none"
      BY DEF OwnerOutlivesChildren
    <3> DEFINE o == OwnerOf[i]
    <3>1. o \in Installs
      BY PlaneConstants
    <3>2. fiber[o].episode # "none" /\ fiber[o].epoch = ownerEp[i]
      BY <1>1 DEF PlaneInvariant, OwnersOpen
    <3> HIDE DEF o
    <3>3. install[o] \in {"installed", "dispose_pending"} /\ host[o].release = "none"
      BY <1>1, <3>1, <3>2, RowFacts DEF RowOK, EpisodeOK, HostOK
    <3> QED
      BY <3>2, <3>3 DEF Undisposed, o
  <2>2. ReleaseWhenIdle
    <3> SUFFICES ASSUME NEW i \in Installs, host[i].release # "none"
                 PROVE  /\ fiber[i].gone /\ fiber[i].episode = "none" /\ Held(i) = {}
                        /\ ~Pinned(i) /\ ~ChildLeft(i)
                        /\ install[i] \in {"dispose_pending", "disposed"}
      BY DEF ReleaseWhenIdle
    <3>1. /\ fiber[i].gone /\ fiber[i].episode = "none" /\ Held(i) = {}
          /\ install[i] \in {"dispose_pending", "disposed"}
      BY <1>1, RowFacts DEF RowOK, EpisodeOK, HostOK
    <3>2. ~Pinned(i)
      BY <1>1, <3>1, PinFacts DEF Pinned
    <3>3. ~ChildLeft(i)
      BY <1>1, <3>1, PlaneConstants
         DEF ChildLeft, Children, PlaneInvariant, OwnersOpen
    <3> QED
      BY <3>1, <3>2, <3>3
  <2>3. LastInFirstOut
    BY <1>1, RowFacts DEF LastInFirstOut, RowOK, EpisodeOK
  <2>4. InUseIsPrepared
    <3> SUFFICES ASSUME NEW i \in Installs, fiber[i].episode # "none", Prepared(i)
                 PROVE  resource[i]
      BY DEF InUseIsPrepared
    <3>1. install[i] \in {"installed", "dispose_pending"} /\ host[i].release = "none"
      BY <1>1, RowFacts DEF RowOK, EpisodeOK, HostOK
    <3> QED
      BY <1>1, <3>1, RowFacts DEF RowOK, ResourceOK
  <2> QED
    BY <2>1, <2>2, <2>3, <2>4 DEF CleanupOrder
<1> QED
  BY <1>1, PlaneSafe, PTL

\* Nothing is alive in a closed scope, below it or in what its installs own.
THEOREM ClosedScopesEmpty == Spec => []ClosedIsEmpty
<1>1. PlaneInvariant => ClosedIsEmpty
  BY DEF PlaneInvariant
<1> QED
  BY <1>1, PlaneSafe, PTL

-----------------------------------------------------------------------------
(* Disposing *)

\* A stage waits for the inspection of an unknown release.
LEMMA StageKeepsUnknown ==
    ASSUME PlaneInvariant, NEW I \in SUBSET Installs, Write(I), NEW i \in Installs,
           host[i].release = "unknown"
    PROVE  host'[i].release = "unknown"
<1>1. CASE i \notin I
  BY <1>1 DEF Write
<1>2. CASE i \in I
  <2>1. host[i] \in Hosts /\ install[i] = "dispose_pending"
    BY HostFactsHold DEF HostFacts, HostOK
  <2>2. StageRow(i) = InspectRow(i)
    BY <2>1 DEF StageRow, Inspects
  <2>3. InspectRow(i).host.release = "unknown"
    BY <2>1 DEF InspectRow, Row, Hosts
  <2>4. host'[i] = StageRow(i).host
    BY <1>2 DEF Write
  <2> QED
    BY <2>2, <2>3, <2>4
<1> QED
  BY <1>1, <1>2

\* Only the answer to an inspection settles an unknown release.
LEMMA ReleaseMoves ==
    ASSUME PlaneInvariant, Next, NEW i \in Installs,
           host[i].release = "unknown", host'[i].release # "unknown"
    PROVE  InspectAnswers(i)
<1>1. \A j \in Installs : host[j] \in Hosts
  BY HostFactsHold DEF HostFacts
<1>2. host \in [Installs -> Hosts]
  BY <1>1, ShapedNow DEF Shaped
<1>3. ASSUME NEW j \in Installs, NEW h, host' = [host EXCEPT ![j] = h], j # i PROVE FALSE
  BY <1>2, <1>3
<1>4. ASSUME NEW I \in SUBSET Installs, Write(I) PROVE FALSE
  BY <1>4, StageKeepsUnknown
<1>5. CASE host' = host
  BY <1>5
<1>6. CASE \E j \in Installs : Install(j)
  <2>1. PICK j \in Installs : Install(j)
    BY <1>6
  <2>2. install[i] # "none" /\ install[j] = "none"
    BY <2>1, HostFactsHold DEF HostFacts, HostOK, Install
  <2>3. host'[i] = host[i]
    BY <2>1, <2>2, InstallFacts
  <2> QED
    BY <2>3
<1>7. CASE \E j \in Installs : Dispose(j)
  <2>1. \E j \in Installs : Write(Visited(j))
    BY <1>7 DEF Dispose
  <2>2. \A j \in Installs : Visited(j) \in SUBSET Installs
    BY DEF Visited
  <2> QED
    BY <1>4, <2>1, <2>2
<1>8. CASE \E s \in Scopes : Close(s)
  <2>1. PICK s \in Scopes : CloseBegins(s) \/ CloseRetires(s) \/ CloseCascades(s) \/ CloseEnds(s)
    BY <1>8 DEF Close
  <2>2. CASE CloseCascades(s)
    <3> DEFINE I == UNION {Visited(j) : j \in {c \in Closure(s) : Undisposed(c)}}
    <3>1. I \in SUBSET Installs
      BY DEF Visited
    <3>2. Write(I)
      BY <2>2 DEF CloseCascades
    <3> HIDE DEF I
    <3> QED
      BY <1>4, <3>1, <3>2
  <2> QED
    BY <1>5, <2>1, <2>2 DEF CloseBegins, CloseRetires, CloseEnds
<1>9. CASE \E j \in Installs, k \in Kinds : Claim(j, k) \/ Recover(j, k) \/ Execute(j, k)
  <2>1. PICK j \in Installs, k \in Kinds : Claim(j, k) \/ Recover(j, k) \/ Execute(j, k)
    BY <1>9
  <2>2. host[j][k] \in Pending
    BY <2>1 DEF Claim, Recover, Execute, Pending
  <2>3. j # i \/ k # "release"
    BY <2>2 DEF Pending
  <2>4. CASE Execute(j, k)
    BY <1>2, <2>3, <2>4 DEF Execute, Hosts, Kinds
  <2>5. CASE Claim(j, k)
    BY <1>2, <2>3, <2>5 DEF Claim, SetHost, Hosts, Kinds
  <2>6. CASE Recover(j, k)
    BY <1>2, <2>3, <2>6 DEF Recover, SetHost, Hosts, Kinds
  <2> QED
    BY <2>1, <2>4, <2>5, <2>6
<1>10. CASE \E j \in Installs : Settle(j)
  <2>1. PICK j \in Installs : Settle(j)
    BY <1>10
  <2>2. \E h : host' = [host EXCEPT ![j] = h]
    BY <2>1 DEF Settle, PrepareSucceeds, PrepareFails, PrepareUnknown, ReleaseSucceeds,
                ReleaseFails, ReleaseUnknown, InspectAnswers, InspectFails, InspectUnknown, SetHost
  <2>3. j = i
    BY <1>3, <2>2
  <2>4. CASE PrepareSucceeds(i) \/ PrepareFails(i) \/ PrepareUnknown(i) \/ InspectFails(i)
             \/ InspectUnknown(i)
    <3>1. host'[i].release = host[i].release
      BY ZenonT(60), <1>2, <2>4 DEF PrepareSucceeds, PrepareFails, PrepareUnknown, InspectFails,
                        InspectUnknown, SetHost, Hosts
    <3> QED
      BY <3>1
  <2> QED
    BY <2>1, <2>3, <2>4 DEF Settle, ReleaseSucceeds, ReleaseFails, ReleaseUnknown
<1>11. CASE (\E s \in Scopes : CreateChild(s))
            \/ (\E j \in Installs, action \in {"on", "off", "retry"} : FiberControl(j, action))
            \/ (\E j \in Installs : OnRefused(j))
  <2>1. ASSUME NEW j \in Installs, NEW action, FiberControl(j, action) PROVE host' = host
    <3>1. CASE Flip(j, action)
      BY <3>1 DEF Flip, SetFiber
    <3>2. CASE StayOn(j, action)
      BY <3>2 DEF StayOn, SetFiber
    <3>3. CASE Activate(j, action)
      BY <3>3 DEF Activate
    <3>4. CASE ActivationFails(j, action)
      BY <3>4 DEF ActivationFails, SetFiber
    <3>5. CASE TurnOff(j, action)
      BY <3>5 DEF TurnOff
    <3> QED
      BY <2>1, <3>1, <3>2, <3>3, <3>4, <3>5 DEF FiberControl
  <2>2. ASSUME NEW s \in Scopes, CreateChild(s) PROVE host' = host
    BY <2>2 DEF CreateChild
  <2>3. ASSUME NEW j \in Installs, OnRefused(j) PROVE host' = host
    BY <2>3 DEF OnRefused, SetFiber
  <2> QED
    BY <1>5, <1>11, <2>1, <2>2, <2>3
<1> QED
  BY <1>6, <1>7, <1>8, <1>9, <1>10, <1>11 DEF Next

\* An unknown release is settled by what an inspection finds, and a dispose that began is
\* never taken back.
THEOREM DisposesStand == Spec => DisposeSteps
<1>1. ASSUME PlaneInvariant, Next, NEW i \in Installs, host[i].release = "unknown",
             host'[i].release # "unknown"
      PROVE  /\ host'[i].release = "done"
             /\ install'[i] = "disposed" <=> host[i].acted
             /\ host[i].acted => ~resource[i]
  <2>1. InspectAnswers(i)
    BY <1>1, ReleaseMoves
  <2>2. HostFacts(i) /\ Shaped
    BY <1>1, HostFactsHold, ShapedNow
  <2>3. install[i] = "dispose_pending" /\ Target(i) = "release"
    BY <1>1, <2>2 DEF HostFacts, HostOK, Target
  <2>4. host'[i].release = "done"
    BY <2>1, <2>2, <2>3 DEF InspectAnswers, SetHost, Shaped, HostFacts, Hosts
  <2>5. install'[i] = IF host[i].acted THEN "disposed" ELSE install[i]
    BY <2>1, <2>2, <2>3 DEF InspectAnswers, Known, Shaped, HostFacts, Hosts
  <2>6. host[i].acted => ~resource[i]
    BY <2>2 DEF HostFacts, ResourceOK
  <2> QED
    BY <2>2, <2>3, <2>4, <2>5, <2>6 DEF HostFacts, Hosts
<1>2. ASSUME PlaneInvariant, Next, NEW i \in Installs,
             install[i] \in {"dispose_pending", "disposed"}
      PROVE  /\ install'[i] \in {"dispose_pending", "disposed"}
             /\ fiber'[i].episode # "active"
  <2>1. install'[i] \in {"dispose_pending", "disposed"}
    <3>1. CASE WindStep
      BY <1>2, <3>1 DEF WindStep, Becomes, Winds
    <3>2. CASE \E j \in Installs, action \in {"on", "off", "retry"} : Activate(j, action)
      BY <1>2, <3>2, ActivateFacts
    <3>3. ASSUME NEW j \in Installs, Install(j)
          PROVE  install'[i] \in {"dispose_pending", "disposed"}
      BY <1>2, <3>3, InstallFacts
    <3> QED
      BY <1>2, <3>1, <3>2, <3>3, StepCases
  <2>2. EpisodeOK(install'[i], fiber'[i], slots'[i])
    BY <1>2, RowsNext DEF RowOK
  <2> QED
    BY <2>1, <2>2 DEF EpisodeOK
<1>3. PlaneInvariant /\ [Next]_vars =>
         [\A i \in Installs : host[i].release = "unknown" /\ host'[i].release # "unknown" =>
            /\ host'[i].release = "done"
            /\ install'[i] = "disposed" <=> host[i].acted
            /\ host[i].acted => ~resource[i]]_vars
  BY <1>1 DEF vars
<1>4. PlaneInvariant /\ [Next]_vars =>
         [\A i \in Installs : install[i] \in {"dispose_pending", "disposed"} =>
            /\ install'[i] \in {"dispose_pending", "disposed"}
            /\ fiber'[i].episode # "active"]_vars
  BY <1>2 DEF vars
<1>5. Spec => ReleaseProved
  BY <1>3, PlaneSafe, PTL DEF Spec, ReleaseProved
<1>6. Spec => DisposeIsFinal
  BY <1>4, PlaneSafe, PTL DEF Spec, DisposeIsFinal
<1> QED
  BY <1>5, <1>6 DEF DisposeSteps

-----------------------------------------------------------------------------
(* The refinement of Lending *)

\* Something is lent by an install exactly when it is pinned.
LEMMA LentIsPinned ==
    ASSUME PlaneInvariant, NEW i \in Installs
    PROVE  Lends!Lent(i) <=> Pinned(i)
<1>1. Pinned(i) => Lends!Lent(i)
  <2> SUFFICES ASSUME NEW p \in pins, p.to = i PROVE Lends!Lent(i)
    BY DEF Pinned
  <2>1. p.by \in Installs
    BY PinFacts
  <2>2. <<p.by, i>> \in {<<q.by, q.to>> : q \in pins}
    OBVIOUS
  <2> QED
    BY <2>1, <2>2 DEF Lends!Lent
<1>2. Lends!Lent(i) => Pinned(i)
  <2> SUFFICES ASSUME NEW b \in Installs, <<b, i>> \in {<<q.by, q.to>> : q \in pins}
               PROVE  Pinned(i)
    BY DEF Lends!Lent
  <2>1. PICK q \in pins : <<b, i>> = <<q.by, q.to>>
    OBVIOUS
  <2> QED
    BY <2>1 DEF Pinned
<1> QED
  BY <1>1, <1>2

\* The stage of an install, by cases.
LEMMA StageCases ==
    ASSUME NEW i \in Installs, install[i] \in States, fiber[i] \in Fibers
    PROVE  /\ Stage(i) = "absent" <=> install[i] = "none"
           /\ Stage(i) = "gone" <=> install[i] = "disposed"
           /\ Stage(i) = "serving" <=> Undisposed(i) /\ fiber[i].episode = "active"
           /\ Stage(i) = "leaving" <=> Undisposed(i) /\ fiber[i].episode = "retiring"
           /\ Stage(i) = "idle" <=> Undisposed(i) /\ fiber[i].episode = "none"
<1>1. CASE install[i] = "none"
  BY <1>1 DEF Stage, Undisposed
<1>2. CASE install[i] = "disposed"
  BY <1>2 DEF Stage, Undisposed
<1>3. CASE Undisposed(i)
  <2>1. fiber[i].episode \in {"none", "active", "retiring"}
    BY DEF Fibers
  <2>2. install[i] \notin {"none", "disposed"}
    BY <1>3 DEF Undisposed
  <2>3. CASE fiber[i].episode = "active"
    BY <1>3, <2>2, <2>3 DEF Stage
  <2>4. CASE fiber[i].episode = "retiring"
    BY <1>3, <2>2, <2>4 DEF Stage
  <2>5. CASE fiber[i].episode = "none"
    BY <1>3, <2>2, <2>5 DEF Stage
  <2> QED
    BY <1>3, <2>1, <2>2, <2>3, <2>4, <2>5
<1> QED
  BY <1>1, <1>2, <1>3 DEF Undisposed

\* An install moves as Lending lets a member move.
LEMMA StageMoves ==
    ASSUME PlaneInvariant, PlaneInvariant', Next, NEW i \in Installs
    PROVE  Stage(i)' \in Lends!Moves(i)
<1> DEFINE now == Stage(i)
           then == Stage(i)'
<1>1. install[i] \in States /\ fiber[i] \in Fibers
  BY RowFacts DEF Typed
<1>2. install'[i] \in States /\ fiber'[i] \in Fibers
  BY RowsNext DEF Typed
<1>3. /\ now = "absent" <=> install[i] = "none"
      /\ now = "gone" <=> install[i] = "disposed"
      /\ now = "serving" <=> Undisposed(i) /\ fiber[i].episode = "active"
      /\ now = "leaving" <=> Undisposed(i) /\ fiber[i].episode = "retiring"
      /\ now = "idle" <=> Undisposed(i) /\ fiber[i].episode = "none"
  BY <1>1, StageCases
<1>4. /\ then = "absent" <=> install'[i] = "none"
      /\ then = "gone" <=> install'[i] = "disposed"
      /\ then = "serving" <=> Undisposed(i)' /\ fiber'[i].episode = "active"
      /\ then = "leaving" <=> Undisposed(i)' /\ fiber'[i].episode = "retiring"
      /\ then = "idle" <=> Undisposed(i)' /\ fiber'[i].episode = "none"
  <2>1. ASSUME (install[i] \in States)', (fiber[i] \in Fibers)'
        PROVE  (/\ Stage(i) = "absent" <=> install[i] = "none"
                /\ Stage(i) = "gone" <=> install[i] = "disposed"
                /\ Stage(i) = "serving" <=> Undisposed(i) /\ fiber[i].episode = "active"
                /\ Stage(i) = "leaving" <=> Undisposed(i) /\ fiber[i].episode = "retiring"
                /\ Stage(i) = "idle" <=> Undisposed(i) /\ fiber[i].episode = "none")'
    <3>1. fiber'[i].episode \in {"none", "active", "retiring"}
      BY <2>1 DEF Fibers
    <3> QED
      BY <3>1, <2>1 DEF Stage, Undisposed
  <2> QED
    BY <1>2, <2>1
<1>5. Lends!Moves(i) =
        CASE now = "absent" -> {"absent", "idle"}
          [] now = "idle" -> {"idle", "serving", "gone"}
          [] now = "serving" -> {"serving", "leaving"} \cup IF Pinned(i) THEN {} ELSE {"idle"}
          [] now = "leaving" -> {"leaving"} \cup IF Pinned(i) THEN {} ELSE {"idle"}
          [] now = "gone" -> {"gone"}
  BY LentIsPinned DEF Lends!Moves
<1>6. fiber[i].episode \in {"none", "active", "retiring"}
      /\ fiber'[i].episode \in {"none", "active", "retiring"}
  BY <1>1, <1>2 DEF Fibers
<1>7. now \in {"absent", "gone", "serving", "leaving", "idle"}
  BY <1>3, <1>6 DEF Undisposed
<1>8. then \in {"absent", "gone", "serving", "leaving", "idle"}
  BY <1>4, <1>6 DEF Undisposed
<1> HIDE DEF now, then
<1>9. CASE WindStep
  <2>1. Winds(i, install'[i], fiber'[i], slots'[i], host'[i])
    BY <1>9 DEF WindStep, Becomes
  <2>2. Pinned(i) => Barrier(i)
    BY DEF Barrier
  <2>3. CASE now = "absent"
    <3>1. then = "absent"
      BY <1>3, <1>4, <1>6, <1>8, <2>1, <2>3 DEF Winds, Undisposed
    <3> QED
      BY <1>5, <2>3, <3>1 DEF then
  <2>4. CASE now = "idle"
    <3>1. then \in {"idle", "gone"}
      BY <1>3, <1>4, <1>6, <1>8, <2>1, <2>4 DEF Winds, Undisposed
    <3> QED
      BY <1>5, <2>4, <3>1 DEF then
  <2>5. CASE now = "serving"
    <3>1. then \in {"serving", "leaving"} \/ (then = "idle" /\ ~Pinned(i))
      BY <1>3, <1>4, <1>6, <1>8, <2>1, <2>2, <2>5 DEF Winds, Undisposed
    <3> QED
      BY <1>5, <2>5, <3>1 DEF then
  <2>6. CASE now = "leaving"
    <3>1. then = "leaving" \/ (then = "idle" /\ ~Pinned(i))
      BY <1>3, <1>4, <1>6, <1>8, <2>1, <2>2, <2>6 DEF Winds, Undisposed
    <3> QED
      BY <1>5, <2>6, <3>1 DEF then
  <2>7. CASE now = "gone"
    <3>1. then = "gone"
      BY <1>3, <1>4, <1>6, <1>8, <2>1, <2>7 DEF Winds, Undisposed
    <3> QED
      BY <1>5, <2>7, <3>1 DEF then
  <2> QED
    BY <1>7, <2>3, <2>4, <2>5, <2>6, <2>7
<1>10. ASSUME NEW j \in Installs, NEW action, Activate(j, action)
       PROVE  then \in Lends!Moves(i)
  <2>1. install[j] = "installed" /\ install' = install /\ fiber[j].episode = "none"
        /\ fiber'[j].episode = "active" /\ (i # j => fiber'[i] = fiber[i])
    BY ZenonT(60), <1>10, ActivateFacts
  <2>2. now = then \/ (now = "idle" /\ then = "serving")
    BY <1>3, <1>4, <1>6, <1>7, <1>8, <2>1 DEF Undisposed
  <2> QED
    BY <1>5, <1>7, <2>2
<1>11. ASSUME NEW j \in Installs, Install(j)
       PROVE  then \in Lends!Moves(i)
  <2>1. install[j] = "none" /\ fiber' = fiber /\ install'[j] \in {"preparing", "installed"}
        /\ (i # j => install'[i] = install[i])
    BY <1>11, InstallFacts
  <2>2. install[j] = "none" => fiber[j].episode = "none"
    BY RowFacts DEF RowOK, EpisodeOK
  <2>3. now = then \/ (now = "absent" /\ then = "idle")
    BY <1>3, <1>4, <1>6, <1>7, <1>8, <2>1, <2>2 DEF Undisposed
  <2> QED
    BY <1>5, <1>7, <2>3
<1> QED
  BY <1>9, <1>10, <1>11, StepCases DEF then

\* An install with an open episode is serving or leaving.
LEMMA OpenStage ==
    ASSUME PlaneInvariant, NEW i \in Installs
    PROVE  /\ fiber[i].episode # "none" => Stage(i) \in Lends!Open
           /\ fiber[i].episode = "active" <=> Stage(i) = "serving"
           /\ install[i] = "installed" /\ fiber[i].episode = "none" => Stage(i) = "idle"
<1>1. /\ install[i] \in States /\ fiber[i] \in Fibers
      /\ fiber[i].episode # "none" => install[i] \in {"installed", "dispose_pending"}
  BY RowFacts DEF Typed, RowOK, EpisodeOK
<1> QED
  BY <1>1, StageCases DEF Undisposed, Fibers, Lends!Open

\* Every step of the plane, the cascades over several installs included, is a step of
\* Lending: no provider stops under a consumer, and only who starts borrows.
THEOREM PlaneImplementsLending == Spec => ImplementsLending
<1> DEFINE stg == [i \in Installs |-> Stage(i)]
           lent == {<<p.by, p.to>> : p \in pins}
<1>1. ASSUME Init PROVE Lends!Init
  <2>1. \A i \in Installs : Stage(i) = "absent"
    BY <1>1 DEF Init, Stage, Undisposed
  <2>2. stg = [i \in Installs |-> "absent"]
    BY <2>1
  <2>3. lent = {}
    BY <1>1 DEF Init
  <2> QED
    BY <2>2, <2>3 DEF Lends!Init
<1>2. ASSUME PlaneInvariant, PlaneInvariant', Next PROVE Lends!Next
  <2>1. \A i \in Installs : stg[i] = Stage(i) /\ stg'[i] = Stage(i)'
    OBVIOUS
  <2>2. \A i \in Installs : Stage(i)' \in Lends!Moves(i)
    BY <1>2, StageMoves
  <2>3. ASSUME NEW i \in Installs
        PROVE  /\ fiber'[i].episode # "none" => Stage(i)' \in Lends!Open
               /\ fiber'[i].episode = "active" <=> Stage(i)' = "serving"
    <3>1. (PlaneInvariant => /\ fiber[i].episode # "none" => Stage(i) \in Lends!Open
                             /\ fiber[i].episode = "active" <=> Stage(i) = "serving")'
      BY OpenStage, PTL
    <3> QED
      BY <1>2, <3>1 DEF Lends!Open
  <2>4. \A p \in pins' : p.by \in Installs /\ fiber'[p.by].episode # "none"
    BY <1>2 DEF PlaneInvariant, TypeOK, ProviderOutlivesPins
  <2>5. ASSUME NEW p \in pins, p \notin pins' PROVE Stage(p.by)' # "serving"
    <3>1. WindStep
      BY <1>2, <2>5, StepCases, ActivatePins, InstallFacts
    <3>2. p.by \in Installs /\ fiber'[p.by].episode # "active"
      BY <1>2, <2>5, <3>1, PinFacts DEF WindStep
    <3> QED
      BY <2>3, <3>2
  <2>6. ASSUME NEW p \in pins', p \notin pins
        PROVE  /\ p.by \in Installs /\ p.to \in Installs
               /\ Stage(p.by) = "idle" /\ Stage(p.by)' = "serving"
               /\ Stage(p.to) = "serving" /\ Stage(p.to)' = "serving"
    <3>1. PICK i \in Installs, action \in {"on", "off", "retry"} : Activate(i, action)
      BY <1>2, <2>6, StepCases, InstallFacts DEF WindStep
    <3>2. p.by = i /\ p.to \in Installs /\ fiber[p.to].episode = "active"
      BY <1>2, <2>6, <3>1, ActivatePins
    <3>3. /\ install[i] = "installed" /\ fiber[i].episode = "none"
          /\ fiber'[i].episode = "active"
          /\ \A j \in Installs \ {i} : fiber'[j] = fiber[j]
      BY <1>2, <3>1, ActivateFacts
    <3>4. p.to # i /\ fiber'[p.to].episode = "active"
      BY <3>2, <3>3
    <3> QED
      BY <1>2, <2>3, <3>2, <3>3, <3>4, OpenStage
  <2>7. DOMAIN stg' = Installs
    OBVIOUS
  <2>8. lent' = {<<p.by, p.to>> : p \in pins'}
    OBVIOUS
  <2>9. \A l \in lent : stg'[l[1]] = "serving" => l \in lent'
    <3> SUFFICES ASSUME NEW p \in pins, stg'[p.by] = "serving" PROVE <<p.by, p.to>> \in lent'
      OBVIOUS
    <3>1. p.by \in Installs
      BY <1>2, PinFacts
    <3>2. p \in pins'
      BY <2>1, <2>5, <3>1
    <3> QED
      BY <2>8, <3>2
  <2>10. \A l \in lent' : stg'[l[1]] \in Lends!Open
    BY <2>1, <2>3, <2>4
  <2>11. \A l \in lent' \ lent : /\ stg[l[1]] = "idle" /\ stg'[l[1]] = "serving"
                                 /\ stg[l[2]] = "serving" /\ stg'[l[2]] = "serving"
    <3> SUFFICES ASSUME NEW p \in pins', <<p.by, p.to>> \notin lent
                 PROVE  /\ stg[p.by] = "idle" /\ stg'[p.by] = "serving"
                        /\ stg[p.to] = "serving" /\ stg'[p.to] = "serving"
      BY <2>8
    <3>1. p \notin pins
      OBVIOUS
    <3> QED
      BY <2>1, <2>6, <3>1
  <2> QED
    BY <2>1, <2>2, <2>7, <2>9, <2>10, <2>11 DEF Lends!Next
<1>3. PlaneInvariant /\ PlaneInvariant' /\ [Next]_vars => [Lends!Next]_<<stg, lent>>
  <2>1. UNCHANGED vars => UNCHANGED <<stg, lent>>
    BY DEF vars, Stage, Undisposed
  <2> QED
    BY <1>2, <2>1
<1> QED
  BY <1>1, <1>3, PlaneSafe, PTL DEF Spec, ImplementsLending, Lends!Spec

===============================================================================
