------------------------------- MODULE Plane -------------------------------
(***************************************************************************)
(* The plugin plane of v24: installs and their fibers, the episodes in     *)
(* which a fiber holds slots and pins, the host effects that prepare and   *)
(* release an install's resource, and the closing of scopes                *)
(* (src/v24/sql/40_interpreters.sql, 45_capability.sql, 46_cleanup.sql).   *)
(*                                                                         *)
(* Every command and every settlement is one call of v24.advance under     *)
(* locks, so it is one step here.  Nothing in the plane moves by itself:   *)
(* disposing and closing advance one bounded stage per request key, and    *)
(* between two keys hosts claim, execute, lose and settle host effects.    *)
(*                                                                         *)
(* An install has one fiber and a fiber at most one open episode, so the   *)
(* rows of an install, its fiber, its episode and its slots are functions  *)
(* of the install.  Manifests are constants.  Every scope routes every key *)
(* to one realm; runs and their pins are the subject of RunLoop.           *)
(***************************************************************************)
EXTENDS Integers, Sequences, FiniteSets

CONSTANTS
    Scopes,        \* scope ids
    Installs,      \* install ids, one per identity and version of a manifest
    NoOne,         \* no parent, no owner
    ParentOf,      \* scope -> its parent scope or NoOne
    ScopeOf,       \* install -> its scope
    OwnerOf,       \* install -> the install whose fiber owns it, or NoOne
    Requires,      \* install -> keys its manifest requires
    Provides,      \* install -> the keys its manifest provides, in order
    Artifacts,     \* the installs whose manifest carries an artifact
    MaxEpochs,     \* bound: episodes of one fiber
    MaxFaults      \* bound: failed or unknown receipts and leases run out

ASSUME PlaneConstants ==
    /\ NoOne \notin Scopes \cup Installs
    /\ ParentOf \in [Scopes -> Scopes \cup {NoOne}]
    /\ ScopeOf \in [Installs -> Scopes]
    /\ OwnerOf \in [Installs -> Installs \cup {NoOne}]
    /\ DOMAIN Requires = Installs /\ DOMAIN Provides = Installs
    /\ Artifacts \subseteq Installs
    /\ \A i \in Installs :
          /\ \E size \in 0..5 : DOMAIN Provides[i] = 1..size   \* withdrawn in one stage
          /\ \A n, m \in DOMAIN Provides[i] : Provides[i][n] = Provides[i][m] => n = m
    /\ MaxEpochs \in Nat /\ MaxFaults \in Nat

VARIABLES
    scope,      \* "none", "open", the last recorded phase of a close, "closed"
    install,    \* state of the install row, "none" before it is admitted
    ownerEp,    \* the episode of the owner the install was admitted under
    fiber,      \* the fiber row and the state of its current episode
    slots,      \* state of the slots of the current episode, by contribution
    pins,       \* live pins
    host,       \* host effects of the install
    resource,   \* outside: does the resource of the install exist
    faults      \* faults so far

vars == <<scope, install, ownerEp, fiber, slots, pins, host, resource, faults>>

\* "ran": claimed, and the plugin has answered its host.
Pending == {"ready", "claimed", "ran"}
Kinds == {"prepare", "release", "inspect"}

NoFiber == [want |-> FALSE, failed |-> FALSE, gone |-> FALSE, epoch |-> 0,
            episode |-> "none", reconcile |-> FALSE]
NoHost == [prepare |-> "none", release |-> "none", inspect |-> "none",
           acted |-> FALSE,    \* the plugin has acted on the last release
           doubt |-> FALSE]    \* an inspection ended with an unknown outcome

Keys(i) == {Provides[i][n] : n \in DOMAIN Provides[i]}
Prepared(i) == Provides[i] # <<>> \/ i \in Artifacts
Released(i) == [n \in DOMAIN Provides[i] |-> "released"]

-----------------------------------------------------------------------------
(* Reading the plane *)

Admitted(i) == install[i] # "none"
Undisposed(i) == install[i] \notin {"none", "disposed"}
Closing(s) == scope[s] # "open"

Children(i) == {c \in Installs : OwnerOf[c] = i /\ Admitted(c)}
ChildLeft(i) == \E c \in Children(i) : Undisposed(c)

\* The owners above an install: the smallest set that has its owner and theirs.
Owners == [i \in Installs |->
    {o \in Installs : \A S \in SUBSET Installs :
        (\A c \in S \cup {i} : OwnerOf[c] \in S \cup {NoOne}) => o \in S}]

HostPending(i) == \E k \in Kinds : host[i][k] \in Pending

\* An unknown outcome without a proof that the resource is quiet.  Nothing ever
\* sets that proof on an inspect effect, so its own unknown outcome stays.
HostUnknown(i) ==
    host[i].doubt \/ host[i].prepare = "unknown" \/ host[i].release = "unknown"

Held(i) == {n \in DOMAIN slots[i] : slots[i][n] # "released"}
Pinned(i) == \E p \in pins : p.to = i

\* Mutant: children are forgotten by the barrier.
BarrierWithoutChildren(i) == Pinned(i) \/ HostPending(i) \/ HostUnknown(i)

\* Mutant: consumers are forgotten by the barrier.
BarrierWithoutPins(i) == ChildLeft(i) \/ HostPending(i) \/ HostUnknown(i)

\* What keeps an episode from giving up its slots.
Barrier(i) == Pinned(i) \/ ChildLeft(i) \/ HostPending(i) \/ HostUnknown(i)

\* Mutant: a withdrawn slot still resolves.
ProvidersWithdrawn(k) ==
    {j \in Installs : /\ fiber[j].episode # "none"
                      /\ \E n \in Held(j) : Provides[j][n] = k
                      /\ ~fiber[j].gone /\ ~Closing(ScopeOf[j])}

\* resolve: the installs whose live slot serves key k.
Providers(k) ==
    {j \in Installs : /\ fiber[j].episode = "active"
                      /\ \E n \in DOMAIN slots[j] : slots[j][n] = "live" /\ Provides[j][n] = k
                      /\ ~fiber[j].gone /\ ~Closing(ScopeOf[j])}

Taken(k) == \E j \in Installs : \E n \in Held(j) : Provides[j][n] = k

-----------------------------------------------------------------------------
(* One stage on one install.  A stage computes the new rows of the install   *)
(* from the committed ones; `drop` says that the pins of its episode go.     *)

Row(i) == [state |-> install[i], fiber |-> fiber[i], slots |-> slots[i],
           host |-> host[i], drop |-> FALSE]

Withdrawn(i) == [n \in DOMAIN slots[i] |->
                    IF slots[i][n] = "live" THEN "withdrawn" ELSE slots[i][n]]

LastHeld(i) == CHOOSE n \in Held(i) : \A m \in Held(i) : m <= n

RetireRow(i) == [Row(i) EXCEPT !.fiber.want = FALSE, !.fiber.episode = "retiring",
                               !.slots = Withdrawn(i)]

\* The pins of the episode and one slot are released; the last slot ends it.
ReleaseRow(i) ==
    LET left == IF Held(i) = {} THEN {} ELSE Held(i) \ {LastHeld(i)}
        kept == [n \in DOMAIN slots[i] |-> IF n \in left THEN "withdrawn" ELSE "released"]
    IN  [Row(i) EXCEPT !.fiber.want = FALSE, !.slots = kept, !.drop = TRUE,
                       !.fiber.episode = IF left = {} THEN "none" ELSE "retiring"]

\* deactivate_stage: what becomes of the rows, and whether the stage is blocked.
\* A dispose or a close only retires an active episode; `off` goes on.
Deactivated(i, mode) ==
    CASE fiber[i].episode = "active" /\ (mode # "control" \/ Barrier(i)) -> RetireRow(i)
      [] fiber[i].episode # "active" /\ Barrier(i) -> Row(i)
      [] OTHER -> ReleaseRow(i)

\* Mutant: nobody inspects an unknown release.
InspectsPrepareOnly(i) ==
    \/ install[i] \in {"preparing", "prepare_unknown"}
    \/ install[i] = "dispose_pending" /\ host[i].prepare = "unknown"

\* The branches of dispose_stage that look for an effect to inspect.
Inspects(i) ==
    \/ install[i] \in {"preparing", "prepare_unknown"}
    \/ install[i] = "dispose_pending" /\ "unknown" \in {host[i].prepare, host[i].release}

InspectRow(i) ==
    IF "unknown" \in {host[i].prepare, host[i].release} /\ ~HostPending(i)
    THEN [Row(i) EXCEPT !.host.inspect = "ready"]
    ELSE Row(i)

\* The tail of dispose_stage on an install whose episode is over, in this stage or
\* before: the fiber is tombstoned and the release goes out, once.
ReleaseHost(i, row) ==
    LET gone == IF fiber[i].gone THEN row
                ELSE [row EXCEPT !.fiber.gone = TRUE, !.fiber.want = FALSE]
        other == \E k \in Kinds \ {"release"} : host[i][k] \in Pending
    IN  IF ChildLeft(i) \/ other \/ HostUnknown(i) THEN row
        ELSE IF row.state = "prepare_failed" /\ host[i].release \notin Pending
        THEN [gone EXCEPT !.state = "disposed"]
        ELSE IF host[i].release \in Pending THEN gone
        ELSE [gone EXCEPT !.host.release = "ready", !.host.acted = FALSE]

MarkedRow(i, row) ==
    IF install[i] = "installed" THEN [row EXCEPT !.state = "dispose_pending"] ELSE row

\* dispose_stage on one visited install.
StageRow(i) ==
    LET down == Deactivated(i, "dispose")
        last == down.fiber.episode = "none" /\ Held(i) # {}
    IN  IF Inspects(i) THEN InspectRow(i)
        ELSE IF fiber[i].episode = "none" THEN ReleaseHost(i, MarkedRow(i, Row(i)))
        ELSE IF last THEN ReleaseHost(i, MarkedRow(i, down))
        ELSE MarkedRow(i, down)

\* The installs a stage on i visits: i and what it owns, not beyond an install
\* whose preparation is open.
Visited(i) ==
    {c \in Installs :
        /\ Undisposed(c)
        /\ c = i \/ i \in Owners[c]
        /\ \A o \in Owners[c] :
              (o = i \/ i \in Owners[o]) =>
                  install[o] \notin {"preparing", "prepare_unknown", "disposed"}}

Changed(i) == StageRow(i) # Row(i)

\* The rows after a stage on the installs in I.
Write(I) ==
    LET rows == [i \in I |-> StageRow(i)]
    IN  /\ install' = [i \in Installs |-> IF i \in I THEN rows[i].state ELSE install[i]]
        /\ fiber' = [i \in Installs |-> IF i \in I THEN rows[i].fiber ELSE fiber[i]]
        /\ slots' = [i \in Installs |-> IF i \in I THEN rows[i].slots ELSE slots[i]]
        /\ host' = [i \in Installs |-> IF i \in I THEN rows[i].host ELSE host[i]]
        /\ pins' = {p \in pins : ~(p.by \in I /\ rows[p.by].drop)}
        /\ UNCHANGED <<ownerEp, resource, faults>>

-----------------------------------------------------------------------------
(* Commands: scopes and installs *)

CreateChild(s) ==
    /\ scope[s] = "none"
    /\ scope[ParentOf[s]] = "open"
    /\ scope' = [scope EXCEPT ![s] = "open"]
    /\ UNCHANGED <<install, ownerEp, fiber, slots, pins, host, resource, faults>>

OwnerAccepts(i) ==
    OwnerOf[i] # NoOne => LET f == fiber[OwnerOf[i]] IN ~f.gone /\ f.want /\ f.episode = "active"

Install(i) ==
    /\ install[i] = "none"
    /\ scope[ScopeOf[i]] = "open"
    /\ OwnerAccepts(i)
    /\ install' = [install EXCEPT ![i] = IF Prepared(i) THEN "preparing" ELSE "installed"]
    /\ ownerEp' = [ownerEp EXCEPT ![i] =
                      IF OwnerOf[i] = NoOne THEN 0 ELSE fiber[OwnerOf[i]].epoch]
    /\ host' = [host EXCEPT ![i].prepare = IF Prepared(i) THEN "ready" ELSE "none"]
    /\ UNCHANGED <<scope, fiber, slots, pins, resource, faults>>

-----------------------------------------------------------------------------
(* Commands: fiber_control.  A command carries the control_seq it read and is *)
(* refused when that is stale, so one that applies decided on these rows.     *)

SetFiber(i, f) ==
    /\ fiber' = [fiber EXCEPT ![i] = f]
    /\ UNCHANGED <<scope, install, ownerEp, slots, pins, host, resource, faults>>

TargetOn(i, action) == IF action = "retry" THEN fiber[i].want ELSE action = "on"

\* A reconcile left over by a blocked stage: a change of mind is only recorded.
Flips(i, action) == fiber[i].reconcile /\ TargetOn(i, action) # fiber[i].want

\* Nothing to do: not even the failure is touched.
NoOp(i, action) ==
    LET f == fiber[i]
    IN  \/ action = "retry" /\ ~f.failed
        \/ action = "on" /\ f.want /\ f.episode = "active" /\ ~f.reconcile
        \/ action = "off" /\ ~f.want /\ f.episode = "none" /\ ~f.reconcile

\* The command gets as far as reconciling towards its target.
Controls(i, action) ==
    /\ Admitted(i) /\ ~NoOp(i, action)
    /\ action = "on" => ~Closing(ScopeOf[i])

OnRefused(i) ==
    /\ Admitted(i) /\ Closing(ScopeOf[i])
    /\ SetFiber(i, [fiber[i] EXCEPT !.failed = TRUE])

Flip(i, action) ==
    /\ Controls(i, action) /\ Flips(i, action)
    /\ SetFiber(i, [fiber[i] EXCEPT !.want = TargetOn(i, action)])

\* Reconciling towards on while an episode is open: an active one is confirmed, a
\* retiring one has to be over first.
StayOn(i, action) ==
    /\ Controls(i, action) /\ TargetOn(i, action) /\ ~Flips(i, action)
    /\ fiber[i].episode # "none"
    /\ SetFiber(i, [fiber[i] EXCEPT !.want = TRUE, !.failed = FALSE,
                                    !.reconcile = fiber[i].episode = "retiring"])

Activates(i) ==
    /\ install[i] = "installed"
    /\ ~Closing(ScopeOf[i])
    /\ \A k \in Requires[i] : Providers(k) # {}
    /\ \A k \in Keys(i) : ~Taken(k)

Activate(i, action) ==
    /\ Controls(i, action) /\ TargetOn(i, action) /\ ~Flips(i, action)
    /\ fiber[i].episode = "none" /\ Activates(i)
    /\ fiber[i].epoch < MaxEpochs
    /\ fiber' = [fiber EXCEPT ![i].want = TRUE, ![i].failed = FALSE,
                              ![i].reconcile = FALSE, ![i].episode = "active",
                              ![i].epoch = @ + 1]
    /\ slots' = [slots EXCEPT ![i] = [n \in DOMAIN Provides[i] |-> "live"]]
    /\ \E chosen \in [Requires[i] -> Installs] :
        /\ \A k \in Requires[i] : chosen[k] \in Providers(k)
        /\ pins' = pins \cup
               {[by |-> i, byEp |-> fiber[i].epoch + 1, key |-> k,
                 to |-> chosen[k], toEp |-> fiber[chosen[k]].epoch] : k \in Requires[i]}
    /\ UNCHANGED <<scope, install, ownerEp, host, resource, faults>>

ActivationFails(i, action) ==
    /\ Controls(i, action) /\ TargetOn(i, action) /\ ~Flips(i, action)
    /\ fiber[i].episode = "none" /\ ~Activates(i)
    /\ SetFiber(i, [fiber[i] EXCEPT !.want = TRUE, !.failed = TRUE, !.reconcile = FALSE])

TurnOff(i, action) ==
    LET row == Deactivated(i, "control")
        idle == fiber[i].episode = "none"
    IN  /\ Controls(i, action) /\ ~TargetOn(i, action) /\ ~Flips(i, action)
        /\ fiber' = [fiber EXCEPT ![i] =
                        [row.fiber EXCEPT !.want = FALSE, !.failed = FALSE,
                                          !.reconcile = ~idle /\ Barrier(i),
                                          !.episode = IF idle THEN "none" ELSE @]]
        /\ slots' = IF idle THEN slots ELSE [slots EXCEPT ![i] = row.slots]
        /\ pins' = IF ~idle /\ row.drop THEN {p \in pins : p.by # i} ELSE pins
        /\ UNCHANGED <<scope, install, ownerEp, host, resource, faults>>

FiberControl(i, action) ==
    \/ Flip(i, action)
    \/ StayOn(i, action)
    \/ Activate(i, action)
    \/ ActivationFails(i, action)
    \/ TurnOff(i, action)

-----------------------------------------------------------------------------
(* Commands: dispose, and the phases of closing a scope *)

Dispose(i) ==
    /\ Undisposed(i)
    /\ Write(Visited(i))
    /\ UNCHANGED scope

Closure(s) ==
    {i \in Installs : Admitted(i) /\ (ScopeOf[i] = s \/ \E o \in Owners[i] : ScopeOf[o] = s)}

\* Mutant: the scopes below are not looked at.
ClosableAlone(s) ==
    /\ \A i \in Closure(s) :
        /\ ~Undisposed(i) /\ fiber[i].gone
        /\ ~HostPending(i) /\ ~HostUnknown(i)
    /\ \A p \in pins : {p.by, p.to} \cap Closure(s) = {}

Closable(s) ==
    /\ \A c \in Scopes : ParentOf[c] = s => scope[c] \in {"none", "closed"}
    /\ \A i \in Closure(s) :
        /\ ~Undisposed(i) /\ fiber[i].gone
        /\ ~HostPending(i) /\ ~HostUnknown(i)
    /\ \A p \in pins : {p.by, p.to} \cap Closure(s) = {}

\* Work an earlier phase has left behind, that sends the close back.
RetireLeft(s) ==
    \E i \in Installs :
        /\ Admitted(i) /\ ScopeOf[i] = s /\ ~fiber[i].gone
        /\ \/ fiber[i].want
           \/ fiber[i].episode = "active"
           \/ \E n \in DOMAIN slots[i] : slots[i][n] = "live"

CascadeLeft(s) ==
    \E i \in Closure(s) :
        /\ host[i].release \notin Pending /\ host[i].inspect \notin Pending
        /\ \/ install[i] \in {"installed", "prepare_failed", "dispose_pending"}
           \/ install[i] \in {"preparing", "prepare_unknown"} /\ host[i].prepare = "unknown"

\* The phase of the next request key.
ClosePhase(s) ==
    CASE scope[s] = "open" -> "request"
      [] scope[s] = "request" -> "drain"
      [] scope[s] = "drain" -> "retire"
      [] scope[s] = "retire" -> "cascade"
      [] RetireLeft(s) -> "retire"
      [] CascadeLeft(s) -> "cascade"
      [] scope[s] = "clean" -> "finalize"
      [] OTHER -> "barrier"

\* request and drain: the runs of the scope are told, the plane keeps its rows.
CloseBegins(s) ==
    /\ ClosePhase(s) \in {"request", "drain"}
    /\ scope' = [scope EXCEPT ![s] = ClosePhase(s)]
    /\ UNCHANGED <<install, ownerEp, fiber, slots, pins, host, resource, faults>>

CloseRetires(s) ==
    LET I == {i \in Installs : Admitted(i) /\ ScopeOf[i] = s /\ ~fiber[i].gone}
    IN  /\ ClosePhase(s) = "retire"
        /\ scope' = [scope EXCEPT ![s] = "retire"]
        /\ fiber' = [i \in Installs |->
                        IF i \in I THEN [fiber[i] EXCEPT !.want = FALSE,
                                            !.episode = IF @ = "active" THEN "retiring" ELSE @]
                        ELSE fiber[i]]
        /\ slots' = [i \in Installs |-> IF i \in I THEN Withdrawn(i) ELSE slots[i]]
        /\ UNCHANGED <<install, ownerEp, pins, host, resource, faults>>

\* A stage for every install of the closure, each on the committed rows.  An
\* install that two of them change is reported twice, and such a delta is refused
\* whole: the key leaves no trace.
Overlap(s) ==
    \E i, j \in Closure(s) :
        i # j /\ \E c \in Visited(i) \cap Visited(j) : Changed(c)

CloseCascades(s) ==
    /\ ClosePhase(s) = "cascade"
    /\ ~Overlap(s)
    /\ scope' = [scope EXCEPT ![s] = "cascade"]
    /\ Write(UNION {Visited(i) : i \in {j \in Closure(s) : Undisposed(j)}})

CloseEnds(s) ==
    /\ ClosePhase(s) \in {"barrier", "finalize"}
    /\ scope' = [scope EXCEPT ![s] =
                    IF ~Closable(s) THEN "barrier"
                    ELSE IF ClosePhase(s) = "barrier" THEN "clean" ELSE "closed"]
    /\ UNCHANGED <<install, ownerEp, fiber, slots, pins, host, resource, faults>>

Close(s) ==
    /\ scope[s] \notin {"none", "closed"}
    /\ CloseBegins(s) \/ CloseRetires(s) \/ CloseCascades(s) \/ CloseEnds(s)

-----------------------------------------------------------------------------
(* Hosts: claims, the outside world, receipts *)

SetHost(i, h) ==
    /\ host' = [host EXCEPT ![i] = h]
    /\ UNCHANGED <<scope, ownerEp, fiber, slots, pins, resource>>

Claim(i, k) ==
    /\ host[i][k] = "ready"
    /\ SetHost(i, [host[i] EXCEPT ![k] = "claimed"])
    /\ UNCHANGED <<install, faults>>

\* The plugin does what it was called for; its host has not reported it yet.
Execute(i, k) ==
    /\ host[i][k] = "claimed" /\ k \in {"prepare", "release"}
    /\ resource' = [resource EXCEPT ![i] = k = "prepare"]
    /\ host' = [host EXCEPT ![i][k] = "ran", ![i].acted = @ \/ k = "release"]
    /\ UNCHANGED <<scope, install, ownerEp, fiber, slots, pins, faults>>

Fault ==
    /\ faults < MaxFaults
    /\ faults' = faults + 1

\* The claim of a dead host runs out and the sweep puts the effect back.
Recover(i, k) ==
    /\ host[i][k] \in {"claimed", "ran"}
    /\ Fault
    /\ SetHost(i, [host[i] EXCEPT ![k] = "ready"])
    /\ UNCHANGED install

\* install_disposed_ok, with the receipt at hand already counted as h.
DisposedOk(i, h) ==
    /\ fiber[i].gone /\ fiber[i].episode = "none" /\ Held(i) = {} /\ ~ChildLeft(i)
    /\ \A k \in Kinds : h[k] \notin Pending \cup {"unknown"}
    /\ ~h.doubt

PrepareSucceeds(i) ==
    /\ host[i].prepare = "ran" /\ install[i] = "preparing"
    /\ SetHost(i, [host[i] EXCEPT !.prepare = "done"])
    /\ install' = [install EXCEPT ![i] = "installed"]
    /\ UNCHANGED faults

\* Mutant: the install gets the outcome of its effect as its state.
PrepareFailsRaw(i) ==
    /\ host[i].prepare = "claimed" /\ install[i] = "preparing"
    /\ Fault
    /\ SetHost(i, [host[i] EXCEPT !.prepare = "done"])
    /\ install' = [install EXCEPT ![i] = "failure"]

\* A failed call changes nothing outside.  The plugin may not have been asked at all:
\* its adapter is not registered on this host, or its artifact is gone.
PrepareFails(i) ==
    /\ host[i].prepare = "claimed" /\ install[i] = "preparing"
    /\ Fault
    /\ SetHost(i, [host[i] EXCEPT !.prepare = "done"])
    /\ install' = [install EXCEPT ![i] = "prepare_failed"]

PrepareUnknown(i) ==
    /\ host[i].prepare \in {"claimed", "ran"} /\ install[i] = "preparing"
    /\ Fault
    /\ SetHost(i, [host[i] EXCEPT !.prepare = "unknown"])
    /\ install' = [install EXCEPT ![i] = "prepare_unknown"]

ReleaseSucceeds(i) ==
    LET h == [host[i] EXCEPT !.release = "done"]
    IN  /\ host[i].release = "ran" /\ install[i] = "dispose_pending"
        /\ DisposedOk(i, h)
        /\ SetHost(i, h)
        /\ install' = [install EXCEPT ![i] = "disposed"]
        /\ UNCHANGED faults

ReleaseFails(i) ==
    /\ host[i].release = "claimed" /\ install[i] = "dispose_pending"
    /\ Fault
    /\ SetHost(i, [host[i] EXCEPT !.release = "done"])
    /\ UNCHANGED install

ReleaseUnknown(i) ==
    /\ host[i].release \in {"claimed", "ran"} /\ install[i] = "dispose_pending"
    /\ Fault
    /\ SetHost(i, [host[i] EXCEPT !.release = "unknown"])
    /\ UNCHANGED install

\* The effect an inspect was emitted for.
Target(i) == IF host[i].prepare = "unknown" THEN "prepare" ELSE "release"

Inspected(i) == host[i].inspect = "claimed" /\ host[i][Target(i)] = "unknown"

\* The plugin knows the call by its reservation, or has never seen it.
Known(i) == IF Target(i) = "prepare" THEN resource[i] ELSE host[i].acted

\* The target is quiet: what the plugin says decides the install.
InspectAnswers(i) ==
    LET h == [host[i] EXCEPT !.inspect = "done", ![Target(i)] = "done"]
    IN  /\ Inspected(i)
        /\ Target(i) = "release" /\ Known(i) => DisposedOk(i, h)
        /\ SetHost(i, h)
        /\ install' = [install EXCEPT ![i] =
                          CASE Target(i) = "prepare" /\ Known(i) -> "installed"
                            [] Target(i) = "prepare" /\ ~Known(i) -> "prepare_failed"
                            [] Target(i) = "release" /\ Known(i) -> "disposed"
                            [] OTHER -> @]
        /\ UNCHANGED faults

InspectFails(i) ==
    /\ Inspected(i)
    /\ Fault
    /\ SetHost(i, [host[i] EXCEPT !.inspect = "done"])
    /\ UNCHANGED install

\* Mutant: an inspect without an answer counts as quiet.
InspectUnknownQuiet(i) ==
    /\ Inspected(i)
    /\ Fault
    /\ SetHost(i, [host[i] EXCEPT !.inspect = "done", ![Target(i)] = "done"])
    /\ UNCHANGED install

InspectUnknown(i) ==
    /\ Inspected(i)
    /\ Fault
    /\ SetHost(i, [host[i] EXCEPT !.inspect = "done", !.doubt = TRUE])
    /\ UNCHANGED install

Settle(i) ==
    \/ PrepareSucceeds(i)
    \/ PrepareFails(i)
    \/ PrepareUnknown(i)
    \/ ReleaseSucceeds(i)
    \/ ReleaseFails(i)
    \/ ReleaseUnknown(i)
    \/ InspectAnswers(i)
    \/ InspectFails(i)
    \/ InspectUnknown(i)

-----------------------------------------------------------------------------
Init ==
    /\ scope = [s \in Scopes |-> IF ParentOf[s] = NoOne THEN "open" ELSE "none"]
    /\ install = [i \in Installs |-> "none"]
    /\ ownerEp = [i \in Installs |-> 0]
    /\ fiber = [i \in Installs |-> NoFiber]
    /\ slots = [i \in Installs |-> Released(i)]
    /\ pins = {}
    /\ host = [i \in Installs |-> NoHost]
    /\ resource = [i \in Installs |-> FALSE]
    /\ faults = 0

Next ==
    \/ \E s \in Scopes : CreateChild(s)
    \/ \E i \in Installs : Install(i)
    \/ \E i \in Installs, action \in {"on", "off", "retry"} : FiberControl(i, action)
    \/ \E i \in Installs : OnRefused(i)
    \/ \E i \in Installs : Dispose(i)
    \/ \E s \in Scopes : Close(s)
    \/ \E i \in Installs, k \in Kinds : Claim(i, k)
    \/ \E i \in Installs, k \in Kinds : Execute(i, k)
    \/ \E i \in Installs, k \in Kinds : Recover(i, k)
    \/ \E i \in Installs : Settle(i)

Spec == Init /\ [][Next]_vars

-----------------------------------------------------------------------------
(* Fairness.  Some host polls, and after the bounded number of faults the      *)
(* plugins answer.  Clients owe nothing: what a property expects of the one    *)
(* who disposes or closes is a hypothesis of that property.                    *)

HostStep ==
    \E i \in Installs :
        \/ \E k \in Kinds : Claim(i, k) \/ Execute(i, k)
        \/ PrepareSucceeds(i) \/ ReleaseSucceeds(i) \/ InspectAnswers(i)

FairSpec == Spec /\ WF_vars(HostStep)

-----------------------------------------------------------------------------
(* Properties *)

EffectState == Pending \cup {"none", "unknown", "done"}

\* The rows have the values the schema and the code allow.
TypeOK ==
    /\ scope \in [Scopes -> {"none", "open", "request", "drain", "retire", "cascade",
                             "barrier", "clean", "closed"}]
    /\ install \in [Installs -> {"none", "preparing", "installed", "prepare_failed",
                                 "prepare_unknown", "dispose_pending", "disposed"}]
    /\ ownerEp \in [Installs -> 0..MaxEpochs]
    /\ fiber \in [Installs -> [want : BOOLEAN, failed : BOOLEAN, gone : BOOLEAN,
                               epoch : 0..MaxEpochs, reconcile : BOOLEAN,
                               episode : {"none", "active", "retiring"}]]
    /\ \A i \in Installs :
          slots[i] \in [DOMAIN Provides[i] -> {"live", "withdrawn", "released"}]
    /\ \A p \in pins : p.by \in Installs /\ p.to \in Installs
    /\ host \in [Installs -> [prepare : EffectState, release : EffectState,
                              inspect : EffectState,
                              acted : BOOLEAN, doubt : BOOLEAN]]
    /\ resource \in [Installs -> BOOLEAN]
    /\ faults \in 0..MaxFaults

\* A live pin joins two open episodes, and the slot it stands on is not released:
\* a provider outlives its consumers, whichever of them is turned off, disposed or
\* closed first.
ProviderOutlivesPins ==
    \A p \in pins :
        /\ fiber[p.by].episode # "none" /\ fiber[p.by].epoch = p.byEp
        /\ fiber[p.to].episode # "none" /\ fiber[p.to].epoch = p.toEp
        /\ \E n \in Held(p.to) : Provides[p.to][n] = p.key

\* An install that is not disposed has its owner's episode still open, and the
\* owner's resource is not being released.
OwnerOutlivesChildren ==
    \A i \in Installs :
        Undisposed(i) /\ OwnerOf[i] # NoOne =>
            LET o == OwnerOf[i]
            IN  /\ fiber[o].episode # "none" /\ fiber[o].epoch = ownerEp[i]
                /\ Undisposed(o) /\ host[o].release = "none"

\* A release that a host has or may have executed belongs to an install nobody
\* uses: its fiber is tombstoned, its slots, pins and children are gone.
ReleaseWhenIdle ==
    \A i \in Installs :
        host[i].release # "none" =>
            /\ fiber[i].gone /\ fiber[i].episode = "none" /\ Held(i) = {}
            /\ ~Pinned(i) /\ ~ChildLeft(i)
            /\ install[i] \in {"dispose_pending", "disposed"}

\* A release with an unknown outcome is settled by what an inspection finds: the install
\* is disposed if and only if the plugin has acted on it, and its resource is gone then.
ReleaseProved ==
    [][\A i \in Installs : host[i].release = "unknown" /\ host'[i].release # "unknown" =>
            /\ host'[i].release = "done"
            /\ install'[i] = "disposed" <=> host[i].acted
            /\ host[i].acted => ~resource[i]]_vars

\* A key is served by one slot at a time, the withdrawn ones included.
OneSlotPerKey ==
    \A i, j \in Installs : \A n \in Held(i), m \in Held(j) :
        Provides[i][n] = Provides[j][m] => i = j /\ n = m

\* A key has one provider, and the provider stays until its last consumer has let go.
SlotsHold == ProviderOutlivesPins /\ OneSlotPerKey

\* Contributions are taken back last in, first out.
LastInFirstOut ==
    \A i \in Installs : \A n \in Held(i) : \A m \in DOMAIN slots[i] : m < n => m \in Held(i)

\* A fiber with an open episode has its install's resource: nothing releases or
\* gives up a resource under an episode, and none starts without it.
InUseIsPrepared ==
    \A i \in Installs : fiber[i].episode # "none" /\ Prepared(i) => resource[i]

\* Resources, episodes, children and slots go in the reverse of the order they came in,
\* whichever commands take them down.
CleanupOrder == OwnerOutlivesChildren /\ ReleaseWhenIdle /\ LastInFirstOut /\ InUseIsPrepared

\* Nothing is alive in a closed scope, in the scopes below or in what its installs
\* own: no episode, pin or host effect, and no scope below it is open.
ClosedIsEmpty ==
    \A s \in Scopes : scope[s] = "closed" =>
        /\ \A c \in Scopes : ParentOf[c] = s => scope[c] \in {"none", "closed"}
        /\ \A i \in Closure(s) :
              /\ install[i] = "disposed" /\ fiber[i].episode = "none"
              /\ ~Pinned(i) /\ ~HostPending(i)

\* An install that began to be disposed is never in use again: its episode only
\* winds down, whatever its clients turn on meanwhile.
DisposeIsFinal ==
    [][\A i \in Installs : install[i] \in {"dispose_pending", "disposed"} =>
            /\ install'[i] \in {"dispose_pending", "disposed"}
            /\ fiber'[i].episode # "active"]_vars

\* No step takes back a dispose or ends one without proof.
DisposeSteps == ReleaseProved /\ DisposeIsFinal

\* The dispose of an install that its client repeats ends, whatever others do, unless a
\* consumer that nobody turns off holds a pin on the install or on what it owns, or an
\* inspection ended in doubt.
DisposeEnds ==
    \A i \in Installs :
        WF_vars(Dispose(i)) =>
            (install[i] = "dispose_pending")
                ~> \/ install[i] = "disposed"
                   \/ \E c \in Visited(i) : Pinned(c) \/ host[c].doubt

\* What a close has to wait for and cannot bring about.
Waits(s) ==
    \/ \E c \in Scopes : ParentOf[c] = s /\ scope[c] \notin {"none", "closed"}
    \/ \E p \in pins : p.to \in Closure(s) /\ p.by \notin Closure(s)
    \/ \E i \in Closure(s) : host[i].doubt

\* A close that is at its cascade and refused under every key: an install and one that it
\* owns both need a stage.  It goes on only if a client disposes of one of them by itself.
Jammed(s) == ClosePhase(s) = "cascade" /\ Overlap(s)

\* A close that its client repeats ends, although nobody else disposes of anything, unless
\* it has to wait or is jammed.
ScopeCloses ==
    \A s \in Scopes :
        WF_vars(Close(s)) =>
            (scope[s] \notin {"none", "open"}) ~> (scope[s] = "closed" \/ Waits(s) \/ Jammed(s))

\* A dispose or a close comes to an end if only its own client repeats it, or it is at
\* what is named: a pin of a consumer, a scope below, a doubt, a jam.
CleanupEnds == DisposeEnds /\ ScopeCloses

-----------------------------------------------------------------------------
(* The plane implements what Lending promises: a fiber serves while its episode is *)
(* active, leaves while it is retiring, and its pins are its loans.               *)

Stage(i) ==
    CASE install[i] = "none" -> "absent"
      [] install[i] = "disposed" -> "gone"
      [] Undisposed(i) /\ fiber[i].episode = "active" -> "serving"
      [] Undisposed(i) /\ fiber[i].episode = "retiring" -> "leaving"
      [] Undisposed(i) /\ fiber[i].episode = "none" -> "idle"

Lends == INSTANCE Lending WITH
    Members <- Installs,
    stage <- [i \in Installs |-> Stage(i)],
    loans <- {<<p.by, p.to>> : p \in pins}

\* Every step of the plane, the stages of a cascade over several installs included, is
\* a step of Lending: no provider stops under a consumer.
ImplementsLending == Lends!Spec

=============================================================================
