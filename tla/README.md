# pg-agent v24: specifications, model checking and proofs

This directory is a formal model of the core of pg-agent, generation 24 (`v24/`): the agent run
loop that lives in PostgreSQL, the plugin plane beside it, the hosts that execute effects, the
driver that visits scopes in turn, the session service that clients talk to, and Cordis, the second
lifecycle kernel (`v24/cordis/`) with its runs and the executor that makes their calls.
`PROJECT.json` maps every definition to the source lines it models and lists the runs, the
mutations that show each property can fail, the hazards, the findings and the theorems.

    tlc -workers 2 -config MCRunLoop_single.cfg MCRunLoop    # one run of the model checker
    tlapm RunLoopSafetyProof.tla                             # the proofs of one module

## 1. The system

pg-agent runs LLM agents with the database as the only source of truth. Generations v1-v23, v99
and the demos are self-contained predecessors on databases of their own; v24 uses none of them
but the HTTP transport, error classes and pricing of `v15/provider`, and this project is about
v24.

A *run* is an agent task inside a *scope*. Its work is a set of *effects*, rows that a host
claims, executes and settles. Business effects are `model_call` and `tool_call`; resource
effects (`host_prepare`, `host_release`, `inspect_resource`) serve the plugin plane. Everything
that changes state goes through one SQL function, `v24.advance`, which takes one advisory lock
for its whole transaction and calls an interpreter (which computes a delta) and an applier
(which checks the delta and writes it). So the kernel is sequential, but its *callers* are not:
users, several hosts and the sweep meet in any order, and between a claim and its settlement
anything may happen. In front of the kernel a session service keeps two files of its own.

### Inventory

| Component | State | Operations | What is hard | What makes it correct |
|---|---|---|---|---|
| Run loop (`48_loop.sql`) | `runs`, `effects`, `pins` | settle a model call (final, text, tools, question, spawn, failure, unknown), settle a tool call | late receipts after steer or cancel, the batch barrier, pin release inside the same delta, token refunds | one driver, no lost steer, exact ledgers, final seals |
| User commands (`40_interpreters.sql`) | the same rows | start, cancel, steer, respond | commands race claimed effects; decisions read rows before the delta | nothing superseded is published, nothing is stranded |
| Claims and leases (`30_advance.sql`) | claim columns of `effects` | claim, lease expiry | an expired business claim may not be handed out again | at most one execution |
| Recovery sweep (`49_recovery.sql`) | claimed effects with an expired lease | settle unknown, or put a resource back to ready | several effects of a run in one sweep, cancel races | the unknown wall, the kept seal |
| Child runs (`48_loop.sql`) | `parent_run_id`, `spawn_key`, grants | spawn, same-key replay | repeated intents, budget transfer | one child per key, ledgers over the tree |
| Host worker and journal (`host/worker.py`, `host/journal.py`) | write-ahead journal, the round's program counter | reconcile, resume, isolate, sweep, discover, claim, execute, settle | crashes between any two durable steps, other hosts, expired leases, refused or lost settlements | no repeated call, no false journal entry, debts end |
| Multi-scope driver (`_fair_*`, `run_scopes_until_idle`) | roster, cursors, streaks, verdicts | visit scopes in turn, at most one claim per visit | starvation, debts of several scopes, exceptions between visits | bounded overtaking, a true idle verdict |
| Plugin plane (`45`-`47`, parts of `40`) | scopes, installs, fibers, episodes, slots, plugin pins, host effects | child scope, install, on/off/retry, dispose, scope close | owner and dependency order of releases, the close barrier, stages cut into keys | nothing released while used, closing ends |
| Session (`session/`) | `sessions.json`, `turns.jsonl` | start, steer, respond, cancel, recover | two files, lost kernel answers, failing writes, crashes | an answer is durable and never changes |
| Admission (`30_advance.sql`) | `requests` | first write, replay, conflict | lost answers | a request key is applied once |
| Cordis lifecycle (`cordis/sql/41`, `42`, `dp6/driver.py`) | installs, fibers, episodes, contributions, pins, reconcile slots | install, on/off/retry, ensure, advance, dispose, scanner | two-phase release, a slot that is coalesced with a new target, no notification | nothing released while used, the scanner converges |
| Cordis runs and executor (`cordis/sql/43`, `40`, `dp6/driver.py`) | runs, external effects, request source, receipt journal | run_start, settlement of model and tool calls, claim, passes of the executor | crashes around the handler, lost answers, expired claims, a request that is replaced | each step paid once, no call repeated while its receipt is kept, runs end |
| Cordis events (`cordis/sql/44`) | dispatches, listener calls | dispatch, chain | order of listeners | - |
| Schema, triggers, permissions | constraints | - | - | no write outside `advance` |
| Host reads, adapters, renderers, UI | none of their own, or presentation | read, format, call HTTP | formats | - |

The components interact through rows and through the claim token (attempt, fence, owner): a
settlement names its token and the kernel compares it with the row. The session reaches the
kernel through request keys it derives from the client's keys.

## 2. Modules

| Module | Contents |
|---|---|
| `RunLoop`, `MCRunLoop` | the run loop, the user commands, claims, sweep and child runs |
| `RunLoopSafetyProof` | types, the inductive invariant `LoopInvariant` and its parts |
| `RunLoopLifeProof` | seals, spawned runs, batches and generations, the refinement of `EffectLife`, work in flight, pins, the ledgers |
| `HostWorker`, `MCHostWorker` | `run_once`, the journal, crashes, several hosts |
| `HostWorkerProof` | its safety theorems and its refinement of `EffectLife` |
| `FairDriver`, `MCFairDriver` | the multi-scope driver over the same journal and effects |
| `FairDriverProof` | the idle verdict, the two bounds on overtaking, claims once per invocation |
| `Session`, `MCSession` | the session service, its two files, crashes, failing writes, lost answers |
| `SessionProof` | its four promises as theorems |
| `Plane`, `MCPlane` | scopes, installs, fibers, episodes, slots, pins and host effects |
| `PlaneProof` | its safety theorems, `DisposeSteps` and its refinement of `Lending` |
| `Cordis`, `MCCordis` | installs, fibers, episodes, contributions, pins, reconcile slots, the scanner |
| `CordisProof` | `Lifecycle` as a theorem |
| `CordisCalls`, `MCCordisCalls` | a run of Cordis, its request source, the executors and their journals |
| `CordisCallsProof` | `CallsSafe` and `ReceiptKept` as theorems |
| `EffectLife` | abstract: the life of an effect, for whoever works on it |
| `Lending` | abstract: what installs that use one another may rely on |

`EffectLife` is implemented twice. `RunLoop` maps each business effect to its status with
`Repeatable = {}`; `HostWorker` maps what the kernel shows of an effect with
`Repeatable = Resources`. So the kernel and its hosts are held to the same promise: handed out to
one worker at a time, never withdrawn once handed out, a final outcome, and a second claim only
where the call may be repeated. `Lending` is implemented by `Plane`: an install's *stage* is
`absent`, `idle`, `serving`, `leaving` or `gone`, a pin is a *loan*. All three refinements are
model-checked and proved.

### RunLoop

State: `runs` (a record per row of `v24.runs`, `status = "none"` before it exists), `effects`
(a record per business effect) and `pins` (keys of the run pins not yet released). An effect is
named `<<run, n, i>>`: the n-th model call of the run for i = 0, its i-th tool otherwise. The
code's deterministic ids (`md5(parent:...)`) do the same job.

Each action is one transaction of `v24.advance`: interpreter, validator and applier together. A
call that ends in an error changes nothing and is a disabled action. Commands that carry an
expected generation or interaction id are accepted only with the current one, which is checked
under the lock, so the model's commands take the current one.

- Commands: `Start`; `Cancel`; `SteerDeferred` (something is claimed: the steer waits),
  `SteerAdmitted`, `SteerExhausted`; `RespondAdmitted`, `RespondExhausted`.
- Workers: `Claim`, `ExpireLease`; settlements of a model call by what its receipt says
  (`SettleModelUnknown`, `...CancelLate`, `...Late`, `...Failure`, `...Final`,
  `...Interaction`, `...Tools`, `...Text`, `SpawnChild`, `SpawnReplay`) and of a tool call
  (`SettleToolUnknown`, `...Open`, `...Late`, `...Closing`). `ConsumeSteer` and `CloseRun` are
  the tails several of them share.
- `Sweep` takes a set of expired claims and settles them in one delta (`Recover`), all
  projections computed from the state before the sweep, as in the code.

Budgets are numbers with the code's arithmetic: `Refund` clamps, `Unlimited` is a NULL balance,
a model call reserves at most `ReserveCap`. `charge` and `granted` record what the ledgers need:
the usage charged and the budget a run began with. Transcript events, request bodies, digests
and result texts are left out: no property tells them apart. The wall-time budget after a
settlement is any value not above the balance, because the elapsed time is an input.
The unique index on live model calls is not a guard of the commands: `OneDriver` shows that it
is never what stops one. The settlements' own check (`NoOtherModel`) is kept.

### HostWorker

State: `db` (what `host_effect` shows of an effect: status, fence, whether the lease is live,
outcome), `sent` (external calls made, by effect and fence; a history variable), `journal` (per
host and effect, the last record of each event type), `pc`, `task`, `todo` (the host's position
in `run_once`; lost in a crash) and `crashes`.

A step is one database call, one journal append or the external call; an append that follows a
read and depends on nothing else is one step with it, since nobody else reads the journal. The
order is the code's: `Reconcile` each pending settlement (`Resubmit` then `Rerecord`), resume
prepared effects that were never started, isolate the host while an orphan dispatch is inside
its lease, sweep if a claim has expired, discover, `Claim`, `Reread`, `Prepare`, `Start`,
`Send`, `Finish`, `Settle`, `Record`. `_execute_model`, `_execute_tool` and `_execute_resource`
write the same records in the same order and share these actions; the outcomes that need no
I/O (`_no_http_*`) are `PrepareWithoutIO`. `Crash` may happen in any of these places.

Abstractions, each of which allows more than the code or exactly the same:

- All hosts use one login, so `claim_owner` is equal and a token is its fence (attempt and fence
  advance together).
- `settled` stands for succeeded, failed and unknown. An outcome is a class and a fence.
- The kernel may refuse any receipt (`SettleRefused`, `ResubmitRefused` have no guard), because
  the run-loop checks that could refuse it are RunLoop's subject.
- The sweep puts any set of expired resources back to ready and settles the rest: the choice
  depends on install states. It takes all expired claims (the code takes 16 at a time).
- The orphan test reads several rows; they are read in one step.
- A read that fails is not modelled apart from a crash.

### FairDriver

`run_scopes_until_idle` is one process over a fixed roster. State: `db`, `queue` (effects by
creation), `journal`, `order` (effects by their first journal record), `mem` (cursors, streaks,
anchors: what survives an exception but not a crash), `call` (one invocation), `visit` (one
visit) and `pc`. `Begin` opens an invocation with any roster and prunes the memory;
`StartVisit` takes the next scope after the cursor; the visit then does what the code does in
its order: `Reconcile`, orphans, resume one prepared effect, scan, sweep, discover, `Claim`,
`Execute`, `CloseVisit`. What is resumed is the first of the `Candidates` by `Rank`, their place behind
the anchor of the last look, that can be (`Resume`, `NothingResumed`); `Stop` and `BudgetExhausted` return a
verdict. A rival host claims,
settles and sweeps; effects arrive and are withdrawn; any step may raise (`Raise`) or the
process may die (`Crash`).

`HostWorker` already has the durable steps of an execution one by one. Here an execution is one
step, and a crash or an exception inside it leaves any prefix of its records (`BrokenOff`), which is the
same set of journals; in fair mode an exception of a handler leaves the invocation with those records on
disk and the memory as it was.
`burst` and `lag` are history variables: host opportunities in a row while business work
waited, and how often a scope was passed over.

### Session

State: `mem` and `disk` (rows and turns in memory and in `sessions.json`, `turns.jsonl`),
`runs` and `applied` (the kernel: run status by run key, request keys it accepted), `job` (the
verb in progress), `said` (answers given), `count`. One verb runs at a time, because the driver
owns one serial domain; it is several steps, because it saves an intent, calls the kernel and
saves the result.

- Verbs: `BeginStart`, `SteerNewRun`, `SteerActive`, `SteerRejected`, `BeginRespond`, `BeginCancel`;
  a repeated key is `ReplayStart` or `ReplayCommand`.
- Kernel calls: `CallStart`, `CallSteer`, `CallRespond`, `CallCancel`, whose answer may be lost;
  `CallFails` where the call never arrived, `CallRefused` where the run has moved on.
- Saves: `WriteTurns` and then `WriteRows`, the two files in the order of the code, once the kernel
  started the run (stage "bind") or took the message (stage "turn"); `Freeze` and `Settle` where there is
  no turn to record; `ReceiptMissing` where the row has lost its receipt. Each write may fail, and what
  it was to write stays in memory.
- `Crash` reloads the files, `Recover` is `recover()`, `RunMoves` is a run that goes on by itself.

The receipts of a row are a window: `Pruned` keeps what is not completed and the `Newest`
`MaxReceipts` of what is. `MaxTurns` is the code's 200 (`_bound_turns`).

A run is named by the key it was started under, and `applied` holds the request keys the kernel
accepted: a repeated request key is answered as before and not applied again, which is the
client's side of the kernel's admission. A key is always repeated with the same payload.

### Plane

State: `scope` (its close phase), `install`, `ownerEp`, `fiber` (want, failed, dispose, epoch,
episode), `slots`, `pins`, `host` (prepare, release, inspect effects), `resource` (outside: does
the plugin's resource exist) and `faults`. Commands are `CreateChild`, `Install`,
`FiberControl` with `on`, `off`, `retry`, `Dispose` and `Close`; the last two advance one stage
per request key (`StageRow`, `ClosePhase`), as in `46_cleanup.sql`. Hosts `Claim`, `Execute`,
lose their claim (`Recover`) and settle (`PrepareSucceeds`, ..., `InspectUnknown`). `Execute` is
apart from the settlement because the plugin acts outside before its receipt arrives, or
without one. An install is prepared by its host if its manifest provides a key or carries an artifact
(`Artifacts`, `Prepared`).

A command computes every row of its delta from the committed state and writes them together
(`Write`). An install has one fiber and a fiber at most one open episode, so all rows of an
install are functions of the install. Left out: pages of a stage (more than 5 slots, 8 pins or
16 rows), routes (one realm), the `control_seq` comparison (a command that applies carries the
current one), authorisation, and run pins with the close intent a drain writes on runs, which
are `RunLoop`'s.

### Cordis

State: `install`, `fiber` (target, control sequence, retire and dispose marks, last failure, the
owner's episode), `episode` (the last episode of each fiber), `contribs` (services and children
not released), `pins` (not released) and `slot` (the open `command_reconcile` effect, a set, so
that "at most one" is shown and not assumed). Every command of the kernel runs under one advisory
lock, so each action is one committed command: `Install`, `On`, `Off`, `OffAgain`, `Retry`,
`Dispose` of users; the branches of an advance, `Nothing`, `Begin` (p1), `Register` (p2),
`Activate` (p4), `Leave`, `Divert`, `Raise`, and of p6 `Release`, `ReleasePins`, `Close`; `Ensure`;
and the progress of a dispose, `RequestFiber`, `ScheduleFiber`, `FinishFiber`, `FinishInstall`. A
command that is refused, deferred or blocked writes nothing and is a disabled action.

`Live` is `fiber_live_state`: an episode is live if it and everything it depends on, through pins
and owners, is; `NodeLive` is the check of one node. `Successor` writes the slot with the rows as
they will be, which is what the applier binds it to. `Chain` is the owners of a fiber as the smallest closed
set,
what the recursive query of `fiber_chain` returns; `Owners` of `Plane` is written the same way. Users send
the expected sequence they read;
a stale one is refused, so the commands take the current one. A key stands for a realm and a key.
The scanner is not a process of the model: any of its commands may come at any time, which its
passes refine.

### CordisCalls

State: `contracts` (which calls may be repeated and made concurrently, chosen once), `effects`
(`run_start` and the calls of one run, numbered as they are emitted: kind, status, fence, whether the
lease runs, the batch, the outcome), `run` (phase and remaining steps), `owner` (the episode),
`source` (the request in the inbox, in the unfinished file of each executor and in the binding), and per
executor `journal` (the
receipts on disk) and `host` (its pass: receipts to replay, effects it has seen, rows of its page, where it
is in the source, the call it is at). `faults` bounds what goes wrong.

The kernel's side is operators on `effects` and `run`: `SettleStart`, `SettleModel`, `SettleTool` are
`run_delta` with `reduce_chat_tool`, `Reply` is what `advance` answers to a receipt, `Claimable` its
checks of a claim. `ReadPage`, `Resolve`, `Skip`, `Claim`, `Reread`, `Answer`, `SettleWork` are the
executor's `handle`, `Replay` is `reconcile_journal`. `Publish` is one call of `advance` whose answer may be lost
before or after it is committed; `Crash` may come between any two steps.

The source has no lock, so `Resolve` is six steps that those of another executor and of whoever fills
the inbox may follow in any order: `LookUp` of the bindings, `ReadInbox`, `TestBinding` (`path.exists`),
`WriteBinding` (the complete file beside its place), `MoveBinding` (`os.replace`, over what is there by
now) and `Unlink` of the inbox, whatever it holds by now. The name of the unfinished file ends in `.json`
too, so that a look-up takes it for a binding. `Reread` is the second look-up, after the claim.

A call that returns a receipt and the write of the receipt are one step (`Answer`), since a crash
between them is a call without an answer (`NoAnswer`); a settlement and the removal of the receipt
are one step, since a crash between them is a lost answer. The pages of external and of expired
effects are one page, read in one step, and so are the files of a look-up. Each executor has a journal of
its own; the request source is shared. `Leaving` bounds the teams while which the owner may leave. Left
out: `dispatch`, `listener_call` and `host_io`, corrupt files, several inbox files of one run_start,
direct provision of a binding (`provision`), missing credentials, and refusals for a dependency, which the pins of the run exclude (`Cordis` has their
release). The owner may leave at any time, and is closed when its calls and its run are over.

## 3. Runs

| Run | Instance | Distinct states | Shows |
|---|---|---|---|
| `single` | one run, two keys, batches of two, three model calls, three generations, budgets bounded, unlimited and zero; fairness | 104 997 | the invariants, seals and liveness of the loop, and that it implements `EffectLife` |
| `spawn` | a root, two children, one spawn key, one tool per batch | 395 563 | `SpawnRules` |
| `stranded` | as `single` | - | finding 1 |
| `hosts` | two hosts, one business and one resource effect, two claims per effect, two crashes | 3 503 759 | `DispatchedOnce`, `ReceiptDiscipline`, `ImplementsLife` |
| `hosts_live` | the same with one claim per effect, one receipt class; fairness | 205 951 | `WorkEnds` |
| `driver_idle` | two scopes under any roster, two visits, a rival host, one fault | 6 125 510 | `VisitsSound`, `IdleIsTrue`, `ScopeTurn` |
| `driver_burst` | one scope, a host slot that never runs dry, an effect the kernel always refuses; fairness | 558 087 | `HostBurst`, `EffectServed` |
| `session_commands` | two sessions, two keys, three commands, a window of two receipts, two turns, a crash, a failing write | 322 578 | the session's promises to its clients |
| `plane_market` | two rival providers and a consumer in a child scope, no faults | 589 644 | `SlotsHold`, `ClosedIsEmpty`, `ImplementsLending` |
| `plane_family` | an owner with two slots and the install it owns, two faults; fairness of the hosts | 93 678 | `CleanupOrder`, `DisposeSteps`, `CleanupEnds` |
| `cordis_scan` | a root with a provider and its consumer, which owns a rival of the provider; one to three changes of each target, two installs may be disposed of; fairness | 64 242 | `Lifecycle`, `Converges` |
| `cordis_calls` | a run of one or three steps, batches of two, one executor with three faults or two with one; fairness | 755 936 | `CallsSafe`, `ReceiptKept`, `RunEnds` |

**Bounds.** Constants named `Max...` and `Burst` bound counters; every other constant is a set of
inputs.

- RunLoop: three model calls are enough for a call, its continuation and a call of a later
  generation; three generations for a steer that supersedes a steer; batches of two for a sibling
  still open when one settles; usages above and below the reserve for both sides of the refund.
  Two children with one spawn key give replay and two parents' worth of grants.
- HostWorker: two claims of an effect give a takeover, two crashes let both sides of it fail.
- FairDriver, idle: two scopes and two visits make an invocation that stops in the middle of a
  pass; a second claim after a rival's; one exception or crash at any step. Burst: `Burst` is the
  code's three. The poison effect is refused by the kernel every time, the recurring host effect
  comes back as soon as it is closed; neither may keep the third effect from being served.
- Session: three commands against a window of two receipts, so that a receipt is pruned while its
  key can still be repeated; two keys and two sessions give a key used for another session; `MaxTurns = 2`
  is below the turns three
  commands can record.
- Plane: one episode and one reopening per fiber (`MaxEpochs`). `market` has two providers of one
  key and lets only the consumer's fiber fail (`UserFails`); the providers are symmetric.
  `family` has an owner with two slots and an install it owns, which provides nothing and is prepared for
  its artifact; two faults are a lost claim and
  an unknown outcome in any order. Both leave a close to run through every stage.
- Cordis: `Batch = 1` (32 in the code) cuts registration and release into several deltas, two
  services of the provider and one of the rival's make a conflict, and three changes of its target
  turn the provider off and on again while its consumer is still draining.
- CordisCalls: three steps pay for a model call, a batch of two and nothing more, or for a model call,
  one tool and another model call; one step seals at once. Three faults of one executor are a lost
  answer, a crash and another lost answer; two executors need one fault to overlap on one effect. The
  owner leaves only while one executor runs (`Leaving`): it decides how a `run_start` settles and when the
  episode closes, and neither step depends on who the executor is. Two requests are enough for a second
  one that arrives between the steps of a binding.

Deadlock checking is off for RunLoop, Session, Plane, Cordis and CordisCalls, where a finished run, a
spent command budget, a disposed install and an absent request really stop; it is on for HostWorker and
FairDriver, which poll for
ever.

**Fairness.** RunLoop: a lease runs out because time passes; ready effects are claimed and expired
claims swept because the host polls (`run_once`, `_discover_ready`, `_recover`). None for users
and none for settlement, since a worker may die holding its claim. HostWorker: `run_until_idle` is
called in a loop, a crashed host is started again, leases run out; crashes are finite. FairDriver:
the driver makes its next step, and leases run out; none for the rival, for arrivals or faults.
Plane: hosts claim, execute and settle, and nothing else. Weak fairness of the answers alone is enough,
because faults are bounded. That a client repeats a dispose or a close is not an assumption of the
specification but a hypothesis of the property about that one command: `DisposeEnds` says that a dispose
ends if this dispose is repeated, `ScopeCloses` that a close ends if this close is, and neither supposes
that anybody disposes of the installs of a closing scope. Nobody is obliged to turn a fiber off, so both
name what they may wait for.
Cordis: a pass of the scanner advances every slot, ensures every fiber and repeats every dispose
(assumption E1, `docs/designs/cordis-plugin-system-2026-10-25.md:417`; `dp6/driver.py:1018`); none
for users. One weak condition is enough: as long as some command of a pass is possible, one is made.
CordisCalls: an executor that crashed is started again and keeps making passes, and the lease of a
claim that nobody works on runs out; none for requests, for owners or for the end of a lease under a
working handler.

**Properties of the loop.** `OneDriver`: live effects of a run are tools of one batch.
`SteerNotLost`: a deferred steer has a claimed older effect left to consume it. `CurrentGeneration`
and `InheritsGeneration`: nothing of a superseded generation is claimable or publishes successors.
`QuietSeal`: a closed run has nothing live, a cancelled one only revoked claims. `UnknownWall`,
`NoFrozenClose`, `PinsCoverTools`, `PinsDrain`, `BatchRules` (the batch barrier and
`InheritsGeneration`), `Ledgers` (`TokenLedger` and `CountLedger`), `WorkInFlight`, `SpawnRules`
(`SpawnIdentity` and the ledgers), `SealIsFinal`, `SealPublishesNothing` are stated beside their
definitions. `LoopSettles` is
`EffectsSettle` (what is ready or claimed does not stay so) and `SteerResolved`.

**Properties of the hosts.** `DispatchedOnce`: an external call is made at most once per claim, and
at most once at all for a business effect. `ReceiptDiscipline`: `JournalTruth` (what a journal calls
committed is what the database holds, for ever), `ReceiptFenced` (a receipt belongs to the claim it
settles) and `BusinessReceiptKept` (the receipt of a business call stays a debt while its claim is
open). `WorkEnds`: every business effect is closed
(`BusinessSettles`) and every debt ends (`DebtsCleared`).
`VisitsSound` is `TypeOK` and `NoDuplicateClaim`: the guard that raises "duplicate physical claim" is
never met. `IdleIsTrue`:
the verdict `idle` is true of everything that was open when the last pass began. `HostBurst`,
`ScopeTurn`: the two bounds on overtaking, across invocations, rosters and exceptions.
`EffectServed`: a ready effect is claimed or closed, whatever else keeps arriving or failing.

**Properties of the session.** `AnswersAgree`: a repeated key is not told something
else; `CommandsDurable`: what was answered as committed is in both files, and a command cut short
has left its intent; `CountedOnce`: a start key makes one run, and the rows count no run and no
turn twice. Where a condition
stands in front (no failing write yet, no receipt pruned yet) the code gives no guarantee beyond
it: see section 4.

**Properties of the plane.** `SlotsHold`: a provider outlives its pins, and a key is served by one
slot at a time. `CleanupOrder`: children go before owners, releases after everything that used the
install, contributions last in, first out, and no episode is open without its resource.
`ClosedIsEmpty`. `DisposeSteps`: no step takes a dispose back or ends one without proof.
`CleanupEnds`: a dispose that is repeated ends or waits for something named (`Waits`), and so does a
repeated close, except that its cascade may be refused for ever for an owner and its child (`Jammed`),
which the s5 README does not say: see section 4.

**Properties of Cordis.** `Lifecycle` is `TypeOK`, `TeardownOrder` (what a pin holds is not released, a close
leaks nothing, a child's owner stays open under it, an address is served once also while an older
provider drains) and `SuccessorKept` (an episode that activates or has given something back keeps
its slot, since `ensure` treats a missing one as a fault). `Converges`: once commands stop, every
fiber reaches its target and every dispose ends, or the property names what it waits for
(`WaitsForChild`, `Wedged`; see section 4). `CallsSafe` is `TypeOK`, `RunLedger` (each settlement is
applied once, whoever offers its receipt and however often, and a run has exactly the work of its
phase), `ReceiptOnce` (no call is made again by an executor that keeps a receipt of it, a second
claim only where the contract allows it) and `OneRequest` (while one executor runs, a claimed `run_start`
has one binding, and its calls, receipts and outcome carry the request of it; not so for two, see
section 4). `ReceiptKept`: a
receipt leaves a journal only when it cannot be needed. `RunEnds`: the run is refused or ends, or is
`Stuck` for a reason the code leaves to an operator.

## 4. Findings

1. `stranded`: a steer of a *waiting* run whose budget is spent neither admits a call nor seals.
   `interpret_steer` asks `loop_sealable` with `p_from_waiting = false`; the run stays `running`
   with no effect. The S4 plan says this must not happen.

`PROJECT.json` quotes the lines. `WorkInFlight` states what does hold beside it.

**Observed divergences, read in the code while modelling it and not the subject of a run.** The
models do what the code does in each of them.

- Plane: the cascade of a scope close computes the stage of every install of the closure from the
  committed rows. The stage of an owner covers what it owns, so an owner and its child in the same
  closure report the same step twice, and the delta is refused as `invalid_outcome`
  (`40_interpreters.sql:604`), for this key and for every later one, although "a new key re-enters the
  earliest incomplete phase" (`s5/README.md:51`). The scope can never close by itself; disposing the
  installs one by one first avoids it. `CleanupEnds` therefore excepts `Jammed` by name. Without that
  disjunct TLC finds, on the instance of `plane_family` and with no fault, a close that is repeated for
  ever and refused every time (`ScopeCloses`).
- Plane: a host dies after the plugin prepared a resource; the sweep puts the effect back to ready;
  the second attempt fails before it calls the plugin; the install becomes `prepare_failed` and is
  tombstoned without a release, although `46_cleanup.sql:1256` says nothing was prepared.
- Plane: an `inspect_resource` that settles unknown is itself an unknown effect without
  `resource_quiesced_at`, which counts as an obligation for every later stage
  (`46_cleanup.sql:1217`). The s5 README's "new key emits another inspect" happens (`:41`), but what
  that inspect finds is refused. `CleanupEnds` names it.
- Cordis: an install that is disposed of while a fiber is turned on and has not begun is stuck. The
  advance of its slot is refused (`install_not_ready`, `owner_closing`: `42_teardown.sql:648`), the
  dispose waits for the slot (`wait_slot`, `:950`), and `off` is refused too. The design promises
  no deadlock (`docs/designs/cordis-plugin-system-2026-10-25.md:581`); `Wedged` names the case in
  `Converges`. A consumer that closes with a child nobody disposed of keeps its pins, and so the
  close or dispose of its provider, for as long (`WaitsForChild`).
- Cordis: two executors that share a request source can start a run with another request than the one a
  receipt was made for, although the binding fixes the request "before any consumption"
  (`dp6/driver.py:281-284`) and the "inbox is consumed once" (`dp6/README.md:38`). Without `Team = {h}` in
  `OneRequest`, TLC finds it on the instance of `cordis_calls`, with one fault: both executors look, find no
  binding and read the inbox, a second request being put there between the two reads; both see that the
  place is free (`driver.py:340`); the first moves its binding there, claims, reads it again, calls the
  handler and journals a success with its request; the second replaces the binding (`os.replace`, `:106`),
  the lease of the first claim runs out, the second claims, and its receipt with the other request is the
  one that settles. The DP6 README claims no multi-host correctness (`dp6/README.md:11`, `:621`), so
  this is a limit of the deployment; one executor is not affected, whatever it crashes at (`OneRequest`).
- Cordis: the unfinished file of a binding is named `.tmp-*.json` (`driver.py:99`) and a look-up reads
  `*.json` (`:378`), which with `Path.glob` matches it too. After a crash between the two halves one
  executor takes it for the binding, which is right by luck; if another executor puts a binding beside
  it, every later look-up finds two and the `run_start` is not served any more (`Twice` in `Stuck`).
- Cordis: a handler that answers a `run_start` with a failure of another shape than `{v, error}` is
  journaled (`driver.py:566`) and refused by the kernel as `invalid_outcome` (`43_loop.sql:512`) each time
  it is offered, so that the receipt is retained for ever (`Stuck` names it).
- Loop: cancelling a run does not reach its children (design `v24-pg-agent:247`,
  `40_interpreters.sql:2468`). A sealing steer keeps the pins of ready tools it archives in the same
  delta (`s4/README.md:23`, `40_interpreters.sql:2595`; `PinsDrain` says what holds). A deferred
  steer does not mark claimed effects `cancel_requested` (design `:253`, `40_interpreters.sql:2534`).
- Journal: `pending_settlements` is keyed by effect, so the outcome of a later attempt of a resource
  effect is never pending after a conflict about an earlier one (`journal.py:291`,
  `worker.py:1283`). Business effects have one claim and are not affected (`BusinessReceiptKept`).
- Session: the two files are not written together although `complete_start` says so; the steer's
  variant is not fixed when a retry finds another run status; a retry after a crash of steer or
  respond can raise `receipt_missing`; cancelling a starting session leaves its kernel run;
  replaying a cancel on a closed session is answered `session_closed`; a pruned start receipt is
  answered `deferred`; `recover()` skips deferred intents and asks no `host_request`; `respond`
  stores a lost answer as rejected; a failing flush leaves the memory ahead of the file.
- Driver: `blocked_no_progress` may be returned with ready effects that the invocation did not
  attempt; cursors and streaks live in memory and a crash forgets them (`worker.py:125`), so
  `HostBurst` and `ScopeTurn` are about one process.

## 5. Proofs

The theorems hold for every value of the constants that the `ASSUME`s of the modules allow: any
runs, hosts, effects, installs, scopes and executors, any bound.

| Module | Theorem | Property |
|---|---|---|
| `RunLoopSafetyProof` | `TypeCorrect`, `LoopSafe` | `TypeOK`, `LoopInvariant` |
| | `OneDriverAlways`, `SteerNeverLost`, `UnknownWallAlways` | its parts |
| `RunLoopLifeProof` | `SealsAreFinal`, `SealsPublishNothing` | `SealIsFinal`, `SealPublishesNothing` |
| | `KinshipHolds`, `SpawnsAreUnique` | `SpawnIdentity`, one half of `SpawnRules` |
| | `LineageHolds`, `BatchesInOrder` | `BatchRules` |
| | `LoopImplementsLife` | `ImplementsLife` of `RunLoop` |
| | `TidyHolds`, `SomebodyWorks`, `PinsAreReturned` | `WorkInFlight`, `PinsDrain` |
| | `AccountsHold`, `AccountsBalance`, `SpawnsArePaid` | `Ledgers`, `SpawnRules` |
| `HostWorkerProof` | `HostSafe`, `HostTypeCorrect` | `TypeOK` |
| | `CallsAtMostOnce`, `ReceiptsAreTrue` | `DispatchedOnce`, `ReceiptDiscipline` |
| | `HostsImplementLife` | `ImplementsLife` of `HostWorker` |
| `PlaneProof` | `PlaneSafe`, `PlaneTypeCorrect` | `TypeOK` |
| | `ProvidersStay`, `CleanedInOrder`, `ClosedScopesEmpty` | `SlotsHold`, `CleanupOrder`, `ClosedIsEmpty` |
| | `DisposesStand` | `DisposeSteps` |
| | `PlaneImplementsLending` | `ImplementsLending` |
| `FairDriverProof` | `DriverSafe`, `IdleMeansDone` | `IdleIsTrue` |
| | `BurstIsBounded`, `ScopesTakeTurns` | `HostBurst`, `ScopeTurn` |
| | `VisitsAreSound` | `VisitsSound` |
| `SessionProof` | `SessionInvariant`, `SessionTypes` | `TypeOK` |
| | `SessionAnswers`, `SessionDurable`, `SessionCountedOnce` | `AnswersAgree`, `CommandsDurable`, `CountedOnce` |
| `CordisProof` | `CordisSafe`, `KernelLifecycle` | `Lifecycle` |
| `CordisCallsProof` | `RunsSafe`, `CallsAreSafe` | `CallsSafe` |
| | `ReceiptsAreKept` | `ReceiptKept` |

**Assumptions.** `RunLoop`: identities are distinct from NULL, bounds are naturals (`ReserveCap`,
`SweepLimit` and `MaxModels` positive), budgets are what the admission checks let through.
`HostWorker`: effect ids are ordered (naturals stand for the order of discovery), business and
resource effects are disjoint. `Plane`: parents and owners are scopes and installs or nobody, an
install provides at most five slots (what one stage withdraws; longer manifests are paged, section 6)
and the keys of one manifest differ, which the code checks (`40_interpreters.sql:2971`). Nothing is
assumed about ownership being acyclic: `Owners` is the smallest closed set, whatever the tree.
`Artifacts` is any set of installs. `FairDriver`: scopes are finite and ordered, a roster is not empty. `Cordis`: one root, manifests are
sequences of keys, ranks (creation order) differ. `CordisCalls`: requests ask for a positive number of
steps from a finite set, a team of executors is not empty. `Session`: the window has room for two
receipts and a session for one turn, the other bounds are naturals.

### The run loop

No part of `LoopInvariant` is inductive alone. That a settling tool
is in the run's generation or late needs `CurrentGeneration`; that needs `SteerNotLost` for runs
with a steer pending; a steer is consumed by the last old settlement, and that it is the last
needs `OneDriver`; `OneDriver` survives a fan-out because fresh effects are numbered above all
others (`Numbered`); the sweep may wall a run off because `QuietSeal` says a completed run has
no claim left; `UnknownWall` and `PinsCoverTools` follow the same steps.

`RunOK(r)` is the part of the invariant about one run. `InvariantByRun` splits
the invariant into `TypeOK` and `RunOK` of every run; `FrameOK` says a step that leaves a run's
rows alone keeps its `RunOK`. So each action is argued for the run it touches, with one lemma
per kind of outcome: the run continues (`ContinuedOK`), rests (`RestingOK`), closes
(`CloseRunOK`), consumes a steer (`ConsumeSteerOK`), stores a late fact (`FactOK`), is walled
off (`WallOK`, `UnknownOK`), fans out (`FanOutOK`), spawns (`NewRunOK`), is cancelled, steered or
answered (`CancelOK`, `SteerDeferredOK`, `SteerOK`, `RespondOK`) or swept (`SweepOK`). What the
state before a settlement looks like is in `ModelAlone`, `ToolAlone`, `ConsumerAlone` and
`OtherClaim`. The seal theorems use `LoopInvariant` for the state before the step: the sweep
keeps a seal only because `QuietSeal` holds.

The later theorems each add a little to `LoopInvariant`. `Kinship`: what a run may still spend is
within its grant, so the grant it can give a child is within its own; a steps grant may be equal to
the parent's, because the child's first model call is admitted without being counted. `Lineage`: no
absent row has an origin, with `BatchRules`. For it every action is first reduced to what it may do to
effect rows (`Progress`: a row rests, or is published as a tool of a batch, as the continuation of a
call or afresh), and both `BatchRules` and
the refinement of `EffectLife` follow from `Progress` without looking at the actions again. `Tidy(r)`
is `WorkInFlight` and `PinsDrain` of one run; it holds after a step because every branch either keeps
or queues an effect, runs out of budget, or releases exactly the pins its release set computes.

`Accounts` is the books of every run: `Balanced(run, rows, r, given)` says that what a run was granted is
what it has left, plus what its effects cost or still reserve, plus what its children were given. It is
stated for the rows a step is about to write, so that there is one lemma per way money moves:
`BalancedSettled` (a trusted receipt makes the refund exact), `BalancedAdmitted`, `BalancedArchived`,
`BalancedBatch`, `BalancedGrant`, `BalancedBirth`. Sums need no induction because `Total` counts the
units of its summands, a set (`Units`), and `TotalSplit`, `TotalChange` and `TotalJoin` are facts about
cardinalities. The ledgers alone are not inductive. A live model call of a bounded run reserves at
least one token (only then is its usage checked against the reserve, so that `Refund` does not clamp); a
ready row has no charge; an absent run has no grant; the children of all runs are finitely many. The proof
also needs
`Kinship` (a run that does not exist is nobody's parent, so the grant of a birth is counted once) and
`Lineage` (the rows of a batch are new, so that publishing them adds their cost to the sum).

### The hosts

`HostInvariant` relates four views of an effect: the kernel's row, the calls made (`RowOK`), each
journal (`EntryOK`) and the position of each host (`HostOK`). What makes it inductive is `OneHolder`:
at most one host holds a fence, either in its journal or in hand before the journal is written. A host
that resumes a prepared effect may send it because nobody else can have; without `OneHolder` two
hosts could. The actions are of three kinds: those that change nothing shared (`LocalSafe`,
`VerdictSafe`), those that write a journal (`JournalSafe`) and those that move a row (`SettlingSafe`,
`ClaimSafe`, `SweepSafe`, `SendSafe`); `RowMovesSafe` is why the other hosts survive the last kind.
`ImplementsLife` needs the invariant for business effects only: a second claim is excluded because a
business row with a fence is never ready.

`DriverInvariant` relates the histories to what the process remembers (`Turns`: `burst` is below the
streak, `lag` is at most the scopes the cursor has passed) and says what a pass has established
(`PassOK`: everything that was open at its start in a scope visited without pending work is closed;
`VisitOK`: a visit that has discovered holds all of its scope). The bound of `ScopeTurn` is the
cardinality of the scopes passed, which never include the scope itself. `VisitsSound` needs `Books` (the
queue lists the effects that have a row once each, `order` those with a record) and `Places` (where the
invocation
and the visit are, with `NoDuplicateClaim`): an effect found by a discovery or resumed as ready is
not among those attempted, and nothing joins them before the claim.

### The session

`Inv` is about memory and files alike. `RowsOK`: what the state, the intent and the receipts of a row
may be together; `JobOK`: that the verb in progress, its stage, its run and the receipt it drew belong
together; `StartsOK`, `KernelOK`: whose runs and whose requests the kernel holds; `AllCounted`: the
counters of a row are at most the commands of its own whose runs the kernel started or whose messages it
took; `StartsKept`: as long as no receipt was dropped, a row has the receipt of its start; `AnswersOK`:
while no write has failed and no receipt was dropped, memory and files differ only between the two
writes of a command, and both hold what was answered. The actions are of ten kinds, argued one by one: a
verb begins (starting, opening, resuming), revises what an earlier attempt left, completes, writes a
file, calls the kernel, replays, does nothing to the rows, or crashes. `Pruned` is described by what it
keeps (`Ranks`: the newest receipts of a window are told apart by their rank), which is all the steps
use of it.

### The plane and Cordis

`PlaneInvariant` is what the rows of one install may be together (`RowOK`: episode, slots, host
effects, resource) and the ties between installs: an install that is not disposed has its owner's
episode open (`OwnersOpen`), `ProviderOutlivesPins`, `OneSlotPerKey`, `ClosedIsEmpty`. Nearly every
command winds rows down. `WindStep` says so for all installs at once, whether a step touches one row
or cascades over a closure, and a `WindStep` keeps every tie; only `Activate` and `Install` build
something up and are argued apart. `LastSlot` (the slot a stage takes back exists) is where the bound
of five is used. `ImplementsLending` reads the same facts through `Stage`.

`CordisInvariant` adds to `Lifecycle` that a contribution belongs to an open episode, that a fiber that
is not tombstoned is a child recorded in the episode its install named (`ChildHeld`), that only a
closing episode has given something back (`Undrained`) and that a disposed install stays disposable.
`NextMoves` reduces the actions to what they do to one fiber (`Moves`); contributions, pins,
children and slots are then argued from the moves.

`CallsInvariant` has a kernel part and an executor part. `LedgerOK`: the effects in use are numbered
without gaps, the phase of the run says which calls are due, and the steps left and the calls done add
up to the request. That exactly one settlement of a batch emits the next model call rests on it: the
last one is the one that leaves nothing due. `KnowsOK`: what an executor has read, replayed or is
calling agrees with its journal, so that it never calls what it has a receipt of. The rows only move
`Forward` (a token is not taken back, an effect stays what it is), which is why the knowledge of every
other executor survives any step. Nothing in it depends on the source: of the requests it says only that
each success carries one.

`SoleInvariant` is the part about the source and holds for a team of one. `Sole`: there is one file with a
request at most, unfinished or in its place; the executor is in the steps of writing one only while there
is none, and claims only when there is one; and every receipt, call and outcome carries that request. It
is proved over `CallsInvariant` (`SoleStep`), which gives that nobody outside the team moves (`Movers`),
and `CallsAreSafe` combines the two.

### Only model-checked

Every invariant and every action property of section 3 is a theorem. What stays with TLC is liveness,
which needs fairness and for which the prover has no rules here: `LoopSettles`, `WorkEnds`,
`EffectServed`, `CleanupEnds`, `Converges`, `RunEnds`. `NoStrandedRun` is false (finding 1). That `Cordis`
implements `Lending` is neither checked nor proved.

TLC checked the inductive invariants on the instances of section 3 before they were proved. Three
models were made more exact by the proofs. `SpawnIdentity` asked for strictly fewer steps than the
parent had, and a child may get as many, which the budgets of the run `spawn` do not show. `Owners` and `Chain`
were recursive and are now the smallest closed sets, which is what the recursive queries compute.
`Plane` did not say that the keys of a manifest differ, and `SlotsHold` is false without it.
Three definitions say the same as before in a form that can be reasoned about without recursion: the sum
of the ledgers counts units, `FairDriver` chooses by position instead of filtering its queue, and the
window of `Session` is a set of places.

## 6. Not modelled

- **Admission in the kernel**: `advance`'s request rows, conflicts of digests and roles. `Session`
  has the client's side: a repeated request key changes nothing (`applied`).
- **Of the plane**: root scopes and routes (one realm), paging of long stages, the `control_seq`
  of an expected state, authorisation. **Of the session**: the store's calls for the chat UI, the
  migration and the rollback script, which replaces two files and is not atomic. **Of the loop**:
  manual replay policy (no business effect is created with it), transcript and digests.
- **Of Cordis**: reuse of installs and rollback (`SwitchDriver`), listeners and events, `host_io` and
  inverses with an unknown outcome, the pins of runs, damaged journals and request files,
  several inbox files of one `run_start`, a binding that moves while a look-up reads the files, the
  validation of contracts, overlays and manifests, realms and scopes, replay of request keys, and
  the limits of 512 nodes and 256 withdrawn services.
- **Formats and presentation**: host reads, adapters, renderers, schemas, the chat UI. Their one
  effect on the models, the class of a receipt, is an input.
- **Gates, golden vectors, demos, generations v1-v23 and v99**: tests, drivers and superseded systems
  on databases of their own. They are most of the repository's lines.

## 7. Plan

Done: the run loop, the hosts, the multi-scope driver, the session, the plane, Cordis and its runs, each
modelled, checked and with its safety properties as theorems; both abstract specifications with their
refinements.

1. Admission in the kernel (`requests`: digest, conflict, first write) as a module, composed with
   `Session`, which uses it through `applied`.
2. `Cordis` implements `Lending`, with an install that comes back as a new episode.
3. Cordis listeners and events, then the switch driver (reuse of installs and rollback).
