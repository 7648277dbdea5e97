------------------------------ MODULE Session ------------------------------
(***************************************************************************)
(* The session service of v24 (src/v24/session): the verbs start, steer,   *)
(* respond and cancel of service.py, recover(), and the two files of       *)
(* store.py they are made durable in, sessions.json (the rows) and         *)
(* turns.jsonl (the turns).  One verb runs at a time (the serial domain of *)
(* driver.py, one owner thread) but it is several steps: the intent is     *)
(* saved, the kernel is called, the result is saved.  Between two steps    *)
(* the process may die, the kernel's runs move on by themselves, the       *)
(* kernel's answer may be lost, and a write to a file may fail.            *)
(*                                                                         *)
(* A client names a command by its key; the kernel remembers the request   *)
(* keys derived from it, so a run is identified here with the key it was   *)
(* started under.  Digests of payloads, timestamps and names are left out: *)
(* a key is always repeated with the same payload.                         *)
(***************************************************************************)
EXTENDS Integers, Sequences, FiniteSets

CONSTANTS
    Sessions,       \* session ids a start may draw
    Keys,           \* request keys of the clients
    MaxReceipts,    \* MAX_RECEIPTS of store.py: completed receipts kept per session
    MaxTurns,       \* the turns kept per session (200 in _bound_turns)
    MaxCommands,    \* bound: command ids drawn
    MaxCrashes,     \* bound: process deaths
    MaxDiskFaults   \* bound: failing file writes

ASSUME SessionConstants ==
    /\ MaxReceipts \in Nat \ {0, 1}
    /\ MaxTurns \in Nat \ {0}
    /\ {MaxCommands, MaxCrashes, MaxDiskFaults} \subseteq Nat

VARIABLES
    mem,       \* the store's memory: rows and turns
    disk,      \* the two files
    runs,      \* the kernel: status of the run started under each run key
    applied,   \* the kernel: commands it accepted for a run, by request key
    job,       \* the verb in progress
    said,      \* answers the clients received
    count      \* ids drawn, crashes, disk faults; whether a receipt was dropped

vars == <<mem, disk, runs, applied, job, said, count>>

Ops == {"start", "steer", "respond", "cancel"}
RunKeys == Sessions \X {"start", "steer"} \X Keys
NoRun == <<>>
NoIntent == [cmd |-> 0, phase |-> "none"]
NoRow == [state |-> "none", start |-> {}, run |-> NoRun, runNo |-> 0, turnNo |-> 0,
          intent |-> NoIntent, receipts |-> <<>>]
Idle == [stage |-> "idle", op |-> "none", s |-> {}, key |-> {}, cmd |-> 0,
         run |-> NoRun, env |-> "none"]

Ended == {"ended", "blocked"}

-----------------------------------------------------------------------------
(* Rows and receipts *)

Receipts(row) == {row.receipts[i] : i \in DOMAIN row.receipts}
Found(row, op, key) == {r \in Receipts(row) : r.op = op /\ r.key = key}
HasCmd(row, cmd) == \E r \in Receipts(row) : r.cmd = cmd

\* Mutant: ids are counted from zero, the id of no command.
IntentFromZero(op, key, cmd) ==
    [cmd |-> cmd - 1, op |-> op, key |-> key, phase |-> "intent", env |-> "none"]

Intent(op, key, cmd) ==
    [cmd |-> cmd, op |-> op, key |-> key, phase |-> "intent", env |-> "none"]

Completed(r) == r.phase = "completed"

\* The elements of a sequence at some of its places, in their order.
Picked(seq, places) ==
    [n \in 1..Cardinality(places) |->
        seq[CHOOSE i \in places : Cardinality({j \in places : j <= i}) = n]]

Done(receipts) == {i \in DOMAIN receipts : Completed(receipts[i])}
Newest(places, limit) == {i \in places : Cardinality({j \in places : j > i}) < limit}

\* The open receipts, then the newest completed ones.
Pruned(receipts, limit) ==
    Picked(receipts, DOMAIN receipts \ Done(receipts))
        \o Picked(receipts, Newest(Done(receipts), limit))

Room(row) ==
    IF Cardinality(Done(row.receipts)) >= MaxReceipts
    THEN [row EXCEPT !.receipts = Pruned(@, MaxReceipts - 1)]
    ELSE row

\* The row with the receipt, and where it is asked for the intent, of a new command.
Opened(row, op, key, cmd, intent) ==
    [Room(row) EXCEPT
        !.receipts = Append(@, Intent(op, key, cmd)),
        !.intent = IF intent THEN [cmd |-> cmd, phase |-> "intent"] ELSE @]

\* The row with the receipt of a command given its final phase and envelope.
Marked(row, cmd, phase, env) ==
    [row EXCEPT !.receipts =
        [i \in DOMAIN row.receipts |->
            IF row.receipts[i].cmd = cmd
            THEN [row.receipts[i] EXCEPT !.phase = phase, !.env = env]
            ELSE row.receipts[i]]]

\* Mutant: the deferred answer is given but not stored.
FrozenUnstored(row, cmd) ==
    LET marked == Marked(row, cmd, "deferred", "none")
    IN  IF row.intent.cmd = cmd
        THEN [marked EXCEPT !.intent = [cmd |-> cmd, phase |-> "deferred"]]
        ELSE marked

Frozen(row, cmd) ==
    LET marked == Marked(row, cmd, "deferred", "deferred")
    IN  IF row.intent.cmd = cmd
        THEN [marked EXCEPT !.intent = [cmd |-> cmd, phase |-> "deferred"]]
        ELSE marked

Trimmed(row) == [row EXCEPT !.receipts = Pruned(@, MaxReceipts)]

Closed(row) == [row EXCEPT !.state = "closed", !.intent = NoIntent, !.run = NoRun]

\* complete_command: the answer of a command, which may close the session.
Settled(row, cmd, env, closing) ==
    LET marked == Marked(row, cmd, "completed", env)
    IN  Trimmed(IF closing THEN Closed(marked) ELSE marked)

\* complete_start and complete_steer_run: the session moves to the new run.
Bound(row, cmd, run) ==
    Trimmed([Marked(row, cmd, "completed", "committed") EXCEPT
                !.state = "active", !.run = run, !.intent = NoIntent,
                !.runNo = @ + 1, !.turnNo = @ + 1])

\* complete_steer_active: one more user turn of the same run.
Steered(row, cmd) ==
    [Marked(row, cmd, "completed", "committed") EXCEPT !.turnNo = @ + 1]

Row == mem.rows[job.s]
WithRow(s, row) == [mem EXCEPT !.rows = [mem.rows EXCEPT ![s] = row]]

\* The turns with one more of session s, whose oldest falls out when there are too many.
WithTurn(turns, s, turn) ==
    LET all == Append(turns[s], turn)
    IN  [turns EXCEPT ![s] = IF Len(all) > MaxTurns THEN Tail(all) ELSE all]

Started(key) == {s \in Sessions : mem.rows[s].state # "none" /\ mem.rows[s].start = key}

-----------------------------------------------------------------------------
(* The files *)

\* The counters after memory became m: drawn ids, write faults, and whether some
\* receipt fell out of the window.
Counted(m, ids, ok) ==
    /\ ok \/ count.faults < MaxDiskFaults
    /\ count.cmds + ids <= MaxCommands
    /\ count' = [count EXCEPT
                    !.cmds = @ + ids,
                    !.faults = IF ok THEN @ ELSE @ + 1,
                    !.dropped = @ \/ \E s \in Sessions : \E r \in Receipts(mem.rows[s]) :
                                         ~HasCmd(m.rows[s], r.cmd)]

\* flush(): the whole of sessions.json is replaced, or the write fails and the
\* memory stays ahead of the file.
Save(m, ids, ok) ==
    /\ mem' = m
    /\ disk' = IF ok THEN [disk EXCEPT !.rows = m.rows] ELSE disk
    /\ Counted(m, ids, ok)

Flush(m, ok) == Save(m, 0, ok)

Answer(op, s, key, env) ==
    said' = said \cup {[op |-> op, s |-> s, key |-> key, env |-> env]}

-----------------------------------------------------------------------------
(* start *)

NewRow(key, cmd) ==
    [NoRow EXCEPT !.state = "starting", !.start = key,
                  !.intent = [cmd |-> cmd, phase |-> "intent"],
                  !.receipts = <<Intent("start", key, cmd)>>]

StartJob(s, key, cmd) ==
    [stage |-> "start", op |-> "start", s |-> s, key |-> key, cmd |-> cmd,
     run |-> <<s, "start", key>>, env |-> "none"]

\* Mutant: the index of the key is saved with the result only.
BeginStartUnsaved(s, key, ok) ==
    LET cmd == count.cmds + 1
    IN  /\ job = Idle /\ Started(key) = {} /\ mem.rows[s] = NoRow /\ ok
        /\ count.cmds < MaxCommands /\ count' = [count EXCEPT !.cmds = @ + 1]
        /\ mem' = WithRow(s, NewRow(key, cmd))
        /\ job' = StartJob(s, key, cmd)
        /\ UNCHANGED <<disk, runs, applied, said>>

\* A key no session was started under: row, intent, index and receipt are saved
\* at once.  A failing save leaves start() with an exception.
BeginStart(s, key, ok) ==
    LET cmd == count.cmds + 1
    IN  /\ job = Idle
        /\ Started(key) = {}
        /\ mem.rows[s] = NoRow
        /\ Save(WithRow(s, NewRow(key, cmd)), 1, ok)
        /\ job' = IF ok THEN StartJob(s, key, cmd) ELSE Idle
        /\ UNCHANGED <<runs, applied, said>>

\* A known key: the stored answer; without one, deferred, and frozen so.
ReplayStart(s, key, ok) ==
    /\ job = Idle
    /\ s \in Started(key)
    /\ \/ \E r \in Found(mem.rows[s], "start", key) :
             /\ r.env # "none"
             /\ ok
             /\ Answer("start", s, key, r.env)
             /\ UNCHANGED <<mem, disk, count>>
       \/ \E r \in Found(mem.rows[s], "start", key) :
             /\ r.env = "none"
             /\ Flush(WithRow(s, Frozen(mem.rows[s], r.cmd)), ok)
             /\ IF ok THEN Answer("start", s, key, "deferred") ELSE UNCHANGED said
       \/ /\ Found(mem.rows[s], "start", key) = {}
          /\ ok
          /\ Answer("start", s, key, "deferred")
          /\ UNCHANGED <<mem, disk, count>>
    /\ UNCHANGED <<runs, applied, job>>

-----------------------------------------------------------------------------
(* The first step of steer, respond and cancel *)

\* The session is known and not closed, and no answer is stored for the key.
Asked(op, s, key) ==
    /\ job = Idle
    /\ mem.rows[s].state \in {"starting", "active"}
    /\ \A r \in Found(mem.rows[s], op, key) : r.env = "none"

ReplayCommand(op, s, key) ==
    /\ job = Idle
    /\ op # "start"
    /\ mem.rows[s].state \in {"starting", "active"}
    /\ \E r \in Found(mem.rows[s], op, key) : r.env # "none" /\ Answer(op, s, key, r.env)
    /\ UNCHANGED <<mem, disk, runs, applied, job, count>>

\* begin_command: the receipt is saved with phase intent.  One already there for
\* the key is returned as it is, and nothing is saved; steer and respond go on
\* under the command id they drew, which no receipt carries.
BeginCommand(op, s, key, stage, run, env, intent, ok) ==
    LET row == mem.rows[s]
        cmd == count.cmds + 1
        next == [stage |-> stage, op |-> op, s |-> s, key |-> key, cmd |-> cmd,
                 run |-> run, env |-> env]
    IN  /\ \/ /\ Found(row, op, key) = {}
              /\ Save(WithRow(s, Opened(row, op, key, cmd, intent)), 1, ok)
              /\ job' = IF ok THEN next ELSE Idle
           \/ /\ Found(row, op, key) # {}
              /\ ok
              /\ Counted(mem, 1, TRUE)
              /\ job' = next
              /\ UNCHANGED <<mem, disk>>
        /\ UNCHANGED <<runs, applied, said>>

-----------------------------------------------------------------------------
(* steer *)

Setup(row) == row.state = "starting" \/ row.intent # NoIntent
Status(row) == IF row.run = NoRun THEN "none" ELSE runs[row.run]

\* A half-made start or steer, an open question or a blocked run: rejected, with
\* a receipt.
SteerRejected(s, key, ok) ==
    /\ Asked("steer", s, key)
    /\ Setup(mem.rows[s]) \/ Status(mem.rows[s]) \in {"waiting", "blocked"}
    /\ BeginCommand("steer", s, key, "settle", NoRun, "rejected", FALSE, ok)

\* The last run is over: a new run of the session, under a key of the steer.
SteerNewRun(s, key, ok) ==
    /\ Asked("steer", s, key)
    /\ ~Setup(mem.rows[s])
    /\ Status(mem.rows[s]) \in {"ended", "none"}
    /\ BeginCommand("steer", s, key, "start", <<s, "steer", key>>, "none", TRUE, ok)

\* The run goes on: the message is queued on it.
SteerActive(s, key, ok) ==
    /\ Asked("steer", s, key)
    /\ ~Setup(mem.rows[s])
    /\ Status(mem.rows[s]) = "running"
    /\ BeginCommand("steer", s, key, "steer", mem.rows[s].run, "none", FALSE, ok)

-----------------------------------------------------------------------------
(* respond and cancel *)

\* Only a waiting run is answered; the other refusals leave no receipt.
BeginRespond(s, key, ok) ==
    /\ Asked("respond", s, key)
    /\ Status(mem.rows[s]) = "waiting"
    /\ BeginCommand("respond", s, key, "respond", mem.rows[s].run, "none", FALSE, ok)

\* What cancel will do, from the row and the run it just read: a session still
\* starting is closed, a run that is over refuses, any other run is cancelled.
CancelStage(row) ==
    IF row.state = "starting" THEN [stage |-> "settle", env |-> "committed"]
    ELSE IF Status(row) \in Ended \cup {"none"} THEN [stage |-> "settle", env |-> "rejected"]
    ELSE [stage |-> "cancel", env |-> "none"]

\* A receipt left by an earlier attempt is taken up under its own command id.
BeginCancel(s, key, ok) ==
    LET next == CancelStage(mem.rows[s])
        run == mem.rows[s].run
    IN  /\ Asked("cancel", s, key)
        /\ IF Found(mem.rows[s], "cancel", key) = {}
           THEN BeginCommand("cancel", s, key, next.stage, run, next.env, FALSE, ok)
           ELSE \E r \in Found(mem.rows[s], "cancel", key) :
                    /\ ok
                    /\ job' = [stage |-> next.stage, op |-> "cancel", s |-> s, key |-> key,
                               cmd |-> r.cmd, run |-> run, env |-> next.env]
                    /\ UNCHANGED <<mem, disk, runs, applied, said, count>>

-----------------------------------------------------------------------------
(* The kernel's side of a command *)

\* v24.start: one run for a run key, the same run when the key is repeated.
CallStart(ran) ==
    /\ job.stage = "start"
    /\ runs' = IF runs[job.run] = "none" THEN [runs EXCEPT ![job.run] = "running"] ELSE runs
    /\ job' = [job EXCEPT !.stage = IF ran THEN "bind" ELSE "freeze"]
    /\ UNCHANGED <<mem, disk, applied, said, count>>

\* The call never reached the kernel, or the kernel refused it.
CallFails ==
    /\ job.stage \in {"start", "steer", "cancel", "respond"}
    /\ job' = IF job.op = "respond" THEN [job EXCEPT !.stage = "settle", !.env = "rejected"]
              ELSE [job EXCEPT !.stage = "freeze"]
    /\ UNCHANGED <<mem, disk, runs, applied, said, count>>

Request == <<job.op, job.key, job.run>>

\* A request key the kernel accepted before is answered as it was then.
CallSteer(back) ==
    /\ job.stage = "steer"
    /\ Request \in applied \/ runs[job.run] = "running"
    /\ applied' = applied \cup {Request}
    /\ job' = [job EXCEPT !.stage = IF back THEN "turn" ELSE "freeze"]
    /\ UNCHANGED <<mem, disk, runs, said, count>>

CallRespond(back) ==
    /\ job.stage = "respond"
    /\ Request \in applied \/ runs[job.run] = "waiting"
    /\ applied' = applied \cup {Request}
    /\ runs' = IF Request \in applied THEN runs ELSE [runs EXCEPT ![job.run] = "running"]
    /\ job' = [job EXCEPT !.stage = "settle", !.env = IF back THEN "committed" ELSE "rejected"]
    /\ UNCHANGED <<mem, disk, said, count>>

CallCancel(back) ==
    /\ job.stage = "cancel"
    /\ Request \in applied \/ runs[job.run] \notin Ended
    /\ applied' = applied \cup {Request}
    /\ runs' = IF Request \in applied THEN runs ELSE [runs EXCEPT ![job.run] = "ended"]
    /\ job' = IF back THEN [job EXCEPT !.stage = "settle", !.env = "committed"]
              ELSE [job EXCEPT !.stage = "freeze"]
    /\ UNCHANGED <<mem, disk, said, count>>

\* The run moved on since the verb read it: already_terminal or stale_generation.
CallRefused ==
    /\ Request \notin applied
    /\ \/ job.stage = "steer" /\ runs[job.run] # "running"
       \/ job.stage = "respond" /\ runs[job.run] # "waiting"
       \/ job.stage = "cancel" /\ runs[job.run] \in Ended
    /\ job' = [job EXCEPT !.stage = "settle", !.env = "rejected"]
    /\ UNCHANGED <<mem, disk, runs, applied, said, count>>

-----------------------------------------------------------------------------
(* The last steps of a command *)

\* What complete_start and complete_steer_run (stage bind) check before they change
\* the row, and complete_steer_active (stage turn).
Completes ==
    IF job.stage = "bind" THEN Row.intent.cmd = job.cmd ELSE HasCmd(Row, job.cmd)

\* The memory they make: the row, and one more turn of the session.
Complete ==
    [rows |-> [mem.rows EXCEPT ![job.s] =
                  IF job.stage = "bind" THEN Bound(Row, job.cmd, job.run)
                                        ELSE Steered(Row, job.cmd)],
     turns |-> WithTurn(mem.turns, job.s, <<job.op, job.key>>)]

\* Mutant: the turns file is left to the next append.
WriteTurnsLater(ok) ==
    /\ job.stage \in {"bind", "turn"}
    /\ ok
    /\ Completes
    /\ mem' = Complete
    /\ job' = [job EXCEPT !.stage = "flush"]
    /\ Counted(Complete, 0, TRUE)
    /\ UNCHANGED <<disk, runs, applied, said>>

\* The turns file is written first.
WriteTurns(ok) ==
    /\ job.stage \in {"bind", "turn"}
    /\ \/ /\ Completes
          /\ mem' = Complete
          /\ disk' = IF ok THEN [disk EXCEPT !.turns = Complete.turns] ELSE disk
          /\ Counted(Complete, 0, ok)
          /\ job' = [job EXCEPT !.stage = IF ok THEN "flush" ELSE "freeze"]
       \/ /\ ~Completes
          /\ ok
          /\ job' = [job EXCEPT !.stage = "freeze"]
          /\ UNCHANGED <<mem, disk, count>>
    /\ UNCHANGED <<runs, applied, said>>

\* ... and the rows after it.
WriteRows(ok) ==
    /\ job.stage = "flush"
    /\ Flush(mem, ok)
    /\ IF ok THEN Answer(job.op, job.s, job.key, "committed") /\ job' = Idle
       ELSE job' = [job EXCEPT !.stage = "freeze"] /\ UNCHANGED said
    /\ UNCHANGED <<runs, applied>>

\* StoreError("receipt_missing"), which no handler catches: the verb ends.
ReceiptMissing ==
    /\ job.stage \in {"freeze", "settle"}
    /\ ~HasCmd(Row, job.cmd)
    /\ job' = Idle
    /\ UNCHANGED <<mem, disk, runs, applied, said, count>>

\* freeze_deferred and freeze_command: the outcome is not known, and the answer
\* to the key stays deferred.
Freeze(ok) ==
    /\ job.stage = "freeze"
    /\ HasCmd(Row, job.cmd)
    /\ Flush(WithRow(job.s, Frozen(Row, job.cmd)), ok)
    /\ IF ok THEN Answer(job.op, job.s, job.key, "deferred") ELSE UNCHANGED said
    /\ job' = Idle
    /\ UNCHANGED <<runs, applied>>

\* The outcome is known: it is stored, then answered.
Settle(ok) ==
    LET closing == job.op = "cancel" /\ Row.state = "starting"
    IN  /\ job.stage = "settle"
        /\ HasCmd(Row, job.cmd)
        /\ Flush(WithRow(job.s, Settled(Row, job.cmd, job.env, closing)), ok)
        /\ IF ok THEN Answer(job.op, job.s, job.key, job.env) ELSE UNCHANGED said
        /\ job' = Idle
        /\ UNCHANGED <<runs, applied>>

-----------------------------------------------------------------------------
(* Restart, recovery, and the kernel's runs *)

\* The store is loaded again from its two files.
Crash ==
    /\ count.crashes < MaxCrashes
    /\ count' = [count EXCEPT !.crashes = @ + 1]
    /\ mem' = disk
    /\ job' = Idle
    /\ UNCHANGED <<disk, runs, applied, said>>

\* recover() on one session: an intent without an outcome is frozen as deferred.
Recover(s, ok) ==
    /\ job = Idle
    /\ mem.rows[s].state \in {"starting", "active"}
    /\ mem.rows[s].intent.phase = "intent"
    /\ HasCmd(mem.rows[s], mem.rows[s].intent.cmd)
    /\ Flush(WithRow(s, Frozen(mem.rows[s], mem.rows[s].intent.cmd)), ok)
    /\ UNCHANGED <<runs, applied, job, said>>

\* A run asks its user, ends, or is blocked on an unknown outcome.
RunMoves(r) ==
    /\ runs[r] \in {"running", "waiting"}
    /\ \E st \in {"waiting", "ended", "blocked"} :
           /\ runs[r] = "running" \/ st = "ended"
           /\ runs' = [runs EXCEPT ![r] = st]
    /\ UNCHANGED <<mem, disk, applied, job, said, count>>

-----------------------------------------------------------------------------

Init ==
    /\ mem = [rows |-> [s \in Sessions |-> NoRow], turns |-> [s \in Sessions |-> <<>>]]
    /\ disk = mem
    /\ runs = [r \in RunKeys |-> "none"]
    /\ applied = {}
    /\ job = Idle
    /\ said = {}
    /\ count = [cmds |-> 0, crashes |-> 0, faults |-> 0, dropped |-> FALSE]

Verb(s, key, ok) ==
    \/ BeginStart(s, key, ok)
    \/ ReplayStart(s, key, ok)
    \/ SteerRejected(s, key, ok)
    \/ SteerNewRun(s, key, ok)
    \/ SteerActive(s, key, ok)
    \/ BeginRespond(s, key, ok)
    \/ BeginCancel(s, key, ok)

Work ==
    \/ \E back \in BOOLEAN : CallStart(back) \/ CallSteer(back) \/ CallRespond(back) \/ CallCancel(back)
    \/ CallFails
    \/ CallRefused
    \/ \E ok \in BOOLEAN : WriteTurns(ok) \/ WriteRows(ok) \/ Freeze(ok) \/ Settle(ok)
    \/ ReceiptMissing

Next ==
    \/ \E s \in Sessions, key \in Keys, ok \in BOOLEAN : Verb(s, key, ok)
    \/ \E op \in Ops, s \in Sessions, key \in Keys :
           ReplayCommand(op, s, key)
    \/ Work
    \/ \E s \in Sessions, ok \in BOOLEAN : Recover(s, ok)
    \/ Crash
    \/ \E r \in RunKeys : RunMoves(r)

Spec == Init /\ [][Next]_vars
-----------------------------------------------------------------------------
(* Properties *)

Envelopes == {"none", "committed", "rejected", "deferred"}

\* No receipt was dropped yet: beyond the window a key is a new command.
InWindow == ~count.dropped

\* Every variable has its type.
TypeOK ==
    /\ \A f \in {mem, disk} : \A s \in Sessions :
           /\ f.rows[s].state \in {"none", "starting", "active", "closed"}
           /\ f.rows[s].run \in RunKeys \cup {NoRun}
           /\ {f.rows[s].runNo, f.rows[s].turnNo, f.rows[s].intent.cmd} \subseteq 0..MaxCommands
           /\ \A r \in Receipts(f.rows[s]) :
                  r.op \in Ops /\ r.key \in Keys /\ r.cmd \in 1..MaxCommands /\ r.env \in Envelopes
           /\ Len(f.turns[s]) <= MaxTurns
           /\ \A i \in DOMAIN f.turns[s] : f.turns[s][i] \in {"start", "steer"} \X Keys
    /\ runs \in [RunKeys -> {"none", "running", "waiting", "ended", "blocked"}]
    /\ job.stage \in {"idle", "start", "steer", "respond", "cancel", "bind", "turn",
                      "flush", "freeze", "settle"}
    /\ \A a \in said : a.env \in Envelopes \ {"none"}

\* A client that repeats a key is never told something else about the command
\* than it was told before: a deferred command is not committed later, nor a
\* committed one refused.  (After a failing write the memory is ahead of the file,
\* and a restart forgets what a replay may already have reported.)
AnswersAgree ==
    count.faults = 0 /\ InWindow => \A a, b \in said : a.op = b.op /\ a.s = b.s /\ a.key = b.key => a.env = b.env

\* What a client was told is committed is on the disk: the receipt with its
\* answer, and for start and steer the turn, unless newer ones of the session fill
\* the file.
CommittedIsDurable ==
    count.faults = 0 /\ InWindow => \A a \in said : a.env = "committed" =>
        /\ \E r \in Receipts(disk.rows[a.s]) :
               r.op = a.op /\ r.key = a.key /\ r.env = "committed"
        /\ a.op \in {"start", "steer"} =>
               \/ \E i \in DOMAIN disk.turns[a.s] : disk.turns[a.s][i] = <<a.op, a.key>>
               \/ Len(disk.turns[a.s]) = MaxTurns

\* Nothing is made or counted twice.  A start key makes one run at most, over retries,
\* crashes and failing writes: the index of the key is on the disk before the kernel is
\* called.  The rows count no more runs than the kernel started for the session, no
\* more user turns than messages the kernel accepted for it; and a session is bound to
\* a run of its own that the kernel has.
CountedOnce ==
  /\ \A key \in Keys : Cardinality({s \in Sessions : runs[<<s, "start", key>>] # "none"}) <= 1
  /\ InWindow => \A s \in Sessions :
        LET row == disk.rows[s]
            started == {r \in RunKeys : r[1] = s /\ runs[r] # "none"}
            steered == {a \in applied : a[1] = "steer" /\ a[3][1] = s}
        IN  /\ row.runNo <= Cardinality(started)
            /\ row.turnNo <= Cardinality(started) + Cardinality(steered)
            /\ row.run # NoRun => row.run \in started

\* A half-made command can be told from the file: an intent on the disk has its
\* receipt, not yet completed, and a session that is starting has an intent.
IntentBacked ==
    \A s \in Sessions :
        LET row == disk.rows[s]
        IN  /\ row.intent # NoIntent =>
                   \E r \in Receipts(row) : r.cmd = row.intent.cmd /\ r.phase = row.intent.phase
            /\ row.state = "starting" => row.intent # NoIntent

\* A command survives its process: answered as committed it is in both files, and cut
\* short it has left the intent that a repetition of its key needs.
CommandsDurable == CommittedIsDurable /\ IntentBacked

=============================================================================
