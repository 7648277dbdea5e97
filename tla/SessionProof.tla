---------------------------- MODULE SessionProof ----------------------------
(***************************************************************************)
(* Proofs about Session: that a start key makes one run and nothing is     *)
(* counted twice, that answers are durable and agree, and that a half-made *)
(* command can be told from the file.                                      *)
(***************************************************************************)
EXTENDS Session, FiniteSetTheorems, TLAPS

-----------------------------------------------------------------------------
(* The inductive invariant *)

Phases == {"intent", "deferred", "completed"}
ReceiptSet == [cmd : Nat, op : Ops, key : Keys, phase : Phases, env : Envelopes]
Intents == [cmd : Nat, phase : {"none"} \cup Phases]
Rows == [state : {"none", "starting", "active", "closed"}, start : Keys \cup {{}},
         run : RunKeys \cup {NoRun}, runNo : Nat, turnNo : Nat,
         intent : Intents, receipts : Seq(ReceiptSet)]
Stages == {"idle", "start", "steer", "respond", "cancel", "bind", "turn", "flush",
           "freeze", "settle"}
Files == [rows : [Sessions -> Rows], turns : [Sessions -> Seq({"start", "steer"} \X Keys)]]
Jobs == {Idle} \cup
        [stage : Stages \ {"idle"}, op : Ops, s : Sessions, key : Keys, cmd : Nat,
         run : RunKeys \cup {NoRun}, env : Envelopes]

Typed ==
    /\ mem \in Files
    /\ disk \in Files
    /\ runs \in [RunKeys -> {"none", "running", "waiting", "ended", "blocked"}]
    /\ job \in Jobs
    /\ \A a \in said : /\ a.op \in Ops /\ a.s \in Sessions /\ a.key \in Keys
                       /\ a.env \in Envelopes \ {"none"}
    /\ count \in [cmds : 0..MaxCommands, crashes : Nat, faults : Nat, dropped : BOOLEAN]

\* A row whose commands were drawn from the first ones: a receipt has a command and
\* a key of its own; the intent has its open receipt.
RowOK(row, drawn) ==
    /\ \A r \in Receipts(row) : /\ row.state # "none"
                                /\ r.cmd \in 1..drawn
                                /\ r.phase = "intent" => r.env = "none"
    /\ \A r, q \in Receipts(row) : r.cmd = q.cmd \/ (r.op = q.op /\ r.key = q.key) => r = q
    /\ row.runNo <= row.turnNo /\ row.turnNo <= drawn
    /\ row.intent # NoIntent =>
           \E r \in Receipts(row) : /\ r.cmd = row.intent.cmd /\ r.phase = row.intent.phase
                                    /\ r.phase # "completed" /\ r.op \in {"start", "steer"}
    /\ row.state = "starting" => row.intent # NoIntent

RowsOK(rows) == \A s \in Sessions : RowOK(rows[s], count.cmds)

\* The stages after which the session has one more turn, when all goes well.
Adding == {"start", "steer", "bind", "turn"}

\* The verb in progress and the row it works on.
JobOK ==
    job.stage # "idle" =>
        /\ job.stage \in {"start", "bind"} => /\ job.op \in {"start", "steer"}
                                              /\ job.run = <<job.s, job.op, job.key>>
        /\ job.stage \in {"steer", "turn"} => job.op = "steer"
        /\ job.stage = "respond" => job.op = "respond"
        /\ job.stage = "cancel" => job.op = "cancel"
        /\ job.stage = "settle" => \/ job.env = "rejected"
                                   \/ job.env = "committed" /\ job.op \in {"respond", "cancel"}
        /\ job.cmd \in 1..count.cmds
        /\ \A r \in Receipts(Row) : r.cmd = job.cmd => r.op = job.op /\ r.key = job.key
        /\ job.stage \in {"steer", "respond", "cancel", "turn", "settle"} => Row.intent.cmd # job.cmd
        /\ job.stage \in Adding => Row.turnNo < count.cmds

\* A start key opens one session, in memory and on the disk, and the kernel has a run
\* of a start key only when the file has the key.
StartsOK ==
    /\ \A s \in Sessions : disk.rows[s].state # "none" =>
           mem.rows[s].state # "none" /\ mem.rows[s].start = disk.rows[s].start
    /\ \A s, t \in Sessions :
           mem.rows[s].state # "none" /\ mem.rows[t].state # "none"
               /\ mem.rows[s].start = mem.rows[t].start => s = t
    /\ \A s \in Sessions, key \in Keys : runs[<<s, "start", key>>] # "none" =>
           disk.rows[s].state # "none" /\ disk.rows[s].start = key
    /\ job.stage = "start" /\ job.op = "start" =>
           disk.rows[job.s].state # "none" /\ disk.rows[job.s].start = job.key

\* The commands of a row, as run keys; the runs the kernel has; the messages it took.
OwnKeys(row, s) == {x \in RunKeys : x[1] = s /\ Found(row, x[2], x[3]) # {}}
StartedRuns == {x \in RunKeys : runs[x] # "none"}
SteerOf(a) == <<a[3][1], "steer", a[2]>>
SteeredKeys == {x \in RunKeys : \E a \in applied : a[1] = "steer" /\ SteerOf(a) = x}
Due == IF job.stage \in Adding /\ HasCmd(Row, job.cmd)
       THEN {<<job.s, job.op, job.key>>} ELSE {}

\* The turns of a row are accounted for by its own commands, the one in progress
\* not yet among them.
Accounted(row, s, due, started, steered) ==
    /\ row.runNo <= Cardinality((OwnKeys(row, s) \ due) \cap started)
    /\ row.turnNo <= Cardinality((OwnKeys(row, s) \ due) \cap (started \cup steered))
CountsOK(row, s, due) == Accounted(row, s, due, StartedRuns, SteeredKeys)

\* What the kernel has and took, and that sessions and verbs name runs of their own.
RunsBound(rows) ==
    \A s \in Sessions : rows[s].run # NoRun => rows[s].run \in StartedRuns /\ rows[s].run[1] = s

KernelOK ==
    /\ IsFiniteSet(StartedRuns)
    /\ IsFiniteSet(applied)
    /\ applied \subseteq {"steer", "respond", "cancel"} \X Keys \X RunKeys
    /\ job.stage \in {"bind", "steer", "respond", "cancel"} => job.run \in StartedRuns
    /\ job.stage = "turn" => job.run \in RunKeys /\ Request \in applied
    /\ job.stage # "idle" /\ job.run # NoRun => job.run[1] = job.s
    /\ RunsBound(mem.rows) /\ RunsBound(disk.rows)

AllCounted ==
    InWindow => \A s \in Sessions : CountsOK(mem.rows[s], s, Due) /\ CountsOK(disk.rows[s], s, {})

\* The receipt of an answer; the turn of a command.
HasAnswer(row, a) == \E r \in Receipts(row) : r.op = a.op /\ r.key = a.key /\ r.env = a.env
HasTurn(turns, s, op, key) ==
    (\E i \in DOMAIN turns[s] : turns[s][i] = <<op, key>>) \/ Len(turns[s]) = MaxTurns
TurnsKept(f) ==
    \A s \in Sessions : \A r \in Receipts(f.rows[s]) :
        r.env = "committed" /\ r.op \in {"start", "steer"} => HasTurn(f.turns, s, r.op, r.key)
StartsKept(rows) ==
    \A s \in Sessions : rows[s].state # "none" => Found(rows[s], "start", rows[s].start) # {}

TurnsBounded(f) == \A s \in Sessions : Len(f.turns[s]) <= MaxTurns

\* Without a failing write, and as long as no receipt was dropped, memory and disk
\* differ only between the two writes of a command, and hold what was answered.
Kept ==
    /\ mem.turns = disk.turns
    /\ job.stage # "flush" => mem.rows = disk.rows
    /\ TurnsKept(mem)
    /\ TurnsKept(disk)
    /\ \A a \in said : HasAnswer(mem.rows[a.s], a) /\ HasAnswer(disk.rows[a.s], a)
    /\ job.stage \notin {"idle", "flush"} =>
           \A r \in Receipts(Row) : r.cmd = job.cmd => r.env = "none"
    /\ job.stage = "flush" =>
           \E r \in Receipts(Row) : r.op = job.op /\ r.key = job.key /\ r.env = "committed"

AnswersOK == count.faults = 0 /\ InWindow => Kept

Inv ==
    /\ Typed
    /\ TurnsBounded(mem) /\ TurnsBounded(disk)
    /\ RowsOK(mem.rows) /\ RowsOK(disk.rows)
    /\ JobOK
    /\ StartsOK
    /\ KernelOK
    /\ AllCounted
    /\ InWindow => StartsKept(mem.rows) /\ StartsKept(disk.rows)
    /\ AnswersOK

-----------------------------------------------------------------------------
(* Sequences *)

\* The rank of a place among some places of a sequence tells it from the others, and
\* every rank is taken.
LEMMA Ranks ==
    ASSUME NEW m \in Nat, NEW places \in SUBSET (1..m)
    PROVE  /\ IsFiniteSet(places) /\ Cardinality(places) \in Nat
           /\ \A i \in places : Cardinality({j \in places : j <= i}) \in 1..Cardinality(places)
           /\ \A i, k \in places :
                  Cardinality({j \in places : j <= i}) = Cardinality({j \in places : j <= k}) => i = k
           /\ \A n \in 1..Cardinality(places) :
                  \E i \in places : Cardinality({j \in places : j <= i}) = n
  <1> DEFINE Upto(i) == {j \in places : j <= i}
             rank == [i \in places |-> Cardinality(Upto(i))]
  <1>1. IsFiniteSet(places) /\ Cardinality(places) \in Nat
    <2>1. IsFiniteSet(1..m)
      BY FS_Interval
    <2>2. IsFiniteSet(places)
      BY <2>1, FS_Subset
    <2> QED
      BY <2>2, FS_CardinalityType
  <1>2. \A i \in places : IsFiniteSet(Upto(i)) /\ Cardinality(Upto(i)) \in 1..Cardinality(places)
    <2> TAKE i \in places
    <2>1. Upto(i) \in SUBSET places /\ Upto(i) # {}
      OBVIOUS
    <2>2. IsFiniteSet(Upto(i)) /\ Cardinality(Upto(i)) <= Cardinality(places)
      BY <1>1, <2>1, FS_Subset
    <2>3. Cardinality(Upto(i)) \in Nat /\ Cardinality(Upto(i)) # 0
      BY <2>1, <2>2, FS_CardinalityType, FS_EmptySet
    <2> HIDE DEF Upto
    <2> QED
      BY <1>1, <2>2, <2>3
  <1>3. \A i, k \in places : i < k => Cardinality(Upto(i)) < Cardinality(Upto(k))
    <2> SUFFICES ASSUME NEW i \in places, NEW k \in places, i < k
                 PROVE  Cardinality(Upto(i)) < Cardinality(Upto(k))
      OBVIOUS
    <2>1. Upto(i) \in SUBSET Upto(k)
      <3>1. \A j \in places : j <= i => j <= k
        OBVIOUS
      <3> QED
        BY <3>1
    <2>3. k \in Upto(k) /\ k \notin Upto(i)
      OBVIOUS
    <2>2. Cardinality(Upto(i)) <= Cardinality(Upto(k)) /\ Cardinality(Upto(i)) # Cardinality(Upto(k))
      BY <1>2, <2>1, <2>3, FS_Subset
    <2> HIDE DEF Upto
    <2> QED
      BY <1>2, <2>2
  <1>4. \A i, k \in places : Cardinality(Upto(i)) = Cardinality(Upto(k)) => i = k
    <2> HIDE DEF Upto
    <2> SUFFICES ASSUME NEW i \in places, NEW k \in places, i # k
                 PROVE  Cardinality(Upto(i)) # Cardinality(Upto(k))
      OBVIOUS
    <2>1. i < k \/ k < i
      OBVIOUS
    <2>2. Cardinality(Upto(i)) \in 1..Cardinality(places) /\ Cardinality(Upto(k)) \in 1..Cardinality(places)
      BY <1>2
    <2> QED
      BY <1>1, <1>3, <2>1, <2>2
  <1>5. \A n \in 1..Cardinality(places) : \E i \in places : Cardinality(Upto(i)) = n
    <2> HIDE DEF Upto
    <2>1. rank \in Injection(places, 1..Cardinality(places))
      BY <1>2, <1>4 DEF Injection, IsInjective
    <2>2. IsFiniteSet(1..Cardinality(places)) /\ Cardinality(1..Cardinality(places)) = Cardinality(places)
      BY <1>1, FS_Interval
    <2>3. rank \in Surjection(places, 1..Cardinality(places))
      BY <2>1, <2>2, FS_Injection
    <2> QED
      BY <2>3 DEF Surjection
  <1> QED
    BY <1>1, <1>2, <1>4, <1>5

\* What is picked from a sequence is the sequence of the elements at the places.
LEMMA PickedElements ==
    ASSUME NEW S, NEW seq \in Seq(S), NEW places \in SUBSET (DOMAIN seq)
    PROVE  /\ Picked(seq, places) \in Seq(S)
           /\ \A n \in DOMAIN Picked(seq, places) : \E i \in places : Picked(seq, places)[n] = seq[i]
           /\ \A i \in places : \E n \in DOMAIN Picked(seq, places) : Picked(seq, places)[n] = seq[i]
  <1> DEFINE Rank(i) == Cardinality({j \in places : j <= i})
             At(n) == CHOOSE i \in places : Rank(i) = n
  <1>1. Len(seq) \in Nat /\ DOMAIN seq = 1..Len(seq) /\ \A i \in DOMAIN seq : seq[i] \in S
    OBVIOUS
  <1>2. /\ Cardinality(places) \in Nat
        /\ \A i \in places : Rank(i) \in 1..Cardinality(places)
        /\ \A i, k \in places : Rank(i) = Rank(k) => i = k
        /\ \A n \in 1..Cardinality(places) : \E i \in places : Rank(i) = n
    BY <1>1, Ranks
  <1>3. Picked(seq, places) = [n \in 1..Cardinality(places) |-> seq[At(n)]]
    BY DEF Picked
  <1> HIDE DEF Rank
  <1>4. \A n \in 1..Cardinality(places) : At(n) \in places /\ Rank(At(n)) = n
    BY <1>2
  <1>5. \A i \in places : At(Rank(i)) = i
    BY <1>2, <1>4
  <1> HIDE DEF At
  <1>6. Picked(seq, places) \in [1..Cardinality(places) -> S]
    BY <1>1, <1>3, <1>4
  <1>7. Picked(seq, places) \in Seq(S)
    BY <1>2, <1>6
  <1> QED
    BY <1>2, <1>3, <1>4, <1>5, <1>7

\* Pruning keeps the open receipts and makes up none.
LEMMA PrunedReceipts ==
    ASSUME NEW q \in Seq(ReceiptSet), NEW limit \in Nat
    PROVE  /\ Pruned(q, limit) \in Seq(ReceiptSet)
           /\ \A n \in DOMAIN Pruned(q, limit) : \E i \in DOMAIN q : Pruned(q, limit)[n] = q[i]
           /\ \A i \in DOMAIN q : q[i].phase # "completed" =>
                  \E n \in DOMAIN Pruned(q, limit) : Pruned(q, limit)[n] = q[i]
  <1> DEFINE open == DOMAIN q \ Done(q)
             newest == Newest(Done(q), limit)
             a == Picked(q, open)
             b == Picked(q, newest)
  <1>1. open \in SUBSET DOMAIN q /\ newest \in SUBSET DOMAIN q
    BY DEF Done, Newest
  <1>2. /\ a \in Seq(ReceiptSet)
        /\ \A n \in DOMAIN a : \E i \in open : a[n] = q[i]
        /\ \A i \in open : \E n \in DOMAIN a : a[n] = q[i]
    BY <1>1, PickedElements
  <1>3. /\ b \in Seq(ReceiptSet)
        /\ \A n \in DOMAIN b : \E i \in newest : b[n] = q[i]
    BY <1>1, PickedElements
  <1>4. \A i \in DOMAIN q : q[i].phase # "completed" => i \in open
    BY DEF Done, Completed
  <1>5. Pruned(q, limit) = a \o b
    BY DEF Pruned
  <1> HIDE DEF a, b, open, newest
  <1>6. Len(a) \in Nat /\ Len(b) \in Nat /\ DOMAIN a = 1..Len(a) /\ DOMAIN b = 1..Len(b)
    BY <1>2, <1>3
  <1>7. /\ a \o b \in Seq(ReceiptSet)
        /\ DOMAIN (a \o b) = 1..(Len(a) + Len(b))
        /\ \A n \in 1..(Len(a) + Len(b)) :
               (a \o b)[n] = IF n <= Len(a) THEN a[n] ELSE b[n - Len(a)]
    BY <1>2, <1>3
  <1>8. ASSUME NEW n \in DOMAIN (a \o b)
        PROVE  \E i \in DOMAIN q : (a \o b)[n] = q[i]
    <2>1. CASE n <= Len(a)
      BY <2>1, <1>1, <1>2, <1>6, <1>7
    <2>2. CASE n > Len(a)
      <3>1. n - Len(a) \in DOMAIN b /\ (a \o b)[n] = b[n - Len(a)]
        BY <2>2, <1>6, <1>7
      <3> QED
        BY <3>1, <1>1, <1>3
    <2> QED
      BY <2>1, <2>2, <1>6, <1>7
  <1>9. ASSUME NEW i \in DOMAIN q, q[i].phase # "completed"
        PROVE  \E n \in DOMAIN (a \o b) : (a \o b)[n] = q[i]
    <2>1. PICK n \in DOMAIN a : a[n] = q[i]
      BY <1>2, <1>4, <1>9
    <2>2. n \in DOMAIN (a \o b) /\ (a \o b)[n] = a[n]
      BY <1>6, <1>7
    <2> QED
      BY <2>1, <2>2
  <1> QED
    BY <1>5, <1>7, <1>8, <1>9

-----------------------------------------------------------------------------
(* Rows *)

\* What a verb does to the receipts of a row when it gives those of command c a phase
\* and an answer: none is made up, the others stay as they are or, completed, may be
\* dropped.
Revised(old, new, c, phase, env) ==
    /\ \A q \in Receipts(new) : \E r \in Receipts(old) :
           /\ q.cmd = r.cmd /\ q.op = r.op /\ q.key = r.key
           /\ q.cmd # c => q = r
           /\ q.cmd = c => q.phase = phase /\ q.env = env
    /\ \A r \in Receipts(old) : r.phase # "completed" /\ r.cmd # c => r \in Receipts(new)
    /\ phase # "completed" /\ HasCmd(old, c) => HasCmd(new, c)

\* The fields of a row besides its receipts.
SameFields(row, new) ==
    /\ new.state = row.state /\ new.start = row.start /\ new.run = row.run
    /\ new.runNo = row.runNo /\ new.turnNo = row.turnNo /\ new.intent = row.intent

\* The receipts of a row are typed.
LEMMA ReceiptTypes ==
    ASSUME NEW row \in Rows
    PROVE  /\ row.receipts \in Seq(ReceiptSet)
           /\ \A r \in Receipts(row) : r \in ReceiptSet
           /\ \A r : r \in Receipts(row) <=> \E i \in DOMAIN row.receipts : r = row.receipts[i]
  BY DEF Rows, Receipts

\* A pruned row keeps its fields and its open receipts.
LEMMA PrunedRow ==
    ASSUME NEW row \in Rows, NEW limit \in Nat, NEW new,
           new = [row EXCEPT !.receipts = Pruned(row.receipts, limit)]
    PROVE  /\ new \in Rows
           /\ SameFields(row, new)
           /\ \A r \in Receipts(new) : r \in Receipts(row)
           /\ \A r \in Receipts(row) : r.phase # "completed" => r \in Receipts(new)
  <1>1. row.receipts \in Seq(ReceiptSet)
    BY ReceiptTypes
  <1> DEFINE q == Pruned(row.receipts, limit)
  <1>2. /\ q \in Seq(ReceiptSet)
        /\ \A n \in DOMAIN q : \E i \in DOMAIN row.receipts : q[n] = row.receipts[i]
        /\ \A i \in DOMAIN row.receipts : row.receipts[i].phase # "completed" =>
               \E n \in DOMAIN q : q[n] = row.receipts[i]
    BY <1>1, PrunedReceipts
  <1>3. new = [row EXCEPT !.receipts = q]
    OBVIOUS
  <1> HIDE DEF q
  <1>4. new \in Rows /\ SameFields(row, new) /\ new.receipts = q
    BY <1>2, <1>3 DEF Rows, SameFields
  <1> QED
    BY <1>2, <1>4 DEF Receipts

\* A marked row keeps its fields and, one by one, its receipts.
LEMMA MarkedRow ==
    ASSUME NEW row \in Rows, NEW cmd \in Nat, NEW phase \in Phases, NEW env \in Envelopes,
           NEW new, new = Marked(row, cmd, phase, env)
    PROVE  /\ new \in Rows
           /\ SameFields(row, new)
           /\ Revised(row, new, cmd, phase, env)
           /\ \A r \in Receipts(row) : HasCmd(new, r.cmd)
  <1> DEFINE mark(i) == IF row.receipts[i].cmd = cmd
                        THEN [row.receipts[i] EXCEPT !.phase = phase, !.env = env]
                        ELSE row.receipts[i]
             q == [i \in DOMAIN row.receipts |-> mark(i)]
  <1>1. /\ row.receipts \in Seq(ReceiptSet)
        /\ Len(row.receipts) \in Nat
        /\ DOMAIN row.receipts = 1..Len(row.receipts)
        /\ \A i \in DOMAIN row.receipts : row.receipts[i] \in ReceiptSet
    BY ReceiptTypes
  <1>2. \A i \in DOMAIN row.receipts :
            /\ mark(i) \in ReceiptSet
            /\ mark(i).cmd = row.receipts[i].cmd /\ mark(i).op = row.receipts[i].op
            /\ mark(i).key = row.receipts[i].key
            /\ row.receipts[i].cmd # cmd => mark(i) = row.receipts[i]
            /\ row.receipts[i].cmd = cmd => mark(i).phase = phase /\ mark(i).env = env
    BY <1>1 DEF ReceiptSet
  <1>3. new = [row EXCEPT !.receipts = q]
    BY DEF Marked
  <1> HIDE DEF mark
  <1>4. q \in Seq(ReceiptSet)
    BY <1>1, <1>2
  <1>5. new \in Rows /\ SameFields(row, new) /\ new.receipts = q
    BY <1>3, <1>4 DEF Rows, SameFields
  <1>6. /\ \A i \in DOMAIN row.receipts : mark(i) \in Receipts(new)
        /\ \A p \in Receipts(new) : \E i \in DOMAIN row.receipts : p = mark(i)
    BY <1>5 DEF Receipts
  <1> HIDE DEF q
  <1>7. \A r \in Receipts(row) : HasCmd(new, r.cmd)
    BY <1>2, <1>6 DEF Receipts, HasCmd
  <1>8. \A p \in Receipts(new) : \E r \in Receipts(row) :
           /\ p.cmd = r.cmd /\ p.op = r.op /\ p.key = r.key
           /\ p.cmd # cmd => p = r
           /\ p.cmd = cmd => p.phase = phase /\ p.env = env
    <2> TAKE p \in Receipts(new)
    <2>1. PICK i \in DOMAIN row.receipts : p = mark(i)
      BY <1>6
    <2>2. row.receipts[i] \in Receipts(row)
      BY DEF Receipts
    <2> QED
      BY <2>1, <2>2, <1>2
  <1>9. \A r \in Receipts(row) : r.phase # "completed" /\ r.cmd # cmd => r \in Receipts(new)
    BY <1>2, <1>6 DEF Receipts
  <1>10. HasCmd(row, cmd) => HasCmd(new, cmd)
    BY <1>7 DEF HasCmd
  <1> QED
    BY <1>5, <1>7, <1>8, <1>9, <1>10 DEF Revised

\* Pruning after marking revises the row too.
LEMMA RevisedThenPruned ==
    ASSUME NEW row, NEW marked, NEW new, NEW c, NEW phase, NEW env,
           Revised(row, marked, c, phase, env),
           \A r \in Receipts(new) : r \in Receipts(marked),
           \A r \in Receipts(marked) : r.phase # "completed" => r \in Receipts(new)
    PROVE  Revised(row, new, c, phase, env)
  <1>1. \A q \in Receipts(new) : \E r \in Receipts(row) :
           /\ q.cmd = r.cmd /\ q.op = r.op /\ q.key = r.key
           /\ q.cmd # c => q = r
           /\ q.cmd = c => q.phase = phase /\ q.env = env
    BY DEF Revised
  <1>2. \A r \in Receipts(row) : r.phase # "completed" /\ r.cmd # c => r \in Receipts(new)
    BY DEF Revised
  <1>3. ASSUME phase # "completed", HasCmd(row, c)
        PROVE  HasCmd(new, c)
    <2>1. PICK q \in Receipts(marked) : q.cmd = c
      BY <1>3 DEF Revised, HasCmd
    <2>2. q.phase = phase
      BY <2>1 DEF Revised
    <2> QED
      BY <1>3, <2>1, <2>2 DEF HasCmd
  <1> QED
    BY <1>1, <1>2, <1>3 DEF Revised

\* Assignments to the fields of a row.
LEMMA RowIntent ==
    ASSUME NEW row \in Rows, NEW intent \in Intents,
           NEW new, new = [row EXCEPT !.intent = intent]
    PROVE  /\ new \in Rows /\ new.receipts = row.receipts /\ new.intent = intent
           /\ new.state = row.state /\ new.start = row.start /\ new.run = row.run
           /\ new.runNo = row.runNo /\ new.turnNo = row.turnNo
  BY DEF Rows

\* The count of turns of a row is changed alone.
LEMMA RowTurn ==
    ASSUME NEW row \in Rows, NEW n \in Nat, NEW new, new = [row EXCEPT !.turnNo = n]
    PROVE  /\ new \in Rows /\ new.receipts = row.receipts /\ new.intent = row.intent
           /\ new.state = row.state /\ new.start = row.start /\ new.run = row.run
           /\ new.runNo = row.runNo /\ new.turnNo = n
  BY DEF Rows

\* freeze_deferred and freeze_command: the receipt and its intent become deferred.
LEMMA FrozenRow ==
    ASSUME NEW row \in Rows, NEW cmd \in Nat, NEW new, new = Frozen(row, cmd)
    PROVE  /\ new \in Rows
           /\ Revised(row, new, cmd, "deferred", "deferred")
           /\ \A r \in Receipts(row) : HasCmd(new, r.cmd)
           /\ new.state = row.state /\ new.start = row.start /\ new.run = row.run
           /\ new.runNo = row.runNo /\ new.turnNo = row.turnNo
           /\ new.intent = IF row.intent.cmd = cmd THEN [cmd |-> cmd, phase |-> "deferred"]
                                                   ELSE row.intent
  <1> DEFINE marked == Marked(row, cmd, "deferred", "deferred")
  <1>1. /\ marked \in Rows /\ SameFields(row, marked)
        /\ Revised(row, marked, cmd, "deferred", "deferred")
        /\ \A r \in Receipts(row) : HasCmd(marked, r.cmd)
    BY MarkedRow DEF Phases, Envelopes
  <1>2. new = IF row.intent.cmd = cmd
              THEN [marked EXCEPT !.intent = [cmd |-> cmd, phase |-> "deferred"]] ELSE marked
    BY DEF Frozen
  <1> HIDE DEF marked
  <1>3. /\ new \in Rows /\ new.receipts = marked.receipts
        /\ new.state = marked.state /\ new.start = marked.start /\ new.run = marked.run
        /\ new.runNo = marked.runNo /\ new.turnNo = marked.turnNo
        /\ new.intent = IF row.intent.cmd = cmd THEN [cmd |-> cmd, phase |-> "deferred"]
                                                ELSE marked.intent
    <2>1. [cmd |-> cmd, phase |-> "deferred"] \in Intents
      BY DEF Phases, Intents
    <2>2. CASE row.intent.cmd = cmd
      <3>1. new = [marked EXCEPT !.intent = [cmd |-> cmd, phase |-> "deferred"]]
        BY <1>2, <2>2
      <3> QED
        BY <1>1, <2>1, <2>2, <3>1, RowIntent
    <2>3. CASE row.intent.cmd # cmd
      BY <1>1, <1>2, <2>3
    <2> QED
      BY <2>2, <2>3
  <1>4. Receipts(new) = Receipts(marked)
    BY <1>3 DEF Receipts
  <1> QED
    BY <1>1, <1>3, <1>4 DEF SameFields, Revised, HasCmd

\* complete_steer_active: the receipt is completed and one turn more is counted.
LEMMA SteeredRow ==
    ASSUME NEW row \in Rows, NEW cmd \in Nat, NEW new, new = Steered(row, cmd)
    PROVE  /\ new \in Rows
           /\ Revised(row, new, cmd, "completed", "committed")
           /\ new.state = row.state /\ new.start = row.start /\ new.run = row.run
           /\ new.runNo = row.runNo /\ new.turnNo = row.turnNo + 1
           /\ new.intent = row.intent
  <1> DEFINE marked == Marked(row, cmd, "completed", "committed")
  <1>1. /\ marked \in Rows /\ SameFields(row, marked)
        /\ Revised(row, marked, cmd, "completed", "committed")
    BY MarkedRow DEF Phases, Envelopes
  <1>2. new = [marked EXCEPT !.turnNo = marked.turnNo + 1]
    BY DEF Steered
  <1> HIDE DEF marked
  <1>3. /\ new \in Rows /\ new.receipts = marked.receipts
        /\ new.state = marked.state /\ new.start = marked.start /\ new.run = marked.run
        /\ new.runNo = marked.runNo /\ new.turnNo = marked.turnNo + 1
        /\ new.intent = marked.intent
    <2>1. marked.turnNo + 1 \in Nat
      BY <1>1 DEF Rows
    <2> QED
      BY <1>1, <1>2, <2>1, RowTurn
  <1>4. Receipts(new) = Receipts(marked)
    BY <1>3 DEF Receipts
  <1> QED
    BY <1>1, <1>3, <1>4 DEF SameFields, Revised, HasCmd

\* complete_start and complete_steer_run: the row is bound to its run, its receipt completed.
LEMMA BoundRow ==
    ASSUME NEW row \in Rows, NEW cmd \in Nat, NEW run \in RunKeys,
           NEW new, new = Bound(row, cmd, run)
    PROVE  /\ new \in Rows
           /\ Revised(row, new, cmd, "completed", "committed")
           /\ new.state = "active" /\ new.start = row.start /\ new.run = run
           /\ new.runNo = row.runNo + 1 /\ new.turnNo = row.turnNo + 1
           /\ new.intent = NoIntent
  <1> DEFINE marked == Marked(row, cmd, "completed", "committed")
             bound == [marked EXCEPT !.state = "active", !.run = run, !.intent = NoIntent,
                                     !.runNo = marked.runNo + 1, !.turnNo = marked.turnNo + 1]
  <1>1. /\ marked \in Rows /\ SameFields(row, marked)
        /\ Revised(row, marked, cmd, "completed", "committed")
    BY MarkedRow DEF Phases, Envelopes
  <1>2. new = [bound EXCEPT !.receipts = Pruned(bound.receipts, MaxReceipts)]
    BY DEF Bound, Trimmed
  <1> HIDE DEF marked
  <1>3. /\ bound \in Rows /\ bound.receipts = marked.receipts
        /\ bound.state = "active" /\ bound.start = marked.start /\ bound.run = run
        /\ bound.runNo = marked.runNo + 1 /\ bound.turnNo = marked.turnNo + 1
        /\ bound.intent = NoIntent
    <2>1. marked.runNo + 1 \in Nat /\ marked.turnNo + 1 \in Nat
      BY <1>1 DEF Rows
    <2>2. NoIntent \in Intents
      BY DEF NoIntent, Intents
    <2> DEFINE m == marked.runNo + 1
               n == marked.turnNo + 1
    <2>3. bound = [marked EXCEPT !.state = "active", !.run = run, !.intent = NoIntent,
                                 !.runNo = m, !.turnNo = n]
      OBVIOUS
    <2>4. m \in Nat /\ n \in Nat
      BY <2>1
    <2> HIDE DEF bound, m, n
    <2>5. /\ bound \in Rows /\ bound.receipts = marked.receipts /\ bound.intent = NoIntent
          /\ bound.state = "active" /\ bound.start = marked.start /\ bound.run = run
          /\ bound.runNo = m /\ bound.turnNo = n
      BY <1>1, <2>2, <2>3, <2>4 DEF Rows
    <2> QED
      BY <2>5 DEF m, n
  <1> HIDE DEF bound
  <1>4. Receipts(bound) = Receipts(marked)
    BY <1>3 DEF Receipts
  <1>5. /\ new \in Rows /\ SameFields(bound, new)
        /\ \A r \in Receipts(new) : r \in Receipts(bound)
        /\ \A r \in Receipts(bound) : r.phase # "completed" => r \in Receipts(new)
    BY <1>2, <1>3, PrunedRow, SessionConstants
  <1>6. Revised(row, new, cmd, "completed", "committed")
    BY <1>1, <1>4, <1>5, RevisedThenPruned
  <1> QED
    BY <1>1, <1>3, <1>5, <1>6 DEF SameFields

\* complete_command: the receipt has its answer, and the session may be closed.
LEMMA SettledRow ==
    ASSUME NEW row \in Rows, NEW cmd \in Nat, NEW env \in Envelopes, NEW closing \in BOOLEAN,
           NEW new, new = Settled(row, cmd, env, closing)
    PROVE  /\ new \in Rows
           /\ Revised(row, new, cmd, "completed", env)
           /\ new.start = row.start
           /\ new.runNo = row.runNo /\ new.turnNo = row.turnNo
           /\ new.state = IF closing THEN "closed" ELSE row.state
           /\ new.intent = IF closing THEN NoIntent ELSE row.intent
           /\ new.run = IF closing THEN NoRun ELSE row.run
  <1> DEFINE marked == Marked(row, cmd, "completed", env)
             left == IF closing THEN Closed(marked) ELSE marked
  <1>1. /\ marked \in Rows /\ SameFields(row, marked)
        /\ Revised(row, marked, cmd, "completed", env)
    BY MarkedRow DEF Phases
  <1>2. new = [left EXCEPT !.receipts = Pruned(left.receipts, MaxReceipts)]
    BY DEF Settled, Trimmed
  <1> HIDE DEF marked
  <1>3. /\ left \in Rows /\ left.receipts = marked.receipts
        /\ left.start = marked.start
        /\ left.runNo = marked.runNo /\ left.turnNo = marked.turnNo
        /\ left.state = IF closing THEN "closed" ELSE marked.state
        /\ left.intent = IF closing THEN NoIntent ELSE marked.intent
        /\ left.run = IF closing THEN NoRun ELSE marked.run
    <2>1. CASE closing
      BY <1>1, <2>1 DEF Rows, NoIntent, Closed, Intents, Phases
    <2>2. CASE ~closing
      BY <1>1, <2>2
    <2> QED
      BY <2>1, <2>2
  <1> HIDE DEF left
  <1>4. Receipts(left) = Receipts(marked)
    BY <1>3 DEF Receipts
  <1>5. /\ new \in Rows /\ SameFields(left, new)
        /\ \A r \in Receipts(new) : r \in Receipts(left)
        /\ \A r \in Receipts(left) : r.phase # "completed" => r \in Receipts(new)
    BY <1>2, <1>3, PrunedRow, SessionConstants
  <1>6. Revised(row, new, cmd, "completed", env)
    BY <1>1, <1>4, <1>5, RevisedThenPruned
  <1> QED
    BY <1>1, <1>3, <1>5, <1>6 DEF SameFields

\* begin_command: one receipt more, and only completed ones fall out.
LEMMA OpenedRow ==
    ASSUME NEW row \in Rows, NEW op \in Ops, NEW key \in Keys, NEW cmd \in Nat,
           NEW intent \in BOOLEAN, NEW new, new = Opened(row, op, key, cmd, intent)
    PROVE  /\ new \in Rows
           /\ \A r \in Receipts(new) : r \in Receipts(row) \/ r = Intent(op, key, cmd)
           /\ Intent(op, key, cmd) \in Receipts(new)
           /\ \A r \in Receipts(row) : r.phase # "completed" => r \in Receipts(new)
           /\ new.state = row.state /\ new.start = row.start /\ new.run = row.run
           /\ new.runNo = row.runNo /\ new.turnNo = row.turnNo
           /\ new.intent = IF intent THEN [cmd |-> cmd, phase |-> "intent"] ELSE row.intent
  <1> DEFINE room == Room(row)
             r0 == Intent(op, key, cmd)
  <1>1. /\ room \in Rows /\ SameFields(row, room)
        /\ \A r \in Receipts(room) : r \in Receipts(row)
        /\ \A r \in Receipts(row) : r.phase # "completed" => r \in Receipts(room)
    <2>1. CASE Cardinality(Done(row.receipts)) >= MaxReceipts
      <3>1. room = [row EXCEPT !.receipts = Pruned(row.receipts, MaxReceipts - 1)]
        BY <2>1 DEF Room
      <3>2. MaxReceipts - 1 \in Nat
        BY SessionConstants
      <3> HIDE DEF room
      <3> QED
        BY <3>1, <3>2, PrunedRow
    <2>2. CASE ~(Cardinality(Done(row.receipts)) >= MaxReceipts)
      BY <2>2 DEF Room, SameFields
    <2> QED
      BY <2>1, <2>2
  <1>2. new = [room EXCEPT !.receipts = Append(room.receipts, r0),
                          !.intent = IF intent THEN [cmd |-> cmd, phase |-> "intent"]
                                               ELSE room.intent]
    BY DEF Opened
  <1>3. r0 \in ReceiptSet
    BY DEF Intent, ReceiptSet, Phases, Envelopes
  <1> HIDE DEF room, r0
  <1>4. /\ room.receipts \in Seq(ReceiptSet)
        /\ Append(room.receipts, r0) \in Seq(ReceiptSet)
        /\ \A i \in DOMAIN Append(room.receipts, r0) :
               \/ Append(room.receipts, r0)[i] = r0
               \/ i \in DOMAIN room.receipts /\ Append(room.receipts, r0)[i] = room.receipts[i]
        /\ \A i \in DOMAIN room.receipts : /\ i \in DOMAIN Append(room.receipts, r0)
                                           /\ Append(room.receipts, r0)[i] = room.receipts[i]
        /\ \E i \in DOMAIN Append(room.receipts, r0) : Append(room.receipts, r0)[i] = r0
    <2>1. room.receipts \in Seq(ReceiptSet)
      BY <1>1, ReceiptTypes
    <2>2. Len(room.receipts) \in Nat /\ DOMAIN room.receipts = 1..Len(room.receipts)
      BY <2>1
    <2>3. /\ Append(room.receipts, r0) \in Seq(ReceiptSet)
          /\ DOMAIN Append(room.receipts, r0) = 1..(Len(room.receipts) + 1)
          /\ \A i \in 1..Len(room.receipts) : Append(room.receipts, r0)[i] = room.receipts[i]
          /\ Append(room.receipts, r0)[Len(room.receipts) + 1] = r0
      BY <2>1, <1>3
    <2> QED
      BY <2>1, <2>2, <2>3
  <1>5. /\ new \in Rows /\ new.receipts = Append(room.receipts, r0)
        /\ new.state = room.state /\ new.start = room.start /\ new.run = room.run
        /\ new.runNo = room.runNo /\ new.turnNo = room.turnNo
        /\ new.intent = IF intent THEN [cmd |-> cmd, phase |-> "intent"] ELSE room.intent
    <2> DEFINE asked == [cmd |-> cmd, phase |-> "intent"]
               both == IF intent THEN asked ELSE room.intent
    <2>1. asked \in Intents
      BY DEF Phases, Intents
    <2>2. both \in Intents
      BY <1>1, <2>1 DEF Rows
    <2>3. new = [room EXCEPT !.receipts = Append(room.receipts, r0), !.intent = both]
      BY <1>2
    <2> HIDE DEF both
    <2> DEFINE q == Append(room.receipts, r0)
    <2>4. new = [room EXCEPT !.receipts = q, !.intent = both] /\ q \in Seq(ReceiptSet)
      BY <1>4, <2>3
    <2> HIDE DEF q
    <2>5. /\ new \in Rows /\ new.receipts = q /\ new.intent = both
          /\ new.state = room.state /\ new.start = room.start /\ new.run = room.run
          /\ new.runNo = room.runNo /\ new.turnNo = room.turnNo
      BY <1>1, <2>2, <2>4 DEF Rows
    <2> QED
      BY <2>5 DEF both, q
  <1>6. /\ \A r \in Receipts(new) : r \in Receipts(room) \/ r = r0
        /\ r0 \in Receipts(new)
        /\ \A r \in Receipts(room) : r \in Receipts(new)
    BY <1>4, <1>5 DEF Receipts
  <1> QED
    BY <1>1, <1>5, <1>6 DEF SameFields, r0

\* begin_start: a row whose one receipt is the one of its start.
LEMMA FirstRow ==
    ASSUME NEW key \in Keys, NEW cmd \in Nat, NEW new, new = NewRow(key, cmd)
    PROVE  /\ new \in Rows
           /\ \A r : r \in Receipts(new) <=> r = Intent("start", key, cmd)
           /\ new.state = "starting" /\ new.start = key /\ new.run = NoRun
           /\ new.runNo = 0 /\ new.turnNo = 0
           /\ new.intent = [cmd |-> cmd, phase |-> "intent"]
  <1>1. Intent("start", key, cmd) \in ReceiptSet
    BY DEF Intent, ReceiptSet, Ops, Phases, Envelopes
  <1> DEFINE q == <<Intent("start", key, cmd)>>
  <1>2. q \in Seq(ReceiptSet) /\ DOMAIN q = {1} /\ q[1] = Intent("start", key, cmd)
    BY <1>1
  <1>3. new = [state |-> "starting", start |-> key, run |-> NoRun, runNo |-> 0, turnNo |-> 0,
               intent |-> [cmd |-> cmd, phase |-> "intent"], receipts |-> q]
    BY DEF NewRow, NoRow
  <1> HIDE DEF q
  <1>4. new \in Rows /\ new.receipts = q
    BY <1>2, <1>3 DEF Rows, Intents, Phases
  <1> QED
    BY <1>2, <1>3, <1>4 DEF Receipts

\* A session no start drew.
LEMMA EmptyRow ==
    /\ NoRow \in Rows
    /\ Receipts(NoRow) = {}
    /\ NoRow.state = "none" /\ NoRow.run = NoRun /\ NoRow.runNo = 0 /\ NoRow.turnNo = 0
    /\ NoRow.intent = NoIntent /\ NoRow.start = {}
  <1>1. <<>> \in Seq(ReceiptSet) /\ DOMAIN <<>> = {}
    OBVIOUS
  <1> QED
    BY <1>1 DEF NoRow, Rows, Receipts, NoIntent, Intents, Phases

-----------------------------------------------------------------------------
(* Rows stay sound *)

\* A sound row stays sound while more commands are drawn.
LEMMA RowLater ==
    ASSUME NEW row \in Rows, NEW d \in Nat, NEW e \in Nat, d <= e, RowOK(row, d)
    PROVE  RowOK(row, e)
  <1>1. \A r \in Receipts(row) : r.cmd \in Nat
    BY ReceiptTypes DEF ReceiptSet
  <1>2. row.runNo \in Nat /\ row.turnNo \in Nat
    BY DEF Rows
  <1> QED
    BY <1>1, <1>2 DEF RowOK

\* A revised row is sound when its intent was that of another command, is gone, or
\* is frozen with its receipt.
LEMMA RevisedSound ==
    ASSUME NEW row \in Rows, NEW new \in Rows, NEW d \in Nat, NEW c \in 1..d,
           NEW phase \in {"deferred", "completed"}, NEW env,
           RowOK(row, d), Revised(row, new, c, phase, env),
           row.state # "none" => new.state # "none",
           new.runNo <= new.turnNo, new.turnNo <= d,
           \/ new.intent = NoIntent
           \/ new.intent = row.intent /\ row.intent.cmd # c
           \/ /\ row.intent.cmd = c /\ new.intent = [cmd |-> c, phase |-> "deferred"]
              /\ phase = "deferred",
           new.state = "starting" => new.intent # NoIntent
    PROVE  RowOK(new, d)
  <1>1. \A r \in Receipts(new) : /\ new.state # "none" /\ r.cmd \in 1..d
                                 /\ r.phase = "intent" => r.env = "none"
    BY DEF RowOK, Revised
  <1>2. \A r, q \in Receipts(new) : r.cmd = q.cmd \/ (r.op = q.op /\ r.key = q.key) => r = q
    <2> SUFFICES ASSUME NEW r \in Receipts(new), NEW q \in Receipts(new),
                        r.cmd = q.cmd \/ (r.op = q.op /\ r.key = q.key)
                 PROVE  r = q
      OBVIOUS
    <2>1. PICK r0 \in Receipts(row) : /\ r.cmd = r0.cmd /\ r.op = r0.op /\ r.key = r0.key
                                      /\ r.cmd # c => r = r0
                                      /\ r.cmd = c => r.phase = phase /\ r.env = env
      BY DEF Revised
    <2>2. PICK q0 \in Receipts(row) : /\ q.cmd = q0.cmd /\ q.op = q0.op /\ q.key = q0.key
                                      /\ q.cmd # c => q = q0
                                      /\ q.cmd = c => q.phase = phase /\ q.env = env
      BY DEF Revised
    <2>3. r0 = q0
      BY <2>1, <2>2 DEF RowOK
    <2>4. CASE r.cmd # c
      BY <2>1, <2>2, <2>3, <2>4
    <2>5. CASE r.cmd = c
      <3>1. r \in ReceiptSet /\ q \in ReceiptSet
        BY ReceiptTypes
      <3>2. r.cmd = q.cmd /\ r.op = q.op /\ r.key = q.key /\ r.phase = q.phase /\ r.env = q.env
        BY <2>1, <2>2, <2>3, <2>5
      <3> QED
        BY <3>1, <3>2 DEF ReceiptSet
    <2> QED
      BY <2>4, <2>5
  <1>3. ASSUME new.intent # NoIntent
        PROVE  \E r \in Receipts(new) : /\ r.cmd = new.intent.cmd /\ r.phase = new.intent.phase
                                        /\ r.phase # "completed" /\ r.op \in {"start", "steer"}
    <2>1. row.intent # NoIntent
      BY <1>3 DEF NoIntent
    <2>2. PICK r \in Receipts(row) : /\ r.cmd = row.intent.cmd /\ r.phase = row.intent.phase
                                     /\ r.phase # "completed" /\ r.op \in {"start", "steer"}
      BY <2>1 DEF RowOK
    <2>3. CASE new.intent = row.intent /\ row.intent.cmd # c
      BY <2>2, <2>3 DEF Revised
    <2>4. CASE /\ row.intent.cmd = c /\ new.intent = [cmd |-> c, phase |-> "deferred"]
               /\ phase = "deferred"
      <3>1. PICK q \in Receipts(new) : q.cmd = c
        BY <2>2, <2>4 DEF Revised, HasCmd
      <3>2. PICK q0 \in Receipts(row) : q.cmd = q0.cmd /\ q.op = q0.op /\ q.phase = phase
        BY <3>1 DEF Revised
      <3>3. q0 = r
        BY <2>2, <2>4, <3>1, <3>2 DEF RowOK
      <3> QED
        BY <2>2, <2>4, <3>1, <3>2, <3>3
    <2> QED
      BY <1>3, <2>3, <2>4
  <1> QED
    BY <1>1, <1>2, <1>3 DEF RowOK

\* A row is sound with one more command, whose key it did not have.
LEMMA OpenedSound ==
    ASSUME NEW row \in Rows, NEW op \in Ops, NEW key \in Keys, NEW d \in Nat,
           NEW intent \in BOOLEAN, NEW new, new = Opened(row, op, key, d + 1, intent),
           RowOK(row, d), Found(row, op, key) = {}, row.state # "none",
           intent => row.intent = NoIntent /\ op \in {"start", "steer"}
    PROVE  RowOK(new, d + 1)
  <1> DEFINE r0 == Intent(op, key, d + 1)
  <1>1. /\ new \in Rows
        /\ \A r \in Receipts(new) : r \in Receipts(row) \/ r = r0
        /\ r0 \in Receipts(new)
        /\ \A r \in Receipts(row) : r.phase # "completed" => r \in Receipts(new)
        /\ new.state = row.state /\ new.runNo = row.runNo /\ new.turnNo = row.turnNo
        /\ new.intent = IF intent THEN [cmd |-> d + 1, phase |-> "intent"] ELSE row.intent
    BY OpenedRow
  <1>2. r0.cmd = d + 1 /\ r0.op = op /\ r0.key = key /\ r0.phase = "intent" /\ r0.env = "none"
    BY DEF Intent
  <1> HIDE DEF r0
  <1>3. RowOK(row, d + 1)
    BY RowLater
  <1>4. \A r \in Receipts(row) : r.cmd # d + 1 /\ ~(r.op = op /\ r.key = key)
    BY DEF RowOK, Found
  <1>5. \A r \in Receipts(new) : /\ new.state # "none" /\ r.cmd \in 1..(d + 1)
                                 /\ r.phase = "intent" => r.env = "none"
    BY <1>1, <1>2, <1>3 DEF RowOK
  <1>6. \A r, q \in Receipts(new) : r.cmd = q.cmd \/ (r.op = q.op /\ r.key = q.key) => r = q
    BY <1>1, <1>2, <1>3, <1>4 DEF RowOK
  <1>7. ASSUME new.intent # NoIntent
        PROVE  \E r \in Receipts(new) : /\ r.cmd = new.intent.cmd /\ r.phase = new.intent.phase
                                        /\ r.phase # "completed" /\ r.op \in {"start", "steer"}
    <2>1. CASE intent
      <3>0. new.intent = [cmd |-> d + 1, phase |-> "intent"]
        BY <1>1, <2>1, Zenon
      <3>1. new.intent.cmd = d + 1 /\ new.intent.phase = "intent"
        BY <3>0
      <3>2. op \in {"start", "steer"}
        BY <2>1
      <3> QED
        BY <1>1, <1>2, <3>1, <3>2
    <2>2. CASE ~intent
      BY <1>1, <1>3, <1>7, <2>2 DEF RowOK
    <2> QED
      BY <2>1, <2>2
  <1>8. new.state = "starting" => new.intent # NoIntent
    <2>1. CASE intent
      <3>0. new.intent = [cmd |-> d + 1, phase |-> "intent"]
        BY <1>1, <2>1, Zenon
      <3>1. new.intent.cmd = d + 1
        BY <3>0
      <3>2. NoIntent.cmd = 0
        BY DEF NoIntent
      <3> QED
        BY <3>1, <3>2
    <2>2. CASE ~intent
      BY <1>1, <1>3, <2>2 DEF RowOK
    <2> QED
      BY <2>1, <2>2
  <1>9. new.runNo <= new.turnNo /\ new.turnNo <= d + 1
    BY <1>1, <1>3 DEF RowOK
  <1> QED
    BY <1>5, <1>6, <1>7, <1>8, <1>9 DEF RowOK

\* The row of a session that is opened is sound.
LEMMA FirstSound ==
    ASSUME NEW key \in Keys, NEW d \in Nat
    PROVE  RowOK(NewRow(key, d + 1), d + 1)
  <1> DEFINE new == NewRow(key, d + 1)
             r0 == Intent("start", key, d + 1)
  <1>1. /\ \A r : r \in Receipts(new) <=> r = r0
        /\ new.runNo = 0 /\ new.turnNo = 0 /\ new.state = "starting"
        /\ new.intent = [cmd |-> d + 1, phase |-> "intent"]
    BY FirstRow
  <1>2. r0.cmd = d + 1 /\ r0.op = "start" /\ r0.phase = "intent" /\ r0.env = "none"
    BY DEF Intent
  <1> HIDE DEF new, r0
  <1>3. RowOK(new, d + 1)
    BY <1>1, <1>2 DEF RowOK, NoIntent
  <1> QED
    BY <1>3 DEF new

\* Revising a row without losing a command keeps the keys it has receipts for.
LEMMA RevisedKeys ==
    ASSUME NEW row \in Rows, NEW new \in Rows, NEW d, NEW c, NEW phase, NEW env,
           RowOK(row, d), Revised(row, new, c, phase, env)
    PROVE  /\ \A op, key : Found(row, op, key) = {} => Found(new, op, key) = {}
           /\ (\A r \in Receipts(row) : HasCmd(new, r.cmd)) =>
                  \A r \in Receipts(row) : \E q \in Receipts(new) :
                      /\ q.cmd = r.cmd /\ q.op = r.op /\ q.key = r.key
                      /\ q.cmd # c => q = r
                      /\ q.cmd = c => q.phase = phase /\ q.env = env
           /\ (\A r \in Receipts(row) : HasCmd(new, r.cmd)) =>
                  \A op, key : Found(new, op, key) = {} => Found(row, op, key) = {}
  <1>1. \A op, key : Found(row, op, key) = {} => Found(new, op, key) = {}
    BY DEF Found, Revised
  <1>2. ASSUME \A r \in Receipts(row) : HasCmd(new, r.cmd), NEW r \in Receipts(row)
        PROVE  \E q \in Receipts(new) : /\ q.cmd = r.cmd /\ q.op = r.op /\ q.key = r.key
                                        /\ q.cmd # c => q = r
                                        /\ q.cmd = c => q.phase = phase /\ q.env = env
    <2>1. PICK q \in Receipts(new) : q.cmd = r.cmd
      BY <1>2 DEF HasCmd
    <2>2. PICK r0 \in Receipts(row) :
              /\ q.cmd = r0.cmd /\ q.op = r0.op /\ q.key = r0.key
              /\ q.cmd # c => q = r0
              /\ q.cmd = c => q.phase = phase /\ q.env = env
      BY DEF Revised
    <2>3. r0 = r
      BY <2>1, <2>2 DEF RowOK
    <2> QED
      BY <2>1, <2>2, <2>3
  <1>3. ASSUME \A r \in Receipts(row) : HasCmd(new, r.cmd), NEW op, NEW key, Found(new, op, key) = {}
        PROVE  Found(row, op, key) = {}
    BY <1>2, <1>3 DEF Found
  <1> QED
    BY <1>1, <1>2, <1>3

-----------------------------------------------------------------------------
(* What the steps do.  Each kind of step is described once, and the parts of  *)
(* the invariant are shown to survive the kinds.                              *)

Counts == [cmds : 0..MaxCommands, crashes : Nat, faults : Nat, dropped : BOOLEAN]

\* The counters after a step: a flag that no receipt was lost is a fact about the rows.
CountedTo(ids) ==
    /\ count' \in Counts
    /\ count'.cmds = count.cmds + ids
    /\ ~count'.dropped => /\ ~count.dropped
                          /\ \A t \in Sessions : \A r \in Receipts(mem.rows[t]) :
                                 HasCmd(mem'.rows[t], r.cmd)

RowsWritten == disk'.rows = mem'.rows /\ count'.faults = count.faults
RowsUnwritten == disk'.rows = disk.rows /\ count'.faults = count.faults + 1

\* A row is replaced in memory, and on the disk unless the write fails.
Saved(s, new, ids) ==
    /\ mem' \in Files /\ disk' \in Files
    /\ s \in Sessions /\ mem'.rows[s] = new
    /\ \A t \in Sessions : t # s => mem'.rows[t] = mem.rows[t]
    /\ mem'.turns = mem.turns /\ disk'.turns = disk.turns
    /\ RowsWritten \/ RowsUnwritten
    /\ CountedTo(ids)

\* A session is opened.
Starting(s, key) ==
    /\ job = Idle /\ key \in Keys
    /\ mem.rows[s] = NoRow /\ Started(key) = {}
    /\ Saved(s, NewRow(key, count.cmds + 1), 1)
    /\ UNCHANGED <<runs, applied, said>>
    /\ \/ job' = Idle
       \/ /\ RowsWritten
          /\ job' = StartJob(s, key, count.cmds + 1)

\* The job of a command under way.
NewJob(op, s, key, cmd) ==
    /\ job' \in Jobs /\ job'.op = op /\ job'.s = s /\ job'.key = key /\ job'.cmd = cmd
    /\ job'.stage \in {"start", "steer", "respond", "cancel", "settle"}
    /\ job'.stage = "start" => op = "steer" /\ job'.run = <<s, op, key>>
    /\ job'.stage \in {"steer", "respond", "cancel"} =>
           op = job'.stage /\ job'.run \in RunKeys /\ runs[job'.run] # "none"
    /\ job'.stage = "settle" => \/ job'.env = "rejected"
                                \/ job'.env = "committed" /\ op = "cancel"
    /\ job'.run \in {NoRun, mem.rows[s].run, <<s, op, key>>}

\* A command is opened in a row that has no receipt for its key.
Opening(s, op, key, intent) ==
    /\ job = Idle /\ s \in Sessions /\ op \in Ops \ {"start"} /\ key \in Keys
    /\ intent \in BOOLEAN
    /\ mem.rows[s].state # "none" /\ Found(mem.rows[s], op, key) = {}
    /\ intent => mem.rows[s].intent = NoIntent /\ op = "steer"
    /\ Saved(s, Opened(mem.rows[s], op, key, count.cmds + 1, intent), 1)
    /\ UNCHANGED <<runs, applied, said>>
    /\ \/ job' = Idle
       \/ /\ RowsWritten
          /\ NewJob(op, s, key, count.cmds + 1)
          /\ job'.stage # "start" => ~intent

\* A command is taken up again, under a new id or under that of its receipt.
Resuming(s, op, key) ==
    /\ job = Idle /\ s \in Sessions /\ op \in Ops \ {"start"} /\ key \in Keys
    /\ \A r \in Found(mem.rows[s], op, key) : r.env = "none"
    /\ UNCHANGED <<mem, disk, runs, applied, said>>
    /\ count' \in Counts /\ count'.dropped = count.dropped /\ count'.faults = count.faults
    /\ \/ NewJob(op, s, key, count.cmds + 1) /\ count'.cmds = count.cmds + 1
       \/ /\ op = "cancel" /\ count'.cmds = count.cmds
          /\ \E r \in Found(mem.rows[s], op, key) : NewJob(op, s, key, r.cmd)
          /\ job'.stage # "start"

\* The receipt of a command is given its answer and the verb ends.
Revising(s, new, c, phase, env) ==
    /\ s \in Sessions /\ new \in Rows /\ c \in 1..count.cmds
    /\ phase \in {"deferred", "completed"} /\ env \in Envelopes \ {"none"}
    /\ HasCmd(mem.rows[s], c) /\ Revised(mem.rows[s], new, c, phase, env)
    /\ Saved(s, new, 0)
    /\ job.stage # "flush" /\ job' = Idle
    /\ UNCHANGED <<runs, applied>>
    /\ new.start = mem.rows[s].start
    /\ new.runNo = mem.rows[s].runNo /\ new.turnNo = mem.rows[s].turnNo
    /\ new.state = mem.rows[s].state \/ (mem.rows[s].state # "none" /\ new.state = "closed")
    /\ new.run \in {NoRun, mem.rows[s].run}
    /\ \/ new.intent = NoIntent /\ new.state = "closed"
       \/ new.intent = mem.rows[s].intent /\ mem.rows[s].intent.cmd # c
       \/ /\ mem.rows[s].intent.cmd = c /\ new.intent = [cmd |-> c, phase |-> "deferred"]
          /\ phase = "deferred"
    /\ \A r \in Receipts(mem.rows[s]) : r.cmd = c =>
           /\ count.faults = 0 /\ InWindow => r.env = "none"
           /\ env = "committed" => r.op \in {"respond", "cancel"}
    /\ \/ said' = said
       \/ /\ RowsWritten
          /\ \E r \in Receipts(mem.rows[s]) :
                 /\ r.cmd = c
                 /\ said' = said \cup {[op |-> r.op, s |-> s, key |-> r.key, env |-> env]}

SameJob == job'.op = job.op /\ job'.s = job.s /\ job'.key = job.key /\ job'.cmd = job.cmd /\ job'.run = job.run

\* The row and the turn of a command are made, and the turns written.
Completing(new) ==
    /\ job.stage \in {"bind", "turn"}
    /\ new \in Rows /\ HasCmd(Row, job.cmd)
    /\ Revised(Row, new, job.cmd, "completed", "committed")
    /\ mem' \in Files /\ disk' \in Files
    /\ mem'.rows[job.s] = new
    /\ \A t \in Sessions : t # job.s => mem'.rows[t] = mem.rows[t]
    /\ mem'.turns = WithTurn(mem.turns, job.s, <<job.op, job.key>>)
    /\ disk'.rows = disk.rows
    /\ CountedTo(0)
    /\ job' \in Jobs /\ SameJob
    /\ \/ /\ disk'.turns = mem'.turns /\ count'.faults = count.faults /\ job'.stage = "flush"
       \/ /\ disk' = disk /\ count'.faults = count.faults + 1 /\ job'.stage = "freeze"
    /\ UNCHANGED <<runs, applied, said>>
    /\ new.start = Row.start /\ new.turnNo = Row.turnNo + 1
    /\ \/ /\ job.stage = "bind" /\ new.state = "active" /\ new.run = job.run
          /\ new.runNo = Row.runNo + 1 /\ new.intent = NoIntent
       \/ /\ job.stage = "turn" /\ new.state = Row.state /\ new.run = Row.run
          /\ new.runNo = Row.runNo /\ new.intent = Row.intent

\* The rows are written after the turns.
Writing ==
    /\ job.stage = "flush"
    /\ mem' = mem /\ disk' \in Files /\ disk'.turns = disk.turns
    /\ CountedTo(0)
    /\ UNCHANGED <<runs, applied>>
    /\ \/ /\ RowsWritten /\ job' = Idle
          /\ said' = said \cup {[op |-> job.op, s |-> job.s, key |-> job.key, env |-> "committed"]}
       \/ /\ RowsUnwritten /\ said' = said
          /\ job' \in Jobs /\ SameJob /\ job'.stage = "freeze"

\* The kernel answered, refused, or was not reached; or the row was no longer there.
Calling ==
    /\ job.stage \in {"start", "steer", "respond", "cancel", "bind", "turn"}
    /\ UNCHANGED <<mem, disk, said, count>>
    /\ job' \in Jobs /\ SameJob
    /\ job'.stage \in {"bind", "turn", "settle", "freeze"}
    /\ job'.stage = "bind" => job.stage = "start" /\ runs'[job.run] # "none"
    /\ job'.stage = "turn" => job.stage = "steer" /\ Request \in applied'
    /\ job'.stage = "settle" =>
           /\ job.stage \in {"steer", "respond", "cancel"}
           /\ job'.env = "rejected" \/ (job'.env = "committed" /\ job.op \in {"respond", "cancel"})
    /\ runs' \in [RunKeys -> {"none", "running", "waiting", "ended", "blocked"}]
    /\ \A x \in RunKeys : runs[x] # "none" => runs'[x] # "none"
    /\ \A x \in RunKeys : runs'[x] # "none" =>
           runs[x] # "none" \/ (x = job.run /\ job.stage = "start")
    /\ \/ applied' = applied
       \/ applied' = applied \cup {Request} /\ job.stage \in {"steer", "respond", "cancel"}

\* An answer is repeated from memory.
Replaying ==
    /\ job = Idle
    /\ UNCHANGED <<mem, disk, runs, applied, job, count>>
    /\ \E op \in Ops, s \in Sessions, key \in Keys, env \in Envelopes \ {"none"} :
           /\ said' = said \cup {[op |-> op, s |-> s, key |-> key, env |-> env]}
           /\ \/ \E r \in Receipts(mem.rows[s]) : r.op = op /\ r.key = key /\ r.env = env
              \/ /\ mem.rows[s].state # "none" /\ mem.rows[s].start = key
                 /\ Found(mem.rows[s], "start", key) = {}

\* A verb ends without an answer, or a run moves on.
Resting ==
    /\ UNCHANGED <<mem, disk, applied, said, count>>
    /\ runs' \in [RunKeys -> {"none", "running", "waiting", "ended", "blocked"}]
    /\ \A x \in RunKeys : runs'[x] # "none" <=> runs[x] # "none"
    /\ job' = job \/ (job' = Idle /\ job.stage # "flush")

Crashing ==
    /\ mem' = disk /\ job' = Idle
    /\ UNCHANGED <<disk, runs, applied, said>>
    /\ count' \in Counts /\ count'.cmds = count.cmds /\ count'.faults = count.faults
    /\ count'.dropped = count.dropped

\* The types of the job and of the row it works on.
LEMMA JobTypes ==
    ASSUME Typed
    PROVE  /\ job.stage \in Stages
           /\ job.stage = "idle" <=> job = Idle
           /\ job.stage # "idle" =>
                  /\ job.op \in Ops /\ job.s \in Sessions /\ job.key \in Keys /\ job.cmd \in Nat
                  /\ job.run \in RunKeys \cup {NoRun} /\ job.env \in Envelopes
                  /\ Row \in Rows
  <1>1. CASE job = Idle
    BY <1>1 DEF Idle, Stages
  <1>2. CASE job # Idle
    <2>1. job \in [stage : Stages \ {"idle"}, op : Ops, s : Sessions, key : Keys, cmd : Nat,
                   run : RunKeys \cup {NoRun}, env : Envelopes]
      BY <1>2 DEF Typed, Jobs
    <2>2. Row \in Rows
      BY <2>1 DEF Typed, Files, Row
    <2> QED
      BY <1>2, <2>1, <2>2 DEF Stages
  <1> QED
    BY <1>1, <1>2

\* A save replaces one row.
LEMMA SaveSaves ==
    ASSUME Typed, NEW s \in Sessions, NEW new \in Rows, NEW ids \in Nat, NEW ok \in BOOLEAN,
           Save(WithRow(s, new), ids, ok)
    PROVE  /\ Saved(s, new, ids)
           /\ ok => RowsWritten
  <1> DEFINE m == WithRow(s, new)
             rows == [mem.rows EXCEPT ![s] = new]
  <1>1. mem' = m /\ disk' = (IF ok THEN [disk EXCEPT !.rows = m.rows] ELSE disk) /\ Counted(m, ids, ok)
    BY DEF Save
  <1>2. rows \in [Sessions -> Rows] /\ rows[s] = new /\ \A t \in Sessions : t # s => rows[t] = mem.rows[t]
    BY DEF Typed, Files
  <1>3. m \in Files /\ m.rows = rows /\ m.turns = mem.turns
    BY <1>2 DEF Typed, Files, WithRow
  <1> HIDE DEF m, rows
  <1>4. /\ count' \in Counts
        /\ count'.cmds = count.cmds + ids
        /\ ok => count'.faults = count.faults
        /\ ~ok => count'.faults = count.faults + 1
        /\ ~count'.dropped => /\ ~count.dropped
                              /\ \A t \in Sessions : \A r \in Receipts(mem.rows[t]) : HasCmd(m.rows[t], r.cmd)
    <2> DEFINE faults == IF ok THEN count.faults ELSE count.faults + 1
               lost == \E t \in Sessions : \E r \in Receipts(mem.rows[t]) : ~HasCmd(m.rows[t], r.cmd)
               cmds == count.cmds + ids
    <2>1. count' = [count EXCEPT !.cmds = cmds, !.faults = faults, !.dropped = count.dropped \/ lost]
      BY <1>1 DEF Counted
    <2>2. cmds \in 0..MaxCommands /\ cmds = count.cmds + ids
      BY <1>1, SessionConstants DEF Counted, Typed
    <2>3. faults \in Nat /\ (ok => faults = count.faults) /\ (~ok => faults = count.faults + 1)
      BY DEF Typed
    <2>4. count.dropped \in BOOLEAN /\ (count.dropped \/ lost) \in BOOLEAN
      BY DEF Typed
    <2>5. ~lost => \A t \in Sessions : \A r \in Receipts(mem.rows[t]) : HasCmd(m.rows[t], r.cmd)
      OBVIOUS
    <2> HIDE DEF faults, lost, cmds
    <2>6. /\ count' \in Counts /\ count'.cmds = cmds /\ count'.faults = faults
          /\ count'.dropped = (count.dropped \/ lost)
      BY <2>1, <2>2, <2>3, <2>4 DEF Typed, Counts
    <2> QED
      BY <2>2, <2>3, <2>5, <2>6
  <1>5. /\ disk' \in Files /\ disk'.turns = disk.turns
        /\ ok => disk'.rows = m.rows
        /\ ~ok => disk'.rows = disk.rows
    BY <1>1, <1>3 DEF Typed, Files
  <1> QED
    BY <1>1, <1>2, <1>3, <1>4, <1>5 DEF Saved, RowsWritten, RowsUnwritten, CountedTo

\* Each action is a step of one of the kinds.
LEMMA BeginStartKind ==
    ASSUME Typed, NEW s \in Sessions, NEW key \in Keys, NEW ok \in BOOLEAN, BeginStart(s, key, ok)
    PROVE  Starting(s, key)
  <1> DEFINE cmd == count.cmds + 1
  <1>1. cmd \in Nat
    BY DEF Typed
  <1>2. NewRow(key, cmd) \in Rows
    BY <1>1, FirstRow
  <1>3. Saved(s, NewRow(key, cmd), 1) /\ (ok => RowsWritten)
    BY <1>2, SaveSaves DEF BeginStart
  <1>5. (ok /\ job' = StartJob(s, key, cmd)) \/ job' = Idle
    BY DEF BeginStart
  <1> QED
    BY <1>3, <1>5 DEF BeginStart, Starting

\* Freezing the receipt of a command.
LEMMA FreezeRevises ==
    ASSUME Typed, RowsOK(mem.rows), NEW s \in Sessions, NEW cmd \in Nat, NEW ok \in BOOLEAN,
           HasCmd(mem.rows[s], cmd), Flush(WithRow(s, Frozen(mem.rows[s], cmd)), ok),
           job.stage # "flush", job' = Idle, UNCHANGED <<runs, applied>>,
           \A r \in Receipts(mem.rows[s]) : r.cmd = cmd => (count.faults = 0 /\ InWindow => r.env = "none"),
           \/ said' = said
           \/ /\ ok
              /\ \E r \in Receipts(mem.rows[s]) :
                     /\ r.cmd = cmd
                     /\ said' = said \cup {[op |-> r.op, s |-> s, key |-> r.key, env |-> "deferred"]}
    PROVE  Revising(s, Frozen(mem.rows[s], cmd), cmd, "deferred", "deferred")
  <1> DEFINE row == mem.rows[s]
             new == Frozen(row, cmd)
  <1>1. row \in Rows
    BY DEF Typed, Files
  <1>2. /\ new \in Rows
        /\ Revised(row, new, cmd, "deferred", "deferred")
        /\ new.state = row.state /\ new.start = row.start /\ new.run = row.run
        /\ new.runNo = row.runNo /\ new.turnNo = row.turnNo
        /\ new.intent = IF row.intent.cmd = cmd THEN [cmd |-> cmd, phase |-> "deferred"]
                                                ELSE row.intent
    BY <1>1, FrozenRow
  <1>3. Saved(s, new, 0) /\ (ok => RowsWritten)
    BY <1>2, SaveSaves DEF Flush
  <1>4. cmd \in 1..count.cmds
    BY DEF RowsOK, RowOK, HasCmd
  <1>5. row = mem.rows[s]
    OBVIOUS
  <1> HIDE DEF row, new
  <1>6. Revising(s, new, cmd, "deferred", "deferred")
    BY <1>2, <1>3, <1>4, <1>5 DEF Revising, Envelopes
  <1> QED
    BY <1>5, <1>6 DEF new

\* A repeated start key replays an answer, or freezes the receipt that has none.
LEMMA ReplayStartKind ==
    ASSUME Typed, RowsOK(mem.rows), NEW s \in Sessions, NEW key \in Keys, NEW ok \in BOOLEAN,
           ReplayStart(s, key, ok)
    PROVE  Replaying \/ \E new, c, phase, env : Revising(s, new, c, phase, env)
  <1>1. mem.rows[s] \in Rows
    BY DEF Typed, Files
  <1>2. mem.rows[s].state # "none" /\ mem.rows[s].start = key
    BY DEF ReplayStart, Started
  <1>3. \A r \in Found(mem.rows[s], "start", key) :
            /\ r \in Receipts(mem.rows[s]) /\ r.op = "start" /\ r.key = key
            /\ r.env \in Envelopes /\ r.cmd \in Nat
    BY <1>1, ReceiptTypes DEF Found, ReceiptSet
  <1>4. CASE \E r \in Found(mem.rows[s], "start", key) :
                 /\ r.env # "none" /\ Answer("start", s, key, r.env)
                 /\ UNCHANGED <<mem, disk, count>>
    <2>1. PICK r \in Found(mem.rows[s], "start", key) :
              r.env # "none" /\ Answer("start", s, key, r.env)
      BY <1>4
    <2>2. r.env \in Envelopes \ {"none"} /\ "start" \in Ops
      BY <1>3, <2>1 DEF Ops
    <2>3. \E e \in Receipts(mem.rows[s]) : e.op = "start" /\ e.key = key /\ e.env = r.env
      BY <1>3
    <2> DEFINE env == r.env
    <2>4. said' = said \cup {[op |-> "start", s |-> s, key |-> key, env |-> env]}
      BY <2>1 DEF Answer
    <2>5. \E op \in Ops, t \in Sessions, k \in Keys, e \in Envelopes \ {"none"} :
             /\ said' = said \cup {[op |-> op, s |-> t, key |-> k, env |-> e]}
             /\ \E q \in Receipts(mem.rows[t]) : q.op = op /\ q.key = k /\ q.env = e
      BY <2>2, <2>3, <2>4
    <2> QED
      BY <1>4, <2>5 DEF ReplayStart, Replaying
  <1>5. CASE \E r \in Found(mem.rows[s], "start", key) :
                 /\ r.env = "none"
                 /\ Flush(WithRow(s, Frozen(mem.rows[s], r.cmd)), ok)
                 /\ IF ok THEN Answer("start", s, key, "deferred") ELSE UNCHANGED said
    <2>1. PICK r \in Found(mem.rows[s], "start", key) :
              /\ r.env = "none"
              /\ Flush(WithRow(s, Frozen(mem.rows[s], r.cmd)), ok)
              /\ IF ok THEN Answer("start", s, key, "deferred") ELSE UNCHANGED said
      BY <1>5
    <2>2. HasCmd(mem.rows[s], r.cmd)
      BY <1>3 DEF HasCmd
    <2>3. \A q \in Receipts(mem.rows[s]) : q.cmd = r.cmd => q = r
      BY <1>3 DEF RowsOK, RowOK
    <2>4. job = Idle /\ job' = Idle /\ UNCHANGED <<runs, applied>> /\ job.stage # "flush"
      BY DEF ReplayStart, Idle
    <2>5. \/ said' = said
          \/ /\ ok
             /\ \E q \in Receipts(mem.rows[s]) :
                    /\ q.cmd = r.cmd
                    /\ said' = said \cup {[op |-> q.op, s |-> s, key |-> q.key, env |-> "deferred"]}
      BY <1>3, <2>1 DEF Answer
    <2>6. Revising(s, Frozen(mem.rows[s], r.cmd), r.cmd, "deferred", "deferred")
      BY <1>3, <2>1, <2>2, <2>3, <2>4, <2>5, FreezeRevises
    <2> QED
      BY <2>6
  <1>6. CASE /\ Found(mem.rows[s], "start", key) = {}
             /\ Answer("start", s, key, "deferred")
             /\ UNCHANGED <<mem, disk, count>>
    <2>1. "start" \in Ops /\ "deferred" \in Envelopes \ {"none"}
      BY DEF Ops, Envelopes
    <2>2. said' = said \cup {[op |-> "start", s |-> s, key |-> key, env |-> "deferred"]}
      BY <1>6 DEF Answer
    <2>3. \E op \in Ops, t \in Sessions, k \in Keys, e \in Envelopes \ {"none"} :
             /\ said' = said \cup {[op |-> op, s |-> t, key |-> k, env |-> e]}
             /\ mem.rows[t].state # "none" /\ mem.rows[t].start = k
             /\ Found(mem.rows[t], "start", k) = {}
      BY <1>2, <1>6, <2>1, <2>2
    <2> QED
      BY <1>6, <2>3 DEF ReplayStart, Replaying
  <1> QED
    BY <1>4, <1>5, <1>6 DEF ReplayStart

\* A repeated key of another verb replays its answer.
LEMMA ReplayCommandKind ==
    ASSUME Typed, NEW op \in Ops, NEW s \in Sessions, NEW key \in Keys, ReplayCommand(op, s, key)
    PROVE  Replaying
  <1>1. mem.rows[s] \in Rows
    BY DEF Typed, Files
  <1>2. PICK r \in Found(mem.rows[s], op, key) : r.env # "none" /\ Answer(op, s, key, r.env)
    BY DEF ReplayCommand
  <1>3. r \in Receipts(mem.rows[s]) /\ r.op = op /\ r.key = key /\ r.env \in Envelopes \ {"none"}
    BY <1>1, <1>2, ReceiptTypes DEF Found, ReceiptSet
  <1> DEFINE env == r.env
  <1>4. said' = said \cup {[op |-> op, s |-> s, key |-> key, env |-> env]}
    BY <1>2 DEF Answer
  <1>5. \E o \in Ops, t \in Sessions, k \in Keys, e \in Envelopes \ {"none"} :
           /\ said' = said \cup {[op |-> o, s |-> t, key |-> k, env |-> e]}
           /\ \E q \in Receipts(mem.rows[t]) : q.op = o /\ q.key = k /\ q.env = e
    BY <1>3, <1>4
  <1> QED
    BY <1>5 DEF ReplayCommand, Replaying

\* begin_command opens a receipt, or finds one and goes on.
LEMMA BeginCommandKind ==
    ASSUME Typed, NEW op \in Ops \ {"start"}, NEW s \in Sessions, NEW key \in Keys,
           NEW stage \in {"start", "steer", "respond", "cancel", "settle"},
           NEW run \in {NoRun, mem.rows[s].run, <<s, op, key>>}, NEW env \in Envelopes,
           NEW intent \in BOOLEAN, NEW ok \in BOOLEAN,
           Asked(op, s, key), BeginCommand(op, s, key, stage, run, env, intent, ok),
           run \in RunKeys \cup {NoRun},
           intent => mem.rows[s].intent = NoIntent /\ op = "steer",
           stage # "start" => ~intent,
           stage = "start" => op = "steer" /\ run = <<s, op, key>>,
           stage \in {"steer", "respond", "cancel"} =>
               op = stage /\ run \in RunKeys /\ runs[run] # "none",
           stage = "settle" => env = "rejected" \/ (env = "committed" /\ op = "cancel")
    PROVE  Opening(s, op, key, intent) \/ Resuming(s, op, key)
  <1> DEFINE row == mem.rows[s]
             cmd == count.cmds + 1
             next == [stage |-> stage, op |-> op, s |-> s, key |-> key, cmd |-> cmd,
                      run |-> run, env |-> env]
  <1>1. row \in Rows /\ cmd \in Nat
    BY DEF Typed, Files
  <1>2. job = Idle /\ row.state # "none" /\ \A r \in Found(row, op, key) : r.env = "none"
    BY DEF Asked
  <1>3. next \in Jobs
    BY <1>1 DEF Jobs, Stages
  <1>4. ASSUME job' = next
        PROVE  NewJob(op, s, key, cmd) /\ (job'.stage # "start" => ~intent)
    BY <1>3, <1>4 DEF NewJob
  <1>5. CASE /\ Found(row, op, key) = {}
             /\ Save(WithRow(s, Opened(row, op, key, cmd, intent)), 1, ok)
             /\ job' = IF ok THEN next ELSE Idle
             /\ UNCHANGED <<runs, applied, said>>
    <2>1. Opened(row, op, key, cmd, intent) \in Rows
      <3>1. op \in Ops
        OBVIOUS
      <3> HIDE DEF row, cmd
      <3> DEFINE new == Opened(row, op, key, cmd, intent)
      <3>2. new = Opened(row, op, key, cmd, intent)
        OBVIOUS
      <3> HIDE DEF new
      <3>3. new \in Rows
        BY <1>1, <3>1, <3>2, OpenedRow
      <3> QED
        BY <3>2, <3>3
    <2>2. Saved(s, Opened(row, op, key, cmd, intent), 1) /\ (ok => RowsWritten)
      BY <1>5, <2>1, SaveSaves
    <2>3. job' = Idle \/ (RowsWritten /\ job' = next)
      BY <1>5, <2>2
    <2> HIDE DEF next, cmd
    <2>4. job' = Idle \/ (RowsWritten /\ NewJob(op, s, key, cmd) /\ (job'.stage # "start" => ~intent))
      BY <1>4, <2>3
    <2> QED
      BY <1>2, <1>5, <2>2, <2>4 DEF Opening, cmd
  <1>6. CASE /\ Found(row, op, key) # {}
             /\ Counted(mem, 1, TRUE)
             /\ job' = next
             /\ UNCHANGED <<mem, disk>>
             /\ UNCHANGED <<runs, applied, said>>
    <2>1. ~ \E t \in Sessions : \E r \in Receipts(mem.rows[t]) : ~HasCmd(mem.rows[t], r.cmd)
      BY DEF HasCmd
    <2> DEFINE lost == \E t \in Sessions : \E r \in Receipts(mem.rows[t]) : ~HasCmd(mem.rows[t], r.cmd)
    <2>2. count' = [count EXCEPT !.cmds = cmd, !.faults = count.faults, !.dropped = count.dropped \/ lost]
      BY <1>6 DEF Counted
    <2>3. cmd \in 0..MaxCommands
      BY <1>1, <1>6, SessionConstants DEF Counted, Typed
    <2>4. (count.dropped \/ lost) = count.dropped /\ count.dropped \in BOOLEAN
      BY <2>1 DEF Typed
    <2> HIDE DEF lost, cmd
    <2>5. /\ count' \in Counts /\ count'.cmds = cmd /\ count'.faults = count.faults
          /\ count'.dropped = count.dropped
      BY <2>2, <2>3, <2>4 DEF Typed, Counts
    <2> QED
      BY <1>2, <1>4, <1>6, <2>5 DEF Resuming, cmd
  <1> QED
    BY <1>5, <1>6 DEF BeginCommand

\* The run of a session whose status is known.
LEMMA StatusKnown ==
    ASSUME Typed, NEW s \in Sessions, NEW st, Status(mem.rows[s]) = st, st # "none"
    PROVE  mem.rows[s].run \in RunKeys /\ runs[mem.rows[s].run] = st
  <1>1. mem.rows[s].run \in RunKeys \cup {NoRun}
    BY DEF Typed, Files, Rows
  <1> QED
    BY <1>1 DEF Status

\* steer opens a command or takes it up again.
LEMMA SteerKind ==
    ASSUME Typed, NEW s \in Sessions, NEW key \in Keys, NEW ok \in BOOLEAN,
           SteerRejected(s, key, ok) \/ SteerNewRun(s, key, ok) \/ SteerActive(s, key, ok)
    PROVE  (\E intent : Opening(s, "steer", key, intent)) \/ Resuming(s, "steer", key)
  <1>1. "steer" \in Ops \ {"start"} /\ mem.rows[s].run \in RunKeys \cup {NoRun}
    BY DEF Ops, Typed, Files, Rows
  <1>2. CASE SteerRejected(s, key, ok)
    <2>1. /\ Asked("steer", s, key)
          /\ BeginCommand("steer", s, key, "settle", NoRun, "rejected", FALSE, ok)
      BY <1>2 DEF SteerRejected
    <2>2. "rejected" \in Envelopes
      BY DEF Envelopes
    <2>3. Opening(s, "steer", key, FALSE) \/ Resuming(s, "steer", key)
      BY <1>1, <2>1, <2>2, BeginCommandKind
    <2> QED
      BY <2>3
  <1>3. CASE SteerNewRun(s, key, ok)
    <2>1. /\ Asked("steer", s, key) /\ mem.rows[s].intent = NoIntent
          /\ BeginCommand("steer", s, key, "start", <<s, "steer", key>>, "none", TRUE, ok)
      BY <1>3 DEF SteerNewRun, Setup
    <2>2. "none" \in Envelopes /\ <<s, "steer", key>> \in RunKeys
      BY DEF Envelopes, RunKeys
    <2>3. Opening(s, "steer", key, TRUE) \/ Resuming(s, "steer", key)
      BY <1>1, <2>1, <2>2, BeginCommandKind
    <2> QED
      BY <2>3
  <1>4. CASE SteerActive(s, key, ok)
    <2>1. /\ Asked("steer", s, key) /\ Status(mem.rows[s]) = "running"
          /\ BeginCommand("steer", s, key, "steer", mem.rows[s].run, "none", FALSE, ok)
      BY <1>4 DEF SteerActive
    <2>2. "none" \in Envelopes /\ mem.rows[s].run \in RunKeys /\ runs[mem.rows[s].run] # "none"
      BY <2>1, StatusKnown DEF Envelopes
    <2>3. Opening(s, "steer", key, FALSE) \/ Resuming(s, "steer", key)
      BY <1>1, <2>1, <2>2, BeginCommandKind
    <2> QED
      BY <2>3
  <1> QED
    BY <1>2, <1>3, <1>4

\* So does respond.
LEMMA RespondKind ==
    ASSUME Typed, NEW s \in Sessions, NEW key \in Keys, NEW ok \in BOOLEAN, BeginRespond(s, key, ok)
    PROVE  (\E intent : Opening(s, "respond", key, intent)) \/ Resuming(s, "respond", key)
  <1>1. "respond" \in Ops \ {"start"} /\ "none" \in Envelopes
    BY DEF Ops, Envelopes
  <1>2. /\ Asked("respond", s, key) /\ Status(mem.rows[s]) = "waiting"
        /\ BeginCommand("respond", s, key, "respond", mem.rows[s].run, "none", FALSE, ok)
    BY DEF BeginRespond
  <1>3. mem.rows[s].run \in RunKeys /\ runs[mem.rows[s].run] # "none"
    BY <1>2, StatusKnown
  <1>4. Opening(s, "respond", key, FALSE) \/ Resuming(s, "respond", key)
    BY <1>1, <1>2, <1>3, BeginCommandKind
  <1> QED
    BY <1>4

\* So does cancel, which may take up a receipt under its own id.
LEMMA CancelKind ==
    ASSUME Typed, NEW s \in Sessions, NEW key \in Keys, NEW ok \in BOOLEAN, BeginCancel(s, key, ok)
    PROVE  (\E intent : Opening(s, "cancel", key, intent)) \/ Resuming(s, "cancel", key)
  <1> DEFINE next == CancelStage(mem.rows[s])
             stage == next.stage
             env == next.env
             run == mem.rows[s].run
  <1>1. "cancel" \in Ops \ {"start"} /\ run \in RunKeys \cup {NoRun} /\ mem.rows[s] \in Rows
    BY DEF Ops, Typed, Files, Rows
  <1>2. /\ stage \in {"cancel", "settle"} /\ env \in Envelopes
        /\ stage = "cancel" => Status(mem.rows[s]) # "none"
        /\ stage = "settle" => env \in {"rejected", "committed"}
    BY DEF CancelStage, Envelopes
  <1>3. stage = "cancel" => run \in RunKeys /\ runs[run] # "none"
    BY <1>2, StatusKnown
  <1>4. Asked("cancel", s, key)
    BY DEF BeginCancel
  <1>5. CASE Found(mem.rows[s], "cancel", key) = {}
    <2>1. BeginCommand("cancel", s, key, stage, run, env, FALSE, ok)
      BY <1>5 DEF BeginCancel
    <2> HIDE DEF stage, env, run
    <2>2. run \in {NoRun, mem.rows[s].run, <<s, "cancel", key>>}
      BY DEF run
    <2>3. Opening(s, "cancel", key, FALSE) \/ Resuming(s, "cancel", key)
      BY ZenonT(60), <1>1, <1>2, <1>3, <1>4, <2>1, <2>2, BeginCommandKind
    <2> QED
      BY <2>3
  <1>6. CASE Found(mem.rows[s], "cancel", key) # {}
    <2>1. PICK r \in Found(mem.rows[s], "cancel", key) :
              /\ job' = [stage |-> stage, op |-> "cancel", s |-> s, key |-> key,
                         cmd |-> r.cmd, run |-> run, env |-> env]
              /\ UNCHANGED <<mem, disk, runs, applied, said, count>>
      BY <1>6 DEF BeginCancel
    <2>2. r.cmd \in Nat
      BY <1>1, ReceiptTypes DEF Found, ReceiptSet
    <2> HIDE DEF stage, env
    <2>3. job' \in Jobs
      BY <1>1, <1>2, <2>1, <2>2 DEF Jobs, Stages
    <2>4. NewJob("cancel", s, key, r.cmd) /\ job'.stage # "start"
      BY <1>2, <1>3, <2>1, <2>3 DEF NewJob
    <2>5. count' \in Counts /\ count'.cmds = count.cmds /\ count'.faults = count.faults
          /\ count'.dropped = count.dropped
      BY <2>1 DEF Typed, Counts
    <2>6. job = Idle /\ \A q \in Found(mem.rows[s], "cancel", key) : q.env = "none"
      BY <1>4 DEF Asked
    <2> QED
      BY <1>1, <2>1, <2>4, <2>5, <2>6 DEF Resuming
  <1> QED
    BY <1>5, <1>6

\* The fields of a job that only changes its stage, or its stage and its answer.
LEMMA StageChanged ==
    ASSUME Typed, job.stage # "idle", NEW stage \in Stages \ {"idle"}, NEW env \in Envelopes,
           \/ job' = [job EXCEPT !.stage = stage]
           \/ job' = [job EXCEPT !.stage = stage, !.env = env]
    PROVE  /\ job' \in Jobs /\ SameJob /\ job'.stage = stage
           /\ job' = [job EXCEPT !.stage = stage, !.env = env] => job'.env = env
  <1>1. job \in [stage : Stages \ {"idle"}, op : Ops, s : Sessions, key : Keys, cmd : Nat,
                 run : RunKeys \cup {NoRun}, env : Envelopes]
    BY JobTypes DEF Typed, Jobs
  <1> QED
    BY <1>1 DEF Jobs, SameJob

\* The call that starts a run.
LEMMA CallStartKind ==
    ASSUME Typed, JobOK, NEW ran \in BOOLEAN, CallStart(ran)
    PROVE  Calling
  <1>1. job.stage = "start" /\ job.run = <<job.s, job.op, job.key>> /\ job.op \in {"start", "steer"}
    BY DEF CallStart, JobOK
  <1>2. job.run \in RunKeys
    BY <1>1, JobTypes DEF RunKeys
  <1>3. PICK stage \in {"bind", "freeze"} : job' = [job EXCEPT !.stage = stage]
    BY DEF CallStart
  <1>4. job' \in Jobs /\ SameJob /\ job'.stage = stage
    BY <1>1, <1>3, StageChanged DEF Stages, Envelopes
  <1>5. /\ runs' \in [RunKeys -> {"none", "running", "waiting", "ended", "blocked"}]
        /\ runs'[job.run] # "none"
        /\ \A x \in RunKeys : x # job.run => runs'[x] = runs[x]
    <2>1. CASE runs[job.run] = "none"
      BY <1>2, <2>1 DEF CallStart, Typed
    <2>2. CASE runs[job.run] # "none"
      BY <2>2 DEF CallStart, Typed
    <2> QED
      BY <2>1, <2>2
  <1>6. \A x \in RunKeys : runs[x] # "none" => runs'[x] # "none"
    BY <1>5
  <1> QED
    BY <1>1, <1>3, <1>4, <1>5, <1>6 DEF CallStart, Calling

\* A call that does not reach the kernel, or is refused.
LEMMA CallFailsKind ==
    ASSUME Typed, JobOK, CallFails \/ CallRefused
    PROVE  Calling
  <1>1. job.stage \in {"start", "steer", "respond", "cancel"}
    BY DEF CallFails, CallRefused
  <1>2. UNCHANGED <<mem, disk, runs, applied, said, count>>
    BY DEF CallFails, CallRefused
  <1>3. \/ job' = [job EXCEPT !.stage = "freeze"]
        \/ /\ job' = [job EXCEPT !.stage = "settle", !.env = "rejected"]
           /\ job.stage \in {"steer", "respond", "cancel"}
    <2>1. job.op = "respond" => job.stage # "start"
      BY <1>1 DEF JobOK
    <2> QED
      BY <2>1 DEF CallFails, CallRefused
  <1>4. /\ job' \in Jobs /\ SameJob
        /\ job'.stage = "freeze" \/ (/\ job'.stage = "settle" /\ job'.env = "rejected"
                                     /\ job.stage \in {"steer", "respond", "cancel"})
    BY <1>1, <1>3, StageChanged DEF Stages, Envelopes
  <1>5. runs' \in [RunKeys -> {"none", "running", "waiting", "ended", "blocked"}]
    BY <1>2 DEF Typed
  <1> QED
    BY <1>1, <1>2, <1>4, <1>5 DEF Calling

\* The call that queues a message.
LEMMA CallSteerKind ==
    ASSUME Typed, JobOK, NEW back \in BOOLEAN, CallSteer(back)
    PROVE  Calling
  <1>1. job.stage = "steer" /\ UNCHANGED <<mem, disk, runs, said, count>> /\ applied' = applied \cup {Request}
    BY DEF CallSteer
  <1>2. PICK stage \in {"turn", "freeze"} : job' = [job EXCEPT !.stage = stage]
    BY DEF CallSteer
  <1>3. job' \in Jobs /\ SameJob /\ job'.stage = stage
    BY <1>1, <1>2, StageChanged DEF Stages, Envelopes
  <1>4. runs' \in [RunKeys -> {"none", "running", "waiting", "ended", "blocked"}]
    BY <1>1 DEF Typed
  <1> QED
    BY <1>1, <1>3, <1>4 DEF Calling

\* A command the kernel takes for a run it has.
LEMMA TakenRuns ==
    ASSUME Typed, NEW st \in {"running", "ended"}, job.run \in StartedRuns,
           runs' = IF Request \in applied THEN runs ELSE [runs EXCEPT ![job.run] = st]
    PROVE  /\ runs' \in [RunKeys -> {"none", "running", "waiting", "ended", "blocked"}]
           /\ \A x \in RunKeys : runs[x] # "none" <=> runs'[x] # "none"
  <1>1. job.run \in RunKeys /\ runs[job.run] # "none"
    BY DEF StartedRuns
  <1>2. CASE Request \in applied
    BY <1>2 DEF Typed
  <1>3. CASE Request \notin applied
    <2>1. runs' = [runs EXCEPT ![job.run] = st]
      BY <1>3
    <2> QED
      BY <1>1, <2>1 DEF Typed
  <1> QED
    BY <1>2, <1>3

\* The call that answers a question.
LEMMA CallRespondKind ==
    ASSUME Typed, JobOK, KernelOK, NEW back \in BOOLEAN, CallRespond(back)
    PROVE  Calling
  <1>1. /\ job.stage = "respond" /\ UNCHANGED <<mem, disk, said, count>>
        /\ applied' = applied \cup {Request} /\ job.op = "respond"
    BY DEF CallRespond, JobOK
  <1>2. PICK env \in {"committed", "rejected"} : job' = [job EXCEPT !.stage = "settle", !.env = env]
    BY DEF CallRespond
  <1>3. job' \in Jobs /\ SameJob /\ job'.stage = "settle" /\ job'.env = env
    BY <1>1, <1>2, StageChanged DEF Stages, Envelopes
  <1>4. /\ runs' \in [RunKeys -> {"none", "running", "waiting", "ended", "blocked"}]
        /\ \A x \in RunKeys : runs[x] # "none" <=> runs'[x] # "none"
    BY <1>1, TakenRuns DEF CallRespond, KernelOK
  <1> QED
    BY <1>1, <1>3, <1>4 DEF Calling

\* The call that ends a run.
LEMMA CallCancelKind ==
    ASSUME Typed, JobOK, KernelOK, NEW back \in BOOLEAN, CallCancel(back)
    PROVE  Calling
  <1>1. /\ job.stage = "cancel" /\ UNCHANGED <<mem, disk, said, count>>
        /\ applied' = applied \cup {Request} /\ job.op = "cancel"
    BY DEF CallCancel, JobOK
  <1>2. \/ job' = [job EXCEPT !.stage = "settle", !.env = "committed"]
        \/ job' = [job EXCEPT !.stage = "freeze"]
    BY DEF CallCancel
  <1>3. /\ job' \in Jobs /\ SameJob
        /\ job'.stage = "freeze" \/ (job'.stage = "settle" /\ job'.env = "committed")
    BY <1>1, <1>2, StageChanged DEF Stages, Envelopes
  <1>4. /\ runs' \in [RunKeys -> {"none", "running", "waiting", "ended", "blocked"}]
        /\ \A x \in RunKeys : runs[x] # "none" <=> runs'[x] # "none"
    BY <1>1, TakenRuns DEF CallCancel, KernelOK
  <1> QED
    BY <1>1, <1>3, <1>4 DEF Calling

\* Turns stay a bounded sequence per session.
LEMMA TurnAdded ==
    ASSUME NEW turns \in [Sessions -> Seq({"start", "steer"} \X Keys)], NEW s \in Sessions,
           NEW turn \in {"start", "steer"} \X Keys, Len(turns[s]) <= MaxTurns
    PROVE  /\ WithTurn(turns, s, turn) \in [Sessions -> Seq({"start", "steer"} \X Keys)]
           /\ \A t \in Sessions : t # s => WithTurn(turns, s, turn)[t] = turns[t]
           /\ Len(WithTurn(turns, s, turn)[s]) <= MaxTurns
           /\ \E i \in DOMAIN WithTurn(turns, s, turn)[s] : WithTurn(turns, s, turn)[s][i] = turn
           /\ \/ Len(WithTurn(turns, s, turn)[s]) = MaxTurns
              \/ \A i \in DOMAIN turns[s] : /\ i \in DOMAIN WithTurn(turns, s, turn)[s]
                                            /\ WithTurn(turns, s, turn)[s][i] = turns[s][i]
  <1> DEFINE T == {"start", "steer"} \X Keys
             old == turns[s]
             all == Append(old, turn)
             new == IF Len(all) > MaxTurns THEN Tail(all) ELSE all
  <1>1. old \in Seq(T) /\ Len(old) \in Nat /\ DOMAIN old = 1..Len(old) /\ MaxTurns \in Nat \ {0}
    BY SessionConstants
  <1>2. /\ all \in Seq(T) /\ Len(all) = Len(old) + 1 /\ DOMAIN all = 1..(Len(old) + 1)
        /\ all[Len(old) + 1] = turn
        /\ \A i \in 1..Len(old) : all[i] = old[i]
    <2> HIDE DEF old, T
    <2>1. turn \in T
      BY DEF T
    <2> QED
      BY <1>1, <2>1
  <1>3. WithTurn(turns, s, turn) = [turns EXCEPT ![s] = new]
    BY DEF WithTurn
  <1>4. Len(old) <= MaxTurns
    OBVIOUS
  <1> HIDE DEF old, all, T
  <1>5. CASE Len(all) > MaxTurns
    <2>1. new = Tail(all) /\ Len(old) = MaxTurns /\ all # <<>>
      <3>1. new = Tail(all)
        BY <1>5
      <3>2. Len(old) = MaxTurns /\ Len(all) # 0
        BY <1>1, <1>2, <1>4, <1>5
      <3>3. all # <<>>
        BY <3>2
      <3> QED
        BY <3>1, <3>2, <3>3
    <2>2. new \in Seq(T) /\ Len(new) = Len(old) /\ \A i \in 1..Len(old) : new[i] = all[i + 1]
      BY <1>1, <1>2, <2>1
    <2>3. Len(old) \in DOMAIN new /\ new[Len(old)] = turn
      BY <1>1, <1>2, <2>1, <2>2
    <2> HIDE DEF new
    <2>4. /\ new \in Seq(T) /\ Len(new) = MaxTurns
          /\ \E i \in DOMAIN new : new[i] = turn
      BY <2>1, <2>2, <2>3
    <2> QED
      BY <1>3, <2>4 DEF T
  <1>6. CASE ~(Len(all) > MaxTurns)
    <2>1. new = all
      BY <1>6
    <2>2. /\ all \in Seq(T) /\ Len(all) <= MaxTurns /\ \E i \in DOMAIN all : all[i] = turn
          /\ \A i \in DOMAIN old : i \in DOMAIN all /\ all[i] = old[i]
      BY <1>1, <1>2, <1>6
    <2> HIDE DEF new
    <2> QED
      BY <1>3, <2>1, <2>2 DEF T, old
  <1> QED
    BY <1>5, <1>6

\* The first write of a completed command, when the row still has it.
LEMMA WriteTurnsKind ==
    ASSUME Typed, TurnsBounded(mem), RowsOK(mem.rows), JobOK, NEW ok \in BOOLEAN, WriteTurns(ok)
    PROVE  Calling \/ \E new : Completing(new)
  <1>1. /\ job.stage \in {"bind", "turn"} /\ job.stage # "idle"
        /\ job.op \in {"start", "steer"} /\ job.s \in Sessions /\ job.key \in Keys /\ job.cmd \in Nat
        /\ Row \in Rows /\ Row = mem.rows[job.s] /\ RowOK(Row, count.cmds)
        /\ job.cmd \in 1..count.cmds
    BY JobTypes DEF WriteTurns, JobOK, Row, RowsOK
  <1>2. UNCHANGED <<runs, applied, said>>
    BY DEF WriteTurns
  <1>3. CASE ~Completes /\ job' = [job EXCEPT !.stage = "freeze"] /\ UNCHANGED <<mem, disk, count>>
    <2>1. job' \in Jobs /\ SameJob /\ job'.stage = "freeze"
      BY <1>1, <1>3, StageChanged DEF Stages, Envelopes
    <2>2. runs' \in [RunKeys -> {"none", "running", "waiting", "ended", "blocked"}]
      BY <1>2 DEF Typed
    <2> QED
      BY <1>1, <1>2, <1>3, <2>1, <2>2 DEF Calling
  <1>4. CASE /\ Completes
             /\ mem' = Complete
             /\ disk' = IF ok THEN [disk EXCEPT !.turns = Complete.turns] ELSE disk
             /\ Counted(Complete, 0, ok)
             /\ job' = [job EXCEPT !.stage = IF ok THEN "flush" ELSE "freeze"]
    <2> DEFINE new == IF job.stage = "bind" THEN Bound(Row, job.cmd, job.run)
                                            ELSE Steered(Row, job.cmd)
               rows == [mem.rows EXCEPT ![job.s] = new]
               turns == WithTurn(mem.turns, job.s, <<job.op, job.key>>)
    <2>1. /\ new \in Rows /\ Revised(Row, new, job.cmd, "completed", "committed")
          /\ new.start = Row.start /\ new.turnNo = Row.turnNo + 1
          /\ \/ /\ job.stage = "bind" /\ new.state = "active" /\ new.run = job.run
                /\ new.runNo = Row.runNo + 1 /\ new.intent = NoIntent
             \/ /\ job.stage = "turn" /\ new.state = Row.state /\ new.run = Row.run
                /\ new.runNo = Row.runNo /\ new.intent = Row.intent
      <3>1. CASE job.stage = "bind"
        <4>1. job.run \in RunKeys
          BY <1>1, <3>1 DEF JobOK, RunKeys
        <4>2. new = Bound(Row, job.cmd, job.run)
          BY <3>1
        <4> QED
          BY <1>1, <3>1, <4>1, <4>2, BoundRow
      <3>2. CASE job.stage = "turn"
        <4>2. new = Steered(Row, job.cmd)
          BY <3>2
        <4> HIDE DEF new
        <4> QED
          BY SMTT(90), <1>1, <3>2, <4>2, SteeredRow
      <3> QED
        BY <1>1, <3>1, <3>2
    <2>2. HasCmd(Row, job.cmd)
      <3>1. CASE job.stage = "bind"
        <4>1. Row.intent.cmd = job.cmd
          BY <1>4, <3>1 DEF Completes
        <4>2. Row.intent # NoIntent
          BY <1>1, <4>1 DEF NoIntent
        <4> QED
          BY <1>1, <4>1, <4>2 DEF RowOK, HasCmd
      <3>2. CASE job.stage = "turn"
        BY <1>4, <3>2 DEF Completes
      <3> QED
        BY <1>1, <3>1, <3>2
    <2>3. Complete = [rows |-> rows, turns |-> turns]
      BY DEF Complete
    <2> HIDE DEF new
    <2>4. rows \in [Sessions -> Rows] /\ rows[job.s] = new /\ \A t \in Sessions : t # job.s => rows[t] = mem.rows[t]
      BY <1>1, <2>1 DEF Typed, Files
    <2>5. turns \in [Sessions -> Seq({"start", "steer"} \X Keys)]
      BY <1>1, TurnAdded DEF Typed, Files, TurnsBounded
    <2> HIDE DEF rows, turns
    <2>6. Complete \in Files /\ Complete.rows = rows /\ Complete.turns = turns
      BY <2>3, <2>4, <2>5 DEF Files
    <2>7. /\ count' \in Counts /\ count'.cmds = count.cmds
          /\ ok => count'.faults = count.faults
          /\ ~ok => count'.faults = count.faults + 1
          /\ ~count'.dropped => /\ ~count.dropped
                                /\ \A t \in Sessions : \A r \in Receipts(mem.rows[t]) :
                                       HasCmd(Complete.rows[t], r.cmd)
      <3> DEFINE faults == IF ok THEN count.faults ELSE count.faults + 1
                 lost == \E t \in Sessions : \E r \in Receipts(mem.rows[t]) : ~HasCmd(Complete.rows[t], r.cmd)
                 cmds == count.cmds + 0
      <3>1. count' = [count EXCEPT !.cmds = cmds, !.faults = faults, !.dropped = count.dropped \/ lost]
        BY <1>4 DEF Counted
      <3>2. cmds \in 0..MaxCommands /\ cmds = count.cmds
        BY DEF Typed
      <3>3. faults \in Nat /\ (ok => faults = count.faults) /\ (~ok => faults = count.faults + 1)
        BY DEF Typed
      <3>4. count.dropped \in BOOLEAN /\ (count.dropped \/ lost) \in BOOLEAN
        BY DEF Typed
      <3>5. ~lost => \A t \in Sessions : \A r \in Receipts(mem.rows[t]) : HasCmd(Complete.rows[t], r.cmd)
        OBVIOUS
      <3> HIDE DEF faults, lost, cmds
      <3>6. /\ count' \in Counts /\ count'.cmds = cmds /\ count'.faults = faults
            /\ count'.dropped = (count.dropped \/ lost)
        BY <3>1, <3>2, <3>3, <3>4 DEF Typed, Counts
      <3> QED
        BY <3>2, <3>3, <3>5, <3>6
    <2>8. CountedTo(0)
      BY <1>4, <2>7 DEF CountedTo, Typed
    <2>9. /\ disk' \in Files /\ disk'.rows = disk.rows /\ job' \in Jobs /\ SameJob
          /\ \/ /\ disk'.turns = turns /\ count'.faults = count.faults /\ job'.stage = "flush"
             \/ /\ disk' = disk /\ count'.faults = count.faults + 1 /\ job'.stage = "freeze"
      <3>1. CASE ok
        <4>1. disk' = [disk EXCEPT !.turns = turns]
          BY <1>4, <2>6, <3>1
        <4>2. job' = [job EXCEPT !.stage = "flush"]
          BY <1>4, <3>1
        <4>3. job' \in Jobs /\ SameJob /\ job'.stage = "flush"
          BY <1>1, <4>2, StageChanged DEF Stages, Envelopes
        <4> QED
          BY <2>5, <2>7, <3>1, <4>1, <4>3 DEF Typed, Files
      <3>2. CASE ~ok
        <4>1. disk' = disk
          BY <1>4, <3>2
        <4>2. job' = [job EXCEPT !.stage = "freeze"]
          BY <1>4, <3>2
        <4>3. job' \in Jobs /\ SameJob /\ job'.stage = "freeze"
          BY <1>1, <4>2, StageChanged DEF Stages, Envelopes
        <4> QED
          BY <2>7, <3>2, <4>1, <4>3 DEF Typed
      <3> QED
        BY <3>1, <3>2
    <2>10. /\ mem' \in Files /\ mem'.rows[job.s] = new /\ mem'.turns = turns
           /\ \A t \in Sessions : t # job.s => mem'.rows[t] = mem.rows[t]
      BY <1>4, <2>4, <2>6
    <2>11. Completing(new)
      BY <1>1, <1>2, <2>1, <2>2, <2>8, <2>9, <2>10 DEF Completing, turns
    <2> QED
      BY <2>11
  <1> QED
    BY <1>3, <1>4 DEF WriteTurns

\* The second write of a completed command.
LEMMA WriteRowsKind ==
    ASSUME Typed, NEW ok \in BOOLEAN, WriteRows(ok)
    PROVE  Writing
  <1>1. job.stage = "flush" /\ UNCHANGED <<runs, applied>> /\ Save(mem, 0, ok)
    BY DEF WriteRows, Flush
  <1>2. job.s \in Sessions /\ mem.rows[job.s] \in Rows
    BY <1>1, JobTypes DEF Row
  <1>3. mem = WithRow(job.s, mem.rows[job.s])
    BY <1>2 DEF Typed, Files, WithRow
  <1>4. Save(WithRow(job.s, mem.rows[job.s]), 0, ok)
    BY <1>1, <1>3
  <1>5. Saved(job.s, mem.rows[job.s], 0) /\ (ok => RowsWritten)
    BY <1>2, <1>4, SaveSaves
  <1>6. mem' = mem /\ (~ok => count'.faults = count.faults + 1)
    BY <1>1 DEF Save, Counted, Typed
  <1>7. ~ok => RowsUnwritten
    BY <1>5, <1>6 DEF Saved, RowsWritten, RowsUnwritten, Typed
  <1>8. CASE ok
    BY <1>1, <1>5, <1>6, <1>8 DEF WriteRows, Answer, Writing, Saved
  <1>9. CASE ~ok
    <2>1. job' = [job EXCEPT !.stage = "freeze"] /\ said' = said
      BY <1>9 DEF WriteRows
    <2>2. job' \in Jobs /\ SameJob /\ job'.stage = "freeze"
      BY <1>1, <2>1, StageChanged DEF Stages, Envelopes
    <2> QED
      BY <1>1, <1>5, <1>6, <1>7, <1>9, <2>1, <2>2 DEF Writing, Saved
  <1> QED
    BY <1>8, <1>9

\* freeze_deferred and freeze_command revise the receipt of the verb.
LEMMA FreezeKind ==
    ASSUME Typed, RowsOK(mem.rows), JobOK, AnswersOK, NEW ok \in BOOLEAN, Freeze(ok)
    PROVE  \E s, new, c, phase, env : Revising(s, new, c, phase, env)
  <1>1. /\ job.stage = "freeze" /\ HasCmd(Row, job.cmd) /\ job' = Idle /\ UNCHANGED <<runs, applied>>
        /\ Flush(WithRow(job.s, Frozen(Row, job.cmd)), ok)
    BY DEF Freeze
  <1>2. job.s \in Sessions /\ job.cmd \in Nat /\ Row = mem.rows[job.s]
    BY <1>1, JobTypes DEF Row
  <1>3. \A r \in Receipts(Row) : r.cmd = job.cmd =>
            /\ r.op = job.op /\ r.key = job.key
            /\ count.faults = 0 /\ InWindow => r.env = "none"
    BY <1>1 DEF JobOK, AnswersOK, Kept
  <1>4. \/ said' = said
        \/ /\ ok
           /\ \E r \in Receipts(Row) :
                  /\ r.cmd = job.cmd
                  /\ said' = said \cup {[op |-> r.op, s |-> job.s, key |-> r.key, env |-> "deferred"]}
    <2>1. PICK r \in Receipts(Row) : r.cmd = job.cmd
      BY <1>1 DEF HasCmd
    <2> QED
      BY <1>3, <2>1 DEF Freeze, Answer
  <1>5. Revising(job.s, Frozen(mem.rows[job.s], job.cmd), job.cmd, "deferred", "deferred")
    BY <1>1, <1>2, <1>3, <1>4, FreezeRevises
  <1> QED
    BY <1>5

\* recover() revises the receipt of an intent.
LEMMA RecoverKind ==
    ASSUME Typed, RowsOK(mem.rows), NEW s \in Sessions, NEW ok \in BOOLEAN, Recover(s, ok)
    PROVE  \E t, new, c, phase, env : Revising(t, new, c, phase, env)
  <1> DEFINE cmd == mem.rows[s].intent.cmd
  <1>1. /\ job = Idle /\ job' = Idle /\ job.stage # "flush" /\ UNCHANGED <<runs, applied, said>>
        /\ HasCmd(mem.rows[s], cmd) /\ mem.rows[s].intent.phase = "intent"
        /\ Flush(WithRow(s, Frozen(mem.rows[s], cmd)), ok)
    BY DEF Recover, Idle
  <1>2. cmd \in Nat /\ mem.rows[s].intent # NoIntent
    BY <1>1 DEF Typed, Files, Rows, Intents, NoIntent
  <1>3. \A r \in Receipts(mem.rows[s]) : r.cmd = cmd => r.env = "none"
    BY <1>1, <1>2 DEF RowsOK, RowOK
  <1> HIDE DEF cmd
  <1>4. Revising(s, Frozen(mem.rows[s], cmd), cmd, "deferred", "deferred")
    BY <1>1, <1>2, <1>3, FreezeRevises
  <1> QED
    BY <1>4

\* complete_command revises the receipt of the verb.
LEMMA SettleKind ==
    ASSUME Typed, RowsOK(mem.rows), JobOK, AnswersOK, NEW ok \in BOOLEAN, Settle(ok)
    PROVE  \E s, new, c, phase, env : Revising(s, new, c, phase, env)
  <1> DEFINE closing == job.op = "cancel" /\ Row.state = "starting"
             new == Settled(Row, job.cmd, job.env, closing)
  <1>1. /\ job.stage = "settle" /\ HasCmd(Row, job.cmd) /\ job' = Idle /\ UNCHANGED <<runs, applied>>
        /\ Flush(WithRow(job.s, new), ok)
    BY DEF Settle
  <1>2. /\ job.s \in Sessions /\ job.cmd \in Nat /\ Row = mem.rows[job.s] /\ Row \in Rows
        /\ job.env \in {"rejected", "committed"} /\ job.env \in Envelopes
        /\ job.env = "committed" => job.op \in {"respond", "cancel"}
        /\ job.cmd \in 1..count.cmds /\ Row.intent.cmd # job.cmd
    BY <1>1, JobTypes DEF Row, JobOK
  <1>3. \A r \in Receipts(Row) : r.cmd = job.cmd =>
            /\ r.op = job.op /\ r.key = job.key
            /\ count.faults = 0 /\ InWindow => r.env = "none"
    BY <1>1 DEF JobOK, AnswersOK, Kept
  <1>4. closing \in BOOLEAN
    OBVIOUS
  <1>5. closing => Row.state = "starting"
    OBVIOUS
  <1>6. IF ok THEN Answer(job.op, job.s, job.key, job.env) ELSE UNCHANGED said
    BY DEF Settle
  <1> HIDE DEF closing
  <1>7. new = Settled(Row, job.cmd, job.env, closing)
    OBVIOUS
  <1> HIDE DEF new
  <1>8. /\ new \in Rows
        /\ Revised(Row, new, job.cmd, "completed", job.env)
        /\ new.start = Row.start
        /\ new.runNo = Row.runNo /\ new.turnNo = Row.turnNo
        /\ new.state = IF closing THEN "closed" ELSE Row.state
        /\ new.intent = IF closing THEN NoIntent ELSE Row.intent
        /\ new.run = IF closing THEN NoRun ELSE Row.run
    BY <1>2, <1>4, <1>7, SettledRow
  <1>9. Saved(job.s, new, 0) /\ (ok => RowsWritten)
    BY <1>1, <1>2, <1>8, SaveSaves DEF Flush
  <1>10. /\ new.state = Row.state \/ (Row.state # "none" /\ new.state = "closed")
         /\ new.run \in {NoRun, Row.run}
         /\ \/ new.intent = NoIntent /\ new.state = "closed"
            \/ new.intent = Row.intent
    BY <1>5, <1>8
  <1>11. \/ said' = said
         \/ /\ RowsWritten
            /\ \E r \in Receipts(Row) :
                   /\ r.cmd = job.cmd
                   /\ said' = said \cup {[op |-> r.op, s |-> job.s, key |-> r.key, env |-> job.env]}
    <2>1. PICK r \in Receipts(Row) : r.cmd = job.cmd
      BY <1>1 DEF HasCmd
    <2> QED
      BY <1>3, <1>6, <1>9, <2>1 DEF Answer
  <1>12. Revising(job.s, new, job.cmd, "completed", job.env)
    BY <1>1, <1>2, <1>3, <1>8, <1>9, <1>10, <1>11 DEF Revising
  <1> QED
    BY <1>12

\* A verb whose receipt is missing ends, and a run moves on.
LEMMA RestKind ==
    ASSUME Typed, ReceiptMissing \/ \E r \in RunKeys : RunMoves(r)
    PROVE  Resting
  <1>1. CASE ReceiptMissing
    BY <1>1 DEF ReceiptMissing, Resting, Typed
  <1>2. CASE \E r \in RunKeys : RunMoves(r)
    <2>1. PICK r \in RunKeys, st \in {"waiting", "ended", "blocked"} :
              /\ runs[r] \in {"running", "waiting"} /\ runs' = [runs EXCEPT ![r] = st]
              /\ UNCHANGED <<mem, disk, applied, job, said, count>>
      BY <1>2 DEF RunMoves
    <2> QED
      BY <2>1 DEF Typed, Resting
  <1> QED
    BY <1>1, <1>2

\* A restart loads the files.
LEMMA CrashKind ==
    ASSUME Typed, Crash
    PROVE  Crashing
  BY DEF Typed, Crash, Crashing, Counts

\* Every step is of one of the kinds.
Kinds ==
    \/ \E s, key : Starting(s, key)
    \/ \E s, op, key, intent : Opening(s, op, key, intent)
    \/ \E s, op, key : Resuming(s, op, key)
    \/ \E s, new, c, phase, env : Revising(s, new, c, phase, env)
    \/ \E new : Completing(new)
    \/ Writing
    \/ Calling
    \/ Replaying
    \/ Resting
    \/ Crashing

\* Every step is of one of the kinds.
LEMMA StepKinds ==
    ASSUME Inv, Next
    PROVE  Kinds
  <1> USE DEF Inv
  <1>1. CASE \E s \in Sessions, key \in Keys, ok \in BOOLEAN : Verb(s, key, ok)
    <2>1. PICK s \in Sessions, key \in Keys, ok \in BOOLEAN : Verb(s, key, ok)
      BY <1>1
    <2>2. CASE BeginStart(s, key, ok)
      BY <2>2, BeginStartKind DEF Kinds
    <2>3. CASE ReplayStart(s, key, ok)
      BY <2>3, ReplayStartKind DEF Kinds
    <2>4. CASE SteerRejected(s, key, ok) \/ SteerNewRun(s, key, ok) \/ SteerActive(s, key, ok)
      BY <2>4, SteerKind DEF Kinds
    <2>5. CASE BeginRespond(s, key, ok)
      BY <2>5, RespondKind DEF Kinds
    <2>6. CASE BeginCancel(s, key, ok)
      BY <2>6, CancelKind DEF Kinds
    <2> QED
      BY <2>1, <2>2, <2>3, <2>4, <2>5, <2>6 DEF Verb
  <1>2. CASE \E op \in Ops, s \in Sessions, key \in Keys : ReplayCommand(op, s, key)
    BY <1>2, ReplayCommandKind DEF Kinds
  <1>3. CASE \E back \in BOOLEAN : CallStart(back) \/ CallSteer(back) \/ CallRespond(back) \/ CallCancel(back)
    BY <1>3, CallStartKind, CallSteerKind, CallRespondKind, CallCancelKind DEF Kinds
  <1>4. CASE CallFails \/ CallRefused
    BY <1>4, CallFailsKind DEF Kinds
  <1>5. CASE \E ok \in BOOLEAN : WriteTurns(ok) \/ WriteRows(ok)
    BY <1>5, WriteTurnsKind, WriteRowsKind DEF Kinds
  <1>6. CASE \E ok \in BOOLEAN : Freeze(ok) \/ Settle(ok)
    BY <1>6, FreezeKind, SettleKind DEF Kinds
  <1>7. CASE ReceiptMissing \/ \E r \in RunKeys : RunMoves(r)
    BY <1>7, RestKind DEF Kinds
  <1>8. CASE \E s \in Sessions, ok \in BOOLEAN : Recover(s, ok)
    BY <1>8, RecoverKind DEF Kinds
  <1>9. CASE Crash
    BY <1>9, CrashKind DEF Kinds
  <1> QED
    BY <1>1, <1>2, <1>3, <1>4, <1>5, <1>6, <1>7, <1>8, <1>9 DEF Next, Work

-----------------------------------------------------------------------------
(* The parts of the invariant survive the kinds of steps *)

\* Types.
LEMMA TypedStep ==
    ASSUME Inv, Kinds
    PROVE  Typed'
  <1> USE DEF Inv
  <1>0. /\ Idle \in Jobs
        /\ \A s \in Sessions, key \in Keys : \A cmd \in Nat : StartJob(s, key, cmd) \in Jobs
    BY DEF Jobs, Idle, StartJob, Stages, Ops, RunKeys, Envelopes
  <1>1. count.cmds + 1 \in Nat
    BY DEF Typed
  <1>2. CASE \E s, key : Starting(s, key)
    <2>1. PICK s, key : Starting(s, key)
      BY <1>2
    <2>2. job' \in Jobs
      BY <1>0, <1>1, <2>1 DEF Starting, Saved
    <2> QED
      BY <2>1, <2>2 DEF Starting, Saved, CountedTo, Counts, Typed
  <1>3. CASE \E s, op, key, intent : Opening(s, op, key, intent)
    <2>1. PICK s, op, key, intent : Opening(s, op, key, intent)
      BY <1>3
    <2>2. job' \in Jobs
      BY <1>0, <2>1 DEF Opening, NewJob
    <2> QED
      BY <2>1, <2>2 DEF Opening, Saved, CountedTo, Counts, Typed
  <1>4. CASE \E s, op, key : Resuming(s, op, key)
    <2>1. PICK s, op, key : Resuming(s, op, key)
      BY <1>4
    <2>2. job' \in Jobs
      BY <2>1 DEF Resuming, NewJob
    <2> QED
      BY <2>1, <2>2 DEF Resuming, Counts, Typed
  <1>5. CASE \E s, new, c, phase, env : Revising(s, new, c, phase, env)
    <2>1. PICK s, new, c, phase, env : Revising(s, new, c, phase, env)
      BY <1>5
    <2>2. mem.rows[s] \in Rows
      BY <2>1 DEF Revising, Typed, Files
    <2>3. \A a \in said' : /\ a.op \in Ops /\ a.s \in Sessions /\ a.key \in Keys
                           /\ a.env \in Envelopes \ {"none"}
      <3>1. CASE said' = said
        BY <3>1 DEF Typed
      <3>2. CASE \E r \in Receipts(mem.rows[s]) :
                    said' = said \cup {[op |-> r.op, s |-> s, key |-> r.key, env |-> env]}
        <4>1. PICK r \in Receipts(mem.rows[s]) :
                  said' = said \cup {[op |-> r.op, s |-> s, key |-> r.key, env |-> env]}
          BY <3>2
        <4>2. r.op \in Ops /\ r.key \in Keys
          BY <2>2, ReceiptTypes DEF ReceiptSet
        <4> QED
          BY <2>1, <4>1, <4>2 DEF Revising, Typed
      <3> QED
        BY <2>1, <3>1, <3>2 DEF Revising
    <2> QED
      BY <1>0, <2>1, <2>3 DEF Revising, Saved, CountedTo, Counts, Typed
  <1>6. CASE \E new : Completing(new)
    BY <1>6 DEF Completing, CountedTo, Counts, Typed
  <1>7. CASE Writing
    <2>1. job.op \in Ops /\ job.s \in Sessions /\ job.key \in Keys
      BY <1>7, JobTypes DEF Writing
    <2>2. \A a \in said' : /\ a.op \in Ops /\ a.s \in Sessions /\ a.key \in Keys
                           /\ a.env \in Envelopes \ {"none"}
      BY <1>7, <2>1 DEF Writing, Typed, Envelopes
    <2> QED
      BY <1>0, <1>7, <2>2 DEF Writing, CountedTo, Counts, Typed
  <1>8. CASE Calling
    BY <1>8 DEF Calling, Typed
  <1>9. CASE Replaying
    <2>1. PICK op \in Ops, s \in Sessions, key \in Keys, env \in Envelopes \ {"none"} :
              said' = said \cup {[op |-> op, s |-> s, key |-> key, env |-> env]}
      BY <1>9 DEF Replaying
    <2>2. \A a \in said' : /\ a.op \in Ops /\ a.s \in Sessions /\ a.key \in Keys
                           /\ a.env \in Envelopes \ {"none"}
      BY <2>1 DEF Typed
    <2> QED
      BY <1>9, <2>2 DEF Replaying, Typed
  <1>10. CASE Resting
    BY <1>0, <1>10 DEF Resting, Typed
  <1>11. CASE Crashing
    BY <1>0, <1>11 DEF Crashing, Counts, Typed
  <1> QED
    BY <1>2, <1>3, <1>4, <1>5, <1>6, <1>7, <1>8, <1>9, <1>10, <1>11 DEF Kinds

\* The turns kept per session.
LEMMA TurnsStep ==
    ASSUME Inv, Kinds
    PROVE  TurnsBounded(mem)' /\ TurnsBounded(disk)'
  <1> USE DEF Inv
  <1>1. CASE \/ UNCHANGED <<mem, disk>>
             \/ mem'.turns = mem.turns /\ disk'.turns = disk.turns
             \/ mem' = disk /\ disk' = disk
    BY <1>1 DEF TurnsBounded
  <1>2. CASE \E new : Completing(new)
    <2>1. /\ job.s \in Sessions /\ <<job.op, job.key>> \in {"start", "steer"} \X Keys
          /\ mem.turns \in [Sessions -> Seq({"start", "steer"} \X Keys)]
          /\ Len(mem.turns[job.s]) <= MaxTurns
      BY <1>2, JobTypes DEF Completing, JobOK, Typed, Files, TurnsBounded
    <2>2. /\ \A t \in Sessions : t # job.s => mem'.turns[t] = mem.turns[t]
          /\ Len(mem'.turns[job.s]) <= MaxTurns
      <3>1. PICK turns \in [Sessions -> Seq({"start", "steer"} \X Keys)] : turns = mem.turns
        BY <2>1
      <3>2. PICK s \in Sessions : s = job.s
        BY <2>1
      <3>3. PICK turn \in {"start", "steer"} \X Keys : turn = <<job.op, job.key>>
        BY <2>1
      <3>4. Len(turns[s]) <= MaxTurns /\ mem'.turns = WithTurn(turns, s, turn)
        BY <1>2, <2>1, <3>1, <3>2, <3>3 DEF Completing
      <3>5. /\ \A t \in Sessions : t # s => WithTurn(turns, s, turn)[t] = turns[t]
            /\ Len(WithTurn(turns, s, turn)[s]) <= MaxTurns
        BY <3>4, TurnAdded
      <3> QED
        BY <3>1, <3>2, <3>4, <3>5
    <2>3. TurnsBounded(mem)'
      BY <2>2 DEF TurnsBounded
    <2> QED
      BY <1>2, <2>3 DEF Completing, TurnsBounded
  <1>3. CASE \/ \E s, key : Starting(s, key)
             \/ \E s, op, key, intent : Opening(s, op, key, intent)
             \/ \E s, new, c, phase, env : Revising(s, new, c, phase, env)
    <2>1. ASSUME NEW s, NEW new, NEW ids, Saved(s, new, ids)
          PROVE  TurnsBounded(mem)' /\ TurnsBounded(disk)'
      BY <1>1, <2>1 DEF Saved
    <2>2. CASE \E s, key : Starting(s, key)
      BY <2>1, <2>2 DEF Starting
    <2>3. CASE \E s, op, key, intent : Opening(s, op, key, intent)
      BY <2>1, <2>3 DEF Opening
    <2>4. CASE \E s, new, c, phase, env : Revising(s, new, c, phase, env)
      BY <2>1, <2>4 DEF Revising
    <2> QED
      BY <1>3, <2>2, <2>3, <2>4
  <1>4. CASE \E s, op, key : Resuming(s, op, key)
    BY <1>1, <1>4 DEF Resuming
  <1>5. CASE Writing \/ Calling \/ Replaying \/ Resting \/ Crashing
    BY <1>1, <1>5 DEF Writing, Calling, Replaying, Resting, Crashing
  <1> QED
    BY <1>2, <1>3, <1>4, <1>5 DEF Kinds

\* A saved row that is sound leaves the rows sound.
LEMMA SavedSound ==
    ASSUME Inv, Typed', NEW s, NEW new \in Rows, NEW ids \in Nat, Saved(s, new, ids),
           RowOK(new, count.cmds + ids)
    PROVE  RowsOK(mem.rows)' /\ RowsOK(disk.rows)'
  <1> USE DEF Inv
  <1>1. count.cmds \in Nat /\ count.cmds + ids \in Nat /\ count'.cmds = count.cmds + ids
        /\ count.cmds <= count.cmds + ids
    BY DEF Typed, Saved, CountedTo
  <1>2. \A t \in Sessions : /\ mem.rows[t] \in Rows /\ disk.rows[t] \in Rows
                            /\ RowOK(mem.rows[t], count'.cmds) /\ RowOK(disk.rows[t], count'.cmds)
    <2>1. \A t \in Sessions : mem.rows[t] \in Rows /\ disk.rows[t] \in Rows
      BY DEF Typed, Files
    <2> QED
      BY <1>1, <2>1, RowLater DEF RowsOK
  <1>3. \A t \in Sessions : RowOK(mem'.rows[t], count'.cmds)
    BY <1>1, <1>2 DEF Saved
  <1> QED
    BY <1>2, <1>3 DEF RowsOK, Saved, RowsWritten, RowsUnwritten

\* Rows stay sound.
LEMMA RowsStep ==
    ASSUME Inv, Kinds, Typed'
    PROVE  RowsOK(mem.rows)' /\ RowsOK(disk.rows)'
  <1> USE DEF Inv
  <1>1. count.cmds \in Nat /\ \A t \in Sessions : mem.rows[t] \in Rows /\ RowOK(mem.rows[t], count.cmds)
    BY DEF Typed, Files, RowsOK
  <1>2. CASE \E s, key : Starting(s, key)
    <2>1. PICK s, key : Starting(s, key)
      BY <1>2
    <2> DEFINE new == NewRow(key, count.cmds + 1)
    <2>2. new \in Rows /\ RowOK(new, count.cmds + 1) /\ Saved(s, new, 1)
      <3>1. PICK cmd \in Nat : cmd = count.cmds + 1
        BY <1>1
      <3>2. key \in Keys /\ Saved(s, new, 1)
        BY <2>1 DEF Starting
      <3>3. NewRow(key, cmd) \in Rows
        BY <3>2, FirstRow
      <3>4. RowOK(new, count.cmds + 1)
        BY <1>1, <3>2, FirstSound
      <3> QED
        BY <3>1, <3>2, <3>3, <3>4
    <2> HIDE DEF new
    <2> QED
      BY <2>2, SavedSound
  <1>3. CASE \E s, op, key, intent : Opening(s, op, key, intent)
    <2>1. PICK s, op, key, intent : Opening(s, op, key, intent)
      BY <1>3
    <2> DEFINE new == Opened(mem.rows[s], op, key, count.cmds + 1, intent)
    <2>2. /\ s \in Sessions /\ op \in Ops /\ key \in Keys /\ intent \in BOOLEAN
          /\ Found(mem.rows[s], op, key) = {} /\ mem.rows[s].state # "none"
          /\ intent => mem.rows[s].intent = NoIntent /\ op \in {"start", "steer"}
          /\ Saved(s, new, 1)
      BY <2>1 DEF Opening
    <2>3. new \in Rows
      <3>1. PICK cmd \in Nat : cmd = count.cmds + 1
        BY <1>1
      <3>2. PICK row \in Rows : row = mem.rows[s]
        BY <1>1, <2>2
      <3>3. new = Opened(row, op, key, cmd, intent)
        BY <3>1, <3>2
      <3>4. op \in Ops /\ key \in Keys /\ intent \in BOOLEAN
        BY <2>2
      <3> HIDE DEF new, Inv
      <3> QED
        BY <3>3, <3>4, OpenedRow
    <2>4. RowOK(new, count.cmds + 1)
      BY <1>1, <2>2, OpenedSound
    <2> HIDE DEF new
    <2> QED
      BY <2>2, <2>3, <2>4, SavedSound
  <1>4. CASE \E s, op, key : Resuming(s, op, key)
    <2>1. count'.cmds \in Nat /\ count.cmds <= count'.cmds /\ UNCHANGED <<mem, disk>>
      BY <1>1, <1>4 DEF Resuming
    <2>2. \A t \in Sessions : disk.rows[t] \in Rows
      BY DEF Typed, Files
    <2> QED
      BY <1>1, <2>1, <2>2, RowLater DEF RowsOK
  <1>5. CASE \E s, new, c, phase, env : Revising(s, new, c, phase, env)
    <2>1. PICK s, new, c, phase, env : Revising(s, new, c, phase, env)
      BY <1>5
    <2>2. /\ s \in Sessions /\ new \in Rows /\ c \in 1..count.cmds
          /\ phase \in {"deferred", "completed"}
          /\ Revised(mem.rows[s], new, c, phase, env) /\ Saved(s, new, 0)
      BY <2>1 DEF Revising
    <2>3. new.runNo <= new.turnNo /\ new.turnNo <= count.cmds
      BY <1>1, <2>1, <2>2 DEF Revising, RowOK
    <2>4. /\ \/ new.intent = NoIntent
             \/ new.intent = mem.rows[s].intent /\ mem.rows[s].intent.cmd # c
             \/ /\ mem.rows[s].intent.cmd = c /\ new.intent = [cmd |-> c, phase |-> "deferred"]
                /\ phase = "deferred"
          /\ new.state = "starting" => new.state = mem.rows[s].state
          /\ mem.rows[s].state # "none" => new.state # "none"
      BY <2>1 DEF Revising
    <2>5. new.state = "starting" => new.intent # NoIntent
      <3> SUFFICES ASSUME new.state = "starting"
                   PROVE  new.intent # NoIntent
        OBVIOUS
      <3>1. mem.rows[s].intent # NoIntent
        BY <1>1, <2>2, <2>4 DEF RowOK
      <3>2. CASE new.intent = mem.rows[s].intent
        BY <3>1, <3>2
      <3>3. CASE new.intent = [cmd |-> c, phase |-> "deferred"]
        BY <2>2, <3>3 DEF NoIntent
      <3> QED
        BY <2>1, <3>2, <3>3 DEF Revising
    <2>6. RowOK(new, count.cmds)
      BY <1>1, <2>2, <2>3, <2>4, <2>5, RevisedSound
    <2>7. RowOK(new, count.cmds + 0)
      BY <1>1, <2>6
    <2> QED
      BY <2>2, <2>7, SavedSound
  <1>6. CASE \E new : Completing(new)
    <2>1. PICK new : Completing(new)
      BY <1>6
    <2>2. /\ job.stage # "idle" /\ job.stage \in Adding /\ job.s \in Sessions
          /\ Row = mem.rows[job.s] /\ Row \in Rows /\ RowOK(Row, count.cmds)
          /\ job.cmd \in 1..count.cmds /\ Row.turnNo < count.cmds
          /\ job.stage = "turn" => Row.intent.cmd # job.cmd
      BY <1>1, <2>1, JobTypes DEF Completing, JobOK, Row, Adding
    <2>3. /\ new \in Rows /\ Revised(Row, new, job.cmd, "completed", "committed")
          /\ count'.cmds = count.cmds /\ disk'.rows = disk.rows /\ mem'.rows[job.s] = new
          /\ \A t \in Sessions : t # job.s => mem'.rows[t] = mem.rows[t]
      BY <1>1, <2>1 DEF Completing, CountedTo
    <2>4. new.runNo <= new.turnNo /\ new.turnNo <= count.cmds
      BY SMTT(90), <1>1, <2>1, <2>2 DEF Completing, RowOK, Rows
    <2>5. /\ \/ new.intent = NoIntent
             \/ new.intent = Row.intent /\ Row.intent.cmd # job.cmd
          /\ new.state = "starting" => new.intent # NoIntent
          /\ Row.state # "none" => new.state # "none"
      BY <2>1, <2>2 DEF Completing, RowOK
    <2>6. RowOK(new, count.cmds)
      BY <1>1, <2>2, <2>3, <2>4, <2>5, RevisedSound
    <2>7. \A t \in Sessions : RowOK(mem'.rows[t], count'.cmds)
      BY <1>1, <2>3, <2>6
    <2> QED
      BY <2>3, <2>7 DEF RowsOK
  <1>7. CASE Writing
    BY <1>1, <1>7 DEF Writing, RowsOK, CountedTo, RowsWritten, RowsUnwritten
  <1>8. CASE Calling \/ Replaying \/ Resting
    BY <1>8 DEF Calling, Replaying, Resting, RowsOK
  <1>9. CASE Crashing
    BY <1>9 DEF Crashing, RowsOK
  <1> QED
    BY <1>2, <1>3, <1>4, <1>5, <1>6, <1>7, <1>8, <1>9 DEF Kinds

\* The intent of a row is one of the commands drawn.
LEMMA IntentDrawn ==
    ASSUME NEW row \in Rows, NEW d \in Nat, RowOK(row, d)
    PROVE  row.intent.cmd \in 0..d
  <1>1. CASE row.intent = NoIntent
    BY <1>1 DEF NoIntent
  <1>2. CASE row.intent # NoIntent
    BY <1>2 DEF RowOK
  <1> QED
    BY <1>1, <1>2

\* The verb in progress.
LEMMA JobStep ==
    ASSUME Inv, Kinds, Typed'
    PROVE  JobOK'
  <1> USE DEF Inv
  <1>1. count.cmds \in Nat /\ \A t \in Sessions : mem.rows[t] \in Rows /\ RowOK(mem.rows[t], count.cmds)
    BY DEF Typed, Files, RowsOK
  <1>2. Idle.stage = "idle" /\ (job'.stage = "idle" => JobOK')
    BY DEF Idle, JobOK
  <1>3. CASE \E s, key : Starting(s, key)
    <2>1. PICK s, key : Starting(s, key)
      BY <1>3
    <2>2. PICK cmd \in Nat : cmd = count.cmds + 1
      BY <1>1
    <2>3. /\ s \in Sessions /\ key \in Keys /\ count'.cmds = cmd
          /\ mem'.rows[s] = NewRow(key, cmd)
      BY <2>1, <2>2 DEF Starting, Saved, CountedTo
    <2>4. CASE job' = Idle
      BY <1>2, <2>4
    <2>5. CASE job' = StartJob(s, key, cmd)
      <3>1. /\ job'.stage = "start" /\ job'.op = "start" /\ job'.s = s /\ job'.key = key
            /\ job'.cmd = cmd /\ job'.run = <<s, "start", key>>
        BY <2>5 DEF StartJob
      <3>2. PICK new : new = NewRow(key, cmd)
        OBVIOUS
      <3>3. (\A r \in Receipts(new) : r = Intent("start", key, cmd)) /\ new.turnNo = 0
        <4>1. new.receipts = <<Intent("start", key, cmd)>> /\ new.turnNo = 0
          BY <3>2 DEF NewRow, NoRow
        <4>2. Receipts(new) = {Intent("start", key, cmd)}
          BY <4>1 DEF Receipts
        <4> QED
          BY <4>1, <4>2
      <3>4. \A r \in Receipts(new) : r.op = "start" /\ r.key = key
        BY <3>3 DEF Intent
      <3>5. Row' = new
        BY <2>3, <3>1, <3>2 DEF Row
      <3> QED
        BY <1>1, <2>2, <2>3, <3>1, <3>3, <3>4, <3>5 DEF JobOK
    <2> QED
      BY <2>1, <2>2, <2>4, <2>5 DEF Starting
  <1>4. CASE \E s, op, key, intent : Opening(s, op, key, intent)
    <2>1. PICK s, op, key, intent : Opening(s, op, key, intent)
      BY <1>4
    <2>2. PICK cmd \in Nat : cmd = count.cmds + 1
      BY <1>1
    <2>3. PICK row \in Rows : row = mem.rows[s]
      BY <1>1, <2>1 DEF Opening
    <2>4. /\ s \in Sessions /\ op \in Ops /\ key \in Keys /\ count'.cmds = cmd /\ intent \in BOOLEAN
          /\ mem'.rows[s] = Opened(row, op, key, cmd, intent) /\ RowOK(row, count.cmds)
      BY <1>1, <2>1, <2>2, <2>3 DEF Opening, Saved, CountedTo
    <2>5. CASE job' = Idle
      BY <1>2, <2>5
    <2>6. CASE NewJob(op, s, key, cmd) /\ (job'.stage # "start" => ~intent)
      <3>0. op \in Ops /\ key \in Keys /\ intent \in BOOLEAN
        BY <2>4
      <3>1. PICK new : new = Opened(row, op, key, cmd, intent)
        OBVIOUS
      <3>2. /\ \A r \in Receipts(new) : r \in Receipts(row) \/ r = Intent(op, key, cmd)
            /\ new.turnNo = row.turnNo
            /\ new.intent = IF intent THEN [cmd |-> cmd, phase |-> "intent"] ELSE row.intent
        BY <3>0, <3>1, OpenedRow
      <3>3. \A r \in Receipts(new) : r.cmd = cmd => r.op = op /\ r.key = key
        BY <1>1, <2>2, <2>4, <3>2 DEF Intent, RowOK
      <3>4. Row' = new /\ job'.s = s /\ job'.op = op /\ job'.key = key /\ job'.cmd = cmd
        BY <2>4, <2>6, <3>1 DEF Row, NewJob
      <3>5. job'.stage # "start" => new.intent = row.intent
        BY <2>6, <3>2
      <3>6. row.intent.cmd # cmd
        BY <1>1, <2>2, <2>4, IntentDrawn
      <3>7. new.turnNo < count'.cmds
        BY <1>1, <2>2, <2>4, <3>2 DEF RowOK, Rows
      <3>8. job'.cmd \in 1..count'.cmds
        BY <1>1, <2>2, <2>4, <3>4
      <3> QED
        BY <2>6, <3>3, <3>4, <3>5, <3>6, <3>7, <3>8 DEF JobOK, NewJob
    <2> QED
      BY <2>1, <2>2, <2>5, <2>6 DEF Opening
  <1>5. CASE \E s, op, key : Resuming(s, op, key)
    <2>1. PICK s, op, key : Resuming(s, op, key)
      BY <1>5
    <2>2. PICK row \in Rows : row = mem.rows[s]
      BY <1>1, <2>1 DEF Resuming
    <2>3. s \in Sessions /\ RowOK(row, count.cmds) /\ mem' = mem
      BY <1>1, <2>1, <2>2 DEF Resuming
    <2>4. PICK cmd \in Nat :
              /\ NewJob(op, s, key, cmd) /\ cmd \in 1..count'.cmds
              /\ \/ cmd = count.cmds + 1 /\ count'.cmds = count.cmds + 1
                 \/ /\ \E r \in Found(row, op, key) : cmd = r.cmd
                    /\ op = "cancel" /\ job'.stage # "start" /\ count'.cmds = count.cmds
      <3>1. CASE NewJob(op, s, key, count.cmds + 1) /\ count'.cmds = count.cmds + 1
        BY <1>1, <3>1
      <3>2. CASE /\ op = "cancel" /\ count'.cmds = count.cmds
                 /\ \E r \in Found(mem.rows[s], op, key) : NewJob(op, s, key, r.cmd)
                 /\ job'.stage # "start"
        <4>1. PICK r \in Found(row, op, key) : NewJob(op, s, key, r.cmd)
          BY <2>2, <3>2
        <4>2. r.cmd \in 1..count.cmds
          BY <2>3 DEF Found, RowOK
        <4>3. r.cmd \in Nat
          BY <1>1, <4>2
        <4> QED
          BY <3>2, <4>1, <4>2, <4>3
      <3> QED
        BY <2>1, <3>1, <3>2 DEF Resuming
    <2>5. Row' = row /\ job'.s = s /\ job'.op = op /\ job'.key = key /\ job'.cmd = cmd
      BY <2>2, <2>3, <2>4 DEF Row, NewJob
    <2>6. /\ \A r \in Receipts(row) : r.cmd = cmd => r.op = op /\ r.key = key
          /\ row.intent.cmd # cmd
      <3>1. CASE cmd = count.cmds + 1
        BY <1>1, <2>3, <3>1, IntentDrawn DEF RowOK
      <3>2. CASE op = "cancel" /\ \E r \in Found(row, op, key) : cmd = r.cmd
        <4>1. PICK r \in Receipts(row) : r.op = op /\ r.key = key /\ r.cmd = cmd
          BY <3>2 DEF Found
        <4>2. \A q \in Receipts(row) : q.cmd = cmd => q = r
          BY <2>3, <4>1 DEF RowOK
        <4>3. cmd # 0
          BY <2>4
        <4>4. row.intent.cmd # cmd
          BY <2>3, <3>2, <4>1, <4>2, <4>3 DEF RowOK, NoIntent
        <4> QED
          BY <4>1, <4>2, <4>4
      <3> QED
        BY <2>4, <3>1, <3>2
    <2>7. job'.stage \in Adding => row.turnNo < count'.cmds
      <3>1. job'.stage \in Adding => count'.cmds = count.cmds + 1
        BY <2>4 DEF NewJob, Adding
      <3> QED
        BY <1>1, <2>3, <3>1 DEF RowOK, Rows
    <2> QED
      BY <2>4, <2>5, <2>6, <2>7 DEF JobOK, NewJob
  <1>6. CASE \E new : Completing(new)
    <2>1. PICK new : Completing(new)
      BY <1>6
    <2>2. job.s \in Sessions /\ job.stage # "idle"
      BY <2>1, JobTypes DEF Completing
    <2>3. /\ job'.stage \in {"flush", "freeze"} /\ SameJob /\ count'.cmds = count.cmds
          /\ Row' = new
      BY <1>1, <2>1, <2>2 DEF Completing, CountedTo, Row, SameJob
    <2>4. \A r \in Receipts(new) : r.cmd = job.cmd => r.op = job.op /\ r.key = job.key
      BY <2>1, <2>2 DEF Completing, Revised, JobOK
    <2> QED
      BY <2>2, <2>3, <2>4 DEF JobOK, SameJob, Adding
  <1>7. CASE Writing
    <2>1. CASE job' = Idle
      BY <1>2, <2>1
    <2>2. CASE SameJob /\ job'.stage = "freeze"
      <3>1. Row' = Row /\ count'.cmds = count.cmds /\ job.stage # "idle"
        BY <1>1, <1>7, <2>2 DEF Writing, SameJob, Row, CountedTo
      <3> QED
        BY <2>2, <3>1 DEF JobOK, SameJob, Adding
    <2> QED
      BY <1>7, <2>1, <2>2 DEF Writing
  <1>8. CASE Calling
    <2>1. /\ Row' = Row /\ count' = count /\ job.stage # "idle" /\ SameJob
          /\ job.stage \in {"start", "steer", "respond", "cancel", "bind", "turn"}
          /\ job'.stage \in {"bind", "turn", "settle", "freeze"}
          /\ job'.stage = "bind" => job.stage = "start"
          /\ job'.stage = "turn" => job.stage = "steer"
          /\ job'.stage = "settle" =>
                 /\ job.stage \in {"steer", "respond", "cancel"}
                 /\ job'.env = "rejected" \/ (job'.env = "committed" /\ job.op \in {"respond", "cancel"})
      BY <1>8 DEF Calling, SameJob, Row
    <2> QED
      BY <2>1 DEF JobOK, SameJob, Adding
  <1>9. CASE Replaying
    BY <1>2, <1>9 DEF Replaying
  <1>10. CASE Resting
    <2>1. CASE job' = Idle
      BY <1>2, <2>1
    <2>2. CASE job' = job
      BY <1>10, <2>2 DEF Resting, JobOK, Row
    <2> QED
      BY <1>10, <2>1, <2>2 DEF Resting
  <1>11. CASE \E s, new, c, phase, env : Revising(s, new, c, phase, env)
    BY <1>2, <1>11 DEF Revising
  <1>12. CASE Crashing
    BY <1>2, <1>12 DEF Crashing
  <1> QED
    BY <1>3, <1>4, <1>5, <1>6, <1>7, <1>8, <1>9, <1>10, <1>11, <1>12 DEF Kinds

\* Saving a row of a session that was open before, and is under the same key.
LEMMA StartsSaved ==
    ASSUME StartsOK, NEW s, NEW new, NEW ids, Saved(s, new, ids), runs' = runs,
           new.start = mem.rows[s].start,
           new.state = "none" <=> mem.rows[s].state = "none",
           ~(job'.stage = "start" /\ job'.op = "start")
    PROVE  StartsOK'
  <1>1. \A t \in Sessions : /\ mem'.rows[t].start = mem.rows[t].start
                            /\ mem'.rows[t].state = "none" <=> mem.rows[t].state = "none"
    BY DEF Saved
  <1>2. CASE RowsWritten
    BY <1>1, <1>2 DEF RowsWritten, StartsOK
  <1>3. CASE RowsUnwritten
    BY <1>1, <1>3 DEF RowsUnwritten, StartsOK
  <1> QED
    BY <1>2, <1>3 DEF Saved

\* A start key opens one session.
LEMMA StartsStep ==
    ASSUME Inv, Kinds, Typed'
    PROVE  StartsOK'
  <1>1. StartsOK /\ Typed /\ JobOK /\ \A t \in Sessions : RowOK(mem.rows[t], count.cmds)
    BY DEF Inv, RowsOK
  <1>2. Idle.stage = "idle"
    BY DEF Idle
  <1>3. CASE \E s, key : Starting(s, key)
    <2>1. PICK s, key : Starting(s, key)
      BY <1>3
    <2>2. /\ s \in Sessions /\ key \in Keys /\ runs' = runs
          /\ mem'.rows[s] = NewRow(key, count.cmds + 1) /\ mem.rows[s] = NoRow
          /\ \A t \in Sessions : t # s => mem'.rows[t] = mem.rows[t]
          /\ \A t \in Sessions : mem.rows[t].state # "none" => mem.rows[t].start # key
          /\ RowsWritten \/ RowsUnwritten
      BY <2>1 DEF Starting, Saved, Started
    <2>3. mem'.rows[s].state = "starting" /\ mem'.rows[s].start = key /\ mem.rows[s].state = "none"
      BY <2>2 DEF NewRow, NoRow
    <2>4. disk.rows[s].state = "none"
      BY <1>1, <2>2, <2>3 DEF StartsOK
    <2>5. CASE RowsWritten
      <3>1. job'.stage = "start" => job'.s = s /\ job'.key = key
        BY <1>2, <2>1 DEF Starting, StartJob
      <3> QED
        BY <1>1, <2>2, <2>3, <2>4, <2>5, <3>1 DEF RowsWritten, StartsOK
    <2>6. CASE RowsUnwritten
      <3>1. job' = Idle
        BY <2>1, <2>6 DEF Starting, RowsUnwritten, RowsWritten, Typed
      <3> QED
        BY <1>1, <1>2, <2>2, <2>3, <2>4, <2>6, <3>1 DEF RowsUnwritten, StartsOK
    <2> QED
      BY <2>2, <2>5, <2>6
  <1>4. CASE \E s, op, key, intent : Opening(s, op, key, intent)
    <2>1. PICK s, op, key, intent : Opening(s, op, key, intent)
      BY <1>4
    <2>2. PICK cmd \in Nat, row \in Rows : cmd = count.cmds + 1 /\ row = mem.rows[s]
      BY <1>1, <2>1 DEF Opening, Typed, Files
    <2>3. PICK new : new = Opened(row, op, key, cmd, intent)
      OBVIOUS
    <2>5. op \in Ops /\ key \in Keys /\ intent \in BOOLEAN
      BY <2>1 DEF Opening
    <2>6. /\ new.start = row.start /\ new.state = row.state
          /\ new.intent = IF intent THEN [cmd |-> cmd, phase |-> "intent"] ELSE row.intent
      BY <2>3, <2>5, OpenedRow
    <2>4. ~(job'.stage = "start" /\ job'.op = "start") /\ Saved(s, new, 1) /\ runs' = runs
      BY <1>2, <2>1, <2>2, <2>3 DEF Opening, NewJob
    <2> QED
      BY <1>1, <2>2, <2>4, <2>6, StartsSaved
  <1>5. CASE \E s, new, c, phase, env : Revising(s, new, c, phase, env)
    <2>1. PICK s, new, c, phase, env : Revising(s, new, c, phase, env)
      BY <1>5
    <2>2. /\ Saved(s, new, 0) /\ runs' = runs /\ job'.stage = "idle"
          /\ new.start = mem.rows[s].start
          /\ new.state = "none" <=> mem.rows[s].state = "none"
      BY <1>2, <2>1 DEF Revising
    <2> QED
      BY <1>1, <2>2, StartsSaved
  <1>6. CASE \E new : Completing(new)
    <2>1. PICK new : Completing(new)
      BY <1>6
    <2>2. job.s \in Sessions /\ Row = mem.rows[job.s]
      BY <1>1, <2>1, JobTypes DEF Completing, Row
    <2>3. Row.state # "none" /\ new.state # "none" /\ new.start = Row.start
      BY <1>1, <2>1, <2>2 DEF Completing, HasCmd, RowOK
    <2>4. \A t \in Sessions : /\ mem'.rows[t].start = mem.rows[t].start
                              /\ mem'.rows[t].state = "none" <=> mem.rows[t].state = "none"
      BY <2>1, <2>2, <2>3 DEF Completing
    <2>5. disk'.rows = disk.rows /\ runs' = runs /\ job'.stage # "start"
      BY <2>1 DEF Completing
    <2> QED
      BY <1>1, <2>4, <2>5 DEF StartsOK
  <1>7. CASE Calling
    <2>1. /\ mem' = mem /\ disk' = disk /\ job'.stage # "start"
          /\ \A x \in RunKeys : runs'[x] # "none" =>
                 runs[x] # "none" \/ (x = job.run /\ job.stage = "start")
      BY <1>7 DEF Calling
    <2>2. ASSUME NEW s \in Sessions, NEW key \in Keys, runs'[<<s, "start", key>>] # "none"
          PROVE  disk.rows[s].state # "none" /\ disk.rows[s].start = key
      <3>1. <<s, "start", key>> \in RunKeys
        BY DEF RunKeys
      <3>2. CASE runs[<<s, "start", key>>] # "none"
        BY <1>1, <3>2 DEF StartsOK
      <3>3. CASE job.run = <<s, "start", key>> /\ job.stage = "start"
        <4>1. job.run = <<job.s, job.op, job.key>>
          BY <1>1, <3>3 DEF JobOK
        <4>2. job.s = s /\ job.op = "start" /\ job.key = key
          BY <3>3, <4>1
        <4> QED
          BY <1>1, <3>3, <4>2 DEF StartsOK
      <3> QED
        BY <2>1, <2>2, <3>1, <3>2, <3>3
    <2> QED
      BY <1>1, <2>1, <2>2 DEF StartsOK
  <1>8. CASE \E s, op, key : Resuming(s, op, key)
    <2>1. /\ mem' = mem /\ disk' = disk /\ runs' = runs
          /\ ~(job'.stage = "start" /\ job'.op = "start")
      BY <1>8 DEF Resuming, NewJob
    <2> QED
      BY <1>1, <2>1 DEF StartsOK
  <1>9. CASE Writing
    <2>1. /\ mem' = mem /\ runs' = runs /\ job'.stage # "start"
          /\ disk'.rows = mem.rows \/ disk'.rows = disk.rows
      BY <1>2, <1>9 DEF Writing, RowsWritten, RowsUnwritten
    <2> QED
      BY <1>1, <2>1 DEF StartsOK
  <1>10. CASE Replaying
    BY <1>1, <1>2, <1>10 DEF Replaying, StartsOK
  <1>11. CASE Resting
    <2>1. \A s \in Sessions, key \in Keys : <<s, "start", key>> \in RunKeys
      BY DEF RunKeys
    <2> QED
      BY <1>1, <1>2, <1>11, <2>1 DEF Resting, StartsOK
  <1>12. CASE Crashing
    BY <1>1, <1>2, <1>12 DEF Crashing, StartsOK
  <1> QED
    BY <1>3, <1>4, <1>5, <1>6, <1>7, <1>8, <1>9, <1>10, <1>11, <1>12 DEF Kinds

\* The kernel forgets neither a run nor a command it accepted.
LEMMA KernelGrows ==
    ASSUME Inv, Kinds
    PROVE  /\ StartedRuns \subseteq StartedRuns' /\ IsFiniteSet(StartedRuns')
           /\ applied \subseteq applied' /\ IsFiniteSet(applied')
           /\ applied' \subseteq {"steer", "respond", "cancel"} \X Keys \X RunKeys
  <1>1. Typed /\ JobOK /\ KernelOK
    BY DEF Inv
  <1>2. CASE Calling
    <2>1. /\ \A x \in RunKeys : runs[x] # "none" => runs'[x] # "none"
          /\ \A x \in RunKeys : runs'[x] # "none" => runs[x] # "none" \/ x = job.run
      BY <1>2 DEF Calling
    <2>2. StartedRuns \subseteq StartedRuns' /\ StartedRuns' \subseteq StartedRuns \cup {job.run}
      BY <2>1 DEF StartedRuns
    <2>3. IsFiniteSet(StartedRuns \cup {job.run}) /\ IsFiniteSet(applied \cup {Request})
      BY <1>1, FS_AddElement DEF KernelOK
    <2>4. IsFiniteSet(StartedRuns')
      BY <2>2, <2>3, FS_Subset
    <2>5. CASE applied' = applied
      BY <1>1, <2>2, <2>4, <2>5 DEF KernelOK
    <2>6. CASE applied' = applied \cup {Request} /\ job.stage \in {"steer", "respond", "cancel"}
      <3>1. job.key \in Keys
        BY <1>1, <2>6, JobTypes
      <3>2. job.op \in {"steer", "respond", "cancel"} /\ job.run \in RunKeys
        BY <1>1, <2>6 DEF JobOK, KernelOK, StartedRuns
      <3>3. Request \in {"steer", "respond", "cancel"} \X Keys \X RunKeys
        BY <3>1, <3>2 DEF Request
      <3> QED
        BY <1>1, <2>2, <2>3, <2>4, <2>6, <3>3 DEF KernelOK
    <2> QED
      BY <1>2, <2>5, <2>6 DEF Calling
  <1>3. CASE Resting
    <2>1. StartedRuns' = StartedRuns /\ applied' = applied
      BY <1>3 DEF Resting, StartedRuns
    <2> QED
      BY <1>1, <2>1 DEF KernelOK
  <1>4. CASE runs' = runs /\ applied' = applied
    BY <1>1, <1>4 DEF KernelOK, StartedRuns
  <1>5. CASE \/ \E s, key : Starting(s, key)
             \/ \E s, op, key, intent : Opening(s, op, key, intent)
             \/ \E s, op, key : Resuming(s, op, key)
    BY <1>4, <1>5 DEF Starting, Opening, Resuming
  <1>6. CASE \E s, new, c, phase, env : Revising(s, new, c, phase, env)
    BY <1>4, <1>6 DEF Revising
  <1>8. CASE \E new : Completing(new)
    BY <1>4, <1>8 DEF Completing
  <1>7. CASE Writing \/ Replaying \/ Crashing
    BY <1>4, <1>7 DEF Writing, Replaying, Crashing
  <1> QED
    BY <1>2, <1>3, <1>5, <1>6, <1>7, <1>8 DEF Kinds

\* Rows bound to runs the kernel has, after one of them was saved.
LEMMA BoundSaved ==
    ASSUME RunsBound(mem.rows), RunsBound(disk.rows), StartedRuns \subseteq StartedRuns',
           NEW s, NEW new, NEW ids, Saved(s, new, ids), new.run \in {NoRun, mem.rows[s].run}
    PROVE  RunsBound(mem.rows)' /\ RunsBound(disk.rows)'
  <1>1. s \in Sessions
    BY DEF Saved
  <1>2. \A t \in Sessions : mem'.rows[t].run # NoRun =>
            mem'.rows[t].run \in StartedRuns' /\ mem'.rows[t].run[1] = t
    BY <1>1 DEF Saved, RunsBound
  <1>3. \A t \in Sessions : disk'.rows[t].run # NoRun =>
            disk'.rows[t].run \in StartedRuns' /\ disk'.rows[t].run[1] = t
    BY <1>2 DEF Saved, RunsBound, RowsWritten, RowsUnwritten
  <1> QED
    BY <1>2, <1>3 DEF RunsBound

\* A new verb names a run of its session.
LEMMA NewJobRuns ==
    ASSUME Typed, RunsBound(mem.rows), StartedRuns \subseteq StartedRuns', NEW s \in Sessions,
           NEW op, NEW key, NEW cmd, NewJob(op, s, key, cmd)
    PROVE  /\ job'.stage \in {"bind", "steer", "respond", "cancel"} => job'.run \in StartedRuns'
           /\ job'.stage # "turn"
           /\ job'.run # NoRun => job'.run[1] = job'.s
  <1>1. /\ job'.stage \in {"start", "steer", "respond", "cancel", "settle"}
        /\ job'.stage \in {"steer", "respond", "cancel"} =>
               job'.run \in RunKeys /\ runs[job'.run] # "none"
        /\ job'.run \in {NoRun, mem.rows[s].run, <<s, op, key>>} /\ job'.s = s
    BY DEF NewJob
  <1>2. job'.stage \in {"steer", "respond", "cancel"} => job'.run \in StartedRuns'
    BY <1>1 DEF StartedRuns
  <1>3. job'.run # NoRun => job'.run[1] = s
    BY <1>1 DEF RunsBound
  <1> QED
    BY <1>1, <1>2, <1>3

\* Sessions and verbs name runs of their own that the kernel has.
LEMMA KernelStep ==
    ASSUME Inv, Kinds, Typed'
    PROVE  KernelOK'
  <1>1. /\ Typed /\ JobOK /\ KernelOK
        /\ RunsBound(mem.rows) /\ RunsBound(disk.rows)
    BY DEF Inv, KernelOK
  <1>2. /\ StartedRuns \subseteq StartedRuns' /\ IsFiniteSet(StartedRuns')
        /\ applied \subseteq applied' /\ IsFiniteSet(applied')
        /\ applied' \subseteq {"steer", "respond", "cancel"} \X Keys \X RunKeys
    BY KernelGrows
  <1>3. /\ \A t \in Sessions : disk.rows[t].run # NoRun =>
               disk.rows[t].run \in StartedRuns' /\ disk.rows[t].run[1] = t
        /\ \A t \in Sessions : mem.rows[t].run # NoRun =>
               mem.rows[t].run \in StartedRuns' /\ mem.rows[t].run[1] = t
    BY <1>1, <1>2 DEF RunsBound
  <1>4. Idle.stage = "idle"
    BY DEF Idle
  <1> SUFFICES /\ job'.stage \in {"bind", "steer", "respond", "cancel"} => job'.run \in StartedRuns'
               /\ job'.stage = "turn" => job'.run \in RunKeys /\ Request' \in applied'
               /\ job'.stage # "idle" /\ job'.run # NoRun => job'.run[1] = job'.s
               /\ RunsBound(mem.rows)' /\ RunsBound(disk.rows)'
    BY <1>2 DEF KernelOK
  <1>5. CASE \E s, key : Starting(s, key)
    <2>1. PICK s, key : Starting(s, key)
      BY <1>5
    <2>2. PICK new : new = NewRow(key, count.cmds + 1)
      OBVIOUS
    <2>3. new.run = NoRun /\ Saved(s, new, 1)
      BY <2>1, <2>2 DEF NewRow, NoRow, Starting
    <2>4. job'.stage \in {"idle", "start"} /\ (job'.stage # "idle" => job'.run[1] = job'.s)
      BY <1>4, <2>1 DEF Starting, StartJob
    <2>5. RunsBound(mem.rows)' /\ RunsBound(disk.rows)'
      BY <1>1, <1>2, <2>3, BoundSaved
    <2> QED
      BY <2>4, <2>5
  <1>6. CASE \E s, op, key, intent : Opening(s, op, key, intent)
    <2>1. PICK s, op, key, intent : Opening(s, op, key, intent)
      BY <1>6
    <2>2. PICK cmd \in Nat, row \in Rows : cmd = count.cmds + 1 /\ row = mem.rows[s]
      BY <1>1, <2>1 DEF Opening, Typed, Files
    <2>3. PICK new : new = Opened(row, op, key, cmd, intent)
      OBVIOUS
    <2>4. op \in Ops /\ key \in Keys /\ intent \in BOOLEAN
      BY <2>1 DEF Opening
    <2>5. /\ new.run = row.run
          /\ new.intent = IF intent THEN [cmd |-> cmd, phase |-> "intent"] ELSE row.intent
      BY <2>3, <2>4, OpenedRow
    <2>6. s \in Sessions /\ Saved(s, new, 1) /\ (job' = Idle \/ NewJob(op, s, key, cmd))
      BY <2>1, <2>2, <2>3 DEF Opening
    <2>7. RunsBound(mem.rows)' /\ RunsBound(disk.rows)'
      BY <1>1, <1>2, <2>2, <2>5, <2>6, BoundSaved
    <2>8. CASE job' = Idle
      BY <1>4, <2>7, <2>8
    <2>9. CASE NewJob(op, s, key, cmd)
      BY <1>1, <1>2, <2>6, <2>7, <2>9, NewJobRuns
    <2> QED
      BY <2>6, <2>8, <2>9
  <1>7. CASE \E s, op, key : Resuming(s, op, key)
    <2>1. PICK s, op, key : Resuming(s, op, key)
      BY <1>7
    <2>2. s \in Sessions /\ (\E cmd : NewJob(op, s, key, cmd)) /\ mem' = mem /\ disk' = disk
      BY <2>1 DEF Resuming
    <2>3. PICK cmd : NewJob(op, s, key, cmd)
      BY <2>2
    <2>4. RunsBound(mem.rows)' /\ RunsBound(disk.rows)'
      BY <1>3, <2>2 DEF RunsBound
    <2> QED
      BY <1>1, <1>2, <2>2, <2>3, <2>4, NewJobRuns
  <1>8. CASE \E s, new, c, phase, env : Revising(s, new, c, phase, env)
    <2>1. PICK s, new, c, phase, env : Revising(s, new, c, phase, env)
      BY <1>8
    <2>2. Saved(s, new, 0) /\ new.run \in {NoRun, mem.rows[s].run} /\ job'.stage = "idle"
      BY <1>4, <2>1 DEF Revising
    <2>3. RunsBound(mem.rows)' /\ RunsBound(disk.rows)'
      BY <1>1, <1>2, <2>2, BoundSaved
    <2> QED
      BY <2>2, <2>3
  <1>9. CASE \E new : Completing(new)
    <2>1. PICK new : Completing(new)
      BY <1>9
    <2>2. job.s \in Sessions /\ Row = mem.rows[job.s] /\ job.stage # "idle"
      BY <1>1, <2>1, JobTypes DEF Completing, Row
    <2>3. new.run # NoRun => new.run \in StartedRuns' /\ new.run[1] = job.s
      <3>1. CASE job.stage = "bind" /\ new.run = job.run
        BY <1>1, <1>2, <2>2, <3>1 DEF KernelOK
      <3>2. CASE new.run = Row.run
        BY <1>3, <2>2, <3>2
      <3> QED
        BY <2>1, <3>1, <3>2 DEF Completing
    <2>4. RunsBound(mem.rows)' /\ RunsBound(disk.rows)'
      BY <1>3, <2>1, <2>2, <2>3 DEF Completing, RunsBound
    <2> QED
      BY <1>1, <2>1, <2>2, <2>4 DEF Completing, SameJob, KernelOK
  <1>10. CASE Writing
    <2>1. RunsBound(mem.rows)' /\ RunsBound(disk.rows)'
      BY <1>3, <1>10 DEF Writing, RunsBound, RowsWritten, RowsUnwritten
    <2>2. job' = Idle \/ (SameJob /\ job'.stage = "freeze" /\ job.stage # "idle")
      BY <1>10 DEF Writing
    <2> QED
      BY <1>1, <1>4, <2>1, <2>2 DEF SameJob, KernelOK
  <1>11. CASE Calling
    <2>1. RunsBound(mem.rows)' /\ RunsBound(disk.rows)'
      BY <1>3, <1>11 DEF Calling, RunsBound
    <2>2. /\ SameJob /\ job.stage # "idle"
          /\ job'.stage \in {"bind", "turn", "settle", "freeze"}
          /\ job'.stage = "bind" => job.stage = "start" /\ runs'[job.run] # "none"
          /\ job'.stage = "turn" => job.stage = "steer" /\ Request \in applied'
      BY <1>11 DEF Calling
    <2>3. job'.stage = "bind" => job'.run \in StartedRuns'
      <3> SUFFICES ASSUME job'.stage = "bind" PROVE job'.run \in StartedRuns'
        OBVIOUS
      <3>1. job.run \in RunKeys
        <4>1. job.s \in Sessions /\ job.key \in Keys /\ job.op \in {"start", "steer"}
              /\ job.run = <<job.s, job.op, job.key>>
          BY <1>1, <2>2, JobTypes DEF JobOK
        <4> QED
          BY <4>1 DEF RunKeys
      <3> QED
        BY <2>2, <3>1 DEF StartedRuns, SameJob
    <2>4. job'.stage = "turn" => job'.run \in RunKeys /\ Request' \in applied'
      BY <1>1, <2>2 DEF KernelOK, StartedRuns, SameJob, Request
    <2> QED
      BY <1>1, <2>1, <2>2, <2>3, <2>4 DEF SameJob, KernelOK
  <1>12. CASE Replaying \/ Resting
    <2>1. RunsBound(mem.rows)' /\ RunsBound(disk.rows)' /\ applied' = applied
      BY <1>3, <1>12 DEF Replaying, Resting, RunsBound
    <2>2. job' = Idle \/ job' = job
      BY <1>12 DEF Replaying, Resting
    <2> QED
      BY <1>1, <1>2, <1>4, <2>1, <2>2 DEF KernelOK, Request
  <1>13. CASE Crashing
    BY <1>3, <1>4, <1>13 DEF Crashing, RunsBound
  <1> QED
    BY <1>5, <1>6, <1>7, <1>8, <1>9, <1>10, <1>11, <1>12, <1>13 DEF Kinds

-----------------------------------------------------------------------------
(* Runs and turns are counted once *)

\* A larger finite set has at least as many elements, and more with one more.
LEMMA MoreElements ==
    ASSUME NEW B, IsFiniteSet(B), NEW A, A \subseteq B
    PROVE  /\ Cardinality(A) \in Nat /\ Cardinality(B) \in Nat
           /\ Cardinality(A) <= Cardinality(B)
           /\ \A x \in B : x \notin A => Cardinality(A) + 1 <= Cardinality(B)
  <1>1. /\ IsFiniteSet(A) /\ Cardinality(A) <= Cardinality(B)
        /\ Cardinality(B) = Cardinality(A) => B = A
    BY FS_Subset
  <1>2. Cardinality(A) \in Nat /\ Cardinality(B) \in Nat
    BY <1>1, FS_CardinalityType
  <1> QED
    BY <1>1, <1>2

\* The messages of accepted commands are no more than the commands.
LEMMA SteerImage ==
    ASSUME NEW A, IsFiniteSet(A)
    PROVE  /\ IsFiniteSet({SteerOf(a) : a \in A})
           /\ Cardinality({SteerOf(a) : a \in A}) <= Cardinality(A)
  <1> DEFINE T == {SteerOf(a) : a \in A}
             f == [a \in A |-> SteerOf(a)]
  <1>1. f \in Surjection(A, T)
    BY DEF Surjection
  <1> HIDE DEF f, T
  <1>2. IsFiniteSet(T) /\ Cardinality(T) <= Cardinality(A)
    BY <1>1, FS_Surjection
  <1> QED
    BY <1>2 DEF T

\* The accepted messages are finitely many, and stay accepted.
LEMMA SteeredFinite ==
    ASSUME KernelOK
    PROVE  IsFiniteSet(SteeredKeys)
  <1>1. IsFiniteSet({SteerOf(a) : a \in applied})
    BY SteerImage DEF KernelOK
  <1>2. SteeredKeys \subseteq {SteerOf(a) : a \in applied}
    BY DEF SteeredKeys
  <1> QED
    BY <1>1, <1>2, FS_Subset

\* A row with the same counts stays accounted for while its own commands, the runs and
\* the messages grow.
LEMMA AccountedLater ==
    ASSUME NEW row, NEW new, NEW s, NEW due, NEW late, NEW started, NEW more, NEW steered, NEW taken,
           IsFiniteSet(more), IsFiniteSet(taken), started \subseteq more, steered \subseteq taken,
           Accounted(row, s, due, started, steered),
           row.runNo \in Nat, row.turnNo \in Nat,
           new.runNo = row.runNo, new.turnNo = row.turnNo,
           OwnKeys(row, s) \ due \subseteq OwnKeys(new, s) \ late
    PROVE  Accounted(new, s, late, more, taken)
  <1> DEFINE A == (OwnKeys(row, s) \ due) \cap started
             B == (OwnKeys(new, s) \ late) \cap more
             C == (OwnKeys(row, s) \ due) \cap (started \cup steered)
             D == (OwnKeys(new, s) \ late) \cap (more \cup taken)
  <1>1. A \subseteq B /\ C \subseteq D
    OBVIOUS
  <1>2. IsFiniteSet(more \cup taken)
    BY FS_Union
  <1>3. IsFiniteSet(B)
    BY FS_Subset
  <1>4. IsFiniteSet(D)
    BY <1>2, FS_Subset
  <1>5. row.runNo <= Cardinality(A) /\ row.turnNo <= Cardinality(C)
    BY DEF Accounted
  <1> HIDE DEF A, B, C, D
  <1>6. Cardinality(A) \in Nat /\ Cardinality(B) \in Nat /\ Cardinality(A) <= Cardinality(B)
    BY <1>1, <1>3, MoreElements
  <1>7. Cardinality(C) \in Nat /\ Cardinality(D) \in Nat /\ Cardinality(C) <= Cardinality(D)
    BY <1>1, <1>4, MoreElements
  <1>8. new.runNo <= Cardinality(B) /\ new.turnNo <= Cardinality(D)
    BY <1>5, <1>6, <1>7
  <1> QED
    BY <1>8 DEF Accounted, B, D

\* One more run or message of a row, that was not accounted for before.
LEMMA AccountedOnce ==
    ASSUME NEW row, NEW new, NEW s, NEW x, NEW started, NEW steered,
           IsFiniteSet(started), IsFiniteSet(steered),
           Accounted(row, s, {x}, started, steered),
           row.runNo \in Nat, row.turnNo \in Nat,
           OwnKeys(row, s) \subseteq OwnKeys(new, s), x \in OwnKeys(new, s),
           \/ new.runNo = row.runNo /\ x \in started \cup steered
           \/ new.runNo = row.runNo + 1 /\ x \in started,
           new.turnNo = row.turnNo + 1
    PROVE  Accounted(new, s, {}, started, steered)
  <1> DEFINE A == (OwnKeys(row, s) \ {x}) \cap started
             B == (OwnKeys(new, s) \ {}) \cap started
             C == (OwnKeys(row, s) \ {x}) \cap (started \cup steered)
             D == (OwnKeys(new, s) \ {}) \cap (started \cup steered)
  <1>1. A \subseteq B /\ C \subseteq D /\ x \notin A /\ x \notin C /\ x \in D
        /\ (new.runNo = row.runNo \/ (new.runNo = row.runNo + 1 /\ x \in B))
    OBVIOUS
  <1>2. IsFiniteSet(started \cup steered)
    BY FS_Union
  <1>3. IsFiniteSet(B)
    BY FS_Subset
  <1>4. IsFiniteSet(D)
    BY <1>2, FS_Subset
  <1>5. row.runNo <= Cardinality(A) /\ row.turnNo <= Cardinality(C)
    BY DEF Accounted
  <1> HIDE DEF A, B, C, D
  <1>6. /\ Cardinality(A) \in Nat /\ Cardinality(B) \in Nat /\ Cardinality(A) <= Cardinality(B)
        /\ x \in B => Cardinality(A) + 1 <= Cardinality(B)
    BY <1>1, <1>3, MoreElements
  <1>7. /\ Cardinality(C) \in Nat /\ Cardinality(D) \in Nat
        /\ Cardinality(C) + 1 <= Cardinality(D)
    BY <1>1, <1>4, MoreElements
  <1>8. new.runNo <= Cardinality(B) /\ new.turnNo <= Cardinality(D)
    BY <1>1, <1>5, <1>6, <1>7
  <1> QED
    BY <1>8 DEF Accounted, B, D

\* A row revised without losing a receipt has its own commands still.
LEMMA OwnRevised ==
    ASSUME NEW row \in Rows, NEW new \in Rows, NEW d, NEW c, NEW phase, NEW env, NEW s,
           RowOK(row, d), Revised(row, new, c, phase, env),
           \A r \in Receipts(row) : HasCmd(new, r.cmd)
    PROVE  OwnKeys(row, s) \subseteq OwnKeys(new, s)
  <1>1. \A op, key : Found(new, op, key) = {} => Found(row, op, key) = {}
    BY RevisedKeys
  <1> QED
    BY <1>1 DEF OwnKeys

\* So has a row that a command was opened in.
LEMMA OwnOpened ==
    ASSUME NEW row \in Rows, NEW new \in Rows, NEW d \in Nat, NEW op, NEW key, NEW s,
           RowOK(row, d),
           \A r \in Receipts(new) : r \in Receipts(row) \/ r = Intent(op, key, d + 1),
           \A r \in Receipts(row) : HasCmd(new, r.cmd)
    PROVE  /\ \A r \in Receipts(row) : r \in Receipts(new)
           /\ OwnKeys(row, s) \subseteq OwnKeys(new, s)
  <1>1. ASSUME NEW r \in Receipts(row)
        PROVE  r \in Receipts(new)
    <2>1. PICK q \in Receipts(new) : q.cmd = r.cmd
      BY DEF HasCmd
    <2>2. r.cmd \in 1..d
      BY DEF RowOK
    <2>3. q # Intent(op, key, d + 1)
      BY <2>1, <2>2 DEF Intent
    <2>4. q \in Receipts(row)
      BY <2>3
    <2>5. q = r
      BY <2>1, <2>4 DEF RowOK
    <2> QED
      BY <2>5
  <1> QED
    BY <1>1 DEF OwnKeys, Found

\* The accepted messages are finitely many and only grow.
LEMMA SteeredGrows ==
    ASSUME Inv, Kinds, KernelOK'
    PROVE  /\ StartedRuns \subseteq StartedRuns' /\ IsFiniteSet(StartedRuns')
           /\ SteeredKeys \subseteq SteeredKeys' /\ IsFiniteSet(SteeredKeys')
  <1>1. StartedRuns \subseteq StartedRuns' /\ applied \subseteq applied' /\ IsFiniteSet(StartedRuns')
        /\ IsFiniteSet(applied')
    BY KernelGrows
  <1>2. SteeredKeys \subseteq SteeredKeys'
    BY <1>1 DEF SteeredKeys
  <1>3. IsFiniteSet({SteerOf(a) : a \in applied'})
    BY <1>1, SteerImage
  <1>4. SteeredKeys' \subseteq {SteerOf(a) : a \in applied'}
    BY DEF SteeredKeys
  <1>5. IsFiniteSet(SteeredKeys')
    BY <1>3, <1>4, FS_Subset
  <1> QED
    BY <1>1, <1>2, <1>5

\* The file is accounted for when the memory is.
LEMMA DiskCounted ==
    ASSUME Inv, Kinds, Typed', KernelOK', InWindow,
           disk'.rows = disk.rows \/ disk'.rows = mem'.rows,
           NEW t \in Sessions, CountsOK(mem.rows[t], t, Due)'
    PROVE  CountsOK(disk.rows[t], t, {})'
  <1>1. /\ StartedRuns \subseteq StartedRuns' /\ IsFiniteSet(StartedRuns')
        /\ SteeredKeys \subseteq SteeredKeys' /\ IsFiniteSet(SteeredKeys')
    BY SteeredGrows
  <1>2. PICK started, more, steered, taken, late :
            /\ started = StartedRuns /\ more = StartedRuns' /\ steered = SteeredKeys
            /\ taken = SteeredKeys' /\ late = Due'
    OBVIOUS
  <1>3. PICK row \in Rows, new \in Rows, old \in Rows :
            row = disk.rows[t] /\ new = disk'.rows[t] /\ old = mem'.rows[t]
    BY DEF Inv, Typed, Files
  <1>4. Accounted(old, t, late, more, taken) /\ Accounted(row, t, {}, started, steered)
    BY <1>2, <1>3 DEF CountsOK, Inv, AllCounted
  <1>5. /\ IsFiniteSet(more) /\ IsFiniteSet(taken) /\ started \subseteq more /\ steered \subseteq taken
    BY <1>1, <1>2
  <1>6. \A r \in Rows : r.runNo \in Nat /\ r.turnNo \in Nat
    BY DEF Rows
  <1>7. CASE disk'.rows = disk.rows
    <2>1. new = row
      BY <1>3, <1>7
    <2>2. Accounted(new, t, {}, more, taken)
      BY <1>4, <1>5, <1>6, <2>1, AccountedLater
    <2> QED
      BY <1>2, <1>3, <2>2 DEF CountsOK
  <1>8. CASE disk'.rows = mem'.rows
    <2>1. new = old
      BY <1>3, <1>8
    <2>2. Accounted(new, t, {}, more, taken)
      BY <1>4, <1>5, <1>6, <2>1, AccountedLater
    <2> QED
      BY <1>2, <1>3, <2>2 DEF CountsOK
  <1> QED
    BY <1>7, <1>8

\* A session whose counts are as before and whose commands are still its own.
LEMMA MemCounted ==
    ASSUME Inv, Kinds, Typed', KernelOK', InWindow, NEW t \in Sessions,
           mem'.rows[t].runNo = mem.rows[t].runNo, mem'.rows[t].turnNo = mem.rows[t].turnNo,
           OwnKeys(mem.rows[t], t) \ Due \subseteq OwnKeys(mem'.rows[t], t) \ Due'
    PROVE  CountsOK(mem.rows[t], t, Due)'
  <1>1. /\ StartedRuns \subseteq StartedRuns' /\ IsFiniteSet(StartedRuns')
        /\ SteeredKeys \subseteq SteeredKeys' /\ IsFiniteSet(SteeredKeys')
    BY SteeredGrows
  <1>2. PICK started, more, steered, taken, due, late :
            /\ started = StartedRuns /\ more = StartedRuns' /\ steered = SteeredKeys
            /\ taken = SteeredKeys' /\ due = Due /\ late = Due'
    OBVIOUS
  <1>3. PICK row \in Rows, new \in Rows : row = mem.rows[t] /\ new = mem'.rows[t]
    BY DEF Inv, Typed, Files
  <1>4. /\ Accounted(row, t, due, started, steered)
        /\ OwnKeys(row, t) \ due \subseteq OwnKeys(new, t) \ late
        /\ new.runNo = row.runNo /\ new.turnNo = row.turnNo
    BY <1>2, <1>3 DEF CountsOK, Inv, AllCounted
  <1>5. /\ IsFiniteSet(more) /\ IsFiniteSet(taken) /\ started \subseteq more /\ steered \subseteq taken
    BY <1>1, <1>2
  <1>6. row.runNo \in Nat /\ row.turnNo \in Nat
    BY DEF Rows
  <1>7. Accounted(new, t, late, more, taken)
    BY <1>4, <1>5, <1>6, AccountedLater
  <1> QED
    BY <1>2, <1>3, <1>7 DEF CountsOK

\* A session that is opened counts nothing.
LEMMA NoneCounted ==
    ASSUME Inv, Kinds, KernelOK', NEW t \in Sessions,
           mem'.rows[t].runNo = 0, mem'.rows[t].turnNo = 0
    PROVE  CountsOK(mem.rows[t], t, Due)'
  <1>1. IsFiniteSet(StartedRuns') /\ IsFiniteSet(SteeredKeys')
    BY SteeredGrows
  <1> DEFINE own == OwnKeys(mem'.rows[t], t) \ Due'
  <1>2. IsFiniteSet(StartedRuns' \cup SteeredKeys')
    BY <1>1, FS_Union
  <1>3. /\ own \cap StartedRuns' \subseteq StartedRuns'
        /\ own \cap (StartedRuns' \cup SteeredKeys') \subseteq StartedRuns' \cup SteeredKeys'
    OBVIOUS
  <1> HIDE DEF own
  <1>4. Cardinality(own \cap StartedRuns') \in Nat
    BY <1>1, <1>3, MoreElements
  <1>5. Cardinality(own \cap (StartedRuns' \cup SteeredKeys')) \in Nat
    BY <1>2, <1>3, MoreElements
  <1> QED
    BY <1>4, <1>5 DEF CountsOK, Accounted, own

\* The command in progress is one of the session's own.
LEMMA DueOwn ==
    /\ job.stage \notin Adding => Due = {}
    /\ Due \subseteq {<<job.s, job.op, job.key>>}
    /\ \A row, s : \A x \in OwnKeys(row, s) : x[1] = s
  BY DEF Due, OwnKeys

\* The turn the command in progress adds is accounted for by the command.
LEMMA CompletingCounted ==
    ASSUME Inv, Kinds, Typed', KernelOK', InWindow, NEW new, Completing(new),
           \A r \in Receipts(Row) : HasCmd(new, r.cmd)
    PROVE  CountsOK(mem.rows[job.s], job.s, Due)'
  <1>1. Typed /\ JobOK /\ KernelOK /\ AllCounted
    BY DEF Inv
  <1>2. /\ job.stage \in Adding /\ job.stage # "idle" /\ job.stage \in {"bind", "turn"} /\ HasCmd(Row, job.cmd)
        /\ job'.stage \notin Adding /\ runs' = runs /\ applied' = applied
        /\ mem'.rows[job.s] = new
    BY DEF Completing, Adding
  <1>3. PICK s \in Sessions, key \in Keys, row \in Rows :
            s = job.s /\ key = job.key /\ row = Row /\ row = mem.rows[s]
    BY <1>1, <1>2, JobTypes DEF Row
  <1>4. PICK x : x = <<job.s, job.op, job.key>>
    OBVIOUS
  <1>5. Due = {x} /\ Due' = {}
    BY <1>2, <1>4, DueOwn DEF Due
  <1>6. PICK started, steered : started = StartedRuns /\ steered = SteeredKeys
    OBVIOUS
  <1>7. StartedRuns' = started /\ SteeredKeys' = steered
    BY <1>2, <1>6 DEF StartedRuns, SteeredKeys
  <1>8. IsFiniteSet(started) /\ IsFiniteSet(steered)
    BY <1>1, <1>6, SteeredFinite DEF KernelOK
  <1>9. Accounted(row, s, {x}, started, steered)
    BY <1>1, <1>3, <1>5, <1>6 DEF AllCounted, CountsOK
  <1>10. /\ new \in Rows /\ Revised(row, new, job.cmd, "completed", "committed")
         /\ RowOK(row, count.cmds)
    BY <1>3 DEF Completing, Inv, RowsOK
  <1>11. OwnKeys(row, s) \subseteq OwnKeys(new, s)
    BY <1>3, <1>10, OwnRevised
  <1>12. job.op \in {"start", "steer"} /\ (job.stage = "turn" => job.op = "steer")
    BY <1>1, <1>2 DEF JobOK
  <1>13. x \in RunKeys /\ x[1] = s /\ x[2] = job.op /\ x[3] = job.key
    BY <1>3, <1>4, <1>12 DEF RunKeys
  <1>14. x \in OwnKeys(row, s)
    <2>1. PICK r \in Receipts(row) : r.cmd = job.cmd
      BY <1>2, <1>3 DEF HasCmd
    <2>2. r.op = job.op /\ r.key = job.key
      BY <1>1, <1>2, <1>3, <2>1 DEF JobOK
    <2> QED
      BY <1>13, <2>2 DEF OwnKeys, Found
  <1>15. \/ new.runNo = row.runNo /\ x \in started \cup steered
         \/ new.runNo = row.runNo + 1 /\ x \in started
    <2>1. CASE job.stage = "bind"
      <3>1. new.runNo = row.runNo + 1
        BY <1>3, <2>1 DEF Completing
      <3>2. job.run \in StartedRuns /\ job.run = x
        BY <1>1, <1>2, <1>4, <2>1 DEF KernelOK, JobOK
      <3> QED
        BY <1>6, <3>1, <3>2
    <2>2. CASE job.stage = "turn"
      <3>1. new.runNo = row.runNo
        BY <1>3, <2>2 DEF Completing
      <3>2. Request \in applied /\ job.run \in RunKeys
        BY <1>1, <2>2 DEF KernelOK
      <3>3. job.run[1] = job.s
        BY <1>1, <1>2, <3>2 DEF KernelOK, RunKeys, NoRun
      <3>4. Request[1] = "steer" /\ SteerOf(Request) = x
        BY <1>4, <1>12, <2>2, <3>3 DEF Request, SteerOf
      <3>5. x \in steered
        BY <1>6, <1>13, <3>2, <3>4 DEF SteeredKeys
      <3> QED
        BY <3>1, <3>5
    <2> QED
      BY <1>2, <2>1, <2>2
  <1>16. new.turnNo = row.turnNo + 1
    BY <1>3 DEF Completing
  <1>17. row.runNo \in Nat /\ row.turnNo \in Nat
    BY DEF Rows
  <1>18. x \in OwnKeys(new, s)
    BY <1>11, <1>14
  <1>19. Accounted(new, s, {}, started, steered)
    BY <1>8, <1>9, <1>11, <1>15, <1>16, <1>17, <1>18, AccountedOnce
  <1>20. SameJob
    BY DEF Completing
  <1> QED
    BY <1>2, <1>3, <1>5, <1>7, <1>19, <1>20 DEF CountsOK, SameJob

\* The turns of a session are accounted for by its commands.
LEMMA CountedStep ==
    ASSUME Inv, Kinds, Typed', KernelOK'
    PROVE  AllCounted'
  <1> SUFFICES ASSUME InWindow'
               PROVE  \A t \in Sessions : /\ CountsOK(mem.rows[t], t, Due)'
                                          /\ CountsOK(disk.rows[t], t, {})'
    BY DEF AllCounted
  <1>1. /\ Typed /\ JobOK /\ KernelOK /\ AllCounted /\ count.cmds \in Nat
        /\ \A t \in Sessions : mem.rows[t] \in Rows /\ mem'.rows[t] \in Rows /\ RowOK(mem.rows[t], count.cmds)
    BY DEF Inv, RowsOK, Typed, Files
  <1>2. Idle.stage = "idle" /\ "idle" \notin Adding
    BY DEF Idle, Adding
  <1>3. /\ job.stage = "idle" => Due = {}
        /\ job'.stage \notin Adding => Due' = {}
    BY <1>2 DEF Due
  <1>4. CASE \E s, key : Starting(s, key)
    <2>1. PICK s, key : Starting(s, key)
      BY <1>4
    <2>2. /\ s \in Sessions /\ InWindow /\ mem'.rows[s] = NewRow(key, count.cmds + 1)
          /\ \A t \in Sessions : t # s => mem'.rows[t] = mem.rows[t]
          /\ disk'.rows = disk.rows \/ disk'.rows = mem'.rows
          /\ Due = {} /\ (job' = Idle \/ job' = StartJob(s, key, count.cmds + 1))
      BY <1>2, <1>3, <2>1 DEF Starting, Saved, CountedTo, InWindow, RowsWritten, RowsUnwritten
    <2>3. mem'.rows[s].runNo = 0 /\ mem'.rows[s].turnNo = 0
      BY <2>2 DEF NewRow, NoRow
    <2>4. Due' = {} \/ (Due' \subseteq {<<s, job'.op, job'.key>>})
      <3>1. job' = Idle => Due' = {}
        BY <1>2, <1>3
      <3>2. job' = StartJob(s, key, count.cmds + 1) => Due' \subseteq {<<s, job'.op, job'.key>>}
        BY DEF Due, StartJob
      <3> QED
        BY <2>2, <3>1, <3>2
    <2>5. ASSUME NEW t \in Sessions
          PROVE  CountsOK(mem.rows[t], t, Due)'
      <3>1. CASE t = s
        BY <2>3, <3>1, NoneCounted
      <3>2. CASE t # s
        <4>1. OwnKeys(mem.rows[t], t) \ Due \subseteq OwnKeys(mem'.rows[t], t) \ Due'
          BY <2>2, <2>4, <3>2 DEF OwnKeys
        <4> QED
          BY <2>2, <3>2, <4>1, MemCounted
      <3> QED
        BY <3>1, <3>2
    <2> QED
      BY <2>2, <2>5, DiskCounted
  <1>5. CASE \E s, op, key, intent : Opening(s, op, key, intent)
    <2>1. PICK s, op, key, intent : Opening(s, op, key, intent)
      BY <1>5
    <2>2. PICK cmd \in Nat, row \in Rows : cmd = count.cmds + 1 /\ row = mem.rows[s]
      BY <1>1, <2>1 DEF Opening
    <2>3. PICK new : new = Opened(row, op, key, cmd, intent)
      OBVIOUS
    <2>4. op \in Ops /\ key \in Keys /\ intent \in BOOLEAN
      BY <2>1 DEF Opening
    <2>5. /\ new \in Rows
          /\ \A r \in Receipts(new) : r \in Receipts(row) \/ r = Intent(op, key, cmd)
          /\ new.runNo = row.runNo /\ new.turnNo = row.turnNo
          /\ new.intent = IF intent THEN [cmd |-> cmd, phase |-> "intent"] ELSE row.intent
      BY <2>3, <2>4, OpenedRow
    <2>6. /\ s \in Sessions /\ InWindow /\ mem'.rows[s] = new
          /\ \A t \in Sessions : t # s => mem'.rows[t] = mem.rows[t]
          /\ \A t \in Sessions : \A r \in Receipts(mem.rows[t]) : HasCmd(mem'.rows[t], r.cmd)
          /\ disk'.rows = disk.rows \/ disk'.rows = mem'.rows
          /\ Due = {} /\ Found(row, op, key) = {}
      BY <1>2, <1>3, <2>1, <2>2, <2>3 DEF Opening, Saved, CountedTo, InWindow, RowsWritten, RowsUnwritten
    <2>7. Due' \subseteq {<<s, op, key>>}
      <3>1. job' = Idle \/ (job'.s = s /\ job'.op = op /\ job'.key = key)
        BY <2>1 DEF Opening, NewJob
      <3> QED
        BY <1>2, <1>3, <3>1 DEF Due
    <2>8. ASSUME NEW t \in Sessions
          PROVE  CountsOK(mem.rows[t], t, Due)'
      <3>1. CASE t = s
        <4>1. OwnKeys(row, s) \subseteq OwnKeys(new, s)
          <5>1. PICK d \in Nat : d = count.cmds
            BY <1>1
          <5>2. /\ new \in Rows /\ RowOK(row, d)
                /\ \A r \in Receipts(new) : r \in Receipts(row) \/ r = Intent(op, key, d + 1)
                /\ \A r \in Receipts(row) : HasCmd(new, r.cmd)
            BY <1>1, <2>2, <2>5, <2>6, <5>1
          <5> QED
            BY <5>2, OwnOpened
        <4>2. <<s, op, key>> \notin OwnKeys(row, s)
          BY <2>6 DEF OwnKeys
        <4>3. OwnKeys(mem.rows[t], t) \ Due \subseteq OwnKeys(mem'.rows[t], t) \ Due'
          BY <2>2, <2>6, <2>7, <3>1, <4>1, <4>2
        <4> QED
          BY <2>2, <2>5, <2>6, <3>1, <4>3, MemCounted
      <3>2. CASE t # s
        <4>1. OwnKeys(mem.rows[t], t) \ Due \subseteq OwnKeys(mem'.rows[t], t) \ Due'
          BY <2>6, <2>7, <3>2 DEF OwnKeys
        <4> QED
          BY <2>6, <3>2, <4>1, MemCounted
      <3> QED
        BY <3>1, <3>2
    <2> QED
      BY <2>6, <2>8, DiskCounted
  <1>6. CASE \E s, new, c, phase, env : Revising(s, new, c, phase, env)
    <2>1. PICK s, new, c, phase, env : Revising(s, new, c, phase, env)
      BY <1>6
    <2>2. /\ s \in Sessions /\ InWindow /\ mem'.rows[s] = new /\ new \in Rows
          /\ \A t \in Sessions : t # s => mem'.rows[t] = mem.rows[t]
          /\ \A t \in Sessions : \A r \in Receipts(mem.rows[t]) : HasCmd(mem'.rows[t], r.cmd)
          /\ disk'.rows = disk.rows \/ disk'.rows = mem'.rows
          /\ new.runNo = mem.rows[s].runNo /\ new.turnNo = mem.rows[s].turnNo
          /\ Revised(mem.rows[s], new, c, phase, env)
      BY <2>1 DEF Revising, Saved, CountedTo, InWindow, RowsWritten, RowsUnwritten
    <2>3. Due' = {}
      BY <1>2, <1>3, <2>1 DEF Revising
    <2>4. OwnKeys(mem.rows[s], s) \subseteq OwnKeys(new, s)
      BY <1>1, <2>2, OwnRevised
    <2>5. ASSUME NEW t \in Sessions
          PROVE  CountsOK(mem.rows[t], t, Due)'
      <3>1. OwnKeys(mem.rows[t], t) \ Due \subseteq OwnKeys(mem'.rows[t], t) \ Due'
        BY <2>2, <2>3, <2>4
      <3> QED
        BY <2>2, <3>1, MemCounted
    <2> QED
      BY <2>2, <2>5, DiskCounted
  <1>7. CASE \E new : Completing(new)
    <2>1. PICK new : Completing(new)
      BY <1>7
    <2>2. job.s \in Sessions /\ Row = mem.rows[job.s] /\ job.stage # "idle" /\ job'.s = job.s
      BY <1>1, <2>1, JobTypes DEF Completing, Row, SameJob
    <2>3. /\ InWindow /\ disk'.rows = disk.rows /\ mem'.rows[job.s] = new
          /\ \A t \in Sessions : t # job.s => mem'.rows[t] = mem.rows[t]
          /\ \A r \in Receipts(Row) : HasCmd(new, r.cmd)
      BY <2>1, <2>2 DEF Completing, CountedTo, InWindow
    <2>4. Due' = {}
      BY <1>3, <2>1 DEF Completing, Adding
    <2>5. ASSUME NEW t \in Sessions
          PROVE  CountsOK(mem.rows[t], t, Due)'
      <3>1. CASE t = job.s
        BY <2>1, <2>2, <2>3, <3>1, CompletingCounted
      <3>2. CASE t # job.s
        BY <2>3, <2>4, <3>2, MemCounted
      <3> QED
        BY <3>1, <3>2
    <2> QED
      BY <2>3, <2>5, DiskCounted
  <1>8. CASE /\ mem' = mem /\ InWindow /\ (Due' = Due \/ Due' = {})
             /\ disk'.rows = disk.rows \/ disk'.rows = mem'.rows
    <2>1. ASSUME NEW t \in Sessions
          PROVE  CountsOK(mem.rows[t], t, Due)'
      <3>1. OwnKeys(mem.rows[t], t) \ Due \subseteq OwnKeys(mem'.rows[t], t) \ Due'
        BY <1>8
      <3> QED
        BY <1>8, <3>1, MemCounted
    <2> QED
      BY <1>8, <2>1, DiskCounted
  <1>9. CASE \E s, op, key : Resuming(s, op, key)
    <2>1. PICK s, op, key : Resuming(s, op, key)
      BY <1>9
    <2>2. /\ mem' = mem /\ disk' = disk /\ InWindow
          /\ \/ NewJob(op, s, key, count.cmds + 1)
             \/ op = "cancel" /\ job'.op = op /\ job'.stage # "start"
                /\ \E r : NewJob(op, s, key, r)
      BY <2>1 DEF Resuming, InWindow, NewJob
    <2>3. Due' = {}
      <3>1. CASE NewJob(op, s, key, count.cmds + 1)
        <4>1. Row' = mem.rows[s] /\ s \in Sessions /\ job'.cmd = count.cmds + 1
          BY <2>1, <2>2, <3>1 DEF Row, NewJob, Resuming
        <4>2. ~HasCmd(mem.rows[s], count.cmds + 1)
          BY <1>1, <4>1 DEF HasCmd, RowOK
        <4> QED
          BY <4>1, <4>2 DEF Due, HasCmd
      <3>2. CASE op = "cancel" /\ job'.stage # "start" /\ \E r : NewJob(op, s, key, r)
        BY <1>3, <3>2 DEF NewJob, Adding
      <3> QED
        BY <2>2, <3>1, <3>2
    <2> QED
      BY <1>8, <2>2, <2>3
  <1>10. CASE Writing
    <2>1. Due' = {}
      BY <1>2, <1>3, <1>10 DEF Writing, Adding
    <2>2. mem' = mem /\ InWindow /\ (disk'.rows = disk.rows \/ disk'.rows = mem'.rows)
      BY <1>10 DEF Writing, CountedTo, InWindow, RowsWritten, RowsUnwritten
    <2> QED
      BY <1>8, <2>1, <2>2
  <1>11. CASE Calling
    <2>1. /\ mem' = mem /\ disk' = disk /\ InWindow /\ SameJob
          /\ job'.stage \in Adding => job.stage \in Adding
      BY <1>11 DEF Calling, InWindow, Adding
    <2>2. Due' = Due \/ Due' = {}
      <3>1. CASE job'.stage \in Adding
        <4>1. Row' = Row
          BY <2>1 DEF SameJob, Row
        <4> QED
          BY <2>1, <3>1, <4>1 DEF Due, SameJob, HasCmd
      <3> QED
        BY <1>3, <3>1
    <2> QED
      BY <1>8, <2>1, <2>2
  <1>12. CASE Replaying \/ Resting
    <2>1. mem' = mem /\ disk' = disk /\ InWindow /\ (job' = job \/ job' = Idle)
      BY <1>12 DEF Replaying, Resting, InWindow
    <2>2. Due' = Due \/ Due' = {}
      <3>1. job' = job => Due' = Due
        BY <2>1 DEF Due, Row
      <3> QED
        BY <1>2, <1>3, <2>1, <3>1
    <2> QED
      BY <1>8, <2>1, <2>2
  <1>13. CASE Crashing
    <2>1. mem' = disk /\ disk' = disk /\ InWindow /\ Due' = {} /\ runs' = runs /\ applied' = applied
      BY <1>2, <1>3, <1>13 DEF Crashing, InWindow
    <2>2. \A t \in Sessions : CountsOK(disk.rows[t], t, {})
      BY <1>1, <2>1 DEF AllCounted
    <2>3. StartedRuns' = StartedRuns /\ SteeredKeys' = SteeredKeys
      BY <2>1 DEF StartedRuns, SteeredKeys
    <2> QED
      BY <2>1, <2>2, <2>3 DEF CountsOK
  <1> QED
    BY <1>4, <1>5, <1>6, <1>7, <1>9, <1>10, <1>11, <1>12, <1>13 DEF Kinds

\* A session that keeps its commands keeps the one that opened it.
LEMMA OwnStart ==
    ASSUME NEW row \in Rows, NEW new, NEW t \in Sessions, OwnKeys(row, t) \subseteq OwnKeys(new, t),
           new.start = row.start, Found(row, "start", row.start) # {}
    PROVE  Found(new, "start", new.start) # {}
  <1>1. PICK r \in Receipts(row) : r.op = "start" /\ r.key = row.start
    BY DEF Found
  <1>2. r.key \in Keys
    BY <1>1, ReceiptTypes DEF ReceiptSet
  <1>3. PICK x : x = <<t, "start", row.start>>
    OBVIOUS
  <1>4. x \in RunKeys /\ x[1] = t /\ x[2] = "start" /\ x[3] = row.start
    BY <1>1, <1>2, <1>3 DEF RunKeys
  <1>5. x \in OwnKeys(row, t)
    BY <1>4 DEF OwnKeys
  <1>6. x \in OwnKeys(new, t)
    BY <1>5
  <1> QED
    BY <1>4, <1>6 DEF OwnKeys

\* A session keeps the receipt of the start that opened it.
LEMMA StartsKeptStep ==
    ASSUME Inv, Kinds, Typed', InWindow'
    PROVE  StartsKept(mem.rows)' /\ StartsKept(disk.rows)'
  <1>1. /\ Typed /\ JobOK /\ count.cmds \in Nat
        /\ \A t \in Sessions : mem.rows[t] \in Rows /\ mem'.rows[t] \in Rows /\ RowOK(mem.rows[t], count.cmds)
    BY DEF Inv, RowsOK, Typed, Files
  <1>2. InWindow => StartsKept(mem.rows) /\ StartsKept(disk.rows)
    BY DEF Inv
  <1>3. ASSUME InWindow, NEW s \in Sessions, mem.rows[s].state # "none",
               mem'.rows[s].start = mem.rows[s].start,
               OwnKeys(mem.rows[s], s) \subseteq OwnKeys(mem'.rows[s], s),
               \A t \in Sessions : t # s => mem'.rows[t] = mem.rows[t],
               disk'.rows = disk.rows \/ disk'.rows = mem'.rows
        PROVE  StartsKept(mem.rows)' /\ StartsKept(disk.rows)'
    <2>1. PICK row \in Rows, new \in Rows : row = mem.rows[s] /\ new = mem'.rows[s]
      BY <1>1
    <2>2. Found(row, "start", row.start) # {}
      BY <1>2, <1>3, <2>1 DEF StartsKept
    <2>3. Found(new, "start", new.start) # {}
      BY <1>3, <2>1, <2>2, OwnStart
    <2>4. StartsKept(mem.rows)'
      BY <1>2, <1>3, <2>1, <2>3 DEF StartsKept, Found
    <2> QED
      BY <1>2, <1>3, <2>4 DEF StartsKept, Found
  <1>4. CASE \E s, key : Starting(s, key)
    <2>1. PICK s, key : Starting(s, key)
      BY <1>4
    <2>2. /\ s \in Sessions /\ InWindow /\ mem'.rows[s] = NewRow(key, count.cmds + 1)
          /\ \A t \in Sessions : t # s => mem'.rows[t] = mem.rows[t]
          /\ disk'.rows = disk.rows \/ disk'.rows = mem'.rows
      BY <2>1 DEF Starting, Saved, CountedTo, InWindow, RowsWritten, RowsUnwritten
    <2>3. PICK new : new = NewRow(key, count.cmds + 1)
      OBVIOUS
    <2>4. new.receipts = <<Intent("start", key, count.cmds + 1)>> /\ new.start = key
      BY <2>3 DEF NewRow, NoRow
    <2>5. Receipts(new) = {Intent("start", key, count.cmds + 1)}
      BY <2>4 DEF Receipts
    <2>6. Found(new, "start", new.start) # {}
      BY <2>4, <2>5 DEF Found, Intent
    <2>7. StartsKept(mem.rows)'
      BY <1>2, <2>2, <2>3, <2>6 DEF StartsKept, Found
    <2> QED
      BY <1>2, <2>2, <2>7 DEF StartsKept, Found
  <1>5. CASE \E s, op, key, intent : Opening(s, op, key, intent)
    <2>1. PICK s, op, key, intent : Opening(s, op, key, intent)
      BY <1>5
    <2>2. PICK cmd \in Nat, row \in Rows : cmd = count.cmds + 1 /\ row = mem.rows[s]
      BY <1>1, <2>1 DEF Opening
    <2>3. PICK new : new = Opened(row, op, key, cmd, intent)
      OBVIOUS
    <2>4. op \in Ops /\ key \in Keys /\ intent \in BOOLEAN
      BY <2>1 DEF Opening
    <2>5. /\ new \in Rows /\ new.start = row.start
          /\ \A r \in Receipts(new) : r \in Receipts(row) \/ r = Intent(op, key, cmd)
          /\ new.intent = IF intent THEN [cmd |-> cmd, phase |-> "intent"] ELSE row.intent
      BY <2>3, <2>4, OpenedRow
    <2>6. /\ s \in Sessions /\ InWindow /\ mem'.rows[s] = new /\ mem.rows[s].state # "none"
          /\ \A t \in Sessions : t # s => mem'.rows[t] = mem.rows[t]
          /\ \A t \in Sessions : \A r \in Receipts(mem.rows[t]) : HasCmd(mem'.rows[t], r.cmd)
          /\ disk'.rows = disk.rows \/ disk'.rows = mem'.rows
      BY <2>1, <2>2, <2>3 DEF Opening, Saved, CountedTo, InWindow, RowsWritten, RowsUnwritten
    <2>7. OwnKeys(row, s) \subseteq OwnKeys(new, s)
      <3>1. PICK d \in Nat : d = count.cmds
        BY <1>1
      <3>2. /\ new \in Rows /\ RowOK(row, d)
            /\ \A r \in Receipts(new) : r \in Receipts(row) \/ r = Intent(op, key, d + 1)
            /\ \A r \in Receipts(row) : HasCmd(new, r.cmd)
        BY <1>1, <2>2, <2>5, <2>6, <3>1
      <3> QED
        BY <3>2, OwnOpened
    <2> QED
      BY <1>3, <2>2, <2>5, <2>6, <2>7
  <1>6. CASE \E s, new, c, phase, env : Revising(s, new, c, phase, env)
    <2>1. PICK s, new, c, phase, env : Revising(s, new, c, phase, env)
      BY <1>6
    <2>2. /\ s \in Sessions /\ InWindow /\ mem'.rows[s] = new /\ new \in Rows
          /\ \A t \in Sessions : t # s => mem'.rows[t] = mem.rows[t]
          /\ \A t \in Sessions : \A r \in Receipts(mem.rows[t]) : HasCmd(mem'.rows[t], r.cmd)
          /\ disk'.rows = disk.rows \/ disk'.rows = mem'.rows
          /\ new.start = mem.rows[s].start /\ HasCmd(mem.rows[s], c)
          /\ Revised(mem.rows[s], new, c, phase, env)
      BY <2>1 DEF Revising, Saved, CountedTo, InWindow, RowsWritten, RowsUnwritten
    <2>3. mem.rows[s].state # "none"
      BY <1>1, <2>2 DEF HasCmd, RowOK
    <2>4. OwnKeys(mem.rows[s], s) \subseteq OwnKeys(new, s)
      BY <1>1, <2>2, OwnRevised
    <2> QED
      BY <1>3, <2>2, <2>3, <2>4
  <1>7. CASE \E new : Completing(new)
    <2>1. PICK new : Completing(new)
      BY <1>7
    <2>2. job.s \in Sessions /\ Row = mem.rows[job.s]
      BY <1>1, <2>1, JobTypes DEF Completing, Row
    <2>3. /\ InWindow /\ disk'.rows = disk.rows /\ mem'.rows[job.s] = new /\ new \in Rows
          /\ \A t \in Sessions : t # job.s => mem'.rows[t] = mem.rows[t]
          /\ \A r \in Receipts(Row) : HasCmd(new, r.cmd)
          /\ new.start = Row.start /\ HasCmd(Row, job.cmd)
          /\ Revised(Row, new, job.cmd, "completed", "committed")
      BY <2>1, <2>2 DEF Completing, CountedTo, InWindow
    <2>4. Row.state # "none" /\ Row \in Rows /\ RowOK(Row, count.cmds)
      BY <1>1, <2>2, <2>3 DEF HasCmd, RowOK
    <2>5. OwnKeys(Row, job.s) \subseteq OwnKeys(new, job.s)
      BY <2>3, <2>4, OwnRevised
    <2> QED
      BY <1>3, <2>2, <2>3, <2>4, <2>5
  <1>8. CASE mem' = mem /\ InWindow /\ (disk'.rows = disk.rows \/ disk'.rows = mem'.rows)
    BY <1>2, <1>8 DEF StartsKept, Found
  <1>9. CASE \E s, op, key : Resuming(s, op, key)
    BY <1>8, <1>9 DEF Resuming, InWindow
  <1>10. CASE Writing
    BY <1>8, <1>10 DEF Writing, CountedTo, InWindow, RowsWritten, RowsUnwritten
  <1>11. CASE Calling \/ Replaying \/ Resting
    BY <1>8, <1>11 DEF Calling, Replaying, Resting, InWindow
  <1>12. CASE Crashing
    BY <1>2, <1>12 DEF Crashing, InWindow, StartsKept, Found
  <1> QED
    BY <1>4, <1>5, <1>6, <1>7, <1>9, <1>10, <1>11, <1>12 DEF Kinds

-----------------------------------------------------------------------------
(* Answers *)

\* A turn that is kept, or that newer ones replaced, stays so; the newest is kept.
LEMMA TurnLater ==
    ASSUME NEW turns \in [Sessions -> Seq({"start", "steer"} \X Keys)], NEW s \in Sessions,
           NEW turn \in {"start", "steer"} \X Keys, Len(turns[s]) <= MaxTurns,
           NEW late, late = WithTurn(turns, s, turn)
    PROVE  /\ \A t \in Sessions : \A op, key : HasTurn(turns, t, op, key) => HasTurn(late, t, op, key)
           /\ \A op, key : turn = <<op, key>> => HasTurn(late, s, op, key)
  <1>1. /\ late \in [Sessions -> Seq({"start", "steer"} \X Keys)]
        /\ \A t \in Sessions : t # s => late[t] = turns[t]
        /\ Len(late[s]) <= MaxTurns
        /\ \E i \in DOMAIN late[s] : late[s][i] = turn
        /\ \/ Len(late[s]) = MaxTurns
           \/ \A i \in DOMAIN turns[s] : i \in DOMAIN late[s] /\ late[s][i] = turns[s][i]
    <2> DEFINE w == WithTurn(turns, s, turn)
    <2>1. /\ w \in [Sessions -> Seq({"start", "steer"} \X Keys)]
          /\ \A t \in Sessions : t # s => w[t] = turns[t]
          /\ Len(w[s]) <= MaxTurns
          /\ \E i \in DOMAIN w[s] : w[s][i] = turn
          /\ \/ Len(w[s]) = MaxTurns
             \/ \A i \in DOMAIN turns[s] : i \in DOMAIN w[s] /\ w[s][i] = turns[s][i]
      BY SMTT(90), TurnAdded
    <2> QED
      BY <2>1
  <1>2. ASSUME NEW t \in Sessions, NEW op, NEW key, HasTurn(turns, t, op, key)
        PROVE  HasTurn(late, t, op, key)
    <2>1. CASE t # s
      BY <1>1, <1>2, <2>1 DEF HasTurn
    <2>2. CASE t = s /\ Len(late[s]) = MaxTurns
      BY <2>2 DEF HasTurn
    <2>3. CASE /\ t = s
               /\ \A i \in DOMAIN turns[s] : i \in DOMAIN late[s] /\ late[s][i] = turns[s][i]
      <3>1. CASE \E i \in DOMAIN turns[t] : turns[t][i] = <<op, key>>
        BY <2>3, <3>1 DEF HasTurn
      <3>2. CASE Len(turns[t]) = MaxTurns
        <4>1. turns[s] \in Seq({"start", "steer"} \X Keys) /\ late[s] \in Seq({"start", "steer"} \X Keys)
          BY <1>1
        <4>2. /\ DOMAIN turns[s] = 1..Len(turns[s]) /\ DOMAIN late[s] = 1..Len(late[s])
              /\ Len(turns[s]) \in Nat /\ Len(late[s]) \in Nat
          BY <4>1
        <4>3. MaxTurns \in DOMAIN turns[s]
          BY <2>3, <3>2, <4>2, SessionConstants
        <4>4. MaxTurns \in DOMAIN late[s]
          BY <2>3, <4>3
        <4>5. Len(late[s]) <= MaxTurns /\ MaxTurns \in Nat
          BY <1>1, SessionConstants
        <4>6. Len(late[s]) = MaxTurns
          BY <4>2, <4>4, <4>5
        <4> QED
          BY <2>3, <4>6 DEF HasTurn
      <3> QED
        BY <1>2, <3>1, <3>2 DEF HasTurn
    <2> QED
      BY <1>1, <2>1, <2>2, <2>3
  <1>3. ASSUME NEW op, NEW key, turn = <<op, key>>
        PROVE  HasTurn(late, s, op, key)
    BY <1>1, <1>3 DEF HasTurn
  <1> QED
    BY <1>2, <1>3

\* What is answered stays answered, and is on the disk, when a row is saved that keeps
\* the answers and makes up no committed turn.
LEMMA SavedAnswers ==
    ASSUME Typed, Kept, mem'.turns = mem.turns, disk'.turns = disk.turns, disk'.rows = mem'.rows,
           \A t \in Sessions : \A r \in Receipts(mem.rows[t]) :
               r.env # "none" => r \in Receipts(mem'.rows[t]),
           \A t \in Sessions : \A q \in Receipts(mem'.rows[t]) :
               q.env = "committed" /\ q.op \in {"start", "steer"} => q \in Receipts(mem.rows[t])
    PROVE  /\ TurnsKept(mem)' /\ TurnsKept(disk)'
           /\ \A a \in said : HasAnswer(mem'.rows[a.s], a) /\ HasAnswer(disk'.rows[a.s], a)
  <1>1. TurnsKept(mem)'
    BY ZenonT(60) DEF Kept, TurnsKept, HasTurn
  <1>2. TurnsKept(disk)'
    <2>1. disk'.turns = mem'.turns /\ disk'.rows = mem'.rows
      BY DEF Kept
    <2> QED
      BY <1>1, <2>1 DEF TurnsKept, HasTurn
  <1>3. \A a \in said : HasAnswer(mem'.rows[a.s], a)
    BY DEF Kept, HasAnswer, Typed
  <1> QED
    BY <1>1, <1>2, <1>3

\* The answers after a command was made in memory and its turn written.
LEMMA CompletingKept ==
    ASSUME Inv, Typed', Kept, InWindow, NEW new, Completing(new), disk'.turns = mem'.turns, job'.stage = "flush",
           \A r \in Receipts(Row) : HasCmd(new, r.cmd)
    PROVE  Kept'
  <1>1. Typed /\ JobOK /\ TurnsBounded(mem)
    BY DEF Inv
  <1>2. /\ job.stage \in {"bind", "turn"} /\ job.stage # "idle" /\ new \in Rows /\ HasCmd(Row, job.cmd)
        /\ disk'.rows = disk.rows /\ said' = said /\ mem'.rows[job.s] = new /\ SameJob
        /\ \A t \in Sessions : t # job.s => mem'.rows[t] = mem.rows[t]
        /\ mem'.turns = WithTurn(mem.turns, job.s, <<job.op, job.key>>)
        /\ Revised(Row, new, job.cmd, "completed", "committed")
    BY DEF Completing
  <1>3. PICK s \in Sessions, row \in Rows : s = job.s /\ row = Row /\ row = mem.rows[s]
    BY <1>1, <1>2, JobTypes DEF Row
  <1>4. /\ \A r \in Receipts(row) : r.cmd = job.cmd => r.env = "none" /\ r.op = job.op /\ r.key = job.key
        /\ mem.rows = disk.rows
    BY <1>1, <1>2, <1>3 DEF Kept, JobOK
  <1>5. RowOK(row, count.cmds)
    BY <1>3 DEF Inv, RowsOK
  <1>6. \A r \in Receipts(row) : \E q \in Receipts(new) :
            /\ q.cmd = r.cmd /\ q.op = r.op /\ q.key = r.key
            /\ q.cmd # job.cmd => q = r
            /\ q.cmd = job.cmd => q.phase = "completed" /\ q.env = "committed"
    <2>1. Revised(row, new, job.cmd, "completed", "committed") /\ new \in Rows
          /\ \A r \in Receipts(row) : HasCmd(new, r.cmd)
      BY <1>2, <1>3
    <2> QED
      BY <1>5, <2>1, RevisedKeys
  <1>7. /\ \A t \in Sessions : \A op, key : HasTurn(mem.turns, t, op, key) => HasTurn(mem'.turns, t, op, key)
        /\ HasTurn(mem'.turns, s, job.op, job.key)
    <2>1. PICK turns \in [Sessions -> Seq({"start", "steer"} \X Keys)],
               turn \in {"start", "steer"} \X Keys :
              turns = mem.turns /\ turn = <<job.op, job.key>>
      BY <1>1, <1>2, JobTypes DEF JobOK, Typed, Files
    <2>2. PICK late : late = WithTurn(turns, s, turn)
      OBVIOUS
    <2>3. Len(turns[s]) <= MaxTurns
      BY <1>1, <2>1 DEF TurnsBounded
    <2>4. /\ \A t \in Sessions : \A op, key : HasTurn(turns, t, op, key) => HasTurn(late, t, op, key)
          /\ \A op, key : turn = <<op, key>> => HasTurn(late, s, op, key)
      BY <2>2, <2>3, TurnLater
    <2>5. mem'.turns = late
      BY <1>2, <1>3, <2>1, <2>2
    <2> QED
      BY <2>1, <2>4, <2>5
  <1>8. TurnsKept(mem)'
    <2> SUFFICES ASSUME NEW t \in Sessions, NEW q \in Receipts(mem'.rows[t]),
                        q.env = "committed", q.op \in {"start", "steer"}
                 PROVE  HasTurn(mem'.turns, t, q.op, q.key)
      BY DEF TurnsKept, Receipts, HasTurn
    <2>1. CASE t # s
      <3>1. q \in Receipts(mem.rows[t])
        BY <1>2, <1>3, <2>1
      <3>2. HasTurn(mem.turns, t, q.op, q.key)
        BY <3>1 DEF Kept, TurnsKept
      <3> QED
        BY <1>7, <3>2
    <2>2. CASE t = s
      <3>1. PICK r \in Receipts(row) : /\ q.cmd = r.cmd /\ q.op = r.op /\ q.key = r.key
                                       /\ q.cmd # job.cmd => q = r
        BY <1>2, <1>3, <2>2 DEF Revised
      <3>2. CASE q.cmd = job.cmd
        BY <1>4, <1>7, <2>2, <3>1, <3>2
      <3>3. CASE q.cmd # job.cmd
        <4>1. HasTurn(mem.turns, t, q.op, q.key)
          BY <1>3, <2>2, <3>1, <3>3 DEF Kept, TurnsKept
        <4> QED
          BY <1>7, <4>1
      <3> QED
        BY <3>2, <3>3
    <2> QED
      BY <2>1, <2>2
  <1>9. TurnsKept(disk)'
    <2> SUFFICES ASSUME NEW t \in Sessions, NEW q \in Receipts(disk.rows[t]),
                        q.env = "committed", q.op \in {"start", "steer"}
                 PROVE  HasTurn(mem'.turns, t, q.op, q.key)
      BY <1>2 DEF TurnsKept, HasTurn
    <2>1. HasTurn(mem.turns, t, q.op, q.key)
      BY <1>4 DEF Kept, TurnsKept
    <2> QED
      BY <1>7, <2>1
  <1>10. \A a \in said' : HasAnswer(mem'.rows[a.s], a) /\ HasAnswer(disk'.rows[a.s], a)
    <2> SUFFICES ASSUME NEW a \in said
                 PROVE  HasAnswer(mem'.rows[a.s], a) /\ HasAnswer(disk'.rows[a.s], a)
      BY <1>2
    <2>1. a.s \in Sessions /\ a.env # "none" /\ HasAnswer(mem.rows[a.s], a) /\ HasAnswer(disk.rows[a.s], a)
      BY <1>1 DEF Typed, Kept
    <2>2. CASE a.s # s
      BY <1>2, <1>3, <2>1, <2>2
    <2>3. CASE a.s = s
      <3>1. PICK r \in Receipts(row) : r.op = a.op /\ r.key = a.key /\ r.env = a.env
        BY <1>3, <2>1, <2>3 DEF HasAnswer
      <3>2. r \in Receipts(new)
        BY <1>4, <1>6, <2>1, <3>1
      <3> QED
        BY <1>2, <1>3, <2>1, <2>3, <3>1, <3>2 DEF HasAnswer
    <2> QED
      BY <2>2, <2>3
  <1>11. \E r \in Receipts(Row)' : r.op = job'.op /\ r.key = job'.key /\ r.env = "committed"
    <2>1. PICK r \in Receipts(row) : r.cmd = job.cmd
      BY <1>2, <1>3 DEF HasCmd
    <2>2. PICK q \in Receipts(new) : q.op = r.op /\ q.key = r.key /\ q.env = "committed"
      BY <1>6, <2>1
    <2>3. Row' = new
      BY <1>2 DEF Row, SameJob
    <2>4. Receipts(Row)' = Receipts(new)
      BY <2>3 DEF Receipts
    <2> QED
      BY <1>2, <1>4, <2>1, <2>2, <2>4 DEF SameJob
  <1> QED
    BY <1>8, <1>9, <1>10, <1>11 DEF Kept

\* Answers are kept, on both sides.
LEMMA AnswersStep ==
    ASSUME Inv, Kinds, Typed'
    PROVE  AnswersOK'
  <1> SUFFICES ASSUME count'.faults = 0, InWindow'
               PROVE  Kept'
    BY DEF AnswersOK
  <1>1. /\ Typed /\ JobOK /\ count.cmds \in Nat /\ count.faults \in Nat
        /\ \A t \in Sessions : mem.rows[t] \in Rows /\ mem'.rows[t] \in Rows /\ RowOK(mem.rows[t], count.cmds)
    BY DEF Inv, RowsOK, Typed, Files
  <1>2. Idle.stage = "idle"
    BY DEF Idle
  <1>3. count.faults = 0 /\ InWindow => Kept
    BY DEF Inv, AnswersOK
  <1>4. CASE \E s, key : Starting(s, key)
    <2>1. PICK s, key : Starting(s, key)
      BY <1>4
    <2>2. PICK new : new = NewRow(key, count.cmds + 1)
      OBVIOUS
    <2>3. /\ s \in Sessions /\ mem'.rows[s] = new /\ mem.rows[s] = NoRow /\ said' = said
          /\ \A t \in Sessions : t # s => mem'.rows[t] = mem.rows[t]
          /\ InWindow /\ mem'.turns = mem.turns /\ disk'.turns = disk.turns
      BY <2>1, <2>2 DEF Starting, Saved, CountedTo, InWindow
    <2>4. disk'.rows = mem'.rows /\ count.faults = 0
      BY <1>1, <2>1 DEF Starting, Saved, RowsWritten, RowsUnwritten
    <2>5. Kept
      BY <1>3, <2>3, <2>4
    <2>6. new.receipts = <<Intent("start", key, count.cmds + 1)>>
      BY <2>2 DEF NewRow, NoRow
    <2>7. /\ Receipts(new) = {Intent("start", key, count.cmds + 1)}
          /\ \A r \in Receipts(new) : r.env = "none"
      BY <2>6 DEF Receipts, Intent
    <2>8. Receipts(mem.rows[s]) = {}
      BY <2>3, EmptyRow
    <2>9. /\ TurnsKept(mem)' /\ TurnsKept(disk)'
          /\ \A a \in said : HasAnswer(mem'.rows[a.s], a) /\ HasAnswer(disk'.rows[a.s], a)
      <3>1. \A t \in Sessions : \A r \in Receipts(mem.rows[t]) :
                r.env # "none" => r \in Receipts(mem'.rows[t])
        BY <2>3, <2>8
      <3>2. \A t \in Sessions : \A q \in Receipts(mem'.rows[t]) :
                q.env = "committed" /\ q.op \in {"start", "steer"} => q \in Receipts(mem.rows[t])
        BY <2>3, <2>7
      <3> QED
        BY <1>1, <2>3, <2>4, <2>5, <3>1, <3>2, SavedAnswers
    <2>10. /\ job'.stage # "flush"
           /\ job'.stage \notin {"idle", "flush"} => Row' = new
      BY <1>2, <2>1, <2>3 DEF Starting, StartJob, Row
    <2>11. job'.stage \notin {"idle", "flush"} =>
               \A r \in Receipts(Row)' : r.cmd = job'.cmd => r.env = "none"
      BY <2>7, <2>10 DEF Receipts
    <2> QED
      BY <2>3, <2>4, <2>5, <2>9, <2>10, <2>11 DEF Kept
  <1>5. CASE \E s, op, key, intent : Opening(s, op, key, intent)
    <2>1. PICK s, op, key, intent : Opening(s, op, key, intent)
      BY <1>5
    <2>2. PICK cmd \in Nat, row \in Rows : cmd = count.cmds + 1 /\ row = mem.rows[s]
      BY <1>1, <2>1 DEF Opening
    <2>3. PICK new : new = Opened(row, op, key, cmd, intent)
      OBVIOUS
    <2>4. op \in Ops /\ key \in Keys /\ intent \in BOOLEAN
      BY <2>1 DEF Opening
    <2>5. /\ new \in Rows
          /\ \A r \in Receipts(new) : r \in Receipts(row) \/ r = Intent(op, key, cmd)
          /\ new.intent = IF intent THEN [cmd |-> cmd, phase |-> "intent"] ELSE row.intent
      BY <2>3, <2>4, OpenedRow
    <2>6. /\ s \in Sessions /\ mem'.rows[s] = new /\ said' = said
          /\ \A t \in Sessions : t # s => mem'.rows[t] = mem.rows[t]
          /\ \A t \in Sessions : \A r \in Receipts(mem.rows[t]) : HasCmd(mem'.rows[t], r.cmd)
          /\ InWindow /\ mem'.turns = mem.turns /\ disk'.turns = disk.turns
      BY <2>1, <2>2, <2>3 DEF Opening, Saved, CountedTo, InWindow
    <2>7. disk'.rows = mem'.rows /\ count.faults = 0
      BY <1>1, <2>1 DEF Opening, Saved, RowsWritten, RowsUnwritten
    <2>8. Kept
      BY <1>3, <2>6, <2>7
    <2>9. \A r \in Receipts(row) : r \in Receipts(new)
      <3>1. PICK d \in Nat : d = count.cmds
        BY <1>1
      <3>2. /\ new \in Rows /\ RowOK(row, d)
            /\ \A r \in Receipts(new) : r \in Receipts(row) \/ r = Intent(op, key, d + 1)
            /\ \A r \in Receipts(row) : HasCmd(new, r.cmd)
        BY <1>1, <2>2, <2>5, <2>6, <3>1
      <3> QED
        BY <3>2, OwnOpened
    <2>10. Intent(op, key, cmd).env = "none" /\ Intent(op, key, cmd).cmd = cmd
      BY DEF Intent
    <2>11. /\ TurnsKept(mem)' /\ TurnsKept(disk)'
           /\ \A a \in said : HasAnswer(mem'.rows[a.s], a) /\ HasAnswer(disk'.rows[a.s], a)
      <3>1. \A t \in Sessions : \A r \in Receipts(mem.rows[t]) :
                r.env # "none" => r \in Receipts(mem'.rows[t])
        BY <2>2, <2>6, <2>9
      <3>2. \A t \in Sessions : \A q \in Receipts(mem'.rows[t]) :
                q.env = "committed" /\ q.op \in {"start", "steer"} => q \in Receipts(mem.rows[t])
        BY <2>2, <2>5, <2>6, <2>10
      <3> QED
        BY <1>1, <2>6, <2>7, <2>8, <3>1, <3>2, SavedAnswers
    <2>12. /\ job'.stage # "flush"
           /\ job'.stage \notin {"idle", "flush"} => Row' = new /\ job'.cmd = cmd
      BY <1>2, <2>1, <2>2, <2>6 DEF Opening, NewJob, Row
    <2>13. \A r \in Receipts(new) : r.cmd = cmd => r.env = "none"
      <3>1. \A r \in Receipts(row) : r.cmd # cmd
        BY <1>1, <2>2, <2>6 DEF RowOK
      <3> QED
        BY <2>5, <2>10, <3>1
    <2>14. job'.stage \notin {"idle", "flush"} =>
               \A r \in Receipts(Row)' : r.cmd = job'.cmd => r.env = "none"
      BY <2>12, <2>13 DEF Receipts
    <2> QED
      BY <2>6, <2>7, <2>8, <2>11, <2>12, <2>14 DEF Kept
  <1>6. CASE \E s, new, c, phase, env : Revising(s, new, c, phase, env)
    <2>1. PICK s, new, c, phase, env : Revising(s, new, c, phase, env)
      BY <1>6
    <2>2. /\ s \in Sessions /\ mem'.rows[s] = new /\ new \in Rows
          /\ \A t \in Sessions : t # s => mem'.rows[t] = mem.rows[t]
          /\ \A t \in Sessions : \A r \in Receipts(mem.rows[t]) : HasCmd(mem'.rows[t], r.cmd)
          /\ InWindow /\ mem'.turns = mem.turns /\ disk'.turns = disk.turns
          /\ Revised(mem.rows[s], new, c, phase, env) /\ job'.stage = "idle"
      BY <1>2, <2>1 DEF Revising, Saved, CountedTo, InWindow
    <2>3. disk'.rows = mem'.rows /\ count.faults = 0
      BY <1>1, <2>1 DEF Revising, Saved, RowsWritten, RowsUnwritten
    <2>4. Kept
      BY <1>3, <2>2, <2>3
    <2>5. PICK row \in Rows : row = mem.rows[s]
      BY <1>1, <2>2
    <2>6. \A r \in Receipts(row) : r.cmd = c =>
              r.env = "none" /\ (env = "committed" => r.op \in {"respond", "cancel"})
      BY <2>1, <2>2, <2>3, <2>5 DEF Revising
    <2>7. \A r \in Receipts(row) : \E q \in Receipts(new) :
              /\ q.cmd = r.cmd /\ q.op = r.op /\ q.key = r.key
              /\ q.cmd # c => q = r
              /\ q.cmd = c => q.phase = phase /\ q.env = env
      <3>1. /\ Revised(row, new, c, phase, env) /\ new \in Rows /\ RowOK(row, count.cmds)
            /\ \A r \in Receipts(row) : HasCmd(new, r.cmd)
        BY <1>1, <2>2, <2>5
      <3> QED
        BY <3>1, RevisedKeys
    <2>8. /\ TurnsKept(mem)' /\ TurnsKept(disk)'
          /\ \A a \in said : HasAnswer(mem'.rows[a.s], a) /\ HasAnswer(disk'.rows[a.s], a)
      <3>1. \A r \in Receipts(row) : r.env # "none" => r \in Receipts(new)
        BY <2>6, <2>7
      <3>2. \A q \in Receipts(new) :
                q.env = "committed" /\ q.op \in {"start", "steer"} => q \in Receipts(row)
        BY <2>2, <2>5, <2>6 DEF Revised
      <3>3. \A t \in Sessions : \A r \in Receipts(mem.rows[t]) :
                r.env # "none" => r \in Receipts(mem'.rows[t])
        BY <2>2, <2>5, <3>1
      <3>4. \A t \in Sessions : \A q \in Receipts(mem'.rows[t]) :
                q.env = "committed" /\ q.op \in {"start", "steer"} => q \in Receipts(mem.rows[t])
        BY <2>2, <2>5, <3>2
      <3> QED
        BY <1>1, <2>2, <2>3, <2>4, <3>3, <3>4, SavedAnswers
    <2>9. \A a \in said' : HasAnswer(mem'.rows[a.s], a) /\ HasAnswer(disk'.rows[a.s], a)
      <3>1. CASE said' = said
        BY <2>8, <3>1
      <3>2. CASE \E r \in Receipts(mem.rows[s]) :
                    /\ r.cmd = c
                    /\ said' = said \cup {[op |-> r.op, s |-> s, key |-> r.key, env |-> env]}
        <4>1. PICK r \in Receipts(row) :
                  /\ r.cmd = c
                  /\ said' = said \cup {[op |-> r.op, s |-> s, key |-> r.key, env |-> env]}
          BY <2>5, <3>2
        <4>2. PICK q \in Receipts(new) : q.op = r.op /\ q.key = r.key /\ q.env = env
          BY <2>7, <4>1
        <4>3. HasAnswer(new, [op |-> r.op, s |-> s, key |-> r.key, env |-> env])
          BY <4>2 DEF HasAnswer
        <4> QED
          BY <2>2, <2>3, <2>8, <4>1, <4>3
      <3> QED
        BY <2>1, <3>1, <3>2 DEF Revising
    <2> QED
      BY <2>2, <2>3, <2>4, <2>8, <2>9 DEF Kept
  <1>7. CASE \E new : Completing(new)
    <2>1. PICK new : Completing(new)
      BY <1>7
    <2>2. job.s \in Sessions /\ Row = mem.rows[job.s]
      BY <1>1, <2>1, JobTypes DEF Completing, Row
    <2>3. /\ InWindow /\ count.faults = 0 /\ disk'.turns = mem'.turns /\ job'.stage = "flush"
          /\ \A r \in Receipts(Row) : HasCmd(new, r.cmd)
      BY <1>1, <2>1, <2>2 DEF Completing, CountedTo, InWindow
    <2> QED
      BY <1>3, <2>1, <2>3, CompletingKept
  <1>8. CASE \E s, op, key : Resuming(s, op, key)
    <2>1. PICK s, op, key : Resuming(s, op, key)
      BY <1>8
    <2>2. /\ s \in Sessions /\ mem' = mem /\ disk' = disk /\ said' = said
          /\ InWindow /\ count.faults = 0 /\ job.stage = "idle"
          /\ \A r \in Found(mem.rows[s], op, key) : r.env = "none"
      BY <1>2, <2>1 DEF Resuming, InWindow
    <2>3. Kept
      BY <1>3, <2>2
    <2>4. PICK cmd : /\ NewJob(op, s, key, cmd)
                     /\ cmd = count.cmds + 1 \/ \E r \in Found(mem.rows[s], op, key) : cmd = r.cmd
      BY <2>1 DEF Resuming
    <2>5. \A r \in Receipts(mem.rows[s]) : r.cmd = cmd => r.env = "none"
      <3>1. CASE cmd = count.cmds + 1
        BY <1>1, <2>2, <3>1 DEF RowOK
      <3>2. CASE \E r \in Found(mem.rows[s], op, key) : cmd = r.cmd
        BY <1>1, <2>2, <3>2 DEF Found, RowOK
      <3> QED
        BY <2>4, <3>1, <3>2
    <2>6. Row' = mem.rows[s] /\ job'.cmd = cmd /\ job'.stage # "flush"
      BY <2>2, <2>4 DEF NewJob, Row
    <2>7. \A r \in Receipts(Row)' : r.cmd = job'.cmd => r.env = "none"
      BY <2>5, <2>6 DEF Receipts
    <2>8. TurnsKept(mem)' /\ TurnsKept(disk)'
      BY <2>2, <2>3 DEF Kept, TurnsKept, HasTurn
    <2> QED
      BY <2>2, <2>3, <2>6, <2>7, <2>8 DEF Kept
  <1>9. CASE Writing
    <2>1. /\ job.stage = "flush" /\ mem' = mem /\ disk'.turns = disk.turns /\ InWindow
          /\ disk'.rows = mem'.rows /\ count.faults = 0 /\ job'.stage = "idle"
          /\ said' = said \cup {[op |-> job.op, s |-> job.s, key |-> job.key, env |-> "committed"]}
      BY <1>1, <1>2, <1>9 DEF Writing, CountedTo, InWindow, RowsWritten, RowsUnwritten
    <2>2. Kept
      BY <1>3, <2>1
    <2>3. disk'.turns = mem'.turns
      BY <2>1, <2>2 DEF Kept
    <2>4. TurnsKept(mem)' /\ TurnsKept(disk)'
      <3>1. TurnsKept(mem)
        BY <2>2 DEF Kept
      <3>2. mem'.rows = mem.rows /\ mem'.turns = mem.turns /\ disk'.rows = mem.rows /\ disk'.turns = mem.turns
        BY <2>1, <2>3
      <3> QED
        BY <3>1, <3>2 DEF TurnsKept, HasTurn
    <2>5. HasAnswer(mem.rows[job.s], [op |-> job.op, s |-> job.s, key |-> job.key, env |-> "committed"])
      BY <2>1, <2>2 DEF Kept, HasAnswer, Row
    <2>6. \A a \in said' : HasAnswer(mem'.rows[a.s], a) /\ HasAnswer(disk'.rows[a.s], a)
      BY <2>1, <2>2, <2>5 DEF Kept
    <2> QED
      BY <2>1, <2>3, <2>4, <2>6 DEF Kept
  <1>10. CASE Calling
    <2>1. /\ mem' = mem /\ disk' = disk /\ said' = said /\ InWindow /\ count.faults = 0
          /\ SameJob /\ job.stage \notin {"idle", "flush"} /\ job'.stage \notin {"idle", "flush"}
      BY <1>10 DEF Calling, InWindow
    <2>2. Kept
      BY <1>3, <2>1
    <2>3. Row' = Row /\ job'.cmd = job.cmd
      BY <2>1 DEF Row, SameJob
    <2>4. TurnsKept(mem)' /\ TurnsKept(disk)'
      BY <2>1, <2>2 DEF Kept, TurnsKept, HasTurn
    <2>5. \A r \in Receipts(Row)' : r.cmd = job'.cmd => r.env = "none"
      BY <2>1, <2>2, <2>3 DEF Kept, Receipts
    <2> QED
      BY <2>1, <2>2, <2>4, <2>5 DEF Kept
  <1>11. CASE Replaying
    <2>1. /\ mem' = mem /\ disk' = disk /\ job' = job /\ InWindow /\ count.faults = 0
          /\ job.stage = "idle"
      BY <1>2, <1>11 DEF Replaying, InWindow
    <2>2. Kept /\ mem.rows = disk.rows
      BY <1>3, <2>1 DEF Kept
    <2>3. PICK op \in Ops, s \in Sessions, key \in Keys, env \in Envelopes \ {"none"} :
              /\ said' = said \cup {[op |-> op, s |-> s, key |-> key, env |-> env]}
              /\ \/ \E r \in Receipts(mem.rows[s]) : r.op = op /\ r.key = key /\ r.env = env
                 \/ /\ mem.rows[s].state # "none" /\ mem.rows[s].start = key
                    /\ Found(mem.rows[s], "start", key) = {}
      BY <1>11 DEF Replaying
    <2>4. \E r \in Receipts(mem.rows[s]) : r.op = op /\ r.key = key /\ r.env = env
      BY <2>1, <2>3 DEF Inv, StartsKept
    <2>5. HasAnswer(mem.rows[s], [op |-> op, s |-> s, key |-> key, env |-> env])
      BY <2>4 DEF HasAnswer
    <2>6. \A a \in said' : HasAnswer(mem'.rows[a.s], a) /\ HasAnswer(disk'.rows[a.s], a)
      BY <2>1, <2>2, <2>3, <2>5 DEF Kept
    <2>7. TurnsKept(mem)' /\ TurnsKept(disk)'
      BY <2>1, <2>2 DEF Kept, TurnsKept, HasTurn
    <2> QED
      BY <2>1, <2>2, <2>6, <2>7 DEF Kept
  <1>12. CASE Resting
    <2>1. /\ mem' = mem /\ disk' = disk /\ said' = said /\ InWindow /\ count.faults = 0
          /\ job' = job \/ (job'.stage = "idle" /\ job.stage # "flush")
      BY <1>2, <1>12 DEF Resting, InWindow
    <2>2. Kept
      BY <1>3, <2>1
    <2>3. TurnsKept(mem)' /\ TurnsKept(disk)'
      BY <2>1, <2>2 DEF Kept, TurnsKept, HasTurn
    <2>4. job' = job => Row' = Row /\ Receipts(Row)' = Receipts(Row)
      BY <2>1 DEF Row, Receipts
    <2> QED
      BY <2>1, <2>2, <2>3, <2>4 DEF Kept
  <1>13. CASE Crashing
    <2>1. /\ mem' = disk /\ disk' = disk /\ said' = said /\ InWindow /\ count.faults = 0
          /\ job'.stage = "idle"
      BY <1>2, <1>13 DEF Crashing, InWindow
    <2>2. Kept
      BY <1>3, <2>1
    <2>3. TurnsKept(mem)' /\ TurnsKept(disk)'
      BY <2>1, <2>2 DEF Kept, TurnsKept, HasTurn
    <2> QED
      BY <2>1, <2>2, <2>3 DEF Kept
  <1> QED
    BY <1>4, <1>5, <1>6, <1>7, <1>8, <1>9, <1>10, <1>11, <1>12, <1>13 DEF Kinds

-----------------------------------------------------------------------------
(* The theorems *)

\* The first state, in which no session was started.
LEMMA InitInv ==
    ASSUME Init
    PROVE  Inv
  <1>1. /\ mem = [rows |-> [s \in Sessions |-> NoRow], turns |-> [s \in Sessions |-> <<>>]]
        /\ disk = mem /\ runs = [r \in RunKeys |-> "none"] /\ applied = {} /\ job = Idle
        /\ said = {} /\ count = [cmds |-> 0, crashes |-> 0, faults |-> 0, dropped |-> FALSE]
    BY DEF Init
  <1>2. /\ mem.rows = [s \in Sessions |-> NoRow] /\ mem.turns = [s \in Sessions |-> <<>>]
        /\ disk.rows = mem.rows /\ disk.turns = mem.turns
        /\ \A s \in Sessions : mem.rows[s] = NoRow /\ mem.turns[s] = <<>>
    BY <1>1
  <1>3. Idle.stage = "idle" /\ Idle \in Jobs
    BY DEF Idle, Jobs
  <1>4. Typed
    <2>1. mem \in Files
      <3>1. [s \in Sessions |-> NoRow] \in [Sessions -> Rows]
        BY EmptyRow
      <3>2. [s \in Sessions |-> <<>>] \in [Sessions -> Seq({"start", "steer"} \X Keys)]
        OBVIOUS
      <3> QED
        BY <1>1, <3>1, <3>2 DEF Files
    <2>2. count \in [cmds : 0..MaxCommands, crashes : Nat, faults : Nat, dropped : BOOLEAN]
      BY <1>1, SessionConstants
    <2> QED
      BY <1>1, <1>3, <2>1, <2>2 DEF Typed
  <1>5. TurnsBounded(mem) /\ TurnsBounded(disk)
    BY <1>2, SessionConstants DEF TurnsBounded
  <1>6. RowsOK(mem.rows) /\ RowsOK(disk.rows)
    <2>1. RowOK(NoRow, 0) /\ count.cmds = 0
      BY <1>1, EmptyRow DEF RowOK
    <2> QED
      BY <1>2, <2>1 DEF RowsOK
  <1>7. JobOK
    BY <1>1, <1>3 DEF JobOK
  <1>8. \A s \in Sessions : /\ mem.rows[s].state = "none" /\ disk.rows[s].state = "none"
                            /\ mem.rows[s].run = NoRun /\ disk.rows[s].run = NoRun
    BY <1>2, EmptyRow
  <1>9. StartsOK
    <2>1. \A s \in Sessions, key \in Keys : runs[<<s, "start", key>>] = "none"
      BY <1>1 DEF RunKeys
    <2> QED
      BY <1>1, <1>3, <1>8, <2>1 DEF StartsOK
  <1>10. StartedRuns = {}
    BY <1>1 DEF StartedRuns
  <1>11. KernelOK
    BY <1>1, <1>3, <1>8, <1>10, FS_EmptySet DEF KernelOK, RunsBound
  <1>12. AllCounted
    <2>1. SteeredKeys = {}
      BY <1>1 DEF SteeredKeys
    <2>2. \A s, due : CountsOK(NoRow, s, due)
      BY <1>10, <2>1, EmptyRow, FS_EmptySet DEF CountsOK, Accounted
    <2> QED
      BY <1>2, <2>2 DEF AllCounted
  <1>13. StartsKept(mem.rows) /\ StartsKept(disk.rows)
    BY <1>8 DEF StartsKept
  <1>14. AnswersOK
    <2>1. Receipts(NoRow) = {}
      BY EmptyRow
    <2>2. TurnsKept(mem) /\ TurnsKept(disk)
      BY <1>2, <2>1 DEF TurnsKept
    <2> QED
      BY <1>1, <1>3, <2>2 DEF AnswersOK, Kept
  <1> QED
    BY <1>4, <1>5, <1>6, <1>7, <1>9, <1>11, <1>12, <1>13, <1>14 DEF Inv

\* Every step keeps the invariant.
LEMMA NextInv ==
    ASSUME Inv, Next
    PROVE  Inv'
  <1>1. Kinds
    BY StepKinds
  <1>2. Typed'
    BY <1>1, TypedStep
  <1>3. TurnsBounded(mem)' /\ TurnsBounded(disk)'
    BY <1>1, TurnsStep
  <1>4. RowsOK(mem.rows)' /\ RowsOK(disk.rows)'
    BY <1>1, <1>2, RowsStep
  <1>5. JobOK'
    BY <1>1, <1>2, JobStep
  <1>6. StartsOK'
    BY <1>1, <1>2, StartsStep
  <1>7. KernelOK'
    BY <1>1, <1>2, KernelStep
  <1>8. AllCounted'
    BY <1>1, <1>2, <1>7, CountedStep
  <1>9. InWindow' => StartsKept(mem.rows)' /\ StartsKept(disk.rows)'
    BY <1>1, <1>2, StartsKeptStep
  <1>10. AnswersOK'
    BY <1>1, <1>2, AnswersStep
  <1> QED
    BY <1>2, <1>3, <1>4, <1>5, <1>6, <1>7, <1>8, <1>9, <1>10 DEF Inv

\* Nothing changes, and the invariant stays.
LEMMA StutterInv ==
    ASSUME Inv, UNCHANGED vars
    PROVE  Inv'
  <1>1. /\ mem' = mem /\ disk' = disk /\ runs' = runs /\ applied' = applied /\ job' = job
        /\ said' = said /\ count' = count
    BY DEF vars
  <1>2. Resting
    BY <1>1 DEF Resting, Inv, Typed
  <1>3. Kinds
    BY <1>2 DEF Kinds
  <1>4. Typed' /\ TurnsBounded(mem)' /\ TurnsBounded(disk)'
    BY <1>3, TypedStep, TurnsStep
  <1>5. RowsOK(mem.rows)' /\ RowsOK(disk.rows)' /\ JobOK' /\ StartsOK'
    BY <1>3, <1>4, RowsStep, JobStep, StartsStep
  <1>6. KernelOK'
    BY <1>3, <1>4, KernelStep
  <1>7. AllCounted' /\ AnswersOK'
    BY <1>3, <1>4, <1>6, CountedStep, AnswersStep
  <1>8. InWindow' => StartsKept(mem.rows)' /\ StartsKept(disk.rows)'
    BY <1>3, <1>4, StartsKeptStep
  <1> QED
    BY <1>4, <1>5, <1>6, <1>7, <1>8 DEF Inv

\* The invariant holds of every state of the session service.
THEOREM SessionInvariant == Spec => []Inv
  <1>1. Inv /\ [Next]_vars => Inv'
    BY NextInv, StutterInv
  <1> QED
    BY <1>1, InitInv, PTL DEF Spec

\* The files, the verb in progress and the answers are of their types: no row counts
\* more than the commands drawn, no session has more turns than the file keeps.
THEOREM SessionTypes == Spec => []TypeOK
  <1>1. ASSUME Inv
        PROVE  TypeOK
    <2>1. Typed /\ TurnsBounded(mem) /\ TurnsBounded(disk) /\ RowsOK(mem.rows) /\ RowsOK(disk.rows)
      BY <1>1 DEF Inv
    <2>2. job.stage \in Stages
      BY <2>1, JobTypes
    <2>3. ASSUME NEW f \in Files, TurnsBounded(f), RowsOK(f.rows), NEW s \in Sessions
          PROVE  /\ f.rows[s].state \in {"none", "starting", "active", "closed"}
                 /\ f.rows[s].run \in RunKeys \cup {NoRun}
                 /\ {f.rows[s].runNo, f.rows[s].turnNo, f.rows[s].intent.cmd} \subseteq 0..MaxCommands
                 /\ \A r \in Receipts(f.rows[s]) :
                        r.op \in Ops /\ r.key \in Keys /\ r.cmd \in 1..MaxCommands /\ r.env \in Envelopes
                 /\ Len(f.turns[s]) <= MaxTurns
                 /\ \A i \in DOMAIN f.turns[s] : f.turns[s][i] \in {"start", "steer"} \X Keys
      <3>1. PICK row \in Rows : row = f.rows[s]
        BY DEF Files
      <3>2. PICK d \in Nat : d = count.cmds /\ d <= MaxCommands /\ MaxCommands \in Nat
        BY <2>1, SessionConstants DEF Typed
      <3>3. RowOK(row, d)
        BY <2>3, <3>1, <3>2 DEF RowsOK
      <3>4. /\ row.state \in {"none", "starting", "active", "closed"}
            /\ row.run \in RunKeys \cup {NoRun} /\ row.runNo \in Nat /\ row.turnNo \in Nat
        BY DEF Rows
      <3>5. row.intent.cmd \in 0..MaxCommands
        <4>1. row.intent.cmd \in 0..d
          BY <3>3, IntentDrawn
        <4> QED
          BY <3>2, <4>1
      <3>6. row.runNo \in 0..MaxCommands /\ row.turnNo \in 0..MaxCommands
        BY <3>2, <3>3, <3>4 DEF RowOK
      <3>7. \A r \in Receipts(row) :
                r.op \in Ops /\ r.key \in Keys /\ r.cmd \in 1..MaxCommands /\ r.env \in Envelopes
        <4>1. \A r \in Receipts(row) : r \in ReceiptSet /\ r.cmd \in 1..d
          BY <3>3, ReceiptTypes DEF RowOK
        <4> QED
          BY <3>2, <4>1 DEF ReceiptSet
      <3>8. f.turns[s] \in Seq({"start", "steer"} \X Keys) /\ Len(f.turns[s]) <= MaxTurns
        BY <2>3 DEF Files, TurnsBounded
      <3>9. \A i \in DOMAIN f.turns[s] : f.turns[s][i] \in {"start", "steer"} \X Keys
        BY <3>8
      <3> QED
        BY <3>1, <3>4, <3>5, <3>6, <3>7, <3>8, <3>9
    <2>4. mem \in Files /\ disk \in Files
      BY <2>1 DEF Typed
    <2> QED
      BY <2>1, <2>2, <2>3, <2>4 DEF TypeOK, Typed, Stages
  <1> QED
    BY <1>1, SessionInvariant, PTL

\* A client that repeats a key is told the same thing, as long as no write failed and
\* no receipt fell out of the window: service.py answers from the receipt, and a receipt
\* with an answer is never given another.
THEOREM SessionAnswers == Spec => []AnswersAgree
  <1>1. ASSUME Inv
        PROVE  AnswersAgree
    <2> SUFFICES ASSUME count.faults = 0, InWindow, NEW a \in said, NEW b \in said,
                        a.op = b.op, a.s = b.s, a.key = b.key
                 PROVE  a.env = b.env
      BY DEF AnswersAgree
    <2>1. Kept /\ RowsOK(mem.rows) /\ a.s \in Sessions
      BY <1>1 DEF Inv, AnswersOK, Typed
    <2>2. PICK r \in Receipts(mem.rows[a.s]) : r.op = a.op /\ r.key = a.key /\ r.env = a.env
      BY <2>1 DEF Kept, HasAnswer
    <2>3. PICK q \in Receipts(mem.rows[a.s]) : q.op = a.op /\ q.key = a.key /\ q.env = b.env
      BY <2>1 DEF Kept, HasAnswer
    <2>4. r = q
      BY <2>1, <2>2, <2>3 DEF RowsOK, RowOK
    <2> QED
      BY <2>2, <2>3, <2>4
  <1> QED
    BY <1>1, SessionInvariant, PTL

\* What was answered as committed is in both files, and a command cut short has left
\* an intent with its open receipt: what store.py writes, and in which order.
THEOREM SessionDurable == Spec => []CommandsDurable
  <1>1. ASSUME Inv
        PROVE  CommandsDurable
    <2>1. IntentBacked
      BY <1>1 DEF Inv, RowsOK, RowOK, IntentBacked
    <2>2. CommittedIsDurable
      <3> SUFFICES ASSUME count.faults = 0, InWindow, NEW a \in said, a.env = "committed"
                   PROVE  /\ \E r \in Receipts(disk.rows[a.s]) :
                                 r.op = a.op /\ r.key = a.key /\ r.env = "committed"
                          /\ a.op \in {"start", "steer"} =>
                                 HasTurn(disk.turns, a.s, a.op, a.key)
        BY DEF CommittedIsDurable, HasTurn
      <3>1. Kept /\ a.s \in Sessions
        BY <1>1 DEF Inv, AnswersOK, Typed
      <3>2. PICK r \in Receipts(disk.rows[a.s]) : r.op = a.op /\ r.key = a.key /\ r.env = "committed"
        BY <3>1 DEF Kept, HasAnswer
      <3>3. a.op \in {"start", "steer"} => HasTurn(disk.turns, a.s, r.op, r.key)
        BY <3>1, <3>2 DEF Kept, TurnsKept
      <3> QED
        BY <3>2, <3>3
    <2> QED
      BY <2>1, <2>2 DEF CommandsDurable
  <1> QED
    BY <1>1, SessionInvariant, PTL

\* A start key makes one run, over retries, crashes and failing writes; and the rows
\* count no run the kernel did not start, no turn it did not accept.
THEOREM SessionCountedOnce == Spec => []CountedOnce
  <1>1. ASSUME Inv
        PROVE  CountedOnce
    <2>1. Typed /\ StartsOK /\ KernelOK /\ AllCounted
      BY <1>1 DEF Inv
    <2>2. ASSUME NEW key \in Keys
          PROVE  Cardinality({s \in Sessions : runs[<<s, "start", key>>] # "none"}) <= 1
      <3> DEFINE S == {s \in Sessions : runs[<<s, "start", key>>] # "none"}
      <3>1. \A s, t \in S : s = t
        BY <2>1 DEF StartsOK
      <3>2. S = {} \/ \E s : S = {s}
        BY <3>1
      <3> HIDE DEF S
      <3>3. Cardinality(S) = 0 \/ Cardinality(S) = 1
        <4>1. CASE S = {}
          BY <4>1, FS_EmptySet
        <4>2. CASE \E s : S = {s}
          <5>1. PICK s : S = {s}
            BY <4>2
          <5> QED
            BY <5>1, FS_Singleton
        <4> QED
          BY <3>2, <4>1, <4>2
      <3> QED
        BY <3>3 DEF S
    <2>3. ASSUME InWindow, NEW s \in Sessions
          PROVE  LET row == disk.rows[s]
                     started == {r \in RunKeys : r[1] = s /\ runs[r] # "none"}
                     steered == {a \in applied : a[1] = "steer" /\ a[3][1] = s}
                 IN  /\ row.runNo <= Cardinality(started)
                     /\ row.turnNo <= Cardinality(started) + Cardinality(steered)
                     /\ row.run # NoRun => row.run \in started
      <3> DEFINE row == disk.rows[s]
                 started == {r \in RunKeys : r[1] = s /\ runs[r] # "none"}
                 steered == {a \in applied : a[1] = "steer" /\ a[3][1] = s}
                 said1 == {SteerOf(a) : a \in steered}
                 own == OwnKeys(row, s) \ {}
      <3>1. row.runNo <= Cardinality(own \cap StartedRuns)
            /\ row.turnNo <= Cardinality(own \cap (StartedRuns \cup SteeredKeys))
            /\ row.runNo \in Nat /\ row.turnNo \in Nat
        BY <2>1, <2>3 DEF AllCounted, CountsOK, Accounted, Typed, Files, Rows
      <3>2. IsFiniteSet(started)
        <4>1. started \subseteq StartedRuns
          BY DEF StartedRuns
        <4> HIDE DEF started
        <4> QED
          BY <2>1, <4>1, FS_Subset DEF KernelOK
      <3>3. IsFiniteSet(steered)
        <4>1. steered \subseteq applied
          OBVIOUS
        <4> HIDE DEF steered
        <4> QED
          BY <2>1, <4>1, FS_Subset DEF KernelOK
      <3>4. own \cap StartedRuns \subseteq started
        BY DEF OwnKeys, StartedRuns
      <3>5. own \cap (StartedRuns \cup SteeredKeys) \subseteq started \cup said1
        <4> SUFFICES ASSUME NEW x \in own, x \in SteeredKeys
                     PROVE  x \in said1
          BY <3>4
        <4>1. PICK a \in applied : a[1] = "steer" /\ SteerOf(a) = x
          BY DEF SteeredKeys
        <4>2. x[1] = s /\ x = <<a[3][1], "steer", a[2]>>
          BY <4>1 DEF OwnKeys, SteerOf
        <4>3. a \in steered
          BY <4>1, <4>2
        <4> QED
          BY <4>1, <4>3
      <3>6. row.run # NoRun => row.run \in started
        BY <2>1 DEF KernelOK, RunsBound, StartedRuns
      <3> HIDE DEF row, started, steered, own
      <3>7. IsFiniteSet(said1) /\ Cardinality(said1) <= Cardinality(steered)
        BY <3>3, SteerImage
      <3> HIDE DEF said1
      <3>8. /\ IsFiniteSet(started \cup said1)
            /\ Cardinality(started \cup said1) =
                   Cardinality(started) + Cardinality(said1) - Cardinality(started \cap said1)
        BY <3>2, <3>7, FS_Union
      <3>9. started \cap said1 \subseteq started
        OBVIOUS
      <3>10. Cardinality(started \cap said1) \in Nat
        BY <3>2, <3>9, MoreElements
      <3>11. /\ Cardinality(started) \in Nat /\ Cardinality(said1) \in Nat /\ Cardinality(steered) \in Nat
        BY <3>2, <3>3, <3>7, FS_CardinalityType
      <3>12. /\ Cardinality(own \cap StartedRuns) \in Nat
             /\ Cardinality(own \cap StartedRuns) <= Cardinality(started)
        BY <3>2, <3>4, MoreElements
      <3>13. /\ Cardinality(own \cap (StartedRuns \cup SteeredKeys)) \in Nat
             /\ Cardinality(own \cap (StartedRuns \cup SteeredKeys)) <= Cardinality(started \cup said1)
        BY <3>5, <3>8, MoreElements
      <3>14. /\ row.runNo <= Cardinality(started)
             /\ row.turnNo <= Cardinality(started) + Cardinality(steered)
        BY <3>1, <3>7, <3>8, <3>10, <3>11, <3>12, <3>13
      <3> QED
        BY <3>6, <3>14 DEF row, started, steered
    <2> QED
      BY <2>2, <2>3 DEF CountedOnce
  <1> QED
    BY <1>1, SessionInvariant, PTL
=============================================================================
