--------------------------- MODULE SyncRun_proofs ---------------------------
(***************************************************************************)
(* What a sync run does to the databases, for every number of tables, keys,*)
(* changes and faults, every size of batch and page, and every order of the*)
(* texts of ids that is an order: no run exchanges a row between the       *)
(* databases, no checkpoint goes back behind the one the run began with or *)
(* passes a change of its own table and an earlier time by, what is marked *)
(* synchronized has been applied, and every variable keeps its type; and   *)
(* the run implements ChangeDelivery.  Of the order of the tables only the *)
(* types need something: that it is one of tables.                         *)
(***************************************************************************)
EXTENDS SyncRun, TableOrder_proofs

-----------------------------------------------------------------------------
(* Least and greatest elements.                                            *)

LEMMA GreatestExists ==
    ASSUME NEW n \in Nat, NEW S, S \subseteq 1 .. n, S # {}
    PROVE  \E x \in S : \A y \in S : x >= y
<1> DEFINE T == {n - x : x \in S}
<1>1. T \subseteq Nat /\ T # {}
  <2>1. \A x \in S : n - x \in Nat
    OBVIOUS
  <2>2. PICK x : x \in S
    OBVIOUS
  <2> QED
    BY <2>1, <2>2
<1> HIDE DEF T
<1>2. PICK k \in T : \A m \in T : k <= m
  BY <1>1, LeastExists
<1>3. PICK x \in S : k = n - x
  BY <1>2 DEF T
<1>4. \A y \in S : n - y \in T
  BY DEF T
<1> QED
  BY <1>2, <1>3, <1>4

LEMMA MaxOf ==
    ASSUME NEW n \in Nat, NEW S, S \subseteq 1 .. n, S # {}
    PROVE  Max(S) \in S /\ \A y \in S : Max(S) >= y
  BY GreatestExists DEF Max

-----------------------------------------------------------------------------
(* Places in the log.                                                      *)

\* Change i, of time t, is behind the checkpoint c.
Past(t, i, c) == t > c.time \/ (t = c.time /\ <<c.id, FirstId + i>> \in TextOrder)

LEMMA PastIs ==
    ASSUME NEW i, NEW c PROVE After(Stamp(i), c) <=> Past(log[i].time, i, c)
  BY DEF After, Stamp, Past

\* Behind a checkpoint that is behind another, a change is behind both.
LEMMA PastBoth ==
    ASSUME NEW c \in Position, NEW d \in Position, After(d, c),
           NEW t \in Nat, NEW i, Past(t, i, d)
    PROVE  Past(t, i, c)
<1>1. c.time \in Nat /\ d.time \in Nat
  BY DEF Position
<1>2. CASE t > d.time \/ d.time > c.time
  BY <1>1, <1>2 DEF Past, After
<1>3. CASE t = d.time /\ d.time = c.time
  <2>1. <<d.id, FirstId + i>> \in TextOrder /\ <<c.id, d.id>> \in TextOrder
    BY <1>1, <1>3 DEF Past, After
  <2>2. <<c.id, FirstId + i>> \in TextOrder
    BY <2>1, TextAssumption
  <2> QED
    BY <1>3, <2>2 DEF Past
<1> QED
  BY <1>1, <1>2, <1>3 DEF Past, After

-----------------------------------------------------------------------------
(* The record of the run.                                                  *)

Fields == {"pc", "from", "sourceLogs", "targetLogs", "side", "left", "batch", "tables",
           "offset", "page", "read"}

Shape == sync = [f \in Fields |-> sync[f]]

-----------------------------------------------------------------------------
(* What each step makes of the run.                                        *)

LEMMA BeginMoves ==
    ASSUME NEW mode, NEW metadata, begin(mode, metadata)
    PROVE  /\ sync'.pc \in {"page", "logs"} /\ sync'.from = checkpoint
           /\ sync'.sourceLogs = {} /\ sync'.targetLogs = {} /\ sync'.side = "target"
           /\ sync'.left = {} /\ sync'.batch = <<>> /\ sync'.read = {} /\ Shape'
           /\ sync'.pc = "page" => mode = "full"
  BY DEF begin, Resting, Shape, Fields

LEMMA FindSourceMoves ==
    ASSUME Shape, findSourceLogs
    PROVE  /\ sync'.pc \in {"targetLogs", "plan"} /\ sync'.from = sync.from
           /\ sync'.pc = "plan" => config.direction # "BIDIRECTIONAL"
           /\ sync'.sourceLogs = Pending("source", sync.from.source)
           /\ sync'.targetLogs = sync.targetLogs /\ sync'.side = sync.side
           /\ sync'.left = sync.left /\ sync'.batch = sync.batch /\ sync'.read = sync.read
           /\ Shape'
  BY DEF findSourceLogs, Shape, Fields

LEMMA FindTargetMoves ==
    ASSUME Shape, findTargetLogs
    PROVE  /\ sync'.pc = "resolve" /\ sync'.from = sync.from
           /\ sync'.sourceLogs = sync.sourceLogs
           /\ sync'.targetLogs = Pending("target", sync.from.target)
           /\ sync'.side = sync.side /\ sync'.left = sync.left /\ sync'.batch = sync.batch
           /\ sync'.read = sync.read /\ Shape'
  BY DEF findTargetLogs, Shape, Fields

\* The changes of a direction.
Planned(side) == IF side = "target" THEN sync.sourceLogs ELSE sync.targetLogs

LEMMA PlanMoves ==
    ASSUME Shape, NEW side, NEW metadata, plan(Planned(side), side, metadata)
    PROVE  /\ sync'.pc = "batch" /\ sync'.from = sync.from
           /\ sync'.sourceLogs = sync.sourceLogs /\ sync'.targetLogs = sync.targetLogs
           /\ sync'.side = side /\ sync'.left = Planned(side)
           /\ sync'.batch = sync.batch /\ sync'.read = sync.read /\ Shape'
<1>1. PICK tables : sync' = [sync EXCEPT !.pc = "batch", !.side = side,
                                         !.left = Planned(side), !.tables = tables]
  BY DEF plan
<1> QED
  BY <1>1 DEF Shape, Fields

LEMMA ApplyMoves ==
    ASSUME Shape, applyChangeBatch
    PROVE  /\ sync'.pc = "mark" /\ sync'.from = sync.from
           /\ sync'.sourceLogs = sync.sourceLogs /\ sync'.targetLogs = sync.targetLogs
           /\ sync'.side = sync.side /\ sync'.left = sync.left /\ sync'.read = sync.read
           /\ sync'.batch \in Slices /\ Shape'
           /\ ~Throws(IF sync.side = "target" THEN target ELSE source, sync'.batch)
           /\ sync.side = "target" => target' = Applied(target, sync'.batch) /\ source' = source
           /\ sync.side # "target" => source' = Applied(source, sync'.batch) /\ target' = target
  BY DEF applyChangeBatch, Shape, Fields

LEMMA MarkMoves ==
    ASSUME Shape, markSynchronized
    PROVE  /\ sync'.pc = "advance" /\ sync'.from = sync.from
           /\ sync'.sourceLogs = sync.sourceLogs /\ sync'.targetLogs = sync.targetLogs
           /\ sync'.side = sync.side /\ sync'.left = sync.left /\ sync'.read = sync.read
           /\ sync'.batch = sync.batch /\ Shape'
  BY DEF markSynchronized, goto, Shape, Fields

LEMMA AdvanceMoves ==
    ASSUME Shape, updateCheckpoint
    PROVE  /\ sync'.pc = "batch" /\ sync'.from = sync.from
           /\ sync'.sourceLogs = sync.sourceLogs /\ sync'.targetLogs = sync.targetLogs
           /\ sync'.side = sync.side /\ sync'.read = sync.read
           /\ sync'.left = sync.left \ Members(sync.batch) /\ sync'.batch = <<>> /\ Shape'
  BY DEF updateCheckpoint, Advanced, Shape, Fields

\* A step that only moves the run, or turns a table or a page.
Turned == /\ Shape'
          /\ sync'.side = sync.side /\ sync'.from = sync.from
          /\ sync'.sourceLogs = sync.sourceLogs /\ sync'.targetLogs = sync.targetLogs
          /\ sync'.left = sync.left /\ sync'.batch = sync.batch

LEMMA TurnMoves ==
    ASSUME Shape
    PROVE  /\ nextTable => Turned /\ sync'.pc = "batch"
           /\ fetchTableRecordsPaginated => Turned /\ sync'.pc \in {"page", "copy"}
           /\ applyPage => Turned /\ sync'.pc \in {"page", "copy"}
           /\ skipTable => Turned /\ sync'.pc = "page"
           /\ \A pc \in {"plan", "done"} : goto(pc) => Turned /\ sync'.pc = pc
<1> USE DEF Turned, Shape, Fields
<1>1. nextTable => Turned /\ sync'.pc = "batch"
  BY DEF nextTable
<1>2. ASSUME fetchTableRecordsPaginated PROVE Turned /\ sync'.pc \in {"page", "copy"}
  <2>1. PICK size, page, read :
           sync' = [sync EXCEPT !.pc = IF size = 0 THEN "page" ELSE "copy",
                                !.page = {<<r, source[r]>> : r \in page},
                                !.read = read,
                                !.offset = IF size < PageSize THEN 0 ELSE sync.offset + size,
                                !.tables = IF size < PageSize THEN Tail(sync.tables)
                                                              ELSE sync.tables]
    BY <1>2 DEF fetchTableRecordsPaginated
  <2> QED
    BY <2>1
<1>3. ASSUME applyPage PROVE Turned /\ sync'.pc \in {"page", "copy"}
  <2>1. PICK batch :
           sync' = [sync EXCEPT !.page = sync.page \ batch,
                                !.pc = IF sync.page = batch THEN "page" ELSE "copy"]
    BY <1>3 DEF applyPage
  <2> QED
    BY <2>1
<1>4. skipTable => Turned /\ sync'.pc = "page"
  BY DEF skipTable
<1>5. \A pc \in {"plan", "done"} : goto(pc) => Turned /\ sync'.pc = pc
  BY DEF goto
<1> QED
  BY <1>1, <1>2, <1>3, <1>4, <1>5

-----------------------------------------------------------------------------
(* The run and its checkpoints.                                            *)

LogOK ==
    /\ config \in Configs /\ clock \in Nat
    /\ log \in Seq(Change) /\ Len(log) <= MaxWrites
    /\ \A i \in DOMAIN log : log[i].time <= clock
    /\ \A i, j \in DOMAIN log : i < j => log[i].time <= log[j].time

RunOK ==
    /\ sync.pc \in {"idle", "logs", "targetLogs", "resolve", "plan", "batch", "mark",
                    "advance", "done", "page", "copy"}
    /\ sync.side \in Sides /\ sync.batch \in Seq(Nat)
    /\ sync.from \in [Sides -> Position] /\ \A s \in Sides : sync.from[s].time <= clock
    /\ sync.sourceLogs \subseteq DOMAIN log /\ sync.targetLogs \subseteq DOMAIN log
    /\ checkpoint \in [Sides -> Position] /\ \A s \in Sides : checkpoint[s].time <= clock

\* The changes of the side that a batch comes from.
Theirs == IF sync.side = "target" THEN sync.sourceLogs ELSE sync.targetLogs

\* What was read is behind the checkpoint the run began with.
ReadOK ==
    /\ \A i \in sync.sourceLogs :
          Past(log[i].time, i, sync.from["source"]) /\ log[i].origin = "source"
    /\ \A i \in sync.targetLogs :
          Past(log[i].time, i, sync.from["target"]) /\ log[i].origin = "target"
    /\ sync.pc \in {"logs", "targetLogs"} => sync.targetLogs = {}

\* A run that goes on has read no record's changes of both sides.
SharedOK ==
    sync.pc \notin {"logs", "targetLogs", "resolve"} =>
        \A i \in sync.sourceLogs, j \in sync.targetLogs : log[i].record # log[j].record

\* What is left to write is of one side.
LeftOK ==
    /\ sync.left \subseteq Theirs /\ Members(sync.batch) \subseteq sync.left
    /\ sync.pc \in {"logs", "targetLogs", "resolve", "plan"} => sync.left = {}
    /\ sync.pc \in {"mark", "advance"} <=> sync.batch # <<>>

\* A full copy has ended, not before the time of anything that is marked.
Copied == /\ sync.pc = "done" /\ checkpoint["source"].id = 0
          /\ checkpoint["source"].time >= sync.from["source"].time
          /\ \A i \in DOMAIN log :
                log[i].synchronized => log[i].time <= checkpoint["source"].time

\* No checkpoint goes back behind the one the run began with.
FloorOK ==
    sync.pc # "idle" => \A s \in Sides :
        \/ checkpoint[s] = sync.from[s]
        \/ After(checkpoint[s], sync.from[s])
        \/ s = "source" /\ Copied

RunInv == Shape /\ LogOK /\ RunOK /\ ReadOK /\ SharedOK /\ LeftOK /\ FloorOK

LEMMA NoMembers == Members(<<>>) = {}
  BY DEF Members

LEMMA RunInit == Init => RunInv
<1> SUFFICES ASSUME Init PROVE RunInv
  OBVIOUS
<1>1. Null \in Position
  BY DEF Null, Position
<1>2. Shape
  BY DEF Init, Shape, Fields, Resting
<1>4. LogOK
  <2>1. log = <<>> /\ config \in Configs /\ clock = 0 /\ MaxWrites \in Nat
    BY BoundAssumption DEF Init
  <2>2. log \in Seq(Change) /\ Len(log) = 0 /\ DOMAIN log = {}
    BY <2>1
  <2> QED
    BY <2>1, <2>2 DEF LogOK
<1>3. RunOK
  BY <1>1 DEF Init, RunOK, Resting, Sides, Null
<1> QED
  BY <1>2, <1>3, <1>4, NoMembers
  DEF Init, RunInv, Theirs, ReadOK, SharedOK, LeftOK, FloorOK, Resting, Sides

\* What has happened to a change that the log has.
LogGrows ==
    /\ Len(log') >= Len(log)
    /\ \A i \in DOMAIN log : /\ i \in DOMAIN log'
                             /\ log'[i].record = log[i].record
                             /\ log'[i].origin = log[i].origin
                             /\ log'[i].time = log[i].time

\* Nothing is marked that was not.
NoneMarked ==
    \A i \in DOMAIN log' : log'[i].synchronized => i \in DOMAIN log /\ log[i].synchronized

\* A write appends a change that is not synchronized.
Appended(n, r, side) ==
    /\ n = Len(log) + 1 /\ n \in Nat /\ DOMAIN log' = DOMAIN log \cup {n}
    /\ \A i \in DOMAIN log : /\ i \in Nat /\ i < n /\ log'[i] = log[i]
                             /\ log[i].time <= log'[n].time
    /\ log'[n].record = r /\ log'[n].origin = side /\ ~log'[n].synchronized
    /\ log'[n].op \in {"INSERT", "UPDATE", "DELETE"} /\ log'[n].time = clock
    /\ log'[n].op # "DELETE" => log'[n].version = n
    /\ n \in 1 .. MaxWrites

LEMMA Writing ==
    ASSUME LogOK, NEW side \in Sides, NEW r \in Record, NEW op, write(side, r, op)
    PROVE  LogOK' /\ LogGrows /\ NoneMarked /\ Appended(Len(log) + 1, r, side)
<1> DEFINE n == Len(log) + 1
           written(o, v) == [record |-> r, origin |-> side, synchronized |-> FALSE,
                             op |-> o, time |-> clock, version |-> v]
<1>1. PICK o \in {"INSERT", "UPDATE", "DELETE"}, v \in {0, n} :
         log' = Append(log, written(o, v)) /\ (o # "DELETE" => v = n)
  BY DEF write
<1>2. v \in Nat /\ n \in Nat /\ clock \in Nat /\ n \in 1 .. MaxWrites /\ UNCHANGED <<clock, config>>
  BY BoundAssumption DEF LogOK, write
<1>3. written(o, v) \in Change
  BY <1>2 DEF Change
<1>4. /\ written(o, v).record = r /\ written(o, v).origin = side
      /\ ~written(o, v).synchronized /\ written(o, v).op = o /\ written(o, v).time = clock
      /\ written(o, v).version = v
  OBVIOUS
<1> HIDE DEF written
<1>5. /\ DOMAIN log' = DOMAIN log \cup {n} /\ log'[n] = written(o, v)
      /\ \A i \in DOMAIN log : i \in Nat /\ i < n /\ log'[i] = log[i]
      /\ log' \in Seq(Change) /\ Len(log') = n
  BY <1>1, <1>3 DEF LogOK
<1> HIDE DEF n
<1>6. \A i \in DOMAIN log : log[i].time <= clock
  BY DEF LogOK
<1>7. LogOK'
  <2>1. \A i \in DOMAIN log' : log'[i].time <= clock
    BY <1>2, <1>4, <1>5, <1>6
  <2>2. ASSUME NEW i \in DOMAIN log', NEW j \in DOMAIN log', i < j
        PROVE  log'[i].time <= log'[j].time
    <3>1. i \in DOMAIN log
      BY <1>2, <1>5, <2>2
    <3>2. CASE j \in DOMAIN log
      BY <1>5, <2>2, <3>1, <3>2 DEF LogOK
    <3>3. CASE j = n
      BY <1>4, <1>5, <1>6, <3>1, <3>3
    <3> QED
      BY <1>5, <3>2, <3>3
  <2> QED
    BY <1>2, <1>5, <2>1, <2>2 DEF LogOK
<1>8. LogGrows
  BY <1>2, <1>5 DEF LogGrows, LogOK, n
<1>9. NoneMarked
  BY <1>4, <1>5 DEF NoneMarked
<1>10. Appended(n, r, side)
  BY <1>1, <1>2, <1>4, <1>5, <1>6 DEF Appended, n
<1> QED
  BY <1>7, <1>8, <1>9, <1>10 DEF n

\* Marking changes nothing else.
LEMMA MarkingIs ==
    ASSUME LogOK, markSynchronized
    PROVE  /\ LogOK' /\ LogGrows /\ DOMAIN log' = DOMAIN log
           /\ \A i \in DOMAIN log :
                 /\ log'[i].op = log[i].op /\ log'[i].version = log[i].version
                 /\ log'[i].synchronized <=> log[i].synchronized \/ i \in Members(sync.batch)
<1> DEFINE B == Members(sync.batch)
           mark(i) == IF i \in B THEN [log[i] EXCEPT !.synchronized = TRUE] ELSE log[i]
<1>1. log' = [i \in DOMAIN log |-> mark(i)] /\ UNCHANGED <<clock, config>>
  BY DEF markSynchronized, Marking
<1> HIDE DEF B
<1>2. ASSUME NEW i \in DOMAIN log
      PROVE  /\ mark(i) \in Change /\ mark(i).record = log[i].record
             /\ mark(i).origin = log[i].origin /\ mark(i).time = log[i].time
             /\ mark(i).op = log[i].op /\ mark(i).version = log[i].version
             /\ mark(i).synchronized <=> log[i].synchronized \/ i \in B
  <2>1. log[i] \in Change
    BY DEF LogOK
  <2>2. [log[i] EXCEPT !.synchronized = TRUE] \in Change
    BY <2>1 DEF Change
  <2> QED
    BY <2>1, <2>2 DEF Change
<1> HIDE DEF mark
<1>3. DOMAIN log = 1 .. Len(log) /\ Len(log) \in Nat
  BY DEF LogOK
<1>4. log' \in Seq(Change) /\ Len(log') = Len(log) /\ DOMAIN log' = DOMAIN log
  BY <1>1, <1>2, <1>3
<1>5. LogOK'
  BY <1>1, <1>2, <1>4 DEF LogOK
<1> QED
  BY <1>1, <1>2, <1>3, <1>4, <1>5 DEF LogGrows, B

LEMMA LogSame == ASSUME LogOK, UNCHANGED <<log, clock, config>> PROVE LogOK' /\ LogGrows /\ NoneMarked
  BY DEF LogOK, LogGrows, NoneMarked

LEMMA Ticking == ASSUME LogOK, tick PROVE LogOK' /\ LogGrows /\ NoneMarked
<1>1. log' = log /\ clock' = clock + 1 /\ clock \in Nat /\ config' = config
  BY DEF tick, LogOK
<1>2. \A i \in DOMAIN log : log[i].time \in Nat
  <2>1. \A i \in DOMAIN log : log[i] \in Change
    BY DEF LogOK
  <2> QED
    BY <2>1 DEF Change
<1> QED
  BY <1>1, <1>2 DEF LogOK, LogGrows, NoneMarked

\* A step that leaves the run alone.
LEMMA RunStays ==
    ASSUME RunInv, LogOK', LogGrows, NoneMarked, UNCHANGED <<sync, checkpoint>>,
           clock' >= clock
    PROVE  RunInv'
<1> USE DEF RunInv, LogGrows
<1>1. Shape'
  BY DEF Shape
<1>2. RunOK'
  <2>1. \A s \in Sides : /\ checkpoint[s].time \in Nat /\ sync.from[s].time \in Nat
                         /\ clock \in Nat /\ clock' \in Nat
    BY DEF RunOK, LogOK, Position
  <2> QED
    BY <2>1 DEF RunOK, LogOK
<1>3. ReadOK'
  BY DEF ReadOK, RunOK
<1>4. SharedOK'
  <2>1. \A i \in sync.sourceLogs \cup sync.targetLogs : log'[i].record = log[i].record
    BY DEF RunOK
  <2> QED
    BY <2>1 DEF SharedOK
<1>5. LeftOK'
  BY DEF LeftOK, Theirs
<1>6. FloorOK'
  BY DEF FloorOK, Copied, NoneMarked
<1> QED
  BY <1>1, <1>2, <1>3, <1>4, <1>5, <1>6

\* A run that ends.
LEMMA Rests ==
    ASSUME RunInv, sync' = Resting, UNCHANGED <<log, clock, config, checkpoint>> PROVE RunInv'
<1>1. Null \in Position /\ clock \in Nat
  BY DEF Null, Position, RunInv, LogOK
<1>2. Shape' /\ LogOK'
  BY DEF RunInv, Shape, Fields, LogOK, Resting
<1>3. RunOK'
  BY <1>1 DEF RunInv, RunOK, Resting, Sides, Null
<1> QED
  BY <1>2, <1>3, NoMembers
  DEF RunInv, Theirs, ReadOK, SharedOK, LeftOK, FloorOK, Resting

LEMMA Turning ==
    ASSUME RunInv, Turned, UNCHANGED <<log, clock, config, checkpoint>>,
           \/ sync.pc = "batch" /\ sync'.pc \in {"batch", "done"}
           \/ sync.pc \in {"page", "copy"} /\ sync'.pc \in {"page", "copy", "done"}
    PROVE  RunInv'
  BY DEF RunInv, Turned, LogOK, RunOK, Theirs, ReadOK, SharedOK, LeftOK, FloorOK, Copied

LEMMA Begins ==
    ASSUME RunInv, NEW mode, NEW metadata, begin(mode, metadata) PROVE RunInv'
<1> USE DEF RunInv
<1>1. UNCHANGED <<log, clock, config, checkpoint>>
  BY DEF begin
<1>2. LogOK'
  BY <1>1, LogSame
<1>3. RunOK'
  <2>1. <<>> \in Seq(Nat)
    OBVIOUS
  <2> QED
    BY <1>1, <2>1, BeginMoves DEF RunOK, Sides
<1>4. FloorOK'
  BY <1>1, BeginMoves DEF FloorOK
<1> QED
  BY <1>2, <1>3, <1>4, BeginMoves, NoMembers DEF Theirs, ReadOK, SharedOK, LeftOK

LEMMA PendingIs ==
    ASSUME NEW origin, NEW c
    PROVE  \A i : i \in Pending(origin, c) <=>
              /\ i \in DOMAIN log /\ log[i].origin = origin /\ ~log[i].synchronized
              /\ Past(log[i].time, i, c)
  BY PastIs DEF Pending

LEMMA FindsSource == ASSUME RunInv, findSourceLogs PROVE RunInv'
<1> USE DEF RunInv
<1> DEFINE read == Pending("source", sync.from.source)
<1>1. UNCHANGED <<log, clock, config, checkpoint>> /\ sync.pc = "logs"
  BY DEF findSourceLogs
<1>2. /\ read \subseteq DOMAIN log
      /\ \A i \in read : Past(log[i].time, i, sync.from.source) /\ log[i].origin = "source"
  BY PendingIs
<1>3. sync'.sourceLogs = read
  BY FindSourceMoves
<1> HIDE DEF read
<1>4. LeftOK' /\ ReadOK' /\ SharedOK'
  BY <1>1, <1>2, <1>3, FindSourceMoves DEF LeftOK, Theirs, ReadOK, SharedOK
<1>5. LogOK' /\ RunOK'
  BY <1>1, <1>2, <1>3, LogSame, FindSourceMoves DEF RunOK
<1>6. FloorOK'
  BY <1>1, FindSourceMoves DEF FloorOK, Copied
<1> QED
  BY <1>4, <1>5, <1>6, FindSourceMoves

LEMMA FindsTarget == ASSUME RunInv, findTargetLogs PROVE RunInv'
<1> USE DEF RunInv
<1> DEFINE read == Pending("target", sync.from.target)
<1>1. UNCHANGED <<log, clock, config, checkpoint>> /\ sync.pc = "targetLogs"
  BY DEF findTargetLogs
<1>2. /\ read \subseteq DOMAIN log
      /\ \A i \in read : Past(log[i].time, i, sync.from.target) /\ log[i].origin = "target"
  BY PendingIs
<1>3. sync'.targetLogs = read
  BY FindTargetMoves
<1> HIDE DEF read
<1>4. LeftOK' /\ ReadOK' /\ SharedOK'
  BY <1>1, <1>2, <1>3, FindTargetMoves DEF LeftOK, Theirs, ReadOK, SharedOK
<1>5. LogOK' /\ RunOK'
  BY <1>1, <1>2, <1>3, LogSame, FindTargetMoves DEF RunOK
<1>6. FloorOK'
  BY <1>1, FindTargetMoves DEF FloorOK, Copied
<1> QED
  BY <1>4, <1>5, <1>6, FindTargetMoves

\* No record that was read has changes of both sides: a conflict cannot be stored.
LEMMA Resolves == ASSUME RunInv, resolveConflicts PROVE RunInv'
<1> USE DEF RunInv
<1>1. UNCHANGED <<log, clock, config, checkpoint>> /\ sync.pc = "resolve"
  BY DEF resolveConflicts
<1>2. Turned /\ sync'.pc = "plan"
  BY TurnMoves DEF resolveConflicts
<1>3. SharedOK'
  BY <1>1, <1>2 DEF resolveConflicts, Conflicting, SharedOK, Turned
<1>4. LogOK' /\ RunOK' /\ FloorOK'
  BY <1>1, <1>2, LogSame DEF Turned, RunOK, FloorOK, Copied
<1> QED
  BY <1>1, <1>2, <1>3, <1>4 DEF Turned, Theirs, ReadOK, LeftOK

LEMMA Plans ==
    ASSUME RunInv, UNCHANGED <<log, clock, config, checkpoint>>, NEW side \in Sides, NEW metadata,
           sync.pc \in {"plan", "batch"}, plan(Planned(side), side, metadata)
    PROVE  RunInv'
<1> USE DEF RunInv
<1>1. sync.batch = <<>>
  BY DEF LeftOK
<1>2. LogOK' /\ RunOK'
  BY <1>1, LogSame, PlanMoves DEF RunOK
<1>3. FloorOK'
  BY <1>1, PlanMoves DEF FloorOK, Copied
<1>4. LeftOK'
  BY <1>1, PlanMoves, NoMembers DEF Planned, LeftOK, Theirs
<1> QED
  BY <1>1, <1>2, <1>3, <1>4, PlanMoves DEF ReadOK, SharedOK

LEMMA LesserOf ==
    ASSUME NEW a \in Nat, NEW b \in Nat
    PROVE  Min({a, b}) \in {a, b}
<1>1. \E x \in {a, b} : \A y \in {a, b} : x <= y
  OBVIOUS
<1> QED
  BY <1>1 DEF Min

\* A batch takes changes of a table, in the order of their times.
LEMMA SliceIs ==
    ASSUME RunInv, Here # {}, NEW batch \in Slices
    PROVE  /\ batch \in Seq(Nat) /\ batch # <<>> /\ Members(batch) \subseteq Here
           /\ DOMAIN batch = 1 .. Len(batch) /\ Len(batch) \in Nat \ {0}
           /\ \A m, n \in DOMAIN batch : m < n =>
                 batch[m] # batch[n] /\ log[batch[m]].time <= log[batch[n]].time
           /\ \A i \in Here \ Members(batch), n \in DOMAIN batch :
                 log[batch[n]].time <= log[i].time
<1> DEFINE size == Min({config.batchSize, Cardinality(Here)})
<1>1. /\ config.batchSize \in Nat \ {0} /\ Here \subseteq 1 .. Len(log) /\ Len(log) \in Nat
  BY ConfigsAssumption DEF RunInv, LogOK, Here, LeftOK, Theirs, RunOK
<1>2. IsFiniteSet(Here)
  <2>1. 1 \in Int /\ Len(log) \in Int
    BY <1>1
  <2> QED
    BY <1>1, <2>1, FS_Interval, FS_Subset
<1>3. Cardinality(Here) \in Nat \ {0}
  BY <1>2, FS_CardinalityType, FS_EmptySet
<1>4. size \in Nat \ {0}
  BY <1>1, <1>3, LesserOf
<1>5. /\ batch \in [1 .. size -> Here]
      /\ \A m, n \in 1 .. size : m < n =>
             batch[m] # batch[n] /\ log[batch[m]].time <= log[batch[n]].time
      /\ \A i \in Here \ Members(batch), n \in 1 .. size : log[batch[n]].time <= log[i].time
  BY DEF Slices
<1> HIDE DEF size
<1>6. batch \in Seq(Here) /\ Len(batch) = size /\ DOMAIN batch = 1 .. size
  BY <1>4, <1>5
<1>7. Members(batch) \subseteq Here /\ batch \in Seq(Nat)
  <2>1. \A n \in 1 .. size : batch[n] \in Here /\ batch[n] \in Nat
    <3>1. \A k \in Here : k \in Nat
      BY <1>1
    <3>2. \A n \in 1 .. size : batch[n] \in Here
      BY <1>5
    <3> QED
      BY <3>1, <3>2
  <2>2. batch \in [1 .. size -> Nat] /\ size \in Nat
    BY <1>4, <1>5, <2>1
  <2> QED
    BY <1>6, <2>1, <2>2 DEF Members
<1>8. batch # <<>>
  BY <1>4, <1>6
<1> QED
  BY <1>4, <1>5, <1>6, <1>7, <1>8

LEMMA Applies == ASSUME RunInv, applyChangeBatch PROVE RunInv'
<1> USE DEF RunInv
<1>1. UNCHANGED <<log, clock, config, checkpoint>> /\ sync.pc = "batch" /\ Here # {}
  BY DEF applyChangeBatch
<1>2. sync'.batch \in Seq(Nat) /\ sync'.batch # <<>> /\ Members(sync'.batch) \subseteq sync.left
  BY <1>1, ApplyMoves, SliceIs DEF Here
<1> QED
  BY <1>1, <1>2, ApplyMoves DEF LogOK, RunOK, Theirs, ReadOK, SharedOK, LeftOK, FloorOK, Copied

LEMMA Marks == ASSUME RunInv, markSynchronized PROVE RunInv'
<1> USE DEF RunInv
<1>1. LogOK' /\ LogGrows
  BY MarkingIs
<1>2. UNCHANGED <<checkpoint, clock>> /\ sync.pc = "mark"
  BY DEF markSynchronized
<1>3. SharedOK' /\ LeftOK'
  <2>1. \A i \in sync.sourceLogs \cup sync.targetLogs : log'[i].record = log[i].record
    BY <1>1 DEF RunOK, LogGrows
  <2> QED
    BY <1>2, <2>1, MarkMoves DEF SharedOK, LeftOK, Theirs
<1>4. RunOK'
  BY <1>1, <1>2, MarkMoves DEF LogGrows, LogOK, RunOK
<1>5. ReadOK'
  BY <1>1, <1>2, MarkMoves DEF LogGrows, RunOK, ReadOK
<1>6. FloorOK'
  BY <1>2, MarkMoves DEF FloorOK, Copied
<1> QED
  BY <1>1, MarkMoves, <1>3, <1>4, <1>5, <1>6

\* The last change of a batch is one of it, and behind the checkpoint the run began with.
LastOf == sync.batch[Len(sync.batch)]

LEMMA LastIs ==
    ASSUME RunInv, sync.batch # <<>>
    PROVE  /\ LastOf \in Members(sync.batch) /\ LastOf \in DOMAIN log
           /\ log[LastOf].origin = Origin /\ Origin \in Sides
           /\ Past(log[LastOf].time, LastOf, sync.from[Origin])
           /\ Stamp(LastOf) \in Position /\ Stamp(LastOf).time = log[LastOf].time
<1>1. Len(sync.batch) \in 1 .. Len(sync.batch)
  <2>1. sync.batch \in Seq(Nat)
    BY DEF RunInv, RunOK
  <2> QED
    BY <2>1
<1>2. LastOf \in Members(sync.batch)
  BY <1>1 DEF LastOf, Members
<1>3. LastOf \in Theirs /\ LastOf \in DOMAIN log
  BY <1>2 DEF RunInv, LeftOK, Theirs, RunOK
<1>4. /\ log[LastOf].origin = Origin /\ Origin \in Sides
      /\ Past(log[LastOf].time, LastOf, sync.from[Origin])
  BY <1>3 DEF RunInv, ReadOK, RunOK, Theirs, Origin, Sides
<1>5. log[LastOf] \in Change /\ LastOf \in Nat
  BY <1>3 DEF RunInv, LogOK
<1>6. Stamp(LastOf) \in Position /\ Stamp(LastOf).time = log[LastOf].time
  BY <1>5, BoundAssumption DEF Stamp, Position, Change
<1> QED
  BY <1>2, <1>3, <1>4, <1>6

\* The checkpoint goes to the last change of the batch.
LEMMA Advances == ASSUME RunInv, updateCheckpoint PROVE RunInv'
<1> USE DEF RunInv
<1>1. /\ UNCHANGED <<log, clock, config>> /\ sync.pc = "advance"
      /\ checkpoint' = [checkpoint EXCEPT ![Origin] = Stamp(LastOf)]
  BY DEF updateCheckpoint, Advanced, LastOf
<1>2. sync.batch # <<>>
  BY <1>1 DEF LeftOK
<1>3. /\ Origin \in Sides /\ After(Stamp(LastOf), sync.from[Origin])
      /\ Stamp(LastOf) \in Position /\ Stamp(LastOf).time <= clock
  BY <1>2, LastIs, PastIs DEF LogOK
<1>4. FloorOK'
  BY <1>1, <1>3, AdvanceMoves DEF FloorOK, RunOK, Copied
<1>6. RunOK'
  <2>1. <<>> \in Seq(Nat)
    OBVIOUS
  <2> QED
    BY <1>1, <1>3, <2>1, AdvanceMoves DEF RunOK
<1>5. LeftOK'
  BY <1>1, AdvanceMoves, NoMembers DEF LeftOK, Theirs
<1> QED
  BY <1>1, <1>4, <1>5, <1>6, LogSame, AdvanceMoves DEF ReadOK, SharedOK

LEMMA Moves ==
    ASSUME RunInv,
           \/ nextTable \/ fetchTableRecordsPaginated \/ applyPage \/ skipTable
           \/ /\ goto("done") /\ sync.pc = "batch"
              /\ UNCHANGED <<log, clock, config, checkpoint>>
    PROVE  RunInv'
<1>1. UNCHANGED <<log, clock, config, checkpoint>>
  BY DEF nextTable, fetchTableRecordsPaginated, applyPage, skipTable
<1>2. Turned
  BY TurnMoves DEF RunInv
<1>3. \/ sync.pc = "batch" /\ sync'.pc \in {"batch", "done"}
      \/ sync.pc \in {"page", "copy"} /\ sync'.pc \in {"page", "copy", "done"}
  BY TurnMoves DEF RunInv, nextTable, fetchTableRecordsPaginated, applyPage, skipTable
<1> QED
  BY <1>1, <1>2, <1>3, Turning

LEMMA Establishes == ASSUME RunInv, establishCheckpoint PROVE RunInv'
<1> USE DEF RunInv
<1>1. Turned /\ sync'.pc = "done"
  BY TurnMoves DEF establishCheckpoint
<1>2. /\ UNCHANGED <<log, clock, config>> /\ sync.pc = "page" /\ clock \in Nat
      /\ checkpoint' = [checkpoint EXCEPT !["source"] = [time |-> clock, id |-> 0]]
  BY DEF establishCheckpoint, LogOK
<1>3. [time |-> clock, id |-> 0] \in Position
  BY <1>2 DEF Position
<1>4. RunOK'
  BY <1>1, <1>2, <1>3 DEF Turned, RunOK, Sides
<1>5. /\ checkpoint'["source"].time = clock /\ checkpoint'["source"].id = 0
      /\ \A s \in Sides : s # "source" => checkpoint'[s] = checkpoint[s]
  BY <1>2 DEF RunOK, Sides
<1>6. Copied'
  BY <1>1, <1>2, <1>5 DEF Turned, Copied, RunOK, LogOK, Sides
<1>7. FloorOK'
  BY <1>1, <1>2, <1>5, <1>6 DEF Turned, FloorOK
<1> QED
  BY <1>1, <1>2, <1>4, <1>7 DEF Turned, LogOK, ReadOK, SharedOK, LeftOK, Theirs

LEMMA RunStep == RunInv /\ [Next]_vars => RunInv'
<1> SUFFICES ASSUME RunInv, [Next]_vars PROVE RunInv'
  OBVIOUS
<1>0. LogOK /\ clock >= clock
  BY DEF RunInv, LogOK
<1>1. CASE UNCHANGED vars
  BY <1>0, <1>1, LogSame, RunStays DEF vars
<1>2. ASSUME NEW side \in Sides, NEW r \in Record, NEW op, write(side, r, op) PROVE RunInv'
  BY <1>0, <1>2, Writing, RunStays DEF write
<1>3. ASSUME NEW m, NEW known, begin(m, known) PROVE RunInv'
  BY <1>3, Begins
<1>4. CASE findSourceLogs \/ findTargetLogs \/ resolveConflicts
  BY <1>4, FindsSource, FindsTarget, Resolves
<1>5. ASSUME NEW m, planSource(m) PROVE RunInv'
  BY <1>5, Plans DEF planSource, Planned, Sides
<1>6. ASSUME NEW m, planTarget(m) PROVE RunInv'
  BY <1>6, Plans, Moves DEF planTarget, Planned, Sides, goto
<1>7. CASE applyChangeBatch \/ markSynchronized \/ updateCheckpoint
  BY <1>7, Applies, Marks, Advances
<1>8. CASE nextTable \/ full \/ skipTable
  BY <1>8, Moves, Establishes DEF full
<1>9. CASE refuse \/ finish \/ fail
  BY <1>9, Rests DEF refuse, finish, fail, abandon
<1>10. CASE tick
  <2>1. clock' >= clock
    BY <1>0, <1>10 DEF tick, LogOK
  <2> QED
    BY <1>0, <1>10, <2>1, Ticking, RunStays DEF tick
<1> QED
  BY <1>1, <1>2, <1>3, <1>4, <1>5, <1>6, <1>7, <1>8, <1>9, <1>10 DEF Next, job, incremental

-----------------------------------------------------------------------------
(* What is marked, and what a later run can still come upon.               *)

\* No database takes a captured delete, so none is ever marked.
DeletesPending == \A i \in DOMAIN log : log[i].op = "DELETE" => ~log[i].synchronized

OneWayOK ==
    config.direction = "ONE_WAY" =>
        sync.side = "target" /\ \A i \in DOMAIN log : log[i].origin = "source"

\* What was read is not marked but by the run itself, batch after batch.
UnmarkedOK ==
    /\ sync.pc \in {"targetLogs", "resolve", "plan"} =>
          \A i \in sync.sourceLogs : ~log[i].synchronized
    /\ sync.pc \in {"logs", "targetLogs", "resolve", "plan"} => sync.side = "target"
    /\ \A i \in sync.left : \/ ~log[i].synchronized
                            \/ sync.pc = "advance" /\ i \in Members(sync.batch)
                            \/ sync.pc = "done"
    /\ sync.side = "target" => \A i \in sync.targetLogs : ~log[i].synchronized

\* With a change that is not marked the run has read all such changes of earlier times.
ReadAll ==
    \A i \in sync.sourceLogs : \A j \in DOMAIN log :
        /\ log[j].time < log[i].time /\ ~log[j].synchronized
        /\ Past(log[j].time, j, sync.from[log[j].origin])
        => \/ j \in sync.sourceLogs \cup sync.targetLogs
           \/ sync.pc = "targetLogs" /\ log[j].origin = "target"

\* What was planned is left until it is marked.
LeftAll ==
    sync.side = "target" /\ sync.pc \in {"batch", "mark", "advance"} =>
        \A i \in sync.sourceLogs : i \in sync.left \/ log[i].synchronized

\* A batch takes the changes of a table in the order of their times.
BatchOK ==
    /\ \A i \in Members(sync.batch) : log[i].op # "DELETE"
    /\ \A i \in Members(sync.batch) : \A j \in sync.left :
          log[j].time < log[i].time /\ log[j].record[1] = log[i].record[1]
              => j \in Members(sync.batch)
    /\ sync.pc = "advance" => \A i \in Members(sync.batch) : log[i].synchronized

\* A change that was not marked before a later one of its record never will be.
OutOfReach ==
    \A i \in DOMAIN log : \A j \in DOMAIN log :
        /\ log[i].synchronized /\ log[i].origin = "source"
        /\ log[j].time < log[i].time /\ log[j].record = log[i].record
        /\ ~log[j].synchronized
        => ~Past(log[j].time, j, Floor(log[j].origin))

PlanInv == DeletesPending /\ OneWayOK /\ UnmarkedOK /\ ReadAll /\ LeftAll /\ BatchOK /\ OutOfReach

LEMMA ChangesAre ==
    ASSUME RunInv
    PROVE  /\ \A i \in DOMAIN log : /\ log[i] \in Change /\ i \in Nat /\ log[i].time \in Nat
                                    /\ log[i].origin \in {"source", "target"}
                                    /\ log[i].origin \in Sides /\ log[i].record \in Record
           /\ config.direction \in {"ONE_WAY", "BIDIRECTIONAL"}
           /\ Members(sync.batch) \subseteq sync.left /\ sync.left \subseteq Theirs
           /\ Theirs \subseteq DOMAIN log
<1>1. DOMAIN log = 1 .. Len(log) /\ Len(log) \in Nat /\ \A i \in DOMAIN log : log[i] \in Change
  BY DEF RunInv, LogOK
<1>2. config.direction \in {"ONE_WAY", "BIDIRECTIONAL"}
  BY ConfigsAssumption DEF RunInv, LogOK
<1> QED
  BY <1>1, <1>2 DEF Change, Sides, RunInv, LeftOK, RunOK, Theirs

LEMMA PlanInit == Init => PlanInv
  BY NoMembers DEF Init, PlanInv, DeletesPending, OneWayOK, UnmarkedOK, ReadAll, LeftAll,
                   BatchOK, OutOfReach, Resting

LEMMA PlanStays ==
    ASSUME PlanInv, UNCHANGED <<log, sync, checkpoint, config>> PROVE PlanInv'
  BY DEF PlanInv, DeletesPending, OneWayOK, UnmarkedOK, ReadAll, LeftAll, BatchOK, OutOfReach,
         Floor

\* What no run comes upon from where this one began, none comes upon from where it ended.
LEMMA StaysOut ==
    ASSUME RunInv, NEW i \in DOMAIN log, NEW j \in DOMAIN log, log[i].synchronized,
           log[j].time < log[i].time, ~Past(log[j].time, j, Floor(log[j].origin))
    PROVE  ~Past(log[j].time, j, checkpoint[log[j].origin])
<1> DEFINE s == log[j].origin
<1>1. s \in Sides /\ log[i].time \in Nat /\ log[j].time \in Nat
  BY ChangesAre
<1>2. checkpoint[s] \in Position /\ sync.from[s] \in Position
  BY <1>1 DEF RunInv, RunOK
<1>3. CASE sync.pc = "idle" \/ checkpoint[s] = sync.from[s]
  BY <1>3 DEF Floor
<1>4. CASE sync.pc # "idle" /\ After(checkpoint[s], sync.from[s])
  BY <1>1, <1>2, <1>4, PastBoth DEF Floor
<1>5. CASE s = "source" /\ Copied
  <2>1. log[i].time <= checkpoint["source"].time /\ checkpoint["source"].time \in Nat
    BY <1>2, <1>5 DEF Copied, Position
  <2> QED
    BY <1>1, <1>5, <2>1 DEF Past
<1> QED
  BY <1>1, <1>3, <1>4, <1>5 DEF RunInv, FloorOK

LEMMA PlanRests ==
    ASSUME RunInv, PlanInv, sync' = Resting, UNCHANGED <<log, checkpoint, config>>
    PROVE  PlanInv'
<1>1. OutOfReach'
  BY StaysOut DEF PlanInv, OutOfReach, Floor, Resting
<1> QED
  BY <1>1, NoMembers DEF PlanInv, DeletesPending, OneWayOK, UnmarkedOK, ReadAll, LeftAll,
                         BatchOK, Resting

LEMMA PlanWrites ==
    ASSUME RunInv, PlanInv, NEW side \in Sides, NEW r \in Record, NEW op,
           write(side, r, op)
    PROVE  PlanInv'
<1> DEFINE n == Len(log) + 1
<1>1. Appended(n, r, side)
  BY Writing DEF RunInv
<1>2. /\ UNCHANGED <<sync, checkpoint, config>>
      /\ side = "target" => config.direction = "BIDIRECTIONAL"
  BY DEF write
<1>3. /\ sync.sourceLogs \subseteq DOMAIN log /\ sync.targetLogs \subseteq DOMAIN log
      /\ sync.left \subseteq DOMAIN log /\ Members(sync.batch) \subseteq DOMAIN log
  BY DEF RunInv, RunOK, LeftOK, Theirs
<1>4. \A i \in DOMAIN log : log[i].time \in Nat /\ clock \in Nat
  BY ChangesAre DEF RunInv, LogOK
<1> HIDE DEF n
<1> USE <1>1, <1>2, <1>3, <1>4 DEF Appended, PlanInv
<1>5. DeletesPending'
  BY DEF DeletesPending
<1>6. OneWayOK'
  BY DEF OneWayOK, Sides
<1>7. UnmarkedOK'
  BY DEF UnmarkedOK
<1>8. ReadAll'
  BY DEF ReadAll
<1>9. LeftAll' /\ BatchOK'
  BY DEF LeftAll, BatchOK
<1>10. OutOfReach'
  BY DEF OutOfReach, Floor
<1> QED
  BY <1>5, <1>6, <1>7, <1>8, <1>9, <1>10

LEMMA PlanBegins ==
    ASSUME RunInv, PlanInv, NEW mode, NEW metadata, begin(mode, metadata) PROVE PlanInv'
<1>1. UNCHANGED <<log, checkpoint, config>> /\ sync.pc = "idle"
  BY DEF begin
<1> QED
  BY <1>1, BeginMoves, NoMembers
  DEF PlanInv, DeletesPending, OneWayOK, UnmarkedOK, ReadAll, LeftAll, BatchOK, OutOfReach, Floor

LEMMA PlanTurns ==
    ASSUME RunInv, PlanInv, Turned, UNCHANGED <<log, config>>,
           \/ sync.pc = "resolve" /\ sync'.pc = "plan"
           \/ sync.pc = "batch" /\ sync'.pc \in {"batch", "done"}
           \/ sync.pc \in {"page", "copy"} /\ sync'.pc \in {"page", "copy", "done"}
    PROVE  PlanInv'
<1>1. OutOfReach' /\ ReadAll'
  BY DEF Turned, PlanInv, OutOfReach, Floor, ReadAll
<1> QED
  BY <1>1 DEF Turned, PlanInv, DeletesPending, OneWayOK, UnmarkedOK, LeftAll, BatchOK

LEMMA PlanFindsSource == ASSUME RunInv, PlanInv, findSourceLogs PROVE PlanInv'
<1>1. UNCHANGED <<log, config>> /\ sync.pc = "logs"
  BY DEF findSourceLogs
<1>2. Shape /\ sync.targetLogs = {} /\ sync.left = {} /\ sync.batch = <<>>
  BY <1>1 DEF RunInv, ReadOK, LeftOK
<1>3. ReadAll'
  BY <1>1, <1>2, ChangesAre, PendingIs, FindSourceMoves DEF PlanInv, OneWayOK, ReadAll
<1>4. UnmarkedOK'
  BY <1>1, <1>2, PendingIs, FindSourceMoves DEF PlanInv, UnmarkedOK
<1>5. OutOfReach'
  BY <1>1, FindSourceMoves DEF RunInv, PlanInv, OutOfReach, Floor
<1> QED
  BY <1>1, <1>2, <1>3, <1>4, <1>5, NoMembers, FindSourceMoves
  DEF PlanInv, DeletesPending, OneWayOK, LeftAll, BatchOK

LEMMA PlanFindsTarget == ASSUME RunInv, PlanInv, findTargetLogs PROVE PlanInv'
<1>1. UNCHANGED <<log, config>> /\ sync.pc = "targetLogs"
  BY DEF findTargetLogs
<1>2. Shape /\ sync.left = {} /\ sync.batch = <<>>
  BY <1>1 DEF RunInv, LeftOK
<1>3. ReadAll'
  BY <1>1, <1>2, ChangesAre, PendingIs, FindTargetMoves DEF PlanInv, ReadAll, RunInv, ReadOK
<1>4. UnmarkedOK'
  BY <1>1, <1>2, PendingIs, FindTargetMoves DEF PlanInv, UnmarkedOK
<1>5. OutOfReach'
  BY <1>1, FindTargetMoves DEF RunInv, PlanInv, OutOfReach, Floor
<1> QED
  BY <1>1, <1>2, <1>3, <1>4, <1>5, NoMembers, FindTargetMoves
  DEF PlanInv, DeletesPending, OneWayOK, LeftAll, BatchOK

LEMMA PlanPlans ==
    ASSUME RunInv, PlanInv, NEW side, NEW metadata,
           \/ sync.pc = "plan" /\ side = "target"
           \/ /\ sync.pc = "batch" /\ side = "source"
              /\ sync.side = "target" /\ sync.targetLogs # {},
           plan(Planned(side), side, metadata), UNCHANGED <<log, checkpoint, config>>
    PROVE  PlanInv'
<1> USE DEF PlanInv
<1>1. Shape /\ sync.batch = <<>> /\ sync.targetLogs \subseteq DOMAIN log
  BY DEF RunInv, LeftOK, RunOK
<1>2. DeletesPending' /\ BatchOK'
  BY <1>1, NoMembers, PlanMoves DEF DeletesPending, BatchOK
<1>3. ReadAll'
  BY <1>1, PlanMoves DEF ReadAll
<1>4. OutOfReach'
  BY <1>1, PlanMoves DEF OutOfReach, Floor
<1>5. OneWayOK'
  BY <1>1, PlanMoves DEF RunInv, ReadOK, OneWayOK
<1>6. UnmarkedOK'
  <2>1. /\ \A i \in Planned(side) : ~log[i].synchronized
        /\ sync.side = "target" /\ \A i \in sync.targetLogs : ~log[i].synchronized
    BY DEF UnmarkedOK, Planned
  <2>2. /\ log' = log /\ sync'.pc = "batch" /\ sync'.left = Planned(side)
        /\ sync'.targetLogs = sync.targetLogs
    BY <1>1, PlanMoves
  <2> HIDE DEF Planned
  <2> QED
    BY <2>1, <2>2 DEF UnmarkedOK
<1>7. LeftAll'
  BY <1>1, PlanMoves DEF LeftAll, Planned
<1> QED
  BY <1>2, <1>3, <1>4, <1>5, <1>6, <1>7

LEMMA PlanApplies == ASSUME RunInv, PlanInv, applyChangeBatch PROVE PlanInv'
<1> USE DEF PlanInv
<1>1. UNCHANGED <<log, config>> /\ sync.pc = "batch" /\ Here # {}
  BY DEF applyChangeBatch
<1>2. Shape /\ sync.batch = <<>> /\ sync'.batch \in Slices
  BY <1>1, ApplyMoves DEF RunInv, LeftOK
<1> DEFINE b == sync'.batch
           db == IF sync.side = "target" THEN target ELSE source
<1>3. /\ Members(b) \subseteq Here /\ DOMAIN b = 1 .. Len(b)
      /\ \A i \in Here \ Members(b), n \in DOMAIN b : log[b[n]].time <= log[i].time
  BY <1>1, <1>2, SliceIs
<1>4. \A n \in DOMAIN b : log[b[n]].op # "DELETE"
  BY <1>2, ApplyMoves DEF Throws
<1>5. BatchOK'
  <2>1. /\ sync'.pc = "mark" /\ log' = log /\ sync'.left = sync.left
    BY <1>1, <1>2, ApplyMoves
  <2>2. \A i \in Members(b) : log[i].op # "DELETE"
    BY <1>3, <1>4 DEF Members
  <2>3. ASSUME NEW i \in Members(b), NEW j \in sync.left, log[j].time < log[i].time,
               log[j].record[1] = log[i].record[1], j \notin Members(b)
        PROVE  FALSE
    <3>1. j \in Here
      BY <1>3, <2>3 DEF Here
    <3>2. PICK n \in DOMAIN b : i = b[n]
      BY <1>3 DEF Members
    <3>3. log[i].time <= log[j].time /\ log[i].time \in Nat /\ log[j].time \in Nat
      BY <1>3, <2>3, <3>1, <3>2, ChangesAre DEF Here
    <3> QED
      BY <2>3, <3>3
  <2> HIDE DEF b
  <2> QED
    BY <2>1, <2>2, <2>3 DEF BatchOK, b
<1>6. OutOfReach' /\ ReadAll'
  BY <1>1, <1>2, ApplyMoves DEF OutOfReach, Floor, ReadAll
<1> HIDE DEF b
<1> QED
  BY <1>1, <1>2, <1>5, <1>6, ApplyMoves
  DEF DeletesPending, OneWayOK, UnmarkedOK, LeftAll

LEMMA PlanAdvances == ASSUME RunInv, PlanInv, updateCheckpoint PROVE PlanInv'
<1> USE DEF PlanInv
<1>1. UNCHANGED <<log, config>> /\ sync.pc = "advance"
  BY DEF updateCheckpoint, Advanced
<1>2. Shape
  BY DEF RunInv
<1>3. LeftAll'
  BY <1>1, <1>2, AdvanceMoves DEF LeftAll, BatchOK
<1>4. UnmarkedOK' /\ BatchOK'
  BY <1>1, <1>2, NoMembers, AdvanceMoves DEF UnmarkedOK, BatchOK
<1>5. OutOfReach' /\ ReadAll'
  BY <1>1, <1>2, AdvanceMoves DEF OutOfReach, Floor, ReadAll
<1> QED
  BY <1>1, <1>2, <1>3, <1>4, <1>5, AdvanceMoves DEF DeletesPending, OneWayOK

\* What the run may still come upon, before a change of the source's batch and of its
\* table, is in the batch too; and before one of its record, of either side.
LEMMA PrecedesSource ==
    ASSUME RunInv, PlanInv, sync.pc \in {"mark", "advance"}, sync.side = "target",
           NEW i \in Members(sync.batch), NEW j \in DOMAIN log,
           log[j].time < log[i].time, ~log[j].synchronized,
           Past(log[j].time, j, sync.from[log[j].origin]),
           log[j].record[1] = log[i].record[1],
           log[j].origin = "source" \/ log[j].record = log[i].record
    PROVE  j \in Members(sync.batch)
<1>1. i \in sync.sourceLogs
  BY ChangesAre DEF Theirs
<1>2. j \in sync.sourceLogs \cup sync.targetLogs
  BY <1>1 DEF PlanInv, ReadAll
<1>3. j \notin sync.targetLogs
  BY <1>1 DEF RunInv, ReadOK, SharedOK
<1>4. j \in sync.left
  BY <1>2, <1>3 DEF PlanInv, LeftAll
<1> QED
  BY <1>4 DEF PlanInv, BatchOK

LEMMA PlanMarks == ASSUME RunInv, PlanInv, markSynchronized PROVE PlanInv'
<1> DEFINE B == Members(sync.batch)
<1> USE DEF PlanInv
<1>1. sync.pc = "mark" /\ UNCHANGED <<config, checkpoint>>
  BY DEF markSynchronized
<1>2. /\ DOMAIN log' = DOMAIN log
      /\ \A i \in DOMAIN log :
            /\ log'[i].record = log[i].record /\ log'[i].origin = log[i].origin
            /\ log'[i].op = log[i].op /\ log'[i].time = log[i].time
            /\ log'[i].synchronized <=> log[i].synchronized \/ i \in B
  BY MarkingIs DEF RunInv, LogGrows
<1>3. /\ Shape /\ B \subseteq sync.left /\ sync.left \subseteq Theirs
      /\ sync.sourceLogs \subseteq DOMAIN log /\ sync.targetLogs \subseteq DOMAIN log
      /\ Theirs \subseteq DOMAIN log
  BY <1>1, ChangesAre DEF RunInv, RunOK
<1>4. /\ sync'.pc = "advance" /\ sync'.from = sync.from /\ sync'.batch = sync.batch
      /\ sync'.sourceLogs = sync.sourceLogs /\ sync'.targetLogs = sync.targetLogs
      /\ sync'.side = sync.side /\ sync'.left = sync.left
  BY <1>3, MarkMoves
<1>5. sync.side = "target" => B \cap sync.targetLogs = {}
  BY <1>3 DEF RunInv, ReadOK, Theirs
<1>6. DeletesPending' /\ OneWayOK' /\ BatchOK'
  BY <1>1, <1>2, <1>3, <1>4 DEF DeletesPending, OneWayOK, BatchOK
<1> HIDE DEF B
<1>7. UnmarkedOK'
  BY <1>1, <1>2, <1>3, <1>4, <1>5 DEF UnmarkedOK, B
<1>8. LeftAll'
  BY <1>1, <1>2, <1>3, <1>4 DEF LeftAll
<1>9. ReadAll'
  BY <1>1, <1>2, <1>3, <1>4 DEF ReadAll
<1>10. OutOfReach'
  <2> SUFFICES ASSUME NEW i \in DOMAIN log, NEW j \in DOMAIN log,
                      log'[i].synchronized, log[i].origin = "source",
                      log[j].time < log[i].time, log[j].record = log[i].record,
                      ~log'[j].synchronized
               PROVE  ~Past(log[j].time, j, sync.from[log[j].origin])
    BY <1>1, <1>2, <1>3, <1>4 DEF OutOfReach, Floor
  <2>1. ~log[j].synchronized /\ j \notin B
    BY <1>2
  <2>2. CASE i \in B
    <3>1. sync.side = "target"
      BY <1>3, <2>2 DEF RunInv, ReadOK, Theirs
    <3> QED
      BY <1>1, <2>1, <2>2, <3>1, PrecedesSource DEF B
  <2>3. CASE log[i].synchronized
    BY <1>1, <2>1, <2>3 DEF OutOfReach, Floor
  <2> QED
    BY <1>2, <2>2, <2>3
<1> QED
  BY <1>6, <1>7, <1>8, <1>9, <1>10

LEMMA PlanStep == RunInv /\ PlanInv /\ [Next]_vars => PlanInv'
<1> SUFFICES ASSUME RunInv, PlanInv, [Next]_vars PROVE PlanInv'
  OBVIOUS
<1>1. CASE UNCHANGED vars
  BY <1>1, PlanStays DEF vars
<1>2. ASSUME NEW side \in Sides, NEW r \in Record, NEW op, write(side, r, op) PROVE PlanInv'
  BY <1>2, PlanWrites
<1>3. ASSUME NEW m, NEW known, begin(m, known) PROVE PlanInv'
  BY <1>3, PlanBegins
<1>4. CASE findSourceLogs \/ findTargetLogs
  BY <1>4, PlanFindsSource, PlanFindsTarget
<1>5. ASSUME NEW m, planSource(m) PROVE PlanInv'
  BY <1>5, PlanPlans DEF planSource, Planned
<1>6. ASSUME NEW m, planTarget(m) PROVE PlanInv'
  <2>1. CASE sync.side = "target" /\ sync.targetLogs # {}
    BY <1>6, <2>1, PlanPlans DEF planTarget, Planned
  <2>2. CASE goto("done")
    BY <1>6, <2>2, PlanTurns, TurnMoves DEF planTarget, RunInv
  <2> QED
    BY <1>6, <2>1, <2>2 DEF planTarget, goto
<1>7. CASE applyChangeBatch \/ markSynchronized \/ updateCheckpoint
  BY <1>7, PlanApplies, PlanMarks, PlanAdvances
<1>8. CASE nextTable \/ full \/ skipTable \/ resolveConflicts
  <2>1. UNCHANGED <<log, config>>
    BY <1>8 DEF nextTable, full, fetchTableRecordsPaginated, applyPage, establishCheckpoint,
                skipTable, resolveConflicts
  <2>2. Turned /\ \/ sync.pc = "resolve" /\ sync'.pc = "plan"
                  \/ sync.pc = "batch" /\ sync'.pc \in {"batch", "done"}
                  \/ sync.pc \in {"page", "copy"} /\ sync'.pc \in {"page", "copy", "done"}
    BY <1>8, TurnMoves DEF nextTable, full, fetchTableRecordsPaginated, applyPage,
                           establishCheckpoint, skipTable, resolveConflicts, RunInv
  <2> QED
    BY <2>1, <2>2, PlanTurns
<1>9. CASE refuse \/ finish \/ fail
  BY <1>9, PlanRests DEF refuse, finish, fail, abandon
<1>10. CASE tick
  BY <1>10, PlanStays DEF tick
<1> QED
  BY <1>1, <1>2, <1>3, <1>4, <1>5, <1>6, <1>7, <1>8, <1>9, <1>10 DEF Next, job, incremental

-----------------------------------------------------------------------------
(* What the checkpoint passes by.                                          *)

\* The source's checkpoint is the time of a full copy or a change that is marked.
StandsOK ==
    \/ checkpoint["source"].id = 0
    \/ \E j \in DOMAIN log :
          log[j].synchronized /\ log[j].time = checkpoint["source"].time

LEMMA StandsInit == Init => StandsOK
  BY DEF Init, StandsOK, Sides, Null

LEMMA StandsStays ==
    ASSUME StandsOK, UNCHANGED checkpoint, LogGrows,
           \A i \in DOMAIN log : log[i].synchronized => log'[i].synchronized
    PROVE  StandsOK'
  BY DEF StandsOK, LogGrows

LEMMA StandsStep == RunInv /\ PlanInv /\ StandsOK /\ [Next]_vars => StandsOK'
<1> SUFFICES ASSUME RunInv, PlanInv, StandsOK, [Next]_vars PROVE StandsOK'
  OBVIOUS
<1>0. LogOK
  BY DEF RunInv
<1>1. CASE UNCHANGED <<log, checkpoint>>
  BY <1>1 DEF StandsOK
<1>2. ASSUME NEW side \in Sides, NEW r \in Record, NEW op, write(side, r, op) PROVE StandsOK'
  BY <1>0, <1>2, Writing, StandsStays DEF write, Appended
<1>3. CASE markSynchronized
  <2>1. UNCHANGED checkpoint
    BY <1>3 DEF markSynchronized
  <2> QED
    BY <1>0, <1>3, <2>1, MarkingIs, StandsStays
<1>4. CASE updateCheckpoint
  <2>1. /\ log' = log /\ sync.pc = "advance" /\ sync.batch # <<>>
        /\ checkpoint' = [checkpoint EXCEPT ![Origin] = Stamp(LastOf)]
    BY <1>4 DEF updateCheckpoint, Advanced, LastOf, RunInv, LeftOK
  <2>2. /\ LastOf \in DOMAIN log /\ log[LastOf].synchronized
        /\ Stamp(LastOf).time = log[LastOf].time
    BY <2>1, LastIs DEF PlanInv, BatchOK
  <2>3. checkpoint'["source"] \in {checkpoint["source"], Stamp(LastOf)}
    BY <2>1 DEF RunInv, RunOK, Sides
  <2> QED
    BY <2>1, <2>2, <2>3 DEF StandsOK
<1>5. CASE establishCheckpoint
  BY <1>5 DEF establishCheckpoint, StandsOK, RunInv, RunOK, Sides
<1>6. CASE Next
  <2>1. ASSUME NEW m, NEW known, begin(m, known) PROVE UNCHANGED <<log, checkpoint>>
    BY <2>1 DEF begin
  <2>2. ASSUME NEW m, planSource(m) \/ planTarget(m) PROVE UNCHANGED <<log, checkpoint>>
    BY <2>2 DEF planSource, planTarget
  <2>3. CASE findSourceLogs \/ findTargetLogs \/ resolveConflicts \/ applyChangeBatch
             \/ nextTable \/ fetchTableRecordsPaginated \/ applyPage \/ finish
             \/ skipTable \/ fail \/ refuse \/ tick
    BY <1>1, <2>3 DEF findSourceLogs, findTargetLogs, resolveConflicts, applyChangeBatch,
       nextTable, fetchTableRecordsPaginated, applyPage, finish, skipTable, fail, refuse,
       abandon, tick
  <2> QED
    BY <1>1, <1>2, <1>3, <1>4, <1>5, <1>6, <2>1, <2>2, <2>3 DEF Next, job, incremental, full
<1> QED
  BY <1>1, <1>6 DEF vars

\* A change that is newly behind the source's checkpoint was passed by one that is marked,
\* of its time, or of another table and a later time.
Overtaker(t, r) ==
    \E j \in DOMAIN log :
        /\ log[j].synchronized
        /\ \/ t = log[j].time
           \/ t < log[j].time /\ r[1] # log[j].record[1]

LEMMA WriteOvertakes ==
    ASSUME RunInv, StandsOK, NEW side \in Sides, NEW r \in Record, NEW op,
           write(side, r, op), NEW i \in Overtaken' \ Overtaken
    PROVE  Overtaker(log'[i].time, log'[i].record)
<1> DEFINE n == Len(log) + 1
           c == checkpoint["source"]
<1>1. Appended(n, r, side) /\ UNCHANGED <<checkpoint, copied>>
  BY Writing DEF RunInv, write
<1>2. i \in DOMAIN log' /\ ~Past(log'[i].time, i, c)
  BY <1>1, PastIs DEF Overtaken, After, Stamp, Past
<1>3. i = n
  <2>1. i \in DOMAIN log => i \in Overtaken
    BY <1>1 DEF Appended, Overtaken, After, Stamp
  <2> QED
    BY <1>1, <1>2, <2>1 DEF Appended
<1>4. log'[i].time = clock /\ n \in 1 .. MaxWrites
  BY <1>1, <1>3 DEF Appended
<1>5. c.time \in Nat /\ clock \in Nat /\ c.time <= clock
  BY DEF RunInv, RunOK, LogOK, Position, Sides
<1>6. c.time = clock /\ c.id # 0
  <2>1. <<0, FirstId + n>> \in TextOrder
    BY <1>4, TextAssumption
  <2> HIDE DEF c, n
  <2> QED
    BY <1>2, <1>3, <1>4, <1>5, <2>1 DEF Past
<1> QED
  BY <1>4, <1>6 DEF StandsOK, Overtaker

LEMMA AdvanceOvertakes ==
    ASSUME RunInv, PlanInv, updateCheckpoint, NEW i \in Overtaken' \ Overtaken
    PROVE  Overtaker(log'[i].time, log'[i].record)
<1>1. /\ UNCHANGED <<log, copied>> /\ sync.pc = "advance" /\ sync.batch # <<>>
      /\ checkpoint' = [checkpoint EXCEPT ![Origin] = Stamp(LastOf)]
  BY DEF updateCheckpoint, Advanced, LastOf, RunInv, LeftOK
<1>2. /\ i \in DOMAIN log /\ log[i].origin = "source" /\ ~log[i].synchronized
      /\ ~Past(log[i].time, i, checkpoint'["source"])
      /\ Past(log[i].time, i, checkpoint["source"])
  BY <1>1, PastIs DEF Overtaken, After, Stamp, Past
<1>3. sync.side = "target" /\ checkpoint'["source"] = Stamp(LastOf)
  BY <1>1, <1>2 DEF RunInv, RunOK, Origin, Sides
<1>4. /\ LastOf \in DOMAIN log /\ log[LastOf].synchronized
      /\ LastOf \in Members(sync.batch) /\ Stamp(LastOf).time = log[LastOf].time
  BY <1>1, LastIs DEF PlanInv, BatchOK
<1>5. log[i].time <= log[LastOf].time /\ log[i].time \in Nat /\ log[LastOf].time \in Nat
  BY <1>2, <1>3, <1>4, ChangesAre DEF Past
<1>6. Past(log[i].time, i, sync.from["source"])
  <2>1. checkpoint["source"] \in Position /\ sync.from["source"] \in Position
    BY DEF RunInv, RunOK, Sides
  <2>2. \/ checkpoint["source"] = sync.from["source"]
        \/ After(checkpoint["source"], sync.from["source"])
    BY <1>1 DEF RunInv, FloorOK, Copied, Sides
  <2> QED
    BY <1>2, <1>5, <2>1, <2>2, PastBoth
<1>7. CASE log[i].time < log[LastOf].time /\ log[i].record[1] = log[LastOf].record[1]
  <2>1. i \in Members(sync.batch)
    BY <1>1, <1>2, <1>3, <1>4, <1>6, <1>7, PrecedesSource
  <2> QED
    BY <1>1, <1>2, <2>1 DEF PlanInv, BatchOK
<1> QED
  BY <1>1, <1>4, <1>5, <1>7 DEF Overtaker

-----------------------------------------------------------------------------
(* What is delivered, and in which order.                                  *)

\* ReadAll, LeftAll and OutOfReach, for the changes of the target.
ReadTarget ==
    \A i \in sync.targetLogs : \A j \in DOMAIN log :
        /\ log[j].time < log[i].time /\ ~log[j].synchronized
        /\ log[j].origin = "target" /\ Past(log[j].time, j, sync.from["target"])
        => j \in sync.targetLogs

LeftTarget ==
    sync.side = "source" /\ sync.pc \in {"batch", "mark", "advance"} =>
        \A i \in sync.targetLogs : i \in sync.left \/ log[i].synchronized

PastTarget ==
    \A i \in DOMAIN log : \A j \in DOMAIN log :
        /\ log[i].synchronized /\ log[i].origin = "target"
        /\ log[j].time < log[i].time /\ log[j].record = log[i].record
        /\ log[j].origin = "target" /\ ~log[j].synchronized
        => ~Past(log[j].time, j, Floor("target"))

OneTable == \A i, j \in Members(sync.batch) : log[i].record[1] = log[j].record[1]

OrderInv == ReadTarget /\ LeftTarget /\ PastTarget /\ OneTable

LEMMA OrderInit == Init => OrderInv
  BY NoMembers DEF Init, OrderInv, ReadTarget, LeftTarget, PastTarget, OneTable, Resting

LEMMA OrderStays ==
    ASSUME OrderInv, UNCHANGED <<log, sync, checkpoint>> PROVE OrderInv'
  BY DEF OrderInv, ReadTarget, LeftTarget, PastTarget, OneTable, Floor

LEMMA OrderRests ==
    ASSUME RunInv, OrderInv, sync' = Resting, UNCHANGED <<log, checkpoint>> PROVE OrderInv'
<1>1. PastTarget'
  BY StaysOut DEF OrderInv, PastTarget, Floor, Resting
<1> QED
  BY <1>1, NoMembers DEF OrderInv, ReadTarget, LeftTarget, OneTable, Resting

LEMMA OrderWrites ==
    ASSUME RunInv, OrderInv, NEW side \in Sides, NEW r \in Record, NEW op,
           write(side, r, op)
    PROVE  OrderInv'
<1> DEFINE n == Len(log) + 1
<1>1. Appended(n, r, side)
  BY Writing DEF RunInv
<1>2. UNCHANGED <<sync, checkpoint>>
  BY DEF write
<1>3. /\ sync.sourceLogs \subseteq DOMAIN log /\ sync.targetLogs \subseteq DOMAIN log
      /\ Members(sync.batch) \subseteq DOMAIN log
  BY DEF RunInv, RunOK, LeftOK, Theirs
<1>4. \A i \in DOMAIN log : log[i].time \in Nat /\ clock \in Nat
  BY ChangesAre DEF RunInv, LogOK
<1> HIDE DEF n
<1> USE <1>1, <1>2, <1>3, <1>4 DEF Appended, OrderInv
<1>5. ReadTarget'
  BY DEF ReadTarget
<1>6. LeftTarget'
  BY DEF LeftTarget
<1>7. PastTarget'
  BY DEF PastTarget, Floor
<1>8. OneTable'
  BY DEF OneTable
<1> QED
  BY <1>5, <1>6, <1>7, <1>8

LEMMA OrderBegins ==
    ASSUME RunInv, OrderInv, NEW mode, NEW metadata, begin(mode, metadata) PROVE OrderInv'
<1>1. UNCHANGED <<log, checkpoint>> /\ sync.pc = "idle"
  BY DEF begin
<1>2. PastTarget'
  BY <1>1, BeginMoves DEF OrderInv, PastTarget, Floor
<1> QED
  BY <1>2, BeginMoves, NoMembers DEF OrderInv, ReadTarget, LeftTarget, OneTable

LEMMA OrderTurns ==
    ASSUME RunInv, OrderInv, Turned, UNCHANGED log,
           \/ sync.pc = "resolve" /\ sync'.pc = "plan"
           \/ sync.pc = "batch" /\ sync'.pc \in {"batch", "done"}
           \/ sync.pc \in {"page", "copy"} /\ sync'.pc \in {"page", "copy", "done"}
    PROVE  OrderInv'
<1>1. PastTarget'
  BY DEF Turned, OrderInv, PastTarget, Floor
<1> QED
  BY <1>1 DEF Turned, OrderInv, ReadTarget, LeftTarget, OneTable

LEMMA OrderFindsSource == ASSUME RunInv, OrderInv, findSourceLogs PROVE OrderInv'
<1>1. UNCHANGED log /\ sync.pc = "logs"
  BY DEF findSourceLogs
<1>2. Shape /\ sync.targetLogs = {} /\ sync.batch = <<>>
  BY <1>1 DEF RunInv, ReadOK, LeftOK
<1>3. PastTarget'
  BY <1>1, <1>2, FindSourceMoves DEF OrderInv, PastTarget, Floor
<1> QED
  BY <1>2, <1>3, NoMembers, FindSourceMoves DEF OrderInv, ReadTarget, LeftTarget, OneTable

LEMMA OrderFindsTarget == ASSUME RunInv, OrderInv, findTargetLogs PROVE OrderInv'
<1>1. UNCHANGED log /\ sync.pc = "targetLogs"
  BY DEF findTargetLogs
<1>2. Shape /\ sync.batch = <<>>
  BY <1>1 DEF RunInv, LeftOK
<1>3. PastTarget'
  BY <1>1, <1>2, FindTargetMoves DEF OrderInv, PastTarget, Floor
<1>4. ReadTarget'
  BY <1>1, <1>2, PendingIs, FindTargetMoves DEF ReadTarget
<1> QED
  BY <1>1, <1>2, <1>3, <1>4, NoMembers, FindTargetMoves DEF OrderInv, LeftTarget, OneTable

LEMMA OrderPlans ==
    ASSUME RunInv, OrderInv, NEW side, NEW metadata,
           sync.pc = "plan" \/ sync.pc = "batch",
           plan(Planned(side), side, metadata), UNCHANGED log
    PROVE  OrderInv'
<1>1. Shape /\ sync.batch = <<>> /\ sync.pc # "idle"
  BY DEF RunInv, LeftOK
<1>2. /\ sync'.pc = "batch" /\ sync'.from = sync.from
      /\ sync'.sourceLogs = sync.sourceLogs /\ sync'.targetLogs = sync.targetLogs
      /\ sync'.side = side /\ sync'.left = Planned(side) /\ sync'.batch = <<>>
  BY <1>1, PlanMoves
<1>3. side = "source" => Planned(side) = sync.targetLogs
  BY DEF Planned
<1> HIDE DEF Planned
<1>4. LeftTarget'
  BY <1>2, <1>3 DEF LeftTarget
<1>5. PastTarget'
  BY <1>1, <1>2 DEF OrderInv, PastTarget, Floor
<1> QED
  BY <1>2, <1>4, <1>5, NoMembers DEF OrderInv, ReadTarget, OneTable

LEMMA OrderApplies == ASSUME RunInv, OrderInv, applyChangeBatch PROVE OrderInv'
<1>1. UNCHANGED log /\ sync.pc = "batch" /\ Here # {}
  BY DEF applyChangeBatch
<1>2. Shape
  BY DEF RunInv
<1>3. \A i \in Members(sync'.batch) : log[i].record[1] = Head(sync.tables)
  BY <1>1, <1>2, ApplyMoves, SliceIs DEF Here
<1>4. OneTable'
  BY <1>1, <1>3 DEF OneTable
<1>5. PastTarget'
  BY <1>1, <1>2, ApplyMoves DEF OrderInv, PastTarget, Floor
<1> QED
  BY <1>1, <1>2, <1>4, <1>5, ApplyMoves DEF OrderInv, ReadTarget, LeftTarget

\* What a run may still come upon, before a change of the batch, of its side and its
\* table, is in the batch too.
LEMMA Precedes ==
    ASSUME RunInv, PlanInv, OrderInv, sync.pc \in {"mark", "advance"},
           NEW i \in Members(sync.batch), NEW j \in DOMAIN log,
           log[j].time < log[i].time, ~log[j].synchronized, log[j].origin = log[i].origin,
           Past(log[j].time, j, sync.from[log[j].origin]),
           log[j].record[1] = log[i].record[1]
    PROVE  j \in Members(sync.batch)
<1>1. i \in Theirs /\ sync.side \in {"source", "target"}
  BY ChangesAre DEF RunInv, RunOK, Sides
<1>2. CASE sync.side = "target"
  <2>1. log[i].origin = "source"
    BY <1>1, <1>2 DEF Theirs, RunInv, ReadOK
  <2> QED
    BY <1>2, <2>1, PrecedesSource
<1>3. CASE sync.side = "source"
  <2>1. i \in sync.targetLogs /\ log[i].origin = "target"
    BY <1>1, <1>3 DEF Theirs, RunInv, ReadOK
  <2>2. j \in sync.targetLogs
    BY <2>1 DEF OrderInv, ReadTarget
  <2>3. j \in sync.left
    BY <1>3, <2>2 DEF OrderInv, LeftTarget
  <2> QED
    BY <2>3 DEF PlanInv, BatchOK
<1> QED
  BY <1>1, <1>2, <1>3

LEMMA OrderAdvances == ASSUME RunInv, PlanInv, OrderInv, updateCheckpoint PROVE OrderInv'
<1>1. UNCHANGED log /\ sync.pc = "advance"
  BY DEF updateCheckpoint, Advanced
<1>2. Shape /\ \A i \in Members(sync.batch) : log[i].synchronized
  BY <1>1 DEF RunInv, PlanInv, BatchOK
<1>3. LeftTarget'
  BY <1>1, <1>2, AdvanceMoves DEF OrderInv, LeftTarget
<1>4. PastTarget'
  BY <1>1, <1>2, AdvanceMoves DEF OrderInv, PastTarget, Floor
<1> QED
  BY <1>1, <1>2, <1>3, <1>4, NoMembers, AdvanceMoves DEF OrderInv, ReadTarget, OneTable

LEMMA OrderMarks == ASSUME RunInv, PlanInv, OrderInv, markSynchronized PROVE OrderInv'
<1> DEFINE B == Members(sync.batch)
<1>1. sync.pc = "mark"
  BY DEF markSynchronized
<1>2. /\ DOMAIN log' = DOMAIN log
      /\ \A i \in DOMAIN log :
            /\ log'[i].record = log[i].record /\ log'[i].origin = log[i].origin
            /\ log'[i].time = log[i].time
            /\ log'[i].synchronized <=> log[i].synchronized \/ i \in B
  BY MarkingIs DEF RunInv, LogGrows
<1>3. Shape /\ sync.targetLogs \subseteq DOMAIN log /\ B \subseteq DOMAIN log
  BY <1>1, ChangesAre DEF RunInv, RunOK
<1>4. /\ sync'.pc = "advance" /\ sync'.from = sync.from
      /\ sync'.sourceLogs = sync.sourceLogs /\ sync'.targetLogs = sync.targetLogs
      /\ sync'.side = sync.side /\ sync'.left = sync.left /\ sync'.batch = sync.batch
  BY <1>3, MarkMoves
<1>5. OneTable'
  BY <1>2, <1>3, <1>4 DEF OrderInv, OneTable
<1> HIDE DEF B
<1>6. ReadTarget' /\ LeftTarget'
  BY <1>1, <1>2, <1>3, <1>4 DEF OrderInv, ReadTarget, LeftTarget
<1>7. PastTarget'
  <2> SUFFICES ASSUME NEW i \in DOMAIN log, NEW j \in DOMAIN log,
                      log'[i].synchronized, log[i].origin = "target",
                      log[j].time < log[i].time, log[j].record = log[i].record,
                      log[j].origin = "target", ~log'[j].synchronized
               PROVE  ~Past(log[j].time, j, sync.from["target"])
    BY <1>2, <1>4 DEF PastTarget, Floor
  <2>1. ~log[j].synchronized /\ j \notin B
    BY <1>2
  <2>2. CASE i \in B
    BY <1>1, <2>1, <2>2, Precedes DEF B
  <2>3. CASE log[i].synchronized
    BY <1>1, <2>1, <2>3 DEF OrderInv, PastTarget, Floor
  <2> QED
    BY <1>2, <2>2, <2>3
<1> QED
  BY <1>5, <1>6, <1>7 DEF OrderInv

LEMMA OrderStep == RunInv /\ PlanInv /\ OrderInv /\ [Next]_vars => OrderInv'
<1> SUFFICES ASSUME RunInv, PlanInv, OrderInv, [Next]_vars PROVE OrderInv'
  OBVIOUS
<1>1. CASE UNCHANGED vars
  BY <1>1, OrderStays DEF vars
<1>2. ASSUME NEW side \in Sides, NEW r \in Record, NEW op, write(side, r, op) PROVE OrderInv'
  BY <1>2, OrderWrites
<1>3. ASSUME NEW m, NEW known, begin(m, known) PROVE OrderInv'
  BY <1>3, OrderBegins
<1>4. CASE findSourceLogs \/ findTargetLogs
  BY <1>4, OrderFindsSource, OrderFindsTarget
<1>5. ASSUME NEW m, planSource(m) PROVE OrderInv'
  BY <1>5, OrderPlans DEF planSource, Planned
<1>6. ASSUME NEW m, planTarget(m) PROVE OrderInv'
  <2>1. CASE sync.side = "target" /\ sync.targetLogs # {}
    BY <1>6, <2>1, OrderPlans DEF planTarget, Planned
  <2>2. CASE goto("done")
    BY <1>6, <2>2, OrderTurns, TurnMoves DEF planTarget, RunInv
  <2> QED
    BY <1>6, <2>1, <2>2 DEF planTarget, goto
<1>7. CASE applyChangeBatch \/ markSynchronized \/ updateCheckpoint
  BY <1>7, OrderApplies, OrderMarks, OrderAdvances
<1>8. CASE nextTable \/ full \/ skipTable \/ resolveConflicts
  <2>1. UNCHANGED log
    BY <1>8 DEF nextTable, full, fetchTableRecordsPaginated, applyPage, establishCheckpoint,
                skipTable, resolveConflicts
  <2>2. Turned /\ \/ sync.pc = "resolve" /\ sync'.pc = "plan"
                  \/ sync.pc = "batch" /\ sync'.pc \in {"batch", "done"}
                  \/ sync.pc \in {"page", "copy"} /\ sync'.pc \in {"page", "copy", "done"}
    BY <1>8, TurnMoves DEF nextTable, full, fetchTableRecordsPaginated, applyPage,
                           establishCheckpoint, skipTable, resolveConflicts, RunInv
  <2> QED
    BY <2>1, <2>2, OrderTurns
<1>9. CASE refuse \/ finish \/ fail
  BY <1>9, OrderRests DEF refuse, finish, fail, abandon
<1>10. CASE tick
  BY <1>10, OrderStays DEF tick
<1> QED
  BY <1>1, <1>2, <1>3, <1>4, <1>5, <1>6, <1>7, <1>8, <1>9, <1>10 DEF Next, job, incremental

-----------------------------------------------------------------------------
(* The run implements ChangeDelivery.                                      *)

\* What is shown of a change.
Kept == [row : Record, side : Sides, time : Nat, delete : BOOLEAN]

LEMMA ShownIs ==
    ASSUME LogOK
    PROVE  /\ LogShown \in Seq(Kept) /\ Len(LogShown) = Len(log)
           /\ DOMAIN LogShown = DOMAIN log /\ Len(log) \in Nat /\ DOMAIN log = 1 .. Len(log)
           /\ \A i \in DOMAIN log : /\ LogShown[i].row = log[i].record
                                    /\ LogShown[i].side = log[i].origin
                                    /\ LogShown[i].time = log[i].time
                                    /\ LogShown[i].delete <=> log[i].op = "DELETE"
<1> DEFINE show(i) == [row |-> log[i].record, side |-> log[i].origin, time |-> log[i].time,
                       delete |-> log[i].op = "DELETE"]
<1>1. LogShown = [i \in DOMAIN log |-> show(i)]
  BY DEF LogShown
<1>2. Len(log) \in Nat /\ DOMAIN log = 1 .. Len(log)
  BY DEF LogOK
<1>3. ASSUME NEW i \in DOMAIN log
      PROVE  /\ show(i) \in Kept /\ show(i).row = log[i].record
             /\ show(i).side = log[i].origin /\ show(i).time = log[i].time
             /\ show(i).delete <=> log[i].op = "DELETE"
  <2>1. log[i] \in Change
    BY DEF LogOK
  <2>2. log[i].record \in Record /\ log[i].origin \in Sides /\ log[i].time \in Nat
    BY <2>1 DEF Change
  <2> QED
    BY <2>2 DEF Kept
<1> HIDE DEF show
<1>4. LogShown \in Seq(Kept) /\ Len(LogShown) = Len(log)
  BY <1>1, <1>2, <1>3
<1> QED
  BY <1>1, <1>2, <1>3, <1>4

\* What the operators of ChangeDelivery say of the run.
LEMMA TermsAre ==
    ASSUME RunInv, NEW i \in DOMAIN log, NEW j \in DOMAIN log
    PROVE  /\ Delivery!Behind(i) <=> Past(log[i].time, i, Floor(log[i].origin))
           /\ Delivery!Due(i) <=> ~log[i].synchronized
                                  /\ Past(log[i].time, i, Floor(log[i].origin))
           /\ Delivery!SameRow(i, j) <=> log[i].record = log[j].record
           /\ Delivery!SameSide(i, j) <=> log[i].origin = log[j].origin
           /\ Delivery!SameTable(i, j) <=> log[i].record[1] = log[j].record[1]
           /\ Delivery!Stamp(i) = Stamp(i)
<1>1. LogOK /\ log[i].origin \in Sides
  BY ChangesAre DEF RunInv
<1>2. Delivery!Behind(i) <=> Past(log[i].time, i, Floor(log[i].origin))
  <2>1. [s \in Sides |-> Floor(s)][LogShown[i].side] = Floor(log[i].origin)
    BY <1>1, ShownIs
  <2>2. LogShown[i].time = log[i].time
    BY <1>1, ShownIs
  <2> QED
    BY <2>1, <2>2 DEF Delivery!Behind, Past
<1>3. i \in DOMAIN LogShown \ Marked <=> ~log[i].synchronized
  BY <1>1, ShownIs DEF Marked
<1>4. Delivery!Due(i) <=> ~log[i].synchronized /\ Past(log[i].time, i, Floor(log[i].origin))
  BY <1>2, <1>3 DEF Delivery!Due
<1>5. Delivery!Stamp(i) = Stamp(i)
  BY <1>1, ShownIs DEF Delivery!Stamp, Stamp
<1> QED
  BY <1>1, <1>2, <1>4, <1>5, ShownIs
  DEF Delivery!SameRow, Delivery!SameSide, Delivery!SameTable

LEMMA TakenInTurn ==
    ASSUME RunInv, PlanInv, OrderInv, sync.pc \in {"mark", "advance"},
           NEW i \in Members(sync.batch),
           NEW B, \A k \in Members(sync.batch) : k \in B \/ log[k].synchronized
    PROVE  Delivery!InTurn(i, B)
<1>1. i \in DOMAIN log /\ DOMAIN LogShown = DOMAIN log
  BY ShownIs, ChangesAre DEF RunInv
<1>2. ASSUME NEW k \in DOMAIN log, Delivery!Due(k), k \notin B,
             Delivery!SameTable(k, i), Delivery!SameSide(k, i)
      PROVE  log[k].time >= log[i].time
  <2>1. /\ ~log[k].synchronized /\ Past(log[k].time, k, sync.from[log[k].origin])
        /\ log[k].origin = log[i].origin /\ log[k].record[1] = log[i].record[1]
    BY <1>1, <1>2, TermsAre DEF Floor
  <2>2. k \notin Members(sync.batch)
    BY <1>2, <2>1
  <2>3. ~(log[k].time < log[i].time)
    BY <1>1, <1>2, <2>1, <2>2, Precedes
  <2> QED
    BY <1>1, <1>2, <2>3, ChangesAre
<1> QED
  BY <1>1, <1>2, ShownIs DEF Delivery!InTurn, RunInv

\* A step that nobody sees who knows the log, its marks and the checkpoints.
LEMMA Unseen ==
    ASSUME UNCHANGED <<log, clock, checkpoint>>, \A s \in Sides : Floor(s)' = Floor(s)
    PROVE  UNCHANGED Delivery!vars
<1>1. LogShown' = LogShown /\ Marked' = Marked
  BY DEF LogShown, Marked
<1>2. [s \in Sides |-> Floor(s)]' = [s \in Sides |-> Floor(s)]
  OBVIOUS
<1> QED
  BY <1>1, <1>2 DEF Delivery!vars

LEMMA WriteCaptures ==
    ASSUME RunInv, NEW side \in Sides, NEW r \in Record, NEW op, write(side, r, op)
    PROVE  Delivery!Next
<1> DEFINE n == Len(log) + 1
<1>1. Appended(n, r, side) /\ LogOK /\ LogOK'
  BY Writing DEF RunInv
<1>2. UNCHANGED <<sync, clock, checkpoint>>
  BY DEF write
<1>9. PICK d \in BOOLEAN : d <=> log'[n].op = "DELETE"
  OBVIOUS
<1>3. PICK c : c = [row |-> r, side |-> side, time |-> clock, delete |-> d]
  OBVIOUS
<1>4. c \in Kept
  BY <1>1, <1>3 DEF Kept, LogOK
<1> HIDE DEF n
<1>5. LogShown' = Append(LogShown, c)
  <2>1. /\ LogShown' = [i \in DOMAIN log' |->
                           [row |-> log'[i].record, side |-> log'[i].origin,
                            time |-> log'[i].time, delete |-> log'[i].op = "DELETE"]]
        /\ LogShown = [i \in DOMAIN log |->
                          [row |-> log[i].record, side |-> log[i].origin,
                           time |-> log[i].time, delete |-> log[i].op = "DELETE"]]
    BY DEF LogShown
  <2>0. (log'[n].op = "DELETE") = d
    BY <1>9
  <2>2. LogShown'[n] = c /\ \A i \in DOMAIN log : LogShown'[i] = LogShown[i]
    BY <1>1, <1>3, <2>0, <2>1 DEF Appended
  <2>3. Len(log) \in Nat /\ n = Len(log) + 1 /\ DOMAIN log = 1 .. Len(log)
    BY <1>1, ShownIs DEF Appended
  <2>4. DOMAIN log' = 1 .. n
    BY <1>1, <2>3 DEF Appended
  <2>5. LogShown \in Seq(Kept) /\ Len(LogShown) = Len(log) /\ c \in Kept
    BY <1>1, <1>4, ShownIs
  <2> DEFINE K == Kept
  <2> HIDE DEF K
  <2>6. /\ DOMAIN Append(LogShown, c) = 1 .. n /\ Append(LogShown, c)[n] = c
        /\ \A i \in 1 .. Len(log) : Append(LogShown, c)[i] = LogShown[i]
    BY <2>3, <2>5, AppendProperties
  <2>7. Append(LogShown, c) = [i \in 1 .. n |-> Append(LogShown, c)[i]]
    <3>1. Append(LogShown, c) \in Seq(K) /\ Len(Append(LogShown, c)) = n
      BY <2>3, <2>5, AppendProperties DEF K
    <3>2. ASSUME NEW q \in Seq(K), Len(q) = n PROVE q = [i \in 1 .. n |-> q[i]]
      BY <3>2
    <3> QED
      BY <3>1, <3>2
  <2>8. LogShown' = [i \in 1 .. n |-> LogShown'[i]]
    BY <2>1, <2>4
  <2>9. \A i \in 1 .. n : LogShown'[i] = Append(LogShown, c)[i]
    BY <2>2, <2>3, <2>6
  <2> QED
    BY <2>7, <2>8, <2>9
<1>6. Marked' = Marked
  BY <1>1 DEF Marked, Appended
<1>7. [s \in Sides |-> Floor(s)]' = [s \in Sides |-> Floor(s)]
  BY <1>2 DEF Floor
<1>8. Delivery!Capture(r, side, d)
  BY <1>2, <1>3, <1>5, <1>6, <1>7 DEF Delivery!Capture
<1> QED
  BY <1>8 DEF Delivery!Next

LEMMA TickTicks == ASSUME tick PROVE Delivery!Next
<1>1. UNCHANGED <<log, sync, checkpoint>> /\ clock' = clock + 1
  BY DEF tick
<1>2. LogShown' = LogShown /\ Marked' = Marked
  BY <1>1 DEF LogShown, Marked
<1>3. [s \in Sides |-> Floor(s)]' = [s \in Sides |-> Floor(s)]
  BY <1>1 DEF Floor
<1> QED
  BY <1>1, <1>2, <1>3 DEF Delivery!Tick, Delivery!Next

LEMMA MarkDelivers ==
    ASSUME RunInv, PlanInv, OrderInv, markSynchronized PROVE Delivery!Next
<1> DEFINE B == Members(sync.batch)
<1>1. sync.pc = "mark" /\ UNCHANGED <<clock, checkpoint>>
  BY DEF markSynchronized
<1>2. /\ DOMAIN log' = DOMAIN log
      /\ \A i \in DOMAIN log :
            /\ log'[i].record = log[i].record /\ log'[i].origin = log[i].origin
            /\ log'[i].op = log[i].op /\ log'[i].time = log[i].time
            /\ log'[i].synchronized <=> log[i].synchronized \/ i \in B
  BY MarkingIs DEF RunInv, LogGrows
<1>3. /\ B \subseteq sync.left /\ B \subseteq Theirs
      /\ B \subseteq DOMAIN log /\ DOMAIN LogShown = DOMAIN log
  BY <1>1, ShownIs, ChangesAre DEF RunInv
<1>10. B # {}
  <2>1. sync.batch # <<>>
    BY <1>1 DEF RunInv, LeftOK
  <2> QED
    BY <2>1, LastIs
<1>4. LogShown' = LogShown
  BY <1>2 DEF LogShown
<1>5. Marked' = Marked \cup B
  BY <1>2, <1>3 DEF Marked
<1>6. [s \in Sides |-> Floor(s)]' = [s \in Sides |-> Floor(s)]
  BY <1>1, MarkMoves DEF RunInv, Floor
<1>7. ASSUME NEW i \in B
      PROVE  /\ Delivery!Due(i) /\ ~LogShown[i].delete /\ Delivery!InTurn(i, B)
             /\ \A j \in B : Delivery!SameTable(i, j) /\ Delivery!SameSide(i, j)
             /\ \A j \in Marked : Delivery!SameRow(i, j) /\ Delivery!SameSide(i, j)
                    => LogShown[j].time <= LogShown[i].time
  <2>1. i \in DOMAIN log /\ i \in Nat /\ log[i].origin \in {"source", "target"}
    BY <1>3, ChangesAre
  <2>2. ~log[i].synchronized
    BY <1>1, <1>3 DEF PlanInv, UnmarkedOK
  <2>3. Past(log[i].time, i, sync.from[log[i].origin])
    BY <1>3 DEF RunInv, ReadOK, Theirs
  <2>4. Delivery!Due(i)
    BY <1>1, <2>1, <2>2, <2>3, TermsAre DEF Floor
  <2>5. ~LogShown[i].delete
    BY <2>1, ShownIs DEF PlanInv, BatchOK, RunInv
  <2>6. Delivery!InTurn(i, B)
    BY <1>1, TakenInTurn
  <2>7. ASSUME NEW j \in B PROVE Delivery!SameTable(i, j) /\ Delivery!SameSide(i, j)
    <3>1. log[i].origin = log[j].origin
      BY <1>3 DEF RunInv, ReadOK, Theirs
    <3>2. log[i].record[1] = log[j].record[1]
      BY DEF OrderInv, OneTable
    <3> QED
      BY <1>3, <3>1, <3>2, TermsAre
  <2>8. ASSUME NEW j \in Marked, Delivery!SameRow(i, j), Delivery!SameSide(i, j)
        PROVE  LogShown[j].time <= LogShown[i].time
    <3>1. j \in DOMAIN log /\ log[j].synchronized /\ j # i
      BY <2>2 DEF Marked
    <3>2. log[i].record = log[j].record /\ log[i].origin = log[j].origin
      BY <2>1, <2>8, <3>1, TermsAre
    <3>3. ~(log[i].time < log[j].time)
      BY <1>1, <2>1, <2>2, <2>3, <3>1, <3>2
         DEF PlanInv, OutOfReach, OrderInv, PastTarget, Floor
    <3> QED
      BY <2>1, <3>1, <3>3, ChangesAre, ShownIs DEF RunInv
  <2> QED
    BY <2>4, <2>5, <2>6, <2>7, <2>8
<1>8. Delivery!Deliver(B)
  <2> HIDE DEF B
  <2> QED
    BY <1>1, <1>3, <1>4, <1>5, <1>6, <1>7, <1>10 DEF Delivery!Deliver
<1>9. B \in SUBSET DOMAIN LogShown
  BY <1>3
<1> QED
  BY <1>8, <1>9 DEF Delivery!Next

LEMMA CheckpointAdvances ==
    ASSUME RunInv, PlanInv, OrderInv, updateCheckpoint PROVE Delivery!Next
<1>1. /\ log' = log /\ clock' = clock /\ sync.pc = "advance" /\ sync.batch # <<>>
      /\ checkpoint' = [checkpoint EXCEPT ![Origin] = Stamp(LastOf)]
  BY DEF updateCheckpoint, Advanced, LastOf, RunInv, LeftOK
<1>2. PICK n : n = LastOf
  OBVIOUS
<1>3. /\ n \in Members(sync.batch) /\ n \in DOMAIN log
      /\ log[n].origin = Origin /\ Origin \in Sides
      /\ Past(log[n].time, n, sync.from[Origin])
  BY <1>1, <1>2, LastIs
<1>4. log[n].synchronized /\ \A k \in Members(sync.batch) : log[k].synchronized
  BY <1>1, <1>3 DEF PlanInv, BatchOK
<1>6. Delivery!InTurn(n, {})
  BY <1>1, <1>3, <1>4, TakenInTurn
<1>7. n \in Marked /\ LogShown[n].side = Origin /\ Delivery!Stamp(n) = Stamp(n)
  BY <1>3, <1>4, ShownIs, TermsAre DEF Marked, RunInv
<1>5. Delivery!Behind(n)
  BY <1>1, <1>3, TermsAre DEF Floor
<1>8. [s \in Sides |-> Floor(s)]' = [s \in Sides |-> Floor(s)]
  BY <1>1, AdvanceMoves DEF RunInv, Floor
<1>9. LogShown' = LogShown /\ Marked' = Marked
  BY <1>1 DEF LogShown, Marked
<1>10. Delivery!Advance(n)
  BY <1>1, <1>2, <1>5, <1>6, <1>7, <1>8, <1>9 DEF Delivery!Advance
<1> QED
  BY <1>7, <1>10 DEF Delivery!Next

LEMMA CopyEstablishes == ASSUME RunInv, establishCheckpoint PROVE Delivery!Next
<1>1. /\ log' = log /\ clock' = clock /\ sync.pc = "page"
      /\ checkpoint' = [checkpoint EXCEPT !["source"] = [time |-> clock, id |-> 0]]
  BY DEF establishCheckpoint
<1>2. sync'.pc = "done" /\ sync'.from = sync.from
  BY TurnMoves DEF establishCheckpoint, Turned, RunInv
<1>3. [s \in Sides |-> Floor(s)]' = [s \in Sides |-> Floor(s)]
  BY <1>1, <1>2 DEF Floor
<1>4. LogShown' = LogShown /\ Marked' = Marked
  BY <1>1 DEF LogShown, Marked
<1>5. Delivery!Establish("source")
  BY <1>1, <1>3, <1>4 DEF Delivery!Establish
<1> QED
  BY <1>5 DEF Delivery!Next, Sides

LEMMA RunRests ==
    ASSUME RunInv, sync' = Resting, UNCHANGED <<log, clock, checkpoint>> PROVE Delivery!Next
<1>1. checkpoint = [s \in Sides |-> checkpoint[s]]
  BY DEF RunInv, RunOK
<1>2. [s \in Sides |-> Floor(s)]' = checkpoint
  BY <1>1 DEF Floor, Resting
<1>3. LogShown' = LogShown /\ Marked' = Marked
  BY DEF LogShown, Marked
<1>4. Delivery!Rest
  BY <1>2, <1>3 DEF Delivery!Rest
<1> QED
  BY <1>4 DEF Delivery!Next

LEMMA StepDelivers ==
    RunInv /\ PlanInv /\ OrderInv /\ [Next]_vars => [Delivery!Next]_(Delivery!vars)
<1> SUFFICES ASSUME RunInv, PlanInv, OrderInv, [Next]_vars
             PROVE  [Delivery!Next]_(Delivery!vars)
  OBVIOUS
<1>0. Shape /\ RunOK
  BY DEF RunInv
<1>1. CASE UNCHANGED vars
  BY <1>1, Unseen DEF vars, Floor
<1>2. ASSUME NEW side \in Sides, NEW r \in Record, NEW op, write(side, r, op)
      PROVE  Delivery!Next
  BY <1>2, WriteCaptures
<1>3. ASSUME NEW m, NEW known, begin(m, known) PROVE UNCHANGED Delivery!vars
  <2>1. UNCHANGED <<log, clock, checkpoint>> /\ sync.pc = "idle"
    BY <1>3 DEF begin
  <2>2. \A s \in Sides : Floor(s)' = Floor(s)
    BY <1>3, <2>1, BeginMoves DEF Floor
  <2> QED
    BY <2>1, <2>2, Unseen
<1>4. CASE findSourceLogs \/ findTargetLogs \/ resolveConflicts \/ applyChangeBatch
  <2>1. UNCHANGED <<log, clock, checkpoint>> /\ sync.pc # "idle"
    BY <1>4 DEF findSourceLogs, findTargetLogs, resolveConflicts, applyChangeBatch
  <2>2. sync'.pc # "idle" /\ sync'.from = sync.from
    <3>1. resolveConflicts => sync'.pc = "plan" /\ sync'.from = sync.from
      BY <1>0, TurnMoves DEF resolveConflicts, Turned
    <3> QED
      BY <1>0, <1>4, <3>1, FindSourceMoves, FindTargetMoves, ApplyMoves
  <2> QED
    BY <2>1, <2>2, Unseen DEF Floor
<1>5. ASSUME NEW m, planSource(m) \/ planTarget(m) PROVE UNCHANGED Delivery!vars
  <2>1. UNCHANGED <<log, clock, checkpoint>> /\ sync.pc # "idle"
    BY <1>5 DEF planSource, planTarget
  <2>2. sync'.pc # "idle" /\ sync'.from = sync.from
    <3>1. CASE planSource(m)
      BY <1>0, <3>1, PlanMoves DEF planSource, Planned
    <3>2. CASE planTarget(m) /\ sync.side = "target" /\ sync.targetLogs # {}
      BY <1>0, <3>2, PlanMoves DEF planTarget, Planned
    <3>3. CASE goto("done")
      BY <1>0, <3>3, TurnMoves DEF Turned
    <3> QED
      BY <1>5, <3>1, <3>2, <3>3 DEF planTarget, goto
  <2> QED
    BY <2>1, <2>2, Unseen DEF Floor
<1>6. CASE nextTable \/ fetchTableRecordsPaginated \/ applyPage \/ skipTable
  <2>1. UNCHANGED <<log, clock, checkpoint>> /\ sync.pc # "idle"
    BY <1>6 DEF nextTable, fetchTableRecordsPaginated, applyPage, skipTable
  <2>2. sync'.pc # "idle" /\ sync'.from = sync.from
    BY <1>0, <1>6, TurnMoves DEF Turned
  <2> QED
    BY <2>1, <2>2, Unseen DEF Floor
<1>7. CASE markSynchronized \/ updateCheckpoint \/ establishCheckpoint
  BY <1>7, MarkDelivers, CheckpointAdvances, CopyEstablishes
<1>8. CASE refuse \/ finish \/ fail
  BY <1>8, RunRests DEF refuse, finish, fail, abandon
<1>9. CASE tick
  BY <1>9, TickTicks
<1> QED
  BY <1>1, <1>2, <1>3, <1>4, <1>5, <1>6, <1>7, <1>8, <1>9 DEF Next, job, incremental, full

LEMMA InitDelivers == Init => Delivery!Init
<1> SUFFICES ASSUME Init PROVE Delivery!Init
  OBVIOUS
<1>1. /\ log = <<>> /\ sync.pc = "idle" /\ clock = 0
      /\ checkpoint = [s \in Sides |-> [time |-> 0, id |-> 0]]
  BY DEF Init, Resting, Null
<1>2. LogShown = <<>> /\ Marked = {}
  BY <1>1 DEF LogShown, Marked
<1>3. [s \in Sides |-> Floor(s)] = checkpoint
  BY <1>1 DEF Floor
<1> QED
  BY <1>1, <1>2, <1>3 DEF Delivery!Init

-----------------------------------------------------------------------------
(* What is in the databases.                                               *)

\* The records of captured deletes.
Gone == {log[i].record : i \in {j \in DOMAIN log : log[j].op = "DELETE"}}

DataTypes == source \in [Record -> Nat] /\ target \in [Record -> Nat]

Versions == \A i \in DOMAIN log : log[i].op # "DELETE" => log[i].version = i

\* A row's version is a change of the row.
Origins(db) ==
    \A r \in Record : db[r] # 0 => db[r] \in DOMAIN log /\ log[db[r]].record = r

\* The first change of a record is no update.
UpdatesFollow ==
    \A i \in DOMAIN log : log[i].op = "UPDATE" =>
        \E j \in DOMAIN log : j < i /\ log[j].record = log[i].record

\* The side that has written a row has it.
TargetKnows ==
    \A i \in DOMAIN log :
        log[i].origin = "target" /\ log[i].record \notin Gone => target[log[i].record] # 0

SourceLeads ==
    config.direction = "ONE_WAY" =>
        \A i \in DOMAIN log : log[i].record \notin Gone => source[log[i].record] >= i

\* A page that was read one way is no older than what was marked before.
PageOK ==
    /\ sync.pc \in {"page", "copy"} => "full" \in config.modes
    /\ sync.pc = "copy" => \A e \in sync.page :
          /\ e[1] \in Record /\ e[2] \in DOMAIN log /\ log[e[2]].record = e[1]
          /\ config.direction = "ONE_WAY" => \A i \in DOMAIN log :
                log[i].record = e[1] /\ log[i].synchronized /\ e[1] \notin Gone => e[2] >= i

Excused == config.direction = "BIDIRECTIONAL" /\ "full" \in config.modes

\* Another change of the record has its time.
Crowded(i) ==
    \E j \in DOMAIN log : j # i /\ log[j].record = log[i].record /\ log[j].time = log[i].time

\* A change is in the target, or an earlier one of its record never came there.
Reached(i) ==
    \/ target[log[i].record] >= i
    \/ \E j \in DOMAIN log : /\ j < i /\ log[j].record = log[i].record
                             /\ ~log[j].synchronized /\ j \notin Members(sync.batch)

Done(i) == log[i].synchronized \/ (sync.pc = "mark" /\ i \in Members(sync.batch))

\* An insert of the source that was delivered has left a row.
Present ==
    \A i \in DOMAIN log :
        /\ log[i].origin = "source" /\ log[i].op = "INSERT"
        /\ log[i].record \notin Gone /\ Done(i)
        => target[log[i].record] # 0

AppliedOK ==
    ~Excused => \A i \in DOMAIN log :
        /\ log[i].origin = "source" /\ log[i].record \notin Gone /\ Done(i)
        => Reached(i) \/ Crowded(i)

DataInv == /\ DataTypes /\ Versions /\ Origins(source) /\ Origins(target) /\ UpdatesFollow
           /\ TargetKnows /\ SourceLeads /\ PageOK /\ Present /\ AppliedOK

LEMMA DataInit == Init => DataInv
  BY DEF Init, DataInv, DataTypes, Versions, Origins, UpdatesFollow, TargetKnows, SourceLeads,
         PageOK, Present, AppliedOK, Resting

\* A step that writes neither database and neither reads a page nor begins to mark.
LEMMA DataStays ==
    ASSUME DataInv, UNCHANGED <<data, log, config>>,
           sync'.pc # "mark" \/ sync' = sync,
           Members(sync'.batch) \subseteq Members(sync.batch),
           \/ sync'.pc \notin {"page", "copy"}
           \/ sync'.pc = "page" /\ "full" \in config.modes
           \/ sync' = sync
    PROVE  DataInv'
<1> USE DEF DataInv
<1>1. /\ DataTypes' /\ Versions' /\ Origins(source)' /\ Origins(target)' /\ UpdatesFollow'
      /\ TargetKnows' /\ SourceLeads'
  BY DEF data, DataTypes, Versions, Origins, UpdatesFollow, TargetKnows, SourceLeads, Gone
<1>2. PageOK'
  BY DEF PageOK, Gone
<1>3. \A i : Done(i)' => Done(i)
  BY DEF Done
<1>4. Present'
  BY <1>3 DEF Present, Gone, data
<1>5. AppliedOK'
  <2> SUFFICES ASSUME ~Excused, NEW i \in DOMAIN log, log[i].origin = "source",
                      log[i].record \notin Gone, Done(i)'
               PROVE  Reached(i)' \/ Crowded(i)'
    BY DEF AppliedOK, Excused, Gone
  <2>1. Reached(i) \/ Crowded(i)
    BY <1>3 DEF AppliedOK
  <2> QED
    BY <2>1 DEF Reached, Crowded, data
<1> QED
  BY <1>1, <1>2, <1>4, <1>5

LEMMA DataWrites ==
    ASSUME RunInv, DataInv, NEW side \in Sides, NEW r \in Record, NEW op \in Ops,
           write(side, r, op)
    PROVE  DataInv'
<1> DEFINE n == Len(log) + 1
<1> USE DEF DataInv
<1>1. Appended(n, r, side)
  BY Writing DEF RunInv
<1>2. UNCHANGED <<sync, config>> /\ (side = "target" => config.direction = "BIDIRECTIONAL")
  BY DEF write
<1>3. /\ op \in {"upsert", "delete"}
      /\ side = "source" => source' = Written(source, r, op) /\ target' = target
      /\ side = "target" => target' = Written(target, r, op) /\ source' = source
  BY OpsAssumption DEF write, Sides
<1>4. /\ (op = "delete") <=> (log'[n].op = "DELETE")
      /\ log'[n].op = "UPDATE" => (IF side = "source" THEN source[r] ELSE target[r]) # 0
  <2> DEFINE old == IF side = "source" THEN source[r] ELSE target[r]
             o == IF op = "delete" THEN "DELETE" ELSE IF old = 0 THEN "INSERT" ELSE "UPDATE"
             e == [record |-> r, origin |-> side, synchronized |-> FALSE, op |-> o,
                   time |-> clock, version |-> IF op = "delete" THEN 0 ELSE Len(log) + 1]
  <2>1. log' = Append(log, e)
    BY DEF write
  <2>2. e.op = o
    OBVIOUS
  <2> HIDE DEF e
  <2>3. log'[n] = e
    BY <2>1 DEF RunInv, LogOK
  <2> QED
    BY <2>2, <2>3
<1>5. /\ Written(source, r, op) \in [Record -> Nat] /\ Written(target, r, op) \in [Record -> Nat]
      /\ \A q \in Record : q # r => /\ Written(source, r, op)[q] = source[q]
                                    /\ Written(target, r, op)[q] = target[q]
      /\ \A x \in {Written(source, r, op)[r], Written(target, r, op)[r]} :
            x = IF op = "upsert" THEN n ELSE 0
  BY <1>1 DEF Written, DataTypes, Appended
<1> HIDE DEF n
<1>6. DataTypes'
  BY <1>3, <1>5 DEF DataTypes, Sides
<1>7. Versions'
  BY <1>1 DEF Versions, Appended
<1>8. /\ Origins(source) /\ Origins(target)
      /\ \A q \in Record : source'[q] \in {source[q], n, 0} /\ target'[q] \in {target[q], n, 0}
      /\ \A q \in Record : source'[q] = n \/ target'[q] = n => q = r \/ n \in DOMAIN log
  BY <1>1, <1>3, <1>5 DEF Sides, Appended, Origins
<1>9. Origins(source)' /\ Origins(target)'
  BY <1>1, <1>8 DEF Origins, Appended
<1>10. UpdatesFollow'
  <2>1. ASSUME log'[n].op = "UPDATE"
        PROVE  \E j \in DOMAIN log : j < n /\ log[j].record = r
    BY <1>1, <1>4, <2>1 DEF Appended, Origins, Sides
  <2> QED
    BY <1>1, <2>1 DEF UpdatesFollow, Appended
<1>11. Gone \subseteq Gone' /\ (r \notin Gone' => op = "upsert")
  BY <1>1, <1>3, <1>4 DEF Gone, Appended
<1>12. \A i \in DOMAIN log : log[i].record \in Record /\ i \in Nat
  BY ChangesAre
<1>13. TargetKnows'
  <2> SUFFICES ASSUME NEW i \in DOMAIN log', log'[i].origin = "target",
                      log'[i].record \notin Gone'
               PROVE  target'[log'[i].record] # 0
    BY DEF TargetKnows
  <2>1. CASE i = n
    BY <1>1, <1>3, <1>5, <1>11, <2>1 DEF Appended
  <2>2. CASE i \in DOMAIN log
    <3>1. target[log[i].record] # 0 /\ log'[i] = log[i] /\ n # 0
      BY <1>1, <1>11, <2>2 DEF TargetKnows, Appended
    <3> QED
      BY <1>3, <1>5, <1>11, <1>12, <2>2, <3>1 DEF Sides
  <2> QED
    BY <1>1, <2>1, <2>2 DEF Appended
<1>14. SourceLeads'
  <2> SUFFICES ASSUME config.direction = "ONE_WAY", NEW i \in DOMAIN log',
                      log'[i].record \notin Gone'
               PROVE  source'[log'[i].record] >= i
    BY <1>2 DEF SourceLeads
  <2>0. side = "source"
    BY <1>2 DEF Sides
  <2>1. CASE i = n
    BY <1>1, <1>3, <1>5, <1>11, <2>0, <2>1 DEF Appended
  <2>2. CASE i \in DOMAIN log
    <3>1. source[log[i].record] >= i /\ log'[i] = log[i] /\ n >= i /\ n \in Nat
      BY <1>1, <1>11, <1>12, <2>2 DEF SourceLeads, Appended
    <3> QED
      BY <1>3, <1>5, <1>11, <1>12, <2>0, <2>2, <3>1
  <2> QED
    BY <1>1, <2>1, <2>2 DEF Appended
<1>15. PageOK'
  <2>1. /\ \A i \in DOMAIN log : log'[i] = log[i] /\ i \in DOMAIN log'
        /\ \A i \in DOMAIN log' : log'[i].synchronized => i \in DOMAIN log
    BY <1>1 DEF Appended
  <2> QED
    BY <1>2, <1>11, <2>1 DEF PageOK
<1>16. ASSUME NEW i \in DOMAIN log', log'[i].record \notin Gone', Done(i)'
       PROVE  /\ i \in DOMAIN log /\ log'[i] = log[i] /\ Done(i) /\ log[i].record \notin Gone
              /\ target'[log[i].record] \in {target[log[i].record], n}
              /\ n \in Nat /\ n > i /\ i \in Nat
  <2>1. Members(sync.batch) \subseteq DOMAIN log
    BY ChangesAre
  <2>2. i \in DOMAIN log /\ log'[i] = log[i] /\ Done(i) /\ n \notin DOMAIN log
    BY <1>1, <1>2, <1>16, <2>1 DEF Done, Appended
  <2> QED
    BY <1>1, <1>3, <1>5, <1>11, <1>12, <1>16, <2>2 DEF Sides, Appended
<1>17. Present'
  BY <1>1, <1>16 DEF Present, Appended
<1>18. AppliedOK'
  <2> SUFFICES ASSUME ~Excused, NEW i \in DOMAIN log', log'[i].origin = "source",
                      log'[i].record \notin Gone', Done(i)'
               PROVE  Reached(i)' \/ Crowded(i)'
    BY <1>2 DEF AppliedOK, Excused
  <2>1. Reached(i) \/ Crowded(i)
    BY <1>16 DEF AppliedOK
  <2>2. CASE target[log[i].record] >= i
    BY <1>16, <2>2 DEF Reached
  <2>3. CASE \E j \in DOMAIN log : /\ j < i /\ log[j].record = log[i].record
                                   /\ ~log[j].synchronized /\ j \notin Members(sync.batch)
    BY <1>1, <1>2, <1>16, <2>3 DEF Reached, Appended
  <2>4. CASE Crowded(i)
    BY <1>1, <1>16, <2>4 DEF Crowded, Appended
  <2> QED
    BY <2>1, <2>2, <2>3, <2>4 DEF Reached
<1> QED
  BY <1>6, <1>7, <1>9, <1>10, <1>13, <1>14, <1>15, <1>17, <1>18

\* The page is read from a source that is ahead of whatever was marked.
LEMMA DataFetches ==
    ASSUME RunInv, PlanInv, DataInv, fetchTableRecordsPaginated PROVE DataInv'
<1> USE DEF DataInv
<1>1. UNCHANGED <<data, log, config>> /\ sync.pc = "page" /\ Shape
  BY DEF fetchTableRecordsPaginated, RunInv
<1> DEFINE taken(size, page) ==
              [sync EXCEPT !.pc = IF size = 0 THEN "page" ELSE "copy",
                           !.page = {<<r, source[r]>> : r \in page},
                           !.read = sync.read \cup {i \in DOMAIN log : log[i].record \in page},
                           !.offset = IF size < PageSize THEN 0 ELSE sync.offset + size,
                           !.tables = IF size < PageSize THEN Tail(sync.tables)
                                                         ELSE sync.tables]
<1>2. PICK size : \E page \in kSubset(size, Rows(Head(sync.tables))) :
                      sync' = taken(size, page)
  BY DEF fetchTableRecordsPaginated
<1>3. PICK page \in kSubset(size, Rows(Head(sync.tables))) : sync' = taken(size, page)
  BY <1>2
<1>4. /\ sync'.pc \in {"page", "copy"} /\ sync'.page = {<<r, source[r]>> : r \in page}
      /\ sync'.batch = sync.batch
  BY <1>1, <1>3 DEF Shape, Fields
<1>5. ASSUME NEW r \in page
      PROVE  /\ r \in Record /\ source[r] \in DOMAIN log /\ log[source[r]].record = r
             /\ config.direction = "ONE_WAY" => \A i \in DOMAIN log :
                   log[i].record = r /\ r \notin Gone => source[r] >= i
  <2>1. r \in Record /\ source[r] # 0
    BY DEF kSubset, Rows
  <2> QED
    BY <2>1 DEF Origins, SourceLeads
<1>6. PageOK'
  BY <1>1, <1>4, <1>5 DEF PageOK, Gone
<1>7. /\ DataTypes' /\ Versions' /\ Origins(source)' /\ Origins(target)' /\ UpdatesFollow'
      /\ TargetKnows' /\ SourceLeads'
  BY <1>1 DEF data, DataTypes, Versions, Origins, UpdatesFollow, TargetKnows, SourceLeads, Gone
<1>8. AppliedOK' /\ Present'
  BY <1>1, <1>4 DEF AppliedOK, Present, Excused, Gone, Done, Reached, Crowded, data
<1> QED
  BY <1>6, <1>7, <1>8

\* A page is written as it was read.
LEMMA DataCopies == ASSUME RunInv, PlanInv, DataInv, applyPage PROVE DataInv'
<1> USE DEF DataInv
<1>1. /\ UNCHANGED <<source, log, config>> /\ sync.pc = "copy" /\ Shape
      /\ sync.batch = <<>> /\ "full" \in config.modes
  BY DEF applyPage, RunInv, LeftOK, PageOK
<1>2. PICK batch \in SUBSET sync.page :
         /\ target' = [r \in Record |->
                          IF \E e \in batch : e[1] = r
                          THEN (CHOOSE e \in batch : e[1] = r)[2] ELSE target[r]]
         /\ sync' = [sync EXCEPT !.page = sync.page \ batch,
                                 !.pc = IF sync.page = batch THEN "page" ELSE "copy"]
  BY DEF applyPage, kSubset
<1>3. /\ sync'.pc \in {"page", "copy"} /\ sync'.page \subseteq sync.page
      /\ sync'.batch = sync.batch
  BY <1>1, <1>2 DEF Shape, Fields
<1>4. \A i \in DOMAIN log : log[i].record \in Record /\ i \in Nat /\ i # 0
  BY ChangesAre DEF RunInv, LogOK
<1>5. ASSUME NEW r \in Record
      PROVE  \/ target'[r] = target[r]
             \/ /\ target'[r] \in DOMAIN log /\ log[target'[r]].record = r
                /\ config.direction = "ONE_WAY" => \A i \in DOMAIN log :
                      log[i].record = r /\ log[i].synchronized /\ r \notin Gone
                          => target'[r] >= i
  <2>1. CASE \E e \in batch : e[1] = r
    <3>1. PICK e \in batch : e[1] = r /\ target'[r] = e[2]
      BY <1>2, <2>1
    <3> QED
      BY <1>1, <1>2, <3>1 DEF PageOK
  <2>2. CASE ~\E e \in batch : e[1] = r
    BY <1>2, <2>2
  <2> QED
    BY <2>1, <2>2
<1>6. DataTypes'
  <2>1. \A r \in Record : target'[r] \in Nat
    BY <1>4, <1>5 DEF DataTypes
  <2> QED
    BY <1>1, <1>2, <2>1 DEF DataTypes
<1>7. Origins(source)' /\ Origins(target)'
  BY <1>1, <1>5 DEF Origins
<1>8. TargetKnows'
  BY <1>1, <1>4, <1>5 DEF TargetKnows, Gone
<1>9. PageOK'
  BY <1>1, <1>3 DEF PageOK, Gone
<1>10. \A i : Done(i)' => Done(i) /\ log[i].synchronized
  BY <1>1, <1>3, NoMembers DEF Done
<1>11. Present'
  BY <1>1, <1>4, <1>5, <1>10 DEF Present, Gone
<1>12. AppliedOK'
  <2> SUFFICES ASSUME ~Excused, NEW i \in DOMAIN log, log[i].origin = "source",
                      log[i].record \notin Gone, Done(i)'
               PROVE  Reached(i)' \/ Crowded(i)'
    BY <1>1 DEF AppliedOK, Excused, Gone
  <2>1. log[i].synchronized /\ Done(i) /\ config.direction = "ONE_WAY"
    BY <1>1, <1>10, ChangesAre DEF Excused
  <2>2. Reached(i) \/ Crowded(i)
    BY <2>1 DEF AppliedOK
  <2>3. Crowded(i) => Crowded(i)'
    BY <1>1 DEF Crowded
  <2>4. Reached(i) => Reached(i)'
    BY <1>1, <1>3, <1>4, <1>5, <2>1 DEF Reached
  <2> QED
    BY <2>2, <2>3, <2>4
<1> QED
  BY <1>1, <1>6, <1>7, <1>8, <1>9, <1>11, <1>12
     DEF Versions, UpdatesFollow, SourceLeads, Gone

LEMMA DataMarks == ASSUME RunInv, DataInv, markSynchronized PROVE DataInv'
<1> DEFINE B == Members(sync.batch)
<1> USE DEF DataInv
<1>1. sync.pc = "mark" /\ UNCHANGED <<data, config>>
  BY DEF markSynchronized
<1>2. /\ DOMAIN log' = DOMAIN log
      /\ \A i \in DOMAIN log :
            /\ log'[i].record = log[i].record /\ log'[i].origin = log[i].origin
            /\ log'[i].op = log[i].op /\ log'[i].version = log[i].version
            /\ log'[i].time = log[i].time
            /\ log'[i].synchronized <=> log[i].synchronized \/ i \in B
  BY MarkingIs DEF RunInv, LogGrows
<1>3. sync'.pc = "advance" /\ sync'.batch = sync.batch
  BY MarkMoves DEF RunInv
<1>4. Gone' = Gone
  BY <1>2 DEF Gone
<1>5. /\ DataTypes' /\ Versions' /\ Origins(source)' /\ Origins(target)' /\ UpdatesFollow'
  BY <1>1, <1>2 DEF data, DataTypes, Versions, Origins, UpdatesFollow
<1>6. TargetKnows' /\ SourceLeads' /\ PageOK'
  BY <1>1, <1>2, <1>3, <1>4 DEF data, TargetKnows, SourceLeads, PageOK
<1>7. \A i \in DOMAIN log : Done(i)' => Done(i)
  BY <1>1, <1>2, <1>3 DEF Done
<1>8. Present'
  BY <1>1, <1>2, <1>4, <1>7 DEF data, Present
<1>9. \A i \in DOMAIN log : Crowded(i) => Crowded(i)'
  BY <1>2 DEF Crowded
<1> HIDE DEF B
<1>10. \A i \in DOMAIN log : Reached(i) => Reached(i)'
  BY <1>1, <1>2, <1>3 DEF data, Reached, B
<1>11. AppliedOK'
  BY <1>1, <1>2, <1>4, <1>7, <1>9, <1>10 DEF data, AppliedOK, Excused
<1> QED
  BY <1>5, <1>6, <1>8, <1>11

\* What a batch makes of a row.
LEMMA Applying ==
    ASSUME RunInv, DataInv, Here # {}, NEW batch \in Slices,
           NEW db, db \in [Record -> Nat], NEW r \in Record,
           \A n \in DOMAIN batch : log[batch[n]].op # "DELETE"
    PROVE  /\ \/ Applied(db, batch)[r] = db[r]
              \/ /\ Applied(db, batch)[r] \in Members(batch)
                 /\ log[Applied(db, batch)[r]].record = r
           /\ \A n \in DOMAIN batch :
                 /\ log[batch[n]].record = r
                 /\ log[batch[n]].op = "INSERT" \/ db[r] # 0 \/ InsertedBefore(batch, n)
                 => /\ Applied(db, batch)[r] \in Members(batch)
                    /\ log[Applied(db, batch)[r]].record = r
                    /\ log[Applied(db, batch)[r]].time >= log[batch[n]].time
<1> DEFINE effective == {n \in DOMAIN batch :
                /\ log[batch[n]].record = r
                /\ \/ log[batch[n]].op = "INSERT" \/ db[r] # 0
                   \/ InsertedBefore(batch, n)}
<1>1. Applied(db, batch)[r] =
          IF effective = {} THEN db[r] ELSE log[batch[Max(effective)]].version
  BY DEF Applied
<1>2. /\ effective \subseteq 1 .. Len(batch) /\ Len(batch) \in Nat
      /\ DOMAIN batch = 1 .. Len(batch) /\ Members(batch) \subseteq DOMAIN log
      /\ \A m, n \in DOMAIN batch : m < n => log[batch[m]].time <= log[batch[n]].time
  BY SliceIs, ChangesAre DEF Here
<1>3. \A n \in effective : log[batch[n]].record = r
  OBVIOUS
<1>4. \A n \in DOMAIN batch :
         /\ log[batch[n]].record = r
         /\ log[batch[n]].op = "INSERT" \/ db[r] # 0 \/ InsertedBefore(batch, n)
         => n \in effective
  OBVIOUS
<1> HIDE DEF effective
<1>5. CASE effective = {}
  BY <1>1, <1>4, <1>5
<1>6. CASE effective # {}
  <2>1. PICK k : k = Max(effective)
    OBVIOUS
  <2>2. k \in effective /\ k \in DOMAIN batch /\ \A n \in effective : k >= n
    BY <1>2, <1>6, <2>1, MaxOf
  <2>3. batch[k] \in Members(batch) /\ batch[k] \in DOMAIN log
    BY <1>2, <2>2 DEF Members
  <2>4. Applied(db, batch)[r] = batch[k]
    BY <1>1, <1>6, <2>1, <2>2, <2>3 DEF DataInv, Versions
  <2>5. ASSUME NEW n \in effective PROVE log[batch[k]].time >= log[batch[n]].time
    <3>1. n \in DOMAIN batch /\ batch[n] \in Members(batch)
      BY <1>2 DEF Members
    <3>2. log[batch[k]].time \in Nat /\ log[batch[n]].time \in Nat
      BY <1>2, <2>3, <3>1, ChangesAre
    <3>3. n < k \/ n = k
      BY <1>2, <2>2, <3>1
    <3> QED
      BY <1>2, <2>2, <3>1, <3>2, <3>3
  <2> QED
    BY <1>3, <1>4, <2>2, <2>3, <2>4, <2>5
<1> QED
  BY <1>5, <1>6

\* No change of the next batch is of an earlier time than one of its record that is marked.
LEMMA SliceIsLater ==
    ASSUME RunInv, PlanInv, sync.pc = "batch",
           NEW m \in Here, NEW i \in DOMAIN log, log[i].synchronized,
           log[i].origin = "source", log[i].record = log[m].record
    PROVE  log[m].time >= log[i].time
<1>1. m \in sync.left /\ m \in DOMAIN log /\ m \in Theirs /\ ~log[m].synchronized
  BY ChangesAre DEF Here, PlanInv, UnmarkedOK
<1>2. Past(log[m].time, m, sync.from[log[m].origin])
  BY <1>1 DEF RunInv, ReadOK, Theirs
<1>3. ~(log[m].time < log[i].time)
  BY <1>1, <1>2 DEF PlanInv, OutOfReach, Floor
<1> QED
  BY <1>1, <1>3, ChangesAre

\* Of a later time, or of one time and alone with it, is later in the log.
LEMMA LaterIs ==
    ASSUME RunInv, NEW i \in DOMAIN log, ~Crowded(i),
           NEW k \in DOMAIN log, log[k].record = log[i].record
    PROVE  /\ log[k].time >= log[i].time => k >= i
           /\ log[k].time <= log[i].time => k <= i
<1>1. k \in Nat /\ i \in Nat /\ log[k].time \in Nat /\ log[i].time \in Nat
  BY ChangesAre
<1>2. k # i => log[k].time # log[i].time
  BY DEF Crowded
<1>3. /\ k < i => log[k].time <= log[i].time
      /\ i < k => log[i].time <= log[k].time
  BY DEF RunInv, LogOK
<1> QED
  BY <1>1, <1>2, <1>3

LEMMA DataApplies == ASSUME RunInv, PlanInv, DataInv, applyChangeBatch PROVE DataInv'
<1> USE DEF DataInv
<1>0. PICK batch : batch = sync'.batch
  OBVIOUS
<1> DEFINE B == Members(batch)
<1>1. /\ UNCHANGED <<log, config>> /\ sync.pc = "batch" /\ sync'.pc = "mark"
      /\ batch \in Slices /\ Here # {} /\ sync.batch = <<>>
  BY <1>0, ApplyMoves DEF applyChangeBatch, RunInv, LeftOK
<1>2. \A n \in DOMAIN batch : log[batch[n]].op # "DELETE"
  BY <1>0, ApplyMoves DEF RunInv, Throws
<1>3. /\ sync.side = "target" => target' = Applied(target, batch) /\ source' = source
      /\ sync.side # "target" => source' = Applied(source, batch) /\ target' = target
  BY <1>0, ApplyMoves DEF RunInv
<1>4. /\ B \subseteq Here /\ B \subseteq DOMAIN log /\ B \subseteq Theirs
      /\ DOMAIN batch = 1 .. Len(batch) /\ Len(batch) \in Nat
      /\ \A m, n \in DOMAIN batch : m < n => log[batch[m]].time <= log[batch[n]].time
  BY <1>1, SliceIs, ChangesAre DEF Here
<1>5. \A i \in DOMAIN log :
         i \in Nat /\ i # 0 /\ log[i].record \in Record /\ log[i].time \in Nat
  BY ChangesAre DEF RunInv, LogOK
<1>12. \A n \in DOMAIN batch : batch[n] \in B
  BY <1>4 DEF Members
<1>13. \A i \in B : \E n \in DOMAIN batch : i = batch[n]
  BY <1>4 DEF Members
<1> HIDE DEF B
<1>6. ASSUME NEW db, db \in [Record -> Nat], Origins(db)
      PROVE  /\ Applied(db, batch) \in [Record -> Nat]
             /\ \A r \in Record : /\ Applied(db, batch)[r] # 0 =>
                                        /\ Applied(db, batch)[r] \in DOMAIN log
                                        /\ log[Applied(db, batch)[r]].record = r
                                  /\ db[r] # 0 => Applied(db, batch)[r] # 0
  <2>1. \A r \in Record : \/ Applied(db, batch)[r] = db[r]
                          \/ /\ Applied(db, batch)[r] \in B
                             /\ log[Applied(db, batch)[r]].record = r
    BY <1>1, <1>2, <1>6, Applying DEF B
  <2>2. \A r \in Record : Applied(db, batch)[r] \in Nat
    BY <1>4, <1>5, <1>6, <2>1
  <2>3. Applied(db, batch) \in [Record -> Nat]
    BY <2>2 DEF Applied
  <2> QED
    BY <1>4, <1>5, <1>6, <2>1, <2>3 DEF Origins
<1>7. DataTypes' /\ Origins(source)' /\ Origins(target)'
  BY <1>1, <1>3, <1>6 DEF DataTypes, Origins
<1>14. \A r \in Record : target[r] # 0 => target'[r] # 0
  BY <1>3, <1>6 DEF DataTypes
<1>8. TargetKnows' /\ SourceLeads' /\ PageOK' /\ Versions' /\ UpdatesFollow'
  <2>1. TargetKnows'
    BY <1>1, <1>5, <1>14 DEF TargetKnows, Gone
  <2>2. SourceLeads'
    BY <1>1, <1>3 DEF SourceLeads, Gone, PlanInv, OneWayOK
  <2> QED
    BY <1>1, <2>1, <2>2 DEF PageOK, Versions, UpdatesFollow
<1>15. \A i \in DOMAIN log : Done(i)' => Done(i) \/ i \in B
  BY <1>0, <1>1 DEF Done, B
<1>16. \A i \in B : log[i].origin = "source" => sync.side = "target"
  BY <1>4 DEF Theirs, RunInv, ReadOK
\* What a batch makes of the row of a change that takes effect.
<1>17. ASSUME NEW n \in DOMAIN batch, sync.side = "target",
              \/ log[batch[n]].op = "INSERT" \/ target[log[batch[n]].record] # 0
              \/ InsertedBefore(batch, n)
       PROVE  LET k == target'[log[batch[n]].record]
              IN  /\ k \in B /\ k \in DOMAIN log
                  /\ log[k].record = log[batch[n]].record
                  /\ log[k].time >= log[batch[n]].time
  <2>1. log[batch[n]].record \in Record /\ target \in [Record -> Nat]
    BY <1>4, <1>5, <1>12 DEF DataTypes
  <2>2. PICK r \in Record : r = log[batch[n]].record
    BY <2>1
  <2>3. /\ Applied(target, batch)[r] \in Members(batch)
        /\ log[Applied(target, batch)[r]].record = r
        /\ log[Applied(target, batch)[r]].time >= log[batch[n]].time
    BY <1>1, <1>2, <1>17, <2>1, <2>2, Applying
  <2> QED
    BY <1>3, <1>4, <1>17, <2>2, <2>3 DEF B
<1>9. Present'
  <2> SUFFICES ASSUME NEW i \in DOMAIN log, log[i].origin = "source", log[i].op = "INSERT",
                      log[i].record \notin Gone, Done(i)'
               PROVE  target'[log[i].record] # 0
    BY <1>1 DEF Present, Gone
  <2>1. CASE Done(i)
    BY <1>5, <1>14, <2>1 DEF Present
  <2>2. CASE i \in B
    <3>1. PICK n \in DOMAIN batch : i = batch[n]
      BY <1>13, <2>2
    <3> QED
      BY <1>5, <1>16, <1>17, <2>2, <3>1
  <2> QED
    BY <1>15, <2>1, <2>2
\* An update that finds no row comes after an insert that never came there.
<1>10. ASSUME ~Excused, NEW i \in B, log[i].origin = "source", log[i].record \notin Gone,
              ~Crowded(i), ~(target'[log[i].record] >= i)
       PROVE  \E j \in DOMAIN log : /\ j < i /\ log[j].record = log[i].record
                                    /\ ~log[j].synchronized /\ j \notin B
  <2> DEFINE E == {j \in DOMAIN log : log[j].record = log[i].record}
  <2>0. PICK n \in DOMAIN batch : i = batch[n]
    BY <1>13
  <2>1. /\ sync.side = "target" /\ i \in DOMAIN log
        /\ log[i].op # "INSERT" /\ target[log[i].record] = 0 /\ ~InsertedBefore(batch, n)
    <3>1. sync.side = "target" /\ i \in DOMAIN log
      BY <1>4, <1>10, <1>16
    <3>2. ASSUME \/ log[i].op = "INSERT" \/ target[log[i].record] # 0
                 \/ InsertedBefore(batch, n)
          PROVE  FALSE
      <4>1. /\ target'[log[i].record] \in DOMAIN log
            /\ log[target'[log[i].record]].record = log[i].record
            /\ log[target'[log[i].record]].time >= log[i].time
        BY <1>17, <2>0, <3>1, <3>2
      <4>2. target'[log[i].record] >= i
        BY <1>10, <3>1, <4>1, LaterIs
      <4> QED
        BY <1>10, <4>2
    <3> QED
      BY <3>1, <3>2
  <2>2. PICK j \in E : \A k \in E : j <= k
    <3>1. E \subseteq Nat /\ E # {}
      BY <1>5, <2>1
    <3> HIDE DEF E
    <3> QED
      BY <3>1, LeastExists
  <2>3. log[j].op \in {"INSERT", "UPDATE", "DELETE"} /\ log[j].op # "DELETE"
    <3>1. log[j] \in Change
      BY <2>2, ChangesAre
    <3> QED
      BY <1>10, <2>2, <3>1 DEF Change, Gone
  <2>4. log[j].op = "INSERT"
    BY <1>5, <2>2, <2>3 DEF UpdatesFollow
  <2>5. j < i /\ log[j].time < log[i].time
    <3>1. j <= i /\ j # i
      BY <2>1, <2>2, <2>4
    <3>2. j \in Nat /\ i \in Nat /\ log[j].time \in Nat /\ log[i].time \in Nat
      BY <1>5, <2>1, <2>2
    <3>3. ~(log[j].time >= log[i].time)
      BY <1>10, <2>1, <2>2, <3>1, <3>2, LaterIs
    <3> QED
      BY <3>1, <3>2, <3>3
  <2>6. ASSUME j \in B PROVE FALSE
    <3>1. PICK m \in DOMAIN batch : j = batch[m]
      BY <1>13, <2>6
    <3>2. m \in Nat /\ n \in Nat /\ m # n
      BY <1>4, <2>0, <2>5, <3>1
    <3>3. ~(n < m)
      BY <1>4, <1>5, <2>0, <2>1, <2>2, <2>5, <3>1
    <3>4. m \in 1 .. n - 1
      BY <1>4, <3>2, <3>3
    <3> QED
      BY <2>0, <2>1, <2>2, <2>4, <3>1, <3>4 DEF InsertedBefore
  <2>7. ASSUME log[j].synchronized PROVE FALSE
    <3>1. CASE log[j].origin = "target"
      BY <1>10, <2>1, <2>2, <3>1 DEF TargetKnows
    <3>2. CASE log[j].origin = "source"
      BY <1>10, <2>1, <2>2, <2>4, <2>7, <3>2 DEF Present, Done
    <3> QED
      BY <2>2, <3>1, <3>2, ChangesAre
  <2> QED
    BY <2>2, <2>5, <2>6, <2>7
\* What was marked stays reached.
<1>11. ASSUME ~Excused, NEW i \in DOMAIN log, log[i].origin = "source",
              log[i].record \notin Gone, ~Crowded(i), log[i].synchronized,
              ~(target'[log[i].record] >= i)
       PROVE  \E j \in DOMAIN log : /\ j < i /\ log[j].record = log[i].record
                                    /\ ~log[j].synchronized /\ j \notin B
  <2>1. Reached(i)
    BY <1>11 DEF AppliedOK, Done
  <2>2. \A m \in B : log[m].record = log[i].record => m >= i
    <3>1. ASSUME NEW m \in B, log[m].record = log[i].record PROVE m >= i
      <4>1. m \in Here /\ m \in DOMAIN log
        BY <1>4
      <4>2. log[m].time >= log[i].time
        BY <1>1, <1>11, <3>1, <4>1, SliceIsLater
      <4> QED
        BY <1>11, <3>1, <4>1, <4>2, LaterIs
    <3> QED
      BY <3>1
  <2>3. CASE target[log[i].record] >= i
    <3>1. sync.side = "target" /\ target'[log[i].record] # target[log[i].record]
      BY <1>3, <1>11, <2>3
    <3>2. target'[log[i].record] \in B /\ log[target'[log[i].record]].record = log[i].record
      <4>1. PICK r \in Record : r = log[i].record
        BY <1>5
      <4> QED
        BY <1>1, <1>2, <1>3, <3>1, <4>1, Applying DEF DataTypes, B
    <3> QED
      BY <1>11, <2>2, <3>2
  <2>4. CASE \E j \in DOMAIN log : /\ j < i /\ log[j].record = log[i].record
                                   /\ ~log[j].synchronized /\ j \notin Members(sync.batch)
    BY <1>5, <2>2, <2>4
  <2> QED
    BY <2>1, <2>3, <2>4 DEF Reached
<1>18. AppliedOK'
  <2> SUFFICES ASSUME ~Excused, NEW i \in DOMAIN log, log[i].origin = "source",
                      log[i].record \notin Gone, Done(i)', ~Crowded(i),
                      ~(target'[log[i].record] >= i)
               PROVE  \E j \in DOMAIN log : /\ j < i /\ log[j].record = log[i].record
                                            /\ ~log[j].synchronized /\ j \notin B
    <3>1. \A i : Crowded(i)' <=> Crowded(i)
      BY <1>1 DEF Crowded
    <3>2. Members(sync'.batch) = B
      BY <1>0 DEF B
    <3> QED
      BY <1>1, <3>1, <3>2 DEF AppliedOK, Excused, Gone, Reached
  <2>1. log[i].synchronized \/ i \in B
    BY <1>1, <1>15 DEF Done
  <2> QED
    BY <1>10, <1>11, <2>1
<1> QED
  BY <1>7, <1>8, <1>9, <1>18

LEMMA DataStep == RunInv /\ PlanInv /\ DataInv /\ [Next]_vars => DataInv'
<1> SUFFICES ASSUME RunInv, PlanInv, DataInv, [Next]_vars PROVE DataInv'
  OBVIOUS
<1>0. Shape
  BY DEF RunInv
<1>1. CASE UNCHANGED vars
  BY <1>1, DataStays DEF vars, data
<1>2. ASSUME NEW side \in Sides, NEW r \in Record, NEW op \in Ops, write(side, r, op)
      PROVE  DataInv'
  BY <1>2, DataWrites
<1>3. ASSUME NEW m \in config.modes, NEW known, begin(m, known) PROVE DataInv'
  <2>1. UNCHANGED <<data, log, config>>
    BY <1>3 DEF begin
  <2>2. sync'.pc \in {"page", "logs"} /\ sync'.batch = <<>> /\ (sync'.pc = "page" => m = "full")
    BY <1>3, BeginMoves
  <2> QED
    BY <1>3, <2>1, <2>2, NoMembers, DataStays
<1>4. CASE findSourceLogs \/ findTargetLogs \/ resolveConflicts
  <2>1. UNCHANGED <<data, log, config>>
    BY <1>4 DEF findSourceLogs, findTargetLogs, resolveConflicts
  <2>2. sync'.pc \in {"targetLogs", "resolve", "plan"} /\ sync'.batch = sync.batch
    <3>1. resolveConflicts => sync'.pc = "plan" /\ sync'.batch = sync.batch
      BY <1>0, TurnMoves DEF resolveConflicts, Turned
    <3> QED
      BY <1>0, <1>4, <3>1, FindSourceMoves, FindTargetMoves
  <2> QED
    BY <2>1, <2>2, DataStays
<1>5. ASSUME NEW m, planSource(m) \/ planTarget(m) PROVE DataInv'
  <2>1. UNCHANGED <<data, log, config>>
    BY <1>5 DEF planSource, planTarget
  <2>2. sync'.pc \in {"batch", "done"} /\ sync'.batch = sync.batch
    <3>1. CASE \E side : plan(Planned(side), side, m)
      BY <1>0, <3>1, PlanMoves
    <3>2. CASE goto("done")
      BY <1>0, <3>2, TurnMoves DEF Turned
    <3>3. planSource(m) => plan(Planned("target"), "target", m)
      BY DEF planSource, Planned
    <3>4. planTarget(m) => plan(Planned("source"), "source", m) \/ goto("done")
      BY DEF planTarget, Planned
    <3> QED
      BY <1>5, <3>1, <3>2, <3>3, <3>4
  <2> QED
    BY <2>1, <2>2, DataStays
<1>6. CASE applyChangeBatch \/ markSynchronized
  BY <1>6, DataApplies, DataMarks
<1>7. CASE updateCheckpoint \/ nextTable \/ establishCheckpoint \/ skipTable
  <2>1. UNCHANGED <<data, log, config>>
    BY <1>7 DEF updateCheckpoint, Advanced, nextTable, establishCheckpoint, skipTable
  <2>2. /\ sync'.pc \in {"batch", "done", "page"}
        /\ sync'.batch = sync.batch \/ sync'.batch = <<>>
        /\ sync'.pc = "page" => sync.pc = "page"
    BY <1>0, <1>7, AdvanceMoves, TurnMoves DEF Turned, establishCheckpoint, skipTable
  <2> QED
    BY <2>1, <2>2, NoMembers, DataStays DEF DataInv, PageOK
<1>8. CASE fetchTableRecordsPaginated \/ applyPage
  BY <1>8, DataFetches, DataCopies
<1>9. CASE refuse \/ finish \/ fail
  <2>1. UNCHANGED <<data, log, config>> /\ sync' = Resting
    BY <1>9 DEF refuse, finish, fail, abandon
  <2> QED
    BY <2>1, NoMembers, DataStays DEF Resting
<1>10. CASE tick
  BY <1>10, DataStays DEF tick
<1> QED
  BY <1>1, <1>2, <1>3, <1>4, <1>5, <1>6, <1>7, <1>8, <1>9, <1>10
     DEF Next, job, incremental, full

-----------------------------------------------------------------------------
(* What the run's tables and pages are.                                    *)

FieldsOK ==
    /\ sync.tables \in Seq(Members(Table)) /\ sync.offset \in Nat
    /\ sync.page \subseteq Record \X Nat /\ sync.read \subseteq DOMAIN log
    /\ copied \subseteq DOMAIN log /\ faults \in Nat

LEMMA RecordIs == IsFiniteSet(Record) /\ \A r \in Record : r[1] \in Members(Table)
<1>1. IsFiniteSet(Members(Table))
  BY TableAssumption, LenIs
<1> QED
  BY <1>1, TableAssumption, FS_Product DEF Record

\* The tables of the changes are tables of the database.
LEMMA ChangedTables ==
    ASSUME RunInv, NEW changes, changes \subseteq DOMAIN log,
           NEW tables \in ChangesByTable(changes)
    PROVE  tables \in Seq(Members(Table))
<1> DEFINE S == {log[i].record[1] : i \in changes}
<1>1. S \subseteq Members(Table)
  BY ChangesAre, RecordIs
<1>2. IsFiniteSet(S)
  BY <1>1, TableAssumption, LenIs, FS_Subset
<1>3. tables \in SetToSeqs(S)
  BY DEF ChangesByTable
<1> HIDE DEF S
<1>4. Cardinality(S) \in Nat
  BY <1>2, FS_CardinalityType
<1>5. tables \in [1 .. Cardinality(S) -> S]
  BY <1>3 DEF SetToSeqs
<1>6. tables \in [1 .. Cardinality(S) -> Members(Table)]
  BY <1>1, <1>5
<1> QED
  BY <1>4, <1>6

\* The steps that leave those fields alone.
SameFields ==
    /\ sync'.tables = sync.tables /\ sync'.offset = sync.offset
    /\ sync'.page = sync.page /\ sync'.read = sync.read
    /\ UNCHANGED <<log, copied, faults>>

LEMMA FieldsStay ==
    ASSUME Shape, \/ findSourceLogs \/ findTargetLogs \/ applyChangeBatch
                  \/ updateCheckpoint \/ resolveConflicts
                  \/ goto("done") /\ UNCHANGED <<log, copied, faults>>
    PROVE  SameFields
<1>1. applyChangeBatch => SameFields
  <2> SUFFICES ASSUME applyChangeBatch PROVE SameFields
    OBVIOUS
  <2>1. PICK batch : sync' = [sync EXCEPT !.pc = "mark", !.batch = batch]
    BY DEF applyChangeBatch
  <2> QED
    BY <2>1 DEF applyChangeBatch, SameFields, Shape, Fields
<1> QED
  BY <1>1 DEF findSourceLogs, findTargetLogs, updateCheckpoint, Advanced, resolveConflicts,
              goto, SameFields, Shape, Fields

LEMMA FieldsMark == ASSUME RunInv, FieldsOK, markSynchronized PROVE FieldsOK'
<1>1. DOMAIN log' = DOMAIN log
  BY MarkingIs DEF RunInv
<1>2. /\ sync'.tables = sync.tables /\ sync'.offset = sync.offset
      /\ sync'.page = sync.page /\ sync'.read = sync.read /\ UNCHANGED <<copied, faults>>
  BY DEF markSynchronized, goto, RunInv, Shape, Fields
<1> QED
  BY <1>1, <1>2 DEF FieldsOK

LEMMA FieldsBegin ==
    ASSUME FieldsOK, NEW mode, NEW metadata, begin(mode, metadata) PROVE FieldsOK'
<1> DEFINE all == getTablesInDependencyOrder(Table, ForeignKeys, metadata, FALSE)
           M == Members(Table)
<1>1. all \in Seq(M) /\ <<>> \in Seq(M)
  <2>1. Table \in Seq(M)
    BY TableAssumption
  <2> HIDE DEF M
  <2>2. all \in Seq(M)
    BY <2>1, OrderTyped
  <2>3. <<>> \in Seq(M)
    OBVIOUS
  <2> QED
    BY <2>2, <2>3
<1> HIDE DEF all
<1>2. /\ sync' = [Resting EXCEPT !.pc = IF mode = "full" THEN "page" ELSE "logs",
                                 !.from = checkpoint,
                                 !.tables = IF mode = "full" THEN all ELSE <<>>]
      /\ UNCHANGED <<log, copied, faults>>
  BY DEF begin, all
<1> QED
  BY <1>1, <1>2 DEF FieldsOK, Resting

LEMMA FieldsPlan ==
    ASSUME RunInv, FieldsOK, NEW changes, changes \subseteq DOMAIN log, NEW side, NEW metadata,
           plan(changes, side, metadata), UNCHANGED <<log, copied, faults>>
    PROVE  FieldsOK'
<1> DEFINE M == Members(Table)
           ordered(tables) == getTablesInDependencyOrder(tables, ForeignKeys, metadata, FALSE)
<1>1. PICK tables \in ChangesByTable(changes) :
         sync' = [sync EXCEPT !.pc = "batch", !.side = side, !.left = changes,
                              !.tables = ordered(tables)]
  BY DEF plan
<1>2. ordered(tables) \in Seq(M)
  <2>1. tables \in Seq(M)
    BY ChangedTables
  <2> HIDE DEF M
  <2> QED
    BY <2>1, OrderTyped
<1> HIDE DEF ordered
<1> QED
  BY <1>1, <1>2 DEF RunInv, Shape, Fields, FieldsOK

\* A table that is done with is left behind.
LEMMA TailIs ==
    ASSUME NEW T, NEW s \in Seq(T), s # <<>> PROVE Tail(s) \in Seq(T) /\ Head(s) \in T
  BY HeadTailProperties

LEMMA SizeIs ==
    ASSUME NEW a \in Nat, NEW b \in Int
    PROVE  Min({a, Max({0, b})}) \in Nat
<1>1. Max({0, b}) \in Nat
  <2>1. \E x \in {0, b} : \A y \in {0, b} : x >= y
    BY DEF Max
  <2> QED
    BY <2>1 DEF Max
<1> QED
  BY <1>1, LesserOf

LEMMA FieldsFetch ==
    ASSUME Shape, FieldsOK, source \in [Record -> Nat], fetchTableRecordsPaginated
    PROVE  FieldsOK'
<1> DEFINE rows == Rows(Head(sync.tables))
           size == Min({PageSize, Max({0, Cardinality(rows) - sync.offset})})
           M == Members(Table)
<1>1. size \in Nat
  <2>1. IsFiniteSet(rows)
    BY RecordIs, FS_Subset DEF Rows
  <2>2. Cardinality(rows) \in Nat /\ sync.offset \in Nat /\ PageSize \in Nat
    BY <2>1, FS_CardinalityType, PageAssumption DEF FieldsOK
  <2>3. Cardinality(rows) - sync.offset \in Int
    BY <2>2
  <2> HIDE DEF rows
  <2> QED
    BY <2>2, <2>3, SizeIs
<1>2. sync.tables \in Seq(M) /\ Tail(sync.tables) \in Seq(M)
  <2>1. sync.tables # <<>> /\ sync.tables \in Seq(M)
    BY DEF fetchTableRecordsPaginated, FieldsOK
  <2> HIDE DEF M
  <2> QED
    BY <2>1, TailIs
<1> HIDE DEF size, M
<1>3. PICK page \in kSubset(size, rows) :
         sync' = [sync EXCEPT !.pc = IF size = 0 THEN "page" ELSE "copy",
                              !.page = {<<r, source[r]>> : r \in page},
                              !.read = sync.read \cup {i \in DOMAIN log :
                                                           log[i].record \in page},
                              !.offset = IF size < PageSize THEN 0 ELSE sync.offset + size,
                              !.tables = IF size < PageSize THEN Tail(sync.tables)
                                                            ELSE sync.tables]
  BY DEF fetchTableRecordsPaginated, size
<1> DEFINE taken == {<<r, source[r]>> : r \in page}
           seen == sync.read \cup {i \in DOMAIN log : log[i].record \in page}
<1>4. taken \subseteq Record \X Nat /\ seen \subseteq DOMAIN log
  BY DEF kSubset, Rows, FieldsOK
<1> HIDE DEF taken, seen
<1>5. /\ sync'.page = taken /\ sync'.read = seen
      /\ sync'.offset = IF size < PageSize THEN 0 ELSE sync.offset + size
      /\ sync'.tables = IF size < PageSize THEN Tail(sync.tables) ELSE sync.tables
      /\ UNCHANGED <<log, copied, faults>>
  BY <1>3 DEF Shape, Fields, taken, seen, fetchTableRecordsPaginated
<1>6. sync.offset + size \in Nat
  BY <1>1 DEF FieldsOK
<1> QED
  BY <1>2, <1>4, <1>5, <1>6 DEF FieldsOK, M

LEMMA FieldsStep == RunInv /\ DataTypes /\ FieldsOK /\ [Next]_vars => FieldsOK'
<1> SUFFICES ASSUME RunInv, DataTypes, FieldsOK, [Next]_vars PROVE FieldsOK'
  OBVIOUS
<1>0. LogOK /\ Shape /\ sync.sourceLogs \subseteq DOMAIN log /\ sync.targetLogs \subseteq DOMAIN log
  BY DEF RunInv, RunOK
<1>1. CASE UNCHANGED <<sync, log, copied, faults>>
  BY <1>1 DEF FieldsOK
<1>2. CASE SameFields
  BY <1>2 DEF FieldsOK, SameFields
<1>3. ASSUME NEW m, NEW known, begin(m, known) PROVE FieldsOK'
  BY <1>3, FieldsBegin
<1>4. ASSUME NEW side \in Sides, NEW r \in Record, NEW op, write(side, r, op) PROVE FieldsOK'
  <2>1. \A i \in DOMAIN log : i \in DOMAIN log'
    BY <1>0, <1>4, Writing DEF LogGrows
  <2> QED
    BY <1>4, <2>1 DEF write, FieldsOK
<1>5. CASE nextTable \/ skipTable
  <2> DEFINE M == Members(Table)
  <2>1. sync.tables # <<>> /\ sync.tables \in Seq(M)
    BY <1>5 DEF nextTable, skipTable, FieldsOK
  <2>2. Tail(sync.tables) \in Seq(M)
    <3> HIDE DEF M
    <3> QED
      BY <2>1, TailIs
  <2>3. /\ sync' = [sync EXCEPT !.tables = Tail(sync.tables)]
        /\ UNCHANGED <<log, copied>> /\ faults' \in {faults, faults + 1}
    BY <1>5 DEF nextTable, skipTable
  <2> QED
    BY <1>0, <2>2, <2>3 DEF FieldsOK, Shape, Fields
<1>6. CASE fetchTableRecordsPaginated
  BY <1>0, <1>6, FieldsFetch DEF DataTypes
<1>7. CASE applyPage
  <2>1. PICK batch : sync' = [sync EXCEPT !.page = sync.page \ batch,
                                 !.pc = IF sync.page = batch THEN "page" ELSE "copy"]
    BY <1>7 DEF applyPage
  <2>2. UNCHANGED <<log, copied, faults>>
    BY <1>7 DEF applyPage
  <2> QED
    BY <1>0, <2>1, <2>2 DEF FieldsOK, Shape, Fields
<1>8. CASE refuse \/ finish \/ fail
  <2>1. sync' = Resting /\ UNCHANGED <<log, copied>> /\ faults' \in {faults, faults + 1}
    BY <1>8 DEF refuse, finish, fail, abandon
  <2>2. <<>> \in Seq(Members(Table))
    OBVIOUS
  <2> QED
    BY <2>1, <2>2 DEF FieldsOK, Resting
<1>9. ASSUME NEW m, planSource(m) \/ planTarget(m) PROVE FieldsOK'
  <2>1. UNCHANGED <<log, copied, faults>>
    BY <1>9 DEF planSource, planTarget
  <2>2. \/ plan(sync.sourceLogs, "target", m) \/ plan(sync.targetLogs, "source", m)
        \/ goto("done")
    BY <1>9 DEF planSource, planTarget
  <2>3. CASE goto("done")
    BY <1>0, <1>2, <2>1, <2>3, FieldsStay
  <2> QED
    BY <1>0, <2>1, <2>2, <2>3, FieldsPlan
<1>10. CASE establishCheckpoint
  <2>1. /\ UNCHANGED <<log, faults>> /\ copied' = copied \cup sync.read
        /\ sync' = [sync EXCEPT !.pc = "done"]
    BY <1>10 DEF establishCheckpoint, goto
  <2> QED
    BY <1>0, <2>1 DEF FieldsOK, Shape, Fields
<1>11. CASE markSynchronized
  BY <1>11, FieldsMark
<1>12. CASE tick
  BY <1>1, <1>12 DEF tick
<1>13. CASE findSourceLogs \/ findTargetLogs \/ resolveConflicts \/ applyChangeBatch
            \/ updateCheckpoint
  BY <1>0, <1>2, <1>13, FieldsStay
<1>14. CASE UNCHANGED vars
  BY <1>1, <1>14 DEF vars
<1> QED
  BY <1>3, <1>4, <1>5, <1>6, <1>7, <1>8, <1>9, <1>10, <1>11, <1>12, <1>13, <1>14
     DEF Next, job, incremental, full

\* The databases, the log, the clock, the checkpoints and the run are what their
\* declarations say, in every state.
THEOREM RunsTyped == Spec => []TypeOK
<1>1. Init => FieldsOK
  <2>1. <<>> \in Seq(Members(Table))
    OBVIOUS
  <2> QED
    BY <2>1 DEF Init, FieldsOK, Resting
<1>2. RunInv /\ FieldsOK => sync \in Sync
  <2> SUFFICES ASSUME RunInv, FieldsOK PROVE sync \in Sync
    OBVIOUS
  <2>1. DOMAIN log \subseteq Nat
    BY DEF RunInv, LogOK
  <2>2. /\ sync.sourceLogs \subseteq Nat /\ sync.targetLogs \subseteq Nat
        /\ sync.left \subseteq Nat /\ sync.read \subseteq Nat
    BY <2>1, ChangesAre DEF RunInv, RunOK, FieldsOK
  <2>3. Shape /\ RunOK
    BY DEF RunInv
  <2> QED
    BY <2>2, <2>3 DEF FieldsOK, RunOK, Shape, Fields, Sync
<1>3. RunInv /\ DataInv /\ FieldsOK => TypeOK
  BY <1>2 DEF TypeOK, RunInv, LogOK, RunOK, DataInv, DataTypes, FieldsOK
<1>4. DataInv => DataTypes
  BY DEF DataInv
<1> QED
  BY <1>1, <1>3, <1>4, RunInit, PlanInit, DataInit, RunStep, PlanStep, DataStep,
     FieldsStep, PTL DEF Spec

\* A source change that is marked synchronized is in the target, or a later change of its
\* record is, or its record has an earlier change that is not marked, a captured delete, or
\* a second change of the same millisecond; a full run of a two-way configuration, which
\* may put an older row back, is left out.
THEOREM MarkedAreApplied == Spec => []MarkedIsApplied
<1>1. RunInv /\ PlanInv /\ DataInv => MarkedIsApplied
  <2> SUFFICES ASSUME RunInv, PlanInv, DataInv, NEW i \in DOMAIN log,
                      log[i].synchronized, log[i].origin = "source", ~Excused
               PROVE  \/ target[log[i].record] >= i
                      \/ \E j \in DOMAIN log \ {i} :
                            /\ log[j].record = log[i].record
                            /\ \/ log[j].time = log[i].time
                               \/ j > i /\ log[j].op = "DELETE"
                               \/ j < i /\ ~log[j].synchronized
    BY DEF MarkedIsApplied, Excused
  <2>1. CASE log[i].record \in Gone
    <3>1. PICK j \in DOMAIN log : log[j].op = "DELETE" /\ log[j].record = log[i].record
      BY <2>1 DEF Gone
    <3>2. ~log[j].synchronized /\ i \in Nat /\ j \in Nat
      BY <3>1, ChangesAre DEF PlanInv, DeletesPending
    <3> QED
      BY <3>1, <3>2
  <2>2. CASE log[i].record \notin Gone
    <3>1. Reached(i) \/ Crowded(i)
      BY <2>2 DEF DataInv, AppliedOK, Done
    <3>2. i \in Nat
      BY ChangesAre
    <3> QED
      BY <3>1, <3>2 DEF Reached, Crowded
  <2> QED
    BY <2>1, <2>2
<1> QED
  BY <1>1, RunInit, PlanInit, DataInit, RunStep, PlanStep, DataStep, PTL DEF Spec

\* A run that has read changes of both sides of a record writes to neither: it ends at
\* the conflict that cannot be stored.
THEOREM NothingExchanged == Spec => []NoExchange
<1>1. RunInv => NoExchange
  <2> SUFFICES ASSUME RunInv, sync.pc \in {"mark", "advance"},
                      NEW i \in Members(sync.batch),
                      NEW j \in IF sync.side = "target" THEN sync.targetLogs
                                                         ELSE sync.sourceLogs
               PROVE  log[i].record # log[j].record
    BY DEF NoExchange
  <2>1. i \in Theirs
    BY DEF RunInv, LeftOK
  <2> QED
    BY <2>1 DEF RunInv, SharedOK, Theirs
<1> QED
  BY <1>1, RunInit, RunStep, PTL DEF Spec

\* As texts are compared: within a run each checkpoint is the one the run began with,
\* behind it, or the time at which a full copy ended, which is not before that one's time.
THEOREM CheckpointKept == Spec => []CheckpointHolds
<1>1. RunInv => CheckpointHolds
  BY DEF RunInv, FloorOK, Copied, CheckpointHolds
<1> QED
  BY <1>1, RunInit, RunStep, PTL DEF Spec

\* A change that falls behind the source's checkpoint in an incremental run, or when it is
\* written, has been passed by a marked change of its own millisecond, or by one of a later
\* time and another table: within a table, nothing of an earlier time is passed by.
THEOREM TablesOvertake == Spec => OnlyTablesOvertake
<1> DEFINE P == sync.pc \notin {"page", "copy"} =>
                   \A i \in Overtaken' \ Overtaken :
                      \E j \in DOMAIN log :
                          /\ log[j].synchronized
                          /\ \/ log'[i].time = log[j].time
                             \/ /\ log'[i].time < log[j].time
                                /\ log'[i].record[1] # log[j].record[1]
<1>1. RunInv /\ PlanInv /\ StandsOK /\ [Next]_vars => [P]_vars
  <2> SUFFICES ASSUME RunInv, PlanInv, StandsOK, Next, sync.pc \notin {"page", "copy"},
                      NEW i \in Overtaken' \ Overtaken
               PROVE  Overtaker(log'[i].time, log'[i].record)
    BY DEF Overtaker
  <2>1. CASE UNCHANGED <<log, checkpoint, copied>>
    BY <2>1 DEF Overtaken, After, Stamp
  <2>2. ASSUME NEW side \in Sides, NEW r \in Record, NEW op, write(side, r, op)
        PROVE  Overtaker(log'[i].time, log'[i].record)
    BY <2>2, WriteOvertakes
  <2>3. CASE updateCheckpoint
    BY <2>3, AdvanceOvertakes
  <2>4. CASE markSynchronized
    <3>1. /\ DOMAIN log' = DOMAIN log /\ UNCHANGED <<checkpoint, copied>>
          /\ \A k \in DOMAIN log :
                /\ log'[k].origin = log[k].origin /\ log'[k].time = log[k].time
                /\ log[k].synchronized => log'[k].synchronized
      BY <2>4, MarkingIs DEF RunInv, LogGrows, markSynchronized
    <3>2. i \in Overtaken
      BY <3>1 DEF Overtaken, After, Stamp
    <3> QED
      BY <3>2
  <2>5. ASSUME NEW m, NEW known, begin(m, known) PROVE UNCHANGED <<log, checkpoint, copied>>
    BY <2>5 DEF begin
  <2>6. ASSUME NEW m, planSource(m) \/ planTarget(m) PROVE UNCHANGED <<log, checkpoint, copied>>
    BY <2>6 DEF planSource, planTarget
  <2>7. CASE tick \/ findSourceLogs \/ findTargetLogs \/ resolveConflicts \/ applyChangeBatch
             \/ nextTable \/ full \/ skipTable \/ refuse \/ finish \/ fail
    BY <2>1, <2>7 DEF tick, findSourceLogs, findTargetLogs, resolveConflicts,
       applyChangeBatch, nextTable, full, fetchTableRecordsPaginated, applyPage,
       establishCheckpoint, skipTable, refuse, finish, fail, abandon
  <2> QED
    BY <2>1, <2>2, <2>3, <2>4, <2>5, <2>6, <2>7 DEF Next, job, incremental
<1> QED
  BY <1>1, RunInit, PlanInit, StandsInit, RunStep, PlanStep, StandsStep, PTL
     DEF Spec, OnlyTablesOvertake

\* A sync run, with its writers, failures and crashes, implements ChangeDelivery: a change
\* is delivered once at most, none before one of its row, side and table that is due and of
\* an earlier time, and a checkpoint moves to a delivered change or to the time of a copy.
THEOREM RunDelivers == Spec => ImplementsDelivery
<1> QED
  BY InitDelivers, StepDelivers, RunInit, RunStep, PlanInit, PlanStep, OrderInit, OrderStep,
     PTL DEF Spec, ImplementsDelivery, Delivery!Spec
=============================================================================
