------------------------------ MODULE SyncRun ------------------------------
(***************************************************************************)
(* What a sync job does to the two databases: the incremental and the full *)
(* handler, the conflict resolver, the batches, their marks and the        *)
(* checkpoints.  SyncLifecycle says when a job runs; here one job of one   *)
(* configuration runs at a time, may fail at any call, may die with the    *)
(* process, and is run again.                                              *)
(*                                                                         *)
(* A database maps a row, <<table, key>>, to the version it holds, 0 for   *)
(* none.  The change log is a sequence; change i has the time of its write *)
(* and the id FirstId + i of the row it was captured from.  A checkpoint   *)
(* is the text of a time and an id, and texts are what is compared: times  *)
(* have one length, so only among changes of one time do the ids decide,   *)
(* by the TextOrder of their decimals, "10" before "9".  Nothing under     *)
(* src/ writes change-log rows: `write' stands for an application and      *)
(* whatever copies its captured change, under one clock.                   *)
(***************************************************************************)
EXTENDS TableOrder, FiniteSetsExt

CONSTANTS
    Table,          \* tables, in the order the database lists them: a sequence
    Key,            \* primary keys of a table
    ForeignKeys,    \* pairs <<parent, child>>
    Bare,           \* tables that have only primary-key columns
    PageSize,       \* FULL_SYNC_PAGE_SIZE
    FirstId,        \* captured rows before the first that is seen here
    TextOrder,      \* pairs of ids of which the first, as a text, is smaller
    Configs,        \* the configurations to consider
    Ops,            \* what applications do: of "upsert", "delete"
    MaxWrites,      \* bound on the application's writes
    MaxFaults       \* bound on failing calls and dying processes

ASSUME PageAssumption == PageSize \in Nat \ {0}
ASSUME ConfigsAssumption ==
    Configs \subseteq [direction : {"ONE_WAY", "BIDIRECTIONAL"},
                       batchSize : Nat \ {0},
                       modes : SUBSET {"incremental", "full"}]
ASSUME TableAssumption == Table \in Seq(Members(Table)) /\ IsFiniteSet(Key)
ASSUME OpsAssumption == Ops \subseteq {"upsert", "delete"}
ASSUME BoundAssumption == MaxWrites \in Nat /\ MaxFaults \in Nat /\ FirstId \in Nat
ASSUME TextAssumption ==
    /\ TextOrder \subseteq Nat \X Nat
    /\ \A p \in TextOrder : p[1] # p[2]
    /\ \A p, q \in TextOrder : p[2] = q[1] => <<p[1], q[2]>> \in TextOrder
    /\ \A i \in 1 .. MaxWrites : <<0, FirstId + i>> \in TextOrder

VARIABLES
    source, target,     \* the databases
    log,                \* ChangeLog rows
    clock,              \* milliseconds in which something was written
    checkpoint,         \* SyncState: [source, target] checkpoints, time 0 and id 0 for null
    config,             \* SyncConfiguration, and the modes it is triggered in
    sync,               \* the running job
    copied,             \* history: changes whose row a full copy has read since
    faults

data == <<source, target>>
vars == <<source, target, log, clock, checkpoint, config, sync, copied, faults>>

Record == Members(Table) \X Key
Sides == {"source", "target"}
Position == [time : Nat, id : Nat]
Change == [record : Record, op : {"INSERT", "UPDATE", "DELETE"}, time : Nat,
           version : Nat, origin : Sides, synchronized : BOOLEAN]
Null == [time |-> 0, id |-> 0]
Resting == [pc |-> "idle", from |-> [source |-> Null, target |-> Null],
            sourceLogs |-> {}, targetLogs |-> {}, side |-> "target",
            left |-> {}, batch |-> <<>>, tables |-> <<>>, offset |-> 0,
            page |-> {}, read |-> {}]
Sync == [pc : {"idle", "logs", "targetLogs", "resolve", "plan", "batch",
               "mark", "advance", "done", "page", "copy"},
         from : [Sides -> Position], sourceLogs : SUBSET Nat,
         targetLogs : SUBSET Nat, side : Sides, left : SUBSET Nat,
         batch : Seq(Nat), tables : Seq(Members(Table)), offset : Nat,
         page : SUBSET (Record \X Nat), read : SUBSET Nat]

TypeOK ==
    /\ source \in [Record -> Nat] /\ target \in [Record -> Nat]
    /\ log \in Seq(Change)
    /\ clock \in Nat
    /\ checkpoint \in [Sides -> Position]
    /\ config \in Configs
    /\ sync \in Sync
    /\ copied \subseteq DOMAIN log
    /\ faults \in Nat

Init ==
    /\ source = [r \in Record |-> 0] /\ target = [r \in Record |-> 0]
    /\ log = <<>>
    /\ clock = 0
    /\ checkpoint = [s \in Sides |-> Null]
    /\ config \in Configs
    /\ sync = Resting
    /\ copied = {}
    /\ faults = 0

-----------------------------------------------------------------------------
(* The applications that use the databases (external).                     *)

Written(db, record, op) ==
    [db EXCEPT ![record] = IF op = "upsert" THEN Len(log) + 1 ELSE 0]

write(side, record, op) ==
    /\ Len(log) < MaxWrites
    /\ side = "target" => config.direction = "BIDIRECTIONAL"
    /\ LET old == IF side = "source" THEN source[record] ELSE target[record]
       IN  /\ op = "delete" => old # 0
           /\ op = "upsert" => old = 0 \/ record[1] \notin Bare
           /\ log' = Append(log,
                  [record |-> record, origin |-> side, synchronized |-> FALSE,
                   op |-> IF op = "delete" THEN "DELETE"
                          ELSE IF old = 0 THEN "INSERT" ELSE "UPDATE",
                   time |-> clock,
                   version |-> IF op = "delete" THEN 0 ELSE Len(log) + 1])
    /\ IF side = "source"
       THEN source' = Written(source, record, op) /\ UNCHANGED target
       ELSE target' = Written(target, record, op) /\ UNCHANGED source
    /\ UNCHANGED <<clock, checkpoint, config, sync, copied, faults>>

\* Only a time at which something was written passes.
tick ==
    /\ \E i \in DOMAIN log : log[i].time = clock
    /\ clock' = clock + 1
    /\ UNCHANGED <<data, log, checkpoint, config, sync, copied, faults>>

-----------------------------------------------------------------------------
(* The beginning of a job: the row is read with its checkpoints once.      *)

goto(pc) == sync' = [sync EXCEPT !.pc = pc]

begin(mode, metadata) ==
    /\ sync.pc = "idle"
    /\ sync' = [Resting EXCEPT !.pc = IF mode = "full" THEN "page" ELSE "logs",
                               !.from = checkpoint,
                               !.tables = IF mode = "full"
                                   THEN getTablesInDependencyOrder(Table,
                                            ForeignKeys, metadata, FALSE)
                                   ELSE <<>>]
    /\ UNCHANGED <<data, log, clock, checkpoint, config, copied, faults>>

\* `<ISO milliseconds>:<id>', the checkpoint of a change, and what `gt' makes of two.
Stamp(i) == [time |-> log[i].time, id |-> FirstId + i]
After(s, c) == \/ s.time > c.time
               \/ s.time = c.time /\ <<c.id, s.id>> \in TextOrder

\* Mutant: a null checkpoint for every run.
PendingAlways(origin, after) ==
    {i \in DOMAIN log : log[i].origin = origin /\ ~log[i].synchronized}

\* Mutant: an off-by-one behind the checkpoint.
PendingLater(origin, after) ==
    {i \in DOMAIN log : /\ log[i].origin = origin
                        /\ ~log[i].synchronized
                        /\ after # Null => log[i].time > after.time + 1}

\* The unsynchronized changes behind the checkpoint; behind a null one all are.
Pending(origin, after) ==
    {i \in DOMAIN log : /\ log[i].origin = origin
                        /\ ~log[i].synchronized
                        /\ After(Stamp(i), after)}

findSourceLogs ==
    /\ sync.pc = "logs"
    /\ sync' = [sync EXCEPT
                   !.sourceLogs = Pending("source", sync.from.source),
                   !.pc = IF config.direction = "BIDIRECTIONAL"
                          THEN "targetLogs" ELSE "plan"]
    /\ UNCHANGED <<data, log, clock, checkpoint, config, copied, faults>>

findTargetLogs ==
    /\ sync.pc = "targetLogs"
    /\ sync' = [sync EXCEPT
                   !.targetLogs = Pending("target", sync.from.target),
                   !.pc = "resolve"]
    /\ UNCHANGED <<data, log, clock, checkpoint, config, copied, faults>>

\* detectConflicts: a source change whose record has a target change too.
Conflicting ==
    {i \in sync.sourceLogs : \E j \in sync.targetLogs :
        log[j].record = log[i].record}

\* Mutant: a conflict that cannot be stored is taken for one that is resolved.
resolveAny ==
    /\ sync.pc = "resolve"
    /\ goto("plan")
    /\ UNCHANGED <<data, log, clock, checkpoint, config, copied, faults>>

\* resolveConflict of the first stores it with the time of the target's change, which the
\* handler has dropped: whatever the strategy, the insert throws (`refuse').
resolveConflicts ==
    /\ sync.pc = "resolve"
    /\ Conflicting = {}
    /\ goto("plan")
    /\ UNCHANGED <<data, log, clock, checkpoint, config, copied, faults>>

-----------------------------------------------------------------------------
(* The batches of a direction, table by table.                             *)

\* The tables of the changes in the order in which they first occur, the changes being in
\* the order of their times and those of one time in any.
ChangesByTable(changes) ==
    LET first(t) == Min({log[i].time : i \in {j \in changes : log[j].record[1] = t}})
    IN  {tables \in SetToSeqs({log[i].record[1] : i \in changes}) :
            \A m, n \in DOMAIN tables : m < n => first(tables[m]) <= first(tables[n])}

\* The changes of a direction, table by table in dependency order; if the metadata cannot
\* be read, the tables keep theirs (strict ordering fails instead: `fail').
plan(changes, side, metadata) ==
    \E tables \in ChangesByTable(changes) :
        sync' = [sync EXCEPT !.pc = "batch", !.side = side, !.left = changes,
                    !.tables = getTablesInDependencyOrder(tables, ForeignKeys,
                                                          metadata, FALSE)]

planSource(metadata) ==
    /\ sync.pc = "plan"
    /\ plan(sync.sourceLogs, "target", metadata)
    /\ UNCHANGED <<data, log, clock, checkpoint, config, copied, faults>>

\* What is left of the table.
Here == {i \in sync.left : log[i].record[1] = Head(sync.tables)}

\* slice(i, i + batchSize) of the table's changes by time, those of one time in any order.
\* validateChange refuses none: a captured change has its key, and an INSERT or UPDATE
\* its data.
Slices ==
    LET size == Min({config.batchSize, Cardinality(Here)})
    IN  {batch \in [1 .. size -> Here] :
            /\ \A m, n \in 1 .. size : m < n =>
                   batch[m] # batch[n] /\ log[batch[m]].time <= log[batch[n]].time
            /\ \A i \in Here \ Members(batch), n \in 1 .. size :
                   log[batch[n]].time <= log[i].time}

\* An INSERT of the record comes before the batch's n-th change.
InsertedBefore(batch, n) ==
    \E m \in 1 .. n - 1 : /\ log[batch[m]].record = log[batch[n]].record
                          /\ log[batch[m]].op = "INSERT"

\* sanitizeData of the NULL data of a captured DELETE throws; so does the
\* plain INSERT of a row that is there, of a table of key columns only.
Throws(db, batch) ==
    \E n \in DOMAIN batch :
        LET change == log[batch[n]]
        IN  \/ change.op = "DELETE"
            \/ /\ change.op = "INSERT" /\ change.record[1] \in Bare
               /\ db[change.record] # 0 \/ InsertedBefore(batch, n)

\* INSERT updates or inserts; UPDATE of a missing row changes nothing.
Applied(db, batch) ==
    [r \in Record |->
        LET effective == {n \in DOMAIN batch :
                /\ log[batch[n]].record = r
                /\ \/ log[batch[n]].op = "INSERT" \/ db[r] # 0
                   \/ InsertedBefore(batch, n)}
        IN  IF effective = {} THEN db[r] ELSE log[batch[Max(effective)]].version]

Marking(changes) ==
    [i \in DOMAIN log |-> IF i \in changes
                          THEN [log[i] EXCEPT !.synchronized = TRUE] ELSE log[i]]

\* Mutant: the changes are marked, and never applied.
markFirst ==
    /\ sync.pc = "batch"
    /\ sync.tables # <<>>
    /\ Here # {}
    /\ \E batch \in Slices :
           /\ log' = Marking(Members(batch))
           /\ sync' = [sync EXCEPT !.pc = "mark", !.batch = batch]
    /\ UNCHANGED <<data, clock, checkpoint, config, copied, faults>>

\* One transaction of one table.  A table whose changes are all done gives
\* way to the next, and the last one to the other direction or to the end.
applyChangeBatch ==
    /\ sync.pc = "batch"
    /\ sync.tables # <<>>
    /\ Here # {}
    /\ \E batch \in Slices :
           /\ ~Throws(IF sync.side = "target" THEN target ELSE source, batch)
           /\ IF sync.side = "target"
              THEN target' = Applied(target, batch) /\ UNCHANGED source
              ELSE source' = Applied(source, batch) /\ UNCHANGED target
           /\ sync' = [sync EXCEPT !.pc = "mark", !.batch = batch]
    /\ UNCHANGED <<log, clock, checkpoint, config, copied, faults>>

markSynchronized ==
    /\ sync.pc = "mark"
    /\ log' = Marking(Members(sync.batch))
    /\ goto("advance")
    /\ UNCHANGED <<data, clock, checkpoint, config, copied, faults>>

Origin == IF sync.side = "target" THEN "source" ELSE "target"

Advanced(change) ==
    /\ checkpoint' = [checkpoint EXCEPT ![Origin] = Stamp(change)]
    /\ sync' = [sync EXCEPT !.pc = "batch", !.left = @ \ Members(sync.batch),
                            !.batch = <<>>]
    /\ UNCHANGED <<data, log, clock, config, copied, faults>>

\* Mutant: the checkpoint is the last change of the table, not of the batch.
checkpointOfTable ==
    /\ sync.pc = "advance"
    /\ Advanced(Max(Here))

\* lastChange of the batch.
updateCheckpoint ==
    /\ sync.pc = "advance"
    /\ Advanced(sync.batch[Len(sync.batch)])

nextTable ==
    /\ sync.pc = "batch"
    /\ sync.tables # <<>>
    /\ Here = {}
    /\ sync' = [sync EXCEPT !.tables = Tail(@)]
    /\ UNCHANGED <<data, log, clock, checkpoint, config, copied, faults>>

planTarget(metadata) ==
    /\ sync.pc = "batch"
    /\ sync.tables = <<>>
    /\ IF sync.side = "target" /\ sync.targetLogs # {}
       THEN plan(sync.targetLogs, "source", metadata)
       ELSE goto("done")
    /\ UNCHANGED <<data, log, clock, checkpoint, config, copied, faults>>

-----------------------------------------------------------------------------
(* A full run copies table after table, page after page.                   *)

Rows(t) == {r \in Record : r[1] = t /\ source[r] # 0}

\* SELECT ... LIMIT ... OFFSET without ORDER BY: any rows of the right number.
\* A short page is the table's last.
fetchTableRecordsPaginated ==
    /\ sync.pc = "page"
    /\ sync.tables # <<>>
    /\ LET rows == Rows(Head(sync.tables))
           size == Min({PageSize, Max({0, Cardinality(rows) - sync.offset})})
       IN  \E page \in kSubset(size, rows) :
               sync' = [sync EXCEPT
                   !.pc = IF size = 0 THEN "page" ELSE "copy",
                   !.page = {<<r, source[r]>> : r \in page},
                   !.read = @ \cup {i \in DOMAIN log : log[i].record \in page},
                   !.offset = IF size < PageSize THEN 0 ELSE @ + size,
                   !.tables = IF size < PageSize THEN Tail(@) ELSE @]
    /\ UNCHANGED <<data, log, clock, checkpoint, config, copied, faults>>

\* The primary key is looked up once per table, and an error of the lookup
\* is an empty key: the table is passed over.
skipTable ==
    /\ sync.pc = "page"
    /\ sync.tables # <<>>
    /\ sync.offset = 0
    /\ faults < MaxFaults
    /\ faults' = faults + 1
    /\ sync' = [sync EXCEPT !.tables = Tail(@)]
    /\ UNCHANGED <<data, log, clock, checkpoint, config, copied>>

\* A batch of the page as it was read, each row an INSERT.
applyPage ==
    /\ sync.pc = "copy"
    /\ \E batch \in kSubset(Min({config.batchSize, Cardinality(sync.page)}), sync.page) :
        /\ \A e \in batch : e[1][1] \in Bare => target[e[1]] = 0
        /\ target' = [r \in Record |->
                         IF \E e \in batch : e[1] = r
                         THEN (CHOOSE e \in batch : e[1] = r)[2] ELSE target[r]]
        /\ sync' = [sync EXCEPT !.page = @ \ batch,
                       !.pc = IF sync.page = batch THEN "page" ELSE "copy"]
    /\ UNCHANGED <<source, log, clock, checkpoint, config, copied, faults>>

\* The checkpoint is the time at which the copy has ended, `<now>:0': what was written
\* since it began, and perhaps after its table was read, is behind it.
establishCheckpoint ==
    /\ sync.pc = "page"
    /\ sync.tables = <<>>
    /\ checkpoint' = [checkpoint EXCEPT !.source = [time |-> clock, id |-> 0]]
    /\ copied' = copied \cup sync.read
    /\ goto("done")
    /\ UNCHANGED <<data, log, clock, config, faults>>

-----------------------------------------------------------------------------
(* The end of a job.                                                       *)

\* Mutant: the end is written, the rest is not reset.
finishOnly ==
    /\ sync.pc = "done"
    /\ goto("completed")
    /\ UNCHANGED <<data, log, clock, checkpoint, config, copied, faults>>

finish ==
    /\ sync.pc = "done"
    /\ sync' = Resting
    /\ UNCHANGED <<data, log, clock, checkpoint, config, copied, faults>>

\* A job that ends early leaves what it has written.
abandon ==
    /\ sync' = Resting
    /\ UNCHANGED <<data, log, clock, checkpoint, config, copied>>

\* A conflict that cannot be stored; a change that the database refuses, and its batch is
\* rolled back.
refuse ==
    /\ \/ sync.pc = "resolve" /\ Conflicting # {}
       \/ /\ sync.pc = "batch" /\ sync.tables # <<>> /\ Here # {}
          /\ \E batch \in Slices :
                 Throws(IF sync.side = "target" THEN target ELSE source, batch)
       \/ /\ sync.pc = "copy"
          /\ \E e \in sync.page : e[1][1] \in Bare /\ target[e[1]] # 0
    /\ abandon
    /\ UNCHANGED faults

\* Any call fails, or the process dies.
fail ==
    /\ sync.pc # "idle"
    /\ faults < MaxFaults
    /\ faults' = faults + 1
    /\ abandon

-----------------------------------------------------------------------------

incremental ==
    \/ findSourceLogs \/ findTargetLogs \/ resolveConflicts
    \/ \E m \in BOOLEAN : planSource(m) \/ planTarget(m)
    \/ applyChangeBatch \/ markSynchronized \/ updateCheckpoint \/ nextTable

full == fetchTableRecordsPaginated \/ applyPage \/ establishCheckpoint

job == incremental \/ full \/ refuse \/ finish

Next ==
    \/ \E s \in Sides, r \in Record, op \in Ops : write(s, r, op)
    \/ tick
    \/ \E m \in config.modes, known \in BOOLEAN : begin(m, known)
    \/ job \/ skipTable \/ fail

\* The real-time check begins a run whenever changes are not synchronized.
checkChanges ==
    /\ \E i \in DOMAIN log : ~log[i].synchronized
    /\ begin("incremental", TRUE)

Spec == Init /\ [][Next]_vars
\* The timer turns for ever; nobody triggers full runs before each of its turns.
FairSpec == Spec /\ WF_vars(job) /\ SF_vars(checkChanges)

-----------------------------------------------------------------------------
(* Properties.                                                             *)

\* A source change marked synchronized is in the target, or something later
\* is, or it could not take effect because an earlier change of its record
\* was passed by (incremental-sync.handler.ts: apply, then mark), or another
\* change of its record has its time and may have come after it.  A full run
\* of a two-way configuration may put an older row back.
MarkedIsApplied ==
    \A i \in DOMAIN log :
        log[i].synchronized /\ log[i].origin = "source" =>
            \/ config.direction = "BIDIRECTIONAL" /\ "full" \in config.modes
            \/ target[log[i].record] >= i
            \/ \E j \in DOMAIN log \ {i} :
                   /\ log[j].record = log[i].record
                   /\ \/ log[j].time = log[i].time
                      \/ j > i /\ log[j].op = "DELETE"
                      \/ j < i /\ ~log[j].synchronized

\* The two databases never exchange a row: a run does not write to one side
\* a change of a record whose change of the other side it has read too.
NoExchange ==
    sync.pc \in {"mark", "advance"} =>
        LET other == IF sync.side = "target" THEN sync.targetLogs
                                             ELSE sync.sourceLogs
        IN  \A i \in Members(sync.batch), j \in other : log[i].record # log[j].record

\* Within a run a checkpoint may go back from one table to the next, never
\* behind the one the run began with; after a full copy it is a time.
CheckpointHolds ==
    sync.pc # "idle" => \A s \in Sides :
        \/ checkpoint[s] = sync.from[s]
        \/ After(checkpoint[s], sync.from[s])
        \/ checkpoint[s].id = 0 /\ checkpoint[s].time >= sync.from[s].time

\* Behind this no run reads from now on.
Floor(s) == IF sync.pc = "idle" THEN checkpoint[s] ELSE sync.from[s]

LogShown == [i \in DOMAIN log |-> [row |-> log[i].record, side |-> log[i].origin,
                                  time |-> log[i].time,
                                  delete |-> log[i].op = "DELETE"]]
Marked == {i \in DOMAIN log : log[i].synchronized}

\* A run delivers the changes as ChangeDelivery promises, step by step: each once, those
\* of a table in the order of their times; and each checkpoint stands at a change that is
\* marked, not behind the one the run began with, after every failure and crash too
\* (incremental-sync.handler.ts: apply, mark, then updateCheckpoint).
Delivery == INSTANCE ChangeDelivery WITH
    Row <- Record, Side <- Sides, changes <- LogShown, now <- clock, delivered <- Marked,
    position <- checkpoint, floor <- [s \in Sides |-> Floor(s)]

ImplementsDelivery == Delivery!Spec

\* Source changes that are neither in the target nor ever read again.
Overtaken ==
    {i \in DOMAIN log : /\ log[i].origin = "source" /\ ~log[i].synchronized
                        /\ i \notin copied
                        /\ ~After(Stamp(i), checkpoint.source)}

\* A step of an incremental run lets a change fall behind the checkpoint only because the
\* run has gone on to another table, or because a change of the same time was marked and
\* its checkpoint is the greater text: within a table, nothing of an earlier time.
OnlyTablesOvertake ==
    [][sync.pc \notin {"page", "copy"} =>
        \A i \in Overtaken' \ Overtaken :
            \E j \in DOMAIN log :
                /\ log[j].synchronized
                /\ \/ log'[i].time = log[j].time
                   \/ /\ log'[i].time < log[j].time
                      /\ log'[i].record[1] # log[j].record[1]]_vars

\* One way, the target becomes the source, unless a change was passed by or
\* is one that no run can apply, or the record has two of one time.
Converges ==
    <>[](\/ config.direction = "BIDIRECTIONAL"
         \/ Overtaken # {}
         \/ \E i \in DOMAIN log : ~log[i].synchronized /\ Throws(target, <<i>>)
         \/ \E i, j \in DOMAIN log : /\ i # j /\ log[i].time = log[j].time
                                      /\ log[i].record = log[j].record
         \/ target = source)

\* `pause sync for affected records': the change of a record of which the other side has
\* no change gets across, whatever has become of the others, unless it was passed by.
PausesOnlyAffected ==
    \A r \in Record : <>[](\A i \in DOMAIN log :
        log[i].record = r /\ ~log[i].synchronized =>
            \/ \E j \in DOMAIN log : /\ log[j].record = r /\ ~log[j].synchronized
                                      /\ log[j].origin # log[i].origin
            \/ ~After(Stamp(i), checkpoint[log[i].origin]))
=============================================================================
