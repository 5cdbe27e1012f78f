----------------------------- MODULE Migrations -----------------------------
(***************************************************************************)
(* One migration: its row, its job with two attempts, the runs of its job   *)
(* (a job that stalled runs beside the run that lost it), the tables of the  *)
(* target as they are copied in batches of one row, and the verification of  *)
(* the result.  Dumps of MySQL and PostgreSQL read one snapshot; a copy       *)
(* between the two kinds reads page after page.                               *)
(***************************************************************************)
EXTENDS Naturals, Sequences, FiniteSets

CONSTANTS MigWorker,    \* the worker's places: its concurrency
          TableOf,      \* the source's tables, in the order they are copied
          RowsOf,       \* the rows of each at the start
          Keyed,        \* tables with a primary key
          Indexed,      \* tables with another index
          OldRow,       \* a row that the target may hold before
          MigKinds,     \* the migrations to look at, see kind
          MaxStalls     \* bound: losses of the job's lock

MigTable == {TableOf[i] : i \in 1 .. Len(TableOf)}
MigRow == {OldRow} \cup UNION {{RowsOf[t][i] : i \in 1 .. Len(RowsOf[t])} : t \in MigTable}
Absent == <<"no table">>
Nobody == "nobody"

ASSUME MigrationsAssumption ==
    /\ MaxStalls \in Nat /\ Nobody \notin MigWorker
    /\ TableOf \in Seq(MigTable) \ {<<>>} /\ Cardinality(MigTable) = Len(TableOf)
    /\ MigTable \subseteq DOMAIN RowsOf /\ \A t \in MigTable : RowsOf[t] \in Seq(MigRow)
    /\ Absent[1] \notin MigRow
    /\ MigKinds \subseteq [engines : {"MYSQL", "PG", "CROSS"}, ghost : BOOLEAN,
                            before : SUBSET MigTable, unlike : SUBSET MigTable]
    /\ Keyed \subseteq MigTable /\ Indexed \subseteq MigTable

VARIABLES
    kind,       \* [engines: MYSQL, PG or CROSS; ghost: a table is selected that
                \* the source does not have; before: tables the target holds;
                \* unlike: tables with a type that the copy makes another one]
    migration,  \* Migration.status, NONE without a row
    mjob,       \* [st, tries, stalls, holder]
    mrun,       \* per place: [pc, i: table, n: row, seen: the dump's snapshot]
    source, target,
    deleting,   \* a request to delete that has looked at the status
    verdict,    \* of the last verification: NONE, OK or MISMATCH
    copied,     \* history: the rows that the completed run read
    forsaken,   \* history: the row's last write, at an attempt's start or end, was
                \* refused, or the job was given up at its second stall
    disturbed   \* history: two runs at a time, a write while pages are read, pages in
                \* another order than the first, or an attempt over rows of an
                \* earlier one that no key protects

migrationsVars == <<kind, migration, mjob, mrun, source, target, deleting, verdict,
                    copied, forsaken, disturbed>>

NoMigRun == [pc |-> "idle", i |-> 0, n |-> 0, seen |-> <<>>]
Before(t) == IF t \in kind.before THEN <<OldRow>> ELSE Absent
Holds(s) == {s[i] : i \in DOMAIN s}

MigrationsTypeOK ==
    /\ kind \in MigKinds
    /\ migration \in {"NONE", "PENDING", "RUNNING", "COMPLETED", "FAILED"}
    /\ mjob \in [st : {"none", "waiting", "active", "completed", "failed"},
                 tries : 0 .. 2, stalls : 0 .. MaxStalls + 1,
                 holder : MigWorker \cup {Nobody}]
    /\ \A w \in MigWorker :
           /\ mrun[w].pc \in {"idle", "begin", "schema", "create", "copy", "complete",
                              "fail", "done", "failed"}
           /\ mrun[w].pc \in {"create", "copy"} => mrun[w].i \in DOMAIN TableOf
    /\ \A t \in MigTable : Holds(source[t]) \subseteq MigRow
                           /\ (target[t] = Absent \/ Holds(target[t]) \subseteq MigRow)
    /\ \A t \in Keyed : target[t] # Absent =>
           Cardinality(Holds(target[t])) = Len(target[t])
    /\ {deleting, forsaken, disturbed} \subseteq BOOLEAN
    /\ verdict \in {"NONE", "OK", "MISMATCH"}

MigrationsInit ==
    /\ kind \in MigKinds
    /\ migration = "NONE"
    /\ mjob = [st |-> "none", tries |-> 0, stalls |-> 0, holder |-> Nobody]
    /\ mrun = [w \in MigWorker |-> NoMigRun]
    /\ source = [t \in MigTable |-> RowsOf[t]]
    /\ target = [t \in MigTable |-> Before(t)]
    /\ deleting = FALSE /\ verdict = "NONE" /\ copied = <<>>
    /\ forsaken = FALSE /\ disturbed = FALSE

tables == <<source, target>>
judged == <<verdict, copied, forsaken>>

-----------------------------------------------------------------------------
(* The requests (migration.controller.ts).                                 *)

createMigration ==
    /\ migration = "NONE" /\ mjob.st = "none"
    /\ migration' = "PENDING"
    /\ mjob' = [mjob EXCEPT !.st = "waiting"]
    /\ UNCHANGED <<kind, mrun, tables, deleting, judged, disturbed>>

beginDelete ==
    /\ migration \notin {"NONE", "RUNNING"} /\ ~deleting
    /\ deleting' = TRUE
    /\ UNCHANGED <<kind, migration, mjob, mrun, tables, judged, disturbed>>

deleteMigration ==
    /\ deleting
    /\ migration' = "NONE" /\ deleting' = FALSE
    /\ UNCHANGED <<kind, mjob, mrun, tables, judged, disturbed>>

\* Copies between engines create no index but the primary key's.
IndexesMatch(t) == kind.engines = "CROSS" => t \notin Indexed

\* The validator refuses a type that a copy between engines, or MariaDB, has made of
\* another (enum as text, json as jsonb or longtext, uuid as varchar).
TypesMatch(t) == t \notin kind.unlike

\* The rows themselves are compared between MySQL servers only, and not when
\* that takes too long: a sample in the order of the key, or of an index.
RowsMatch(t) ==
    IF t \in Keyed THEN Holds(target[t]) = Holds(source[t])
    ELSE t \in Indexed => target[t] = source[t]

\* A selected table that the source does not have is passed over.
verifyTables(deep) ==
    \A t \in MigTable :
        /\ target[t] # Absent /\ Len(target[t]) = Len(source[t])
        /\ TypesMatch(t) /\ IndexesMatch(t)
        /\ deep /\ kind.engines = "MYSQL" => RowsMatch(t)

\* Mutant: a selected table that the source lacks counts as missing.
verifySelected ==
    /\ migration = "COMPLETED"
    /\ \E deep \in BOOLEAN :
           verdict' = IF verifyTables(deep) /\ ~kind.ghost THEN "OK" ELSE "MISMATCH"
    /\ UNCHANGED <<kind, migration, mjob, mrun, tables, deleting, copied, forsaken, disturbed>>

verifyMigration ==
    /\ migration = "COMPLETED"
    /\ \E deep \in BOOLEAN :
           verdict' = IF verifyTables(deep) THEN "OK" ELSE "MISMATCH"
    /\ UNCHANGED <<kind, migration, mjob, mrun, tables, deleting, copied, forsaken, disturbed>>

-----------------------------------------------------------------------------
(* A run.                                                                  *)

step(w, pc) == mrun' = [mrun EXCEPT ![w].pc = pc]
Replaces == kind.engines # "PG"
Read(w) == IF kind.engines = "CROSS" THEN source ELSE mrun[w].seen

pickMigration(w) ==
    /\ mjob.st = "waiting" /\ mrun[w].pc = "idle"
    /\ mjob' = [mjob EXCEPT !.st = "active", !.holder = w]
    /\ step(w, "begin")
    /\ disturbed' = (disturbed \/ \E v \in MigWorker : mrun[v].pc # "idle")
    /\ UNCHANGED <<kind, migration, tables, deleting, judged>>

\* Rows of an earlier attempt that no duplicate key will reveal.
Leftover(t) ==
    /\ target[t] \notin {Before(t), <<>>, Absent}
    /\ t \in Keyed =>
           ~(Holds(target[t]) \subseteq
                 (IF t \in kind.before THEN {OldRow} ELSE {}) \cup Holds(source[t]))

\* An update that is refused, as that of a row that is gone, fails the attempt before
\* anything is read.
startMigration(w) ==
    /\ mrun[w].pc = "begin"
    /\ \/ /\ step(w, "failed") /\ forsaken' = TRUE
          /\ UNCHANGED <<migration, disturbed>>
       \/ /\ migration # "NONE"
          /\ migration' = "RUNNING" /\ forsaken' = FALSE
          /\ mrun' = [mrun EXCEPT ![w] =
                         [pc |-> IF Replaces THEN "create" ELSE "schema", i |-> 1,
                          n |-> 1, seen |-> source]]
          /\ disturbed' = (disturbed \/ (~Replaces /\ \E t \in MigTable : Leftover(t)))
    /\ UNCHANGED <<kind, mjob, tables, deleting, verdict, copied>>

\* PostgreSQL: what is missing is created first, all of it or up to an error.
createMissing(w) ==
    /\ mrun[w].pc = "schema"
    /\ \E done \in SUBSET {t \in MigTable : target[t] = Absent} :
           /\ target' = [t \in MigTable |-> IF t \in done THEN <<>> ELSE target[t]]
           /\ step(w, IF \A t \in MigTable : target'[t] # Absent THEN "copy" ELSE "fail")
    /\ UNCHANGED <<kind, migration, mjob, source, deleting, judged, disturbed>>

\* Mutant: a table that is there is kept.
createIfAbsent(w) ==
    LET t == TableOf[mrun[w].i] IN
    /\ mrun[w].pc = "create"
    /\ target' = [target EXCEPT ![t] = IF @ = Absent THEN <<>> ELSE @]
    /\ step(w, "copy")
    /\ UNCHANGED <<kind, migration, mjob, source, deleting, judged, disturbed>>

dropAndCreate(w) ==
    LET t == TableOf[mrun[w].i] IN
    /\ mrun[w].pc = "create"
    /\ target' = [target EXCEPT ![t] = <<>>]
    /\ step(w, "copy")
    /\ UNCHANGED <<kind, migration, mjob, source, deleting, judged, disturbed>>

\* A dump has one order.  The pages of a copy between engines (LIMIT, OFFSET) are asked
\* for without one: each may give any of the rows.
Batch(w, t) == IF kind.engines = "CROSS" THEN Holds(source[t]) ELSE {Read(w)[t][mrun[w].n]}

\* A batch; the statement fails on a duplicate key, or without the table.
copyBatch(w) ==
    LET t == TableOf[mrun[w].i] IN
    /\ mrun[w].pc = "copy" /\ mrun[w].n <= Len(Read(w)[t])
    /\ \E r \in Batch(w, t) :
           /\ IF target[t] = Absent \/ (t \in Keyed /\ r \in Holds(target[t]))
              THEN step(w, "fail") /\ UNCHANGED target
              ELSE /\ target' = [target EXCEPT ![t] = Append(@, r)]
                   /\ mrun' = [mrun EXCEPT ![w].n = @ + 1]
           /\ disturbed' = (disturbed \/ r # Read(w)[t][mrun[w].n])
    /\ UNCHANGED <<kind, migration, mjob, source, deleting, judged>>

\* mysqldump ends with an error when it was given a table that is not there.
nextMigTable(w) ==
    /\ mrun[w].pc = "copy" /\ mrun[w].n > Len(Read(w)[TableOf[mrun[w].i]])
    /\ mrun' = [mrun EXCEPT ![w] =
           IF @.i < Len(TableOf)
           THEN [@ EXCEPT !.pc = IF Replaces THEN "create" ELSE "copy",
                          !.i = mrun[w].i + 1, !.n = 1]
           ELSE [@ EXCEPT !.pc = IF kind.ghost /\ kind.engines = "MYSQL"
                                 THEN "fail" ELSE "complete"]]
    /\ UNCHANGED <<kind, migration, mjob, tables, deleting, judged, disturbed>>

\* Any call on the way: a tunnel, a server, a pipe one of whose ends stops; the update,
\* and what publishes and reads after it: a migration that is COMPLETED fails then.
failMigration(w) ==
    /\ mrun[w].pc \in {"schema", "create", "copy", "complete", "done"}
    /\ step(w, "fail")
    /\ UNCHANGED <<kind, migration, mjob, tables, deleting, judged, disturbed>>

\* The update of a row that is gone is refused.
completeMigration(w) ==
    /\ mrun[w].pc = "complete" /\ migration # "NONE"
    /\ step(w, "done") /\ migration' = "COMPLETED" /\ copied' = Read(w)
    /\ UNCHANGED <<kind, mjob, tables, deleting, verdict, forsaken, disturbed>>

\* This update may be refused like any other.
markMigrationFailed(w) ==
    /\ mrun[w].pc = "fail"
    /\ \/ migration # "NONE" /\ migration' = "FAILED" /\ UNCHANGED forsaken
       \/ forsaken' = TRUE /\ UNCHANGED migration
    /\ step(w, "failed")
    /\ UNCHANGED <<kind, mjob, tables, deleting, verdict, copied, disturbed>>

-----------------------------------------------------------------------------
(* The queue: two attempts, one return after a stall.                      *)

endMigrationJob(w) ==
    /\ mrun[w].pc \in {"done", "failed"}
    /\ mjob' = IF mjob.holder # w THEN mjob
               ELSE [mjob EXCEPT !.holder = Nobody,
                        !.st = IF mrun[w].pc = "done" THEN "completed"
                               ELSE IF mjob.tries = 0 THEN "waiting" ELSE "failed",
                        !.tries = @ + 1]
    /\ mrun' = [mrun EXCEPT ![w] = NoMigRun]
    /\ UNCHANGED <<kind, migration, tables, deleting, judged, disturbed>>

\* The process stalls, and goes on, or dies with its runs.
stallMigration(dies) ==
    /\ mjob.st = "active" /\ mjob.stalls < MaxStalls
    /\ mjob' = [mjob EXCEPT !.holder = Nobody, !.stalls = @ + 1,
                            !.st = IF mjob.stalls = 0 THEN "waiting" ELSE "failed"]
    /\ forsaken' = (forsaken \/ mjob.stalls > 0)
    /\ mrun' = IF dies THEN [w \in MigWorker |-> NoMigRun] ELSE mrun
    /\ UNCHANGED <<kind, migration, tables, deleting, verdict, copied, disturbed>>

\* An application deletes a row of the source (bound: one of each table).
writeSource(t) ==
    /\ source[t] = RowsOf[t] /\ source[t] # <<>>
    /\ source' = [source EXCEPT ![t] = Tail(@)]
    /\ disturbed' = (disturbed \/ (kind.engines = "CROSS" /\ migration = "RUNNING"))
    /\ UNCHANGED <<kind, migration, mjob, mrun, target, deleting, judged>>

runMigration(w) ==
    \/ startMigration(w) \/ createMissing(w) \/ dropAndCreate(w) \/ copyBatch(w)
    \/ nextMigTable(w) \/ failMigration(w) \/ completeMigration(w)
    \/ markMigrationFailed(w) \/ endMigrationJob(w)

MigrationsNext ==
    \/ createMigration \/ beginDelete \/ deleteMigration \/ verifyMigration
    \/ \E w \in MigWorker : pickMigration(w) \/ runMigration(w)
    \/ \E dies \in BOOLEAN : stallMigration(dies)
    \/ \E t \in MigTable : writeSource(t)

MigrationsSpec == MigrationsInit /\ [][MigrationsNext]_migrationsVars

\* The worker takes what waits, and its calls return.
MigrationsFairness ==
    \A w \in MigWorker : /\ WF_migrationsVars(runMigration(w))
                         /\ WF_migrationsVars(pickMigration(w))

-----------------------------------------------------------------------------

\* A migration that completed left in the target what it read: all of it, once,
\* and nothing else but what a PostgreSQL target held before; whatever earlier
\* attempts left behind (migration.queue.ts, attempts 2; the executors).  That takes
\* pages in one order, which a copy between engines does not ask for (cross-migrators.ts:75).
CompletedIsSource ==
    migration = "COMPLETED" /\ ~disturbed =>
        \A t \in MigTable :
            target[t] = (IF Replaces \/ Before(t) = Absent THEN <<>> ELSE Before(t))
                        \o copied[t]

\* A verification of such a migration finds nothing, unless the source went on, an index
\* was not copied, a type was made another one on the way or the target held rows
\* (verifyMigrationConsistency).
VerificationAgrees ==
    [][verdict # "MISMATCH" /\ verdict' = "MISMATCH" =>
           \/ disturbed \/ copied # source \/ kind.unlike # {}
           \/ kind.engines = "CROSS" /\ Indexed # {}
           \/ kind.engines = "PG" /\ kind.before # {}]_migrationsVars

\* What must not last: a row that says RUNNING, except when its last write was refused
\* (migration.queue.ts:51, 134) or its job has stalled twice; nothing looks for such a
\* row later, and it can neither be deleted nor run again.
MigrationUnderWay == migration = "RUNNING" /\ ~forsaken
=============================================================================
