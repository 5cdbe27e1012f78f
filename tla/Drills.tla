------------------------------- MODULE Drills -------------------------------
(***************************************************************************)
(* Restore drills of one backup: each runs in the process that answered its *)
(* request, restores into a scratch database on the source server, counts   *)
(* and drops it, and writes a verdict; the process may crash and boot again.*)
(***************************************************************************)
EXTENDS Naturals, FiniteSets

CONSTANTS Drill,                \* requests to drill the backup
          MaxDrillCrashes       \* bound

NoDrill == "none"

ASSUME DrillsAssumption == MaxDrillCrashes \in Nat /\ NoDrill \notin Drill

VARIABLES
    drilled,    \* [exists, connected]: the backup's row, its source connection
    drillRow,   \* RestoreDrill.status, NONE without a row
    drill,      \* runDrill: [pc, db: its scratch database, ok]
    scratch,    \* databases on the server: name -> the drill that created it
    drillerUp, drillCrashes

drillsVars == <<drilled, drillRow, drill, scratch, drillerUp, drillCrashes>>
process == <<drillerUp, drillCrashes>>

\* A name is the first drill that took it.
NotRunning == [pc |-> "idle", db |-> NoDrill, ok |-> FALSE]

DrillsTypeOK ==
    /\ drilled \in [exists : BOOLEAN, connected : BOOLEAN]
    /\ drillRow \in [Drill -> {"NONE", "RUNNING", "PASSED", "FAILED"}]
    /\ drill \in [Drill -> [pc : {"idle", "checked", "begin", "create", "restore",
                                  "count", "drop", "verdict", "done", "unrecorded"},
                            db : Drill \cup {NoDrill}, ok : BOOLEAN]]
    /\ scratch \in [Drill -> Drill \cup {NoDrill}]
    /\ drillerUp \in BOOLEAN /\ drillCrashes \in 0 .. MaxDrillCrashes

DrillsInit ==
    /\ drilled = [exists |-> TRUE, connected |-> TRUE]
    /\ drillRow = [d \in Drill |-> "NONE"]
    /\ drill = [d \in Drill |-> NotRunning]
    /\ scratch = [d \in Drill |-> NoDrill]
    /\ drillerUp = TRUE /\ drillCrashes = 0

-----------------------------------------------------------------------------

\* The check for a running drill, and the row, are two statements.
startRestoreDrill(d) ==
    /\ drillerUp /\ drill[d].pc = "idle" /\ drillRow[d] = "NONE"
    /\ drilled.exists
    /\ \A e \in Drill : drillRow[e] # "RUNNING"
    /\ drill' = [drill EXCEPT ![d].pc = "checked"]
    /\ UNCHANGED <<drilled, drillRow, scratch, process>>

\* The scratch database is named after the millisecond: drills that begin at
\* the same time share it.
createDrill(d) ==
    /\ drill[d].pc = "checked"
    /\ IF drilled.exists
       THEN /\ drillRow' = [drillRow EXCEPT ![d] = "RUNNING"]
            /\ \E name \in {d} \cup {drill[e].db : e \in {f \in Drill :
                                                     drill[f].pc = "begin"}} :
                   drill' = [drill EXCEPT ![d] =
                                [pc |-> "begin", db |-> name, ok |-> TRUE]]
       ELSE /\ drill' = [drill EXCEPT ![d] = NotRunning]
            /\ UNCHANGED drillRow
    /\ UNCHANGED <<drilled, scratch, process>>

drillStep(d, from, to, ok) ==
    /\ drill[d].pc = from
    /\ drill' = [drill EXCEPT ![d].pc = IF ok THEN to
                                        ELSE IF from \in {"restore", "count"}
                                        THEN "drop" ELSE "verdict",
                              ![d].ok = @ /\ ok]
    /\ UNCHANGED <<drilled, drillRow, process>>

\* The connection and a plaintext copy, from wherever it is kept.
prepareDrill(d) ==
    /\ \E ok \in BOOLEAN : /\ ok => drilled.exists /\ drilled.connected
                           /\ drillStep(d, "begin", "create", ok)
    /\ UNCHANGED scratch

\* Mutant: CREATE DATABASE IF NOT EXISTS.
createIfMissing(d) ==
    \/ /\ drillStep(d, "create", "restore", TRUE)
       /\ scratch' = IF scratch[drill[d].db] = NoDrill
                     THEN [scratch EXCEPT ![drill[d].db] = d] ELSE scratch
    \/ drillStep(d, "create", "restore", FALSE) /\ UNCHANGED scratch

createDatabase(d) ==
    \/ /\ drillStep(d, "create", "restore", TRUE)
       /\ scratch[drill[d].db] = NoDrill
       /\ scratch' = [scratch EXCEPT ![drill[d].db] = d]
    \/ drillStep(d, "create", "restore", FALSE) /\ UNCHANGED scratch

restoreScratch(d) ==
    /\ \E ok \in BOOLEAN : /\ drillStep(d, "restore", "count", ok)
                           /\ ok => scratch[drill[d].db] # NoDrill
    /\ UNCHANGED scratch

countAllTables(d) ==
    /\ \E ok \in BOOLEAN : /\ drillStep(d, "count", "drop", ok)
                           /\ ok => scratch[drill[d].db] # NoDrill
    /\ UNCHANGED scratch

\* An error of the drop is logged, and the database stays.
dropDatabase(d) ==
    /\ drill[d].pc = "drop"
    /\ drill' = [drill EXCEPT ![d].pc = "verdict"]
    /\ \/ scratch' = [scratch EXCEPT ![drill[d].db] = NoDrill]
       \/ UNCHANGED scratch
    /\ UNCHANGED <<drilled, drillRow, process>>

\* The verdict is written whatever the row says by now.  A pass that cannot be
\* written, because the row is gone or the table refuses, is a failure; a failure
\* that cannot be written is swallowed.
recordVerdict(d) ==
    /\ drill[d].pc = "verdict"
    /\ LET Ended(pc) == [drill EXCEPT ![d] = [NotRunning EXCEPT !.pc = pc]] IN
       \/ /\ drillRow[d] # "NONE"
          /\ drillRow' = [drillRow EXCEPT ![d] = IF drill[d].ok THEN "PASSED" ELSE "FAILED"]
          /\ drill' = Ended("done")
       \/ /\ drill' = IF drill[d].ok THEN [drill EXCEPT ![d].ok = FALSE]
                      ELSE Ended(IF drillRow[d] = "NONE" THEN "done" ELSE "unrecorded")
          /\ UNCHANGED drillRow
    /\ UNCHANGED <<drilled, scratch, process>>

cancelStaleDrill(d) ==
    /\ drillerUp /\ drillRow[d] = "RUNNING"
    /\ drillRow' = [drillRow EXCEPT ![d] = "FAILED"]
    /\ UNCHANGED <<drilled, drill, scratch, process>>

-----------------------------------------------------------------------------
(* The process, the backup and its connection.                             *)

crashDrills ==
    /\ drillerUp /\ drillCrashes < MaxDrillCrashes
    /\ drillerUp' = FALSE /\ drillCrashes' = drillCrashes + 1
    /\ drill' = [d \in Drill |-> IF drill[d].pc = "idle" THEN drill[d]
                                 ELSE [NotRunning EXCEPT !.pc = "done"]]
    /\ UNCHANGED <<drilled, drillRow, scratch>>

\* Mutant: the boot leaves the drills to their requests.
bootOnly ==
    /\ ~drillerUp /\ drillerUp' = TRUE
    /\ UNCHANGED <<drilled, drillRow, drill, scratch, drillCrashes>>

cleanupOrphanedDrills ==
    /\ ~drillerUp /\ drillerUp' = TRUE
    /\ drillRow' = [d \in Drill |-> IF drillRow[d] = "RUNNING" THEN "FAILED"
                                    ELSE drillRow[d]]
    /\ UNCHANGED <<drilled, drill, scratch, drillCrashes>>

\* The rows of its drills go with the backup.
deleteDrilled ==
    /\ drillerUp /\ drilled.exists
    /\ drilled' = [drilled EXCEPT !.exists = FALSE]
    /\ drillRow' = [d \in Drill |-> "NONE"]
    /\ UNCHANGED <<drill, scratch, process>>

dropSource ==
    /\ drillerUp /\ drilled.connected
    /\ drilled' = [drilled EXCEPT !.connected = FALSE]
    /\ UNCHANGED <<drillRow, drill, scratch, process>>

runDrill(d) ==
    \/ createDrill(d) \/ prepareDrill(d) \/ createDatabase(d) \/ restoreScratch(d)
    \/ countAllTables(d) \/ dropDatabase(d) \/ recordVerdict(d)

DrillsNext ==
    \/ \E d \in Drill : startRestoreDrill(d) \/ runDrill(d) \/ cancelStaleDrill(d)
    \/ crashDrills \/ cleanupOrphanedDrills \/ deleteDrilled \/ dropSource

DrillsSpec == DrillsInit /\ [][DrillsNext]_drillsVars

\* Calls to databases return or time out, and a process that died is started
\* again by its supervisor.
DrillsFairness ==
    /\ \A d \in Drill : WF_drillsVars(runDrill(d))
    /\ WF_drillsVars(cleanupOrphanedDrills)

-----------------------------------------------------------------------------

\* A drill only ever restores into, counts and drops a database it created
\* itself, also when two drills choose the same name (restore-drill.service.ts,
\* runDrill; CREATE DATABASE of the engines).
ScratchIsPrivate ==
    \A d \in Drill : drill[d].pc \in {"restore", "count", "drop"}
                         => scratch[drill[d].db] = d

\* What must not last, whatever crashes come in between (cleanupOrphanedDrills): only a
\* row whose verdict the table refused stays RUNNING, until it is cancelled or the
\* process boots (restore-drill.service.ts:89-92).
DrillUnderWay(d) == drillRow[d] = "RUNNING" /\ drill[d].pc # "unrecorded"
=============================================================================
