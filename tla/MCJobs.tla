------------------------------- MODULE MCJobs -------------------------------
(***************************************************************************)
(* Small instances of the modules in which something has to come to an end: *)
(* drills, restores, migrations, health checks, runs of engines, exports,   *)
(* scheduled jobs, and the pages that follow them.  None of them touches the state of       *)
(* another: `focus' says which one moves, and the others stay as they began. *)
(***************************************************************************)
EXTENDS TLC, Drills, RestoreQueue, Migrations, Monitoring, EngineRuns, Export, Progress,
        SyncPage, Schedules

CONSTANTS d1, d2        \* drills and restore jobs

VARIABLE focus

-----------------------------------------------------------------------------
\* Values for the constants.
TwoTables == <<"a", "b">>
ThreeRows == [a |-> <<"r1", "r2">>, b |-> <<"r3">>]
Selection(engines, ghost, before, unlike) ==
    [engines |-> engines, ghost |-> ghost, before |-> before, unlike |-> unlike]
Selections == {Selection("MYSQL", FALSE, {}, {}), Selection("MYSQL", FALSE, {}, {"b"}),
               Selection("CROSS", TRUE, {"a"}, {}), Selection("PG", FALSE, {}, {}),
               Selection("PG", TRUE, {"b"}, {})}
TwoUsers == <<"u1", "u2">>
Owners == [e1 |-> "u1", e2 |-> "u2"]
Reports == <<5, 100>>
AllKinds == Kinds

-----------------------------------------------------------------------------
allVars == <<focus, drillsVars, restoreVars, migrationsVars, monitoringVars, engineVars,
             exportVars, progressVars, syncPageVars, schedulesVars>>

Modules == {"drills", "restores", "migrations", "monitoring", "engines", "export",
            "progress", "syncPage", "schedules"}

\* A module that does not move has one initial state.
Init ==
    /\ focus \in Modules
    /\ DrillsInit /\ RestoreInit /\ MonitoringInit /\ ProgressInit
    /\ MigrationsInit
    /\ focus # "migrations" => kind = Selection("MYSQL", FALSE, {}, {})
    /\ EngineInit
    /\ focus # "engines" => engineKind = "pipe"
    /\ ExportInit
    /\ focus # "export" =>
           dialect = "pg" /\ ~framed /\ content = [a |-> <<"r1", "r2", "r3">>, b |-> <<>>]
    /\ SyncPageInit
    /\ focus # "syncPage" => ~syncConfig.made
    /\ SchedulesInit

OthersStay ==
    /\ UNCHANGED focus
    /\ IF focus = "drills" THEN TRUE ELSE UNCHANGED drillsVars
    /\ IF focus = "restores" THEN TRUE ELSE UNCHANGED restoreVars
    /\ IF focus = "migrations" THEN TRUE ELSE UNCHANGED migrationsVars
    /\ IF focus = "monitoring" THEN TRUE ELSE UNCHANGED monitoringVars
    /\ IF focus = "engines" THEN TRUE ELSE UNCHANGED engineVars
    /\ IF focus = "export" THEN TRUE ELSE UNCHANGED exportVars
    /\ IF focus = "progress" THEN TRUE ELSE UNCHANGED progressVars
    /\ IF focus = "syncPage" THEN TRUE ELSE UNCHANGED syncPageVars
    /\ IF focus = "schedules" THEN TRUE ELSE UNCHANGED schedulesVars

Next ==
    /\ \/ focus = "drills" /\ DrillsNext
       \/ focus = "restores" /\ RestoreNext
       \/ focus = "migrations" /\ MigrationsNext
       \/ focus = "monitoring" /\ MonitoringNext
       \/ focus = "engines" /\ EngineNext
       \/ focus = "export" /\ ExportNext
       \/ focus = "progress" /\ ProgressNext
       \/ focus = "syncPage" /\ SyncPageNext
       \/ focus = "schedules" /\ SchedulesNext
    /\ OthersStay

\* The fairness the modules state (DrillsFairness, RestoreFairness and so on).  As
\* only one of them moves, one conjunct can speak of one step of each.
Step1 ==
    /\ \/ focus = "drills" /\ runDrill(d1)
       \/ focus = "restores" /\ moveStalledRestore(d1)
       \/ focus = "migrations" /\ \E w \in MigWorker : runMigration(w)
       \/ focus = "monitoring" /\ (runHeartbeatChecks \/ beatStep)
       \/ focus = "export" /\ ExportStep
       \/ focus = "progress" /\ \E p \in Page : poll(p)
       \/ focus = "syncPage" /\ \E t \in SyncTab : pollState(t)
       \/ focus = "schedules" /\ scheduleWorker
    /\ OthersStay

Step2 ==
    /\ \/ focus = "drills" /\ runDrill(d2)
       \/ focus = "restores" /\ moveStalledRestore(d2)
       \/ focus = "migrations" /\ \E w \in MigWorker : pickMigration(w)
       \/ focus = "monitoring" /\ passHour
       \/ focus = "export" /\ (drain \/ clientLeaves)
       \/ focus = "syncPage" /\ \E t \in SyncTab : handleCommand(t)
       \/ focus = "schedules" /\ \E j \in Firing : moveStalledFiring(j)
    /\ OthersStay

Step3 ==
    /\ \/ focus = "drills" /\ cleanupOrphanedDrills
       \/ focus = "restores" /\ runRestore
       \/ focus = "syncPage" /\ \E t \in SyncTab : answered(t)
    /\ OthersStay

Step4(q) ==
    /\ \/ focus = "restores" /\ q = "config" /\ bootRestores
       \/ focus = "syncPage" /\ \E t \in SyncTab : serve(t, q)
    /\ OthersStay

Step5(q) == focus = "syncPage" /\ (\E t \in SyncTab : receive(t, q)) /\ OthersStay

Pick(j) == focus = "restores" /\ pickRestore(j) /\ OthersStay

Spec ==
    /\ Init /\ [][Next]_allVars
    /\ WF_allVars(Step1) /\ WF_allVars(Step2) /\ WF_allVars(Step3)
    /\ \A q \in Query : WF_allVars(Step4(q)) /\ WF_allVars(Step5(q))
    /\ SF_allVars(Pick(d1)) /\ SF_allVars(Pick(d2))

-----------------------------------------------------------------------------
\* Only what moves needs to be looked at.
TypeOK ==
    /\ focus \in Modules
    /\ focus = "drills" => DrillsTypeOK
    /\ focus = "restores" => RestoreTypeOK
    /\ focus = "migrations" => MigrationsTypeOK
    /\ focus = "monitoring" => MonitoringTypeOK
    /\ focus = "engines" => EngineTypeOK
    /\ focus = "export" => ExportTypeOK
    /\ focus = "progress" => ProgressTypeOK
    /\ focus = "syncPage" => SyncPageTypeOK
    /\ focus = "schedules" => SchedulesTypeOK

\* What is reported done is whole: a dump and a restore (dump-to-file.ts), the
\* rows a completed migration copied (migration.queue.ts) and an export that ends
\* without being cut (export.controller.ts).
DoneIsWhole == OutcomeIsTrue /\ CompletedIsSource /\ WholeOrCut

\* Nothing outlives its use and nothing is used twice: an operation that ended
\* holds no tunnel and no file with secrets, two drills never share a scratch
\* database, a restore runs again only after its job stalled, a firing of a schedule makes
\* one backup, and one more for each time its job lost its worker, was handed out beside a
\* blocked one or threw, and every open stream of events is counted, once.
NothingLeaks == NothingHeld /\ ScratchIsPrivate /\ AgainOnlyAfterStall /\ StreamsAreCounted
                    /\ OneBackupPerFiring

\* An older write or answer stands over a newer one only where the code lets it: the end
\* an attempt of a backup wrote is not lost under its late progress (backup.queue.ts:89); a
\* page shows what a command did once it was answered, unless the first answer of a query,
\* which is not cancelled, was on its way before; and the entry of a schedule is that
\* of its last request, unless two requests for it met.
EndsStand == EndStands /\ SeesItsCommands /\ ArmedIffActive

\* What is under way ends, through crashes, lost locks and failures: a drill unless its
\* verdict was refused, a restore, a migration unless its last write was refused or its
\* job stalled for good, a firing, an export with what it holds; a page whose
\* poll has not yet seen an end learns how its job ended; and when every user expects
\* an alert of a stale backup, one of them gets it.  The two drills, and the two restores,
\* are alike: what holds of the first holds of the second.
UnderWay ==
    \/ focus = "drills" /\ DrillUnderWay(d1)
    \/ focus = "restores" /\ RestoreUnderWay(d1)
    \/ focus = "migrations" /\ MigrationUnderWay
    \/ focus = "monitoring" /\ AlertDue
    \/ focus = "export" /\ ExportHolds
    \/ focus = "progress" /\ \E p \in Page : PageBehind(p)
    \/ focus = "syncPage" /\ \E t \in SyncTab : ShowsActive(t)
    \/ focus = "schedules" /\ \E j \in Firing : FiringUnderWay(j)

EverythingEnds == UnderWay ~> ~UnderWay
=============================================================================
