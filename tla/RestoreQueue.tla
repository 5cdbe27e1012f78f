---------------------------- MODULE RestoreQueue ----------------------------
(***************************************************************************)
(* Restore jobs: queued by a request, run by a BullMQ worker one at a time, *)
(* once; runs that outlive the lock of their job, stalled jobs, crashes.    *)
(***************************************************************************)
EXTENDS Naturals, FiniteSets

CONSTANTS RestoreJob, MaxRestoreCrashes     \* bound

NoJob == "no job"

ASSUME RestoreAssumption == MaxRestoreCrashes \in Nat /\ NoJob \notin RestoreJob

VARIABLES
    restorable, \* the backup is there and COMPLETED
    job,        \* [st, stalled, lock]
    running,    \* the run of the worker: [job, pc]
    restores,   \* history: times a restore into the target began, per job
    restorerUp, restoreCrashes

restoreVars == <<restorable, job, running, restores, restorerUp, restoreCrashes>>
host == <<restorerUp, restoreCrashes>>

NoRun == [job |-> NoJob, pc |-> "idle"]

RestoreTypeOK ==
    /\ restorable \in BOOLEAN
    /\ job \in [RestoreJob -> [st : {"none", "waiting", "active", "completed", "failed"},
                               stalled : 0 .. 1, lock : BOOLEAN]]
    /\ running \in [job : RestoreJob \cup {NoJob},
                    pc : {"idle", "check", "restore", "completed", "failed"}]
    /\ restores \in [RestoreJob -> Nat]
    /\ restorerUp \in BOOLEAN /\ restoreCrashes \in 0 .. MaxRestoreCrashes

RestoreInit ==
    /\ restorable = TRUE
    /\ job = [j \in RestoreJob |-> [st |-> "none", stalled |-> 0, lock |-> FALSE]]
    /\ running = NoRun
    /\ restores = [j \in RestoreJob |-> 0]
    /\ restorerUp = TRUE /\ restoreCrashes = 0

-----------------------------------------------------------------------------

restoreBackup(j) ==
    /\ restorerUp /\ restorable /\ job[j].st = "none"
    /\ job' = [job EXCEPT ![j].st = "waiting"]
    /\ UNCHANGED <<restorable, running, restores, host>>

pickRestore(j) ==
    /\ restorerUp /\ running = NoRun /\ job[j].st = "waiting"
    /\ job' = [job EXCEPT ![j].st = "active", ![j].lock = TRUE]
    /\ running' = [job |-> j, pc |-> "check"]
    /\ UNCHANGED <<restorable, restores, host>>

\* The restorable, the target and a plaintext copy.
checkRestore(ok) ==
    /\ running.pc = "check"
    /\ ok => restorable
    /\ running' = [running EXCEPT !.pc = IF ok THEN "restore" ELSE "failed"]
    /\ restores' = IF ok THEN [restores EXCEPT ![running.job] = @ + 1] ELSE restores
    /\ UNCHANGED <<restorable, job, host>>

engineRestore(ok) ==
    /\ running.pc = "restore"
    /\ running' = [running EXCEPT !.pc = IF ok THEN "completed" ELSE "failed"]
    /\ UNCHANGED <<restorable, job, restores, host>>

\* Only the holder of the lock ends the job; one attempt.
finishRestore ==
    /\ running.pc \in {"completed", "failed"}
    /\ job' = IF job[running.job].lock
              THEN [job EXCEPT ![running.job].st = running.pc,
                               ![running.job].lock = FALSE] ELSE job
    /\ running' = NoRun
    /\ UNCHANGED <<restorable, restores, host>>

\* The event loop is blocked for longer than the lock of the job lasts.
loseRestoreLock ==
    /\ restorerUp /\ running # NoRun
    /\ job[running.job].lock
    /\ job' = [job EXCEPT ![running.job].lock = FALSE]
    /\ UNCHANGED <<restorable, running, restores, host>>

moveStalledRestore(j) ==
    /\ restorerUp /\ job[j].st = "active" /\ ~job[j].lock
    /\ job' = [job EXCEPT ![j] = IF @.stalled < 1
                  THEN [st |-> "waiting", stalled |-> 1, lock |-> FALSE]
                  ELSE [@ EXCEPT !.st = "failed"]]
    /\ UNCHANGED <<restorable, running, restores, host>>

crashRestores ==
    /\ restorerUp /\ restoreCrashes < MaxRestoreCrashes
    /\ restorerUp' = FALSE /\ restoreCrashes' = restoreCrashes + 1
    /\ running' = NoRun
    /\ job' = [j \in RestoreJob |-> [job[j] EXCEPT !.lock = FALSE]]
    /\ UNCHANGED <<restorable, restores>>

bootRestores ==
    /\ ~restorerUp /\ restorerUp' = TRUE
    /\ UNCHANGED <<restorable, job, running, restores, restoreCrashes>>

loseBackup ==
    /\ restorable /\ restorable' = FALSE
    /\ UNCHANGED <<job, running, restores, host>>

runRestore ==
    \/ \E ok \in BOOLEAN : checkRestore(ok) \/ engineRestore(ok)
    \/ finishRestore

RestoreNext ==
    \/ \E j \in RestoreJob : restoreBackup(j) \/ pickRestore(j) \/ moveStalledRestore(j)
    \/ runRestore \/ loseRestoreLock
    \/ crashRestores \/ bootRestores \/ loseBackup

RestoreSpec == RestoreInit /\ [][RestoreNext]_restoreVars

\* The worker takes jobs in turn and looks for stalled ones, an engine's tools
\* end, and a process that died is started again.
RestoreFairness ==
    /\ \A j \in RestoreJob : /\ SF_restoreVars(pickRestore(j))
                             /\ WF_restoreVars(moveStalledRestore(j))
    /\ WF_restoreVars(runRestore) /\ WF_restoreVars(bootRestores)

-----------------------------------------------------------------------------

\* A restore runs again only after its job stalled (`restores are not idempotent --
\* never retry automatically', restore.queue.ts, holds of the retries alone).
AgainOnlyAfterStall == \A j \in RestoreJob : restores[j] <= 1 + job[j].stalled

\* What must not last, also when the run outlives its lock or the process.
RestoreUnderWay(j) == job[j].st \notin {"none", "completed", "failed"}
=============================================================================
