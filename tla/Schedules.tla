------------------------------ MODULE Schedules ------------------------------
(***************************************************************************)
(* A schedule: its row in Postgres and its entry in Redis, which the        *)
(* requests write one after the other, and the schedule worker that makes a  *)
(* backup each time the entry fires.  BullMQ makes the next job of an entry  *)
(* when the worker takes the last one, and an attempt that throws is made    *)
(* again at once.  What becomes of a backup is BackupPipeline's subject.     *)
(***************************************************************************)
EXTENDS Naturals, FiniteSets

CONSTANTS
    Cron,               \* cron expressions
    SchedReq,           \* slots for requests served at a time
    Firing,             \* identities of the jobs of the entry
    SchedAttempts,      \* attempts of a job (3)
    SchedStalls,        \* BullMQ's maxStalledCount (1)
    MaxSchedEdits,      \* bound: requests
    MaxSchedFaults      \* bound: crashes and failing steps

ASSUME SchedulesAssumption ==
    /\ "none" \notin Cron
    /\ SchedAttempts \in Nat \ {0}
    /\ {SchedStalls, MaxSchedEdits, MaxSchedFaults} \subseteq Nat

VARIABLES
    schedule,       \* the row: state "absent", "there" or "deleted", isActive, cron
    scheduleConn,   \* the connection exists
    entry,          \* the job scheduler: its cron, and whether its next job is still to come
    schedJob,       \* Firing -> [state, fails, stalls]
    schedRun,       \* what the worker does: [pc, job]
    edit,           \* SchedReq -> the request served: [pc, change, row, alone]
    made,           \* history: Firing -> backups it made
    struck,         \* history: Firing -> crashes, failing steps, locks lost
    upset,          \* history: row and entry were last written by requests that overlapped
                    \* or were cut off
    edits,
    schedFaults

schedulesVars == <<schedule, scheduleConn, entry, schedJob, schedRun, edit, made, struck,
                   upset, edits, schedFaults>>
firings == <<schedJob, schedRun, made, struck>>

-----------------------------------------------------------------------------
Change == Cron \cup {"pause", "resume", "delete"}
NoEntry == [cron |-> "none", due |-> FALSE]
NoSchedule == [state |-> "absent", active |-> FALSE, cron |-> "none"]
NoEdit == [pc |-> "idle", change |-> "none", row |-> NoSchedule, alone |-> FALSE]
NoFiring == [state |-> "none", fails |-> 0, stalls |-> 0]
Resting == [pc |-> "idle", job |-> "none"]

ScheduleRow == [state : {"absent", "there", "deleted"}, active : BOOLEAN,
                cron : Cron \cup {"none"}]

SchedulesTypeOK ==
    /\ schedule \in ScheduleRow /\ scheduleConn \in BOOLEAN
    /\ entry \in [cron : Cron \cup {"none"}, due : BOOLEAN]
    /\ schedJob \in [Firing -> [state : {"none", "waiting", "active", "completed", "failed"},
                                fails : 0 .. SchedAttempts, stalls : Nat]]
    /\ schedRun \in [pc : {"idle", "read", "create", "queue", "stamp"},
                     job : Firing \cup {"none"}]
    /\ edit \in [SchedReq -> [pc : {"idle", "insert", "write", "disarm", "arm", "remove"},
                              change : Change \cup {"none"}, row : ScheduleRow,
                              alone : BOOLEAN]]
    /\ {made, struck} \subseteq [Firing -> Nat]
    /\ upset \in BOOLEAN /\ edits \in 0 .. MaxSchedEdits
    /\ schedFaults \in 0 .. MaxSchedFaults

SchedulesInit ==
    /\ schedule = NoSchedule /\ scheduleConn = TRUE /\ entry = NoEntry
    /\ schedJob = [j \in Firing |-> NoFiring] /\ schedRun = Resting
    /\ edit = [q \in SchedReq |-> NoEdit]
    /\ made = [j \in Firing |-> 0] /\ struck = made /\ upset = FALSE
    /\ edits = 0 /\ schedFaults = 0

-----------------------------------------------------------------------------
(* The requests: each reads the row first and refuses a missing one.       *)

\* From here on, no request under way is alone.
begin(q, pc, change) ==
    LET busy == \E p \in SchedReq : edit[p].pc # "idle" IN
    /\ edit[q].pc = "idle" /\ edits < MaxSchedEdits
    /\ edit' = [p \in SchedReq |->
                  IF p = q THEN [NoEdit EXCEPT !.pc = pc, !.change = change, !.alone = ~busy]
                  ELSE [edit[p] EXCEPT !.alone = FALSE]]
    /\ upset' = (upset \/ busy)
    /\ edits' = edits + 1
    /\ UNCHANGED <<schedule, scheduleConn, entry, firings, schedFaults>>

\* It is over; one that was alone all along leaves row and entry as it wrote them.
end(q) ==
    /\ edit' = [edit EXCEPT ![q] = NoEdit]
    /\ upset' = (upset /\ ~edit[q].alone)
further(q, pc) == edit' = [edit EXCEPT ![q].pc = pc] /\ UNCHANGED upset
\* It throws before it has written anything.
refused(q) == edit' = [edit EXCEPT ![q] = NoEdit] /\ UNCHANGED upset

unrelated == UNCHANGED <<scheduleConn, firings, edits, schedFaults>>

createSchedule(q) ==
    \/ /\ schedule.state = "absent" /\ scheduleConn
       /\ \A p \in SchedReq : edit[p].pc # "insert"
       /\ \E c \in Cron : begin(q, "insert", c)
    \/ /\ edit[q].pc = "insert"
       /\ IF scheduleConn
          THEN LET row == [state |-> "there", active |-> TRUE, cron |-> edit[q].change] IN
               /\ schedule' = row
               /\ edit' = [edit EXCEPT ![q].pc = "arm", ![q].row = row]
               /\ UNCHANGED upset
          ELSE refused(q) /\ UNCHANGED schedule
       /\ UNCHANGED entry /\ unrelated

Changed(change) ==
    CASE change = "pause" -> [schedule EXCEPT !.active = FALSE]
      [] change = "resume" -> [schedule EXCEPT !.active = TRUE]
      [] OTHER -> [schedule EXCEPT !.cron = change]

\* What is armed is the row the update returned.
updateSchedule(q) ==
    \/ /\ schedule.state = "there"
       /\ \E change \in Change \ {"delete"} : begin(q, "write", change)
    \/ /\ edit[q].pc = "write"
       /\ IF schedule.state = "there"
          THEN /\ schedule' = Changed(edit[q].change)
               /\ edit' = [edit EXCEPT ![q].pc = "disarm", ![q].row = schedule']
               /\ UNCHANGED upset
          ELSE refused(q) /\ UNCHANGED schedule
       /\ UNCHANGED entry /\ unrelated

\* Mutant: a paused schedule keeps its entry.
disarmActive(q) ==
    /\ edit[q].pc = "disarm"
    /\ IF edit[q].change = "delete"
       THEN entry' = NoEntry /\ further(q, "remove")
       ELSE IF edit[q].row.active
       THEN entry' = NoEntry /\ further(q, "arm")
       ELSE end(q) /\ UNCHANGED entry
    /\ UNCHANGED schedule /\ unrelated

\* The next job goes with the entry, one that waits does not.
removeScheduleJob(q) ==
    /\ edit[q].pc = "disarm"
    /\ entry' = NoEntry
    /\ IF edit[q].change = "delete" THEN further(q, "remove")
       ELSE IF edit[q].row.active THEN further(q, "arm") ELSE end(q)
    /\ UNCHANGED schedule /\ unrelated

addScheduleJob(q) ==
    /\ edit[q].pc = "arm"
    /\ entry' = [cron |-> edit[q].row.cron, due |-> TRUE]
    /\ end(q)
    /\ UNCHANGED schedule /\ unrelated

\* The entry first; a row already gone makes the request fail.
deleteSchedule(q) ==
    \/ schedule.state = "there" /\ begin(q, "disarm", "delete")
    \/ /\ edit[q].pc = "remove"
       /\ IF schedule.state = "there"
          THEN schedule' = [NoSchedule EXCEPT !.state = "deleted"] /\ end(q)
          ELSE refused(q) /\ UNCHANGED schedule
       /\ UNCHANGED entry /\ unrelated

\* Its schedules go with it (onDelete: Cascade), their entries stay.
deleteScheduleConn ==
    /\ scheduleConn /\ edits < MaxSchedEdits
    /\ scheduleConn' = FALSE /\ edits' = edits + 1
    /\ schedule' = IF schedule.state = "there"
                   THEN [NoSchedule EXCEPT !.state = "deleted"] ELSE schedule
    /\ UNCHANGED <<entry, firings, edit, upset, schedFaults>>

-----------------------------------------------------------------------------
(* The worker: one job at a time.                                          *)

requestsStay == UNCHANGED <<schedule, scheduleConn, edit, upset, edits>>
to(pc) == schedRun' = [schedRun EXCEPT !.pc = pc]
\* A run that has lost its lock has no say in what becomes of the job.
leave(row) ==
    /\ schedJob' = [schedJob EXCEPT ![schedRun.job] = IF @.state = "active" THEN row ELSE @]
    /\ schedRun' = Resting
settle == leave([schedJob[schedRun.job] EXCEPT !.state = "completed"])
\* The handler throws: another attempt, or none.
throw ==
    LET fails == schedJob[schedRun.job].fails + 1 IN
    leave([schedJob[schedRun.job] EXCEPT
               !.state = IF fails >= SchedAttempts THEN "failed" ELSE "waiting",
               !.fails = fails])

fire(j) ==
    /\ entry.due /\ schedJob[j].state = "none"
    /\ schedJob' = [schedJob EXCEPT ![j].state = "waiting"]
    /\ entry' = [entry EXCEPT !.due = FALSE]
    /\ UNCHANGED <<schedRun, made, struck, schedFaults>> /\ requestsStay

\* The entry, if it is still there, gets its next job.
pickFiring(j) ==
    /\ schedRun.pc = "idle" /\ schedJob[j].state = "waiting"
    /\ schedJob' = [schedJob EXCEPT ![j].state = "active"]
    /\ schedRun' = [pc |-> "read", job |-> j]
    /\ entry' = [entry EXCEPT !.due = (entry # NoEntry)]
    /\ UNCHANGED <<made, struck, schedFaults>> /\ requestsStay

\* Mutant: what the job found at its first attempt is not looked up again.
findOnce ==
    /\ schedRun.pc = "read"
    /\ IF (schedule.state = "there" /\ schedule.active)
             \/ schedJob[schedRun.job].fails > 0
       THEN to("create") /\ UNCHANGED schedJob
       ELSE settle
    /\ UNCHANGED <<entry, made, struck, schedFaults>> /\ requestsStay

findSchedule ==
    /\ schedRun.pc = "read"
    /\ IF schedule.state = "there" /\ schedule.active
       THEN to("create") /\ UNCHANGED schedJob
       ELSE settle
    /\ UNCHANGED <<entry, made, struck, schedFaults>> /\ requestsStay

\* The foreign key refuses a connection that has been deleted.
createScheduledBackup ==
    /\ schedRun.pc = "create"
    /\ IF scheduleConn
       THEN /\ made' = [made EXCEPT ![schedRun.job] = @ + 1]
            /\ to("queue") /\ UNCHANGED schedJob
       ELSE throw /\ UNCHANGED made
    /\ UNCHANGED <<entry, struck, schedFaults>> /\ requestsStay

queueScheduledBackup ==
    /\ schedRun.pc = "queue"
    /\ to("stamp")
    /\ UNCHANGED <<entry, schedJob, made, struck, schedFaults>> /\ requestsStay

\* lastRunAt: the update throws if the schedule was deleted meanwhile.
stampSchedule ==
    /\ schedRun.pc = "stamp"
    /\ IF schedule.state = "there" THEN settle ELSE throw
    /\ UNCHANGED <<entry, made, struck, schedFaults>> /\ requestsStay

stalled(j) ==
    /\ schedJob[j].state = "active"
    /\ schedJob' = [schedJob EXCEPT
           ![j].state = IF schedJob[j].stalls >= SchedStalls THEN "failed" ELSE "waiting",
           ![j].stalls = @ + 1]
    /\ UNCHANGED <<entry, schedRun, made>> /\ requestsStay

\* A job whose worker died is found by the stalled check.
moveStalledFiring(j) == schedRun.job # j /\ stalled(j) /\ UNCHANGED <<struck, schedFaults>>

-----------------------------------------------------------------------------
(* Faults.                                                                 *)

schedFault == schedFaults < MaxSchedFaults /\ schedFaults' = schedFaults + 1

strike(j) == struck' = [struck EXCEPT ![j] = @ + 1]

\* The event loop was blocked (storage.service.ts:138) for longer than a lock lives, and
\* the stalled check takes the job from a run that goes on.
loseFiringLock == /\ schedRun.pc # "idle" /\ schedFault
                  /\ stalled(schedRun.job) /\ strike(schedRun.job)

\* Postgres or Redis refuses a step of the handler.
failFiring ==
    /\ schedRun.pc # "idle" /\ schedFault
    /\ throw /\ strike(schedRun.job)
    /\ UNCHANGED <<entry, made>> /\ requestsStay

\* Of a request: what it wrote before stays.
failEdit(q) ==
    /\ edit[q].pc # "idle" /\ schedFault
    /\ edit' = [edit EXCEPT ![q] = NoEdit] /\ upset' = TRUE
    /\ UNCHANGED <<schedule, scheduleConn, entry, firings, edits>>

\* The boot arms nothing: Redis has kept the entries.
crashSchedules ==
    /\ schedFault
    /\ IF schedRun = Resting THEN UNCHANGED struck ELSE strike(schedRun.job)
    /\ schedRun' = Resting
    /\ upset' = (upset \/ \E q \in SchedReq : edit[q].pc # "idle")
    /\ edit' = [q \in SchedReq |-> NoEdit]
    /\ UNCHANGED <<schedule, scheduleConn, entry, schedJob, made, edits>>

-----------------------------------------------------------------------------
scheduleRequest(q) ==
    createSchedule(q) \/ updateSchedule(q) \/ deleteSchedule(q) \/ removeScheduleJob(q)
        \/ addScheduleJob(q)

scheduleWorker ==
    \/ \E j \in Firing : pickFiring(j)
    \/ findSchedule \/ createScheduledBackup \/ queueScheduledBackup \/ stampSchedule

SchedulesNext ==
    \/ \E q \in SchedReq : scheduleRequest(q) \/ failEdit(q)
    \/ deleteScheduleConn
    \/ \E j \in Firing : fire(j) \/ moveStalledFiring(j)
    \/ scheduleWorker \/ failFiring \/ loseFiringLock \/ crashSchedules

SchedulesSpec == SchedulesInit /\ [][SchedulesNext]_schedulesVars

\* BullMQ hands out jobs and looks for stalled ones; the handler's calls come back.
SchedulesFairness ==
    /\ WF_schedulesVars(scheduleWorker)
    /\ \A j \in Firing : WF_schedulesVars(moveStalledFiring(j))

-----------------------------------------------------------------------------

\* Once the requests have been answered, the entry fires exactly for an active schedule
\* and with its cron, unless requests overlapped or a fault cut one off and none has
\* been made since; the entry of a schedule that went with its connection stays
\* (schedule.controller.ts, updateSchedule).
ArmedIffActive ==
    (/\ \A q \in SchedReq : edit[q].pc = "idle"
     /\ ~upset /\ scheduleConn)
    => entry.cron = IF schedule.active THEN schedule.cron ELSE "none"

\* Every backup of a firing beyond its first is owed to a crash, an error of the database
\* or a lock lost while the run went on, one each: an attempt made again because the
\* schedule or its connection was deleted makes none (schedule.queue.ts:70-95).
OneBackupPerFiring == \A j \in Firing : made[j] <= 1 + struck[j]

\* What must not last.
FiringUnderWay(j) == schedJob[j].state \in {"waiting", "active"}
=============================================================================
