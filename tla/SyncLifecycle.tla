--------------------------- MODULE SyncLifecycle ---------------------------
(***************************************************************************)
(* One sync configuration: the requests that activate, pause, resume, stop,*)
(* trigger, update and delete it, the timers that poll for it in real-time *)
(* mode, its cron entry in scheduled mode, and the worker that runs its    *)
(* jobs.  They share the SyncState row and its currentJobId, and interleave*)
(* at every `await'.  What a run copies is IncrementalSync's subject.      *)
(*                                                                         *)
(* Every object that has a SyncEngineService has timers of its own: the    *)
(* controller of activate, pause, resume and stop ("api"), and the one the *)
(* boot makes to recover the timers of before ("boot").                    *)
(***************************************************************************)
EXTENDS Naturals, FiniteSets

CONSTANTS
    Slot,          \* requests under way at a time
    Timer,         \* identities a setInterval can have
    Job,           \* identities a BullMQ job can have
    Run,           \* jobs the worker runs at a time (concurrency)
    Modes,         \* modes the owner chooses from
    None,          \* no job, no timer
    MaxAttempts,   \* attempts of a job (3)
    MaxStalled,    \* maxStalledCount (3)
    MaxStates,     \* bound: SyncState rows made
    MaxErrors,     \* bound: errors of Redis or of the databases
    MaxCrashes     \* bound: crashes

ASSUME ModesAssumption == Modes \subseteq {"MANUAL", "REALTIME", "SCHEDULED"}
ASSUME NoneAssumption == /\ None \notin Job \cup Timer
                         /\ Slot \cap Timer = {}
ASSUME BoundsAssumption == /\ MaxAttempts \in Nat \ {0}
                           /\ {MaxStalled, MaxStates, MaxErrors, MaxCrashes}
                                 \subseteq Nat

VARIABLES
    config,    \* the SyncConfiguration row
    state,     \* its SyncState row; id 0: there is none
    made,      \* SyncState rows made so far
    jobs,      \* the sync queue
    runs,      \* runs[w]: the job the worker handles in a slot
    proc,      \* proc[p]: a request, or the tick of a timer
    timers,    \* timers[t]: the object that armed it, or "off"
    mapped,    \* mapped[o]: realtimeIntervals of object o
    cron,      \* the schedule queue has an entry for the configuration
    due,       \* the entry has fired, its job waits for the schedule worker
    up,        \* the boot is over: requests are served
    errors,
    crashes,
    torn       \* history: of "activate" or "stop", whose second write has not been made

rows == <<config, state, made>>
armed == <<timers, mapped, cron>>
vars == <<rows, armed, jobs, runs, proc, due, up, errors, crashes, torn>>

-----------------------------------------------------------------------------
Status == {"ACTIVE", "PAUSED", "FAILED"}
NoState == [id |-> 0, status |-> "ACTIVE", job |-> None]

Live == {"waiting", "active"}     \* waiting: delayed by the backoff as well
BullJob == [st : {"new", "done", "failed", "removed"} \cup Live,
            tries : Nat, stalls : Nat, owner : Run \cup {None}]
NewJob == [st |-> "new", tries |-> 0, stalls |-> 0, owner |-> None]

Handler == [pc : {"idle", "load", "mark", "work", "report", "fail", "throw",
                  "end"},
            job : Job \cup {None}, sid : Nat]
NoRun == [pc |-> "idle", job |-> None, sid |-> 0]

\* What a process read first, and where it is.
Request == [at : {"idle", "createState", "setActive", "initialSync", "setup",
                  "pauseState", "pauseCancel", "resumeState",
                  "stopCancel", "teardown", "deleteState", "setInactive",
                  "trigger", "check", "enqueue", "setJob",
                  "update", "delete"},
            sid : Nat, jid : Job \cup {None}, mode : Modes]
Objects == {"api", "boot"}

Idle(p) == proc[p].at = "idle"
At(p, at) == proc[p].at = at
Snapshot(at) == [at |-> at, sid |-> state.id, jid |-> state.job,
                 mode |-> config.mode]
goto(p, at) == proc' = [proc EXCEPT ![p].at = at]
return(p) == goto(p, "idle")             \* the end, or an error thrown

\* update where id = sid: throws when there is no such row.
updateState(p, status, job, then) ==
    /\ IF state.id = proc[p].sid
       THEN /\ state' = [state EXCEPT !.status = status, !.job = job]
            /\ goto(p, then)
       ELSE return(p) /\ UNCHANGED state
    /\ UNCHANGED <<config, made>>

fault == errors < MaxErrors /\ errors' = errors + 1

-----------------------------------------------------------------------------
Init ==
    /\ config \in [exists : {TRUE}, active : {FALSE}, mode : Modes]
    /\ state = NoState
    /\ made = 0
    /\ jobs = [j \in Job |-> NewJob]
    /\ runs = [w \in Run |-> NoRun]
    /\ proc = [p \in Slot \cup Timer |-> [at |-> "idle", sid |-> 0,
                                          jid |-> None, mode |-> config.mode]]
    /\ timers = [t \in Timer |-> "off"]
    /\ mapped = [o \in Objects |-> None]
    /\ cron = FALSE
    /\ due = FALSE
    /\ up = TRUE
    /\ errors = 0 /\ crashes = 0
    /\ torn = "no"

TypeOK ==
    /\ config \in [exists : BOOLEAN, active : BOOLEAN, mode : Modes]
    /\ state \in [id : Nat, status : Status, job : Job \cup {None}]
    /\ made \in Nat
    /\ jobs \in [Job -> BullJob]
    /\ runs \in [Run -> Handler]
    /\ proc \in [Slot \cup Timer -> Request]
    /\ timers \in [Timer -> Objects \cup {"off"}]
    /\ mapped \in [Objects -> Timer \cup {None}]
    /\ {cron, due, up} \subseteq BOOLEAN
    /\ {errors, crashes} \subseteq Nat
    /\ torn \in {"no", "activate", "stop"}

-----------------------------------------------------------------------------
(* The queue and the timers, as the requests use them.                     *)

addSyncJob(j) ==
    /\ jobs[j].st = "new"
    /\ jobs' = [jobs EXCEPT ![j].st = "waiting"]

\* A failed attempt goes back to the queue while it has attempts left.
Retried(j) ==
    LET tries == jobs[j].tries + 1 IN
    [jobs EXCEPT ![j].tries = tries, ![j].owner = None,
                 ![j].st = IF tries < MaxAttempts THEN "waiting" ELSE "failed"]

\* A waiting job is removed.  An active one is moved to failed without its
\* lock, which BullMQ refuses or treats as one more failed attempt; nothing
\* tells its handler.
cancelRunningJob(j) ==
    jobs' \in CASE j = None -> {jobs}
                [] j # None /\ jobs[j].st = "waiting" ->
                      {[jobs EXCEPT ![j].st = "removed"]}
                [] j # None /\ jobs[j].st = "active" -> {jobs, Retried(j)}
                [] OTHER -> {jobs}

\* The object's map keeps the last timer it armed; the others live on.
setupRealtimeMode(o) ==
    \E t \in Timer :
        /\ timers[t] = "off" /\ Idle(t)
        /\ timers' = [timers EXCEPT ![t] = o]
        /\ mapped' = [mapped EXCEPT ![o] = t]

cancelRealtimeMode(o) ==
    /\ timers' = [t \in Timer |-> IF t = mapped[o] THEN "off" ELSE timers[t]]
    /\ mapped' = [mapped EXCEPT ![o] = None]

setupMode(mode) ==
    CASE mode = "REALTIME"  -> setupRealtimeMode("api") /\ UNCHANGED cron
      [] mode = "SCHEDULED" -> cron' = TRUE /\ UNCHANGED <<timers, mapped>>
      [] OTHER -> UNCHANGED armed

cancelMode(mode) ==
    CASE mode = "REALTIME"  -> cancelRealtimeMode("api") /\ UNCHANGED cron
      [] mode = "SCHEDULED" -> cron' = FALSE /\ UNCHANGED <<timers, mapped>>
      [] OTHER -> UNCHANGED armed

-----------------------------------------------------------------------------
(* Activate.                                                               *)

activateSyncConfiguration(r) ==
    /\ up /\ Idle(r)
    /\ config.exists /\ ~config.active
    /\ proc' = [proc EXCEPT ![r] = Snapshot("createState")]
    /\ UNCHANGED <<rows, armed, jobs, runs, due, up, errors, crashes, torn>>

\* After the schemas are compared and tracking is set up.  syncConfigId is
\* unique: a second row is an error.
createState(r) ==
    /\ At(r, "createState")
    /\ IF config.exists /\ state.id = 0
       THEN /\ made < MaxStates
            /\ made' = made + 1
            /\ state' = [NoState EXCEPT !.id = made + 1]
            /\ goto(r, "setActive")
       ELSE return(r) /\ UNCHANGED <<state, made>>
    /\ UNCHANGED <<config, armed, jobs, runs, due, up, errors, crashes, torn>>

setActive(r) ==
    /\ At(r, "setActive")
    /\ IF config.exists
       THEN /\ config' = [config EXCEPT !.active = TRUE]
            /\ \E next \in {"initialSync", "setup"} : goto(r, next)
       ELSE return(r) /\ UNCHANGED config
    /\ UNCHANGED <<state, made, armed, jobs, runs, due, up, errors, crashes, torn>>

\* The job's id is not written to the row.
initialSync(r) ==
    /\ At(r, "initialSync")
    /\ \E j \in Job : addSyncJob(j)
    /\ goto(r, "setup")
    /\ UNCHANGED <<rows, armed, runs, due, up, errors, crashes, torn>>

\* When the job cannot be added, the configuration is stopped again.
initialSyncFails(r) ==
    /\ At(r, "initialSync") /\ fault
    /\ proc' = [proc EXCEPT ![r] = Snapshot(
                   IF config.active THEN "stopCancel" ELSE "idle")]
    /\ UNCHANGED <<rows, armed, jobs, runs, due, up, crashes, torn>>

\* The last step of activate and of resume.
setup(r) ==
    /\ At(r, "setup")
    /\ setupMode(proc[r].mode)
    /\ return(r)
    /\ UNCHANGED <<rows, jobs, runs, due, up, errors, crashes, torn>>

-----------------------------------------------------------------------------
(* Pause and resume.                                                       *)

pauseSyncConfiguration(r) ==
    /\ up /\ Idle(r)
    /\ config.exists /\ config.active /\ state.id # 0
    /\ proc' = [proc EXCEPT ![r] = Snapshot("pauseState")]
    /\ UNCHANGED <<rows, armed, jobs, runs, due, up, errors, crashes, torn>>

pauseState(r) ==
    /\ At(r, "pauseState")
    /\ updateState(r, "PAUSED", None, "pauseCancel")
    /\ UNCHANGED <<armed, jobs, runs, due, up, errors, crashes, torn>>

pauseCancel(r) ==
    /\ At(r, "pauseCancel")
    /\ cancelRunningJob(proc[r].jid)
    /\ cancelMode(proc[r].mode)
    /\ return(r)
    /\ UNCHANGED <<rows, runs, due, up, errors, crashes, torn>>

resumeSyncConfiguration(r) ==
    /\ up /\ Idle(r)
    /\ config.exists /\ config.active /\ state.id # 0
    /\ state.status = "PAUSED"
    /\ proc' = [proc EXCEPT ![r] = Snapshot("resumeState")]
    /\ UNCHANGED <<rows, armed, jobs, runs, due, up, errors, crashes, torn>>

resumeState(r) ==
    /\ At(r, "resumeState")
    /\ updateState(r, "ACTIVE", state.job, "setup")
    /\ UNCHANGED <<armed, jobs, runs, due, up, errors, crashes, torn>>

-----------------------------------------------------------------------------
(* Stop.                                                                   *)

stopSyncConfiguration(r) ==
    /\ up /\ Idle(r)
    /\ config.exists /\ config.active
    /\ proc' = [proc EXCEPT ![r] = Snapshot("stopCancel")]
    /\ UNCHANGED <<rows, armed, jobs, runs, due, up, errors, crashes, torn>>

\* Clearing nextSyncAt throws when the row is gone.
stopCancel(r) ==
    /\ At(r, "stopCancel")
    /\ cancelRunningJob(proc[r].jid)
    /\ cancelMode(proc[r].mode)
    /\ goto(r, IF proc[r].mode = "SCHEDULED" /\ state.id = 0
               THEN "idle" ELSE "teardown")
    /\ UNCHANGED <<rows, runs, due, up, errors, crashes, torn>>

\* Mutant: the row is kept for the next activation.
keepState(r) ==
    /\ At(r, "teardown")
    /\ goto(r, "setInactive")
    /\ UNCHANGED <<rows, armed, jobs, runs, due, up, errors, crashes, torn>>

teardownTracking(r) ==
    /\ At(r, "teardown")
    /\ goto(r, IF proc[r].sid = 0 THEN "setInactive" ELSE "deleteState")
    /\ UNCHANGED <<rows, armed, jobs, runs, due, up, errors, crashes, torn>>

deleteState(r) ==
    /\ At(r, "deleteState")
    /\ IF state.id = proc[r].sid
       THEN state' = NoState /\ goto(r, "setInactive")
       ELSE return(r) /\ UNCHANGED state
    /\ UNCHANGED <<config, made, armed, jobs, runs, due, up, errors, crashes, torn>>

setInactive(r) ==
    /\ At(r, "setInactive")
    /\ config' = IF config.exists THEN [config EXCEPT !.active = FALSE]
                  ELSE config
    /\ torn' = "no"
    /\ return(r)
    /\ UNCHANGED <<state, made, armed, jobs, runs, due, up, errors, crashes>>

\* What is torn when a request goes no further than it is.
Torn(p) == CASE At(p, "setActive") -> "activate"
             [] At(p, "setInactive") -> "stop"
             [] OTHER -> torn

\* Any database or Redis answers with an error: the request ends where it is.
requestFails(r) ==
    /\ proc[r].at \notin {"idle", "initialSync"} /\ fault
    /\ torn' = Torn(r)
    /\ return(r)
    /\ UNCHANGED <<rows, armed, jobs, runs, due, up, crashes>>

-----------------------------------------------------------------------------
(* Update and delete: refused while the configuration is active.           *)

updateSyncConfiguration(r) ==
    \/ /\ up /\ Idle(r)
       /\ config.exists /\ ~config.active
       /\ proc' = [proc EXCEPT ![r] = Snapshot("update")]
       /\ UNCHANGED <<rows, armed, jobs, runs, due, up, errors, crashes, torn>>
    \/ /\ At(r, "update")
       /\ config' \in IF config.exists
                      THEN {[config EXCEPT !.mode = m] : m \in Modes}
                      ELSE {config}
       /\ return(r)
       /\ UNCHANGED <<state, made, armed, jobs, runs, due, up, errors, crashes, torn>>

deleteSyncConfiguration(r) ==
    \/ /\ up /\ Idle(r)
       /\ config.exists /\ ~config.active
       /\ proc' = [proc EXCEPT ![r] = Snapshot("delete")]
       /\ UNCHANGED <<rows, armed, jobs, runs, due, up, errors, crashes, torn>>
    \/ /\ At(r, "delete")
       /\ config' = [config EXCEPT !.exists = FALSE]
       /\ state' = NoState
       /\ return(r)
       /\ UNCHANGED <<made, armed, jobs, runs, due, up, errors, crashes, torn>>

-----------------------------------------------------------------------------
(* Trigger: a request, or a timer that found changes.                      *)

triggerSync(p) ==
    /\ IF p \in Timer THEN At(p, "trigger") ELSE up /\ Idle(p)
    /\ IF config.exists /\ config.active /\ state.id # 0
       THEN proc' = [proc EXCEPT ![p] = Snapshot(
                        IF state.job = None THEN "enqueue" ELSE "check")]
       ELSE p \in Timer /\ return(p)
    /\ UNCHANGED <<rows, armed, jobs, runs, due, up, errors, crashes, torn>>

\* Mutant: the id is cleared whatever it is by now.
clearAnyId(p) ==
    /\ At(p, "check")
    /\ IF jobs[proc[p].jid].st \notin Live
       THEN state' = [state EXCEPT !.job = None] /\ goto(p, "enqueue")
       ELSE return(p) /\ UNCHANGED state
    /\ UNCHANGED <<config, made, armed, jobs, runs, due, up, errors, crashes, torn>>

\* The id of a job that is over is cleared, if it still is the id.
check(p) ==
    /\ At(p, "check")
    /\ IF jobs[proc[p].jid].st \notin Live /\ state.job = proc[p].jid
       THEN state' = [state EXCEPT !.job = None] /\ goto(p, "enqueue")
       ELSE return(p) /\ UNCHANGED state
    /\ UNCHANGED <<config, made, armed, jobs, runs, due, up, errors, crashes, torn>>

\* An error of the queue counts as a job that does not exist.
checkFails(p) ==
    /\ At(p, "check") /\ fault
    /\ state' = [state EXCEPT !.job = IF @ = proc[p].jid THEN None ELSE @]
    /\ goto(p, "enqueue")
    /\ UNCHANGED <<config, made, armed, jobs, runs, due, up, crashes, torn>>

enqueue(p) ==
    /\ At(p, "enqueue")
    /\ \E j \in Job : /\ addSyncJob(j)
                      /\ proc' = [proc EXCEPT ![p].at = "setJob", ![p].jid = j]
    /\ UNCHANGED <<rows, armed, runs, due, up, errors, crashes, torn>>

setJob(p) ==
    /\ At(p, "setJob")
    /\ updateState(p, "ACTIVE", proc[p].jid, "idle")
    /\ UNCHANGED <<armed, jobs, runs, due, up, errors, crashes, torn>>

\* Mutant: a timer never looks at the configuration.
tickBlindly(t) ==
    /\ timers[t] # "off" /\ Idle(t)
    /\ state.job = None
    /\ goto(t, "trigger")
    /\ UNCHANGED <<rows, armed, jobs, runs, due, up, errors, crashes, torn>>

\* A timer whose configuration is gone clears itself, and its object's map
\* whatever timer that names.  It skips a turn when currentJobId is set, and
\* when the ChangeLog, which is filled from outside, has nothing new.  Bound:
\* one trigger at a time for each timer.
tick(t) ==
    /\ timers[t] # "off"
    /\ \/ /\ ~(config.exists /\ config.active /\ config.mode = "REALTIME")
          /\ timers' = [timers EXCEPT ![t] = "off"]
          /\ mapped' = [mapped EXCEPT ![timers[t]] = None]
          /\ UNCHANGED <<cron, proc>>
       \/ /\ config.exists /\ config.active /\ config.mode = "REALTIME"
          /\ state.job = None
          /\ Idle(t)
          /\ goto(t, "trigger")
          /\ UNCHANGED armed
    /\ UNCHANGED <<rows, jobs, runs, due, up, errors, crashes, torn>>

\* An error is caught in the timer, which turns on.
tickFails(t) ==
    /\ ~Idle(t) /\ fault
    /\ return(t)
    /\ UNCHANGED <<rows, armed, jobs, runs, due, up, crashes, torn>>

-----------------------------------------------------------------------------
(* The cron entry is made in the queue of scheduled BACKUPS.               *)

cronFires ==
    /\ cron /\ ~due
    /\ due' = TRUE
    /\ UNCHANGED <<rows, armed, jobs, runs, proc, up, errors, crashes, torn>>

\* The worker looks up a Schedule row by the configuration's id.
scheduleWorker ==
    /\ due
    /\ due' = FALSE
    /\ UNCHANGED <<rows, armed, jobs, runs, proc, up, errors, crashes, torn>>

-----------------------------------------------------------------------------
(* The sync worker.                                                        *)

step(w, pc) == runs' = [runs EXCEPT ![w].pc = pc]

pickJob(w) ==
    /\ runs[w] = NoRun
    /\ \E j \in Job :
          /\ jobs[j].st = "waiting"
          /\ jobs' = [jobs EXCEPT ![j].st = "active", ![j].owner = w]
          /\ runs' = [runs EXCEPT ![w] = [NoRun EXCEPT !.pc = "load", !.job = j]]
    /\ UNCHANGED <<rows, armed, proc, due, up, errors, crashes, torn>>

load(w) ==
    /\ runs[w].pc = "load"
    /\ runs' = [runs EXCEPT ![w].pc = IF config.exists /\ state.id # 0
                                      THEN "mark" ELSE "throw",
                            ![w].sid = state.id]
    /\ UNCHANGED <<rows, armed, jobs, proc, due, up, errors, crashes, torn>>

Mine(w) == state.id = runs[w].sid

\* Outside the `try': an error here leaves the row alone.
mark(w) ==
    /\ runs[w].pc = "mark"
    /\ IF Mine(w)
       THEN /\ state' = [state EXCEPT !.status = "ACTIVE", !.job = runs[w].job]
            /\ step(w, "work")
       ELSE step(w, "throw") /\ UNCHANGED state
    /\ UNCHANGED <<config, made, armed, jobs, proc, due, up, errors, crashes, torn>>

\* Mutant: a sync that ends well writes the status of its history row.
workCompletes(w) ==
    /\ runs[w].pc = "work"
    /\ Mine(w)
    /\ state' = [state EXCEPT !.status = "COMPLETED", !.job = None]
    /\ step(w, "report")
    /\ UNCHANGED <<config, made, armed, jobs, proc, due, up, errors, crashes, torn>>

\* The sync ends well only while its row is there.
work(w) ==
    /\ runs[w].pc = "work"
    /\ IF Mine(w)
       THEN \/ /\ state' = [state EXCEPT !.status = "ACTIVE", !.job = None]
               /\ step(w, "report")
            \/ step(w, "fail") /\ UNCHANGED state
       ELSE step(w, "fail") /\ UNCHANGED state
    /\ UNCHANGED <<config, made, armed, jobs, proc, due, up, errors, crashes, torn>>

\* The history row and the progress message, still inside the `try'.
report(w) ==
    /\ runs[w].pc = "report"
    /\ step(w, "end") \/ step(w, "fail")
    /\ UNCHANGED <<rows, armed, jobs, proc, due, up, errors, crashes, torn>>

fail(w) ==
    /\ runs[w].pc = "fail"
    /\ state' = IF Mine(w) THEN [state EXCEPT !.status = "FAILED", !.job = None]
                ELSE state
    /\ step(w, "throw")
    /\ UNCHANGED <<config, made, armed, jobs, proc, due, up, errors, crashes, torn>>

\* An error of the database where the handler does not catch it, or in its catch.
writeFails(w) ==
    /\ runs[w].pc \in {"load", "mark", "fail"} /\ fault
    /\ step(w, "throw")
    /\ UNCHANGED <<rows, armed, jobs, proc, due, up, crashes, torn>>

\* BullMQ takes the result only from the run that owns the job.
owns(w) == jobs[runs[w].job].st = "active" /\ jobs[runs[w].job].owner = w

\* Mutant: the attempts are not counted.
requeue(w) ==
    /\ runs[w].pc = "throw"
    /\ jobs' = IF owns(w) THEN [jobs EXCEPT ![runs[w].job].st = "waiting",
                                           ![runs[w].job].owner = None] ELSE jobs
    /\ runs' = [runs EXCEPT ![w] = NoRun]
    /\ UNCHANGED <<rows, armed, proc, due, up, errors, crashes, torn>>

jobFailed(w) ==
    /\ runs[w].pc = "throw"
    /\ jobs' = IF owns(w) THEN Retried(runs[w].job) ELSE jobs
    /\ runs' = [runs EXCEPT ![w] = NoRun]
    /\ UNCHANGED <<rows, armed, proc, due, up, errors, crashes, torn>>

jobCompleted(w) ==
    /\ runs[w].pc = "end"
    /\ jobs' = IF owns(w)
               THEN [jobs EXCEPT ![runs[w].job].st = "done",
                                 ![runs[w].job].owner = None]
               ELSE jobs
    /\ runs' = [runs EXCEPT ![w] = NoRun]
    /\ UNCHANGED <<rows, armed, proc, due, up, errors, crashes, torn>>

-----------------------------------------------------------------------------
(* A crash, and the boot after it.                                         *)

crash ==
    /\ up /\ crashes < MaxCrashes
    /\ up' = FALSE
    /\ crashes' = crashes + 1
    /\ runs' = [w \in Run |-> NoRun]
    /\ proc' = [p \in Slot \cup Timer |-> [proc[p] EXCEPT !.at = "idle"]]
    /\ timers' = [t \in Timer |-> "off"]
    /\ mapped' = [o \in Objects |-> None]
    /\ jobs' = [j \in Job |-> [jobs[j] EXCEPT !.owner = None]]
    /\ torn' \in {Torn(p) : p \in Slot}
    /\ UNCHANGED <<rows, cron, due, errors>>

\* An active job that nobody owns goes back to the queue, three times.
recoverStalled(j) ==
    /\ jobs[j].st = "active" /\ jobs[j].owner = None
    /\ jobs' = [jobs EXCEPT ![j].stalls = @ + 1,
                            ![j].st = IF jobs[j].stalls < MaxStalled
                                      THEN "waiting" ELSE "failed"]
    /\ UNCHANGED <<rows, armed, runs, proc, due, up, errors, crashes, torn>>

recoverRealtimeConfigs ==
    /\ ~up
    /\ up' = TRUE
    /\ IF /\ config.exists /\ config.active /\ config.mode = "REALTIME"
          /\ state.id # 0 /\ state.status = "ACTIVE"
       THEN setupRealtimeMode("boot") ELSE UNCHANGED <<timers, mapped>>
    /\ UNCHANGED <<rows, cron, jobs, runs, proc, due, errors, crashes, torn>>

-----------------------------------------------------------------------------
start(r) ==
    \/ activateSyncConfiguration(r)
    \/ pauseSyncConfiguration(r)
    \/ resumeSyncConfiguration(r)
    \/ stopSyncConfiguration(r)

continue(r) ==
    \/ createState(r) \/ setActive(r) \/ initialSync(r) \/ setup(r)
    \/ pauseState(r) \/ pauseCancel(r) \/ resumeState(r)
    \/ stopCancel(r) \/ teardownTracking(r) \/ deleteState(r) \/ setInactive(r)
    \/ initialSyncFails(r) \/ requestFails(r)

trigger(p) ==
    \/ triggerSync(p) \/ check(p) \/ checkFails(p) \/ enqueue(p) \/ setJob(p)

run(w) ==
    \/ pickJob(w) \/ load(w) \/ mark(w) \/ work(w) \/ report(w) \/ fail(w)
    \/ writeFails(w) \/ jobFailed(w) \/ jobCompleted(w)

Next ==
    \/ \E r \in Slot : \/ start(r) \/ continue(r)
                       \/ updateSyncConfiguration(r)
                       \/ deleteSyncConfiguration(r)
    \/ \E p \in Slot \cup Timer : trigger(p)
    \/ \E t \in Timer : tick(t) \/ tickFails(t)
    \/ cronFires \/ scheduleWorker
    \/ \E w \in Run : run(w)
    \/ \E j \in Job : recoverStalled(j)
    \/ crash
    \/ recoverRealtimeConfigs

Spec == Init /\ [][Next]_vars

\* The worker handles every job, BullMQ finds those that stalled, an interval
\* that is not cleared keeps firing and a request or a tick that has begun
\* goes on.  No request need ever come.
FairSpec ==
    /\ Spec
    /\ \A w \in Run : WF_vars(run(w))
    /\ \A j \in Job : WF_vars(recoverStalled(j))
    /\ \A t \in Timer : WF_vars(tick(t)) /\ WF_vars(trigger(t))
    /\ \A r \in Slot : WF_vars(continue(r))
    /\ WF_vars(recoverRealtimeConfigs)

-----------------------------------------------------------------------------
(* Properties.                                                             *)

\* A trigger that finds a stale currentJobId clears it.  The id it clears is
\* never that of a job that waits or runs, though another trigger may have
\* cleared and replaced the stale one meanwhile; an error of Redis alone
\* (errors changes) takes a live job for a dead one.
ClearsOnlyDeadJobs ==
    [][\A p \in Slot \cup Timer :
          /\ At(p, "check") /\ proc'[p].at = "enqueue"
          /\ state'.job # state.job
          /\ errors' = errors
          => jobs[state.job].st \notin Live]_vars

\* For an owner who waits for each answer: between requests the configuration is active
\* exactly when it has a SyncState row, whatever other call failed or wherever the process
\* died, but for two places.  An activation whose last write fails leaves a row without
\* the flag, until the configuration is deleted; a stop whose last write fails leaves the
\* flag without a row, until a later stop gets through.
ActiveIffState ==
    config.exists /\ (\A r \in Slot : Idle(r)) =>
        CASE torn = "activate" -> ~config.active /\ state.id # 0
          [] torn = "stop"     -> config.active /\ state.id = 0
          [] OTHER             -> config.active <=> state.id # 0

\* Once a configuration is inactive every interval that polls for it dies,
\* those of another object and those no map remembers included.
StoppedTimersDie ==
    ~config.active ~> (config.active \/ \A t \in Timer : timers[t] = "off")

\* Every sync job ends, through crashes, errors, retries, pauses and stops.
JobsSettle == \A j \in Job : jobs[j].st \in Live ~> jobs[j].st \notin Live
=============================================================================
