------------------------ MODULE SyncLifecycle_proofs ------------------------
(***************************************************************************)
(* The sync lifecycle, for every number of requests, timers, jobs and      *)
(* faults: the types, that a trigger clears only the id of a dead job, and *)
(* when a configuration is active and when it has its state, for an owner  *)
(* who waits for each answer.  The last needs to know what the one   *)
(* request under way has read and done so far.                             *)
(***************************************************************************)
EXTENDS SyncLifecycle, TLAPS

-----------------------------------------------------------------------------
(* Types.                                                                  *)

Proc == Slot \cup Timer

Places == {"idle", "createState", "setActive", "initialSync", "setup",
           "pauseState", "pauseCancel", "resumeState",
           "stopCancel", "teardown", "deleteState", "setInactive",
           "trigger", "check", "enqueue", "setJob", "update", "delete"}

RowsOK ==
    /\ config \in [exists : BOOLEAN, active : BOOLEAN, mode : Modes]
    /\ state \in [id : Nat, status : Status, job : Job \cup {None}]
    /\ made \in Nat
ArmedOK ==
    /\ timers \in [Timer -> Objects \cup {"off"}]
    /\ mapped \in [Objects -> Timer \cup {None}]
    /\ cron \in BOOLEAN
JobsOK == jobs \in [Job -> BullJob]
RunsOK == runs \in [Run -> Handler]
ProcOK == proc \in [Proc -> Request]
RestOK == /\ {due, up} \subseteq BOOLEAN /\ {errors, crashes} \subseteq Nat
          /\ torn \in {"no", "activate", "stop"}

Parts == RowsOK /\ ArmedOK /\ JobsOK /\ RunsOK /\ ProcOK /\ RestOK

LEMMA TypeParts == (TypeOK <=> Parts) /\ (TypeOK' <=> Parts')
  BY DEF TypeOK, Parts, RowsOK, ArmedOK, JobsOK, RunsOK, ProcOK, RestOK, Proc

LEMMA Staying ==
    ASSUME TypeOK
    PROVE  /\ UNCHANGED rows => RowsOK'
           /\ UNCHANGED armed => ArmedOK'
           /\ UNCHANGED jobs => JobsOK'
           /\ UNCHANGED runs => RunsOK'
           /\ UNCHANGED proc => ProcOK'
           /\ UNCHANGED <<due, up, errors, crashes, torn>> => RestOK'
  BY TypeParts DEF Parts, rows, armed, RowsOK, ArmedOK, JobsOK, RunsOK, ProcOK, RestOK

LEMMA Counting == ASSUME TypeOK, fault PROVE errors' \in Nat
  BY DEF TypeOK, fault

LEMMA Moving ==
    ASSUME proc \in [Proc -> Request], NEW p \in Proc, NEW at \in Places, goto(p, at)
    PROVE  proc' \in [Proc -> Request]
  BY DEF goto, Request, Places

LEMMA Returning ==
    ASSUME proc \in [Proc -> Request], NEW p \in Proc, return(p)
    PROVE  proc' \in [Proc -> Request]
  BY Moving DEF return, Places

LEMMA Reading ==
    ASSUME TypeOK, NEW p \in Proc, NEW at \in Places, proc' = [proc EXCEPT ![p] = Snapshot(at)]
    PROVE  proc' \in [Proc -> Request]
<1>1. Snapshot(at) \in Request
  BY DEF TypeOK, Snapshot, Request, Places
<1>2. proc \in [Proc -> Request]
  BY DEF TypeOK, Proc
<1> QED
  BY <1>1, <1>2

\* An update of the row, or an error when it is not there.
LEMMA Updating ==
    ASSUME TypeOK, NEW p \in Proc, NEW status \in Status, NEW job \in Job \cup {None},
           NEW then \in Places, updateState(p, status, job, then)
    PROVE  /\ state' \in [id : Nat, status : Status, job : Job \cup {None}]
           /\ proc' \in [Proc -> Request]
           /\ UNCHANGED <<config, made>>
<1>1. proc \in [Proc -> Request]
  BY DEF TypeOK, Proc
<1>2. state' \in [id : Nat, status : Status, job : Job \cup {None}]
  <2>1. state \in [id : Nat, status : Status, job : Job \cup {None}]
    BY DEF TypeOK
  <2>2. state' \in {state, [state EXCEPT !.status = status, !.job = job]}
    BY DEF updateState
  <2> QED
    BY <2>1, <2>2
<1>3. proc' \in [Proc -> Request]
  BY <1>1, Moving, Returning DEF updateState
<1> QED
  BY <1>2, <1>3 DEF updateState

\* The queue, as a job is moved in it.
LEMMA Retrying ==
    ASSUME TypeOK, NEW j \in Job PROVE Retried(j) \in [Job -> BullJob]
<1>1. jobs \in [Job -> BullJob]
  BY DEF TypeOK
<1>2. jobs[j] \in BullJob
  BY <1>1
<1> DEFINE tries == jobs[j].tries + 1
           st == IF tries < MaxAttempts THEN "waiting" ELSE "failed"
           job == [jobs[j] EXCEPT !.tries = tries, !.owner = None, !.st = st]
<1>3. job \in BullJob
  <2>1. tries \in Nat
    BY <1>2 DEF BullJob
  <2>2. st \in {"new", "done", "failed", "removed"} \cup Live
    BY DEF Live
  <2> HIDE DEF tries, st
  <2> QED
    BY <1>2, <2>1, <2>2 DEF BullJob
<1>4. Retried(j) = [jobs EXCEPT ![j] = job]
  BY <1>1, <1>2 DEF Retried, BullJob
<1> HIDE DEF job
<1> QED
  BY <1>1, <1>3, <1>4

LEMMA Cancelling ==
    ASSUME TypeOK, NEW j \in Job \cup {None}, cancelRunningJob(j)
    PROVE  jobs' \in [Job -> BullJob]
<1>1. jobs \in [Job -> BullJob]
  BY DEF TypeOK
<1>2. CASE j = None
  BY <1>1, <1>2 DEF cancelRunningJob
<1>3. CASE j # None
  <2>1. j \in Job /\ Retried(j) \in [Job -> BullJob]
    BY <1>3, Retrying
  <2>2. [jobs EXCEPT ![j].st = "removed"] \in [Job -> BullJob]
    BY <1>1, <2>1 DEF BullJob
  <2>3. jobs' \in {jobs, [jobs EXCEPT ![j].st = "removed"], Retried(j)}
    BY <1>3 DEF cancelRunningJob
  <2> QED
    BY <1>1, <2>1, <2>2, <2>3
<1> QED
  BY <1>2, <1>3

LEMMA Adding ==
    ASSUME TypeOK, NEW j \in Job, addSyncJob(j) PROVE jobs' \in [Job -> BullJob]
  BY DEF TypeOK, addSyncJob, BullJob, Live

LEMMA Arming ==
    ASSUME TypeOK, NEW mode, setupMode(mode) \/ cancelMode(mode)
    PROVE  ArmedOK'
<1> USE DEF TypeOK, ArmedOK, Objects
<1>1. CASE mode = "REALTIME"
  BY <1>1 DEF setupMode, cancelMode, setupRealtimeMode, cancelRealtimeMode
<1>2. CASE mode # "REALTIME" /\ mode = "SCHEDULED"
  BY <1>2 DEF setupMode, cancelMode
<1>3. CASE mode # "REALTIME" /\ mode # "SCHEDULED"
  BY <1>3 DEF setupMode, cancelMode, armed
<1> QED
  BY <1>1, <1>2, <1>3

LEMMA TypeInit == Init => TypeOK
<1> SUFFICES ASSUME Init PROVE TypeOK
  OBVIOUS
<1>1. config.mode \in Modes /\ config \in [exists : BOOLEAN, active : BOOLEAN, mode : Modes]
  BY DEF Init
<1>2. state \in [id : Nat, status : Status, job : Job \cup {None}]
  BY DEF Init, NoState, Status
<1>3. jobs \in [Job -> BullJob]
  BY DEF Init, NewJob, BullJob, Live
<1>4. runs \in [Run -> Handler]
  BY DEF Init, NoRun, Handler
<1>5. proc \in [Slot \cup Timer -> Request]
  BY <1>1 DEF Init, Request
<1>6. made \in Nat /\ errors \in Nat /\ crashes \in Nat /\ torn = "no"
  BY DEF Init
<1>9. cron \in BOOLEAN /\ due \in BOOLEAN /\ up \in BOOLEAN
  BY Zenon DEF Init
<1>7. timers \in [Timer -> Objects \cup {"off"}]
  BY DEF Init
<1>8. mapped \in [Objects -> Timer \cup {None}]
  BY DEF Init
<1> QED
  BY <1>1, <1>2, <1>3, <1>4, <1>5, <1>6, <1>7, <1>8, <1>9 DEF TypeOK

\* What a request or a tick may do to itself.
LEMMA OwnMoves ==
    ASSUME TypeOK, NEW p \in Proc
    PROVE  /\ proc[p] \in Request
           /\ \A at \in Places : goto(p, at) => ProcOK'
           /\ return(p) => ProcOK'
           /\ \A at \in Places : proc' = [proc EXCEPT ![p] = Snapshot(at)] => ProcOK'
<1>1. proc \in [Proc -> Request]
  BY TypeParts DEF Parts, ProcOK
<1>2. \A at \in Places : goto(p, at) => ProcOK'
  BY <1>1, Moving DEF ProcOK
<1>3. return(p) => ProcOK'
  BY <1>1, Returning DEF ProcOK
<1>4. \A at \in Places : proc' = [proc EXCEPT ![p] = Snapshot(at)] => ProcOK'
  BY Reading DEF ProcOK
<1> QED
  BY <1>1, <1>2, <1>3, <1>4

LEMMA StartType == ASSUME TypeOK, NEW r \in Slot, start(r) PROVE TypeOK'
<1>1. /\ UNCHANGED <<rows, armed, jobs, runs, due, up, errors, crashes, torn>>
      /\ \E at \in Places : proc' = [proc EXCEPT ![r] = Snapshot(at)]
  BY DEF start, activateSyncConfiguration, pauseSyncConfiguration, resumeSyncConfiguration,
         stopSyncConfiguration, Places
<1>2. ProcOK'
  BY <1>1, OwnMoves DEF Proc
<1> QED
  BY <1>1, <1>2, Staying, TypeParts DEF Parts

LEMMA ContinueType == ASSUME TypeOK, NEW r \in Slot, continue(r) PROVE TypeOK'
<1>r. r \in Proc /\ Parts
  BY TypeParts DEF Proc
<1>m. /\ proc[r] \in Request
      /\ \A at \in Places : goto(r, at) => ProcOK'
      /\ return(r) => ProcOK'
      /\ \A at \in Places : proc' = [proc EXCEPT ![r] = Snapshot(at)] => ProcOK'
  BY <1>r, OwnMoves
<1>j. proc[r].jid \in Job \cup {None}
  BY <1>m DEF Request
<1>1. CASE createState(r)
  <2>1. RowsOK'
    BY <1>1, <1>r DEF createState, Parts, RowsOK, NoState, Status
  <2>2. ProcOK'
    BY <1>1, <1>m DEF createState, Places
  <2> QED
    BY <1>1, <2>1, <2>2, Staying, TypeParts DEF Parts, createState
<1>2. CASE setActive(r)
  <2>1. RowsOK'
    BY <1>2, <1>r DEF setActive, Parts, RowsOK
  <2>2. ProcOK'
    BY <1>2, <1>m DEF setActive, Places
  <2> QED
    BY <1>2, <2>1, <2>2, Staying, TypeParts DEF Parts, setActive
<1>3. CASE initialSync(r)
  <2>1. JobsOK'
    BY <1>3, Adding DEF initialSync, JobsOK
  <2>2. ProcOK'
    BY <1>3, <1>m DEF initialSync, Places
  <2> QED
    BY <1>3, <2>1, <2>2, Staying, TypeParts DEF Parts, initialSync
<1>4. CASE initialSyncFails(r)
  <2>1. ProcOK'
    BY <1>4, <1>m DEF initialSyncFails, Places
  <2>2. RestOK'
    BY <1>4, <1>r, Counting DEF initialSyncFails, Parts, RestOK
  <2> QED
    BY <1>4, <2>1, <2>2, Staying, TypeParts DEF Parts, initialSyncFails
<1>5. CASE setup(r)
  <2>1. ArmedOK'
    BY <1>5, Arming DEF setup
  <2>2. ProcOK'
    BY <1>5, <1>m DEF setup
  <2> QED
    BY <1>5, <2>1, <2>2, Staying, TypeParts DEF Parts, setup
<1>6. CASE pauseState(r)
  <2>1. RowsOK' /\ ProcOK'
    BY <1>6, <1>r, Updating DEF pauseState, Parts, RowsOK, ProcOK, Places, Status
  <2> QED
    BY <1>6, <2>1, Staying, TypeParts DEF Parts, pauseState
<1>7. CASE pauseCancel(r)
  <2>1. JobsOK'
    BY <1>7, <1>j, Cancelling DEF pauseCancel, JobsOK
  <2>2. ArmedOK'
    BY <1>7, Arming DEF pauseCancel
  <2>3. ProcOK'
    BY <1>7, <1>m DEF pauseCancel
  <2> QED
    BY <1>7, <2>1, <2>2, <2>3, Staying, TypeParts DEF Parts, pauseCancel
<1>8. CASE resumeState(r)
  <2>1. RowsOK' /\ ProcOK'
    BY <1>8, <1>r, Updating DEF resumeState, Parts, RowsOK, ProcOK, Places, Status
  <2> QED
    BY <1>8, <2>1, Staying, TypeParts DEF Parts, resumeState
<1>9. CASE stopCancel(r)
  <2>1. JobsOK'
    BY <1>9, <1>j, Cancelling DEF stopCancel, JobsOK
  <2>2. ArmedOK'
    BY <1>9, Arming DEF stopCancel
  <2>3. ProcOK'
    BY <1>9, <1>m DEF stopCancel, Places
  <2> QED
    BY <1>9, <2>1, <2>2, <2>3, Staying, TypeParts DEF Parts, stopCancel
<1>10. CASE teardownTracking(r)
  <2>1. ProcOK'
    BY <1>10, <1>m DEF teardownTracking, Places
  <2> QED
    BY <1>10, <2>1, Staying, TypeParts DEF Parts, teardownTracking
<1>11. CASE deleteState(r)
  <2>1. RowsOK'
    BY <1>11, <1>r DEF deleteState, Parts, RowsOK, NoState, Status
  <2>2. ProcOK'
    BY <1>11, <1>m DEF deleteState, Places
  <2> QED
    BY <1>11, <2>1, <2>2, Staying, TypeParts DEF Parts, deleteState
<1>12. CASE setInactive(r)
  <2>1. RowsOK'
    BY <1>12, <1>r DEF setInactive, Parts, RowsOK
  <2>2. ProcOK'
    BY <1>12, <1>m DEF setInactive
  <2>3. RestOK'
    BY <1>12, <1>r DEF setInactive, Parts, RestOK
  <2> QED
    BY <1>12, <2>1, <2>2, <2>3, Staying, TypeParts DEF Parts, setInactive
<1>13. CASE requestFails(r)
  <2>1. ProcOK'
    BY <1>13, <1>m DEF requestFails
  <2>2. RestOK'
    BY <1>13, <1>r, Counting DEF requestFails, Torn, Parts, RestOK
  <2> QED
    BY <1>13, <2>1, <2>2, Staying, TypeParts DEF Parts, requestFails
<1> QED
  BY <1>1, <1>2, <1>3, <1>4, <1>5, <1>6, <1>7, <1>8, <1>9, <1>10, <1>11,
     <1>12, <1>13 DEF continue

LEMMA EditType ==
    ASSUME TypeOK, NEW r \in Slot,
           updateSyncConfiguration(r) \/ deleteSyncConfiguration(r)
    PROVE  TypeOK'
<1>r. r \in Proc /\ Parts
  BY TypeParts DEF Proc
<1>m. /\ proc[r] \in Request
      /\ \A at \in Places : goto(r, at) => ProcOK'
      /\ return(r) => ProcOK'
      /\ \A at \in Places : proc' = [proc EXCEPT ![r] = Snapshot(at)] => ProcOK'
  BY <1>r, OwnMoves
<1>1. CASE updateSyncConfiguration(r)
  <2>1. RowsOK'
    BY <1>1, <1>r DEF updateSyncConfiguration, Parts, rows, RowsOK
  <2>2. ProcOK'
    BY <1>1, <1>m DEF updateSyncConfiguration, Places
  <2> QED
    BY <1>1, <2>1, <2>2, Staying, TypeParts DEF Parts, updateSyncConfiguration
<1>2. CASE deleteSyncConfiguration(r)
  <2>1. RowsOK'
    <3>1. CASE UNCHANGED rows
      BY <3>1, Staying
    <3>2. CASE /\ config' = [config EXCEPT !.exists = FALSE]
               /\ state' = NoState /\ made' = made
      BY <3>2, <1>r DEF Parts, RowsOK, NoState, Status
    <3> QED
      BY <1>2, <3>1, <3>2 DEF deleteSyncConfiguration
  <2>2. ProcOK'
    BY <1>2, <1>m DEF deleteSyncConfiguration, Places
  <2> QED
    BY <1>2, <2>1, <2>2, Staying, TypeParts DEF Parts, deleteSyncConfiguration
<1> QED
  BY <1>1, <1>2

LEMMA TriggerType == ASSUME TypeOK, NEW p \in Proc, trigger(p) PROVE TypeOK'
<1>r. p \in Proc /\ Parts
  BY TypeParts DEF Proc
<1>m. /\ proc[p] \in Request
      /\ \A at \in Places : goto(p, at) => ProcOK'
      /\ return(p) => ProcOK'
      /\ \A at \in Places : proc' = [proc EXCEPT ![p] = Snapshot(at)] => ProcOK'
  BY <1>r, OwnMoves
<1>j. proc[p].jid \in Job \cup {None}
  BY <1>m DEF Request
<1>1. CASE triggerSync(p)
  <2>1. ProcOK'
    BY <1>1, <1>m DEF triggerSync, Places
  <2> QED
    BY <1>1, <2>1, Staying, TypeParts DEF Parts, triggerSync
<1>2. CASE check(p)
  <2>1. RowsOK'
    BY <1>2, <1>r DEF check, Parts, RowsOK
  <2>2. ProcOK'
    BY <1>2, <1>m DEF check, Places
  <2> QED
    BY <1>2, <2>1, <2>2, Staying, TypeParts DEF Parts, check
<1>3. CASE checkFails(p)
  <2>1. RowsOK'
    BY <1>3, <1>r DEF checkFails, Parts, RowsOK
  <2>2. ProcOK'
    BY <1>3, <1>m DEF checkFails, Places
  <2>3. RestOK'
    BY <1>3, <1>r, Counting DEF checkFails, Parts, RestOK
  <2> QED
    BY <1>3, <2>1, <2>2, <2>3, Staying, TypeParts DEF Parts, checkFails
<1>4. CASE enqueue(p)
  <2>1. JobsOK'
    BY <1>4, Adding DEF enqueue, JobsOK
  <2>2. ProcOK'
    <3>1. PICK j \in Job : proc' = [proc EXCEPT ![p].at = "setJob", ![p].jid = j]
      BY <1>4 DEF enqueue
    <3>2. [proc[p] EXCEPT !.at = "setJob", !.jid = j] \in Request
      BY <1>m DEF Request
    <3>3. proc \in [Proc -> Request]
      BY <1>r DEF Parts, ProcOK
    <3>4. proc' = [proc EXCEPT ![p] = [proc[p] EXCEPT !.at = "setJob", !.jid = j]]
      BY <3>1, <3>3, <1>r
    <3> QED
      BY <3>2, <3>3, <3>4 DEF ProcOK
  <2> QED
    BY <1>4, <2>1, <2>2, Staying, TypeParts DEF Parts, enqueue
<1>5. CASE setJob(p)
  <2>1. RowsOK' /\ ProcOK'
    BY <1>5, <1>j, <1>r, Updating DEF setJob, Parts, RowsOK, ProcOK, Places, Status
  <2> QED
    BY <1>5, <2>1, Staying, TypeParts DEF Parts, setJob
<1> QED
  BY <1>1, <1>2, <1>3, <1>4, <1>5 DEF trigger

LEMMA TickType ==
    ASSUME TypeOK, NEW t \in Timer, tick(t) \/ tickFails(t)
    PROVE  TypeOK'
<1>r. t \in Proc /\ Parts
  BY TypeParts DEF Proc
<1>m. (\A at \in Places : goto(t, at) => ProcOK') /\ (return(t) => ProcOK')
  BY <1>r, OwnMoves
<1>1. CASE tick(t)
  <2>1. ProcOK'
    BY <1>1, <1>m, Staying DEF tick, Places
  <2>2. ArmedOK'
    BY <1>1, <1>r, Staying DEF tick, Parts, ArmedOK, armed
  <2> QED
    BY <1>1, <2>1, <2>2, Staying, TypeParts DEF Parts, tick
<1>2. CASE tickFails(t)
  <2>1. ProcOK'
    BY <1>2, <1>m DEF tickFails
  <2>2. RestOK'
    BY <1>2, <1>r, Counting DEF tickFails, Parts, RestOK
  <2> QED
    BY <1>2, <2>1, <2>2, Staying, TypeParts DEF Parts, tickFails
<1> QED
  BY <1>1, <1>2

LEMMA RunType == ASSUME TypeOK, NEW w \in Run, run(w) PROVE TypeOK'
<1>r. Parts
  BY TypeParts
<1>h. /\ runs \in [Run -> Handler] /\ runs[w] \in Handler
      /\ runs[w].job \in Job \cup {None}
  BY <1>r DEF Parts, RunsOK, Handler
<1>m. /\ \A pc \in {"load", "mark", "work", "report", "fail", "throw", "end"} :
             step(w, pc) => RunsOK'
      /\ runs' = [runs EXCEPT ![w] = NoRun] => RunsOK'
  BY <1>h DEF step, RunsOK, Handler, NoRun
<1>1. CASE pickJob(w)
  <2>1. JobsOK'
    <3>1. PICK j \in Job : jobs' = [jobs EXCEPT ![j].st = "active", ![j].owner = w]
      BY <1>1 DEF pickJob
    <3>2. jobs \in [Job -> BullJob]
      BY <1>r DEF Parts, JobsOK
    <3>3. [jobs[j] EXCEPT !.st = "active", !.owner = w] \in BullJob
      BY <3>2 DEF BullJob, Live
    <3>4. jobs' = [jobs EXCEPT ![j] = [jobs[j] EXCEPT !.st = "active", !.owner = w]]
      BY <3>1, <3>2
    <3> QED
      BY <3>2, <3>3, <3>4 DEF JobsOK
  <2>2. RunsOK'
    <3>1. PICK j \in Job :
             runs' = [runs EXCEPT ![w] = [NoRun EXCEPT !.pc = "load", !.job = j]]
      BY <1>1 DEF pickJob
    <3>2. [NoRun EXCEPT !.pc = "load", !.job = j] \in Handler
      BY DEF NoRun, Handler
    <3> QED
      BY <1>h, <3>1, <3>2 DEF RunsOK
  <2> QED
    BY <1>1, <2>1, <2>2, Staying, TypeParts DEF Parts, pickJob
<1>2. CASE load(w)
  <2>1. RunsOK'
    BY <1>2, <1>h, <1>r DEF load, RunsOK, Handler, Parts, RowsOK
  <2> QED
    BY <1>2, <2>1, Staying, TypeParts DEF Parts, load
<1>3. CASE mark(w)
  <2>1. RowsOK'
    BY <1>3, <1>h, <1>r DEF mark, Parts, RowsOK, Status
  <2>2. RunsOK'
    BY <1>3, <1>m DEF mark
  <2> QED
    BY <1>3, <2>1, <2>2, Staying, TypeParts DEF Parts, mark
<1>4. CASE work(w)
  <2>1. RowsOK'
    BY <1>4, <1>r DEF work, Parts, RowsOK, Status
  <2>2. RunsOK'
    BY <1>4, <1>m DEF work
  <2> QED
    BY <1>4, <2>1, <2>2, Staying, TypeParts DEF Parts, work
<1>5. CASE report(w)
  <2>1. RunsOK'
    BY <1>5, <1>m DEF report
  <2> QED
    BY <1>5, <2>1, Staying, TypeParts DEF Parts, report
<1>6. CASE fail(w)
  <2>1. RowsOK'
    BY <1>6, <1>r DEF fail, Parts, RowsOK, Status
  <2>2. RunsOK'
    BY <1>6, <1>m DEF fail
  <2> QED
    BY <1>6, <2>1, <2>2, Staying, TypeParts DEF Parts, fail
<1>7. CASE jobFailed(w)
  <2>1. JobsOK'
    <3>1. CASE runs[w].job \in Job /\ jobs' = Retried(runs[w].job)
      BY <3>1, Retrying DEF JobsOK
    <3>2. CASE runs[w].job = None /\ jobs' = Retried(runs[w].job)
      <4>1. jobs' = jobs
        BY <3>2, <1>r, NoneAssumption DEF Retried, Parts, JobsOK
      <4> QED
        BY <4>1, Staying
    <3>3. CASE jobs' = jobs
      BY <3>3, Staying
    <3> QED
      BY <1>7, <1>h, <3>1, <3>2, <3>3 DEF jobFailed
  <2>2. RunsOK'
    BY <1>7, <1>m DEF jobFailed
  <2> QED
    BY <1>7, <2>1, <2>2, Staying, TypeParts DEF Parts, jobFailed
<1>8. CASE jobCompleted(w)
  <2>1. JobsOK'
    <3> DEFINE j == runs[w].job
               done == [jobs[j] EXCEPT !.st = "done", !.owner = None]
    <3>1. jobs \in [Job -> BullJob]
      BY <1>r DEF Parts, JobsOK
    <3>2. CASE jobs' = [jobs EXCEPT ![j].st = "done", ![j].owner = None] /\ j \in Job
      <4>1. done \in BullJob
        BY <3>1, <3>2 DEF BullJob
      <4>2. jobs' = [jobs EXCEPT ![j] = done]
        BY <3>1, <3>2
      <4> HIDE DEF done
      <4> QED
        BY <3>1, <4>1, <4>2 DEF JobsOK
    <3>3. CASE jobs' = [jobs EXCEPT ![j].st = "done", ![j].owner = None] /\ j = None
      BY <3>1, <3>3, NoneAssumption DEF JobsOK
    <3>4. CASE jobs' = jobs
      BY <3>1, <3>4 DEF JobsOK
    <3> QED
      BY <1>8, <1>h, <3>2, <3>3, <3>4 DEF jobCompleted
  <2>2. RunsOK'
    BY <1>8, <1>m DEF jobCompleted
  <2> QED
    BY <1>8, <2>1, <2>2, Staying, TypeParts DEF Parts, jobCompleted
<1>9. CASE writeFails(w)
  <2>1. RunsOK'
    BY <1>9, <1>m DEF writeFails
  <2>2. RestOK'
    BY <1>9, <1>r, Counting DEF writeFails, Parts, RestOK
  <2> QED
    BY <1>9, <2>1, <2>2, Staying, TypeParts DEF Parts, writeFails
<1> QED
  BY <1>1, <1>2, <1>3, <1>4, <1>5, <1>6, <1>7, <1>8, <1>9 DEF run

LEMMA WorldType ==
    ASSUME TypeOK,
           \/ cronFires \/ scheduleWorker \/ crash \/ recoverRealtimeConfigs
           \/ \E j \in Job : recoverStalled(j)
    PROVE  TypeOK'
<1>r. Parts
  BY TypeParts
<1>1. CASE cronFires \/ scheduleWorker
  <2>1. RestOK'
    BY <1>1, <1>r DEF cronFires, scheduleWorker, Parts, RestOK
  <2> QED
    BY <1>1, <2>1, Staying, TypeParts DEF Parts, cronFires, scheduleWorker
<1>2. CASE crash
  <2>1. RunsOK'
    BY <1>2 DEF crash, RunsOK, NoRun, Handler
  <2>2. ProcOK'
    BY <1>2, <1>r DEF crash, Parts, ProcOK, Proc, Request
  <2>3. ArmedOK'
    BY <1>2, <1>r DEF crash, Parts, ArmedOK
  <2>4. JobsOK'
    <3>1. \A j \in Job : [jobs[j] EXCEPT !.owner = None] \in BullJob
      BY <1>r DEF Parts, JobsOK, BullJob
    <3> QED
      BY <1>2, <3>1 DEF crash, JobsOK
  <2>5. RestOK'
    <3>1. up' \in BOOLEAN /\ due' \in BOOLEAN /\ errors' \in Nat
      BY <1>2, <1>r DEF crash, Parts, RestOK
    <3>2. crashes' \in Nat
      BY <1>2, <1>r DEF crash, Parts, RestOK
    <3>3. torn' \in {"no", "activate", "stop"}
      BY <1>2, <1>r DEF crash, Torn, Parts, RestOK
    <3> QED
      BY <3>1, <3>2, <3>3 DEF RestOK
  <2> QED
    BY <1>2, <2>1, <2>2, <2>3, <2>4, <2>5, Staying, TypeParts DEF Parts, crash
<1>3. CASE recoverRealtimeConfigs
  <2>1. ArmedOK'
    BY <1>3, <1>r DEF recoverRealtimeConfigs, setupRealtimeMode, Parts, ArmedOK, Objects
  <2>2. RestOK'
    BY <1>3, <1>r DEF recoverRealtimeConfigs, Parts, RestOK
  <2> QED
    BY <1>3, <2>1, <2>2, Staying, TypeParts DEF Parts, recoverRealtimeConfigs
<1>4. ASSUME NEW j \in Job, recoverStalled(j) PROVE TypeOK'
  <2>1. JobsOK'
    BY <1>4, <1>r DEF recoverStalled, Parts, JobsOK, BullJob, Live
  <2> QED
    BY <1>4, <2>1, Staying, TypeParts DEF Parts, recoverStalled
<1> QED
  BY <1>1, <1>2, <1>3, <1>4

LEMMA TypeStep == TypeOK /\ [Next]_vars => TypeOK'
<1> SUFFICES ASSUME TypeOK, [Next]_vars PROVE TypeOK'
  OBVIOUS
<1>1. CASE UNCHANGED vars
  BY <1>1, Staying, TypeParts DEF Parts, vars
<1> QED
  BY <1>1, StartType, ContinueType, EditType, TriggerType, TickType, RunType, WorldType
  DEF Next, Proc

\* Every variable keeps its type, whatever requests, timers, jobs and faults
\* there are.
THEOREM TypeCorrect == Spec => []TypeOK
<1> QED
  BY TypeInit, TypeStep, PTL DEF Spec

-----------------------------------------------------------------------------
(* A trigger clears only the id of a dead job.                             *)

\* Only p itself changes what p has read and where it is, but for a crash.
LEMMA OthersStay ==
    ASSUME TypeOK, NEW p \in Proc, NEW q \in Proc, p # q,
           \/ start(q) \/ continue(q)
           \/ updateSyncConfiguration(q) \/ deleteSyncConfiguration(q)
           \/ trigger(q) \/ tick(q) \/ tickFails(q)
    PROVE  proc'[p] = proc[p]
<1> USE TypeParts DEF Parts, ProcOK, goto, return
<1>1. CASE start(q)
  BY <1>1 DEF start, activateSyncConfiguration, pauseSyncConfiguration,
              resumeSyncConfiguration, stopSyncConfiguration
<1>2. CASE continue(q)
  BY <1>2 DEF continue, createState, setActive, initialSync, initialSyncFails, setup,
              pauseState, pauseCancel, resumeState, stopCancel, teardownTracking,
              deleteState, setInactive, requestFails, updateState
<1>3. CASE updateSyncConfiguration(q) \/ deleteSyncConfiguration(q)
  BY <1>3 DEF updateSyncConfiguration, deleteSyncConfiguration
<1>4. CASE trigger(q)
  BY <1>4 DEF trigger, triggerSync, check, checkFails, enqueue, setJob, updateState
<1>5. CASE tick(q) \/ tickFails(q)
  BY <1>5 DEF tick, tickFails
<1> QED
  BY <1>1, <1>2, <1>3, <1>4, <1>5

\* The steps of nobody.
Quiet == cronFires \/ scheduleWorker \/ (\E w \in Run : run(w))
         \/ (\E j \in Job : recoverStalled(j)) \/ recoverRealtimeConfigs

LEMMA QuietStays == ASSUME Quiet PROVE UNCHANGED <<config, proc, torn>>
  BY DEF Quiet, cronFires, scheduleWorker, recoverStalled, recoverRealtimeConfigs, rows,
         run, pickJob, load, mark, work, report, fail, writeFails,
         jobFailed, jobCompleted

LEMMA CheckLeads ==
    ASSUME TypeOK, [Next]_vars, NEW p \in Proc, At(p, "check"), proc'[p].at = "enqueue"
    PROVE  check(p) \/ checkFails(p)
<1>t. proc \in [Proc -> Request] /\ proc[p].at = "check"
  BY TypeParts DEF Parts, ProcOK, At
<1>1. CASE UNCHANGED vars
  BY <1>1, <1>t DEF vars
<1>2. CASE crash
  <2>1. proc[p] \in Request /\ proc'[p] = [proc[p] EXCEPT !.at = "idle"]
    BY <1>2, <1>t DEF crash, Proc
  <2> QED
    BY <2>1 DEF Request
<1>3. CASE Quiet
  BY <1>3, <1>t, QuietStays
<1>4. ASSUME NEW r \in Slot,
             \/ start(r) \/ continue(r)
             \/ updateSyncConfiguration(r) \/ deleteSyncConfiguration(r)
      PROVE  FALSE
  <2>1. r = p
    BY <1>4, <1>t, OthersStay DEF Proc
  <2>2. ~return(p)
    BY <1>t DEF return, goto, Request
  <2> QED
    BY <1>4, <2>1, <2>2, <1>t
    DEF start, activateSyncConfiguration, pauseSyncConfiguration, resumeSyncConfiguration,
        stopSyncConfiguration, continue, createState, setActive, initialSync,
        initialSyncFails, setup, pauseState, pauseCancel, resumeState, stopCancel,
        teardownTracking, deleteState, setInactive, requestFails,
        updateSyncConfiguration, deleteSyncConfiguration, Idle, At
<1>5. ASSUME NEW q \in Proc, trigger(q) PROVE check(p) \/ checkFails(p)
  <2>1. q = p
    BY <1>5, <1>t, OthersStay
  <2> QED
    BY <1>5, <2>1, <1>t DEF trigger, triggerSync, enqueue, setJob, Idle, At
<1>6. ASSUME NEW t \in Timer, tick(t) \/ tickFails(t) PROVE FALSE
  <2>1. t = p
    BY <1>6, <1>t, OthersStay DEF Proc
  <2>2. ~return(p)
    BY <1>t DEF return, goto, Request
  <2> QED
    BY <1>6, <2>1, <2>2, <1>t DEF tick, tickFails, Idle
<1> QED
  BY <1>1, <1>2, <1>3, <1>4, <1>5, <1>6 DEF Next, Quiet, Proc

\* The job whose id a trigger clears neither waits nor runs, unless an error
\* of the queue hid it, however many triggers race.
THEOREM OnlyDeadJobsCleared == Spec => ClearsOnlyDeadJobs
<1> DEFINE Clears(p) == /\ At(p, "check") /\ proc'[p].at = "enqueue"
                        /\ state'.job # state.job
                        /\ errors' = errors
<1>1. ASSUME TypeOK, [Next]_vars, NEW p \in Slot \cup Timer, Clears(p)
      PROVE  jobs[state.job].st \notin Live
  <2>1. check(p) \/ checkFails(p)
    BY <1>1, CheckLeads DEF Proc
  <2>2. ~checkFails(p)
    BY <1>1 DEF checkFails, fault, TypeOK
  <2> QED
    BY <1>1, <2>1, <2>2 DEF check
<1>2. TypeOK /\ [Next]_vars =>
          [\A p \in Slot \cup Timer : Clears(p) => jobs[state.job].st \notin Live]_vars
  BY <1>1
<1> QED
  BY <1>2, TypeCorrect, PTL DEF Spec, ClearsOnlyDeadJobs

-----------------------------------------------------------------------------
(* Active exactly with a state.                                            *)

\* How the flag and the row stand between requests.
Stand ==
    CASE torn = "activate" -> ~config.active /\ state.id # 0
      [] torn = "stop"     -> config.active /\ state.id = 0
      [] OTHER             -> config.active <=> state.id # 0

\* Where a request is, tells which of the two it has changed.
Paired(r) == config.exists =>
    /\ At(r, "createState") => ~config.active
    /\ At(r, "setActive") => ~config.active /\ state.id # 0 /\ torn = "no"
    /\ proc[r].at \in {"stopCancel", "teardown", "deleteState"} => config.active
    /\ At(r, "setInactive") => config.active /\ state.id = 0
    /\ proc[r].at \notin {"setActive", "setInactive"} => Stand

\* A stop knows the row that is there.
Knows(r) == proc[r].at \in {"stopCancel", "teardown", "deleteState"} =>
                proc[r].sid = state.id

PairInv(r) == Paired(r) /\ Knows(r)

\* Nobody but the requests makes, deletes or activates.
LEMMA IdStays ==
    ASSUME TypeOK, \/ Quiet \/ (\E p \in Proc : trigger(p))
                   \/ (\E t \in Timer : tick(t) \/ tickFails(t))
    PROVE  config' = config /\ state'.id = state.id /\ torn' = torn
<1>1. CASE Quiet
  BY <1>1 DEF TypeOK, Quiet, cronFires, scheduleWorker, recoverStalled,
         recoverRealtimeConfigs, rows, run, pickJob, load, mark, work, report, fail,
         writeFails, jobFailed, jobCompleted
<1>2. ASSUME NEW p \in Proc, trigger(p)
      PROVE  config' = config /\ state'.id = state.id /\ torn' = torn
  BY <1>2 DEF TypeOK, trigger, triggerSync, check, checkFails, enqueue, setJob, updateState,
              rows
<1>3. ASSUME NEW t \in Timer, tick(t) \/ tickFails(t)
      PROVE  config' = config /\ state'.id = state.id /\ torn' = torn
  BY <1>3 DEF tick, tickFails, rows
<1> QED
  BY <1>1, <1>2, <1>3

\* What the typed state says, for the steps of one request.
Typed(r) == /\ proc \in [Proc -> Request] /\ r \in Proc /\ proc[r].sid \in Nat
            /\ state.id \in Nat /\ made \in Nat /\ config.active \in BOOLEAN
            /\ torn \in {"no", "activate", "stop"}
            /\ config \in [exists : BOOLEAN, active : BOOLEAN, mode : Modes]
            /\ state \in [id : Nat, status : Status, job : Job \cup {None}]
            /\ proc[r] \in Request

LEMMA PairStart ==
    ASSUME NEW r \in Slot, Typed(r), Paired(r), Knows(r), start(r)
    PROVE  Paired(r)' /\ Knows(r)'
<1>1. /\ UNCHANGED rows /\ UNCHANGED torn /\ At(r, "idle")
      /\ \E at \in {"createState", "pauseState", "resumeState", "stopCancel"} :
            /\ proc' = [proc EXCEPT ![r] = Snapshot(at)]
            /\ at = "createState" => ~config.active
            /\ at = "stopCancel" => config.active
  BY DEF start, activateSyncConfiguration, pauseSyncConfiguration, resumeSyncConfiguration,
         stopSyncConfiguration, Idle, At
<1> QED
  BY <1>1 DEF Typed, Paired, Knows, Stand, At, Snapshot, rows

\* Where a step takes a request, and that it does not read anew.
LEMMA Went ==
    ASSUME NEW r \in Slot, Typed(r)
    PROVE  /\ \A at : goto(r, at) => proc'[r].at = at /\ proc'[r].sid = proc[r].sid
           /\ return(r) => proc'[r].at = "idle"
           /\ \A at : proc' = [proc EXCEPT ![r] = Snapshot(at)] =>
                  proc'[r].at = at /\ proc'[r].sid = state.id
  BY DEF Typed, goto, return, Request, Snapshot

LEMMA PairContinue ==
    ASSUME NEW r \in Slot, Typed(r), Paired(r), Knows(r), continue(r)
    PROVE  Paired(r)' /\ Knows(r)'
<1>w. /\ \A at : goto(r, at) => proc'[r].at = at /\ proc'[r].sid = proc[r].sid
      /\ return(r) => proc'[r].at = "idle"
      /\ \A at : proc' = [proc EXCEPT ![r] = Snapshot(at)] =>
             proc'[r].at = at /\ proc'[r].sid = state.id
  BY Went
<1>t. /\ state.id \in Nat /\ made \in Nat /\ config.active \in BOOLEAN
      /\ torn \in {"no", "activate", "stop"}
      /\ config \in [exists : BOOLEAN, active : BOOLEAN, mode : Modes]
      /\ state \in [id : Nat, status : Status, job : Job \cup {None}]
  BY DEF Typed
<1>u. ASSUME NEW status, NEW job, NEW then, updateState(r, status, job, then)
      PROVE  config' = config /\ state'.id = state.id /\ proc'[r].at \in {then, "idle"}
  BY <1>t, <1>u, <1>w DEF updateState
<1> USE <1>w, <1>t DEF Paired, Knows, Stand, At
<1>1. CASE createState(r)
  <2>1. torn' = torn /\ config' = config /\ proc[r].at = "createState"
    BY <1>1 DEF createState
  <2>2. CASE config.exists /\ state.id = 0
    <3>1. torn = "no" /\ ~config.active
      BY <2>1, <2>2
    <3>2. state'.id = made + 1 /\ proc'[r].at = "setActive"
      BY <1>1, <2>2 DEF createState, NoState
    <3> QED
      BY <2>1, <3>1, <3>2
  <2>3. CASE ~(config.exists /\ state.id = 0)
    <3>1. state' = state /\ proc'[r].at = "idle"
      BY <1>1, <2>3 DEF createState
    <3> QED
      BY <2>1, <3>1
  <2> QED
    BY <2>2, <2>3
<1>2. CASE setActive(r)
  BY <1>2 DEF setActive
<1>3. CASE initialSync(r)
  BY <1>3 DEF initialSync, rows
<1>4. CASE initialSyncFails(r)
  <2>1. \E at \in {"stopCancel", "idle"} : /\ proc' = [proc EXCEPT ![r] = Snapshot(at)]
                                           /\ at = "stopCancel" => config.active
    BY <1>4 DEF initialSyncFails
  <2>2. UNCHANGED rows /\ proc[r].at = "initialSync" /\ torn' = torn
    BY <1>4 DEF initialSyncFails
  <2> QED
    BY <2>1, <2>2 DEF rows
<1>5. CASE setup(r)
  BY <1>5 DEF setup, rows
<1>6. CASE pauseState(r)
  BY <1>6, <1>u DEF pauseState
<1>7. CASE pauseCancel(r)
  BY <1>7 DEF pauseCancel, rows
<1>8. CASE resumeState(r)
  BY <1>8, <1>u DEF resumeState
<1>9. CASE stopCancel(r)
  BY <1>9 DEF stopCancel, rows
<1>10. CASE teardownTracking(r)
  BY <1>10 DEF teardownTracking, rows
<1>11. CASE deleteState(r)
  BY <1>11 DEF deleteState, NoState
<1>12. CASE setInactive(r)
  BY <1>12 DEF setInactive
<1>13. CASE requestFails(r)
  BY <1>13 DEF requestFails, Torn, rows
<1> QED
  BY <1>1, <1>2, <1>3, <1>4, <1>5, <1>6, <1>7, <1>8, <1>9, <1>10, <1>11,
     <1>12, <1>13 DEF continue

LEMMA PairEdit ==
    ASSUME NEW r \in Slot, Typed(r), Paired(r), Knows(r),
           updateSyncConfiguration(r) \/ deleteSyncConfiguration(r)
    PROVE  Paired(r)' /\ Knows(r)'
<1>w. /\ return(r) => proc'[r].at = "idle"
      /\ \A at : proc' = [proc EXCEPT ![r] = Snapshot(at)] =>
             proc'[r].at = at /\ proc'[r].sid = state.id
  BY Went
<1>t. config \in [exists : BOOLEAN, active : BOOLEAN, mode : Modes]
  BY DEF Typed
<1>1. CASE updateSyncConfiguration(r)
  <2>1. /\ UNCHANGED state /\ config'.exists = config.exists /\ config'.active = config.active
        /\ torn' = torn
    BY <1>1, <1>t DEF updateSyncConfiguration, rows
  <2>2. /\ proc[r].at \in {"idle", "update"}
        /\ proc'[r].at \in {"idle", "update"}
    BY <1>1, <1>w DEF updateSyncConfiguration, Idle, At
  <2> QED
    BY <2>1, <2>2 DEF Paired, Knows, Stand, At
<1>2. CASE deleteSyncConfiguration(r)
  <2>1. /\ proc[r].at \in {"idle", "delete"}
        /\ proc'[r].at \in {"idle", "delete"}
    BY <1>2, <1>w DEF deleteSyncConfiguration, Idle, At
  <2>2. torn' = torn /\ (UNCHANGED rows \/ config' = [config EXCEPT !.exists = FALSE])
    BY <1>2 DEF deleteSyncConfiguration
  <2>3. CASE UNCHANGED rows
    BY <2>1, <2>2, <2>3 DEF Paired, Knows, Stand, At, rows
  <2>4. CASE config' = [config EXCEPT !.exists = FALSE]
    BY <1>t, <2>1, <2>4 DEF Paired, Knows, At
  <2> QED
    BY <2>2, <2>3, <2>4
<1> QED
  BY <1>1, <1>2

\* A trigger of the request itself comes from places where the row and the
\* flag agree, and goes to such places.
LEMMA PairTrigger ==
    ASSUME TypeOK, NEW r \in Slot, Typed(r), Paired(r), Knows(r), trigger(r)
    PROVE  Paired(r)' /\ Knows(r)'
<1>1. /\ proc[r].at \in {"idle", "trigger", "check", "enqueue", "setJob"}
      /\ proc'[r].at \in {"idle", "trigger", "check", "enqueue", "setJob"}
  <2>w. /\ \A at : goto(r, at) => proc'[r].at = at
        /\ return(r) => proc'[r].at = "idle"
        /\ \A at : proc' = [proc EXCEPT ![r] = Snapshot(at)] => proc'[r].at = at
    BY Went
  <2>1. CASE triggerSync(r)
    BY <2>1, <2>w DEF triggerSync, Idle, At
  <2>2. CASE check(r) \/ checkFails(r)
    BY <2>2, <2>w DEF check, checkFails, At
  <2>3. CASE enqueue(r)
    BY <2>3 DEF enqueue, At, Typed, Request
  <2>4. CASE setJob(r)
    BY <2>4, <2>w DEF setJob, updateState, At
  <2> QED
    BY <2>1, <2>2, <2>3, <2>4 DEF trigger
<1>2. config' = config /\ state'.id = state.id /\ torn' = torn
  BY IdStays DEF Typed
<1> QED
  BY <1>1, <1>2 DEF Typed, Paired, Knows, Stand, At

LEMMA PairStep ==
    ASSUME NEW r, Slot = {r}, TypeOK, PairInv(r), [Next]_vars
    PROVE  PairInv(r)'
<1>1. Typed(r)
  BY DEF TypeOK, Typed, Proc, Request
<1>3. Paired(r) /\ Knows(r)
  BY DEF PairInv
<1> SUFFICES Paired(r)' /\ Knows(r)'
  BY DEF PairInv
<1>4. CASE UNCHANGED vars
  BY <1>3, <1>4 DEF vars, rows, Paired, Knows, Stand, At
<1>5. CASE start(r) \/ continue(r) \/ updateSyncConfiguration(r) \/ deleteSyncConfiguration(r)
  BY <1>1, <1>3, <1>5, PairStart, PairContinue, PairEdit
<1>6. CASE Quiet
  BY <1>3, <1>6, IdStays, QuietStays DEF Paired, Knows, Stand, At
<1>7. ASSUME NEW p \in Proc, trigger(p) PROVE Paired(r)' /\ Knows(r)'
  <2>1. CASE p = r
    BY <1>1, <1>3, <1>7, <2>1, PairTrigger
  <2>2. CASE p # r
    <3>1. proc'[r] = proc[r]
      BY <1>1, <1>7, <2>2, OthersStay DEF Typed
    <3>2. config' = config /\ state'.id = state.id /\ torn' = torn
      BY <1>7, IdStays
    <3> QED
      BY <1>3, <3>1, <3>2 DEF Paired, Knows, Stand, At
  <2> QED
    BY <2>1, <2>2
<1>8. ASSUME NEW t \in Timer, tick(t) \/ tickFails(t) PROVE Paired(r)' /\ Knows(r)'
  <2>1. t # r /\ t \in Proc
    BY NoneAssumption DEF Proc
  <2>2. proc'[r] = proc[r]
    BY <1>1, <1>8, <2>1, OthersStay DEF Typed
  <2>3. config' = config /\ state'.id = state.id /\ torn' = torn
    BY <1>8, IdStays
  <2> QED
    BY <1>3, <2>2, <2>3 DEF Paired, Knows, Stand, At
<1>9. CASE crash
  <2>1. proc'[r].at = "idle" /\ UNCHANGED <<config, state>>
    BY <1>1, <1>9 DEF crash, rows, Typed, Request
  <2>2. torn' = Torn(r)
    BY <1>9 DEF crash
  <2> QED
    BY <1>1, <1>3, <2>1, <2>2 DEF Typed, Torn, Paired, Knows, Stand, At
<1> QED
  BY <1>4, <1>5, <1>6, <1>7, <1>8, <1>9 DEF Next, Quiet, Proc

\* An owner who waits for each answer finds, between requests, the flag and the row in
\* agreement, whatever else failed and whatever timers and jobs did, unless the last write
\* of an activation or of a stop was refused or cut off; and then what is left is as it was
\* until a deletion, or a stop, ends it (sync-engine.service.ts, activate and stop).
THEOREM ActiveMatchesState ==
    ASSUME NEW r, Slot = {r}
    PROVE  Spec => []ActiveIffState
<1>1. Init => PairInv(r)
  <2> SUFFICES ASSUME Init PROVE PairInv(r)
    OBVIOUS
  <2>1. r \in Slot \cup Timer /\ proc[r].at = "idle"
    BY DEF Init
  <2>2. config.active = FALSE /\ state.id = 0 /\ torn = "no"
    BY DEF Init, NoState
  <2> QED
    BY <2>1, <2>2 DEF PairInv, Paired, Knows, Stand, At
<1>2. TypeOK /\ PairInv(r) /\ [Next]_vars => PairInv(r)'
  BY PairStep
<1>3. PairInv(r) => ActiveIffState
  BY DEF PairInv, Paired, Stand, At, Idle, ActiveIffState
<1> QED
  BY <1>1, <1>2, <1>3, TypeCorrect, PTL DEF Spec
=============================================================================
