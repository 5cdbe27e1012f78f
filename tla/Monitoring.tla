----------------------------- MODULE Monitoring -----------------------------
(***************************************************************************)
(* The heartbeat worker: one job at a time pings the connections one by one, *)
(* keeps a row per ping, reports a change of status, and then runs, for each *)
(* user, the storage checks and the watchdog of missed backups, which share  *)
(* a throttle and remember their alerts in the memory of the process.        *)
(***************************************************************************)
EXTENDS Naturals, Sequences

CONSTANTS Pinged,               \* connections with a heartbeat
          Expecting,            \* connections that expect a backup every so many hours
          Storage,              \* keys of the storage checks, for all users: disk, Drive, S3, quota
          Users,                \* sequence of users, as findMany returns it
          OwnerOf,              \* [Expecting -> users]
          CheckThrottle,        \* hours between two checks (1)
          ReAlert,              \* hours between two alerts (24)
          MaxBeatFaults         \* bound: crashes and errors of the database

ASSUME MonitoringAssumption ==
    /\ Users \in Seq({Users[i] : i \in DOMAIN Users})
    /\ \A c \in Expecting : \E i \in DOMAIN Users : Users[i] = OwnerOf[c]
    /\ {CheckThrottle, ReAlert} \subseteq Nat \ {0} /\ MaxBeatFaults \in Nat

NoPing == "none"

VARIABLES
    alive,          \* Pinged -> the database answers
    watched,        \* Pinged -> heartbeatEnabled
    newestBeat,     \* Pinged -> status of the newest row, NONE without one
    beat,           \* the job: [pc, todo, conn, prev, up, user]
    reported,       \* history: Pinged -> status reported last, or the one a record begins with
    unreported,     \* history: connections whose report a fault cut off
    bad,            \* Expecting or Storage -> stale, or a user over the threshold
    sinceCheck,     \* hours since lastCheckAt of [storage, backups]
    sinceAlert,     \* hours since lastAlertAt, ReAlert without an entry
    beatFaults

monitoringVars == <<alive, watched, newestBeat, beat, reported, unreported, bad,
                    sinceCheck, sinceAlert, beatFaults>>
hosts == <<alive, watched, bad>>
rowsOfBeats == <<newestBeat, reported, unreported>>
alarms == <<sinceCheck, sinceAlert>>

Status == {"UP", "DOWN"}
Alarm == Expecting \cup Storage
NotBeating == [pc |-> "idle", todo |-> {}, conn |-> NoPing, prev |-> "NONE",
               up |-> FALSE, user |-> 1]

MonitoringTypeOK ==
    /\ alive \in [Pinged -> BOOLEAN] /\ watched \in [Pinged -> BOOLEAN]
    /\ newestBeat \in [Pinged -> Status \cup {"NONE"}]
    /\ beat \in [pc : {"idle", "next", "ping", "record", "report", "storage", "backups"},
                 todo : SUBSET Pinged, conn : Pinged \cup {NoPing},
                 prev : Status \cup {"NONE"}, up : BOOLEAN, user : 1 .. Len(Users) + 1]
    /\ reported \in [Pinged -> Status \cup {"NONE"}] /\ unreported \subseteq Pinged
    /\ bad \in [Alarm -> BOOLEAN]
    /\ sinceCheck \in [{"storage", "backups"} -> 0 .. CheckThrottle]
    /\ sinceAlert \in [Alarm -> 0 .. ReAlert]
    /\ beatFaults \in 0 .. MaxBeatFaults

MonitoringInit ==
    /\ alive = [c \in Pinged |-> TRUE] /\ watched = [c \in Pinged |-> TRUE]
    /\ newestBeat = [c \in Pinged |-> "NONE"] /\ beat = NotBeating
    /\ reported = [c \in Pinged |-> "NONE"] /\ unreported = {}
    /\ bad = [k \in Alarm |-> FALSE]
    /\ sinceCheck = [k \in {"storage", "backups"} |-> CheckThrottle]
    /\ sinceAlert = [k \in Alarm |-> ReAlert] /\ beatFaults = 0

-----------------------------------------------------------------------------
(* runHeartbeatChecks.                                                     *)

\* Only the next job of the scheduler once the last has ended: one worker.
runHeartbeatChecks ==
    /\ beat.pc = "idle"
    /\ beat' = [NotBeating EXCEPT !.pc = "next", !.todo = {c \in Pinged : watched[c]}]
    /\ UNCHANGED <<hosts, rowsOfBeats, alarms, beatFaults>>

readPrevious ==
    /\ beat.pc = "next"
    /\ \E c \in beat.todo :
          beat' = [beat EXCEPT !.pc = "ping", !.todo = @ \ {c}, !.conn = c,
                               !.prev = newestBeat[c]]
    /\ UNCHANGED <<hosts, rowsOfBeats, alarms, beatFaults>>

ping ==
    /\ beat.pc = "ping"
    /\ beat' = [beat EXCEPT !.pc = "record", !.up = alive[beat.conn]]
    /\ UNCHANGED <<hosts, rowsOfBeats, alarms, beatFaults>>

PingStatus == IF beat.up THEN "UP" ELSE "DOWN"

recordPing ==
    /\ beat.pc = "record"
    /\ newestBeat' = [newestBeat EXCEPT ![beat.conn] = PingStatus]
    /\ beat' = [beat EXCEPT !.pc = "report"]
    /\ UNCHANGED <<hosts, reported, unreported, alarms, beatFaults>>

\* Mutant: only a failure is a transition.
reportFailure ==
    /\ beat.pc = "report"
    /\ IF beat.prev = "NONE" \/ (beat.prev = "UP" /\ PingStatus = "DOWN")
       THEN /\ reported' = [reported EXCEPT ![beat.conn] = PingStatus]
            /\ unreported' = unreported \ {beat.conn}
       ELSE UNCHANGED <<reported, unreported>>
    /\ beat' = [beat EXCEPT !.pc = "next", !.conn = NoPing]
    /\ UNCHANGED <<hosts, newestBeat, alarms, beatFaults>>

\* The first row is where a record begins; a later one is news if it differs.
reportTransition ==
    /\ beat.pc = "report"
    /\ IF beat.prev # PingStatus
       THEN /\ reported' = [reported EXCEPT ![beat.conn] = PingStatus]
            /\ unreported' = unreported \ {beat.conn}
       ELSE UNCHANGED <<reported, unreported>>
    /\ beat' = [beat EXCEPT !.pc = "next", !.conn = NoPing]
    /\ UNCHANGED <<hosts, newestBeat, alarms, beatFaults>>

\* Rows of a week ago: the newest too, of a connection no longer watched.
prune ==
    /\ beat.pc = "next" /\ beat.todo = {}
    /\ beat' = [beat EXCEPT !.pc = "storage"]
    /\ \E gone \in SUBSET {c \in Pinged : ~watched[c]} :
          newestBeat' = [c \in Pinged |-> IF c \in gone THEN "NONE" ELSE newestBeat[c]]
    /\ UNCHANGED <<hosts, reported, unreported, alarms, beatFaults>>

-----------------------------------------------------------------------------
(* The checks of each user.                                                *)

\* Alerts of ks, checked together: an alarm that is over is forgotten.
Checked(ks) ==
    [k \in Alarm |-> IF k \notin ks THEN sinceAlert[k]
                     ELSE IF ~bad[k] THEN ReAlert
                     ELSE IF sinceAlert[k] = ReAlert THEN 0 ELSE sinceAlert[k]]

throttled(check, ks) ==
    IF sinceCheck[check] < CheckThrottle
    THEN UNCHANGED alarms
    ELSE /\ sinceCheck' = [sinceCheck EXCEPT ![check] = 0]
         /\ sinceAlert' = Checked(ks)

runStorageChecks ==
    /\ beat.pc = "storage" /\ beat.user <= Len(Users)
    /\ throttled("storage", Storage)
    /\ beat' = [beat EXCEPT !.pc = "backups"]
    /\ UNCHANGED <<hosts, rowsOfBeats, beatFaults>>

runBackupWatchdog ==
    /\ beat.pc = "backups"
    /\ throttled("backups", {c \in Expecting : OwnerOf[c] = Users[beat.user]})
    /\ beat' = [beat EXCEPT !.pc = "storage", !.user = @ + 1]
    /\ UNCHANGED <<hosts, rowsOfBeats, beatFaults>>

endBeat ==
    /\ beat.pc = "storage" /\ beat.user > Len(Users)
    /\ beat' = NotBeating
    /\ UNCHANGED <<hosts, rowsOfBeats, alarms, beatFaults>>

-----------------------------------------------------------------------------
(* Faults and the environment.                                             *)

\* The report of a row that is written is not made up for.
CutOff == IF beat.pc = "report" /\ beat.prev # PingStatus
          THEN unreported \cup {beat.conn} ELSE unreported

\* An error of the database ends the job, which is not retried.
failBeat ==
    /\ beat.pc # "idle" /\ beatFaults < MaxBeatFaults
    /\ beatFaults' = beatFaults + 1 /\ beat' = NotBeating
    /\ unreported' = CutOff
    /\ UNCHANGED <<hosts, newestBeat, reported, alarms>>

\* The maps and the throttles start again with the process.
crashMonitor ==
    /\ beatFaults < MaxBeatFaults
    /\ beatFaults' = beatFaults + 1 /\ beat' = NotBeating
    /\ unreported' = CutOff
    /\ sinceCheck' = [k \in DOMAIN sinceCheck |-> CheckThrottle]
    /\ sinceAlert' = [k \in Alarm |-> ReAlert]
    /\ UNCHANGED <<hosts, newestBeat, reported>>

passHour ==
    /\ sinceCheck' = [k \in DOMAIN sinceCheck |->
                         IF sinceCheck[k] < CheckThrottle THEN sinceCheck[k] + 1
                         ELSE CheckThrottle]
    /\ sinceAlert' = [k \in Alarm |-> IF sinceAlert[k] < ReAlert
                                      THEN sinceAlert[k] + 1 ELSE ReAlert]
    /\ alarms' # alarms
    /\ UNCHANGED <<hosts, rowsOfBeats, beat, beatFaults>>

changeHost ==
    \/ \E c \in Pinged : /\ alive' = [alive EXCEPT ![c] = ~@]
                         /\ UNCHANGED <<watched, bad>>
    \/ \E c \in Pinged : /\ watched' = [watched EXCEPT ![c] = ~@]
                         /\ UNCHANGED <<alive, bad>>
    \/ \E k \in Alarm : bad' = [bad EXCEPT ![k] = ~@] /\ UNCHANGED <<alive, watched>>

worldChanges ==
    changeHost /\ UNCHANGED <<rowsOfBeats, beat, alarms, beatFaults>>

beatStep ==
    \/ readPrevious \/ ping \/ recordPing \/ reportTransition \/ prune
    \/ runStorageChecks \/ runBackupWatchdog \/ endBeat

MonitoringNext == runHeartbeatChecks \/ beatStep \/ failBeat \/ crashMonitor
                  \/ passHour \/ worldChanges

MonitoringSpec == MonitoringInit /\ [][MonitoringNext]_monitoringVars

\* The scheduler adds a job every few minutes; queries and pings time out.
MonitoringFairness == /\ WF_monitoringVars(runHeartbeatChecks \/ beatStep)
                      /\ WF_monitoringVars(passHour)

-----------------------------------------------------------------------------

\* The owner has been told of the status that the newest row bears, or the record
\* began with it, however the databases, the switches and the pruning came in between,
\* unless a fault cut the report off (heartbeat.service.ts, runHeartbeatChecks).
TransitionsReported ==
    \A c \in Pinged :
        newestBeat[c] # "NONE" /\ c \notin unreported
            /\ ~(beat.pc = "report" /\ beat.conn = c)
        => reported[c] = newestBeat[c]

\* `If a connection expects a completed backup every N hours and the newest
\* completed backup is older than that, alert' (backup-watchdog.service.ts:7-8).  The
\* first user to be checked takes the hour of all (17-23), and which user that is
\* depends on where in a beat the hour ends: the code promises an alert to none of
\* several in particular.  When every user expects one, also after a restart, some
\* user gets it; with one user that is the promise itself.  What must not last:
AlertDue == \A i \in DOMAIN Users : \E c \in Expecting :
                OwnerOf[c] = Users[i] /\ bad[c] /\ sinceAlert[c] >= ReAlert
=============================================================================
