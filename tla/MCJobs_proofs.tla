---------------------------- MODULE MCJobs_proofs ----------------------------
(***************************************************************************)
(* Proofs about the modules in which something has to come to an end, for  *)
(* every value of their constants: an inductive invariant for each module, *)
(* and the properties that the run Jobs checks of them all.  No module     *)
(* moves the state of another, so each invariant is kept by every step.    *)
(***************************************************************************)
EXTENDS MCJobs, FiniteSetTheorems, SequenceTheorems, TLAPS

-----------------------------------------------------------------------------
(* Monitoring: the owner has been told of the status of the newest row.    *)
Beats == [pc : {"idle", "next", "ping", "record", "report", "storage", "backups"},
          todo : SUBSET Pinged, conn : Pinged \cup {NoPing},
          prev : Status \cup {"NONE"}, up : BOOLEAN, user : Nat]

BeatTypes ==
    /\ alive \in [Pinged -> BOOLEAN]
    /\ newestBeat \in [Pinged -> Status \cup {"NONE"}]
    /\ reported \in [Pinged -> Status \cup {"NONE"}] /\ unreported \subseteq Pinged
    /\ beat \in Beats
    /\ beat.pc \in {"ping", "record", "report"} => beat.conn \in Pinged

\* Until its own row is written, the status the job compares with is the one of the
\* newest row: no other job writes rows, and none is pruned while pings are made.
Previous ==
    beat.pc \in {"ping", "record"} => beat.prev = newestBeat[beat.conn]

\* Between the row and the report, the owner knows of the status before.
Owed ==
    beat.pc = "report" =>
        /\ newestBeat[beat.conn] = PingStatus
        /\ beat.prev # "NONE" /\ beat.conn \notin unreported
              => reported[beat.conn] = beat.prev

BeatInv == BeatTypes /\ Previous /\ Owed /\ TransitionsReported

LEMMA IdleBeat == NotBeating \in Beats /\ NotBeating.pc = "idle"
  BY DEF NotBeating, Beats

LEMMA PingType == PingStatus \in Status
  BY DEF PingStatus, Status

LEMMA BeatInit == MonitoringInit => BeatInv
  BY IdleBeat DEF MonitoringInit, BeatInv, BeatTypes, Previous, Owed, TransitionsReported

\* The rows and reports stay, and so does the ping under way, or it comes further
\* without one that is owed a report.
LEMMA RowsStay ==
    ASSUME BeatInv, beat' \in Beats, alive' \in [Pinged -> BOOLEAN],
           UNCHANGED rowsOfBeats,
           \/ beat' = beat
           \/ /\ beat.pc # "report"
              /\ beat'.pc \notin {"ping", "record", "report"}
    PROVE  BeatInv'
<1>1. BeatTypes'
  BY DEF BeatInv, BeatTypes, rowsOfBeats
<1>2. Previous' /\ Owed'
  BY DEF BeatInv, Previous, Owed, PingStatus, rowsOfBeats
<1>3. TransitionsReported'
  BY DEF BeatInv, TransitionsReported, rowsOfBeats
<1> QED  BY <1>1, <1>2, <1>3 DEF BeatInv

LEMMA ReadStep == BeatInv /\ readPrevious => BeatInv'
<1> SUFFICES ASSUME BeatInv, readPrevious PROVE BeatInv'
  OBVIOUS
<1>1. PICK c \in beat.todo :
          beat' = [beat EXCEPT !.pc = "ping", !.todo = @ \ {c}, !.conn = c,
                               !.prev = newestBeat[c]]
  BY DEF readPrevious
<1>2. c \in Pinged /\ newestBeat[c] \in Status \cup {"NONE"}
  BY DEF BeatInv, BeatTypes, Beats
<1>3. /\ beat' \in Beats /\ beat'.pc = "ping" /\ beat'.conn = c
      /\ beat'.prev = newestBeat[c]
  BY <1>1, <1>2 DEF BeatInv, BeatTypes, Beats
<1>4. beat.pc = "next" /\ UNCHANGED <<rowsOfBeats, alive>>
  BY DEF readPrevious, hosts
<1>5. BeatTypes' /\ Previous' /\ Owed'
  BY <1>2, <1>3, <1>4 DEF BeatInv, BeatTypes, Previous, Owed, rowsOfBeats
<1>6. TransitionsReported'
  BY <1>3, <1>4 DEF BeatInv, TransitionsReported, rowsOfBeats
<1> QED  BY <1>5, <1>6 DEF BeatInv

LEMMA PingStep == BeatInv /\ ping => BeatInv'
<1> SUFFICES ASSUME BeatInv, ping PROVE BeatInv'
  OBVIOUS
<1> DEFINE up == alive[beat.conn]
<1>1. /\ beat.pc = "ping" /\ UNCHANGED <<rowsOfBeats, alive>>
      /\ beat' = [beat EXCEPT !.pc = "record", !.up = up]
  BY DEF ping, hosts
<1>2. up \in BOOLEAN
  BY <1>1 DEF BeatInv, BeatTypes
<1> HIDE DEF up
<1>3. /\ beat' \in Beats /\ beat'.pc = "record" /\ beat'.conn = beat.conn
      /\ beat'.prev = beat.prev
  BY <1>1, <1>2 DEF BeatInv, BeatTypes, Beats
<1>4. BeatTypes' /\ Previous' /\ Owed'
  BY <1>1, <1>3 DEF BeatInv, BeatTypes, Previous, Owed, rowsOfBeats
<1>5. TransitionsReported'
  BY <1>1, <1>3 DEF BeatInv, TransitionsReported, rowsOfBeats
<1> QED  BY <1>4, <1>5 DEF BeatInv

LEMMA RecordStep == BeatInv /\ recordPing => BeatInv'
<1> SUFFICES ASSUME BeatInv, recordPing PROVE BeatInv'
  OBVIOUS
<1>1. /\ beat.pc = "record" /\ UNCHANGED <<reported, unreported, alive>>
      /\ newestBeat' = [newestBeat EXCEPT ![beat.conn] = PingStatus]
      /\ beat' = [beat EXCEPT !.pc = "report"]
  BY DEF recordPing, hosts
<1>2. /\ beat' \in Beats /\ beat'.pc = "report" /\ beat'.conn = beat.conn
      /\ beat'.prev = beat.prev /\ beat'.up = beat.up
  BY <1>1 DEF BeatInv, BeatTypes, Beats
<1>3. beat.conn \in Pinged /\ PingStatus' = PingStatus
  BY <1>1, <1>2 DEF BeatInv, BeatTypes, PingStatus
<1>4. \A c \in Pinged : newestBeat'[c] = IF c = beat.conn THEN PingStatus ELSE newestBeat[c]
  BY <1>1 DEF BeatInv, BeatTypes
<1>5. BeatTypes'
  BY <1>1, <1>2, <1>3, PingType DEF BeatInv, BeatTypes
<1>6. beat.prev # "NONE" /\ beat.conn \notin unreported => reported[beat.conn] = beat.prev
  BY <1>1, <1>3 DEF BeatInv, Previous, TransitionsReported
<1>7. Previous' /\ Owed'
  BY <1>1, <1>2, <1>3, <1>4, <1>6 DEF Previous, Owed
<1>8. TransitionsReported'
  BY <1>1, <1>2, <1>4 DEF BeatInv, TransitionsReported
<1> QED  BY <1>5, <1>7, <1>8 DEF BeatInv

\* The status is told when it differs from the one before; when it does not, the
\* owner knows it, unless a report was cut off.
LEMMA ReportStep == BeatInv /\ reportTransition => BeatInv'
<1> SUFFICES ASSUME BeatInv, reportTransition PROVE BeatInv'
  OBVIOUS
<1>1. /\ beat.pc = "report" /\ UNCHANGED <<newestBeat, alive>>
      /\ beat' = [beat EXCEPT !.pc = "next", !.conn = NoPing]
  BY DEF reportTransition, hosts
<1>2. beat' \in Beats /\ beat'.pc = "next"
  BY <1>1 DEF BeatInv, BeatTypes, Beats
<1>3. beat.conn \in Pinged /\ newestBeat[beat.conn] = PingStatus
  BY <1>1 DEF BeatInv, BeatTypes, Owed
<1>4. Previous' /\ Owed'
  BY <1>2 DEF Previous, Owed
<1>5. CASE beat.prev # PingStatus
  <2>1. /\ reported' = [reported EXCEPT ![beat.conn] = PingStatus]
        /\ unreported' = unreported \ {beat.conn}
    BY <1>5 DEF reportTransition
  <2>2. BeatTypes'
    BY <1>1, <1>2, <2>1, PingType DEF BeatInv, BeatTypes
  <2>3. TransitionsReported'
    BY <1>1, <1>3, <2>1 DEF BeatInv, BeatTypes, TransitionsReported
  <2> QED  BY <1>4, <2>2, <2>3 DEF BeatInv
<1>6. CASE beat.prev = PingStatus
  <2>1. UNCHANGED <<reported, unreported>>
    BY <1>6 DEF reportTransition
  <2>2. BeatTypes'
    BY <1>1, <1>2, <2>1 DEF BeatInv, BeatTypes
  <2>3. beat.conn \notin unreported => reported[beat.conn] = newestBeat[beat.conn]
    BY <1>1, <1>3, <1>6, PingType DEF BeatInv, Owed, Status
  <2>4. TransitionsReported'
    BY <1>1, <2>1, <2>3 DEF BeatInv, TransitionsReported
  <2> QED  BY <1>4, <2>2, <2>4 DEF BeatInv
<1> QED  BY <1>5, <1>6

LEMMA PruneStep == BeatInv /\ prune => BeatInv'
<1> SUFFICES ASSUME BeatInv, prune PROVE BeatInv'
  OBVIOUS
<1>1. PICK gone \in SUBSET {c \in Pinged : ~watched[c]} :
          newestBeat' = [c \in Pinged |-> IF c \in gone THEN "NONE" ELSE newestBeat[c]]
  BY DEF prune
<1>2. /\ beat.pc = "next" /\ beat' = [beat EXCEPT !.pc = "storage"]
      /\ UNCHANGED <<reported, unreported, alive>>
  BY DEF prune, hosts
<1>3. beat' \in Beats /\ beat'.pc = "storage"
  BY <1>2 DEF BeatInv, BeatTypes, Beats
<1>4. BeatTypes' /\ Previous' /\ Owed'
  BY <1>1, <1>2, <1>3 DEF BeatInv, BeatTypes, Previous, Owed
<1>5. TransitionsReported'
  BY <1>1, <1>2, <1>3 DEF BeatInv, TransitionsReported
<1> QED  BY <1>4, <1>5 DEF BeatInv

\* A fault between the row and the report leaves a connection of unreported, the only
\* way there is into it.
LEMMA CutOffStep ==
    ASSUME BeatInv, beat' = NotBeating, unreported' = CutOff,
           UNCHANGED <<newestBeat, reported, alive>>
    PROVE  BeatInv'
<1>1. BeatTypes' /\ Previous' /\ Owed'
  BY IdleBeat DEF BeatInv, BeatTypes, Previous, Owed, CutOff
<1>2. unreported \subseteq unreported'
  BY DEF CutOff
<1>3. ASSUME beat.pc = "report", beat.conn \notin unreported'
      PROVE  reported[beat.conn] = newestBeat[beat.conn]
  BY <1>2, <1>3, PingType DEF BeatInv, Owed, CutOff, Status
<1>4. TransitionsReported'
  BY <1>2, <1>3, IdleBeat DEF BeatInv, TransitionsReported
<1> QED  BY <1>1, <1>4 DEF BeatInv

\* The checks, the clock and the databases leave the rows and reports alone.
LEMMA OtherStep ==
    ASSUME BeatInv, \/ runHeartbeatChecks \/ runStorageChecks \/ runBackupWatchdog
                    \/ endBeat \/ passHour \/ worldChanges
    PROVE  BeatInv'
<1> USE DEF hosts, BeatInv, BeatTypes
<1>1. CASE runHeartbeatChecks
  <2>1. /\ beat.pc = "idle" /\ UNCHANGED <<rowsOfBeats, alive>>
        /\ beat' = [NotBeating EXCEPT !.pc = "next", !.todo = {c \in Pinged : watched[c]}]
    BY <1>1 DEF runHeartbeatChecks
  <2>2. beat' \in Beats /\ beat'.pc = "next"
    BY <2>1, IdleBeat DEF Beats
  <2> QED  BY <2>1, <2>2, RowsStay
<1>2. CASE runStorageChecks
  <2>1. /\ beat.pc = "storage" /\ UNCHANGED <<rowsOfBeats, alive>>
        /\ beat' = [beat EXCEPT !.pc = "backups"]
    BY <1>2 DEF runStorageChecks
  <2>2. beat' \in Beats /\ beat'.pc = "backups"
    BY <2>1 DEF Beats
  <2> QED  BY <2>1, <2>2, RowsStay
<1>3. CASE runBackupWatchdog
  <2> DEFINE u == beat.user + 1
  <2>1. /\ beat.pc = "backups" /\ UNCHANGED <<rowsOfBeats, alive>>
        /\ beat' = [beat EXCEPT !.pc = "storage", !.user = u]
    BY <1>3 DEF runBackupWatchdog
  <2>2. u \in Nat
    BY DEF Beats
  <2> HIDE DEF u
  <2>3. beat' \in Beats /\ beat'.pc = "storage"
    BY <2>1, <2>2 DEF Beats
  <2> QED  BY <2>1, <2>3, RowsStay
<1>4. CASE endBeat
  <2>1. /\ beat.pc = "storage" /\ UNCHANGED <<rowsOfBeats, alive>> /\ beat' = NotBeating
    BY <1>4 DEF endBeat
  <2> QED  BY <2>1, IdleBeat, RowsStay
<1>5. CASE passHour
  <2>1. UNCHANGED <<rowsOfBeats, alive, beat>>
    BY <1>5 DEF passHour
  <2> QED  BY <2>1, RowsStay
<1>6. CASE worldChanges
  <2>1. UNCHANGED <<rowsOfBeats, beat>> /\ changeHost
    BY <1>6 DEF worldChanges
  <2>2. alive' \in [Pinged -> BOOLEAN]
    BY <2>1 DEF changeHost
  <2> QED  BY <2>1, <2>2, RowsStay
<1> QED  BY <1>1, <1>2, <1>3, <1>4, <1>5, <1>6

LEMMA BeatStep == BeatInv /\ [MonitoringNext]_monitoringVars => BeatInv'
<1> SUFFICES ASSUME BeatInv, [MonitoringNext]_monitoringVars PROVE BeatInv'
  OBVIOUS
<1>1. CASE failBeat
  <2>1. /\ beat' = NotBeating /\ unreported' = CutOff
        /\ UNCHANGED <<newestBeat, reported, alive>>
    BY <1>1 DEF failBeat, hosts
  <2> QED  BY <2>1, CutOffStep
<1>2. CASE crashMonitor
  <2>1. /\ beat' = NotBeating /\ unreported' = CutOff
        /\ UNCHANGED <<newestBeat, reported, alive>>
    BY <1>2 DEF crashMonitor, hosts
  <2> QED  BY <2>1, CutOffStep
<1>3. CASE UNCHANGED monitoringVars
  <2>1. UNCHANGED <<rowsOfBeats, alive, beat>>
    BY <1>3 DEF monitoringVars, rowsOfBeats
  <2>2. beat \in Beats /\ alive \in [Pinged -> BOOLEAN]
    BY DEF BeatInv, BeatTypes
  <2> QED  BY <2>1, <2>2, RowsStay
<1> QED  BY <1>1, <1>2, <1>3, ReadStep, PingStep, RecordStep, ReportStep, PruneStep,
            OtherStep DEF MonitoringNext, beatStep

-----------------------------------------------------------------------------

\* The owner has been told of the status the newest row bears, or the record began
\* with it, however the databases, the switches and the pruning came in between,
\* unless a fault cut the report off (heartbeat.service.ts, runHeartbeatChecks).
THEOREM OwnerIsTold == MonitoringSpec => []TransitionsReported
<1>1. BeatInv => TransitionsReported
  BY DEF BeatInv
<1> QED  BY <1>1, BeatInit, BeatStep, PTL DEF MonitoringSpec

\* The job compares a ping with the newest row there is of the connection when it
\* writes its own: no row comes in between (heartbeat.service.ts, runHeartbeatChecks).
THEOREM ComparedWithNewest == MonitoringSpec => []Previous
<1>1. BeatInv => Previous
  BY DEF BeatInv
<1> QED  BY <1>1, BeatInit, BeatStep, PTL DEF MonitoringSpec

-----------------------------------------------------------------------------
(* SyncPage: both ends of a configuration exist and are its owner's.       *)
Steps == {"idle", "check", "probe", "insert", "act", "ok", "refused"}
Commands ==
    [kind : Command \cup {"none"}, at : Steps, source : SyncConn \cup {""},
     target : SyncConn \cup {""}, mode : FormMode \cup {"MANUAL"}]
Configs ==
    [made : BOOLEAN, exists : BOOLEAN, source : SyncConn \cup {""},
     target : SyncConn \cup {""}, mode : FormMode \cup {"MANUAL"}, active : BOOLEAN,
     status : StateStatus]

PageTypes == syncConfig \in Configs /\ command \in [SyncTab -> Commands]

\* A creation that was let in names two connections of the owner.
CreateInv ==
    \A t \in SyncTab :
        command[t].kind = "create" /\ command[t].at \in {"probe", "insert"} =>
            /\ {command[t].source, command[t].target} \subseteq MyConn
            /\ command[t].source # command[t].target

PageInv == PageTypes /\ CreateInv /\ RefersToOwn

LEMMA NothingYet ==
    /\ NoCommand \in Commands /\ Unmade \in Configs /\ ~Unmade.exists
    /\ {"act", "ok", "refused"} \subseteq Steps
    /\ {"none", "ACTIVE", "PAUSED", "FAILED"} \subseteq StateStatus
  BY DEF NoCommand, Commands, Unmade, Configs, Steps, StateStatus

LEMMA PageInit == SyncPageInit => PageInv
<1> SUFFICES ASSUME SyncPageInit PROVE PageInv
  OBVIOUS
<1>1. command \in [SyncTab -> Commands] /\ \A t \in SyncTab : command[t].kind # "create"
  BY NothingYet DEF SyncPageInit, NoCommand
<1>2. CASE syncConfig = Unmade
  BY <1>1, <1>2, NothingYet DEF PageInv, PageTypes, CreateInv, RefersToOwn, Unmade
<1>3. CASE syncConfig # Unmade
  <2>1. PICK e \in DistinctEnds :
            syncConfig = [Unmade EXCEPT !.made = TRUE, !.exists = TRUE,
                                        !.source = e.source, !.target = e.target]
    BY <1>3 DEF SyncPageInit
  <2>2. e.source \in MyConn /\ e.target \in MyConn /\ e.source # e.target
    BY DEF DistinctEnds
  <2>3. syncConfig \in Configs /\ RefersToOwn
    BY <2>1, <2>2, MyConnAssumption
       DEF SyncPageInit, Configs, StateStatus, RefersToOwn, Unmade
  <2> QED  BY <1>1, <2>3 DEF PageInv, PageTypes, CreateInv
<1> QED  BY <1>2, <1>3

-----------------------------------------------------------------------------
\* A tab waits for another command, or the same has come further.
LEMMA CommandMoves ==
    ASSUME PageInv, NEW t \in SyncTab, NEW c \in Commands,
           command' = [command EXCEPT ![t] = c],
           c.kind = "create" /\ c.at \in {"probe", "insert"} =>
               {c.source, c.target} \subseteq MyConn /\ c.source # c.target,
           syncConfig' \in Configs, RefersToOwn'
    PROVE  PageInv'
<1>1. \A x \in SyncTab : command'[x] = IF x = t THEN c ELSE command[x]
  BY DEF PageInv, PageTypes
<1>2. PageTypes'
  BY DEF PageInv, PageTypes
<1>3. CreateInv'
  BY <1>1 DEF PageInv, CreateInv
<1> QED  BY <1>2, <1>3 DEF PageInv

\* A command comes further.
LEMMA CommandGoes ==
    ASSUME PageInv, NEW t \in SyncTab, NEW a \in Steps, goto(t, a),
           a \in {"probe", "insert"} /\ command[t].kind = "create" =>
               /\ {command[t].source, command[t].target} \subseteq MyConn
               /\ command[t].source # command[t].target,
           syncConfig' \in Configs, RefersToOwn'
    PROVE  PageInv'
<1> DEFINE c == [command[t] EXCEPT !.at = a]
<1>1. command[t] \in Commands
  BY DEF PageInv, PageTypes
<1>2. /\ c \in Commands /\ c.kind = command[t].kind /\ c.at = a
      /\ c.source = command[t].source /\ c.target = command[t].target
  BY <1>1 DEF Commands
<1>3. command' = [command EXCEPT ![t] = c]
  BY DEF goto
<1> HIDE DEF c
<1> QED  BY <1>2, <1>3, CommandMoves

\* The configuration is another: what a step that moves no command has to show.
LEMMA Refused ==
    ASSUME PageInv, NEW t \in SyncTab, refuse(t)
    PROVE  PageInv'
<1>1. syncConfig' \in Configs /\ RefersToOwn'
  BY DEF refuse, serverVars, PageInv, PageTypes, RefersToOwn
<1>2. goto(t, "refused") /\ "refused" \in Steps
  BY NothingYet DEF refuse
<1> QED  BY <1>1, <1>2, CommandGoes

\* Nothing of the three moves.
LEMMA NothingMoves ==
    ASSUME PageInv, UNCHANGED <<syncConfig, syncConns, command>>
    PROVE  PageInv'
  BY DEF PageInv, PageTypes, CreateInv, RefersToOwn

\* The configuration keeps its ends, or is gone, and so are they kept.
LEMMA SameEnds ==
    ASSUME PageInv, syncConfig' \in Configs, syncConns' = syncConns,
           syncConfig'.exists => /\ syncConfig.exists
                                 /\ syncConfig'.source = syncConfig.source
                                 /\ syncConfig'.target = syncConfig.target
    PROVE  RefersToOwn'
  BY DEF PageInv, RefersToOwn

LEMMA SendStep ==
    ASSUME PageInv, NEW t \in SyncTab, NEW c \in Commands, send(t, c)
    PROVE  PageInv'
<1> DEFINE d == [c EXCEPT !.at = "check"]
<1>1. command' = [command EXCEPT ![t] = d] /\ UNCHANGED <<syncConfig, syncConns>>
  BY DEF send, serverVars
<1>2. d \in Commands /\ d.at = "check"
  BY DEF Commands, Steps
<1>3. syncConfig' \in Configs /\ RefersToOwn'
  BY <1>1 DEF PageInv, PageTypes, RefersToOwn
<1> HIDE DEF d
<1> QED  BY <1>1, <1>2, <1>3, CommandMoves

LEMMA PressStep ==
    ASSUME PageInv, NEW t \in SyncTab, press(t) \/ onSubmit(t) \/ delete(t)
    PROVE  PageInv'
<1>2. ASSUME NEW r \in Commands, NEW data \in FormData
      PROVE  [r EXCEPT !.kind = "create", !.mode = data.mode, !.source = data.source,
                       !.target = data.target] \in Commands
  BY MyConnAssumption DEF Commands, FormData, Command
<1>3. {"update", "delete"} \subseteq Command
      /\ \A status : Buttons(status) \subseteq Command
  BY DEF Command, Lifecycle, Buttons
<1>4. CASE press(t)
  <2>1. PICK k \in Buttons(getDisplayStatus(t)) : send(t, [NoCommand EXCEPT !.kind = k])
    BY <1>4 DEF press
  <2>2. [NoCommand EXCEPT !.kind = k] \in Commands
    BY <1>3, NothingYet DEF Commands
  <2> QED  BY <2>1, <2>2, SendStep
<1>5. CASE onSubmit(t)
  <2>1. PICK data \in FormData :
            \/ send(t, [NoCommand EXCEPT !.kind = "update", !.mode = data.mode])
            \/ send(t, [NoCommand EXCEPT !.kind = "create", !.mode = data.mode,
                                         !.source = data.source, !.target = data.target])
    BY <1>5 DEF onSubmit
  <2>2. /\ [NoCommand EXCEPT !.kind = "update", !.mode = data.mode] \in Commands
        /\ [NoCommand EXCEPT !.kind = "create", !.mode = data.mode, !.source = data.source,
                             !.target = data.target] \in Commands
    BY <1>2, <1>3, NothingYet DEF Commands, FormData
  <2> QED  BY <2>1, <2>2, SendStep
<1>6. CASE delete(t)
  <2>1. [NoCommand EXCEPT !.kind = "delete"] \in Commands
    BY <1>3, NothingYet DEF Commands
  <2> QED  BY <1>6, <2>1, SendStep DEF delete
<1> QED  BY <1>4, <1>5, <1>6

\* Creation: what is let in is kept until it is inserted, when the connections
\* are still there or the foreign keys refuse.
LEMMA CreateStep ==
    ASSUME PageInv, NEW t \in SyncTab,
           createSyncConfiguration(t) \/ validateConnectionAccessibility(t)
               \/ insertSyncConfiguration(t)
    PROVE  PageInv'
<1>1. ASSUME NEW a \in Steps, goto(t, a), UNCHANGED serverVars,
             a \in {"probe", "insert"} =>
                 /\ {command[t].source, command[t].target} \subseteq MyConn
                 /\ command[t].source # command[t].target
      PROVE  PageInv'
  <2>1. syncConfig' \in Configs /\ RefersToOwn'
    BY <1>1 DEF serverVars, PageInv, PageTypes, RefersToOwn
  <2> QED  BY <1>1, <2>1, NothingYet, CommandGoes
<1>2. CASE createSyncConfiguration(t)
  <2>1. CASE OwnAndDistinct(command[t])
    <3>1. goto(t, "probe") /\ UNCHANGED serverVars /\ "probe" \in Steps
      BY <1>2, <2>1 DEF createSyncConfiguration, Steps
    <3>2. /\ {command[t].source, command[t].target} \subseteq MyConn
          /\ command[t].source # command[t].target
      BY <2>1 DEF OwnAndDistinct
    <3> QED  BY <1>1, <3>1, <3>2
  <2>2. CASE ~OwnAndDistinct(command[t])
    BY <1>2, <2>2, Refused DEF createSyncConfiguration
  <2> QED  BY <2>1, <2>2
<1>3. CASE validateConnectionAccessibility(t)
  <2>1. command[t].kind = "create" /\ command[t].at = "probe"
    BY <1>3 DEF validateConnectionAccessibility, is
  <2>2. /\ {command[t].source, command[t].target} \subseteq MyConn
        /\ command[t].source # command[t].target
    BY <2>1 DEF PageInv, CreateInv
  <2>3. refuse(t) \/ (goto(t, "insert") /\ UNCHANGED serverVars)
    BY <1>3 DEF validateConnectionAccessibility
  <2>4. "insert" \in Steps
    BY DEF Steps
  <2> QED  BY <1>1, <2>2, <2>3, <2>4, Refused
<1>4. CASE insertSyncConfiguration(t)
  <2>1. command[t].kind = "create" /\ command[t].at = "insert"
    BY <1>4 DEF insertSyncConfiguration, is
  <2>2. /\ {command[t].source, command[t].target} \subseteq MyConn
        /\ command[t].source # command[t].target
    BY <2>1 DEF PageInv, CreateInv
  <2>3. CASE ~(~syncConfig.made /\ {command[t].source, command[t].target} \subseteq syncConns)
    BY <1>4, <2>3, Refused DEF insertSyncConfiguration
  <2>4. CASE ~syncConfig.made /\ {command[t].source, command[t].target} \subseteq syncConns
    <3>1. /\ syncConfig' = [Unmade EXCEPT !.made = TRUE, !.exists = TRUE,
                                !.source = command[t].source, !.target = command[t].target,
                                !.mode = command[t].mode]
          /\ goto(t, "ok") /\ syncConns' = syncConns
      BY <1>4, <2>4 DEF insertSyncConfiguration, done
    <3>2. command[t].mode \in FormMode \cup {"MANUAL"}
      BY DEF PageInv, PageTypes, Commands
    <3>3. /\ syncConfig' \in Configs /\ syncConfig'.source = command[t].source
          /\ syncConfig'.target = command[t].target
      BY <2>2, <3>1, <3>2, NothingYet, MyConnAssumption DEF Configs
    <3>4. RefersToOwn'
      BY <2>2, <2>4, <3>1, <3>3 DEF RefersToOwn
    <3> QED  BY <3>1, <3>3, <3>4, NothingYet, CommandGoes
  <2> QED  BY <2>3, <2>4
<1> QED  BY <1>2, <1>3, <1>4

\* The other handlers: the row is found or not, then changed or removed.
LEMMA FoundStep ==
    ASSUME PageInv, NEW t \in SyncTab, NEW kinds, NEW allowed, found(t, kinds, allowed)
    PROVE  PageInv'
<1>1. ASSUME goto(t, "act"), UNCHANGED serverVars
      PROVE  PageInv'
  <2>1. syncConfig' \in Configs /\ RefersToOwn'
    BY <1>1 DEF serverVars, PageInv, PageTypes, RefersToOwn
  <2> QED  BY <1>1, <2>1, NothingYet, CommandGoes
<1> QED  BY <1>1, Refused DEF found

\* A command that took effect left the ends alone, or removed the row.
LEMMA DoneStep ==
    ASSUME PageInv, NEW t \in SyncTab, done(t), syncConfig' \in Configs, syncConns' = syncConns,
           syncConfig'.exists => /\ syncConfig.exists
                                 /\ syncConfig'.source = syncConfig.source
                                 /\ syncConfig'.target = syncConfig.target
    PROVE  PageInv'
<1>1. RefersToOwn'
  BY SameEnds
<1>2. goto(t, "ok") /\ "ok" \in Steps
  BY NothingYet DEF done
<1> QED  BY <1>1, <1>2, CommandGoes

LEMMA ChangeStep ==
    ASSUME PageInv, NEW t \in SyncTab,
           updateSyncConfiguration(t) \/ deleteSyncConfiguration(t)
    PROVE  PageInv'
<1>1. CASE updateSyncConfiguration(t)
  <2>1. ASSUME syncConfig' = Edited(command[t].mode), syncConfig.exists, done(t),
               syncConns' = syncConns
        PROVE  PageInv'
    <3>1. command[t].mode \in FormMode \cup {"MANUAL"} /\ syncConfig \in Configs
      BY DEF PageInv, PageTypes, Commands
    <3>2. /\ syncConfig' \in Configs /\ syncConfig'.source = syncConfig.source
          /\ syncConfig'.target = syncConfig.target
      BY <2>1, <3>1 DEF Edited, Configs
    <3> QED  BY <2>1, <3>2, DoneStep
  <2> QED  BY <1>1, <2>1, FoundStep, Refused DEF updateSyncConfiguration
<1>2. CASE deleteSyncConfiguration(t)
  <2>1. ASSUME syncConfig' = Removed, done(t), syncConns' = syncConns
        PROVE  PageInv'
    <3>1. syncConfig' \in Configs /\ ~syncConfig'.exists
      BY <2>1, NothingYet DEF Configs, Removed
    <3> QED  BY <2>1, <3>1, DoneStep
  <2> QED  BY <1>2, <2>1, FoundStep, Refused DEF deleteSyncConfiguration
<1> QED  BY <1>1, <1>2

LEMMA EngineStep ==
    ASSUME PageInv, NEW t \in SyncTab, NEW runsAfter, engineActs(t, runsAfter)
    PROVE  PageInv'
<1>1. CASE ~Allowed(command[t].kind)
  BY <1>1, Refused DEF engineActs
<1>2. CASE Allowed(command[t].kind)
  <2>1. syncConfig' = Effect(command[t].kind) /\ done(t) /\ syncConns' = syncConns
    BY <1>2 DEF engineActs
  <2>2. syncConfig.exists
    BY <1>2 DEF Allowed
  <2> DEFINE s == CASE command[t].kind = "pause" -> "PAUSED"
                    [] command[t].kind = "stop" -> "none"
                    [] OTHER -> "ACTIVE"
  <2>3. s \in StateStatus /\ (command[t].kind # "stop") \in BOOLEAN
    BY NothingYet
  <2>4. syncConfig' = [syncConfig EXCEPT !.active = command[t].kind # "stop", !.status = s]
    BY <2>1 DEF Effect
  <2> HIDE DEF s
  <2>5. /\ syncConfig' \in Configs /\ syncConfig'.source = syncConfig.source
        /\ syncConfig'.target = syncConfig.target
    BY <2>3, <2>4 DEF PageInv, PageTypes, Configs
  <2> QED  BY <2>1, <2>2, <2>5, DoneStep
<1> QED  BY <1>1, <1>2

LEMMA LifecycleStep ==
    ASSUME PageInv, NEW t \in SyncTab, lifecycle(t) \/ triggerSync(t)
    PROVE  PageInv'
  BY FoundStep, EngineStep DEF lifecycle, triggerSync

LEMMA AnsweredStep ==
    ASSUME PageInv, NEW t \in SyncTab, answered(t)
    PROVE  PageInv'
<1>1. command' = [command EXCEPT ![t] = NoCommand] /\ UNCHANGED <<syncConfig, syncConns>>
  BY DEF answered, serverVars
<1>2. NoCommand \in Commands /\ NoCommand.kind # "create"
  BY NothingYet DEF NoCommand
<1>3. syncConfig' \in Configs /\ RefersToOwn'
  BY <1>1 DEF PageInv, PageTypes, RefersToOwn
<1> QED  BY <1>1, <1>2, <1>3, CommandMoves

\* Runs write the status; a connection takes its configurations with it.
LEMMA ServerStep ==
    ASSUME PageInv, \/ runStart \/ runEnd
                    \/ \E c \in SyncConn : deleteConnection(c)
    PROVE  PageInv'
<1>1. ASSUME syncConfig' \in Configs, RefersToOwn', UNCHANGED command PROVE PageInv'
  BY <1>1 DEF PageInv, PageTypes, CreateInv
<1>2. ASSUME NEW s \in StateStatus, syncConfig' = [syncConfig EXCEPT !.status = s],
             UNCHANGED syncConns
      PROVE  syncConfig' \in Configs /\ RefersToOwn'
  <2>1. /\ syncConfig' \in Configs /\ syncConfig'.exists = syncConfig.exists
        /\ syncConfig'.source = syncConfig.source /\ syncConfig'.target = syncConfig.target
    BY <1>2 DEF PageInv, PageTypes, Configs
  <2> QED  BY <1>2, <2>1, SameEnds
<1>3. CASE runStart
  <2>1. /\ syncConfig' = [syncConfig EXCEPT !.status = "ACTIVE"]
        /\ UNCHANGED <<syncConns, command>>
    BY <1>3 DEF runStart
  <2> QED  BY <1>1, <1>2, <2>1, NothingYet
<1>4. CASE runEnd
  <2>1. UNCHANGED <<syncConns, command>>
    BY <1>4 DEF runEnd
  <2>2. CASE syncConfig' = syncConfig
    BY <2>1, <2>2, NothingMoves
  <2>3. CASE \E s \in StateStatus : syncConfig' = [syncConfig EXCEPT !.status = s]
    BY <1>1, <1>2, <2>1, <2>3
  <2>4. \/ syncConfig' = syncConfig
        \/ \E s \in StateStatus : syncConfig' = [syncConfig EXCEPT !.status = s]
    BY <1>4, NothingYet DEF runEnd
  <2> QED  BY <2>2, <2>3, <2>4
<1>5. ASSUME NEW c \in SyncConn, deleteConnection(c) PROVE PageInv'
  <2>1. syncConns' = syncConns \ {c} /\ UNCHANGED command
    BY <1>5 DEF deleteConnection
  <2>2. CASE syncConfig.exists /\ c \in {syncConfig.source, syncConfig.target}
    <3>1. syncConfig' = Removed
      BY <1>5, <2>2 DEF deleteConnection
    <3>2. syncConfig' \in Configs /\ ~syncConfig'.exists
      BY <3>1, NothingYet DEF Configs, Removed
    <3>3. RefersToOwn'
      BY <3>2 DEF RefersToOwn
    <3> QED  BY <1>1, <2>1, <3>2, <3>3
  <2>3. CASE ~(syncConfig.exists /\ c \in {syncConfig.source, syncConfig.target})
    <3>1. syncConfig' = syncConfig
      BY <1>5, <2>3 DEF deleteConnection
    <3>2. syncConfig' \in Configs /\ RefersToOwn'
      BY <2>1, <2>3, <3>1 DEF PageInv, PageTypes, RefersToOwn
    <3> QED  BY <1>1, <2>1, <3>2
  <2> QED  BY <2>2, <2>3
<1> QED  BY <1>3, <1>4, <1>5

LEMMA PageStep == PageInv /\ [SyncPageNext]_syncPageVars => PageInv'
<1> SUFFICES ASSUME PageInv, [SyncPageNext]_syncPageVars PROVE PageInv'
  OBVIOUS
<1>1. ASSUME NEW t \in SyncTab, openOrFocus(t) \/ pollState(t) PROVE PageInv'
  BY <1>1, NothingMoves DEF openOrFocus, pollState, serverVars
<1>2. ASSUME NEW t \in SyncTab, NEW q \in Query, serve(t, q) \/ receive(t, q) PROVE PageInv'
  BY <1>2, NothingMoves DEF serve, receive, serverVars
<1>3. ASSUME NEW t \in SyncTab, handleCommand(t) PROVE PageInv'
  BY <1>3, CreateStep, ChangeStep, LifecycleStep DEF handleCommand
<1>4. CASE UNCHANGED syncPageVars
  BY <1>4, NothingMoves DEF syncPageVars, serverVars
<1> QED  BY <1>1, <1>2, <1>3, <1>4, PressStep, AnsweredStep, ServerStep DEF SyncPageNext

-----------------------------------------------------------------------------

\* Both ends of a configuration exist and belong to its owner, whichever
\* connection is deleted while it is being made (sync-engine.service.ts,
\* createSyncConfiguration; the foreign keys of SyncConfiguration).
THEOREM EndsAreOwn == SyncPageSpec => []RefersToOwn
<1>1. PageInv => RefersToOwn
  BY DEF PageInv
<1> QED  BY <1>1, PageInit, PageStep, PTL DEF SyncPageSpec

-----------------------------------------------------------------------------
(* Monitoring: the switches, the alarms and the clocks keep their types.   *)

ClockTypes ==
    /\ watched \in [Pinged -> BOOLEAN] /\ bad \in [Alarm -> BOOLEAN]
    /\ sinceCheck \in [{"storage", "backups"} -> 0 .. CheckThrottle]
    /\ sinceAlert \in [Alarm -> 0 .. ReAlert]
    /\ beatFaults \in 0 .. MaxBeatFaults
    /\ beat.user \in 1 .. Len(Users) + 1
    /\ beat.pc = "backups" => beat.user <= Len(Users)

LEMMA FirstUserBeats ==
    /\ NotBeating.user \in 1 .. Len(Users) + 1 /\ NotBeating.pc = "idle"
    /\ Len(Users) \in Nat
<1>1. Len(Users) \in Nat
  BY MonitoringAssumption
<1> QED  BY <1>1 DEF NotBeating

LEMMA ClockInit == MonitoringInit => ClockTypes
<1> SUFFICES ASSUME MonitoringInit PROVE ClockTypes
  OBVIOUS
<1>1. CheckThrottle \in 0 .. CheckThrottle /\ ReAlert \in 0 .. ReAlert /\ 0 \in 0 .. MaxBeatFaults
  BY MonitoringAssumption
<1> QED  BY <1>1, FirstUserBeats DEF MonitoringInit, ClockTypes

LEMMA ClockStep == BeatInv /\ ClockTypes /\ [MonitoringNext]_monitoringVars => ClockTypes'
<1> SUFFICES ASSUME BeatInv, ClockTypes, [MonitoringNext]_monitoringVars PROVE ClockTypes'
  OBVIOUS
<1>0. /\ beat \in Beats /\ Len(Users) \in Nat
      /\ 0 \in 0 .. ReAlert /\ 0 \in 0 .. CheckThrottle
      /\ CheckThrottle \in 0 .. CheckThrottle /\ ReAlert \in 0 .. ReAlert
      /\ CheckThrottle \in Nat /\ ReAlert \in Nat /\ MaxBeatFaults \in Nat
  BY MonitoringAssumption, FirstUserBeats DEF BeatInv, BeatTypes
\* A beat under way is one of the same user, at no other check.
<1>1. ASSUME UNCHANGED <<watched, bad, sinceCheck, sinceAlert, beatFaults>>,
             beat'.user \in 1 .. Len(Users) + 1, beat'.pc # "backups"
      PROVE  ClockTypes'
  BY <1>1 DEF ClockTypes
<1>2. CASE runHeartbeatChecks
  <2>1. beat' = [NotBeating EXCEPT !.pc = "next", !.todo = {c \in Pinged : watched[c]}]
        /\ UNCHANGED <<watched, bad, sinceCheck, sinceAlert, beatFaults>>
    BY <1>2 DEF runHeartbeatChecks, hosts, alarms
  <2>2. beat'.user = NotBeating.user /\ beat'.pc = "next"
    BY <2>1, IdleBeat DEF Beats
  <2> QED  BY <1>1, <2>1, <2>2, FirstUserBeats
<1>3. CASE readPrevious
  <2>1. PICK c \in beat.todo :
          beat' = [beat EXCEPT !.pc = "ping", !.todo = beat.todo \ {c}, !.conn = c,
                               !.prev = newestBeat[c]]
    BY <1>3 DEF readPrevious
  <2>2. beat'.user = beat.user /\ beat'.pc = "ping"
    BY <1>0, <2>1 DEF Beats
  <2>3. UNCHANGED <<watched, bad, sinceCheck, sinceAlert, beatFaults>>
    BY <1>3 DEF readPrevious, hosts, alarms
  <2> QED  BY <1>1, <2>2, <2>3 DEF ClockTypes
<1>4. CASE ping \/ recordPing \/ reportTransition \/ prune
  <2>1. UNCHANGED <<watched, bad, sinceCheck, sinceAlert, beatFaults>>
    BY <1>4 DEF ping, recordPing, reportTransition, prune, hosts, alarms
  <2>2. \/ beat' = [beat EXCEPT !.pc = "record", !.up = alive[beat.conn]]
        \/ beat' = [beat EXCEPT !.pc = "report"]
        \/ beat' = [beat EXCEPT !.pc = "next", !.conn = NoPing]
        \/ beat' = [beat EXCEPT !.pc = "storage"]
    BY <1>4 DEF ping, recordPing, reportTransition, prune
  <2>3. beat'.user = beat.user /\ beat'.pc # "backups"
    BY <1>0, <2>2 DEF Beats
  <2> QED  BY <1>1, <2>1, <2>3 DEF ClockTypes
<1>5. ASSUME NEW check \in {"storage", "backups"}, NEW ks, throttled(check, ks)
      PROVE  /\ sinceCheck' \in [{"storage", "backups"} -> 0 .. CheckThrottle]
             /\ sinceAlert' \in [Alarm -> 0 .. ReAlert]
  BY <1>0, <1>5 DEF throttled, Checked, alarms, ClockTypes
<1>6. CASE runStorageChecks
  <2>1. /\ beat' = [beat EXCEPT !.pc = "backups"] /\ beat.user <= Len(Users)
        /\ UNCHANGED <<watched, bad, beatFaults>> /\ throttled("storage", Storage)
    BY <1>6 DEF runStorageChecks, hosts
  <2>2. beat'.user = beat.user
    BY <1>0, <2>1 DEF Beats
  <2> QED  BY <1>5, <2>1, <2>2 DEF ClockTypes
<1>7. CASE runBackupWatchdog
  <2>1. /\ beat.pc = "backups" /\ beat' = [beat EXCEPT !.pc = "storage", !.user = beat.user + 1]
        /\ UNCHANGED <<watched, bad, beatFaults>>
        /\ throttled("backups", {c \in Expecting : OwnerOf[c] = Users[beat.user]})
    BY <1>7 DEF runBackupWatchdog, hosts
  <2>2. beat'.user = beat.user + 1 /\ beat'.pc = "storage"
    BY <1>0, <2>1 DEF Beats
  <2>3. beat.user \in 1 .. Len(Users) + 1 /\ beat.user <= Len(Users)
    BY <2>1 DEF ClockTypes
  <2>4. beat.user + 1 \in 1 .. Len(Users) + 1
    BY <1>0, <2>3
  <2> QED  BY <1>5, <2>1, <2>2, <2>4 DEF ClockTypes
<1>8. CASE endBeat
  BY <1>1, <1>8, FirstUserBeats DEF endBeat, hosts, alarms
<1>9. ASSUME beatFaults < MaxBeatFaults, beatFaults' = beatFaults + 1
      PROVE  beatFaults' \in 0 .. MaxBeatFaults
  BY <1>0, <1>9 DEF ClockTypes
<1>10. CASE failBeat
  <2>1. UNCHANGED <<watched, bad, sinceCheck, sinceAlert>> /\ beat' = NotBeating
    BY <1>10 DEF failBeat, hosts, alarms
  <2> QED  BY <1>9, <1>10, <2>1, FirstUserBeats DEF failBeat, ClockTypes
<1>11. CASE crashMonitor
  <2>1. /\ UNCHANGED <<watched, bad>> /\ beat' = NotBeating
        /\ sinceCheck' = [k \in DOMAIN sinceCheck |-> CheckThrottle]
        /\ sinceAlert' = [k \in Alarm |-> ReAlert]
    BY <1>11 DEF crashMonitor, hosts
  <2> QED  BY <1>0, <1>9, <1>11, <2>1, FirstUserBeats DEF crashMonitor, ClockTypes
<1>12. CASE passHour
  <2>1. \A k \in Alarm : (IF sinceAlert[k] < ReAlert THEN sinceAlert[k] + 1 ELSE ReAlert)
                             \in 0 .. ReAlert
    BY <1>0 DEF ClockTypes
  <2>2. \A k \in DOMAIN sinceCheck :
            (IF sinceCheck[k] < CheckThrottle THEN sinceCheck[k] + 1 ELSE CheckThrottle)
                \in 0 .. CheckThrottle
    BY <1>0 DEF ClockTypes
  <2>3. UNCHANGED <<watched, bad, beat, beatFaults>>
    BY <1>12 DEF passHour, hosts
  <2> QED  BY <1>12, <2>1, <2>2, <2>3 DEF passHour, ClockTypes
<1>13. CASE worldChanges
  <2>1. UNCHANGED <<beat, sinceCheck, sinceAlert, beatFaults>> /\ changeHost
    BY <1>13 DEF worldChanges, alarms
  <2>2. watched' \in [Pinged -> BOOLEAN] /\ bad' \in [Alarm -> BOOLEAN]
    BY <2>1 DEF changeHost, ClockTypes
  <2> QED  BY <2>1, <2>2 DEF ClockTypes
<1>14. CASE UNCHANGED monitoringVars
  BY <1>14 DEF monitoringVars, hosts, alarms, ClockTypes
<1> QED  BY <1>2, <1>3, <1>4, <1>6, <1>7, <1>8, <1>10, <1>11, <1>12, <1>13, <1>14
         DEF MonitoringNext, beatStep

LEMMA MonitoringTyped == BeatInv /\ ClockTypes => MonitoringTypeOK
  BY DEF BeatInv, BeatTypes, Beats, ClockTypes, MonitoringTypeOK

-----------------------------------------------------------------------------
(* Drills: a scratch database belongs to one drill.                        *)

DrillSteps == {"idle", "checked", "begin", "create", "restore", "count", "drop",
               "verdict", "done", "unrecorded"}
DrillRuns == [pc : DrillSteps, db : Drill \cup {NoDrill}, ok : BOOLEAN]

\* A drill that has begun has the name of its scratch database.
DrillsInv ==
    /\ DrillsTypeOK
    /\ \A d \in Drill : drill[d].pc \in {"begin", "create", "restore", "count", "drop"}
                            => drill[d].db \in Drill
    /\ ScratchIsPrivate

LEMMA DrillsInvInit == DrillsInit => DrillsInv
  BY DrillsAssumption DEF DrillsInit, DrillsInv, DrillsTypeOK, NotRunning, ScratchIsPrivate

\* One drill goes on, or stops, and the databases are as before or only its own came or
\* went.
LEMMA DrillMoves ==
    ASSUME DrillsInv, NEW d \in Drill, NEW r \in DrillRuns,
           drill' = [drill EXCEPT ![d] = r],
           r.pc \in {"begin", "create", "restore", "count", "drop"} => r.db \in Drill,
           \/ scratch' = scratch /\ (r.pc \in {"restore", "count", "drop"}
                                         => r.db \in Drill /\ scratch[r.db] = d)
           \/ /\ r.db \in Drill /\ scratch[r.db] = NoDrill
              /\ scratch' = [scratch EXCEPT ![r.db] = d]
           \/ /\ r.pc \notin {"restore", "count", "drop"} /\ drill[d].pc = "drop"
              /\ scratch' = [scratch EXCEPT ![drill[d].db] = NoDrill],
           drilled' = drilled, drillRow' \in [Drill -> {"NONE", "RUNNING", "PASSED", "FAILED"}],
           UNCHANGED process
    PROVE  DrillsInv'
<1> USE DrillsAssumption
<1>1. \A x \in Drill : drill'[x] = IF x = d THEN r ELSE drill[x]
  BY DEF DrillsInv, DrillsTypeOK
<1>2. drill' \in [Drill -> DrillRuns]
  BY DEF DrillsInv, DrillsTypeOK, DrillRuns, DrillSteps
<1>3. scratch' \in [Drill -> Drill \cup {NoDrill}]
  BY DEF DrillsInv, DrillsTypeOK
<1>4. DrillsTypeOK'
  BY <1>2, <1>3 DEF DrillsInv, DrillsTypeOK, DrillRuns, DrillSteps, process
<1>5. ScratchIsPrivate'
  BY <1>1 DEF DrillsInv, DrillsTypeOK, ScratchIsPrivate
<1> QED  BY <1>1, <1>4, <1>5 DEF DrillsInv

LEMMA DrillStepRecord ==
    ASSUME DrillsInv, NEW d \in Drill, NEW from \in DrillSteps, NEW next \in DrillSteps,
           NEW ok \in BOOLEAN, drillStep(d, from, next, ok)
    PROVE  \E r \in DrillRuns :
               /\ drill' = [drill EXCEPT ![d] = r] /\ r.db = drill[d].db
               /\ r.pc = IF ok THEN next ELSE IF from \in {"restore", "count"} THEN "drop"
                         ELSE "verdict"
<1> DEFINE pc == IF ok THEN next ELSE IF from \in {"restore", "count"} THEN "drop" ELSE "verdict"
           r == [drill[d] EXCEPT !.pc = pc, !.ok = @ /\ ok]
<1>1. drill[d] \in DrillRuns
  BY DEF DrillsInv, DrillsTypeOK, DrillRuns, DrillSteps
<1>2. pc \in DrillSteps
  BY DEF DrillSteps
<1>3. r \in DrillRuns /\ r.pc = pc /\ r.db = drill[d].db
  BY <1>1, <1>2 DEF DrillRuns
<1>4. drill' = [drill EXCEPT ![d] = r]
  BY DEF drillStep, DrillsInv, DrillsTypeOK
<1> QED  BY <1>3, <1>4

LEMMA DrillsInvStep == DrillsInv /\ [DrillsNext]_drillsVars => DrillsInv'
<1> SUFFICES ASSUME DrillsInv, [DrillsNext]_drillsVars PROVE DrillsInv'
  OBVIOUS
<1> USE DrillsAssumption
<1>0. /\ drill \in [Drill -> DrillRuns]
      /\ drillRow \in [Drill -> {"NONE", "RUNNING", "PASSED", "FAILED"}]
      /\ NotRunning \in DrillRuns /\ [NotRunning EXCEPT !.pc = "done"] \in DrillRuns
      /\ [NotRunning EXCEPT !.pc = "done"].pc = "done" /\ NotRunning.pc = "idle"
  BY DEF DrillsInv, DrillsTypeOK, DrillRuns, DrillSteps, NotRunning
<1>1. ASSUME NEW d \in Drill, startRestoreDrill(d) PROVE DrillsInv'
  <2> DEFINE r == [drill[d] EXCEPT !.pc = "checked"]
  <2>1. r \in DrillRuns /\ r.pc = "checked"
    BY <1>0 DEF DrillRuns, DrillSteps
  <2>2. drill' = [drill EXCEPT ![d] = r] /\ UNCHANGED <<drilled, drillRow, scratch, process>>
    BY <1>1 DEF startRestoreDrill
  <2> HIDE DEF r
  <2> QED  BY <1>0, <2>1, <2>2, DrillMoves
<1>2. ASSUME NEW d \in Drill, createDrill(d) PROVE DrillsInv'
  <2>1. CASE drilled.exists
    <3>1. PICK name \in {d} \cup {drill[e].db : e \in {f \in Drill : drill[f].pc = "begin"}} :
              drill' = [drill EXCEPT ![d] = [pc |-> "begin", db |-> name, ok |-> TRUE]]
      BY <1>2, <2>1 DEF createDrill
    <3>2. name \in Drill
      BY DEF DrillsInv
    <3>3. drillRow' = [drillRow EXCEPT ![d] = "RUNNING"] /\ UNCHANGED <<drilled, scratch, process>>
      BY <1>2, <2>1 DEF createDrill
    <3>4. drillRow' \in [Drill -> {"NONE", "RUNNING", "PASSED", "FAILED"}]
      BY <1>0, <3>3
    <3>5. [pc |-> "begin", db |-> name, ok |-> TRUE] \in DrillRuns
      BY <3>2 DEF DrillRuns, DrillSteps
    <3> QED  BY <3>1, <3>2, <3>3, <3>4, <3>5, DrillMoves
  <2>2. CASE ~drilled.exists
    BY <1>0, <1>2, <2>2, DrillMoves DEF createDrill
  <2> QED  BY <2>1, <2>2
<1>3. ASSUME NEW d \in Drill, prepareDrill(d) PROVE DrillsInv'
  <2>1. PICK ok \in BOOLEAN : drillStep(d, "begin", "create", ok)
    BY <1>3 DEF prepareDrill
  <2>2. drill[d].db \in Drill /\ UNCHANGED <<scratch, drilled, drillRow, process>>
    BY <1>3, <2>1 DEF drillStep, prepareDrill, DrillsInv
  <2> QED  BY <1>0, <2>1, <2>2, DrillStepRecord, DrillMoves DEF DrillSteps
<1>4. ASSUME NEW d \in Drill, createDatabase(d) PROVE DrillsInv'
  <2>1. PICK ok \in BOOLEAN :
            /\ drillStep(d, "create", "restore", ok)
            /\ ok => /\ scratch[drill[d].db] = NoDrill
                     /\ scratch' = [scratch EXCEPT ![drill[d].db] = d]
            /\ ~ok => UNCHANGED scratch
    BY <1>4 DEF createDatabase
  <2>2. drill[d].db \in Drill /\ UNCHANGED <<drilled, drillRow, process>>
    BY <2>1 DEF drillStep, DrillsInv
  <2>3. "create" \in DrillSteps /\ "restore" \in DrillSteps
    BY DEF DrillSteps
  <2>4. PICK r \in DrillRuns : /\ drill' = [drill EXCEPT ![d] = r] /\ r.db = drill[d].db
                               /\ r.pc = IF ok THEN "restore" ELSE "verdict"
    BY <2>1, <2>3, DrillStepRecord
  <2> QED  BY <1>0, <2>1, <2>2, <2>4, DrillMoves
<1>5. ASSUME NEW d \in Drill, restoreScratch(d) \/ countAllTables(d) PROVE DrillsInv'
  <2>1. PICK ok \in BOOLEAN :
            drillStep(d, "restore", "count", ok) \/ drillStep(d, "count", "drop", ok)
    BY <1>5 DEF restoreScratch, countAllTables
  <2>2. /\ drill[d].db \in Drill /\ scratch[drill[d].db] = d
        /\ UNCHANGED <<scratch, drilled, drillRow, process>>
    BY <1>5, <2>1 DEF drillStep, restoreScratch, countAllTables, DrillsInv, ScratchIsPrivate
  <2> QED  BY <1>0, <2>1, <2>2, DrillStepRecord, DrillMoves DEF DrillSteps
<1>6. ASSUME NEW d \in Drill, dropDatabase(d) PROVE DrillsInv'
  <2> DEFINE r == [drill[d] EXCEPT !.pc = "verdict"]
  <2>1. r \in DrillRuns /\ r.pc = "verdict"
    BY <1>0 DEF DrillRuns, DrillSteps
  <2>2. /\ drill' = [drill EXCEPT ![d] = r] /\ UNCHANGED <<drilled, drillRow, process>>
        /\ drill[d].pc = "drop"
        /\ scratch' = scratch \/ scratch' = [scratch EXCEPT ![drill[d].db] = NoDrill]
    BY <1>6 DEF dropDatabase
  <2> HIDE DEF r
  <2> QED  BY <1>0, <2>1, <2>2, DrillMoves
<1>7. ASSUME NEW d \in Drill, recordVerdict(d) PROVE DrillsInv'
  <2> DEFINE r(pc) == [NotRunning EXCEPT !.pc = pc]
             again == [drill[d] EXCEPT !.ok = FALSE]
  <2>1. /\ drill[d].pc = "verdict" /\ UNCHANGED <<drilled, scratch, process>>
        /\ \/ drill' = [drill EXCEPT ![d] = r("done")]
           \/ drill' = [drill EXCEPT ![d] = r("unrecorded")]
           \/ drill' = [drill EXCEPT ![d] = again]
    BY <1>7 DEF recordVerdict
  <2>2. drillRow' \in [Drill -> {"NONE", "RUNNING", "PASSED", "FAILED"}]
    BY <1>0, <1>7 DEF recordVerdict
  <2>3. /\ r("done") \in DrillRuns /\ r("done").pc = "done"
        /\ r("unrecorded") \in DrillRuns /\ r("unrecorded").pc = "unrecorded"
        /\ again \in DrillRuns /\ again.pc = "verdict"
    BY <1>0, <2>1 DEF DrillRuns, DrillSteps, NotRunning
  <2> HIDE DEF r, again
  <2>4. CASE drill' = [drill EXCEPT ![d] = again]
    BY <2>1, <2>2, <2>3, <2>4, DrillMoves
  <2>5. CASE drill' = [drill EXCEPT ![d] = r("done")]
    BY <2>1, <2>2, <2>3, <2>5, DrillMoves
  <2>6. CASE drill' = [drill EXCEPT ![d] = r("unrecorded")]
    BY <2>1, <2>2, <2>3, <2>6, DrillMoves
  <2> QED  BY <2>1, <2>4, <2>5, <2>6
<1>8. ASSUME UNCHANGED <<drill, scratch>>, DrillsTypeOK' PROVE DrillsInv'
  BY <1>8 DEF DrillsInv, ScratchIsPrivate
<1>9. ASSUME NEW d \in Drill, cancelStaleDrill(d) PROVE DrillsInv'
  BY <1>8, <1>9 DEF cancelStaleDrill, DrillsInv, DrillsTypeOK, process
<1>10. CASE crashDrills
  <2>1. drill' \in [Drill -> DrillRuns] /\ UNCHANGED scratch
        /\ \A d \in Drill : drill'[d].pc \in {"idle", "done"}
    BY <1>0, <1>10 DEF crashDrills
  <2>2. drillCrashes' \in 0 .. MaxDrillCrashes /\ drillerUp' = FALSE
        /\ UNCHANGED <<drilled, drillRow>>
    BY <1>10 DEF crashDrills, DrillsInv, DrillsTypeOK
  <2>3. DrillsTypeOK'
    BY <2>1, <2>2 DEF DrillsInv, DrillsTypeOK, DrillRuns, DrillSteps
  <2> QED  BY <2>1, <2>3 DEF DrillsInv, ScratchIsPrivate
<1>11. CASE cleanupOrphanedDrills
  <2>1. drillRow' \in [Drill -> {"NONE", "RUNNING", "PASSED", "FAILED"}]
    BY <1>0, <1>11 DEF cleanupOrphanedDrills
  <2> QED  BY <1>8, <1>11, <2>1 DEF cleanupOrphanedDrills, DrillsInv, DrillsTypeOK
<1>12. CASE deleteDrilled \/ dropSource
  BY <1>8, <1>12 DEF deleteDrilled, dropSource, DrillsInv, DrillsTypeOK, process
<1>13. CASE UNCHANGED drillsVars
  BY <1>8, <1>13 DEF drillsVars, DrillsInv, DrillsTypeOK, process
<1> QED  BY <1>1, <1>2, <1>3, <1>4, <1>5, <1>6, <1>7, <1>9, <1>10, <1>11, <1>12, <1>13
         DEF DrillsNext, runDrill

-----------------------------------------------------------------------------
(* EngineRuns: an outcome is what the program and the file came to.        *)

Reading == {"feed", "reads"}

\* What has begun, and what each end that was reported stands for.
EngineInv ==
    /\ EngineTypeOK
    /\ promise = "none" => child = "none"
    /\ engineKind \in {"direct", "cli", "reads"} => stream = "none"
    /\ child = "none" => file = "none" /\ stream = "none" /\ applied = "none"
    /\ outcome # "none" => promise \in {"resolved", "rejected"}
    /\ engineKind = "pipe" /\ child = "running" => stream # "done"
    /\ engineKind = "pipe" /\ stream = "done" /\ child = "ok" => file = "whole"
    /\ engineKind = "pipe" /\ promise = "resolved" =>
           child = "ok" /\ stream = "done" /\ file = "whole"
    /\ engineKind = "pipe" /\ promise = "rejected" =>
           /\ file = "none"
           /\ \/ child = "none" /\ stream = "none"
              \/ child \in {"ok", "failed"} /\ stream \in {"done", "failed"}
    /\ engineKind \in {"direct", "cli"} /\ child = "ok" => file = "whole"
    /\ engineKind \in Reading /\ child = "ok" => applied = "all" /\ stream # "open"
    /\ engineKind # "pipe" /\ promise = "resolved" => child = "ok"
    /\ NothingHeld
    /\ outcome = "ok" => promise = "resolved"
    /\ outcome = "failed" => promise = "rejected"

LEMMA EngineInvInit == EngineInit => EngineInv
  BY EngineRunsAssumption DEF EngineInit, EngineInv, EngineTypeOK, NothingHeld, Kinds

LEMMA EngineInvStep == EngineInv /\ [EngineNext]_engineVars => EngineInv'
<1> SUFFICES ASSUME EngineInv, [EngineNext]_engineVars PROVE EngineInv'
  OBVIOUS
<1> USE DEF EngineInv, EngineTypeOK, NothingHeld, Reading, around
<1>1. CASE prepare
  BY <1>1 DEF prepare
<1>2. CASE spawn
  BY <1>2 DEF spawn, streamed, writesItself
<1>3. CASE fault
  BY <1>3 DEF fault
<1>4. CASE timeout
  BY <1>4 DEF timeout
<1>5. CASE streamEnds
  BY <1>5 DEF streamEnds
<1>6. CASE streamFails
  BY <1>6 DEF streamFails
<1>7. CASE exit
  BY <1>7 DEF exit, writesItself
<1>8. CASE dumpToFile
  BY <1>8 DEF dumpToFile
<1>9. CASE finish
  <2>1. /\ promise \in {"resolved", "rejected"} /\ tunnel' = FALSE /\ private' = FALSE
        /\ outcome' = IF promise = "resolved" THEN "ok" ELSE "failed"
        /\ UNCHANGED <<engineKind, child, faulty, stream, file, applied, promise>>
    BY <1>9 DEF finish
  <2>2. /\ outcome' \in {"none", "ok", "failed"}
        /\ outcome' = "ok" => promise = "resolved"
        /\ outcome' = "failed" => promise = "rejected"
    BY <2>1
  <2> HIDE DEF EngineInv, EngineTypeOK, NothingHeld, Reading
  <2>3. EngineTypeOK'
    BY <2>1, <2>2 DEF EngineInv, EngineTypeOK
  <2>4. NothingHeld'
    BY <2>1 DEF NothingHeld
  <2> QED  BY <2>1, <2>2, <2>3, <2>4 DEF EngineInv
<1>10. CASE UNCHANGED engineVars
  BY <1>10 DEF engineVars
<1> QED  BY <1>1, <1>2, <1>3, <1>4, <1>5, <1>6, <1>7, <1>8, <1>9, <1>10 DEF EngineNext

LEMMA OutcomeFromInv == EngineInv => OutcomeIsTrue /\ NothingHeld
  BY DEF EngineInv, OutcomeIsTrue, Reading

-----------------------------------------------------------------------------
(* RestoreQueue: a job restores once, and once more for each stall.        *)

RestoreJobs == [st : {"none", "waiting", "active", "completed", "failed"},
                stalled : 0 .. 1, lock : BOOLEAN]

\* The restores of a job, with the one that the worker is about to begin.
Due(j) == restores[j] + (IF running.job = j /\ running.pc = "check" THEN 1 ELSE 0)

\* A job that waits has stalled once for each time it ran.
RestoreInv ==
    /\ RestoreTypeOK
    /\ running.pc # "idle" => running.job \in RestoreJob
    /\ \A j \in RestoreJob : /\ Due(j) <= 1 + job[j].stalled
                             /\ job[j].st \in {"none", "waiting"} => Due(j) <= job[j].stalled

LEMMA RestoreInvInit == RestoreInit => RestoreInv
  BY RestoreAssumption DEF RestoreInit, RestoreInv, RestoreTypeOK, NoRun, Due

\* The worker is where it was, or no longer about to begin, and no job comes to wait.
LEMMA RestoreCalm ==
    ASSUME RestoreInv, job' \in [RestoreJob -> RestoreJobs], restores' = restores,
           running' = running \/ running'.pc # "check",
           \A j \in RestoreJob :
               /\ job'[j].stalled = job[j].stalled
               /\ job'[j].st \in {"none", "waiting"} => job[j].st \in {"none", "waiting"}
    PROVE  \A j \in RestoreJob : /\ Due(j)' <= 1 + job'[j].stalled
                                 /\ job'[j].st \in {"none", "waiting"} => Due(j)' <= job'[j].stalled
  BY DEF RestoreInv, RestoreTypeOK, RestoreJobs, Due

LEMMA RestoreInvStep == RestoreInv /\ [RestoreNext]_restoreVars => RestoreInv'
<1> SUFFICES ASSUME RestoreInv, [RestoreNext]_restoreVars PROVE RestoreInv'
  OBVIOUS
<1> USE RestoreAssumption
<1>0. /\ job \in [RestoreJob -> RestoreJobs] /\ restores \in [RestoreJob -> Nat]
      /\ running \in [job : RestoreJob \cup {NoJob},
                      pc : {"idle", "check", "restore", "completed", "failed"}]
  BY DEF RestoreInv, RestoreTypeOK, RestoreJobs
<1>a. ASSUME NEW j \in RestoreJob, NEW r \in RestoreJobs, job' = [job EXCEPT ![j] = r],
             r.stalled = job[j].stalled,
             r.st \in {"none", "waiting"} => job[j].st \in {"none", "waiting"},
             restores' = restores,
             \/ running' = running
             \/ running'.pc # "check" /\ running' \in [job : RestoreJob \cup {NoJob},
                      pc : {"idle", "check", "restore", "completed", "failed"}]
                /\ (running'.pc # "idle" => running'.job \in RestoreJob),
             UNCHANGED <<restorable, host>>
      PROVE  RestoreInv'
  <2>1. job' \in [RestoreJob -> RestoreJobs]
        /\ \A x \in RestoreJob : job'[x] = IF x = j THEN r ELSE job[x]
    BY <1>0, <1>a
  <2>2. \A x \in RestoreJob :
               /\ job'[x].stalled = job[x].stalled
               /\ job'[x].st \in {"none", "waiting"} => job[x].st \in {"none", "waiting"}
    BY <1>a, <2>1
  <2>3. RestoreTypeOK'
    BY <1>0, <1>a, <2>1 DEF RestoreInv, RestoreTypeOK, RestoreJobs, host
  <2> QED  BY <1>a, <2>1, <2>2, <2>3, RestoreCalm DEF RestoreInv
<1>1. ASSUME NEW j \in RestoreJob, restoreBackup(j) PROVE RestoreInv'
  <2> DEFINE r == [job[j] EXCEPT !.st = "waiting"]
  <2>1. r \in RestoreJobs /\ r.st = "waiting" /\ r.stalled = job[j].stalled
    BY <1>0 DEF RestoreJobs
  <2>2. job' = [job EXCEPT ![j] = r] /\ job[j].st = "none"
        /\ UNCHANGED <<restorable, running, restores, host>>
    BY <1>1 DEF restoreBackup
  <2> HIDE DEF r
  <2> QED  BY <1>a, <2>1, <2>2
<1>2. ASSUME NEW j \in RestoreJob, pickRestore(j) PROVE RestoreInv'
  <2> DEFINE r == [job[j] EXCEPT !.st = "active", !.lock = TRUE]
  <2>1. r \in RestoreJobs /\ r.st = "active" /\ r.stalled = job[j].stalled
    BY <1>0 DEF RestoreJobs
  <2>2. /\ job' = [job EXCEPT ![j] = r] /\ job[j].st = "waiting" /\ running = NoRun
        /\ running' = [job |-> j, pc |-> "check"] /\ UNCHANGED <<restorable, restores, host>>
    BY <1>0, <1>2 DEF pickRestore
  <2> HIDE DEF r
  <2>3. job' \in [RestoreJob -> RestoreJobs]
        /\ \A x \in RestoreJob : job'[x] = IF x = j THEN r ELSE job[x]
    BY <1>0, <2>1, <2>2
  <2>4. RestoreTypeOK'
    BY <1>0, <2>2, <2>3 DEF RestoreInv, RestoreTypeOK, RestoreJobs, host
  <2>5. \A x \in RestoreJob :
            Due(x) = restores[x] /\ Due(x)' = restores[x] + (IF x = j THEN 1 ELSE 0)
    BY <1>0, <2>2 DEF Due, NoRun
  <2>6. \A x \in RestoreJob :
            /\ Due(x)' <= 1 + job'[x].stalled
            /\ job'[x].st \in {"none", "waiting"} => Due(x)' <= job'[x].stalled
    BY <1>0, <2>1, <2>2, <2>3, <2>5 DEF RestoreInv, RestoreJobs
  <2> QED  BY <2>2, <2>4, <2>6 DEF RestoreInv
<1>3. ASSUME NEW ok \in BOOLEAN, checkRestore(ok) PROVE RestoreInv'
  <2>1. /\ running.pc = "check" /\ running.job \in RestoreJob
        /\ UNCHANGED <<restorable, job, host>>
        /\ running' = [running EXCEPT !.pc = IF ok THEN "restore" ELSE "failed"]
        /\ restores' = IF ok THEN [restores EXCEPT ![running.job] = @ + 1] ELSE restores
    BY <1>3 DEF checkRestore, RestoreInv
  <2>2. /\ running'.job = running.job /\ running'.pc \in {"restore", "failed"}
        /\ running' \in [job : RestoreJob \cup {NoJob},
                      pc : {"idle", "check", "restore", "completed", "failed"}]
    BY <1>0, <2>1
  <2>3. restores' \in [RestoreJob -> Nat]
        /\ \A x \in RestoreJob : restores'[x] <= restores[x] + (IF x = running.job THEN 1 ELSE 0)
    BY <1>0, <2>1
  <2>4. RestoreTypeOK'
    BY <1>0, <2>1, <2>2, <2>3 DEF RestoreInv, RestoreTypeOK, RestoreJobs, host
  <2>5. \A x \in RestoreJob : Due(x)' <= Due(x) /\ Due(x) \in Nat /\ Due(x)' \in Nat
    BY <1>0, <2>1, <2>2, <2>3 DEF Due
  <2>6. \A x \in RestoreJob :
            /\ Due(x)' <= 1 + job'[x].stalled
            /\ job'[x].st \in {"none", "waiting"} => Due(x)' <= job'[x].stalled
    BY <1>0, <2>1, <2>5 DEF RestoreInv, RestoreJobs
  <2> QED  BY <2>1, <2>2, <2>4, <2>6 DEF RestoreInv
<1>4. ASSUME NEW ok \in BOOLEAN, engineRestore(ok) PROVE RestoreInv'
  <2>1. /\ running.pc = "restore" /\ running.job \in RestoreJob
        /\ UNCHANGED <<restorable, job, restores, host>>
        /\ running' = [running EXCEPT !.pc = IF ok THEN "completed" ELSE "failed"]
    BY <1>4 DEF engineRestore, RestoreInv
  <2>2. /\ running'.job = running.job /\ running'.pc \in {"completed", "failed"}
        /\ running' \in [job : RestoreJob \cup {NoJob},
                      pc : {"idle", "check", "restore", "completed", "failed"}]
    BY <1>0, <2>1
  <2>3. job' = [job EXCEPT ![running.job] = job[running.job]] /\ job[running.job] \in RestoreJobs
    BY <1>0, <2>1
  <2> QED  BY <1>a, <2>1, <2>2, <2>3
<1>5. CASE finishRestore
  <2> DEFINE r == IF job[running.job].lock
                  THEN [job[running.job] EXCEPT !.st = running.pc, !.lock = FALSE]
                  ELSE job[running.job]
  <2>1. /\ running.pc \in {"completed", "failed"} /\ running.job \in RestoreJob
        /\ running' = NoRun /\ UNCHANGED <<restorable, restores, host>>
    BY <1>5 DEF finishRestore, RestoreInv
  <2>2. job' = [job EXCEPT ![running.job] = r]
    BY <1>0, <1>5, <2>1 DEF finishRestore
  <2>3. /\ r \in RestoreJobs /\ r.stalled = job[running.job].stalled
        /\ r.st \in {"none", "waiting"} => job[running.job].st \in {"none", "waiting"}
    <3>1. job[running.job] \in RestoreJobs /\ running.pc \in {"completed", "failed"}
      BY <1>0, <2>1
    <3>2. ASSUME NEW a \in RestoreJobs, NEW st \in {"completed", "failed"}
          PROVE  LET b == [a EXCEPT !.st = st, !.lock = FALSE]
                 IN  b \in RestoreJobs /\ b.stalled = a.stalled /\ b.st = st
      BY DEF RestoreJobs
    <3>3. CASE job[running.job].lock
      BY <3>1, <3>2, <3>3
    <3>4. CASE ~job[running.job].lock
      BY <3>1, <3>4
    <3> QED  BY <3>3, <3>4
  <2>4. NoRun.pc = "idle" /\ NoRun \in [job : RestoreJob \cup {NoJob},
                      pc : {"idle", "check", "restore", "completed", "failed"}]
    BY DEF NoRun
  <2> HIDE DEF r
  <2> QED  BY <1>a, <2>1, <2>2, <2>3, <2>4
<1>6. CASE loseRestoreLock
  <2> DEFINE r == [job[running.job] EXCEPT !.lock = FALSE]
  <2>1. running # NoRun /\ job' = [job EXCEPT ![running.job] = r]
        /\ UNCHANGED <<restorable, restores, running, host>>
    BY <1>6 DEF loseRestoreLock
  <2>2. CASE running.job \in RestoreJob
    <3>0. job[running.job] \in RestoreJobs
      BY <1>0, <2>2
    <3>1. /\ r \in RestoreJobs /\ r.stalled = job[running.job].stalled
          /\ r.st = job[running.job].st
      BY <3>0 DEF RestoreJobs
    <3> HIDE DEF r
    <3> QED  BY <1>a, <2>1, <2>2, <3>1
  <2>3. CASE running.job \notin RestoreJob
    <3>1. job' = job
      BY <1>0, <2>1, <2>3
    <3> QED  BY <2>1, <3>1 DEF RestoreInv, RestoreTypeOK, Due, host
  <2> QED  BY <2>2, <2>3
<1>7. ASSUME NEW j \in RestoreJob, moveStalledRestore(j) PROVE RestoreInv'
  <2>1. job[j].st = "active" /\ UNCHANGED <<restorable, running, restores, host>>
    BY <1>7 DEF moveStalledRestore
  <2>2. CASE job[j].stalled < 1
    <3> DEFINE r == [st |-> "waiting", stalled |-> 1, lock |-> FALSE]
    <3>1. job' = [job EXCEPT ![j] = r] /\ job[j].stalled = 0
      BY <1>0, <1>7, <2>2 DEF moveStalledRestore, RestoreJobs
    <3>2. r \in RestoreJobs
      BY DEF RestoreJobs
    <3>3. job' \in [RestoreJob -> RestoreJobs]
          /\ \A x \in RestoreJob : job'[x] = IF x = j THEN r ELSE job[x]
      BY <1>0, <3>1, <3>2
    <3>4. RestoreTypeOK'
      BY <2>1, <3>3 DEF RestoreInv, RestoreTypeOK, RestoreJobs, host
    <3>5. \A x \in RestoreJob : Due(x)' = Due(x) /\ Due(x) \in Nat
      BY <1>0, <2>1 DEF Due
    <3>6. \A x \in RestoreJob :
            /\ Due(x)' <= 1 + job'[x].stalled
            /\ job'[x].st \in {"none", "waiting"} => Due(x)' <= job'[x].stalled
      BY <1>0, <3>1, <3>3, <3>5 DEF RestoreInv, RestoreJobs
    <3> QED  BY <2>1, <3>4, <3>6 DEF RestoreInv
  <2>3. CASE ~(job[j].stalled < 1)
    <3> DEFINE r == [job[j] EXCEPT !.st = "failed"]
    <3>1. job' = [job EXCEPT ![j] = r]
      BY <1>7, <2>3 DEF moveStalledRestore
    <3>2. r \in RestoreJobs /\ r.stalled = job[j].stalled /\ r.st = "failed"
      BY <1>0 DEF RestoreJobs
    <3> HIDE DEF r
    <3> QED  BY <1>a, <2>1, <3>1, <3>2
  <2> QED  BY <2>2, <2>3
<1>8. CASE crashRestores
  <2>1. /\ running' = NoRun /\ job' = [j \in RestoreJob |-> [job[j] EXCEPT !.lock = FALSE]]
        /\ UNCHANGED <<restorable, restores>> /\ restorerUp' = FALSE
        /\ restoreCrashes' \in 0 .. MaxRestoreCrashes
    BY <1>8 DEF crashRestores, RestoreInv, RestoreTypeOK
  <2>2. \A j \in RestoreJob : /\ job'[j] \in RestoreJobs /\ job'[j].st = job[j].st
                              /\ job'[j].stalled = job[j].stalled
    BY <1>0, <2>1 DEF RestoreJobs
  <2>3. job' \in [RestoreJob -> RestoreJobs]
    BY <2>1, <2>2
  <2>4. NoRun.pc = "idle" /\ NoRun \in [job : RestoreJob \cup {NoJob},
                      pc : {"idle", "check", "restore", "completed", "failed"}]
    BY DEF NoRun
  <2>5. RestoreTypeOK'
    BY <2>1, <2>3, <2>4 DEF RestoreInv, RestoreTypeOK, RestoreJobs
  <2> QED  BY <2>1, <2>2, <2>3, <2>4, <2>5, RestoreCalm DEF RestoreInv
<1>9. CASE bootRestores \/ loseBackup \/ UNCHANGED restoreVars
  <2>1. UNCHANGED <<job, running, restores>> /\ RestoreTypeOK'
    BY <1>9 DEF bootRestores, loseBackup, restoreVars, RestoreInv, RestoreTypeOK, host
  <2> QED  BY <2>1 DEF RestoreInv, Due
<1> QED  BY <1>1, <1>2, <1>3, <1>4, <1>5, <1>6, <1>7, <1>8, <1>9 DEF RestoreNext, runRestore

LEMMA AgainFromInv == RestoreInv => AgainOnlyAfterStall
<1> SUFFICES ASSUME RestoreInv, NEW j \in RestoreJob PROVE restores[j] <= 1 + job[j].stalled
  BY DEF AgainOnlyAfterStall
<1>1. restores[j] <= Due(j) /\ Due(j) <= 1 + job[j].stalled /\ job[j].stalled \in 0 .. 1
      /\ restores[j] \in Nat
  BY DEF RestoreInv, RestoreTypeOK, Due
<1> QED  BY <1>1 DEF Due

-----------------------------------------------------------------------------
(* Progress: the outcome of a job stands, and the streams are counted.     *)

Live == {s \in Stream : streams[s].st # "none" /\ ~streams[s].cleaned}
StreamRows == [st : {"none", "subscribing", "open", "ended", "closed"}, cleaned : BOOLEAN,
               closing : 0 .. 1, limit : BOOLEAN, page : Page \cup {NoStream}]
PageRows == [row : Statuses, es : Stream \cup {NoStream}]
Attempts == {a \in [pc : {"waiting", "dump", "end", "told", "over"}, number : 0 .. BackupAttempts] :
                 a.pc = "dump" => a.number # 0}

ProgressTypes ==
    /\ shown \in [status : Statuses, progress : 0 .. 100] /\ ended \in Final \cup {"no"}
    /\ attempt \in Attempts
    /\ reports \in [next : 1 .. Len(Percents) + 1, last : 0 .. 100]
    /\ inFlight \subseteq Report
    /\ streams \in [Stream -> StreamRows] /\ activeSse \in 0 .. MaxSseConnections
    /\ pages \in [Page -> PageRows] /\ reloads \in 0 .. MaxReloads

\* A stream that nobody asked for has no timer, one that ended has been cleaned up.
StreamsInv ==
    /\ \A s \in Stream : /\ streams[s].st = "none" => streams[s] = Idle
                         /\ streams[s].st \in {"ended", "closed"} => streams[s].cleaned
    /\ IsFiniteSet(Live) /\ activeSse = Cardinality(Live)

ProgressInv == ProgressTypes /\ StreamsInv /\ EndStands

LEMMA IdleStream == Idle \in StreamRows /\ Idle.st = "none" /\ ~Idle.cleaned
  BY DEF Idle, StreamRows

LEMMA ProgressInvInit == ProgressInit => ProgressInv
<1> SUFFICES ASSUME ProgressInit PROVE ProgressInv
  OBVIOUS
<1> USE ProgressAssumption
<1>1. Len(Percents) + 1 \in Nat /\ 1 \in 1 .. Len(Percents) + 1
  <2>1. Len(Percents) \in Nat
    OBVIOUS
  <2> QED  BY <2>1
<1>2. ProgressTypes
  BY <1>1, IdleStream DEF ProgressInit, ProgressTypes, Statuses, Final, PageRows, Attempts
<1>3. Live = {}
  BY IdleStream DEF ProgressInit, Live
<1>4. StreamsInv
  BY <1>3, FS_EmptySet, IdleStream DEF ProgressInit, StreamsInv
<1> QED  BY <1>2, <1>4 DEF ProgressInv, EndStands, ProgressInit

\* The job and the pages go on, the streams live or not as before.
LEMMA SameLive ==
    ASSUME ProgressInv, ProgressTypes', EndStands', activeSse' = activeSse,
           \A s \in Stream : /\ streams'[s].st = streams[s].st
                             /\ streams'[s].cleaned = streams[s].cleaned
                             /\ streams'[s].st = "none" => streams'[s] = Idle
    PROVE  ProgressInv'
<1>1. Live' = Live
  BY DEF Live
<1> QED  BY <1>1 DEF ProgressInv, StreamsInv

\* One stream ends: it lived until then and is counted off, or it had been before.
LEMMA StreamEnds ==
    ASSUME ProgressInv, NEW s \in Stream, NEW r \in StreamRows,
           streams' = [streams EXCEPT ![s] = r], r.cleaned, r.st # "none",
           streams[s].st # "none", cleanup(s), UNCHANGED <<jobVars, pages, reloads>>
    PROVE  ProgressInv'
<1> USE ProgressAssumption
<1>1. \A x \in Stream : streams'[x] = IF x = s THEN r ELSE streams[x]
  BY DEF ProgressInv, ProgressTypes
<1>2. streams' \in [Stream -> StreamRows]
  BY <1>1 DEF ProgressInv, ProgressTypes
<1>3. CASE streams[s].cleaned
  <2>1. Live' = Live /\ activeSse' = activeSse
    BY <1>1, <1>3 DEF Live, cleanup
  <2>2. ProgressTypes' /\ EndStands'
    BY <1>2, <2>1 DEF ProgressInv, ProgressTypes, EndStands, jobVars
  <2> QED  BY <1>1, <2>1, <2>2 DEF ProgressInv, StreamsInv
<1>4. CASE ~streams[s].cleaned
  <2>1. Live' = Live \ {s} /\ s \in Live /\ activeSse' = activeSse - 1
    BY <1>1, <1>4 DEF Live, cleanup
  <2>2. /\ IsFiniteSet(Live') /\ Cardinality(Live') = activeSse - 1
        /\ Cardinality(Live') \in Nat
    BY <2>1, FS_RemoveElement, FS_CardinalityType DEF ProgressInv, StreamsInv
  <2>3. activeSse' \in 0 .. MaxSseConnections
    BY <2>1, <2>2 DEF ProgressInv, ProgressTypes
  <2>4. ProgressTypes' /\ EndStands'
    BY <1>2, <2>3 DEF ProgressInv, ProgressTypes, EndStands, jobVars
  <2> QED  BY <1>1, <2>1, <2>2, <2>4 DEF ProgressInv, StreamsInv
<1> QED  BY <1>3, <1>4

LEMMA Forwards ==
    ASSUME ProgressInv, NEW closes
    PROVE  /\ Forwarded(closes) \in [Stream -> StreamRows]
           /\ \A s \in Stream : /\ Forwarded(closes)[s].st = streams[s].st
                                /\ Forwarded(closes)[s].cleaned = streams[s].cleaned
                                /\ Forwarded(closes)[s].st = "none" => Forwarded(closes)[s] = Idle
<1>1. ASSUME NEW s \in Stream
      PROVE  /\ Forwarded(closes)[s] \in StreamRows
             /\ Forwarded(closes)[s].st = streams[s].st
             /\ Forwarded(closes)[s].cleaned = streams[s].cleaned
             /\ Forwarded(closes)[s].st = "none" => Forwarded(closes)[s] = Idle
  <2>1. Forwarded(closes)[s] = IF streams[s].st = "open" /\ closes
                               THEN [streams[s] EXCEPT !.closing = 1] ELSE streams[s]
    BY DEF Forwarded
  <2>2. streams[s] \in StreamRows /\ 1 \in 0 .. 1 /\ (streams[s].st = "none" => streams[s] = Idle)
    BY DEF ProgressInv, ProgressTypes, StreamsInv
  <2> QED  BY <2>1, <2>2 DEF StreamRows
<1> QED  BY <1>1 DEF Forwarded

LEMMA AttemptsAre ==
    /\ \A a \in Attempts, pc \in {"end", "told", "over"} : [a EXCEPT !.pc = pc] \in Attempts
    /\ \A n \in 0 .. BackupAttempts : Tried(n) \in Attempts
    /\ \A n \in 1 .. BackupAttempts : Running(n) \in Attempts
  BY ProgressAssumption DEF Attempts, Tried, Running

\* Whatever the worker does leaves the streams counted, and an end stands.
LEMMA JobStep ==
    ASSUME ProgressInv,
           \/ startJob \/ onProgress \/ publishEndOfJob \/ throwAgain
           \/ \E status \in Final : writeEndOfJob(status)
           \/ \E r \in inFlight : writeProgress(r) \/ publishReport(r)
    PROVE  ProgressInv'
<1> USE ProgressAssumption
<1>0. /\ shown \in [status : Statuses, progress : 0 .. 100] /\ ended \in Final \cup {"no"}
      /\ attempt \in Attempts /\ attempt.number \in 0 .. BackupAttempts
      /\ inFlight \subseteq Report
      /\ reports \in [next : 1 .. Len(Percents) + 1, last : 0 .. 100]
      /\ pages \in [Page -> PageRows] /\ streams \in [Stream -> StreamRows]
      /\ activeSse \in 0 .. MaxSseConnections /\ reloads \in 0 .. MaxReloads
      /\ Len(Percents) \in Nat
  <2>1. Len(Percents) \in Nat
    OBVIOUS
  <2> QED  BY <2>1 DEF ProgressInv, ProgressTypes, Attempts
<1>1. ASSUME UNCHANGED sseVars, ProgressTypes', EndStands' PROVE ProgressInv'
  BY <1>1, SameLive DEF sseVars, ProgressInv, StreamsInv
<1>2. CASE startJob
  <2>1. attempt.number + 1 \in 1 .. BackupAttempts /\ 1 \in 1 .. Len(Percents) + 1
        /\ UNCHANGED <<inFlight, sseVars, pages, reloads>>
    BY <1>0, <1>2 DEF startJob, streamsStay
  <2>2. CASE /\ attempt' = Running(attempt.number + 1)
             /\ shown' = [status |-> "RUNNING", progress |-> 0] /\ ended' = "no"
             /\ reports' = [next |-> 1, last |-> 0]
    <3>1. ProgressTypes' /\ EndStands'
      BY <1>0, <2>1, <2>2, AttemptsAre DEF sseVars, ProgressTypes, EndStands, Statuses, Final
    <3> QED  BY <1>1, <2>1, <3>1
  <2>3. CASE attempt' = Tried(attempt.number + 1) /\ UNCHANGED <<shown, ended, reports>>
    <3>1. ProgressTypes' /\ EndStands'
      BY <1>0, <2>1, <2>3, AttemptsAre DEF sseVars, ProgressInv, ProgressTypes, EndStands
    <3> QED  BY <1>1, <2>1, <3>1
  <2> QED  BY <1>2, <2>2, <2>3 DEF startJob
<1>3. CASE onProgress
  <2>1. attempt.pc = "dump" /\ reports.next <= Len(Percents)
        /\ UNCHANGED <<shown, attempt, ended, sseVars, pages, reloads>>
    BY <1>3 DEF onProgress, streamsStay
  <2>2. reports.next \in 1 .. Len(Percents) /\ reports.next + 1 \in 1 .. Len(Percents) + 1
    BY <1>0, <2>1
  <2>3. Percents[reports.next] \in 1 .. 100
    <3>1. ASSUME NEW S, NEW q \in Seq(S), NEW i \in 1 .. Len(q) PROVE q[i] \in S
      OBVIOUS
    <3> QED  BY <2>2, <3>1
  <2> DEFINE pct == Percents[reports.next]
             told == [of |-> attempt.number, pct |-> pct, at |-> "write"]
  <2>4. \/ reports' = [reports EXCEPT !.next = @ + 1] /\ inFlight' = inFlight
        \/ /\ reports' = [reports EXCEPT !.next = @ + 1, !.last = pct]
           /\ inFlight' = inFlight \cup {told}
    BY <1>3 DEF onProgress
  <2>5. pct \in 1 .. 100 /\ pct \in 0 .. 100 /\ told \in Report
    <3>1. attempt.number \in 1 .. BackupAttempts
      BY <1>0, <2>1 DEF Attempts
    <3> QED  BY <2>3, <3>1 DEF Report
  <2> HIDE DEF pct, told
  <2>6. reports' \in [next : 1 .. Len(Percents) + 1, last : 0 .. 100]
    <3> DEFINE n == reports.next + 1
    <3>1. n \in 1 .. Len(Percents) + 1
      BY <2>2
    <3>2. reports' = [reports EXCEPT !.next = n]
          \/ reports' = [reports EXCEPT !.next = n, !.last = pct]
      BY <2>4
    <3> HIDE DEF n
    <3> DEFINE Up == 1 .. Len(Percents) + 1
    <3>3. n \in Up /\ reports \in [next : Up, last : 0 .. 100]
      BY <1>0, <3>1
    <3> HIDE DEF Up
    <3>4. reports' \in [next : Up, last : 0 .. 100]
      <4>1. CASE reports' = [reports EXCEPT !.next = n]
        BY <3>3, <4>1
      <4>2. CASE reports' = [reports EXCEPT !.next = n, !.last = pct]
        BY <2>5, <3>3, <4>2
      <4> QED  BY <3>2, <4>1, <4>2
    <3> QED  BY <3>4 DEF Up
  <2>7. inFlight' \subseteq Report
    BY <1>0, <2>4, <2>5
  <2>8. ProgressTypes' /\ EndStands'
    BY <2>1, <2>6, <2>7 DEF sseVars, ProgressInv, ProgressTypes, EndStands
  <2> QED  BY <1>1, <2>1, <2>8
<1>4. CASE publishEndOfJob
  <2>1. /\ streams' = Forwarded(TRUE)
        /\ UNCHANGED <<shown, ended, reports, inFlight, activeSse, pages, reloads>>
    BY <1>4 DEF publishEndOfJob
  <2>2. attempt' \in Attempts
    <3>1. \/ attempt' = Tried(attempt.number)
          \/ \E pc \in {"told", "over"} : attempt' = [attempt EXCEPT !.pc = pc]
      BY <1>4 DEF publishEndOfJob
    <3>2. ASSUME NEW pc \in {"told", "over"}, attempt' = [attempt EXCEPT !.pc = pc]
          PROVE  attempt' \in Attempts
      BY <1>0, <3>2, AttemptsAre
    <3>3. ASSUME attempt' = Tried(attempt.number) PROVE attempt' \in Attempts
      BY <1>0, <3>3, AttemptsAre
    <3> QED  BY <3>1, <3>2, <3>3
  <2>3. ProgressTypes' /\ EndStands'
    BY <2>1, <2>2, Forwards DEF ProgressInv, ProgressTypes, EndStands
  <2> QED  BY <2>1, <2>3, SameLive, Forwards
<1>5. ASSUME NEW status \in Final, writeEndOfJob(status) PROVE ProgressInv'
  <2>1. shown' \in [status : Statuses, progress : 0 .. 100] /\ shown'.status = status
    BY <1>0, <1>5 DEF writeEndOfJob, Statuses
  <2>2. ended' = status /\ UNCHANGED <<reports, inFlight, sseVars, pages, reloads>>
        /\ attempt' = [attempt EXCEPT !.pc = "end"]
    BY <1>5 DEF writeEndOfJob, streamsStay
  <2>3. attempt' \in Attempts
    BY <1>0, <2>2, AttemptsAre
  <2>4. ProgressTypes' /\ EndStands'
    BY <2>1, <2>2, <2>3 DEF ProgressInv, ProgressTypes, EndStands, sseVars
  <2> QED  BY <1>1, <2>2, <2>4
<1>6. ASSUME NEW r \in inFlight, writeProgress(r) PROVE ProgressInv'
  <2>1. /\ shown' = [shown EXCEPT !.progress = r.pct] /\ r \in Report
        /\ inFlight' = (inFlight \ {r}) \cup {[r EXCEPT !.at = "publish"]}
        /\ UNCHANGED <<attempt, ended, reports, sseVars, pages, reloads>>
    BY <1>0, <1>6 DEF writeProgress, streamsStay
  <2>2. shown' \in [status : Statuses, progress : 0 .. 100] /\ shown'.status = shown.status
    BY <1>0, <2>1 DEF Report
  <2>3. inFlight' \subseteq Report
    <3>1. [r EXCEPT !.at = "publish"] \in Report
      BY <2>1 DEF Report
    <3> QED  BY <1>0, <2>1, <3>1
  <2>4. ProgressTypes' /\ EndStands'
    BY <2>1, <2>2, <2>3 DEF ProgressInv, ProgressTypes, EndStands, sseVars
  <2> QED  BY <1>1, <2>1, <2>4
<1>7. ASSUME NEW r \in inFlight, publishReport(r) PROVE ProgressInv'
  <2>1. /\ streams' = Forwarded(r.pct = 100) /\ inFlight' = inFlight \ {r}
        /\ UNCHANGED <<shown, attempt, ended, reports, activeSse, pages, reloads>>
    BY <1>7 DEF publishReport
  <2>2. ProgressTypes' /\ EndStands'
    BY <1>0, <2>1, Forwards DEF ProgressInv, ProgressTypes, EndStands
  <2> QED  BY <2>1, <2>2, SameLive, Forwards
<1>8. CASE throwAgain
  <2>1. /\ attempt' = Tried(attempt.number)
        /\ UNCHANGED <<shown, ended, reports, inFlight, sseVars, pages, reloads>>
    BY <1>8 DEF throwAgain, streamsStay
  <2>2. ProgressTypes' /\ EndStands'
    BY <1>0, <2>1, AttemptsAre DEF sseVars, ProgressInv, ProgressTypes, EndStands
  <2> QED  BY <1>1, <2>1, <2>2
<1> QED  BY <1>2, <1>3, <1>4, <1>5, <1>6, <1>7, <1>8

LEMMA ProgressInvStep == ProgressInv /\ [ProgressNext]_progressVars => ProgressInv'
<1> SUFFICES ASSUME ProgressInv, [ProgressNext]_progressVars PROVE ProgressInv'
  OBVIOUS
<1> USE ProgressAssumption
<1>0. /\ pages \in [Page -> PageRows] /\ streams \in [Stream -> StreamRows]
      /\ activeSse \in 0 .. MaxSseConnections /\ reloads \in 0 .. MaxReloads
  BY DEF ProgressInv, ProgressTypes
<1>1. ASSUME UNCHANGED <<jobVars, sseVars>>, pages' \in [Page -> PageRows],
             reloads' \in 0 .. MaxReloads
      PROVE  ProgressInv'
  <2>1. ProgressTypes' /\ EndStands'
    BY <1>1 DEF jobVars, sseVars, ProgressInv, ProgressTypes, EndStands
  <2> QED  BY <1>1, <2>1, SameLive DEF sseVars, ProgressInv, StreamsInv
<1>2. ASSUME NEW p \in Page, poll(p) PROVE ProgressInv'
  <2>1. shown.status \in Statuses
    BY DEF ProgressInv, ProgressTypes
  <2>2. pages' \in [Page -> PageRows]
    BY <1>0, <1>2, <2>1 DEF poll, Fetched, PageRows
  <2> QED  BY <1>0, <1>1, <1>2, <2>2 DEF poll
<1>3. ASSUME NEW p \in Page, reconnect(p) PROVE ProgressInv'
  <2>0. shown.status \in Statuses
    BY DEF ProgressInv, ProgressTypes
  <2>1. pages' \in [Page -> PageRows] /\ reloads' \in 0 .. MaxReloads
    BY <1>0, <1>3, <2>0 DEF reconnect, PageRows
  <2> QED  BY <1>1, <1>3, <2>1 DEF reconnect
<1>4. ASSUME NEW p \in Page, NEW s \in Stream, streamSSE(p, s) PROVE ProgressInv'
  <2> DEFINE r == [Idle EXCEPT !.st = "subscribing", !.limit = TRUE, !.page = p]
  <2>1. r \in StreamRows /\ r.st = "subscribing" /\ ~r.cleaned
    BY IdleStream DEF StreamRows, Idle
  <2>2. /\ streams[s] = Idle /\ activeSse < MaxSseConnections
        /\ streams' = [streams EXCEPT ![s] = r] /\ activeSse' = activeSse + 1
        /\ pages' = [pages EXCEPT ![p].es = s] /\ UNCHANGED <<jobVars, reloads>>
    BY <1>4 DEF streamSSE
  <2> HIDE DEF r
  <2>3. \A x \in Stream : streams'[x] = IF x = s THEN r ELSE streams[x]
    BY <1>0, <2>2
  <2>4. Live' = Live \cup {s} /\ s \notin Live
    BY <2>1, <2>2, <2>3, IdleStream DEF Live
  <2>5. IsFiniteSet(Live') /\ Cardinality(Live') = activeSse + 1
    BY <2>4, FS_AddElement DEF ProgressInv, StreamsInv
  <2>6. StreamsInv'
    BY <2>1, <2>2, <2>3, <2>5 DEF ProgressInv, StreamsInv
  <2>7. pages' \in [Page -> PageRows] /\ streams' \in [Stream -> StreamRows]
        /\ activeSse' \in 0 .. MaxSseConnections
    BY <1>0, <2>1, <2>2 DEF PageRows
  <2>8. ProgressTypes' /\ EndStands'
    BY <2>2, <2>7 DEF ProgressInv, ProgressTypes, EndStands, jobVars
  <2> QED  BY <2>6, <2>8 DEF ProgressInv
<1>5. ASSUME NEW s \in Stream, subscribed(s) PROVE ProgressInv'
  <2>1. streams[s].st = "subscribing" /\ ~streams[s].cleaned
        /\ UNCHANGED <<jobVars, pages, reloads>>
    BY <1>5 DEF subscribed
  <2>2. CASE streams' = [streams EXCEPT ![s].st = "open"] /\ UNCHANGED activeSse
    <3> DEFINE r == [streams[s] EXCEPT !.st = "open"]
    <3>1. r \in StreamRows /\ r.st = "open" /\ r.cleaned = streams[s].cleaned
      BY <1>0 DEF StreamRows
    <3>2. streams' = [streams EXCEPT ![s] = r]
      BY <2>2
    <3> HIDE DEF r
    <3>3. \A x \in Stream : streams'[x] = IF x = s THEN r ELSE streams[x]
      BY <1>0, <3>2
    <3>4. streams' \in [Stream -> StreamRows]
      BY <1>0, <3>1, <3>2
    <3>5. ProgressTypes' /\ EndStands'
      BY <2>1, <2>2, <3>4 DEF ProgressInv, ProgressTypes, EndStands, jobVars
    <3>6. Live' = Live
      BY <2>1, <3>1, <3>3 DEF Live
    <3> QED  BY <2>2, <3>1, <3>3, <3>5, <3>6 DEF ProgressInv, StreamsInv
  <2>3. CASE streams' = [streams EXCEPT ![s].st = "ended", ![s].cleaned = TRUE] /\ cleanup(s)
    <3> DEFINE r == [streams[s] EXCEPT !.st = "ended", !.cleaned = TRUE]
    <3>0. streams[s] \in StreamRows
      BY <1>0
    <3>1. r \in StreamRows /\ r.st # "none" /\ r.cleaned
      BY <3>0 DEF StreamRows
    <3>2. streams' = [streams EXCEPT ![s] = r]
      BY <1>0, <2>3
    <3> HIDE DEF r
    <3> QED  BY <2>1, <2>3, <3>1, <3>2, StreamEnds
  <2> QED  BY <1>5, <2>2, <2>3 DEF subscribed
<1>6. ASSUME NEW s \in Stream, closeTimer(s) PROVE ProgressInv'
  <2>1. streams[s].st # "none" /\ cleanup(s) /\ UNCHANGED <<jobVars, pages, reloads>>
    BY <1>6 DEF closeTimer, ProgressInv, StreamsInv, Idle
  <2> DEFINE st == IF streams[s].st = "closed" THEN "closed" ELSE "ended"
             a == [streams[s] EXCEPT !.st = st, !.cleaned = TRUE, !.closing = 0]
             b == [streams[s] EXCEPT !.st = st, !.cleaned = TRUE, !.limit = FALSE]
  <2>2. st \in {"closed", "ended"}
    OBVIOUS
  <2>3. /\ a \in StreamRows /\ a.st = st /\ a.cleaned
        /\ b \in StreamRows /\ b.st = st /\ b.cleaned
    <3>1. streams[s] \in StreamRows /\ 0 \in 0 .. 1
          /\ st \in {"none", "subscribing", "open", "ended", "closed"}
      BY <1>0, <2>2
    <3> HIDE DEF st
    <3> QED  BY <3>1 DEF StreamRows
  <2>4. streams' = [streams EXCEPT ![s] = a] \/ streams' = [streams EXCEPT ![s] = b]
    <3>1. \/ streams' = [streams EXCEPT ![s].st = IF @ = "closed" THEN @ ELSE "ended",
                                        ![s].cleaned = TRUE, ![s].closing = 0]
          \/ streams' = [streams EXCEPT ![s].st = IF @ = "closed" THEN @ ELSE "ended",
                                        ![s].cleaned = TRUE, ![s].limit = FALSE]
      BY <1>6 DEF closeTimer
    <3> QED  BY <1>0, <3>1
  <2> HIDE DEF a, b, st
  <2> QED  BY <2>1, <2>2, <2>3, <2>4, StreamEnds
<1>7. ASSUME NEW s \in Stream, closeStream(s) PROVE ProgressInv'
  <2>1. streams[s].st # "none" /\ cleanup(s) /\ UNCHANGED <<jobVars, pages, reloads>>
    BY <1>7 DEF closeStream
  <2> DEFINE r == [streams[s] EXCEPT !.st = "closed", !.cleaned = TRUE, !.limit = FALSE]
  <2>a. streams[s] \in StreamRows
    BY <1>0
  <2>2. r \in StreamRows /\ r.st # "none" /\ r.cleaned
    BY <2>a DEF StreamRows
  <2>3. streams' = [streams EXCEPT ![s] = r]
    BY <1>0, <1>7 DEF closeStream
  <2> HIDE DEF r
  <2> QED  BY <2>1, <2>2, <2>3, StreamEnds
<1>8. ASSUME NEW s \in Stream, forget(s) PROVE ProgressInv'
  <2>1. /\ streams[s].st = "closed" /\ streams' = [streams EXCEPT ![s] = Idle]
        /\ streams[s].cleaned /\ UNCHANGED <<jobVars, activeSse, pages, reloads>>
    BY <1>8 DEF forget, ProgressInv, StreamsInv
  <2>2. \A x \in Stream : streams'[x] = IF x = s THEN Idle ELSE streams[x]
    BY <1>0, <2>1
  <2>3. Live' = Live
    BY <2>1, <2>2, IdleStream DEF Live
  <2>4. streams' \in [Stream -> StreamRows]
    BY <1>0, <2>1, IdleStream
  <2>5. ProgressTypes' /\ EndStands'
    BY <2>1, <2>4 DEF ProgressInv, ProgressTypes, EndStands, jobVars
  <2>6. StreamsInv'
    <3>1. \A x \in Stream : /\ streams'[x].st = "none" => streams'[x] = Idle
                            /\ streams'[x].st \in {"ended", "closed"} => streams'[x].cleaned
      BY <2>2, IdleStream DEF ProgressInv, StreamsInv
    <3> QED  BY <2>1, <2>3, <3>1 DEF ProgressInv, StreamsInv
  <2> QED  BY <2>5, <2>6 DEF ProgressInv
<1>9. CASE UNCHANGED progressVars
  <2>1. /\ UNCHANGED <<streams, activeSse, pages, reloads>> /\ UNCHANGED jobVars
    BY <1>9 DEF progressVars, jobVars
  <2>2. ProgressTypes' /\ EndStands'
    BY <2>1 DEF ProgressInv, ProgressTypes, EndStands, jobVars
  <2>3. StreamsInv'
    BY <2>1 DEF ProgressInv, StreamsInv, Live
  <2> QED  BY <2>2, <2>3 DEF ProgressInv
<1> QED  BY <1>2, <1>3, <1>4, <1>5, <1>6, <1>7, <1>8, <1>9, JobStep DEF ProgressNext

LEMMA CountFromInv == ProgressInv => StreamsAreCounted /\ EndStands
  BY DEF ProgressInv, StreamsInv, StreamsAreCounted, Live

-----------------------------------------------------------------------------
(* Schedules: row and entry agree, and a firing makes one backup.          *)

EditRows == [pc : {"idle", "insert", "write", "disarm", "arm", "remove"},
             change : Change \cup {"none"}, row : ScheduleRow, alone : BOOLEAN]
FiringRows == [state : {"none", "waiting", "active", "completed", "failed"},
               fails : 0 .. SchedAttempts, stalls : Nat]
Runs == [pc : {"idle", "read", "create", "queue", "stamp"}, job : Firing \cup {"none"}]

ScheduleTypes ==
    /\ schedule \in ScheduleRow /\ scheduleConn \in BOOLEAN
    /\ entry \in [cron : Cron \cup {"none"}, due : BOOLEAN]
    /\ edit \in [SchedReq -> EditRows] /\ upset \in BOOLEAN
    /\ edits \in 0 .. MaxSchedEdits /\ schedFaults \in 0 .. MaxSchedFaults

\* What the entry is when it is right.
EntryDue == IF schedule.active THEN schedule.cron ELSE "none"
Right == scheduleConn => entry.cron = EntryDue

\* A request that is alone knows what row and entry hold between its writes; one that is
\* not has company or had it, and the two are upset.
Alone(q) ==
    /\ \A p \in SchedReq \ {q} : edit[p].pc = "idle"
    /\ edit[q].pc \in {"insert", "write"} => (~upset => Right)
    /\ edit[q].pc = "disarm" =>
           IF edit[q].change = "delete" THEN ~upset => Right
           ELSE scheduleConn => schedule = edit[q].row
    /\ edit[q].pc = "arm" => edit[q].row.active /\ (scheduleConn => schedule = edit[q].row)
    /\ edit[q].pc = "remove" => entry.cron = "none"

EditsInv ==
    /\ ScheduleTypes
    /\ schedule.state # "there" => ~schedule.active
    /\ \A q \in SchedReq :
           /\ edit[q].pc = "insert" => /\ edit[q].change \in Cron /\ schedule.state = "absent"
                                       /\ \A p \in SchedReq : edit[p].pc = "insert" => p = q
           /\ edit[q].pc = "write" => edit[q].change \in Change \ {"delete"}
           /\ edit[q].pc # "idle" => IF edit[q].alone THEN Alone(q) ELSE upset
    /\ (\A q \in SchedReq : edit[q].pc = "idle") /\ ~upset => Right

LEMMA ScheduleNames ==
    /\ NoSchedule \in ScheduleRow /\ NoEdit \in EditRows /\ NoEdit.pc = "idle"
    /\ NoSchedule.state = "absent" /\ ~NoSchedule.active
    /\ [NoSchedule EXCEPT !.state = "deleted"] \in ScheduleRow
    /\ ~[NoSchedule EXCEPT !.state = "deleted"].active
    /\ [NoSchedule EXCEPT !.state = "deleted"].state = "deleted"
    /\ NoEntry \in [cron : Cron \cup {"none"}, due : BOOLEAN] /\ NoEntry.cron = "none"
  BY DEF NoSchedule, ScheduleRow, NoEdit, EditRows, NoEntry

LEMMA EditsInvInit == SchedulesInit => EditsInv
<1> SUFFICES ASSUME SchedulesInit PROVE EditsInv
  OBVIOUS
<1>1. 0 \in 0 .. MaxSchedEdits /\ 0 \in 0 .. MaxSchedFaults
  BY SchedulesAssumption
<1>2. /\ schedule = NoSchedule /\ entry = NoEntry /\ edit = [q \in SchedReq |-> NoEdit]
      /\ scheduleConn = TRUE /\ upset = FALSE /\ edits = 0 /\ schedFaults = 0
  BY DEF SchedulesInit
<1>3. ScheduleTypes
  BY <1>1, <1>2, ScheduleNames DEF ScheduleTypes
<1>4. Right /\ \A q \in SchedReq : edit[q].pc = "idle"
  BY <1>2, ScheduleNames DEF Right, EntryDue
<1> QED  BY <1>2, <1>3, <1>4, ScheduleNames DEF EditsInv

\* A request begins: the others are no longer alone.
LEMMA BeginStep ==
    ASSUME EditsInv, NEW q \in SchedReq, NEW pc, NEW change, begin(q, pc, change),
           \/ pc = "insert" /\ change \in Cron /\ schedule.state = "absent"
              /\ \A p \in SchedReq : edit[p].pc # "insert"
           \/ pc = "write" /\ change \in Change \ {"delete"}
           \/ pc = "disarm" /\ change = "delete"
    PROVE  EditsInv'
<1> USE SchedulesAssumption
<1> DEFINE busy == \E p \in SchedReq : edit[p].pc # "idle"
           n == [NoEdit EXCEPT !.pc = pc, !.change = change, !.alone = ~busy]
           other(p) == [edit[p] EXCEPT !.alone = FALSE]
<1>0. edit \in [SchedReq -> EditRows]
  BY DEF EditsInv, ScheduleTypes
<1>1. /\ edit[q].pc = "idle" /\ edits < MaxSchedEdits /\ edits' = edits + 1
      /\ edit' = [p \in SchedReq |-> IF p = q THEN n ELSE other(p)]
      /\ upset' = (upset \/ busy)
      /\ UNCHANGED <<schedule, scheduleConn, entry, firings, schedFaults>>
  BY DEF begin
<1>2. change \in Change /\ busy \in BOOLEAN /\ pc \in {"insert", "write", "disarm"}
  BY DEF Change
<1>3. n \in EditRows /\ n.pc = pc /\ n.change = change /\ n.alone = ~busy
  BY <1>2, ScheduleNames DEF EditRows, NoEdit
<1>4. \A p \in SchedReq : /\ other(p) \in EditRows /\ other(p).pc = edit[p].pc
                          /\ other(p).change = edit[p].change /\ ~other(p).alone
  BY <1>0 DEF EditRows
<1>5. /\ edit'[q].pc = pc /\ edit'[q].change = change /\ edit'[q].alone = ~busy
      /\ \A p \in SchedReq \ {q} : /\ edit'[p].pc = edit[p].pc /\ ~edit'[p].alone
                                   /\ edit'[p].change = edit[p].change
      /\ edit' \in [SchedReq -> EditRows]
  BY <1>1, <1>3, <1>4
<1> HIDE DEF n, other
<1>6. ScheduleTypes'
  BY <1>1, <1>2, <1>5 DEF EditsInv, ScheduleTypes
<1>7. Right' = Right
  BY <1>1 DEF Right, EntryDue
<1>8. \A p \in SchedReq :
           /\ edit'[p].pc = "insert" => /\ edit'[p].change \in Cron /\ schedule'.state = "absent"
                                        /\ \A r \in SchedReq : edit'[r].pc = "insert" => r = p
           /\ edit'[p].pc = "write" => edit'[p].change \in Change \ {"delete"}
  BY <1>1, <1>5 DEF EditsInv
<1>9. CASE busy
  <2>1. upset' = TRUE /\ \A p \in SchedReq : ~edit'[p].alone
    BY <1>1, <1>5, <1>9
  <2> QED  BY <1>1, <1>6, <1>8, <2>1 DEF EditsInv
<1>10. CASE ~busy
  <2>1. /\ \A p \in SchedReq \ {q} : edit'[p].pc = "idle"
        /\ ~upset' => Right
    BY <1>1, <1>5, <1>10 DEF EditsInv
  <2>2. Alone(q)'
    BY <1>2, <1>5, <1>7, <2>1 DEF Alone
  <2> QED  BY <1>1, <1>2, <1>5, <1>6, <1>8, <1>10, <2>1, <2>2 DEF EditsInv
<1> QED  BY <1>9, <1>10

\* A request goes further.  If it is alone, what it knows is shown; if not, upset stays.
LEMMA FurtherStep ==
    ASSUME EditsInv, NEW q \in SchedReq, edit[q].pc # "idle", NEW r \in EditRows,
           edit' = [edit EXCEPT ![q] = r], r.pc \in {"disarm", "arm", "remove"},
           r.alone = edit[q].alone, UNCHANGED <<upset, scheduleConn, edits, schedFaults>>,
           schedule' \in ScheduleRow, entry' \in [cron : Cron \cup {"none"}, due : BOOLEAN],
           schedule'.state # "there" => ~schedule'.active,
           schedule'.state # "absent" \/ schedule'.state = schedule.state,
           edit[q].pc = "insert" \/ schedule'.state = schedule.state,
           Alone(q) => Alone(q)'
    PROVE  EditsInv'
<1>1. \A p \in SchedReq : edit'[p] = IF p = q THEN r ELSE edit[p]
  BY DEF EditsInv, ScheduleTypes
<1>2. ScheduleTypes'
  <2>1. edit' \in [SchedReq -> EditRows]
    BY DEF EditsInv, ScheduleTypes
  <2> QED  BY <2>1 DEF EditsInv, ScheduleTypes
<1>3. \A p \in SchedReq :
           /\ edit'[p].pc = "insert" => /\ edit'[p].change \in Cron /\ schedule'.state = "absent"
                                        /\ \A x \in SchedReq : edit'[x].pc = "insert" => x = p
           /\ edit'[p].pc = "write" => edit'[p].change \in Change \ {"delete"}
  BY <1>1 DEF EditsInv
<1>4. CASE edit[q].alone
  <2>1. Alone(q)' /\ \A p \in SchedReq \ {q} : edit'[p].pc = "idle"
    BY <1>1, <1>4 DEF EditsInv, Alone
  <2>2. edit'[q].alone /\ edit'[q].pc # "idle"
    BY <1>1, <1>4
  <2>3. \A p \in SchedReq :
            edit'[p].pc # "idle" => IF edit'[p].alone THEN Alone(p)' ELSE upset'
    BY <2>1, <2>2
  <2>4. schedule'.state # "there" => ~schedule'.active
    OBVIOUS
  <2> QED  BY <1>2, <1>3, <2>2, <2>3, <2>4 DEF EditsInv
<1>5. CASE ~edit[q].alone
  <2>1. upset'
    BY <1>5 DEF EditsInv
  <2>2. \A p \in SchedReq : edit'[p].pc # "idle" => ~edit'[p].alone
    <3> SUFFICES ASSUME NEW p \in SchedReq, edit'[p].pc # "idle", edit'[p].alone PROVE FALSE
      OBVIOUS
    <3>1. p # q /\ edit[p].pc # "idle" /\ edit[p].alone
      BY <1>1, <1>5
    <3>2. Alone(p)
      BY <3>1 DEF EditsInv
    <3> QED  BY <3>1, <3>2 DEF Alone
  <2> QED  BY <1>2, <1>3, <2>1, <2>2 DEF EditsInv
<1> QED  BY <1>4, <1>5 DEF EditsInv, ScheduleTypes, EditRows

\* A request ends and has set row and entry right, or refuses and has left them.
LEMMA EndStep ==
    ASSUME EditsInv, NEW q \in SchedReq, edit[q].pc # "idle",
           edit' = [edit EXCEPT ![q] = NoEdit], UNCHANGED <<scheduleConn, edits, schedFaults>>,
           schedule' \in ScheduleRow, entry' \in [cron : Cron \cup {"none"}, due : BOOLEAN],
           schedule'.state # "there" => ~schedule'.active,
           schedule'.state = "absent" <=> schedule.state = "absent",
           \/ upset' = (upset /\ ~edit[q].alone) /\ (edit[q].alone => Right')
           \/ upset' = upset /\ (edit[q].alone /\ ~upset => Right')
    PROVE  EditsInv'
<1>1. \A p \in SchedReq : edit'[p] = IF p = q THEN NoEdit ELSE edit[p]
  BY DEF EditsInv, ScheduleTypes
<1>2. ScheduleTypes'
  <2>1. edit' \in [SchedReq -> EditRows] /\ upset' \in BOOLEAN
    BY ScheduleNames DEF EditsInv, ScheduleTypes
  <2> QED  BY <2>1 DEF EditsInv, ScheduleTypes
<1>3. \A p \in SchedReq :
           /\ edit'[p].pc = "insert" => /\ edit'[p].change \in Cron /\ schedule'.state = "absent"
                                        /\ \A x \in SchedReq : edit'[x].pc = "insert" => x = p
           /\ edit'[p].pc = "write" => edit'[p].change \in Change \ {"delete"}
  BY <1>1, ScheduleNames DEF EditsInv
<1>4. CASE edit[q].alone
  <2>1. \A p \in SchedReq : edit'[p].pc = "idle"
    BY <1>1, <1>4, ScheduleNames DEF EditsInv, Alone
  <2>2. ~upset' => Right'
    BY <1>4
  <2> QED  BY <1>2, <1>3, <2>1, <2>2 DEF EditsInv
<1>5. CASE ~edit[q].alone
  <2>0. upset
    BY <1>5 DEF EditsInv
  <2>1. upset'
    <3>1. CASE upset' = upset
      BY <2>0, <3>1
    <3>2. CASE upset' = (upset /\ ~edit[q].alone)
      BY <1>5, <2>0, <3>2
    <3> QED  BY <3>1, <3>2
  <2>2. \A p \in SchedReq : edit'[p].pc # "idle" => ~edit'[p].alone
    <3> SUFFICES ASSUME NEW p \in SchedReq, edit'[p].pc # "idle", edit'[p].alone PROVE FALSE
      OBVIOUS
    <3>1. p # q /\ edit[p].pc # "idle" /\ edit[p].alone
      BY <1>1, ScheduleNames
    <3>2. Alone(p)
      BY <3>1 DEF EditsInv
    <3> QED  BY <3>1, <3>2 DEF Alone
  <2> QED  BY <1>2, <1>3, <2>1, <2>2 DEF EditsInv
<1> QED  BY <1>4, <1>5 DEF EditsInv, ScheduleTypes, EditRows

LEMMA RequestStep ==
    ASSUME EditsInv, NEW q \in SchedReq, scheduleRequest(q)
    PROVE  EditsInv'
<1> USE SchedulesAssumption
<1>0. /\ edit \in [SchedReq -> EditRows] /\ edit[q] \in EditRows /\ schedule \in ScheduleRow
      /\ entry \in [cron : Cron \cup {"none"}, due : BOOLEAN]
  BY DEF EditsInv, ScheduleTypes
<1>1. CASE createSchedule(q)
  <2>1. CASE /\ schedule.state = "absent" /\ \A p \in SchedReq : edit[p].pc # "insert"
             /\ \E c \in Cron : begin(q, "insert", c)
    BY <2>1, BeginStep
  <2>2. ASSUME edit[q].pc = "insert", ~scheduleConn PROVE EditsInv'
    <3>1. /\ edit' = [edit EXCEPT ![q] = NoEdit]
          /\ UNCHANGED <<upset, schedule, entry, scheduleConn, edits, schedFaults>>
      BY <1>1, <2>1, <2>2, BeginStep DEF createSchedule, begin, refused, unrelated
    <3>2. Right'
      BY <2>2, <3>1 DEF Right
    <3> QED  BY <1>0, <2>2, <3>1, <3>2, EndStep DEF EditsInv
  <2>3. ASSUME edit[q].pc = "insert", scheduleConn PROVE EditsInv'
    <3> DEFINE row == [state |-> "there", active |-> TRUE, cron |-> edit[q].change]
               r == [edit[q] EXCEPT !.pc = "arm", !.row = row]
    <3>1. /\ schedule' = row /\ edit' = [edit EXCEPT ![q].pc = "arm", ![q].row = row]
          /\ UNCHANGED <<upset, entry, scheduleConn, edits, schedFaults>>
      BY <1>1, <2>1, <2>3 DEF createSchedule, begin, unrelated
    <3>2. row \in ScheduleRow /\ row.state = "there" /\ row.active
      BY <2>3 DEF ScheduleRow, EditsInv
    <3> HIDE DEF row
    <3>3. r \in EditRows /\ r.pc = "arm" /\ r.row = row /\ r.alone = edit[q].alone
      BY <1>0, <3>2 DEF EditRows
    <3>4. edit' = [edit EXCEPT ![q] = r]
      BY <1>0, <3>1
    <3> HIDE DEF r
    <3>5. edit'[q] = r /\ \A p \in SchedReq \ {q} : edit'[p] = edit[p]
      BY <1>0, <3>4
    <3>6. Alone(q) => Alone(q)'
      BY <3>1, <3>2, <3>3, <3>5 DEF Alone
    <3> QED  BY <1>0, <2>3, <3>1, <3>2, <3>3, <3>4, <3>6, FurtherStep
  <2> QED  BY <1>1, <2>1, <2>2, <2>3 DEF createSchedule
<1>2. CASE updateSchedule(q)
  <2>1. CASE \E change \in Change \ {"delete"} : begin(q, "write", change)
    BY <2>1, BeginStep
  <2>2. ASSUME edit[q].pc = "write", schedule.state # "there" PROVE EditsInv'
    <3>1. /\ edit' = [edit EXCEPT ![q] = NoEdit]
          /\ UNCHANGED <<upset, schedule, entry, scheduleConn, edits, schedFaults>>
      BY <1>2, <2>2 DEF updateSchedule, begin, refused, unrelated
    <3>2. edit[q].alone /\ ~upset => Right'
      BY <2>2, <3>1 DEF Right, EntryDue, EditsInv, Alone
    <3> QED  BY <1>0, <2>2, <3>1, <3>2, EndStep DEF EditsInv
  <2>3. ASSUME edit[q].pc = "write", schedule.state = "there" PROVE EditsInv'
    <3> DEFINE row == Changed(edit[q].change)
               r == [edit[q] EXCEPT !.pc = "disarm", !.row = row]
    <3>1. /\ schedule' = row /\ edit' = [edit EXCEPT ![q].pc = "disarm", ![q].row = row]
          /\ UNCHANGED <<upset, entry, scheduleConn, edits, schedFaults>>
      BY <1>2, <2>3 DEF updateSchedule, begin, unrelated
    <3>2. row \in ScheduleRow /\ row.state = "there"
      BY <1>0, <2>3 DEF Changed, ScheduleRow, EditsInv, Change
    <3> HIDE DEF row
    <3>3. /\ r \in EditRows /\ r.pc = "disarm" /\ r.row = row /\ r.alone = edit[q].alone
          /\ r.change = edit[q].change /\ r.change # "delete"
      BY <1>0, <2>3, <3>2 DEF EditRows, EditsInv
    <3>4. edit' = [edit EXCEPT ![q] = r]
      BY <1>0, <3>1
    <3> HIDE DEF r
    <3>5. edit'[q] = r /\ \A p \in SchedReq \ {q} : edit'[p] = edit[p]
      BY <1>0, <3>4
    <3>6. Alone(q) => Alone(q)'
      BY <3>1, <3>2, <3>3, <3>5 DEF Alone
    <3> QED  BY <1>0, <2>3, <3>1, <3>2, <3>3, <3>4, <3>6, FurtherStep
  <2> QED  BY <1>2, <2>1, <2>2, <2>3 DEF updateSchedule
<1>3. CASE deleteSchedule(q)
  <2>1. CASE begin(q, "disarm", "delete")
    BY <2>1, BeginStep
  <2>2. ASSUME edit[q].pc = "remove", schedule.state # "there" PROVE EditsInv'
    <3>1. /\ edit' = [edit EXCEPT ![q] = NoEdit]
          /\ UNCHANGED <<upset, schedule, entry, scheduleConn, edits, schedFaults>>
      BY <1>3, <2>2 DEF deleteSchedule, begin, refused, unrelated
    <3>2. edit[q].alone => Right'
      BY <2>2, <3>1 DEF Right, EntryDue, EditsInv, Alone
    <3> QED  BY <1>0, <2>2, <3>1, <3>2, EndStep DEF EditsInv
  <2>3. ASSUME edit[q].pc = "remove", schedule.state = "there" PROVE EditsInv'
    <3>1. /\ edit' = [edit EXCEPT ![q] = NoEdit] /\ upset' = (upset /\ ~edit[q].alone)
          /\ schedule' = [NoSchedule EXCEPT !.state = "deleted"]
          /\ UNCHANGED <<entry, scheduleConn, edits, schedFaults>>
      BY <1>3, <2>3 DEF deleteSchedule, begin, end, unrelated
    <3>2. edit[q].alone => Right'
      BY <2>3, <3>1, ScheduleNames DEF Right, EntryDue, EditsInv, Alone
    <3> QED  BY <1>0, <2>3, <3>1, <3>2, EndStep, ScheduleNames
  <2> QED  BY <1>3, <2>1, <2>2, <2>3 DEF deleteSchedule
<1>4. CASE removeScheduleJob(q)
  <2>1. edit[q].pc = "disarm" /\ entry' = NoEntry
        /\ UNCHANGED <<schedule, scheduleConn, edits, schedFaults>>
    BY <1>4 DEF removeScheduleJob, unrelated
  <2>2. ASSUME NEW pc \in {"remove", "arm"}, further(q, pc),
               pc = "arm" => edit[q].change # "delete" /\ edit[q].row.active
        PROVE  EditsInv'
    <3> DEFINE r == [edit[q] EXCEPT !.pc = pc]
    <3>1. edit' = [edit EXCEPT ![q] = r] /\ upset' = upset
      BY <1>0, <2>2 DEF further
    <3>2. r \in EditRows /\ r.pc = pc /\ r.row = edit[q].row /\ r.alone = edit[q].alone
      BY <1>0, <2>2 DEF EditRows
    <3> HIDE DEF r
    <3>3. edit'[q] = r /\ \A p \in SchedReq \ {q} : edit'[p] = edit[p]
      BY <1>0, <3>1
    <3>4. Alone(q) => Alone(q)'
      BY <2>1, <2>2, <3>1, <3>2, <3>3, ScheduleNames DEF Alone
    <3> QED  BY <1>0, <2>1, <2>2, <3>1, <3>2, <3>4, ScheduleNames, FurtherStep DEF EditsInv
  <2>3. ASSUME edit[q].change # "delete", ~edit[q].row.active, end(q) PROVE EditsInv'
    <3>1. edit[q].alone => Right'
      BY <2>1, <2>3, ScheduleNames DEF Right, EntryDue, EditsInv, Alone
    <3> QED  BY <1>0, <2>1, <2>3, <3>1, ScheduleNames, EndStep DEF end, EditsInv
  <2> QED  BY <1>4, <2>2, <2>3 DEF removeScheduleJob
<1>5. CASE addScheduleJob(q)
  <2>1. /\ edit[q].pc = "arm" /\ entry' = [cron |-> edit[q].row.cron, due |-> TRUE] /\ end(q)
        /\ UNCHANGED <<schedule, scheduleConn, edits, schedFaults>>
    BY <1>5 DEF addScheduleJob, unrelated
  <2>2. entry' \in [cron : Cron \cup {"none"}, due : BOOLEAN] /\ entry'.cron = edit[q].row.cron
    BY <1>0, <2>1 DEF EditRows, ScheduleRow
  <2>3. edit[q].alone => Right'
    BY <2>1, <2>2 DEF Right, EntryDue, EditsInv, Alone
  <2> QED  BY <1>0, <2>1, <2>2, <2>3, EndStep DEF end, EditsInv
<1> QED  BY <1>1, <1>2, <1>3, <1>4, <1>5 DEF scheduleRequest

\* The entry fires or gets its next job: what it is to be stays.
LEMMA EntryStays ==
    ASSUME EditsInv, UNCHANGED <<schedule, scheduleConn, edit, upset, edits>>,
           schedFaults' \in 0 .. MaxSchedFaults,
           entry' \in [cron : Cron \cup {"none"}, due : BOOLEAN], entry'.cron = entry.cron
    PROVE  EditsInv'
<1>1. ScheduleTypes'
  BY DEF EditsInv, ScheduleTypes
<1>2. Right' = Right
  BY DEF Right, EntryDue
<1>3. \A q \in SchedReq : Alone(q) => Alone(q)'
  BY <1>2 DEF Alone
<1> QED  BY <1>1, <1>2, <1>3 DEF EditsInv

LEMMA EditsInvStep == EditsInv /\ [SchedulesNext]_schedulesVars => EditsInv'
<1> SUFFICES ASSUME EditsInv, [SchedulesNext]_schedulesVars PROVE EditsInv'
  OBVIOUS
<1> USE SchedulesAssumption
<1>0. /\ edit \in [SchedReq -> EditRows] /\ entry \in [cron : Cron \cup {"none"}, due : BOOLEAN]
      /\ schedFaults \in 0 .. MaxSchedFaults
  BY DEF EditsInv, ScheduleTypes
<1>1. ASSUME NEW q \in SchedReq, scheduleRequest(q) PROVE EditsInv'
  BY <1>1, RequestStep
<1>2. ASSUME NEW q \in SchedReq, failEdit(q) PROVE EditsInv'
  <2>1. /\ edit' = [edit EXCEPT ![q] = NoEdit] /\ upset' = TRUE /\ edit[q].pc # "idle"
        /\ schedFaults' \in 0 .. MaxSchedFaults
        /\ UNCHANGED <<schedule, scheduleConn, entry, edits>>
    BY <1>0, <1>2 DEF failEdit, schedFault
  <2>2. \A p \in SchedReq : edit'[p] = IF p = q THEN NoEdit ELSE edit[p]
    BY <1>0, <2>1
  <2>3. ScheduleTypes'
    <3>1. edit' \in [SchedReq -> EditRows]
      BY <1>0, <2>1, ScheduleNames
    <3> QED  BY <2>1, <3>1 DEF EditsInv, ScheduleTypes
  <2>4. \A p \in SchedReq :
             /\ edit'[p].pc = "insert" => /\ edit'[p].change \in Cron
                                          /\ schedule'.state = "absent"
                                          /\ \A x \in SchedReq : edit'[x].pc = "insert" => x = p
             /\ edit'[p].pc = "write" => edit'[p].change \in Change \ {"delete"}
    BY <2>1, <2>2, ScheduleNames DEF EditsInv
  <2>5. \A p \in SchedReq : edit'[p].pc # "idle" => ~edit'[p].alone
    <3> SUFFICES ASSUME NEW p \in SchedReq, edit'[p].pc # "idle", edit'[p].alone PROVE FALSE
      OBVIOUS
    <3>1. p # q /\ edit[p].pc # "idle" /\ edit[p].alone
      BY <2>2, ScheduleNames
    <3>2. Alone(p)
      BY <3>1 DEF EditsInv
    <3> QED  BY <2>1, <3>1, <3>2 DEF Alone
  <2> QED  BY <2>1, <2>3, <2>4, <2>5 DEF EditsInv
<1>3. CASE crashSchedules
  <2>1. /\ edit' = [q \in SchedReq |-> NoEdit] /\ schedFaults' \in 0 .. MaxSchedFaults
        /\ upset' = (upset \/ \E q \in SchedReq : edit[q].pc # "idle")
        /\ UNCHANGED <<schedule, scheduleConn, entry, edits>>
    BY <1>0, <1>3 DEF crashSchedules, schedFault
  <2>2. edit' \in [SchedReq -> EditRows] /\ \A q \in SchedReq : edit'[q].pc = "idle"
    BY <2>1, ScheduleNames
  <2>3. ScheduleTypes'
    BY <2>1, <2>2 DEF EditsInv, ScheduleTypes
  <2>4. ~upset' => Right'
    BY <2>1 DEF EditsInv, Right, EntryDue
  <2> QED  BY <2>1, <2>2, <2>3, <2>4 DEF EditsInv
<1>4. CASE deleteScheduleConn
  <2>1. /\ scheduleConn' = FALSE /\ edits' \in 0 .. MaxSchedEdits
        /\ schedule' \in {schedule, [NoSchedule EXCEPT !.state = "deleted"]}
        /\ schedule.state = "absent" => schedule' = schedule
        /\ UNCHANGED <<entry, edit, upset, schedFaults>>
    <3>1. /\ edits \in 0 .. MaxSchedEdits /\ edits < MaxSchedEdits /\ edits' = edits + 1
          /\ scheduleConn' = FALSE /\ UNCHANGED <<entry, edit, upset, schedFaults>>
          /\ schedule' = IF schedule.state = "there"
                         THEN [NoSchedule EXCEPT !.state = "deleted"] ELSE schedule
      BY <1>4 DEF deleteScheduleConn, EditsInv, ScheduleTypes
    <3>2. edits' \in 0 .. MaxSchedEdits
      BY <3>1
    <3> QED  BY <3>1, <3>2
  <2>2. ScheduleTypes' /\ (schedule'.state # "there" => ~schedule'.active)
    <3>1. schedule' \in ScheduleRow /\ (schedule'.state # "there" => ~schedule'.active)
      BY <2>1, ScheduleNames DEF EditsInv, ScheduleTypes
    <3>2. scheduleConn' \in BOOLEAN
      BY <2>1
    <3> QED  BY <2>1, <3>1, <3>2 DEF EditsInv, ScheduleTypes
  <2>3. Right'
    BY <2>1 DEF Right
  <2>4. \A q \in SchedReq : Alone(q) => Alone(q)'
    BY <2>1, <2>3 DEF Alone
  <2> QED  BY <2>1, <2>2, <2>3, <2>4 DEF EditsInv
<1>5. ASSUME \/ \E j \in Firing : fire(j) \/ moveStalledFiring(j)
             \/ scheduleWorker \/ failFiring \/ loseFiringLock
      PROVE  EditsInv'
  <2>1. UNCHANGED <<schedule, scheduleConn, edit, upset, edits>>
    BY <1>5 DEF fire, moveStalledFiring, loseFiringLock, stalled, scheduleWorker, failFiring, requestsStay, pickFiring,
                findSchedule, createScheduledBackup, queueScheduledBackup, stampSchedule
  <2>2. schedFaults' \in 0 .. MaxSchedFaults
    <3>1. CASE failFiring \/ loseFiringLock
      <4>1. schedFaults < MaxSchedFaults /\ schedFaults' = schedFaults + 1
        BY <3>1 DEF failFiring, loseFiringLock, schedFault
      <4> QED  BY <1>0, <4>1
    <3>2. CASE ~(failFiring \/ loseFiringLock)
      <4>1. schedFaults' = schedFaults
        BY <1>5, <3>2 DEF fire, moveStalledFiring, stalled, scheduleWorker, pickFiring,
                  findSchedule, createScheduledBackup, queueScheduledBackup, stampSchedule
      <4> QED  BY <1>0, <4>1
    <3> QED  BY <3>1, <3>2
  <2>3. \/ entry' = entry
        \/ entry' = [entry EXCEPT !.due = FALSE]
        \/ entry' = [entry EXCEPT !.due = (entry # NoEntry)]
    BY <1>5 DEF fire, moveStalledFiring, loseFiringLock, stalled, scheduleWorker, failFiring, pickFiring,
                findSchedule, createScheduledBackup, queueScheduledBackup, stampSchedule
  <2>4. entry' \in [cron : Cron \cup {"none"}, due : BOOLEAN] /\ entry'.cron = entry.cron
    BY <1>0, <2>3
  <2> QED  BY <2>1, <2>2, <2>4, EntryStays
<1>6. CASE UNCHANGED schedulesVars
  BY <1>0, <1>6, EntryStays DEF schedulesVars
<1> QED  BY <1>1, <1>2, <1>3, <1>4, <1>5, <1>6 DEF SchedulesNext

LEMMA ArmedFromInv == EditsInv => ArmedIffActive
  BY DEF EditsInv, Right, EntryDue, ArmedIffActive

FiringTypes ==
    /\ schedJob \in [Firing -> FiringRows] /\ schedRun \in Runs
    /\ made \in [Firing -> Nat] /\ struck \in [Firing -> Nat]

HoldsRun(j) == schedRun.pc # "idle" /\ schedRun.job = j

\* The run may still make a backup; a run of the job that is yet to begin may.  Once the
\* schedule has been deleted, an attempt that begins finds it so.
MayMake(j) == /\ HoldsRun(j)
              /\ schedRun.pc = "create" \/ (schedRun.pc = "read" /\ schedule.state # "deleted")
MayBeMade(j) == /\ schedule.state # "deleted"
                /\ \/ schedJob[j].state \in {"none", "waiting"}
                   \/ schedJob[j].state = "active" /\ ~HoldsRun(j)
One(b) == IF b THEN 1 ELSE 0

\* The backups made, and those that may be made, are one and one for each blow.
FiringOK(j) ==
    /\ schedJob[j].state \in {"none", "waiting", "active"} => schedJob[j].fails < SchedAttempts
    /\ made[j] + One(MayMake(j)) + One(MayBeMade(j)) <= 1 + struck[j]

HandlerOK ==
    schedRun.pc # "idle" => /\ schedRun.job \in Firing
                            /\ schedRun.pc # "read" => schedule.state # "absent"

FiringInv == EditsInv /\ FiringTypes /\ HandlerOK /\ \A j \in Firing : FiringOK(j)

LEMMA FiringNames == NoFiring \in FiringRows /\ NoFiring.state = "none" /\ NoFiring.fails = 0
                     /\ Resting \in Runs /\ Resting.pc = "idle"
  BY SchedulesAssumption DEF NoFiring, FiringRows, Resting, Runs

LEMMA FiringInvInit == SchedulesInit => FiringInv
<1> SUFFICES ASSUME SchedulesInit PROVE FiringInv
  OBVIOUS
<1>1. FiringTypes /\ HandlerOK
  BY FiringNames DEF SchedulesInit, FiringTypes, HandlerOK
<1>2. \A j \in Firing : FiringOK(j)
  BY FiringNames, SchedulesAssumption
     DEF SchedulesInit, FiringOK, One, MayMake, MayBeMade, HoldsRun
<1> QED  BY <1>1, <1>2, EditsInvInit DEF FiringInv

\* A deleted schedule stays deleted and a row never becomes absent again.
LEMMA ScheduleOnward ==
    ASSUME EditsInv, [SchedulesNext]_schedulesVars
    PROVE  /\ schedule.state = "deleted" => schedule'.state = "deleted"
           /\ schedule.state # "absent" => schedule'.state # "absent"
<1>0. schedule \in ScheduleRow
  BY DEF EditsInv, ScheduleTypes
<1>1. ASSUME NEW q \in SchedReq, scheduleRequest(q)
      PROVE  \/ schedule' = schedule
             \/ schedule.state = "absent"
             \/ schedule.state = "there" /\ schedule'.state \in {"there", "deleted"}
  <2>1. CASE createSchedule(q)
    BY <2>1 DEF createSchedule, begin, EditsInv
  <2>2. CASE updateSchedule(q)
    BY <1>0, <2>2 DEF updateSchedule, begin, Changed, ScheduleRow
  <2>3. CASE deleteSchedule(q)
    BY <2>3, ScheduleNames DEF deleteSchedule, begin
  <2>4. CASE removeScheduleJob(q) \/ addScheduleJob(q)
    BY <2>4 DEF removeScheduleJob, addScheduleJob
  <2> QED  BY <1>1, <2>1, <2>2, <2>3, <2>4 DEF scheduleRequest
<1>2. CASE deleteScheduleConn
  BY <1>2, ScheduleNames DEF deleteScheduleConn
<1>3. CASE \/ \E q \in SchedReq : failEdit(q)
           \/ \E j \in Firing : fire(j) \/ moveStalledFiring(j)
           \/ scheduleWorker \/ failFiring \/ loseFiringLock \/ crashSchedules
  BY <1>3 DEF failEdit, fire, moveStalledFiring, scheduleWorker, failFiring, crashSchedules,
              loseFiringLock, stalled, requestsStay, pickFiring, findSchedule, createScheduledBackup,
              queueScheduledBackup, stampSchedule
<1>4. CASE UNCHANGED schedulesVars
  BY <1>4 DEF schedulesVars
<1> QED  BY <1>0, <1>1, <1>2, <1>3, <1>4 DEF SchedulesNext, ScheduleRow

\* Nothing is owed to a firing by less being possible than before.
LEMMA LessToMake ==
    ASSUME FiringTypes, FiringTypes', NEW j \in Firing, FiringOK(j),
           MayMake(j)' => MayMake(j), MayBeMade(j)' => MayBeMade(j),
           made'[j] = made[j], struck'[j] = struck[j], schedJob'[j] = schedJob[j]
    PROVE  FiringOK(j)'
<1>1. made[j] \in Nat /\ struck[j] \in Nat
  BY DEF FiringTypes
<1> QED  BY <1>1 DEF FiringOK, One

\* A step that concerns one firing keeps what holds of the others.
LEMMA OneFiring ==
    ASSUME FiringInv, EditsInv', FiringTypes', HandlerOK', NEW k \in Firing, FiringOK(k)',
           schedule.state = "deleted" => schedule'.state = "deleted",
           \A j \in Firing \ {k} : /\ schedJob'[j] = schedJob[j] /\ made'[j] = made[j]
                                   /\ struck'[j] = struck[j],
           \/ UNCHANGED schedRun
           \/ /\ schedRun.pc = "idle" \/ schedRun.job = k
              /\ schedRun'.pc = "idle" \/ schedRun'.job = k
    PROVE  FiringInv'
<1>1. ASSUME NEW j \in Firing \ {k} PROVE FiringOK(j)'
  <2>1. HoldsRun(j)' = HoldsRun(j) /\ (MayMake(j)' => MayMake(j))
        /\ (MayBeMade(j)' => MayBeMade(j))
    BY DEF HoldsRun, MayMake, MayBeMade
  <2> QED  BY <2>1, LessToMake DEF FiringInv
<1> QED  BY <1>1 DEF FiringInv

\* The stalled check finds a job that no run holds, or, at the cost of a blow, one whose
\* run goes on.
LEMMA StalledStep ==
    ASSUME FiringInv, NEW j \in Firing, stalled(j),
           \/ ~HoldsRun(j) /\ struck' = struck
           \/ HoldsRun(j) /\ struck' = [struck EXCEPT ![j] = @ + 1],
           EditsInv', schedule.state = "deleted" => schedule'.state = "deleted"
    PROVE  FiringInv'
<1> USE SchedulesAssumption
<1> DEFINE s == IF schedJob[j].stalls >= SchedStalls THEN "failed" ELSE "waiting"
           r == [schedJob[j] EXCEPT !.state = s, !.stalls = schedJob[j].stalls + 1]
<1>0. /\ schedJob \in [Firing -> FiringRows] /\ schedRun \in Runs /\ made \in [Firing -> Nat]
      /\ struck \in [Firing -> Nat] /\ made[j] \in Nat /\ struck[j] \in Nat
  BY DEF FiringInv, FiringTypes
<1>1. /\ schedJob[j].state = "active" /\ schedJob' = [schedJob EXCEPT ![j] = r]
      /\ UNCHANGED <<schedule, schedRun, made>>
  BY <1>0 DEF stalled, requestsStay
<1>2. r \in FiringRows /\ r.state \in {"failed", "waiting"} /\ r.fails = schedJob[j].fails
  <2>1. s \in {"failed", "waiting"}
    OBVIOUS
  <2>2. schedJob[j] \in FiringRows /\ schedJob[j].stalls + 1 \in Nat
    BY <1>0 DEF FiringRows
  <2> HIDE DEF s
  <2> QED  BY <2>1, <2>2 DEF FiringRows
<1> HIDE DEF r
<1>3. /\ schedJob'[j] = r /\ \A k \in Firing \ {j} : schedJob'[k] = schedJob[k]
      /\ schedJob' \in [Firing -> FiringRows]
  BY <1>0, <1>1, <1>2
<1>4. /\ struck' \in [Firing -> Nat] /\ \A k \in Firing \ {j} : struck'[k] = struck[k]
      /\ struck'[j] = IF HoldsRun(j) THEN struck[j] + 1 ELSE struck[j]
  BY <1>0
<1>5. FiringTypes' /\ HandlerOK'
  BY <1>0, <1>1, <1>3, <1>4 DEF FiringTypes, FiringInv, HandlerOK
<1>6. /\ MayMake(j)' <=> MayMake(j)
      /\ MayBeMade(j) <=> (schedule.state # "deleted" /\ ~HoldsRun(j))
      /\ MayBeMade(j)' => schedule.state # "deleted"
  BY <1>1, <1>2, <1>3 DEF MayMake, MayBeMade, HoldsRun
<1>7. FiringOK(j)'
  <2>1. schedJob[j].fails < SchedAttempts
        /\ made[j] + One(MayMake(j)) + One(MayBeMade(j)) <= 1 + struck[j]
    BY <1>1 DEF FiringInv, FiringOK
  <2>2. made'[j] + One(MayMake(j)') + One(MayBeMade(j)') <= 1 + struck'[j]
    BY <1>0, <1>1, <1>4, <1>6, <2>1 DEF One
  <2> QED  BY <1>2, <1>3, <2>1, <2>2 DEF FiringOK
<1> QED  BY <1>1, <1>3, <1>4, <1>5, <1>7, OneFiring

\* The run ends, and its job goes on as `row' says unless it was taken from the run.
LEMMA LeaveStep ==
    ASSUME FiringInv, schedRun.pc # "idle", NEW j \in Firing, j = schedRun.job,
           NEW row, leave(row), schedJob[j].state = "active" =>
               /\ row \in FiringRows
               /\ row.state \in {"completed", "failed", "waiting"}
               /\ row.state = "waiting" => row.fails < SchedAttempts,
           UNCHANGED <<schedule, made>>, EditsInv',
           \/ struck' = [struck EXCEPT ![j] = @ + 1]
           \/ struck' = struck /\ (MayMake(j) \/ schedule.state = "deleted"
                                   \/ (schedJob[j].state = "active" => row.state # "waiting"))
    PROVE  FiringInv'
<1> USE SchedulesAssumption
<1> DEFINE r == IF schedJob[j].state = "active" THEN row ELSE schedJob[j]
<1>0. /\ schedJob \in [Firing -> FiringRows] /\ made \in [Firing -> Nat]
      /\ struck \in [Firing -> Nat] /\ made[j] \in Nat /\ struck[j] \in Nat
  BY DEF FiringInv, FiringTypes
<1>1. schedJob' = [schedJob EXCEPT ![j] = r] /\ schedRun' = Resting
  BY <1>0 DEF leave
<1>2. /\ r \in FiringRows
      /\ schedJob[j].state = "active" => r = row
      /\ schedJob[j].state # "active" => r = schedJob[j]
  BY <1>0
<1> HIDE DEF r
<1>3. /\ schedJob'[j] = r /\ \A k \in Firing \ {j} : schedJob'[k] = schedJob[k]
      /\ schedJob' \in [Firing -> FiringRows]
  BY <1>0, <1>1, <1>2
<1>4. /\ struck' \in [Firing -> Nat] /\ \A k \in Firing \ {j} : struck'[k] = struck[k]
      /\ struck'[j] \in Nat /\ struck'[j] \in {struck[j], struck[j] + 1}
      /\ struck'[j] = struck[j] => MayMake(j) \/ schedule.state = "deleted"
                                   \/ (schedJob[j].state = "active" => row.state # "waiting")
  BY <1>0
<1>5. FiringTypes' /\ HandlerOK'
  BY <1>0, <1>1, <1>3, <1>4, FiringNames DEF FiringTypes, FiringInv, HandlerOK
<1>6. /\ HoldsRun(j) /\ ~HoldsRun(j)' /\ ~MayMake(j)'
      /\ MayBeMade(j)' => schedule.state # "deleted" /\ r.state \in {"none", "waiting"}
      /\ schedJob[j].state # "active" /\ MayBeMade(j)' => MayBeMade(j)
  BY <1>1, <1>2, <1>3, FiringNames DEF MayMake, MayBeMade, HoldsRun
<1>7. FiringOK(j)'
  <2>1. /\ schedJob[j].state \in {"none", "waiting", "active"} => schedJob[j].fails < SchedAttempts
        /\ made[j] + One(MayMake(j)) + One(MayBeMade(j)) <= 1 + struck[j]
    BY DEF FiringInv, FiringOK
  <2>2. made'[j] = made[j] /\ One(MayMake(j)') = 0
    BY <1>6 DEF One
  <2>3. made[j] + One(MayBeMade(j)') <= 1 + struck'[j]
    <3>1. CASE ~MayBeMade(j)' \/ MayBeMade(j)
      BY <1>0, <1>4, <2>1, <3>1 DEF One
    <3>2. CASE MayBeMade(j)' /\ ~MayBeMade(j)
      <4>1. schedJob[j].state = "active" /\ r.state = "waiting" /\ schedule.state # "deleted"
            /\ row.state = "waiting"
        BY <1>2, <1>6, <3>2
      <4>2. CASE struck'[j] = struck[j]
        BY <1>0, <1>4, <2>1, <4>1, <4>2 DEF One
      <4>3. CASE struck'[j] = struck[j] + 1
        BY <1>0, <2>1, <4>3 DEF One
      <4> QED  BY <1>4, <4>2, <4>3
    <3> QED  BY <3>1, <3>2
  <2>4. r.state \in {"none", "waiting", "active"} => r.fails < SchedAttempts
    BY <1>2, <2>1
  <2>5. made'[j] + One(MayMake(j)') + One(MayBeMade(j)') <= 1 + struck'[j]
    BY <1>0, <1>4, <2>2, <2>3 DEF One
  <2> QED  BY <1>3, <2>4, <2>5 DEF FiringOK
<1> QED  BY <1>1, <1>3, <1>4, <1>5, <1>7, OneFiring, FiringNames

\* A handler that throws has its job attempted again, or given up.
LEMMA ThrowStep ==
    ASSUME FiringInv, schedRun.pc # "idle", throw, UNCHANGED <<schedule, made>>, EditsInv',
           \/ struck' = [struck EXCEPT ![schedRun.job] = @ + 1]
           \/ struck' = struck /\ (MayMake(schedRun.job) \/ schedule.state = "deleted")
    PROVE  FiringInv'
<1> USE SchedulesAssumption
<1> DEFINE j == schedRun.job
           fails == schedJob[j].fails + 1
           s == IF fails >= SchedAttempts THEN "failed" ELSE "waiting"
           row == [schedJob[j] EXCEPT !.state = s, !.fails = fails]
<1>1. j \in Firing /\ schedJob[j] \in FiringRows
  BY DEF FiringInv, HandlerOK, FiringTypes
<1>2. leave(row)
  BY DEF throw
<1>3. schedJob[j].state = "active" =>
          /\ row \in FiringRows /\ row.state \in {"completed", "failed", "waiting"}
          /\ row.state = "waiting" => row.fails < SchedAttempts
  <2> SUFFICES ASSUME schedJob[j].state = "active"
               PROVE  /\ row \in FiringRows /\ row.state \in {"completed", "failed", "waiting"}
                      /\ row.state = "waiting" => row.fails < SchedAttempts
    OBVIOUS
  <2>1. schedJob[j].fails < SchedAttempts /\ schedJob[j].fails \in 0 .. SchedAttempts
    BY <1>1 DEF FiringInv, FiringOK, FiringRows
  <2>2. fails \in 0 .. SchedAttempts /\ s \in {"failed", "waiting"}
        /\ (s = "waiting" => fails < SchedAttempts)
    BY <2>1
  <2> HIDE DEF s, fails
  <2> QED  BY <1>1, <2>2 DEF FiringRows
<1> HIDE DEF row, j
<1>4. j = schedRun.job
  BY DEF j
<1> QED  BY <1>1, <1>2, <1>3, <1>4, LeaveStep

LEMMA SettleStep ==
    ASSUME FiringInv, schedRun.pc # "idle", settle, UNCHANGED <<schedule, made, struck>>,
           EditsInv'
    PROVE  FiringInv'
<1> DEFINE j == schedRun.job
           row == [schedJob[j] EXCEPT !.state = "completed"]
<1>1. j \in Firing /\ schedJob[j] \in FiringRows
  BY DEF FiringInv, HandlerOK, FiringTypes
<1>2. leave(row)
  BY DEF settle
<1>3. row \in FiringRows /\ row.state = "completed"
  BY <1>1 DEF FiringRows
<1> HIDE DEF row, j
<1>4. j = schedRun.job
  BY DEF j
<1> QED  BY <1>1, <1>2, <1>3, <1>4, LeaveStep

\* The run goes on, having made a backup it could make or none.
LEMMA OnwardStep ==
    ASSUME FiringInv, schedRun.pc # "idle", NEW pc \in {"create", "queue", "stamp"}, to(pc),
           UNCHANGED <<schedule, schedJob, struck>>, schedule.state # "absent", EditsInv',
           \/ made' = made /\ (pc = "create" => MayMake(schedRun.job))
           \/ /\ pc # "create" /\ made' = [made EXCEPT ![schedRun.job] = @ + 1]
              /\ MayMake(schedRun.job)
    PROVE  FiringInv'
<1>a. PICK j : j = schedRun.job
  OBVIOUS
<1>0. /\ j \in Firing /\ schedRun \in Runs /\ made \in [Firing -> Nat]
      /\ made[j] \in Nat /\ struck[j] \in Nat
  BY <1>a DEF FiringInv, HandlerOK, FiringTypes
<1>1. schedRun' \in Runs /\ schedRun'.pc = pc /\ schedRun'.job = j
  BY <1>a, <1>0 DEF to, Runs
<1>2. /\ made' \in [Firing -> Nat] /\ \A k \in Firing \ {j} : made'[k] = made[k]
      /\ \/ made'[j] = made[j] /\ (pc = "create" => MayMake(j))
         \/ made'[j] = made[j] + 1 /\ MayMake(j) /\ pc # "create"
  BY <1>a, <1>0
<1>3. FiringTypes' /\ HandlerOK'
  BY <1>0, <1>1, <1>2 DEF FiringInv, FiringTypes, HandlerOK
<1>4. (MayBeMade(j)' <=> MayBeMade(j)) /\ (MayMake(j)' <=> pc = "create")
  BY <1>a, <1>0, <1>1 DEF MayBeMade, MayMake, HoldsRun
<1>5. FiringOK(j)'
  <2>1. made[j] + One(MayMake(j)) + One(MayBeMade(j)) <= 1 + struck[j]
    BY <1>0 DEF FiringInv, FiringOK
  <2>2. made'[j] + One(MayMake(j)') + One(MayBeMade(j)') <= 1 + struck'[j]
    BY <1>0, <1>2, <1>4, <2>1 DEF One
  <2> QED  BY <1>0, <2>2 DEF FiringInv, FiringOK
<1> QED  BY <1>a, <1>0, <1>1, <1>2, <1>3, <1>5, OneFiring

LEMMA FiringInvStep == FiringInv /\ [SchedulesNext]_schedulesVars => FiringInv'
<1> SUFFICES ASSUME FiringInv, [SchedulesNext]_schedulesVars PROVE FiringInv'
  OBVIOUS
<1> USE SchedulesAssumption
<1>0. /\ schedJob \in [Firing -> FiringRows] /\ schedRun \in Runs /\ made \in [Firing -> Nat]
      /\ struck \in [Firing -> Nat]
  BY DEF FiringInv, FiringTypes
<1>1. /\ EditsInv'
      /\ schedule.state = "deleted" => schedule'.state = "deleted"
      /\ schedule.state # "absent" => schedule'.state # "absent"
  BY EditsInvStep, ScheduleOnward DEF FiringInv
<1>2. ASSUME UNCHANGED firings PROVE FiringInv'
  <2>1. FiringTypes' /\ HandlerOK'
    BY <1>1, <1>2 DEF FiringInv, FiringTypes, HandlerOK, firings
  <2>2. \A j \in Firing : (MayMake(j)' => MayMake(j)) /\ (MayBeMade(j)' => MayBeMade(j))
    BY <1>1, <1>2 DEF MayMake, MayBeMade, HoldsRun, firings
  <2>3. \A j \in Firing : FiringOK(j)'
    BY <1>2, <2>1, <2>2, LessToMake DEF FiringInv, firings
  <2> QED  BY <1>1, <2>1, <2>3 DEF FiringInv
<1>3. ASSUME NEW q \in SchedReq, scheduleRequest(q) \/ failEdit(q) PROVE FiringInv'
  BY <1>2, <1>3 DEF scheduleRequest, failEdit, createSchedule, updateSchedule, deleteSchedule,
                    removeScheduleJob, addScheduleJob, begin, unrelated
<1>4. CASE deleteScheduleConn
  BY <1>2, <1>4 DEF deleteScheduleConn
<1>5. ASSUME NEW j \in Firing, fire(j) PROVE FiringInv'
  <2> DEFINE r == [schedJob[j] EXCEPT !.state = "waiting"]
  <2>1. /\ schedJob[j].state = "none" /\ schedJob' = [schedJob EXCEPT ![j] = r]
        /\ UNCHANGED <<schedRun, made, struck>> /\ UNCHANGED schedule
    BY <1>0, <1>5 DEF fire, requestsStay
  <2>2. r \in FiringRows /\ r.state = "waiting" /\ r.fails = schedJob[j].fails
    BY <1>0 DEF FiringRows
  <2> HIDE DEF r
  <2>3. FiringTypes' /\ schedJob'[j] = r /\ \A k \in Firing \ {j} : schedJob'[k] = schedJob[k]
    BY <1>0, <2>1, <2>2 DEF FiringTypes
  <2>4. HandlerOK'
    BY <1>1, <2>1, <2>3 DEF FiringInv, HandlerOK
  <2>5. MayMake(j)' = MayMake(j) /\ MayBeMade(j)' = MayBeMade(j)
    BY <2>1, <2>2, <2>3 DEF MayMake, MayBeMade, HoldsRun
  <2>6. FiringOK(j)'
    BY <2>1, <2>2, <2>3, <2>5 DEF FiringInv, FiringOK
  <2> QED  BY <1>1, <2>1, <2>3, <2>4, <2>6, OneFiring
<1>6. ASSUME NEW j \in Firing, pickFiring(j) PROVE FiringInv'
  <2> DEFINE r == [schedJob[j] EXCEPT !.state = "active"]
  <2>1. /\ schedRun.pc = "idle" /\ schedJob[j].state = "waiting"
        /\ schedJob' = [schedJob EXCEPT ![j] = r] /\ schedRun' = [pc |-> "read", job |-> j]
        /\ UNCHANGED <<schedule, made, struck>>
    BY <1>0, <1>6 DEF pickFiring, requestsStay
  <2>2. r \in FiringRows /\ r.state = "active" /\ r.fails = schedJob[j].fails
    BY <1>0 DEF FiringRows
  <2> HIDE DEF r
  <2>3. FiringTypes' /\ schedJob'[j] = r /\ \A k \in Firing \ {j} : schedJob'[k] = schedJob[k]
    BY <1>0, <2>1, <2>2 DEF FiringTypes, Runs
  <2>4. HandlerOK'
    BY <2>1, <2>2, <2>3 DEF FiringInv, HandlerOK
  <2>5. /\ ~MayMake(j) /\ ~MayBeMade(j)'
        /\ MayMake(j)' => MayBeMade(j)
    BY <2>1, <2>2, <2>3 DEF MayMake, MayBeMade, HoldsRun
  <2>6. FiringOK(j)'
    <3>1. made[j] + One(MayMake(j)) + One(MayBeMade(j)) <= 1 + struck[j]
          /\ made[j] \in Nat /\ struck[j] \in Nat /\ schedJob[j].fails < SchedAttempts
      BY <1>0, <2>1 DEF FiringInv, FiringOK
    <3>2. made'[j] + One(MayMake(j)') + One(MayBeMade(j)') <= 1 + struck'[j]
      BY <2>1, <2>5, <3>1 DEF One
    <3> QED  BY <2>2, <2>3, <3>1, <3>2 DEF FiringOK
  <2> QED  BY <1>1, <2>1, <2>3, <2>4, <2>6, OneFiring
<1>7. ASSUME NEW j \in Firing, moveStalledFiring(j) PROVE FiringInv'
  <2>1. stalled(j) /\ ~HoldsRun(j) /\ struck' = struck
    BY <1>7 DEF moveStalledFiring, HoldsRun
  <2> QED  BY <1>1, <2>1, StalledStep
<1>8. CASE loseFiringLock
  <2>1. /\ stalled(schedRun.job) /\ HoldsRun(schedRun.job) /\ schedRun.job \in Firing
        /\ struck' = [struck EXCEPT ![schedRun.job] = @ + 1]
    BY <1>8 DEF loseFiringLock, strike, HoldsRun, FiringInv, HandlerOK
  <2> QED  BY <1>1, <2>1, StalledStep
<1>11. CASE findSchedule
  <2>1. CASE schedule.state = "there" /\ schedule.active
    <3>1. /\ to("create") /\ schedRun.pc = "read"
          /\ UNCHANGED <<schedule, schedJob, struck>> /\ made' = made
      BY <1>11, <2>1 DEF findSchedule, requestsStay
    <3>2. MayMake(schedRun.job)
      BY <2>1, <3>1 DEF MayMake, HoldsRun
    <3> QED  BY <1>1, <2>1, <3>1, <3>2, OnwardStep
  <2>2. CASE ~(schedule.state = "there" /\ schedule.active)
    <3>1. schedRun.pc # "idle" /\ settle /\ UNCHANGED <<schedule, made, struck>>
      BY <1>11, <2>2 DEF findSchedule, requestsStay
    <3> QED  BY <1>1, <3>1, SettleStep
  <2> QED  BY <2>1, <2>2
<1>12. CASE createScheduledBackup
  <2>1. /\ schedRun.pc = "create" /\ UNCHANGED <<schedule, struck>>
        /\ schedule.state # "absent" /\ MayMake(schedRun.job)
    BY <1>12 DEF createScheduledBackup, requestsStay, FiringInv, HandlerOK, MayMake, HoldsRun
  <2>2. CASE scheduleConn
    <3>1. made' = [made EXCEPT ![schedRun.job] = @ + 1] /\ to("queue") /\ UNCHANGED schedJob
      BY <1>12, <2>2 DEF createScheduledBackup
    <3> QED  BY <1>1, <2>1, <3>1, OnwardStep
  <2>3. CASE ~scheduleConn
    <3>1. throw /\ UNCHANGED made
      BY <1>12, <2>3 DEF createScheduledBackup
    <3> QED  BY <1>1, <2>1, <3>1, ThrowStep
  <2> QED  BY <2>2, <2>3
<1>13. CASE queueScheduledBackup
  <2>1. /\ schedRun.pc = "queue" /\ to("stamp") /\ UNCHANGED <<schedule, schedJob, struck>>
        /\ schedule.state # "absent" /\ made' = made
    BY <1>13 DEF queueScheduledBackup, requestsStay, FiringInv, HandlerOK
  <2> QED  BY <1>1, <2>1, OnwardStep
<1>14. CASE stampSchedule
  <2>1. /\ schedRun.pc = "stamp" /\ UNCHANGED <<schedule, made, struck>>
        /\ schedule.state # "absent"
    BY <1>14 DEF stampSchedule, requestsStay, FiringInv, HandlerOK
  <2>2. CASE schedule.state = "there"
    <3>1. settle
      BY <1>14, <2>2 DEF stampSchedule
    <3> QED  BY <1>1, <2>1, <3>1, SettleStep
  <2>3. CASE schedule.state # "there"
    <3>1. throw /\ schedule.state = "deleted"
      BY <1>14, <2>1, <2>3 DEF stampSchedule, FiringInv, EditsInv, ScheduleTypes, ScheduleRow
    <3> QED  BY <1>1, <2>1, <3>1, ThrowStep
  <2> QED  BY <2>2, <2>3
<1>15. CASE failFiring
  <2>1. /\ schedRun.pc # "idle" /\ throw /\ struck' = [struck EXCEPT ![schedRun.job] = @ + 1]
        /\ UNCHANGED <<schedule, made>>
    BY <1>15 DEF failFiring, strike, requestsStay
  <2> QED  BY <1>1, <2>1, ThrowStep
<1>16. CASE crashSchedules
  <2>0. schedRun' = Resting /\ UNCHANGED <<schedule, schedJob, made>>
    BY <1>16 DEF crashSchedules
  <2>1. CASE schedRun = Resting
    BY <1>16, <1>2, <2>0, <2>1 DEF crashSchedules, firings
  <2>a. PICK j : j = schedRun.job
    OBVIOUS
  <2>2. CASE schedRun.pc = "idle" /\ schedRun # Resting
    <3>1. struck' = [struck EXCEPT ![schedRun.job] = @ + 1]
      BY <1>16, <2>2 DEF crashSchedules, strike
    <3>2. \A k \in Firing : made[k] \in Nat /\ struck[k] \in Nat /\ struck'[k] \in Nat
                            /\ struck'[k] >= struck[k]
      BY <1>0, <3>1
    <3>3. FiringTypes' /\ HandlerOK'
      <4>1. struck' \in [Firing -> Nat]
        BY <1>0, <3>1, <3>2
      <4> QED  BY <1>0, <2>0, <4>1, FiringNames DEF FiringTypes, HandlerOK
    <3>4. \A k \in Firing : (MayMake(k)' <=> MayMake(k)) /\ (MayBeMade(k)' <=> MayBeMade(k))
      BY <2>0, <2>2, FiringNames DEF MayMake, MayBeMade, HoldsRun
    <3>5. \A k \in Firing : FiringOK(k)'
      BY <2>0, <3>2, <3>4 DEF FiringInv, FiringOK, One
    <3> QED  BY <1>1, <3>3, <3>5 DEF FiringInv
  <2>3. CASE schedRun.pc # "idle"
    <3>1. struck' = [struck EXCEPT ![j] = @ + 1] /\ j \in Firing
      BY <1>16, <2>3, <2>a, FiringNames DEF crashSchedules, strike, FiringInv, HandlerOK
    <3>2. /\ made[j] \in Nat /\ struck[j] \in Nat /\ struck'[j] = struck[j] + 1
          /\ \A k \in Firing \ {j} : struck'[k] = struck[k]
      BY <1>0, <3>1
    <3>3. FiringTypes' /\ HandlerOK'
      BY <1>0, <2>0, <3>1, FiringNames DEF FiringTypes, HandlerOK
    <3>4. ~MayMake(j)' /\ (MayBeMade(j) => MayBeMade(j)')
      BY <2>0, <2>3, <2>a, FiringNames DEF MayMake, MayBeMade, HoldsRun
    <3>5. FiringOK(j)'
      <4>1. made[j] + One(MayMake(j)) + One(MayBeMade(j)) <= 1 + struck[j]
        BY <3>1 DEF FiringInv, FiringOK
      <4>2. made'[j] + One(MayMake(j)') + One(MayBeMade(j)') <= 1 + struck'[j]
        BY <2>0, <3>2, <3>4, <4>1 DEF One
      <4> QED  BY <2>0, <3>1, <4>2 DEF FiringInv, FiringOK
    <3> QED  BY <1>1, <2>0, <2>a, <3>1, <3>2, <3>3, <3>5, OneFiring, FiringNames
  <2> QED  BY <2>1, <2>2, <2>3
<1>17. CASE UNCHANGED schedulesVars
  BY <1>2, <1>17 DEF schedulesVars, firings
<1> QED  BY <1>3, <1>4, <1>5, <1>6, <1>7, <1>8, <1>11, <1>12, <1>13, <1>14, <1>15, <1>16,
            <1>17
         DEF SchedulesNext, scheduleWorker

LEMMA FiringCount ==
    ASSUME FiringTypes, NEW j \in Firing, FiringOK(j) PROVE made[j] <= 1 + struck[j]
<1>1. made[j] \in Nat /\ struck[j] \in Nat
  BY DEF FiringTypes
<1> QED  BY <1>1 DEF FiringOK, One

LEMMA OneBackupFromInv == FiringInv => OneBackupPerFiring /\ ArmedIffActive /\ SchedulesTypeOK
<1> SUFFICES ASSUME FiringInv PROVE OneBackupPerFiring /\ ArmedIffActive /\ SchedulesTypeOK
  OBVIOUS
<1>1. OneBackupPerFiring
  BY FiringCount DEF FiringInv, OneBackupPerFiring
<1>2. ArmedIffActive
  BY ArmedFromInv DEF FiringInv
<1>3. SchedulesTypeOK
  <2>1. ScheduleTypes /\ FiringTypes
    BY DEF FiringInv, EditsInv
  <2>2. /\ schedJob \in [Firing -> [state : {"none", "waiting", "active", "completed", "failed"},
                                  fails : 0 .. SchedAttempts, stalls : Nat]]
        /\ schedRun \in [pc : {"idle", "read", "create", "queue", "stamp"},
                        job : Firing \cup {"none"}]
        /\ {made, struck} \subseteq [Firing -> Nat]
    BY <2>1 DEF FiringTypes, FiringRows, Runs
  <2>3. edit \in [SchedReq -> [pc : {"idle", "insert", "write", "disarm", "arm", "remove"},
                              change : Change \cup {"none"}, row : ScheduleRow,
                              alone : BOOLEAN]]
    BY <2>1 DEF ScheduleTypes, EditRows
  <2> QED  BY <2>1, <2>2, <2>3 DEF ScheduleTypes, SchedulesTypeOK
<1> QED  BY <1>1, <1>2, <1>3

-----------------------------------------------------------------------------
(* SyncPage: a tab shows nothing read before a command of its own.         *)

Data == BOOLEAN \cup StateStatus
Cached(D) == [got : BOOLEAN, error : BOOLEAN, data : D, old : BOOLEAN,
              kept : BOOLEAN]
FetchRows(D) == [at : {"none", "sent", "read", "failed"}, data : D, old : BOOLEAN,
                 kept : BOOLEAN]

TabTypes ==
    /\ cached \in [SyncTab -> [Query -> Cached(Data)]]
    /\ fetch \in [SyncTab -> [Query -> FetchRows(Data)]]
    /\ \A t \in SyncTab, q \in Query : /\ cached[t][q] \in Cached(Answer(q))
                                       /\ fetch[t][q] \in FetchRows(Answer(q))

RestTypes ==
    /\ syncConns \subseteq SyncConn /\ syncRunning \in BOOLEAN
    /\ sent \in 0 .. MaxCommands /\ runEnds \in 0 .. MaxRunEnds

\* The command of t has taken effect and its answer is still to come.
TookEffect(t, q) == command[t].at = "ok" /\ q \in Changes(command[t].kind)

\* What was read before a command took effect goes when its answer comes, or has been
\* asked for again, or could not be had, or was the first of all.
Goes(c, f, took) ==
    /\ f.old => f.at = "read" /\ (took \/ f.kept)
    /\ c.old => took \/ f.at # "none" \/ c.error \/ c.kept
OldGoes ==
    \A t \in SyncTab, q \in Query : Goes(cached[t][q], fetch[t][q], TookEffect(t, q))

SeenInv == PageInv /\ TabTypes /\ RestTypes /\ OldGoes

LEMMA NoData ==
    ASSUME NEW q \in Query
    PROVE  /\ NoAnswer(q) \in Cached(Answer(q)) /\ NoAnswer(q) \in Cached(Data)
           /\ NoFetch(q) \in FetchRows(Answer(q)) /\ NoFetch(q) \in FetchRows(Data)
           /\ [NoFetch(q) EXCEPT !.at = "sent"] \in FetchRows(Answer(q))
           /\ [NoFetch(q) EXCEPT !.at = "failed"] \in FetchRows(Answer(q))
           /\ [NoFetch(q) EXCEPT !.at = "sent"].at = "sent"
           /\ [NoFetch(q) EXCEPT !.at = "failed"].at = "failed"
           /\ NoFetch(q).at = "none" /\ ~NoAnswer(q).old /\ ~NoFetch(q).old
           /\ ~[NoFetch(q) EXCEPT !.at = "sent"].old /\ Answer(q) \subseteq Data
<1>1. Unread(q) \in Answer(q) /\ Answer(q) \subseteq Data
  BY DEF Unread, Answer, Data, StateStatus, Query
<1> QED  BY <1>1 DEF NoAnswer, NoFetch, Cached, FetchRows

\* A row of a larger type.
LEMMA Wider ==
    ASSUME NEW q \in Query
    PROVE  Cached(Answer(q)) \subseteq Cached(Data) /\ FetchRows(Answer(q)) \subseteq FetchRows(Data)
  BY NoData DEF Cached, FetchRows

LEMMA SeenInvInit == SyncPageInit => SeenInv
<1> SUFFICES ASSUME SyncPageInit PROVE SeenInv
  OBVIOUS
<1>1. /\ cached = [t \in SyncTab |-> [q \in Query |-> NoAnswer(q)]]
      /\ fetch = [t \in SyncTab |-> [q \in Query |-> NoFetch(q)]]
  BY DEF SyncPageInit
<1>2. TabTypes
  BY <1>1, NoData DEF TabTypes
<1>3. OldGoes
  BY <1>1, NoData DEF OldGoes, Goes
<1>4. 0 \in 0 .. MaxCommands /\ 0 \in 0 .. MaxRunEnds
  BY PageBounds
<1>5. RestTypes
  BY <1>4 DEF SyncPageInit, RestTypes
<1> QED  BY <1>2, <1>3, <1>5, PageInit DEF SeenInv

\* What a tab has been told stays, and its command has not just been answered.
LEMMA TabsStay ==
    ASSUME SeenInv, UNCHANGED pageVars,
           \A t \in SyncTab, q \in Query : TookEffect(t, q) => TookEffect(t, q)'
    PROVE  TabTypes' /\ OldGoes'
<1>1. UNCHANGED <<cached, fetch>>
  BY DEF pageVars
<1>2. TabTypes'
  BY <1>1 DEF SeenInv, TabTypes
<1>3. OldGoes'
  <2>1. \A t \in SyncTab, q \in Query :
            Goes(cached[t][q], fetch[t][q], TookEffect(t, q)')
    BY DEF SeenInv, OldGoes, Goes
  <2> QED  BY <1>1, <2>1 DEF OldGoes
<1> QED  BY <1>2, <1>3

\* One tab gets other answers or asks for others.
LEMMA TabChanges ==
    ASSUME SeenInv, NEW t \in SyncTab, NEW c, NEW f,
           cached' = [cached EXCEPT ![t] = c], fetch' = [fetch EXCEPT ![t] = f],
           c = [q \in Query |-> c[q]], f = [q \in Query |-> f[q]],
           \A q \in Query :
               /\ c[q] \in Cached(Answer(q)) /\ f[q] \in FetchRows(Answer(q))
               /\ Goes(c[q], f[q], TookEffect(t, q)'),
           \A s \in SyncTab \ {t}, q \in Query : TookEffect(s, q) => TookEffect(s, q)'
    PROVE  TabTypes' /\ OldGoes'
<1>1. /\ cached \in [SyncTab -> [Query -> Cached(Data)]]
      /\ fetch \in [SyncTab -> [Query -> FetchRows(Data)]]
  BY DEF SeenInv, TabTypes
<1>2. /\ cached'[t] = c /\ fetch'[t] = f
      /\ \A s \in SyncTab \ {t} : cached'[s] = cached[s] /\ fetch'[s] = fetch[s]
  BY <1>1
<1>3. c \in [Query -> Cached(Data)] /\ f \in [Query -> FetchRows(Data)]
  <2>1. \A q \in Query : c[q] \in Cached(Data) /\ f[q] \in FetchRows(Data)
    BY Wider
  <2> QED  BY <2>1
<1>4. TabTypes'
  BY <1>1, <1>2, <1>3 DEF SeenInv, TabTypes
<1>5. OldGoes'
  <2>1. \A s \in SyncTab \ {t}, q \in Query :
            Goes(cached[s][q], fetch[s][q], TookEffect(s, q)')
    BY DEF SeenInv, OldGoes, Goes
  <2>2. \A s \in SyncTab \ {t}, q \in Query :
            Goes(cached'[s][q], fetch'[s][q], TookEffect(s, q)')
    BY <1>2, <2>1
  <2>3. \A q \in Query : Goes(cached'[t][q], fetch'[t][q], TookEffect(t, q)')
    BY <1>2
  <2> QED  BY <2>2, <2>3 DEF OldGoes
<1> QED  BY <1>4, <1>5

\* Only the requests of t change.
LEMMA FetchChanges ==
    ASSUME SeenInv, NEW t \in SyncTab, NEW f, fetch' = [fetch EXCEPT ![t] = f],
           UNCHANGED cached, f = [q \in Query |-> f[q]],
           \A q \in Query :
               /\ f[q] \in FetchRows(Answer(q))
               /\ Goes(cached[t][q], f[q], TookEffect(t, q)'),
           \A s \in SyncTab \ {t}, q \in Query : TookEffect(s, q) => TookEffect(s, q)'
    PROVE  TabTypes' /\ OldGoes'
<1>1. cached' = [cached EXCEPT ![t] = cached[t]] /\ cached[t] = [q \in Query |-> cached[t][q]]
  BY DEF SeenInv, TabTypes
<1>2. \A q \in Query : cached[t][q] \in Cached(Answer(q))
  BY DEF SeenInv, TabTypes
<1> QED  BY <1>1, <1>2, TabChanges

\* What is asked for anew is of now, or is the tab's first fetch, which is then kept.
LEMMA AnewIs ==
    ASSUME SeenInv, NEW t \in SyncTab, NEW q \in Query
    PROVE  /\ Anew(t, q) \in FetchRows(Answer(q)) /\ Anew(t, q).at # "none"
           /\ Anew(t, q).old => Anew(t, q).at = "read" /\ Anew(t, q).kept
           /\ fetch[t][q].at = "none" => ~Anew(t, q).old
<1>1. /\ fetch[t][q] \in FetchRows(Answer(q))
      /\ fetch[t][q].old => fetch[t][q].at = "read"
  BY DEF SeenInv, TabTypes, OldGoes, Goes
<1>2. CASE fetch[t][q].at = "none" \/ cached[t][q].got
  BY <1>2, NoData DEF Anew
<1>3. CASE ~(fetch[t][q].at = "none" \/ cached[t][q].got)
  <2>1. Anew(t, q) = [fetch[t][q] EXCEPT !.kept = TRUE]
    BY <1>3 DEF Anew
  <2> QED  BY <1>1, <1>3, <2>1 DEF FetchRows
<1> QED  BY <1>2, <1>3

LEMMA AskStep ==
    ASSUME SeenInv, NEW t \in SyncTab, openOrFocus(t) \/ pollState(t)
    PROVE  TabTypes' /\ OldGoes'
<1>1. PICK Q \in {Query, {"state"}} :
          /\ fetch' = [fetch EXCEPT ![t] = Refetch(t, Q)]
          /\ UNCHANGED <<cached, command>>
  BY DEF openOrFocus, pollState
<1>2. \A s \in SyncTab, q \in Query : TookEffect(s, q)' = TookEffect(s, q)
  BY <1>1 DEF TookEffect
<1>3. \A q \in Query : /\ Refetch(t, Q)[q] \in FetchRows(Answer(q))
                       /\ Goes(cached[t][q], Refetch(t, Q)[q], TookEffect(t, q)')
  <2> SUFFICES ASSUME NEW q \in Query
               PROVE  /\ Refetch(t, Q)[q] \in FetchRows(Answer(q))
                      /\ Goes(cached[t][q], Refetch(t, Q)[q], TookEffect(t, q)')
    OBVIOUS
  <2>1. CASE q \in Q
    <3>1. Refetch(t, Q)[q] = Anew(t, q)
      BY <2>1 DEF Refetch
    <3> QED  BY <3>1, AnewIs DEF Goes
  <2>2. CASE q \notin Q
    <3>1. Refetch(t, Q)[q] = fetch[t][q]
      BY <2>2 DEF Refetch
    <3>2. /\ fetch[t][q] \in FetchRows(Answer(q))
          /\ Goes(cached[t][q], fetch[t][q], TookEffect(t, q))
      BY DEF SeenInv, TabTypes, OldGoes
    <3> QED  BY <1>2, <3>1, <3>2
  <2> QED  BY <2>1, <2>2
<1>4. Refetch(t, Q) = [q \in Query |-> Refetch(t, Q)[q]]
  BY DEF Refetch
<1>5. \A s \in SyncTab \ {t}, q \in Query : TookEffect(s, q) => TookEffect(s, q)'
  BY <1>2
<1>6. UNCHANGED cached /\ fetch' = [fetch EXCEPT ![t] = Refetch(t, Q)]
  BY <1>1
<1> HIDE DEF Refetch
<1> QED  BY <1>3, <1>4, <1>5, <1>6, FetchChanges

\* One query of a tab.
LEMMA OneQuery ==
    ASSUME NEW D, NEW g \in [Query -> D], NEW q \in Query, NEW r
    PROVE  LET f == [g EXCEPT ![q] = r] IN
           /\ f = [x \in Query |-> f[x]] /\ f[q] = r
           /\ \A x \in Query \ {q} : f[x] = g[x]
  OBVIOUS

LEMMA ServeStep ==
    ASSUME SeenInv, NEW t \in SyncTab, NEW q \in Query, serve(t, q)
    PROVE  TabTypes' /\ OldGoes'
<1> DEFINE r == IF syncConfig.exists
                THEN [fetch[t][q] EXCEPT !.at = "read", !.data = Answered(q)]
                ELSE [fetch[t][q] EXCEPT !.at = "failed"]
           f == [fetch[t] EXCEPT ![q] = r]
<1>0. fetch \in [SyncTab -> [Query -> FetchRows(Data)]]
  BY DEF SeenInv, TabTypes
<1>1. fetch' = [fetch EXCEPT ![t][q] = r] /\ UNCHANGED <<cached, command>>
  BY <1>0 DEF serve
<1>2. Answered(q) \in Answer(q)
  BY DEF SeenInv, PageInv, PageTypes, Configs, Answered, Answer, Query, getSyncConfiguration,
         getSyncState
<1>3. r \in FetchRows(Answer(q)) /\ ~r.old /\ r.at # "none"
  <2>1. fetch[t][q].at = "sent" /\ fetch[t][q] \in FetchRows(Answer(q)) /\ ~fetch[t][q].old
    BY DEF serve, SeenInv, TabTypes, OldGoes, Goes
  <2> QED  BY <1>2, <2>1 DEF FetchRows
<1> HIDE DEF r
<1>4. /\ fetch' = [fetch EXCEPT ![t] = f] /\ f = [x \in Query |-> f[x]] /\ f[q] = r
      /\ \A x \in Query \ {q} : f[x] = fetch[t][x]
  <2>1. fetch[t] \in [Query -> FetchRows(Data)]
    BY <1>0
  <2>2. fetch' = [fetch EXCEPT ![t] = f]
    BY <1>1
  <2> QED  BY <2>1, <2>2, OneQuery
<1> HIDE DEF f
<1>5. \A s \in SyncTab, x \in Query : TookEffect(s, x)' = TookEffect(s, x)
  BY <1>1 DEF TookEffect
<1>6. \A x \in Query : /\ f[x] \in FetchRows(Answer(x))
                       /\ Goes(cached[t][x], f[x], TookEffect(t, x)')
  <2> SUFFICES ASSUME NEW x \in Query
               PROVE  /\ f[x] \in FetchRows(Answer(x))
                      /\ Goes(cached[t][x], f[x], TookEffect(t, x)')
    OBVIOUS
  <2>1. CASE x = q
    BY <1>3, <1>4, <2>1 DEF Goes
  <2>2. CASE x # q
    <3>1. /\ fetch[t][x] \in FetchRows(Answer(x))
          /\ Goes(cached[t][x], fetch[t][x], TookEffect(t, x))
      BY DEF SeenInv, TabTypes, OldGoes
    <3> QED  BY <1>4, <1>5, <2>2, <3>1
  <2> QED  BY <2>1, <2>2
<1>7. \A s \in SyncTab \ {t}, x \in Query : TookEffect(s, x) => TookEffect(s, x)'
  BY <1>5
<1>8. UNCHANGED cached
  BY <1>1
<1>9. /\ fetch' = [fetch EXCEPT ![t] = f] /\ f = [x \in Query |-> f[x]]
  BY <1>4
<1> QED  BY <1>6, <1>7, <1>8, <1>9, FetchChanges

LEMMA ReceiveStep ==
    ASSUME SeenInv, NEW t \in SyncTab, NEW q \in Query, receive(t, q)
    PROVE  TabTypes' /\ OldGoes'
<1> DEFINE n == [got |-> TRUE, error |-> FALSE, data |-> fetch[t][q].data,
                 old |-> fetch[t][q].old, kept |-> fetch[t][q].kept]
           e == [cached[t][q] EXCEPT !.error = TRUE]
           r == IF fetch[t][q].at = "read" THEN n ELSE e
           c == [cached[t] EXCEPT ![q] = r]
           f == [fetch[t] EXCEPT ![q] = NoFetch(q)]
<1>0. /\ cached \in [SyncTab -> [Query -> Cached(Data)]]
      /\ fetch \in [SyncTab -> [Query -> FetchRows(Data)]]
      /\ cached[t][q] \in Cached(Answer(q)) /\ fetch[t][q] \in FetchRows(Answer(q))
  BY DEF SeenInv, TabTypes
<1>1. /\ cached' = [cached EXCEPT ![t][q] = r]
      /\ fetch' = [fetch EXCEPT ![t][q] = NoFetch(q)] /\ UNCHANGED command
  BY <1>0 DEF receive
<1>2. /\ r \in Cached(Answer(q))
      /\ r.old /\ ~r.error => fetch[t][q].old /\ r.kept = fetch[t][q].kept
  BY <1>0 DEF Cached, FetchRows
<1> HIDE DEF r
<1>3. /\ cached' = [cached EXCEPT ![t] = c] /\ c = [x \in Query |-> c[x]] /\ c[q] = r
      /\ \A x \in Query \ {q} : c[x] = cached[t][x]
  <2>1. cached[t] \in [Query -> Cached(Data)]
    BY <1>0
  <2>2. cached' = [cached EXCEPT ![t] = c]
    BY <1>1
  <2> QED  BY <2>1, <2>2, OneQuery
<1>4. /\ fetch' = [fetch EXCEPT ![t] = f] /\ f = [x \in Query |-> f[x]] /\ f[q] = NoFetch(q)
      /\ \A x \in Query \ {q} : f[x] = fetch[t][x]
  <2>1. fetch[t] \in [Query -> FetchRows(Data)]
    BY <1>0
  <2>2. fetch' = [fetch EXCEPT ![t] = f]
    BY <1>1
  <2> QED  BY <2>1, <2>2, OneQuery
<1> HIDE DEF c, f
<1>5. \A s \in SyncTab, x \in Query : TookEffect(s, x)' = TookEffect(s, x)
  BY <1>1 DEF TookEffect
<1>6. \A x \in Query : /\ c[x] \in Cached(Answer(x)) /\ f[x] \in FetchRows(Answer(x))
                       /\ Goes(c[x], f[x], TookEffect(t, x)')
  <2> SUFFICES ASSUME NEW x \in Query
               PROVE  /\ c[x] \in Cached(Answer(x)) /\ f[x] \in FetchRows(Answer(x))
                      /\ Goes(c[x], f[x], TookEffect(t, x)')
    OBVIOUS
  <2>1. /\ cached[t][x] \in Cached(Answer(x)) /\ fetch[t][x] \in FetchRows(Answer(x))
        /\ Goes(cached[t][x], fetch[t][x], TookEffect(t, x))
    BY DEF SeenInv, TabTypes, OldGoes
  <2>2. TookEffect(t, x)' = TookEffect(t, x)
    BY <1>5
  <2>3. CASE x = q
    <3>1. c[x] = r /\ f[x] = NoFetch(x)
      BY <1>3, <1>4, <2>3
    <3>2. NoFetch(x) \in FetchRows(Answer(x)) /\ ~NoFetch(x).old
      BY NoData
    <3>3. r.old => TookEffect(t, x) \/ r.error \/ r.kept
      BY <1>2, <2>1, <2>3 DEF Goes
    <3> QED  BY <1>2, <2>2, <2>3, <3>1, <3>2, <3>3 DEF Goes
  <2>4. CASE x # q
    <3>1. c[x] = cached[t][x] /\ f[x] = fetch[t][x]
      BY <1>3, <1>4, <2>4
    <3> QED  BY <2>1, <2>2, <3>1
  <2> QED  BY <2>3, <2>4
<1> QED  BY <1>3, <1>4, <1>5, <1>6, TabChanges

\* The answer to a command: what it changed is asked for again.
LEMMA AnswerStep ==
    ASSUME SeenInv, NEW t \in SyncTab, answered(t)
    PROVE  TabTypes' /\ OldGoes'
<1> DEFINE f == IF command[t].at = "ok"
                THEN Refetch(t, Changes(command[t].kind)) ELSE fetch[t]
<1>0. /\ fetch \in [SyncTab -> [Query -> FetchRows(Data)]] /\ command \in [SyncTab -> Commands]
  BY DEF SeenInv, TabTypes, PageInv, PageTypes
<1>1. fetch' = [fetch EXCEPT ![t] = f] /\ command' = [command EXCEPT ![t] = NoCommand]
      /\ UNCHANGED cached
  BY <1>0 DEF answered
<1>2. f = [q \in Query |-> f[q]]
  <2>1. fetch[t] = [q \in Query |-> fetch[t][q]]
    BY <1>0
  <2>2. Refetch(t, Changes(command[t].kind))
            = [q \in Query |-> Refetch(t, Changes(command[t].kind))[q]]
    BY DEF Refetch
  <2>3. CASE command[t].at = "ok"
    BY <2>2, <2>3
  <2>4. CASE command[t].at # "ok"
    BY <2>1, <2>4
  <2> QED  BY <2>3, <2>4
<1>3. \A q \in Query : f[q] = IF TookEffect(t, q) THEN Anew(t, q) ELSE fetch[t][q]
  <2>1. CASE command[t].at = "ok"
    BY <2>1 DEF TookEffect, Refetch
  <2>2. CASE command[t].at # "ok"
    BY <2>2 DEF TookEffect
  <2> QED  BY <2>1, <2>2
<1> HIDE DEF f
<1>4. \A s \in SyncTab \ {t}, q \in Query : TookEffect(s, q)' = TookEffect(s, q)
  BY <1>0, <1>1 DEF TookEffect
<1>5. \A q \in Query : /\ f[q] \in FetchRows(Answer(q))
                       /\ Goes(cached[t][q], f[q], TookEffect(t, q)')
  <2> SUFFICES ASSUME NEW q \in Query
               PROVE  /\ f[q] \in FetchRows(Answer(q))
                      /\ Goes(cached[t][q], f[q], TookEffect(t, q)')
    OBVIOUS
  <2>1. CASE TookEffect(t, q)
    <3>1. f[q] = Anew(t, q)
      BY <1>3, <2>1
    <3> QED  BY <3>1, AnewIs DEF Goes
  <2>2. CASE ~TookEffect(t, q)
    <3>1. f[q] = fetch[t][q]
      BY <1>3, <2>2
    <3>2. /\ fetch[t][q] \in FetchRows(Answer(q))
          /\ Goes(cached[t][q], fetch[t][q], TookEffect(t, q))
      BY DEF SeenInv, TabTypes, OldGoes
    <3> QED  BY <2>2, <3>1, <3>2 DEF Goes
  <2> QED  BY <2>1, <2>2
<1> QED  BY <1>1, <1>2, <1>4, <1>5, FetchChanges

\* A command takes effect.
LEMMA EffectStep ==
    ASSUME SeenInv, NEW t \in SyncTab, command[t].at # "ok", done(t)
    PROVE  TabTypes' /\ OldGoes'
<1> DEFINE Old(a, q) == IF q \in Changes(command[t].kind) THEN [a EXCEPT !.old = TRUE] ELSE a
           c == [q \in Query |-> Old(cached[t][q], q)]
           f == [q \in Query |-> IF fetch[t][q].at = "read" THEN Old(fetch[t][q], q)
                                 ELSE fetch[t][q]]
           Marked(q) == [fetch[t][q] EXCEPT !.old = TRUE]
<1>0. /\ cached \in [SyncTab -> [Query -> Cached(Data)]]
      /\ fetch \in [SyncTab -> [Query -> FetchRows(Data)]] /\ command \in [SyncTab -> Commands]
  BY DEF SeenInv, TabTypes, PageInv, PageTypes
<1>1. /\ cached' = [cached EXCEPT ![t] = c] /\ fetch' = [fetch EXCEPT ![t] = f]
      /\ command' = [command EXCEPT ![t].at = "ok"]
  BY <1>0 DEF done, goto
<1>2. /\ c = [q \in Query |-> c[q]] /\ f = [q \in Query |-> f[q]]
      /\ \A q \in Query : /\ c[q] \in {cached[t][q], [cached[t][q] EXCEPT !.old = TRUE]}
                          /\ \/ f[q] = fetch[t][q]
                             \/ fetch[t][q].at = "read" /\ f[q] = Marked(q)
                          /\ q \notin Changes(command[t].kind) =>
                                 c[q] = cached[t][q] /\ f[q] = fetch[t][q]
  OBVIOUS
<1> HIDE DEF c, f
<1>3. /\ \A q \in Query : TookEffect(t, q)' <=> q \in Changes(command[t].kind)
      /\ \A q \in Query : ~TookEffect(t, q)
      /\ \A s \in SyncTab \ {t}, q \in Query : TookEffect(s, q) => TookEffect(s, q)'
  <2>1. /\ command'[t].at = "ok" /\ command'[t].kind = command[t].kind
        /\ \A s \in SyncTab \ {t} : command'[s] = command[s]
    BY <1>0, <1>1 DEF Commands
  <2>2. \A s \in SyncTab \ {t}, q \in Query : TookEffect(s, q)' = TookEffect(s, q)
    BY <2>1 DEF TookEffect
  <2>3. \A q \in Query : TookEffect(t, q)' <=> q \in Changes(command[t].kind)
    BY <2>1 DEF TookEffect
  <2>4. \A q \in Query : ~TookEffect(t, q)
    BY DEF TookEffect
  <2> QED  BY <2>2, <2>3, <2>4
<1>4. \A q \in Query : c[q] \in Cached(Answer(q)) /\ f[q] \in FetchRows(Answer(q))
  <2>1. \A q \in Query : /\ cached[t][q] \in Cached(Answer(q))
                         /\ fetch[t][q] \in FetchRows(Answer(q))
    BY DEF SeenInv, TabTypes
  <2>2. ASSUME NEW D, NEW a \in Cached(D) PROVE [a EXCEPT !.old = TRUE] \in Cached(D)
    BY <2>2 DEF Cached
  <2>3. ASSUME NEW D, NEW a \in FetchRows(D) PROVE [a EXCEPT !.old = TRUE] \in FetchRows(D)
    BY <2>3 DEF FetchRows
  <2> QED  BY <1>2, <2>1, <2>2, <2>3
<1>5. \A q \in Query : Goes(c[q], f[q], TookEffect(t, q)')
  <2> SUFFICES ASSUME NEW q \in Query PROVE Goes(c[q], f[q], TookEffect(t, q)')
    OBVIOUS
  <2>1. /\ fetch[t][q] \in FetchRows(Answer(q))
        /\ Goes(cached[t][q], fetch[t][q], TookEffect(t, q))
    BY DEF SeenInv, TabTypes, OldGoes
  <2>2. CASE q \in Changes(command[t].kind)
    <3>1. f[q].old => f[q].at = "read"
      BY <1>2, <2>1 DEF Goes, FetchRows
    <3> QED  BY <1>3, <2>2, <3>1 DEF Goes
  <2>3. CASE q \notin Changes(command[t].kind)
    <3>1. c[q] = cached[t][q] /\ f[q] = fetch[t][q]
      BY <1>2, <2>3
    <3>2. TookEffect(t, q)' = TookEffect(t, q)
      BY <1>3, <2>3 DEF TookEffect
    <3> QED  BY <2>1, <3>1, <3>2
  <2> QED  BY <2>2, <2>3
<1>6. \A q \in Query : /\ c[q] \in Cached(Answer(q)) /\ f[q] \in FetchRows(Answer(q))
                       /\ Goes(c[q], f[q], TookEffect(t, q)')
  BY <1>4, <1>5
<1> QED  BY <1>1, <1>2, <1>3, <1>6, TabChanges

\* A handler takes effect, or goes on or refuses and leaves what the tabs have read.
LEMMA HandlerIs ==
    ASSUME PageInv, NEW t \in SyncTab, handleCommand(t)
    PROVE  /\ command[t].at \in {"check", "probe", "insert", "act"}
           /\ \/ done(t)
              \/ (/\ UNCHANGED pageVars
                  /\ \E at \in {"probe", "insert", "act", "refused"} : goto(t, at))
<1>1. ASSUME NEW kinds, NEW allowed \in BOOLEAN, found(t, kinds, allowed)
      PROVE  /\ command[t].at = "check"
             /\ UNCHANGED pageVars /\ \E at \in {"act", "refused"} : goto(t, at)
  BY <1>1 DEF found, is, refuse
<1>2. ASSUME NEW runs, engineActs(t, runs)
      PROVE  done(t) \/ (UNCHANGED pageVars /\ goto(t, "refused"))
  <2>1. CASE Allowed(command[t].kind)
    BY <1>2, <2>1 DEF engineActs
  <2>2. CASE ~Allowed(command[t].kind)
    BY <1>2, <2>2 DEF engineActs, refuse
  <2> QED  BY <2>1, <2>2
<1>3. CASE \/ createSyncConfiguration(t) \/ validateConnectionAccessibility(t)
           \/ insertSyncConfiguration(t)
  BY <1>3 DEF createSyncConfiguration, validateConnectionAccessibility, is, refuse,
              insertSyncConfiguration
<1>4. CASE updateSyncConfiguration(t) \/ deleteSyncConfiguration(t)
  <2>1. (~syncConfig.active) \in BOOLEAN
    OBVIOUS
  <2> QED  BY <1>1, <1>4, <2>1 DEF updateSyncConfiguration, deleteSyncConfiguration, is, refuse
<1>5. CASE lifecycle(t) \/ triggerSync(t)
  BY <1>1, <1>2, <1>5 DEF lifecycle, triggerSync, is
<1> QED  BY <1>3, <1>4, <1>5 DEF handleCommand

LEMMA HandlerKeeps ==
    ASSUME SeenInv, NEW t \in SyncTab, handleCommand(t)
    PROVE  TabTypes' /\ OldGoes'
<1>1. PageInv
  BY DEF SeenInv
<1>2. CASE done(t)
  BY <1>1, <1>2, HandlerIs, EffectStep
<1>3. CASE (UNCHANGED pageVars /\ \E at \in {"probe", "insert", "act", "refused"} : goto(t, at))
  <2>1. command \in [SyncTab -> Commands] /\ command[t].at # "ok"
    BY <1>1, HandlerIs DEF PageInv, PageTypes
  <2>2. \A s \in SyncTab, q \in Query : TookEffect(s, q) => TookEffect(s, q)'
    BY <1>3, <2>1 DEF goto, TookEffect
  <2> QED  BY <1>3, <2>2, TabsStay
<1> QED  BY <1>1, <1>2, <1>3, HandlerIs

LEMMA NoneChange == Changes("none") = {}
  BY DEF Changes

LEMMA SendKeeps ==
    ASSUME SeenInv, NEW t \in SyncTab, press(t) \/ onSubmit(t) \/ delete(t)
    PROVE  TabTypes' /\ OldGoes'
<1>1. PICK c : command[t].kind = "none" /\ UNCHANGED pageVars
               /\ command' = [command EXCEPT ![t] = c]
  BY DEF press, onSubmit, delete, send
<1>2. command \in [SyncTab -> Commands]
  BY DEF SeenInv, PageInv, PageTypes
<1>3. \A s \in SyncTab, q \in Query : TookEffect(s, q) => TookEffect(s, q)'
  BY <1>1, <1>2, NoneChange DEF TookEffect
<1> QED  BY <1>1, <1>3, TabsStay

LEMMA RestStep == PageInv /\ RestTypes /\ [SyncPageNext]_syncPageVars => RestTypes'
<1> SUFFICES ASSUME PageInv, RestTypes, [SyncPageNext]_syncPageVars PROVE RestTypes'
  OBVIOUS
<1> USE DEF RestTypes
<1>1. ASSUME UNCHANGED <<syncConns, syncRunning, sent, runEnds>> PROVE RestTypes'
  BY <1>1
<1>2. ASSUME NEW t \in SyncTab, openOrFocus(t) \/ pollState(t) \/ answered(t) PROVE RestTypes'
  BY <1>1, <1>2 DEF openOrFocus, pollState, answered, serverVars
<1>3. ASSUME NEW t \in SyncTab, NEW q \in Query, serve(t, q) \/ receive(t, q) PROVE RestTypes'
  BY <1>1, <1>3 DEF serve, receive, serverVars
<1>4. ASSUME NEW t \in SyncTab, press(t) \/ onSubmit(t) \/ delete(t)
      PROVE  RestTypes'
  <2>1. /\ sent < MaxCommands /\ sent' = sent + 1
        /\ UNCHANGED <<syncConns, syncRunning, runEnds>>
    <3>1. PICK c : send(t, c)
      BY <1>4 DEF press, onSubmit, delete
    <3> QED  BY <3>1 DEF send, serverVars
  <2>2. sent' \in 0 .. MaxCommands
    BY <2>1, PageBounds
  <2> QED  BY <2>1, <2>2
<1>6. ASSUME NEW t \in SyncTab, handleCommand(t) PROVE RestTypes'
  <2>1. ASSUME NEW kinds, NEW allowed \in BOOLEAN, found(t, kinds, allowed) PROVE RestTypes'
    BY <1>1, <2>1 DEF found, refuse, serverVars
  <2>2. ASSUME NEW runs, runs \subseteq BOOLEAN, engineActs(t, runs) PROVE RestTypes'
    BY <1>1, <2>2 DEF engineActs, refuse, serverVars
  <2>3. CASE \/ createSyncConfiguration(t) \/ validateConnectionAccessibility(t)
             \/ insertSyncConfiguration(t)
    BY <1>1, <2>3 DEF createSyncConfiguration, validateConnectionAccessibility, refuse,
                serverVars, insertSyncConfiguration
  <2>4. CASE updateSyncConfiguration(t) \/ deleteSyncConfiguration(t)
    <3>1. (~syncConfig.active) \in BOOLEAN
      OBVIOUS
    <3> QED  BY <1>1, <2>1, <2>4, <3>1
             DEF updateSyncConfiguration, deleteSyncConfiguration, refuse, serverVars
  <2>6. CASE lifecycle(t) \/ triggerSync(t)
    <3>1. RunsAfter(command[t].kind) \subseteq BOOLEAN /\ {TRUE} \subseteq BOOLEAN
      BY DEF RunsAfter
    <3> QED  BY <2>1, <2>2, <2>6, <3>1 DEF lifecycle, triggerSync
  <2> QED  BY <1>6, <2>3, <2>4, <2>6 DEF handleCommand
<1>7. CASE runStart
  BY <1>1, <1>7 DEF runStart
<1>8. CASE runEnd
  <2>1. /\ runEnds < MaxRunEnds /\ runEnds' = runEnds + 1 /\ syncRunning' = FALSE
        /\ UNCHANGED <<syncConns, sent>>
    BY <1>8 DEF runEnd
  <2>3. runEnds' \in 0 .. MaxRunEnds
    BY <2>1, PageBounds
  <2> QED  BY <2>1, <2>3
<1>9. ASSUME NEW c \in SyncConn, deleteConnection(c) PROVE RestTypes'
  BY <1>1, <1>9 DEF deleteConnection
<1>10. CASE UNCHANGED syncPageVars
  BY <1>1, <1>10 DEF syncPageVars, serverVars
<1> QED  BY <1>2, <1>3, <1>4, <1>6, <1>7, <1>8, <1>9, <1>10 DEF SyncPageNext

LEMMA SeenInvStep == SeenInv /\ [SyncPageNext]_syncPageVars => SeenInv'
<1> SUFFICES ASSUME SeenInv, [SyncPageNext]_syncPageVars PROVE SeenInv'
  OBVIOUS
<1>1. PageInv' /\ RestTypes'
  BY PageStep, RestStep DEF SeenInv
<1>2. TabTypes' /\ OldGoes'
  <2>1. ASSUME UNCHANGED <<pageVars, command>> PROVE TabTypes' /\ OldGoes'
    <3>1. \A t \in SyncTab, q \in Query : TookEffect(t, q) => TookEffect(t, q)'
      BY <2>1 DEF TookEffect
    <3> QED  BY <2>1, <3>1, TabsStay
  <2>2. CASE runStart \/ runEnd \/ \E c \in SyncConn : deleteConnection(c)
    BY <2>1, <2>2 DEF runStart, runEnd, deleteConnection
  <2>3. CASE UNCHANGED syncPageVars
    BY <2>1, <2>3 DEF syncPageVars
  <2> QED  BY <2>2, <2>3, AskStep, ServeStep, ReceiveStep, AnswerStep, HandlerKeeps, SendKeeps
           DEF SyncPageNext
<1> QED  BY <1>1, <1>2 DEF SeenInv

LEMMA SeenFromInv == SeenInv => SeesItsCommands /\ SyncPageTypeOK
<1> SUFFICES ASSUME SeenInv PROVE SeesItsCommands /\ SyncPageTypeOK
  OBVIOUS
<1>1. SeesItsCommands
  BY NoneChange DEF SeenInv, OldGoes, Goes, TookEffect, SeesItsCommands
<1>2. SyncPageTypeOK
  <2>1. \A t \in SyncTab : command[t].kind \in Command \cup {"none"}
    BY DEF SeenInv, PageInv, PageTypes, Commands
  <2>2. PageTypes /\ TabTypes /\ RestTypes
    BY DEF SeenInv, PageInv
  <2> QED  BY <2>1, <2>2 DEF PageTypes, Configs, TabTypes, Cached, FetchRows, RestTypes,
                          SyncPageTypeOK
<1> QED  BY <1>1, <1>2

-----------------------------------------------------------------------------
(* Export: what ended is one state of the database.                        *)


Responses == [headers : BOOLEAN, stalled : BOOLEAN,
              end : {"open", "ended", "cut", "status", "gone"}]
Going == {"begin", "table", "read", "write", "endTable"}

ExportTypes ==
    /\ dialect \in {"pg", "mysql"} /\ framed \in BOOLEAN /\ holding \in BOOLEAN
    /\ exporting \in Going \cup {"connect", "failed", "aborted", "done", "released"}
    /\ content \in Bodies /\ content \in states /\ states \subseteq Bodies
    /\ snapshot \in Bodies \cup {<<>>}
    /\ nth \in 1 .. Len(ExportTables) + 1
    /\ unread \in Rows /\ batch \in Rows /\ body \in Bodies /\ response \in Responses
    /\ Len(batch) <= BatchSize

\* The tables behind it are as they were, those before it have not begun, and the one it is
\* at is split in what was sent, gathered and left.
ExportInv ==
    /\ ExportTypes
    /\ exporting \in {"connect", "begin"} => nth = 1
    /\ exporting \in {"read", "write", "endTable"} => nth <= Len(ExportTables)
    /\ exporting \in Going =>
           /\ snapshot \in states
           /\ \A i \in 1 .. Len(ExportTables) :
                  i < nth => body[ExportTables[i]] = snapshot[ExportTables[i]]
    /\ exporting \in Going \cup {"connect"} =>
           \A i \in 1 .. Len(ExportTables) :
               i > nth \/ (i = nth /\ exporting \in {"connect", "begin", "table"}) =>
                   body[ExportTables[i]] = <<>>
    /\ exporting \in {"read", "write"} =>
           (body[current] \o batch) \o unread = snapshot[current]
    /\ exporting = "read" => IF dialect = "pg" THEN batch = <<>> ELSE Len(batch) < BatchSize
    /\ exporting = "write" /\ Len(batch) < BatchSize => unread = <<>>
    /\ exporting = "endTable" => body[current] = snapshot[current]
    /\ response.end = "ended" => body \in states /\ exporting \in {"done", "released"}

\* No two tables of the request are equal.
LEMMA TablesDiffer ==
    /\ \A i \in 1 .. Len(ExportTables) : ExportTables[i] \in ExportTable
    /\ \A t \in ExportTable : \E i \in 1 .. Len(ExportTables) : ExportTables[i] = t
    /\ \A i, k \in 1 .. Len(ExportTables) : ExportTables[i] = ExportTables[k] => i = k
    /\ Len(ExportTables) \in Nat
<1> DEFINE n == Len(ExportTables)
<1>1. n \in Nat /\ DOMAIN ExportTables = 1 .. n /\ ExportTables \in [1 .. n -> ExportTable]
  BY ExportAssumption
<1>2. \A t \in ExportTable : \E i \in 1 .. n : ExportTables[i] = t
  BY <1>1 DEF ExportTable
<1>3. ExportTables \in Surjection(1 .. n, ExportTable)
  BY <1>1, <1>2 DEF Surjection
<1>4. IsFiniteSet(1 .. n) /\ Cardinality(1 .. n) = n
  BY <1>1, FS_Interval
<1>5. ExportTables \in Injection(1 .. n, ExportTable)
  BY <1>3, <1>4, FS_Surjection, ExportAssumption
<1> QED  BY <1>1, <1>2, <1>5 DEF Injection, IsInjective

LEMMA ExportInvInit == ExportInit => ExportInv
<1> SUFFICES ASSUME ExportInit PROVE ExportInv
  OBVIOUS
<1>1. /\ dialect \in {"pg", "mysql"} /\ framed \in BOOLEAN /\ holding = FALSE
      /\ content \in Contents /\ states = {content} /\ snapshot = <<>>
      /\ exporting = "connect" /\ nth = 1 /\ unread = <<>> /\ batch = <<>>
      /\ body = [t \in ExportTable |-> <<>>]
      /\ response = [headers |-> FALSE, stalled |-> FALSE, end |-> "open"]
  BY DEF ExportInit
<1>2. <<>> \in Rows /\ Len(<<>>) = 0 /\ 0 <= BatchSize
  BY ExportAssumption DEF Rows
<1>3. Contents \subseteq Bodies
  <2>1. ASSUME NEW n \in Nat, NEW s \in [1 .. n -> ExportRow] PROVE s \in Rows
    BY <2>1 DEF Rows
  <2>2. \A n \in 0 .. Cardinality(ExportRow) : n \in Nat
    OBVIOUS
  <2>3. UNION {[1 .. n -> ExportRow] : n \in 0 .. Cardinality(ExportRow)} \subseteq Rows
    BY <2>1, <2>2
  <2> QED  BY <2>3 DEF Contents, Bodies
<1>4. response \in Responses /\ response.end = "open"
  BY <1>1 DEF Responses
<1>5. body \in Bodies /\ \A i \in 1 .. Len(ExportTables) : body[ExportTables[i]] = <<>>
  BY <1>1, <1>2, TablesDiffer DEF Bodies
<1>6. 1 \in 1 .. Len(ExportTables) + 1
  BY TablesDiffer
<1>7. ExportTypes
  BY <1>1, <1>2, <1>3, <1>4, <1>5, <1>6 DEF ExportTypes
<1> QED  BY <1>1, <1>4, <1>5, <1>7 DEF ExportInv, Going

LEMMA RowsAssociate ==
    ASSUME NEW a \in Rows, NEW b \in Rows, NEW c \in Rows
    PROVE  (a \o b) \o c = a \o (b \o c)
<1>1. a \in Seq(ExportRow) /\ b \in Seq(ExportRow) /\ c \in Seq(ExportRow)
  BY DEF Rows
<1> QED  BY <1>1, ConcatAssociative

\* Reading: what is gathered and what is left are what was left.
LEMMA Split ==
    ASSUME NEW b \in Rows, NEW u \in Rows, NEW m \in 0 .. Len(u)
    PROVE  /\ b \o SubSeq(u, 1, m) \in Rows /\ SubSeq(u, m + 1, Len(u)) \in Rows
           /\ Len(b \o SubSeq(u, 1, m)) = Len(b) + m
           /\ \A a \in Rows :
                  (a \o (b \o SubSeq(u, 1, m))) \o SubSeq(u, m + 1, Len(u)) = (a \o b) \o u
           /\ m = Len(u) => SubSeq(u, m + 1, Len(u)) = <<>>
<1> DEFINE s == SubSeq(u, 1, m)
           v == SubSeq(u, m + 1, Len(u))
<1>1. Len(u) \in Nat /\ m \in 0 .. Len(u)
  BY DEF Rows
<1>2. /\ s \in Rows /\ v \in Rows /\ Len(s) = m
  <2>1. \A i \in 1 .. Len(u) : u[i] \in ExportRow
    BY DEF Rows
  <2>2. s \in Rows /\ Len(s) = m
    BY <1>1, <2>1, SubSeqProperties DEF Rows
  <2>3. v \in Rows
    BY <1>1, <2>1, SubSeqProperties DEF Rows
  <2> QED  BY <2>2, <2>3
<1>3. s \o v = u
  <2>1. SubSeq(u, 1, m) \o SubSeq(u, m + 1, Len(u)) = SubSeq(u, 1, Len(u))
    <3>1. /\ u \in Seq(ExportRow) /\ 1 \in 1 .. Len(u) + 1 /\ m \in 1 - 1 .. Len(u)
          /\ Len(u) \in m .. Len(u)
      BY <1>1 DEF Rows
    <3> QED  BY <3>1, ConcatAdjacentSubSeq
  <2> QED  BY <2>1, SubSeqFull DEF Rows
<1>4. m = Len(u) => v = <<>>
  BY <1>1, SubSeqEmpty
<1> HIDE DEF s, v
<1>5. b \o s \in Rows /\ Len(b \o s) = Len(b) + m
  BY <1>2, ConcatProperties DEF Rows
<1>6. ASSUME NEW a \in Rows PROVE (a \o (b \o s)) \o v = (a \o b) \o u
  <2>1. a \o b \in Rows
    BY ConcatProperties DEF Rows
  <2>2. a \o (b \o s) = (a \o b) \o s
    BY <1>2, RowsAssociate
  <2>3. ((a \o b) \o s) \o v = (a \o b) \o (s \o v)
    BY <1>2, <2>1, RowsAssociate
  <2> QED  BY <1>3, <2>2, <2>3
<1> QED  BY <1>2, <1>4, <1>5, <1>6 DEF s, v

\* The application writes, the client drains or leaves: the export itself stays.
LEMMA ExportCalm ==
    ASSUME ExportInv, ExportTypes',
           UNCHANGED <<dialect, snapshot, exporting, nth, unread, batch, body>>,
           states \subseteq states', response'.end = "ended" => response.end = "ended"
    PROVE  ExportInv'
<1>1. current' = current
  BY DEF current
<1> QED  BY <1>1 DEF ExportInv

\* It is over, one way or another.
LEMMA ExportStops ==
    ASSUME ExportInv, ExportTypes', exporting' \in {"failed", "aborted", "done", "released"},
           UNCHANGED <<states, body>>,
           response'.end = "ended" => body \in states /\ exporting' \in {"done", "released"}
    PROVE  ExportInv'
  BY DEF ExportInv, Going

LEMMA ExportInvStep == ExportInv /\ [ExportNext]_exportVars => ExportInv'
<1> SUFFICES ASSUME ExportInv, [ExportNext]_exportVars PROVE ExportInv'
  OBVIOUS
<1> USE ExportAssumption
<1> DEFINE N == Len(ExportTables)
<1>0. ExportTypes /\ <<>> \in Rows /\ Len(<<>>) = 0 /\ N \in Nat
  BY TablesDiffer DEF ExportInv, Rows
<1>r. ASSUME NEW full \in BOOLEAN
      PROVE  Written(full) \in Responses /\ Written(full).end = response.end
  BY <1>0 DEF Written, ExportTypes, Responses
<1>1. ASSUME NEW t \in ExportTable, NEW u \in ExportTable, appWrite(t, u) PROVE ExportInv'
  <2>1. /\ t # u /\ content[t] # <<>> /\ states' = states \cup {content'}
        /\ content' = [content EXCEPT ![t] = Tail(@), ![u] = Append(@, Head(content[t]))]
        /\ UNCHANGED <<choices, snapshot, exporting, nth, unread, batch, body, response, holding>>
    BY <1>1 DEF appWrite
  <2>2. /\ Tail(content[t]) \in Rows /\ Head(content[t]) \in ExportRow
        /\ Append(content[u], Head(content[t])) \in Rows
    <3>1. content[t] \in Seq(ExportRow) /\ content[u] \in Seq(ExportRow)
      BY <1>0 DEF ExportTypes, Bodies, Rows
    <3> QED  BY <2>1, <3>1, HeadTailProperties, AppendProperties DEF Rows
  <2>3. content' \in Bodies
    <3>1. content' = [x \in ExportTable |->
                         IF x = u THEN Append(content[u], Head(content[t]))
                         ELSE IF x = t THEN Tail(content[t]) ELSE content[x]]
      BY <1>0, <2>1 DEF ExportTypes, Bodies
    <3> QED  BY <1>0, <2>2, <3>1 DEF ExportTypes, Bodies
  <2>4. ExportTypes'
    BY <1>0, <2>1, <2>3 DEF ExportTypes, choices
  <2> QED  BY <2>1, <2>4, ExportCalm DEF choices
<1>2. CASE beginSnapshot
  <2>1. /\ exporting = "connect" /\ exporting' = "begin" /\ snapshot' = content /\ holding' = TRUE
        /\ UNCHANGED <<dialect, framed, content, states, nth, unread, batch, body, response>>
    BY <1>2 DEF beginSnapshot, choices, database
  <2>2. ExportTypes'
    BY <1>0, <2>1 DEF ExportTypes, Going
  <2> QED  BY <2>1, <2>2 DEF ExportInv, ExportTypes, Going
<1>3. CASE writeBegin
  <2>1. /\ exporting = "begin" /\ exporting' \in {"table", "aborted"}
        /\ response' = response \/ \E full \in BOOLEAN : response' = Written(full)
        /\ UNCHANGED <<dialect, framed, content, states, snapshot, nth, unread, batch,
                       body, holding>>
    BY <1>3 DEF writeBegin, abort, choices, database
  <2>2. response' \in Responses /\ response'.end = response.end
    BY <1>0, <1>r, <2>1 DEF ExportTypes
  <2>3. ExportTypes'
    BY <1>0, <2>1, <2>2 DEF ExportTypes, Going
  <2> QED  BY <1>0, <2>1, <2>2, <2>3 DEF ExportInv, Going
<1>4. CASE writeTable
  <2>1. /\ exporting = "table" /\ exporting' \in {"read", "aborted"} /\ nth <= N
        /\ unread' = IF snapshot = <<>> THEN content[current] ELSE snapshot[current]
        /\ batch' = <<>>
        /\ response' = response \/ \E full \in BOOLEAN : response' = Written(full)
        /\ UNCHANGED <<dialect, framed, content, states, snapshot, nth, body, holding>>
    BY <1>4 DEF writeTable, abort, choices, database
  <2>2. response' \in Responses /\ response'.end = response.end
    BY <1>0, <1>r, <2>1 DEF ExportTypes
  <2>3. nth \in 1 .. N /\ current \in ExportTable
    BY <1>0, <2>1, TablesDiffer DEF ExportTypes, current
  <2>4. snapshot \in Bodies /\ snapshot # <<>>
    <3>1. snapshot \in Bodies
      BY <1>0, <2>1 DEF ExportInv, ExportTypes, Going
    <3>2. DOMAIN snapshot = ExportTable /\ DOMAIN <<>> = {}
      BY <3>1 DEF Bodies
    <3> QED  BY <2>3, <3>1, <3>2
  <2>5. unread' = snapshot[current] /\ unread' \in Rows
    BY <2>1, <2>3, <2>4 DEF Bodies
  <2>6. ExportTypes'
    BY <1>0, <2>1, <2>2, <2>5 DEF ExportTypes, Going
  <2>7. CASE exporting' = "aborted"
    BY <2>1, <2>2, <2>6, <2>7, ExportStops DEF ExportInv
  <2>8. CASE exporting' = "read"
    <3>1. body[current] = <<>>
      BY <2>1, <2>3 DEF ExportInv, Going, current
    <3>2. (body'[current'] \o batch') \o unread' = snapshot'[current']
      <4>1. current' = current
        BY <2>1 DEF current
      <4>2. (<<>> \o <<>>) \o unread' = unread'
        BY <1>0, <2>5, ConcatEmptySeq DEF Rows
      <4> QED  BY <2>1, <2>5, <3>1, <4>1, <4>2
    <3>3. Len(batch') < BatchSize
      BY <1>0, <2>1
    <3> QED  BY <2>1, <2>2, <2>6, <2>8, <3>2, <3>3 DEF ExportInv, Going
  <2> QED  BY <2>1, <2>7, <2>8
<1>5. CASE writeEnd
  <2>1. /\ exporting = "table" /\ exporting' \in {"done", "aborted"} /\ nth > N
        /\ \/ response' = response
           \/ exporting' = "done"
              /\ response' = [response EXCEPT !.headers = TRUE, !.end = "ended"]
        /\ UNCHANGED <<dialect, framed, content, states, snapshot, nth, unread, batch,
                       body, holding>>
    BY <1>5 DEF writeEnd, choices, database
  <2>2. response' \in Responses
    BY <1>0, <2>1 DEF ExportTypes, Responses
  <2>3. ExportTypes'
    BY <1>0, <2>1, <2>2 DEF ExportTypes, Going
  <2>4. body \in states
    <3>1. body \in Bodies /\ snapshot \in Bodies /\ snapshot \in states
      BY <1>0, <2>1 DEF ExportInv, ExportTypes, Going
    <3>2. \A t \in ExportTable : body[t] = snapshot[t]
      <4>1. \A i \in 1 .. N : i < nth
        BY <1>0, <2>1 DEF ExportTypes
      <4>2. \A i \in 1 .. N : body[ExportTables[i]] = snapshot[ExportTables[i]]
        BY <2>1, <4>1 DEF ExportInv, Going
      <4> QED  BY <4>2, TablesDiffer
    <3>3. body = snapshot
      BY <3>1, <3>2 DEF Bodies
    <3> QED  BY <3>1, <3>3
  <2>5. response'.end = "ended" => exporting' \in {"done", "released"}
    BY <2>1 DEF ExportInv
  <2> QED  BY <2>1, <2>3, <2>4, <2>5, ExportStops
<1>6. CASE readRows
  <2> DEFINE n == IF dialect = "mysql" THEN 1 ELSE BatchSize
             more == IF Len(unread) < n THEN Len(unread) ELSE n
  <2>1. /\ exporting = "read" /\ batch' = batch \o SubSeq(unread, 1, more)
        /\ unread' = SubSeq(unread, more + 1, Len(unread))
        /\ exporting' = IF dialect = "pg" \/ Len(batch') >= BatchSize \/ unread = <<>>
                        THEN "write" ELSE "read"
        /\ UNCHANGED <<dialect, framed, content, states, snapshot, nth, body, response, holding>>
    BY <1>6 DEF readRows, choices, database
  <2>2. n \in Nat /\ more \in Nat /\ more <= n /\ Len(unread) \in Nat /\ Len(batch) \in Nat
    BY <1>0 DEF ExportTypes, Rows
  <2>3. nth \in 1 .. N /\ current \in ExportTable /\ current' = current /\ body[current] \in Rows
    BY <1>0, <2>1, TablesDiffer DEF ExportInv, ExportTypes, Bodies, current
  <2>4. /\ batch' \in Rows /\ unread' \in Rows /\ Len(batch') = Len(batch) + more
        /\ (body[current] \o batch') \o unread' = (body[current] \o batch) \o unread
        /\ Len(unread) <= n => unread' = <<>>
    <3>1. batch \in Rows /\ unread \in Rows
      BY <1>0 DEF ExportTypes
    <3>0. more \in 0 .. Len(unread) /\ (Len(unread) <= n => more = Len(unread))
      BY <2>2
    <3> HIDE DEF n, more
    <3>2. /\ batch \o SubSeq(unread, 1, more) \in Rows
          /\ SubSeq(unread, more + 1, Len(unread)) \in Rows
          /\ Len(batch \o SubSeq(unread, 1, more)) = Len(batch) + more
          /\ \A a \in Rows : (a \o (batch \o SubSeq(unread, 1, more)))
                              \o SubSeq(unread, more + 1, Len(unread)) = (a \o batch) \o unread
          /\ more = Len(unread) => SubSeq(unread, more + 1, Len(unread)) = <<>>
      <4>1. PICK b \in Rows, u \in Rows : b = batch /\ u = unread
        BY <3>1
      <4>2. PICK m \in 0 .. Len(u) : m = more
        BY <3>0, <4>1
      <4>3. /\ b \o SubSeq(u, 1, m) \in Rows /\ SubSeq(u, m + 1, Len(u)) \in Rows
            /\ Len(b \o SubSeq(u, 1, m)) = Len(b) + m
            /\ \A a \in Rows :
                   (a \o (b \o SubSeq(u, 1, m))) \o SubSeq(u, m + 1, Len(u)) = (a \o b) \o u
            /\ m = Len(u) => SubSeq(u, m + 1, Len(u)) = <<>>
        BY Split, ZenonT(30)
      <4> QED  BY <4>1, <4>2, <4>3
    <3> QED  BY <2>1, <2>3, <3>0, <3>2
  <2>5. /\ dialect = "pg" => batch = <<>> /\ n = BatchSize
        /\ dialect # "pg" => Len(batch) < BatchSize /\ n = 1
    BY <1>0, <2>1 DEF ExportInv, ExportTypes
  <2>6. /\ Len(batch') <= BatchSize
        /\ exporting' = "write" /\ Len(batch') < BatchSize => unread' = <<>>
        /\ exporting' = "read" => dialect # "pg" /\ Len(batch') < BatchSize
    <3>1. CASE dialect = "pg"
      <4>1. Len(batch) = 0 /\ n = BatchSize /\ exporting' = "write"
        BY <1>0, <2>1, <2>5, <3>1
      <4>2. Len(batch') = more
        BY <2>2, <2>4, <4>1
      <4>3. more < n => Len(unread) <= n
        BY <2>2
      <4> HIDE DEF more, n
      <4> QED  BY <2>2, <2>4, <4>1, <4>2, <4>3
    <3>2. CASE dialect # "pg"
      <4>1. Len(batch) < BatchSize /\ n = 1 /\ more <= 1
        BY <2>2, <2>5, <3>2
      <4>2. unread = <<>> => Len(unread) = 0
        OBVIOUS
      <4>3. exporting' = "write" => Len(batch') >= BatchSize \/ unread = <<>>
        BY <2>1, <3>2
      <4>4. exporting' = "read" => ~(Len(batch') >= BatchSize)
        BY <2>1
      <4> HIDE DEF more, n
      <4> QED  BY <2>2, <2>4, <3>2, <4>1, <4>2, <4>3, <4>4
    <3> QED  BY <3>1, <3>2
  <2> HIDE DEF n, more
  <2>7. ExportTypes'
    BY <1>0, <2>1, <2>4, <2>6 DEF ExportTypes, Going
  <2>8. (body'[current'] \o batch') \o unread' = snapshot'[current']
    BY <2>1, <2>3, <2>4 DEF ExportInv
  <2> QED  BY <2>1, <2>6, <2>7, <2>8 DEF ExportInv, Going
<1>7. CASE writeRows
  <2>0. exporting = "write"
        /\ UNCHANGED <<dialect, framed, content, states, snapshot, nth, unread, holding>>
    BY <1>7 DEF writeRows, choices, database
  <2>1. CASE response.end = "gone"
    <3>1. exporting' = "aborted" /\ UNCHANGED <<batch, body, response>>
      BY <1>7, <2>1 DEF writeRows
    <3>2. ExportTypes'
      BY <1>0, <2>0, <3>1 DEF ExportTypes
    <3> QED  BY <2>0, <2>1, <3>1, <3>2, ExportStops
  <2>2. CASE response.end # "gone"
    <3>1. /\ body' = [body EXCEPT ![current] = @ \o batch] /\ batch' = <<>>
          /\ exporting' = IF Len(batch) < BatchSize THEN "endTable" ELSE "read"
          /\ \E full \in BOOLEAN : response' = Written(full)
      BY <1>7, <2>2 DEF writeRows
    <3>2. response' \in Responses /\ response'.end = response.end
      BY <1>r, <3>1
    <3>3. nth \in 1 .. N /\ current \in ExportTable /\ current' = current
      BY <1>0, <2>0, TablesDiffer DEF ExportInv, ExportTypes, current
    <3>4. body[current] \in Rows /\ body[current] \o batch \in Rows
      <4>1. body[current] \in Rows
        BY <1>0, <3>3 DEF ExportTypes, Bodies
      <4> QED  BY <1>0, <4>1, ConcatProperties DEF ExportTypes, Rows
    <3>5. /\ body' \in Bodies /\ body'[current] = body[current] \o batch
          /\ \A t \in ExportTable \ {current} : body'[t] = body[t]
      BY <1>0, <3>1, <3>3, <3>4 DEF ExportTypes, Bodies
    <3>6. ExportTypes'
      BY <1>0, <2>0, <3>1, <3>2, <3>5 DEF ExportTypes, Going
    <3>7. \A i \in 1 .. N : i # nth => body'[ExportTables[i]] = body[ExportTables[i]]
      BY <3>3, <3>5, TablesDiffer DEF current
    <3>8. /\ (body[current] \o batch) \o <<>> = body[current] \o batch
          /\ ((body[current] \o batch) \o <<>>) \o unread = (body[current] \o batch) \o unread
      BY <3>4, ConcatEmptySeq DEF Rows
    <3>9. (body[current] \o batch) \o unread = snapshot[current]
      BY <2>0 DEF ExportInv
    <3>10. CASE Len(batch) < BatchSize
      <4>1. exporting' = "endTable" /\ unread = <<>>
        BY <2>0, <3>1, <3>10 DEF ExportInv
      <4>2. body'[current'] = snapshot'[current']
        BY <2>0, <3>3, <3>5, <3>8, <3>9, <4>1
      <4> QED  BY <2>0, <3>2, <3>3, <3>6, <3>7, <4>1, <4>2 DEF ExportInv, Going
    <3>11. CASE ~(Len(batch) < BatchSize)
      <4>1. exporting' = "read" /\ batch' = <<>> /\ Len(batch') < BatchSize
        BY <1>0, <3>1, <3>11
      <4>2. (body'[current'] \o batch') \o unread' = snapshot'[current']
        BY <2>0, <3>3, <3>5, <3>8, <3>9, <4>1
      <4>3. /\ snapshot' \in states' /\ nth' <= N
            /\ \A i \in 1 .. N : i < nth' => body'[ExportTables[i]] = snapshot'[ExportTables[i]]
            /\ \A i \in 1 .. N : i > nth' => body'[ExportTables[i]] = <<>>
        BY <2>0, <3>3, <3>7 DEF ExportInv, Going
      <4>4. response'.end # "ended"
        BY <2>0, <3>2 DEF ExportInv
      <4> QED  BY <3>6, <4>1, <4>2, <4>3, <4>4 DEF ExportInv, Going
    <3> QED  BY <3>10, <3>11
  <2> QED  BY <2>1, <2>2
<1>8. CASE endTable
  <2>1. /\ exporting = "endTable" /\ exporting' \in {"table", "aborted"} /\ nth' = nth + 1
        /\ UNCHANGED <<dialect, framed, content, states, snapshot, unread, batch,
                       body, response, holding>>
    BY <1>8 DEF endTable, abort, choices, database
  <2>2. nth \in 1 .. N
    BY <1>0, <2>1 DEF ExportInv, ExportTypes
  <2>3. ExportTypes'
    BY <1>0, <2>1, <2>2 DEF ExportTypes, Going
  <2>4. body[ExportTables[nth]] = snapshot[ExportTables[nth]]
    BY <2>1 DEF ExportInv, current
  <2>5. \A i \in 1 .. N : (i < nth' => i < nth \/ i = nth) /\ (i > nth' \/ i = nth' => i > nth)
    BY <2>1, <2>2
  <2> QED  BY <2>1, <2>3, <2>4, <2>5 DEF ExportInv, Going
<1>9. CASE fail
  <2>1. /\ exporting = "failed" /\ exporting' = "done"
        /\ response' \in {response, [response EXCEPT !.end = "cut"],
                          [response EXCEPT !.end = "status"]}
        /\ UNCHANGED <<dialect, framed, content, states, snapshot, nth, unread, batch,
                       body, holding>>
    BY <1>9 DEF fail, choices, database
  <2>2. response' \in Responses /\ (response'.end = "ended" => response.end = "ended")
    BY <1>0, <2>1 DEF ExportTypes, Responses
  <2>3. ExportTypes'
    BY <1>0, <2>1, <2>2 DEF ExportTypes
  <2> QED  BY <2>1, <2>2, <2>3, ExportStops DEF ExportInv
<1>10. CASE release \/ queryFails
  <2>1. /\ \/ exporting' = "released"
           \/ exporting' = "failed" /\ exporting \in {"connect", "table", "read", "endTable"}
        /\ holding' \in BOOLEAN
        /\ UNCHANGED <<dialect, framed, content, states, snapshot, nth, unread, batch,
                       body, response>>
    BY <1>10 DEF release, queryFails, choices, database
  <2>2. ExportTypes'
    BY <1>0, <2>1 DEF ExportTypes
  <2> QED  BY <2>1, <2>2, ExportStops DEF ExportInv
<1>11. CASE drain \/ clientLeaves
  <2>1. /\ response' \in {[response EXCEPT !.stalled = FALSE],
                          [response EXCEPT !.end = "gone", !.stalled = FALSE]}
        /\ UNCHANGED <<dialect, framed, content, states, snapshot, exporting, nth, unread, batch,
                       body, holding>>
    BY <1>11 DEF drain, clientLeaves, choices, database
  <2>2. response' \in Responses /\ (response'.end = "ended" => response.end = "ended")
    BY <1>0, <2>1 DEF ExportTypes, Responses
  <2>3. ExportTypes'
    BY <1>0, <2>1, <2>2 DEF ExportTypes
  <2> QED  BY <2>1, <2>2, <2>3, ExportCalm
<1>12. CASE UNCHANGED exportVars
  <2>1. ExportTypes'
    BY <1>0, <1>12 DEF ExportTypes, exportVars
  <2> QED  BY <1>12, <2>1, ExportCalm DEF exportVars
<1> QED  BY <1>1, <1>2, <1>3, <1>4, <1>5, <1>6, <1>7, <1>8, <1>9, <1>10, <1>11, <1>12
         DEF ExportNext, ExportStep

LEMMA WholeFromInv == ExportInv => WholeOrCut /\ ExportTypeOK
  BY DEF ExportInv, ExportTypes, WholeOrCut, ExportTypeOK, Going, Responses

-----------------------------------------------------------------------------
(* Migrations: what completed is what was read.                            *)

MigRows == Seq(MigRow)
Tables == [MigTable -> MigRows]
MigSteps == {"idle", "begin", "schema", "create", "copy", "complete", "fail", "done",
             "failed"}
MigPlaces == 1 .. Len(TableOf)
MigRuns == [pc : MigSteps, i : Nat, n : Nat, seen : Tables \cup {<<>>}]
MigJobs == [st : {"none", "waiting", "active", "completed", "failed"}, tries : 0 .. 2,
            stalls : 0 .. MaxStalls + 1, holder : MigWorker \cup {Nobody}]
Copying == {"schema", "create", "copy", "complete"}

Distinct(s) == \A j, k \in 1 .. Len(s) : s[j] = s[k] => j = k

MigTypes ==
    /\ kind \in MigKinds
    /\ migration \in {"NONE", "PENDING", "RUNNING", "COMPLETED", "FAILED"}
    /\ mjob \in MigJobs
    /\ mrun \in [MigWorker -> MigRuns]
    /\ \A w \in MigWorker : mrun[w].pc \in Copying =>
           mrun[w].i \in MigPlaces /\ mrun[w].n >= 1 /\ mrun[w].seen \in Tables
    /\ source \in Tables
    /\ target \in [MigTable -> MigRows \cup {Absent}]
    /\ \A t \in Keyed : target[t] # Absent => Distinct(target[t])
    /\ deleting \in BOOLEAN /\ forsaken \in BOOLEAN /\ disturbed \in BOOLEAN
    /\ verdict \in {"NONE", "OK", "MISMATCH"}

\* The attempts are bounded while the job is in the queue; a job that nobody holds
\* is not active.
MigJobInv ==
    /\ mjob.st \in {"none", "waiting", "active"} => mjob.tries <= 1
    /\ mjob.holder # Nobody => mjob.st = "active"
    /\ mjob.st = "none" => migration = "NONE" /\ \A w \in MigWorker : mrun[w].pc = "idle"

\* What a table of the target held before, as far as it stays.
BaseOf(k, t) == IF k.engines # "PG" \/ t \notin k.before THEN <<>> ELSE <<OldRow>>

\* The rows s of table t are those before, b, and the first n - 1 of R; or a row that is
\* still to come is there already, and its key will end the attempt.
AtRow(t, b, R, s, n) ==
    \/ s = b \o SubSeq(R, 1, n - 1)
    \/ t \in Keyed /\ \E k \in n .. Len(R) : R[k] \in Holds(s)

\* The target of a run at table i and row n that reads R.
RunIs(k, r, R, T) ==
    /\ r.pc = "schema" =>
           /\ k.engines = "PG" /\ r.i = 1 /\ r.n = 1
           /\ \A t \in MigTable : T[t] = Absent \/ AtRow(t, BaseOf(k, t), R[t], T[t], 1)
    /\ r.pc = "create" => r.n = 1
    /\ r.pc \in {"create", "copy"} =>
           \A j \in MigPlaces : j < r.i =>
               T[TableOf[j]] = BaseOf(k, TableOf[j]) \o R[TableOf[j]]
    /\ r.pc = "copy" =>
           /\ r.n <= Len(R[TableOf[r.i]]) + 1
           /\ LET t == TableOf[r.i] IN AtRow(t, BaseOf(k, t), R[t], T[t], r.n)
           /\ k.engines = "PG" =>
                  \A j \in MigPlaces : j > r.i =>
                      LET t == TableOf[j] IN AtRow(t, BaseOf(k, t), R[t], T[t], 1)
    /\ r.pc = "complete" => \A t \in MigTable : T[t] = BaseOf(k, t) \o R[t]

\* One run at a time, that is where its program counter says; what a PostgreSQL target
\* held stays at the front.
Calm ==
    /\ \A v, w \in MigWorker : mrun[v].pc # "idle" /\ mrun[w].pc # "idle" => v = w
    /\ \A w \in MigWorker : mrun[w].pc \in Copying =>
           migration \in {"RUNNING", "NONE"}
    /\ \A w \in MigWorker : mrun[w].pc = "create" => kind.engines # "PG"
    /\ kind.engines = "PG" => \A t \in kind.before :
           target[t] # <<>> /\ target[t][1] = OldRow
    /\ migration = "RUNNING" =>
           \A w \in MigWorker : RunIs(kind, mrun[w], Read(w), target)
    /\ migration = "COMPLETED" =>
           /\ copied \in Tables
           /\ \A t \in MigTable : target[t] = BaseOf(kind, t) \o copied[t]

MigInv == MigTypes /\ MigJobInv /\ (~disturbed => Calm)

LEMMA MigNames ==
    /\ MigPlaces = DOMAIN TableOf /\ Len(TableOf) \in Nat /\ 1 \in MigPlaces
    /\ \A j \in MigPlaces : TableOf[j] \in MigTable
    /\ \A t \in MigTable : \E j \in MigPlaces : TableOf[j] = t
    /\ \A j, k \in MigPlaces : TableOf[j] = TableOf[k] => j = k
    /\ <<>> \in MigRows /\ <<OldRow>> \in MigRows /\ Absent \notin MigRows
    /\ \A s \in MigRows : s # <<>> => s[1] \in MigRow
    /\ Absent[1] # OldRow
<1> USE MigrationsAssumption
<1> DEFINE n == Len(TableOf)
<1>1. /\ n \in Nat /\ DOMAIN TableOf = 1 .. n /\ TableOf \in [1 .. n -> MigTable]
      /\ n # 0
  BY EmptySeq
<1>2. \A t \in MigTable : \E i \in 1 .. n : TableOf[i] = t
  BY DEF MigTable
<1>3. TableOf \in Surjection(1 .. n, MigTable)
  BY <1>1, <1>2 DEF Surjection
<1>4. IsFiniteSet(1 .. n) /\ Cardinality(1 .. n) = n
  BY <1>1, FS_Interval
<1>5. TableOf \in Injection(1 .. n, MigTable)
  BY <1>3, <1>4, FS_Surjection
<1>6. \A j, k \in MigPlaces : TableOf[j] = TableOf[k] => j = k
  BY <1>5 DEF Injection, IsInjective, MigPlaces
<1>7. OldRow \in MigRow /\ Absent[1] \notin MigRow
  BY DEF MigRow
<1>8. \A s \in MigRows : s # <<>> => s[1] \in MigRow
  BY DEF MigRows
<1>9. <<>> \in MigRows /\ <<OldRow>> \in MigRows
  BY <1>7 DEF MigRows
<1>10. Absent \notin MigRows
  <2>1. ASSUME Absent \in MigRows PROVE FALSE
    <3>1. Absent # <<>>
      BY DEF Absent
    <3> QED  BY <1>7, <1>8, <2>1, <3>1
  <2> QED  BY <2>1
<1> QED  BY <1>1, <1>2, <1>6, <1>7, <1>8, <1>9, <1>10 DEF MigPlaces

LEMMA IdleRun == NoMigRun \in MigRuns /\ NoMigRun.pc = "idle"
  BY DEF NoMigRun, MigRuns, MigSteps

LEMMA BaseIs ==
    ASSUME NEW k \in MigKinds, NEW t \in MigTable
    PROVE  BaseOf(k, t) \in MigRows
  BY MigNames DEF BaseOf

LEMMA AtFirst ==
    ASSUME NEW t, NEW b \in MigRows, NEW R \in MigRows
    PROVE  AtRow(t, b, R, b, 1)
<1>1. SubSeq(R, 1, 1 - 1) = <<>>
  BY SubSeqEmpty DEF MigRows
<1>2. b \o <<>> = b
  BY ConcatEmptySeq DEF MigRows
<1> QED  BY <1>1, <1>2 DEF AtRow

LEMMA HoldsMore ==
    ASSUME NEW s \in MigRows, NEW x \in MigRow
    PROVE  /\ Append(s, x) \in MigRows
           /\ Holds(Append(s, x)) = Holds(s) \cup {x}
           /\ Len(Append(s, x)) = Len(s) + 1
           /\ \A j \in 1 .. Len(s) : Append(s, x)[j] = s[j]
           /\ Append(s, x)[Len(s) + 1] = x
  BY DEF MigRows, Holds

LEMMA AtNext ==
    ASSUME NEW t, NEW b \in MigRows, NEW R \in MigRows, NEW s \in MigRows,
           NEW n \in 1 .. Len(R), AtRow(t, b, R, s, n),
           ~(t \in Keyed /\ R[n] \in Holds(s))
    PROVE  AtRow(t, b, R, Append(s, R[n]), n + 1)
<1>1. R[n] \in MigRow /\ Len(R) \in Nat
  BY DEF MigRows
<1>2. CASE s = b \o SubSeq(R, 1, n - 1)
  <2> DEFINE p == SubSeq(R, 1, n - 1)
  <2>1. SubSeq(R, 1, n) = p \o <<R[n]>>
    BY <1>1, SubSeqRecursiveSecond DEF MigRows
  <2>2. p \in Seq(MigRow)
    BY <1>1, SubSeqProperties DEF MigRows
  <2> HIDE DEF p
  <2>3. Append(s, R[n]) = (b \o p) \o <<R[n]>>
    BY <1>1, <1>2, AppendIsConcat DEF MigRows, p
  <2>4. (b \o p) \o <<R[n]>> = b \o (p \o <<R[n]>>)
    <3>1. b \in Seq(MigRow) /\ <<R[n]>> \in Seq(MigRow)
      BY <1>1 DEF MigRows
    <3> QED  BY <2>2, <3>1, ConcatAssociative
  <2>5. Append(s, R[n]) = b \o SubSeq(R, 1, n)
    BY <2>1, <2>3, <2>4
  <2>6. n + 1 - 1 = n
    BY <1>1
  <2> QED  BY ONLY <2>5, <2>6 DEF AtRow
<1>3. CASE t \in Keyed /\ \E k \in n .. Len(R) : R[k] \in Holds(s)
  <2>1. PICK k \in n .. Len(R) : R[k] \in Holds(s)
    BY <1>3
  <2>2. k \in n + 1 .. Len(R)
    BY <1>1, <1>3, <2>1
  <2> QED  BY <1>1, <1>3, <2>1, <2>2, HoldsMore DEF AtRow
<1> QED  BY <1>2, <1>3 DEF AtRow

LEMMA AtEnd ==
    ASSUME NEW t, NEW b \in MigRows, NEW R \in MigRows, NEW s, NEW n \in Nat,
           n = Len(R) + 1, AtRow(t, b, R, s, n)
    PROVE  s = b \o R
<1>1. Len(R) \in Nat /\ n - 1 = Len(R)
  BY DEF MigRows
<1>2. SubSeq(R, 1, n - 1) = R
  BY <1>1, SubSeqFull DEF MigRows
<1>3. n .. Len(R) = {}
  BY <1>1
<1> QED  BY <1>2, <1>3 DEF AtRow

\* The rows that an earlier attempt left: none, or one that has to come again.
LEMMA AtStart ==
    ASSUME MigTypes, NEW t \in MigTable, kind.engines = "PG", ~Leftover(t),
           t \in kind.before => target[t] # <<>> /\ target[t][1] = OldRow
    PROVE  target[t] = Absent \/ AtRow(t, BaseOf(kind, t), source[t], target[t], 1)
<1> DEFINE T == target[t]
           b == BaseOf(kind, t)
           R == source[t]
<1>1. /\ T \in MigRows \cup {Absent} /\ R \in MigRows /\ b \in MigRows
      /\ t \in Keyed /\ T # Absent => Distinct(T)
  BY BaseIs DEF MigTypes, Tables
<1>2. b = IF t \in kind.before THEN <<OldRow>> ELSE <<>>
  BY DEF BaseOf
<1>3. Before(t) = IF t \in kind.before THEN <<OldRow>> ELSE Absent
  BY DEF Before
<1>4. CASE T = b
  BY <1>1, <1>4, AtFirst
<1>5. ASSUME T # Absent, T # b PROVE AtRow(t, b, R, T, 1)
  <2>1. /\ T \in MigRows /\ T # Before(t) /\ T # <<>>
    BY <1>1, <1>2, <1>3, <1>5
  <2>2. /\ t \in Keyed /\ Distinct(T)
        /\ Holds(T) \subseteq (IF t \in kind.before THEN {OldRow} ELSE {}) \cup Holds(R)
    BY <1>1, <1>5, <2>1 DEF Leftover
  <2>3. \E j \in 1 .. Len(T) : T[j] \in Holds(R)
    <3>1. CASE t \notin kind.before
      <4>1. 1 \in 1 .. Len(T)
        BY <2>1 DEF MigRows
      <4> QED  BY <2>1, <2>2, <3>1, <4>1 DEF Holds, MigRows
    <3>2. CASE t \in kind.before
      <4>1. T[1] = OldRow /\ T # <<OldRow>>
        BY <1>2, <1>5, <3>2
      <4>2. 2 \in 1 .. Len(T)
        BY <2>1, <4>1 DEF MigRows
      <4>3. T[2] # OldRow
        BY <2>2, <4>1, <4>2 DEF Distinct
      <4>4. T[2] \in Holds(T)
        BY <2>1, <4>2 DEF Holds, MigRows
      <4> QED  BY <2>2, <4>2, <4>3, <4>4
    <3> QED  BY <3>1, <3>2
  <2>4. PICK j \in 1 .. Len(T) : T[j] \in Holds(R)
    BY <2>3
  <2>5. PICK k \in 1 .. Len(R) : R[k] = T[j]
    BY <1>1, <2>4 DEF Holds, MigRows
  <2>6. R[k] \in Holds(T)
    BY <2>1, <2>5 DEF Holds, MigRows
  <2> QED  BY <2>2, <2>5, <2>6 DEF AtRow
<1> QED  BY <1>4, <1>5, <1>1, AtFirst

LEMMA MigInvInit == MigrationsInit => MigInv
<1> SUFFICES ASSUME MigrationsInit PROVE MigInv
  OBVIOUS
<1> USE MigrationsAssumption DEF MigrationsInit
<1>1. mjob \in MigJobs
  BY DEF MigJobs
<1>2. mrun \in [MigWorker -> MigRuns] /\ \A w \in MigWorker : mrun[w].pc = "idle"
  BY IdleRun
<1>3. source \in Tables
  BY DEF Tables, MigRows
<1>4. \A t \in MigTable : Before(t) \in MigRows \cup {Absent}
  BY MigNames DEF Before
<1>5. \A t \in MigTable : target[t] # Absent => target[t] = <<OldRow>> /\ Distinct(target[t])
  BY DEF Before, Distinct
<1>6. Keyed \subseteq MigTable
  OBVIOUS
<1>7. MigTypes
  BY <1>1, <1>2, <1>3, <1>4, <1>5, <1>6 DEF MigTypes, Copying
<1>8. kind.engines = "PG" =>
          \A t \in kind.before : target[t] # <<>> /\ target[t][1] = OldRow
  <2>1. kind.before \subseteq MigTable
    OBVIOUS
  <2> QED  BY <2>1 DEF Before
<1>9. MigJobInv
  BY <1>2 DEF MigJobInv
<1>10. Calm
  BY <1>2, <1>8 DEF Calm, Copying
<1> QED  BY <1>7, <1>9, <1>10 DEF MigInv

\* One run moves.
LEMMA OneRun ==
    ASSUME MigTypes, NEW w \in MigWorker, NEW r \in MigRuns, mrun' = [mrun EXCEPT ![w] = r]
    PROVE  /\ mrun' \in [MigWorker -> MigRuns]
           /\ mrun'[w] = r
           /\ \A v \in MigWorker : v # w => mrun'[v] = mrun[v]
  BY DEF MigTypes

LEMMA StepIs ==
    ASSUME MigTypes, NEW w \in MigWorker, NEW pc \in MigSteps, step(w, pc)
    PROVE  \E r \in MigRuns :
               /\ mrun' = [mrun EXCEPT ![w] = r]
               /\ r.pc = pc /\ r.i = mrun[w].i /\ r.n = mrun[w].n /\ r.seen = mrun[w].seen
<1> DEFINE r == [mrun[w] EXCEPT !.pc = pc]
<1>1. mrun[w] \in MigRuns
  BY DEF MigTypes
<1>2. /\ r \in MigRuns /\ r.pc = pc /\ r.i = mrun[w].i /\ r.n = mrun[w].n
      /\ r.seen = mrun[w].seen
  BY <1>1 DEF MigRuns
<1>3. mrun' = [mrun EXCEPT ![w] = r]
  BY DEF step
<1> QED  BY <1>2, <1>3

\* What a run does to its own record.
RunGoes(w) == \E r \in MigRuns :
    /\ mrun' = [mrun EXCEPT ![w] = r]
    /\ r.pc \in Copying => r.i \in MigPlaces /\ r.n >= 1 /\ r.seen \in Tables

LEMMA GoesTo ==
    ASSUME NEW w \in MigWorker, NEW r \in MigRuns, mrun' = [mrun EXCEPT ![w] = r],
           r.pc \in Copying => r.i \in MigPlaces /\ r.n >= 1 /\ r.seen \in Tables
    PROVE  RunGoes(w)
  BY DEF RunGoes

LEMMA StepGoes ==
    ASSUME MigTypes, NEW w \in MigWorker, NEW pc \in MigSteps, step(w, pc),
           pc \in Copying => mrun[w].pc \in Copying
    PROVE  RunGoes(w)
<1>1. PICK r \in MigRuns :
          /\ mrun' = [mrun EXCEPT ![w] = r]
          /\ r.pc = pc /\ r.i = mrun[w].i /\ r.n = mrun[w].n /\ r.seen = mrun[w].seen
  BY StepIs
<1> QED  BY <1>1 DEF RunGoes, MigTypes

LEMMA RunsTyped ==
    ASSUME MigTypes, kind' = kind, NEW w \in MigWorker, RunGoes(w),
           migration' \in {"NONE", "PENDING", "RUNNING", "COMPLETED", "FAILED"},
           mjob' \in MigJobs, source' = source,
           target' \in [MigTable -> MigRows \cup {Absent}],
           \A t \in Keyed : target'[t] # Absent => Distinct(target'[t]),
           forsaken' \in BOOLEAN, disturbed' \in BOOLEAN, UNCHANGED <<deleting, verdict>>
    PROVE  MigTypes'
<1>1. PICK r \in MigRuns :
    /\ mrun' = [mrun EXCEPT ![w] = r]
    /\ r.pc \in Copying => r.i \in MigPlaces /\ r.n >= 1 /\ r.seen \in Tables
  BY DEF RunGoes
<1>2. /\ mrun' \in [MigWorker -> MigRuns] /\ mrun'[w] = r
      /\ \A v \in MigWorker : v # w => mrun'[v] = mrun[v]
  BY <1>1, OneRun
<1>3. \A v \in MigWorker : mrun'[v].pc \in Copying =>
          mrun'[v].i \in MigPlaces /\ mrun'[v].n >= 1 /\ mrun'[v].seen \in Tables
  BY <1>1, <1>2 DEF MigTypes
<1> QED  BY <1>2, <1>3 DEF MigTypes

LEMMA RunStepTyped ==
    ASSUME MigTypes, MigJobInv, NEW w \in MigWorker, runMigration(w)
    PROVE  MigTypes'
<1> USE MigrationsAssumption
<1>0. /\ kind \in MigKinds /\ mjob \in MigJobs /\ mrun \in [MigWorker -> MigRuns]
      /\ mrun[w] \in MigRuns /\ source \in Tables
      /\ target \in [MigTable -> MigRows \cup {Absent}]
      /\ \A t \in Keyed : target[t] # Absent => Distinct(target[t])
      /\ forsaken \in BOOLEAN /\ disturbed \in BOOLEAN
      /\ mrun[w].pc \in Copying =>
             mrun[w].i \in MigPlaces /\ mrun[w].n >= 1 /\ mrun[w].seen \in Tables
  BY DEF MigTypes
<1>1. CASE startMigration(w)
  <2>1. RunGoes(w)
    <3>1. CASE step(w, "failed")
      BY <3>1, StepGoes DEF MigSteps, Copying
    <3>2. CASE ~step(w, "failed")
      <4> DEFINE pc == IF Replaces THEN "create" ELSE "schema"
                 r == [pc |-> pc, i |-> 1, n |-> 1, seen |-> source]
      <4>1. mrun' = [mrun EXCEPT ![w] = r]
        BY <1>1, <3>2 DEF startMigration
      <4>2. pc \in MigSteps
        BY DEF MigSteps
      <4> HIDE DEF pc
      <4>3. r \in MigRuns /\ r.i = 1 /\ r.n = 1 /\ r.seen = source
        BY <1>0, <4>2 DEF MigRuns
      <4> HIDE DEF r
      <4>4. r.i \in MigPlaces /\ r.n >= 1 /\ r.seen \in Tables
        BY <1>0, <4>3, MigNames
      <4> QED  BY <4>1, <4>3, <4>4, GoesTo
    <3> QED  BY <3>1, <3>2
  <2>2. /\ kind' = kind /\ mjob' = mjob /\ source' = source /\ target' = target
        /\ UNCHANGED <<deleting, verdict>>
        /\ migration' \in {"NONE", "PENDING", "RUNNING", "COMPLETED", "FAILED"}
        /\ forsaken' \in BOOLEAN /\ disturbed' \in BOOLEAN
    BY <1>0, <1>1 DEF startMigration, tables, MigTypes
  <2> QED  BY <1>0, <2>1, <2>2, RunsTyped
<1>2. CASE createMissing(w)
  <2>1. PICK fresh \in SUBSET {t \in MigTable : target[t] = Absent} :
            /\ target' = [t \in MigTable |-> IF t \in fresh THEN <<>> ELSE target[t]]
            /\ step(w, IF \A t \in MigTable : target'[t] # Absent THEN "copy" ELSE "fail")
    BY <1>2 DEF createMissing
  <2>2. target' \in [MigTable -> MigRows \cup {Absent}]
    BY <1>0, <2>1, MigNames
  <2>3. \A t \in Keyed : target'[t] # Absent => Distinct(target'[t])
    BY <1>0, <2>1 DEF Distinct
  <2>4. RunGoes(w)
    BY <1>2, <2>1, StepGoes DEF createMissing, MigSteps, Copying
  <2>5. UNCHANGED <<kind, migration, mjob, source, deleting, verdict, forsaken, disturbed>>
    BY <1>2 DEF createMissing, judged
  <2> QED  BY <1>0, <2>2, <2>3, <2>4, <2>5, RunsTyped DEF MigTypes
<1>3. CASE dropAndCreate(w)
  <2>1. PICK t : t = TableOf[mrun[w].i]
    OBVIOUS
  <2>2. t \in MigTable /\ target' = [target EXCEPT ![t] = <<>>]
    BY <1>0, <1>3, <2>1, MigNames DEF dropAndCreate, Copying
  <2>3. target' \in [MigTable -> MigRows \cup {Absent}]
    BY <1>0, <2>2, MigNames
  <2>4. \A u \in Keyed : target'[u] # Absent => Distinct(target'[u])
    BY <1>0, <2>2 DEF Distinct
  <2>5. RunGoes(w)
    BY <1>3, StepGoes DEF dropAndCreate, MigSteps, Copying
  <2>6. UNCHANGED <<kind, migration, mjob, source, deleting, verdict, forsaken, disturbed>>
    BY <1>3 DEF dropAndCreate, judged
  <2> QED  BY <1>0, <2>3, <2>4, <2>5, <2>6, RunsTyped DEF MigTypes
<1>4. CASE copyBatch(w)
  <2>1. PICK t : t = TableOf[mrun[w].i]
    OBVIOUS
  <2>2. PICK x \in Batch(w, t) :
            /\ IF target[t] = Absent \/ (t \in Keyed /\ x \in Holds(target[t]))
               THEN step(w, "fail") /\ UNCHANGED target
               ELSE /\ target' = [target EXCEPT ![t] = Append(target[t], x)]
                    /\ mrun' = [mrun EXCEPT ![w].n = mrun[w].n + 1]
            /\ disturbed' = (disturbed \/ x # Read(w)[t][mrun[w].n])
    BY <1>4, <2>1 DEF copyBatch
  <2>3. t \in MigTable /\ mrun[w].pc = "copy" /\ x \in MigRow
    <3>1. t \in MigTable /\ mrun[w].pc = "copy" /\ Read(w) \in Tables
      BY <1>0, <1>4, <2>1, MigNames DEF copyBatch, Copying, Read
    <3>2. mrun[w].n \in 1 .. Len(Read(w)[t])
      BY <1>0, <1>4, <2>1, <3>1 DEF copyBatch, MigRuns, Copying, Tables, MigRows
    <3>3. Read(w)[t][mrun[w].n] \in MigRow
      BY <3>1, <3>2 DEF Tables, MigRows
    <3>4. Holds(source[t]) \subseteq MigRow
      BY <1>0, <3>1 DEF Tables, MigRows, Holds
    <3> QED  BY <2>2, <3>1, <3>3, <3>4 DEF Batch
  <2>4. UNCHANGED <<kind, migration, mjob, source, deleting, verdict, forsaken>>
        /\ disturbed' \in BOOLEAN
    BY <1>0, <1>4, <2>2 DEF copyBatch, judged
  <2>5. CASE target[t] = Absent \/ (t \in Keyed /\ x \in Holds(target[t]))
    <3>1. step(w, "fail") /\ UNCHANGED target
      BY <2>2, <2>5
    <3>2. RunGoes(w)
      BY <3>1, StepGoes DEF MigSteps, Copying
    <3> QED  BY <1>0, <2>4, <3>1, <3>2, RunsTyped DEF MigTypes
  <2>6. CASE ~(target[t] = Absent \/ (t \in Keyed /\ x \in Holds(target[t])))
    <3>1. /\ target' = [target EXCEPT ![t] = Append(target[t], x)]
          /\ mrun' = [mrun EXCEPT ![w].n = mrun[w].n + 1]
      BY <2>2, <2>6
    <3>2. target[t] \in MigRows
      BY <1>0, <2>3, <2>6
    <3>3. target' \in [MigTable -> MigRows \cup {Absent}]
      BY <1>0, <2>3, <3>1, <3>2, HoldsMore
    <3>4. t \in Keyed => Distinct(Append(target[t], x))
      <4>1. SUFFICES ASSUME t \in Keyed PROVE Distinct(Append(target[t], x))
        OBVIOUS
      <4>2. Distinct(target[t]) /\ \A j \in 1 .. Len(target[t]) : target[t][j] # x
        BY <1>0, <2>6, <3>2, <4>1 DEF Holds, MigRows
      <4>3. Len(target[t]) \in Nat
        BY <3>2 DEF MigRows
      <4> DEFINE s == Append(target[t], x)
                 n == Len(target[t])
      <4>4. /\ Len(s) = n + 1 /\ s[n + 1] = x
            /\ \A j \in 1 .. n : s[j] = target[t][j]
        BY <2>3, <3>2, HoldsMore
      <4> HIDE DEF s
      <4>5. ASSUME NEW j \in 1 .. n + 1, NEW k \in 1 .. n + 1, s[j] = s[k] PROVE j = k
        <5>1. (j \in 1 .. n \/ j = n + 1) /\ (k \in 1 .. n \/ k = n + 1)
          BY <4>3, <4>5
        <5> QED  BY <4>2, <4>4, <4>5, <5>1 DEF Distinct
      <4> QED  BY <4>4, <4>5 DEF Distinct, s
    <3>5. \A u \in Keyed : target'[u] # Absent => Distinct(target'[u])
      BY <1>0, <2>3, <3>1, <3>4
    <3>6. RunGoes(w)
      <4> DEFINE r == [mrun[w] EXCEPT !.n = mrun[w].n + 1]
      <4>1. mrun' = [mrun EXCEPT ![w] = r]
        BY <3>1
      <4>2. mrun[w].n \in Nat /\ mrun[w].n + 1 \in Nat
        BY <1>0 DEF MigRuns
      <4>3. /\ r \in MigRuns /\ r.n = mrun[w].n + 1 /\ r.i = mrun[w].i
            /\ r.seen = mrun[w].seen
        BY <1>0, <4>2 DEF MigRuns
      <4> HIDE DEF r
      <4>4. r.i \in MigPlaces /\ r.n >= 1 /\ r.seen \in Tables
        BY <1>0, <2>3, <4>2, <4>3 DEF Copying
      <4> QED  BY <4>1, <4>3, <4>4, GoesTo
    <3> QED  BY <1>0, <2>4, <3>3, <3>5, <3>6, RunsTyped DEF MigTypes
  <2> QED  BY <2>5, <2>6
<1>5. CASE nextMigTable(w)
  <2>1. mrun[w].pc = "copy" /\ UNCHANGED <<kind, migration, mjob, source, target, deleting,
                                           verdict, forsaken, disturbed>>
    BY <1>5 DEF nextMigTable, tables, judged
  <2>2. CASE mrun[w].i < Len(TableOf)
    <3> DEFINE pc == IF Replaces THEN "create" ELSE "copy"
               r == [mrun[w] EXCEPT !.pc = pc, !.i = mrun[w].i + 1, !.n = 1]
    <3>1. mrun' = [mrun EXCEPT ![w] = r]
      BY <1>5, <2>2 DEF nextMigTable
    <3>2. pc \in MigSteps
      BY DEF MigSteps
    <3> HIDE DEF pc
    <3>3. mrun[w].i \in Nat /\ mrun[w].i + 1 \in Nat
      BY <1>0 DEF MigRuns
    <3>4. r \in MigRuns /\ r.i = mrun[w].i + 1 /\ r.n = 1 /\ r.seen = mrun[w].seen
      BY <1>0, <3>2, <3>3 DEF MigRuns
    <3> HIDE DEF r
    <3>5. r.i \in MigPlaces
      BY <1>0, <2>1, <2>2, <3>4, MigNames DEF MigPlaces, Copying
    <3>6. RunGoes(w)
      <4>1. r.n >= 1 /\ r.seen \in Tables
        BY <1>0, <2>1, <3>4 DEF Copying
      <4> QED  BY <3>1, <3>4, <3>5, <4>1, GoesTo
    <3> QED  BY <1>0, <2>1, <3>6, RunsTyped DEF MigTypes
  <2>3. CASE ~(mrun[w].i < Len(TableOf))
    <3> DEFINE pc == IF kind.ghost /\ kind.engines = "MYSQL" THEN "fail" ELSE "complete"
    <3>1. step(w, pc)
      BY <1>5, <2>3 DEF nextMigTable, step
    <3>2. pc \in MigSteps
      BY DEF MigSteps
    <3> HIDE DEF pc
    <3>3. RunGoes(w)
      BY <2>1, <3>1, <3>2, StepGoes DEF Copying
    <3> QED  BY <1>0, <2>1, <3>3, RunsTyped DEF MigTypes
  <2> QED  BY <2>2, <2>3
<1>6. CASE failMigration(w) \/ completeMigration(w) \/ markMigrationFailed(w)
  <2>1. /\ UNCHANGED <<kind, mjob, source, target, deleting, verdict, disturbed>>
        /\ forsaken' \in BOOLEAN
        /\ migration' \in {"NONE", "PENDING", "RUNNING", "COMPLETED", "FAILED"}
    BY <1>0, <1>6 DEF failMigration, completeMigration, markMigrationFailed, tables, judged,
                MigTypes
  <2>2. \E pc \in {"fail", "done", "failed"} : step(w, pc)
    BY <1>6 DEF failMigration, completeMigration, markMigrationFailed
  <2>3. RunGoes(w)
    BY <2>2, StepGoes DEF MigSteps, Copying
  <2> QED  BY <1>0, <2>1, <2>3, RunsTyped
<1>7. CASE endMigrationJob(w)
  <2>1. mrun' = [mrun EXCEPT ![w] = NoMigRun]
        /\ UNCHANGED <<kind, migration, source, target, deleting, verdict, forsaken, disturbed>>
    BY <1>7 DEF endMigrationJob, tables, judged
  <2>2. RunGoes(w)
    BY <2>1, IdleRun DEF RunGoes, Copying
  <2>3. mjob' \in MigJobs
    <3>1. CASE mjob.holder # w
      BY <1>0, <1>7, <3>1 DEF endMigrationJob
    <3>2. CASE mjob.holder = w
      <4> DEFINE st == IF mrun[w].pc = "done" THEN "completed"
                       ELSE IF mjob.tries = 0 THEN "waiting" ELSE "failed"
      <4>1. mjob' = [mjob EXCEPT !.holder = Nobody, !.st = st, !.tries = mjob.tries + 1]
        BY <1>7, <3>2 DEF endMigrationJob
      <4>2. st \in {"waiting", "completed", "failed"}
        OBVIOUS
      <4> HIDE DEF st
      <4>3. mjob.tries <= 1 /\ mjob.tries \in 0 .. 2
        BY <1>0, <3>2 DEF MigJobInv, MigJobs
      <4>4. mjob.tries + 1 \in 0 .. 2
        BY <4>3
      <4> QED  BY <1>0, <4>1, <4>2, <4>4 DEF MigJobs
    <3> QED  BY <3>1, <3>2
  <2> QED  BY <1>0, <2>1, <2>2, <2>3, RunsTyped DEF MigTypes
<1> QED  BY <1>1, <1>2, <1>3, <1>4, <1>5, <1>6, <1>7 DEF runMigration

\* The requests, the queue and the application leave the targets alone.
LEMMA MigRestTyped ==
    ASSUME MigTypes, MigJobInv, MigrationsNext, \A w \in MigWorker : ~runMigration(w)
    PROVE  MigTypes'
<1> USE MigrationsAssumption
<1>0. /\ mjob \in MigJobs /\ mrun \in [MigWorker -> MigRuns] /\ source \in Tables
      /\ forsaken \in BOOLEAN /\ disturbed \in BOOLEAN
  BY DEF MigTypes
<1>1. CASE createMigration
  <2>1. mjob' = [mjob EXCEPT !.st = "waiting"] /\ migration' = "PENDING"
        /\ UNCHANGED <<kind, mrun, source, target, deleting, verdict, forsaken, disturbed>>
    BY <1>1 DEF createMigration, tables, judged
  <2>2. mjob' \in MigJobs
    BY <1>0, <2>1 DEF MigJobs
  <2> QED  BY <2>1, <2>2 DEF MigTypes
<1>2. CASE beginDelete \/ deleteMigration \/ verifyMigration
  <2>1. UNCHANGED <<kind, mjob, mrun, source, target, forsaken, disturbed>>
    BY <1>2 DEF beginDelete, deleteMigration, verifyMigration, tables, judged
  <2>2. /\ migration' \in {migration, "NONE"} /\ deleting' \in {deleting, TRUE, FALSE}
        /\ verdict' \in {verdict, "OK", "MISMATCH"}
    BY <1>2 DEF beginDelete, deleteMigration, verifyMigration, tables, judged
  <2> QED  BY <2>1, <2>2 DEF MigTypes
<1>3. ASSUME NEW w \in MigWorker, pickMigration(w) PROVE MigTypes'
  <2>1. /\ mjob' = [mjob EXCEPT !.st = "active", !.holder = w] /\ step(w, "begin")
        /\ UNCHANGED <<kind, migration, source, target, deleting, verdict, forsaken>>
        /\ disturbed' \in BOOLEAN
    BY <1>0, <1>3 DEF pickMigration, tables, judged
  <2>2. mjob' \in MigJobs
    BY <1>0, <2>1 DEF MigJobs
  <2>3. RunGoes(w)
    BY <2>1, StepGoes DEF MigSteps, Copying
  <2> QED  BY <2>1, <2>2, <2>3, RunsTyped DEF MigTypes
<1>4. ASSUME NEW dies \in BOOLEAN, stallMigration(dies) PROVE MigTypes'
  <2>1. /\ UNCHANGED <<kind, migration, source, target, deleting, verdict, disturbed>>
        /\ forsaken' \in BOOLEAN
    BY <1>0, <1>4 DEF stallMigration, tables
  <2>2. mjob' \in MigJobs
    <3> DEFINE st == IF mjob.stalls = 0 THEN "waiting" ELSE "failed"
    <3>1. mjob' = [mjob EXCEPT !.holder = Nobody, !.stalls = mjob.stalls + 1, !.st = st]
      BY <1>4 DEF stallMigration
    <3>2. st \in {"waiting", "failed"}
      OBVIOUS
    <3> HIDE DEF st
    <3>3. mjob.stalls \in 0 .. MaxStalls + 1 /\ mjob.stalls < MaxStalls
      BY <1>0, <1>4 DEF stallMigration, MigJobs
    <3>4. mjob.stalls + 1 \in 0 .. MaxStalls + 1
      BY <3>3
    <3> QED  BY <1>0, <3>1, <3>2, <3>4 DEF MigJobs
  <2>3. \/ mrun' = mrun
        \/ mrun' \in [MigWorker -> MigRuns] /\ \A w \in MigWorker : mrun'[w].pc = "idle"
    BY <1>4, IdleRun DEF stallMigration
  <2> QED  BY <1>0, <2>1, <2>2, <2>3 DEF MigTypes, Copying
<1>5. ASSUME NEW t \in MigTable, writeSource(t) PROVE MigTypes'
  <2>1. /\ source' = [source EXCEPT ![t] = Tail(source[t])] /\ source[t] # <<>>
        /\ disturbed' \in BOOLEAN
        /\ UNCHANGED <<kind, migration, mjob, mrun, target, deleting, verdict, forsaken>>
    BY <1>0, <1>5 DEF writeSource, judged
  <2>2. source[t] \in Seq(MigRow)
    BY <1>0 DEF Tables, MigRows
  <2>3. Tail(source[t]) \in MigRows
    BY <2>1, <2>2 DEF MigRows
  <2>4. source' \in Tables
    BY <1>0, <2>1, <2>3 DEF Tables
  <2> QED  BY <2>1, <2>4 DEF MigTypes
<1> QED  BY <1>1, <1>2, <1>3, <1>4, <1>5 DEF MigrationsNext

LEMMA MigTypesStep ==
    MigTypes /\ MigJobInv /\ [MigrationsNext]_migrationsVars => MigTypes'
<1> SUFFICES ASSUME MigTypes, MigJobInv, [MigrationsNext]_migrationsVars PROVE MigTypes'
  OBVIOUS
<1>1. CASE MigrationsNext
  BY <1>1, RunStepTyped, MigRestTyped
<1>2. CASE UNCHANGED migrationsVars
  BY <1>2 DEF MigTypes, migrationsVars
<1> QED  BY <1>1, <1>2

LEMMA MigJobStep ==
    MigTypes /\ MigJobInv /\ [MigrationsNext]_migrationsVars => MigJobInv'
<1> SUFFICES ASSUME MigTypes, MigJobInv, [MigrationsNext]_migrationsVars PROVE MigJobInv'
  OBVIOUS
<1> USE MigrationsAssumption
<1>0. mjob \in MigJobs /\ mrun \in [MigWorker -> MigRuns]
  BY DEF MigTypes
<1>1. CASE createMigration
  <2>1. mjob' = [mjob EXCEPT !.st = "waiting"] /\ mjob.st = "none"
    BY <1>1 DEF createMigration
  <2>2. mjob'.st = "waiting" /\ mjob'.tries = mjob.tries /\ mjob'.holder = mjob.holder
    BY <1>0, <2>1 DEF MigJobs
  <2> QED  BY <2>1, <2>2 DEF MigJobInv
<1>2. CASE beginDelete \/ deleteMigration \/ verifyMigration
  <2>1. mjob' = mjob /\ mrun' = mrun /\ migration' \in {migration, "NONE"}
    BY <1>2 DEF beginDelete, deleteMigration, verifyMigration
  <2> QED  BY <2>1 DEF MigJobInv
<1>3. ASSUME NEW w \in MigWorker, pickMigration(w) PROVE MigJobInv'
  <2>1. mjob' = [mjob EXCEPT !.st = "active", !.holder = w] /\ mjob.st = "waiting"
    BY <1>3 DEF pickMigration
  <2>2. mjob'.st = "active" /\ mjob'.tries = mjob.tries
    BY <1>0, <2>1 DEF MigJobs
  <2> QED  BY <2>1, <2>2 DEF MigJobInv
<1>4. ASSUME NEW w \in MigWorker, runMigration(w) PROVE MigJobInv'
  <2>1. mjob.st # "none" \/ mrun[w].pc = "idle"
    BY DEF MigJobInv
  <2>2. mrun[w].pc # "idle"
    BY <1>4 DEF runMigration, startMigration, createMissing, dropAndCreate, copyBatch,
                nextMigTable, failMigration, completeMigration, markMigrationFailed,
                endMigrationJob
  <2>3. CASE endMigrationJob(w) /\ mjob.holder = w
    <3> DEFINE st == IF mrun[w].pc = "done" THEN "completed"
                     ELSE IF mjob.tries = 0 THEN "waiting" ELSE "failed"
    <3>1. mjob' = [mjob EXCEPT !.holder = Nobody, !.st = st, !.tries = mjob.tries + 1]
      BY <2>3 DEF endMigrationJob
    <3>2. st \in {"waiting", "completed", "failed"} /\ (st = "waiting" => mjob.tries = 0)
      OBVIOUS
    <3> HIDE DEF st
    <3>3. mjob'.st = st /\ mjob'.tries = mjob.tries + 1 /\ mjob'.holder = Nobody
      BY <1>0, <3>1 DEF MigJobs
    <3> QED  BY <3>2, <3>3 DEF MigJobInv
  <2>4. CASE ~(endMigrationJob(w) /\ mjob.holder = w)
    <3>1. mjob' = mjob
      BY <1>4, <2>4 DEF runMigration, startMigration, createMissing, dropAndCreate, copyBatch,
                nextMigTable, failMigration, completeMigration, markMigrationFailed,
                endMigrationJob
    <3> QED  BY <2>1, <2>2, <3>1 DEF MigJobInv
  <2> QED  BY <2>3, <2>4
<1>5. ASSUME NEW dies \in BOOLEAN, stallMigration(dies) PROVE MigJobInv'
  <2> DEFINE st == IF mjob.stalls = 0 THEN "waiting" ELSE "failed"
  <2>1. mjob' = [mjob EXCEPT !.holder = Nobody, !.stalls = mjob.stalls + 1, !.st = st]
        /\ mjob.st = "active"
    BY <1>5 DEF stallMigration
  <2>2. st \in {"waiting", "failed"}
    OBVIOUS
  <2> HIDE DEF st
  <2>3. mjob'.st = st /\ mjob'.tries = mjob.tries /\ mjob'.holder = Nobody
    BY <1>0, <2>1 DEF MigJobs
  <2> QED  BY <2>1, <2>2, <2>3 DEF MigJobInv
<1>6. ASSUME NEW t \in MigTable, writeSource(t) PROVE MigJobInv'
  BY <1>6 DEF writeSource, MigJobInv
<1>7. CASE UNCHANGED migrationsVars
  BY <1>7 DEF MigJobInv, migrationsVars
<1> QED  BY <1>1, <1>2, <1>3, <1>4, <1>5, <1>6, <1>7 DEF MigrationsNext

\* A run of one worker; the others stay idle.
LEMMA RunCalm ==
    ASSUME MigTypes, Calm, kind' = kind, NEW w \in MigWorker,
           \A v \in MigWorker : v # w => mrun[v].pc = "idle",
           NEW r \in MigRuns, mrun' = [mrun EXCEPT ![w] = r],
           r.pc \in Copying => migration' \in {"RUNNING", "NONE"},
           r.pc = "create" => kind.engines # "PG",
           kind.engines = "PG" => \A t \in kind.before :
               target'[t] # <<>> /\ target'[t][1] = OldRow,
           migration' = "RUNNING" =>
               RunIs(kind, r, IF kind.engines = "CROSS" THEN source' ELSE r.seen, target'),
           migration' = "COMPLETED" =>
               /\ copied' \in Tables
               /\ \A t \in MigTable : target'[t] = BaseOf(kind, t) \o copied'[t]
    PROVE  Calm'
<1>1. mrun'[w] = r /\ \A v \in MigWorker : v # w => mrun'[v].pc = "idle"
  BY OneRun
<1>2. Read(w)' = IF kind.engines = "CROSS" THEN source' ELSE r.seen
  BY <1>1 DEF Read
<1>3. \A v \in MigWorker : v # w => RunIs(kind, mrun'[v], Read(v)', target')
  BY <1>1 DEF RunIs
<1>4. \A v \in MigWorker : mrun'[v].pc \in Copying =>
          migration' \in {"RUNNING", "NONE"}
  BY <1>1 DEF Copying
<1> QED  BY <1>1, <1>2, <1>3, <1>4 DEF Calm

\* A run that only passes on to one of the steps that read nothing.
LEMMA PassesOn ==
    ASSUME MigTypes, Calm, kind' = kind, NEW w \in MigWorker,
           \A v \in MigWorker : v # w => mrun[v].pc = "idle",
           NEW r \in MigRuns, mrun' = [mrun EXCEPT ![w] = r], r.pc \notin Copying,
           target' = target, copied' = copied,
           migration' = "COMPLETED" => migration = "COMPLETED"
    PROVE  Calm'
<1>1. \A R : RunIs(kind, r, R, target')
  BY DEF RunIs, Copying
<1>2. /\ kind.engines = "PG" => \A t \in kind.before :
               target'[t] # <<>> /\ target'[t][1] = OldRow
      /\ migration' = "COMPLETED" =>
               /\ copied' \in Tables
               /\ \A t \in MigTable : target'[t] = BaseOf(kind, t) \o copied'[t]
  BY DEF Calm
<1> QED  BY <1>1, <1>2, RunCalm DEF Copying

LEMMA StartCalm ==
    ASSUME MigTypes, Calm, ~disturbed', NEW w \in MigWorker,
           \A v \in MigWorker : v # w => mrun[v].pc = "idle", startMigration(w)
    PROVE  Calm'
<1> USE MigrationsAssumption
<1>0. /\ kind' = kind /\ target' = target /\ source' = source /\ copied' = copied
      /\ kind \in MigKinds /\ mrun[w] \in MigRuns /\ source \in Tables
  BY DEF startMigration, tables, MigTypes
<1>1. CASE step(w, "failed") /\ migration' = migration
  <2>2. PICK r \in MigRuns : mrun' = [mrun EXCEPT ![w] = r] /\ r.pc = "failed"
    BY <1>1, StepIs DEF MigSteps
  <2> QED  BY <1>0, <1>1, <2>2, PassesOn DEF Copying
<1>2. CASE ~(step(w, "failed") /\ migration' = migration)
  <2> DEFINE pc == IF Replaces THEN "create" ELSE "schema"
             r == [pc |-> pc, i |-> 1, n |-> 1, seen |-> source]
  <2>1. mrun' = [mrun EXCEPT ![w] = r] /\ migration' = "RUNNING"
        /\ (Replaces \/ \A t \in MigTable : ~Leftover(t))
    BY <1>2 DEF startMigration
  <2>2. pc \in {"create", "schema"} /\ (pc = "create" <=> kind.engines # "PG")
    BY DEF Replaces
  <2> HIDE DEF pc
  <2>3. r \in MigRuns /\ r.pc = pc /\ r.i = 1 /\ r.n = 1 /\ r.seen = source
    BY <1>0, <2>2 DEF MigRuns, MigSteps
  <2> HIDE DEF r
  <2>4. kind.engines = "PG" => \A t \in MigTable :
            target[t] = Absent \/ AtRow(t, BaseOf(kind, t), source[t], target[t], 1)
    <3>1. ASSUME kind.engines = "PG", NEW t \in MigTable
          PROVE  target[t] = Absent \/ AtRow(t, BaseOf(kind, t), source[t], target[t], 1)
      <4>1. ~Leftover(t)
        BY <2>1, <3>1 DEF Replaces
      <4>2. t \in kind.before => target[t] # <<>> /\ target[t][1] = OldRow
        BY <3>1 DEF Calm
      <4> QED  BY <3>1, <4>1, <4>2, AtStart
    <3> QED  BY <3>1
  <2>5. \A j \in MigPlaces : ~(j < 1)
    BY DEF MigPlaces
  <2>6. RunIs(kind, r, source, target)
    BY <2>2, <2>3, <2>4, <2>5 DEF RunIs
  <2>7. kind.engines = "PG" => \A t \in kind.before : target[t] # <<>> /\ target[t][1] = OldRow
    BY DEF Calm
  <2> QED  BY <1>0, <2>1, <2>2, <2>3, <2>6, <2>7, RunCalm
<1> QED  BY <1>1, <1>2

LEMMA MissingCalm ==
    ASSUME MigTypes, Calm, NEW w \in MigWorker,
           \A v \in MigWorker : v # w => mrun[v].pc = "idle", createMissing(w)
    PROVE  Calm'
<1> USE MigrationsAssumption
<1>1. PICK fresh \in SUBSET {t \in MigTable : target[t] = Absent} :
            /\ target' = [t \in MigTable |-> IF t \in fresh THEN <<>> ELSE target[t]]
            /\ step(w, IF \A t \in MigTable : target'[t] # Absent THEN "copy" ELSE "fail")
  BY DEF createMissing
<1>2. /\ kind' = kind /\ source' = source /\ migration' = migration /\ copied' = copied
      /\ mrun[w].pc = "schema" /\ kind \in MigKinds /\ source \in Tables
      /\ mrun[w].seen \in Tables /\ migration \in {"RUNNING", "NONE"}
  BY DEF createMissing, judged, MigTypes, Calm, Copying
<1> DEFINE pc == IF \A t \in MigTable : target'[t] # Absent THEN "copy" ELSE "fail"
           R == Read(w)
<1>3. PICK r \in MigRuns :
          /\ mrun' = [mrun EXCEPT ![w] = r]
          /\ r.pc = pc /\ r.i = mrun[w].i /\ r.n = mrun[w].n /\ r.seen = mrun[w].seen
  BY <1>1, StepIs DEF MigSteps
<1>4. R = IF kind.engines = "CROSS" THEN source' ELSE r.seen
  BY <1>2, <1>3 DEF Read
<1>5. R \in Tables
  BY <1>2 DEF Read
<1> HIDE DEF R
<1>6. kind.engines = "PG" => \A t \in kind.before :
          t \in MigTable /\ target'[t] = target[t] /\ target[t] # <<>> /\ target[t][1] = OldRow
  <2>1. ASSUME kind.engines = "PG", NEW t \in kind.before
        PROVE  t \in MigTable /\ target'[t] = target[t] /\ target[t] # <<>> /\ target[t][1] = OldRow
    <3>1. t \in MigTable /\ target[t] # <<>> /\ target[t][1] = OldRow
      BY <1>2, <2>1 DEF Calm
    <3>2. target[t] # Absent
      BY <3>1, MigNames
    <3> QED  BY <1>1, <3>1, <3>2
  <2> QED  BY <2>1
<1>7. ASSUME migration = "RUNNING", r.pc = "copy" PROVE RunIs(kind, r, R, target')
  <2>1. /\ kind.engines = "PG" /\ mrun[w].i = 1 /\ mrun[w].n = 1
        /\ \A t \in MigTable : target[t] = Absent \/ AtRow(t, BaseOf(kind, t), R[t], target[t], 1)
    BY <1>2, <1>7 DEF Calm, RunIs, R
  <2>2. \A t \in MigTable : AtRow(t, BaseOf(kind, t), R[t], target'[t], 1)
    <3>1. ASSUME NEW t \in MigTable PROVE AtRow(t, BaseOf(kind, t), R[t], target'[t], 1)
      <4>1. target'[t] # Absent
        BY <1>3, <1>7
      <4>2. CASE t \in fresh
        <5>1. target[t] = Absent /\ target'[t] = <<>>
          BY <1>1, <4>2
        <5>2. t \notin kind.before
          BY <1>6, <2>1, <4>1, <5>1
        <5>3. BaseOf(kind, t) = <<>>
          BY <5>2 DEF BaseOf
        <5>4. R[t] \in MigRows /\ <<>> \in MigRows
          BY <1>5, MigNames DEF Tables
        <5> QED  BY <5>1, <5>3, <5>4, AtFirst
      <4>3. CASE t \notin fresh
        <5>1. target'[t] = target[t]
          BY <1>1, <4>3
        <5> QED  BY <2>1, <4>1, <5>1
      <4> QED  BY <4>2, <4>3
    <3> QED  BY <3>1
  <2>3. \A t \in MigTable : Len(R[t]) \in Nat
    BY <1>5 DEF Tables, MigRows
  <2>4. TableOf[1] \in MigTable
    BY MigNames
  <2>5. 1 <= Len(R[TableOf[1]]) + 1
    BY <2>3, <2>4
  <2>6. r.i = 1 /\ r.n = 1
    BY <1>3, <2>1
  <2>7. \A j \in MigPlaces : ~(j < 1) /\ TableOf[j] \in MigTable
    BY MigNames DEF MigPlaces
  <2> QED  BY <1>7, <2>2, <2>4, <2>5, <2>6, <2>7 DEF RunIs
<1>8. r.pc = "fail" => RunIs(kind, r, R, target')
  BY DEF RunIs
<1>9. migration' = "RUNNING" => RunIs(kind, r, R, target')
  BY <1>2, <1>3, <1>7, <1>8
<1> QED  BY <1>2, <1>3, <1>4, <1>6, <1>9, RunCalm

LEMMA CreateCalm ==
    ASSUME MigTypes, Calm, NEW w \in MigWorker,
           \A v \in MigWorker : v # w => mrun[v].pc = "idle", dropAndCreate(w)
    PROVE  Calm'
<1> USE MigrationsAssumption
<1>1. PICK t : t = TableOf[mrun[w].i]
  OBVIOUS
<1>2. /\ kind' = kind /\ source' = source /\ migration' = migration /\ copied' = copied
      /\ mrun[w].pc = "create" /\ kind \in MigKinds /\ source \in Tables
      /\ mrun[w].i \in MigPlaces /\ mrun[w].seen \in Tables
      /\ migration \in {"RUNNING", "NONE"} /\ target' = [target EXCEPT ![t] = <<>>]
      /\ target \in [MigTable -> MigRows \cup {Absent}]
  BY <1>1 DEF dropAndCreate, judged, MigTypes, Calm, Copying
<1>3. PICK r \in MigRuns :
          /\ mrun' = [mrun EXCEPT ![w] = r]
          /\ r.pc = "copy" /\ r.i = mrun[w].i /\ r.n = mrun[w].n /\ r.seen = mrun[w].seen
  BY StepIs DEF MigSteps, dropAndCreate
<1> DEFINE R == Read(w)
<1>4. R \in Tables /\ R = IF kind.engines = "CROSS" THEN source' ELSE r.seen
  BY <1>2, <1>3 DEF Read
<1> HIDE DEF R
<1>5. t \in MigTable
  BY <1>1, <1>2, MigNames
<1>6. migration = "RUNNING" => RunIs(kind, r, R, target')
  <2>1. SUFFICES ASSUME migration = "RUNNING" PROVE RunIs(kind, r, R, target')
    OBVIOUS
  <2>2. /\ kind.engines # "PG" /\ mrun[w].n = 1
        /\ \A j \in MigPlaces : j < mrun[w].i =>
               target[TableOf[j]] = BaseOf(kind, TableOf[j]) \o R[TableOf[j]]
    BY <1>2, <2>1 DEF Calm, RunIs, R
  <2>3. \A j \in MigPlaces : j < mrun[w].i =>
            target'[TableOf[j]] = BaseOf(kind, TableOf[j]) \o R[TableOf[j]]
    <3>1. \A j \in MigPlaces : j < mrun[w].i => TableOf[j] # t /\ TableOf[j] \in MigTable
      BY <1>1, <1>2, MigNames DEF MigPlaces
    <3> QED  BY <1>2, <2>2, <3>1
  <2>4. AtRow(t, BaseOf(kind, t), R[t], target'[t], 1)
    <3>1. BaseOf(kind, t) = <<>> /\ target'[t] = <<>>
      BY <1>2, <1>5, <2>2 DEF BaseOf
    <3>2. R[t] \in MigRows /\ <<>> \in MigRows
      BY <1>4, <1>5, MigNames DEF Tables
    <3> QED  BY <3>1, <3>2, AtFirst
  <2>5. 1 <= Len(R[t]) + 1
    BY <1>4, <1>5 DEF Tables, MigRows
  <2> QED  BY <1>1, <1>3, <2>2, <2>3, <2>4, <2>5 DEF RunIs
<1>7. kind.engines # "PG"
  BY <1>2 DEF Calm
<1> QED  BY <1>2, <1>3, <1>4, <1>6, <1>7, RunCalm

LEMMA BatchCalm ==
    ASSUME MigTypes, Calm, ~disturbed', NEW w \in MigWorker,
           \A v \in MigWorker : v # w => mrun[v].pc = "idle", copyBatch(w)
    PROVE  Calm'
<1> USE MigrationsAssumption
<1>1. PICK t : t = TableOf[mrun[w].i]
  OBVIOUS
<1>2. PICK x : /\ x = Read(w)[t][mrun[w].n]
               /\ IF target[t] = Absent \/ (t \in Keyed /\ x \in Holds(target[t]))
                  THEN step(w, "fail") /\ UNCHANGED target
                  ELSE /\ target' = [target EXCEPT ![t] = Append(target[t], x)]
                       /\ mrun' = [mrun EXCEPT ![w].n = mrun[w].n + 1]
  BY <1>1 DEF copyBatch
<1>3. /\ kind' = kind /\ source' = source /\ migration' = migration /\ copied' = copied
      /\ mrun[w].pc = "copy" /\ kind \in MigKinds /\ source \in Tables
      /\ mrun[w].i \in MigPlaces /\ mrun[w].n >= 1 /\ mrun[w].n \in Nat
      /\ mrun[w].seen \in Tables /\ mrun[w] \in MigRuns
      /\ migration \in {"RUNNING", "NONE"}
      /\ target \in [MigTable -> MigRows \cup {Absent}]
      /\ t \in MigTable /\ Read(w) \in Tables /\ mrun[w].n <= Len(Read(w)[t])
  <2>1. mrun[w].pc = "copy" /\ mrun[w] \in MigRuns /\ mrun[w].seen \in Tables
        /\ mrun[w].i \in MigPlaces
    BY DEF copyBatch, MigTypes, Copying
  <2>2. t \in MigTable
    BY <1>1, <2>1, MigNames
  <2>3. mrun[w].n \in Nat
    BY <2>1 DEF MigRuns
  <2>4. Read(w) \in Tables
    BY <2>1 DEF Read, MigTypes
  <2> QED  BY <1>1, <2>1, <2>2, <2>3, <2>4 DEF copyBatch, judged, MigTypes, Calm, Copying
<1>4. CASE target[t] = Absent \/ (t \in Keyed /\ x \in Holds(target[t]))
  <2>1. step(w, "fail") /\ target' = target
    BY <1>2, <1>4
  <2>2. PICK r \in MigRuns : mrun' = [mrun EXCEPT ![w] = r] /\ r.pc = "fail"
    BY <2>1, StepIs DEF MigSteps
  <2> QED  BY <1>3, <2>1, <2>2, PassesOn DEF Copying
<1>5. CASE ~(target[t] = Absent \/ (t \in Keyed /\ x \in Holds(target[t])))
  <2> DEFINE r == [mrun[w] EXCEPT !.n = mrun[w].n + 1]
             R == Read(w)
             n == mrun[w].n
  <2>1. /\ target' = [target EXCEPT ![t] = Append(target[t], x)]
        /\ mrun' = [mrun EXCEPT ![w] = r]
    BY <1>2, <1>5
  <2>2. /\ r \in MigRuns /\ r.n = n + 1 /\ r.i = mrun[w].i
        /\ r.seen = mrun[w].seen /\ r.pc = "copy"
    <3>1. n + 1 \in Nat
      BY <1>3
    <3> QED  BY <1>3, <3>1 DEF MigRuns
  <2> HIDE DEF r
  <2>3. R \in Tables /\ R = IF kind.engines = "CROSS" THEN source' ELSE r.seen
    BY <1>3, <2>2 DEF Read
  <2>4. target[t] \in MigRows /\ target'[t] = Append(target[t], x)
        /\ \A u \in MigTable : u # t => target'[u] = target[u]
    BY <1>3, <1>5, <2>1
  <2>5. n \in 1 .. Len(R[t]) /\ x = R[t][n] /\ R[t] \in MigRows /\ x \in MigRow
    <3>1. R[t] \in MigRows
      BY <1>3 DEF Tables
    <3>2. Len(R[t]) \in Nat
      BY <3>1 DEF MigRows
    <3>3. n \in 1 .. Len(R[t])
      BY <1>3, <3>2
    <3> QED  BY <1>2, <3>1, <3>3 DEF MigRows
  <2> HIDE DEF R, n
  <2>6. migration = "RUNNING" => RunIs(kind, r, R, target')
    <3>1. SUFFICES ASSUME migration = "RUNNING" PROVE RunIs(kind, r, R, target')
      OBVIOUS
    <3>2. RunIs(kind, mrun[w], R, target)
      BY <3>1 DEF Calm, R
    <3>3. \A j \in MigPlaces : j # mrun[w].i => TableOf[j] # t /\ TableOf[j] \in MigTable
      BY <1>1, <1>3, MigNames
    <3>4. \A j \in MigPlaces : j < mrun[w].i =>
              target'[TableOf[j]] = BaseOf(kind, TableOf[j]) \o R[TableOf[j]]
      <4>1. \A j \in MigPlaces : j < mrun[w].i => j # mrun[w].i
        BY <1>3 DEF MigPlaces
      <4> QED  BY <1>3, <2>4, <3>2, <3>3, <4>1 DEF RunIs
    <3>5. kind.engines = "PG" => \A j \in MigPlaces : j > mrun[w].i =>
              AtRow(TableOf[j], BaseOf(kind, TableOf[j]), R[TableOf[j]],
                    target'[TableOf[j]], 1)
      <4>1. \A j \in MigPlaces : j > mrun[w].i => j # mrun[w].i
        BY <1>3 DEF MigPlaces
      <4> QED  BY <1>3, <2>4, <3>2, <3>3, <4>1 DEF RunIs
    <3>6. AtRow(t, BaseOf(kind, t), R[t], target'[t], n + 1)
      <4>1. AtRow(t, BaseOf(kind, t), R[t], target[t], n)
        BY <1>1, <1>3, <3>2 DEF RunIs, n
      <4>2. BaseOf(kind, t) \in MigRows
        BY <1>3, BaseIs
      <4>3. ~(t \in Keyed /\ R[t][n] \in Holds(target[t]))
        BY <1>5, <2>5
      <4>4. R[t] \in MigRows /\ target[t] \in MigRows /\ n \in 1 .. Len(R[t])
        BY <2>4, <2>5
      <4>5. AtRow(t, BaseOf(kind, t), R[t], Append(target[t], R[t][n]), n + 1)
        BY <4>1, <4>2, <4>3, <4>4, AtNext
      <4> QED  BY <2>4, <2>5, <4>5
    <3>7. n + 1 <= Len(R[t]) + 1
      <4>1. Len(R[t]) \in Nat
        BY <2>5 DEF MigRows
      <4> QED  BY <2>5, <4>1
    <3> QED  BY <1>1, <2>2, <3>4, <3>5, <3>6, <3>7 DEF RunIs
  <2>7. kind.engines = "PG" => \A u \in kind.before :
            target'[u] # <<>> /\ target'[u][1] = OldRow
    <3>1. ASSUME kind.engines = "PG", NEW u \in kind.before
          PROVE  target'[u] # <<>> /\ target'[u][1] = OldRow
      <4>1. u \in MigTable /\ target[u] # <<>> /\ target[u][1] = OldRow
        BY <1>3, <3>1 DEF Calm
      <4>2. CASE u # t
        BY <2>4, <4>1, <4>2
      <4>3. CASE u = t
        <5>1. Len(target[t]) \in Nat /\ Len(target[t]) # 0
          BY <2>4, <4>1, <4>3 DEF MigRows
        <5>2. /\ Len(target'[t]) = Len(target[t]) + 1
              /\ \A j \in 1 .. Len(target[t]) : target'[t][j] = target[t][j]
          BY <2>4, <2>5, HoldsMore
        <5>3. 1 \in 1 .. Len(target[t]) /\ Len(target'[t]) # 0
          BY <5>1, <5>2
        <5>4. target'[t] # <<>>
          BY <5>3
        <5> QED  BY <4>1, <4>3, <5>2, <5>3, <5>4
      <4> QED  BY <4>2, <4>3
    <3> QED  BY <3>1
  <2> QED  BY <1>3, <2>1, <2>2, <2>3, <2>6, <2>7, RunCalm
<1> QED  BY <1>4, <1>5

LEMMA NextCalm ==
    ASSUME MigTypes, Calm, NEW w \in MigWorker,
           \A v \in MigWorker : v # w => mrun[v].pc = "idle", nextMigTable(w)
    PROVE  Calm'
<1> USE MigrationsAssumption
<1>1. PICK t : t = TableOf[mrun[w].i]
  OBVIOUS
<1>2. PICK i : i = mrun[w].i
  OBVIOUS
<1> DEFINE R == Read(w)
<1>3. /\ kind' = kind /\ source' = source /\ migration' = migration /\ copied' = copied
      /\ target' = target /\ mrun[w].pc = "copy" /\ kind \in MigKinds /\ source \in Tables
      /\ i \in MigPlaces /\ mrun[w].seen \in Tables /\ mrun[w] \in MigRuns
      /\ migration \in {"RUNNING", "NONE"} /\ mrun[w].n > Len(R[t])
  BY <1>1, <1>2 DEF nextMigTable, tables, judged, MigTypes, Calm, Copying
<1>4. R \in Tables /\ t \in MigTable /\ t = TableOf[i] /\ i \in Nat /\ mrun[w].n \in Nat
  BY <1>1, <1>2, <1>3, MigNames DEF Read, MigPlaces, MigRuns
<1>5. kind.engines = "PG" => \A u \in kind.before : target[u] # <<>> /\ target[u][1] = OldRow
  BY DEF Calm
\* What it was at is complete.
<1>6. ASSUME migration = "RUNNING"
      PROVE  \A j \in MigPlaces : j <= i =>
                 target[TableOf[j]] = BaseOf(kind, TableOf[j]) \o R[TableOf[j]]
  <2>1. RunIs(kind, mrun[w], R, target)
    BY <1>6 DEF Calm
  <2> HIDE DEF R
  <2>2. \A j \in MigPlaces : j < i =>
            target[TableOf[j]] = BaseOf(kind, TableOf[j]) \o R[TableOf[j]]
    BY <1>2, <1>3, <2>1 DEF RunIs
  <2>3. /\ mrun[w].n <= Len(R[t]) + 1
        /\ AtRow(t, BaseOf(kind, t), R[t], target[t], mrun[w].n)
    BY <1>1, <1>3, <2>1 DEF RunIs
  <2>4. R[t] \in MigRows /\ BaseOf(kind, t) \in MigRows
    BY <1>3, <1>4, BaseIs DEF Tables
  <2>5. mrun[w].n = Len(R[t]) + 1
    <3>1. Len(R[t]) \in Nat
      BY <2>4 DEF MigRows
    <3>2. mrun[w].n \in Nat /\ mrun[w].n > Len(R[t]) /\ mrun[w].n <= Len(R[t]) + 1
      BY <1>3, <1>4, <2>3 DEF R
    <3> QED  BY ONLY <3>1, <3>2
  <2>6. target[t] = BaseOf(kind, t) \o R[t]
    BY <1>4, <2>3, <2>4, <2>5, AtEnd
  <2>7. \A j \in MigPlaces : j <= i => j < i \/ j = i
    BY <1>4 DEF MigPlaces
  <2> QED  BY <1>4, <2>2, <2>6, <2>7
<1>7. CASE i < Len(TableOf)
  <2> DEFINE pc == IF Replaces THEN "create" ELSE "copy"
             r == [mrun[w] EXCEPT !.pc = pc, !.i = mrun[w].i + 1, !.n = 1]
  <2>1. mrun' = [mrun EXCEPT ![w] = r]
    BY <1>2, <1>7 DEF nextMigTable
  <2>2. pc \in MigSteps /\ pc \in {"create", "copy"} /\ (pc = "create" <=> kind.engines # "PG")
    BY DEF MigSteps, Replaces
  <2> HIDE DEF pc
  <2>3. i + 1 \in Nat
    BY <1>4
  <2>4. r \in MigRuns /\ r.pc = pc /\ r.i = i + 1 /\ r.n = 1 /\ r.seen = mrun[w].seen
    BY <1>2, <1>3, <2>2, <2>3 DEF MigRuns
  <2> HIDE DEF r
  <2>5. i + 1 \in MigPlaces /\ \A j \in MigPlaces : (j < i + 1 <=> j <= i) /\ (j > i + 1 => j > i)
    BY <1>4, <1>7, MigNames DEF MigPlaces
  <2>6. ASSUME migration = "RUNNING" PROVE RunIs(kind, r, R, target)
    <3>1. RunIs(kind, mrun[w], R, target)
      BY <2>6 DEF Calm
    <3> HIDE DEF R
    <3>2. kind.engines = "PG" => \A j \in MigPlaces : j > i =>
              AtRow(TableOf[j], BaseOf(kind, TableOf[j]), R[TableOf[j]],
                    target[TableOf[j]], 1)
      BY <1>2, <1>3, <3>1 DEF RunIs
    <3>3. i + 1 > i
      BY <1>4
    <3>4. TableOf[i + 1] \in MigTable
      BY <2>5, MigNames
    <3>5. 1 <= Len(R[TableOf[i + 1]]) + 1
      BY <1>4, <3>4 DEF Tables, MigRows
    <3>6. \A j \in MigPlaces : j < i + 1 =>
              target[TableOf[j]] = BaseOf(kind, TableOf[j]) \o R[TableOf[j]]
      BY <1>6, <2>5, <2>6
    <3>7. \A j \in MigPlaces : kind.engines = "PG" /\ j > i + 1 =>
              AtRow(TableOf[j], BaseOf(kind, TableOf[j]), R[TableOf[j]],
                    target[TableOf[j]], 1)
      BY <2>5, <3>2
    <3>8. r.pc = "copy" => AtRow(TableOf[i + 1], BaseOf(kind, TableOf[i + 1]),
                                 R[TableOf[i + 1]], target[TableOf[i + 1]], 1)
      BY <2>2, <2>4, <2>5, <3>2, <3>3
    <3> QED  BY <2>2, <2>4, <3>5, <3>6, <3>7, <3>8 DEF RunIs
  <2>7. R = IF kind.engines = "CROSS" THEN source' ELSE r.seen
    BY <1>3, <2>4 DEF Read
  <2> HIDE DEF R
  <2> QED  BY <1>3, <1>5, <2>1, <2>2, <2>4, <2>6, <2>7, RunCalm
<1>8. CASE ~(i < Len(TableOf))
  <2> DEFINE pc == IF kind.ghost /\ kind.engines = "MYSQL" THEN "fail" ELSE "complete"
  <2>1. step(w, pc)
    BY <1>2, <1>8 DEF nextMigTable, step
  <2>2. pc \in MigSteps /\ pc \in {"fail", "complete"}
    BY DEF MigSteps
  <2> HIDE DEF pc
  <2>3. PICK r \in MigRuns :
            mrun' = [mrun EXCEPT ![w] = r] /\ r.pc = pc /\ r.seen = mrun[w].seen
    BY <2>1, <2>2, StepIs
  <2>4. ASSUME migration = "RUNNING" PROVE \A u \in MigTable : target[u] = BaseOf(kind, u) \o R[u]
    <3>1. \A j \in MigPlaces : j <= i
      BY <1>4, <1>8, MigNames DEF MigPlaces
    <3>2. \A j \in MigPlaces :
              target[TableOf[j]] = BaseOf(kind, TableOf[j]) \o R[TableOf[j]]
      BY <1>6, <2>4, <3>1
    <3>3. ASSUME NEW u \in MigTable PROVE target[u] = BaseOf(kind, u) \o R[u]
      <4>1. PICK j \in MigPlaces : TableOf[j] = u
        BY MigNames
      <4> QED  BY <3>2, <4>1
    <3> QED  BY <3>3
  <2>5. R = IF kind.engines = "CROSS" THEN source' ELSE r.seen
    BY <1>3, <2>3 DEF Read
  <2> HIDE DEF R
  <2>6. migration = "RUNNING" => RunIs(kind, r, R, target)
    BY <2>2, <2>3, <2>4 DEF RunIs
  <2> QED  BY <1>3, <1>5, <2>2, <2>3, <2>5, <2>6, RunCalm
<1> QED  BY <1>7, <1>8

LEMMA EndCalm ==
    ASSUME MigTypes, Calm, NEW w \in MigWorker,
           \A v \in MigWorker : v # w => mrun[v].pc = "idle",
           \/ failMigration(w) \/ completeMigration(w) \/ markMigrationFailed(w)
           \/ endMigrationJob(w)
    PROVE  Calm'
<1>0. kind' = kind /\ target' = target /\ source' = source
  BY DEF failMigration, completeMigration, markMigrationFailed, endMigrationJob, tables
<1>1. CASE failMigration(w)
  <2>1. PICK r \in MigRuns : mrun' = [mrun EXCEPT ![w] = r] /\ r.pc = "fail"
    BY <1>1, StepIs DEF failMigration, MigSteps
  <2>2. migration' = migration /\ copied' = copied
    BY <1>1 DEF failMigration, judged
  <2> QED  BY <1>0, <2>1, <2>2, PassesOn DEF Copying
<1>2. CASE completeMigration(w)
  <2>1. PICK r \in MigRuns : mrun' = [mrun EXCEPT ![w] = r] /\ r.pc = "done"
    BY <1>2, StepIs DEF completeMigration, MigSteps
  <2>2. /\ migration' = "COMPLETED" /\ copied' = Read(w) /\ mrun[w].pc = "complete"
        /\ migration = "RUNNING"
    BY <1>2 DEF completeMigration, Calm, Copying
  <2>3. Read(w) \in Tables
    BY <2>2 DEF Read, MigTypes, Copying
  <2>4. \A t \in MigTable : target[t] = BaseOf(kind, t) \o Read(w)[t]
    BY <2>2 DEF Calm, RunIs
  <2>5. kind.engines = "PG" => \A u \in kind.before : target[u] # <<>> /\ target[u][1] = OldRow
    BY DEF Calm
  <2> QED  BY <1>0, <2>1, <2>2, <2>3, <2>4, <2>5, RunCalm DEF Copying
<1>3. CASE markMigrationFailed(w)
  <2>1. PICK r \in MigRuns : mrun' = [mrun EXCEPT ![w] = r] /\ r.pc = "failed"
    BY <1>3, StepIs DEF markMigrationFailed, MigSteps
  <2>2. copied' = copied /\ migration' \in {"FAILED", migration}
    BY <1>3 DEF markMigrationFailed
  <2> QED  BY <1>0, <2>1, <2>2, PassesOn DEF Copying
<1>4. CASE endMigrationJob(w)
  <2>1. copied' = copied /\ migration' = migration /\ mrun' = [mrun EXCEPT ![w] = NoMigRun]
    BY <1>4 DEF endMigrationJob, judged
  <2> QED  BY <1>0, <2>1, IdleRun, PassesOn DEF Copying
<1> QED  BY <1>1, <1>2, <1>3, <1>4

\* Whether a run or anything else moves, what completed stays what was read.
LEMMA CalmStep ==
    MigTypes /\ MigJobInv /\ Calm /\ ~disturbed' /\ [MigrationsNext]_migrationsVars => Calm'
<1> SUFFICES ASSUME MigTypes, MigJobInv, Calm, ~disturbed', [MigrationsNext]_migrationsVars
             PROVE  Calm'
  OBVIOUS
<1> USE MigrationsAssumption
<1>1. ASSUME NEW w \in MigWorker, runMigration(w) PROVE Calm'
  <2>1. mrun[w].pc # "idle"
    BY <1>1 DEF runMigration, startMigration, createMissing, dropAndCreate, copyBatch,
                nextMigTable, failMigration, completeMigration, markMigrationFailed,
                endMigrationJob
  <2>2. \A v \in MigWorker : v # w => mrun[v].pc = "idle"
    BY <2>1 DEF Calm
  <2> QED  BY <1>1, <2>2, StartCalm, MissingCalm, CreateCalm, BatchCalm, NextCalm, EndCalm
           DEF runMigration
<1>2. ASSUME NEW w \in MigWorker, pickMigration(w) PROVE Calm'
  <2>1. /\ \A v \in MigWorker : mrun[v].pc = "idle"
        /\ UNCHANGED <<kind, migration, source, target, copied>>
    BY <1>2 DEF pickMigration, tables, judged
  <2>2. PICK r \in MigRuns : mrun' = [mrun EXCEPT ![w] = r] /\ r.pc = "begin"
    BY <1>2, StepIs DEF pickMigration, MigSteps
  <2> QED  BY <2>1, <2>2, PassesOn DEF Copying
<1>3. ASSUME NEW dies \in BOOLEAN, stallMigration(dies) PROVE Calm'
  <2>1. UNCHANGED <<kind, migration, source, target, copied>>
    BY <1>3 DEF stallMigration, tables
  <2>2. mrun' = mrun \/ \A w \in MigWorker : mrun'[w].pc = "idle"
    BY <1>3, IdleRun DEF stallMigration
  <2>3. CASE mrun' = mrun
    BY <2>1, <2>3 DEF Calm, Read
  <2>4. CASE \A w \in MigWorker : mrun'[w].pc = "idle"
    <3>1. \A w \in MigWorker : RunIs(kind, mrun'[w], Read(w)', target')
      BY <2>4 DEF RunIs
    <3>2. \A w \in MigWorker : mrun'[w].pc \notin Copying \cup {"create"}
      BY <2>4 DEF Copying
    <3> QED  BY <2>1, <2>4, <3>1, <3>2 DEF Calm
  <2> QED  BY <2>2, <2>3, <2>4
<1>4. ASSUME NEW t \in MigTable, writeSource(t) PROVE Calm'
  <2>1. /\ UNCHANGED <<kind, migration, mrun, target, copied>>
        /\ ~(kind.engines = "CROSS" /\ migration = "RUNNING")
    BY <1>4 DEF writeSource, judged
  <2>2. migration = "RUNNING" => \A w \in MigWorker : Read(w)' = Read(w)
    BY <2>1 DEF Read
  <2> QED  BY <2>1, <2>2 DEF Calm
<1>5. CASE createMigration
  <2>1. /\ migration' = "PENDING" /\ \A w \in MigWorker : mrun[w].pc = "idle"
        /\ UNCHANGED <<kind, mrun, target>>
    BY <1>5 DEF createMigration, tables, MigJobInv
  <2> QED  BY <2>1 DEF Calm, Copying
<1>6. CASE deleteMigration
  <2>1. migration' = "NONE" /\ UNCHANGED <<kind, mrun, target>>
    BY <1>6 DEF deleteMigration, tables
  <2> QED  BY <2>1 DEF Calm
<1>7. CASE beginDelete \/ verifyMigration \/ UNCHANGED migrationsVars
  <2>1. UNCHANGED <<kind, migration, mrun, source, target, copied>>
    BY <1>7 DEF beginDelete, verifyMigration, migrationsVars, tables, judged
  <2> QED  BY <2>1 DEF Calm, Read
<1> QED  BY <1>1, <1>2, <1>3, <1>4, <1>5, <1>6, <1>7 DEF MigrationsNext

LEMMA MigInvStep == MigInv /\ [MigrationsNext]_migrationsVars => MigInv'
<1> SUFFICES ASSUME MigInv, [MigrationsNext]_migrationsVars PROVE MigInv'
  OBVIOUS
<1>1. MigTypes' /\ MigJobInv'
  BY MigTypesStep, MigJobStep DEF MigInv
<1>2. disturbed => disturbed'
  BY DEF MigInv, MigTypes, MigrationsNext, migrationsVars, createMigration, beginDelete,
         deleteMigration, verifyMigration, pickMigration, runMigration, startMigration,
         createMissing, dropAndCreate, copyBatch, nextMigTable, failMigration,
         completeMigration, markMigrationFailed, endMigrationJob, stallMigration, writeSource
<1>3. ~disturbed' => Calm'
  BY <1>2, CalmStep DEF MigInv
<1> QED  BY <1>1, <1>3 DEF MigInv

LEMMA CountUp ==
    ASSUME NEW n \in Nat
    PROVE  IsFiniteSet(1 .. n) /\ Cardinality(1 .. n) = n
<1>1. 1 \in Int /\ n \in Int /\ (IF 1 > n THEN 0 ELSE n - 1 + 1) = n
  OBVIOUS
<1> QED  BY <1>1, FS_Interval

LEMMA CompletedFromInv == MigInv => CompletedIsSource /\ MigrationsTypeOK
<1> SUFFICES ASSUME MigInv PROVE CompletedIsSource /\ MigrationsTypeOK
  OBVIOUS
<1> USE MigrationsAssumption
<1>1. MigTypes
  BY DEF MigInv
<1>2. CompletedIsSource
  <2>1. SUFFICES ASSUME migration = "COMPLETED", ~disturbed, NEW t \in MigTable
                 PROVE  target[t] = (IF Replaces \/ Before(t) = Absent THEN <<>> ELSE Before(t))
                                    \o copied[t]
    BY DEF CompletedIsSource
  <2>2. target[t] = BaseOf(kind, t) \o copied[t]
    BY <2>1 DEF MigInv, Calm
  <2>3. <<OldRow>> # Absent
    BY MigNames
  <2>4. BaseOf(kind, t) = IF Replaces \/ Before(t) = Absent THEN <<>> ELSE Before(t)
    BY <2>3 DEF BaseOf, Replaces, Before
  <2> QED  BY <2>2, <2>4
<1>3. ASSUME NEW s \in MigRows
      PROVE  Holds(s) \subseteq MigRow /\ (Distinct(s) => Cardinality(Holds(s)) = Len(s))
  <2>1. s \in [1 .. Len(s) -> MigRow] /\ Len(s) \in Nat /\ DOMAIN s = 1 .. Len(s)
    BY DEF MigRows
  <2>2. Holds(s) \subseteq MigRow
    BY <2>1 DEF Holds
  <2>3. ASSUME Distinct(s) PROVE Cardinality(Holds(s)) = Len(s)
    <3>1. IsFiniteSet(1 .. Len(s)) /\ Cardinality(1 .. Len(s)) = Len(s)
      BY <2>1, CountUp
    <3>2. s \in Surjection(1 .. Len(s), Holds(s))
      BY <2>1 DEF Surjection, Holds
    <3>3. s \in Injection(1 .. Len(s), Holds(s))
      BY <2>1, <2>3, <3>2 DEF Surjection, Injection, IsInjective, Distinct
    <3> QED  BY <3>1, <3>2, <3>3, FS_Surjection
  <2> QED  BY <2>2, <2>3
<1>4. \A w \in MigWorker :
          /\ mrun[w].pc \in MigSteps
          /\ mrun[w].pc \in {"create", "copy"} => mrun[w].i \in DOMAIN TableOf
  BY <1>1, MigNames DEF MigTypes, MigRuns, Copying
<1>5. \A t \in MigTable : Holds(source[t]) \subseteq MigRow
                           /\ (target[t] = Absent \/ Holds(target[t]) \subseteq MigRow)
  BY <1>1, <1>3 DEF MigTypes, Tables
<1>6. \A t \in Keyed : target[t] # Absent => Cardinality(Holds(target[t])) = Len(target[t])
  BY <1>1, <1>3 DEF MigTypes
<1>7. MigrationsTypeOK
  BY <1>1, <1>4, <1>5, <1>6 DEF MigTypes, MigrationsTypeOK, MigJobs, MigSteps
<1> QED  BY <1>2, <1>7

\* A verification compares with the source as it is now.
LEMMA VerifyStep ==
    MigInv /\ [MigrationsNext]_migrationsVars =>
        (verdict # "MISMATCH" /\ verdict' = "MISMATCH" =>
           \/ disturbed \/ copied # source \/ kind.unlike # {}
           \/ kind.engines = "CROSS" /\ Indexed # {}
           \/ kind.engines = "PG" /\ kind.before # {})
<1> SUFFICES ASSUME MigInv, [MigrationsNext]_migrationsVars, verdict # "MISMATCH",
                    verdict' = "MISMATCH", ~disturbed, copied = source,
                    kind.unlike = {},
                    ~(kind.engines = "CROSS" /\ Indexed # {}),
                    ~(kind.engines = "PG" /\ kind.before # {})
             PROVE  FALSE
  OBVIOUS
<1> USE MigrationsAssumption
<1>1. verifyMigration
  BY DEF MigrationsNext, migrationsVars, createMigration, beginDelete, judged,
         deleteMigration, pickMigration, runMigration, startMigration,
         createMissing, dropAndCreate, copyBatch, nextMigTable, failMigration,
         completeMigration, markMigrationFailed, endMigrationJob, stallMigration, writeSource
<1>2. PICK deep \in BOOLEAN : ~verifyTables(deep)
  BY <1>1 DEF verifyMigration
<1>3. ASSUME NEW t \in MigTable PROVE target[t] = source[t] /\ target[t] # Absent
  <2>1. target[t] = BaseOf(kind, t) \o source[t] /\ source[t] \in MigRows
    BY <1>1 DEF verifyMigration, MigInv, Calm, MigTypes, Tables
  <2>2. BaseOf(kind, t) = <<>>
    BY DEF BaseOf
  <2>3. <<>> \o source[t] = source[t]
    BY <2>1, ConcatEmptySeq DEF MigRows
  <2> QED  BY <2>1, <2>2, <2>3, MigNames
<1>4. \A t \in MigTable : TypesMatch(t) /\ IndexesMatch(t) /\ RowsMatch(t)
  BY <1>3 DEF TypesMatch, IndexesMatch, RowsMatch
<1>5. verifyTables(deep)
  BY <1>3, <1>4 DEF verifyTables
<1> QED  BY <1>2, <1>5

LEMMA ProgressTyped == ProgressInv => ProgressTypeOK
  BY DEF ProgressInv, ProgressTypes, ProgressTypeOK, StreamRows, PageRows, Attempts

-----------------------------------------------------------------------------
(* The whole: one module moves, the others keep their invariants.          *)

LEMMA InitOfEach ==
    Init => /\ DrillsInit /\ RestoreInit /\ MigrationsInit /\ MonitoringInit /\ EngineInit
            /\ ExportInit /\ ProgressInit /\ SyncPageInit /\ SchedulesInit
  BY DEF Init

\* A step of the whole is a step of each module, or leaves its state.
LEMMA StepOfEach ==
    [Next]_allVars =>
        /\ [DrillsNext]_drillsVars
        /\ [RestoreNext]_restoreVars
        /\ [MigrationsNext]_migrationsVars
        /\ [MonitoringNext]_monitoringVars
        /\ [EngineNext]_engineVars
        /\ [ExportNext]_exportVars
        /\ [ProgressNext]_progressVars
        /\ [SyncPageNext]_syncPageVars
        /\ [SchedulesNext]_schedulesVars
<1> SUFFICES ASSUME [Next]_allVars
             PROVE  /\ [DrillsNext]_drillsVars
                    /\ [RestoreNext]_restoreVars
                    /\ [MigrationsNext]_migrationsVars
                    /\ [MonitoringNext]_monitoringVars
                    /\ [EngineNext]_engineVars
                    /\ [ExportNext]_exportVars
                    /\ [ProgressNext]_progressVars
                    /\ [SyncPageNext]_syncPageVars
                    /\ [SchedulesNext]_schedulesVars
  OBVIOUS
<1>1. CASE Next
  <2>1. [DrillsNext]_drillsVars
    BY <1>1 DEF Next, OthersStay
  <2>2. [RestoreNext]_restoreVars
    BY <1>1 DEF Next, OthersStay
  <2>3. [MigrationsNext]_migrationsVars
    BY <1>1 DEF Next, OthersStay
  <2>4. [MonitoringNext]_monitoringVars
    BY <1>1 DEF Next, OthersStay
  <2>5. [EngineNext]_engineVars
    BY <1>1 DEF Next, OthersStay
  <2>6. [ExportNext]_exportVars
    BY <1>1 DEF Next, OthersStay
  <2>7. [ProgressNext]_progressVars
    BY <1>1 DEF Next, OthersStay
  <2>8. [SyncPageNext]_syncPageVars
    BY <1>1 DEF Next, OthersStay
  <2>9. [SchedulesNext]_schedulesVars
    BY <1>1 DEF Next, OthersStay
  <2> QED  BY <2>1, <2>2, <2>3, <2>4, <2>5, <2>6, <2>7, <2>8, <2>9
<1>2. CASE UNCHANGED allVars
  BY <1>2 DEF allVars
<1> QED  BY <1>1, <1>2

\* What is reported done is whole, for any number of tables, rows and batches, any writes of
\* the application meanwhile and any failure: a dump or a restore that ended well did all of
\* its work, a migration that completed undisturbed left in the target what it read, an export
\* that ended is one state of the database (dump-to-file.ts, migration.queue.ts,
\* export.service.ts).
THEOREM DoneMeansWhole == Spec => []DoneIsWhole
<1> DEFINE Inv == EngineInv /\ MigInv /\ ExportInv
<1>1. Init => Inv
  BY InitOfEach, EngineInvInit, MigInvInit, ExportInvInit
<1>2. Inv /\ [Next]_allVars => Inv'
  BY StepOfEach, EngineInvStep, MigInvStep, ExportInvStep
<1>3. Inv => DoneIsWhole
  BY OutcomeFromInv, CompletedFromInv, WholeFromInv DEF DoneIsWhole
<1> HIDE DEF Inv
<1> QED  BY <1>1, <1>2, <1>3, PTL DEF Spec

\* A verification of a migration that nothing disturbed finds no difference, for any tables,
\* rows and attempts, unless the source went on, a type was made another one on the way, an
\* index was not copied or the target held rows (migration-verification.service.ts,
\* verifyMigrationConsistency).  A copy between engines whose pages came in different orders
\* counts as disturbed.
THEOREM VerificationIsFair == Spec => VerificationAgrees
<1>1. Init => MigInv
  BY InitOfEach, MigInvInit
<1>2. MigInv /\ [Next]_allVars => MigInv'
  BY StepOfEach, MigInvStep
<1>3. MigInv /\ [Next]_allVars =>
          [verdict # "MISMATCH" /\ verdict' = "MISMATCH" =>
               \/ disturbed \/ copied # source \/ kind.unlike # {}
               \/ kind.engines = "CROSS" /\ Indexed # {}
               \/ kind.engines = "PG" /\ kind.before # {}]_migrationsVars
  BY StepOfEach, VerifyStep
<1> QED  BY <1>1, <1>2, <1>3, PTL DEF Spec, VerificationAgrees

\* Nothing outlives its use and nothing is used twice, for any number of drills, restores,
\* streams, schedules and firings: a run that ended holds no tunnel and no secret, a scratch
\* database belongs to one drill, a restore is repeated only after a stall, the streams are
\* counted once each; and a firing makes one backup, and at most one more for each time its
\* job lost its worker, lost its lock to a blocked loop while its first run went on, or threw
\* (restore-drill.service.ts, restore.queue.ts, dump-to-file.ts, sse.controller.ts,
\* schedule.queue.ts:69-92).
THEOREM NothingIsLeaked == Spec => []NothingLeaks
<1> DEFINE Inv == DrillsInv /\ RestoreInv /\ EngineInv /\ ProgressInv /\ FiringInv
<1>1. Init => Inv
  BY InitOfEach, DrillsInvInit, RestoreInvInit, EngineInvInit, ProgressInvInit, FiringInvInit
<1>2. Inv /\ [Next]_allVars => Inv'
  BY StepOfEach, DrillsInvStep, RestoreInvStep, EngineInvStep, ProgressInvStep, FiringInvStep
<1>3. Inv => NothingLeaks
  <2>1. DrillsInv => ScratchIsPrivate
    BY DEF DrillsInv
  <2> QED  BY <2>1, OutcomeFromInv, AgainFromInv, CountFromInv, OneBackupFromInv
           DEF NothingLeaks
<1> HIDE DEF Inv
<1> QED  BY <1>1, <1>2, <1>3, PTL DEF Spec

\* An older write or answer stands over a newer one only where the code lets it, for any
\* number of pages, tabs, queries, attempts and requests: the end that an attempt wrote is not
\* lost under its late progress (backup.queue.ts:89), whatever attempts follow; what a tab
\* shows was not read before its own command, unless it was the tab's first answer; the entry
\* of a schedule is that of its last request, unless two requests for it met: of those that
\* overlap it says nothing (schedule.queue.ts).
THEOREM EndsAlwaysStand == Spec => []EndsStand
<1> DEFINE Inv == ProgressInv /\ SeenInv /\ FiringInv
<1>1. Init => Inv
  BY InitOfEach, ProgressInvInit, SeenInvInit, FiringInvInit
<1>2. Inv /\ [Next]_allVars => Inv'
  BY StepOfEach, ProgressInvStep, SeenInvStep, FiringInvStep
<1>3. Inv => EndsStand
  BY CountFromInv, SeenFromInv, OneBackupFromInv DEF EndsStand
<1> HIDE DEF Inv
<1> QED  BY <1>1, <1>2, <1>3, PTL DEF Spec

\* Every variable of the module that moves keeps its type.
THEOREM JobsTyped == Spec => []TypeOK
<1> DEFINE Inv == /\ focus \in Modules /\ DrillsInv /\ RestoreInv /\ MigInv
                  /\ BeatInv /\ ClockTypes /\ EngineInv /\ ExportInv /\ ProgressInv
                  /\ SeenInv /\ FiringInv
<1>1. Init => Inv
  <2>1. Init => focus \in Modules
    BY DEF Init
  <2> QED  BY <2>1, InitOfEach, DrillsInvInit, RestoreInvInit, MigInvInit, BeatInit, ClockInit,
              EngineInvInit, ExportInvInit, ProgressInvInit, SeenInvInit, FiringInvInit
<1>2. Inv /\ [Next]_allVars => Inv'
  <2>1. focus \in Modules /\ [Next]_allVars => focus' \in Modules
    BY DEF Next, OthersStay, allVars
  <2> QED  BY <2>1, StepOfEach, DrillsInvStep, RestoreInvStep, MigInvStep, BeatStep, ClockStep,
              EngineInvStep, ExportInvStep, ProgressInvStep, SeenInvStep, FiringInvStep
<1>3. Inv => TypeOK
  <2>1. (DrillsInv => DrillsTypeOK) /\ (RestoreInv => RestoreTypeOK) /\ (EngineInv => EngineTypeOK)
    BY DEF DrillsInv, RestoreInv, EngineInv
  <2>2. (MigInv => MigrationsTypeOK) /\ (ExportInv => ExportTypeOK)
        /\ (BeatInv /\ ClockTypes => MonitoringTypeOK) /\ (ProgressInv => ProgressTypeOK)
    BY CompletedFromInv, WholeFromInv, MonitoringTyped, ProgressTyped
  <2>3. (SeenInv => SyncPageTypeOK) /\ (FiringInv => SchedulesTypeOK)
    BY SeenFromInv, OneBackupFromInv
  <2> QED  BY <2>1, <2>2, <2>3 DEF TypeOK
<1> HIDE DEF Inv
<1> QED  BY <1>1, <1>2, <1>3, PTL DEF Spec
=============================================================================
