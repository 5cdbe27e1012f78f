---------------------------- MODULE ChangeCapture ----------------------------
(***************************************************************************)
(* Change data capture by triggers on one source database: the triggers and *)
(* the change log that the trackers of several sync configurations create   *)
(* and drop, the application that writes the tables meanwhile, and the      *)
(* changes read since a checkpoint.                                         *)
(***************************************************************************)
EXTENDS Naturals, Sequences, FiniteSets, FiniteSetsExt

CONSTANTS TrackConfig,          \* sync configurations of the source
          TrackTable,           \* tables of the application
          Keyless,              \* those without a primary key
          IncludeTables,        \* [TrackConfig -> filter, {} tracks everything]
          CaptureLimit,         \* rows of one capture
          Hour,                 \* ticks of the clock in an hour
          MaxTicks, MaxChanges  \* bounds

ChangeLog == "_cdc_changelog"

ASSUME CaptureAssumption ==
    /\ Keyless \subseteq TrackTable /\ ChangeLog \notin TrackTable
    /\ IncludeTables \in [TrackConfig -> SUBSET TrackTable]
    /\ {CaptureLimit, Hour} \subseteq Nat \ {0} /\ {MaxTicks, MaxChanges} \subseteq Nat

VARIABLES
    trackerKind,    \* type of the source: MYSQL (and MARIADB) or POSTGRESQL
    tracker,        \* TrackConfig -> [pc, todo: the tables not visited yet, table]
    triggers,       \* pairs <<configuration, table>>
    logExists,      \* the change log is there,
    changes,        \* its committed rows,
    openChanges,    \* and those of transactions that have not committed
    nextChange,     \* id of the next row
    written,        \* history: TrackConfig -> ids of the rows its triggers wrote
    lost,           \* history: ids of the rows of a change log that was dropped
    sourceClock,    \* clock of the source
    mark,           \* TrackConfig -> [time, id]: the source checkpoint
    captured,       \* TrackConfig -> ids handed out so far, or copied before
    blamed          \* history: reasons why writes of the application may fail

captureVars == <<trackerKind, tracker, triggers, logExists, changes, openChanges,
                 nextChange, written, lost, sourceClock, mark, captured, blamed>>
loggedVars == <<changes, openChanges, nextChange, written, lost>>
logVars == <<logExists, loggedVars>>
readVars == <<mark, captured>>

Change == [id : 1 .. MaxChanges, config : TrackConfig, time : 0 .. MaxTicks,
           late : BOOLEAN]

CaptureTypeOK ==
    /\ trackerKind \in {"MYSQL", "POSTGRESQL"}
    /\ tracker \in [TrackConfig ->
          [pc : {"off", "log", "triggers", "checkpoint", "on", "drop", "stopped"},
           todo : SUBSET (TrackTable \cup {ChangeLog}),
           table : TrackTable \cup {ChangeLog}]]
    /\ triggers \subseteq TrackConfig \X (TrackTable \cup {ChangeLog})
    /\ logExists \in BOOLEAN /\ changes \subseteq Change
    /\ openChanges \subseteq Change /\ nextChange \in 1 .. MaxChanges + 1
    /\ written \in [TrackConfig -> SUBSET (1 .. MaxChanges)] /\ lost \subseteq 1 .. MaxChanges
    /\ sourceClock \in 0 .. MaxTicks
    /\ mark \in [TrackConfig -> [time : 0 .. MaxTicks, id : 0 .. MaxChanges]]
    /\ captured \in [TrackConfig -> SUBSET (1 .. MaxChanges)]
    /\ blamed \subseteq {"shared", "dropFailed", "tracksLog"}

CaptureInit ==
    /\ trackerKind \in {"MYSQL", "POSTGRESQL"}
    /\ tracker = [c \in TrackConfig |-> [pc |-> "off", todo |-> {}, table |-> ChangeLog]]
    /\ triggers = {} /\ logExists = FALSE /\ changes = {} /\ openChanges = {}
    /\ written = [c \in TrackConfig |-> {}] /\ lost = {}
    /\ nextChange = 1 /\ sourceClock = 0 /\ blamed = {}
    /\ mark = [c \in TrackConfig |-> [time |-> 0, id |-> 0]]
    /\ captured = [c \in TrackConfig |-> {}]

-----------------------------------------------------------------------------
(* Start and stop of a configuration.                                      *)

\* Every table there is, the change log included once there is one.
getTablesToTrack(c) ==
    LET tables == TrackTable \cup (IF logExists THEN {ChangeLog} ELSE {})
    IN IF IncludeTables[c] = {} THEN tables ELSE tables \cap IncludeTables[c]

initializeTracking(c) ==
    /\ tracker[c].pc \in {"off", "stopped"}
    /\ tracker' = [tracker EXCEPT ![c].pc = "log", ![c].todo = getTablesToTrack(c)]
    /\ blamed' = IF ChangeLog \in getTablesToTrack(c)
                 THEN blamed \cup {"tracksLog"} ELSE blamed
    /\ UNCHANGED <<trackerKind, triggers, logVars, sourceClock, readVars>>

\* CREATE TABLE IF NOT EXISTS, for every table anew; a table without a primary
\* key ends the start and leaves what was made.
createChangeLog(c) ==
    /\ tracker[c].pc = "log"
    /\ \/ /\ tracker[c].todo = {} /\ UNCHANGED logExists
          /\ tracker' = [tracker EXCEPT ![c].pc = "checkpoint"]
       \/ \E t \in tracker[c].todo :
             IF t \in Keyless
             THEN /\ tracker' = [tracker EXCEPT ![c] = [@ EXCEPT !.pc = "off",
                                                                 !.todo = {}]]
                  /\ UNCHANGED logExists
             ELSE /\ tracker' = [tracker EXCEPT ![c] =
                        [pc |-> "triggers", todo |-> @.todo \ {t}, table |-> t]]
                  /\ logExists' = TRUE
    /\ UNCHANGED <<trackerKind, triggers, loggedVars, sourceClock, readVars, blamed>>

\* The name of a MySQL trigger holds the configuration twice and no table: the
\* triggers move to the last table.
createTriggersForTable(c) ==
    /\ tracker[c].pc = "triggers"
    /\ LET mine == {<<c, t>> : t \in TrackTable \cup {ChangeLog}}
       IN triggers' = {<<c, tracker[c].table>>} \cup
                      (IF trackerKind = "MYSQL" THEN triggers \ mine ELSE triggers)
    /\ tracker' = [tracker EXCEPT ![c].pc = "log"]
    /\ UNCHANGED <<trackerKind, logVars, sourceClock, readVars, blamed>>

\* What is in the tables by then is left to the first full copy.
getCheckpoint(c) ==
    /\ tracker[c].pc = "checkpoint"
    /\ tracker' = [tracker EXCEPT ![c].pc = "on"]
    /\ mark' = [mark EXCEPT ![c] = [time |-> sourceClock, id |-> 0]]
    /\ captured' = [captured EXCEPT ![c] = {r.id : r \in changes}]
    /\ openChanges' = {[r EXCEPT !.late = @ \/ r.config = c] : r \in openChanges}
    /\ UNCHANGED <<trackerKind, triggers, logExists, changes, nextChange, written, lost,
                   sourceClock, blamed>>

\* Mutant: the change log is dropped before the triggers that write it.
dropLogFirst(c) ==
    /\ tracker[c].pc = "on"
    /\ tracker' = [tracker EXCEPT ![c].pc = "drop", ![c].todo = getTablesToTrack(c)]
    /\ logExists' = FALSE /\ changes' = {}
    /\ UNCHANGED <<trackerKind, triggers, openChanges, nextChange, written, lost, sourceClock,
                   readVars, blamed>>

teardownTracking(c) ==
    /\ tracker[c].pc = "on"
    /\ tracker' = [tracker EXCEPT ![c].pc = "drop", ![c].todo = getTablesToTrack(c)]
    /\ UNCHANGED <<trackerKind, triggers, logVars, sourceClock, readVars, blamed>>

\* An error is ignored, the missing trigger as any other.
dropTriggersForTable(c) ==
    /\ tracker[c].pc = "drop"
    /\ \E t \in tracker[c].todo :
          /\ tracker' = [tracker EXCEPT ![c].todo = @ \ {t}]
          /\ LET named == IF trackerKind = "MYSQL"
                          THEN {p \in triggers : p[1] = c} ELSE triggers \cap {<<c, t>>}
             IN \/ triggers' = triggers \ named /\ UNCHANGED blamed
                \/ /\ named # {} /\ blamed' = blamed \cup {"dropFailed"}
                   /\ UNCHANGED triggers
    /\ UNCHANGED <<trackerKind, logVars, sourceClock, readVars>>

\* The change log goes, whoever else writes it.
dropChangeLog(c) ==
    /\ tracker[c].pc = "drop" /\ tracker[c].todo = {}
    /\ tracker' = [tracker EXCEPT ![c].pc = "stopped"]
    /\ logExists' = FALSE /\ changes' = {} /\ openChanges' = {}
    /\ lost' = lost \cup {r.id : r \in changes \cup openChanges}
    /\ blamed' = IF \/ \E p \in triggers : p[1] # c
                    \/ \E d \in TrackConfig \ {c} : tracker[d].pc = "triggers"
                 THEN blamed \cup {"shared"} ELSE blamed
    /\ mark' = [mark EXCEPT ![c] = [time |-> 0, id |-> 0]]
    /\ captured' = [captured EXCEPT ![c] = {}]
    /\ UNCHANGED <<trackerKind, triggers, nextChange, written, sourceClock>>

-----------------------------------------------------------------------------
(* The application and the reader.                                         *)

\* A write fires the triggers of its table, and fails when the log is missing
\* or is itself tracked.
WriteSucceeds(t) ==
    (\E p \in triggers : p[2] = t)
        => logExists /\ \A p \in triggers : p[2] # ChangeLog

\* The row bears the time at which it was written, not that of its commit.
beginWrite ==
    \E t \in TrackTable, c \in TrackConfig :
        /\ <<c, t>> \in triggers /\ WriteSucceeds(t) /\ nextChange <= MaxChanges
        /\ openChanges' = openChanges \cup
              {[id |-> nextChange, config |-> c, time |-> sourceClock, late |-> FALSE]}
        /\ nextChange' = nextChange + 1
        /\ written' = [written EXCEPT ![c] = @ \cup {nextChange}]
        /\ UNCHANGED <<trackerKind, tracker, triggers, logExists, changes, lost, sourceClock,
                       readVars, blamed>>

commitWrite ==
    \E r \in openChanges :
        /\ openChanges' = openChanges \ {r} /\ changes' = changes \cup {r}
        /\ UNCHANGED <<trackerKind, tracker, triggers, logExists, nextChange, written, lost,
                       sourceClock, readVars, blamed>>

passTick ==
    /\ sourceClock < MaxTicks /\ sourceClock' = sourceClock + 1
    /\ UNCHANGED <<trackerKind, tracker, triggers, logVars, readVars, blamed>>

\* split(':') cuts an ISO time after its hour, and takes its minutes for the id.
Parse(checkpoint) ==
    [time |-> checkpoint.time - (checkpoint.time % Hour), id |-> checkpoint.time % Hour]

After(r, since) == r.time > since.time \/ (r.time = since.time /\ r.id > since.id)

\* Mutant: no ORDER BY under the LIMIT.
captureUnordered(rows) ==
    {s \in SUBSET rows : Cardinality(s) = IF Cardinality(rows) < CaptureLimit
                                          THEN Cardinality(rows) ELSE CaptureLimit}

captureChangesFromTriggers(rows) ==
    {s \in SUBSET rows :
        /\ Cardinality(s) = IF Cardinality(rows) < CaptureLimit
                            THEN Cardinality(rows) ELSE CaptureLimit
        /\ \A r \in s, q \in rows \ s : After(q, r)}

\* The capture, and the checkpoint of its last change once it is applied.
captureChanges(c) ==
    /\ tracker[c].pc = "on" /\ logExists
    /\ \E got \in captureChangesFromTriggers({r \in changes :
                                   r.config = c /\ After(r, Parse(mark[c]))}) :
          /\ got # {}
          /\ captured' = [captured EXCEPT ![c] = @ \cup {r.id : r \in got}]
          /\ mark' = [mark EXCEPT ![c] =
                LET last == CHOOSE r \in got : \A q \in got \ {r} : After(r, q)
                IN [time |-> last.time, id |-> last.id]]
          /\ openChanges' = {[r EXCEPT !.late = @ \/ r.config = c] : r \in openChanges}
    /\ UNCHANGED <<trackerKind, tracker, triggers, logExists, changes, nextChange, written,
                   lost, sourceClock, blamed>>

CaptureNext ==
    \/ \E c \in TrackConfig :
          \/ initializeTracking(c) \/ createChangeLog(c) \/ createTriggersForTable(c)
          \/ getCheckpoint(c) \/ teardownTracking(c) \/ dropTriggersForTable(c)
          \/ dropChangeLog(c) \/ captureChanges(c)
    \/ beginWrite \/ commitWrite \/ passTick

CaptureSpec == CaptureInit /\ [][CaptureNext]_captureVars

-----------------------------------------------------------------------------

\* Capture never makes a write of the application fail, unless a configuration
\* of the same source was stopped, or started while the log existed and without
\* a list of tables, or the drop of a trigger failed (the trackers' order of
\* creation and teardown).
WritesSurvive == blamed = {} => \A t \in TrackTable : WriteSucceeds(t)

\* A reader that goes on from the checkpoint of its last capture passes by no change:
\* what a trigger wrote for it was handed out, or is in the log where its next capture
\* looks. Against `all operations that occurred after the given checkpoint'
\* (cdc-tracker.service.ts:80-82) there are two exceptions, a change whose transaction
\* was open at an earlier capture and one in a log that the stop of some configuration
\* dropped; and it does not say that a capture ever hands the change out, since every
\* capture begins anew at the hour of the checkpoint and, once that hour has as many
\* changes as the limit, returns the same ones.
NothingSkipped ==
    \A c \in TrackConfig : tracker[c].pc = "on" =>
        \A id \in written[c] \ (captured[c] \cup lost) :
            \E r \in changes \cup openChanges :
                r.id = id /\ (r.late \/ After(r, Parse(mark[c])))
=============================================================================
