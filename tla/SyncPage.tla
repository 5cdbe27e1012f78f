------------------------------ MODULE SyncPage ------------------------------
(***************************************************************************)
(* The pages of one sync configuration and the requests they send: the form*)
(* that makes and edits it, and the detail page that shows its status and  *)
(* offers the buttons the status allows.                                   *)
(* Each tab keeps an answer per query of its own (React Query); an answer  *)
(* is asked for again on an interval while the sync is ACTIVE, when the    *)
(* window regains focus, and when a command of the tab has succeeded.      *)
(*                                                                         *)
(* The handlers read the configuration, check, and act in later steps.     *)
(* What activate, pause, resume, stop and trigger do step by step is       *)
(* SyncLifecycle's subject; here the engine's part of each is one step.    *)
(* The list of conflicts is left out: no run can store one (SyncRun).      *)
(***************************************************************************)
EXTENDS Naturals, FiniteSets

CONSTANTS
    SyncTab,        \* open tabs, all of the owner
    SyncConn,       \* connections there are
    MyConn,         \* those of the owner
    FormMode,       \* modes the form offers
    MaxCommands,    \* bound: commands sent
    MaxRunEnds      \* bound: runs that end

ASSUME MyConnAssumption == MyConn \subseteq SyncConn
ASSUME FormModeAssumption == FormMode \subseteq {"MANUAL", "REALTIME",
                                                 "SCHEDULED"}
ASSUME PageBounds == {MaxCommands, MaxRunEnds} \subseteq Nat

VARIABLES
    syncConfig,   \* the SyncConfiguration row and its SyncState's status
    syncConns,    \* the connections that exist
    syncRunning,  \* a job of the configuration is queued or runs
    cached,       \* cached[t][q]: the tab's last answer to a query
    fetch,        \* fetch[t][q]: the request for a newer one
    command,      \* command[t]: the command the tab waits for
    sent,         \* commands sent
    runEnds

pageVars == <<cached, fetch>>
serverVars == <<syncConfig, syncConns, syncRunning>>
syncPageVars == <<serverVars, pageVars, command, sent, runEnds>>

-----------------------------------------------------------------------------
Query == {"config", "state"}
ShownStatus == {"ACTIVE", "PAUSED", "FAILED", "STOPPED"}
StateStatus == {"none", "ACTIVE", "PAUSED", "FAILED"}   \* none: no SyncState

Unmade == [made |-> FALSE, exists |-> FALSE, source |-> "", target |-> "",
           mode |-> "MANUAL", active |-> FALSE, status |-> "none"]

\* What the queries answer, as far as the pages go by it.
getSyncConfiguration == syncConfig.active
getSyncState == syncConfig.status
Answered(q) == IF q = "config" THEN getSyncConfiguration ELSE getSyncState
Unread(q) == IF q = "config" THEN FALSE ELSE "none"
Answer(q) == IF q = "config" THEN BOOLEAN ELSE StateStatus

\* got: answered once; error: the last fetch failed, the data is the one
\* before.  old: read before a command of the tab took effect.  kept: the tab's first
\* fetch, which went on although the answer was asked for anew.
NoAnswer(q) == [got |-> FALSE, error |-> FALSE, data |-> Unread(q),
                old |-> FALSE, kept |-> FALSE]
NoFetch(q) == [at |-> "none", data |-> Unread(q), old |-> FALSE, kept |-> FALSE]

Lifecycle == {"activate", "pause", "resume", "stop", "trigger"}
Command == Lifecycle \cup {"create", "update", "delete"}
NoCommand == [kind |-> "none", at |-> "idle", source |-> "", target |-> "",
              mode |-> "MANUAL"]

goto(t, at) == command' = [command EXCEPT ![t].at = at]

-----------------------------------------------------------------------------
DistinctEnds == {e \in [source : MyConn, target : MyConn] : e.source # e.target}

SyncPageInit ==
    /\ syncConfig \in {Unmade} \cup
          {[Unmade EXCEPT !.made = TRUE, !.exists = TRUE, !.source = e.source,
                          !.target = e.target] : e \in DistinctEnds}
    /\ syncConns = SyncConn
    /\ syncRunning = FALSE
    /\ cached = [t \in SyncTab |-> [q \in Query |-> NoAnswer(q)]]
    /\ fetch = [t \in SyncTab |-> [q \in Query |-> NoFetch(q)]]
    /\ command = [t \in SyncTab |-> NoCommand]
    /\ sent = 0
    /\ runEnds = 0

SyncPageTypeOK ==
    /\ syncConfig \in [made : BOOLEAN, exists : BOOLEAN,
                       source : SyncConn \cup {""}, target : SyncConn \cup {""},
                       mode : FormMode \cup {"MANUAL"}, active : BOOLEAN, status : StateStatus]
    /\ syncConns \subseteq SyncConn
    /\ syncRunning \in BOOLEAN
    /\ \A t \in SyncTab, q \in Query :
          /\ cached[t][q] \in [got : BOOLEAN, error : BOOLEAN,
                               data : Answer(q), old : BOOLEAN, kept : BOOLEAN]
          /\ fetch[t][q] \in [at : {"none", "sent", "read", "failed"},
                              data : Answer(q), old : BOOLEAN, kept : BOOLEAN]
          /\ command[t].kind \in Command \cup {"none"}
    /\ sent \in 0..MaxCommands
    /\ runEnds \in 0..MaxRunEnds

-----------------------------------------------------------------------------
(* The queries of a tab.                                                   *)

\* Asked for anew: an answer still under way is dropped, except the first.
Anew(t, q) == IF fetch[t][q].at = "none" \/ cached[t][q].got
              THEN [NoFetch(q) EXCEPT !.at = "sent"]
              ELSE [fetch[t][q] EXCEPT !.kept = TRUE]
Refetch(t, Q) == [q \in Query |-> IF q \in Q THEN Anew(t, q) ELSE fetch[t][q]]

\* The detail page is opened, or its window regains focus.
openOrFocus(t) ==
    /\ syncConfig.made
    /\ \A q \in Query : fetch[t][q].at = "none"
    /\ fetch' = [fetch EXCEPT ![t] = Refetch(t, Query)]
    /\ UNCHANGED <<serverVars, cached, command, sent, runEnds>>

\* Every 3 seconds, while the last answer said ACTIVE.
pollState(t) ==
    /\ cached[t]["state"].data = "ACTIVE"
    /\ fetch[t]["state"].at = "none"
    /\ fetch' = [fetch EXCEPT ![t] = Refetch(t, {"state"})]
    /\ UNCHANGED <<serverVars, cached, command, sent, runEnds>>

\* The server answers: 404 when the configuration is gone.
serve(t, q) ==
    /\ fetch[t][q].at = "sent"
    /\ fetch' = [fetch EXCEPT ![t][q] =
          IF syncConfig.exists
          THEN [@ EXCEPT !.at = "read", !.data = Answered(q)]
          ELSE [@ EXCEPT !.at = "failed"]]
    /\ UNCHANGED <<serverVars, cached, command, sent, runEnds>>

\* A failed fetch leaves the data of the one before.
receive(t, q) ==
    /\ fetch[t][q].at \in {"read", "failed"}
    /\ cached' = [cached EXCEPT ![t][q] =
          IF fetch[t][q].at = "read"
          THEN [got |-> TRUE, error |-> FALSE, data |-> fetch[t][q].data,
                old |-> fetch[t][q].old, kept |-> fetch[t][q].kept]
          ELSE [@ EXCEPT !.error = TRUE]]
    /\ fetch' = [fetch EXCEPT ![t][q] = NoFetch(q)]
    /\ UNCHANGED <<serverVars, command, sent, runEnds>>

\* The status the badge shows and the buttons go by.
getDisplayStatus(t) ==
    IF ~cached[t]["config"].data \/ cached[t]["state"].data = "none"
    THEN "STOPPED" ELSE cached[t]["state"].data

Buttons(status) == CASE status = "STOPPED" -> {"activate"}
                     [] status = "ACTIVE" -> {"pause", "trigger", "stop"}
                     [] status = "PAUSED" -> {"resume", "stop"}
                     [] OTHER -> {"activate", "stop"}

-----------------------------------------------------------------------------
(* A tab sends a command, one at a time.                                   *)

send(t, c) ==
    /\ command[t].kind = "none" /\ sent < MaxCommands
    /\ command' = [command EXCEPT ![t] = [c EXCEPT !.at = "check"]]
    /\ sent' = sent + 1
    /\ UNCHANGED <<serverVars, pageVars, runEnds>>

press(t) ==
    \E kind \in Buttons(getDisplayStatus(t)) :
        /\ cached[t]["config"].got
        /\ send(t, [NoCommand EXCEPT !.kind = kind])

\* What the form sends: every field, and none the server would not take.
\* SCHEDULED has its cron expression, the ends differ.
FormData == {c \in [mode : FormMode, source : MyConn, target : MyConn] :
                c.source # c.target}

\* The ends of an existing configuration are not sent.
onSubmit(t) ==
    \E data \in FormData :
        \/ /\ cached[t]["config"].got
           /\ send(t, [NoCommand EXCEPT !.kind = "update", !.mode = data.mode])
        \/ /\ ~syncConfig.made
           /\ send(t, [NoCommand EXCEPT !.kind = "create", !.mode = data.mode,
                           !.source = data.source, !.target = data.target])

delete(t) ==
    /\ cached[t]["config"].got
    /\ send(t, [NoCommand EXCEPT !.kind = "delete"])

-----------------------------------------------------------------------------
(* The server handles it.                                                  *)

is(t, kinds, at) == command[t].kind \in kinds /\ command[t].at = at
refuse(t) == goto(t, "refused") /\ UNCHANGED <<serverVars, pageVars>>

\* The queries a command changes the answer of.
Changes(kind) == CASE kind \in {"activate", "stop"} -> {"config", "state"}
                   [] kind \in {"pause", "resume", "trigger"} -> {"state"}
                   [] kind = "update" -> {"config"}
                   [] OTHER -> {}

\* It took effect: what the tab has read or is being sent is from before.
done(t) ==
    LET Old(a, q) == IF q \in Changes(command[t].kind)
                     THEN [a EXCEPT !.old = TRUE] ELSE a IN
    /\ goto(t, "ok")
    /\ cached' = [cached EXCEPT ![t] = [q \in Query |-> Old(@[q], q)]]
    /\ fetch' = [fetch EXCEPT ![t] = [q \in Query |->
                    IF @[q].at = "read" THEN Old(@[q], q) ELSE @[q]]]

\* Create: the body and both connections are checked.
OwnAndDistinct(c) ==
    /\ {c.source, c.target} \subseteq syncConns \cap MyConn
    /\ c.source # c.target
createSyncConfiguration(t) ==
    /\ is(t, {"create"}, "check")
    /\ IF OwnAndDistinct(command[t])
       THEN goto(t, "probe") /\ UNCHANGED <<serverVars, pageVars>>
       ELSE refuse(t)
    /\ UNCHANGED <<sent, runEnds>>

\* Then both are reached.
validateConnectionAccessibility(t) ==
    /\ is(t, {"create"}, "probe")
    /\ \/ refuse(t)
       \/ goto(t, "insert") /\ UNCHANGED <<serverVars, pageVars>>
    /\ UNCHANGED <<sent, runEnds>>

\* The foreign keys refuse a connection deleted in the meantime.
insertSyncConfiguration(t) ==
    /\ is(t, {"create"}, "insert")
    /\ IF ~syncConfig.made
          /\ {command[t].source, command[t].target} \subseteq syncConns
       THEN /\ syncConfig' = [Unmade EXCEPT !.made = TRUE, !.exists = TRUE,
                                !.source = command[t].source,
                                !.target = command[t].target,
                                !.mode = command[t].mode]
            /\ done(t)
            /\ UNCHANGED <<syncConns, syncRunning>>
       ELSE refuse(t)
    /\ UNCHANGED <<sent, runEnds>>

\* Every other handler reads the row first and refuses a missing one.
found(t, kinds, allowed) ==
    /\ is(t, kinds, "check")
    /\ IF syncConfig.exists /\ allowed
       THEN goto(t, "act") /\ UNCHANGED <<serverVars, pageVars>>
       ELSE refuse(t)
    /\ UNCHANGED <<sent, runEnds>>

\* An active configuration is neither edited nor deleted.
Edited(mode) == [syncConfig EXCEPT !.mode = mode]
updateSyncConfiguration(t) ==
    \/ found(t, {"update"}, ~syncConfig.active)
    \/ /\ is(t, {"update"}, "act")
       /\ IF syncConfig.exists
          THEN /\ syncConfig' = Edited(command[t].mode)
               /\ done(t)
               /\ UNCHANGED <<syncConns, syncRunning>>
          ELSE refuse(t)
       /\ UNCHANGED <<sent, runEnds>>

\* With its state.
Removed == [Unmade EXCEPT !.made = TRUE]
deleteSyncConfiguration(t) ==
    \/ found(t, {"delete"}, ~syncConfig.active)
    \/ /\ is(t, {"delete"}, "act")
       /\ IF syncConfig.exists
          THEN /\ syncConfig' = Removed
               /\ done(t)
               /\ UNCHANGED <<syncConns, syncRunning>>
          ELSE refuse(t)
       /\ UNCHANGED <<sent, runEnds>>

\* The engine's guard and effect.
Allowed(kind) ==
    /\ syncConfig.exists
    /\ syncConfig.active = (kind # "activate")
    /\ kind = "resume" => syncConfig.status = "PAUSED"
    /\ kind \in {"pause", "trigger"} => syncConfig.status # "none"
    /\ kind = "trigger" => ~syncRunning
    /\ kind = "activate" => syncConfig.status = "none"
Effect(kind) ==
    [syncConfig EXCEPT !.active = kind # "stop",
        !.status = CASE kind = "pause" -> "PAUSED"
                     [] kind = "stop" -> "none"
                     [] OTHER -> "ACTIVE"]

\* Activating queues a first full run when the owner asks for one; pausing and
\* stopping cancel a run that has not begun.
RunsAfter(kind) == CASE kind = "activate" -> {syncRunning, TRUE}
                     [] kind = "resume" -> {syncRunning}
                     [] OTHER -> {syncRunning, FALSE}

engineActs(t, runsAfter) ==
    /\ IF Allowed(command[t].kind)
       THEN /\ syncConfig' = Effect(command[t].kind)
            /\ syncRunning' \in runsAfter
            /\ done(t)
            /\ UNCHANGED syncConns
       ELSE refuse(t)
    /\ UNCHANGED <<sent, runEnds>>

lifecycle(t) ==
    \/ found(t, Lifecycle \ {"trigger"}, TRUE)
    \/ /\ is(t, Lifecycle \ {"trigger"}, "act")
       /\ engineActs(t, RunsAfter(command[t].kind))

\* Of the changes or of everything: both are jobs.
triggerSync(t) ==
    \/ found(t, {"trigger"}, TRUE)
    \/ is(t, {"trigger"}, "act") /\ engineActs(t, {TRUE})

-----------------------------------------------------------------------------
(* The answer: a success makes the tab ask again for what it shows.        *)

\* Mutant: an activation asks for the state only.
answeredState(t) ==
    /\ command[t].at \in {"ok", "refused"}
    /\ fetch' = [fetch EXCEPT ![t] =
          IF command[t].at = "ok"
          THEN Refetch(t, Changes(command[t].kind) \ {"config"}) ELSE @]
    /\ command' = [command EXCEPT ![t] = NoCommand]
    /\ UNCHANGED <<serverVars, cached, sent, runEnds>>

answered(t) ==
    /\ command[t].at \in {"ok", "refused"}
    /\ fetch' = [fetch EXCEPT ![t] =
          IF command[t].at = "ok"
          THEN Refetch(t, Changes(command[t].kind)) ELSE @]
    /\ command' = [command EXCEPT ![t] = NoCommand]
    /\ UNCHANGED <<serverVars, cached, sent, runEnds>>

-----------------------------------------------------------------------------
(* The runs and the connections.                                           *)

\* The handler writes ACTIVE as it begins, and the outcome as it ends,
\* whatever the status is by then.
runStart ==
    /\ syncRunning /\ syncConfig.status # "none"
    /\ syncConfig' = [syncConfig EXCEPT !.status = "ACTIVE"]
    /\ UNCHANGED <<syncConns, syncRunning, pageVars, command, sent,
                   runEnds>>

runEnd ==
    /\ syncRunning /\ runEnds < MaxRunEnds
    /\ syncRunning' = FALSE
    /\ runEnds' = runEnds + 1
    /\ syncConfig' \in IF syncConfig.status = "none" THEN {syncConfig}
                       ELSE {[syncConfig EXCEPT !.status = s] :
                                s \in {"ACTIVE", "FAILED"}}
    /\ UNCHANGED <<syncConns, pageVars, command, sent>>

\* Mutant: only the configurations that read from it go with it.
deleteSourceOnly(c) ==
    /\ c \in syncConns
    /\ syncConns' = syncConns \ {c}
    /\ IF syncConfig.exists /\ c = syncConfig.source
       THEN syncConfig' = Removed
       ELSE UNCHANGED syncConfig
    /\ UNCHANGED <<syncRunning, pageVars, command, sent, runEnds>>

\* The configurations of a deleted connection go with it.
deleteConnection(c) ==
    /\ c \in syncConns
    /\ syncConns' = syncConns \ {c}
    /\ IF syncConfig.exists /\ c \in {syncConfig.source, syncConfig.target}
       THEN syncConfig' = Removed
       ELSE UNCHANGED syncConfig
    /\ UNCHANGED <<syncRunning, pageVars, command, sent, runEnds>>

-----------------------------------------------------------------------------
handleCommand(t) ==
    \/ createSyncConfiguration(t) \/ validateConnectionAccessibility(t)
    \/ insertSyncConfiguration(t) \/ updateSyncConfiguration(t)
    \/ deleteSyncConfiguration(t) \/ lifecycle(t) \/ triggerSync(t)

SyncPageNext ==
    \/ \E t \in SyncTab :
          \/ openOrFocus(t) \/ pollState(t)
          \/ press(t) \/ onSubmit(t) \/ delete(t)
          \/ handleCommand(t) \/ answered(t)
          \/ \E q \in Query : serve(t, q) \/ receive(t, q)
    \/ runStart \/ runEnd
    \/ \E c \in SyncConn : deleteConnection(c)

\* The server answers, the interval fires, and the browser handles answers.
SyncPageFairness ==
    \A t \in SyncTab :
        /\ WF_syncPageVars(pollState(t))
        /\ WF_syncPageVars(handleCommand(t))
        /\ WF_syncPageVars(answered(t))
        /\ \A q \in Query : /\ WF_syncPageVars(serve(t, q))
                            /\ WF_syncPageVars(receive(t, q))

SyncPageSpec == SyncPageInit /\ [][SyncPageNext]_syncPageVars
                /\ SyncPageFairness

-----------------------------------------------------------------------------
\* Once a tab has been told that its command succeeded and its queries have settled, it
\* shows nothing read before the command took effect: a poll that was under way cannot
\* bring the old status back.  Its very first answer can: the buttons are there before the
\* state is (SyncDetailPage.tsx:352), and one read before the command stands.
SeesItsCommands ==
    \A t \in SyncTab, q \in Query :
        (/\ command[t].kind = "none" /\ fetch[t][q].at = "none"
         /\ syncConfig.exists /\ ~cached[t][q].error)
            => (cached[t][q].old => cached[t][q].kept)

\* Both ends of a configuration exist and belong to its owner, whichever
\* connection is deleted while it is being made.
RefersToOwn ==
    syncConfig.exists =>
        /\ {syncConfig.source, syncConfig.target} \subseteq syncConns \cap MyConn
        /\ syncConfig.source # syncConfig.target

\* What must not last: a page that shows ACTIVE although the sync has failed, was
\* paused or was stopped elsewhere, while the configuration exists.
ShowsActive(t) ==
    /\ getDisplayStatus(t) = "ACTIVE"
    /\ syncConfig.exists /\ syncConfig.status # "ACTIVE"
=============================================================================
