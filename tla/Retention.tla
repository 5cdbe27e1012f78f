----------------------------- MODULE Retention -----------------------------
(***************************************************************************)
(* Retention: the rules that delete old COMPLETED backups by age and by    *)
(* number, run by the daily sweep, by a user's "Purge Now" and after every *)
(* backup, all in the same process and interleaved at every `await'.       *)
(*                                                                         *)
(* Time is counted in days.  A purged row keeps its fields, as history.    *)
(***************************************************************************)
EXTENDS Integers, FiniteSets

CONSTANTS
    Backup, Conn, User,
    Owner,          \* Owner[c]: the account a connection belongs to
    Schedule,       \* identities a schedule can have
    Slot,           \* purges and after-backup runs that may overlap
    Daily,          \* the retention worker: one sweep at a time
    Days, Counts,   \* values a schedule's rules may have; 0: no such rule
    Caps,           \* values of User.maxRetentionDays
    Unlimited,      \* the cap `null'
    DefaultDays,    \* what createSchedule puts for 0 (30)
    EnvDays,        \* DEFAULT_RETENTION_DAYS
    EnvCount,       \* DEFAULT_RETENTION_COUNT
    None,           \* no connection: a detached backup
    MaxDay,         \* bound: days
    MaxCrashes      \* bound: crashes

ASSUME OwnerAssumption == Owner \in [Conn -> User]
ASSUME RulesAssumption == /\ Days \cup Counts \cup {EnvDays, EnvCount} \subseteq Nat
                          /\ DefaultDays \in Nat \ {0}
                          /\ Caps \subseteq (Nat \ {0}) \cup {Unlimited}
                          /\ Unlimited \notin Nat
ASSUME NoneAssumption == /\ None \notin Conn \cup User \cup Backup \cup Days
                         /\ Daily \notin Slot
ASSUME FiniteAssumption == IsFiniteSet(Backup)
ASSUME BoundsAssumption == MaxDay \in Nat /\ MaxCrashes \in Nat

VARIABLES
    rows,      \* rows[b]: the Backup row
    files,     \* backups whose artifact is in storage
    sched,     \* sched[s]: the Schedule row
    cap,       \* cap[u]: User.maxRetentionDays
    conns,     \* connections that exist
    now,       \* today
    proc,      \* proc[p]: a run of the retention rules
    strict,    \* history: strictest rules each connection ever had
    lowest,    \* history: lowest cap each account ever had
    crashes

data == <<rows, files>>
settings == <<sched, cap, conns, strict, lowest>>
vars == <<data, settings, now, proc, crashes>>

-----------------------------------------------------------------------------
Row == [status : {"absent", "pending", "COMPLETED", "purged", "removed"},
        owner  : User \cup {None},
        conn   : Conn \cup {None},
        born   : Nat]                     \* createdAt
NoRow == [status |-> "absent", owner |-> None, conn |-> None, born |-> 0]

Rules == [days : Nat, count : Nat]
NoSchedule == [conn |-> None, days |-> 0, count |-> 0]

Group == [conn : Conn \cup {None}, owner : User]

Proc == [pc     : {"idle", "caps", "next", "age", "count", "artifacts",
                   "rows"},
         user   : User \cup {None},      \* who asked for a purge
         groups : SUBSET Group,          \* still to do
         caps   : [User -> Caps \cup {Unlimited}],
         group  : Conn \cup {None},      \* connectionId being done
         rules  : Rules,                 \* the policy in force when read
         del    : SUBSET Backup,         \* toDelete
         todo   : SUBSET Backup]         \* records not yet cleaned up

Completed(g) == {b \in Backup : rows[b].status = "COMPLETED" /\ rows[b].conn = g}
Newer(b, S) == {x \in S : rows[x].born > rows[b].born}
Aged(b, days) == days > 0 /\ rows[b].born + days < now
Surplus(b, S, count) == count > 0 /\ Cardinality(Newer(b, S)) >= count

-----------------------------------------------------------------------------
(* The policy of a connection: the strictest rule of each kind wins.       *)

\* Mutant: no rule at all is read as `null'.
NullWhenEmpty(S) == IF S \subseteq {0} THEN Unlimited
                    ELSE CHOOSE n \in S \ {0} : \A m \in S \ {0} : n <= m

\* The least positive member, or 0: a rule that is 0 does not count.
Strictest(S) == IF S \subseteq {0} THEN 0
                ELSE CHOOSE n \in S \ {0} : \A m \in S \ {0} : n <= m

schedulesOf(c, sch) == {s \in Schedule : sch[s].conn = c}

envDefaultRetention == [days |-> EnvDays, count |-> EnvCount]

Clamp(days, max) == IF days = 0 \/ max = Unlimited THEN days
                    ELSE Strictest({days, max})

getRetentionPolicy(g, max, sch) ==
    LET mine == schedulesOf(g, sch) IN
    IF g = None \/ mine = {} THEN envDefaultRetention
    ELSE [days  |-> Clamp(Strictest({sch[s].days : s \in mine}), max),
          count |-> Strictest({sch[s].count : s \in mine})]

PolicyOf(c) == getRetentionPolicy(c, cap[Owner[c]], sched)

\* History: after a change of the settings, the strictest rules so far.  A
\* sweep reads the caps once and the schedules of each connection later, so
\* the rules of today count with the lowest cap there ever was.
Tightened(sch, caps) ==
    [c \in Conn |->
        LET p == getRetentionPolicy(c, caps[Owner[c]], sch)
        IN  [days  |-> Strictest({strict[c].days, p.days}),
             count |-> Strictest({strict[c].count, p.count})]]

-----------------------------------------------------------------------------
Idle == [pc |-> "idle", user |-> None, groups |-> {},
         caps |-> [u \in User |-> Unlimited],
         group |-> None, rules |-> [days |-> 0, count |-> 0],
         del |-> {}, todo |-> {}]

Init ==
    /\ rows = [b \in Backup |-> NoRow]
    /\ files = {}
    /\ sched = [s \in Schedule |-> NoSchedule]
    /\ cap \in [User -> Caps]
    /\ conns = Conn
    /\ now = 0
    /\ proc = [p \in Slot \cup {Daily} |-> Idle]
    /\ strict = [c \in Conn |-> envDefaultRetention]
    /\ lowest = cap
    /\ crashes = 0

TypeOK ==
    /\ rows \in [Backup -> Row]
    /\ files \subseteq Backup
    /\ sched \in [Schedule -> [conn : Conn \cup {None}, days : Nat, count : Nat]]
    /\ cap \in [User -> Caps]
    /\ conns \subseteq Conn
    /\ now \in Nat
    /\ proc \in [Slot \cup {Daily} -> Proc]
    /\ strict \in [Conn -> Rules]
    /\ lowest \in [User -> Caps]
    /\ crashes \in Nat

-----------------------------------------------------------------------------
(* What happens around retention.  Creating, completing and deleting a     *)
(* backup is BackupPipeline's subject: here each is one step.              *)

tick ==
    /\ now < MaxDay
    /\ now' = now + 1
    /\ UNCHANGED <<data, settings, proc, crashes>>

\* At most one backup a day, so that createdAt orders them.
createBackup(b, c) ==
    /\ rows[b].status = "absent"
    /\ c \in conns
    /\ \A x \in Backup : rows[x].status # "absent" => rows[x].born < now
    /\ rows' = [rows EXCEPT ![b] = [status |-> "pending", owner |-> Owner[c],
                                    conn |-> c, born |-> now]]
    /\ UNCHANGED <<files, settings, now, proc, crashes>>

\* Backups complete in any order: a failed attempt is retried later.  The
\* rules run on the connection the job was made for; a process that dies
\* first, or a connection deleted meanwhile, means that they do not run.
completeBackup(b) ==
    /\ rows[b].status = "pending"
    /\ rows' = [rows EXCEPT ![b].status = "COMPLETED"]
    /\ files' = files \cup {b}
    /\ \/ UNCHANGED proc
       \/ \E p \in Slot :
             /\ proc[p].pc = "idle"
             /\ rows[b].conn # None
             /\ proc' = [proc EXCEPT ![p] =
                   [Idle EXCEPT !.pc = "caps",
                        !.groups = {[conn  |-> rows[b].conn,
                                     owner |-> rows[b].owner]}]]
    /\ UNCHANGED <<settings, now, crashes>>

deleteBackup(b) ==
    /\ rows[b].status = "COMPLETED"
    /\ rows' = [rows EXCEPT ![b].status = "removed"]
    /\ files' = files \ {b}
    /\ UNCHANGED <<settings, now, proc, crashes>>

\* Its schedules go with it, its backups are detached.
deleteConnection(c) ==
    /\ c \in conns
    /\ conns' = conns \ {c}
    /\ sched' = [s \in Schedule |-> IF sched[s].conn = c THEN NoSchedule
                                    ELSE sched[s]]
    /\ rows' = [b \in Backup |->
                   IF rows[b].conn = c /\ rows[b].status \in {"pending", "COMPLETED"}
                   THEN [rows[b] EXCEPT !.conn = None] ELSE rows[b]]
    /\ strict' = Tightened(sched', lowest)
    /\ UNCHANGED <<files, cap, lowest, now, proc, crashes>>

assertRetentionAllowed(u, days) ==
    IF cap[u] = Unlimited THEN TRUE ELSE days <= cap[u]

createSchedule(s, c, days, count) ==
    LET d == IF days = 0 THEN DefaultDays ELSE days IN
    /\ sched[s] = NoSchedule
    /\ c \in conns
    /\ assertRetentionAllowed(Owner[c], d)
    /\ sched' = [sched EXCEPT ![s] = [conn |-> c, days |-> d, count |-> count]]
    /\ strict' = Tightened(sched', lowest)
    /\ UNCHANGED <<data, cap, lowest, conns, now, proc, crashes>>

\* The cap is checked for 30 days when the request says 0, which is stored,
\* or nothing (None), which keeps the days there are.
updateSchedule(s, days, count) ==
    /\ sched[s] # NoSchedule
    /\ assertRetentionAllowed(Owner[sched[s].conn],
                              IF days \in {0, None} THEN DefaultDays ELSE days)
    /\ sched' = [sched EXCEPT ![s].days = IF days = None THEN @ ELSE days,
                              ![s].count = count]
    /\ strict' = Tightened(sched', lowest)
    /\ UNCHANGED <<data, cap, lowest, conns, now, proc, crashes>>

deleteSchedule(s) ==
    /\ sched[s] # NoSchedule
    /\ sched' = [sched EXCEPT ![s] = NoSchedule]
    /\ strict' = Tightened(sched', lowest)
    /\ UNCHANGED <<data, cap, lowest, conns, now, proc, crashes>>

setUserRetentionLimit(u, max) ==
    /\ cap' = [cap EXCEPT ![u] = max]
    /\ lowest' = [lowest EXCEPT ![u] = IF @ = Unlimited THEN max
                                       ELSE Clamp(@, max)]
    /\ strict' = Tightened(sched, lowest')
    /\ UNCHANGED <<data, sched, conns, now, proc, crashes>>

-----------------------------------------------------------------------------
(* A run of the rules.                                                     *)

\* The groups are the connections that have COMPLETED backups, each with the
\* owner of some backup of it; detached backups of all users are one group.
runGlobalRetentionSweep(p, user) ==
    LET seen == {b \in Backup : /\ rows[b].status = "COMPLETED"
                                /\ user = None \/ rows[b].owner = user}
        group(b) == [conn |-> rows[b].conn, owner |-> rows[b].owner]
    IN
    /\ proc[p].pc = "idle"
    /\ \E groups \in SUBSET {group(b) : b \in seen} :
          /\ {g.conn : g \in groups} = {rows[b].conn : b \in seen}
          /\ \A g, h \in groups : g.conn = h.conn => g = h
          /\ proc' = [proc EXCEPT ![p] = [Idle EXCEPT !.pc = "caps",
                                             !.user = user,
                                             !.groups = groups]]
    /\ UNCHANGED <<data, settings, now, crashes>>

readCaps(p) ==
    /\ proc[p].pc = "caps"
    /\ proc' = [proc EXCEPT ![p].pc = "next", ![p].caps = cap]
    /\ UNCHANGED <<data, settings, now, crashes>>

\* Mutant: only connections that have a schedule are swept.
scheduledOnly(p) ==
    /\ proc[p].pc = "next"
    /\ \E g \in proc[p].groups :
          proc' = [proc EXCEPT
             ![p].groups = @ \ {g},
             ![p].pc = IF schedulesOf(g.conn, sched) = {} THEN "next" ELSE "age",
             ![p].group = g.conn,
             ![p].rules = getRetentionPolicy(g.conn, proc[p].caps[g.owner], sched)]
    /\ UNCHANGED <<data, settings, now, crashes>>

nextGroup(p) ==
    /\ proc[p].pc = "next"
    /\ \E g \in proc[p].groups :
          LET rules == getRetentionPolicy(g.conn, proc[p].caps[g.owner], sched)
          IN  proc' = [proc EXCEPT
                 ![p].groups = @ \ {g},
                 ![p].pc = IF rules.days = 0 /\ rules.count = 0
                           THEN "next" ELSE "age",
                 ![p].group = g.conn,
                 ![p].rules = rules]
    /\ UNCHANGED <<data, settings, now, crashes>>

endSweep(p) ==
    /\ proc[p].pc = "next"
    /\ proc[p].groups = {}
    /\ proc' = [proc EXCEPT ![p] = Idle]
    /\ UNCHANGED <<data, settings, now, crashes>>

\* Rule 1.
selectByAge(p) ==
    /\ proc[p].pc = "age"
    /\ proc' = [proc EXCEPT
          ![p].pc = "count",
          ![p].del = {b \in Completed(proc[p].group) :
                         Aged(b, proc[p].rules.days)}]
    /\ UNCHANGED <<data, settings, now, crashes>>

\* Mutant: the newest are counted among all backups, unfinished ones too.
selectAmongAll(p) ==
    LET all == Completed(proc[p].group)
        any == {b \in Backup : /\ rows[b].conn = proc[p].group
                               /\ rows[b].status \in {"pending", "COMPLETED"}}
        del == proc[p].del \cup {b \in all : Surplus(b, any, proc[p].rules.count)}
    IN
    /\ proc[p].pc = "count"
    /\ proc' = [proc EXCEPT ![p].pc = IF del = {} THEN "next" ELSE "artifacts",
                            ![p].del = del,
                            ![p].todo = del]
    /\ UNCHANGED <<data, settings, now, crashes>>

\* Rule 2, and the records of what is to be deleted.
selectByCount(p) ==
    LET all == Completed(proc[p].group)
        del == proc[p].del \cup {b \in all : Surplus(b, all, proc[p].rules.count)}
    IN
    /\ proc[p].pc = "count"
    /\ proc' = [proc EXCEPT ![p].pc = IF del = {} THEN "next" ELSE "artifacts",
                            ![p].del = del,
                            ![p].todo = del]
    /\ UNCHANGED <<data, settings, now, crashes>>

\* An artifact that cannot be deleted is logged and skipped.
deleteArtifact(p) ==
    /\ proc[p].pc = "artifacts"
    /\ \E b \in proc[p].todo :
          /\ proc' = [proc EXCEPT
                ![p].todo = @ \ {b},
                ![p].pc = IF proc[p].todo = {b} THEN "rows" ELSE "artifacts"]
          /\ files' \in {files, files \ {b}}
    /\ UNCHANGED <<rows, settings, now, crashes>>

\* deleteMany, by id alone.
deleteRows(p) ==
    /\ proc[p].pc = "rows"
    /\ rows' = [b \in Backup |->
                   IF /\ b \in proc[p].del
                      /\ rows[b].status \in {"pending", "COMPLETED"}
                   THEN [rows[b] EXCEPT !.status = "purged"] ELSE rows[b]]
    /\ proc' = [proc EXCEPT ![p].pc = "next", ![p].del = {}]
    /\ UNCHANGED <<files, settings, now, crashes>>

crash ==
    /\ crashes < MaxCrashes
    /\ crashes' = crashes + 1
    /\ proc' = [p \in Slot \cup {Daily} |-> Idle]
    /\ UNCHANGED <<data, settings, now>>

-----------------------------------------------------------------------------
step(p) ==
    \/ readCaps(p)
    \/ nextGroup(p)
    \/ endSweep(p)
    \/ selectByAge(p)
    \/ selectByCount(p)
    \/ deleteArtifact(p)
    \/ deleteRows(p)

sweep == runGlobalRetentionSweep(Daily, None) \/ step(Daily)

Next ==
    \/ tick
    \/ \E b \in Backup, c \in Conn : createBackup(b, c)
    \/ \E b \in Backup : completeBackup(b) \/ deleteBackup(b)
    \/ \E c \in Conn : deleteConnection(c)
    \/ \E s \in Schedule, c \in Conn, d \in Days, n \in Counts :
          createSchedule(s, c, d, n)
    \/ \E s \in Schedule, d \in Days \cup {None}, n \in Counts :
          updateSchedule(s, d, n)
    \/ \E s \in Schedule : deleteSchedule(s)
    \/ \E u \in User, max \in Caps : setUserRetentionLimit(u, max)
    \/ sweep
    \/ \E p \in Slot, u \in User : runGlobalRetentionSweep(p, u)
    \/ \E p \in Slot : step(p)
    \/ crash

Spec == Init /\ [][Next]_vars

\* The retention worker sweeps every day; nothing else is sure to happen.
FairSpec == Spec /\ WF_vars(sweep)

-----------------------------------------------------------------------------
(* Properties.                                                             *)

EverCompleted(c) ==
    {b \in Backup : /\ rows[b].status \in {"COMPLETED", "purged", "removed"}
                    /\ rows[b].conn = c}

\* Whatever runs overlap and whatever the user deletes or changes meanwhile,
\* a backup that retention took from a connection was older than the
\* strictest age rule the connection ever had, or as many newer backups as
\* the strictest count rule keeps had completed.
NeverTooSoon == \A b \in Backup :
    rows[b].status = "purged" /\ rows[b].conn \in conns =>
        LET s == strict[rows[b].conn] IN
        \/ Aged(b, s.days)
        \/ Surplus(b, EverCompleted(rows[b].conn), s.count)

\* What a run of the rules would take if it started now.
Selected(b) ==
    /\ rows[b].status = "COMPLETED"
    /\ rows[b].conn # None
    /\ LET p == PolicyOf(rows[b].conn)
       IN  \/ Aged(b, p.days)
           \/ Surplus(b, Completed(rows[b].conn), p.count)

\* What the rules select is eventually deleted, row and all, through crashes
\* and artifacts that cannot be deleted (or the rules are relaxed).
SelectedGo == \A b \in Backup : Selected(b) ~> ~Selected(b)

\* backup.controller.ts:205: Purge Now enforces the policies of "all of the
\* user's connections".
PurgeIsOwn ==
    [][\A p \in Slot : proc[p].user # None /\ deleteRows(p) =>
          \A b \in Backup : rows'[b] # rows[b] => rows[b].owner = proc[p].user]_vars

=============================================================================
