--------------------------- MODULE BackupPipeline ---------------------------
(***************************************************************************)
(* The life of a backup: the row in Postgres, the job in the BullMQ queue, *)
(* the dump on disk, its copy in S3 or Google Drive, and the HTTP, MCP and *)
(* scheduled requests that create and delete them.                         *)
(*                                                                         *)
(* Every `await' of the code is a step boundary: the worker and the        *)
(* requests interleave there, and the process may crash there.  There is   *)
(* one process (index.ts refuses a second) and its backup worker runs one  *)
(* job at a time, BullMQ's default concurrency.                            *)
(***************************************************************************)
EXTENDS Integers, FiniteSets

CONSTANTS
    Backup,       \* identities a backup row can have
    Conn,         \* database connections
    User,         \* accounts
    Owner,        \* Owner[c]: the account a connection belongs to
    Req,          \* slots for requests being served concurrently
    Sizes,        \* sizes a dump may turn out to have
    Quotas,       \* storage quotas an administrator may set
    Unlimited,    \* the quota `null'
    None,         \* no connection, no backup
    MaxAttempts,  \* attempts of a job (backup.queue.ts: 3)
    MaxStalled,   \* BullMQ's maxStalledCount (its default: 1)
    MaxFaults     \* bound: crashes, blocked event loops and failing steps

ASSUME FiniteAssumption == IsFiniteSet(Backup)
ASSUME OwnerAssumption == Owner \in [Conn -> User]
ASSUME SizesAssumption == Sizes \subseteq Nat
ASSUME QuotasAssumption == /\ Quotas \subseteq Nat \cup {Unlimited}
                           /\ Unlimited \notin Nat
ASSUME NoneAssumption == None \notin Backup \cup Conn \cup User
ASSUME LimitsAssumption == /\ MaxAttempts \in Nat \ {0}
                           /\ MaxStalled \in Nat
                           /\ MaxFaults \in Nat

VARIABLES
    rows,       \* rows[b]: the Backup row
    job,        \* job[b]: the BullMQ job that produces b
    run,        \* what the worker is doing
    req,        \* req[q]: the request served in slot q
    disk,       \* files in the backup directory
    remote,     \* objects in S3 or Google Drive
    clock,      \* dumps made so far; the timestamp in a file name
    conns,      \* connections that exist
    quota,      \* quota[u]: User.storageQuotaBytes
    ceiling,    \* history: the highest quota u has ever had
    discarded,  \* history: files and objects some request set out to delete
    faults      \* faults so far

files == <<disk, remote, clock>>
accounts == <<conns, quota, ceiling>>
vars == <<rows, job, run, req, files, accounts, discarded, faults>>

-----------------------------------------------------------------------------
(* Data.  A file is known by the dump that made it and by its form: the    *)
(* plain dump, a good .enc copy, or a .enc copy that does not decrypt back *)
(* to the dump.                                                            *)

File == [n : Nat, form : {"plain", "enc", "bad"}]
NoFile == [n |-> 0, form |-> "none"]     \* `pending' path, null storageKey

Row == [status : {"absent", "PENDING", "RUNNING", "COMPLETED", "FAILED",
                  "deleted"},
        owner  : User \cup {None},
        conn   : Conn \cup {None},
        path   : File \cup {NoFile},
        key    : File \cup {NoFile},
        size   : Nat]
NoRow == [status |-> "absent", owner |-> None, conn |-> None,
          path |-> NoFile, key |-> NoFile, size |-> 0]

Job == [state : {"none", "waiting", "active", "completed", "failed"},
        conn  : Conn \cup {None}, fails : Nat, stalls : Nat]
NoJob == [state |-> "none", conn |-> None, fails |-> 0, stalls |-> 0]

Run == [pc    : {"idle", "load", "start", "dump", "quota", "encrypt",
                 "encVerify", "upload", "commit", "after", "catch", "fail"},
        b     : Backup \cup {None},
        owner : User \cup {None},        \* userId
        file  : File \cup {NoFile},      \* result.filePath
        enc   : File \cup {NoFile},      \* encPath
        key   : File \cup {NoFile},      \* storageKey
        size  : Nat,                     \* result.fileSize
        tries : Nat,                     \* encryption attempts
        final : BOOLEAN]                 \* UnrecoverableError was thrown
Idle == [pc |-> "idle", b |-> None, owner |-> None, file |-> NoFile,
         enc |-> NoFile, key |-> NoFile, size |-> 0, tries |-> 0,
         final |-> FALSE]

\* What a deleting request read of a row before it starts to delete.
Artifact == [path : File \cup {NoFile}, key : File \cup {NoFile}]
ArtifactOf(b) == [path |-> rows[b].path, key |-> rows[b].key]

Request == [pc   : {"idle", "create", "enqueue", "delRow", "delConn"},
            b    : Backup \cup {None},
            c    : Conn \cup {None},
            purge : BOOLEAN,                 \* deleteBackups
            todo : SUBSET Artifact]
NoRequest == [pc |-> "idle", b |-> None, c |-> None, purge |-> FALSE,
              todo |-> {}]

TypeOK ==
    /\ rows \in [Backup -> Row]
    /\ job \in [Backup -> Job]
    /\ run \in Run
    /\ req \in [Req -> Request]
    /\ disk \subseteq File
    /\ remote \subseteq File
    /\ clock \in Nat
    /\ conns \subseteq Conn
    /\ quota \in [User -> Nat \cup {Unlimited}]
    /\ ceiling \in [User -> Nat \cup {Unlimited}]
    /\ discarded \subseteq File \cup {NoFile}
    /\ faults \in Nat

-----------------------------------------------------------------------------
(* The storage quota.                                                      *)

Exists(b) == rows[b].status \notin {"absent", "deleted"}

Counted(u) == {b \in Backup : /\ rows[b].owner = u
                              /\ rows[b].status = "COMPLETED"}
\* Each byte of each counted backup, so that their number is the sum of the
\* sizes.
UsedBytes(u) == UNION {{b} \X (1 .. rows[b].size) : b \in Counted(u)}
Used(u) == Cardinality(UsedBytes(u))

Within(n, q) == IF q = Unlimited THEN TRUE ELSE n <= q

Higher(p, q) == IF p = Unlimited \/ q = Unlimited THEN Unlimited
                ELSE IF p < q THEN q ELSE p

\* Mutant: the new file is forgotten.
quotaForgetsFile(u, size) == Within(Used(u), quota[u])

assertQuotaAllowsFile(u, size) == Within(Used(u) + size, quota[u])

\* An administrator sets a quota; requests and the worker read it later.
setUserQuota(u, q) ==
    /\ quota' = [quota EXCEPT ![u] = q]
    /\ ceiling' = [ceiling EXCEPT ![u] = Higher(@, q)]
    /\ UNCHANGED <<rows, job, run, req, files, conns, discarded, faults>>

-----------------------------------------------------------------------------
Init ==
    /\ rows = [b \in Backup |-> NoRow]
    /\ job = [b \in Backup |-> NoJob]
    /\ run = Idle
    /\ req = [q \in Req |-> NoRequest]
    /\ disk = {}
    /\ remote = {}
    /\ clock = 0
    /\ conns = Conn
    /\ quota \in [User -> Quotas]
    /\ ceiling = quota
    /\ discarded = {}
    /\ faults = 0

-----------------------------------------------------------------------------
(* Triggering a backup: over HTTP with a quota pre-check; by the schedule  *)
(* worker and by the MCP tool without one.                                 *)

beginTrigger(q, c) ==
    /\ req[q].pc = "idle"
    /\ c \in conns
    /\ req' = [req EXCEPT ![q] = [NoRequest EXCEPT !.pc = "create", !.c = c]]
    /\ UNCHANGED <<rows, job, run, files, discarded, accounts, faults>>

triggerBackup(q, c) ==
    /\ assertQuotaAllowsFile(Owner[c], 0)
    /\ beginTrigger(q, c)

scheduledBackup(q, c) == beginTrigger(q, c)

\* prisma.backup.create; the foreign key refuses a connection deleted since.
createRow(q, b) ==
    /\ req[q].pc = "create"
    /\ rows[b].status = "absent"
    /\ IF req[q].c \in conns
       THEN /\ rows' = [rows EXCEPT ![b] =
                   [NoRow EXCEPT !.status = "PENDING", !.conn = req[q].c,
                                 !.owner = Owner[req[q].c]]]
            /\ req' = [req EXCEPT ![q].pc = "enqueue", ![q].b = b]
       ELSE /\ req' = [req EXCEPT ![q] = NoRequest]
            /\ UNCHANGED rows
    /\ UNCHANGED <<job, run, files, discarded, accounts, faults>>

addBackupJob(q) ==
    /\ req[q].pc = "enqueue"
    /\ job' = [job EXCEPT ![req[q].b] =
                   [NoJob EXCEPT !.state = "waiting", !.conn = req[q].c]]
    /\ req' = [req EXCEPT ![q] = NoRequest]
    /\ UNCHANGED <<rows, run, files, discarded, accounts, faults>>

-----------------------------------------------------------------------------
(* Deleting a backup, or a connection with or without its backup files.    *)

deleteBackup(q, b) ==
    /\ req[q].pc = "idle"
    /\ Exists(b)
    /\ req' = [req EXCEPT ![q] =
                   [NoRequest EXCEPT !.pc = "delRow", !.b = b,
                                     !.todo = {ArtifactOf(b)}]]
    /\ UNCHANGED <<rows, job, run, files, discarded, accounts, faults>>

deleteConnection(q, c, deleteBackups) ==
    /\ req[q].pc = "idle"
    /\ c \in conns
    /\ LET backups == {b \in Backup : Exists(b) /\ rows[b].conn = c}
       IN  req' = [req EXCEPT ![q] =
                      [NoRequest EXCEPT !.pc = "delConn", !.c = c,
                          !.purge = deleteBackups,
                          !.todo = IF deleteBackups
                                   THEN {ArtifactOf(b) : b \in backups}
                                   ELSE {}]]
    /\ UNCHANGED <<rows, job, run, files, discarded, accounts, faults>>

\* One artifact: the remote object first (an error is logged and ignored),
\* then the local file.
deleteBackupArtifact(q) == \E a \in req[q].todo :
    /\ req' = [req EXCEPT ![q].todo = @ \ {a}]
    /\ disk' = disk \ {a.path}
    /\ remote' \in {remote, remote \ {a.key}}
    /\ discarded' = discarded \cup {a.path, a.key}
    /\ UNCHANGED <<rows, job, run, clock, accounts, faults>>

\* prisma.backup.delete; a row already gone makes the request fail.
deleteRow(q) ==
    /\ req[q].pc = "delRow"
    /\ req[q].todo = {}
    /\ rows' = IF Exists(req[q].b)
               THEN [rows EXCEPT ![req[q].b] =
                        [NoRow EXCEPT !.status = "deleted"]]
               ELSE rows
    /\ req' = [req EXCEPT ![q] = NoRequest]
    /\ UNCHANGED <<job, run, files, discarded, accounts, faults>>

\* prisma.connection.delete; the schema sets connectionId of its backups to
\* NULL.
deleteConnRow(q) ==
    /\ req[q].pc = "delConn"
    /\ req[q].todo = {}
    /\ conns' = conns \ {req[q].c}
    /\ rows' = [b \in Backup |->
                   IF rows[b].conn = req[q].c
                   THEN [rows[b] EXCEPT !.conn = None] ELSE rows[b]]
    /\ req' = [req EXCEPT ![q] = NoRequest]
    /\ UNCHANGED <<job, run, files, discarded, quota, ceiling, faults>>

-----------------------------------------------------------------------------
(* The backup worker.  A step that throws before the `try' of the handler  *)
(* goes to "fail"; one that throws inside it goes to "catch".              *)

requests == <<req, discarded, accounts>>
fault == /\ faults < MaxFaults
         /\ faults' = faults + 1
goto(pc) == run' = [run EXCEPT !.pc = pc]

pickJob(b) ==
    /\ run.pc = "idle"
    /\ job[b].state = "waiting"
    /\ job' = [job EXCEPT ![b].state = "active"]
    /\ run' = [Idle EXCEPT !.pc = "load", !.b = b]
    /\ UNCHANGED <<rows, files, requests, faults>>

\* decryptConn: the job names its connection, not the row.
decryptConn ==
    /\ run.pc = "load"
    /\ goto(IF job[run.b].conn \in conns THEN "start" ELSE "fail")
    /\ UNCHANGED <<rows, job, files, requests, faults>>

\* The update to RUNNING throws if the row is gone.
startRow ==
    /\ run.pc = "start"
    /\ IF Exists(run.b)
       THEN /\ rows' = [rows EXCEPT ![run.b].status = "RUNNING"]
            /\ run' = [run EXCEPT !.pc = "dump", !.owner = rows[run.b].owner]
       ELSE /\ goto("fail")
            /\ UNCHANGED rows
    /\ UNCHANGED <<job, files, requests, faults>>

engineBackup(size) ==
    /\ run.pc = "dump"
    /\ LET file == [n |-> clock + 1, form |-> "plain"] IN
       /\ disk' = disk \cup {file}
       /\ run' = [run EXCEPT !.pc = "quota", !.file = file, !.size = size]
    /\ clock' = clock + 1
    /\ UNCHANGED <<rows, job, remote, requests, faults>>

\* The partial file some dump commands leave is named by no row: left out.
engineBackupFails ==
    /\ run.pc = "dump"
    /\ goto("catch")
    /\ UNCHANGED <<rows, job, files, requests>>
    /\ fault

checkQuota ==
    /\ run.pc = "quota"
    /\ IF assertQuotaAllowsFile(run.owner, run.size)
       THEN /\ goto("encrypt")
            /\ UNCHANGED disk
       ELSE /\ run' = [run EXCEPT !.pc = "catch", !.final = TRUE]
            /\ disk' = disk \ {run.file}
    /\ UNCHANGED <<rows, job, remote, clock, requests, faults>>

\* Mutant: finalPath is the encrypted path although no copy was accepted.
keepNothing ==
    /\ run.pc = "encrypt"
    /\ run.tries \in {0, 2}
    /\ run' = [run EXCEPT !.pc = "upload", !.file = run.enc]
    /\ UNCHANGED <<rows, job, files, requests, faults>>

\* Encryption is off, or the loop has given up and keeps the plaintext.
keepPlaintext ==
    /\ run.pc = "encrypt"
    /\ run.tries \in {0, 2}
    /\ goto("upload")
    /\ UNCHANGED <<rows, job, files, requests, faults>>

encryptBackupFile(form) ==
    /\ run.pc = "encrypt"
    /\ run.tries < 2
    /\ LET enc == [n |-> run.file.n, form |-> form] IN
       /\ disk' = disk \cup {enc}
       /\ run' = [run EXCEPT !.pc = "encVerify", !.enc = enc,
                             !.tries = @ + 1]
    /\ UNCHANGED <<rows, job, remote, clock, requests, faults>>

\* Mutant: the copy replaces the dump unverified.
acceptUnverified ==
    /\ run.pc = "encVerify"
    /\ disk' = disk \ {run.file}
    /\ run' = [run EXCEPT !.pc = "upload", !.file = run.enc]
    /\ UNCHANGED <<rows, job, remote, clock, requests, faults>>

\* The copy decrypts back to the dump: drop the plaintext.
acceptEncrypted ==
    /\ run.pc = "encVerify"
    /\ run.enc.form = "enc"
    /\ disk' = disk \ {run.file}
    /\ run' = [run EXCEPT !.pc = "upload", !.file = run.enc]
    /\ UNCHANGED <<rows, job, remote, clock, requests, faults>>

\* It does not, or reading it failed: drop the copy and try again.
rejectEncrypted ==
    /\ run.pc = "encVerify"
    /\ disk' = disk \ {run.enc}
    /\ run' = [run EXCEPT !.pc = "encrypt", !.enc = NoFile]
    /\ IF run.enc.form = "bad" THEN UNCHANGED faults ELSE fault
    /\ UNCHANGED <<rows, job, remote, clock, requests>>

\* Reading the settings or hashing the dump throws (it does for a dump that
\* is a directory).
encryptionThrows ==
    /\ run.pc = "encrypt"
    /\ run.tries = 0
    /\ goto("catch")
    /\ UNCHANGED <<rows, job, files, requests>>
    /\ fault

\* No provider, or the upload failed: the local file is kept.  A failed
\* upload may leave the object behind.
uploadNothing ==
    /\ run.pc = "upload"
    /\ goto("commit")
    /\ \/ /\ UNCHANGED remote
          /\ UNCHANGED faults
       \/ /\ remote' = remote \cup {run.file}
          /\ fault
    /\ UNCHANGED <<rows, job, disk, clock, requests>>

uploadBackupFile(deleteLocal) ==
    /\ run.pc = "upload"
    /\ remote' = remote \cup {run.file}
    /\ disk' = IF deleteLocal THEN disk \ {run.file} ELSE disk
    /\ run' = [run EXCEPT !.pc = "commit", !.key = run.file]
    /\ UNCHANGED <<rows, job, clock, requests, faults>>

\* Mutant: a row that is gone is made again.
completeUpserts ==
    /\ run.pc = "commit"
    /\ rows' = [rows EXCEPT ![run.b] =
           [@ EXCEPT !.status = "COMPLETED", !.owner = run.owner,
                     !.path = run.file, !.key = run.key, !.size = run.size]]
    /\ goto("after")
    /\ UNCHANGED <<job, files, requests, faults>>

\* If the row is gone this update throws, and so does the one in `catch'.
markCompleted ==
    /\ run.pc = "commit"
    /\ IF Exists(run.b)
       THEN /\ rows' = [rows EXCEPT ![run.b] =
                   [@ EXCEPT !.status = "COMPLETED", !.path = run.file,
                             !.key = run.key, !.size = run.size]]
            /\ goto("after")
       ELSE /\ goto("catch")
            /\ UNCHANGED rows
    /\ UNCHANGED <<job, files, requests, faults>>

\* Reading the retention policy throws after the row was marked COMPLETED.
afterCompletionThrows ==
    /\ run.pc = "after"
    /\ goto("catch")
    /\ UNCHANGED <<rows, job, files, requests>>
    /\ fault

\* Mutants: the error is rethrown but the row stays RUNNING; the row is
\* marked FAILED but the error is swallowed.
rethrowOnly ==
    /\ run.pc = "catch"
    /\ goto("fail")
    /\ UNCHANGED <<rows, job, files, requests, faults>>

swallowError ==
    /\ run.pc = "catch"
    /\ rows' = IF Exists(run.b)
               THEN [rows EXCEPT ![run.b].status = "FAILED"] ELSE rows
    /\ goto("after")
    /\ UNCHANGED <<job, files, requests, faults>>

\* The error rethrown is the caught one, unless the update throws its own.
markFailed ==
    /\ run.pc = "catch"
    /\ IF Exists(run.b)
       THEN /\ rows' = [rows EXCEPT ![run.b].status = "FAILED"]
            /\ goto("fail")
       ELSE /\ run' = [run EXCEPT !.pc = "fail", !.final = FALSE]
            /\ UNCHANGED rows
    /\ UNCHANGED <<job, files, requests, faults>>

-----------------------------------------------------------------------------
(* BullMQ.  A job whose lock was lost is no longer `active', and its       *)
(* worker's verdict is refused.  The backoff between attempts is left out: *)
(* a delayed job counts as waiting.                                        *)

finishJob(state, fails) ==
    /\ job' = IF job[run.b].state = "active"
              THEN [job EXCEPT ![run.b].state = state, ![run.b].fails = fails]
              ELSE job
    /\ run' = Idle
    /\ UNCHANGED <<rows, files, requests, faults>>

jobCompleted ==
    /\ run.pc = "after"
    /\ finishJob("completed", job[run.b].fails)

\* Mutant: the failed attempt is not counted.
retryForever ==
    /\ run.pc = "fail"
    /\ finishJob("waiting", job[run.b].fails)

jobFailed ==
    /\ run.pc = "fail"
    /\ LET fails == job[run.b].fails + 1
       IN  finishJob(IF run.final \/ fails >= MaxAttempts
                     THEN "failed" ELSE "waiting", fails)

\* The stalled-job check finds an active job whose lock has expired.
moveStalled(b) ==
    /\ job[b].state = "active"
    /\ job' = [job EXCEPT
                  ![b].state = IF job[b].stalls >= MaxStalled
                               THEN "failed" ELSE "waiting",
                  ![b].stalls = @ + 1]
    /\ UNCHANGED <<rows, run, files, requests>>

\* No worker runs it: the process that did has crashed.
recoverStalled(b) ==
    /\ run.b # b
    /\ moveStalled(b)
    /\ UNCHANGED faults

\* The worker still runs it, but something blocked the event loop for longer
\* than the lock lasts (storage.service.ts tars a directory synchronously).
loseLock(b) ==
    /\ run.b = b
    /\ moveStalled(b)
    /\ fault

\* Boot restores nothing of this component.
crash ==
    /\ run' = Idle
    /\ req' = [q \in Req |-> NoRequest]
    /\ UNCHANGED <<rows, job, files, accounts, discarded>>
    /\ fault

-----------------------------------------------------------------------------
worker ==
    \/ \E b \in Backup : pickJob(b)
    \/ decryptConn
    \/ startRow
    \/ \E size \in Sizes : engineBackup(size)
    \/ engineBackupFails
    \/ checkQuota
    \/ keepPlaintext
    \/ \E form \in {"enc", "bad"} : encryptBackupFile(form)
    \/ acceptEncrypted
    \/ rejectEncrypted
    \/ encryptionThrows
    \/ uploadNothing
    \/ \E deleteLocal \in BOOLEAN : uploadBackupFile(deleteLocal)
    \/ markCompleted
    \/ afterCompletionThrows
    \/ markFailed
    \/ jobCompleted
    \/ jobFailed

request(q) ==
    \/ \E c \in Conn : triggerBackup(q, c)
    \/ \E c \in Conn : scheduledBackup(q, c)
    \/ \E b \in Backup : createRow(q, b)
    \/ addBackupJob(q)
    \/ \E b \in Backup : deleteBackup(q, b)
    \/ \E c \in Conn, deleteBackups \in BOOLEAN :
           deleteConnection(q, c, deleteBackups)
    \/ deleteBackupArtifact(q)
    \/ deleteRow(q)
    \/ deleteConnRow(q)

Next ==
    \/ worker
    \/ \E q \in Req : request(q)
    \/ \E b \in Backup : recoverStalled(b) \/ loseLock(b)
    \/ crash
    \/ \E u \in User, q \in Quotas : setUserQuota(u, q)

Spec == Init /\ [][Next]_vars

\* The worker keeps running and BullMQ keeps checking for stalled jobs; no
\* request need ever come, and nothing need ever fail.
FairSpec == /\ Spec
            /\ WF_vars(worker)
            /\ WF_vars(\E b \in Backup : recoverStalled(b))

-----------------------------------------------------------------------------
(* Properties.                                                             *)

\* A user's COMPLETED backups never use more than the highest quota the user
\* ever had.  The quota is read when the dump is made and used when the row
\* is marked COMPLETED, several steps later (backup.queue.ts:101, 176).
UsedWithinQuota == \A u \in User : Within(Used(u), ceiling[u])

\* The artifact a COMPLETED row names is good and is there, on disk or in
\* remote storage, unless some request set out to delete that very artifact:
\* encryption and upload never lose the dump, and a request that read the row
\* before a later run never deletes that run's file.
CompletedIsRestorable == \A b \in Backup :
    rows[b].status = "COMPLETED" =>
        LET r == rows[b] IN
        /\ r.path.form \in {"plain", "enc"}
        /\ \/ r.path \in disk
           \/ r.key = r.path /\ r.key \in remote
           \/ r.path \in discarded

\* No attempt of the job can succeed any more: it stalled more often than
\* BullMQ allows, or its connection is gone.
Abandoned(b) == job[b].stalls > MaxStalled \/ job[b].conn \notin conns

\* The queue and the table agree: a queued job has a row, a completed job a
\* COMPLETED one, and a RUNNING row behind a waiting job means a worker
\* stalled on it.  A job that failed for good leaves no COMPLETED row, unless
\* it was abandoned after an earlier run had completed.
JobRowAgreement == \A b \in Backup :
    LET state == job[b].state
        status == rows[b].status
    IN  /\ state # "none" => status # "absent"
        /\ state = "completed" => status \in {"COMPLETED", "deleted"}
        /\ state = "failed" /\ status = "COMPLETED" => Abandoned(b)
        /\ state = "waiting" /\ status = "RUNNING" => job[b].stalls > 0

\* No row is left RUNNING with nobody to finish it, unless its job was
\* abandoned.
RunningIsOwned == \A b \in Backup :
    rows[b].status = "RUNNING" =>
        \/ run.b = b
        \/ job[b].state \in {"waiting", "active"}
        \/ Abandoned(b)

\* Every job that was queued is eventually completed or failed for good,
\* through failing steps, crashes and lost locks.
JobsSettle == \A b \in Backup :
    job[b].state = "waiting" ~> job[b].state \in {"completed", "failed"}

\* The pipeline keeps the promises of the catalogue: through retries, lost
\* locks, crashes and deletions under way, a row is marked COMPLETED only
\* from RUNNING and within the quota, FAILED only from RUNNING or COMPLETED,
\* and a deleted row never comes back.
Catalogue == INSTANCE BackupCatalogue WITH
    status <- [b \in Backup |-> rows[b].status],
    owner  <- [b \in Backup |-> rows[b].owner],
    size   <- [b \in Backup |-> rows[b].size]

ImplementsCatalogue == Catalogue!Spec

=============================================================================
