----------------------- MODULE BackupPipeline_proofs -----------------------
(***************************************************************************)
(* Proofs about BackupPipeline, for every number of backups, users,        *)
(* requests, attempts and faults: every variable keeps its type, what a    *)
(* COMPLETED row names can be restored, queue and table agree, the quota   *)
(* holds, and the pipeline implements BackupCatalogue.                     *)
(***************************************************************************)
EXTENDS BackupPipeline, FiniteSetTheorems, TLAPS

-----------------------------------------------------------------------------
(* Type correctness needs to know what each program counter holds.         *)

\* The worker has a dump in hand.
Holding == {"quota", "encrypt", "encVerify", "upload", "commit"}
\* The worker is past the update to RUNNING and before the one to COMPLETED.
Producing == Holding \cup {"dump"}
\* The worker has checked the quota for its dump.
Admitted == Holding \ {"quota"}

RunOK == /\ run.pc # "idle" => run.b \in Backup
         /\ run.pc \in Producing => run.owner \in User
         /\ run.pc \in Holding => run.file \in File
         /\ run.pc = "encVerify" => run.enc \in File

ReqOK == \A q \in Req :
             /\ req[q].pc = "create" => req[q].c \in Conn
             /\ req[q].pc = "enqueue" => /\ req[q].b \in Backup
                                         /\ req[q].c \in Conn
             /\ req[q].pc = "delRow" => req[q].b \in Backup

RowsOK == \A b \in Backup : Exists(b) => rows[b].owner \in User

TypeInv == TypeOK /\ RunOK /\ ReqOK /\ RowsOK

LEMMA NoRequestType == NoRequest \in Request
  BY DEF NoRequest, Request

\* What a deleting request reads of a row is an artifact.
LEMMA ArtifactType ==
    ASSUME rows \in [Backup -> Row]
    PROVE  \A b \in Backup : ArtifactOf(b) \in Artifact
  BY DEF Row, ArtifactOf, Artifact

LEMMA TypeInit == Init => TypeInv
<1> SUFFICES ASSUME Init PROVE TypeInv
  OBVIOUS
<1>1. NoRow \in Row /\ NoJob \in Job
  BY DEF NoRow, Row, NoJob, Job
<1>2. Idle \in Run
  BY DEF Idle, Run
<1>3. quota \in [User -> Nat \cup {Unlimited}]
  BY QuotasAssumption DEF Init
<1>4. TypeOK
  BY <1>1, <1>2, <1>3, NoRequestType DEF Init, TypeOK
<1>5. RunOK
  BY DEF Init, RunOK, Idle, Holding, Producing
<1>6. ReqOK /\ RowsOK
  BY DEF Init, ReqOK, NoRequest, RowsOK, Exists, NoRow
<1> QED  BY <1>4, <1>5, <1>6 DEF TypeInv

\* Every step keeps TypeInv: one step per action, and under it one per
\* variable or conjunct that the action can disturb.
LEMMA TypeStep == TypeInv /\ [Next]_vars => TypeInv'
<1> SUFFICES ASSUME TypeInv, [Next]_vars PROVE TypeInv'
  OBVIOUS
<1> USE OwnerAssumption, SizesAssumption, QuotasAssumption
<1> USE DEF TypeInv, TypeOK, files, accounts, requests
<1>1. ASSUME NEW u \in User, NEW q \in Quotas, setUserQuota(u, q) PROVE TypeInv'
  <2>1. quota' \in [User -> Nat \cup {Unlimited}]
    BY <1>1 DEF setUserQuota
  <2>2. ceiling' \in [User -> Nat \cup {Unlimited}]
    BY <1>1 DEF setUserQuota, Higher
  <2> QED  BY <1>1, <2>1, <2>2 DEF setUserQuota, RunOK, ReqOK, RowsOK, Exists
<1>2. ASSUME NEW q \in Req, NEW c \in Conn, beginTrigger(q, c) PROVE TypeInv'
  <2>1. req' \in [Req -> Request]
    BY <1>2 DEF beginTrigger, Request, NoRequest
  <2>2. ReqOK'
    BY <1>2 DEF beginTrigger, ReqOK, Request, NoRequest
  <2> QED  BY <1>2, <2>1, <2>2 DEF beginTrigger, RunOK, RowsOK, Exists
<1>3. ASSUME NEW q \in Req, NEW b \in Backup, createRow(q, b) PROVE TypeInv'
  <2>1. rows' \in [Backup -> Row]
    <3>1. CASE req[q].c \in conns
      <4>1. req[q].c \in Conn /\ Owner[req[q].c] \in User
        BY <3>1
      <4>2. [NoRow EXCEPT !.status = "PENDING", !.conn = req[q].c,
                          !.owner = Owner[req[q].c]] \in Row
        BY <4>1 DEF NoRow, Row
      <4> QED  BY <1>3, <3>1, <4>2 DEF createRow
    <3>2. CASE req[q].c \notin conns
      BY <1>3, <3>2 DEF createRow
    <3> QED  BY <3>1, <3>2
  <2>2. req' \in [Req -> Request]
    <3>1. CASE req[q].c \in conns
      <4>1. [req[q] EXCEPT !.pc = "enqueue", !.b = b] \in Request
        BY DEF Request
      <4>2. req' = [req EXCEPT ![q] = [req[q] EXCEPT !.pc = "enqueue", !.b = b]]
        BY <1>3, <3>1 DEF createRow, Request
      <4> QED  BY <4>1, <4>2
    <3>2. CASE req[q].c \notin conns
      BY <1>3, <3>2, NoRequestType DEF createRow
    <3> QED  BY <3>1, <3>2
  <2>3. ReqOK'
    BY <1>3 DEF createRow, ReqOK, Request, NoRequest
  <2>4. RowsOK'
    <3>1. CASE req[q].c \in conns
      <4>1. Owner[req[q].c] \in User
        BY <3>1
      <4>2. rows'[b].owner \in User
        <5>1. rows'[b] = [NoRow EXCEPT !.status = "PENDING",
                                       !.conn = req[q].c,
                                       !.owner = Owner[req[q].c]]
          BY <1>3, <3>1 DEF createRow
        <5> QED  BY <4>1, <5>1 DEF NoRow
      <4>3. \A x \in Backup \ {b} : rows'[x] = rows[x]
        BY <1>3, <3>1 DEF createRow
      <4> QED  BY <4>2, <4>3 DEF RowsOK, Exists
    <3>2. CASE req[q].c \notin conns
      BY <1>3, <3>2 DEF createRow, RowsOK, Exists
    <3> QED  BY <3>1, <3>2
  <2> QED  BY <1>3, <2>1, <2>2, <2>3, <2>4 DEF createRow, RunOK
<1>4. ASSUME NEW q \in Req, addBackupJob(q) PROVE TypeInv'
  <2>1. job' \in [Backup -> Job]
    BY <1>4 DEF addBackupJob, Job, NoJob, RunOK, ReqOK
  <2>2. req' \in [Req -> Request]
    BY <1>4 DEF addBackupJob, Request, NoRequest
  <2>3. ReqOK'
    BY <1>4 DEF addBackupJob, ReqOK, Request, NoRequest
  <2> QED  BY <1>4, <2>1, <2>2, <2>3 DEF addBackupJob, RunOK, RowsOK, Exists
<1>5. ASSUME NEW q \in Req, NEW b \in Backup, deleteBackup(q, b) PROVE TypeInv'
  <2>1. req' \in [Req -> Request]
    <3>1. [NoRequest EXCEPT !.pc = "delRow", !.b = b,
                        !.todo = {ArtifactOf(b)}] \in Request
      BY ArtifactType DEF NoRequest, Request
    <3> QED  BY <1>5, <3>1 DEF deleteBackup
  <2>2. ReqOK'
    BY <1>5 DEF deleteBackup, ReqOK, Request, NoRequest
  <2> QED  BY <1>5, <2>1, <2>2 DEF deleteBackup, RunOK, RowsOK, Exists
<1>6. ASSUME NEW q \in Req, NEW c \in Conn, NEW d \in BOOLEAN, deleteConnection(q, c, d)
    PROVE TypeInv'
  <2>1. req' \in [Req -> Request]
    <3> DEFINE backups == {b \in Backup : Exists(b) /\ rows[b].conn = c}
             todo == IF d THEN {ArtifactOf(b) : b \in backups} ELSE {}
    <3>1. todo \in SUBSET Artifact
      BY ArtifactType
    <3>2. [NoRequest EXCEPT !.pc = "delConn", !.c = c, !.purge = d,
                        !.todo = todo] \in Request
      BY <3>1 DEF NoRequest, Request
    <3> QED  BY <1>6, <3>2 DEF deleteConnection
  <2>2. ReqOK'
    BY <1>6 DEF deleteConnection, ReqOK, Request, NoRequest
  <2> QED  BY <1>6, <2>1, <2>2 DEF deleteConnection, RunOK, RowsOK, Exists
<1>7. ASSUME NEW q \in Req, deleteBackupArtifact(q) PROVE TypeInv'
  <2>1. req' \in [Req -> Request]
    BY <1>7 DEF deleteBackupArtifact, Request, NoRequest
  <2>2. disk' \subseteq File
    BY <1>7 DEF deleteBackupArtifact, Run, RunOK, Holding, File
  <2>3. remote' \subseteq File
    BY <1>7 DEF deleteBackupArtifact, Run, RunOK, Holding
  <2>4. discarded' \subseteq File \cup {NoFile}
    BY <1>7 DEF deleteBackupArtifact, Request, Artifact
  <2>5. ReqOK'
    BY <1>7 DEF deleteBackupArtifact, ReqOK, Request, NoRequest
  <2> QED  BY <1>7, <2>1, <2>2, <2>3, <2>4, <2>5 DEF deleteBackupArtifact,
     RunOK, RowsOK, Exists
<1>8. ASSUME NEW q \in Req, deleteRow(q) PROVE TypeInv'
  <2>1. rows' \in [Backup -> Row]
    BY <1>8 DEF deleteRow, Row, NoRow, RunOK, ReqOK
  <2>2. req' \in [Req -> Request]
    BY <1>8 DEF deleteRow, Request, NoRequest
  <2>3. ReqOK'
    BY <1>8 DEF deleteRow, ReqOK, Request, NoRequest
  <2>4. RowsOK'
    BY <1>8 DEF deleteRow, RowsOK, Exists, Row, NoRow
  <2> QED  BY <1>8, <2>1, <2>2, <2>3, <2>4 DEF deleteRow, RunOK
<1>9. ASSUME NEW q \in Req, deleteConnRow(q) PROVE TypeInv'
  <2>1. conns' \subseteq Conn
    BY <1>9 DEF deleteConnRow
  <2>2. rows' \in [Backup -> Row]
    <3>1. \A b \in Backup : [rows[b] EXCEPT !.conn = None] \in Row
      BY DEF Row
    <3> QED  BY <1>9, <3>1 DEF deleteConnRow
  <2>3. req' \in [Req -> Request]
    BY <1>9 DEF deleteConnRow, Request, NoRequest
  <2>4. ReqOK'
    BY <1>9 DEF deleteConnRow, ReqOK, Request, NoRequest
  <2>5. RowsOK'
    BY <1>9 DEF deleteConnRow, RowsOK, Exists, Row, NoRow
  <2> QED  BY <1>9, <2>1, <2>2, <2>3, <2>4, <2>5 DEF deleteConnRow, RunOK
<1>10. ASSUME NEW b \in Backup, pickJob(b) PROVE TypeInv'
  <2>1. job' \in [Backup -> Job]
    BY <1>10 DEF pickJob, Job, NoJob, RunOK, ReqOK
  <2>2. run' \in Run
    BY <1>10 DEF pickJob, Run, Idle, goto, RunOK, File, Holding
  <2>3. RunOK'
    BY <1>10 DEF pickJob, RunOK, Holding, Producing, Run, goto, Idle
  <2> QED  BY <1>10, <2>1, <2>2, <2>3 DEF pickJob, ReqOK, RowsOK, Exists
<1>11. CASE decryptConn
  <2>1. run' \in Run
    BY <1>11 DEF decryptConn, Run, Idle, goto, RunOK, File, Holding
  <2>2. RunOK'
    BY <1>11 DEF decryptConn, RunOK, Holding, Producing, Run, goto
  <2> QED  BY <1>11, <2>1, <2>2 DEF decryptConn, ReqOK, RowsOK, Exists
<1>12. CASE startRow
  <2>1. rows' \in [Backup -> Row]
    BY <1>12 DEF startRow, Row, NoRow, RunOK, ReqOK
  <2>2. run' \in Run
    <3>1. rows[run.b].owner \in User \cup {None}
      BY <1>12 DEF startRow, RunOK, Row
    <3>2. [run EXCEPT !.pc = "dump", !.owner = rows[run.b].owner] \in Run
      BY <3>1 DEF Run
    <3>3. [run EXCEPT !.pc = "fail"] \in Run
      BY DEF Run
    <3> QED  BY <1>12, <3>2, <3>3 DEF startRow, goto
  <2>3. RunOK'
    <3>1. run.b \in Backup /\ run \in Run
      BY <1>12 DEF startRow, RunOK
    <3>2. CASE Exists(run.b)
      <4>1. rows[run.b].owner \in User
        BY <3>1, <3>2 DEF RowsOK
      <4>2. run'.pc = "dump" /\ run'.b = run.b
            /\ run'.owner = rows[run.b].owner
        BY <1>12, <3>2 DEF startRow, Run
      <4> QED  BY <3>1, <4>1, <4>2 DEF RunOK, Holding, Producing
    <3>3. CASE ~Exists(run.b)
      <4>1. run'.pc = "fail" /\ run'.b = run.b
        BY <1>12, <3>3 DEF startRow, goto, Run
      <4> QED  BY <3>1, <4>1 DEF RunOK, Holding, Producing
    <3> QED  BY <3>2, <3>3
  <2>4. ASSUME NEW b \in Backup PROVE /\ rows'[b].owner = rows[b].owner
                                      /\ Exists(b)' => Exists(b)
    <3>1. CASE rows' = rows
      BY <3>1 DEF Exists
    <3>2. CASE Exists(run.b) /\ rows' = [rows EXCEPT ![run.b].status = "RUNNING"]
      BY <3>2 DEF Exists, Row
    <3> QED  BY <1>12, <3>1, <3>2 DEF startRow
  <2>5. RowsOK'
    BY <2>4 DEF RowsOK
  <2> QED  BY <1>12, <2>1, <2>2, <2>3, <2>5 DEF startRow, ReqOK
<1>13. ASSUME NEW size \in Sizes, engineBackup(size) PROVE TypeInv'
  <2>1. disk' \subseteq File
    BY <1>13 DEF engineBackup, Run, RunOK, Holding, File
  <2>2. run' \in Run
    <3> DEFINE file == [n |-> clock + 1, form |-> "plain"]
    <3>1. file \in File
      BY DEF File
    <3>2. [run EXCEPT !.pc = "quota", !.file = file, !.size = size] \in Run
      BY <3>1 DEF Run
    <3> QED  BY <1>13, <3>2 DEF engineBackup
  <2>3. clock' \in Nat
    BY <1>13 DEF engineBackup
  <2>4. RunOK'
    BY <1>13 DEF engineBackup, RunOK, Holding, Producing, Run, goto, File
  <2> QED  BY <1>13, <2>1, <2>2, <2>3, <2>4 DEF engineBackup, ReqOK, RowsOK,
     Exists
<1>14. CASE engineBackupFails
  <2>1. run' \in Run
    BY <1>14 DEF engineBackupFails, Run, Idle, goto, RunOK, File, Holding
  <2>2. faults' \in Nat
    BY <1>14 DEF engineBackupFails, fault
  <2>3. RunOK'
    BY <1>14 DEF engineBackupFails, RunOK, Holding, Producing, Run, goto,
       File
  <2> QED  BY <1>14, <2>1, <2>2, <2>3 DEF engineBackupFails, ReqOK, RowsOK,
     Exists, fault
<1>15. CASE checkQuota
  <2>1. run' \in Run
    <3>1. [run EXCEPT !.pc = "encrypt"] \in Run
      BY DEF Run
    <3>2. [run EXCEPT !.pc = "catch", !.final = TRUE] \in Run
      BY DEF Run
    <3> QED  BY <1>15, <3>1, <3>2 DEF checkQuota, goto
  <2>2. disk' \subseteq File
    BY <1>15 DEF checkQuota, Run, RunOK, Holding, File
  <2>3. RunOK'
    <3>1. run.b \in Backup /\ run.owner \in User /\ run.file \in File
      BY <1>15 DEF checkQuota, RunOK, Holding, Producing
    <3>2. /\ run'.pc \in {"encrypt", "catch"}
          /\ run'.b = run.b /\ run'.owner = run.owner /\ run'.file = run.file
      BY <1>15 DEF checkQuota, goto, Run
    <3> QED  BY <3>1, <3>2 DEF RunOK, Holding, Producing
  <2> QED  BY <1>15, <2>1, <2>2, <2>3 DEF checkQuota, ReqOK, RowsOK, Exists
<1>16. CASE keepPlaintext
  <2>1. run' \in Run
    BY <1>16 DEF keepPlaintext, Run, Idle, goto, RunOK, File, Holding
  <2>2. RunOK'
    BY <1>16 DEF keepPlaintext, RunOK, Holding, Producing, Run, goto
  <2> QED  BY <1>16, <2>1, <2>2 DEF keepPlaintext, ReqOK, RowsOK, Exists
<1>17. ASSUME NEW form \in {"enc", "bad"}, encryptBackupFile(form) PROVE TypeInv'
  <2>1. run' \in Run
    <3> DEFINE enc == [n |-> run.file.n, form |-> form]
    <3>1. enc \in File
      BY <1>17 DEF encryptBackupFile, RunOK, Holding, File
    <3>2. run.tries + 1 \in Nat
      BY DEF Run
    <3>3. [run EXCEPT !.pc = "encVerify", !.enc = enc,
                      !.tries = run.tries + 1] \in Run
      BY <3>1, <3>2 DEF Run
    <3> QED  BY <1>17, <3>3 DEF encryptBackupFile
  <2>2. disk' \subseteq File
    BY <1>17 DEF encryptBackupFile, Run, RunOK, Holding, File
  <2>3. RunOK'
    BY <1>17 DEF encryptBackupFile, RunOK, Holding, Producing, Run, goto,
       File
  <2> QED  BY <1>17, <2>1, <2>2, <2>3 DEF encryptBackupFile, ReqOK, RowsOK,
     Exists
<1>18. CASE acceptEncrypted
  <2>1. run' \in Run
    BY <1>18 DEF acceptEncrypted, Run, Idle, goto, RunOK, File, Holding
  <2>2. disk' \subseteq File
    BY <1>18 DEF acceptEncrypted, Run, RunOK, Holding, File
  <2>3. RunOK'
    BY <1>18 DEF acceptEncrypted, RunOK, Holding, Producing, Run, goto
  <2> QED  BY <1>18, <2>1, <2>2, <2>3 DEF acceptEncrypted, ReqOK, RowsOK,
     Exists
<1>19. CASE rejectEncrypted
  <2>1. run' \in Run
    BY <1>19 DEF rejectEncrypted, Run, Idle, goto, RunOK, File, Holding
  <2>2. disk' \subseteq File
    BY <1>19 DEF rejectEncrypted, Run, RunOK, Holding, File
  <2>3. faults' \in Nat
    BY <1>19 DEF rejectEncrypted, fault
  <2>4. RunOK'
    BY <1>19 DEF rejectEncrypted, RunOK, Holding, Producing, Run, goto
  <2> QED  BY <1>19, <2>1, <2>2, <2>3, <2>4 DEF rejectEncrypted, ReqOK,
     RowsOK, Exists, fault
<1>20. CASE encryptionThrows
  <2>1. run' \in Run
    BY <1>20 DEF encryptionThrows, Run, Idle, goto, RunOK, File, Holding
  <2>2. faults' \in Nat
    BY <1>20 DEF encryptionThrows, fault
  <2>3. RunOK'
    BY <1>20 DEF encryptionThrows, RunOK, Holding, Producing, Run, goto, File
  <2> QED  BY <1>20, <2>1, <2>2, <2>3 DEF encryptionThrows, ReqOK, RowsOK,
     Exists, fault
<1>21. CASE uploadNothing
  <2>1. run' \in Run
    BY <1>21 DEF uploadNothing, Run, Idle, goto, RunOK, File, Holding
  <2>2. remote' \subseteq File
    BY <1>21 DEF uploadNothing, Run, RunOK, Holding
  <2>3. faults' \in Nat
    BY <1>21 DEF uploadNothing, fault
  <2>4. RunOK'
    BY <1>21 DEF uploadNothing, RunOK, Holding, Producing, Run, goto
  <2> QED  BY <1>21, <2>1, <2>2, <2>3, <2>4 DEF uploadNothing, ReqOK, RowsOK,
     Exists, fault
<1>22. ASSUME NEW d \in BOOLEAN, uploadBackupFile(d) PROVE TypeInv'
  <2>1. run' \in Run
    BY <1>22 DEF uploadBackupFile, Run, Idle, goto, RunOK, File, Holding
  <2>2. disk' \subseteq File
    BY <1>22 DEF uploadBackupFile, Run, RunOK, Holding, File
  <2>3. remote' \subseteq File
    BY <1>22 DEF uploadBackupFile, Run, RunOK, Holding
  <2>4. RunOK'
    BY <1>22 DEF uploadBackupFile, RunOK, Holding, Producing, Run, goto
  <2> QED  BY <1>22, <2>1, <2>2, <2>3, <2>4 DEF uploadBackupFile, ReqOK,
     RowsOK, Exists
<1>23. CASE markCompleted
  <2>1. rows' \in [Backup -> Row]
    <3>1. /\ run.b \in Backup
          /\ run.file \in File \cup {NoFile}
          /\ run.key \in File \cup {NoFile}
          /\ run.size \in Nat
      BY <1>23 DEF markCompleted, RunOK, Run
    <3>2. \A r \in Row :
              [r EXCEPT !.status = "COMPLETED", !.path = run.file,
                        !.key = run.key, !.size = run.size] \in Row
      BY <3>1 DEF Row
    <3>3. rows[run.b] \in Row
      BY <3>1
    <3>4. CASE Exists(run.b)
      BY <1>23, <3>2, <3>3, <3>4 DEF markCompleted
    <3>5. CASE ~Exists(run.b)
      BY <1>23, <3>5 DEF markCompleted
    <3> QED  BY <3>4, <3>5
  <2>2. run' \in Run
    BY <1>23 DEF markCompleted, Run, Idle, goto, RunOK, File, Holding
  <2>3. RunOK'
    BY <1>23 DEF markCompleted, RunOK, Holding, Producing, Run, goto
  <2>4. RowsOK'
    <3>1. CASE Exists(run.b)
      <4>1. \A x \in Backup : rows'[x].owner = rows[x].owner
        <5>1. \A r \in Row :
                  [r EXCEPT !.status = "COMPLETED", !.path = run.file,
                            !.key = run.key, !.size = run.size].owner = r.owner
          BY DEF Row
        <5>2. run.b \in Backup /\ rows[run.b] \in Row
          BY <1>23 DEF markCompleted, RunOK
        <5>3. rows'[run.b].owner = rows[run.b].owner
          BY <1>23, <3>1, <5>1, <5>2 DEF markCompleted
        <5> QED  BY <1>23, <3>1, <5>3 DEF markCompleted
      <4>2. \A x \in Backup \ {run.b} : rows'[x] = rows[x]
        BY <1>23, <3>1 DEF markCompleted
      <4> QED  BY <3>1, <4>1, <4>2 DEF RowsOK, Exists
    <3>2. CASE ~Exists(run.b)
      BY <1>23, <3>2 DEF markCompleted, RowsOK, Exists
    <3> QED  BY <3>1, <3>2
  <2> QED  BY <1>23, <2>1, <2>2, <2>3, <2>4 DEF markCompleted, ReqOK
<1>24. CASE afterCompletionThrows
  <2>1. run' \in Run
    BY <1>24 DEF afterCompletionThrows, Run, Idle, goto, RunOK, File, Holding
  <2>2. faults' \in Nat
    BY <1>24 DEF afterCompletionThrows, fault
  <2>3. RunOK'
    BY <1>24 DEF afterCompletionThrows, RunOK, Holding, Producing, Run, goto
  <2> QED  BY <1>24, <2>1, <2>2, <2>3 DEF afterCompletionThrows, ReqOK,
     RowsOK, Exists, fault
<1>25. CASE markFailed
  <2>0. run.b \in Backup
    BY <1>25 DEF markFailed, RunOK
  <2>1. rows' \in [Backup -> Row]
    <3>1. [rows[run.b] EXCEPT !.status = "FAILED"] \in Row
      BY <2>0 DEF Row
    <3>2. CASE Exists(run.b)
      <4>1. rows' = [rows EXCEPT ![run.b] =
                         [rows[run.b] EXCEPT !.status = "FAILED"]]
        BY <1>25, <3>2 DEF markFailed
      <4> QED  BY <2>0, <3>1, <4>1
    <3>3. CASE ~Exists(run.b)
      BY <1>25, <3>3 DEF markFailed
    <3> QED  BY <3>2, <3>3
  <2>2. run' \in Run
    <3>1. [run EXCEPT !.pc = "fail"] \in Run
      BY DEF Run
    <3>2. [run EXCEPT !.pc = "fail", !.final = FALSE] \in Run
      BY DEF Run
    <3> QED  BY <1>25, <3>1, <3>2 DEF markFailed, goto
  <2>3. RunOK'
    <3>1. run'.pc = "fail" /\ run'.b = run.b
      BY <1>25 DEF markFailed, goto, Run
    <3> QED  BY <2>0, <3>1 DEF RunOK, Holding, Producing
  <2>4. RowsOK'
    BY <1>25 DEF markFailed, RowsOK, Exists, Row, NoRow
  <2> QED  BY <1>25, <2>1, <2>2, <2>3, <2>4 DEF markFailed, ReqOK
<1>26. CASE jobCompleted
  <2>1. job' \in [Backup -> Job]
    BY <1>26 DEF jobCompleted, finishJob, Job, NoJob, RunOK, ReqOK
  <2>2. run' \in Run
    BY <1>26 DEF jobCompleted, finishJob, Run, Idle, goto, RunOK, File,
       Holding
  <2>3. RunOK'
    BY <1>26 DEF jobCompleted, finishJob, RunOK, Holding, Producing, Run,
       goto, Idle
  <2> QED  BY <1>26, <2>1, <2>2, <2>3 DEF jobCompleted, finishJob, ReqOK,
     RowsOK, Exists
<1>27. CASE jobFailed
  <2>1. job' \in [Backup -> Job]
    BY <1>27 DEF jobFailed, finishJob, Job, NoJob, RunOK, ReqOK
  <2>2. run' \in Run
    BY <1>27 DEF jobFailed, finishJob, Run, Idle, goto, RunOK, File, Holding
  <2>3. RunOK'
    BY <1>27 DEF jobFailed, finishJob, RunOK, Holding, Producing, Run, goto,
       Idle
  <2> QED  BY <1>27, <2>1, <2>2, <2>3 DEF jobFailed, finishJob, ReqOK,
     RowsOK, Exists
<1>28. ASSUME NEW b \in Backup, recoverStalled(b) PROVE TypeInv'
  <2>1. job' \in [Backup -> Job]
    BY <1>28 DEF recoverStalled, moveStalled, Job, NoJob, RunOK, ReqOK
  <2> QED  BY <1>28, <2>1 DEF recoverStalled, moveStalled, RunOK, ReqOK,
     RowsOK, Exists
<1>29. ASSUME NEW b \in Backup, loseLock(b) PROVE TypeInv'
  <2>1. job' \in [Backup -> Job]
    BY <1>29 DEF loseLock, moveStalled, Job, NoJob, RunOK, ReqOK
  <2>2. faults' \in Nat
    BY <1>29 DEF loseLock, moveStalled, fault
  <2> QED  BY <1>29, <2>1, <2>2 DEF loseLock, moveStalled, RunOK, ReqOK,
     RowsOK, Exists, fault
<1>30. CASE crash
  <2>1. run' \in Run
    BY <1>30 DEF crash, Run, Idle, goto, RunOK, File, Holding
  <2>2. req' \in [Req -> Request]
    BY <1>30 DEF crash, Request, NoRequest
  <2>3. faults' \in Nat
    BY <1>30 DEF crash, fault
  <2>4. RunOK'
    BY <1>30 DEF crash, RunOK, Holding, Producing, Run, goto, Idle
  <2>5. ReqOK'
    BY <1>30 DEF crash, ReqOK, Request, NoRequest
  <2> QED  BY <1>30, <2>1, <2>2, <2>3, <2>4, <2>5 DEF crash, RowsOK, Exists,
     fault
<1>31. CASE UNCHANGED vars
  BY <1>31 DEF vars, RunOK, ReqOK, RowsOK, Exists
<1> QED  BY <1>1, <1>2, <1>3, <1>4, <1>5, <1>6, <1>7, <1>8, <1>9, <1>10,
   <1>11, <1>12, <1>13, <1>14, <1>15, <1>16, <1>17, <1>18, <1>19, <1>20,
   <1>21, <1>22, <1>23, <1>24, <1>25, <1>26, <1>27, <1>28, <1>29, <1>30,
   <1>31 DEF Next, worker, request, triggerBackup, scheduledBackup

\* Every variable always has its type.
THEOREM TypeCorrect == Spec => []TypeOK
<1>1. Init => TypeInv
  BY TypeInit
<1>2. TypeInv /\ [Next]_vars => TypeInv'
  BY TypeStep
<1>3. TypeInv => TypeOK
  BY DEF TypeInv
<1> QED  BY <1>1, <1>2, <1>3, PTL DEF Spec

-----------------------------------------------------------------------------
(* A COMPLETED row names a good artifact that is there.                    *)

\* Every dump has a number of its own, no row names the files of the dump the worker has
\* in hand, and an encrypted copy is told from its dump by its form.
Numbered ==
    /\ \A b \in Backup : rows[b].path.n <= clock
    /\ run.pc \in Holding => /\ 0 < run.file.n /\ run.file.n <= clock
                             /\ \A b \in Backup : rows[b].path.n # run.file.n
    /\ run.pc = "encVerify" => run.enc.n = run.file.n /\ run.enc.form # "plain"

\* Where the artifact of the dump in hand is, as the worker knows it.
InHand ==
    /\ run.pc \in {"quota", "encrypt", "encVerify"} =>
          run.file.form = "plain" /\ run.file \in disk \cup discarded
    /\ run.pc = "encVerify" => run.enc \in disk \cup discarded
    /\ run.pc \in {"upload", "commit"} => run.file.form \in {"plain", "enc"}
    /\ run.pc = "upload" => run.file \in disk \cup discarded
    /\ run.pc = "commit" => \/ run.file \in disk \cup discarded
                            \/ run.key = run.file /\ run.key \in remote

RestoreInv == TypeInv /\ Numbered /\ InHand /\ CompletedIsRestorable

\* What almost every step does: no row comes to name a file or to be COMPLETED, no file
\* is lost but to a request, and the dump in hand is the same or none.
RowsLose == \A b \in Backup :
    /\ rows'[b].path \in {rows[b].path, NoFile}
    /\ rows'[b].status = "COMPLETED" =>
          /\ rows[b].status = "COMPLETED" /\ rows'[b].path = rows[b].path
          /\ rows'[b].key = rows[b].key
FilesStay == /\ disk \cup discarded \subseteq disk' \cup discarded'
             /\ discarded \subseteq discarded' /\ remote \subseteq remote' \cup discarded'
             /\ clock' = clock
HandStays == run' = run \/ run'.pc \notin Holding

LEMMA RestoreInit == Init => RestoreInv
<1> SUFFICES ASSUME Init PROVE RestoreInv
  OBVIOUS
<1>1. TypeInv
  BY TypeInit
<1>2. run.pc = "idle" /\ clock = 0
      /\ \A b \in Backup : rows[b].path.n = 0 /\ rows[b].status = "absent"
  BY DEF Init, Idle, NoRow, NoFile
<1>3. Numbered /\ InHand /\ CompletedIsRestorable
  BY <1>2 DEF Numbered, InHand, CompletedIsRestorable, Holding
<1> QED  BY <1>1, <1>3 DEF RestoreInv

\* Such a step keeps the invariant.
LEMMA NothingLost ==
    ASSUME RestoreInv, TypeInv', RowsLose, FilesStay, HandStays
    PROVE  RestoreInv'
<1> USE DEF RestoreInv
<1>1. clock \in Nat /\ NoFile.n = 0
  BY DEF TypeInv, TypeOK, NoFile
<1>2. Numbered'
  BY <1>1 DEF Numbered, RowsLose, FilesStay, HandStays, Holding
<1>3. InHand'
  BY DEF InHand, FilesStay, HandStays, Holding
<1>4. ASSUME NEW b \in Backup, rows'[b].status = "COMPLETED"
      PROVE  /\ rows'[b].path.form \in {"plain", "enc"}
             /\ \/ rows'[b].path \in disk'
                \/ rows'[b].key = rows'[b].path /\ rows'[b].key \in remote'
                \/ rows'[b].path \in discarded'
  BY <1>4 DEF CompletedIsRestorable, RowsLose, FilesStay
<1> QED  BY <1>2, <1>3, <1>4 DEF CompletedIsRestorable

\* The worker only ever removes files of the dump in hand, which no row names.
LEMMA OwnFilesOnly ==
    ASSUME RestoreInv, run.pc \in Holding, rows' = rows, discarded' = discarded,
           remote \subseteq remote', \A f \in disk : f.n # run.file.n => f \in disk'
    PROVE  CompletedIsRestorable'
<1> USE DEF RestoreInv
<1>1. ASSUME NEW b \in Backup, rows[b].status = "COMPLETED"
      PROVE  /\ rows[b].path.form \in {"plain", "enc"}
             /\ \/ rows[b].path \in disk'
                \/ rows[b].key = rows[b].path /\ rows[b].key \in remote'
                \/ rows[b].path \in discarded'
  <2>1. rows[b].path.n # run.file.n
    BY DEF Numbered
  <2> QED  BY <1>1, <2>1 DEF CompletedIsRestorable
<1> QED  BY <1>1 DEF CompletedIsRestorable

\* The same dump further on, as long as the copy is of the dump too.
LEMMA SameDump ==
    ASSUME RestoreInv, run.pc \in Holding, rows' = rows, clock' = clock,
           run'.pc \in Holding => run'.file.n = run.file.n,
           run'.pc = "encVerify" => run'.enc.n = run.file.n /\ run'.enc.form # "plain"
    PROVE  Numbered'
  BY DEF RestoreInv, Numbered, Holding

LEMMA DumpStep ==
    ASSUME RestoreInv, NEW size \in Sizes, engineBackup(size), TypeInv'
    PROVE  RestoreInv'
<1> USE DEF RestoreInv
<1> DEFINE file == [n |-> clock + 1, form |-> "plain"]
<1>1. /\ rows' = rows /\ clock' = clock + 1 /\ disk' = disk \cup {file}
      /\ UNCHANGED <<remote, discarded>>
      /\ run' = [run EXCEPT !.pc = "quota", !.file = file, !.size = size]
  BY DEF engineBackup, requests
<1>2. run'.pc = "quota" /\ run'.file = file
  BY <1>1 DEF TypeInv, TypeOK, Run
<1>3. clock \in Nat /\ file.n = clock + 1 /\ file.form = "plain"
      /\ \A b \in Backup : rows[b].path.n \in Nat
  BY DEF TypeInv, TypeOK, Row, File, NoFile
<1> HIDE DEF file
<1>4. Numbered'
  BY <1>1, <1>2, <1>3 DEF Numbered, Holding
<1>5. InHand'
  BY <1>1, <1>2, <1>3 DEF InHand
<1>6. CompletedIsRestorable'
  BY <1>1 DEF CompletedIsRestorable
<1> QED  BY <1>4, <1>5, <1>6

LEMMA CheckStep ==
    ASSUME RestoreInv, checkQuota, TypeInv'
    PROVE  RestoreInv'
<1> USE DEF RestoreInv
<1>1. /\ run.pc = "quota" /\ run.pc \in Holding /\ rows' = rows
      /\ UNCHANGED <<remote, clock, discarded>>
  BY DEF checkQuota, requests, Holding
<1>2. CASE assertQuotaAllowsFile(run.owner, run.size)
  <2>1. disk' = disk /\ run'.pc = "encrypt" /\ run'.file = run.file
    BY <1>2 DEF checkQuota, goto, TypeInv, TypeOK, Run
  <2>2. Numbered'
    BY <1>1, <2>1, SameDump
  <2>3. InHand' /\ CompletedIsRestorable'
    BY <1>1, <2>1, OwnFilesOnly DEF InHand
  <2> QED  BY <2>2, <2>3
<1>3. CASE ~assertQuotaAllowsFile(run.owner, run.size)
  <2>1. disk' = disk \ {run.file} /\ run'.pc = "catch"
    BY <1>3 DEF checkQuota, TypeInv, TypeOK, Run
  <2>2. Numbered' /\ InHand'
    BY <1>1, <2>1 DEF Numbered, InHand, Holding
  <2>3. CompletedIsRestorable'
    BY <1>1, <2>1, OwnFilesOnly
  <2> QED  BY <2>2, <2>3
<1> QED  BY <1>2, <1>3

\* The dump is dropped only for a copy that was accepted.
LEMMA EncryptionStep ==
    ASSUME RestoreInv, TypeInv',
           \/ keepPlaintext \/ acceptEncrypted \/ rejectEncrypted
           \/ \E form \in {"enc", "bad"} : encryptBackupFile(form)
    PROVE  RestoreInv'
<1> USE DEF RestoreInv
<1>1. CASE keepPlaintext
  <2>1. /\ run.pc = "encrypt" /\ run.pc \in Holding /\ rows' = rows
        /\ UNCHANGED <<disk, remote, clock, discarded>>
        /\ run'.pc = "upload" /\ run'.file = run.file
    BY <1>1 DEF keepPlaintext, goto, requests, files, Holding, TypeInv, TypeOK, Run
  <2>2. Numbered' /\ CompletedIsRestorable'
    BY <2>1, SameDump, OwnFilesOnly
  <2>3. InHand'
    BY <2>1 DEF InHand
  <2> QED  BY <2>2, <2>3
<1>2. CASE acceptEncrypted
  <2>1. /\ run.pc = "encVerify" /\ run.pc \in Holding /\ rows' = rows
        /\ UNCHANGED <<remote, clock, discarded>> /\ run.enc.form = "enc"
        /\ disk' = disk \ {run.file} /\ run'.pc = "upload" /\ run'.file = run.enc
    BY <1>2 DEF acceptEncrypted, requests, Holding, TypeInv, TypeOK, Run
  <2>2. run.enc.n = run.file.n
    BY <2>1 DEF Numbered
  <2>3. Numbered' /\ CompletedIsRestorable'
    BY <2>1, <2>2, SameDump, OwnFilesOnly
  <2>4. run.enc # run.file /\ run.enc \in disk \cup discarded
    BY <2>1 DEF InHand
  <2>5. InHand'
    BY <2>1, <2>4 DEF InHand
  <2> QED  BY <2>3, <2>5
<1>3. CASE rejectEncrypted
  <2>1. /\ run.pc = "encVerify" /\ run.pc \in Holding /\ rows' = rows
        /\ UNCHANGED <<remote, clock, discarded>>
        /\ disk' = disk \ {run.enc} /\ run'.pc = "encrypt" /\ run'.file = run.file
    BY <1>3 DEF rejectEncrypted, requests, Holding, TypeInv, TypeOK, Run
  <2>2. run.enc.n = run.file.n /\ run.enc.form # "plain"
    BY <2>1 DEF Numbered
  <2>3. Numbered' /\ CompletedIsRestorable'
    BY <2>1, <2>2, SameDump, OwnFilesOnly
  <2>4. run.file.form = "plain" /\ run.file \in disk \cup discarded
    BY <2>1 DEF InHand
  <2>5. InHand'
    BY <2>1, <2>2, <2>4 DEF InHand
  <2> QED  BY <2>3, <2>5
<1>4. ASSUME NEW form \in {"enc", "bad"}, encryptBackupFile(form) PROVE RestoreInv'
  <2> DEFINE enc == [n |-> run.file.n, form |-> form]
  <2>1. /\ run.pc = "encrypt" /\ run.pc \in Holding /\ rows' = rows
        /\ UNCHANGED <<remote, clock, discarded>> /\ disk' = disk \cup {enc}
    BY <1>4 DEF encryptBackupFile, requests, Holding
  <2>2. run'.pc = "encVerify" /\ run'.file = run.file /\ run'.enc = enc
    BY <1>4 DEF encryptBackupFile, TypeInv, TypeOK, Run
  <2>3. enc.n = run.file.n /\ enc.form # "plain"
    OBVIOUS
  <2> HIDE DEF enc
  <2>4. Numbered' /\ CompletedIsRestorable'
    BY <2>1, <2>2, <2>3, SameDump, OwnFilesOnly
  <2>5. InHand'
    BY <2>1, <2>2 DEF InHand
  <2> QED  BY <2>4, <2>5
<1> QED  BY <1>1, <1>2, <1>3, <1>4

\* The local file is deleted only when its object is there.
LEMMA UploadStep ==
    ASSUME RestoreInv, TypeInv',
           uploadNothing \/ \E d \in BOOLEAN : uploadBackupFile(d)
    PROVE  RestoreInv'
<1> USE DEF RestoreInv
<1>1. CASE uploadNothing
  <2>1. /\ run.pc = "upload" /\ run.pc \in Holding /\ rows' = rows
        /\ UNCHANGED <<disk, clock, discarded>> /\ remote \subseteq remote'
        /\ run'.pc = "commit" /\ run'.file = run.file
    BY <1>1 DEF uploadNothing, goto, requests, Holding, TypeInv, TypeOK, Run
  <2>2. Numbered' /\ CompletedIsRestorable'
    BY <2>1, SameDump, OwnFilesOnly
  <2>3. InHand'
    BY <2>1 DEF InHand
  <2> QED  BY <2>2, <2>3
<1>2. ASSUME NEW d \in BOOLEAN, uploadBackupFile(d) PROVE RestoreInv'
  <2>1. /\ run.pc = "upload" /\ run.pc \in Holding /\ rows' = rows
        /\ UNCHANGED <<clock, discarded>> /\ remote' = remote \cup {run.file}
        /\ disk' = IF d THEN disk \ {run.file} ELSE disk
        /\ run'.pc = "commit" /\ run'.file = run.file /\ run'.key = run.file
    BY <1>2 DEF uploadBackupFile, requests, Holding, TypeInv, TypeOK, Run
  <2>2. Numbered' /\ CompletedIsRestorable'
    BY <2>1, SameDump, OwnFilesOnly
  <2>3. InHand'
    BY <2>1 DEF InHand
  <2> QED  BY <2>2, <2>3
<1> QED  BY <1>1, <1>2

\* What the row is given is what was in hand.
LEMMA CommitStep ==
    ASSUME RestoreInv, markCompleted, TypeInv'
    PROVE  RestoreInv'
<1> USE DEF RestoreInv
<1>1. run.pc = "commit" /\ run.b \in Backup /\ UNCHANGED <<files, discarded>>
  BY DEF markCompleted, requests, TypeInv, RunOK
<1>2. CASE ~Exists(run.b)
  <2>1. rows' = rows /\ run'.pc = "catch"
    BY <1>2 DEF markCompleted, goto, TypeInv, TypeOK, Run
  <2> QED  BY <1>1, <2>1, NothingLost DEF RowsLose, FilesStay, HandStays, Holding, files
<1>3. CASE Exists(run.b)
  <2> DEFINE r == [rows[run.b] EXCEPT !.status = "COMPLETED", !.path = run.file,
                                      !.key = run.key, !.size = run.size]
  <2>1. rows' = [rows EXCEPT ![run.b] = r] /\ run'.pc = "after"
    BY <1>3 DEF markCompleted, goto, TypeInv, TypeOK, Run
  <2>2. rows[run.b] \in Row
    BY <1>1 DEF TypeInv, TypeOK
  <2>3. r.path = run.file /\ r.key = run.key
    BY <2>2 DEF Row
  <2> HIDE DEF r
  <2>4. \A b \in Backup : rows'[b] = IF b = run.b THEN r ELSE rows[b]
    BY <2>1 DEF TypeInv, TypeOK
  <2>5. run.file.n <= clock /\ run.file.form \in {"plain", "enc"}
    BY <1>1 DEF Numbered, InHand, Holding
  <2>6. Numbered' /\ InHand'
    BY <1>1, <2>1, <2>3, <2>4, <2>5 DEF Numbered, InHand, Holding, files
  <2>7. CompletedIsRestorable'
    <3>1. \/ run.file \in disk \cup discarded
          \/ run.key = run.file /\ run.key \in remote
      BY <1>1 DEF InHand
    <3> QED  BY <1>1, <2>3, <2>4, <2>5, <3>1 DEF CompletedIsRestorable, files
  <2> QED  BY <2>6, <2>7
<1> QED  BY <1>2, <1>3

\* The requests, BullMQ and the crash.
LEMMA OutsideStep ==
    ASSUME RestoreInv, TypeInv',
           \/ \E q \in Req : request(q)
           \/ \E b \in Backup : recoverStalled(b) \/ loseLock(b)
           \/ crash
           \/ \E u \in User, q \in Quotas : setUserQuota(u, q)
           \/ UNCHANGED vars
    PROVE  RestoreInv'
<1> SUFFICES RowsLose /\ FilesStay /\ HandStays
  BY NothingLost
<1> USE DEF files, accounts
<1>1. ASSUME UNCHANGED <<rows, files, discarded>>, run' = run \/ run' = Idle
      PROVE  RowsLose /\ FilesStay /\ HandStays
  BY <1>1 DEF RowsLose, FilesStay, HandStays, Idle, Holding
<1>2. ASSUME RowsLose, UNCHANGED <<files, discarded, run>>
      PROVE  RowsLose /\ FilesStay /\ HandStays
  BY <1>2 DEF FilesStay, HandStays
<1> USE DEF RestoreInv, TypeInv, TypeOK
<1>3. ASSUME NEW q \in Req, NEW b \in Backup, createRow(q, b)
      PROVE  RowsLose /\ FilesStay /\ HandStays
  <2>1. UNCHANGED <<files, discarded, run>>
    BY <1>3 DEF createRow
  <2>2. \A x \in Backup \ {b} : rows'[x] = rows[x]
    BY <1>3 DEF createRow
  <2>3. rows'[b] = rows[b] \/ (rows'[b].path = NoFile /\ rows'[b].status = "PENDING")
    <3>1. CASE req[q].c \in conns
      <4>1. rows'[b] = [NoRow EXCEPT !.status = "PENDING", !.conn = req[q].c,
                                     !.owner = Owner[req[q].c]]
        BY <1>3, <3>1 DEF createRow
      <4> QED  BY <4>1 DEF NoRow
    <3>2. CASE req[q].c \notin conns
      <4>1. rows' = rows
        BY <1>3, <3>2 DEF createRow
      <4> QED  BY <4>1
    <3> QED  BY <3>1, <3>2
  <2> QED  BY <1>2, <2>1, <2>2, <2>3 DEF RowsLose
<1>4. ASSUME NEW q \in Req, deleteRow(q) PROVE RowsLose /\ FilesStay /\ HandStays
  <2>1. UNCHANGED <<files, discarded, run>> /\ req[q].b \in Backup
    BY <1>4 DEF deleteRow, ReqOK
  <2>2. \A x \in Backup \ {req[q].b} : rows'[x] = rows[x]
    BY <1>4 DEF deleteRow
  <2>3. \/ rows'[req[q].b] = rows[req[q].b]
        \/ rows'[req[q].b].path = NoFile /\ rows'[req[q].b].status = "deleted"
    BY <1>4, <2>1 DEF deleteRow, NoRow
  <2> QED  BY <1>2, <2>1, <2>2, <2>3 DEF RowsLose
<1>5. ASSUME NEW q \in Req, deleteConnRow(q) PROVE RowsLose /\ FilesStay /\ HandStays
  <2>1. UNCHANGED <<files, discarded, run>>
    BY <1>5 DEF deleteConnRow
  <2>2. \A x \in Backup : /\ rows'[x].path = rows[x].path /\ rows'[x].key = rows[x].key
                          /\ rows'[x].status = rows[x].status
    BY <1>5 DEF deleteConnRow, Row
  <2> QED  BY <1>2, <2>1, <2>2 DEF RowsLose
<1>6. ASSUME NEW q \in Req, deleteBackupArtifact(q)
      PROVE  RowsLose /\ FilesStay /\ HandStays
  <2>1. PICK a \in req[q].todo :
            /\ disk' = disk \ {a.path} /\ remote' \in {remote, remote \ {a.key}}
            /\ discarded' = discarded \cup {a.path, a.key}
            /\ UNCHANGED <<rows, run, clock>>
    BY <1>6 DEF deleteBackupArtifact
  <2> QED  BY <2>1 DEF RowsLose, FilesStay, HandStays
<1>7. ASSUME NEW q \in Req, request(q) PROVE RowsLose /\ FilesStay /\ HandStays
  BY <1>1, <1>3, <1>4, <1>5, <1>6, <1>7
     DEF request, triggerBackup, scheduledBackup, beginTrigger, addBackupJob,
         deleteBackup, deleteConnection
<1>8. ASSUME NEW b \in Backup, recoverStalled(b) \/ loseLock(b)
      PROVE  RowsLose /\ FilesStay /\ HandStays
  BY <1>1, <1>8 DEF recoverStalled, loseLock, moveStalled, requests
<1>9. CASE crash
  BY <1>1, <1>9 DEF crash
<1>10. ASSUME NEW u \in User, NEW q \in Quotas, setUserQuota(u, q)
       PROVE  RowsLose /\ FilesStay /\ HandStays
  BY <1>1, <1>10 DEF setUserQuota
<1>11. CASE UNCHANGED vars
  BY <1>1, <1>11 DEF vars
<1> QED  BY <1>7, <1>8, <1>9, <1>10, <1>11

\* The steps of the worker that have no dump in hand afterwards, or none yet.
LEMMA EmptyHandStep ==
    ASSUME RestoreInv, TypeInv',
           \/ \E b \in Backup : pickJob(b)
           \/ decryptConn \/ startRow \/ engineBackupFails \/ encryptionThrows
           \/ afterCompletionThrows \/ markFailed \/ jobCompleted \/ jobFailed
    PROVE  RestoreInv'
<1> SUFFICES RowsLose /\ FilesStay /\ HandStays
  BY NothingLost
<1> USE DEF files, requests, RestoreInv, TypeInv, TypeOK
<1>1. ASSUME UNCHANGED <<files, discarded>>, rows' = rows \/ RowsLose, run'.pc \notin Holding
      PROVE  RowsLose /\ FilesStay /\ HandStays
  BY <1>1 DEF RowsLose, FilesStay, HandStays
<1>2. ASSUME NEW b \in Backup, pickJob(b) PROVE RowsLose /\ FilesStay /\ HandStays
  BY <1>1, <1>2 DEF pickJob, Idle, Holding
<1>3. ASSUME NEW p \in {"start", "fail", "catch"}, goto(p) PROVE run'.pc \notin Holding
  BY <1>3 DEF goto, Run, Holding
<1>4. CASE decryptConn
  <2>1. run'.pc \notin Holding
    BY <1>3, <1>4 DEF decryptConn
  <2> QED  BY <1>1, <1>4, <2>1 DEF decryptConn
<1>5. ASSUME NEW s \in {"RUNNING", "FAILED"}, run.b \in Backup,
             rows' = [rows EXCEPT ![run.b].status = s]
      PROVE  RowsLose
  <2>1. /\ rows'[run.b].status = s /\ rows'[run.b].path = rows[run.b].path
        /\ \A x \in Backup \ {run.b} : rows'[x] = rows[x]
    BY <1>5 DEF Row
  <2> QED  BY <1>5, <2>1 DEF RowsLose
<1>6. CASE startRow
  <2>1. run'.pc \in {"dump", "fail"} /\ run.b \in Backup
    BY <1>6 DEF startRow, goto, Run, RunOK
  <2>2. rows' = rows \/ RowsLose
    BY <1>5, <1>6, <2>1 DEF startRow
  <2> QED  BY <1>1, <1>6, <2>1, <2>2 DEF startRow, Holding
<1>7. CASE markFailed
  <2>1. run'.pc = "fail" /\ run.b \in Backup
    BY <1>7 DEF markFailed, goto, Run, RunOK
  <2>2. rows' = rows \/ RowsLose
    BY <1>5, <1>7, <2>1 DEF markFailed
  <2> QED  BY <1>1, <1>7, <2>1, <2>2 DEF markFailed, Holding
<1>8. CASE engineBackupFails \/ encryptionThrows \/ afterCompletionThrows
  <2>1. run'.pc \notin Holding
    BY <1>3, <1>8 DEF engineBackupFails, encryptionThrows, afterCompletionThrows
  <2> QED  BY <1>1, <1>8, <2>1 DEF engineBackupFails, encryptionThrows,
              afterCompletionThrows
<1>9. CASE jobCompleted \/ jobFailed
  <2>1. rows' = rows /\ UNCHANGED <<files, discarded>> /\ run' = Idle
    BY <1>9 DEF jobCompleted, jobFailed, finishJob
  <2> QED  BY <1>1, <2>1 DEF Idle, Holding
<1> QED  BY <1>2, <1>4, <1>6, <1>7, <1>8, <1>9

LEMMA RestoreStep == RestoreInv /\ [Next]_vars => RestoreInv'
<1> SUFFICES ASSUME RestoreInv, [Next]_vars PROVE RestoreInv'
  OBVIOUS
<1>1. TypeInv'
  BY TypeStep DEF RestoreInv
<1> QED  BY <1>1, DumpStep, CheckStep, EncryptionStep, UploadStep, CommitStep,
            OutsideStep, EmptyHandStep DEF Next, worker

\* The artifact a COMPLETED row names is good and is there, on disk or in remote storage,
\* unless some request set out to delete that very artifact (backup.queue.ts, the
\* handler; storage.service.ts, deleteBackupArtifact).
THEOREM CompletedCanBeRestored == Spec => []CompletedIsRestorable
<1>1. RestoreInv => CompletedIsRestorable
  BY DEF RestoreInv
<1> QED  BY <1>1, RestoreInit, RestoreStep, PTL DEF Spec
-----------------------------------------------------------------------------
(* The queue and the table agree.                                          *)

\* A request is about to queue the job of a row it has just made, the only one to do so.
EnqueueOK == \A q \in Req : req[q].pc = "enqueue" =>
    /\ job[req[q].b].state = "none"
    /\ rows[req[q].b].status \in {"PENDING", "deleted"}
    /\ \A p \in Req \ {q} : req[p].pc = "enqueue" => req[p].b # req[q].b

\* What the state of a job says of its row.
JobOK == \A b \in Backup :
    LET state == job[b].state
        status == rows[b].status
    IN  /\ status = "absent" => state = "none"
        /\ state = "none" => status \in {"absent", "PENDING", "deleted"}
        /\ state = "completed" => status \in {"COMPLETED", "deleted"}
        /\ state = "failed" /\ status \in {"COMPLETED", "RUNNING"} => Abandoned(b)
        /\ state = "waiting" /\ status = "RUNNING" => job[b].stalls > 0

\* The job the worker runs is active unless it stalled; before the row is RUNNING, and
\* after an error, a row that is RUNNING was left so by a stalled run.
WorkerOK ==
    LET b == run.b
        state == job[b].state
        status == rows[b].status
    IN  /\ run.pc = "idle" => b = None
        /\ run.pc # "idle" => \/ state = "active"
                              \/ state = "waiting" /\ job[b].stalls > 0
                              \/ state = "failed" /\ job[b].stalls > MaxStalled
        /\ run.pc \in {"load", "start", "fail"} /\ status = "RUNNING" => job[b].stalls > 0
        /\ run.pc = "fail" => status \in {"FAILED", "deleted"} \/ job[b].conn \notin conns
        /\ run.pc = "after" => status \in {"COMPLETED", "deleted"}

AgreeInv == TypeInv /\ EnqueueOK /\ JobOK /\ WorkerOK

\* What many steps do to the queue and the table: nothing, but for requests that end and
\* connections that go.
QueueStays == job' = job /\ \A b \in Backup : rows'[b].status = rows[b].status
RequestsEnd == \A q \in Req :
    req'[q].pc = "enqueue" => req[q].pc = "enqueue" /\ req'[q].b = req[q].b
WorkerGoesOn == \/ run' = run
                \/ run' = Idle
                \/ /\ run.pc # "idle" /\ run'.b = run.b
                   /\ run'.pc \in Producing \cup {"catch"}

LEMMA AgreeInit == Init => AgreeInv
<1> SUFFICES ASSUME Init PROVE AgreeInv
  OBVIOUS
<1>1. TypeInv
  BY TypeInit
<1>2. /\ run.pc = "idle" /\ run.b = None
      /\ \A b \in Backup : job[b].state = "none" /\ rows[b].status = "absent"
      /\ \A q \in Req : req[q].pc = "idle"
  BY DEF Init, Idle, NoJob, NoRow, NoRequest
<1> QED  BY <1>1, <1>2 DEF AgreeInv, EnqueueOK, JobOK, WorkerOK

LEMMA QuietStep ==
    ASSUME AgreeInv, TypeInv', QueueStays, RequestsEnd, WorkerGoesOn,
           conns' \subseteq conns
    PROVE  AgreeInv'
<1> USE DEF AgreeInv, QueueStays
<1>1. \A q \in Req : req[q].pc = "enqueue" => req[q].b \in Backup
  BY DEF TypeInv, ReqOK
<1>2. EnqueueOK'
  BY <1>1 DEF EnqueueOK, RequestsEnd
<1>3. JobOK'
  BY DEF JobOK, Abandoned
<1>4. run.pc # "idle" => run.b \in Backup
  BY DEF TypeInv, RunOK
<1>5. ASSUME run' = run PROVE WorkerOK'
  BY <1>4, <1>5 DEF WorkerOK
<1>6. ASSUME run' = Idle PROVE WorkerOK'
  BY <1>6 DEF WorkerOK, Idle
<1>7. ASSUME run.pc # "idle", run'.b = run.b, run'.pc \in Producing \cup {"catch"}
      PROVE  WorkerOK'
  BY <1>4, <1>7 DEF WorkerOK, Producing, Holding
<1> QED  BY <1>2, <1>3, <1>5, <1>6, <1>7 DEF WorkerGoesOn

\* The steps of the worker between its two updates of the row, and the requests and the
\* faults that touch neither queue nor status.
LEMMA AgreeQuiet ==
    ASSUME AgreeInv, TypeInv',
           \/ \E size \in Sizes : engineBackup(size)
           \/ engineBackupFails \/ checkQuota \/ keepPlaintext
           \/ \E form \in {"enc", "bad"} : encryptBackupFile(form)
           \/ acceptEncrypted \/ rejectEncrypted \/ encryptionThrows \/ uploadNothing
           \/ \E d \in BOOLEAN : uploadBackupFile(d)
           \/ afterCompletionThrows
           \/ \E q \in Req, c \in Conn : beginTrigger(q, c)
           \/ \E q \in Req, b \in Backup : deleteBackup(q, b)
           \/ \E q \in Req, c \in Conn, d \in BOOLEAN : deleteConnection(q, c, d)
           \/ \E q \in Req : deleteBackupArtifact(q)
           \/ \E q \in Req : deleteConnRow(q)
           \/ crash
           \/ \E u \in User, q \in Quotas : setUserQuota(u, q)
           \/ UNCHANGED vars
    PROVE  AgreeInv'
<1> SUFFICES QueueStays /\ RequestsEnd /\ WorkerGoesOn /\ conns' \subseteq conns
  BY QuietStep
<1> USE DEF AgreeInv, TypeInv, TypeOK, files, accounts, requests
<1>1. ASSUME UNCHANGED <<rows, job, req, conns>>, WorkerGoesOn
      PROVE  QueueStays /\ RequestsEnd /\ WorkerGoesOn /\ conns' \subseteq conns
  BY <1>1 DEF QueueStays, RequestsEnd
<1>2. ASSUME NEW size \in Sizes, engineBackup(size) PROVE WorkerGoesOn
  <2>1. run.pc = "dump"
    BY <1>2 DEF engineBackup
  <2>2. PICK f : run' = [run EXCEPT !.pc = "quota", !.file = f, !.size = size]
    BY <1>2 DEF engineBackup
  <2>3. run'.b = run.b /\ run'.pc = "quota"
    BY <2>2 DEF Run
  <2> QED  BY <2>1, <2>3 DEF WorkerGoesOn, Producing, Holding
<1>3. CASE engineBackupFails \/ encryptionThrows \/ afterCompletionThrows
  BY <1>1, <1>3 DEF engineBackupFails, encryptionThrows, afterCompletionThrows, goto,
     WorkerGoesOn, Run
<1>4. CASE checkQuota
  BY <1>1, <1>4 DEF checkQuota, goto, WorkerGoesOn, Run, Producing, Holding
<1>5. CASE keepPlaintext
  BY <1>1, <1>5 DEF keepPlaintext, goto, WorkerGoesOn, Run, Producing, Holding
<1>6. ASSUME NEW form \in {"enc", "bad"}, encryptBackupFile(form) PROVE WorkerGoesOn
  BY <1>6 DEF encryptBackupFile, WorkerGoesOn, Run, Producing, Holding
<1>7. CASE acceptEncrypted \/ rejectEncrypted
  BY <1>1, <1>7 DEF acceptEncrypted, rejectEncrypted, WorkerGoesOn, Run, Producing,
     Holding
<1>8. CASE uploadNothing
  BY <1>1, <1>8 DEF uploadNothing, goto, WorkerGoesOn, Run, Producing, Holding
<1>9. ASSUME NEW d \in BOOLEAN, uploadBackupFile(d) PROVE WorkerGoesOn
  BY <1>9 DEF uploadBackupFile, WorkerGoesOn, Run, Producing, Holding
<1>10. ASSUME UNCHANGED <<rows, job, run, conns>>, RequestsEnd
       PROVE  QueueStays /\ RequestsEnd /\ WorkerGoesOn /\ conns' \subseteq conns
  BY <1>10 DEF QueueStays, WorkerGoesOn
<1>11. ASSUME NEW q \in Req, NEW c \in Conn, beginTrigger(q, c) PROVE RequestsEnd
  BY <1>11 DEF beginTrigger, RequestsEnd, NoRequest
<1>12. ASSUME NEW q \in Req, NEW b \in Backup, deleteBackup(q, b) PROVE RequestsEnd
  BY <1>12 DEF deleteBackup, RequestsEnd, NoRequest
<1>13. ASSUME NEW q \in Req, NEW c \in Conn, NEW d \in BOOLEAN, deleteConnection(q, c, d)
       PROVE  RequestsEnd
  BY <1>13 DEF deleteConnection, RequestsEnd, NoRequest
<1>14. ASSUME NEW q \in Req, deleteBackupArtifact(q) PROVE RequestsEnd
  BY <1>14 DEF deleteBackupArtifact, RequestsEnd, Request
<1>15. ASSUME NEW q \in Req, deleteConnRow(q)
       PROVE  QueueStays /\ RequestsEnd /\ WorkerGoesOn /\ conns' \subseteq conns
  <2>1. RequestsEnd
    BY <1>15 DEF deleteConnRow, RequestsEnd, NoRequest
  <2>2. \A b \in Backup : rows'[b].status = rows[b].status
    BY <1>15 DEF deleteConnRow, Row
  <2> QED  BY <1>15, <2>1, <2>2 DEF deleteConnRow, QueueStays, WorkerGoesOn
<1>16. CASE crash
  BY <1>16 DEF crash, QueueStays, RequestsEnd, WorkerGoesOn, NoRequest
<1>17. ASSUME NEW u \in User, NEW q \in Quotas, setUserQuota(u, q)
       PROVE  QueueStays /\ RequestsEnd /\ WorkerGoesOn /\ conns' \subseteq conns
  BY <1>1, <1>17 DEF setUserQuota, WorkerGoesOn
<1>18. CASE UNCHANGED vars
  BY <1>1, <1>18 DEF vars, WorkerGoesOn
<1>19. CASE \E size \in Sizes : engineBackup(size)
  BY <1>1, <1>2, <1>19 DEF engineBackup
<1>20. CASE \E form \in {"enc", "bad"} : encryptBackupFile(form)
  BY <1>1, <1>6, <1>20 DEF encryptBackupFile
<1>21. CASE \E d \in BOOLEAN : uploadBackupFile(d)
  BY <1>1, <1>9, <1>21 DEF uploadBackupFile
<1>22. CASE \/ \E q \in Req, c \in Conn : beginTrigger(q, c)
            \/ \E q \in Req, b \in Backup : deleteBackup(q, b)
            \/ \E q \in Req, c \in Conn, d \in BOOLEAN : deleteConnection(q, c, d)
            \/ \E q \in Req : deleteBackupArtifact(q)
  BY <1>10, <1>11, <1>12, <1>13, <1>14, <1>22
     DEF beginTrigger, deleteBackup, deleteConnection, deleteBackupArtifact
<1> QED  BY <1>3, <1>4, <1>5, <1>7, <1>8, <1>15, <1>16, <1>17, <1>18, <1>19, <1>20,
            <1>21, <1>22

\* A row is made, queued and deleted.
LEMMA AgreeRequest ==
    ASSUME AgreeInv, TypeInv', NEW q \in Req,
           \/ \E b \in Backup : createRow(q, b)
           \/ addBackupJob(q)
           \/ deleteRow(q)
    PROVE  AgreeInv'
<1> USE DEF AgreeInv
<1>0. \A p \in Req : req[p].pc = "enqueue" => req[p].b \in Backup
  BY DEF TypeInv, ReqOK
<1>1. run.pc # "idle" => run.b \in Backup
  BY DEF TypeInv, RunOK
<1>2. None \notin Backup
  BY NoneAssumption
<1>3. ASSUME NEW b \in Backup, createRow(q, b), req[q].c \in conns PROVE AgreeInv'
  <2>1. /\ rows[b].status = "absent" /\ UNCHANGED <<job, run, conns>>
        /\ rows' = [rows EXCEPT ![b] =
                       [NoRow EXCEPT !.status = "PENDING", !.conn = req[q].c,
                                     !.owner = Owner[req[q].c]]]
        /\ req' = [req EXCEPT ![q].pc = "enqueue", ![q].b = b]
    BY <1>3 DEF createRow, accounts
  <2>2. rows'[b].status = "PENDING" /\ \A x \in Backup \ {b} : rows'[x] = rows[x]
    BY <2>1 DEF TypeInv, TypeOK, NoRow
  <2>3. req'[q].b = b /\ \A p \in Req \ {q} : req'[p] = req[p]
    BY <2>1 DEF TypeInv, TypeOK, Request
  <2>4. job[b].state = "none" /\ run.b # b
    <3>1. job[b].state = "none"
      BY <2>1 DEF JobOK
    <3> QED  BY <1>2, <3>1 DEF WorkerOK
  <2>5. \A p \in Req : req[p].pc = "enqueue" => req[p].b # b
    BY <2>1 DEF EnqueueOK
  <2>6. EnqueueOK'
    <3>1. UNCHANGED job
      BY <2>1
    <3>2. ASSUME NEW p \in Req \ {q}, req'[p].pc = "enqueue"
          PROVE  /\ req'[p].b = req[p].b /\ req[p].b # b
                 /\ job[req[p].b].state = "none"
                 /\ rows'[req[p].b].status \in {"PENDING", "deleted"}
                 /\ \A o \in Req \ {q, p} :
                       req'[o].pc = "enqueue" => req'[o].b # req[p].b
      BY <1>0, <2>2, <2>3, <2>5, <3>2 DEF EnqueueOK
    <3> QED  BY <2>2, <2>3, <2>4, <3>1, <3>2 DEF EnqueueOK
  <2>7. JobOK'
    BY <2>1, <2>2, <2>4 DEF JobOK, Abandoned
  <2>8. WorkerOK'
    BY <1>1, <2>1, <2>2, <2>4 DEF WorkerOK
  <2> QED  BY <2>6, <2>7, <2>8
<1>4. ASSUME NEW b \in Backup, createRow(q, b), req[q].c \notin conns PROVE AgreeInv'
  <2>1. UNCHANGED <<job, run, rows, conns>> /\ req' = [req EXCEPT ![q] = NoRequest]
    BY <1>4 DEF createRow, accounts
  <2>2. RequestsEnd
    BY <2>1 DEF TypeInv, TypeOK, RequestsEnd, NoRequest
  <2> QED  BY <2>1, <2>2, QuietStep DEF QueueStays, WorkerGoesOn
<1>5. CASE addBackupJob(q)
  <2> DEFINE b == req[q].b
  <2>1. /\ req[q].pc = "enqueue" /\ b \in Backup /\ UNCHANGED <<rows, run, conns>>
        /\ job' = [job EXCEPT ![b] =
                      [NoJob EXCEPT !.state = "waiting", !.conn = req[q].c]]
        /\ req' = [req EXCEPT ![q] = NoRequest]
    BY <1>0, <1>5 DEF addBackupJob, accounts
  <2>2. job'[b].state = "waiting" /\ \A x \in Backup \ {b} : job'[x] = job[x]
    BY <2>1 DEF TypeInv, TypeOK, NoJob
  <2>3. req'[q].pc = "idle" /\ \A p \in Req \ {q} : req'[p] = req[p]
    BY <2>1 DEF TypeInv, TypeOK, NoRequest
  <2>4. /\ job[b].state = "none" /\ rows[b].status \in {"PENDING", "deleted"}
        /\ \A p \in Req \ {q} : req[p].pc = "enqueue" => req[p].b # b
    BY <2>1 DEF EnqueueOK
  <2>5. run.b # b
    BY <1>2, <2>1, <2>4 DEF WorkerOK
  <2> HIDE DEF b
  <2>6. EnqueueOK'
    BY <1>0, <2>1, <2>2, <2>3, <2>4 DEF EnqueueOK
  <2>7. JobOK'
    BY <2>1, <2>2, <2>4 DEF JobOK, Abandoned
  <2>8. WorkerOK'
    BY <1>1, <2>1, <2>2, <2>5 DEF WorkerOK
  <2> QED  BY <2>6, <2>7, <2>8
<1>6. CASE deleteRow(q)
  <2> DEFINE b == req[q].b
  <2>1. /\ req[q].pc = "delRow" /\ b \in Backup /\ UNCHANGED <<job, run, conns>>
        /\ rows' = IF Exists(b)
                   THEN [rows EXCEPT ![b] = [NoRow EXCEPT !.status = "deleted"]]
                   ELSE rows
        /\ req' = [req EXCEPT ![q] = NoRequest]
    BY <1>6 DEF deleteRow, accounts, TypeInv, ReqOK
  <2>2. RequestsEnd
    BY <2>1 DEF TypeInv, TypeOK, RequestsEnd, NoRequest
  <2>3. CASE ~Exists(b)
    BY <2>1, <2>2, <2>3, QuietStep DEF QueueStays, WorkerGoesOn
  <2>4. CASE Exists(b)
    <3>1. rows'[b].status = "deleted" /\ \A x \in Backup \ {b} : rows'[x] = rows[x]
      BY <2>1, <2>4 DEF TypeInv, TypeOK, NoRow
    <3>2. EnqueueOK'
      BY <1>0, <2>1, <2>2, <3>1 DEF EnqueueOK, RequestsEnd
    <3>3. rows[b].status # "absent"
      BY <2>4 DEF Exists
    <3> HIDE DEF b
    <3>4. JobOK'
      BY <2>1, <3>1, <3>3 DEF JobOK, Abandoned
    <3>5. WorkerOK'
      BY <1>1, <2>1, <3>1 DEF WorkerOK
    <3> QED  BY <3>2, <3>4, <3>5
  <2> QED  BY <2>3, <2>4
<1> QED  BY <1>3, <1>4, <1>5, <1>6

\* The worker's steps that touch the queue or the status of the row.
LEMMA AgreeWorker ==
    ASSUME AgreeInv, TypeInv',
           \/ \E b \in Backup : pickJob(b)
           \/ decryptConn \/ startRow \/ markCompleted \/ markFailed
           \/ jobCompleted \/ jobFailed
    PROVE  AgreeInv'
<1> USE DEF AgreeInv
<1>0. \A p \in Req : req[p].pc = "enqueue" => req[p].b \in Backup
  BY DEF TypeInv, ReqOK
<1>1. run.pc # "idle" => run.b \in Backup
  BY DEF TypeInv, RunOK
<1>2. None \notin Backup
  BY NoneAssumption
<1>3. ASSUME NEW b \in Backup, pickJob(b) PROVE AgreeInv'
  <2>1. /\ job[b].state = "waiting" /\ UNCHANGED <<rows, req, conns>>
        /\ job' = [job EXCEPT ![b].state = "active"]
        /\ run'.pc = "load" /\ run'.b = b
    BY <1>3 DEF pickJob, requests, accounts, Idle
  <2>2. /\ job'[b].state = "active" /\ job'[b].stalls = job[b].stalls
        /\ job'[b].conn = job[b].conn /\ \A x \in Backup \ {b} : job'[x] = job[x]
    BY <2>1 DEF TypeInv, TypeOK, Job
  <2>3. EnqueueOK'
    BY <1>0, <2>1, <2>2 DEF EnqueueOK
  <2>4. JobOK'
    BY <2>1, <2>2 DEF JobOK, Abandoned
  <2>5. WorkerOK'
    BY <2>1, <2>2 DEF WorkerOK, JobOK
  <2> QED  BY <2>3, <2>4, <2>5
\* The row becomes s, and the worker goes to p.
<1>4. ASSUME NEW s \in {"RUNNING", "COMPLETED", "FAILED"}, NEW p,
             UNCHANGED <<job, req, conns>>, run.b \in Backup, Exists(run.b),
             rows'[run.b].status = s, \A x \in Backup \ {run.b} : rows'[x] = rows[x],
             run.pc # "idle", run'.b = run.b, run'.pc = p,
             <<s, p>> \in {<<"RUNNING", "dump">>, <<"COMPLETED", "after">>,
                           <<"FAILED", "fail">>}
      PROVE  AgreeInv'
  <2> DEFINE b == run.b
  <2>1. /\ \/ job[b].state = "active"
           \/ job[b].state = "waiting" /\ job[b].stalls > 0
           \/ job[b].state = "failed" /\ job[b].stalls > MaxStalled
    BY <1>4 DEF WorkerOK
  <2>2. EnqueueOK'
    BY <1>0, <1>4, <2>1 DEF EnqueueOK
  <2>3. JobOK'
    BY <1>4, <2>1 DEF JobOK, Abandoned
  <2>4. WorkerOK'
    BY <1>4, <2>1 DEF WorkerOK
  <2> QED  BY <2>2, <2>3, <2>4
\* The status stays, and the worker goes to p.
<1>5. ASSUME UNCHANGED <<job, req, conns, rows>>, run.pc # "idle", run'.b = run.b,
             \/ run'.pc = "start" /\ run.pc = "load"
             \/ run'.pc = "catch"
             \/ run'.pc = "fail" /\ rows[run.b].status = "deleted"
             \/ run'.pc = "fail" /\ run.pc = "load" /\ job[run.b].conn \notin conns
      PROVE  AgreeInv'
  <2>1. EnqueueOK' /\ JobOK'
    BY <1>5 DEF EnqueueOK, JobOK, Abandoned
  <2>2. WorkerOK'
    BY <1>5 DEF WorkerOK
  <2> QED  BY <2>1, <2>2
<1>6. run.pc # "idle" /\ ~Exists(run.b) => rows[run.b].status = "deleted"
  BY <1>1 DEF Exists, WorkerOK, JobOK
<1> USE DEF TypeInv, TypeOK
<1>7. CASE decryptConn
  <2>1. run'.b = run.b /\ run'.pc = IF job[run.b].conn \in conns THEN "start" ELSE "fail"
    BY <1>7 DEF decryptConn, goto, Run
  <2> QED  BY <1>5, <1>7, <2>1 DEF decryptConn, requests, accounts
<1>8. CASE startRow
  <2>1. UNCHANGED <<job, req, conns>> /\ run.pc = "start"
    BY <1>8 DEF startRow, requests, accounts
  <2>2. CASE Exists(run.b)
    <3>1. run'.pc = "dump" /\ run'.b = run.b
      BY <1>8, <2>2 DEF startRow, Run
    <3>2. /\ rows'[run.b].status = "RUNNING"
          /\ \A x \in Backup \ {run.b} : rows'[x] = rows[x]
      BY <1>1, <1>8, <2>2 DEF startRow, Row
    <3> QED  BY <1>1, <1>4, <2>1, <2>2, <3>1, <3>2
  <2>3. CASE ~Exists(run.b)
    <3>1. run'.pc = "fail" /\ run'.b = run.b /\ rows' = rows
      BY <1>8, <2>3 DEF startRow, goto, Run
    <3> QED  BY <1>5, <1>6, <2>1, <2>3, <3>1
  <2> QED  BY <2>2, <2>3
<1>9. CASE markCompleted
  <2>1. UNCHANGED <<job, req, conns>> /\ run.pc = "commit"
    BY <1>9 DEF markCompleted, requests, accounts
  <2>2. CASE Exists(run.b)
    <3>1. run'.pc = "after" /\ run'.b = run.b
      BY <1>9, <2>2 DEF markCompleted, goto, Run
    <3>2. /\ rows'[run.b].status = "COMPLETED"
          /\ \A x \in Backup \ {run.b} : rows'[x] = rows[x]
      <4>1. run.b \in Backup /\ rows[run.b] \in Row
        BY <1>1, <2>1
      <4>2. rows' = [rows EXCEPT ![run.b] =
                        [rows[run.b] EXCEPT !.status = "COMPLETED", !.path = run.file,
                                            !.key = run.key, !.size = run.size]]
        BY <1>9, <2>2 DEF markCompleted
      <4>3. rows'[run.b].status = "COMPLETED"
        BY <4>1, <4>2 DEF Row
      <4> QED  BY <4>1, <4>2, <4>3
    <3> QED  BY <1>1, <1>4, <2>1, <2>2, <3>1, <3>2
  <2>3. CASE ~Exists(run.b)
    <3>1. run'.pc = "catch" /\ run'.b = run.b /\ rows' = rows
      BY <1>9, <2>3 DEF markCompleted, goto, Run
    <3> QED  BY <1>5, <2>1, <3>1
  <2> QED  BY <2>2, <2>3
<1>10. CASE markFailed
  <2>1. UNCHANGED <<job, req, conns>> /\ run.pc = "catch"
    BY <1>10 DEF markFailed, requests, accounts
  <2>2. run'.pc = "fail" /\ run'.b = run.b
    BY <1>10 DEF markFailed, goto, Run
  <2>3. CASE Exists(run.b)
    <3>1. /\ rows'[run.b].status = "FAILED"
          /\ \A x \in Backup \ {run.b} : rows'[x] = rows[x]
      BY <1>1, <1>10, <2>3 DEF markFailed, Row
    <3> QED  BY <1>1, <1>4, <2>1, <2>2, <2>3, <3>1
  <2>4. CASE ~Exists(run.b)
    <3>1. rows' = rows
      BY <1>10, <2>4 DEF markFailed
    <3> QED  BY <1>5, <1>6, <2>1, <2>2, <2>4, <3>1
  <2> QED  BY <2>3, <2>4
<1>11. ASSUME NEW s \in {"waiting", "completed", "failed"}, NEW n \in Nat,
              finishJob(s, n), run.b \in Backup,
              s = "completed" => run.pc = "after",
              s \in {"failed", "waiting"} => run.pc = "fail"
       PROVE  AgreeInv'
  <2> DEFINE b == run.b
  <2>1. UNCHANGED <<rows, req, conns>> /\ run'.pc = "idle" /\ run'.b = None
    BY <1>11 DEF finishJob, requests, accounts, Idle
  <2>2. CASE job[b].state = "active"
    <3>1. /\ job'[b].state = s /\ job'[b].stalls = job[b].stalls
          /\ job'[b].conn = job[b].conn /\ \A x \in Backup \ {b} : job'[x] = job[x]
      BY <1>11, <2>2 DEF finishJob, Job
    <3>2. EnqueueOK'
      BY <1>0, <2>1, <2>2, <3>1 DEF EnqueueOK
    <3>3. JobOK'
      BY <1>11, <2>1, <2>2, <3>1 DEF JobOK, WorkerOK, Abandoned
    <3>4. WorkerOK'
      BY <2>1 DEF WorkerOK
    <3> QED  BY <3>2, <3>3, <3>4
  <2>3. CASE job[b].state # "active"
    <3>1. job' = job /\ run' = Idle
      BY <1>11, <2>3 DEF finishJob
    <3> QED  BY <2>1, <3>1, QuietStep DEF QueueStays, RequestsEnd, WorkerGoesOn
  <2> QED  BY <2>2, <2>3
<1>12. CASE jobCompleted
  <2>1. run.b \in Backup /\ job[run.b].fails \in Nat
    BY <1>1, <1>12 DEF jobCompleted, Job
  <2> QED  BY <1>11, <1>12, <2>1 DEF jobCompleted
<1>13. CASE jobFailed
  <2>1. run.b \in Backup /\ job[run.b].fails + 1 \in Nat
    BY <1>1, <1>13 DEF jobFailed, Job
  <2> QED  BY <1>11, <1>13, <2>1 DEF jobFailed
<1> QED  BY <1>3, <1>7, <1>8, <1>9, <1>10, <1>12, <1>13

\* BullMQ takes a stalled job from its worker.
LEMMA AgreeStalled ==
    ASSUME AgreeInv, TypeInv', NEW b \in Backup, recoverStalled(b) \/ loseLock(b)
    PROVE  AgreeInv'
<1> USE DEF AgreeInv
<1>0. \A p \in Req : req[p].pc = "enqueue" => req[p].b \in Backup
  BY DEF TypeInv, ReqOK
<1>1. run.pc # "idle" => run.b \in Backup
  BY DEF TypeInv, RunOK
<1>2. /\ job[b].state = "active" /\ UNCHANGED <<rows, run, req, conns>>
      /\ job' = [job EXCEPT
                    ![b].state = IF job[b].stalls >= MaxStalled
                                 THEN "failed" ELSE "waiting",
                    ![b].stalls = @ + 1]
  BY DEF recoverStalled, loseLock, moveStalled, requests, accounts
<1>3. job[b].stalls \in Nat /\ MaxStalled \in Nat
  BY LimitsAssumption DEF TypeInv, TypeOK, Job
<1>4. /\ job'[b].state = IF job[b].stalls >= MaxStalled THEN "failed" ELSE "waiting"
      /\ job'[b].stalls = job[b].stalls + 1
      /\ job'[b].conn = job[b].conn /\ \A x \in Backup \ {b} : job'[x] = job[x]
  BY <1>2 DEF TypeInv, TypeOK, Job
<1>5. /\ job'[b].stalls > 0
      /\ job'[b].state \in {"waiting", "failed"}
      /\ job'[b].state = "failed" => job'[b].stalls > MaxStalled
  BY <1>3, <1>4
<1>6. job[b].state = "active" /\ UNCHANGED <<rows, run, req, conns>>
  BY <1>2
<1>7. \A x \in Backup \ {b} : job'[x] = job[x]
  BY <1>4
<1>8. EnqueueOK'
  BY <1>0, <1>6, <1>7 DEF EnqueueOK
<1>9. JobOK'
  <2>1. rows[b].status # "absent"
    BY <1>6 DEF JobOK
  <2> QED  BY <1>5, <1>6, <1>7, <2>1 DEF JobOK, Abandoned
<1>10. WorkerOK'
  <2>1. CASE run.b = b
    <3>1. job'[b].conn = job[b].conn
      BY <1>4
    <3> QED  BY <1>5, <1>6, <2>1, <3>1 DEF WorkerOK
  <2>2. CASE run.b # b
    BY <1>1, <1>6, <1>7, <2>2 DEF WorkerOK
  <2> QED  BY <2>1, <2>2
<1> QED  BY <1>8, <1>9, <1>10

LEMMA AgreeStep == AgreeInv /\ [Next]_vars => AgreeInv'
<1> SUFFICES ASSUME AgreeInv, [Next]_vars PROVE AgreeInv'
  OBVIOUS
<1>1. TypeInv'
  BY TypeStep DEF AgreeInv
<1> QED  BY <1>1, AgreeQuiet, AgreeRequest, AgreeWorker, AgreeStalled
         DEF Next, worker, request, triggerBackup, scheduledBackup

\* The queue and the table agree, through retries, lost locks, crashes and deletions
\* under way: a completed job has a COMPLETED row, a failed one none but an abandoned
\* one, and a RUNNING row behind a waiting job means a stall (backup.queue.ts, the
\* handler; backup.controller.ts, which creates the row and then queues the job).
THEOREM JobsAndRowsAgree == Spec => []JobRowAgreement
<1>1. AgreeInv => JobRowAgreement
  BY DEF AgreeInv, JobOK, JobRowAgreement
<1> QED  BY <1>1, AgreeInit, AgreeStep, PTL DEF Spec

\* No row is left RUNNING with nobody to finish it, unless its job was abandoned.
THEOREM RunningHasAnOwner == Spec => []RunningIsOwned
<1>1. AgreeInv => RunningIsOwned
  <2> SUFFICES ASSUME AgreeInv, NEW b \in Backup, rows[b].status = "RUNNING",
                      job[b].state \notin {"waiting", "active"}
               PROVE  Abandoned(b)
    BY DEF RunningIsOwned
  <2>1. job[b].state \in {"none", "completed", "failed"}
    BY DEF AgreeInv, TypeInv, TypeOK, Job
  <2> QED  BY <2>1 DEF AgreeInv, JobOK
<1> QED  BY <1>1, AgreeInit, AgreeStep, PTL DEF Spec

-----------------------------------------------------------------------------
(* The storage quota.  The worker reads it when it has a dump and marks    *)
(* the row COMPLETED several steps later; in between, the invariant keeps  *)
(* room for the dump: nobody else can complete a backup, quotas only ever  *)
(* stay below the ceiling, and the rows that count can only go.            *)

QuotaUnderCeiling == \A u \in User :
    ceiling[u] # Unlimited => quota[u] # Unlimited /\ quota[u] <= ceiling[u]

\* The row the worker produces is RUNNING and the worker knows its owner,
\* unless a request deleted it.
RunningRow ==
    run.pc \in Producing =>
        \/ rows[run.b].status = "deleted"
        \/ rows[run.b].status = "RUNNING" /\ rows[run.b].owner = run.owner

\* There is room for a dump that passed the check until it is counted.
Reserved == \A u \in User :
    run.pc \in Admitted /\ run.owner = u =>
        Within(Used(u) + run.size, ceiling[u])

QuotaInv == /\ TypeInv
            /\ UsedWithinQuota
            /\ QuotaUnderCeiling
            /\ RunningRow
            /\ Reserved

-----------------------------------------------------------------------------
(* Counting bytes.                                                         *)

Bytes(r, S) == UNION {{b} \X (1 .. r[b].size) : b \in S}

LEMMA BytesFinite ==
    ASSUME NEW r \in [Backup -> Row], NEW S \in SUBSET Backup
    PROVE  IsFiniteSet(Bytes(r, S)) /\ Cardinality(Bytes(r, S)) \in Nat
<1> DEFINE piece == [b \in S |-> {b} \X (1 .. r[b].size)]
           pieces == {{b} \X (1 .. r[b].size) : b \in S}
<1>1. IsFiniteSet(S)
  BY FiniteAssumption, FS_Subset
<1>2. piece \in Surjection(S, pieces)
  BY DEF Surjection
<1>3. IsFiniteSet(pieces)
  BY <1>1, <1>2, FS_Surjection
<1>4. ASSUME NEW b \in S PROVE IsFiniteSet({b} \X (1 .. r[b].size))
  <2>1. r[b].size \in Nat
    BY DEF Row
  <2>2. IsFiniteSet(1 .. r[b].size)
    BY <2>1, FS_Interval
  <2> QED  BY <2>2, FS_Singleton, FS_Product
<1>5. IsFiniteSet(UNION pieces)
  BY <1>3, <1>4, FS_UNION
<1> QED  BY <1>5, FS_CardinalityType DEF Bytes

\* Rows that no longer count can only free bytes.
LEMMA BytesShrink ==
    ASSUME NEW r \in [Backup -> Row], NEW s \in [Backup -> Row],
           NEW S \in SUBSET Backup, NEW T \in SUBSET S,
           \A b \in T : s[b].size = r[b].size
    PROVE  Cardinality(Bytes(s, T)) <= Cardinality(Bytes(r, S))
<1>1. Bytes(s, T) \subseteq Bytes(r, S)
  BY DEF Bytes
<1> QED  BY <1>1, BytesFinite, FS_Subset

\* A row that starts to count adds its size.
LEMMA BytesGrow ==
    ASSUME NEW r \in [Backup -> Row], NEW s \in [Backup -> Row],
           NEW S \in SUBSET Backup, NEW b \in Backup, b \notin S,
           \A x \in S : s[x].size = r[x].size
    PROVE  Cardinality(Bytes(s, S \cup {b}))
             = Cardinality(Bytes(r, S)) + s[b].size
<1> DEFINE new == {b} \X (1 .. s[b].size)
<1>1. s[b].size \in Nat
  BY DEF Row
<1>2. IsFiniteSet(1 .. s[b].size) /\ Cardinality(1 .. s[b].size) = s[b].size
  <2>1. PICK n \in Nat : n = s[b].size
    BY <1>1
  <2>2. IsFiniteSet(1 .. n) /\ Cardinality(1 .. n) = n
    <3>1. /\ IsFiniteSet(1 .. n)
          /\ Cardinality(1 .. n) = IF 1 > n THEN 0 ELSE n - 1 + 1
      BY FS_Interval
    <3> QED  BY <3>1
  <2> QED  BY <2>1, <2>2
<1>3. IsFiniteSet({b}) /\ Cardinality({b}) = 1
  BY FS_Singleton
<1>4. IsFiniteSet(new) /\ Cardinality(new) = s[b].size
  <2>1. /\ IsFiniteSet(new)
        /\ Cardinality(new) = Cardinality({b}) * Cardinality(1 .. s[b].size)
    BY <1>2, <1>3, FS_Product
  <2> QED  BY <1>1, <1>2, <1>3, <2>1
<1>5. Bytes(s, S \cup {b}) = Bytes(r, S) \cup new
  BY DEF Bytes
<1>6. Bytes(r, S) \cap new = {}
  <2>1. \A x \in new : x[1] = b
    OBVIOUS
  <2>2. \A x \in Bytes(r, S) : x[1] \in S
    BY DEF Bytes
  <2> QED  BY <2>1, <2>2
<1>7. IsFiniteSet(Bytes(r, S)) /\ Cardinality(Bytes(r, S)) \in Nat
  BY BytesFinite
<1>8. Cardinality(Bytes(r, S) \cup new)
        = Cardinality(Bytes(r, S)) + Cardinality(new)
          - Cardinality(Bytes(r, S) \cap new)
  BY <1>4, <1>7, FS_Union
<1>9. Cardinality(Bytes(r, S) \cap new) = 0
  BY <1>6, FS_EmptySet
<1>10. Cardinality(Bytes(s, S \cup {b})) = Cardinality(Bytes(r, S) \cup new)
  BY <1>5
<1> HIDE DEF new
<1> QED  BY <1>1, <1>4, <1>7, <1>8, <1>9, <1>10

LEMMA UsedIsBytes ==
    /\ \A u \in User : Used(u) = Cardinality(Bytes(rows, Counted(u)))
    /\ \A u \in User : Used(u)' = Cardinality(Bytes(rows', Counted(u)'))
  BY DEF Used, UsedBytes, Bytes

LEMMA UsedType == TypeOK => \A u \in User : Used(u) \in Nat
  BY UsedIsBytes, BytesFinite DEF TypeOK, Counted

LEMMA UsedTypeNext == TypeOK' => \A u \in User : Used(u)' \in Nat
<1>1. (TypeOK => \A u \in User : Used(u) \in Nat)'
  BY UsedType, PTL
<1> QED  BY <1>1

-----------------------------------------------------------------------------
(* What a step can do to the rows that count, and to the quotas.           *)

\* No row starts to count, and one that counts keeps its owner and its size.
NoGain == \A b \in Backup :
    rows'[b].status = "COMPLETED" =>
        /\ rows[b].status = "COMPLETED"
        /\ rows'[b].owner = rows[b].owner
        /\ rows'[b].size = rows[b].size

LEMMA NoGainShrinks ==
    ASSUME TypeOK, TypeOK', NoGain
    PROVE  \A u \in User : Used(u)' <= Used(u)
<1> TAKE u \in User
<1>1. Counted(u)' \subseteq Counted(u)
  BY DEF NoGain, Counted
<1>2. Counted(u) \subseteq Backup
  BY DEF Counted
<1>3. \A b \in Counted(u)' : rows'[b].size = rows[b].size
  BY DEF NoGain, Counted
<1>4. Cardinality(Bytes(rows', Counted(u)'))
        <= Cardinality(Bytes(rows, Counted(u)))
  BY <1>1, <1>2, <1>3, BytesShrink DEF TypeOK
<1> QED  BY <1>4, UsedIsBytes

\* Only markCompleted makes a row count.
LEMMA OnlyCompletionGains ==
    TypeInv /\ [Next]_vars /\ ~markCompleted => NoGain
<1> SUFFICES ASSUME TypeInv, [Next]_vars, ~markCompleted PROVE NoGain
  OBVIOUS
<1> USE DEF TypeInv, TypeOK, files, accounts, requests

<1>1. ASSUME NEW u \in User, NEW q \in Quotas, setUserQuota(u, q)
    PROVE NoGain
  BY <1>1 DEF setUserQuota, NoGain
<1>2. ASSUME NEW q \in Req, NEW c \in Conn, beginTrigger(q, c) PROVE NoGain
  BY <1>2 DEF beginTrigger, NoGain
<1>3. ASSUME NEW q \in Req, NEW b \in Backup, createRow(q, b) PROVE NoGain
  <2>1. CASE req[q].c \in conns
    <3>1. rows'[b] = [NoRow EXCEPT !.status = "PENDING", !.conn = req[q].c,
                                   !.owner = Owner[req[q].c]]
      BY <1>3, <2>1 DEF createRow
    <3>2. rows'[b].status = "PENDING"
      BY <3>1 DEF NoRow
    <3>3. \A x \in Backup \ {b} : rows'[x] = rows[x]
      BY <1>3, <2>1 DEF createRow
    <3> QED  BY <3>2, <3>3 DEF NoGain
  <2>2. CASE req[q].c \notin conns
    BY <1>3, <2>2 DEF createRow, NoGain
  <2> QED  BY <2>1, <2>2
<1>4. ASSUME NEW q \in Req, addBackupJob(q) PROVE NoGain
  BY <1>4 DEF addBackupJob, NoGain
<1>5. ASSUME NEW q \in Req, NEW b \in Backup, deleteBackup(q, b)
    PROVE NoGain
  BY <1>5 DEF deleteBackup, NoGain
<1>6. ASSUME NEW q \in Req, NEW c \in Conn, NEW d \in BOOLEAN, deleteConnection(q, c, d)
    PROVE NoGain
  BY <1>6 DEF deleteConnection, NoGain
<1>7. ASSUME NEW q \in Req, deleteBackupArtifact(q) PROVE NoGain
  BY <1>7 DEF deleteBackupArtifact, NoGain
<1>8. ASSUME NEW q \in Req, deleteRow(q) PROVE NoGain
  BY <1>8 DEF deleteRow, NoGain, NoRow, Row
<1>9. ASSUME NEW q \in Req, deleteConnRow(q) PROVE NoGain
  BY <1>9 DEF deleteConnRow, NoGain, Row
<1>10. ASSUME NEW b \in Backup, pickJob(b) PROVE NoGain
  BY <1>10 DEF pickJob, NoGain
<1>11. CASE decryptConn
  BY <1>11 DEF decryptConn, NoGain
<1>12. CASE startRow
  BY <1>12 DEF startRow, NoGain, Row
<1>13. ASSUME NEW size \in Sizes, engineBackup(size) PROVE NoGain
  BY <1>13 DEF engineBackup, NoGain
<1>14. CASE engineBackupFails
  BY <1>14 DEF engineBackupFails, NoGain
<1>15. CASE checkQuota
  BY <1>15 DEF checkQuota, NoGain
<1>16. CASE keepPlaintext
  BY <1>16 DEF keepPlaintext, NoGain
<1>17. ASSUME NEW form \in {"enc", "bad"}, encryptBackupFile(form)
    PROVE NoGain
  BY <1>17 DEF encryptBackupFile, NoGain
<1>18. CASE acceptEncrypted
  BY <1>18 DEF acceptEncrypted, NoGain
<1>19. CASE rejectEncrypted
  BY <1>19 DEF rejectEncrypted, NoGain
<1>20. CASE encryptionThrows
  BY <1>20 DEF encryptionThrows, NoGain
<1>21. CASE uploadNothing
  BY <1>21 DEF uploadNothing, NoGain
<1>22. ASSUME NEW d \in BOOLEAN, uploadBackupFile(d) PROVE NoGain
  BY <1>22 DEF uploadBackupFile, NoGain
<1>23. CASE markCompleted
  BY <1>23
<1>24. CASE afterCompletionThrows
  BY <1>24 DEF afterCompletionThrows, NoGain
<1>25. CASE markFailed
  BY <1>25 DEF markFailed, NoGain, Row
<1>26. CASE jobCompleted
  BY <1>26 DEF jobCompleted, finishJob, NoGain
<1>27. CASE jobFailed
  BY <1>27 DEF jobFailed, finishJob, NoGain
<1>28. ASSUME NEW b \in Backup, recoverStalled(b) PROVE NoGain
  BY <1>28 DEF recoverStalled, moveStalled, NoGain
<1>29. ASSUME NEW b \in Backup, loseLock(b) PROVE NoGain
  BY <1>29 DEF loseLock, moveStalled, NoGain
<1>30. CASE crash
  BY <1>30 DEF crash, NoGain
<1>31. CASE UNCHANGED vars
  BY <1>31 DEF vars, NoGain
<1> QED  BY <1>1, <1>2, <1>3, <1>4, <1>5, <1>6, <1>7, <1>8, <1>9, <1>10,
   <1>11, <1>12, <1>13, <1>14, <1>15, <1>16, <1>17, <1>18, <1>19, <1>20,
   <1>21, <1>22, <1>23, <1>24, <1>25, <1>26, <1>27, <1>28, <1>29, <1>30,
   <1>31 DEF Next, worker, request, triggerBackup, scheduledBackup

\* Ceilings never fall.
CeilingRises == \A u \in User :
    ceiling'[u] # Unlimited => ceiling[u] # Unlimited /\ ceiling[u] <= ceiling'[u]

\* Setting a quota raises the ceiling with it; nothing else touches either.
LEMMA CeilingStep ==
    TypeInv /\ QuotaUnderCeiling /\ [Next]_vars
        => CeilingRises /\ QuotaUnderCeiling'
<1> SUFFICES ASSUME TypeInv, QuotaUnderCeiling, [Next]_vars
             PROVE  CeilingRises /\ QuotaUnderCeiling'
  OBVIOUS
<1> USE QuotasAssumption
<1> USE DEF TypeInv, TypeOK, files, accounts, requests

<1>1. ASSUME NEW u \in User, NEW q \in Quotas, setUserQuota(u, q)
    PROVE CeilingRises /\ QuotaUnderCeiling'
  <2>1. \A v \in User : /\ ceiling'[v] = IF v = u THEN Higher(ceiling[u], q)
                                        ELSE ceiling[v]
                        /\ quota'[v] = IF v = u THEN q ELSE quota[v]
    BY <1>1 DEF setUserQuota
  <2>2. /\ ceiling[u] \in Nat \cup {Unlimited}
        /\ q \in Nat \cup {Unlimited}
    OBVIOUS
  <2>3. Higher(ceiling[u], q) # Unlimited =>
           /\ ceiling[u] # Unlimited /\ q # Unlimited
           /\ ceiling[u] <= Higher(ceiling[u], q)
           /\ q <= Higher(ceiling[u], q)
    BY <2>2 DEF Higher
  <2>4. CeilingRises
    BY <2>1, <2>3 DEF CeilingRises
  <2>5. QuotaUnderCeiling'
    BY <2>1, <2>3 DEF QuotaUnderCeiling
  <2> QED  BY <2>4, <2>5
<1>2. ASSUME NEW q \in Req, NEW c \in Conn, beginTrigger(q, c)
    PROVE CeilingRises /\ QuotaUnderCeiling'
  BY <1>2 DEF beginTrigger, CeilingRises, QuotaUnderCeiling
<1>3. ASSUME NEW q \in Req, NEW b \in Backup, createRow(q, b)
    PROVE CeilingRises /\ QuotaUnderCeiling'
  BY <1>3 DEF createRow, CeilingRises, QuotaUnderCeiling
<1>4. ASSUME NEW q \in Req, addBackupJob(q)
    PROVE CeilingRises /\ QuotaUnderCeiling'
  BY <1>4 DEF addBackupJob, CeilingRises, QuotaUnderCeiling
<1>5. ASSUME NEW q \in Req, NEW b \in Backup, deleteBackup(q, b)
    PROVE CeilingRises /\ QuotaUnderCeiling'
  BY <1>5 DEF deleteBackup, CeilingRises, QuotaUnderCeiling
<1>6. ASSUME NEW q \in Req, NEW c \in Conn, NEW d \in BOOLEAN, deleteConnection(q, c, d)
    PROVE CeilingRises /\ QuotaUnderCeiling'
  BY <1>6 DEF deleteConnection, CeilingRises, QuotaUnderCeiling
<1>7. ASSUME NEW q \in Req, deleteBackupArtifact(q)
    PROVE CeilingRises /\ QuotaUnderCeiling'
  BY <1>7 DEF deleteBackupArtifact, CeilingRises, QuotaUnderCeiling
<1>8. ASSUME NEW q \in Req, deleteRow(q)
    PROVE CeilingRises /\ QuotaUnderCeiling'
  BY <1>8 DEF deleteRow, CeilingRises, QuotaUnderCeiling
<1>9. ASSUME NEW q \in Req, deleteConnRow(q)
    PROVE CeilingRises /\ QuotaUnderCeiling'
  BY <1>9 DEF deleteConnRow, CeilingRises, QuotaUnderCeiling
<1>10. ASSUME NEW b \in Backup, pickJob(b)
    PROVE CeilingRises /\ QuotaUnderCeiling'
  BY <1>10 DEF pickJob, CeilingRises, QuotaUnderCeiling
<1>11. CASE decryptConn
  BY <1>11 DEF decryptConn, CeilingRises, QuotaUnderCeiling
<1>12. CASE startRow
  BY <1>12 DEF startRow, CeilingRises, QuotaUnderCeiling
<1>13. ASSUME NEW size \in Sizes, engineBackup(size)
    PROVE CeilingRises /\ QuotaUnderCeiling'
  BY <1>13 DEF engineBackup, CeilingRises, QuotaUnderCeiling
<1>14. CASE engineBackupFails
  BY <1>14 DEF engineBackupFails, CeilingRises, QuotaUnderCeiling
<1>15. CASE checkQuota
  BY <1>15 DEF checkQuota, CeilingRises, QuotaUnderCeiling
<1>16. CASE keepPlaintext
  BY <1>16 DEF keepPlaintext, CeilingRises, QuotaUnderCeiling
<1>17. ASSUME NEW form \in {"enc", "bad"}, encryptBackupFile(form)
    PROVE CeilingRises /\ QuotaUnderCeiling'
  BY <1>17 DEF encryptBackupFile, CeilingRises, QuotaUnderCeiling
<1>18. CASE acceptEncrypted
  BY <1>18 DEF acceptEncrypted, CeilingRises, QuotaUnderCeiling
<1>19. CASE rejectEncrypted
  BY <1>19 DEF rejectEncrypted, CeilingRises, QuotaUnderCeiling
<1>20. CASE encryptionThrows
  BY <1>20 DEF encryptionThrows, CeilingRises, QuotaUnderCeiling
<1>21. CASE uploadNothing
  BY <1>21 DEF uploadNothing, CeilingRises, QuotaUnderCeiling
<1>22. ASSUME NEW d \in BOOLEAN, uploadBackupFile(d)
    PROVE CeilingRises /\ QuotaUnderCeiling'
  BY <1>22 DEF uploadBackupFile, CeilingRises, QuotaUnderCeiling
<1>23. CASE markCompleted
  BY <1>23 DEF markCompleted, CeilingRises, QuotaUnderCeiling
<1>24. CASE afterCompletionThrows
  BY <1>24 DEF afterCompletionThrows, CeilingRises, QuotaUnderCeiling
<1>25. CASE markFailed
  BY <1>25 DEF markFailed, CeilingRises, QuotaUnderCeiling
<1>26. CASE jobCompleted
  BY <1>26 DEF jobCompleted, finishJob, CeilingRises, QuotaUnderCeiling
<1>27. CASE jobFailed
  BY <1>27 DEF jobFailed, finishJob, CeilingRises, QuotaUnderCeiling
<1>28. ASSUME NEW b \in Backup, recoverStalled(b)
    PROVE CeilingRises /\ QuotaUnderCeiling'
  BY <1>28 DEF recoverStalled, moveStalled, CeilingRises, QuotaUnderCeiling
<1>29. ASSUME NEW b \in Backup, loseLock(b)
    PROVE CeilingRises /\ QuotaUnderCeiling'
  BY <1>29 DEF loseLock, moveStalled, CeilingRises, QuotaUnderCeiling
<1>30. CASE crash
  BY <1>30 DEF crash, CeilingRises, QuotaUnderCeiling
<1>31. CASE UNCHANGED vars
  BY <1>31 DEF vars, CeilingRises, QuotaUnderCeiling
<1> QED  BY <1>1, <1>2, <1>3, <1>4, <1>5, <1>6, <1>7, <1>8, <1>9, <1>10,
   <1>11, <1>12, <1>13, <1>14, <1>15, <1>16, <1>17, <1>18, <1>19, <1>20,
   <1>21, <1>22, <1>23, <1>24, <1>25, <1>26, <1>27, <1>28, <1>29, <1>30,
   <1>31 DEF Next, worker, request, triggerBackup, scheduledBackup

\* A row in production stays RUNNING and keeps its owner, or is deleted.
LEMMA RunningStep == TypeInv /\ RunningRow /\ [Next]_vars => RunningRow'
<1> SUFFICES ASSUME TypeInv, RunningRow, [Next]_vars PROVE RunningRow'
  OBVIOUS
<1> USE DEF TypeInv, TypeOK, files, accounts, requests

<1>1. ASSUME NEW u \in User, NEW q \in Quotas, setUserQuota(u, q)
    PROVE RunningRow'
  BY <1>1 DEF setUserQuota, RunningRow, Producing, Holding
<1>2. ASSUME NEW q \in Req, NEW c \in Conn, beginTrigger(q, c)
    PROVE RunningRow'
  BY <1>2 DEF beginTrigger, RunningRow, Producing, Holding
<1>3. ASSUME NEW q \in Req, NEW b \in Backup, createRow(q, b)
    PROVE RunningRow'
  BY <1>3 DEF createRow, RunningRow, Producing, Holding, Row, NoRow, Exists,
     RunOK
<1>4. ASSUME NEW q \in Req, addBackupJob(q) PROVE RunningRow'
  BY <1>4 DEF addBackupJob, RunningRow, Producing, Holding
<1>5. ASSUME NEW q \in Req, NEW b \in Backup, deleteBackup(q, b)
    PROVE RunningRow'
  BY <1>5 DEF deleteBackup, RunningRow, Producing, Holding
<1>6. ASSUME NEW q \in Req, NEW c \in Conn, NEW d \in BOOLEAN, deleteConnection(q, c, d)
    PROVE RunningRow'
  BY <1>6 DEF deleteConnection, RunningRow, Producing, Holding
<1>7. ASSUME NEW q \in Req, deleteBackupArtifact(q) PROVE RunningRow'
  BY <1>7 DEF deleteBackupArtifact, RunningRow, Producing, Holding
<1>8. ASSUME NEW q \in Req, deleteRow(q) PROVE RunningRow'
  BY <1>8 DEF deleteRow, RunningRow, Producing, Holding, Row, NoRow, Exists,
     RunOK
<1>9. ASSUME NEW q \in Req, deleteConnRow(q) PROVE RunningRow'
  BY <1>9 DEF deleteConnRow, RunningRow, Producing, Holding, Row, NoRow,
     Exists, RunOK
<1>10. ASSUME NEW b \in Backup, pickJob(b) PROVE RunningRow'
  BY <1>10 DEF pickJob, RunningRow, Producing, Holding, Run, goto, RunOK,
     Idle
<1>11. CASE decryptConn
  BY <1>11 DEF decryptConn, RunningRow, Producing, Holding, Run, goto, RunOK
<1>12. CASE startRow
  <2>1. CASE Exists(run.b)
    <3>1. run.b \in Backup /\ rows[run.b] \in Row
      BY <1>12 DEF startRow, RunOK
    <3>2. rows'[run.b] = [rows[run.b] EXCEPT !.status = "RUNNING"]
      BY <1>12, <2>1, <3>1 DEF startRow
    <3>3. run'.b = run.b /\ run'.owner = rows[run.b].owner
      BY <1>12, <2>1 DEF startRow, Run
    <3> QED  BY <3>1, <3>2, <3>3 DEF RunningRow, Row
  <2>2. CASE ~Exists(run.b)
    BY <1>12, <2>2 DEF startRow, goto, RunningRow, Producing, Holding, Run
  <2> QED  BY <2>1, <2>2
<1>13. ASSUME NEW size \in Sizes, engineBackup(size) PROVE RunningRow'
  BY <1>13 DEF engineBackup, RunningRow, Producing, Holding, Run, goto, RunOK
<1>14. CASE engineBackupFails
  BY <1>14 DEF engineBackupFails, RunningRow, Producing, Holding, Run, goto,
     RunOK
<1>15. CASE checkQuota
  BY <1>15 DEF checkQuota, RunningRow, Producing, Holding, Run, goto, RunOK
<1>16. CASE keepPlaintext
  BY <1>16 DEF keepPlaintext, RunningRow, Producing, Holding, Run, goto,
     RunOK
<1>17. ASSUME NEW form \in {"enc", "bad"}, encryptBackupFile(form)
    PROVE RunningRow'
  BY <1>17 DEF encryptBackupFile, RunningRow, Producing, Holding, Run, goto,
     RunOK
<1>18. CASE acceptEncrypted
  BY <1>18 DEF acceptEncrypted, RunningRow, Producing, Holding, Run, goto,
     RunOK
<1>19. CASE rejectEncrypted
  BY <1>19 DEF rejectEncrypted, RunningRow, Producing, Holding, Run, goto,
     RunOK
<1>20. CASE encryptionThrows
  BY <1>20 DEF encryptionThrows, RunningRow, Producing, Holding, Run, goto,
     RunOK
<1>21. CASE uploadNothing
  BY <1>21 DEF uploadNothing, RunningRow, Producing, Holding, Run, goto,
     RunOK
<1>22. ASSUME NEW d \in BOOLEAN, uploadBackupFile(d) PROVE RunningRow'
  BY <1>22 DEF uploadBackupFile, RunningRow, Producing, Holding, Run, goto,
     RunOK
<1>23. CASE markCompleted
  BY <1>23 DEF markCompleted, RunningRow, Producing, Holding, Run, goto,
     RunOK, Row, NoRow, Exists, RunOK
<1>24. CASE afterCompletionThrows
  BY <1>24 DEF afterCompletionThrows, RunningRow, Producing, Holding, Run,
     goto, RunOK
<1>25. CASE markFailed
  <2>1. run'.pc = "fail"
    BY <1>25 DEF markFailed, goto, Run
  <2> QED  BY <2>1 DEF RunningRow, Producing, Holding
<1>26. CASE jobCompleted
  BY <1>26 DEF jobCompleted, finishJob, RunningRow, Producing, Holding, Run,
     goto, RunOK, Idle
<1>27. CASE jobFailed
  BY <1>27 DEF jobFailed, finishJob, RunningRow, Producing, Holding, Run,
     goto, RunOK, Idle
<1>28. ASSUME NEW b \in Backup, recoverStalled(b) PROVE RunningRow'
  BY <1>28 DEF recoverStalled, moveStalled, RunningRow, Producing, Holding
<1>29. ASSUME NEW b \in Backup, loseLock(b) PROVE RunningRow'
  BY <1>29 DEF loseLock, moveStalled, RunningRow, Producing, Holding
<1>30. CASE crash
  BY <1>30 DEF crash, RunningRow, Producing, Holding, Run, goto, RunOK, Idle
<1>31. CASE UNCHANGED vars
  BY <1>31 DEF vars, RunningRow, Producing, Holding
<1> QED  BY <1>1, <1>2, <1>3, <1>4, <1>5, <1>6, <1>7, <1>8, <1>9, <1>10,
   <1>11, <1>12, <1>13, <1>14, <1>15, <1>16, <1>17, <1>18, <1>19, <1>20,
   <1>21, <1>22, <1>23, <1>24, <1>25, <1>26, <1>27, <1>28, <1>29, <1>30,
   <1>31 DEF Next, worker, request, triggerBackup, scheduledBackup

\* A dump is admitted by the quota check, and remembers its owner and size.
LEMMA AdmittedStep ==
    TypeInv /\ [Next]_vars /\ run'.pc \in Admitted =>
        \/ checkQuota /\ assertQuotaAllowsFile(run.owner, run.size)
           /\ run'.owner = run.owner /\ run'.size = run.size
        \/ /\ run.pc \in Admitted
           /\ run'.owner = run.owner
           /\ run'.size = run.size
<1> DEFINE Goal ==
        \/ checkQuota /\ assertQuotaAllowsFile(run.owner, run.size)
           /\ run'.owner = run.owner /\ run'.size = run.size
        \/ /\ run.pc \in Admitted
           /\ run'.owner = run.owner
           /\ run'.size = run.size
<1> SUFFICES ASSUME TypeInv, [Next]_vars, run'.pc \in Admitted PROVE Goal
  OBVIOUS
<1> USE DEF TypeInv, TypeOK, files, accounts, requests

<1>1. ASSUME NEW u \in User, NEW q \in Quotas, setUserQuota(u, q)
    PROVE Goal
  BY <1>1 DEF setUserQuota, Admitted, Holding
<1>2. ASSUME NEW q \in Req, NEW c \in Conn, beginTrigger(q, c) PROVE Goal
  BY <1>2 DEF beginTrigger, Admitted, Holding
<1>3. ASSUME NEW q \in Req, NEW b \in Backup, createRow(q, b) PROVE Goal
  BY <1>3 DEF createRow, Admitted, Holding
<1>4. ASSUME NEW q \in Req, addBackupJob(q) PROVE Goal
  BY <1>4 DEF addBackupJob, Admitted, Holding
<1>5. ASSUME NEW q \in Req, NEW b \in Backup, deleteBackup(q, b) PROVE Goal
  BY <1>5 DEF deleteBackup, Admitted, Holding
<1>6. ASSUME NEW q \in Req, NEW c \in Conn, NEW d \in BOOLEAN, deleteConnection(q, c, d)
    PROVE Goal
  BY <1>6 DEF deleteConnection, Admitted, Holding
<1>7. ASSUME NEW q \in Req, deleteBackupArtifact(q) PROVE Goal
  BY <1>7 DEF deleteBackupArtifact, Admitted, Holding
<1>8. ASSUME NEW q \in Req, deleteRow(q) PROVE Goal
  BY <1>8 DEF deleteRow, Admitted, Holding
<1>9. ASSUME NEW q \in Req, deleteConnRow(q) PROVE Goal
  BY <1>9 DEF deleteConnRow, Admitted, Holding
<1>10. ASSUME NEW b \in Backup, pickJob(b) PROVE Goal
  BY <1>10 DEF pickJob, Admitted, Holding, Run, goto, Idle
<1>11. CASE decryptConn
  BY <1>11 DEF decryptConn, Admitted, Holding, Run, goto
<1>12. CASE startRow
  BY <1>12 DEF startRow, Admitted, Holding, Run, goto
<1>13. ASSUME NEW size \in Sizes, engineBackup(size) PROVE Goal
  BY <1>13 DEF engineBackup, Admitted, Holding, Run, goto
<1>14. CASE engineBackupFails
  BY <1>14 DEF engineBackupFails, Admitted, Holding, Run, goto
<1>15. CASE checkQuota
  <2>1. CASE assertQuotaAllowsFile(run.owner, run.size)
    <3>1. run'.owner = run.owner /\ run'.size = run.size
      BY <1>15, <2>1 DEF checkQuota, goto, Run
    <3> QED  BY <1>15, <2>1, <3>1
  <2>2. CASE ~assertQuotaAllowsFile(run.owner, run.size)
    <3>1. run'.pc = "catch"
      BY <1>15, <2>2 DEF checkQuota, Run
    <3> QED  BY <3>1 DEF Admitted, Holding
  <2> QED  BY <2>1, <2>2
<1>16. CASE keepPlaintext
  BY <1>16 DEF keepPlaintext, Admitted, Holding, Run, goto
<1>17. ASSUME NEW form \in {"enc", "bad"}, encryptBackupFile(form)
    PROVE Goal
  BY <1>17 DEF encryptBackupFile, Admitted, Holding, Run, goto
<1>18. CASE acceptEncrypted
  BY <1>18 DEF acceptEncrypted, Admitted, Holding, Run, goto
<1>19. CASE rejectEncrypted
  BY <1>19 DEF rejectEncrypted, Admitted, Holding, Run, goto
<1>20. CASE encryptionThrows
  BY <1>20 DEF encryptionThrows, Admitted, Holding, Run, goto
<1>21. CASE uploadNothing
  BY <1>21 DEF uploadNothing, Admitted, Holding, Run, goto
<1>22. ASSUME NEW d \in BOOLEAN, uploadBackupFile(d) PROVE Goal
  BY <1>22 DEF uploadBackupFile, Admitted, Holding, Run, goto
<1>23. CASE markCompleted
  BY <1>23 DEF markCompleted, Admitted, Holding, Run, goto
<1>24. CASE afterCompletionThrows
  BY <1>24 DEF afterCompletionThrows, Admitted, Holding, Run, goto
<1>25. CASE markFailed
  BY <1>25 DEF markFailed, Admitted, Holding, Run, goto
<1>26. CASE jobCompleted
  BY <1>26 DEF jobCompleted, finishJob, Admitted, Holding, Run, goto, Idle
<1>27. CASE jobFailed
  BY <1>27 DEF jobFailed, finishJob, Admitted, Holding, Run, goto, Idle
<1>28. ASSUME NEW b \in Backup, recoverStalled(b) PROVE Goal
  BY <1>28 DEF recoverStalled, moveStalled, Admitted, Holding
<1>29. ASSUME NEW b \in Backup, loseLock(b) PROVE Goal
  BY <1>29 DEF loseLock, moveStalled, Admitted, Holding
<1>30. CASE crash
  BY <1>30 DEF crash, Admitted, Holding, Run, goto, Idle
<1>31. CASE UNCHANGED vars
  BY <1>31 DEF vars, Admitted, Holding
<1> QED  BY <1>1, <1>2, <1>3, <1>4, <1>5, <1>6, <1>7, <1>8, <1>9, <1>10,
   <1>11, <1>12, <1>13, <1>14, <1>15, <1>16, <1>17, <1>18, <1>19, <1>20,
   <1>21, <1>22, <1>23, <1>24, <1>25, <1>26, <1>27, <1>28, <1>29, <1>30,
   <1>31 DEF Next, worker, request, triggerBackup, scheduledBackup

-----------------------------------------------------------------------------

LEMMA QuotaInit == Init => QuotaInv
<1> SUFFICES ASSUME Init PROVE QuotaInv
  OBVIOUS
<1>1. TypeInv
  BY TypeInit
<1>2. ASSUME NEW u \in User PROVE Used(u) = 0
  <2>1. Counted(u) = {}
    BY DEF Init, Counted, NoRow
  <2>2. UsedBytes(u) = {}
    BY <2>1 DEF UsedBytes
  <2> QED  BY <2>2, FS_EmptySet DEF Used
<1>3. UsedWithinQuota
  BY <1>1, <1>2 DEF TypeInv, TypeOK, UsedWithinQuota, Within
<1>4. QuotaUnderCeiling
  BY <1>1 DEF Init, QuotaUnderCeiling, TypeInv, TypeOK
<1>5. RunningRow /\ Reserved
  BY DEF Init, Idle, RunningRow, Reserved, Admitted, Producing, Holding
<1> QED  BY <1>1, <1>3, <1>4, <1>5 DEF QuotaInv

\* Marking a row COMPLETED counts it for its owner alone, and the room that
\* was kept for it is enough.
LEMMA CompletionFits ==
    ASSUME QuotaInv, TypeInv', markCompleted
    PROVE  UsedWithinQuota'
<1> USE DEF QuotaInv, TypeInv
<1>1. CASE ~Exists(run.b)
  <2>1. rows' = rows /\ ceiling' = ceiling
    BY <1>1 DEF markCompleted, requests, accounts
  <2>2. NoGain
    BY <2>1 DEF NoGain
  <2> QED
    BY <2>1, <2>2, NoGainShrinks, UsedType, UsedTypeNext
       DEF UsedWithinQuota, Within, TypeOK
<1>2. CASE Exists(run.b)
  <2>a. PICK b \in Backup, o \in User : run.b = b /\ run.owner = o
    BY DEF markCompleted, RunOK, Producing, Holding
  <2>1. /\ run.size \in Nat
        /\ rows[b].status = "RUNNING"
        /\ rows[b].owner = o
    BY <1>2, <2>a
       DEF markCompleted, RunningRow, Producing, Holding, Exists, TypeOK, Run
  <2>2. /\ rows'[b].status = "COMPLETED"
        /\ rows'[b].owner = o
        /\ rows'[b].size = run.size
        /\ \A x \in Backup \ {b} : rows'[x] = rows[x]
        /\ ceiling' = ceiling
    <3>1. rows[b] \in Row
      BY <2>a, <2>1 DEF TypeOK
    <3>2. rows'[b] = [rows[b] EXCEPT !.status = "COMPLETED",
                                     !.path = run.file, !.key = run.key,
                                     !.size = run.size]
      BY <1>2, <2>a, <2>1 DEF markCompleted, TypeOK
    <3>3. \A x \in Backup \ {b} : rows'[x] = rows[x]
      BY <1>2, <2>a, <2>1 DEF markCompleted, TypeOK
    <3> QED
      BY <2>a, <2>1, <3>1, <3>2, <3>3 DEF markCompleted, requests, accounts, Row
  <2>3. ASSUME NEW u \in User, u # o
        PROVE  Within(Used(u)', ceiling'[u])
    <3>1. Counted(u)' = Counted(u) /\ Counted(u) \subseteq Backup
      BY <2>a, <2>1, <2>2, <2>3 DEF Counted
    <3>2. \A x \in Counted(u) : rows'[x].size = rows[x].size
      BY <2>a, <2>1, <2>2 DEF Counted
    <3>3. Used(u)' <= Used(u)
      BY <3>1, <3>2, BytesShrink, UsedIsBytes DEF TypeOK
    <3>4. Used(u) \in Nat /\ Used(u)' \in Nat
      BY UsedType, UsedTypeNext
    <3> QED
      BY <2>2, <3>3, <3>4 DEF UsedWithinQuota, Within, TypeOK
  <2>4. Within(Used(o)', ceiling'[o])
    <3>1. /\ Counted(o)' = Counted(o) \cup {b}
          /\ b \notin Counted(o)
          /\ Counted(o) \subseteq Backup
      <4>1. ASSUME NEW x \in Backup
            PROVE  x \in Counted(o)' <=> x \in Counted(o) \/ x = b
        BY <2>a, <2>1, <2>2 DEF Counted
      <4> QED  BY <2>a, <2>1, <4>1 DEF Counted
    <3>2. \A x \in Counted(o) : rows'[x].size = rows[x].size
      BY <2>a, <2>1, <2>2 DEF Counted
    <3>3. Used(o)' = Used(o) + run.size
      <4>1. Cardinality(Bytes(rows', Counted(o) \cup {b}))
              = Cardinality(Bytes(rows, Counted(o))) + rows'[b].size
        BY <2>a, <2>1, <3>1, <3>2, BytesGrow DEF TypeOK
      <4> QED  BY <2>a, <2>1, <2>2, <3>1, <4>1, UsedIsBytes
    <3>4. Within(Used(o) + run.size, ceiling[o])
      BY <2>a, <2>1 DEF markCompleted, Reserved, Admitted, Holding
    <3> QED  BY <2>2, <3>3, <3>4
  <2> QED  BY <2>3, <2>4 DEF UsedWithinQuota
<1> QED  BY <1>1, <1>2

LEMMA QuotaStep == QuotaInv /\ [Next]_vars => QuotaInv'
<1> SUFFICES ASSUME QuotaInv, [Next]_vars PROVE QuotaInv'
  OBVIOUS
<1>1. TypeInv'
  BY TypeStep DEF QuotaInv
<1>2. CeilingRises /\ QuotaUnderCeiling'
  BY CeilingStep DEF QuotaInv
<1>3. RunningRow'
  BY RunningStep DEF QuotaInv
<1>4. /\ \A u \in User : Used(u) \in Nat
      /\ \A u \in User : Used(u)' \in Nat
  BY <1>1, UsedType, UsedTypeNext DEF QuotaInv, TypeInv
<1>5. UsedWithinQuota'
  <2>1. CASE markCompleted
    BY <1>1, <2>1, CompletionFits
  <2>2. CASE ~markCompleted
    <3>1. NoGain
      BY <2>2, OnlyCompletionGains DEF QuotaInv
    <3>2. \A u \in User : Used(u)' <= Used(u)
      BY <1>1, <3>1, NoGainShrinks DEF QuotaInv, TypeInv
    <3> QED
      BY <1>1, <1>2, <1>4, <3>2
         DEF UsedWithinQuota, QuotaInv, TypeInv, TypeOK, Within, CeilingRises
  <2> QED  BY <2>1, <2>2
<1>6. Reserved'
  <2> SUFFICES ASSUME NEW u \in User, run'.pc \in Admitted, run'.owner = u
               PROVE  Within(Used(u)' + run'.size, ceiling'[u])
    BY DEF Reserved
  <2>1. ~markCompleted
    BY DEF markCompleted, goto, Admitted, Holding, QuotaInv, TypeInv, TypeOK,
           Run
  <2>2. Used(u)' <= Used(u)
    BY <1>1, <2>1, OnlyCompletionGains, NoGainShrinks DEF QuotaInv, TypeInv
  <2>3. /\ run'.size = run.size
        /\ run.size \in Nat
        /\ Within(Used(u) + run.size, ceiling[u])
    <3>1. CASE /\ checkQuota /\ assertQuotaAllowsFile(run.owner, run.size)
               /\ run'.owner = run.owner /\ run'.size = run.size
      BY <1>4, <3>1
         DEF assertQuotaAllowsFile, QuotaUnderCeiling, Within, QuotaInv,
             TypeInv, TypeOK, Run
    <3>2. CASE /\ run.pc \in Admitted
               /\ run'.owner = run.owner /\ run'.size = run.size
      BY <3>2 DEF Reserved, QuotaInv, TypeInv, TypeOK, Run
    <3> QED  BY <3>1, <3>2, AdmittedStep DEF QuotaInv
  <2> QED
    BY <1>1, <1>2, <1>4, <2>2, <2>3
       DEF CeilingRises, Within, QuotaInv, TypeInv, TypeOK
<1> QED  BY <1>1, <1>2, <1>3, <1>5, <1>6 DEF QuotaInv

\* The quota holds in every reachable state.
THEOREM QuotaRespected == Spec => []UsedWithinQuota
<1>1. Init => QuotaInv
  BY QuotaInit
<1>2. QuotaInv /\ [Next]_vars => QuotaInv'
  BY QuotaStep
<1>3. QuotaInv => UsedWithinQuota
  BY DEF QuotaInv
<1> QED  BY <1>1, <1>2, <1>3, PTL DEF Spec


-----------------------------------------------------------------------------
(* What the worker knows of its row when it gives its verdict.             *)

VerdictInv ==
    /\ run.pc = "after" => rows[run.b].status \in {"COMPLETED", "deleted"}
    /\ run.pc = "catch" =>
           rows[run.b].status \in {"RUNNING", "COMPLETED", "deleted"}
    /\ run.pc \in Holding => run.size \in Sizes

CatalogueInv == QuotaInv /\ VerdictInv

\* Only the worker changes the status of the row it works on, or a deletion.
LEMMA VerdictStep ==
    TypeInv /\ RunningRow /\ VerdictInv /\ [Next]_vars => VerdictInv'
<1> SUFFICES ASSUME TypeInv, RunningRow, VerdictInv, [Next]_vars
             PROVE  VerdictInv'
  OBVIOUS
<1> USE DEF TypeInv, TypeOK, files, accounts, requests

<1>1. ASSUME NEW u \in User, NEW q \in Quotas, setUserQuota(u, q) PROVE
   VerdictInv'
  BY <1>1 DEF setUserQuota, VerdictInv, Holding
<1>2. ASSUME NEW q \in Req, NEW c \in Conn, beginTrigger(q, c) PROVE
   VerdictInv'
  BY <1>2 DEF beginTrigger, VerdictInv, Holding
<1>3. ASSUME NEW q \in Req, NEW b \in Backup, createRow(q, b) PROVE
   VerdictInv'
  BY <1>3 DEF createRow, VerdictInv, Holding, Run, goto, RunOK, Row, NoRow,
     Exists
<1>4. ASSUME NEW q \in Req, addBackupJob(q) PROVE VerdictInv'
  BY <1>4 DEF addBackupJob, VerdictInv, Holding
<1>5. ASSUME NEW q \in Req, NEW b \in Backup, deleteBackup(q, b) PROVE
   VerdictInv'
  BY <1>5 DEF deleteBackup, VerdictInv, Holding
<1>6. ASSUME NEW q \in Req, NEW c \in Conn, NEW d \in BOOLEAN,
   deleteConnection(q, c, d) PROVE VerdictInv'
  BY <1>6 DEF deleteConnection, VerdictInv, Holding
<1>7. ASSUME NEW q \in Req, deleteBackupArtifact(q) PROVE VerdictInv'
  BY <1>7 DEF deleteBackupArtifact, VerdictInv, Holding
<1>8. ASSUME NEW q \in Req, deleteRow(q) PROVE VerdictInv'
  BY <1>8 DEF deleteRow, VerdictInv, Holding, Run, goto, RunOK, Row, NoRow,
     Exists
<1>9. ASSUME NEW q \in Req, deleteConnRow(q) PROVE VerdictInv'
  BY <1>9 DEF deleteConnRow, VerdictInv, Holding, Run, goto, RunOK, Row,
     NoRow, Exists
<1>10. ASSUME NEW b \in Backup, pickJob(b) PROVE VerdictInv'
  BY <1>10 DEF pickJob, Idle, VerdictInv, Holding, Run, goto, RunOK
<1>11. CASE decryptConn
  BY <1>11 DEF decryptConn, VerdictInv, Holding, Run, goto, RunOK
<1>12. CASE startRow
  <2>1. run'.pc \in {"dump", "fail"}
    BY <1>12 DEF startRow, goto, Run
  <2> QED  BY <2>1 DEF VerdictInv, Holding
<1>13. ASSUME NEW size \in Sizes, engineBackup(size) PROVE VerdictInv'
  BY <1>13 DEF engineBackup, VerdictInv, Holding, Run, goto, RunOK
<1>14. CASE engineBackupFails
  BY <1>14 DEF engineBackupFails, VerdictInv, Holding, Run, goto, RunOK,
     RunningRow, Producing
<1>15. CASE checkQuota
  BY <1>15 DEF checkQuota, VerdictInv, Holding, Run, goto, RunOK, RunningRow,
     Producing
<1>16. CASE keepPlaintext
  BY <1>16 DEF keepPlaintext, VerdictInv, Holding, Run, goto, RunOK
<1>17. ASSUME NEW form \in {"enc", "bad"}, encryptBackupFile(form) PROVE
   VerdictInv'
  BY <1>17 DEF encryptBackupFile, VerdictInv, Holding, Run, goto, RunOK
<1>18. CASE acceptEncrypted
  BY <1>18 DEF acceptEncrypted, VerdictInv, Holding, Run, goto, RunOK
<1>19. CASE rejectEncrypted
  BY <1>19 DEF rejectEncrypted, VerdictInv, Holding, Run, goto, RunOK,
     RunningRow, Producing
<1>20. CASE encryptionThrows
  BY <1>20 DEF encryptionThrows, VerdictInv, Holding, Run, goto, RunOK,
     RunningRow, Producing
<1>21. CASE uploadNothing
  BY <1>21 DEF uploadNothing, VerdictInv, Holding, Run, goto, RunOK
<1>22. ASSUME NEW d \in BOOLEAN, uploadBackupFile(d) PROVE VerdictInv'
  BY <1>22 DEF uploadBackupFile, VerdictInv, Holding, Run, goto, RunOK
<1>23. CASE markCompleted
  <2>1. /\ run.pc = "commit"
        /\ run.b \in Backup
        /\ rows[run.b] \in Row
        /\ rows[run.b].status \in {"RUNNING", "deleted"}
    BY <1>23 DEF markCompleted, RunOK, RunningRow, Producing, Holding
  <2>2. CASE Exists(run.b)
    <3>a. PICK b \in Backup : run.b = b
      BY <2>1
    <3>b. rows'[b] = [rows[b] EXCEPT !.status = "COMPLETED",
                                     !.path = run.file, !.key = run.key,
                                     !.size = run.size]
      BY <1>23, <2>2, <3>a DEF markCompleted
    <3>1. rows'[run.b].status = "COMPLETED"
      BY <2>1, <3>a, <3>b DEF Row
    <3>2. run'.pc = "after" /\ run'.b = run.b
      BY <1>23, <2>2 DEF markCompleted, goto, Run
    <3> QED  BY <3>1, <3>2 DEF VerdictInv, Holding
  <2>3. CASE ~Exists(run.b)
    <3>1. rows' = rows /\ run'.pc = "catch" /\ run'.b = run.b
      BY <1>23, <2>3 DEF markCompleted, goto, Run
    <3> QED  BY <2>1, <3>1 DEF VerdictInv, Holding
  <2> QED  BY <2>2, <2>3
<1>24. CASE afterCompletionThrows
  BY <1>24 DEF afterCompletionThrows, VerdictInv, Holding, Run, goto, RunOK
<1>25. CASE markFailed
  <2>1. run'.pc = "fail"
    BY <1>25 DEF markFailed, goto, Run
  <2> QED  BY <2>1 DEF VerdictInv, Holding
<1>26. CASE jobCompleted
  BY <1>26 DEF jobCompleted, finishJob, Idle, VerdictInv, Holding, Run, goto,
     RunOK
<1>27. CASE jobFailed
  BY <1>27 DEF jobFailed, finishJob, Idle, VerdictInv, Holding, Run, goto,
     RunOK
<1>28. ASSUME NEW b \in Backup, recoverStalled(b) PROVE VerdictInv'
  BY <1>28 DEF recoverStalled, moveStalled, VerdictInv, Holding
<1>29. ASSUME NEW b \in Backup, loseLock(b) PROVE VerdictInv'
  BY <1>29 DEF loseLock, moveStalled, VerdictInv, Holding
<1>30. CASE crash
  BY <1>30 DEF crash, Idle, VerdictInv, Holding, Run, goto, RunOK
<1>31. CASE UNCHANGED vars
  BY <1>31 DEF vars, VerdictInv, Holding
<1> QED  BY <1>1, <1>2, <1>3, <1>4, <1>5, <1>6, <1>7, <1>8, <1>9, <1>10,
   <1>11, <1>12, <1>13, <1>14, <1>15, <1>16, <1>17, <1>18, <1>19, <1>20,
   <1>21, <1>22, <1>23, <1>24, <1>25, <1>26, <1>27, <1>28, <1>29, <1>30,
   <1>31 DEF Next, worker, request, triggerBackup, scheduledBackup

-----------------------------------------------------------------------------
(* The few actions that the catalogue can see.                             *)

Quiet == UNCHANGED <<rows, ceiling>>

Changed ==
    \/ \E u \in User, q \in Quotas : setUserQuota(u, q)
    \/ \E q \in Req, b \in Backup : createRow(q, b)
    \/ \E q \in Req : deleteRow(q) \/ deleteConnRow(q)
    \/ startRow
    \/ markCompleted
    \/ markFailed

\* All other actions leave the rows and the ceilings alone.
LEMMA QuietOrChanged == [Next]_vars => Quiet \/ Changed
<1> SUFFICES ASSUME [Next]_vars PROVE Quiet \/ Changed
  OBVIOUS
<1> USE DEF files, accounts, requests

<1>1. ASSUME NEW u \in User, NEW q \in Quotas, setUserQuota(u, q) PROVE Quiet
   \/ Changed
  BY <1>1 DEF Changed
<1>2. ASSUME NEW q \in Req, NEW c \in Conn, beginTrigger(q, c) PROVE Quiet \/
   Changed
  BY <1>2 DEF beginTrigger, Quiet
<1>3. ASSUME NEW q \in Req, NEW b \in Backup, createRow(q, b) PROVE Quiet \/
   Changed
  BY <1>3 DEF Changed
<1>4. ASSUME NEW q \in Req, addBackupJob(q) PROVE Quiet \/ Changed
  BY <1>4 DEF addBackupJob, Quiet
<1>5. ASSUME NEW q \in Req, NEW b \in Backup, deleteBackup(q, b) PROVE Quiet
   \/ Changed
  BY <1>5 DEF deleteBackup, Quiet
<1>6. ASSUME NEW q \in Req, NEW c \in Conn, NEW d \in BOOLEAN,
   deleteConnection(q, c, d) PROVE Quiet \/ Changed
  BY <1>6 DEF deleteConnection, Quiet
<1>7. ASSUME NEW q \in Req, deleteBackupArtifact(q) PROVE Quiet \/ Changed
  BY <1>7 DEF deleteBackupArtifact, Quiet
<1>8. ASSUME NEW q \in Req, deleteRow(q) PROVE Quiet \/ Changed
  BY <1>8 DEF Changed
<1>9. ASSUME NEW q \in Req, deleteConnRow(q) PROVE Quiet \/ Changed
  BY <1>9 DEF Changed
<1>10. ASSUME NEW b \in Backup, pickJob(b) PROVE Quiet \/ Changed
  BY <1>10 DEF pickJob, Quiet
<1>11. CASE decryptConn
  BY <1>11 DEF decryptConn, Quiet
<1>12. CASE startRow
  BY <1>12 DEF Changed
<1>13. ASSUME NEW size \in Sizes, engineBackup(size) PROVE Quiet \/ Changed
  BY <1>13 DEF engineBackup, Quiet
<1>14. CASE engineBackupFails
  BY <1>14 DEF engineBackupFails, Quiet
<1>15. CASE checkQuota
  BY <1>15 DEF checkQuota, Quiet
<1>16. CASE keepPlaintext
  BY <1>16 DEF keepPlaintext, Quiet
<1>17. ASSUME NEW form \in {"enc", "bad"}, encryptBackupFile(form) PROVE
   Quiet \/ Changed
  BY <1>17 DEF encryptBackupFile, Quiet
<1>18. CASE acceptEncrypted
  BY <1>18 DEF acceptEncrypted, Quiet
<1>19. CASE rejectEncrypted
  BY <1>19 DEF rejectEncrypted, Quiet
<1>20. CASE encryptionThrows
  BY <1>20 DEF encryptionThrows, Quiet
<1>21. CASE uploadNothing
  BY <1>21 DEF uploadNothing, Quiet
<1>22. ASSUME NEW d \in BOOLEAN, uploadBackupFile(d) PROVE Quiet \/ Changed
  BY <1>22 DEF uploadBackupFile, Quiet
<1>23. CASE markCompleted
  BY <1>23 DEF Changed
<1>24. CASE afterCompletionThrows
  BY <1>24 DEF afterCompletionThrows, Quiet
<1>25. CASE markFailed
  BY <1>25 DEF Changed
<1>26. CASE jobCompleted
  BY <1>26 DEF jobCompleted, finishJob, Quiet
<1>27. CASE jobFailed
  BY <1>27 DEF jobFailed, finishJob, Quiet
<1>28. ASSUME NEW b \in Backup, recoverStalled(b) PROVE Quiet \/ Changed
  BY <1>28 DEF recoverStalled, moveStalled, Quiet
<1>29. ASSUME NEW b \in Backup, loseLock(b) PROVE Quiet \/ Changed
  BY <1>29 DEF loseLock, moveStalled, Quiet
<1>30. CASE crash
  BY <1>30 DEF crash, Quiet
<1>31. CASE UNCHANGED vars
  BY <1>31 DEF vars, Quiet
<1> QED  BY <1>1, <1>2, <1>3, <1>4, <1>5, <1>6, <1>7, <1>8, <1>9, <1>10,
   <1>11, <1>12, <1>13, <1>14, <1>15, <1>16, <1>17, <1>18, <1>19, <1>20,
   <1>21, <1>22, <1>23, <1>24, <1>25, <1>26, <1>27, <1>28, <1>29, <1>30,
   <1>31 DEF Next, worker, request, triggerBackup, scheduledBackup
-----------------------------------------------------------------------------
(* The refinement.                                                         *)

\* The instance has a copy of FiniteSets; it counts alike.
LEMMA SameCount ==
    ASSUME NEW S PROVE Catalogue!Cardinality(S) = Cardinality(S)
  BY Zenon DEF Catalogue!Cardinality, Cardinality

\* The rows as the catalogue shows them.
LEMMA Seen ==
    ASSUME TypeOK
    PROVE  /\ \A u \in User : Catalogue!Counted(u) = Counted(u)
           /\ \A u \in User : Catalogue!Used(u) = Used(u)
<1>1. ASSUME NEW u \in User PROVE Catalogue!Counted(u) = Counted(u)
  BY DEF Catalogue!Counted, Counted
<1>2. ASSUME NEW u \in User PROVE Catalogue!Used(u) = Used(u)
  <2>1. Counted(u) \subseteq Backup
    BY DEF Counted
  <2>2. ASSUME NEW S, S \subseteq Backup
        PROVE  {{b} \X (1 .. [x \in Backup |-> rows[x].size][b]) : b \in S}
                 = {{b} \X (1 .. rows[b].size) : b \in S}
    <3>1. \A b \in S : {b} \X (1 .. [x \in Backup |-> rows[x].size][b])
                        = {b} \X (1 .. rows[b].size)
      BY <2>2
    <3> QED  BY <3>1, Zenon
  <2> QED
    BY <1>1, <2>1, <2>2, SameCount, Zenon
       DEF Catalogue!Used, Used, UsedBytes
<1> QED  BY <1>1, <1>2

LEMMA InitRefines == Init => Catalogue!Init
  BY DEF Init, Catalogue!Init, NoRow

LEMMA QuietRefines == Quiet => UNCHANGED Catalogue!vars
  BY DEF Quiet, Catalogue!vars

\* The table after a row was given these fields.
Shown(b, st, o, n) ==
    /\ [x \in Backup |-> rows'[x].status]
         = [[x \in Backup |-> rows[x].status] EXCEPT ![b] = st]
    /\ [x \in Backup |-> rows'[x].owner]
         = [[x \in Backup |-> rows[x].owner] EXCEPT ![b] = o]
    /\ [x \in Backup |-> rows'[x].size]
         = [[x \in Backup |-> rows[x].size] EXCEPT ![b] = n]

\* Writing one row shows at its place and nowhere else.
LEMMA OneRow ==
    ASSUME NEW b \in Backup, NEW r,
           rows \in [Backup -> Row], rows' = [rows EXCEPT ![b] = r]
    PROVE  Shown(b, r.status, r.owner, r.size)
  BY DEF Shown

LEMMA VerdictInit == Init => VerdictInv
  BY DEF Init, VerdictInv, Idle, Holding

LEMMA InvStep == CatalogueInv /\ [Next]_vars => CatalogueInv'
  BY QuotaStep, VerdictStep DEF CatalogueInv, QuotaInv

\* Each of those actions is a step of the catalogue, or shows nothing.
LEMMA ChangeRefines ==
    ASSUME CatalogueInv, CatalogueInv', Changed
    PROVE  [Catalogue!Next]_(Catalogue!vars)
<1> USE DEF CatalogueInv, QuotaInv, TypeInv, TypeOK
<1>1. ASSUME NEW u \in User, NEW q \in Quotas, setUserQuota(u, q)
      PROVE  [Catalogue!Next]_(Catalogue!vars)
  <2>1. rows' = rows
    BY <1>1 DEF setUserQuota
  <2>2. CASE Higher(ceiling[u], q) = ceiling[u]
    <3>1. ceiling' = ceiling
      BY <1>1, <2>2 DEF setUserQuota
    <3> QED  BY <2>1, <3>1, QuietRefines DEF Quiet
  <2>3. CASE Higher(ceiling[u], q) # ceiling[u]
    <3>1. /\ Higher(ceiling[u], q) = q
          /\ ceiling[u] # Unlimited
          /\ q # Unlimited => ceiling[u] < q
      BY <2>3, QuotasAssumption DEF Higher
    <3>2. ceiling' = [ceiling EXCEPT ![u] = q]
      BY <1>1, <3>1 DEF setUserQuota
    <3>3. Catalogue!Raise(u, q)
      BY <2>1, <3>1, <3>2 DEF Catalogue!Raise
    <3> QED  BY <3>3 DEF Catalogue!Next
  <2> QED  BY <2>2, <2>3
<1>2. ASSUME NEW q \in Req, NEW b \in Backup, createRow(q, b)
      PROVE  [Catalogue!Next]_(Catalogue!vars)
  <2>1. CASE rows' = rows
    BY <1>2, <2>1, QuietRefines DEF createRow, Quiet, accounts
  <2>2. CASE rows' # rows
    <3>1. req[q].c \in conns /\ rows[b].status = "absent" /\ ceiling' = ceiling
      BY <1>2, <2>2 DEF createRow, accounts
    <3>2. PICK u \in User : u = Owner[req[q].c]
      BY <3>1, OwnerAssumption
    <3>3. PICK r : r = [NoRow EXCEPT !.status = "PENDING",
                                     !.conn = req[q].c, !.owner = u]
      OBVIOUS
    <3>4. rows' = [rows EXCEPT ![b] = r]
      BY <1>2, <3>1, <3>2, <3>3 DEF createRow
    <3>5. r.status = "PENDING" /\ r.owner = u /\ r.size = 0
      BY <3>3 DEF NoRow
    <3>6. Shown(b, "PENDING", u, 0)
      BY <3>4, <3>5, OneRow
    <3>7. Catalogue!Request(b, u)
      BY <3>1, <3>6 DEF Shown, Catalogue!Request
    <3> QED  BY <3>7 DEF Catalogue!Next
  <2> QED  BY <2>1, <2>2
<1>3. ASSUME NEW q \in Req, deleteRow(q)
      PROVE  [Catalogue!Next]_(Catalogue!vars)
  <2>1. CASE rows' = rows
    BY <1>3, <2>1, QuietRefines DEF deleteRow, Quiet, accounts
  <2>2. CASE rows' # rows
    <3>1. PICK b \in Backup : b = req[q].b
      BY <1>3 DEF deleteRow, ReqOK
    <3>2. Exists(b) /\ ceiling' = ceiling
      BY <1>3, <2>2, <3>1 DEF deleteRow, accounts
    <3>3. PICK r : r = [NoRow EXCEPT !.status = "deleted"]
      OBVIOUS
    <3>4. rows' = [rows EXCEPT ![b] = r]
      BY <1>3, <3>1, <3>2, <3>3 DEF deleteRow
    <3>5. r.status = "deleted" /\ r.owner = None /\ r.size = 0
      BY <3>1, <3>3 DEF NoRow
    <3>6. Shown(b, "deleted", None, 0)
      BY <3>4, <3>5, OneRow
    <3>7. Catalogue!Delete(b)
      BY <3>2, <3>6 DEF Shown, Catalogue!Delete, Exists
    <3> QED  BY <3>7 DEF Catalogue!Next
  <2> QED  BY <2>1, <2>2
<1>4. ASSUME NEW q \in Req, deleteConnRow(q)
      PROVE  [Catalogue!Next]_(Catalogue!vars)
  <2>1. \A b \in Backup : /\ rows'[b].status = rows[b].status
                          /\ rows'[b].owner = rows[b].owner
                          /\ rows'[b].size = rows[b].size
    BY <1>4 DEF deleteConnRow, Row
  <2>2. ceiling' = ceiling
    BY <1>4 DEF deleteConnRow
  <2> QED  BY <2>1, <2>2 DEF Catalogue!vars
<1>5. CASE startRow
  <2>1. CASE rows' = rows
    BY <1>5, <2>1, QuietRefines DEF startRow, Quiet, requests, accounts
  <2>2. CASE rows' # rows
    <3>1. PICK b \in Backup : b = run.b
      BY <1>5 DEF startRow, RunOK
    <3>2. Exists(b) /\ ceiling' = ceiling
      BY <1>5, <2>2, <3>1 DEF startRow, requests, accounts
    <3>3. PICK r : r = [rows[b] EXCEPT !.status = "RUNNING"]
      OBVIOUS
    <3>4. rows' = [rows EXCEPT ![b] = r]
      BY <1>5, <3>1, <3>2, <3>3 DEF startRow
    <3>5. r.status = "RUNNING" /\ r.owner = rows[b].owner /\ r.size = rows[b].size
      BY <3>1, <3>3 DEF Row
    <3>6. Shown(b, "RUNNING", rows[b].owner, rows[b].size)
      BY <3>4, <3>5, OneRow
    <3>7. Catalogue!Start(b)
      BY <3>2, <3>6 DEF Shown, Catalogue!Start, Exists
    <3> QED  BY <3>7 DEF Catalogue!Next
  <2> QED  BY <2>1, <2>2
<1>6. CASE markFailed
  <2>1. CASE rows' = rows
    BY <1>6, <2>1, QuietRefines DEF markFailed, Quiet, requests, accounts
  <2>2. CASE rows' # rows
    <3>1. PICK b \in Backup : b = run.b
      BY <1>6 DEF markFailed, RunOK
    <3>2. Exists(b) /\ ceiling' = ceiling
      BY <1>6, <2>2, <3>1 DEF markFailed, requests, accounts
    <3>3. PICK r : r = [rows[b] EXCEPT !.status = "FAILED"]
      OBVIOUS
    <3>4. rows' = [rows EXCEPT ![b] = r]
      BY <1>6, <3>1, <3>2, <3>3 DEF markFailed
    <3>5. r.status = "FAILED" /\ r.owner = rows[b].owner /\ r.size = rows[b].size
      BY <3>1, <3>3 DEF Row
    <3>6. Shown(b, "FAILED", rows[b].owner, rows[b].size)
      BY <3>4, <3>5, OneRow
    <3>7. rows[b].status \in {"RUNNING", "COMPLETED"}
      BY <1>6, <3>1, <3>2 DEF markFailed, VerdictInv, Exists
    <3>8. Catalogue!Fail(b)
      BY <3>2, <3>6, <3>7 DEF Shown, Catalogue!Fail
    <3> QED  BY <3>8 DEF Catalogue!Next
  <2> QED  BY <2>1, <2>2
<1>7. CASE markCompleted
  <2>1. CASE rows' = rows
    BY <1>7, <2>1, QuietRefines DEF markCompleted, Quiet, requests, accounts
  <2>2. CASE rows' # rows
    <3>1. PICK b \in Backup : b = run.b
      BY <1>7 DEF markCompleted, RunOK
    <3>2. Exists(b) /\ ceiling' = ceiling
      BY <1>7, <2>2, <3>1 DEF markCompleted, requests, accounts
    <3>3. PICK r : r = [rows[b] EXCEPT !.status = "COMPLETED",
                                       !.path = run.file, !.key = run.key,
                                       !.size = run.size]
      OBVIOUS
    <3>4. rows' = [rows EXCEPT ![b] = r]
      BY <1>7, <3>1, <3>2, <3>3 DEF markCompleted
    <3>5. r.status = "COMPLETED" /\ r.owner = rows[b].owner /\ r.size = run.size
      BY <3>1, <3>3 DEF Row
    <3>6. Shown(b, "COMPLETED", rows[b].owner, run.size)
      BY <3>4, <3>5, OneRow
    <3>7. PICK n \in Sizes : n = run.size
      BY <1>7 DEF markCompleted, VerdictInv, Holding
    <3>8. PICK u \in User : u = rows[b].owner
      BY <3>2, <3>1 DEF RowsOK
    <3>9. rows[b].status = "RUNNING" /\ run.owner = u
      BY <1>7, <3>1, <3>2, <3>8
         DEF markCompleted, RunningRow, Exists, Producing, Holding
    <3>10. Within(Used(u) + n, ceiling[u])
      BY <1>7, <3>7, <3>9 DEF markCompleted, Reserved, Admitted, Holding
    <3>11. Catalogue!Fits(u, n)
      BY <3>10, Seen DEF Catalogue!Fits, Within
    <3>12. Catalogue!Fits([x \in Backup |-> rows[x].owner][b], n)
      BY <3>8, <3>11
    <3>13. Catalogue!Complete(b, n)
      BY <3>2, <3>6, <3>7, <3>9, <3>12 DEF Shown, Catalogue!Complete
    <3> QED  BY <3>13 DEF Catalogue!Next
  <2> QED  BY <2>1, <2>2
<1> QED  BY <1>1, <1>2, <1>3, <1>4, <1>5, <1>6, <1>7 DEF Changed

\* BackupPipeline implements BackupCatalogue, for any number of backups,
\* requests, attempts and faults: what the table shows never betrays the
\* retries, lost locks, crashes and races behind it.
THEOREM PipelineImplementsCatalogue == Spec => ImplementsCatalogue
<1>1. Init => CatalogueInv /\ Catalogue!Init
  BY QuotaInit, VerdictInit, InitRefines DEF CatalogueInv
<1>2. CatalogueInv /\ [Next]_vars => CatalogueInv'
  BY InvStep
<1>3. CatalogueInv /\ CatalogueInv' /\ [Next]_vars
        => [Catalogue!Next]_(Catalogue!vars)
  BY QuietOrChanged, QuietRefines, ChangeRefines
<1> QED
  BY <1>1, <1>2, <1>3, PTL DEF Spec, ImplementsCatalogue, Catalogue!Spec

=============================================================================
