-------------------------- MODULE BackupCatalogue --------------------------
(***************************************************************************)
(* What the backup service promises to somebody who only looks at the      *)
(* table of backups: no queue, no worker, no files, no crashes.  A backup  *)
(* is requested, runs, completes or fails, perhaps several times, and is   *)
(* deleted for good; it completes only from RUNNING, and only if its       *)
(* owner's quota has room for it.                                          *)
(***************************************************************************)
EXTENDS Integers, FiniteSets

CONSTANTS Backup, User, Sizes, Quotas, Unlimited, None

VARIABLES
    status,    \* status[b]: Backup.status, or "absent", or "deleted"
    owner,     \* owner[b]: Backup.userId
    size,      \* size[b]: Backup.fileSize
    ceiling    \* ceiling[u]: the highest quota u has had

vars == <<status, owner, size, ceiling>>

-----------------------------------------------------------------------------
Counted(u) == {b \in Backup : owner[b] = u /\ status[b] = "COMPLETED"}
Used(u) == Cardinality(UNION {{b} \X (1 .. size[b]) : b \in Counted(u)})

Fits(u, n) == ceiling[u] # Unlimited => Used(u) + n <= ceiling[u]

Init ==
    /\ status = [b \in Backup |-> "absent"]
    /\ owner = [b \in Backup |-> None]
    /\ size = [b \in Backup |-> 0]
    /\ ceiling \in [User -> Quotas]

Request(b, u) ==
    /\ status[b] = "absent"
    /\ status' = [status EXCEPT ![b] = "PENDING"]
    /\ owner' = [owner EXCEPT ![b] = u]
    /\ size' = [size EXCEPT ![b] = 0]
    /\ UNCHANGED ceiling

\* The first time or again, after a failure or a stall.
Start(b) ==
    /\ status[b] \notin {"absent", "deleted"}
    /\ status' = [status EXCEPT ![b] = "RUNNING"]
    /\ UNCHANGED <<owner, size, ceiling>>

Complete(b, n) ==
    /\ status[b] = "RUNNING"
    /\ Fits(owner[b], n)
    /\ status' = [status EXCEPT ![b] = "COMPLETED"]
    /\ size' = [size EXCEPT ![b] = n]
    /\ UNCHANGED <<owner, ceiling>>

\* Also when something goes wrong right after completion.
Fail(b) ==
    /\ status[b] \in {"RUNNING", "COMPLETED"}
    /\ status' = [status EXCEPT ![b] = "FAILED"]
    /\ UNCHANGED <<owner, size, ceiling>>

Delete(b) ==
    /\ status[b] \notin {"absent", "deleted"}
    /\ status' = [status EXCEPT ![b] = "deleted"]
    /\ owner' = [owner EXCEPT ![b] = None]
    /\ size' = [size EXCEPT ![b] = 0]
    /\ UNCHANGED ceiling

\* A lower quota takes nothing away from what is stored already.
Raise(u, q) ==
    /\ ceiling[u] # Unlimited
    /\ q # Unlimited => ceiling[u] < q
    /\ ceiling' = [ceiling EXCEPT ![u] = q]
    /\ UNCHANGED <<status, owner, size>>

Next ==
    \/ \E b \in Backup : \/ \E u \in User : Request(b, u)
                         \/ Start(b)
                         \/ \E n \in Sizes : Complete(b, n)
                         \/ Fail(b)
                         \/ Delete(b)
    \/ \E u \in User, q \in Quotas : Raise(u, q)

Spec == Init /\ [][Next]_vars

=============================================================================
