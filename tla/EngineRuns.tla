------------------------------ MODULE EngineRuns ------------------------------
(***************************************************************************)
(* One operation of a database engine: a dump or a restore by a client        *)
(* program, started behind an SSH tunnel with its secrets in private files.    *)
(* The program, the streams between it and a file and the promise that         *)
(* reports the outcome end in any order.                                    *)
(***************************************************************************)
EXTENDS Naturals, FiniteSets

\* pipe: a dump whose output this process writes to the file (dumpToFile);
\* direct: one that writes its own file (pg_dump -f); cli: the same under a
\* time limit (mongodump, redis-cli);
\* feed: a restore that is sent the file (mysql); lenient: one whose program
\* goes on after errors (psql); reads: one that reads the file (pg_restore).
Kinds == {"pipe", "direct", "cli", "feed", "lenient", "reads"}

CONSTANTS EngineKinds       \* the operations to start

ASSUME EngineRunsAssumption == EngineKinds \subseteq Kinds

VARIABLES
    engineKind,
    tunnel,         \* BOOLEAN: open
    private,        \* BOOLEAN: credential files exist
    child,          \* "none", "running", "ok" and "failed" once it is gone
    faulty,         \* BOOLEAN: the program met an error in what it reads or dumps
    stream,         \* between program and file: "none", "open", "done", "failed"
    file,           \* the dump: "none", "partial", "whole"
    applied,        \* of a restore: "none", "some", "all"
    promise,        \* "none", "pending", "resolved", "rejected"
    outcome         \* of the operation: "none", "ok", "failed"

engineVars == <<engineKind, tunnel, private, child, faulty, stream, file, applied,
                promise, outcome>>
around == <<engineKind, tunnel, private, outcome>>

EngineTypeOK ==
    /\ engineKind \in Kinds /\ tunnel \in BOOLEAN /\ private \in BOOLEAN /\ faulty \in BOOLEAN
    /\ child \in {"none", "running", "ok", "failed"}
    /\ stream \in {"none", "open", "done", "failed"}
    /\ file \in {"none", "partial", "whole"} /\ applied \in {"none", "some", "all"}
    /\ promise \in {"none", "pending", "resolved", "rejected"}
    /\ outcome \in {"none", "ok", "failed"}

EngineInit ==
    /\ engineKind \in EngineKinds /\ tunnel = FALSE /\ private = FALSE /\ child = "none"
    /\ faulty = FALSE /\ stream = "none" /\ file = "none" /\ applied = "none"
    /\ promise = "none" /\ outcome = "none"

writesItself == engineKind \in {"direct", "cli"}
streamed == engineKind \in {"pipe", "feed", "lenient"}

\* Secrets that stay off the command line; the tunnel is opened if there is one
\* to open, and a server that cannot be reached ends the operation.
prepare ==
    /\ promise = "none" /\ outcome = "none" /\ ~private
    /\ private' = TRUE
    /\ \/ tunnel' \in BOOLEAN /\ promise' = "pending"
       \/ UNCHANGED tunnel /\ promise' = "rejected"
    /\ UNCHANGED <<engineKind, child, faulty, stream, file, applied, outcome>>

\* A program that is not installed is an error event.
spawn ==
    /\ promise = "pending" /\ child = "none"
    /\ child' \in {"running", "failed"}
    /\ stream' = IF ~streamed THEN "none"
                 ELSE IF child' = "failed" /\ engineKind = "pipe" THEN "done" ELSE "open"
    /\ file' = IF engineKind = "pipe" \/ (writesItself /\ child' = "running")
               THEN "partial" ELSE "none"
    /\ promise' = IF child' = "failed" /\ engineKind # "pipe" THEN "rejected" ELSE "pending"
    /\ UNCHANGED <<around, faulty, applied>>

\* The program fails: a lost server, a dump or a file it cannot make sense of.
fault ==
    /\ child = "running" /\ ~faulty /\ faulty' = TRUE
    /\ applied' = IF engineKind \in {"feed", "lenient", "reads"} THEN "some" ELSE applied
    /\ UNCHANGED <<around, child, stream, file, promise>>

\* The time limit of runCli: the program is killed, and is gone a little later.
timeout ==
    /\ engineKind = "cli" /\ child = "running" /\ promise = "pending"
    /\ promise' = "rejected" /\ faulty' = TRUE
    /\ UNCHANGED <<around, child, stream, file, applied>>

\* The writing of the file ends with the program's output, or fails: a full
\* disk. A restore's file is sent to the end, or cannot be unpacked.
streamEnds ==
    /\ stream = "open" /\ (engineKind = "pipe" => child # "running")
    /\ stream' = "done"
    /\ file' = IF engineKind = "pipe" /\ child = "ok" THEN "whole" ELSE file
    /\ UNCHANGED <<around, child, faulty, applied, promise>>

streamFails ==
    /\ stream = "open" /\ stream' = "failed"
    /\ promise' = IF engineKind = "pipe" \/ promise # "pending" THEN promise ELSE "rejected"
    /\ faulty' = (faulty \/ (engineKind = "pipe" /\ child = "running"))
    /\ applied' = IF engineKind # "pipe" THEN "some" ELSE applied
    /\ UNCHANGED <<around, child, file>>

\* A program that is sent its input ends when the input does, or before; psql
\* without ON_ERROR_STOP succeeds whatever the statements did.
exit ==
    /\ child = "running"
    /\ engineKind \in {"feed", "lenient"} => (stream = "done" \/ (faulty /\ engineKind = "feed"))
    /\ child' = IF faulty /\ engineKind # "lenient" THEN "failed" ELSE "ok"
    /\ file' = IF writesItself /\ child' = "ok" THEN "whole" ELSE file
    /\ applied' = IF engineKind \in {"feed", "lenient", "reads"} /\ ~faulty THEN "all" ELSE applied
    /\ promise' = IF engineKind = "pipe" \/ promise # "pending" THEN promise
                  ELSE IF child' = "ok" THEN "resolved" ELSE "rejected"
    /\ UNCHANGED <<around, faulty, stream>>

\* Mutant: what was written of a failed dump stays.
keepPartial ==
    /\ engineKind = "pipe" /\ promise = "pending"
    /\ child \in {"ok", "failed"} /\ stream \in {"done", "failed"}
    /\ promise' = IF child = "ok" /\ stream = "done" THEN "resolved" ELSE "rejected"
    /\ UNCHANGED <<around, child, faulty, stream, file, applied>>

\* The program's exit and the end of the file are both awaited, and the file of
\* a failed dump is removed.
dumpToFile ==
    /\ engineKind = "pipe" /\ promise = "pending"
    /\ child \in {"ok", "failed"} /\ stream \in {"done", "failed"}
    /\ promise' = IF child = "ok" /\ stream = "done" THEN "resolved" ELSE "rejected"
    /\ file' = IF promise' = "resolved" THEN file ELSE "none"
    /\ UNCHANGED <<around, child, faulty, stream, applied>>

\* Mutant: only a dump that succeeded closes its tunnel.
closeAfterSuccess ==
    /\ promise \in {"resolved", "rejected"} /\ outcome = "none"
    /\ tunnel' = (tunnel /\ promise = "rejected") /\ private' = FALSE
    /\ outcome' = IF promise = "resolved" THEN "ok" ELSE "failed"
    /\ UNCHANGED <<engineKind, child, faulty, stream, file, applied, promise>>

\* The finally block.
finish ==
    /\ promise \in {"resolved", "rejected"} /\ outcome = "none"
    /\ tunnel' = FALSE /\ private' = FALSE
    /\ outcome' = IF promise = "resolved" THEN "ok" ELSE "failed"
    /\ UNCHANGED <<engineKind, child, faulty, stream, file, applied, promise>>

EngineNext ==
    \/ prepare \/ spawn \/ fault \/ timeout \/ streamEnds \/ streamFails \/ exit
    \/ dumpToFile \/ finish

EngineSpec == EngineInit /\ [][EngineNext]_engineVars

-----------------------------------------------------------------------------

\* `a dump that failed at once ... the backup was marked successful with an empty
\* file' (dump-to-file.ts) does not happen: a dump that is reported done is whole
\* on disk, a restore whose program stops at errors was applied to the end, and
\* what dumpToFile reports failed has left no file.
OutcomeIsTrue ==
    /\ outcome = "ok" /\ engineKind \in {"pipe", "direct", "cli"} => file = "whole"
    /\ outcome = "ok" /\ engineKind \in {"feed", "reads"} => applied = "all"
    /\ outcome = "failed" /\ engineKind = "pipe" => file = "none"

\* Whatever failed, an operation that has ended holds no tunnel and no file with
\* secrets (mysql.engine.ts, postgresql.engine.ts: finally).
NothingHeld == outcome # "none" => ~tunnel /\ ~private
=============================================================================
