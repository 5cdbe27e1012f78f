------------------------------- MODULE Export -------------------------------
(***************************************************************************)
(* One export of tables to an HTTP response: a snapshot of the database is   *)
(* read table by table, a batch of rows at a time, and written with back     *)
(* pressure, while the application goes on writing, the client may go away   *)
(* and the database connection may break.                                   *)
(***************************************************************************)
EXTENDS Naturals, Sequences, FiniteSets

CONSTANTS ExportTables,     \* the tables of the request, in order, no two equal
          ExportRow,
          BatchSize,
          MaxAppWrites      \* bound on what the application writes meanwhile

ExportTable == {ExportTables[i] : i \in DOMAIN ExportTables}

ASSUME ExportAssumption ==
    /\ ExportTables \in Seq(ExportTable) /\ Cardinality(ExportTable) = Len(ExportTables)
    /\ BatchSize \in Nat \ {0} /\ MaxAppWrites \in Nat

VARIABLES
    dialect,        \* "pg": a cursor, fetched; "mysql": rows that arrive one by one
    framed,         \* BOOLEAN: the format opens with something to write
    content,        \* of the database: table -> rows, in their order
    states,         \* history: the contents since the export began
    snapshot,       \* the content its transaction reads, <<>> before
    exporting,      \* step of the export
    nth,            \* index of the table it is at
    unread,         \* rows of that table still to read
    batch,          \* rows read and not written
    body,           \* of the response: table -> rows
    response,       \* [headers, stalled, end]
    holding         \* a database connection with a transaction, a tunnel

exportVars == <<dialect, framed, content, states, snapshot, exporting, nth, unread, batch,
                body, response, holding>>
choices == <<dialect, framed>>
database == <<content, states>>

\* What the database may hold at the start.
Contents == [ExportTable -> UNION {[1 .. n -> ExportRow] : n \in 0 .. Cardinality(ExportRow)}]

Rows == Seq(ExportRow)
Bodies == [ExportTable -> Rows]

ExportTypeOK ==
    /\ dialect \in {"pg", "mysql"} /\ framed \in BOOLEAN
    /\ content \in Bodies /\ body \in Bodies /\ \A c \in states : c \in Bodies
    /\ snapshot \in Bodies \cup {<<>>} /\ unread \in Rows
    /\ exporting \in {"connect", "begin", "table", "read", "write", "endTable", "failed",
                      "aborted", "done", "released"}
    /\ nth \in 1 .. Len(ExportTables) + 1 /\ holding \in BOOLEAN
    /\ response \in [headers : BOOLEAN, stalled : BOOLEAN,
                     end : {"open", "ended", "cut", "status", "gone"}]
    /\ batch \in Rows /\ Len(batch) <= BatchSize

ExportInit ==
    /\ dialect \in {"pg", "mysql"} /\ framed \in BOOLEAN
    /\ content \in {c \in Contents :
           \A r \in ExportRow :
               Cardinality({p \in ExportTable \X (1 .. Cardinality(ExportRow)) :
                                p[2] <= Len(c[p[1]]) /\ c[p[1]][p[2]] = r}) = 1}
    /\ states = {content} /\ snapshot = <<>>
    /\ exporting = "connect" /\ nth = 1 /\ unread = <<>> /\ batch = <<>>
    /\ body = [t \in ExportTable |-> <<>>]
    /\ response = [headers |-> FALSE, stalled |-> FALSE, end |-> "open"]
    /\ holding = FALSE

current == ExportTables[nth]

-----------------------------------------------------------------------------

\* A transaction of the application that moves a row to another table.
appWrite(t, u) ==
    /\ exporting \notin {"failed", "aborted", "done", "released"}
    /\ Cardinality(states) <= MaxAppWrites
    /\ t # u /\ content[t] # <<>>
    /\ content' = [content EXCEPT ![t] = Tail(@), ![u] = Append(@, Head(content[t]))]
    /\ states' = states \cup {content'}
    /\ UNCHANGED <<choices, snapshot, exporting, nth, unread, batch, body, response, holding>>

\* Output.write: nothing is written to a client that went away; a full buffer
\* stalls the export until it drains or the client goes.
canWrite == ~response.stalled
Written(full) == [response EXCEPT !.headers = TRUE, !.stalled = full]

\* Mutant: each table is read as it is when its turn comes.
exportWithoutTransaction ==
    /\ exporting = "connect"
    /\ snapshot' = <<>> /\ holding' = TRUE /\ exporting' = "begin"
    /\ UNCHANGED <<choices, database, nth, unread, batch, body, response>>

\* The table names are checked, a transaction gives all of them one snapshot.
beginSnapshot ==
    /\ exporting = "connect"
    /\ snapshot' = content /\ holding' = TRUE /\ exporting' = "begin"
    /\ UNCHANGED <<choices, database, nth, unread, batch, body, response>>

abort(next) == exporting' = IF response.end = "gone" THEN "aborted" ELSE next

writeBegin ==
    /\ exporting = "begin" /\ canWrite
    /\ IF framed THEN /\ abort("table")
                      /\ \E full \in BOOLEAN : response' = IF response.end = "gone" THEN response
                                                           ELSE Written(full)
                 ELSE exporting' = "table" /\ UNCHANGED response
    /\ UNCHANGED <<choices, database, snapshot, nth, unread, batch, body, holding>>

\* The framing of a table, then its cursor or stream; without a snapshot the
\* rows are those of this moment. After the last table the response is ended.
writeTable ==
    /\ exporting = "table" /\ canWrite /\ nth <= Len(ExportTables)
    /\ abort("read")
    /\ \E full \in BOOLEAN : response' = IF response.end = "gone" THEN response ELSE Written(full)
    /\ unread' = IF snapshot = <<>> THEN content[current] ELSE snapshot[current]
    /\ batch' = <<>>
    /\ UNCHANGED <<choices, database, snapshot, nth, body, holding>>

writeEnd ==
    /\ exporting = "table" /\ canWrite /\ nth > Len(ExportTables)
    /\ IF response.end = "gone" THEN exporting' = "aborted" /\ UNCHANGED response
       ELSE exporting' = "done" /\ response' = [response EXCEPT !.headers = TRUE, !.end = "ended"]
    /\ UNCHANGED <<choices, database, snapshot, nth, unread, batch, body, holding>>

\* A fetch returns at most a batch; of a stream the rows are gathered into one.
readRows ==
    /\ exporting = "read" /\ canWrite
    /\ LET n == IF dialect = "mysql" THEN 1 ELSE BatchSize
           more == IF Len(unread) < n THEN Len(unread) ELSE n IN
       /\ batch' = batch \o SubSeq(unread, 1, more)
       /\ unread' = SubSeq(unread, more + 1, Len(unread))
       /\ exporting' = IF dialect = "pg" \/ Len(batch') >= BatchSize \/ unread = <<>>
                       THEN "write" ELSE "read"
    /\ UNCHANGED <<choices, database, snapshot, nth, body, response, holding>>

\* The rows of the batch; a batch that is not full was the last.
writeRows ==
    /\ exporting = "write" /\ canWrite
    /\ IF response.end = "gone" THEN exporting' = "aborted" /\ UNCHANGED <<batch, body, response>>
       ELSE /\ body' = [body EXCEPT ![current] = @ \o batch]
            /\ batch' = <<>>
            /\ exporting' = IF Len(batch) < BatchSize THEN "endTable" ELSE "read"
            /\ \E full \in BOOLEAN : response' = Written(full)
    /\ UNCHANGED <<choices, database, snapshot, nth, unread, holding>>

endTable ==
    /\ exporting = "endTable" /\ canWrite
    /\ abort("table") /\ nth' = nth + 1
    /\ UNCHANGED <<choices, database, snapshot, unread, batch, body, response, holding>>

\* A query that fails: a connection or a tunnel that breaks, a table that is not
\* there.
queryFails ==
    /\ exporting \in {"connect", "table", "read", "endTable"} /\ canWrite
    /\ exporting' = "failed" /\ holding' = TRUE
    /\ UNCHANGED <<choices, database, snapshot, nth, unread, batch, body, response>>

\* Too late for an error status, the stream is cut.
fail ==
    /\ exporting = "failed"
    /\ exporting' = "done"
    /\ response' = IF response.end = "gone" THEN response
                   ELSE [response EXCEPT !.end = IF response.headers THEN "cut" ELSE "status"]
    /\ UNCHANGED <<choices, database, snapshot, nth, unread, batch, body, holding>>

\* The finally blocks.
release ==
    /\ exporting \in {"aborted", "done"}
    /\ exporting' = "released" /\ holding' = FALSE
    /\ UNCHANGED <<choices, database, snapshot, nth, unread, batch, body, response>>

drain ==
    /\ response.stalled /\ response.end = "open"
    /\ response' = [response EXCEPT !.stalled = FALSE]
    /\ UNCHANGED <<choices, database, snapshot, exporting, nth, unread, batch, body, holding>>

\* Mutant: a write that waits is not told that the client went away.
leaveUnheard ==
    /\ response.end = "open" /\ exporting \notin {"done", "released"}
    /\ response' = [response EXCEPT !.end = "gone"]
    /\ UNCHANGED <<choices, database, snapshot, exporting, nth, unread, batch, body, holding>>

clientLeaves ==
    /\ response.end = "open" /\ exporting \notin {"done", "released"}
    /\ response' = [response EXCEPT !.end = "gone", !.stalled = FALSE]
    /\ UNCHANGED <<choices, database, snapshot, exporting, nth, unread, batch, body, holding>>

ExportStep == \/ beginSnapshot \/ writeBegin \/ writeTable \/ writeEnd \/ readRows \/ writeRows
              \/ endTable \/ fail \/ release

ExportNext ==
    \/ ExportStep \/ queryFails \/ drain \/ clientLeaves
    \/ \E t, u \in ExportTable : appWrite(t, u)

ExportSpec == ExportInit /\ [][ExportNext]_exportVars

\* The process goes on and the client reads what it is sent or goes away. A
\* client that does neither keeps the export, its transaction and its tunnel.
ExportFairness == WF_exportVars(ExportStep) /\ WF_exportVars(drain \/ clientLeaves)

-----------------------------------------------------------------------------

\* A download that ended normally holds one state of the database (finish: an
\* export that fails midway is `visibly incomplete'; BEGIN ISOLATION LEVEL
\* REPEATABLE READ): every row of every table once, in order, although the
\* application moved rows between the tables meanwhile.
WholeOrCut == response.end = "ended" => body \in states

\* What must not last: an export and its connection, transaction or tunnel, also
\* when the client goes away while a write waits for it (Output.write).
ExportHolds == exporting # "released" \/ holding
=============================================================================
