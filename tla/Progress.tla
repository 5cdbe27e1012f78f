------------------------------ MODULE Progress ------------------------------
(***************************************************************************)
(* What a page shows of a backup that runs: the worker writes and publishes  *)
(* its progress without waiting for it, a stream per page forwards what is    *)
(* published while it is subscribed, and the page polls the row.  A job has   *)
(* several attempts, each of which writes and publishes its own end.         *)
(***************************************************************************)
EXTENDS Naturals, FiniteSets, Sequences

CONSTANTS Page, Stream,
          Percents,         \* what the engine reports, in order
          BackupAttempts,   \* of a job (3)
          MaxSseConnections,
          MaxReloads        \* bound on pages opened again, tokens renewed

NoStream == "no stream"

ASSUME ProgressAssumption ==
    /\ Percents \in Seq(1 .. 100) /\ NoStream \notin Stream
    /\ BackupAttempts \in Nat \ {0} /\ {MaxSseConnections, MaxReloads} \subseteq Nat

VARIABLES
    shown,      \* the row: [status, progress]
    attempt,    \* [pc, number] of the job's attempt
    ended,      \* history: the end that the last attempt to start has written, or "no"
    reports,    \* [next, last]: index of the next report, percentage last passed on
    inFlight,   \* reports under way: [of: the attempt, pct, at]
    streams,    \* Stream -> [st, cleaned, closing, limit, page]
    activeSse,  \* the counter activeSseConnections
    pages,      \* Page -> [row, es]: the status last fetched, the stream
    reloads

jobVars == <<shown, attempt, ended, reports, inFlight>>
progressVars == <<jobVars, streams, activeSse, pages, reloads>>
sseVars == <<streams, activeSse>>

Final == {"COMPLETED", "FAILED"}
Statuses == {"PENDING", "RUNNING"} \cup Final
Idle == [st |-> "none", cleaned |-> FALSE, closing |-> 0, limit |-> FALSE, page |-> NoStream]

Report == [of : 1 .. BackupAttempts, pct : 1 .. 100, at : {"write", "publish"}]

ProgressTypeOK ==
    /\ shown \in [status : Statuses, progress : 0 .. 100] /\ ended \in Final \cup {"no"}
    /\ attempt \in [pc : {"waiting", "dump", "end", "told", "over"},
                    number : 0 .. BackupAttempts]
    /\ reports \in [next : 1 .. Len(Percents) + 1, last : 0 .. 100]
    /\ inFlight \subseteq Report
    /\ \A s \in Stream :
           /\ streams[s].st \in {"none", "subscribing", "open", "ended", "closed"}
           /\ streams[s].cleaned \in BOOLEAN /\ streams[s].closing \in 0 .. 1
           /\ streams[s].limit \in BOOLEAN /\ streams[s].page \in Page \cup {NoStream}
    /\ activeSse \in 0 .. MaxSseConnections
    /\ pages \in [Page -> [row : Statuses, es : Stream \cup {NoStream}]]
    /\ reloads \in 0 .. MaxReloads

ProgressInit ==
    /\ shown = [status |-> "PENDING", progress |-> 0] /\ ended = "no"
    /\ attempt = [pc |-> "waiting", number |-> 0]
    /\ reports = [next |-> 1, last |-> 0] /\ inFlight = {}
    /\ streams = [s \in Stream |-> Idle] /\ activeSse = 0
    /\ pages = [p \in Page |-> [row |-> "PENDING", es |-> NoStream]]
    /\ reloads = 0

-----------------------------------------------------------------------------

streamsStay == UNCHANGED <<sseVars, pages, reloads>>

Running(number) == [pc |-> "dump", number |-> number]
\* The attempt is over: another one, unless it was the last.
Tried(number) == [pc |-> IF number < BackupAttempts THEN "waiting" ELSE "over", number |-> number]

\* Every attempt sets the row running anew; one may throw before it does.
startJob ==
    /\ attempt.pc = "waiting" /\ attempt.number < BackupAttempts
    /\ \/ /\ attempt' = Running(attempt.number + 1)
          /\ shown' = [status |-> "RUNNING", progress |-> 0] /\ ended' = "no"
          /\ reports' = [next |-> 1, last |-> 0]
       \/ attempt' = Tried(attempt.number + 1) /\ UNCHANGED <<shown, ended, reports>>
    /\ UNCHANGED inFlight /\ streamsStay

\* Every step of ten; the engine does not wait for the write.
onProgress ==
    /\ attempt.pc = "dump" /\ reports.next <= Len(Percents)
    /\ LET pct == Percents[reports.next] IN
       IF pct < reports.last + 10 THEN reports' = [reports EXCEPT !.next = @ + 1] /\ UNCHANGED inFlight
       ELSE /\ reports' = [reports EXCEPT !.next = @ + 1, !.last = pct]
            /\ inFlight' = inFlight \cup
                               {[of |-> attempt.number, pct |-> pct, at |-> "write"]}
    /\ UNCHANGED <<shown, attempt, ended>> /\ streamsStay

\* Mutant: the progress is written with the status it was reported in.
writeStatusToo(r) ==
    /\ r \in inFlight /\ r.at = "write"
    /\ shown' = [status |-> "RUNNING", progress |-> r.pct]
    /\ inFlight' = (inFlight \ {r}) \cup {[r EXCEPT !.at = "publish"]}
    /\ UNCHANGED <<attempt, ended, reports>> /\ streamsStay

writeProgress(r) ==
    /\ r \in inFlight /\ r.at = "write"
    /\ shown' = [shown EXCEPT !.progress = r.pct]
    /\ inFlight' = (inFlight \ {r}) \cup {[r EXCEPT !.at = "publish"]}
    /\ UNCHANGED <<attempt, ended, reports>> /\ streamsStay

\* To the streams that are subscribed, to nobody later; a final status, or a hundred
\* per cent, has each of them closed within a second.
Forwarded(closes) ==
    [s \in Stream |-> IF streams[s].st = "open" /\ closes
                      THEN [streams[s] EXCEPT !.closing = 1] ELSE streams[s]]

publishReport(r) ==
    /\ r \in inFlight /\ r.at = "publish"
    /\ inFlight' = inFlight \ {r}
    /\ streams' = Forwarded(r.pct = 100)
    /\ UNCHANGED <<shown, attempt, ended, reports, activeSse, pages, reloads>>

\* The row is written, then the end is published.  Whatever throws afterwards, the
\* publication, the audit or the clean-up, turns a completed backup into a failed one.
writeEndOfJob(status) ==
    /\ \/ attempt.pc = "dump"
       \/ attempt.pc \in {"end", "told"} /\ ended = "COMPLETED" /\ status = "FAILED"
    /\ ended' = status
    /\ shown' = [status |-> status,
                 progress |-> IF status = "COMPLETED" THEN 100 ELSE shown.progress]
    /\ attempt' = [attempt EXCEPT !.pc = "end"]
    /\ UNCHANGED <<reports, inFlight>> /\ streamsStay

\* A quota that is exceeded has no other attempt.
publishEndOfJob ==
    /\ attempt.pc = "end"
    /\ attempt' \in IF ended = "COMPLETED"
                    THEN {[attempt EXCEPT !.pc = pc] : pc \in {"told", "over"}}
                    ELSE {[attempt EXCEPT !.pc = "over"], Tried(attempt.number)}
    /\ streams' = Forwarded(TRUE)
    /\ UNCHANGED <<shown, ended, reports, inFlight, activeSse, pages, reloads>>

\* The FAILED is refused, or cannot be published: the attempt ends all the same.
throwAgain ==
    /\ attempt.pc \in {"dump", "end", "told"} /\ attempt' = Tried(attempt.number)
    /\ UNCHANGED <<shown, ended, reports, inFlight>> /\ streamsStay

-----------------------------------------------------------------------------

\* A page connects while the row it has fetched is active; the server refuses a
\* stream too many, and the page does not try again.
streamSSE(p, s) ==
    /\ pages[p].es = NoStream /\ pages[p].row \notin Final
    /\ streams[s] = Idle /\ activeSse < MaxSseConnections
    /\ streams' = [streams EXCEPT ![s] = [Idle EXCEPT !.st = "subscribing", !.limit = TRUE, !.page = p]]
    /\ activeSse' = activeSse + 1
    /\ pages' = [pages EXCEPT ![p].es = s]
    /\ UNCHANGED <<jobVars, reloads>>

\* Mutant: every end of a stream counts.
countEveryEnd(s) == activeSse' = activeSse - 1

cleanup(s) == activeSse' = IF streams[s].cleaned THEN activeSse ELSE activeSse - 1

subscribed(s) ==
    /\ streams[s].st = "subscribing" /\ ~streams[s].cleaned
    /\ \/ streams' = [streams EXCEPT ![s].st = "open"] /\ UNCHANGED activeSse
       \/ streams' = [streams EXCEPT ![s].st = "ended", ![s].cleaned = TRUE] /\ cleanup(s)
    /\ UNCHANGED <<jobVars, pages, reloads>>

\* The second after the last message, and the limit of five minutes.
closeTimer(s) ==
    /\ \/ streams[s].closing = 1
          /\ streams' = [streams EXCEPT ![s].st = IF @ = "closed" THEN @ ELSE "ended",
                                        ![s].cleaned = TRUE, ![s].closing = 0]
       \/ streams[s].limit
          /\ streams' = [streams EXCEPT ![s].st = IF @ = "closed" THEN @ ELSE "ended",
                                        ![s].cleaned = TRUE, ![s].limit = FALSE]
    /\ cleanup(s)
    /\ UNCHANGED <<jobVars, pages, reloads>>

\* The response is closed, by its end or because the page has left it; a page whose
\* stream ends keeps it and does not connect again.
closeStream(s) ==
    /\ streams[s].st = "ended"
       \/ (streams[s].page # NoStream /\ pages[streams[s].page].es # s
           /\ streams[s].st \in {"subscribing", "open"})
    /\ streams' = [streams EXCEPT ![s].st = "closed", ![s].cleaned = TRUE, ![s].limit = FALSE]
    /\ cleanup(s)
    /\ UNCHANGED <<jobVars, pages, reloads>>

forget(s) ==
    /\ streams[s].st = "closed" /\ streams[s].closing = 0
    /\ \A p \in Page : pages[p].es # s
    /\ streams' = [streams EXCEPT ![s] = Idle]
    /\ UNCHANGED <<jobVars, activeSse, pages, reloads>>

\* A renewed access token brings another stream, a page opened again another row too.
reconnect(p) ==
    /\ reloads < MaxReloads /\ reloads' = reloads + 1
    /\ \/ pages' = [pages EXCEPT ![p].es = NoStream]
       \/ pages' = [pages EXCEPT ![p] = [row |-> shown.status, es |-> NoStream]]
    /\ UNCHANGED <<jobVars, sseVars>>

\* What the page does with the row: it leaves the stream of a backup that is over.
Fetched(p) ==
    [row |-> shown.status, es |-> IF shown.status \in Final THEN NoStream ELSE pages[p].es]

\* Mutant: a page with a stream does not poll.
pollWithoutStream(p) ==
    /\ pages[p].row \notin Final /\ pages[p].es = NoStream
    /\ pages' = [pages EXCEPT ![p] = Fetched(p)]
    /\ UNCHANGED <<jobVars, sseVars, reloads>>

\* Every five seconds while a backup is active.
poll(p) ==
    /\ pages[p].row \notin Final
    /\ pages' = [pages EXCEPT ![p] = Fetched(p)]
    /\ UNCHANGED <<jobVars, sseVars, reloads>>

ProgressNext ==
    \/ startJob \/ onProgress \/ publishEndOfJob \/ throwAgain
    \/ \E status \in Final : writeEndOfJob(status)
    \/ \E r \in inFlight : writeProgress(r) \/ publishReport(r)
    \/ \E p \in Page : poll(p) \/ reconnect(p) \/ \E s \in Stream : streamSSE(p, s)
    \/ \E s \in Stream : subscribed(s) \/ closeTimer(s) \/ closeStream(s) \/ forget(s)

ProgressSpec == ProgressInit /\ [][ProgressNext]_progressVars

\* A page that is open polls.
ProgressFairness == \A p \in Page : WF_progressVars(poll(p))

-----------------------------------------------------------------------------

\* The counter that admits streams (MAX_SSE_CONNECTIONS) counts those that are
\* served, whichever of the failed subscription, the last message, the time
\* limit and the closed response comes first, in whatever number.
StreamsAreCounted ==
    activeSse = Cardinality({s \in Stream : streams[s].st # "none" /\ ~streams[s].cleaned})

\* A report that arrives late (onProgress is not awaited), after the end of its attempt
\* or during the next, leaves alone what the last attempt wrote (backup.queue.ts:84-92).
EndStands == ended # "no" => shown.status = ended

\* What must not last, although the page's stream may be refused, subscribed too
\* late or closed before.  It is not that the page learns how the job ended in the end:
\* one that has seen the FAILED of an attempt no longer polls, and shows neither the next
\* attempt nor its success before it is opened again (BackupsPage.tsx:267-271).
PageBehind(p) == shown.status \in Final /\ pages[p].row \notin Final
=============================================================================
