----------------------------- MODULE TableOrder -----------------------------
(***************************************************************************)
(* The order in which a sync run writes tables: parents before children,   *)
(* by Kahn's algorithm over the foreign keys of the database that is        *)
(* written (table-ordered-executor.ts).  A list of tables is a sequence     *)
(* without repetition, a foreign key a pair <<parent, child>>.              *)
(***************************************************************************)
EXTENDS Integers, Sequences, SequencesExt

Members(s) == {s[i] : i \in 1 .. Len(s)}

\* Dependencies between two of the tables; a reference of a table to itself
\* and a second key between the same tables do not count.
Edges(tables, deps) ==
    {d \in deps : d[1] # d[2] /\ {d[1], d[2]} \subseteq Members(tables)}

InDegree(t, edges) == Cardinality({d \in edges : d[2] = t})

\* The sub-list of the tables in S, in the order of the list.
Keep(tables, S) ==
    LET kept[n \in 0 .. Len(tables)] ==
            IF n = 0 THEN <<>>
            ELSE IF tables[n] \in S THEN Append(kept[n - 1], tables[n])
            ELSE kept[n - 1]
    IN  kept[Len(tables)]

\* Mutant: a child joins the queue when its first parent is emitted.
EmitEager(tables, edges, s) ==
    LET out == Append(s.ordered, Head(s.queue))
        freed == {d[2] : d \in {e \in edges : e[1] = Head(s.queue)}}
                     \ (Members(out) \cup Members(Tail(s.queue)))
    IN  [ordered |-> out, queue |-> Tail(s.queue) \o Keep(tables, freed)]

\* One turn of the loop: the head of the queue is emitted, and the children
\* whose last open dependency it was join the queue.
Emit(tables, edges, s) ==
    LET out == Append(s.ordered, Head(s.queue))
        Open(t) == Cardinality({d \in edges : d[2] = t /\ d[1] \notin Members(out)})
        freed == {d[2] : d \in {e \in edges : e[1] = Head(s.queue)
                                              /\ Open(e[2]) = 0}}
    IN  [ordered |-> out, queue |-> Tail(s.queue) \o Keep(tables, freed)]

Turns(tables, edges) ==
    LET start == [ordered |-> <<>>,
                  queue |-> Keep(tables, {t \in Members(tables) : InDegree(t, edges) = 0})]
        turn[n \in 0 .. Len(tables)] ==
            IF n = 0 THEN start
            ELSE IF turn[n - 1].queue = <<>> THEN turn[n - 1]
            ELSE Emit(tables, edges, turn[n - 1])
    IN  turn[Len(tables)].ordered

\* The tables on a cycle, and those behind one, keep their original order at
\* the end.
topologicalSortTables(tables, deps) ==
    LET ordered == Turns(tables, Edges(tables, deps))
    IN  ordered \o Keep(tables, Members(tables) \ Members(ordered))

\* With at most one table the metadata is not read; a failure to read it is
\* an error in strict mode (here: the empty sequence) and ignored otherwise.
getTablesInDependencyOrder(tables, deps, metadata, strict) ==
    IF Len(tables) <= 1 THEN tables
    ELSE IF metadata THEN topologicalSortTables(tables, deps)
    ELSE IF strict THEN <<>>
    ELSE tables
=============================================================================
