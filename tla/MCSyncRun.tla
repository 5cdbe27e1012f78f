----------------------------- MODULE MCSyncRun -----------------------------
(* Small instances of SyncRun for TLC.                                     *)
EXTENDS SyncRun

CONSTANTS t1, t2, k1, k2

\* The database lists the child first.
ChildFirst == <<t2, t1>>
ParentOfT2 == {<<t1, t2>>}

\* The decimals of ids up to 11, as texts: "0", "1", "10", "11", "2" ... "9".
Decimals == <<0, 1, 10, 11, 2, 3, 4, 5, 6, 7, 8, 9>>
DecimalOrder ==
    {<<Decimals[p[1]], Decimals[p[2]]>> : p \in {q \in (1 .. 12) \X (1 .. 12) : q[1] < q[2]}}

TwoWay == [direction : {"BIDIRECTIONAL"}, modes : {{"incremental"}}, batchSize : {2}]
OneWay == [direction : {"ONE_WAY"}, modes : {{"incremental", "full"}}, batchSize : {1, 2}]
BothWays == TwoWay \cup OneWay
OneAtATime == [direction : {"BIDIRECTIONAL"}, modes : {{"incremental"}}, batchSize : {1}]
=============================================================================
