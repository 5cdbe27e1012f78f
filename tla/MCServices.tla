----------------------------- MODULE MCServices -----------------------------
(***************************************************************************)
(* Small instances of the modules that people's requests drive, in one run. *)
(* None of them touches the state of another: `focus' says which one moves, *)
(* and the others stay as they began.  The order of tables is among them.   *)
(***************************************************************************)
EXTENDS Sessions, Passkeys, Lockout, Mcp, Notifications, KeyRing, AtRest,
        Connections, ChangeCapture, SchemaCheck, TableOrder

CONSTANT Tables     \* the list that TableOrder sorts

ASSUME TablesAssumption ==
    /\ Tables \in Seq(Members(Tables))
    /\ \A i, j \in 1 .. Len(Tables) : Tables[i] = Tables[j] => i = j

VARIABLES
    focus,
    foreignKeys     \* between the Tables

-----------------------------------------------------------------------------
\* Values for the constants.
TwoAndOne == <<2, 1>>
KeysOfHosts == [h1 |-> {"k1", "k3"}, h2 |-> {"k2"}]
Included == [g1 |-> {"a"}, g2 |-> {}]
Named(bases, sized) ==
    {[base |-> b, sized |-> b \in sized, auto |-> FALSE] : b \in bases}
Counting(bases) == {[base |-> b, sized |-> FALSE, auto |-> TRUE] : b \in bases}
Types == [
    MYSQL |-> Named({"tinyint", "mediumint", "double", "varchar", "char", "mediumtext",
                     "longblob", "blob", "datetime", "enum", "json", "tinytext"},
                    {"varchar", "char", "tinyint"})
              \cup Counting({"int", "tinyint", "bigint", "float"}),
    MARIADB |-> Named({"longtext", "uuid", "varchar", "set"}, {"varchar"})
                \cup Counting({"smallint", "mediumint"}),
    POSTGRESQL |-> Named({"integer", "double precision", "numeric", "varchar",
                          "character varying", "text", "bytea", "json",
                          "timestamp without time zone", "timestamp with time zone",
                          "boolean", "uuid"},
                         {"varchar", "numeric"})]
FourTables == <<"a", "b", "c", "d">>

-----------------------------------------------------------------------------
allVars == <<focus, foreignKeys, sessionsVars, passkeysVars, lockoutVars, mcpVars,
             notificationVars, keyVars, atRestVars, connectionVars, captureVars, schemaVars>>

Modules == {"sessions", "passkeys", "lockout", "mcp", "notifications", "keys", "atRest",
            "connections", "capture", "schema", "order"}

\* A module that does not move has one initial state.
Init ==
    /\ focus \in Modules
    /\ SessionsInit /\ PasskeysInit /\ LockoutInit /\ McpInit
    /\ NotificationsInit /\ AtRestInit /\ ConnectionsInit
    /\ KeyRingInit
    /\ focus # "atRest" => ~underTmp
    /\ focus # "keys" => env["legacy"] = "k1" /\ \A r \in Row : rows[r] = NoRow
    /\ CaptureInit
    /\ focus # "capture" => trackerKind = "MYSQL"
    /\ dbs \in [source : DbKind, target : DbKind]
    /\ focus # "schema" => dbs = [source |-> "MYSQL", target |-> "MYSQL"]
    /\ SchemaInit
    /\ focus # "schema" =>
           \A t \in SchemaTable : sourceType[t] = Type("json", FALSE)
    /\ foreignKeys \in IF focus = "order" THEN SUBSET (Members(Tables) \X Members(Tables))
                       ELSE {{}}
    /\ \A i \in 2 .. Len(Tables) : <<Tables[i], Tables[i]>> \notin foreignKeys

OthersStay ==
    /\ UNCHANGED <<focus, foreignKeys>>
    /\ IF focus = "sessions" THEN TRUE ELSE UNCHANGED sessionsVars
    /\ IF focus = "passkeys" THEN TRUE ELSE UNCHANGED passkeysVars
    /\ IF focus = "lockout" THEN TRUE ELSE UNCHANGED lockoutVars
    /\ IF focus = "mcp" THEN TRUE ELSE UNCHANGED mcpVars
    /\ IF focus = "notifications" THEN TRUE ELSE UNCHANGED notificationVars
    /\ IF focus = "keys" THEN TRUE ELSE UNCHANGED keyVars
    /\ IF focus = "atRest" THEN TRUE ELSE UNCHANGED atRestVars
    /\ IF focus = "connections" THEN TRUE ELSE UNCHANGED connectionVars
    /\ IF focus = "capture" THEN TRUE ELSE UNCHANGED captureVars
    /\ IF focus = "schema" THEN TRUE ELSE UNCHANGED schemaVars

Next ==
    /\ \/ focus = "sessions" /\ SessionsNext
       \/ focus = "passkeys" /\ PasskeysNext
       \/ focus = "lockout" /\ LockoutNext
       \/ focus = "mcp" /\ McpNext
       \/ focus = "notifications" /\ NotificationsNext
       \/ focus = "keys" /\ KeyRingNext
       \/ focus = "atRest" /\ AtRestNext
       \/ focus = "connections" /\ ConnectionsNext
       \/ focus = "capture" /\ CaptureNext
       \/ focus = "schema" /\ SchemaNext
    /\ OthersStay

Spec == Init /\ [][Next]_allVars

\* Bounds: not both the last refresh token and the last tokenVersion, nor the last
\* connection and a tunnel.
SmallEnough ==
    /\ Cardinality(Issued) + user.version < MaxToken + MaxVersion
    /\ used = Conn => \A t \in Tunnel : tunnels[t] = NoTunnel

-----------------------------------------------------------------------------
\* Only what moves needs to be looked at.
TypeOK ==
    /\ focus \in Modules
    /\ focus = "sessions" => SessionsTypeOK
    /\ focus = "passkeys" => PasskeysTypeOK
    /\ focus = "lockout" => LockoutTypeOK
    /\ focus = "mcp" => McpTypeOK
    /\ focus = "notifications" => NotificationsTypeOK
    /\ focus = "keys" => KeyRingTypeOK
    /\ focus = "atRest" => AtRestTypeOK
    /\ focus = "connections" => ConnectionsTypeOK
    /\ focus = "capture" => CaptureTypeOK
    /\ focus = "schema" => SchemaTypeOK

\* A browser that is signed in stays so until somebody ends its session or two of
\* its tabs refresh at a time, and what a tab asks for is answered in either case.
TabsKeepGoing == KeptSignedIn /\ NoneForgotten

\* A limit holds however the calls overlap: connections per user, but for what other
\* requests had still to insert at the check, MCP calls per key and day, mails about
\* failed sign-ins per lock and gap, one use of a refresh token and of a challenge,
\* and no use of an approval that was denied while nobody executed it.
LimitsHold ==
    /\ LimitHolds /\ DailyLimitHolds /\ DenialsHold
    /\ AlertsSpaced /\ MailsSpaced
    /\ SingleUse /\ ChallengeOnce

\* What a secret is lost or replaced by, and by nothing else: a save of settings clears
\* only what its form could not show, a mail uses a replaced password for less than the
\* life of a transporter, a row is unreadable only if the primary key it was written with
\* was rotated, no passphrase is lost to a rotation, and the open tunnels of a connection
\* were all accepted with the host key its row has pinned.
SecretsHold == NeverMasked /\ MailFresh /\ RowsReadable /\ RotationKeeps /\ OneKeyTrusted

\* Change capture neither makes a write of the application fail nor passes over it.
CaptureHolds == WritesSurvive /\ NothingSkipped

\* The tables that are on a cycle of foreign keys or behind one: the largest set
\* in which every table has a parent.
Behind == UNION {S \in SUBSET Members(Tables) :
                     \A t \in S : \E p \in S \ {t} : <<p, t>> \in foreignKeys}

\* The order in which a sync run writes tables (table-ordered-executor.ts:13-158)
\* has every table once, a parent that is not behind a cycle before its children,
\* and the others last, in the order they came in.
ParentsFirst == focus = "order" =>
    LET order == topologicalSortTables(Tables, foreignKeys)
        Place(t) == CHOOSE i \in 1 .. Len(order) : order[i] = t
    IN  /\ Members(order) = Members(Tables) /\ Len(order) = Len(Tables)
        /\ \A k \in foreignKeys :
               k[1] # k[2] /\ k[1] \notin Behind => Place(k[1]) < Place(k[2])
        /\ Keep(Tables, Behind) = SubSeq(order, Len(order) - Cardinality(Behind) + 1, Len(order))
=============================================================================
