----------------------------- MODULE Connections -----------------------------
(***************************************************************************)
(* The saved connections of one user: the limit on their number, which        *)
(* creations and imports check before they insert, and the host key of the     *)
(* SSH server in front of one, pinned by the first tunnel that reaches it      *)
(* while the connection may be edited, reset or deleted.                      *)
(***************************************************************************)
EXTENDS Integers, FiniteSets

CONSTANTS Conn,             \* ids of connections
          SshConn,          \* those behind an SSH server (sshEnabled)
          Maker,            \* requests that create or import
          Editor,           \* requests that edit a connection
          Tunnel,           \* operations that open a tunnel
          SshHost, HostKey,
          KeysOf,           \* SshHost -> the keys its servers present
          ConnectionLimit,
          BundleSize        \* connections of the imported bundle

Unpinned == "none"
Absent == "absent"
NoHost == "direct"

ASSUME ConnectionsAssumption ==
    /\ IsFiniteSet(Conn) /\ SshConn \subseteq Conn
    /\ ConnectionLimit \in Nat /\ BundleSize \in Nat \ {0}
    /\ KeysOf \in [SshHost -> SUBSET HostKey]
    /\ Unpinned \notin HostKey /\ Absent \notin Conn
    /\ {Absent, NoHost} \cap SshHost = {}

VARIABLES
    conns,          \* Connection rows: [host, key], host Absent without a row,
                    \* NoHost without an SSH server
    used,           \* ids given so far
    makers,         \* Maker -> connections still to insert after the check
    surplus,        \* history: the most that other makers had still to insert
                    \* when one was let in
    edits,          \* Editor -> [conn, was, host]: read, not written yet
    tunnels,        \* Tunnel -> [pc, conn, host, key, old]; old once the pin was
                    \* forgotten after the tunnel was opened
    crossed         \* history: connections edited while in use

connectionVars == <<conns, used, makers, surplus, edits, tunnels, crossed>>
pinVars == <<edits, tunnels, crossed>>
limitVars == <<used, makers, surplus>>

NoTunnel == [pc |-> "idle", conn |-> Absent, host |-> Absent, key |-> Unpinned, old |-> FALSE]
NoEdit == [conn |-> Absent, was |-> Absent, host |-> Absent]

ConnectionsTypeOK ==
    /\ conns \in [Conn -> [host : SshHost \cup {NoHost, Absent}, key : HostKey \cup {Unpinned}]]
    /\ used \subseteq Conn
    /\ makers \in [Maker -> SUBSET Conn] /\ surplus \in Nat
    /\ edits \in [Editor -> [conn : Conn \cup {Absent}, was : SshHost \cup {Absent},
                             host : SshHost \cup {Absent}]]
    /\ tunnels \in [Tunnel -> [pc : {"idle", "config", "first", "again", "open"},
                               conn : Conn \cup {Absent}, host : SshHost \cup {Absent},
                               key : HostKey \cup {Unpinned}, old : BOOLEAN]]
    /\ crossed \subseteq Conn

ConnectionsInit ==
    /\ conns = [c \in Conn |-> [host |-> Absent, key |-> Unpinned]] /\ used = {}
    /\ makers = [m \in Maker |-> {}] /\ surplus = 0
    /\ edits = [e \in Editor |-> NoEdit] /\ tunnels = [t \in Tunnel |-> NoTunnel]
    /\ crossed = {}

saved == {c \in Conn : conns[c].host # Absent}
awaited == UNION {makers[m] : m \in Maker}

-----------------------------------------------------------------------------
(* The limit on connections.                                               *)

\* Mutant: an import is let in when there is room for one.
checkOne(m, n) == Cardinality(saved) < ConnectionLimit

\* createConnection has n = 1, importBundle the size of its bundle.
underLimit(m, n) == Cardinality(saved) + n <= ConnectionLimit

checkLimit(m, n) ==
    /\ makers[m] = {} /\ underLimit(m, n)
    /\ \E new \in SUBSET (Conn \ (used \cup awaited)) :
           Cardinality(new) = n /\ makers' = [makers EXCEPT ![m] = new]
    /\ surplus' = IF Cardinality(awaited) > surplus THEN Cardinality(awaited) ELSE surplus
    /\ UNCHANGED <<conns, used, pinVars>>

\* An import goes on with the next connection of its bundle; a bundle carries
\* the key its connection was exported with.
createConnection(m) ==
    \E c \in Conn \ used : \E h \in IF c \in SshConn THEN SshHost ELSE {NoHost} :
    \E k \in {Unpinned} \cup IF c \in SshConn THEN KeysOf[h] ELSE {} :
        /\ c \in makers[m] /\ (k # Unpinned => makers[m] # {c})
        /\ conns' = [conns EXCEPT ![c] = [host |-> h, key |-> k]]
        /\ used' = used \cup {c} /\ makers' = [makers EXCEPT ![m] = @ \ {c}]
        /\ UNCHANGED <<surplus, pinVars>>

\* An unknown type ends an import between two of its connections.
failImport(m) ==
    /\ makers[m] # {} /\ makers' = [makers EXCEPT ![m] = {}]
    /\ UNCHANGED <<conns, used, surplus, pinVars>>

-----------------------------------------------------------------------------
(* Edits.                                                                  *)

inUse(c) == \/ \E t \in Tunnel : tunnels[t].conn = c
            \/ \E e \in Editor : edits[e].conn = c

\* Tunnels that were opened before the pin was forgotten.
outdate(c) == [t \in Tunnel |-> IF tunnels[t].conn = c
                                THEN [tunnels[t] EXCEPT !.old = TRUE] ELSE tunnels[t]]

beginUpdate(e, c, h) ==
    /\ edits[e] = NoEdit /\ c \in saved \cap SshConn
    /\ edits' = [edits EXCEPT ![e] = [conn |-> c, was |-> conns[c].host, host |-> h]]
    /\ crossed' = IF inUse(c) THEN crossed \cup {c} ELSE crossed
    /\ UNCHANGED <<conns, tunnels, limitVars>>

\* Mutant: the pin outlives a change of the server.
editKeepingPin(c, was, h) == [host |-> h, key |-> conns[c].key]

\* Another SSH server has another key.
edited(c, was, h) ==
    [host |-> h, key |-> IF h # was THEN Unpinned ELSE conns[c].key]

updateConnection(e) ==
    LET c == edits[e].conn  h == edits[e].host IN
    /\ edits[e] # NoEdit /\ edits' = [edits EXCEPT ![e] = NoEdit]
    /\ IF c \in saved
       THEN /\ conns' = [conns EXCEPT ![c] = edited(c, edits[e].was, h)]
            /\ tunnels' = IF h # edits[e].was THEN outdate(c) ELSE tunnels
       ELSE UNCHANGED <<conns, tunnels>>
    /\ UNCHANGED <<crossed, limitVars>>

resetSshHostKey(c) ==
    /\ c \in saved \cap SshConn /\ conns' = [conns EXCEPT ![c].key = Unpinned]
    /\ tunnels' = outdate(c)
    /\ UNCHANGED <<edits, crossed, limitVars>>

deleteConnection(c) ==
    /\ c \in saved
    /\ conns' = [conns EXCEPT ![c] = [host |-> Absent, key |-> Unpinned]]
    /\ tunnels' = outdate(c)
    /\ UNCHANGED <<edits, crossed, limitVars>>

-----------------------------------------------------------------------------
(* Tunnels.                                                                *)

\* The target is read here, with the rest of the configuration; edits that are
\* under way write another one.
toEngineConfig(t, c) ==
    /\ tunnels[t] = NoTunnel /\ c \in saved \cap SshConn
    /\ tunnels' = [tunnels EXCEPT ![t] =
           [pc |-> "config", conn |-> c, host |-> conns[c].host, key |-> Unpinned,
            old |-> FALSE]]
    /\ crossed' = IF \E e \in Editor : edits[e].conn = c THEN crossed \cup {c} ELSE crossed
    /\ UNCHANGED <<conns, edits, limitVars>>

\* The server presents a key, which is compared with the pin of the row.
verifyHostKey(t) ==
    LET c == tunnels[t].conn IN
    /\ tunnels[t].pc = "config"
    /\ \E k \in KeysOf[tunnels[t].host] :
           tunnels' = [tunnels EXCEPT ![t] =
               IF c \notin saved \/ conns[c].key \notin {Unpinned, k} THEN NoTunnel
               ELSE [@ EXCEPT !.key = k,
                              !.pc = IF conns[c].key = Unpinned THEN "first" ELSE "open",
                              !.old = FALSE]]
    /\ UNCHANGED <<conns, edits, crossed, limitVars>>

\* Mutant: the pin is written whatever the row holds by now.
pinAnyway(t) ==
    LET c == tunnels[t].conn IN
    /\ tunnels[t].pc = "first"
    /\ tunnels' = [tunnels EXCEPT ![t].pc = "open", ![t].old = c \notin saved]
    /\ conns' = IF c \in saved THEN [conns EXCEPT ![c].key = tunnels[t].key] ELSE conns
    /\ UNCHANGED <<edits, crossed, limitVars>>

\* Only a row without a pin takes this one.
pinFirst(t) ==
    LET c == tunnels[t].conn IN
    /\ tunnels[t].pc = "first"
    /\ IF c \in saved /\ conns[c].key = Unpinned
       THEN /\ conns' = [conns EXCEPT ![c].key = tunnels[t].key]
            /\ tunnels' = [tunnels EXCEPT ![t].pc = "open", ![t].old = FALSE]
       ELSE /\ tunnels' = [tunnels EXCEPT ![t].pc = "again"] /\ UNCHANGED conns
    /\ UNCHANGED <<edits, crossed, limitVars>>

\* Another tunnel was first: its pin decides, unless it is gone again.
verifyAgain(t) ==
    LET c == tunnels[t].conn IN
    /\ tunnels[t].pc = "again"
    /\ tunnels' = [tunnels EXCEPT ![t] =
           IF c \in saved /\ conns[c].key \notin {Unpinned, tunnels[t].key} THEN NoTunnel
           ELSE [@ EXCEPT !.pc = "open", !.old = c \notin saved \/ conns[c].key = Unpinned]]
    /\ UNCHANGED <<conns, edits, crossed, limitVars>>

closeTunnel(t) ==
    /\ tunnels[t].pc = "open" /\ tunnels' = [tunnels EXCEPT ![t] = NoTunnel]
    /\ UNCHANGED <<conns, edits, crossed, limitVars>>

ConnectionsNext ==
    \/ \E m \in Maker : \/ \E n \in {1, BundleSize} : checkLimit(m, n)
                        \/ createConnection(m) \/ failImport(m)
    \/ \E e \in Editor : \/ updateConnection(e)
                         \/ \E c \in Conn, h \in SshHost : beginUpdate(e, c, h)
    \/ \E c \in Conn : resetSshHostKey(c) \/ deleteConnection(c)
    \/ \E t \in Tunnel : \/ verifyHostKey(t) \/ pinFirst(t) \/ verifyAgain(t)
                         \/ closeTunnel(t) \/ \E c \in Conn : toEngineConfig(t, c)

ConnectionsSpec == ConnectionsInit /\ [][ConnectionsNext]_connectionVars

-----------------------------------------------------------------------------

\* A user has no more connections above the limit than other requests, which had
\* passed the check, had still to insert when one was let in: none as long as the
\* requests do not overlap (connection.controller.ts, `A read-then-create race is
\* acceptable here'; config-bundle.service.ts, importBundle).
LimitHolds == Cardinality(saved) <= ConnectionLimit + surplus

\* `concurrent first connects agree on one key' (ssh.service.ts,
\* verifyHostKey): until the pin is forgotten, every open tunnel was accepted
\* with the key the row has pinned.
OneKeyTrusted ==
    \A t \in Tunnel : (tunnels[t].pc = "open" /\ ~tunnels[t].old) =>
                          conns[tunnels[t].conn].key = tunnels[t].key

\* The pin is a key of the server the connection names, unless the connection
\* was edited while a tunnel or another edit of it was under way
\* (connection.controller.ts, updateConnection, sshTargetChanged).
PinIsOfTarget ==
    \A c \in saved \ crossed : conns[c].key # Unpinned => conns[c].key \in KeysOf[conns[c].host]
=============================================================================
