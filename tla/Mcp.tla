-------------------------------- MODULE Mcp --------------------------------
(***************************************************************************)
(* Calls of tools by agents: one key with its scopes, its daily limit and   *)
(* its revocation, batches of messages under one authentication, and the    *)
(* approvals of the owner.  A tool is told apart by its scope.  Every        *)
(* statement to the database is a step; the day is that of the caller's      *)
(* clock when it looked, days count from the key's creation.                 *)
(***************************************************************************)
EXTENDS Integers, FiniteSets

CONSTANTS Caller,           \* requests at a time: batches and approvals
          Approval,         \* approvals that can be asked for
          DailyCallLimit,   \* 0: none
          ApprovalRequired, \* of the key
          KeyScopes,        \* of the key, as asked for
          MaxDay, MaxServed, MaxRotations   \* bounds

NoApproval == "none"

ASSUME McpAssumption ==
    /\ IsFiniteSet(Caller)
    /\ {DailyCallLimit, MaxDay, MaxServed, MaxRotations} \subseteq Nat
    /\ ApprovalRequired \in BOOLEAN /\ NoApproval \notin Approval
    /\ KeyScopes \subseteq {"read", "write", "admin"} /\ KeyScopes # {}

VARIABLES day,
          agentKey,      \* [scopes, revoked, expired, callsToday, resetDay]
          asked,    \* McpApproval: the scope of the tool, by approval
          decision,   \* ... and PENDING, APPROVED, DENIED
          calls,     \* where a request is: [pc, scope, approval, today]
          served,   \* history: handlers that ran, of any tool
          denied,   \* history: approvals denied while nobody was executing them
          rotations

mcpVars == <<day, agentKey, asked, decision, calls, served, denied, rotations>>

McpScope == {"read", "write", "admin"}
NoCall == [pc |-> "idle", scope |-> "read", approval |-> NoApproval, today |-> 0]

McpTypeOK ==
    /\ day \in 0 .. MaxDay
    /\ agentKey \in [scopes : SUBSET McpScope, revoked : BOOLEAN, expired : BOOLEAN,
                callsToday : 0 .. DailyCallLimit, resetDay : -1 .. MaxDay]
    /\ asked \in [Approval -> McpScope]
    /\ decision \in [Approval -> {"NONE", "PENDING", "APPROVED", "DENIED"}]
    /\ calls \in [Caller -> [pc : {"idle", "next", "roll", "reserve", "run", "mark"},
                            scope : McpScope, approval : Approval \cup {NoApproval},
                            today : 0 .. MaxDay]]
    /\ served \in 0 .. MaxServed /\ denied \subseteq Approval
    /\ rotations \in 0 .. MaxRotations

\* admin implies write implies read.
Implied(s) ==
    s \cup (IF "admin" \in s THEN {"write", "read"} ELSE {})
      \cup (IF "write" \in s THEN {"read"} ELSE {})

McpInit ==
    /\ day = 0
    /\ agentKey = [scopes |-> Implied(KeyScopes), revoked |-> FALSE, expired |-> FALSE,
              callsToday |-> 0, resetDay |-> -1]
    /\ asked = [a \in Approval |-> "read"]
    /\ decision = [a \in Approval |-> "NONE"]
    /\ calls = [c \in Caller |-> NoCall]
    /\ served = 0 /\ denied = {} /\ rotations = 0

mcpHistory == <<served, denied, rotations>>
\* An agent's batch goes on; an approval is marked.
AfterCall(c) == IF calls[c].approval = NoApproval THEN "next" ELSE "mark"

-----------------------------------------------------------------------------
(* The endpoint.                                                           *)

\* The key is looked up once for all messages of the batch.
authenticateKey(c) ==
    /\ calls[c].pc = "idle"
    /\ ~agentKey.revoked /\ ~agentKey.expired
    /\ calls' = [calls EXCEPT ![c] = [NoCall EXCEPT !.pc = "next"]]
    /\ UNCHANGED <<day, agentKey, asked, decision, mcpHistory>>

\* A tools/calls message, refused without the scope, or kept for the owner.
dispatchTool(c, scope) ==
    /\ calls[c].pc = "next"
    /\ scope \in agentKey.scopes
    /\ ~(ApprovalRequired /\ scope \in {"write", "admin"})
    /\ calls' = [calls EXCEPT ![c].pc = IF DailyCallLimit > 0 THEN "roll" ELSE "run",
                            ![c].scope = scope, ![c].today = day]
    /\ UNCHANGED <<day, agentKey, asked, decision, mcpHistory>>

requestApproval(c, scope, a) ==
    /\ calls[c].pc = "next"
    /\ scope \in agentKey.scopes
    /\ ApprovalRequired /\ scope \in {"write", "admin"}
    /\ decision[a] = "NONE"
    /\ asked' = [asked EXCEPT ![a] = scope]
    /\ decision' = [decision EXCEPT ![a] = "PENDING"]
    /\ UNCHANGED <<day, agentKey, calls, mcpHistory>>

\* The last message, or a notification, ends the batch.
endBatch(c) ==
    /\ calls[c].pc = "next"
    /\ calls' = [calls EXCEPT ![c] = NoCall]
    /\ UNCHANGED <<day, agentKey, asked, decision, mcpHistory>>

\* Mutant: whoever finds the window of another day begins a new one.
rollAlways(c) ==
    /\ calls[c].pc = "roll"
    /\ agentKey' = IF agentKey.resetDay # calls[c].today
              THEN [agentKey EXCEPT !.callsToday = 0, !.resetDay = calls[c].today] ELSE agentKey
    /\ calls' = [calls EXCEPT ![c].pc = "reserve"]
    /\ UNCHANGED <<day, asked, decision, mcpHistory>>

\* Only the first caller after the end of the window matches.
rollWindow(c) ==
    /\ calls[c].pc = "roll"
    /\ agentKey' = IF agentKey.resetDay < calls[c].today
              THEN [agentKey EXCEPT !.callsToday = 0, !.resetDay = calls[c].today] ELSE agentKey
    /\ calls' = [calls EXCEPT ![c].pc = "reserve"]
    /\ UNCHANGED <<day, asked, decision, mcpHistory>>

\* One conditional update; at the limit the answer is an error.
reserveCall(c) ==
    /\ calls[c].pc = "reserve"
    /\ LET granted == agentKey.callsToday < DailyCallLimit IN
       /\ agentKey' = IF granted THEN [agentKey EXCEPT !.callsToday = @ + 1] ELSE agentKey
       /\ calls' = [calls EXCEPT ![c].pc = IF granted THEN "run" ELSE AfterCall(c)]
    /\ UNCHANGED <<day, asked, decision, mcpHistory>>

\* Its outcome, an error included, changes nothing here.
handler(c) ==
    /\ calls[c].pc = "run" /\ served < MaxServed
    /\ served' = served + 1
    /\ calls' = [calls EXCEPT ![c].pc = AfterCall(c)]
    /\ UNCHANGED <<day, agentKey, asked, decision, denied, rotations>>

-----------------------------------------------------------------------------
(* The owner.                                                              *)

\* Mutant: an approval is looked up by its id alone.
beginAny(c, a) ==
    /\ calls[c].pc = "idle" /\ decision[a] # "NONE"
    /\ asked[a] \in agentKey.scopes
    /\ calls' = [calls EXCEPT ![c] =
                   [pc |-> IF DailyCallLimit > 0 THEN "roll" ELSE "run",
                    scope |-> asked[a], approval |-> a, today |-> day]]
    /\ UNCHANGED <<day, agentKey, asked, decision, mcpHistory>>

\* Revocation and expiry of the key are not looked at.
beginApproval(c, a) ==
    /\ calls[c].pc = "idle" /\ decision[a] = "PENDING"
    /\ asked[a] \in agentKey.scopes
    /\ calls' = [calls EXCEPT ![c] =
                   [pc |-> IF DailyCallLimit > 0 THEN "roll" ELSE "run",
                    scope |-> asked[a], approval |-> a, today |-> day]]
    /\ UNCHANGED <<day, agentKey, asked, decision, mcpHistory>>

\* Whatever the row says by now.
markApproved(c) ==
    /\ calls[c].pc = "mark"
    /\ decision' = [decision EXCEPT ![calls[c].approval] = "APPROVED"]
    /\ calls' = [calls EXCEPT ![c] = NoCall]
    /\ UNCHANGED <<day, agentKey, asked, mcpHistory>>

denyMcpAction(a) ==
    /\ decision[a] = "PENDING"
    /\ decision' = [decision EXCEPT ![a] = "DENIED"]
    /\ denied' = IF \E c \in Caller : calls[c].approval = a THEN denied ELSE denied \cup {a}
    /\ UNCHANGED <<day, agentKey, asked, calls, served, rotations>>

\* The new secret has the calls of a new day.
rotateKey ==
    /\ ~agentKey.revoked /\ rotations < MaxRotations
    /\ agentKey' = [agentKey EXCEPT !.callsToday = 0]
    /\ rotations' = rotations + 1
    /\ UNCHANGED <<day, asked, decision, calls, served, denied>>

revokeKey ==
    /\ agentKey' = [agentKey EXCEPT !.revoked = TRUE]
    /\ UNCHANGED <<day, asked, decision, calls, mcpHistory>>

nextDay ==
    /\ day < MaxDay
    /\ day' = day + 1
    /\ \E e \in BOOLEAN : agentKey' = [agentKey EXCEPT !.expired = @ \/ e]
    /\ UNCHANGED <<asked, decision, calls, mcpHistory>>

serveCall(c) == rollWindow(c) \/ reserveCall(c) \/ handler(c) \/ markApproved(c)

McpNext ==
    \/ \E c \in Caller :
           \/ authenticateKey(c) \/ endBatch(c) \/ serveCall(c)
           \/ \E s \in McpScope : dispatchTool(c, s)
                   \/ \E a \in Approval : requestApproval(c, s, a)
           \/ \E a \in Approval : beginApproval(c, a)
    \/ \E a \in Approval : denyMcpAction(a)
    \/ rotateKey \/ revokeKey \/ nextDay

McpSpec == McpInit /\ [][McpNext]_mcpVars

-----------------------------------------------------------------------------

\* However many calls are made at a time, and around midnight, a key with a
\* limit runs at most that many tools for every day that has begun, and as many
\* again for every rotation (mcp.service.ts, dispatchTool).
DailyLimitHolds ==
    DailyCallLimit > 0 => served <= DailyCallLimit * (day + 1 + rotations)

\* A denial is final unless an approval of the same action is under way, which
\* executes it and writes its own decision last: the tool is not run for it, and
\* no later request turns it into APPROVED (mcp.service.ts, denyMcpAction,
\* approveMcpAction).
DenialsHold ==
    \A a \in denied : decision[a] = "DENIED" /\ \A c \in Caller : calls[c].approval # a
=============================================================================
