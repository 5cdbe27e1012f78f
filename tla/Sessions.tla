------------------------------ MODULE Sessions ------------------------------
(***************************************************************************)
(* The sessions of an account: refresh-token rows, the cookie a browser's  *)
(* tabs share, the access token each tab keeps, requests that are answered *)
(* 401 and the one refresh a tab makes for all of them, and what ends       *)
(* sessions.  A refresh token is a number, in the order of issue, 0 none;  *)
(* an access token is the tokenVersion it carries, 0 for none or expired.  *)
(***************************************************************************)
EXTENDS Integers, FiniteSets

CONSTANTS Tab,
          MaxCalls,     \* bound: requests in flight, per tab
          MaxToken,     \* bound on the refresh tokens issued
          MaxVersion    \* bound on tokenVersion

ASSUME SessionsAssumption ==
    /\ Tab # {} /\ MaxToken \in Nat /\ MaxVersion \in Nat \ {0}
    /\ MaxCalls \in [Tab -> Nat]

VARIABLES
    user,    \* User: [version, active]
    tokens,       \* RefreshToken
    parent,     \* history: the token each was issued for, 0 for a sign-in
    cookie, access,
    call,       \* requests of a tab: [refused] with 401, [waiting] for a refresh
    refresh,
    signIn,     \* a sign-in between the reading of the user and its row
    revoker,    \* a revocation of all tokens between two statements
    ended,      \* history: somebody ended the browser's last session
    atOnce      \* history: two tabs refreshed at a time since it began

sessionsVars == <<user, tokens, parent, cookie, access, call, refresh, signIn,
                  revoker, ended, atOnce>>

Issued == DOMAIN parent
NewToken == Cardinality(Issued) + 1
Quiet == [pc |-> "none", token |-> 0, version |-> 0]
NoCalls == [refused |-> 0, waiting |-> 0]
NoRevocation == [on |-> FALSE, bump |-> FALSE, issued |-> 0, seen |-> {}]

SessionsTypeOK ==
    /\ user \in [version : 1 .. MaxVersion, active : BOOLEAN]
    /\ tokens \subseteq Issued
    /\ parent \in [1 .. Cardinality(Issued) -> 0 .. MaxToken]
    /\ cookie \in {0} \cup Issued
    /\ access \in [Tab -> 0 .. MaxVersion]
    /\ call \in [Tab -> [refused : Nat, waiting : Nat]]
    /\ refresh \in [Tab -> [pc : {"none", "sent", "found", "rotated", "refused",
                                  "failed"},
                            token : {0} \cup Issued, version : 0 .. MaxVersion]]
    /\ signIn \in [version : 0 .. MaxVersion, tab : Tab]
    /\ revoker \in [on : BOOLEAN, bump : BOOLEAN, issued : Nat, seen : SUBSET Issued]
    /\ ended \in BOOLEAN /\ atOnce \in BOOLEAN

\* register leaves the first account, its first session and the cookie.
SessionsInit ==
    /\ user = [version |-> 1, active |-> TRUE]
    /\ tokens = {1} /\ parent = [i \in {1} |-> 0] /\ cookie = 1
    /\ access = [t \in Tab |-> 1]
    /\ call = [t \in Tab |-> NoCalls]
    /\ refresh = [t \in Tab |-> Quiet]
    /\ signIn = [version |-> 0, tab |-> CHOOSE t \in Tab : TRUE]
    /\ revoker = NoRevocation
    /\ ended = FALSE /\ atOnce = FALSE

browser == <<cookie, access, call, refresh>>
userState == <<user, signIn, revoker>>
story == <<ended, atOnce>>
Crosses(t) == \E u \in Tab \ {t} : refresh[u].pc # "none"

-----------------------------------------------------------------------------
(* Requests, and the refresh they share (client lib/api.ts).               *)

\* A request, with the tab's access token or one that has expired by now, is
\* refused.  (What is served, and what becomes of a retry, changes nothing
\* here: a second 401 is given to the caller.)
authenticate(t, token) ==
    /\ call[t].refused + call[t].waiting < MaxCalls[t]
    /\ ~(user.active /\ token = user.version)
    /\ call' = [call EXCEPT ![t].refused = @ + 1]
    /\ UNCHANGED <<userState, tokens, parent, cookie, access, refresh, story>>

\* Mutant: every 401 starts a refresh of its own, the last one counts.
refreshEach(t) ==
    /\ call[t].refused > 0
    /\ call' = [call EXCEPT ![t].refused = @ - 1, ![t].waiting = @ + 1]
    /\ refresh' = [refresh EXCEPT ![t] =
                      [pc |-> "sent", token |-> cookie, version |-> 0]]
    /\ atOnce' = (atOnce \/ Crosses(t))
    /\ UNCHANGED <<userState, tokens, parent, cookie, access, ended>>

doRefresh(t) ==
    /\ call[t].refused > 0
    /\ call' = [call EXCEPT ![t].refused = @ - 1, ![t].waiting = @ + 1]
    /\ refresh' = IF refresh[t].pc # "none" THEN refresh
                  ELSE [refresh EXCEPT ![t] =
                           [pc |-> "sent", token |-> cookie, version |-> 0]]
    /\ atOnce' = (atOnce \/ Crosses(t))
    /\ UNCHANGED <<userState, tokens, parent, cookie, access, ended>>

-----------------------------------------------------------------------------
(* The refresh endpoint: one transaction at READ COMMITTED.                *)

\* Without a cookie, or at the rate limit (here the bound), the answer is no 401.
findToken(t) ==
    /\ refresh[t].pc = "sent"
    /\ refresh' = [refresh EXCEPT ![t].pc =
                      IF refresh[t].token = 0 \/ NewToken > MaxToken THEN "failed"
                      ELSE IF refresh[t].token \in tokens THEN "found"
                      ELSE "refused"]
    /\ UNCHANGED <<userState, tokens, parent, cookie, access, call, story>>

Rotated(t) ==
    /\ tokens' = (tokens \ {refresh[t].token}) \cup {NewToken}
    /\ parent' = [i \in Issued \cup {NewToken} |->
                     IF i = NewToken THEN refresh[t].token ELSE parent[i]]
    /\ refresh' = [refresh EXCEPT ![t] = [pc |-> "rotated", token |-> NewToken,
                                          version |-> user.version]]

\* Mutant: the row is deleted by a statement that does not mind its absence.
rotateAnyway(t) ==
    /\ refresh[t].pc = "found"
    /\ user.active /\ NewToken <= MaxToken
    /\ Rotated(t)
    /\ UNCHANGED <<userState, cookie, access, call, story>>

\* The delete fails if the row is gone by now; an inactive user is refused
\* and the deletion rolled back.
rotate(t) ==
    /\ refresh[t].pc = "found"
    /\ IF refresh[t].token \in tokens /\ user.active /\ NewToken <= MaxToken
       THEN Rotated(t)
       ELSE /\ refresh' = [refresh EXCEPT ![t].pc =
                  IF refresh[t].token \in tokens /\ ~user.active
                  THEN "refused" ELSE "failed"]
            /\ UNCHANGED <<tokens, parent>>
    /\ UNCHANGED <<userState, cookie, access, call, story>>

\* Mutant: after a failure the requests that wait are not answered.
answerOne(t) ==
    LET r == refresh[t] IN
    /\ r.pc \in {"rotated", "refused", "failed"}
    /\ cookie' = IF r.pc = "rotated" THEN r.token
                 ELSE IF r.pc = "refused" THEN 0 ELSE cookie
    /\ access' = [access EXCEPT ![t] = r.version]
    /\ call' = [call EXCEPT ![t].waiting = IF r.pc = "rotated" THEN 0 ELSE @]
    /\ refresh' = [refresh EXCEPT ![t] = Quiet]
    /\ UNCHANGED <<userState, tokens, parent, story>>

\* The answer: the new cookie and the retries, or the end of the tab's
\* session; only a 401 clears the cookie.
answer(t) ==
    LET r == refresh[t] IN
    /\ r.pc \in {"rotated", "refused", "failed"}
    /\ cookie' = IF r.pc = "rotated" THEN r.token
                 ELSE IF r.pc = "refused" THEN 0 ELSE cookie
    /\ access' = [access EXCEPT ![t] = IF r.pc = "rotated" THEN r.version ELSE 0]
    /\ call' = [call EXCEPT ![t].waiting = 0]
    /\ refresh' = [refresh EXCEPT ![t] = Quiet]
    /\ UNCHANGED <<userState, tokens, parent, story>>

-----------------------------------------------------------------------------
(* Sign-in, and what ends sessions.                                        *)

AtRest(t) == refresh[t].pc = "none" /\ call[t] = NoCalls

\* A password or a passkey, from the sign-in page of a tab at rest.  (The
\* cool-down after a password change puts it off; nothing here depends on when.)
login(t) ==
    /\ access[t] = 0 /\ AtRest(t) /\ signIn.version = 0
    /\ user.active
    /\ signIn' = [version |-> user.version, tab |-> t]
    /\ UNCHANGED <<user, revoker, tokens, parent, browser, story>>

\* Mutant: the row is there before the token is issued.
rowFirst ==
    /\ signIn.version # 0 /\ NewToken <= MaxToken /\ AtRest(signIn.tab)
    /\ tokens' = tokens \cup {NewToken}
    /\ signIn' = [signIn EXCEPT !.version = 0]
    /\ UNCHANGED <<user, revoker, parent, browser, story>>

saveRefreshToken ==
    /\ signIn.version # 0 /\ NewToken <= MaxToken /\ AtRest(signIn.tab)
    /\ tokens' = tokens \cup {NewToken}
    /\ parent' = [i \in Issued \cup {NewToken} |->
                     IF i = NewToken THEN 0 ELSE parent[i]]
    /\ cookie' = NewToken
    /\ access' = [access EXCEPT ![signIn.tab] = signIn.version]
    /\ signIn' = [signIn EXCEPT !.version = 0]
    /\ atOnce' = Crosses(signIn.tab)
    /\ ended' = (~user.active \/ (ended /\ atOnce'))
    /\ UNCHANGED <<user, revoker, call, refresh>>

logout(t) ==
    /\ AtRest(t) /\ access[t] # 0
    /\ tokens' = tokens \ {cookie}
    /\ cookie' = 0
    /\ access' = [access EXCEPT ![t] = 0]
    /\ ended' = TRUE
    /\ UNCHANGED <<atOnce, userState, parent, call, refresh>>

revokeSession(r) ==
    /\ r \in tokens
    /\ tokens' = tokens \ {r}
    /\ ended' = TRUE
    /\ UNCHANGED <<atOnce, userState, parent, browser>>

\* All sessions end: the version of the access tokens goes up, first or last,
\* and the rows that the deletion sees are deleted.  A rotation that commits
\* while the deletion waits for the row it deletes leaves a row it did not see.
beginRevocation(bumpFirst) ==
    /\ ~revoker.on /\ user.version < MaxVersion
    /\ user' = [user EXCEPT !.version = IF bumpFirst THEN @ + 1 ELSE @]
    /\ revoker' = [on |-> TRUE, bump |-> ~bumpFirst,
                   issued |-> Cardinality(Issued), seen |-> tokens]
    /\ ended' = TRUE
    /\ UNCHANGED <<atOnce, signIn, tokens, parent, browser>>

changePassword == beginRevocation(TRUE)
revokeAllSessions == beginRevocation(FALSE)

revokeAllUserTokens ==
    /\ revoker.on
    /\ tokens' = tokens \ revoker.seen
    /\ cookie' = 0
    /\ user' = [user EXCEPT !.version =
                      IF revoker.bump /\ @ < MaxVersion THEN @ + 1 ELSE @]
    /\ revoker' = NoRevocation
    /\ ended' = TRUE
    /\ UNCHANGED <<atOnce, signIn, parent, access, call, refresh>>

\* Mutant: a suspension only clears the flag.
flagOnly(isActive) ==
    /\ user.active # isActive
    /\ user' = [user EXCEPT !.active = isActive]
    /\ ended' = (ended \/ ~isActive)
    /\ UNCHANGED <<atOnce, signIn, revoker, tokens, parent, browser>>

\* An administrator suspends the account, or reactivates it: no row goes.
setUserStatus(isActive) ==
    /\ user.active # isActive
    /\ ~isActive => user.version < MaxVersion
    /\ user' = [user EXCEPT !.active = isActive,
                                  !.version = IF isActive THEN @ ELSE @ + 1]
    /\ ended' = (ended \/ ~isActive)
    /\ UNCHANGED <<atOnce, signIn, revoker, tokens, parent, browser>>

-----------------------------------------------------------------------------

refreshing(t) == findToken(t) \/ rotate(t) \/ answer(t)

SessionsNext ==
    \/ \E t \in Tab :
           \/ doRefresh(t) \/ refreshing(t) \/ logout(t) \/ login(t)
           \/ \E token \in {0, access[t]} : authenticate(t, token)
    \/ \E r \in tokens : revokeSession(r)
    \/ saveRefreshToken
    \/ changePassword \/ revokeAllSessions \/ revokeAllUserTokens
    \/ \E b \in BOOLEAN : setUserStatus(b)

SessionsSpec == SessionsInit /\ [][SessionsNext]_sessionsVars

-----------------------------------------------------------------------------
(* Properties.                                                             *)

\* A refresh token is used once: no two tokens were issued for the same one,
\* however many refreshes carry it (auth.controller.ts, refreshToken).
SingleUse ==
    \A i, j \in Issued : parent[i] # 0 /\ parent[i] = parent[j] => i = j

\* A browser stays signed in until somebody ends its session: when nothing is
\* in flight its cookie names a row, whatever requests of a tab are refused at
\* once (auth.controller.ts, `Use a transaction to prevent race conditions when
\* multiple 401 retries hit the refresh endpoint simultaneously with the same
\* token').  Two tabs that refresh at a time may sign it out, as the 401 of the
\* one that came second clears the cookie of both; but they never leave a cookie
\* that is dead, nor a browser whose session has no row.
KeptSignedIn ==
    ~ended /\ (\A t \in Tab : refresh[t].pc = "none") =>
        IF atOnce THEN cookie \in {0} \cup tokens /\ tokens # {}
        ELSE cookie \in tokens

\* What was issued before a suspension is of no use afterwards, nor when the
\* account is active again: no access token of a tab, none on its way in the
\* answer to a refresh, none of a sign-in (admin.controller.ts, `a suspended user
\* cannot mint new access tokens'; authenticate wants the version of the user).
SuspendedIsOut ==
    ~user.active =>
        /\ signIn.version # user.version
        /\ \A t \in Tab : user.version \notin {access[t], refresh[t].version}

\* No request is forgotten: one that waits for a refresh waits for a refresh
\* that is under way, whether it will succeed or fail (api.ts, failedQueue).
NoneForgotten ==
    \A t \in Tab : call[t].waiting > 0 => refresh[t].pc # "none"
=============================================================================
