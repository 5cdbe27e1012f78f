-------------------------- MODULE MCServices_proofs --------------------------
(***************************************************************************)
(* Proofs about the services that people's requests drive, for every value *)
(* of their constants: an inductive invariant for each of Sessions,        *)
(* Lockout, Mcp, Notifications, KeyRing, ChangeCapture and SchemaCheck     *)
(* (those of Passkeys, AtRest and Connections are in Services_proofs), and *)
(* the properties that the run Services checks of them all.  No module      *)
(* moves the state of another, so each invariant is kept by every step.    *)
(***************************************************************************)
EXTENDS MCServices, Services_proofs, TableOrder_proofs

-----------------------------------------------------------------------------
(* Sessions.                                                               *)

Size == Cardinality(Issued)
Refreshes == [pc : {"none", "sent", "found", "rotated", "refused", "failed"},
              token : {0} \cup Issued, version : 0 .. MaxVersion]

\* The tokens are numbered, and one that was rotated has no row.
TokensNumbered ==
    /\ Size \in Nat /\ Issued = 1 .. Size
    /\ \A i \in Issued : parent[i] \notin tokens /\ parent[i] < i

\* The tab that refreshes, if there is one, carries the cookie or brings a new one,
\* and the account is active.
OneRefreshes ==
    ~atOnce /\ ~ended =>
        /\ user.active
        /\ \A t, u \in Tab : refresh[t].pc # "none" /\ refresh[u].pc # "none" => t = u
        /\ (\A t \in Tab : refresh[t].pc = "none") => cookie \in tokens
        /\ \A t \in Tab :
              /\ refresh[t].pc # "refused"
              /\ refresh[t].pc \in {"sent", "found"} => refresh[t].token = cookie
              /\ refresh[t].pc \in {"sent", "found", "failed"} => cookie \in tokens
              /\ refresh[t].pc = "rotated" => refresh[t].token \in tokens

TokensInv == /\ tokens \subseteq Issued /\ parent \in [Issued -> 0 .. MaxToken]
             /\ TokensNumbered /\ SingleUse
             /\ revoker \in [on : BOOLEAN, bump : BOOLEAN, issued : Nat, seen : SUBSET Issued]
TabsTyped == /\ cookie \in {0} \cup Issued
             /\ refresh \in [Tab -> Refreshes]
             /\ call \in [Tab -> [refused : Nat, waiting : Nat]]
             /\ user \in [version : 1 .. MaxVersion, active : BOOLEAN]
             /\ access \in [Tab -> 0 .. MaxVersion]
             /\ signIn \in [version : 0 .. MaxVersion, tab : Tab]
             /\ ended \in BOOLEAN /\ atOnce \in BOOLEAN
SignInv == TokensInv /\ TabsTyped /\ NoneForgotten /\ OneRefreshes

LEMMA SignTypes == SignInv => SessionsTypeOK
<1> SUFFICES ASSUME SignInv PROVE SessionsTypeOK
  OBVIOUS
<1>1. parent \in [1 .. Cardinality(Issued) -> 0 .. MaxToken]
  BY DEF SignInv, TokensInv, TokensNumbered, Size
<1> QED  BY <1>1 DEF SignInv, TokensInv, TabsTyped, SessionsTypeOK, Refreshes

LEMMA SignInvInit == SessionsInit => SignInv
<1> SUFFICES ASSUME SessionsInit PROVE SignInv
  OBVIOUS
<1> USE SessionsAssumption
<1>1. Issued = 1 .. 1 /\ Issued = {1}
  BY DEF SessionsInit, Issued
<1>2. Size = 1
  BY <1>1, FS_Singleton DEF Size
<1>3. parent \in [Issued -> 0 .. MaxToken] /\ parent[1] = 0 /\ tokens = {1}
  BY <1>1 DEF SessionsInit
<1>4. revoker = NoRevocation /\ refresh = [t \in Tab |-> Quiet]
      /\ call = [t \in Tab |-> NoCalls]
  BY DEF SessionsInit
<1>5. TokensInv
  BY <1>1, <1>2, <1>3, <1>4 DEF TokensInv, TokensNumbered, SingleUse, NoRevocation
<1>6. TabsTyped
  <2>1. refresh \in [Tab -> Refreshes] /\ call \in [Tab -> [refused : Nat, waiting : Nat]]
    BY <1>4 DEF Quiet, NoCalls, Refreshes
  <2>2. user \in [version : 1 .. MaxVersion, active : BOOLEAN]
        /\ access \in [Tab -> 0 .. MaxVersion]
    BY DEF SessionsInit
  <2>3. signIn \in [version : 0 .. MaxVersion, tab : Tab]
    BY DEF SessionsInit
  <2> QED  BY <1>1, <2>1, <2>2, <2>3 DEF TabsTyped, SessionsInit
<1>7. NoneForgotten
  BY <1>4 DEF NoneForgotten, NoCalls
<1>8. OneRefreshes
  BY <1>3, <1>4 DEF OneRefreshes, Quiet, SessionsInit
<1> QED  BY <1>5, <1>6, <1>7, <1>8 DEF SignInv

\* A step that issues no token may delete rows.
LEMMA Fewer ==
    ASSUME TokensInv, tokens' \subseteq tokens, UNCHANGED <<parent, revoker>>
    PROVE  TokensInv'
  BY DEF TokensInv, TokensNumbered, Size, SingleUse, Issued

\* A token is issued: for a sign-in, or for one that leaves its row.
LEMMA IssueOne ==
    ASSUME TokensInv, NEW p \in {0} \cup tokens, NewToken <= MaxToken,
           tokens' = (tokens \ {p}) \cup {NewToken},
           parent' = [i \in Issued \cup {NewToken} |-> IF i = NewToken THEN p ELSE parent[i]],
           revoker' = revoker
    PROVE  TokensInv' /\ Issued' = Issued \cup {NewToken} /\ NewToken \in tokens'
<1> USE SessionsAssumption
<1>1. /\ Size \in Nat /\ Issued = 1 .. Size /\ NewToken = Size + 1
      /\ tokens \subseteq Issued /\ p \in 0 .. Size
  BY DEF TokensInv, TokensNumbered, NewToken, Size
<1>2. Issued' = Issued \cup {NewToken} /\ Issued' = 1 .. Size + 1
  BY <1>1 DEF Issued
<1>3. Size' = Size + 1
  <2>1. Cardinality(1 .. Size + 1) = Size + 1
    BY <1>1, FS_Interval
  <2> QED  BY <1>2, <2>1 DEF Size
<1>4. /\ parent' \in [Issued' -> 0 .. MaxToken] /\ parent'[NewToken] = p
      /\ \A i \in Issued : parent'[i] = parent[i]
  BY <1>1, <1>2 DEF TokensInv
<1>5. \A i \in Issued' : parent'[i] \notin tokens' /\ parent'[i] < i
  <2>1. \A i \in Issued : /\ parent[i] \notin tokens /\ parent[i] < i
                           /\ i < NewToken /\ parent[i] \in Nat
    BY <1>1 DEF TokensInv, TokensNumbered
  <2>2. \A i \in Issued : parent[i] # NewToken
    BY <1>1, <2>1
  <2>3. p \notin tokens' /\ p < NewToken
    BY <1>1
  <2> QED  BY <1>2, <1>4, <2>1, <2>2, <2>3
<1>6. SingleUse'
  BY <1>1, <1>2, <1>4 DEF TokensInv, TokensNumbered, SingleUse
<1>8. tokens' \subseteq Issued'
  BY <1>1, <1>2
<1>9. revoker' \in [on : BOOLEAN, bump : BOOLEAN, issued : Nat, seen : SUBSET Issued']
  BY <1>2 DEF TokensInv
<1>10. TokensNumbered'
  <2>1. Size' \in Nat /\ Issued' = 1 .. Size'
    BY <1>1, <1>2, <1>3
  <2> QED  BY <1>5, <2>1 DEF TokensNumbered
<1>11. NewToken \in tokens'
  OBVIOUS
<1> QED  BY <1>2, <1>4, <1>6, <1>8, <1>9, <1>10, <1>11 DEF TokensInv

\* A step of a refresh that is under way.
LEMMA OneMoves ==
    ASSUME SignInv, TokensInv', Issued \subseteq Issued',
           NEW t \in Tab, NEW r, r \in Refreshes',
           refresh' = [refresh EXCEPT ![t] = r], refresh[t].pc # "none", r.pc # "none",
           UNCHANGED <<user, cookie, access, call, signIn, story>>,
           OneRefreshes /\ ~atOnce /\ ~ended =>
               /\ r.pc # "refused"
               /\ r.pc \in {"sent", "found"} => r.token = cookie
               /\ r.pc \in {"sent", "found", "failed"} => cookie \in tokens'
               /\ r.pc = "rotated" => r.token \in tokens'
    PROVE  SignInv'
<1> USE DEF SignInv, story
<1>1. Refreshes \subseteq Refreshes'
  BY DEF Refreshes
<1>2. refresh' \in [Tab -> Refreshes']
  BY <1>1 DEF TabsTyped
<1>3. \A u \in Tab : refresh'[u] = IF u = t THEN r ELSE refresh[u]
  BY DEF TabsTyped
<1>4. TabsTyped'
  BY <1>2 DEF TabsTyped
<1>5. NoneForgotten'
  BY <1>3 DEF NoneForgotten
<1>6. OneRefreshes'
  <2> SUFFICES ASSUME ~atOnce, ~ended PROVE OneRefreshes'
    BY DEF OneRefreshes
  <2>1. \A u \in Tab \ {t} : refresh[u].pc = "none"
    BY DEF OneRefreshes
  <2> QED  BY <1>3, <2>1 DEF OneRefreshes
<1> QED  BY <1>4, <1>5, <1>6

\* A step that ends the last session leaves no claim on the tabs.
LEMMA SessionEnds ==
    ASSUME SignInv, TokensInv', Issued' = Issued, ended' = TRUE, atOnce' = atOnce,
           UNCHANGED <<call, refresh>>,
           cookie' \in {0} \cup Issued, access' \in [Tab -> 0 .. MaxVersion],
           user' \in [version : 1 .. MaxVersion, active : BOOLEAN],
           signIn' \in [version : 0 .. MaxVersion, tab : Tab]
    PROVE  SignInv'
<1>1. TabsTyped'
  BY DEF SignInv, TabsTyped, Refreshes
<1>2. NoneForgotten' /\ OneRefreshes'
  BY DEF SignInv, NoneForgotten, OneRefreshes
<1> QED  BY <1>1, <1>2 DEF SignInv

LEMMA SignInvStep == SignInv /\ [SessionsNext]_sessionsVars => SignInv'
<1> SUFFICES ASSUME SignInv, [SessionsNext]_sessionsVars PROVE SignInv'
  OBVIOUS
<1> USE SessionsAssumption DEF SignInv, userState, browser, story
<1>1. ASSUME NEW t \in Tab, NEW token \in {0, access[t]}, authenticate(t, token)
      PROVE  SignInv'
  <2>1. /\ call' = [call EXCEPT ![t].refused = @ + 1]
        /\ UNCHANGED <<userState, tokens, parent, cookie, access, refresh, story>>
    BY <1>1 DEF authenticate
  <2>2. TokensInv' /\ Issued' = Issued
    BY <2>1, Fewer DEF Issued
  <2>3. /\ call' \in [Tab -> [refused : Nat, waiting : Nat]]
        /\ \A u \in Tab : call'[u].waiting = call[u].waiting
    BY <2>1 DEF TabsTyped
  <2>4. TabsTyped'
    BY <2>1, <2>2, <2>3 DEF TabsTyped, Refreshes
  <2>5. NoneForgotten' /\ OneRefreshes'
    BY <2>1, <2>3 DEF NoneForgotten, OneRefreshes
  <2> QED  BY <2>2, <2>4, <2>5
<1>2. ASSUME NEW t \in Tab, doRefresh(t) PROVE SignInv'
  <2> DEFINE r == [pc |-> "sent", token |-> cookie, version |-> 0]
             q == [refused |-> call[t].refused - 1, waiting |-> call[t].waiting + 1]
  <2>1. /\ call[t].refused > 0
        /\ refresh' = IF refresh[t].pc # "none" THEN refresh
                      ELSE [refresh EXCEPT ![t] = r]
        /\ atOnce' = (atOnce \/ Crosses(t))
        /\ UNCHANGED <<userState, tokens, parent, cookie, access, ended>>
    BY <1>2 DEF doRefresh
  <2>2. call' = [call EXCEPT ![t] = q]
    BY <1>2 DEF doRefresh, TabsTyped
  <2>3. TokensInv' /\ Issued' = Issued
    BY <2>1, Fewer DEF Issued
  <2>4. r \in Refreshes /\ r.pc = "sent" /\ r.token = cookie
    BY DEF Refreshes, TabsTyped
  <2>5. q \in [refused : Nat, waiting : Nat]
    BY <2>1 DEF TabsTyped
  <2> HIDE DEF r, q
  <2>6. /\ \A u \in Tab \ {t} : call'[u] = call[u] /\ refresh'[u] = refresh[u]
        /\ refresh'[t] = IF refresh[t].pc # "none" THEN refresh[t] ELSE r
    BY <2>1, <2>2 DEF TabsTyped
  <2>7. TabsTyped'
    <3>1. refresh' \in [Tab -> Refreshes]
      BY <2>1, <2>4 DEF TabsTyped
    <3>2. refresh' \in [Tab -> Refreshes']
      BY <2>3, <3>1 DEF Refreshes
    <3>3. ended' \in BOOLEAN /\ atOnce' \in BOOLEAN
      BY <2>1 DEF TabsTyped, Crosses
    <3> QED  BY <2>1, <2>2, <2>3, <2>5, <3>2, <3>3 DEF TabsTyped
  <2>8. NoneForgotten'
    BY <2>4, <2>6 DEF NoneForgotten
  <2>9. OneRefreshes'
    <3> SUFFICES ASSUME ~atOnce', ~ended' PROVE OneRefreshes'
      BY DEF OneRefreshes
    <3>1. ~ended /\ ~atOnce /\ \A u \in Tab \ {t} : refresh[u].pc = "none"
      BY <2>1 DEF Crosses
    <3>2. CASE refresh[t].pc # "none"
      BY <2>1, <3>1, <3>2 DEF OneRefreshes
    <3>3. CASE refresh[t].pc = "none"
      <4>1. cookie \in tokens /\ user.active
        BY <3>1, <3>3 DEF OneRefreshes
      <4> QED  BY <2>1, <2>4, <2>6, <3>1, <3>3, <4>1 DEF OneRefreshes
    <3> QED  BY <3>2, <3>3
  <2> QED  BY <2>3, <2>7, <2>8, <2>9
<1>3. ASSUME NEW t \in Tab, findToken(t) PROVE SignInv'
  <2> DEFINE p == IF refresh[t].token = 0 \/ NewToken > MaxToken THEN "failed"
                  ELSE IF refresh[t].token \in tokens THEN "found" ELSE "refused"
             r == [refresh[t] EXCEPT !.pc = p]
  <2>1. /\ refresh[t].pc = "sent"
        /\ UNCHANGED <<userState, tokens, parent, cookie, access, call, story>>
    BY <1>3 DEF findToken
  <2>2. /\ p \in {"failed", "found", "refused"}
        /\ p = "refused" => refresh[t].token # 0 /\ refresh[t].token \notin tokens
    OBVIOUS
  <2>3. refresh' = [refresh EXCEPT ![t].pc = p]
    BY <1>3 DEF findToken
  <2> HIDE DEF p
  <2>4. refresh' = [refresh EXCEPT ![t] = r]
    BY <2>3
  <2>5. r \in Refreshes /\ r.pc = p /\ r.token = refresh[t].token
    <3>1. refresh[t] \in Refreshes
      BY DEF TabsTyped
    <3> QED  BY ONLY <2>2, <3>1 DEF Refreshes
  <2> HIDE DEF r
  <2>6. TokensInv' /\ Issued' = Issued
    <3>1. tokens' \subseteq tokens /\ UNCHANGED <<parent, revoker>>
      BY <2>1
    <3>2. TokensInv
      OBVIOUS
    <3>3. TokensInv'
      BY ONLY <3>1, <3>2, Fewer
    <3> QED  BY <3>1, <3>3 DEF Issued
  <2>7. r \in Refreshes'
    BY <2>5, <2>6 DEF Refreshes
  <2>8. OneRefreshes /\ ~atOnce /\ ~ended =>
               /\ r.pc # "refused"
               /\ r.pc \in {"sent", "found"} => r.token = cookie
               /\ r.pc \in {"sent", "found", "failed"} => cookie \in tokens'
               /\ r.pc = "rotated" => r.token \in tokens'
    BY <2>1, <2>2, <2>5 DEF OneRefreshes
  <2> QED  BY <2>1, <2>2, <2>4, <2>5, <2>6, <2>7, <2>8, OneMoves
<1>4. ASSUME NEW t \in Tab, rotate(t) PROVE SignInv'
  <2>1. /\ refresh[t].pc = "found"
        /\ UNCHANGED <<userState, cookie, access, call, story>>
    BY <1>4 DEF rotate
  <2>2. CASE refresh[t].token \in tokens /\ user.active /\ NewToken <= MaxToken
    <3> DEFINE r == [pc |-> "rotated", token |-> NewToken, version |-> user.version]
    <3>1. /\ tokens' = (tokens \ {refresh[t].token}) \cup {NewToken}
          /\ parent' = [i \in Issued \cup {NewToken} |->
                           IF i = NewToken THEN refresh[t].token ELSE parent[i]]
          /\ refresh' = [refresh EXCEPT ![t] = r]
      BY <1>4, <2>2 DEF rotate, Rotated
    <3>2. /\ TokensInv' /\ Issued' = Issued \cup {NewToken} /\ NewToken \in tokens'
      BY <2>1, <2>2, <3>1, IssueOne
    <3>3. r \in Refreshes' /\ r.pc = "rotated" /\ r.token = NewToken
      BY <3>2 DEF Refreshes, TabsTyped
    <3> HIDE DEF r
    <3> QED  BY <2>1, <3>1, <3>2, <3>3, OneMoves
  <2>3. CASE ~(refresh[t].token \in tokens /\ user.active /\ NewToken <= MaxToken)
    <3> DEFINE p == IF refresh[t].token \in tokens /\ ~user.active
                    THEN "refused" ELSE "failed"
               r == [refresh[t] EXCEPT !.pc = p]
    <3>1. UNCHANGED <<tokens, parent>> /\ refresh' = [refresh EXCEPT ![t].pc = p]
      BY <1>4, <2>3 DEF rotate
    <3>2. p \in {"refused", "failed"} /\ (p = "refused" => ~user.active)
      OBVIOUS
    <3> HIDE DEF p
    <3>3. refresh' = [refresh EXCEPT ![t] = r]
      BY <3>1
    <3>a. refresh[t] \in Refreshes
      BY DEF TabsTyped
    <3>4. r \in Refreshes /\ r.pc = p /\ r.token = refresh[t].token
      BY <3>2, <3>a DEF Refreshes
    <3> HIDE DEF r
    <3>5. TokensInv' /\ Issued' = Issued
      BY <2>1, <3>1, Fewer DEF Issued
    <3>6. r \in Refreshes'
      BY <3>4, <3>5 DEF Refreshes
    <3>7. OneRefreshes /\ ~atOnce /\ ~ended =>
              r.pc = "failed" /\ cookie \in tokens'
      BY <2>1, <3>1, <3>2, <3>4 DEF OneRefreshes
    <3> QED  BY <2>1, <3>2, <3>3, <3>4, <3>5, <3>6, <3>7, OneMoves
  <2> QED  BY <2>2, <2>3
<1>5. ASSUME NEW t \in Tab, answer(t) PROVE SignInv'
  <2> DEFINE r == refresh[t]
  <2>1. /\ r.pc \in {"rotated", "refused", "failed"}
        /\ cookie' = IF r.pc = "rotated" THEN r.token
                     ELSE IF r.pc = "refused" THEN 0 ELSE cookie
        /\ access' = [access EXCEPT ![t] = IF r.pc = "rotated" THEN r.version ELSE 0]
        /\ call' = [call EXCEPT ![t].waiting = 0]
        /\ refresh' = [refresh EXCEPT ![t] = Quiet]
        /\ UNCHANGED <<userState, tokens, parent, story>>
    BY <1>5 DEF answer
  <2>2. r \in Refreshes
    BY DEF TabsTyped
  <2>3. TokensInv' /\ Issued' = Issued
    BY <2>1, Fewer DEF Issued
  <2>4. Quiet \in Refreshes /\ Quiet.pc = "none"
    BY DEF Quiet, Refreshes
  <2>5. /\ refresh' \in [Tab -> Refreshes]
        /\ \A u \in Tab : refresh'[u] = IF u = t THEN Quiet ELSE refresh[u]
    BY <2>1, <2>4 DEF TabsTyped
  <2>6. /\ call' \in [Tab -> [refused : Nat, waiting : Nat]]
        /\ \A u \in Tab : call'[u].waiting = IF u = t THEN 0 ELSE call[u].waiting
    BY <2>1 DEF TabsTyped
  <2>7. cookie' \in {0} \cup Issued /\ access' \in [Tab -> 0 .. MaxVersion]
    <3>1. r.token \in {0} \cup Issued /\ r.version \in 0 .. MaxVersion
      BY <2>2 DEF Refreshes
    <3> HIDE DEF r
    <3> QED  BY <2>1, <3>1 DEF TabsTyped
  <2>8. TabsTyped'
    <3>1. refresh' \in [Tab -> Refreshes']
      BY <2>3, <2>5 DEF Refreshes
    <3> QED  BY <2>1, <2>3, <2>6, <2>7, <3>1 DEF TabsTyped
  <2>9. NoneForgotten'
    BY <2>5, <2>6 DEF NoneForgotten
  <2>10. OneRefreshes'
    <3> SUFFICES ASSUME ~atOnce, ~ended PROVE OneRefreshes'
      BY <2>1 DEF OneRefreshes
    <3>1. \A u \in Tab \ {t} : refresh[u].pc = "none"
      BY <2>1 DEF OneRefreshes
    <3>2. cookie' \in tokens' /\ user'.active
      BY <2>1 DEF OneRefreshes
    <3> QED  BY <2>4, <2>5, <3>1, <3>2 DEF OneRefreshes
  <2> QED  BY <2>3, <2>8, <2>9, <2>10
<1>6. ASSUME NEW t \in Tab, login(t) PROVE SignInv'
  <2>1. /\ signIn' = [version |-> user.version, tab |-> t]
        /\ UNCHANGED <<user, revoker, tokens, parent, cookie, access, call, refresh, story>>
    BY <1>6 DEF login
  <2>2. TokensInv' /\ Issued' = Issued
    BY <2>1, Fewer DEF Issued
  <2>3. signIn' \in [version : 0 .. MaxVersion, tab : Tab]
    BY <2>1 DEF TabsTyped
  <2>4. TabsTyped'
    BY <2>1, <2>2, <2>3 DEF TabsTyped, Refreshes
  <2>5. NoneForgotten' /\ OneRefreshes'
    BY <2>1 DEF NoneForgotten, OneRefreshes
  <2> QED  BY <2>2, <2>4, <2>5
<1>7. CASE saveRefreshToken
  <2>1. /\ NewToken <= MaxToken /\ AtRest(signIn.tab)
        /\ tokens' = tokens \cup {NewToken}
        /\ parent' = [i \in Issued \cup {NewToken} |->
                         IF i = NewToken THEN 0 ELSE parent[i]]
        /\ cookie' = NewToken
        /\ access' = [access EXCEPT ![signIn.tab] = signIn.version]
        /\ signIn' = [signIn EXCEPT !.version = 0]
        /\ atOnce' = Crosses(signIn.tab)
        /\ ended' = (~user.active \/ (ended /\ atOnce'))
        /\ UNCHANGED <<user, revoker, call, refresh>>
    BY <1>7 DEF saveRefreshToken
  <2>2. 0 \notin tokens
    BY DEF TokensInv, TokensNumbered
  <2>3. tokens' = (tokens \ {0}) \cup {NewToken}
    BY <2>1, <2>2
  <2>4. TokensInv' /\ Issued' = Issued \cup {NewToken} /\ NewToken \in tokens'
    <3> DEFINE p == 0
    <3>1. parent' = [i \in Issued \cup {NewToken} |-> IF i = NewToken THEN p ELSE parent[i]]
      BY <2>1
    <3>2. p \in {0} \cup tokens /\ tokens' = (tokens \ {p}) \cup {NewToken}
      BY <2>3
    <3> HIDE DEF p
    <3> QED  BY <2>1, <3>1, <3>2, IssueOne
  <2>5. TabsTyped'
    <3>1. signIn.tab \in Tab /\ signIn.version \in 0 .. MaxVersion
          /\ user.active \in BOOLEAN
      BY DEF TabsTyped
    <3>2. signIn' \in [version : 0 .. MaxVersion, tab : Tab]
      BY <2>1 DEF TabsTyped
    <3>3. access' \in [Tab -> 0 .. MaxVersion]
      BY <2>1, <3>1 DEF TabsTyped
    <3>4. refresh' \in [Tab -> Refreshes']
      BY <2>1, <2>4 DEF TabsTyped, Refreshes
    <3>5. ended' \in BOOLEAN /\ atOnce' \in BOOLEAN
      BY <2>1, <3>1 DEF Crosses, TabsTyped
    <3> QED  BY <2>1, <2>4, <3>2, <3>3, <3>4, <3>5 DEF TabsTyped
  <2>6. NoneForgotten'
    BY <2>1 DEF NoneForgotten
  <2>7. OneRefreshes'
    <3> SUFFICES ASSUME ~atOnce', ~ended' PROVE OneRefreshes'
      BY DEF OneRefreshes
    <3>1. user.active /\ \A u \in Tab : refresh[u].pc = "none"
      BY <2>1 DEF Crosses, AtRest, TabsTyped
    <3> QED  BY <2>1, <2>4, <3>1 DEF OneRefreshes
  <2> QED  BY <2>4, <2>5, <2>6, <2>7
<1>8. ASSUME NEW t \in Tab, logout(t) PROVE SignInv'
  <2>1. /\ tokens' \subseteq tokens /\ cookie' = 0 /\ access' = [access EXCEPT ![t] = 0]
        /\ ended' = TRUE
        /\ UNCHANGED <<atOnce, userState, parent, call, refresh>>
    BY <1>8 DEF logout
  <2>2. TokensInv' /\ Issued' = Issued
    BY <2>1, Fewer DEF Issued
  <2>3. access' \in [Tab -> 0 .. MaxVersion]
    BY <2>1 DEF TabsTyped
  <2> QED  BY <2>1, <2>2, <2>3, SessionEnds DEF TabsTyped
<1>9. ASSUME NEW r \in tokens, revokeSession(r) PROVE SignInv'
  <2>1. tokens' \subseteq tokens /\ ended' = TRUE /\ UNCHANGED <<atOnce, userState, parent, browser>>
    BY <1>9 DEF revokeSession
  <2>2. TokensInv' /\ Issued' = Issued
    BY <2>1, Fewer DEF Issued
  <2> QED  BY <2>1, <2>2, SessionEnds DEF TabsTyped
<1>10. ASSUME NEW b \in BOOLEAN, beginRevocation(b) PROVE SignInv'
  <2>1. /\ user.version < MaxVersion
        /\ user' = [user EXCEPT !.version = IF b THEN @ + 1 ELSE @]
        /\ revoker' = [on |-> TRUE, bump |-> ~b, issued |-> Cardinality(Issued),
                       seen |-> tokens]
        /\ ended' = TRUE
        /\ UNCHANGED <<atOnce, signIn, tokens, parent, browser>>
    BY <1>10 DEF beginRevocation
  <2>2. Issued' = Issued /\ Size' = Size
    BY <2>1 DEF Issued, Size
  <2>3. /\ revoker'.issued = Size /\ revoker'.seen = tokens
        /\ revoker' \in [on : BOOLEAN, bump : BOOLEAN, issued : Nat, seen : SUBSET Issued]
    BY <2>1 DEF TokensInv, TokensNumbered, Size
  <2>4. TokensInv'
    BY <2>1, <2>2, <2>3 DEF TokensInv, TokensNumbered, SingleUse
  <2>5. user' \in [version : 1 .. MaxVersion, active : BOOLEAN]
    BY <2>1 DEF TabsTyped
  <2> QED  BY <2>1, <2>2, <2>4, <2>5, SessionEnds DEF TabsTyped
<1>11. CASE revokeAllUserTokens
  <2>1. /\ tokens' \subseteq tokens /\ cookie' = 0
        /\ user' = [user EXCEPT !.version =
                          IF revoker.bump /\ @ < MaxVersion THEN @ + 1 ELSE @]
        /\ revoker' = NoRevocation /\ ended' = TRUE
        /\ UNCHANGED <<atOnce, signIn, parent, access, call, refresh>>
    BY <1>11 DEF revokeAllUserTokens
  <2>2. Issued' = Issued /\ Size' = Size
    BY <2>1 DEF Issued, Size
  <2>3. TokensInv'
    BY <2>1, <2>2 DEF TokensInv, TokensNumbered, SingleUse, NoRevocation
  <2>4. user' \in [version : 1 .. MaxVersion, active : BOOLEAN]
    BY <2>1 DEF TabsTyped
  <2> QED  BY <2>1, <2>2, <2>3, <2>4, SessionEnds DEF TabsTyped
<1>12. ASSUME NEW b \in BOOLEAN, setUserStatus(b) PROVE SignInv'
  <2>1. /\ ~b => user.version < MaxVersion
        /\ user' = [user EXCEPT !.active = b, !.version = IF b THEN @ ELSE @ + 1]
        /\ ended' = (ended \/ ~b)
        /\ UNCHANGED <<atOnce, signIn, revoker, tokens, parent, cookie, access, call, refresh>>
    BY <1>12 DEF setUserStatus
  <2>2. TokensInv' /\ Issued' = Issued
    BY <2>1, Fewer DEF Issued
  <2>3. user' \in [version : 1 .. MaxVersion, active : BOOLEAN]
    <3>1. user.version \in 1 .. MaxVersion
      BY DEF TabsTyped
    <3> DEFINE v == IF b THEN user.version ELSE user.version + 1
    <3>2. user' = [version |-> v, active |-> b]
      BY <2>1 DEF TabsTyped
    <3>3. v \in 1 .. MaxVersion
      BY <2>1, <3>1
    <3> HIDE DEF v
    <3> QED  BY <3>2, <3>3
  <2>4. TabsTyped'
    BY <2>1, <2>2, <2>3 DEF TabsTyped, Refreshes
  <2>5. CASE b
    <3>1. ended' = ended
      BY <2>1, <2>5 DEF TabsTyped
    <3>2. user'.active
      BY <2>1, <2>5 DEF TabsTyped
    <3>3. NoneForgotten' /\ OneRefreshes'
      BY <2>1, <3>1, <3>2 DEF NoneForgotten, OneRefreshes
    <3> QED  BY <2>2, <2>4, <3>3
  <2>6. CASE ~b
    <3>1. NoneForgotten' /\ OneRefreshes'
      BY <2>1, <2>6 DEF NoneForgotten, OneRefreshes
    <3> QED  BY <2>2, <2>4, <3>1
  <2> QED  BY <2>5, <2>6
<1>13. CASE UNCHANGED sessionsVars
  <2>1. TokensInv' /\ Issued' = Issued
    BY <1>13, Fewer DEF Issued, sessionsVars
  <2>2. TabsTyped' /\ NoneForgotten' /\ OneRefreshes'
    BY <1>13, <2>1 DEF sessionsVars, TabsTyped, Refreshes, NoneForgotten, OneRefreshes
  <2> QED  BY <2>1, <2>2
<1> QED  BY <1>1, <1>2, <1>3, <1>4, <1>5, <1>6, <1>7, <1>8, <1>9, <1>10, <1>11, <1>12, <1>13
         DEF SessionsNext, refreshing, changePassword, revokeAllSessions

\* As long as nobody has ended the session, whoever refreshes at a time: what a refresh
\* brings is a row that no other request carries, and the cookie is gone, or names a row,
\* or is about to be replaced.
CookieLives ==
    ~ended =>
        /\ tokens # {}
        /\ cookie \in {0} \cup tokens \/ \E t \in Tab : refresh[t].pc = "rotated"
        /\ \A t \in Tab : refresh[t].pc = "rotated" =>
              /\ refresh[t].token \in tokens /\ refresh[t].token # cookie
              /\ \A u \in Tab \ {t} : refresh[u].token # refresh[t].token

\* No version that a tab holds, or is about to, is ahead of the user's.
OldVersions ==
    /\ signIn.version <= user.version
    /\ \A t \in Tab : access[t] <= user.version /\ refresh[t].version <= user.version

SignedInv == SignInv /\ CookieLives /\ OldVersions /\ SuspendedIsOut

LEMMA SignedInvInit == SessionsInit => SignedInv
<1> SUFFICES ASSUME SessionsInit PROVE SignedInv
  OBVIOUS
<1>1. CookieLives /\ OldVersions /\ SuspendedIsOut
  BY SessionsAssumption DEF SessionsInit, CookieLives, OldVersions, SuspendedIsOut, Quiet
<1> QED  BY <1>1, SignInvInit DEF SignedInv

LEMMA LivesStep == SignedInv /\ [SessionsNext]_sessionsVars => CookieLives'
<1> SUFFICES ASSUME SignedInv, [SessionsNext]_sessionsVars, ~ended' PROVE CookieLives'
  BY DEF CookieLives
<1> USE DEF userState, browser, story
<1>0. /\ refresh \in [Tab -> Refreshes] /\ tokens \subseteq Issued
      /\ Issued = 1 .. Size /\ Size \in Nat /\ NewToken = Size + 1
      /\ cookie \in {0} \cup Issued
      /\ \A t \in Tab : refresh[t].token \in {0} \cup Issued
  BY DEF SignedInv, SignInv, TokensInv, TabsTyped, TokensNumbered, NewToken, Size, Refreshes
<1>a. NewToken \notin Issued /\ NewToken # 0 /\ NewToken # cookie /\ 0 \notin tokens
      /\ \A t \in Tab : refresh[t].token # NewToken
  BY <1>0
<1>b. ASSUME ~ended, UNCHANGED <<tokens, cookie, refresh>> PROVE CookieLives'
  BY <1>b DEF SignedInv, CookieLives
<1>1. ASSUME NEW t \in Tab, doRefresh(t) PROVE CookieLives'
  <2>1. /\ UNCHANGED <<tokens, cookie, ended>>
        /\ refresh' = IF refresh[t].pc # "none" THEN refresh
                      ELSE [refresh EXCEPT ![t] =
                               [pc |-> "sent", token |-> cookie, version |-> 0]]
    BY <1>1 DEF doRefresh
  <2>2. CASE refresh[t].pc # "none"
    BY <1>b, <2>1, <2>2
  <2>3. CASE refresh[t].pc = "none"
    <3>1. \A u \in Tab : IF u = t THEN refresh'[u].pc = "sent" /\ refresh'[u].token = cookie
                          ELSE refresh'[u] = refresh[u]
      BY <1>0, <2>1, <2>3
    <3> QED  BY <2>1, <2>3, <3>1 DEF SignedInv, CookieLives
  <2> QED  BY <2>2, <2>3
<1>2. ASSUME NEW t \in Tab, findToken(t) PROVE CookieLives'
  <2>1. /\ UNCHANGED <<tokens, cookie, ended>> /\ refresh[t].pc = "sent"
        /\ \A u \in Tab \ {t} : refresh'[u] = refresh[u]
        /\ refresh'[t].pc # "rotated" /\ refresh'[t].token = refresh[t].token
    BY <1>0, <1>2 DEF findToken, Refreshes
  <2> QED  BY <2>1 DEF SignedInv, CookieLives
<1>3. ASSUME NEW t \in Tab, rotate(t) PROVE CookieLives'
  <2>1. UNCHANGED <<cookie, ended>> /\ refresh[t].pc = "found"
    BY <1>3 DEF rotate
  <2>2. CASE refresh[t].token \in tokens /\ user.active /\ NewToken <= MaxToken
    <3>1. /\ tokens' = (tokens \ {refresh[t].token}) \cup {NewToken}
          /\ \A u \in Tab \ {t} : refresh'[u] = refresh[u]
          /\ refresh'[t].pc = "rotated" /\ refresh'[t].token = NewToken
      BY <1>0, <1>3, <2>2 DEF rotate, Rotated
    <3>2. \A u \in Tab \ {t} : refresh[u].pc = "rotated" =>
              refresh[u].token \in tokens /\ refresh[u].token # cookie
              /\ \A v \in Tab \ {u} : refresh[v].token # refresh[u].token
      BY <2>1 DEF SignedInv, CookieLives
    <3> QED  BY <1>a, <2>1, <3>1, <3>2 DEF CookieLives
  <2>3. CASE ~(refresh[t].token \in tokens /\ user.active /\ NewToken <= MaxToken)
    <3>1. /\ tokens' = tokens
          /\ \A u \in Tab \ {t} : refresh'[u] = refresh[u]
          /\ refresh'[t].pc # "rotated" /\ refresh'[t].token = refresh[t].token
      BY <1>0, <1>3, <2>3 DEF rotate, Refreshes
    <3> QED  BY <2>1, <3>1 DEF SignedInv, CookieLives
  <2> QED  BY <2>2, <2>3
<1>4. ASSUME NEW t \in Tab, answer(t) PROVE CookieLives'
  <2>1. /\ refresh[t].pc \in {"rotated", "refused", "failed"}
        /\ UNCHANGED <<tokens, ended>>
        /\ cookie' = IF refresh[t].pc = "rotated" THEN refresh[t].token
                     ELSE IF refresh[t].pc = "refused" THEN 0 ELSE cookie
        /\ \A u \in Tab \ {t} : refresh'[u] = refresh[u]
        /\ refresh'[t].pc = "none" /\ refresh'[t].token = 0
    BY <1>0, <1>4 DEF answer, Quiet
  <2>2. \A u \in Tab \ {t} : refresh[u].pc = "rotated" =>
            /\ refresh[u].token \in tokens /\ refresh[u].token # 0
            /\ refresh[u].token # cookie /\ refresh[u].token # refresh[t].token
            /\ \A v \in Tab \ {u} : refresh[v].token # refresh[u].token
    BY <1>a, <2>1 DEF SignedInv, CookieLives
  <2>3. \A u \in Tab : refresh'[u].pc = "rotated" =>
            /\ refresh'[u].token \in tokens' /\ refresh'[u].token # cookie'
            /\ \A v \in Tab \ {u} : refresh'[v].token # refresh'[u].token
    BY <2>1, <2>2
  <2>4. cookie' \in {0} \cup tokens' \/ \E u \in Tab : refresh'[u].pc = "rotated"
    BY <2>1 DEF SignedInv, CookieLives
  <2>5. tokens' # {}
    BY <2>1 DEF SignedInv, CookieLives
  <2> QED  BY <2>3, <2>4, <2>5 DEF CookieLives
<1>5. CASE saveRefreshToken
  <2>1. /\ tokens' = tokens \cup {NewToken} /\ cookie' = NewToken /\ refresh' = refresh
        /\ signIn.tab \in Tab /\ refresh[signIn.tab].pc = "none"
        /\ ended' = (~user.active \/ (ended /\ Crosses(signIn.tab)))
    BY <1>5 DEF saveRefreshToken, AtRest, SignedInv, SignInv, TabsTyped
  <2>2. CASE ended
    <3>1. \A u \in Tab : refresh[u].pc = "none"
      BY <2>1, <2>2 DEF Crosses
    <3> QED  BY <2>1, <3>1 DEF CookieLives
  <2>3. CASE ~ended
    BY <1>a, <2>1, <2>3 DEF SignedInv, CookieLives
  <2> QED  BY <2>2, <2>3
<1>6. ASSUME NEW b \in BOOLEAN, setUserStatus(b) PROVE CookieLives'
  BY <1>b, <1>6 DEF setUserStatus
<1>7. ASSUME NEW t \in Tab, NEW token, authenticate(t, token) PROVE CookieLives'
  BY <1>b, <1>7 DEF authenticate
<1>8. ASSUME NEW t \in Tab, login(t) PROVE CookieLives'
  BY <1>b, <1>8 DEF login
<1>9. CASE UNCHANGED sessionsVars
  BY <1>b, <1>9 DEF sessionsVars
<1>10. ASSUME ended' = TRUE PROVE FALSE
  BY <1>10
<1> QED
  BY <1>1, <1>2, <1>3, <1>4, <1>5, <1>6, <1>7, <1>8, <1>9, <1>10
     DEF SessionsNext, refreshing, logout, revokeSession, changePassword, revokeAllSessions,
         beginRevocation, revokeAllUserTokens

LEMMA VersionsStep ==
    SignedInv /\ [SessionsNext]_sessionsVars => OldVersions' /\ SuspendedIsOut'
<1> SUFFICES ASSUME SignedInv, [SessionsNext]_sessionsVars PROVE OldVersions' /\ SuspendedIsOut'
  OBVIOUS
<1> USE DEF userState, browser, story
<1>0. /\ refresh \in [Tab -> Refreshes] /\ access \in [Tab -> 0 .. MaxVersion]
      /\ user \in [version : 1 .. MaxVersion, active : BOOLEAN] /\ user.version \in Nat \ {0}
      /\ signIn \in [version : 0 .. MaxVersion, tab : Tab] /\ signIn.version \in Nat
      /\ \A t \in Tab : access[t] \in Nat /\ refresh[t].version \in Nat
  BY SessionsAssumption DEF SignedInv, SignInv, TabsTyped, Refreshes
<1>a. /\ signIn.version <= user.version
      /\ \A t \in Tab : access[t] <= user.version /\ refresh[t].version <= user.version
  BY DEF SignedInv, OldVersions
<1>b. ~user.active =>
          /\ signIn.version # user.version
          /\ \A t \in Tab : access[t] # user.version /\ refresh[t].version # user.version
  BY DEF SignedInv, SuspendedIsOut
\* No version is new, but in an active account the user's own.
<1> DEFINE Own == IF user.active THEN {user.version} ELSE {}
<1>c. ASSUME user' = user, signIn'.version \in {0, signIn.version} \cup Own,
             \A t \in Tab :
                /\ access'[t] \in {0, access[t], refresh[t].version, signIn.version}
                /\ refresh'[t].version \in {0, refresh[t].version} \cup Own
      PROVE  OldVersions' /\ SuspendedIsOut'
  <2>1. signIn'.version <= user.version
        /\ (~user.active => signIn'.version # user.version)
    BY <1>0, <1>a, <1>b, <1>c
  <2>2. ASSUME NEW t \in Tab
        PROVE  /\ access'[t] <= user.version /\ refresh'[t].version <= user.version
               /\ ~user.active =>
                     access'[t] # user.version /\ refresh'[t].version # user.version
    BY <1>0, <1>a, <1>b, <1>c
  <2> QED  BY <1>c, <2>1, <2>2 DEF OldVersions, SuspendedIsOut
<1> HIDE DEF Own
\* The user's version goes up, or the account is active afterwards.
<1>d. ASSUME UNCHANGED <<signIn, access, refresh>>,
             user'.version = user.version + 1 \/ (user'.version = user.version
                 /\ (user'.active \/ user' = user))
      PROVE  OldVersions' /\ SuspendedIsOut'
  <2>1. \A v \in Nat : v <= user.version =>
            /\ v <= user'.version
            /\ user'.version = user.version + 1 => v # user'.version
    BY <1>0, <1>d
  <2> QED  BY <1>0, <1>a, <1>b, <1>d, <2>1 DEF OldVersions, SuspendedIsOut
<1>1. ASSUME NEW t \in Tab, doRefresh(t) PROVE OldVersions' /\ SuspendedIsOut'
  <2>1. /\ UNCHANGED <<user, signIn, access>>
        /\ refresh' = refresh \/ refresh' = [refresh EXCEPT ![t] =
                               [pc |-> "sent", token |-> cookie, version |-> 0]]
    BY <1>1 DEF doRefresh
  <2>2. \A u \in Tab : refresh'[u].version \in {0, refresh[u].version}
    BY <1>0, <2>1
  <2> QED  BY <1>c, <2>1, <2>2
<1>2. ASSUME NEW t \in Tab, findToken(t) PROVE OldVersions' /\ SuspendedIsOut'
  <2>1. /\ UNCHANGED <<user, signIn, access>>
        /\ \A u \in Tab : refresh'[u].version = refresh[u].version
    BY <1>0, <1>2 DEF findToken, Refreshes
  <2> QED  BY <1>c, <2>1
<1>3. ASSUME NEW t \in Tab, rotate(t) PROVE OldVersions' /\ SuspendedIsOut'
  <2>1. UNCHANGED <<user, signIn, access>>
    BY <1>3 DEF rotate
  <2>2. CASE refresh[t].token \in tokens /\ user.active /\ NewToken <= MaxToken
    <3>1. \A u \in Tab : refresh'[u].version = IF u = t THEN user.version
                                                ELSE refresh[u].version
      BY <1>0, <1>3, <2>2 DEF rotate, Rotated
    <3>2. user.version \in Own
      BY <2>2 DEF Own
    <3> QED  BY <1>c, <2>1, <3>1, <3>2
  <2>3. CASE ~(refresh[t].token \in tokens /\ user.active /\ NewToken <= MaxToken)
    <3>1. \A u \in Tab : refresh'[u].version = refresh[u].version
      BY <1>0, <1>3, <2>3 DEF rotate, Refreshes
    <3> QED  BY <1>c, <2>1, <3>1
  <2> QED  BY <2>2, <2>3
<1>4. ASSUME NEW t \in Tab, answer(t) PROVE OldVersions' /\ SuspendedIsOut'
  <2>1. UNCHANGED <<user, signIn>>
    BY <1>4 DEF answer
  <2>2. \A u \in Tab : /\ access'[u] \in {0, access[u], refresh[u].version}
                        /\ refresh'[u].version \in {0, refresh[u].version}
    BY <1>0, <1>4 DEF answer, Quiet
  <2> QED  BY <1>c, <2>1, <2>2
<1>5. CASE saveRefreshToken
  <2>1. /\ UNCHANGED <<user, refresh>> /\ signIn'.version = 0
        /\ \A u \in Tab : access'[u] \in {access[u], signIn.version}
    BY <1>0, <1>5 DEF saveRefreshToken
  <2> QED  BY <1>c, <2>1
<1>6. ASSUME NEW b \in BOOLEAN, setUserStatus(b) PROVE OldVersions' /\ SuspendedIsOut'
  <2>1. /\ UNCHANGED <<signIn, access, refresh>>
        /\ user' = [user EXCEPT !.active = b, !.version = IF b THEN @ ELSE @ + 1]
    BY <1>6 DEF setUserStatus
  <2> QED  BY <1>0, <1>d, <2>1
<1>7. ASSUME NEW t \in Tab, NEW token, authenticate(t, token)
      PROVE  OldVersions' /\ SuspendedIsOut'
  BY <1>c, <1>7 DEF authenticate
<1>8. ASSUME NEW t \in Tab, login(t) PROVE OldVersions' /\ SuspendedIsOut'
  <2>1. /\ UNCHANGED <<user, access, refresh>> /\ signIn'.version = user.version
        /\ user.version \in Own
    BY <1>8 DEF login, Own
  <2> QED  BY <1>c, <2>1
<1>9. ASSUME NEW t \in Tab, logout(t) PROVE OldVersions' /\ SuspendedIsOut'
  <2>1. /\ UNCHANGED <<user, signIn, refresh>>
        /\ \A u \in Tab : access'[u] \in {0, access[u]}
    BY <1>0, <1>9 DEF logout
  <2> QED  BY <1>c, <2>1
<1>10. ASSUME NEW r \in tokens, revokeSession(r) PROVE OldVersions' /\ SuspendedIsOut'
  BY <1>c, <1>10 DEF revokeSession
<1>11. ASSUME NEW b \in BOOLEAN, beginRevocation(b) PROVE OldVersions' /\ SuspendedIsOut'
  <2>1. /\ UNCHANGED <<signIn, access, refresh>>
        /\ user' = [user EXCEPT !.version = IF b THEN @ + 1 ELSE @]
    BY <1>11 DEF beginRevocation
  <2> QED  BY <1>0, <1>d, <2>1
<1>12. CASE revokeAllUserTokens
  <2>1. /\ UNCHANGED <<signIn, access, refresh>>
        /\ user' = [user EXCEPT !.version =
                        IF revoker.bump /\ @ < MaxVersion THEN @ + 1 ELSE @]
    BY <1>12 DEF revokeAllUserTokens
  <2> QED  BY <1>0, <1>d, <2>1
<1>13. CASE UNCHANGED sessionsVars
  BY <1>c, <1>13 DEF sessionsVars
<1> QED
  BY <1>1, <1>2, <1>3, <1>4, <1>5, <1>6, <1>7, <1>8, <1>9, <1>10, <1>11, <1>12, <1>13
     DEF SessionsNext, refreshing, changePassword, revokeAllSessions

LEMMA SignedInvStep == SignedInv /\ [SessionsNext]_sessionsVars => SignedInv'
  BY SignInvStep, LivesStep, VersionsStep DEF SignedInv

LEMMA SignedInFromInv ==
    SignedInv => SessionsTypeOK /\ SingleUse /\ NoneForgotten /\ SuspendedIsOut /\ KeptSignedIn
<1> SUFFICES ASSUME SignedInv, \A t \in Tab : refresh[t].pc = "none", ~ended
             PROVE  IF atOnce THEN cookie \in {0} \cup tokens /\ tokens # {}
                    ELSE cookie \in tokens
  BY SignTypes DEF SignedInv, SignInv, TokensInv, KeptSignedIn
<1> QED  BY DEF SignedInv, SignInv, OneRefreshes, CookieLives

-----------------------------------------------------------------------------
(* Lockout.                                                                *)

\* The account's counter remembers the last alert, or it is more than a window ago; the
\* last mail is the one whose time is kept.
SpacedInv ==
    /\ alerts[2] <= window.start /\ window.start <= now
    /\ alerts[2] # 0 => window.alertAt = alerts[2] \/ now - alerts[2] > Window
    /\ mails[2] = mailAt

LockoutInv == LockoutTypeOK /\ SpacedInv /\ AlertsSpaced /\ MailsSpaced

LEMMA LockoutInvInit == LockoutInit => LockoutInv
<1> SUFFICES ASSUME LockoutInit PROVE LockoutInv
  OBVIOUS
<1> USE LockoutAssumption DEF LockoutInit
<1>1. Start \in Nat
  BY DEF Start
<1>2. LockoutTypeOK
  BY <1>1 DEF LockoutTypeOK, Fresh
<1>3. SpacedInv /\ AlertsSpaced /\ MailsSpaced
  BY <1>1 DEF SpacedInv, AlertsSpaced, MailsSpaced
<1> QED  BY <1>2, <1>3 DEF LockoutInv

\* What a failed sign-in makes of the lock.
LEMMA LockType ==
    ASSUME LockoutTypeOK, NEW ip \in Ip
    PROVE  recordLoginFailure(ip) \in [fails : 0 .. Attempts - 1, until : Nat]
  BY LockoutAssumption DEF LockoutTypeOK, recordLoginFailure

LEMMA FailStep ==
    ASSUME LockoutInv, NEW ip \in Ip, failLogin(ip)
    PROVE  LockoutInv'
<1> USE LockoutAssumption DEF LockoutInv
<1> DEFINE expired == now - window.start > Window
           w == IF expired
                THEN [start |-> now, count |-> 1, ips |-> {ip}, alertAt |-> 0]
                ELSE [window EXCEPT !.count = @ + 1, !.ips = @ \cup {ip}]
           trips == /\ w.count >= Threshold /\ Cardinality(w.ips) >= 2
                    /\ now - w.alertAt > Window
           mail == ~trips /\ now - mailAt >= NotifyGap
           r == IF trips THEN [start |-> now, count |-> 0, ips |-> {}, alertAt |-> now]
                ELSE w
           Windows == [start : Nat, count : Nat, ips : SUBSET Ip, alertAt : Nat]
<1>1. /\ trying[ip] > 0 /\ trying' = [trying EXCEPT ![ip] = @ - 1]
      /\ lock' = [lock EXCEPT ![ip] = recordLoginFailure(ip)]
      /\ window' = [r EXCEPT !.count = IF @ > Threshold THEN Threshold ELSE @]
      /\ mailAt' = IF mail THEN now ELSE mailAt
      /\ alerts' = IF trips THEN <<alerts[2], now>> ELSE alerts
      /\ mails' = IF mail THEN <<mails[2], now>> ELSE mails
      /\ now' = now
  BY DEF failLogin, recordAccountFailure
<1>2. now \in Nat /\ window \in Windows /\ mailAt \in Nat
      /\ alerts[2] \in Nat /\ mails[2] \in Nat
  BY DEF LockoutTypeOK
<1>3. /\ w \in Windows
      /\ expired => w.start = now /\ w.alertAt = 0 /\ w.count = 1
      /\ ~expired => w.start = window.start /\ w.alertAt = window.alertAt
  <2>1. CASE expired
    BY <1>2, <2>1
  <2>2. CASE ~expired
    <3>1. w = [start |-> window.start, count |-> window.count + 1,
               ips |-> window.ips \cup {ip}, alertAt |-> window.alertAt]
      BY <1>2, <2>2
    <3> QED  BY <1>2, <2>2, <3>1
  <2> QED  BY <2>1, <2>2
<1>4. trips => now - w.alertAt > Window /\ ~expired
  BY <1>2, <1>3
<1> HIDE DEF w, trips
<1>5. r \in Windows
      /\ r.start = (IF trips THEN now ELSE w.start)
      /\ r.alertAt = IF trips THEN now ELSE w.alertAt
  BY <1>2, <1>3
<1> HIDE DEF r, mail
<1>6. window' \in Windows /\ window'.start = r.start /\ window'.alertAt = r.alertAt
  BY <1>1, <1>5
<1>7. LockoutTypeOK'
  <2>1. trying' \in [Ip -> 0 .. MaxFlight]
    BY <1>1 DEF LockoutTypeOK
  <2>2. lock' \in [Ip -> [fails : 0 .. Attempts - 1, until : Nat]]
    BY <1>1, LockType DEF LockoutTypeOK
  <2>3. alerts' \in Nat \X Nat /\ mails' \in Nat \X Nat /\ mailAt' \in Nat
    BY <1>1, <1>2 DEF LockoutTypeOK
  <2> QED  BY <1>1, <1>2, <1>6, <2>1, <2>2, <2>3 DEF LockoutTypeOK
<1>8. alerts[2] # 0 /\ trips => now - alerts[2] > Window
  BY <1>2, <1>3, <1>4 DEF SpacedInv
<1>9. alerts[2] # 0 => w.alertAt = alerts[2] \/ now - alerts[2] > Window
  BY <1>2, <1>3 DEF SpacedInv
<1>10. SpacedInv' /\ AlertsSpaced'
  <2>1. CASE trips
    <3>1. alerts'[1] = alerts[2] /\ alerts'[2] = now
      BY <1>1, <2>1
    <3> QED  BY <1>1, <1>2, <1>5, <1>6, <1>8, <2>1, <3>1 DEF SpacedInv, AlertsSpaced, mail
  <2>2. CASE ~trips
    <3>1. alerts' = alerts /\ now' = now
      BY <1>1, <2>2
    <3>2. mails'[2] = mailAt'
      BY <1>1 DEF SpacedInv
    <3>3. window'.start = w.start /\ window'.alertAt = w.alertAt
      BY <1>5, <1>6, <2>2
    <3>4. alerts[2] <= w.start /\ w.start <= now
      BY <1>2, <1>3 DEF SpacedInv
    <3> QED  BY <1>9, <3>1, <3>2, <3>3, <3>4 DEF SpacedInv, AlertsSpaced
  <2> QED  BY <2>1, <2>2
<1>11. MailsSpaced'
  BY <1>1, <1>2 DEF SpacedInv, MailsSpaced, mail
<1> QED  BY <1>7, <1>10, <1>11

LEMMA LockoutInvStep == LockoutInv /\ [LockoutNext]_lockoutVars => LockoutInv'
<1> SUFFICES ASSUME LockoutInv, [LockoutNext]_lockoutVars PROVE LockoutInv'
  OBVIOUS
<1> USE LockoutAssumption
<1>0. Fresh \in [fails : 0 .. Attempts - 1, until : Nat]
  BY DEF Fresh
<1>1. ASSUME UNCHANGED <<now, window, mailAt, alerts, mails>>,
             trying' \in [Ip -> 0 .. MaxFlight],
             lock' \in [Ip -> [fails : 0 .. Attempts - 1, until : Nat]]
      PROVE  LockoutInv'
  BY <1>1 DEF LockoutInv, LockoutTypeOK, SpacedInv, AlertsSpaced, MailsSpaced
<1> USE DEF LockoutInv, LockoutTypeOK
<1>2. ASSUME NEW ip \in Ip, beginLogin(ip) PROVE LockoutInv'
  BY <1>1, <1>2 DEF beginLogin
<1>3. ASSUME NEW ip \in Ip, failUnknown(ip) PROVE LockoutInv'
  BY <1>1, <1>3, LockType DEF failUnknown
<1>4. ASSUME NEW ip \in Ip, passkeyLogin(ip) PROVE LockoutInv'
  BY <1>0, <1>1, <1>4 DEF passkeyLogin
<1>5. ASSUME NEW ip \in Ip, NEW only \in BOOLEAN, passLogin(ip, only) PROVE LockoutInv'
  BY <1>0, <1>1, <1>5 DEF passLogin
<1>6. CASE tick
  BY <1>6 DEF tick, SpacedInv, AlertsSpaced, MailsSpaced
<1>7. CASE UNCHANGED lockoutVars
  BY <1>1, <1>7 DEF lockoutVars
<1> QED  BY <1>2, <1>3, <1>4, <1>5, <1>6, <1>7, FailStep DEF LockoutNext

-----------------------------------------------------------------------------
(* Notifications.                                                          *)

\* What a form holds was typed into it, or is the mask or, if the form could not show
\* it, empty; a password is not older
\* than the transporter that holds it.
FormsInv ==
    /\ \A t \in SettingsTab, f \in SecretField :
           IF f \in typed[t] THEN form[t][f] \in 0 .. MaxSecret
           ELSE form[t][f] = Mask \/ (form[t][f] = Null /\ f \in LoadsEmpty \cup blank[t])
    /\ transporter.stale <= transporter.age

NotificationsInv == NotificationsTypeOK /\ FormsInv /\ NeverMasked /\ MailFresh

LEMMA NotificationsInvInit == NotificationsInit => NotificationsInv
<1> SUFFICES ASSUME NotificationsInit PROVE NotificationsInv
  OBVIOUS
<1> USE NotificationsAssumption DEF NotificationsInit, Null, Mask
<1>1. NotificationsTypeOK
  BY DEF NotificationsTypeOK
<1>2. FormsInv /\ NeverMasked /\ MailFresh
  BY DEF FormsInv, NeverMasked, MailFresh
<1> QED  BY <1>1, <1>2 DEF NotificationsInv

LEMMA NotificationsInvStep ==
    NotificationsInv /\ [NotificationsNext]_notificationVars => NotificationsInv'
<1> SUFFICES ASSUME NotificationsInv, [NotificationsNext]_notificationVars
             PROVE  NotificationsInv'
  OBVIOUS
<1> USE NotificationsAssumption
        DEF NotificationsInv, NotificationsTypeOK, pageVars, mailVars, rowVars, Null, Mask
<1>1. ASSUME NEW t \in SettingsTab, fill(t) PROVE NotificationsInv'
  <2> DEFINE g == [f \in SecretField |-> IF f \in LoadsEmpty THEN Null ELSE maskSecrets[f]]
             e == {f \in SecretField : stored[f] = Null}
  <2>1. /\ form' = [form EXCEPT ![t] = g] /\ typed' = [typed EXCEPT ![t] = {}]
        /\ blank' = [blank EXCEPT ![t] = e]
        /\ UNCHANGED <<stored, meant, emptied, nextSecret, transporter, notifying, sentStale>>
    BY <1>1 DEF fill, rowVars
  <2>2. /\ g \in [SecretField -> 0 .. MaxSecret + 1] /\ e \subseteq SecretField
        /\ \A f \in SecretField : g[f] = MaxSecret + 1 \/ (g[f] = 0 /\ f \in LoadsEmpty \cup e)
    BY DEF maskSecrets
  <2> HIDE DEF g, e
  <2>3. NotificationsTypeOK'
    BY <2>1, <2>2
  <2>4. FormsInv'
    <3>1. ASSUME NEW u \in SettingsTab, u # t
          PROVE  form'[u] = form[u] /\ typed'[u] = typed[u] /\ blank'[u] = blank[u]
      BY <2>1, <3>1
    <3>2. form'[t] = g /\ typed'[t] = {} /\ blank'[t] = e
      BY <2>1
    <3> QED  BY <2>1, <2>2, <3>1, <3>2 DEF FormsInv
  <2> QED  BY <2>1, <2>3, <2>4 DEF NeverMasked, MailFresh
<1>2. ASSUME NEW t \in SettingsTab, NEW f \in SecretField, type(t, f)
      PROVE  NotificationsInv'
  <2>1. PICK s \in 0 .. MaxSecret : form' = [form EXCEPT ![t][f] = s]
    BY <1>2 DEF type
  <2>2. /\ typed' = [typed EXCEPT ![t] = @ \cup {f}] /\ nextSecret' \in 1 .. MaxSecret + 1
        /\ UNCHANGED <<stored, meant, emptied, blank, transporter, notifying, sentStale>>
    BY <1>2 DEF type, rowVars
  <2>3. \A u \in SettingsTab, g \in SecretField :
            form'[u][g] = IF u = t /\ g = f THEN s ELSE form[u][g]
    BY <2>1
  <2>4. \A u \in SettingsTab : typed'[u] = IF u = t THEN typed[u] \cup {f} ELSE typed[u]
    BY <2>2
  <2>5. form' \in [SettingsTab -> [SecretField -> 0 .. MaxSecret + 1]]
    BY <2>1
  <2>6. typed' \in [SettingsTab -> SUBSET SecretField]
    BY <2>2
  <2>7. FormsInv'
    BY <2>2, <2>3, <2>4 DEF FormsInv
  <2> QED  BY <2>2, <2>5, <2>6, <2>7 DEF NeverMasked, MailFresh
<1>3. ASSUME NEW t \in SettingsTab, upsertNotificationSettings(t) PROVE NotificationsInv'
  <2>1. /\ stored' = [f \in SecretField |-> setSecret(f, form[t][f])]
        /\ meant' = [f \in SecretField |-> IF f \in typed[t] THEN form[t][f] ELSE meant[f]]
        /\ emptied' = (emptied \cup {f \in blank[t] : stored[f] # Null}) \ typed[t]
        /\ UNCHANGED <<blank, form, typed, nextSecret, transporter, notifying, sentStale>>
    BY <1>3 DEF upsertNotificationSettings
  <2>2. ASSUME NEW f \in SecretField
        PROVE  /\ stored'[f] \in 0 .. MaxSecret + 1 /\ meant'[f] \in 0 .. MaxSecret
               /\ stored'[f] = meant'[f] \/ (stored'[f] = 0 /\ f \in LoadsEmpty \cup emptied')
    <3>1. CASE f \in typed[t]
      BY <2>1, <3>1 DEF setSecret, FormsInv
    <3>2. CASE f \notin typed[t] /\ form[t][f] = Mask
      BY <2>1, <3>2 DEF setSecret, NeverMasked
    <3>3. CASE f \notin typed[t] /\ form[t][f] # Mask
      <4>1. form[t][f] = Null /\ f \in LoadsEmpty \cup blank[t]
        BY <3>3 DEF FormsInv
      <4>2. stored'[f] = Null /\ meant'[f] = meant[f]
        BY <2>1, <3>3, <4>1 DEF setSecret
      <4>3. stored[f] = Null /\ f \in emptied => f \in emptied'
        BY <2>1, <3>3
      <4>4. stored[f] # Null /\ f \in blank[t] => f \in emptied'
        BY <2>1, <3>3
      <4> QED  BY <4>1, <4>2, <4>3, <4>4 DEF NeverMasked
    <3> QED  BY <3>1, <3>2, <3>3
  <2>3. NotificationsTypeOK'
    BY <2>1, <2>2
  <2> QED  BY <2>1, <2>2, <2>3 DEF FormsInv, NeverMasked, MailFresh
<1>4. CASE notify
  <2>1. /\ notifying' = notifying \cup {stored["smtpPass"]} /\ stored["smtpPass"] \in 0 .. MaxSecret + 1
        /\ UNCHANGED <<stored, meant, emptied, blank, form, typed, nextSecret, transporter, sentStale>>
    BY <1>4 DEF notify
  <2>2. FormsInv' /\ NeverMasked' /\ MailFresh'
    BY <2>1 DEF FormsInv, NeverMasked, MailFresh
  <2>3. NotificationsTypeOK'
    BY <2>1
  <2> QED  BY <2>2, <2>3
<1>5. CASE sendEmail
  <2>1. PICK pass \in notifying :
            /\ notifying' = notifying \ {pass} /\ transporter' = getTransporter(pass)
            /\ sentStale' = getTransporter(pass).stale
            /\ UNCHANGED <<stored, meant, emptied, blank, form, typed, nextSecret>>
    BY <1>5 DEF sendEmail
  <2>2. /\ getTransporter(pass) \in [pass : 0 .. MaxSecret + 1, age : 0 .. TransporterTtl,
                                     stale : 0 .. TransporterTtl]
        /\ getTransporter(pass).stale <= getTransporter(pass).age
        /\ getTransporter(pass).stale < TransporterTtl
    BY DEF getTransporter, FormsInv
  <2> QED  BY <2>1, <2>2 DEF FormsInv, NeverMasked, MailFresh
<1>6. CASE passMinute
  <2> DEFINE s == IF transporter.pass = stored["smtpPass"] THEN 0
                  ELSE IF transporter.stale < TransporterTtl THEN transporter.stale + 1
                  ELSE transporter.stale
  <2>1. /\ transporter.age < TransporterTtl
        /\ transporter' = [transporter EXCEPT !.age = @ + 1, !.stale = s]
        /\ UNCHANGED <<stored, meant, emptied, blank, form, typed, nextSecret, notifying, sentStale>>
    BY <1>6 DEF passMinute
  <2>2. s \in 0 .. TransporterTtl /\ s <= transporter.age + 1
    BY DEF FormsInv
  <2> HIDE DEF s
  <2>3. /\ transporter' \in [pass : 0 .. MaxSecret + 1, age : 0 .. TransporterTtl,
                             stale : 0 .. TransporterTtl]
        /\ transporter'.stale <= transporter'.age
    <3>1. transporter' = [pass |-> transporter.pass, age |-> transporter.age + 1,
                          stale |-> s]
      BY <2>1
    <3>2. transporter.pass \in 0 .. MaxSecret + 1 /\ transporter.age + 1 \in 0 .. TransporterTtl
      BY <2>1
    <3> QED  BY <2>2, <3>1, <3>2
  <2> QED  BY <2>1, <2>3 DEF FormsInv, NeverMasked, MailFresh
<1>7. CASE UNCHANGED notificationVars
  BY <1>7 DEF notificationVars, FormsInv, NeverMasked, MailFresh
<1> QED  BY <1>1, <1>2, <1>3, <1>4, <1>5, <1>6, <1>7 DEF NotificationsNext

-----------------------------------------------------------------------------
(* KeyRing.                                                                *)

\* The operator numbers the keys without a gap; a process that is up has every key of the
\* environment, one that waits has all but the wrapped one; each row names a key that is in
\* the environment, and one that was renamed names the primary key, which is not its own,
\* while its own is there under another name.
RingInv ==
    /\ env["v2"] # NoKey => env["v1"] # NoKey
    /\ awaitingKmsUnwrap => primaryKeyId = NoKey /\ env["kms"] # NoKey
                            /\ keys = [env EXCEPT !["kms"] = NoKey]
    /\ primaryKeyId # NoKey => keys = env /\ env[primaryKeyId] # NoKey
    /\ \A r \in Row \ renamed : rows[r] = NoRow \/
           LET v == IF rows[r].version = NoKey THEN "legacy" ELSE rows[r].version
           IN  v \in Version /\ env[v] # NoKey /\ env[v] = rows[r].key
    /\ \A r \in renamed : /\ rows[r].version = "primary" /\ env["primary"] # NoKey
                          /\ env["primary"] # rows[r].key /\ rows[r].key # NoKey
                          /\ \E v \in Version : env[v] = rows[r].key

KeyRingInv == KeyRingTypeOK /\ RingInv

LEMMA KeyRingInvInit == KeyRingInit => KeyRingInv
<1> SUFFICES ASSUME KeyRingInit PROVE KeyRingInv
  OBVIOUS
<1> USE KeyRingAssumption DEF KeyRingInit
<1>1. PICK k \in Key : env = [NoKeys EXCEPT !["legacy"] = k]
  OBVIOUS
<1>2. env \in [Version -> Key \cup {NoKey}] /\ env["legacy"] = k /\ env["v2"] = NoKey
  BY <1>1 DEF NoKeys, Version, Slot
<1>3. KeyRingTypeOK
  <2>1. NoKeys \in [Version -> Key \cup {NoKey}]
    BY DEF NoKeys
  <2>2. rows \in [Row -> [version : Version \cup {NoKey, "empty"}, key : Key \cup {NoKey}]]
    BY <1>2 DEF NoRow
  <2> QED  BY <1>2, <2>1, <2>2 DEF KeyRingTypeOK
<1>4. RingInv
  BY <1>2 DEF RingInv, NoRow, NoKey, Version, Slot
<1> QED  BY <1>3, <1>4 DEF KeyRingInv

LEMMA KeyRingInvStep == KeyRingInv /\ [KeyRingNext]_keyVars => KeyRingInv'
<1> SUFFICES ASSUME KeyRingInv, [KeyRingNext]_keyVars PROVE KeyRingInv'
  OBVIOUS
<1> USE KeyRingAssumption DEF KeyRingInv, KeyRingTypeOK
<1>0. \A v \in Version : v # NoKey
  BY DEF Version, Slot, NoKey
<1>1. CASE loadKeys
  <2>1. down /\ keys' = loadedKeys /\ UNCHANGED <<env, rows, renamed>>
    BY <1>1 DEF loadKeys
  <2>5. /\ \A r \in Row \ renamed : rows[r] = NoRow \/
               LET v == IF rows[r].version = NoKey THEN "legacy" ELSE rows[r].version
               IN  v \in Version /\ env'[v] # NoKey /\ env'[v] = rows[r].key
        /\ \A r \in renamed : /\ rows[r].version = "primary" /\ env'["primary"] # NoKey
                              /\ env'["primary"] # rows[r].key /\ rows[r].key # NoKey
                              /\ \E v \in Version : env'[v] = rows[r].key
    BY <2>1 DEF RingInv
  <2>2. loadedKeys = [env EXCEPT !["kms"] = NoKey]
    <3>1. \A v \in Version : loadedKeys[v] = IF v = "kms" THEN NoKey ELSE env[v]
      BY DEF loadedKeys, RingInv
    <3> QED  BY <3>1 DEF loadedKeys
  <2>3. CASE env["kms"] # NoKey
    <3>1. awaitingKmsUnwrap' = TRUE /\ primaryKeyId' = NoKey
      BY <1>1, <2>3 DEF loadKeys
    <3>2. keys' \in [Version -> Key \cup {NoKey}]
      BY <2>1, <2>2
    <3>3. env'["v2"] # NoKey => env'["v1"] # NoKey
      BY <2>1 DEF RingInv
    <3> QED  BY <2>1, <2>2, <2>3, <2>5, <3>1, <3>2, <3>3 DEF RingInv
  <2>4. CASE env["kms"] = NoKey
    <3>1. loadedKeys = env
      BY <2>2, <2>4
    <3>2. loadedKeys # NoKeys /\ ~awaitingKmsUnwrap' /\ primaryKeyId' = firstKey
          /\ awaitingKmsUnwrap' = FALSE
      BY <1>1, <2>4 DEF loadKeys
    <3>3. PICK v \in Version : env[v] # NoKey
      BY <3>1, <3>2 DEF NoKeys
    <3>4. firstKey \in Version /\ env[firstKey] # NoKey
      BY <2>4, <3>1, <3>3 DEF firstKey, Version, Slot, RingInv
    <3>5. env'["v2"] # NoKey => env'["v1"] # NoKey
      BY <2>1 DEF RingInv
    <3> QED  BY <2>1, <2>5, <3>1, <3>2, <3>4, <3>5 DEF RingInv
  <2> QED  BY <2>3, <2>4
<1>2. CASE initializeFromKms
  <2>1. "kms" \in Version
    BY DEF Version
  <2>2. keys' = env
    BY <1>2, <2>1 DEF initializeFromKms, RingInv
  <2> QED  BY <1>2, <2>1, <2>2 DEF initializeFromKms, RingInv
<1>3. CASE stop
  <2>1. keys' \in [Version -> Key \cup {NoKey}]
    BY <1>3 DEF stop, NoKeys
  <2> QED  BY <1>3, <2>1 DEF stop, RingInv
<1>4. CASE addKey
  <2>1. PICK v \in Version, k \in Key :
            /\ env[v] = NoKey /\ (v = "v2" => env["v1"] # NoKey)
            /\ env' = [env EXCEPT ![v] = k]
    BY <1>4 DEF addKey, free
  <2>2. down /\ UNCHANGED <<keys, primaryKeyId, awaitingKmsUnwrap, rows, renamed>>
    BY <1>4 DEF addKey
  <2>3. env'[v] # NoKey /\ \A x \in Version \ {v} : env'[x] = env[x]
    BY <2>1
  <2>4. {"v1", "v2", "legacy", "primary"} \subseteq Version
    BY DEF Version, Slot
  <2>5. env' \in [Version -> Key \cup {NoKey}]
    BY <2>1
  <2>6. RingInv'
    <3>1. \A x \in Version : env[x] # NoKey => env'[x] = env[x]
      BY <2>1, <2>3
    <3>2. /\ env'["v2"] # NoKey => env'["v1"] # NoKey
      BY <2>1, <2>3, <2>4, <3>1 DEF RingInv
    <3>3. \A r \in renamed : /\ rows[r].version = "primary" /\ env'["primary"] # NoKey
                             /\ env'["primary"] # rows[r].key /\ rows[r].key # NoKey
                             /\ \E x \in Version : env'[x] = rows[r].key
      BY <2>4, <3>1 DEF RingInv
    <3> QED  BY <2>2, <3>1, <3>2, <3>3 DEF RingInv, down
  <2> QED  BY <2>2, <2>5, <2>6
<1>7. CASE rotatePrimary
  <2>1. PICK v \in {"v1", "v2"}, k \in Key :
            /\ env[v] = NoKey /\ (v = "v2" => env["v1"] # NoKey)
            /\ \A x \in Version : env[x] # k
            /\ env' = [env EXCEPT !["primary"] = k, ![v] = env["primary"]]
    BY <1>7 DEF rotatePrimary, free
  <2>2. /\ down /\ env["primary"] # NoKey
        /\ renamed' = renamed \cup {r \in Row : rows[r].version = "primary"}
        /\ UNCHANGED <<keys, primaryKeyId, awaitingKmsUnwrap, rows>>
    BY <1>7 DEF rotatePrimary
  <2>3. {"v1", "v2", "legacy", "primary"} \subseteq Version /\ v # "primary"
    BY DEF Version, Slot
  <2>4. /\ env'["primary"] = k /\ env'[v] = env["primary"] /\ k # NoKey
        /\ \A x \in Version \ {"primary", v} : env'[x] = env[x]
    BY <2>1, <2>3
  <2>5. env' \in [Version -> Key \cup {NoKey}]
    BY <2>1, <2>3
  <2>6. env'["v2"] # NoKey => env'["v1"] # NoKey
    <3>1. CASE v = "v1"
      BY <2>2, <2>4, <3>1
    <3>2. CASE v = "v2"
      BY <2>1, <2>3, <2>4, <3>2
    <3> QED  BY <3>1, <3>2
  <2>7. \A r \in renamed' : /\ rows[r].version = "primary" /\ rows[r].key # NoKey
                            /\ \E x \in Version : env[x] = rows[r].key
    <3>1. \A r \in Row \ renamed : rows[r].version = "primary" =>
              env["primary"] # NoKey /\ env["primary"] = rows[r].key
      BY DEF RingInv, NoRow, NoKey
    <3> QED  BY <2>2, <2>3, <3>1 DEF RingInv
  <2>8. ASSUME NEW r \in renamed'
        PROVE  env'["primary"] # rows[r].key /\ \E x \in Version : env'[x] = rows[r].key
    <3>1. PICK x \in Version : env[x] = rows[r].key
      BY <2>7
    <3>2. rows[r].key # k /\ x # v
      BY <2>1, <2>7, <3>1
    <3> QED  BY <2>3, <2>4, <3>1, <3>2
  <2>9. ASSUME NEW r \in Row \ renamed', rows[r] # NoRow
        PROVE  LET x == IF rows[r].version = NoKey THEN "legacy" ELSE rows[r].version
               IN  x \in Version /\ env'[x] # NoKey /\ env'[x] = rows[r].key
    <3> DEFINE x == IF rows[r].version = NoKey THEN "legacy" ELSE rows[r].version
    <3>1. r \in Row \ renamed /\ rows[r].version # "primary"
      BY <2>2, <2>9
    <3>2. x \in Version /\ env[x] # NoKey /\ env[x] = rows[r].key
      BY <2>9, <3>1 DEF RingInv
    <3>3. x # "primary" /\ x # v
      BY <2>1, <3>1, <3>2
    <3> QED  BY <2>4, <3>2, <3>3
  <2>10. renamed' \subseteq Row
    BY <2>2
  <2> QED  BY <2>2, <2>4, <2>5, <2>6, <2>7, <2>8, <2>9, <2>10 DEF RingInv, down
<1>5. ASSUME NEW r \in Row, encrypt(r) PROVE KeyRingInv'
  <2> DEFINE n == [version |-> primaryKeyId, key |-> keys[primaryKeyId]]
  <2>1. /\ primaryKeyId # NoKey /\ rows' = [rows EXCEPT ![r] = n]
        /\ renamed' = renamed \ {r} /\ UNCHANGED <<env, keys, primaryKeyId, awaitingKmsUnwrap>>
    BY <1>5 DEF encrypt
  <2>2. primaryKeyId \in Version /\ keys = env /\ env[primaryKeyId] # NoKey
    BY <2>1 DEF RingInv
  <2>3. n.version = primaryKeyId /\ n.key = env[primaryKeyId]
        /\ n \in [version : Version \cup {NoKey, "empty"}, key : Key \cup {NoKey}]
    BY <2>2
  <2> HIDE DEF n
  <2>4. \A x \in Row : rows'[x] = IF x = r THEN n ELSE rows[x]
    BY <2>1
  <2>5. rows' \in [Row -> [version : Version \cup {NoKey, "empty"}, key : Key \cup {NoKey}]]
    BY <2>1, <2>3
  <2> QED  BY <1>0, <2>1, <2>2, <2>3, <2>4, <2>5 DEF RingInv
<1>6. CASE UNCHANGED keyVars
  BY <1>6 DEF keyVars, RingInv
<1> QED  BY <1>1, <1>2, <1>3, <1>4, <1>5, <1>6, <1>7 DEF KeyRingNext

LEMMA ReadableFromInv == KeyRingInv => RowsReadable
<1> SUFFICES ASSUME KeyRingInv, primaryKeyId # NoKey
             PROVE  /\ \A r \in Row : rows[r] # NoRow => (decrypts(rows[r]) <=> r \notin renamed)
                    /\ \A r \in renamed : \E v \in Version : keys[v] = rows[r].key
  BY DEF RowsReadable
<1>1. keys = env /\ "primary" # NoKey
  BY DEF KeyRingInv, RingInv, NoKey
<1>2. \A r \in renamed : ~decrypts(rows[r]) /\ \E v \in Version : keys[v] = rows[r].key
  BY <1>1 DEF KeyRingInv, RingInv, decrypts
<1>3. \A r \in Row \ renamed : rows[r] # NoRow => decrypts(rows[r])
  BY <1>1 DEF KeyRingInv, RingInv, decrypts
<1> QED  BY <1>2, <1>3

-----------------------------------------------------------------------------
(* Mcp.                                                                    *)

\* Calls that were granted and whose tool has not run yet.
Granted == {c \in Caller : calls[c].pc = "run"}

\* The window of the key is of a day that has begun, and so is that of a call; what was
\* granted fits in the windows before this one, the rotations and the calls counted in it.
GrantsInv ==
    /\ agentKey.resetDay <= day
    /\ \A c \in Caller : /\ calls[c].today <= day
                         /\ calls[c].pc = "reserve" => agentKey.resetDay >= 0
    /\ DailyCallLimit > 0 =>
          IF agentKey.resetDay < 0 THEN served = 0 /\ Granted = {}
          ELSE served + Cardinality(Granted) <=
                   DailyCallLimit * (agentKey.resetDay + rotations) + agentKey.callsToday

McpInv == McpTypeOK /\ GrantsInv

LEMMA GrantedFinite == IsFiniteSet(Granted) /\ Cardinality(Granted) \in Nat
  BY McpAssumption, FS_Subset, FS_CardinalityType DEF Granted

\* A product grows by a factor with each unit.
LEMMA OneMore ==
    ASSUME NEW l \in Nat, NEW a \in Int, NEW b \in Int, a < b
    PROVE  l * a + l <= l * b
<1>1. l * (b - a - 1) >= 0
  <2>1. b - a - 1 \in Nat
    OBVIOUS
  <2> QED  BY <2>1
<1>2. l * (b - a - 1) = l * b - l * a - l
  OBVIOUS
<1>3. l * a \in Int /\ l * b \in Int
  OBVIOUS
<1> QED  BY <1>1, <1>2, <1>3

LEMMA McpInvInit == McpInit => McpInv
<1> SUFFICES ASSUME McpInit PROVE McpInv
  OBVIOUS
<1> USE McpAssumption DEF McpInit, NoCall, NoApproval
<1>1. Implied(KeyScopes) \subseteq McpScope
  BY DEF Implied, McpScope
<1>2. McpTypeOK
  BY <1>1 DEF McpTypeOK, McpScope
<1>3. GrantsInv
  BY DEF GrantsInv, Granted
<1> QED  BY <1>2, <1>3 DEF McpInv

\* A caller that goes on without a grant, before it or after it, while the key stays.
LEMMA CallGoesOn ==
    ASSUME McpInv, McpTypeOK', NEW c \in Caller,
           UNCHANGED <<day, agentKey, served, rotations>>,
           \A x \in Caller \ {c} : calls'[x] = calls[x],
           calls[c].pc # "run", calls'[c].pc # "run" \/ DailyCallLimit = 0,
           calls'[c].today <= day, calls'[c].pc # "reserve"
    PROVE  McpInv'
<1> USE McpAssumption DEF McpInv, McpTypeOK
<1>1. DailyCallLimit > 0 => Granted' = Granted
  BY DEF Granted
<1>2. \A x \in Caller : /\ calls'[x].today <= day'
                        /\ calls'[x].pc = "reserve" => agentKey'.resetDay >= 0
  BY DEF GrantsInv
<1> QED  BY <1>1, <1>2 DEF GrantsInv

\* The key and the days, with the calls as they are.
LEMMA KeyChanges ==
    ASSUME McpInv, McpTypeOK', UNCHANGED <<calls, served>>,
           day <= day', agentKey'.resetDay = agentKey.resetDay,
           \/ rotations' = rotations /\ agentKey'.callsToday = agentKey.callsToday
           \/ rotations' = rotations + 1
    PROVE  McpInv'
<1> USE McpAssumption DEF McpInv, McpTypeOK
<1>1. Granted' = Granted
  BY DEF Granted
<1>2. \A x \in Caller : /\ calls'[x].today <= day'
                        /\ calls'[x].pc = "reserve" => agentKey'.resetDay >= 0
  BY DEF GrantsInv
<1>3. agentKey'.resetDay <= day'
  BY DEF GrantsInv
<1>4. CASE rotations' = rotations /\ agentKey'.callsToday = agentKey.callsToday
  BY <1>1, <1>2, <1>3, <1>4 DEF GrantsInv
<1>5. CASE rotations' = rotations + 1
  <2> DEFINE r == agentKey.resetDay
  <2>1. r + rotations \in Int /\ r + rotations' \in Int /\ r + rotations < r + rotations'
    BY <1>5
  <2>2. DailyCallLimit * (r + rotations) + DailyCallLimit
            <= DailyCallLimit * (r + rotations')
    BY <2>1, OneMore
  <2>3. /\ DailyCallLimit * (r + rotations) \in Int
        /\ DailyCallLimit * (r + rotations') \in Int
        /\ agentKey.callsToday \in Nat /\ agentKey.callsToday <= DailyCallLimit
        /\ agentKey'.callsToday \in Nat
        /\ Cardinality(Granted) \in Nat /\ served \in Nat
    BY <2>1, GrantedFinite
  <2>4. DailyCallLimit > 0 /\ r >= 0 =>
            served + Cardinality(Granted)
               <= DailyCallLimit * (r + rotations') + agentKey'.callsToday
    BY <2>2, <2>3 DEF GrantsInv
  <2> QED  BY <1>1, <1>2, <1>3, <2>4 DEF GrantsInv
<1> QED  BY <1>4, <1>5

LEMMA McpInvStep == McpInv /\ [McpNext]_mcpVars => McpInv'
<1> SUFFICES ASSUME McpInv, [McpNext]_mcpVars PROVE McpInv'
  OBVIOUS
<1> USE McpAssumption DEF McpInv, McpTypeOK, mcpHistory
<1>0. /\ NoCall.pc = "idle" /\ NoCall.today = 0
      /\ NoCall \in [pc : {"idle", "next", "roll", "reserve", "run", "mark"},
                     scope : McpScope, approval : Approval \cup {NoApproval},
                     today : 0 .. MaxDay]
  BY DEF NoCall, McpScope
<1>1. ASSUME NEW c \in Caller, authenticateKey(c) PROVE McpInv'
  <2> DEFINE r == [NoCall EXCEPT !.pc = "next"]
  <2>1. /\ calls[c].pc = "idle" /\ calls' = [calls EXCEPT ![c] = r]
        /\ UNCHANGED <<day, agentKey, asked, decision, served, denied, rotations>>
    BY <1>1 DEF authenticateKey
  <2>2. /\ r.pc = "next" /\ r.today = 0
        /\ r \in [pc : {"idle", "next", "roll", "reserve", "run", "mark"},
                  scope : McpScope, approval : Approval \cup {NoApproval},
                  today : 0 .. MaxDay]
    BY <1>0
  <2> HIDE DEF r
  <2>3. McpTypeOK'
    BY <2>1, <2>2
  <2> QED  BY <2>1, <2>2, <2>3, CallGoesOn
<1>2. ASSUME NEW c \in Caller, NEW s \in McpScope, dispatchTool(c, s) PROVE McpInv'
  <2>1. /\ calls[c].pc = "next"
        /\ calls' = [calls EXCEPT ![c].pc = IF DailyCallLimit > 0 THEN "roll" ELSE "run",
                                  ![c].scope = s, ![c].today = day]
        /\ UNCHANGED <<day, agentKey, asked, decision, served, denied, rotations>>
    BY <1>2 DEF dispatchTool
  <2>2. McpTypeOK'
    <3> DEFINE p == IF DailyCallLimit > 0 THEN "roll" ELSE "run"
    <3>1. calls' = [calls EXCEPT ![c] = [calls[c] EXCEPT !.pc = p, !.scope = s,
                                                         !.today = day]]
      BY <2>1
    <3>2. p \in {"roll", "run"}
      OBVIOUS
    <3> HIDE DEF p
    <3>a. calls[c] \in [pc : {"idle", "next", "roll", "reserve", "run", "mark"},
                        scope : McpScope, approval : Approval \cup {NoApproval},
                        today : 0 .. MaxDay] /\ day \in 0 .. MaxDay
      BY <1>0
    <3>3. [calls[c] EXCEPT !.pc = p, !.scope = s, !.today = day] \in
              [pc : {"idle", "next", "roll", "reserve", "run", "mark"}, scope : McpScope,
               approval : Approval \cup {NoApproval}, today : 0 .. MaxDay]
      BY <3>2, <3>a
    <3>4. calls' \in [Caller -> [pc : {"idle", "next", "roll", "reserve", "run", "mark"},
                                 scope : McpScope, approval : Approval \cup {NoApproval},
                                 today : 0 .. MaxDay]]
      BY <3>1, <3>3
    <3>5. UNCHANGED <<day, agentKey, asked, decision, served, denied, rotations>>
      BY <2>1
    <3> QED  BY <3>4, <3>5
  <2>3. /\ calls'[c].pc = (IF DailyCallLimit > 0 THEN "roll" ELSE "run")
        /\ calls'[c].today = day /\ \A x \in Caller \ {c} : calls'[x] = calls[x]
    BY <2>1
  <2> QED  BY <2>1, <2>2, <2>3, CallGoesOn
<1>3. ASSUME NEW c \in Caller, NEW s \in McpScope, NEW a \in Approval,
             requestApproval(c, s, a)
      PROVE  McpInv'
  <2>1. McpTypeOK' /\ UNCHANGED <<calls, day, agentKey, served, denied, rotations>>
    BY <1>3 DEF requestApproval
  <2> QED  BY <2>1, KeyChanges
<1>4. ASSUME NEW c \in Caller, endBatch(c) PROVE McpInv'
  <2>1. /\ calls[c].pc = "next" /\ calls' = [calls EXCEPT ![c] = NoCall]
        /\ UNCHANGED <<day, agentKey, asked, decision, served, denied, rotations>>
    BY <1>4 DEF endBatch
  <2>2. McpTypeOK'
    BY <1>0, <2>1
  <2> QED  BY <1>0, <2>1, <2>2, CallGoesOn
<1>5. ASSUME NEW c \in Caller, rollWindow(c) PROVE McpInv'
  <2> DEFINE t == calls[c].today
  <2>1. /\ calls[c].pc = "roll" /\ calls' = [calls EXCEPT ![c].pc = "reserve"]
        /\ agentKey' = IF agentKey.resetDay < t
                       THEN [agentKey EXCEPT !.callsToday = 0, !.resetDay = t]
                       ELSE agentKey
        /\ UNCHANGED <<day, asked, decision, served, denied, rotations>>
    BY <1>5 DEF rollWindow
  <2>2. t \in 0 .. MaxDay /\ t <= day
    BY DEF GrantsInv
  <2>3. McpTypeOK'
    <3>1. agentKey' \in [scopes : SUBSET McpScope, revoked : BOOLEAN, expired : BOOLEAN,
                         callsToday : 0 .. DailyCallLimit, resetDay : -1 .. MaxDay]
      <4>1. CASE agentKey.resetDay < t
        <5>1. agentKey' = [agentKey EXCEPT !.callsToday = 0, !.resetDay = t]
          BY <2>1, <4>1
        <5>2. 0 \in 0 .. DailyCallLimit /\ t \in -1 .. MaxDay
          BY <2>2
        <5> HIDE DEF t
        <5> QED  BY <5>1, <5>2
      <4>2. CASE ~(agentKey.resetDay < t)
        BY <2>1, <4>2
      <4> QED  BY <4>1, <4>2
    <3>2. calls' \in [Caller -> [pc : {"idle", "next", "roll", "reserve", "run", "mark"},
                                 scope : McpScope, approval : Approval \cup {NoApproval},
                                 today : 0 .. MaxDay]]
      BY <2>1
    <3> QED  BY <2>1, <3>1, <3>2
  <2>4. /\ calls'[c].pc = "reserve" /\ calls'[c].today = t
        /\ \A x \in Caller \ {c} : calls'[x] = calls[x]
    BY <2>1
  <2>5. Granted' = Granted
    BY <2>1, <2>4 DEF Granted
  <2>6. /\ agentKey'.resetDay = (IF agentKey.resetDay < t THEN t ELSE agentKey.resetDay)
        /\ agentKey'.callsToday = IF agentKey.resetDay < t THEN 0 ELSE agentKey.callsToday
    BY <2>1
  <2> DEFINE r == agentKey.resetDay
             q == agentKey'.resetDay
             n == agentKey.callsToday
             m == agentKey'.callsToday
             g == Cardinality(Granted)
  <2>7. /\ r \in Int /\ q \in Int /\ n \in Nat /\ m \in Nat /\ n <= DailyCallLimit
        /\ g \in Nat /\ t \in Nat /\ t <= day
    BY <2>2, <2>3, GrantedFinite
  <2>8. q >= 0 /\ q <= day
    BY <2>6, <2>7 DEF GrantsInv
  <2>9. DailyCallLimit > 0 => served + g <= DailyCallLimit * (q + rotations) + m
    <3>1. CASE r < t /\ r < 0
      <4>1. DailyCallLimit * (q + rotations) >= 0
        <5>1. q + rotations \in Nat
          BY <2>7, <2>8
        <5> QED  BY <5>1
      <4>2. DailyCallLimit > 0 => served = 0 /\ g = 0
        BY <3>1, FS_EmptySet DEF GrantsInv
      <4>3. DailyCallLimit * (q + rotations) \in Int
        BY <2>7
      <4> QED  BY <2>7, <4>1, <4>2, <4>3
    <3>2. CASE r < t /\ r >= 0
      <4>1. DailyCallLimit * (r + rotations) + DailyCallLimit
                <= DailyCallLimit * (q + rotations)
        <5>1. r + rotations \in Int /\ q + rotations \in Int /\ r + rotations < q + rotations
          BY <2>6, <2>7, <3>2
        <5> QED  BY <5>1, OneMore
      <4>2. DailyCallLimit * (r + rotations) \in Int /\ DailyCallLimit * (q + rotations) \in Int
        BY <2>7
      <4>3. DailyCallLimit > 0 => served + g <= DailyCallLimit * (r + rotations) + n
        BY <2>7, <3>2 DEF GrantsInv
      <4> QED  BY <2>7, <4>1, <4>2, <4>3
    <3>3. CASE ~(r < t)
      <4>1. q = r /\ m = n /\ r >= 0
        BY <2>6, <2>7, <3>3
      <4> QED  BY <2>7, <4>1 DEF GrantsInv
    <3> QED  BY <2>7, <3>1, <3>2, <3>3
  <2> HIDE DEF r, q, n, m, g
  <2>10. \A x \in Caller : calls'[x].today <= day
    BY <2>2, <2>4 DEF GrantsInv
  <2>11. GrantsInv'
    BY <2>1, <2>5, <2>8, <2>9, <2>10 DEF GrantsInv, q, m, g
  <2> QED  BY <2>3, <2>11
<1>6. ASSUME NEW c \in Caller, reserveCall(c) PROVE McpInv'
  <2> DEFINE granted == agentKey.callsToday < DailyCallLimit
             p == IF granted THEN "run" ELSE AfterCall(c)
  <2>1. /\ calls[c].pc = "reserve" /\ calls' = [calls EXCEPT ![c].pc = p]
        /\ agentKey' = IF granted THEN [agentKey EXCEPT !.callsToday = @ + 1] ELSE agentKey
        /\ UNCHANGED <<day, asked, decision, served, denied, rotations>>
    BY <1>6 DEF reserveCall
  <2>2. McpTypeOK'
    BY <2>1 DEF AfterCall
  <2>3. /\ calls'[c].pc = p /\ calls'[c].today = calls[c].today
        /\ \A x \in Caller \ {c} : calls'[x] = calls[x]
    BY <2>1
  <2>4. CASE ~granted
    <3>1. calls'[c].pc \notin {"run", "reserve"} /\ UNCHANGED agentKey
      BY <2>1, <2>3, <2>4 DEF AfterCall
    <3>2. calls'[c].today <= day
      BY <2>3 DEF GrantsInv
    <3> QED  BY <2>1, <2>2, <2>3, <3>1, <3>2, CallGoesOn
  <2>5. CASE granted
    <3>1. Granted' = Granted \cup {c} /\ c \notin Granted
      BY <2>1, <2>3, <2>5 DEF Granted
    <3>2. Cardinality(Granted') = Cardinality(Granted) + 1
      BY <3>1, GrantedFinite, FS_AddElement
    <3>3. agentKey'.resetDay = agentKey.resetDay /\ agentKey.resetDay >= 0
          /\ agentKey'.callsToday = agentKey.callsToday + 1
      BY <2>1, <2>5 DEF GrantsInv
    <3>4. agentKey.resetDay + rotations \in Int
          /\ DailyCallLimit * (agentKey.resetDay + rotations) \in Int
          /\ Cardinality(Granted) \in Nat
      BY GrantedFinite
    <3>5. DailyCallLimit > 0 =>
              served' + Cardinality(Granted') <=
                  DailyCallLimit * (agentKey'.resetDay + rotations') + agentKey'.callsToday
      <4>1. DailyCallLimit > 0 => served + Cardinality(Granted) <=
                 DailyCallLimit * (agentKey.resetDay + rotations) + agentKey.callsToday
        BY <3>3 DEF GrantsInv
      <4>2. agentKey.callsToday \in Nat /\ served \in Nat
        OBVIOUS
      <4> QED  BY <2>1, <3>2, <3>3, <3>4, <4>1, <4>2
    <3>6. \A x \in Caller : /\ calls'[x].today <= day'
                            /\ calls'[x].pc = "reserve" => agentKey'.resetDay >= 0
      BY <2>1, <2>3, <3>3 DEF GrantsInv
    <3>7. GrantsInv'
      BY <2>1, <3>3, <3>5, <3>6 DEF GrantsInv
    <3> QED  BY <2>2, <3>7
  <2> QED  BY <2>4, <2>5
<1>7. ASSUME NEW c \in Caller, handler(c) PROVE McpInv'
  <2>1. /\ calls[c].pc = "run" /\ served < MaxServed /\ served' = served + 1
        /\ calls' = [calls EXCEPT ![c].pc = AfterCall(c)]
        /\ UNCHANGED <<day, agentKey, asked, decision, denied, rotations>>
    BY <1>7 DEF handler
  <2>2. McpTypeOK'
    BY <2>1 DEF AfterCall
  <2>3. /\ calls'[c].pc \in {"next", "mark"} /\ calls'[c].today = calls[c].today
        /\ \A x \in Caller \ {c} : calls'[x] = calls[x]
    BY <2>1 DEF AfterCall
  <2>4. Granted' = Granted \ {c} /\ c \in Granted
    BY <2>1, <2>3 DEF Granted
  <2>5. Cardinality(Granted') = Cardinality(Granted) - 1
    BY <2>4, GrantedFinite, FS_RemoveElement
  <2>6. Granted # {}
    BY <2>4
  <2>7. Cardinality(Granted) \in Nat /\ served \in Nat
    BY GrantedFinite
  <2>8. served' + Cardinality(Granted') = served + Cardinality(Granted)
    BY <2>1, <2>5, <2>7
  <2>9. \A x \in Caller : /\ calls'[x].today <= day'
                          /\ calls'[x].pc = "reserve" => agentKey'.resetDay >= 0
    BY <2>1, <2>3 DEF GrantsInv
  <2>10. GrantsInv'
    BY <2>1, <2>6, <2>8, <2>9 DEF GrantsInv
  <2> QED  BY <2>2, <2>10
<1>8. ASSUME NEW c \in Caller, NEW a \in Approval, beginApproval(c, a) PROVE McpInv'
  <2> DEFINE r == [pc |-> IF DailyCallLimit > 0 THEN "roll" ELSE "run",
                   scope |-> asked[a], approval |-> a, today |-> day]
  <2>1. /\ calls[c].pc = "idle" /\ calls' = [calls EXCEPT ![c] = r]
        /\ UNCHANGED <<day, agentKey, asked, decision, served, denied, rotations>>
    BY <1>8 DEF beginApproval
  <2>2. McpTypeOK'
    BY <2>1
  <2>3. calls'[c] = r /\ \A x \in Caller \ {c} : calls'[x] = calls[x]
    BY <2>1
  <2>4. r.today = day /\ r.pc = IF DailyCallLimit > 0 THEN "roll" ELSE "run"
    OBVIOUS
  <2> HIDE DEF r
  <2> QED  BY <2>1, <2>2, <2>3, <2>4, CallGoesOn
<1>9. ASSUME NEW c \in Caller, markApproved(c) PROVE McpInv'
  <2>1. /\ calls[c].pc = "mark" /\ calls' = [calls EXCEPT ![c] = NoCall]
        /\ UNCHANGED <<day, agentKey, asked, served, denied, rotations>>
    BY <1>9 DEF markApproved
  <2>2. decision' \in [Approval -> {"NONE", "PENDING", "APPROVED", "DENIED"}]
    BY <1>9 DEF markApproved
  <2>3. McpTypeOK'
    BY <1>0, <2>1, <2>2
  <2> QED  BY <1>0, <2>1, <2>3, CallGoesOn
<1>10. ASSUME NEW a \in Approval, denyMcpAction(a) PROVE McpInv'
  <2>1. McpTypeOK' /\ UNCHANGED <<calls, day, agentKey, served, rotations>>
    BY <1>10 DEF denyMcpAction
  <2> QED  BY <2>1, KeyChanges
<1>11. CASE rotateKey
  <2>1. McpTypeOK' /\ UNCHANGED <<calls, day, served>> /\ rotations' = rotations + 1
        /\ agentKey'.resetDay = agentKey.resetDay
    BY <1>11 DEF rotateKey
  <2> QED  BY <2>1, KeyChanges
<1>12. CASE revokeKey
  <2>1. McpTypeOK' /\ UNCHANGED <<calls, day, served, denied, rotations>>
        /\ agentKey'.resetDay = agentKey.resetDay
        /\ agentKey'.callsToday = agentKey.callsToday
    BY <1>12 DEF revokeKey
  <2> QED  BY <2>1, KeyChanges
<1>13. CASE nextDay
  <2>1. PICK e \in BOOLEAN : agentKey' = [agentKey EXCEPT !.expired = @ \/ e]
    BY <1>13 DEF nextDay
  <2>2. day' = day + 1 /\ day < MaxDay /\ UNCHANGED <<asked, decision, calls, served, denied, rotations>>
    BY <1>13 DEF nextDay
  <2>3. agentKey'.resetDay = agentKey.resetDay /\ agentKey'.callsToday = agentKey.callsToday
    BY <2>1
  <2>4. agentKey' \in [scopes : SUBSET McpScope, revoked : BOOLEAN, expired : BOOLEAN,
                       callsToday : 0 .. DailyCallLimit, resetDay : -1 .. MaxDay]
    <3> DEFINE x == agentKey.expired \/ e
    <3>1. x \in BOOLEAN
      OBVIOUS
    <3>2. agentKey' = [agentKey EXCEPT !.expired = x]
      BY <2>1
    <3> HIDE DEF x
    <3> QED  BY <3>1, <3>2
  <2>5. McpTypeOK'
    BY <2>2, <2>4
  <2> QED  BY <2>2, <2>3, <2>5, KeyChanges
<1>14. CASE UNCHANGED mcpVars
  BY <1>14, KeyChanges DEF mcpVars
<1> QED  BY <1>1, <1>2, <1>3, <1>4, <1>5, <1>6, <1>7, <1>8, <1>9, <1>10, <1>11, <1>12,
            <1>13, <1>14 DEF McpNext, serveCall

LEMMA DailyFromInv == McpInv => DailyLimitHolds
<1> SUFFICES ASSUME McpInv, DailyCallLimit > 0
             PROVE  served <= DailyCallLimit * (day + 1 + rotations)
  BY DEF DailyLimitHolds
<1> USE McpAssumption DEF McpInv, McpTypeOK
<1> DEFINE r == agentKey.resetDay
<1>1. CASE r < 0
  <2>1. served = 0
    BY <1>1 DEF GrantsInv
  <2>2. day + 1 + rotations \in Nat
    OBVIOUS
  <2> QED  BY <2>1, <2>2
<1>2. CASE r >= 0
  <2>1. r + rotations \in Int /\ day + 1 + rotations \in Int
        /\ r + rotations < day + 1 + rotations
    BY DEF GrantsInv
  <2>2. DailyCallLimit * (r + rotations) + DailyCallLimit
            <= DailyCallLimit * (day + 1 + rotations)
    BY <2>1, OneMore
  <2>3. /\ DailyCallLimit * (r + rotations) \in Int
        /\ DailyCallLimit * (day + 1 + rotations) \in Int
        /\ agentKey.callsToday \in Nat /\ agentKey.callsToday <= DailyCallLimit
        /\ Cardinality(Granted) \in Nat /\ served \in Nat
    BY <2>1, GrantedFinite
  <2>4. served + Cardinality(Granted) <= DailyCallLimit * (r + rotations) + agentKey.callsToday
    BY <1>2 DEF GrantsInv
  <2> QED  BY <2>2, <2>3, <2>4
<1> QED  BY <1>1, <1>2

\* Nobody executes what was denied, and nobody marks it.
LEMMA DenialsStep ==
    McpInv /\ DenialsHold /\ [McpNext]_mcpVars => DenialsHold'
<1> SUFFICES ASSUME McpInv, DenialsHold, [McpNext]_mcpVars PROVE DenialsHold'
  OBVIOUS
<1> USE DEF mcpHistory
<1>0. /\ calls \in [Caller -> [pc : {"idle", "next", "roll", "reserve", "run", "mark"},
                                scope : McpScope, approval : Approval \cup {NoApproval},
                                today : 0 .. MaxDay]]
      /\ decision \in [Approval -> {"NONE", "PENDING", "APPROVED", "DENIED"}]
      /\ denied \subseteq Approval
  BY DEF McpInv, McpTypeOK
\* The approval that each caller executes stays, or is forgotten.
<1>a. ASSUME denied' = denied, \A a \in denied : decision'[a] = decision[a],
             \A c \in Caller : calls'[c].approval = calls[c].approval
                                 \/ calls'[c].approval \notin denied
      PROVE  DenialsHold'
  BY <1>a DEF DenialsHold
<1>1. ASSUME NEW c \in Caller, NEW a \in Approval, beginApproval(c, a) PROVE DenialsHold'
  <2>1. /\ decision[a] = "PENDING" /\ denied' = denied /\ decision' = decision
        /\ \A x \in Caller : calls'[x].approval = IF x = c THEN a ELSE calls[x].approval
    BY <1>0, <1>1 DEF beginApproval
  <2>2. a \notin denied
    BY <2>1 DEF DenialsHold
  <2> QED  BY <1>a, <2>1, <2>2
<1>2. ASSUME NEW a \in Approval, denyMcpAction(a) PROVE DenialsHold'
  BY <1>0, <1>2 DEF denyMcpAction, DenialsHold
<1>b. ASSUME NEW c \in Caller, markApproved(c) \/ authenticateKey(c) \/ endBatch(c)
      PROVE  DenialsHold'
  <2>0. NoCall.approval = NoApproval /\ [NoCall EXCEPT !.pc = "next"].approval = NoApproval
    BY DEF NoCall
  <2>1. /\ denied' = denied
        /\ \A x \in Caller : calls'[x].approval = IF x = c THEN NoApproval ELSE calls[x].approval
        /\ \A a \in Approval : a # calls[c].approval => decision'[a] = decision[a]
    BY <1>0, <1>b, <2>0 DEF markApproved, authenticateKey, endBatch
  <2>2. calls[c].approval \notin denied
    BY DEF DenialsHold
  <2>3. NoApproval \notin denied
    BY <1>0, McpAssumption
  <2>4. \A a \in denied : decision'[a] = decision[a]
    BY <1>0, <2>1, <2>2
  <2> QED  BY <1>a, <2>1, <2>3, <2>4
<1>3. ASSUME NEW c \in Caller,
             rollWindow(c) \/ reserveCall(c) \/ handler(c) \/ \E s \in McpScope : dispatchTool(c, s)
      PROVE  DenialsHold'
  <2>1. ASSUME rollWindow(c) \/ reserveCall(c) \/ handler(c)
        PROVE  /\ denied' = denied /\ decision' = decision
               /\ \A x \in Caller : calls'[x].approval = calls[x].approval
    BY <1>0, <2>1 DEF rollWindow, reserveCall, handler
  <2>2. ASSUME NEW s \in McpScope, dispatchTool(c, s)
        PROVE  /\ denied' = denied /\ decision' = decision
               /\ \A x \in Caller : calls'[x].approval = calls[x].approval
    BY <1>0, <2>2 DEF dispatchTool
  <2> QED  BY <1>a, <1>3, <2>1, <2>2
<1>4. ASSUME NEW c \in Caller, NEW s \in McpScope, NEW a \in Approval, requestApproval(c, s, a)
      PROVE  DenialsHold'
  <2>1. /\ denied' = denied /\ calls' = calls /\ decision[a] = "NONE"
        /\ \A x \in Approval \ {a} : decision'[x] = decision[x]
    BY <1>0, <1>4 DEF requestApproval
  <2> QED  BY <1>0, <2>1 DEF DenialsHold
<1>5. CASE rotateKey \/ revokeKey \/ nextDay \/ UNCHANGED mcpVars
  <2>1. UNCHANGED <<denied, decision, calls>>
    BY <1>5 DEF rotateKey, revokeKey, nextDay, mcpVars
  <2> QED  BY <1>a, <2>1
<1> QED  BY <1>1, <1>2, <1>b, <1>3, <1>4, <1>5 DEF McpNext, serveCall

-----------------------------------------------------------------------------
(* ChangeCapture.                                                          *)

\* A finite set of changes has a last one.
LEMMA LastExists ==
    ASSUME NEW S, IsFiniteSet(S), S # {}, S \subseteq Change,
           \A r, q \in S : r.id = q.id => r = q
    PROVE  \E r \in S : \A q \in S \ {r} : After(r, q)
<1> DEFINE Up(r) == {q \in S : After(q, r)}
           T == {Up(r) : r \in S}
           R == StrictSubsetOrdering(S)
<1> USE CaptureAssumption
<1>1. \A r \in S : r.id \in Nat /\ r.time \in Nat
  BY DEF Change
<1>2. IsWellFoundedOn(R, SUBSET S)
  <2>1. IsWellFoundedOn(R, FiniteSubsetsOf(S))
    BY FS_StrictSubsetOrderingWellFounded
  <2>2. FiniteSubsetsOf(S) = SUBSET S
    BY FS_FiniteSubsetsOfFinite
  <2> QED  BY <2>1, <2>2
<1>3. T \subseteq SUBSET S /\ T # {}
  <2>1. \A r \in S : Up(r) \in SUBSET S
    OBVIOUS
  <2> HIDE DEF Up
  <2> QED  BY <2>1
<1>4. \E x \in T : \A y \in T : ~(<<y, x>> \in R)
  <2> HIDE DEF T, R
  <2> QED  BY <1>2, <1>3, WFMin
<1>5. PICK r \in S : \A y \in T : ~(<<y, Up(r)>> \in R)
  BY <1>4
<1>6. ASSUME NEW q \in S \ {r}, ~After(r, q) PROVE FALSE
  <2>1. After(q, r)
    BY <1>1, <1>6 DEF After
  <2>2. Up(q) \subseteq Up(r)
    BY <1>1, <2>1 DEF After
  <2>3. q \in Up(r) /\ q \notin Up(q)
    BY <1>1, <2>1 DEF After
  <2>4. <<Up(q), Up(r)>> \in R
    <3> DEFINE a == Up(q)
               b == Up(r)
    <3>1. a \in SUBSET S /\ b \in SUBSET S /\ a \subseteq b /\ a # b
      BY <2>2, <2>3
    <3> HIDE DEF a, b
    <3>2. <<a, b>> \in R
      BY <3>1 DEF StrictSubsetOrdering
    <3> QED  BY <3>2 DEF a, b
  <2> QED  BY <1>5, <2>4
<1> QED  BY <1>6

\* The tables that a configuration without the change log may track.
Mine(c) == IF IncludeTables[c] = {} THEN TrackTable ELSE TrackTable \cap IncludeTables[c]
Tracked == TrackTable \cup {ChangeLog}
Trackers == [pc : {"off", "log", "triggers", "checkpoint", "on", "drop", "stopped"},
             todo : SUBSET Tracked, table : Tracked]

\* Nothing is to blame: the log is not tracked, there is one as long as a trigger
\* writes it, and a stop has the tables of all its triggers before it.
Blameless ==
    /\ \A p \in triggers : p[2] \in Mine(p[1])
    /\ triggers # {} => logExists
    /\ \A c \in TrackConfig :
          /\ tracker[c].pc \in {"log", "triggers"} => tracker[c].todo \subseteq Mine(c)
          /\ tracker[c].pc = "triggers" => tracker[c].table \in Mine(c) /\ logExists
          /\ tracker[c].pc = "drop" => \A p \in triggers : p[1] = c => p[2] \in tracker[c].todo

\* Rows are told apart by their ids, and none is younger than the clock.
RowsNumbered ==
    /\ IsFiniteSet(changes)
    /\ \A r \in changes \cup openChanges : r.id < nextChange /\ r.time <= sourceClock
    /\ \A r, q \in changes : r.id = q.id => r = q
    /\ \A r \in changes, q \in openChanges : r.id # q.id
    /\ \A r, q \in openChanges : r.id = q.id => r = q
    /\ \A c \in TrackConfig : mark[c].time <= sourceClock /\ mark[c].id < nextChange

\* What a configuration that captures has not got is before it, uncommitted or not.
NoneSkipped ==
    \A c \in TrackConfig : tracker[c].pc = "on" =>
        \A r \in changes \cup openChanges : r.config = c =>
            r.late \/ r.id \in captured[c] \/ After(r, mark[c])

\* What a trigger wrote is in the log as long as no log was dropped.
LogKept ==
    \A c \in TrackConfig : \A id \in written[c] :
        id \in lost \/ \E r \in changes \cup openChanges : r.id = id /\ r.config = c

TrackTypes == /\ trackerKind \in {"MYSQL", "POSTGRESQL"}
              /\ tracker \in [TrackConfig -> Trackers]
              /\ triggers \subseteq TrackConfig \X Tracked
              /\ logExists \in BOOLEAN
              /\ blamed \subseteq {"shared", "dropFailed", "tracksLog"}
RowTypes == /\ changes \subseteq Change /\ openChanges \subseteq Change
            /\ nextChange \in 1 .. MaxChanges + 1 /\ sourceClock \in 0 .. MaxTicks
            /\ mark \in [TrackConfig -> [time : 0 .. MaxTicks, id : 0 .. MaxChanges]]
            /\ captured \in [TrackConfig -> SUBSET (1 .. MaxChanges)]
            /\ written \in [TrackConfig -> SUBSET (1 .. MaxChanges)]
            /\ lost \subseteq 1 .. MaxChanges

TracksInv == TrackTypes /\ (blamed = {} => Blameless)
RowsInv == RowTypes /\ RowsNumbered /\ NoneSkipped /\ LogKept
CaptureInv == TracksInv /\ RowsInv

\* The checkpoint as it is read lies before the one that was written.
LEMMA ParsedEarlier ==
    ASSUME RowTypes, NEW c \in TrackConfig, NEW r \in Change, After(r, mark[c])
    PROVE  After(r, Parse(mark[c]))
<1> DEFINE k == mark[c]
           h == k.time % Hour
<1>1. k.time \in Nat /\ k.id \in Nat /\ r.time \in Nat /\ r.id \in Nat
  BY CaptureAssumption DEF RowTypes, Change
<1>2. h \in Nat
  <2>1. Hour \in Nat \ {0}
    BY CaptureAssumption
  <2> QED  BY <1>1, <2>1
<1>3. Parse(k).time = k.time - h /\ Parse(k).id = h
  BY DEF Parse
<1>4. h = 0 \/ h > 0
  BY <1>2
<1>5. r.time > k.time \/ (r.time = k.time /\ r.id > k.id)
  BY DEF After
<1> HIDE DEF k, h
<1>6. r.time > k.time - h \/ (r.time = k.time - h /\ r.id > h)
  BY <1>1, <1>2, <1>4, <1>5
<1> QED  BY <1>3, <1>6 DEF After, k

LEMMA CaptureFromInv == CaptureInv => CaptureTypeOK /\ WritesSurvive /\ NothingSkipped
<1> SUFFICES ASSUME CaptureInv PROVE CaptureTypeOK /\ WritesSurvive /\ NothingSkipped
  OBVIOUS
<1>1. CaptureTypeOK
  BY DEF CaptureInv, TracksInv, RowsInv, TrackTypes, RowTypes, CaptureTypeOK, Trackers, Tracked
<1>2. WritesSurvive
  <2> SUFFICES ASSUME blamed = {}, NEW t \in TrackTable, NEW p \in triggers
               PROVE  logExists /\ \A q \in triggers : q[2] # ChangeLog
    BY DEF WritesSurvive, WriteSucceeds
  <2>1. \A q \in triggers : q[2] \in TrackTable
    BY DEF CaptureInv, TracksInv, Blameless, Mine
  <2> QED  BY <2>1, CaptureAssumption DEF CaptureInv, TracksInv, Blameless
<1>3. NothingSkipped
  <2> SUFFICES ASSUME NEW c \in TrackConfig, tracker[c].pc = "on",
                      NEW id \in written[c], id \notin captured[c], id \notin lost
               PROVE  \E r \in changes \cup openChanges :
                          r.id = id /\ (r.late \/ After(r, Parse(mark[c])))
    BY DEF NothingSkipped
  <2>1. PICK r \in changes \cup openChanges : r.id = id /\ r.config = c
    BY DEF CaptureInv, RowsInv, LogKept
  <2>2. r.late \/ After(r, mark[c])
    BY <2>1 DEF CaptureInv, RowsInv, NoneSkipped
  <2>3. r \in Change
    BY DEF CaptureInv, RowsInv, RowTypes
  <2>4. RowTypes
    BY DEF CaptureInv, RowsInv
  <2> QED  BY <2>1, <2>2, <2>3, <2>4, ParsedEarlier
<1> QED  BY <1>1, <1>2, <1>3

LEMMA CaptureInvInit == CaptureInit => CaptureInv
<1> SUFFICES ASSUME CaptureInit PROVE CaptureInv
  OBVIOUS
<1> USE CaptureAssumption DEF CaptureInit
<1>1. TrackTypes
  BY DEF TrackTypes, Trackers, Tracked
<1>2. Blameless
  BY DEF Blameless
<1>3. RowTypes
  <2>1. 0 \in 0 .. MaxTicks /\ 0 \in 0 .. MaxChanges /\ 1 \in 1 .. MaxChanges + 1
    OBVIOUS
  <2>2. [time |-> 0, id |-> 0] \in [time : 0 .. MaxTicks, id : 0 .. MaxChanges]
    BY <2>1
  <2> QED  BY <2>1, <2>2 DEF RowTypes
<1>4. RowsNumbered
  BY FS_EmptySet DEF RowsNumbered
<1>5. NoneSkipped /\ LogKept
  BY DEF NoneSkipped, LogKept
<1> QED  BY <1>1, <1>2, <1>3, <1>4, <1>5 DEF CaptureInv, TracksInv, RowsInv

\* A step of a tracker that is not in the middle of capturing afterwards leaves the rows
\* alone.
LEMMA RowsStay ==
    ASSUME RowsInv, UNCHANGED <<loggedVars, sourceClock, mark, captured>>,
           \A c \in TrackConfig : tracker'[c].pc = "on" => tracker[c].pc = "on"
    PROVE  RowsInv'
<1> USE DEF loggedVars
<1>1. RowTypes'
  BY DEF RowsInv, RowTypes
<1>2. RowsNumbered'
  BY DEF RowsInv, RowsNumbered
<1>3. NoneSkipped'
  BY DEF RowsInv, NoneSkipped, After
<1>4. LogKept'
  BY DEF RowsInv, LogKept
<1> QED  BY <1>1, <1>2, <1>3, <1>4 DEF RowsInv

LEMMA TracksStay ==
    ASSUME TracksInv, UNCHANGED <<trackerKind, triggers, logExists, blamed>>,
           tracker' \in [TrackConfig -> Trackers],
           \A c \in TrackConfig :
               \/ tracker'[c] = tracker[c]
               \/ tracker'[c].pc \notin {"log", "triggers", "drop"}
    PROVE  TracksInv'
  BY DEF TracksInv, TrackTypes, Blameless

LEMMA StartStep ==
    ASSUME CaptureInv, NEW c \in TrackConfig, initializeTracking(c)
    PROVE  CaptureInv'
<1> DEFINE todo == getTablesToTrack(c)
           new == [tracker[c] EXCEPT !.pc = "log", !.todo = todo]
<1> USE DEF CaptureInv
<1>1. todo \subseteq Tracked /\ (ChangeLog \notin todo => todo \subseteq Mine(c))
  BY CaptureAssumption DEF getTablesToTrack, Tracked, Mine
<1>2. /\ tracker' = [tracker EXCEPT ![c].pc = "log", ![c].todo = todo]
      /\ blamed' = IF ChangeLog \in todo THEN blamed \cup {"tracksLog"} ELSE blamed
      /\ UNCHANGED <<trackerKind, triggers, logVars, sourceClock, readVars>>
  BY DEF initializeTracking
<1> HIDE DEF todo
<1>3. tracker' = [tracker EXCEPT ![c] = new]
  BY <1>2
<1>4. new \in Trackers /\ new.pc = "log" /\ new.todo = todo
  BY <1>1 DEF TracksInv, TrackTypes, Trackers
<1> HIDE DEF new
<1>5. /\ tracker' \in [TrackConfig -> Trackers]
      /\ \A d \in TrackConfig : tracker'[d] = IF d = c THEN new ELSE tracker[d]
  BY <1>3, <1>4 DEF TracksInv, TrackTypes
<1>6. TrackTypes'
  BY <1>2, <1>5 DEF TracksInv, TrackTypes, logVars
<1>7. blamed' = {} => Blameless'
  BY <1>1, <1>2, <1>4, <1>5 DEF TracksInv, Blameless, logVars
<1>8. RowsInv'
  BY <1>2, <1>4, <1>5, RowsStay DEF logVars, readVars
<1> QED  BY <1>6, <1>7, <1>8 DEF TracksInv

LEMMA LogStep ==
    ASSUME CaptureInv, NEW c \in TrackConfig, createChangeLog(c)
    PROVE  CaptureInv'
<1> USE DEF CaptureInv
<1>1. /\ tracker[c].pc = "log"
      /\ UNCHANGED <<trackerKind, triggers, loggedVars, sourceClock, readVars, blamed>>
  BY DEF createChangeLog
<1>2. tracker[c] \in Trackers
  BY DEF TracksInv, TrackTypes
<1>3. ASSUME NEW new \in Trackers, tracker' = [tracker EXCEPT ![c] = new], new.pc # "on",
             \/ logExists' = logExists /\ new.pc \in {"checkpoint", "off"}
             \/ /\ logExists' = TRUE /\ new.pc = "triggers" /\ new.table \in tracker[c].todo
                /\ new.todo \subseteq tracker[c].todo
      PROVE  CaptureInv'
  <2>1. /\ tracker' \in [TrackConfig -> Trackers]
        /\ \A d \in TrackConfig : tracker'[d] = IF d = c THEN new ELSE tracker[d]
    BY <1>3 DEF TracksInv, TrackTypes
  <2>2. TrackTypes'
    BY <1>1, <1>3, <2>1 DEF TracksInv, TrackTypes
  <2>3. blamed' = {} => Blameless'
    BY <1>1, <1>3, <2>1 DEF TracksInv, Blameless
  <2>4. RowsInv'
    BY <1>1, <1>3, <2>1, RowsStay DEF readVars
  <2> QED  BY <2>2, <2>3, <2>4 DEF TracksInv
<1>4. CASE tracker[c].todo = {} /\ UNCHANGED logExists
           /\ tracker' = [tracker EXCEPT ![c].pc = "checkpoint"]
  <2> DEFINE new == [tracker[c] EXCEPT !.pc = "checkpoint"]
  <2>1. new \in Trackers /\ new.pc = "checkpoint"
    BY <1>2 DEF Trackers
  <2>2. tracker' = [tracker EXCEPT ![c] = new]
    BY <1>4
  <2> HIDE DEF new
  <2> QED  BY <1>3, <1>4, <2>1, <2>2
<1>5. ASSUME NEW t \in tracker[c].todo, t \in Keyless, UNCHANGED logExists,
             tracker' = [tracker EXCEPT ![c] = [@ EXCEPT !.pc = "off", !.todo = {}]]
      PROVE  CaptureInv'
  <2> DEFINE new == [tracker[c] EXCEPT !.pc = "off", !.todo = {}]
  <2>1. new \in Trackers /\ new.pc = "off"
    BY <1>2 DEF Trackers
  <2>2. tracker' = [tracker EXCEPT ![c] = new]
    BY <1>5
  <2> HIDE DEF new
  <2> QED  BY <1>3, <1>5, <2>1, <2>2
<1>6. ASSUME NEW t \in tracker[c].todo, logExists' = TRUE,
             tracker' = [tracker EXCEPT ![c] =
                            [pc |-> "triggers", todo |-> @.todo \ {t}, table |-> t]]
      PROVE  CaptureInv'
  <2> DEFINE new == [pc |-> "triggers", todo |-> tracker[c].todo \ {t}, table |-> t]
  <2>1. /\ new \in Trackers /\ new.pc = "triggers" /\ new.table = t
        /\ new.todo \subseteq tracker[c].todo
    BY <1>2 DEF Trackers
  <2>2. tracker' = [tracker EXCEPT ![c] = new]
    BY <1>6
  <2> HIDE DEF new
  <2> QED  BY <1>3, <1>6, <2>1, <2>2
<1> QED  BY <1>4, <1>5, <1>6 DEF createChangeLog

LEMMA TriggersStep ==
    ASSUME CaptureInv, NEW c \in TrackConfig, createTriggersForTable(c)
    PROVE  CaptureInv'
<1> DEFINE new == [tracker[c] EXCEPT !.pc = "log"]
<1> USE DEF CaptureInv
<1>1. /\ tracker[c].pc = "triggers"
      /\ triggers' \subseteq {<<c, tracker[c].table>>} \cup triggers
      /\ tracker' = [tracker EXCEPT ![c] = new]
      /\ UNCHANGED <<trackerKind, logVars, sourceClock, readVars, blamed>>
  BY DEF createTriggersForTable
<1>2. new \in Trackers /\ new.pc = "log" /\ new.todo = tracker[c].todo
  BY DEF TracksInv, TrackTypes, Trackers
<1> HIDE DEF new
<1>3. /\ tracker' \in [TrackConfig -> Trackers]
      /\ \A d \in TrackConfig : tracker'[d] = IF d = c THEN new ELSE tracker[d]
  BY <1>1, <1>2 DEF TracksInv, TrackTypes
<1>4. tracker[c].table \in Tracked
  BY DEF TracksInv, TrackTypes, Trackers
<1>5. TrackTypes'
  BY <1>1, <1>3, <1>4 DEF TracksInv, TrackTypes, logVars
<1>6. blamed' = {} => Blameless'
  BY <1>1, <1>2, <1>3 DEF TracksInv, Blameless, logVars
<1>7. RowsInv'
  BY <1>1, <1>2, <1>3, RowsStay DEF logVars, readVars
<1> QED  BY <1>5, <1>6, <1>7 DEF TracksInv

LEMMA TeardownStep ==
    ASSUME CaptureInv, NEW c \in TrackConfig, teardownTracking(c)
    PROVE  CaptureInv'
<1> DEFINE todo == getTablesToTrack(c)
           new == [tracker[c] EXCEPT !.pc = "drop", !.todo = todo]
<1> USE DEF CaptureInv
<1>1. todo \subseteq Tracked /\ Mine(c) \subseteq todo
  BY CaptureAssumption DEF getTablesToTrack, Tracked, Mine
<1>2. /\ tracker' = [tracker EXCEPT ![c].pc = "drop", ![c].todo = todo]
      /\ UNCHANGED <<trackerKind, triggers, logVars, sourceClock, readVars, blamed>>
  BY DEF teardownTracking
<1> HIDE DEF todo
<1>3. tracker' = [tracker EXCEPT ![c] = new]
  BY <1>2
<1>4. new \in Trackers /\ new.pc = "drop" /\ new.todo = todo
  BY <1>1 DEF TracksInv, TrackTypes, Trackers
<1> HIDE DEF new
<1>5. /\ tracker' \in [TrackConfig -> Trackers]
      /\ \A d \in TrackConfig : tracker'[d] = IF d = c THEN new ELSE tracker[d]
  BY <1>3, <1>4 DEF TracksInv, TrackTypes
<1>6. TrackTypes'
  BY <1>2, <1>5 DEF TracksInv, TrackTypes, logVars
<1>7. blamed' = {} => Blameless'
  BY <1>1, <1>2, <1>4, <1>5 DEF TracksInv, Blameless, logVars
<1>8. RowsInv'
  BY <1>2, <1>4, <1>5, RowsStay DEF logVars, readVars
<1> QED  BY <1>6, <1>7, <1>8 DEF TracksInv

LEMMA DropTriggersStep ==
    ASSUME CaptureInv, NEW c \in TrackConfig, dropTriggersForTable(c)
    PROVE  CaptureInv'
<1> USE DEF CaptureInv
<1>1. PICK t \in tracker[c].todo :
          /\ tracker' = [tracker EXCEPT ![c].todo = @ \ {t}]
          /\ LET named == IF trackerKind = "MYSQL"
                          THEN {p \in triggers : p[1] = c} ELSE triggers \cap {<<c, t>>}
             IN \/ triggers' = triggers \ named /\ UNCHANGED blamed
                \/ /\ named # {} /\ blamed' = blamed \cup {"dropFailed"}
                   /\ UNCHANGED triggers
  BY DEF dropTriggersForTable
<1>2. tracker[c].pc = "drop" /\ UNCHANGED <<trackerKind, logVars, sourceClock, readVars>>
  BY DEF dropTriggersForTable
<1> DEFINE new == [tracker[c] EXCEPT !.todo = @ \ {t}]
<1>3. tracker' = [tracker EXCEPT ![c] = new]
  BY <1>1
<1>4. new \in Trackers /\ new.pc = "drop" /\ new.todo = tracker[c].todo \ {t}
  BY <1>2 DEF TracksInv, TrackTypes, Trackers
<1> HIDE DEF new
<1>5. /\ tracker' \in [TrackConfig -> Trackers]
      /\ \A d \in TrackConfig : tracker'[d] = IF d = c THEN new ELSE tracker[d]
  BY <1>3, <1>4 DEF TracksInv, TrackTypes
<1>6. /\ triggers' \subseteq triggers
      /\ blamed' \subseteq {"shared", "dropFailed", "tracksLog"}
      /\ blamed' = {} => blamed = {} /\ \A p \in triggers' : p # <<c, t>>
  <2> DEFINE named == IF trackerKind = "MYSQL"
                      THEN {p \in triggers : p[1] = c} ELSE triggers \cap {<<c, t>>}
  <2>1. triggers \cap {<<c, t>>} \subseteq named
    OBVIOUS
  <2>2. \/ triggers' = triggers \ named /\ UNCHANGED blamed
        \/ blamed' = blamed \cup {"dropFailed"} /\ UNCHANGED triggers
    BY <1>1
  <2> HIDE DEF named
  <2> QED  BY <2>1, <2>2 DEF TracksInv, TrackTypes
<1>7. TrackTypes'
  BY <1>2, <1>5, <1>6 DEF TracksInv, TrackTypes, logVars
<1>8. blamed' = {} => Blameless'
  <2> SUFFICES ASSUME blamed' = {} PROVE Blameless'
    OBVIOUS
  <2>1. Blameless /\ triggers' \subseteq triggers /\ \A p \in triggers' : p # <<c, t>>
    BY <1>6 DEF TracksInv
  <2>2. \A p \in triggers' : p[1] = c => p[2] \in new.todo
    <3>1. \A p \in triggers' : p \in TrackConfig \X Tracked
      BY <2>1 DEF TracksInv, TrackTypes
    <3>2. \A p \in triggers' : p = <<p[1], p[2]>>
      BY <3>1
    <3>3. \A p \in triggers' : p[1] = c => p[2] \in tracker[c].todo
      BY <1>2, <2>1 DEF Blameless
    <3> QED  BY <1>4, <2>1, <3>2, <3>3
  <2> QED  BY <1>2, <1>4, <1>5, <2>1, <2>2 DEF Blameless, logVars
<1>9. RowsInv'
  BY <1>2, <1>4, <1>5, RowsStay DEF logVars, readVars
<1> QED  BY <1>7, <1>8, <1>9 DEF TracksInv

LEMMA DropLogStep ==
    ASSUME CaptureInv, NEW c \in TrackConfig, dropChangeLog(c)
    PROVE  CaptureInv'
<1> DEFINE new == [tracker[c] EXCEPT !.pc = "stopped"]
<1> USE CaptureAssumption DEF CaptureInv
<1>1. /\ tracker[c].pc = "drop" /\ tracker[c].todo = {}
      /\ tracker' = [tracker EXCEPT ![c] = new]
      /\ logExists' = FALSE /\ changes' = {} /\ openChanges' = {}
      /\ blamed' = IF \/ \E p \in triggers : p[1] # c
                      \/ \E d \in TrackConfig \ {c} : tracker[d].pc = "triggers"
                   THEN blamed \cup {"shared"} ELSE blamed
      /\ mark' = [mark EXCEPT ![c] = [time |-> 0, id |-> 0]]
      /\ captured' = [captured EXCEPT ![c] = {}]
      /\ lost' = lost \cup {r.id : r \in changes \cup openChanges}
      /\ UNCHANGED <<trackerKind, triggers, nextChange, written, sourceClock>>
  BY DEF dropChangeLog
<1>2. new \in Trackers /\ new.pc = "stopped"
  BY DEF TracksInv, TrackTypes, Trackers
<1> HIDE DEF new
<1>3. /\ tracker' \in [TrackConfig -> Trackers]
      /\ \A d \in TrackConfig : tracker'[d] = IF d = c THEN new ELSE tracker[d]
  BY <1>1, <1>2 DEF TracksInv, TrackTypes
<1>4. TrackTypes'
  BY <1>1, <1>3 DEF TracksInv, TrackTypes
<1>5. blamed' = {} => Blameless'
  <2> SUFFICES ASSUME blamed' = {} PROVE Blameless'
    OBVIOUS
  <2>1. /\ blamed = {} /\ \A p \in triggers : p[1] = c
        /\ \A d \in TrackConfig \ {c} : tracker[d].pc # "triggers"
    BY <1>1
  <2>2. triggers = {}
    BY <1>1, <2>1 DEF TracksInv, Blameless
  <2> QED  BY <1>1, <1>2, <1>3, <2>1, <2>2 DEF TracksInv, Blameless
<1>6. RowsInv'
  <2> DEFINE m == [time |-> 0, id |-> 0]
  <2>1. m \in [time : 0 .. MaxTicks, id : 0 .. MaxChanges] /\ m.time = 0 /\ m.id = 0
    OBVIOUS
  <2>2. mark' = [mark EXCEPT ![c] = m]
    BY <1>1
  <2> HIDE DEF m
  <2>3. /\ mark' \in [TrackConfig -> [time : 0 .. MaxTicks, id : 0 .. MaxChanges]]
        /\ \A d \in TrackConfig : mark'[d] = IF d = c THEN m ELSE mark[d]
    BY <2>1, <2>2 DEF RowsInv, RowTypes
  <2>4. captured' \in [TrackConfig -> SUBSET (1 .. MaxChanges)]
    BY <1>1 DEF RowsInv, RowTypes
  <2>5. RowTypes'
    <3>1. \A r \in changes \cup openChanges : r.id \in 1 .. MaxChanges
      BY DEF RowsInv, RowTypes, Change
    <3>2. lost' \subseteq 1 .. MaxChanges
      BY <1>1, <3>1 DEF RowsInv, RowTypes
    <3> QED  BY <1>1, <2>3, <2>4, <3>2 DEF RowsInv, RowTypes
  <2>6. RowsNumbered'
    BY <1>1, <2>1, <2>3, FS_EmptySet DEF RowsInv, RowTypes, RowsNumbered
  <2>7. NoneSkipped'
    BY <1>1 DEF NoneSkipped
  <2>8. LogKept'
    BY <1>1 DEF RowsInv, LogKept
  <2> QED  BY <2>5, <2>6, <2>7, <2>8 DEF RowsInv
<1> QED  BY <1>4, <1>5, <1>6 DEF TracksInv

\* The rows that a capture leaves uncommitted are late for it.
LEMMA OpenLate ==
    ASSUME RowsInv, NEW c \in TrackConfig,
           openChanges' = {[r EXCEPT !.late = @ \/ r.config = c] : r \in openChanges}
    PROVE  /\ openChanges' \subseteq Change
           /\ \A r \in openChanges' : \E q \in openChanges :
                  /\ r.id = q.id /\ r.time = q.time /\ r.config = q.config
                  /\ q.late \/ r.config = c => r.late
           /\ \A r, q \in openChanges' : r.id = q.id => r = q
<1> DEFINE Late(r) == [r EXCEPT !.late = @ \/ r.config = c]
<1>1. \A r \in openChanges :
         /\ Late(r) \in Change
         /\ Late(r).id = r.id /\ Late(r).time = r.time /\ Late(r).config = r.config
         /\ r.late \/ r.config = c => Late(r).late
  BY DEF RowsInv, RowTypes, Change
<1>2. openChanges' = {Late(r) : r \in openChanges}
  OBVIOUS
<1> HIDE DEF Late
<1>3. \A r \in openChanges' : \E q \in openChanges : r = Late(q)
  BY <1>2
<1>4. \A r, q \in openChanges' : r.id = q.id => r = q
  <2> SUFFICES ASSUME NEW r \in openChanges', NEW q \in openChanges', r.id = q.id
               PROVE  r = q
    OBVIOUS
  <2>1. PICK a \in openChanges : r = Late(a)
    BY <1>3
  <2>2. PICK b \in openChanges : q = Late(b)
    BY <1>3
  <2>3. a = b
    BY <1>1, <2>1, <2>2 DEF RowsInv, RowsNumbered
  <2> QED  BY <2>1, <2>2, <2>3
<1>5. \A r \in openChanges' : \E q \in openChanges :
         /\ r.id = q.id /\ r.time = q.time /\ r.config = q.config
         /\ q.late \/ r.config = c => r.late
  BY <1>1, <1>3
<1> QED  BY <1>1, <1>3, <1>4, <1>5

\* And none of them goes.
LEMMA OpenKept ==
    ASSUME RowsInv, NEW c \in TrackConfig,
           openChanges' = {[r EXCEPT !.late = @ \/ r.config = c] : r \in openChanges}
    PROVE  \A q \in openChanges : \E r \in openChanges' :
               r.id = q.id /\ r.config = q.config
<1> SUFFICES ASSUME NEW q \in openChanges
             PROVE  \E r \in openChanges' : r.id = q.id /\ r.config = q.config
  OBVIOUS
<1> DEFINE r == [q EXCEPT !.late = @ \/ q.config = c]
<1>1. r \in openChanges'
  OBVIOUS
<1>2. r.id = q.id /\ r.config = q.config
  BY DEF RowsInv, RowTypes, Change
<1> HIDE DEF r
<1> QED  BY <1>1, <1>2

\* What a reading leaves: the mark of one configuration moves, and what was not read is
\* after it.
LEMMA RowsRead ==
    ASSUME RowsInv, NEW c \in TrackConfig, NEW m, NEW got,
           m \in [time : 0 .. MaxTicks, id : 0 .. MaxChanges],
           m.time <= sourceClock, m.id < nextChange, got \subseteq 1 .. MaxChanges,
           openChanges' = {[r EXCEPT !.late = @ \/ r.config = c] : r \in openChanges},
           mark' = [mark EXCEPT ![c] = m], captured' = [captured EXCEPT ![c] = got],
           \A d \in TrackConfig \ {c} : tracker'[d].pc = "on" => tracker[d].pc = "on",
           UNCHANGED <<changes, nextChange, written, lost, sourceClock>>,
           \A r \in changes : r.config = c => r.late \/ r.id \in got \/ After(r, m)
    PROVE  RowsInv'
<1> USE DEF RowsInv
<1>1. /\ openChanges' \subseteq Change
      /\ \A r \in openChanges' : \E q \in openChanges :
             /\ r.id = q.id /\ r.time = q.time /\ r.config = q.config
             /\ q.late \/ r.config = c => r.late
      /\ \A r, q \in openChanges' : r.id = q.id => r = q
  BY OpenLate
<1>2. /\ mark' \in [TrackConfig -> [time : 0 .. MaxTicks, id : 0 .. MaxChanges]]
      /\ captured' \in [TrackConfig -> SUBSET (1 .. MaxChanges)]
      /\ \A d \in TrackConfig : mark'[d] = IF d = c THEN m ELSE mark[d]
      /\ \A d \in TrackConfig : captured'[d] = IF d = c THEN got ELSE captured[d]
  BY DEF RowTypes
<1>3. RowTypes'
  BY <1>1, <1>2 DEF RowTypes
<1>4. RowsNumbered'
  <2>1. \A r \in changes' \cup openChanges' : r.id < nextChange' /\ r.time <= sourceClock'
    BY <1>1 DEF RowsNumbered
  <2>2. \A r \in changes', q \in openChanges' : r.id # q.id
    BY <1>1 DEF RowsNumbered
  <2>3. \A d \in TrackConfig : mark'[d].time <= sourceClock' /\ mark'[d].id < nextChange'
    BY <1>2 DEF RowsNumbered
  <2> QED  BY <1>1, <2>1, <2>2, <2>3 DEF RowsNumbered
<1>5. NoneSkipped'
  <2> SUFFICES ASSUME NEW d \in TrackConfig, tracker'[d].pc = "on",
                      NEW r \in changes' \cup openChanges', r.config = d
               PROVE  r.late \/ r.id \in captured'[d] \/ After(r, mark'[d])
    BY DEF NoneSkipped, After
  <2>1. CASE d = c /\ r \in changes
    BY <1>2, <2>1
  <2>2. CASE d = c /\ r \in openChanges'
    BY <1>1, <2>2
  <2>3. CASE d # c
    <3>1. tracker[d].pc = "on" /\ mark'[d] = mark[d] /\ captured'[d] = captured[d]
      BY <1>2, <2>3
    <3>2. CASE r \in changes
      BY <3>1, <3>2 DEF NoneSkipped
    <3>3. CASE r \in openChanges'
      <4>1. PICK q \in openChanges :
                /\ r.id = q.id /\ r.time = q.time /\ r.config = q.config
                /\ q.late \/ r.config = c => r.late
        BY <1>1, <3>3
      <4>2. q.late \/ q.id \in captured[d] \/ After(q, mark[d])
        BY <3>1, <4>1 DEF NoneSkipped
      <4> QED  BY <3>1, <4>1, <4>2 DEF After
    <3> QED  BY <3>2, <3>3
  <2> QED  BY <2>1, <2>2, <2>3
<1>6. LogKept'
  <2> SUFFICES ASSUME NEW d \in TrackConfig, NEW id \in written[d], id \notin lost
               PROVE  \E r \in changes' \cup openChanges' : r.id = id /\ r.config = d
    BY DEF LogKept
  <2>1. PICK r \in changes \cup openChanges : r.id = id /\ r.config = d
    BY DEF LogKept
  <2>2. CASE r \in changes
    BY <2>1, <2>2
  <2>3. CASE r \in openChanges
    <3>1. PICK q \in openChanges' : q.id = r.id /\ q.config = r.config
      BY <2>3, OpenKept
    <3> QED  BY <2>1, <3>1
  <2> QED  BY <2>2, <2>3
<1> QED  BY <1>3, <1>4, <1>5, <1>6

LEMMA CheckpointStep ==
    ASSUME CaptureInv, NEW c \in TrackConfig, getCheckpoint(c)
    PROVE  CaptureInv'
<1> DEFINE new == [tracker[c] EXCEPT !.pc = "on"]
           m == [time |-> sourceClock, id |-> 0]
           got == {r.id : r \in changes}
<1> USE CaptureAssumption DEF CaptureInv
<1>1. /\ tracker' = [tracker EXCEPT ![c] = new]
      /\ mark' = [mark EXCEPT ![c] = m]
      /\ captured' = [captured EXCEPT ![c] = got]
      /\ openChanges' = {[r EXCEPT !.late = @ \/ r.config = c] : r \in openChanges}
      /\ UNCHANGED <<trackerKind, triggers, logExists, changes, nextChange, written, lost,
                     sourceClock, blamed>>
  BY DEF getCheckpoint
<1>2. new \in Trackers /\ new.pc = "on"
  BY DEF TracksInv, TrackTypes, Trackers
<1> HIDE DEF new
<1>3. /\ tracker' \in [TrackConfig -> Trackers]
      /\ \A d \in TrackConfig : tracker'[d] = IF d = c THEN new ELSE tracker[d]
  BY <1>1, <1>2 DEF TracksInv, TrackTypes
<1>4. TracksInv'
  BY <1>1, <1>2, <1>3, TracksStay
<1>5. /\ m \in [time : 0 .. MaxTicks, id : 0 .. MaxChanges]
      /\ m.time <= sourceClock /\ m.id < nextChange
  BY DEF RowsInv, RowTypes
<1>6. got \subseteq 1 .. MaxChanges
  BY DEF RowsInv, RowTypes, Change
<1>7. \A r \in changes : r.config = c => r.late \/ r.id \in got \/ After(r, m)
  OBVIOUS
<1> HIDE DEF m, got
<1>8. RowsInv'
  BY <1>1, <1>3, <1>5, <1>6, <1>7, RowsRead
<1> QED  BY <1>4, <1>8

LEMMA CapturesStep ==
    ASSUME CaptureInv, NEW c \in TrackConfig, captureChanges(c)
    PROVE  CaptureInv'
<1> USE CaptureAssumption DEF CaptureInv
<1> DEFINE after == {r \in changes : r.config = c /\ After(r, Parse(mark[c]))}
<1>1. PICK got \in captureChangesFromTriggers(after) :
          /\ got # {}
          /\ captured' = [captured EXCEPT ![c] = @ \cup {r.id : r \in got}]
          /\ mark' = [mark EXCEPT ![c] =
                LET last == CHOOSE r \in got : \A q \in got \ {r} : After(r, q)
                IN [time |-> last.time, id |-> last.id]]
          /\ openChanges' = {[r EXCEPT !.late = @ \/ r.config = c] : r \in openChanges}
  BY DEF captureChanges
<1>2. /\ tracker[c].pc = "on"
      /\ UNCHANGED <<trackerKind, tracker, triggers, logExists, changes, nextChange, written,
                     lost, sourceClock, blamed>>
  BY DEF captureChanges
<1>3. got \subseteq after /\ \A r \in got, q \in after \ got : After(q, r)
  BY DEF captureChangesFromTriggers
<1>4. got \subseteq changes /\ changes \subseteq Change
  BY <1>3 DEF RowsInv, RowTypes
<1>5. IsFiniteSet(got)
  BY <1>4, FS_Subset DEF RowsInv, RowsNumbered
<1>6. \A r, q \in got : r.id = q.id => r = q
  BY <1>4 DEF RowsInv, RowsNumbered
<1> DEFINE last == CHOOSE r \in got : \A q \in got \ {r} : After(r, q)
<1>7. last \in got /\ \A q \in got \ {last} : After(last, q)
  <2>1. \E r \in got : \A q \in got \ {r} : After(r, q)
    BY <1>1, <1>4, <1>5, <1>6, LastExists
  <2> QED  BY <2>1
<1> DEFINE m == [time |-> last.time, id |-> last.id]
           ids == captured[c] \cup {r.id : r \in got}
<1>8. mark' = [mark EXCEPT ![c] = m] /\ captured' = [captured EXCEPT ![c] = ids]
  BY <1>1
<1> HIDE DEF last
<1>9. last \in changes /\ last \in Change
  BY <1>4, <1>7
<1>10. /\ m \in [time : 0 .. MaxTicks, id : 0 .. MaxChanges]
       /\ m.time = last.time /\ m.id = last.id
       /\ m.time <= sourceClock /\ m.id < nextChange
  <2>1. /\ last.time \in 0 .. MaxTicks /\ last.id \in 1 .. MaxChanges
        /\ last.time <= sourceClock /\ last.id < nextChange
    BY <1>9 DEF RowsInv, RowsNumbered, Change
  <2> QED  BY <2>1
<1>11. ids \subseteq 1 .. MaxChanges
  BY <1>4 DEF RowsInv, RowTypes, Change
<1> HIDE DEF m
<1>12. \A r \in changes : r.config = c => r.late \/ r.id \in ids \/ After(r, m)
  <2> SUFFICES ASSUME NEW r \in changes, r.config = c, ~r.late, r.id \notin ids
               PROVE  After(r, m)
    OBVIOUS
  <2>1. After(r, mark[c])
    BY <1>2 DEF RowsInv, NoneSkipped
  <2>2. After(r, Parse(mark[c]))
    BY <1>4, <2>1, ParsedEarlier DEF RowsInv
  <2>3. r \in after \ got
    BY <2>2
  <2>4. After(r, last)
    BY <1>3, <1>7, <2>3
  <2> QED  BY <1>10, <2>4 DEF After
<1> HIDE DEF ids
<1>13. TracksInv'
  BY <1>2, TracksStay DEF TracksInv, TrackTypes
<1>14. RowsInv'
  BY <1>1, <1>2, <1>8, <1>10, <1>11, <1>12, RowsRead
<1> QED  BY <1>13, <1>14

LEMMA WriteStep == CaptureInv /\ beginWrite => CaptureInv'
<1> SUFFICES ASSUME CaptureInv, beginWrite PROVE CaptureInv'
  OBVIOUS
<1> USE CaptureAssumption DEF CaptureInv
<1>1. PICK c \in TrackConfig :
          /\ nextChange <= MaxChanges
          /\ openChanges' = openChanges \cup
                {[id |-> nextChange, config |-> c, time |-> sourceClock, late |-> FALSE]}
          /\ nextChange' = nextChange + 1
          /\ written' = [written EXCEPT ![c] = @ \cup {nextChange}]
          /\ UNCHANGED <<trackerKind, tracker, triggers, logExists, changes, lost, sourceClock,
                         readVars, blamed>>
  BY DEF beginWrite
<1> DEFINE r == [id |-> nextChange, config |-> c, time |-> sourceClock, late |-> FALSE]
<1>2. openChanges' = openChanges \cup {r}
  BY <1>1
<1>3. r \in Change /\ r.id = nextChange /\ r.config = c /\ r.time = sourceClock
  BY <1>1 DEF RowsInv, RowTypes, Change
<1> HIDE DEF r
<1>4. TracksInv'
  BY <1>1, TracksStay DEF TracksInv, TrackTypes
<1>0. nextChange \in 1 .. MaxChanges
  BY <1>1 DEF RowsInv, RowTypes
<1>w. /\ written' \in [TrackConfig -> SUBSET (1 .. MaxChanges)]
      /\ \A d \in TrackConfig :
            written'[d] = IF d = c THEN written[d] \cup {nextChange} ELSE written[d]
  BY <1>0, <1>1 DEF RowsInv, RowTypes
<1>5. RowTypes'
  BY <1>1, <1>2, <1>3, <1>w DEF RowsInv, RowTypes, readVars
<1>6. \A q \in changes \cup openChanges : q.id \in Nat /\ q.id < nextChange
  BY DEF RowsInv, RowTypes, RowsNumbered, Change
<1>7. \A d \in TrackConfig : mark[d].id \in Nat /\ mark[d].time \in Nat
  BY DEF RowsInv, RowTypes
<1>8. nextChange \in Nat /\ sourceClock \in Nat
  BY DEF RowsInv, RowTypes
<1>9. RowsNumbered'
  <2>1. \A q \in changes' \cup openChanges' : q.id < nextChange' /\ q.time <= sourceClock'
    BY <1>1, <1>2, <1>3, <1>6, <1>8 DEF RowsInv, RowsNumbered
  <2>2. \A q \in changes', p \in openChanges' : q.id # p.id
    BY <1>1, <1>2, <1>3, <1>6, <1>8 DEF RowsInv, RowsNumbered
  <2>3. \A q, p \in openChanges' : q.id = p.id => q = p
    BY <1>1, <1>2, <1>3, <1>6, <1>8 DEF RowsInv, RowsNumbered
  <2>4. \A d \in TrackConfig : mark'[d].time <= sourceClock' /\ mark'[d].id < nextChange'
    BY <1>1, <1>7, <1>8 DEF RowsInv, RowsNumbered, readVars
  <2> QED  BY <1>1, <2>1, <2>2, <2>3, <2>4 DEF RowsInv, RowsNumbered
<1>10. NoneSkipped'
  <2>1. \A d \in TrackConfig : After(r, mark[d])
    BY <1>3, <1>7, <1>8 DEF After, RowsInv, RowsNumbered
  <2>2. mark' = mark /\ captured' = captured /\ tracker' = tracker /\ changes' = changes
    BY <1>1 DEF readVars
  <2> QED  BY <1>2, <2>1, <2>2 DEF RowsInv, NoneSkipped, After
<1>11. LogKept'
  <2> SUFFICES ASSUME NEW d \in TrackConfig, NEW id \in written'[d], id \notin lost
               PROVE  \E q \in changes' \cup openChanges' : q.id = id /\ q.config = d
    BY <1>1 DEF LogKept
  <2>1. CASE id \in written[d]
    BY <1>1, <1>2, <2>1 DEF RowsInv, LogKept
  <2>2. CASE id \notin written[d]
    <3>1. id = nextChange /\ d = c
      BY <1>w, <2>2
    <3> QED  BY <1>2, <1>3, <3>1
  <2> QED  BY <2>1, <2>2
<1> QED  BY <1>4, <1>5, <1>9, <1>10, <1>11 DEF RowsInv

LEMMA CommitStep == CaptureInv /\ commitWrite => CaptureInv'
<1> SUFFICES ASSUME CaptureInv, commitWrite PROVE CaptureInv'
  OBVIOUS
<1> USE DEF CaptureInv
<1>1. PICK r \in openChanges :
        /\ openChanges' = openChanges \ {r} /\ changes' = changes \cup {r}
        /\ UNCHANGED <<trackerKind, tracker, triggers, logExists, nextChange, written, lost,
                       sourceClock, readVars, blamed>>
  BY DEF commitWrite
<1>2. TracksInv'
  BY <1>1, TracksStay DEF TracksInv, TrackTypes
<1>3. IsFiniteSet(changes')
  BY <1>1, FS_AddElement DEF RowsInv, RowsNumbered
<1>4. RowTypes'
  BY <1>1 DEF RowsInv, RowTypes, readVars
<1>5. RowsNumbered'
  <2>1. \A q \in changes' \cup openChanges' : q.id < nextChange' /\ q.time <= sourceClock'
    BY <1>1 DEF RowsInv, RowsNumbered
  <2>2. \A q \in changes', p \in openChanges' : q.id # p.id
    BY <1>1 DEF RowsInv, RowsNumbered
  <2>3. \A q, p \in changes' : q.id = p.id => q = p
    BY <1>1 DEF RowsInv, RowsNumbered
  <2> QED  BY <1>1, <1>3, <2>1, <2>2, <2>3 DEF RowsInv, RowsNumbered, readVars
<1>6. NoneSkipped'
  BY <1>1 DEF RowsInv, NoneSkipped, After, readVars
<1>7. LogKept'
  BY <1>1 DEF RowsInv, LogKept
<1> QED  BY <1>2, <1>4, <1>5, <1>6, <1>7 DEF RowsInv

LEMMA TickStep == CaptureInv /\ passTick => CaptureInv'
<1> SUFFICES ASSUME CaptureInv, passTick PROVE CaptureInv'
  OBVIOUS
<1> USE CaptureAssumption DEF CaptureInv
<1>1. /\ sourceClock < MaxTicks /\ sourceClock' = sourceClock + 1
      /\ UNCHANGED <<trackerKind, tracker, triggers, logVars, readVars, blamed>>
  BY DEF passTick
<1>2. TracksInv'
  BY <1>1, TracksStay DEF TracksInv, TrackTypes, logVars, loggedVars
<1>3. RowTypes'
  BY <1>1 DEF RowsInv, RowTypes, logVars, loggedVars, readVars
<1>4. RowsNumbered'
  <2>1. \A r \in changes \cup openChanges : r.time \in Nat
    BY DEF RowsInv, RowTypes, Change
  <2>2. \A c \in TrackConfig : mark[c].time \in Nat
    BY DEF RowsInv, RowTypes
  <2>3. sourceClock \in Nat
    BY DEF RowsInv, RowTypes
  <2> QED  BY <1>1, <2>1, <2>2, <2>3 DEF RowsInv, RowsNumbered, logVars, loggedVars, readVars
<1>5. NoneSkipped'
  BY <1>1 DEF RowsInv, NoneSkipped, After, logVars, loggedVars, readVars
<1>6. LogKept'
  BY <1>1 DEF RowsInv, LogKept, logVars, loggedVars
<1> QED  BY <1>2, <1>3, <1>4, <1>5, <1>6 DEF RowsInv

LEMMA CaptureInvStep == CaptureInv /\ [CaptureNext]_captureVars => CaptureInv'
<1> SUFFICES ASSUME CaptureInv, [CaptureNext]_captureVars PROVE CaptureInv'
  OBVIOUS
<1>1. CASE UNCHANGED captureVars
  <2>1. RowsInv'
    BY <1>1, RowsStay DEF CaptureInv, captureVars, loggedVars
  <2>2. TracksInv'
    BY <1>1, TracksStay DEF CaptureInv, TracksInv, TrackTypes, captureVars
  <2> QED  BY <2>1, <2>2 DEF CaptureInv
<1> QED
  BY <1>1, StartStep, LogStep, TriggersStep, TeardownStep, DropTriggersStep, DropLogStep,
     CheckpointStep, CapturesStep, WriteStep, CommitStep, TickStep DEF CaptureNext

-----------------------------------------------------------------------------
(* SchemaCheck.                                                            *)

\* Names that the catalogs give: MySQL and MariaDB report BOOLEAN as tinyint, MariaDB
\* json as longtext, PostgreSQL bool as boolean; what counts up is a number of MySQL.
CatalogNames ==
    /\ \A k \in MySQLKind : \A t \in ColumnTypes[k] :
          /\ t.base \notin {"boolean", "serial"}
          /\ t.auto => t.base \in {"tinyint", "smallint", "mediumint", "int", "bigint",
                                  "float", "double"}
    /\ \A t \in ColumnTypes["MARIADB"] : t.base # "json"
    /\ \A t \in ColumnTypes["POSTGRESQL"] : t.base \notin {"bool", "serial"} /\ ~t.auto

Converted(ty, d) == generateColumnDefinition(ty, d.source, d.target)

\* A table that a request made from the present source has the ty that the target
\* makes of it.
FaithfulInv ==
    \A t \in faithful :
        /\ targetTable[t].there
        /\ Accepts(Converted(sourceType[t], dbs), dbs.target)
        /\ targetTable[t].type = Reported(Converted(sourceType[t], dbs), dbs.target)

\* The types that a request has read are types of the source.
MadeInv == \A r \in CreateRequest :
    creation[r].pc = "create" =>
        creation[r].made \in [SchemaTable -> ColumnTypes[dbs.source]]

ReadTypes == (UNION {ColumnTypes[k] : k \in DbKind}) \cup {NoTable.type}
Creating == [pc : {"idle", "create"}, todo : SUBSET SchemaTable,
             made : [SchemaTable -> ReadTypes]]

SchemaInv == /\ SchemaTypeOK /\ FaithfulInv /\ MadeInv
             /\ targetTable = [t \in SchemaTable |-> targetTable[t]]
             /\ creation \in [CreateRequest -> Creating]

\* Between databases of a kind.
LEMMA SameCompares ==
    ASSUME CatalogNames, NEW k \in DbKind, NEW ty \in ColumnTypes[k]
    PROVE  checkTypeCompatibility(ty.base, Reported(generateColumnDefinition(ty, k, k), k).base)
<1> DEFINE b == ty.base
<1>1. k \in {"MYSQL", "MARIADB", "POSTGRESQL"}
  BY DEF DbKind, MySQLKind
<1>2. generateColumnDefinition(ty, k, k) = ty
  BY <1>1 DEF generateColumnDefinition, convertTypeForTarget, CatalogNames, MySQLKind
<1>3. CASE k = "POSTGRESQL"
  <2>1. \/ Reported(ty, k).base = b
        \/ b = "varchar" /\ Reported(ty, k).base = "character varying"
        \/ b = "char" /\ Reported(ty, k).base = "character"
        \/ b = "timestamp" /\ Reported(ty, k).base = "timestamp without time zone"
        \/ b = "time" /\ Reported(ty, k).base = "time without time zone"
    BY <1>3 DEF Reported, Type, CatalogNames
  <2> QED  BY <1>2, <2>1 DEF checkTypeCompatibility, compatibleMappings
<1>4. CASE k \in MySQLKind
  <2>1. Reported(ty, k).base = b
    BY <1>4 DEF Reported, Type, CatalogNames, MySQLKind
  <2> QED  BY <1>2, <2>1 DEF checkTypeCompatibility
<1> QED  BY <1>1, <1>3, <1>4 DEF MySQLKind

\* From MySQL or MariaDB to PostgreSQL.
LEMMA ToPostgresCompares ==
    ASSUME CatalogNames, NEW k \in MySQLKind, NEW ty \in ColumnTypes[k]
    PROVE  checkTypeCompatibility(ty.base,
               Reported(generateColumnDefinition(ty, k, "POSTGRESQL"), "POSTGRESQL").base)
           <=> IF ty.auto THEN ty.base \notin {"tinyint", "mediumint", "float", "double"}
               ELSE ty.base \notin {"mediumint", "mediumblob", "longblob", "enum", "set"}
<1> DEFINE c == generateColumnDefinition(ty, k, "POSTGRESQL")
           b == ty.base
           r == Reported(c, "POSTGRESQL").base
<1>0. b # "boolean" /\ b # "serial"
  BY DEF CatalogNames
<1>1. CASE ty.auto
  <2>1. r = "integer"
    BY <1>1 DEF generateColumnDefinition, Reported, Type
  <2>2. b \in {"tinyint", "smallint", "mediumint", "int", "bigint", "float", "double"}
    BY <1>1 DEF CatalogNames
  <2> HIDE DEF r, b
  <2>3. checkTypeCompatibility(b, r) <=> b \notin {"tinyint", "mediumint", "float", "double"}
    BY <2>1, <2>2 DEF checkTypeCompatibility, compatibleMappings
  <2> QED  BY <1>1, <2>3 DEF r, b
<1>2. CASE ~ty.auto
  <2>1. c.base = IF b \in {"enum", "set"} THEN "text" ELSE ToPostgres(b)
    BY <1>2 DEF generateColumnDefinition, convertTypeForTarget, Type, MySQLKind
  <2>a. c.base # "serial"
    BY <1>0, <2>1 DEF ToPostgres
  <2>2. \/ r = c.base
        \/ c.base = "varchar" /\ r = "character varying"
        \/ c.base = "char" /\ r = "character"
        \/ c.base = "timestamp" /\ r = "timestamp without time zone"
        \/ c.base = "time" /\ r = "time without time zone"
    BY <2>a DEF Reported, Type
  <2>b. c.base \notin {"varchar", "char", "timestamp", "time"} => r = c.base
    BY <2>2
  <2> HIDE DEF c, b, r
  <2>3. ASSUME b \notin {"mediumint", "mediumblob", "longblob", "enum", "set"}
        PROVE  \/ c.base = b
               \/ b = "int" /\ c.base = "integer"
               \/ b = "tinyint" /\ c.base = "smallint"
               \/ b = "float" /\ c.base = "real"
               \/ b = "double" /\ c.base = "double precision"
               \/ b = "decimal" /\ c.base = "numeric"
               \/ b \in {"mediumtext", "longtext"} /\ c.base = "text"
               \/ b = "blob" /\ c.base = "bytea"
               \/ b = "datetime" /\ c.base = "timestamp"
    BY <2>1, <2>3 DEF ToPostgres
  <2>4. ASSUME b \notin {"mediumint", "mediumblob", "longblob", "enum", "set"}
        PROVE  checkTypeCompatibility(b, r)
    BY <2>2, <2>3, <2>4 DEF checkTypeCompatibility, compatibleMappings
  <2>5. ASSUME b \in {"mediumint", "mediumblob", "longblob", "enum", "set"}
        PROVE  ~checkTypeCompatibility(b, r)
    <3>1. /\ b = "mediumint" => c.base = "integer"
          /\ b \in {"mediumblob", "longblob"} => c.base = "bytea"
          /\ b \in {"enum", "set"} => c.base = "text"
      BY <2>1 DEF ToPostgres
    <3>2. /\ b = "mediumint" => r = "integer"
          /\ b \in {"mediumblob", "longblob"} => r = "bytea"
          /\ b \in {"enum", "set"} => r = "text"
      BY <2>b, <3>1
    <3> QED  BY <2>5, <3>2 DEF checkTypeCompatibility, compatibleMappings
  <2> QED  BY <1>2, <2>4, <2>5 DEF b, c, r
<1> QED  BY <1>1, <1>2 DEF CatalogNames

\* From PostgreSQL to MySQL or MariaDB.
LEMMA ToMySQLCompares ==
    ASSUME CatalogNames, NEW k \in MySQLKind, NEW ty \in ColumnTypes["POSTGRESQL"]
    PROVE  checkTypeCompatibility(ty.base,
               Reported(generateColumnDefinition(ty, "POSTGRESQL", k), k).base)
           <=> ~ \/ ty.base \in {"boolean", "timestamp with time zone"}
                 \/ ty.base = "json" /\ k = "MARIADB"
<1> DEFINE c == generateColumnDefinition(ty, "POSTGRESQL", k)
           b == ty.base
           r == Reported(c, k).base
<1>0. b # "bool" /\ ~ty.auto
  BY DEF CatalogNames
<1>1. c.base = ToMySQL(b)
  BY <1>0 DEF generateColumnDefinition, convertTypeForTarget, Type, MySQLKind
<1>2. /\ c.base = "boolean" => r = "tinyint"
      /\ c.base = "json" /\ k = "MARIADB" => r = "longtext"
      /\ c.base # "boolean" /\ ~(c.base = "json" /\ k = "MARIADB") => r = c.base
  BY DEF Reported, Type, MySQLKind
<1> HIDE DEF c, b, r
<1>3. ASSUME b \notin {"boolean", "timestamp with time zone"}
      PROVE  /\ c.base # "boolean"
             /\ c.base = "json" <=> b = "json"
             /\ \/ c.base = b
                \/ b \in {"integer", "int4"} /\ c.base = "int"
                \/ b = "int2" /\ c.base = "smallint"
                \/ b = "int8" /\ c.base = "bigint"
                \/ b = "real" /\ c.base = "float"
                \/ b = "double precision" /\ c.base = "double"
                \/ b = "numeric" /\ c.base = "decimal"
                \/ b = "character varying" /\ c.base = "varchar"
                \/ b = "character" /\ c.base = "char"
                \/ b = "bytea" /\ c.base = "blob"
                \/ b \in {"timestamp", "timestamp without time zone"}
                      /\ c.base = "datetime"
                \/ b = "time without time zone" /\ c.base = "time"
  <2>1. CASE b \in {"integer", "int4", "int2", "int8", "real", "double precision", "numeric"}
    BY <1>1, <2>1 DEF ToMySQL
  <2>2. CASE b \in {"character varying", "character", "bytea", "timestamp",
                   "timestamp without time zone", "time without time zone"}
    BY <1>1, <2>2 DEF ToMySQL
  <2>3. CASE b \notin {"integer", "int4", "int2", "int8", "real", "double precision",
                      "numeric", "character varying", "character", "bytea", "timestamp",
                      "timestamp without time zone", "time without time zone"}
    <3>1. c.base = b
      BY <1>0, <1>1, <1>3, <2>3 DEF ToMySQL, b
    <3> QED  BY <1>3, <3>1
  <2> QED  BY <2>1, <2>2, <2>3
<1>4. ASSUME b \notin {"boolean", "timestamp with time zone"}, ~(b = "json" /\ k = "MARIADB")
      PROVE  checkTypeCompatibility(b, r)
  <2>1. r = c.base
    BY <1>2, <1>3, <1>4
  <2> QED  BY <1>3, <1>4, <2>1 DEF checkTypeCompatibility, compatibleMappings
<1>5. ASSUME b \in {"boolean", "timestamp with time zone"} PROVE ~checkTypeCompatibility(b, r)
  <2>1. /\ b = "boolean" => c.base = "boolean"
        /\ b = "timestamp with time zone" => c.base = "datetime"
    BY <1>1 DEF ToMySQL
  <2>2. /\ b = "boolean" => r = "tinyint"
        /\ b = "timestamp with time zone" => r = "datetime"
    BY <1>2, <2>1
  <2> QED  BY <1>5, <2>2 DEF checkTypeCompatibility, compatibleMappings
<1>6. ASSUME b = "json", k = "MARIADB" PROVE ~checkTypeCompatibility(b, r)
  <2>1. r = "longtext"
    BY <1>2, <1>3, <1>6
  <2> QED  BY <1>6, <2>1 DEF checkTypeCompatibility, compatibleMappings
<1> QED  BY <1>4, <1>5, <1>6 DEF b, c, r

\* Between MySQL and MariaDB a type is passed on as it is.
LEMMA MySQLCompares ==
    ASSUME CatalogNames, NEW k \in MySQLKind, NEW l \in MySQLKind, k # l,
           NEW ty \in ColumnTypes[k]
    PROVE  checkTypeCompatibility(ty.base, Reported(generateColumnDefinition(ty, k, l), l).base)
           <=> ~(ty.base = "json" /\ l = "MARIADB")
<1> DEFINE b == ty.base
           r == Reported(generateColumnDefinition(ty, k, l), l).base
<1>1. generateColumnDefinition(ty, k, l) = ty
  BY DEF generateColumnDefinition, convertTypeForTarget, MySQLKind
<1>2. r = IF b = "json" /\ l = "MARIADB" THEN "longtext" ELSE b
  BY <1>1 DEF Reported, Type, CatalogNames, MySQLKind
<1> HIDE DEF b, r
<1>3. checkTypeCompatibility(b, r) <=> ~(b = "json" /\ l = "MARIADB")
  BY <1>2 DEF checkTypeCompatibility, compatibleMappings
<1> QED  BY <1>3 DEF b, r

\* What the target gives back for a type that was converted compares with the source,
\* or is one of the pairs that the code does not know.
LEMMA ConvertedCompares ==
    ASSUME CatalogNames, dbs \in [source : DbKind, target : DbKind],
           NEW ty \in ColumnTypes[dbs.source]
    PROVE  checkTypeCompatibility(ty.base, Reported(Converted(ty, dbs), dbs.target).base)
           <=> ~Unmatched(ty)
<1>1. dbs.source \in DbKind /\ dbs.target \in DbKind
  OBVIOUS
<1>2. CASE dbs.source = dbs.target
  BY <1>1, <1>2, SameCompares DEF Converted, Unmatched
<1>3. CASE dbs.source \in MySQLKind /\ dbs.target = "POSTGRESQL"
  <2>1. dbs.source # "POSTGRESQL"
    BY <1>3 DEF MySQLKind
  <2> QED  BY <1>3, <2>1, ToPostgresCompares DEF Converted, Unmatched
<1>4. CASE dbs.source = "POSTGRESQL" /\ dbs.target \in MySQLKind
  <2>1. dbs.target # "POSTGRESQL"
    BY <1>4 DEF MySQLKind
  <2> QED  BY <1>4, <2>1, ToMySQLCompares DEF Converted, Unmatched
<1>5. CASE dbs.source \in MySQLKind /\ dbs.target \in MySQLKind /\ dbs.source # dbs.target
  <2>1. dbs.source # "POSTGRESQL" /\ dbs.target # "POSTGRESQL"
    BY <1>5 DEF MySQLKind
  <2> QED  BY <1>5, <2>1, MySQLCompares DEF Converted, Unmatched
<1> QED  BY <1>1, <1>2, <1>3, <1>4, <1>5 DEF DbKind

LEMMA SchemaInvInit == SchemaInit => SchemaInv
<1> SUFFICES ASSUME SchemaInit PROVE SchemaInv
  OBVIOUS
<1>1. \A t \in SchemaTable : ~targetTable[t].there
  BY DEF SchemaInit, NoTable
<1>2. \A r \in CreateRequest : creation[r].pc = "idle" /\ creation[r].todo = {}
  BY DEF SchemaInit
<1>3. creation \in [CreateRequest -> Creating]
  <2> DEFINE c == [pc |-> "idle", todo |-> {}, made |-> [t \in SchemaTable |-> NoTable.type]]
  <2>1. c \in Creating
    <3>1. NoTable.type \in ReadTypes
      BY DEF ReadTypes
    <3> DEFINE none == [t \in SchemaTable |-> NoTable.type]
    <3>2. none \in [SchemaTable -> ReadTypes]
      BY <3>1
    <3> HIDE DEF none
    <3>3. [pc |-> "idle", todo |-> {}, made |-> none] \in Creating
      BY <3>2 DEF Creating
    <3> QED  BY <3>3 DEF none
  <2> HIDE DEF c
  <2>2. creation = [r \in CreateRequest |-> c]
    BY DEF SchemaInit, c
  <2> QED  BY <2>1, <2>2
<1>4. SchemaTypeOK
  <2>1. \A t \in SchemaTable : targetTable[t].there \in BOOLEAN
    BY <1>1 DEF SchemaInit, NoTable
  <2> QED  BY <1>2, <2>1 DEF SchemaInit, SchemaTypeOK
<1> QED  BY <1>2, <1>3, <1>4 DEF SchemaInv, SchemaInit, FaithfulInv, MadeInv

\* One request changes, and what it has made stays.
LEMMA OneRequest ==
    ASSUME SchemaInv, NEW r \in CreateRequest, NEW c \in Creating,
           creation' = [creation EXCEPT ![r] = c],
           c.pc = "create" => c.made \in [SchemaTable -> ColumnTypes[dbs.source]],
           UNCHANGED <<dbs, sourceType, targetTable, faithful>>
    PROVE  SchemaInv'
<1> USE DEF SchemaInv
<1>1. \A q \in CreateRequest : creation'[q] = IF q = r THEN c ELSE creation[q]
  OBVIOUS
<1>2. creation' \in [CreateRequest -> Creating]
  OBVIOUS
<1>3. \A q \in CreateRequest : creation'[q].pc \in {"idle", "create"}
                               /\ creation'[q].todo \subseteq SchemaTable
  BY <1>2 DEF Creating
<1>4. SchemaTypeOK'
  BY <1>3 DEF SchemaTypeOK
<1>5. FaithfulInv'
  BY DEF FaithfulInv
<1>6. MadeInv'
  BY <1>1 DEF MadeInv
<1> QED  BY <1>2, <1>4, <1>5, <1>6

\* A statement of a request: the table is made from what the request has read.
LEMMA TableMade ==
    ASSUME SchemaInv, NEW r \in CreateRequest, NEW t \in creation[r].todo,
           creation[r].pc = "create",
           NEW c \in Creating, c.made = creation[r].made,
           creation' = [creation EXCEPT ![r] = c],
           Accepts(Converted(creation[r].made[t], dbs), dbs.target),
           targetTable' = [targetTable EXCEPT ![t] =
               [there |-> TRUE, type |-> Reported(Converted(creation[r].made[t], dbs),
                                              dbs.target)]],
           faithful' = IF creation[r].made[t] = sourceType[t] THEN faithful \cup {t}
                       ELSE faithful,
           ~targetTable[t].there, UNCHANGED <<dbs, sourceType>>
    PROVE  SchemaInv'
<1> USE DEF SchemaInv
<1> DEFINE m == creation[r].made[t]
           new == [there |-> TRUE, type |-> Reported(Converted(m, dbs), dbs.target)]
<1>1. t \in SchemaTable /\ t \notin faithful
  BY DEF SchemaTypeOK, FaithfulInv
<1>2. new.there /\ new.type = Reported(Converted(m, dbs), dbs.target)
  OBVIOUS
<1>3. targetTable' = [targetTable EXCEPT ![t] = new]
  OBVIOUS
<1> HIDE DEF new
<1>4. \A x \in SchemaTable : targetTable'[x] = IF x = t THEN new ELSE targetTable[x]
  BY <1>1, <1>3
<1>5. targetTable' = [x \in SchemaTable |-> targetTable'[x]]
  BY <1>3
<1>6. \A q \in CreateRequest : creation'[q] = IF q = r THEN c ELSE creation[q]
  OBVIOUS
<1>7. creation' \in [CreateRequest -> Creating]
  OBVIOUS
<1>8. \A q \in CreateRequest : creation'[q].pc \in {"idle", "create"}
                               /\ creation'[q].todo \subseteq SchemaTable
  BY <1>7 DEF Creating
<1>9. SchemaTypeOK'
  BY <1>1, <1>2, <1>4, <1>8 DEF SchemaTypeOK
<1>10. MadeInv'
  BY <1>6 DEF MadeInv
<1>11. ASSUME NEW x \in faithful'
       PROVE  /\ targetTable'[x].there
              /\ Accepts(Converted(sourceType[x], dbs), dbs.target)
              /\ targetTable'[x].type = Reported(Converted(sourceType[x], dbs), dbs.target)
  <2>1. CASE x = t
    <3>1. sourceType[x] = m
      BY <1>1, <2>1
    <3> QED  BY <1>1, <1>2, <1>4, <2>1, <3>1
  <2>2. CASE x # t
    <3>1. x \in faithful /\ x \in SchemaTable
      BY <2>2 DEF SchemaTypeOK
    <3>2. targetTable'[x] = targetTable[x]
      BY <1>4, <2>2, <3>1
    <3> QED  BY <3>1, <3>2 DEF FaithfulInv
  <2> QED  BY <2>1, <2>2
<1>12. FaithfulInv'
  BY <1>11 DEF FaithfulInv
<1> QED  BY <1>5, <1>7, <1>9, <1>10, <1>12

LEMMA SchemaInvStep == SchemaInv /\ [SchemaNext]_schemaVars => SchemaInv'
<1> SUFFICES ASSUME SchemaInv, [SchemaNext]_schemaVars PROVE SchemaInv'
  OBVIOUS
<1> USE DEF SchemaInv
<1>0. ColumnTypes[dbs.source] \subseteq ReadTypes
  BY DEF SchemaTypeOK, ReadTypes
<1>1. ASSUME NEW r \in CreateRequest, createMissingTables(r) PROVE SchemaInv'
  <2>1. PICK tables \in SUBSET {t \in SchemaTable : ~targetTable[t].there} :
            creation' = [creation EXCEPT ![r] =
                            [pc |-> "create", todo |-> tables, made |-> sourceType]]
    BY <1>1 DEF createMissingTables
  <2> DEFINE c == [pc |-> "create", todo |-> tables, made |-> sourceType]
  <2>2. c \in Creating
    BY <1>0 DEF Creating, SchemaTypeOK
  <2>3. c.made \in [SchemaTable -> ColumnTypes[dbs.source]]
    BY DEF SchemaTypeOK
  <2>4. creation' = [creation EXCEPT ![r] = c]
    BY <2>1
  <2> HIDE DEF c
  <2> QED  BY <1>1, <2>2, <2>3, <2>4, OneRequest DEF createMissingTables
<1>2. ASSUME NEW r \in CreateRequest, createTable(r) PROVE SchemaInv'
  <2>1. PICK t \in creation[r].todo :
          LET ty == Converted(creation[r].made[t], dbs)
              left == creation[r].todo \ {t}
          IN IF targetTable[t].there
             THEN /\ creation' = [creation EXCEPT ![r].todo = left,
                                     ![r].pc = IF left = {} THEN "idle" ELSE "create"]
                  /\ UNCHANGED <<targetTable, faithful>>
             ELSE IF Accepts(ty, dbs.target)
             THEN /\ creation' = [creation EXCEPT ![r].todo = left,
                                     ![r].pc = IF left = {} THEN "idle" ELSE "create"]
                  /\ targetTable' = [targetTable EXCEPT ![t] =
                                        [there |-> TRUE, type |-> Reported(ty, dbs.target)]]
                  /\ faithful' = IF creation[r].made[t] = sourceType[t]
                                 THEN faithful \cup {t} ELSE faithful
             ELSE /\ creation' = [creation EXCEPT ![r].pc = "idle", ![r].todo = {}]
                  /\ UNCHANGED <<targetTable, faithful>>
    BY <1>2 DEF createTable, Converted
  <2>2. creation[r].pc = "create" /\ UNCHANGED <<dbs, sourceType>>
    BY <1>2 DEF createTable
  <2> DEFINE left == creation[r].todo \ {t}
             p == IF left = {} THEN "idle" ELSE "create"
             c == [creation[r] EXCEPT !.todo = left, !.pc = p]
             d == [creation[r] EXCEPT !.pc = "idle", !.todo = {}]
  <2>3. creation[r] \in Creating
    OBVIOUS
  <2>4. p \in {"idle", "create"} /\ left \subseteq SchemaTable
    BY <2>3 DEF Creating
  <2> HIDE DEF left, p
  <2>5. c \in Creating /\ d \in Creating /\ c.made = creation[r].made /\ d.pc = "idle"
    BY <2>3, <2>4 DEF Creating
  <2>6. creation[r].made \in [SchemaTable -> ColumnTypes[dbs.source]]
    BY <2>2 DEF MadeInv
  <2>7. [creation EXCEPT ![r].todo = left, ![r].pc = p] = [creation EXCEPT ![r] = c]
    OBVIOUS
  <2>8. [creation EXCEPT ![r].pc = "idle", ![r].todo = {}] = [creation EXCEPT ![r] = d]
    OBVIOUS
  <2> HIDE DEF c, d
  <2>9. CASE targetTable[t].there
    <3>1. creation' = [creation EXCEPT ![r] = c] /\ UNCHANGED <<targetTable, faithful>>
      BY <2>1, <2>7, <2>9 DEF left, p
    <3> QED  BY <2>2, <2>5, <2>6, <3>1, OneRequest
  <2>10. CASE ~targetTable[t].there /\ Accepts(Converted(creation[r].made[t], dbs), dbs.target)
    <3>1. /\ creation' = [creation EXCEPT ![r] = c]
          /\ targetTable' = [targetTable EXCEPT ![t] =
                 [there |-> TRUE, type |-> Reported(Converted(creation[r].made[t], dbs),
                                              dbs.target)]]
          /\ faithful' = IF creation[r].made[t] = sourceType[t]
                         THEN faithful \cup {t} ELSE faithful
      BY <2>1, <2>7, <2>10 DEF left, p
    <3> QED  BY <2>2, <2>5, <2>10, <3>1, TableMade
  <2>11. CASE ~targetTable[t].there /\ ~Accepts(Converted(creation[r].made[t], dbs), dbs.target)
    <3>1. creation' = [creation EXCEPT ![r] = d] /\ UNCHANGED <<targetTable, faithful>>
      BY <2>1, <2>8, <2>11
    <3> QED  BY <2>2, <2>5, <3>1, OneRequest
  <2> QED  BY <2>9, <2>10, <2>11
<1>3. ASSUME NEW t \in SchemaTable, alterSource(t) PROVE SchemaInv'
  <2>1. PICK ty \in ColumnTypes[dbs.source] : sourceType' = [sourceType EXCEPT ![t] = ty]
    BY <1>3 DEF alterSource
  <2>2. faithful' = faithful \ {t} /\ UNCHANGED <<dbs, targetTable, creation>>
    BY <1>3 DEF alterSource
  <2>3. \A x \in SchemaTable \ {t} : sourceType'[x] = sourceType[x]
    BY <2>1 DEF SchemaTypeOK
  <2>4. SchemaTypeOK'
    BY <2>1, <2>2 DEF SchemaTypeOK
  <2>5. FaithfulInv'
    <3>1. \A x \in faithful' : x \in faithful /\ sourceType'[x] = sourceType[x]
      BY <2>2, <2>3 DEF SchemaTypeOK
    <3> QED  BY <2>2, <3>1 DEF FaithfulInv
  <2> QED  BY <2>2, <2>4, <2>5 DEF MadeInv
<1>4. ASSUME NEW t \in SchemaTable, dropTarget(t) PROVE SchemaInv'
  <2>1. /\ targetTable' = [targetTable EXCEPT ![t] = NoTable] /\ faithful' = faithful \ {t}
        /\ UNCHANGED <<dbs, sourceType, creation>>
    BY <1>4 DEF dropTarget
  <2>2. \A x \in SchemaTable : targetTable'[x] = IF x = t THEN NoTable ELSE targetTable[x]
    BY <2>1
  <2>3. NoTable.there = FALSE
    BY DEF NoTable
  <2>4. SchemaTypeOK'
    BY <2>1, <2>2, <2>3 DEF SchemaTypeOK
  <2>5. FaithfulInv'
    <3>1. \A x \in faithful' : x \in faithful /\ targetTable'[x] = targetTable[x]
      BY <2>1, <2>2 DEF SchemaTypeOK
    <3> QED  BY <2>1, <3>1 DEF FaithfulInv
  <2>6. targetTable' = [x \in SchemaTable |-> targetTable'[x]]
    BY <2>1
  <2> QED  BY <2>1, <2>4, <2>5, <2>6 DEF MadeInv
<1>5. CASE UNCHANGED schemaVars
  BY <1>5 DEF schemaVars, SchemaTypeOK, FaithfulInv, MadeInv
<1> QED  BY <1>1, <1>2, <1>3, <1>4, <1>5 DEF SchemaNext

LEMMA PassesFromInv ==
    ASSUME CatalogNames
    PROVE  SchemaInv => CreatedPasses
<1> SUFFICES ASSUME SchemaInv, NEW t \in faithful
             PROVE  compareTable(t) <=> ~Unmatched(sourceType[t])
  BY DEF CreatedPasses
<1>1. /\ dbs \in [source : DbKind, target : DbKind]
      /\ sourceType[t] \in ColumnTypes[dbs.source]
  BY DEF SchemaInv, SchemaTypeOK
<1>2. /\ targetTable[t].there /\ Accepts(Converted(sourceType[t], dbs), dbs.target)
      /\ targetTable[t].type = Reported(Converted(sourceType[t], dbs), dbs.target)
  BY DEF SchemaInv, FaithfulInv
<1> QED  BY <1>1, <1>2, ConvertedCompares DEF compareTable

-----------------------------------------------------------------------------
(* The composition.                                                        *)

\* Every module starts in its initial states.
LEMMA InitOfEach ==
    Init => /\ SessionsInit /\ PasskeysInit /\ LockoutInit /\ McpInit /\ NotificationsInit
            /\ KeyRingInit /\ AtRestInit /\ ConnectionsInit /\ CaptureInit /\ SchemaInit
  BY DEF Init

\* A step of the whole is a step of each module, or leaves its state.
LEMMA StepOfEach ==
    [Next]_allVars =>
        /\ [SessionsNext]_sessionsVars
        /\ [PasskeysNext]_passkeysVars
        /\ [LockoutNext]_lockoutVars
        /\ [McpNext]_mcpVars
        /\ [NotificationsNext]_notificationVars
        /\ [KeyRingNext]_keyVars
        /\ [AtRestNext]_atRestVars
        /\ [ConnectionsNext]_connectionVars
        /\ [CaptureNext]_captureVars
        /\ [SchemaNext]_schemaVars
<1> SUFFICES ASSUME [Next]_allVars
             PROVE  /\ [SessionsNext]_sessionsVars
                    /\ [PasskeysNext]_passkeysVars
                    /\ [LockoutNext]_lockoutVars
                    /\ [McpNext]_mcpVars
                    /\ [NotificationsNext]_notificationVars
                    /\ [KeyRingNext]_keyVars
                    /\ [AtRestNext]_atRestVars
                    /\ [ConnectionsNext]_connectionVars
                    /\ [CaptureNext]_captureVars
                    /\ [SchemaNext]_schemaVars
  OBVIOUS
<1>1. CASE Next
  <2>1. [SessionsNext]_sessionsVars
    BY <1>1 DEF Next, OthersStay
  <2>2. [PasskeysNext]_passkeysVars
    BY <1>1 DEF Next, OthersStay
  <2>3. [LockoutNext]_lockoutVars
    BY <1>1 DEF Next, OthersStay
  <2>4. [McpNext]_mcpVars
    BY <1>1 DEF Next, OthersStay
  <2>5. [NotificationsNext]_notificationVars
    BY <1>1 DEF Next, OthersStay
  <2>6. [KeyRingNext]_keyVars
    BY <1>1 DEF Next, OthersStay
  <2>7. [AtRestNext]_atRestVars
    BY <1>1 DEF Next, OthersStay
  <2>8. [ConnectionsNext]_connectionVars
    BY <1>1 DEF Next, OthersStay
  <2>9. [CaptureNext]_captureVars
    BY <1>1 DEF Next, OthersStay
  <2>10. [SchemaNext]_schemaVars
    BY <1>1 DEF Next, OthersStay
  <2> QED  BY <2>1, <2>2, <2>3, <2>4, <2>5, <2>6, <2>7, <2>8, <2>9, <2>10
<1>2. CASE UNCHANGED allVars
  BY <1>2 DEF allVars
<1> QED  BY <1>1, <1>2

\* A limit holds however the calls overlap: connections per user, but for what other
\* requests had still to insert at the check, MCP calls per key and day, mails about
\* failed sign-ins per lock and gap, one use of a refresh token and of a challenge, and no
\* use of an approval that was denied while nobody executed it (connection.controller.ts,
\* mcp.service.ts, login-lockout.service.ts, auth.controller.ts, passkey.service.ts).
THEOREM LimitsAreKept == Spec => []LimitsHold
<1> DEFINE Inv == /\ SignedInv /\ PasskeysInv /\ LockoutInv /\ McpInv /\ DenialsHold
                  /\ MakersInv
<1>1. Init => Inv
  <2>1. McpInit => DenialsHold
    BY DEF McpInit, DenialsHold
  <2> QED
    BY <2>1, InitOfEach, SignedInvInit, PasskeysInvInit, LockoutInvInit, McpInvInit,
       MakersInvInit
<1>2. Inv /\ [Next]_allVars => Inv'
  BY StepOfEach, SignedInvStep, PasskeysInvStep, LockoutInvStep, McpInvStep, DenialsStep,
     MakersInvStep
<1>3. Inv => LimitsHold
  <2>1. SignedInv => SingleUse
    BY SignedInFromInv
  <2>2. PasskeysInv => ChallengeOnce
    BY DEF PasskeysInv, ChallengeInv, ChallengeOnce
  <2>3. LockoutInv => AlertsSpaced /\ MailsSpaced
    BY DEF LockoutInv
  <2>4. McpInv => DailyLimitHolds
    BY DailyFromInv
  <2>5. MakersInv => LimitHolds
    BY LimitFromInv
  <2> QED  BY <2>1, <2>2, <2>3, <2>4, <2>5 DEF LimitsHold
<1> HIDE DEF Inv
<1> QED  BY <1>1, <1>2, <1>3, PTL DEF Spec

\* A secret is lost only where the code loses it: a save of settings clears only what its
\* form could not show, a mail uses a replaced password for less than the life of a
\* transporter, every row can be decrypted but those whose primary key was rotated, no
\* passphrase is lost to a rotation and the tunnels that are open agree with the pin: for
\* any number of tabs, secrets, keys, rows and tunnels (notification.controller.ts,
\* key-manager.ts, storage.controller.ts, ssh.service.ts).
THEOREM SecretsAreKept == Spec => []SecretsHold
<1> DEFINE Inv == NotificationsInv /\ KeyRingInv /\ PassInv /\ MakersInv
<1>1. Init => Inv
  BY InitOfEach, NotificationsInvInit, KeyRingInvInit, PassInit, MakersInvInit
<1>2. Inv /\ [Next]_allVars => Inv'
  BY StepOfEach, NotificationsInvStep, KeyRingInvStep, PassStep, MakersInvStep
<1>3. Inv => SecretsHold
  <2>1. NotificationsInv => NeverMasked /\ MailFresh
    BY DEF NotificationsInv
  <2>2. KeyRingInv => RowsReadable
    BY ReadableFromInv
  <2>3. PassInv => RotationKeeps
    BY DEF PassInv
  <2>4. MakersInv => OneKeyTrusted
    BY LimitFromInv
  <2> QED  BY <2>1, <2>2, <2>3, <2>4 DEF SecretsHold
<1> HIDE DEF Inv
<1> QED  BY <1>1, <1>2, <1>3, PTL DEF Spec

\* A browser that is signed in stays so until somebody ends its session or two of its
\* tabs refresh at a time, when it may be signed out but holds no dead cookie, and what a
\* tab asks for is answered: for any number of tabs and requests (auth.controller.ts,
\* refreshToken; client api.ts, doRefresh).
THEOREM TabsStaySignedIn == Spec => []TabsKeepGoing
<1>1. Init => SignedInv
  BY InitOfEach, SignedInvInit
<1>2. SignedInv /\ [Next]_allVars => SignedInv'
  BY StepOfEach, SignedInvStep
<1>3. SignedInv => TabsKeepGoing
  BY SignedInFromInv DEF TabsKeepGoing
<1> QED  BY <1>1, <1>2, <1>3, PTL DEF Spec

\* What was issued before a suspension is of no use afterwards, however it overlaps with
\* refreshes, sign-ins and revocations (admin.controller.ts, setUserStatus).
THEOREM SuspensionIsWhole == Spec => []SuspendedIsOut
<1>1. Init => SignedInv
  BY InitOfEach, SignedInvInit
<1>2. SignedInv /\ [Next]_allVars => SignedInv'
  BY StepOfEach, SignedInvStep
<1>3. SignedInv => SuspendedIsOut
  BY SignedInFromInv
<1> QED  BY <1>1, <1>2, <1>3, PTL DEF Spec

\* Capture by triggers makes no write of the application fail and passes by none, but for
\* what a stop, a tracked log or a failed drop is to blame for and for the changes that
\* were uncommitted at a capture or in a dropped log: for any number of configurations,
\* tables and writes, any limit and any ties of time (cdc-tracker.service.ts).
THEOREM CaptureIsWhole == Spec => []CaptureHolds
<1>1. Init => CaptureInv
  BY InitOfEach, CaptureInvInit
<1>2. CaptureInv /\ [Next]_allVars => CaptureInv'
  BY StepOfEach, CaptureInvStep
<1>3. CaptureInv => CaptureHolds
  BY CaptureFromInv DEF CaptureHolds
<1> QED  BY <1>1, <1>2, <1>3, PTL DEF Spec

\* A table that a request made passes the comparison that its configuration has to pass
\* exactly when its column is none of Unmatched: for any number of tables and requests and
\* all types that the catalogs name, columns that count up and MariaDB included
\* (schema-validator.service.ts, createMissingTables, checkTypeCompatibility).
THEOREM MadeTablesPass ==
    ASSUME CatalogNames
    PROVE  Spec => []CreatedPasses
<1>1. Init => SchemaInv
  BY InitOfEach, SchemaInvInit
<1>2. SchemaInv /\ [Next]_allVars => SchemaInv'
  BY StepOfEach, SchemaInvStep
<1>3. SchemaInv => CreatedPasses
  BY PassesFromInv
<1> QED  BY <1>1, <1>2, <1>3, PTL DEF Spec

\* Kahn's algorithm over the foreign keys of a database, for any list of tables without
\* repetition and any keys between them: every table comes once, a parent that is not
\* behind a cycle before its children, and the others last, in the order of the list
\* (table-ordered-executor.ts).
THEOREM ParentsComeFirst == Spec => []ParentsFirst
<1> DEFINE Keys == foreignKeys \subseteq Members(Tables) \X Members(Tables)
<1>1. Init => Keys
  BY DEF Init
<1>2. Keys /\ [Next]_allVars => Keys'
  BY DEF Next, OthersStay, allVars
<1>3. Keys => ParentsFirst
  <2> DEFINE order == topologicalSortTables(Tables, foreignKeys)
             Place(t) == CHOOSE i \in 1 .. Len(order) : order[i] = t
  <2> SUFFICES ASSUME Keys PROVE ParentsFirst
    OBVIOUS
  <2>1. Behind = Stuck(Tables, foreignKeys)
    BY DEF Behind, Stuck
  <2>2. Tables \in Seq(Members(Tables)) /\ Distinct(Tables)
    BY TablesAssumption DEF Distinct
  <2>3. /\ Members(order) = Members(Tables) /\ Len(order) = Len(Tables)
        /\ \A d \in foreignKeys, i, j \in 1 .. Len(order) :
               /\ d[1] # d[2] /\ d[1] \notin Behind
               /\ order[i] = d[1] /\ order[j] = d[2]
               => i < j
        /\ Keep(Tables, Behind) = SubSeq(order, Len(order) - Cardinality(Behind) + 1, Len(order))
    BY <2>1, <2>2, SortIs
  <2> HIDE DEF order
  <2>4. \A t \in Members(Tables) : Place(t) \in 1 .. Len(order) /\ order[Place(t)] = t
    BY <2>3 DEF Members
  <2> HIDE DEF Place
  <2>5. \A k \in foreignKeys : k[1] # k[2] /\ k[1] \notin Behind => Place(k[1]) < Place(k[2])
    <3>1. \A k \in foreignKeys : k[1] \in Members(Tables) /\ k[2] \in Members(Tables)
      OBVIOUS
    <3> QED  BY <2>3, <2>4, <3>1
  <2> QED  BY <2>3, <2>5 DEF ParentsFirst, order, Place
<1> HIDE DEF Keys
<1> QED  BY <1>1, <1>2, <1>3, PTL DEF Spec

\* Every variable of the module that moves keeps its type.
THEOREM ServicesTyped == Spec => []TypeOK
<1> DEFINE Inv == /\ focus \in Modules /\ SignedInv /\ PasskeysInv /\ LockoutInv /\ McpInv
                  /\ NotificationsInv /\ KeyRingInv /\ AtRestInv /\ MakersInv
                  /\ CaptureInv /\ SchemaInv
<1>1. Init => Inv
  <2>2. Init => focus \in Modules
    BY DEF Init
  <2> QED  BY <2>2, KeyRingInvInit, InitOfEach, SignedInvInit, PasskeysInvInit, LockoutInvInit, McpInvInit,
              NotificationsInvInit, AtRestInvInit, MakersInvInit, CaptureInvInit, SchemaInvInit
<1>2. Inv /\ [Next]_allVars => Inv'
  <2>1. focus \in Modules /\ [Next]_allVars => focus' \in Modules
    BY DEF Next, OthersStay, allVars
  <2> QED  BY <2>1, StepOfEach, SignedInvStep, PasskeysInvStep, LockoutInvStep, McpInvStep,
              NotificationsInvStep, KeyRingInvStep, AtRestInvStep, MakersInvStep, CaptureInvStep,
              SchemaInvStep
<1>3. Inv => TypeOK
  <2>1. (SignedInv => SessionsTypeOK) /\ (CaptureInv => CaptureTypeOK)
        /\ (AtRestInv => AtRestTypeOK) /\ (MakersInv => ConnectionsTypeOK)
    BY SignedInFromInv, CaptureFromInv, AtRestTypes, LimitFromInv
  <2>2. (PasskeysInv => PasskeysTypeOK) /\ (LockoutInv => LockoutTypeOK)
        /\ (McpInv => McpTypeOK) /\ (NotificationsInv => NotificationsTypeOK)
        /\ (KeyRingInv => KeyRingTypeOK) /\ (SchemaInv => SchemaTypeOK)
    BY DEF PasskeysInv, LockoutInv, McpInv, NotificationsInv, KeyRingInv, SchemaInv
  <2> QED  BY <2>1, <2>2 DEF TypeOK
<1> HIDE DEF Inv
<1> QED  BY <1>1, <1>2, <1>3, PTL DEF Spec
=============================================================================
