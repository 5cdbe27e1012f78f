------------------------------ MODULE Passkeys ------------------------------
(***************************************************************************)
(* Passkeys of an account: the challenges kept in memory, registration,    *)
(* sign-in, removal, and passkey-only mode.  Transactions are serializable *)
(* where the code asks for it; the two halves of a verification are not.   *)
(***************************************************************************)
EXTENDS Naturals, FiniteSets

CONSTANTS Credential, Challenge

VARIABLES
    passkeys, passkeyOnly,      \* PasskeyCredential rows, passwordLoginDisabled
    regChallenge, authChallenges, stale,
    enrolling,                  \* credentials between verification and row
    verifying,                  \* assertions after their challenge was found
    signIns                     \* history: sign-ins per challenge, up to two

passkeysVars == <<passkeys, passkeyOnly, regChallenge, authChallenges, stale,
                  enrolling, verifying, signIns>>
storedPasskeys == <<passkeys, passkeyOnly>>
challenges == <<regChallenge, authChallenges, stale>>

PasskeysTypeOK ==
    /\ passkeys \subseteq Credential /\ passkeyOnly \in BOOLEAN
    /\ regChallenge \in BOOLEAN
    /\ authChallenges \subseteq Challenge /\ stale \subseteq Challenge
    /\ enrolling \subseteq Credential \ passkeys
    /\ verifying \in [Challenge \X Credential -> 0 .. 1]
    /\ signIns \in [Challenge -> 0 .. 2]

PasskeysInit ==
    /\ passkeys = {} /\ passkeyOnly = FALSE
    /\ regChallenge = FALSE /\ authChallenges = {} /\ stale = {}
    /\ enrolling = {}
    /\ verifying = [v \in Challenge \X Credential |-> 0]
    /\ signIns = [c \in Challenge |-> 0]

\* One registration challenge per user: a second one replaces it.
createRegistrationChallenge ==
    /\ regChallenge' = TRUE
    /\ UNCHANGED <<storedPasskeys, authChallenges, stale, enrolling, verifying, signIns>>

\* The challenge is taken before the first await, and a credential that is
\* known is not offered again by the browser.
verifyRegistration(c) ==
    /\ regChallenge /\ c \notin passkeys
    /\ regChallenge' = FALSE
    /\ enrolling' = enrolling \cup {c}
    /\ UNCHANGED <<storedPasskeys, authChallenges, stale, verifying, signIns>>

createCredential(c) ==
    /\ c \in enrolling
    /\ enrolling' = enrolling \ {c}
    /\ passkeys' = passkeys \cup {c}
    /\ UNCHANGED <<passkeyOnly, challenges, verifying, signIns>>

createAuthenticationChallenge(h) ==
    /\ h \notin authChallenges \cup stale
    /\ authChallenges' = authChallenges \cup {h}
    /\ UNCHANGED <<storedPasskeys, regChallenge, stale, enrolling, verifying, signIns>>

\* Five minutes later, whether or not it has been swept; a restart of the
\* process forgets them too.
expireChallenge(h) ==
    /\ h \in authChallenges
    /\ authChallenges' = authChallenges \ {h}
    /\ stale' = stale \cup {h}
    /\ UNCHANGED <<storedPasskeys, regChallenge, enrolling, verifying, signIns>>

\* Mutant: the challenge is left to expire.
verifyTwice(h, c) ==
    /\ h \in authChallenges
    /\ verifying[<<h, c>>] = 0
    /\ verifying' = [verifying EXCEPT ![<<h, c>>] = IF c \in passkeys THEN 1 ELSE 0]
    /\ UNCHANGED <<storedPasskeys, challenges, enrolling, signIns>>

\* The challenge is taken; then the credential is read.
verifyAuthentication(h, c) ==
    /\ h \in authChallenges
    /\ authChallenges' = authChallenges \ {h}
    /\ stale' = stale \cup {h}
    /\ verifying' = [verifying EXCEPT ![<<h, c>>] = IF c \in passkeys THEN 1 ELSE 0]
    /\ UNCHANGED <<storedPasskeys, regChallenge, enrolling, signIns>>

\* The signature is good or not; a good one updates the credential's counter,
\* which fails if the credential is gone.
finishAuthentication(h, c, good) ==
    /\ verifying[<<h, c>>] > 0
    /\ verifying' = [verifying EXCEPT ![<<h, c>>] = @ - 1]
    /\ signIns' = IF good /\ c \in passkeys /\ signIns[h] < 2
                  THEN [signIns EXCEPT ![h] = @ + 1] ELSE signIns
    /\ UNCHANGED <<storedPasskeys, challenges, enrolling>>

\* Mutant: the mode is not looked at.
deleteAnyPasskey(c) ==
    /\ c \in passkeys
    /\ passkeys' = passkeys \ {c}
    /\ UNCHANGED <<passkeyOnly, challenges, enrolling, verifying, signIns>>

deletePasskey(c) ==
    /\ c \in passkeys
    /\ passkeyOnly => Cardinality(passkeys) > 1
    /\ passkeys' = passkeys \ {c}
    /\ UNCHANGED <<passkeyOnly, challenges, enrolling, verifying, signIns>>

togglePasswordLogin(disabled) ==
    /\ disabled => passkeys # {}
    /\ passkeyOnly' = disabled
    /\ UNCHANGED <<passkeys, challenges, enrolling, verifying, signIns>>

PasskeysNext ==
    \/ createRegistrationChallenge
    \/ \E c \in Credential : verifyRegistration(c) \/ createCredential(c)
                             \/ deletePasskey(c)
    \/ \E h \in Challenge : createAuthenticationChallenge(h) \/ expireChallenge(h)
    \/ \E h \in Challenge, c \in Credential :
           \/ verifyAuthentication(h, c)
           \/ \E good \in BOOLEAN : finishAuthentication(h, c, good)
    \/ \E disabled \in BOOLEAN : togglePasswordLogin(disabled)

PasskeysSpec == PasskeysInit /\ [][PasskeysNext]_passkeysVars

-----------------------------------------------------------------------------

\* Passkey-only mode never leaves an account without a passkey, whatever
\* removals and toggles are made at a time (passkey.service.ts, deletePasskey).
NeverLockedOut == passkeyOnly => passkeys # {}

\* A challenge signs in once, however often its assertion is sent.
ChallengeOnce == \A h \in Challenge : signIns[h] <= 1
=============================================================================
