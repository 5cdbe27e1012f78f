-------------------------- MODULE Services_proofs --------------------------
(***************************************************************************)
(* Proofs about three of the services that people's requests drive:        *)
(*   - Passkeys: passkey-only mode never leaves an account without a       *)
(*     passkey, and a challenge signs in once;                             *)
(*   - AtRest: a stored artifact keeps a copy, and what was encrypted can  *)
(*     be opened after any rotation of the passphrase;                     *)
(*   - Connections: the pinned host key is one of the server that the      *)
(*     connection names, concurrent first connects agree on one key, and   *)
(*     the limit on connections holds until two requests overlap;          *)
(* each for every value of its constants.  None of them touches the state  *)
(* of another.                                                             *)
(***************************************************************************)
EXTENDS Passkeys, AtRest, Connections, FiniteSetTheorems, TLAPS

-----------------------------------------------------------------------------
(* Passkeys.                                                               *)

\* No assertion of the challenge is being verified, and none has signed in.
Untouched(h) == signIns[h] = 0 /\ \A c \in Credential : verifying[<<h, c>>] = 0

\* A challenge that was not taken yet is fresh; one that was is held by one
\* verification at most, and not by any once it has signed in.
ChallengeInv ==
    /\ \A h \in Challenge : h \notin stale => Untouched(h)
    /\ \A h \in Challenge : signIns[h] \in 0 .. 1
    /\ \A h \in Challenge, c \in Credential : verifying[<<h, c>>] > 0 => signIns[h] = 0
    /\ \A h \in Challenge, c, d \in Credential :
           verifying[<<h, c>>] > 0 /\ verifying[<<h, d>>] > 0 => c = d
    /\ authChallenges \cap stale = {}

PasskeysInv == PasskeysTypeOK /\ NeverLockedOut /\ ChallengeInv

LEMMA PasskeysInvInit == PasskeysInit => PasskeysInv
<1> SUFFICES ASSUME PasskeysInit PROVE PasskeysInv
  OBVIOUS
<1>1. \A h \in Challenge, c \in Credential : verifying[<<h, c>>] = 0
  BY DEF PasskeysInit
<1>2. \A h \in Challenge : signIns[h] = 0
  BY DEF PasskeysInit
<1>3. PasskeysTypeOK
  <2>1. verifying \in [Challenge \X Credential -> 0 .. 1]
    BY DEF PasskeysInit
  <2>2. signIns \in [Challenge -> 0 .. 2]
    BY DEF PasskeysInit
  <2> QED  BY <2>1, <2>2, Zenon DEF PasskeysInit, PasskeysTypeOK
<1>4. ChallengeInv
  BY <1>1, <1>2 DEF PasskeysInit, ChallengeInv, Untouched
<1> QED  BY <1>3, <1>4 DEF PasskeysInit, PasskeysInv, NeverLockedOut

\* What is removed one by one is not empty before the last.
LEMMA OneIsLeft ==
    ASSUME NEW S, NEW c \in S, Cardinality(S) > 1
    PROVE  S \ {c} # {}
<1>1. S # {c}
  BY FS_Singleton
<1> QED  BY <1>1

LEMMA PasskeysInvStep == PasskeysInv /\ [PasskeysNext]_passkeysVars => PasskeysInv'
<1> SUFFICES ASSUME PasskeysInv, [PasskeysNext]_passkeysVars PROVE PasskeysInv'
  OBVIOUS
<1> USE DEF PasskeysInv, PasskeysTypeOK, storedPasskeys, challenges
<1>1. CASE createRegistrationChallenge
  BY <1>1 DEF createRegistrationChallenge, NeverLockedOut, ChallengeInv, Untouched
<1>2. ASSUME NEW c \in Credential, verifyRegistration(c) PROVE PasskeysInv'
  BY <1>2 DEF verifyRegistration, NeverLockedOut, ChallengeInv, Untouched
<1>3. ASSUME NEW c \in Credential, createCredential(c) PROVE PasskeysInv'
  BY <1>3 DEF createCredential, NeverLockedOut, ChallengeInv, Untouched
<1>4. ASSUME NEW c \in Credential, deletePasskey(c) PROVE PasskeysInv'
  <2>1. NeverLockedOut'
    BY <1>4, OneIsLeft DEF deletePasskey, NeverLockedOut
  <2> QED  BY <1>4, <2>1 DEF deletePasskey, ChallengeInv, Untouched
<1>5. ASSUME NEW h \in Challenge, createAuthenticationChallenge(h) PROVE PasskeysInv'
  BY <1>5 DEF createAuthenticationChallenge, NeverLockedOut, ChallengeInv, Untouched
<1>6. ASSUME NEW h \in Challenge, expireChallenge(h) PROVE PasskeysInv'
  BY <1>6 DEF expireChallenge, NeverLockedOut, ChallengeInv, Untouched
<1>7. ASSUME NEW h \in Challenge, NEW c \in Credential, verifyAuthentication(h, c)
      PROVE  PasskeysInv'
  <2>1. Untouched(h)
    BY <1>7 DEF verifyAuthentication, ChallengeInv
  <2> DEFINE n == IF c \in passkeys THEN 1 ELSE 0
  <2>2. verifying' = [verifying EXCEPT ![<<h, c>>] = n] /\ n \in 0 .. 1
    BY <1>7 DEF verifyAuthentication
  <2> HIDE DEF n
  <2>3. verifying' \in [Challenge \X Credential -> 0 .. 1]
    BY <2>2
  <2>4. \A g \in Challenge, d \in Credential :
            <<g, d>> # <<h, c>> => verifying'[<<g, d>>] = verifying[<<g, d>>]
    BY <2>2
  <2>5. ChallengeInv'
    BY <1>7, <2>1, <2>4 DEF verifyAuthentication, ChallengeInv, Untouched
  <2> QED  BY <1>7, <2>3, <2>5 DEF verifyAuthentication, NeverLockedOut
<1>8. ASSUME NEW h \in Challenge, NEW c \in Credential, NEW good \in BOOLEAN,
             finishAuthentication(h, c, good)
      PROVE  PasskeysInv'
  <2>1. verifying[<<h, c>>] = 1 /\ signIns[h] = 0
    BY <1>8 DEF finishAuthentication, ChallengeInv
  <2>2. /\ signIns' \in [Challenge -> 0 .. 2] /\ signIns'[h] \in 0 .. 1
        /\ \A g \in Challenge \ {h} : signIns'[g] = signIns[g]
    BY <1>8, <2>1 DEF finishAuthentication
  <2>3. verifying' = [verifying EXCEPT ![<<h, c>>] = 0]
    BY <1>8, <2>1 DEF finishAuthentication
  <2>4. \A g \in Challenge, d \in Credential :
            verifying'[<<g, d>>] = IF g = h /\ d = c THEN 0 ELSE verifying[<<g, d>>]
    BY <2>3
  <2>5. \A d \in Credential : verifying'[<<h, d>>] = 0
    BY <2>1, <2>4 DEF ChallengeInv
  <2>6. h \in stale
    BY <2>1 DEF ChallengeInv, Untouched
  <2>7. ChallengeInv'
    BY <1>8, <2>2, <2>4, <2>5, <2>6 DEF finishAuthentication, ChallengeInv, Untouched
  <2> QED  BY <1>8, <2>2, <2>3, <2>7 DEF finishAuthentication, NeverLockedOut
<1>9. ASSUME NEW disabled \in BOOLEAN, togglePasswordLogin(disabled) PROVE PasskeysInv'
  BY <1>9 DEF togglePasswordLogin, NeverLockedOut, ChallengeInv, Untouched
<1>10. CASE UNCHANGED passkeysVars
  BY <1>10 DEF passkeysVars, NeverLockedOut, ChallengeInv, Untouched
<1> QED  BY <1>1, <1>2, <1>3, <1>4, <1>5, <1>6, <1>7, <1>8, <1>9, <1>10
         DEF PasskeysNext

\* Passkey-only mode never leaves an account without a passkey, whatever
\* removals and toggles are made at a time (passkey.service.ts, deletePasskey).
THEOREM PasskeyRemains == PasskeysSpec => []NeverLockedOut
<1>1. PasskeysInv => NeverLockedOut
  BY DEF PasskeysInv
<1> QED  BY <1>1, PasskeysInvInit, PasskeysInvStep, PTL DEF PasskeysSpec

\* A challenge signs in once, however often its assertion is sent
\* (passkey.service.ts, verifyAuthentication).
THEOREM ChallengeSignsInOnce == PasskeysSpec => []ChallengeOnce
<1>1. PasskeysInv => ChallengeOnce
  BY DEF PasskeysInv, ChallengeInv, ChallengeOnce
<1> QED  BY <1>1, PasskeysInvInit, PasskeysInvStep, PTL DEF PasskeysSpec

-----------------------------------------------------------------------------
(* Artifacts at rest.                                                      *)

(* The copies.                                                             *)

Copies == [pc : {"none", "dumped", "encrypting", "encrypted", "stored", "deleted"},
           pass : Nat, local : BOOLEAN, remote : BOOLEAN, opened : BOOLEAN]
Settings == [remote : BOOLEAN, deleteLocal : BOOLEAN, enabled : BOOLEAN, pass : Nat,
             history : SUBSET Nat]
Save == [pc : {"idle", "read"}, pass : Nat, history : SUBSET Nat, renew : BOOLEAN,
         patch : SUBSET Patch]

StoreTypes ==
    /\ settings \in Settings /\ saves \in [Saver -> Save]
    /\ artifacts \in [Artifact -> Copies] /\ underTmp \in BOOLEAN

CopiesInv == StoreTypes /\ ArtifactKept

LEMMA CopiesInit == AtRestInit => CopiesInv
<1> SUFFICES ASSUME AtRestInit PROVE CopiesInv
  OBVIOUS
<1> USE DEF NoPass
<1>1. NoArtifact \in Copies
  BY DEF NoArtifact, Copies
<1>2. NoSave \in Save
  BY DEF NoSave, Save
<1>3. settings \in Settings
  BY DEF AtRestInit, Settings
<1>4. StoreTypes
  BY <1>1, <1>2, <1>3 DEF AtRestInit, StoreTypes
<1> QED  BY <1>4 DEF AtRestInit, CopiesInv, ArtifactKept, NoArtifact

\* A step that changes one artifact, and leaves a stored one with a copy.
LEMMA OneArtifact ==
    ASSUME CopiesInv, NEW b \in Artifact, NEW r \in Copies,
           artifacts' = [artifacts EXCEPT ![b] = r],
           r.pc = "stored" => \/ r.local \/ r.remote
                              \/ underTmp /\ r.opened /\ r.pass # NoPass,
           UNCHANGED <<settings, saves, underTmp>>
    PROVE  CopiesInv'
<1>1. \A x \in Artifact : artifacts'[x] = IF x = b THEN r ELSE artifacts[x]
  BY DEF CopiesInv, StoreTypes
<1>2. StoreTypes'
  BY DEF CopiesInv, StoreTypes
<1> QED  BY <1>1, <1>2 DEF CopiesInv, ArtifactKept

LEMMA CopiesStep == CopiesInv /\ [AtRestNext]_atRestVars => CopiesInv'
<1> SUFFICES ASSUME CopiesInv, [AtRestNext]_atRestVars PROVE CopiesInv'
  OBVIOUS
<1> USE AtRestAssumption DEF NoPass, settingsVars
<1>1. ASSUME NEW s \in Saver, upsertStorageSettings(s) PROVE CopiesInv'
  <2>1. saves[s] \in Save
    BY DEF CopiesInv, StoreTypes
  <2>2. PICK patch \in saves[s].patch :
            /\ settings' = [remote |-> patch.remote, deleteLocal |-> patch.deleteLocal,
                            enabled |-> patch.enabled,
                            pass |-> IF saves[s].pass = NoPass THEN settings.pass
                                     ELSE saves[s].pass,
                            history |-> IF saves[s].renew THEN saves[s].history
                                        ELSE settings.history]
            /\ saves' = [saves EXCEPT ![s] = NoSave]
            /\ artifacts' = artifacts /\ underTmp' = underTmp
    BY <1>1 DEF upsertStorageSettings
  <2>3. patch \in Patch
    BY <2>1 DEF Save
  <2>4. settings' \in Settings
    BY <2>1, <2>2, <2>3 DEF CopiesInv, StoreTypes, Settings, Save, Patch
  <2>5. NoSave \in Save
    BY DEF NoSave, Save
  <2> QED  BY <2>2, <2>4, <2>5 DEF CopiesInv, StoreTypes, ArtifactKept
<1>2. ASSUME NEW s \in Saver, NEW patch \in Patch, NEW p \in 0 .. MaxPass,
             readSettings(s, patch, p)
      PROVE  CopiesInv'
  <2> DEFINE h == IF changingPassphrase(p) THEN backupPassphraseHistory(p) ELSE {}
             w == [pc |-> "read", pass |-> p, renew |-> changingPassphrase(p),
                   history |-> h, patch |-> {patch}]
  <2>1. h \in SUBSET Nat
    BY DEF CopiesInv, StoreTypes, Settings, backupPassphraseHistory
  <2>2. changingPassphrase(p) \in BOOLEAN
    BY DEF changingPassphrase
  <2>3. saves' = [saves EXCEPT ![s] = w]
    BY <1>2 DEF readSettings
  <2> HIDE DEF h
  <2>4. w \in Save
    BY <2>1, <2>2 DEF Save
  <2> HIDE DEF w
  <2> QED  BY <1>2, <2>3, <2>4 DEF readSettings, CopiesInv, StoreTypes, ArtifactKept
<1>3. ASSUME NEW b \in Artifact, dump(b) PROVE CopiesInv'
  <2> DEFINE r == [artifacts[b] EXCEPT !.pc = "dumped", !.local = TRUE]
  <2>1. r \in Copies /\ r.pc = "dumped"
    BY DEF CopiesInv, StoreTypes, Copies
  <2>2. artifacts' = [artifacts EXCEPT ![b] = r] /\ UNCHANGED <<settings, saves, underTmp>>
    BY <1>3 DEF dump
  <2> HIDE DEF r
  <2> QED  BY <2>1, <2>2, OneArtifact
<1>4. ASSUME NEW b \in Artifact, beginEncrypt(b) PROVE CopiesInv'
  <2> DEFINE r == [artifacts[b] EXCEPT
                      !.pc = IF settings.enabled THEN "encrypting" ELSE "encrypted",
                      !.pass = IF settings.enabled THEN settings.pass ELSE NoPass]
  <2>1. r \in Copies /\ r.pc # "stored"
    BY DEF CopiesInv, StoreTypes, Copies, Settings
  <2>2. artifacts' = [artifacts EXCEPT ![b] = r] /\ UNCHANGED <<settings, saves, underTmp>>
    BY <1>4 DEF beginEncrypt
  <2> HIDE DEF r
  <2> QED  BY <2>1, <2>2, OneArtifact
<1>5. ASSUME NEW b \in Artifact, encryptBackupFile(b) PROVE CopiesInv'
  <2>1. PICK p \in {artifacts[b].pass, NoPass} :
            artifacts' = [artifacts EXCEPT ![b].pc = "encrypted", ![b].pass = p]
    BY <1>5 DEF encryptBackupFile
  <2> DEFINE r == [artifacts[b] EXCEPT !.pc = "encrypted", !.pass = p]
  <2>2. artifacts[b] \in Copies /\ p \in Nat
    BY DEF CopiesInv, StoreTypes, Copies
  <2>3. r \in Copies /\ r.pc = "encrypted"
    BY <2>2 DEF CopiesInv, StoreTypes, Copies
  <2>4. artifacts' = [artifacts EXCEPT ![b] = r] /\ UNCHANGED <<settings, saves, underTmp>>
    BY <1>5, <2>1 DEF encryptBackupFile
  <2> HIDE DEF r
  <2> QED  BY <2>3, <2>4, OneArtifact
<1>6. ASSUME NEW b \in Artifact, uploadBackupFile(b) PROVE CopiesInv'
  <2>1. PICK done \in {FALSE, settings.remote} :
            artifacts' = [artifacts EXCEPT ![b].pc = "stored", ![b].remote = done,
                                           ![b].local = ~deleteLocalCopy(b, done)]
    BY <1>6 DEF uploadBackupFile
  <2> DEFINE kept == ~deleteLocalCopy(b, done)
             r == [artifacts[b] EXCEPT !.pc = "stored", !.remote = done, !.local = kept]
  <2>2. done \in BOOLEAN /\ kept \in BOOLEAN
    BY DEF CopiesInv, StoreTypes, Settings, deleteLocalCopy
  <2>3. kept \/ done
    BY <2>2 DEF deleteLocalCopy
  <2>4. artifacts' = [artifacts EXCEPT ![b] = r] /\ UNCHANGED <<settings, saves, underTmp>>
    BY <1>6, <2>1 DEF uploadBackupFile
  <2> HIDE DEF kept
  <2>5. r \in Copies /\ r.local = kept /\ r.remote = done
    BY <2>2 DEF CopiesInv, StoreTypes, Copies
  <2> HIDE DEF r
  <2> QED  BY <2>3, <2>4, <2>5, OneArtifact
<1>7. ASSUME NEW b \in Artifact, deleteBackup(b) PROVE CopiesInv'
  <2> DEFINE r == [NoArtifact EXCEPT !.pc = "deleted"]
  <2>1. r \in Copies /\ r.pc = "deleted"
    BY DEF NoArtifact, Copies
  <2>2. artifacts' = [artifacts EXCEPT ![b] = r] /\ UNCHANGED <<settings, saves, underTmp>>
    BY <1>7 DEF deleteBackup
  <2> HIDE DEF r
  <2> QED  BY <2>1, <2>2, OneArtifact
<1>8. ASSUME NEW u \in Use, ensureLocalBackupFile(u) PROVE CopiesInv'
  <2> DEFINE b == uses[u].of
             r == [artifacts[b] EXCEPT !.opened = TRUE, !.local = ~underTmp]
  <2>1. UNCHANGED <<settings, saves, underTmp>>
    BY <1>8 DEF ensureLocalBackupFile
  <2>2. CASE artifacts' = artifacts
    BY <2>1, <2>2 DEF CopiesInv, StoreTypes, ArtifactKept
  <2>3. CASE artifacts' # artifacts
    <3>1. /\ artifacts[b].pass # NoPass
          /\ artifacts' = [artifacts EXCEPT ![b].opened = TRUE, ![b].local = ~underTmp]
      BY <1>8, <2>3 DEF ensureLocalBackupFile
    <3>2. b \in Artifact
      BY <2>3, <3>1 DEF CopiesInv, StoreTypes
    <3>3. artifacts[b] \in Copies /\ underTmp \in BOOLEAN
      BY <3>2 DEF CopiesInv, StoreTypes
    <3>4. /\ r \in Copies /\ r.opened /\ r.local = ~underTmp /\ r.pass = artifacts[b].pass
      BY <3>3 DEF Copies
    <3>5. artifacts' = [artifacts EXCEPT ![b] = r]
      BY <3>1
    <3> HIDE DEF r, b
    <3> QED  BY <2>1, <3>1, <3>2, <3>3, <3>4, <3>5, OneArtifact
  <2> QED  BY <2>2, <2>3
<1>9. ASSUME NEW u \in Use, cleanupTempFile(u) PROVE CopiesInv'
  BY <1>9 DEF cleanupTempFile, CopiesInv, StoreTypes, ArtifactKept
<1>10. ASSUME NEW u \in Use, NEW b \in Artifact, beginUse(u, b) PROVE CopiesInv'
  BY <1>10 DEF beginUse, CopiesInv, StoreTypes, ArtifactKept
<1>11. CASE UNCHANGED atRestVars
  BY <1>11 DEF atRestVars, CopiesInv, StoreTypes, ArtifactKept
<1> QED  BY <1>1, <1>2, <1>3, <1>4, <1>5, <1>6, <1>7, <1>8, <1>9, <1>10, <1>11
         DEF AtRestNext

\* A stored artifact has a copy: no order of uploads that fail, saved settings
\* and uses of it takes the last one away, but for the copy on disk of an encrypted
\* artifact that was used while the storage directory is below the temporary one
\* (storage.service.ts, uploadBackupFile, maybeDecrypt, cleanupTempFile).
THEOREM ArtifactIsKept == AtRestSpec => []ArtifactKept
<1>1. CopiesInv => ArtifactKept
  BY DEF CopiesInv
<1> QED  BY <1>1, CopiesInit, CopiesStep, PTL DEF AtRestSpec

-----------------------------------------------------------------------------
(* The passphrases.                                                        *)

\* What a save will write follows from the settings as they are, although it
\* was worked out when they were read: unless two saves overlapped, only one
\* that carries a passphrase is under way.
SavesInv ==
    /\ \A s \in Saver : saves[s].pass = NoPass => ~saves[s].renew
    /\ ~overwritten =>
          /\ \A s, o \in Saver : saves[s].pass # NoPass /\ saves[o].pass # NoPass => s = o
          /\ \A s \in Saver : saves[s].pass # NoPass =>
                IF saves[s].renew THEN saves[s].history = settings.history \cup {settings.pass}
                ELSE settings.pass \in {NoPass, saves[s].pass}

PassInv == CopiesInv /\ SavesInv /\ RotationKeeps

LEMMA PassInit == AtRestInit => PassInv
  BY CopiesInit DEF AtRestInit, PassInv, SavesInv, RotationKeeps, candidates, NoSave,
                    NoArtifact, NoPass

\* The candidates never shrink.
LEMMA CandidatesGrow ==
    ASSUME SavesInv, ~overwritten, NEW s \in Saver, upsertStorageSettings(s)
    PROVE  candidates \subseteq candidates'
<1>1. CASE saves[s].pass = NoPass
  BY <1>1 DEF upsertStorageSettings, SavesInv, candidates
<1>2. CASE saves[s].pass # NoPass /\ saves[s].renew
  BY <1>2 DEF upsertStorageSettings, SavesInv, candidates
<1>3. CASE saves[s].pass # NoPass /\ ~saves[s].renew
  BY <1>3 DEF upsertStorageSettings, SavesInv, candidates
<1> QED  BY <1>1, <1>2, <1>3

LEMMA PassStep == PassInv /\ [AtRestNext]_atRestVars => PassInv'
<1> SUFFICES ASSUME PassInv, [AtRestNext]_atRestVars PROVE SavesInv' /\ RotationKeeps'
  BY CopiesStep DEF PassInv
<1> USE DEF PassInv
<1>1. ASSUME NEW s \in Saver, upsertStorageSettings(s) PROVE SavesInv' /\ RotationKeeps'
  <2>1. artifacts' = artifacts /\ overwritten' = overwritten
        /\ saves' = [saves EXCEPT ![s] = NoSave]
    BY <1>1 DEF upsertStorageSettings
  <2>2. \A o \in Saver : saves'[o] = IF o = s THEN NoSave ELSE saves[o]
    BY <2>1 DEF CopiesInv, StoreTypes
  <2>3. ASSUME NEW o \in Saver, ~overwritten, saves'[o].pass # NoPass
        PROVE  settings'.pass = settings.pass /\ settings'.history = settings.history
    <3>1. o # s /\ saves[o].pass # NoPass
      BY <2>2, <2>3 DEF NoSave
    <3>2. saves[s].pass = NoPass /\ ~saves[s].renew
      BY <2>3, <3>1 DEF SavesInv
    <3> QED  BY <1>1, <3>2 DEF upsertStorageSettings
  <2>4. SavesInv'
    BY <2>1, <2>2, <2>3 DEF SavesInv, NoSave
  <2>5. RotationKeeps'
    <3>1. CASE overwritten
      BY <2>1, <3>1 DEF RotationKeeps
    <3>2. CASE ~overwritten
      BY <1>1, <2>1, <3>2, CandidatesGrow DEF RotationKeeps
    <3> QED  BY <3>1, <3>2
  <2> QED  BY <2>4, <2>5
<1>2. ASSUME NEW s \in Saver, NEW patch \in Patch, NEW p \in 0 .. MaxPass,
             readSettings(s, patch, p)
      PROVE  SavesInv' /\ RotationKeeps'
  <2>1. RotationKeeps'
    BY <1>2 DEF readSettings, RotationKeeps, candidates
  <2> DEFINE h == IF changingPassphrase(p) THEN backupPassphraseHistory(p) ELSE {}
             w == [pc |-> "read", pass |-> p, renew |-> changingPassphrase(p),
                   history |-> h, patch |-> {patch}]
  <2>2. /\ \A o \in Saver \ {s} : saves'[o] = saves[o]
        /\ saves'[s].pass = p /\ saves'[s].renew = changingPassphrase(p)
        /\ saves'[s].history = h
    <3>1. saves' = [saves EXCEPT ![s] = w]
      BY <1>2 DEF readSettings
    <3>2. w.pass = p /\ w.renew = changingPassphrase(p) /\ w.history = h
      OBVIOUS
    <3> HIDE DEF w, h
    <3> QED  BY <3>1, <3>2 DEF CopiesInv, StoreTypes
  <2>3. ~overwritten' => /\ ~overwritten
                         /\ p # NoPass => \A o \in Saver : saves[o].pass = NoPass
    BY <1>2 DEF readSettings
  <2>4. ~changingPassphrase(p) /\ p # NoPass => settings.pass \in {NoPass, p}
    BY DEF changingPassphrase
  <2>5. changingPassphrase(p) => p # NoPass
    BY DEF changingPassphrase
  <2>6. settings' = settings
    BY <1>2 DEF readSettings
  <2>7. SavesInv'
    BY <2>2, <2>3, <2>4, <2>5, <2>6 DEF SavesInv, backupPassphraseHistory, CopiesInv
  <2> QED  BY <2>1, <2>7
<1>3. ASSUME NEW b \in Artifact, dump(b) PROVE SavesInv' /\ RotationKeeps'
  BY <1>3 DEF dump, settingsVars, SavesInv, RotationKeeps, candidates, CopiesInv,
              StoreTypes, Copies
<1>4. ASSUME NEW b \in Artifact, beginEncrypt(b) PROVE SavesInv' /\ RotationKeeps'
  BY <1>4 DEF beginEncrypt, settingsVars, SavesInv, RotationKeeps, candidates, CopiesInv,
              StoreTypes, Copies
<1>5. ASSUME NEW b \in Artifact, encryptBackupFile(b) PROVE SavesInv' /\ RotationKeeps'
  BY <1>5 DEF encryptBackupFile, settingsVars, SavesInv, RotationKeeps, candidates, CopiesInv,
              StoreTypes, Copies
<1>6. ASSUME NEW b \in Artifact, uploadBackupFile(b) PROVE SavesInv' /\ RotationKeeps'
  BY <1>6 DEF uploadBackupFile, settingsVars, SavesInv, RotationKeeps, candidates, CopiesInv,
              StoreTypes, Copies
<1>7. ASSUME NEW b \in Artifact, deleteBackup(b) PROVE SavesInv' /\ RotationKeeps'
  BY <1>7 DEF deleteBackup, NoArtifact, settingsVars, SavesInv, RotationKeeps, candidates,
              CopiesInv, StoreTypes
<1>8. ASSUME NEW u \in Use, ensureLocalBackupFile(u) PROVE SavesInv' /\ RotationKeeps'
  <2>1. UNCHANGED <<settings, saves, nextPass, overwritten>>
    BY <1>8 DEF ensureLocalBackupFile, settingsVars
  <2>2. \A b \in Artifact : artifacts'[b].pass = artifacts[b].pass
    BY <1>8 DEF ensureLocalBackupFile, CopiesInv, StoreTypes, Copies
  <2> QED  BY <2>1, <2>2 DEF SavesInv, RotationKeeps, candidates
<1>9. ASSUME NEW u \in Use, cleanupTempFile(u) PROVE SavesInv' /\ RotationKeeps'
  BY <1>9 DEF cleanupTempFile, settingsVars, SavesInv, RotationKeeps, candidates
<1>10. ASSUME NEW u \in Use, NEW b \in Artifact, beginUse(u, b)
       PROVE  SavesInv' /\ RotationKeeps'
  BY <1>10 DEF beginUse, settingsVars, SavesInv, RotationKeeps, candidates
<1>11. CASE UNCHANGED atRestVars
  BY <1>11 DEF atRestVars, SavesInv, RotationKeeps, candidates
<1> QED  BY <1>1, <1>2, <1>3, <1>4, <1>5, <1>6, <1>7, <1>8, <1>9, <1>10, <1>11
         DEF AtRestNext

\* What was encrypted, or is being encrypted, can be opened with a passphrase
\* of the settings, unless two saves overlapped (`no data loss on rotation',
\* storage.controller.ts).
THEOREM RotationIsSafe == AtRestSpec => []RotationKeeps
<1>1. PassInv => RotationKeeps
  BY DEF PassInv
<1> QED  BY <1>1, PassInit, PassStep, PTL DEF AtRestSpec

-----------------------------------------------------------------------------
(* The types.                                                              *)

Uses == [pc : {"idle", "resolving", "using"}, of : Artifact \cup {"none"}, temp : BOOLEAN]

\* The passphrases are among those that were chosen.
ChosenInv ==
    /\ settings.pass \in 0 .. MaxPass /\ settings.history \subseteq 1 .. MaxPass
    /\ nextPass \in 1 .. MaxPass + 1
    /\ \A s \in Saver : saves[s].pass \in 0 .. MaxPass /\ saves[s].history \subseteq 1 .. MaxPass

HeldInv == artifacts \in [Artifact -> [pc : {"none", "dumped", "encrypting", "encrypted", "stored",
                                             "deleted"},
                                       pass : 0 .. MaxPass, local : BOOLEAN, remote : BOOLEAN, opened : BOOLEAN]]

AtRestInv == /\ CopiesInv /\ ChosenInv /\ HeldInv
             /\ overwritten \in BOOLEAN /\ uses \in [Use -> Uses]

LEMMA AtRestTypes == AtRestInv => AtRestTypeOK
<1> SUFFICES ASSUME AtRestInv PROVE AtRestTypeOK
  OBVIOUS
<1>1. settings \in Settings /\ saves \in [Saver -> Save]
  BY DEF AtRestInv, CopiesInv, StoreTypes
<1>2. /\ settings.remote \in BOOLEAN /\ settings.deleteLocal \in BOOLEAN
      /\ settings.enabled \in BOOLEAN
  BY <1>1 DEF Settings
<1>4. underTmp \in BOOLEAN
  BY DEF AtRestInv, CopiesInv, StoreTypes
<1>3. \A s \in Saver : /\ saves[s].pc \in {"idle", "read"} /\ saves[s].patch \subseteq Patch
                       /\ saves[s].renew \in BOOLEAN
  BY <1>1 DEF Save
<1> QED  BY <1>2, <1>3, <1>4 DEF AtRestInv, ChosenInv, HeldInv, Uses, AtRestTypeOK

LEMMA AtRestInvInit == AtRestInit => AtRestInv
<1> SUFFICES ASSUME AtRestInit PROVE AtRestInv
  OBVIOUS
<1> USE AtRestAssumption DEF NoPass
<1>1. NoUse \in Uses
  BY DEF NoUse, Uses
<1>2. uses \in [Use -> Uses]
  BY <1>1 DEF AtRestInit
<1>3. NoSave.pass = 0 /\ NoSave.history = {}
  BY DEF NoSave
<1>4. ChosenInv
  BY <1>3 DEF AtRestInit, ChosenInv
<1>5. 0 \in 0 .. MaxPass
  OBVIOUS
<1>6. HeldInv
  <2>1. NoArtifact \in [pc : {"none", "dumped", "encrypting", "encrypted", "stored", "deleted"},
                        pass : 0 .. MaxPass, local : BOOLEAN, remote : BOOLEAN, opened : BOOLEAN]
    BY <1>5 DEF NoArtifact
  <2> QED  BY <2>1 DEF AtRestInit, HeldInv
<1> QED  BY <1>2, <1>4, <1>6, CopiesInit DEF AtRestInv, AtRestInit

LEMMA AtRestInvStep == AtRestInv /\ [AtRestNext]_atRestVars => AtRestInv'
<1> SUFFICES ASSUME AtRestInv, [AtRestNext]_atRestVars PROVE AtRestInv'
  OBVIOUS
<1>0. CopiesInv'
  BY CopiesStep DEF AtRestInv
<1> USE AtRestAssumption DEF AtRestInv, NoPass, settingsVars
<1>1. ASSUME NEW s \in Saver, upsertStorageSettings(s) PROVE AtRestInv'
  <2>1. PICK patch \in saves[s].patch :
          settings' = [remote |-> patch.remote, deleteLocal |-> patch.deleteLocal,
                       enabled |-> patch.enabled,
                       pass |-> IF saves[s].pass = NoPass THEN settings.pass
                                ELSE saves[s].pass,
                       history |-> IF saves[s].renew THEN saves[s].history
                                   ELSE settings.history]
    BY <1>1 DEF upsertStorageSettings
  <2>2. /\ saves' = [saves EXCEPT ![s] = NoSave]
        /\ UNCHANGED <<nextPass, overwritten, artifacts, uses>>
    BY <1>1 DEF upsertStorageSettings
  <2>3. settings'.pass \in {settings.pass, saves[s].pass}
        /\ settings'.history \in {settings.history, saves[s].history}
    BY <2>1
  <2>4. \A o \in Saver : saves'[o] = IF o = s THEN NoSave ELSE saves[o]
    BY <2>2 DEF CopiesInv, StoreTypes
  <2>5. NoSave.pass = 0 /\ NoSave.history = {}
    BY DEF NoSave
  <2>6. ChosenInv'
    BY <2>2, <2>3, <2>4, <2>5 DEF ChosenInv
  <2> QED  BY <1>0, <2>2, <2>6 DEF HeldInv
<1>2. ASSUME NEW s \in Saver, NEW patch \in Patch, NEW p \in 0 .. MaxPass,
             readSettings(s, patch, p)
      PROVE  AtRestInv'
  <2> DEFINE history == IF changingPassphrase(p) THEN backupPassphraseHistory(p) ELSE {}
             r == [pc |-> "read", pass |-> p, renew |-> changingPassphrase(p),
                   history |-> history, patch |-> {patch}]
  <2>1. /\ nextPass' = IF p = nextPass THEN nextPass + 1 ELSE nextPass
        /\ saves' = [saves EXCEPT ![s] = r]
        /\ overwritten' = (overwritten \/ (p # NoPass
                                          /\ \E o \in Saver : saves[o].pass # NoPass))
        /\ UNCHANGED <<settings, underTmp, artifacts, uses>>
    BY <1>2 DEF readSettings
  <2>2. history \subseteq 1 .. MaxPass
    BY DEF ChosenInv, changingPassphrase, backupPassphraseHistory
  <2> HIDE DEF history
  <2>3. r.pass = p /\ r.history = history
    OBVIOUS
  <2> HIDE DEF r
  <2>4. \A o \in Saver : saves'[o] = IF o = s THEN r ELSE saves[o]
    BY <2>1 DEF CopiesInv, StoreTypes
  <2>5. ChosenInv'
    <3>1. nextPass' \in 1 .. MaxPass + 1
      BY <2>1 DEF ChosenInv
    <3> QED  BY <2>1, <2>2, <2>3, <2>4, <3>1 DEF ChosenInv
  <2> QED  BY <1>0, <2>1, <2>5 DEF HeldInv
<1>3. ASSUME NEW b \in Artifact, UNCHANGED <<settingsVars, uses>>,
             NEW r \in [pc : {"none", "dumped", "encrypting", "encrypted", "stored", "deleted"},
                        pass : 0 .. MaxPass, local : BOOLEAN, remote : BOOLEAN, opened : BOOLEAN],
             artifacts' = [artifacts EXCEPT ![b] = r]
      PROVE  AtRestInv'
  <2>1. ChosenInv' /\ HeldInv'
    BY <1>3 DEF ChosenInv, HeldInv
  <2> QED  BY <1>0, <1>3, <2>1
<1> DEFINE Held == [pc : {"none", "dumped", "encrypting", "encrypted", "stored", "deleted"},
                    pass : 0 .. MaxPass, local : BOOLEAN, remote : BOOLEAN, opened : BOOLEAN]
<1>4. \A b \in Artifact : artifacts[b] \in Held
  BY DEF HeldInv
<1>5. ASSUME NEW b \in Artifact, dump(b) PROVE AtRestInv'
  <2> DEFINE r == [artifacts[b] EXCEPT !.pc = "dumped", !.local = TRUE]
  <2>1. artifacts' = [artifacts EXCEPT ![b] = r] /\ r \in Held
    BY <1>4, <1>5 DEF dump
  <2> HIDE DEF r
  <2> QED  BY <1>3, <1>5, <2>1 DEF dump
<1>6. ASSUME NEW b \in Artifact, beginEncrypt(b) PROVE AtRestInv'
  <2> DEFINE p == IF settings.enabled THEN settings.pass ELSE NoPass
             r == [artifacts[b] EXCEPT
                       !.pc = IF settings.enabled THEN "encrypting" ELSE "encrypted",
                       !.pass = p]
  <2>1. p \in 0 .. MaxPass
    BY DEF ChosenInv
  <2>2. artifacts' = [artifacts EXCEPT ![b] = r]
    BY <1>6 DEF beginEncrypt
  <2> HIDE DEF p
  <2>3. r \in Held
    BY <1>4, <2>1
  <2> HIDE DEF r
  <2> QED  BY <1>3, <1>6, <2>2, <2>3 DEF beginEncrypt
<1>7. ASSUME NEW b \in Artifact, encryptBackupFile(b) PROVE AtRestInv'
  <2>1. PICK p \in {artifacts[b].pass, NoPass} :
            artifacts' = [artifacts EXCEPT ![b].pc = "encrypted", ![b].pass = p]
    BY <1>7 DEF encryptBackupFile
  <2> DEFINE r == [artifacts[b] EXCEPT !.pc = "encrypted", !.pass = p]
  <2>2. p \in 0 .. MaxPass
    BY <1>4
  <2>3. artifacts' = [artifacts EXCEPT ![b] = r] /\ r \in Held
    BY <1>4, <2>1, <2>2
  <2> HIDE DEF r
  <2> QED  BY <1>3, <1>7, <2>3 DEF encryptBackupFile
<1>8. ASSUME NEW b \in Artifact, uploadBackupFile(b) PROVE AtRestInv'
  <2>1. PICK done \in {FALSE, settings.remote} :
            artifacts' = [artifacts EXCEPT ![b].pc = "stored", ![b].remote = done,
                                           ![b].local = ~deleteLocalCopy(b, done)]
    BY <1>8 DEF uploadBackupFile
  <2> DEFINE l == ~deleteLocalCopy(b, done)
             r == [artifacts[b] EXCEPT !.pc = "stored", !.remote = done, !.local = l]
  <2>2. done \in BOOLEAN /\ l \in BOOLEAN
    BY DEF CopiesInv, StoreTypes, Settings, deleteLocalCopy
  <2>3. artifacts' = [artifacts EXCEPT ![b] = r]
    BY <2>1
  <2> HIDE DEF l
  <2>4. r \in Held
    BY <1>4, <2>2
  <2> HIDE DEF r
  <2> QED  BY <1>3, <1>8, <2>3, <2>4 DEF uploadBackupFile
<1>9. ASSUME NEW b \in Artifact, deleteBackup(b) PROVE AtRestInv'
  <2> DEFINE r == [NoArtifact EXCEPT !.pc = "deleted"]
  <2>1. artifacts' = [artifacts EXCEPT ![b] = r]
    BY <1>9 DEF deleteBackup
  <2>2. r \in Held
    <3>1. 0 \in 0 .. MaxPass
      OBVIOUS
    <3>2. NoArtifact \in Held
      BY <3>1 DEF NoArtifact
    <3> QED  BY <3>2
  <2> HIDE DEF r
  <2> QED  BY <1>3, <1>9, <2>1, <2>2 DEF deleteBackup
<1>10. ASSUME UNCHANGED <<settingsVars, artifacts>>, uses' \in [Use -> Uses]
       PROVE  AtRestInv'
  BY <1>0, <1>10 DEF ChosenInv, HeldInv
<1>11. NoUse \in Uses
  BY DEF NoUse, Uses
<1>12. ASSUME NEW u \in Use, NEW b \in Artifact, beginUse(u, b) PROVE AtRestInv'
  <2> DEFINE r == [pc |-> "resolving", of |-> b,
                   temp |-> ~artifacts[b].local \/ artifacts[b].pass # NoPass]
  <2>1. r \in Uses
    BY DEF Uses
  <2>2. uses' = [uses EXCEPT ![u] = r]
    BY <1>12 DEF beginUse
  <2> HIDE DEF r
  <2> QED  BY <1>10, <1>12, <2>1, <2>2 DEF beginUse
<1>13. ASSUME NEW u \in Use, ensureLocalBackupFile(u) PROVE AtRestInv'
  <2>1. \E r \in {[uses[u] EXCEPT !.pc = "using"], NoUse} : uses' = [uses EXCEPT ![u] = r]
    BY <1>13 DEF ensureLocalBackupFile
  <2>2. [uses[u] EXCEPT !.pc = "using"] \in Uses
    BY DEF Uses
  <2>3. uses' \in [Use -> Uses]
    BY <1>11, <2>1, <2>2
  <2>4. UNCHANGED settingsVars
    BY <1>13 DEF ensureLocalBackupFile
  <2>5. HeldInv'
    <3> DEFINE b == uses[u].of
               r == [artifacts[b] EXCEPT !.opened = TRUE, !.local = ~underTmp]
    <3>1. CASE artifacts' = artifacts
      BY <3>1 DEF HeldInv
    <3>2. CASE artifacts' # artifacts
      <4>1. artifacts' = [artifacts EXCEPT ![b] = r]
        BY <1>13, <3>2 DEF ensureLocalBackupFile
      <4>2. b \in Artifact
        BY <3>2, <4>1 DEF HeldInv
      <4>3. r \in Held
        BY <1>4, <4>2 DEF CopiesInv, StoreTypes
      <4> HIDE DEF r, b
      <4> QED  BY <4>1, <4>2, <4>3 DEF HeldInv
    <3> QED  BY <3>1, <3>2
  <2> QED  BY <1>0, <2>3, <2>4, <2>5 DEF ChosenInv
<1>14. ASSUME NEW u \in Use, cleanupTempFile(u) PROVE AtRestInv'
  BY <1>10, <1>11, <1>14 DEF cleanupTempFile
<1>15. CASE UNCHANGED atRestVars
  BY <1>10, <1>15 DEF atRestVars
<1> QED  BY <1>1, <1>2, <1>5, <1>6, <1>7, <1>8, <1>9, <1>12, <1>13, <1>14, <1>15
         DEF AtRestNext

-----------------------------------------------------------------------------
(* Connections.                                                            *)

(* Types, and what a connection in use goes back to.                       *)

Rows == [host : SshHost \cup {NoHost, Absent}, key : HostKey \cup {Unpinned}]
Edits == [conn : Conn \cup {Absent}, was : SshHost \cup {Absent}, host : SshHost \cup {Absent}]
Tunnels == [pc : {"idle", "config", "first", "again", "open"}, conn : Conn \cup {Absent},
            host : SshHost \cup {Absent}, key : HostKey \cup {Unpinned}, old : BOOLEAN]

TunnelTypes ==
    /\ conns \in [Conn -> Rows]
    /\ edits \in [Editor -> Edits]
    /\ tunnels \in [Tunnel -> Tunnels]

\* The server has presented its key.
Presented == {"first", "again", "open"}

\* An id is never given twice, so that edits and tunnels never meet the row of
\* another connection than theirs.
KnownInv ==
    /\ saved \subseteq used
    /\ \A c \in saved \cap SshConn : conns[c].host \in SshHost
    /\ \A e \in Editor : edits[e] # NoEdit => /\ edits[e].conn \in used \cap Conn
                                              /\ edits[e].host \in SshHost
    /\ \A t \in Tunnel : IF tunnels[t].pc = "idle" THEN tunnels[t].conn = Absent
                         ELSE /\ tunnels[t].conn \in used \cap Conn
                              /\ tunnels[t].host \in SshHost
    /\ \A t \in Tunnel : tunnels[t].pc \in Presented =>
           tunnels[t].key \in KeysOf[tunnels[t].host]

\* Unless it was edited while in use, a connection has one edit under way, or
\* tunnels to the server it names.
CalmInv ==
    \A c \in saved \ crossed :
        /\ conns[c].key # Unpinned => conns[c].key \in KeysOf[conns[c].host]
        /\ \A e \in Editor : edits[e].conn = c => edits[e].was = conns[c].host
        /\ \A e, f \in Editor : edits[e].conn = c /\ edits[f].conn = c => e = f
        /\ \A t \in Tunnel : tunnels[t].conn = c => tunnels[t].host = conns[c].host
        /\ \A e \in Editor, t \in Tunnel : ~(edits[e].conn = c /\ tunnels[t].conn = c)

IInv == TunnelTypes /\ KnownInv /\ CalmInv /\ OneKeyTrusted

LEMMA KeysAreKeys == \A h \in SshHost : KeysOf[h] \subseteq HostKey
  BY ConnectionsAssumption

LEMMA Nothing == NoTunnel \in Tunnels /\ NoEdit \in Edits
  BY DEF NoTunnel, NoEdit, Tunnels, Edits

LEMMA IInit == ConnectionsInit => IInv
<1> SUFFICES ASSUME ConnectionsInit PROVE IInv
  OBVIOUS
<1>1. [host |-> Absent, key |-> Unpinned] \in Rows
  BY DEF Rows
<1>2. TunnelTypes
  BY <1>1, Nothing DEF ConnectionsInit, TunnelTypes
<1>3. saved = {}
  BY DEF ConnectionsInit, saved
<1>4. (\A e \in Editor : edits[e] = NoEdit) /\ \A t \in Tunnel : tunnels[t] = NoTunnel
  BY DEF ConnectionsInit
<1>5. KnownInv /\ CalmInv /\ OneKeyTrusted
  BY <1>3, <1>4 DEF KnownInv, CalmInv, OneKeyTrusted, Presented, NoTunnel
<1> QED  BY <1>2, <1>5 DEF IInv

-----------------------------------------------------------------------------
\* A step that changes one tunnel, and no row: what there is to show of it.
LEMMA OneTunnel ==
    ASSUME IInv, NEW t \in Tunnel, NEW r \in Tunnels,
           tunnels' = [tunnels EXCEPT ![t] = r],
           UNCHANGED <<conns, used, edits>>,
           crossed \subseteq crossed',
           IF r.pc = "idle" THEN r.conn = Absent
           ELSE r.conn \in used \cap Conn /\ r.host \in SshHost,
           r.pc \in Presented => r.key \in KeysOf[r.host],
           r.conn \in saved \ crossed' =>
               r.host = conns[r.conn].host /\ \A e \in Editor : edits[e].conn # r.conn,
           r.pc = "open" /\ ~r.old => conns[r.conn].key = r.key
    PROVE  IInv'
<1>1. \A x \in Tunnel : tunnels'[x] = IF x = t THEN r ELSE tunnels[x]
  BY DEF IInv, TunnelTypes
<1>2. TunnelTypes'
  BY DEF IInv, TunnelTypes
<1>3. saved' = saved
  BY DEF saved
<1>4. KnownInv'
  BY <1>1, <1>3 DEF IInv, KnownInv
<1>5. CalmInv'
  BY <1>1, <1>3 DEF IInv, CalmInv
<1>6. OneKeyTrusted'
  BY <1>1 DEF IInv, OneKeyTrusted
<1> QED  BY <1>2, <1>4, <1>5, <1>6 DEF IInv

\* A tunnel that goes is no tunnel at all.
LEMMA TunnelGoes ==
    ASSUME IInv, NEW t \in Tunnel, tunnels' = [tunnels EXCEPT ![t] = NoTunnel],
           UNCHANGED <<conns, used, edits, crossed>>
    PROVE  IInv'
<1>1. NoTunnel.pc = "idle" /\ NoTunnel.conn = Absent /\ NoTunnel.conn \notin saved
  BY ConnectionsAssumption DEF NoTunnel, saved
<1> QED  BY <1>1, Nothing, OneTunnel DEF Presented

\* A step that forgets the pin of a row, or the row, and outdates its tunnels.
LEMMA PinGoes ==
    ASSUME IInv, NEW c \in used \cap Conn, NEW h,
           c \in SshConn => h \in SshHost \cup {Absent},
           h \in {conns[c].host, Absent},
           conns' = [conns EXCEPT ![c] = [host |-> h, key |-> Unpinned]],
           tunnels' = outdate(c), UNCHANGED <<used, edits, crossed>>
    PROVE  IInv'
<1> DEFINE r == [host |-> h, key |-> Unpinned]
<1>1. r \in Rows /\ r.host = h /\ r.key = Unpinned
  BY DEF IInv, TunnelTypes, Rows
<1> HIDE DEF r
<1>2. \A x \in Conn : conns'[x] = IF x = c THEN r ELSE conns[x]
  BY DEF IInv, TunnelTypes, r
<1>3. \A t \in Tunnel : /\ tunnels[t] \in Tunnels
                        /\ tunnels'[t] = IF tunnels[t].conn = c
                                         THEN [tunnels[t] EXCEPT !.old = TRUE] ELSE tunnels[t]
  BY DEF IInv, TunnelTypes, outdate
<1>4. \A t \in Tunnel :
          /\ tunnels'[t].pc = tunnels[t].pc /\ tunnels'[t].conn = tunnels[t].conn
          /\ tunnels'[t].host = tunnels[t].host /\ tunnels'[t].key = tunnels[t].key
          /\ ~tunnels'[t].old => tunnels[t].conn # c /\ ~tunnels[t].old
          /\ tunnels'[t] \in Tunnels
  <2> TAKE t \in Tunnel
  <2>1. CASE tunnels[t].conn = c
    <3>1. tunnels[t] \in Tunnels /\ tunnels'[t] = [tunnels[t] EXCEPT !.old = TRUE]
      BY <1>3, <2>1
    <3> QED  BY <3>1 DEF Tunnels
  <2>2. CASE tunnels[t].conn # c
    BY <1>3, <2>2
  <2> QED  BY <2>1, <2>2
<1>5. TunnelTypes'
  <2>1. conns' \in [Conn -> Rows]
    BY <1>1 DEF IInv, TunnelTypes, r
  <2>2. tunnels' \in [Tunnel -> Tunnels]
    BY <1>4 DEF outdate
  <2> QED  BY <2>1, <2>2 DEF IInv, TunnelTypes
<1>6. saved' \subseteq saved
  BY <1>1, <1>2 DEF saved
<1>7. KnownInv'
  BY <1>1, <1>2, <1>4, <1>6 DEF IInv, KnownInv, saved
<1>8. CalmInv'
  BY <1>1, <1>2, <1>4, <1>6 DEF IInv, CalmInv, saved
<1>9. OneKeyTrusted'
  BY <1>1, <1>2, <1>4 DEF IInv, OneKeyTrusted, KnownInv
<1> QED  BY <1>5, <1>7, <1>8, <1>9 DEF IInv


-----------------------------------------------------------------------------
(* The steps.                                                              *)

\* A new connection has an id that nothing in use refers to.
LEMMA CreateStep ==
    ASSUME IInv, NEW m \in Maker, createConnection(m)
    PROVE  IInv'
<1>1. PICK c \in Conn \ used : \E h \in IF c \in SshConn THEN SshHost ELSE {NoHost} :
          \E k \in {Unpinned} \cup IF c \in SshConn THEN KeysOf[h] ELSE {} :
              /\ conns' = [conns EXCEPT ![c] = [host |-> h, key |-> k]]
              /\ used' = used \cup {c} /\ UNCHANGED pinVars
  BY DEF createConnection
<1>2. PICK h \in IF c \in SshConn THEN SshHost ELSE {NoHost} :
          \E k \in {Unpinned} \cup IF c \in SshConn THEN KeysOf[h] ELSE {} :
              conns' = [conns EXCEPT ![c] = [host |-> h, key |-> k]]
  BY <1>1
<1>3. PICK k \in {Unpinned} \cup IF c \in SshConn THEN KeysOf[h] ELSE {} :
          conns' = [conns EXCEPT ![c] = [host |-> h, key |-> k]]
  BY <1>2
<1> DEFINE r == [host |-> h, key |-> k]
<1>4. /\ r \in Rows /\ r.host # Absent /\ (r.key # Unpinned => r.key \in KeysOf[r.host])
      /\ c \in SshConn => r.host \in SshHost
  BY KeysAreKeys, ConnectionsAssumption DEF Rows, NoHost, Absent
<1> HIDE DEF r
<1>5. \A x \in Conn : conns'[x] = IF x = c THEN r ELSE conns[x]
  BY <1>3 DEF IInv, TunnelTypes, r
<1>6. used' = used \cup {c} /\ UNCHANGED <<edits, tunnels, crossed>>
  BY <1>1 DEF pinVars
<1>7. TunnelTypes'
  <2>1. conns' \in [Conn -> Rows]
    BY <1>3, <1>4 DEF IInv, TunnelTypes, r
  <2> QED  BY <1>6, <2>1 DEF IInv, TunnelTypes
<1>8. saved' = saved \cup {c}
  BY <1>4, <1>5 DEF saved
<1>9. c \notin saved
  BY DEF IInv, KnownInv
<1>10. /\ \A e \in Editor : edits[e].conn # c
       /\ \A t \in Tunnel : tunnels[t].conn # c
  BY ConnectionsAssumption DEF IInv, KnownInv, NoEdit
<1>11. KnownInv'
  BY <1>4, <1>5, <1>6, <1>8, <1>9 DEF IInv, KnownInv, saved
<1>12. CalmInv'
  BY <1>4, <1>5, <1>6, <1>8, <1>10 DEF IInv, CalmInv, saved
<1>13. OneKeyTrusted'
  BY <1>5, <1>6, <1>10 DEF IInv, KnownInv, OneKeyTrusted
<1> QED  BY <1>7, <1>11, <1>12, <1>13 DEF IInv

LEMMA BeginUpdateStep ==
    ASSUME IInv, NEW e \in Editor, NEW c \in Conn, NEW h \in SshHost, beginUpdate(e, c, h)
    PROVE  IInv'
<1> DEFINE w == [conn |-> c, was |-> conns[c].host, host |-> h]
<1>1. /\ c \in saved \cap SshConn /\ edits' = [edits EXCEPT ![e] = w]
      /\ crossed' = IF inUse(c) THEN crossed \cup {c} ELSE crossed
      /\ UNCHANGED <<conns, tunnels, used>>
  BY DEF beginUpdate, limitVars
<1>2. conns[c].host \in SshHost /\ c \in used
  BY <1>1 DEF IInv, KnownInv
<1>3. w \in Edits /\ w.conn = c /\ w.was = conns[c].host /\ w.host = h
  BY <1>2 DEF Edits
<1> HIDE DEF w
<1>4. \A f \in Editor : edits'[f] = IF f = e THEN w ELSE edits[f]
  BY <1>1 DEF IInv, TunnelTypes
<1>5. TunnelTypes'
  BY <1>1, <1>3 DEF IInv, TunnelTypes
<1>6. saved' = saved
  BY <1>1 DEF saved
<1>7. KnownInv'
  BY <1>1, <1>2, <1>3, <1>4, <1>6 DEF IInv, KnownInv
<1>8. c \notin crossed' => /\ \A t \in Tunnel : tunnels[t].conn # c
                           /\ \A f \in Editor : edits[f].conn # c
  BY <1>1 DEF inUse
<1>9. CalmInv'
  BY <1>1, <1>3, <1>4, <1>6, <1>8 DEF IInv, CalmInv
<1>10. OneKeyTrusted'
  BY <1>1 DEF IInv, OneKeyTrusted
<1> QED  BY <1>5, <1>7, <1>9, <1>10 DEF IInv

\* An edit that found another server than it writes forgets the pin; one that
\* found the same server writes it again.
LEMMA UpdateStep ==
    ASSUME IInv, NEW e \in Editor, updateConnection(e)
    PROVE  IInv'
<1> DEFINE c == edits[e].conn
           h == edits[e].host
           k == IF h # edits[e].was THEN Unpinned ELSE conns[c].key
           r == [host |-> h, key |-> k]
<1>1. edits[e] # NoEdit /\ edits' = [edits EXCEPT ![e] = NoEdit] /\ UNCHANGED <<used, crossed>>
  BY DEF updateConnection, limitVars
<1>2. c \in used \cap Conn /\ h \in SshHost
  BY <1>1 DEF IInv, KnownInv
<1>3. \A f \in Editor : edits'[f] = IF f = e THEN NoEdit ELSE edits[f]
  BY <1>1 DEF IInv, TunnelTypes
<1>4. edits' \in [Editor -> Edits] /\ NoEdit.conn \notin Conn
  BY <1>1, Nothing, ConnectionsAssumption DEF IInv, TunnelTypes, NoEdit
<1>5. CASE c \notin saved
  <2>1. UNCHANGED <<conns, tunnels>>
    BY <1>5 DEF updateConnection
  <2>2. saved' = saved
    BY <2>1 DEF saved
  <2>3. TunnelTypes'
    BY <1>4, <2>1 DEF IInv, TunnelTypes
  <2>4. KnownInv'
    BY <1>1, <1>3, <2>1, <2>2 DEF IInv, KnownInv
  <2>5. CalmInv'
    BY <1>1, <1>3, <1>4, <2>1, <2>2 DEF IInv, CalmInv, saved
  <2>6. OneKeyTrusted'
    BY <2>1 DEF IInv, OneKeyTrusted
  <2> QED  BY <2>3, <2>4, <2>5, <2>6 DEF IInv
<1>6. CASE c \in saved
  <2>1. conns' = [conns EXCEPT ![c] = r]
    BY <1>6 DEF updateConnection, edited
  <2>2. tunnels' = IF h # edits[e].was THEN outdate(c) ELSE tunnels
    BY <1>6 DEF updateConnection
  <2>3. conns[c] \in Rows
    BY <1>2 DEF IInv, TunnelTypes
  <2>4. r \in Rows /\ r.host = h /\ r.key = k
    BY <1>2, <2>3 DEF Rows
  <2>5. k \in {Unpinned, conns[c].key} /\ (h # edits[e].was => k = Unpinned)
        /\ (h = edits[e].was => k = conns[c].key)
    OBVIOUS
  <2> HIDE DEF r, k, h, c
  <2>6. \A x \in Conn : conns'[x] = IF x = c THEN r ELSE conns[x]
    BY <2>1 DEF IInv, TunnelTypes
  <2>7. \A t \in Tunnel :
            /\ tunnels'[t].pc = tunnels[t].pc /\ tunnels'[t].conn = tunnels[t].conn
            /\ tunnels'[t].host = tunnels[t].host /\ tunnels'[t].key = tunnels[t].key
            /\ tunnels'[t] \in Tunnels
            /\ ~tunnels'[t].old => /\ ~tunnels[t].old
                                   /\ tunnels[t].conn = c => h = edits[e].was
    <3>1. \A t \in Tunnel : tunnels[t] \in Tunnels
      BY DEF IInv, TunnelTypes
    <3>2. CASE h # edits[e].was
      BY <2>2, <3>1, <3>2 DEF outdate, Tunnels
    <3>3. CASE h = edits[e].was
      BY <2>2, <3>1, <3>3
    <3> QED  BY <3>2, <3>3
  <2>8. TunnelTypes'
    <3>1. conns' \in [Conn -> Rows]
      BY <2>1, <2>4 DEF IInv, TunnelTypes
    <3>2. tunnels' \in [Tunnel -> Tunnels]
      BY <2>2, <2>7 DEF outdate, IInv, TunnelTypes
    <3> QED  BY <1>4, <3>1, <3>2 DEF TunnelTypes
  <2>9. saved' = saved
    BY <1>2, <1>6, <2>4, <2>6, ConnectionsAssumption DEF saved
  <2>10. KnownInv'
    BY <1>1, <1>2, <1>3, <2>4, <2>6, <2>7, <2>9 DEF IInv, KnownInv, saved
  <2>11. ASSUME c \notin crossed
         PROVE  /\ edits[e].was = conns[c].host
                /\ \A f \in Editor \ {e} : edits[f].conn # c
                /\ \A t \in Tunnel : tunnels[t].conn # c
    BY <1>6, <2>11 DEF IInv, CalmInv, c
  <2>12. CalmInv'
    <3>1. ASSUME NEW x \in saved \ crossed, x # c
          PROVE  /\ conns'[x] = conns[x] /\ x \in Conn
                 /\ \A f \in Editor : edits'[f].conn = x => edits'[f] = edits[f]
      BY <1>3, <1>4, <2>6, <3>1 DEF saved
    <3>2. \A f \in Editor : edits'[f].conn = c => c \in crossed
      BY <1>2, <1>3, <1>4, <2>11
    <3>3. c \notin crossed => (r.key # Unpinned => r.key \in KeysOf[r.host])
      BY <1>6, <2>4, <2>5, <2>11 DEF IInv, CalmInv
    <3>4. c \notin crossed => \A t \in Tunnel : tunnels'[t].conn # c
      BY <2>7, <2>11
    <3>5. conns'[c] = r
      BY <1>2, <2>6
    <3> QED  BY <1>1, <2>7, <2>9, <3>1, <3>2, <3>3, <3>4, <3>5 DEF IInv, CalmInv
  <2>13. OneKeyTrusted'
    BY <2>4, <2>5, <2>6, <2>7 DEF IInv, OneKeyTrusted, KnownInv
  <2> QED  BY <2>8, <2>10, <2>12, <2>13 DEF IInv
<1> QED  BY <1>5, <1>6

LEMMA ToEngineConfigStep ==
    ASSUME IInv, NEW t \in Tunnel, NEW c \in Conn, toEngineConfig(t, c)
    PROVE  IInv'
<1> DEFINE r == [pc |-> "config", conn |-> c, host |-> conns[c].host, key |-> Unpinned,
                 old |-> FALSE]
<1>1. /\ c \in saved \cap SshConn /\ tunnels' = [tunnels EXCEPT ![t] = r]
      /\ crossed' = IF \E e \in Editor : edits[e].conn = c THEN crossed \cup {c} ELSE crossed
      /\ UNCHANGED <<conns, used, edits>>
  BY DEF toEngineConfig, limitVars
<1>2. conns[c].host \in SshHost /\ c \in used
  BY <1>1 DEF IInv, KnownInv
<1>3. r \in Tunnels /\ r.pc = "config" /\ r.conn = c /\ r.host = conns[c].host
  BY <1>2 DEF Tunnels
<1> HIDE DEF r
<1>4. c \notin crossed' => \A e \in Editor : edits[e].conn # c
  BY <1>1
<1>5. crossed \subseteq crossed'
  BY <1>1
<1> QED  BY <1>1, <1>2, <1>3, <1>4, <1>5, OneTunnel DEF Presented

\* The tunnel goes on with the same connection and server.
LEMMA SameTarget ==
    ASSUME IInv, NEW t \in Tunnel, NEW r \in Tunnels,
           tunnels[t].pc # "idle", r.pc # "idle",
           r.conn = tunnels[t].conn, r.host = tunnels[t].host,
           r.pc \in Presented => r.key \in KeysOf[r.host],
           tunnels' = [tunnels EXCEPT ![t] = r],
           r.pc = "open" /\ ~r.old => conns[r.conn].key = r.key,
           UNCHANGED <<conns, used, edits, crossed>>
    PROVE  IInv'
<1>1. r.conn \in used \cap Conn /\ r.host \in SshHost
  BY DEF IInv, KnownInv
<1>2. r.conn \in saved \ crossed =>
          r.host = conns[r.conn].host /\ \A e \in Editor : edits[e].conn # r.conn
  BY DEF IInv, CalmInv
<1> QED  BY <1>1, <1>2, OneTunnel

LEMMA VerifyStep ==
    ASSUME IInv, NEW t \in Tunnel, verifyHostKey(t)
    PROVE  IInv'
<1> DEFINE c == tunnels[t].conn
<1>1. PICK k \in KeysOf[tunnels[t].host] :
          tunnels' = [tunnels EXCEPT ![t] =
               IF c \notin saved \/ conns[c].key \notin {Unpinned, k} THEN NoTunnel
               ELSE [@ EXCEPT !.key = k,
                              !.pc = IF conns[c].key = Unpinned THEN "first" ELSE "open",
                              !.old = FALSE]]
  BY DEF verifyHostKey
<1>2. tunnels[t].pc = "config" /\ UNCHANGED <<conns, used, edits, crossed>>
  BY DEF verifyHostKey, limitVars
<1>3. tunnels[t].host \in SshHost /\ tunnels[t] \in Tunnels
  BY <1>2 DEF IInv, KnownInv, TunnelTypes
<1>4. CASE c \notin saved \/ conns[c].key \notin {Unpinned, k}
  BY <1>1, <1>2, <1>4, TunnelGoes
<1>5. CASE ~(c \notin saved \/ conns[c].key \notin {Unpinned, k})
  <2> DEFINE r == [tunnels[t] EXCEPT
                      !.key = k, !.pc = IF conns[c].key = Unpinned THEN "first" ELSE "open",
                      !.old = FALSE]
  <2>1. tunnels' = [tunnels EXCEPT ![t] = r]
    BY <1>1, <1>5
  <2>2. k \in HostKey
    BY <1>3, KeysAreKeys
  <2>3. /\ r \in Tunnels /\ r.conn = tunnels[t].conn /\ r.host = tunnels[t].host
        /\ r.key = k /\ r.pc \in {"first", "open"}
        /\ r.pc = "open" => conns[c].key # Unpinned
    BY <1>3, <2>2 DEF Tunnels
  <2> HIDE DEF r
  <2>4. r.key \in KeysOf[r.host]
    BY <2>3
  <2>5. r.pc = "open" /\ ~r.old => conns[r.conn].key = r.key
    BY <1>5, <2>3
  <2>6. tunnels[t].pc # "idle" /\ r.pc # "idle"
    BY <1>2, <2>3
  <2> HIDE DEF c
  <2> QED  BY <1>2, <2>1, <2>3, <2>4, <2>5, <2>6, SameTarget
<1> QED  BY <1>4, <1>5

LEMMA AgainStep ==
    ASSUME IInv, NEW t \in Tunnel, verifyAgain(t)
    PROVE  IInv'
<1> DEFINE c == tunnels[t].conn
<1>1. /\ tunnels[t].pc = "again" /\ UNCHANGED <<conns, used, edits, crossed>>
      /\ tunnels' = [tunnels EXCEPT ![t] =
           IF c \in saved /\ conns[c].key \notin {Unpinned, tunnels[t].key} THEN NoTunnel
           ELSE [@ EXCEPT !.pc = "open", !.old = c \notin saved \/ conns[c].key = Unpinned]]
  BY DEF verifyAgain, limitVars
<1>2. tunnels[t] \in Tunnels /\ tunnels[t].key \in KeysOf[tunnels[t].host]
  BY <1>1 DEF IInv, KnownInv, TunnelTypes, Presented
<1>3. CASE c \in saved /\ conns[c].key \notin {Unpinned, tunnels[t].key}
  BY <1>1, <1>3, TunnelGoes
<1>4. CASE ~(c \in saved /\ conns[c].key \notin {Unpinned, tunnels[t].key})
  <2> DEFINE o == c \notin saved \/ conns[c].key = Unpinned
             r == [tunnels[t] EXCEPT !.pc = "open", !.old = o]
  <2>1. tunnels' = [tunnels EXCEPT ![t] = r]
    BY <1>1, <1>4
  <2>2. o \in BOOLEAN /\ (~o => conns[c].key = tunnels[t].key)
    BY <1>4
  <2> HIDE DEF o
  <2>3. /\ r \in Tunnels /\ r.conn = tunnels[t].conn /\ r.host = tunnels[t].host
        /\ r.key = tunnels[t].key /\ r.pc = "open" /\ r.old = o
    BY <1>2, <2>2 DEF Tunnels
  <2> HIDE DEF r
  <2>4. r.key \in KeysOf[r.host]
    BY <1>2, <2>3
  <2>5. r.pc = "open" /\ ~r.old => conns[r.conn].key = r.key
    BY <2>2, <2>3
  <2>6. tunnels[t].pc # "idle" /\ r.pc # "idle" /\ UNCHANGED <<conns, used, edits, crossed>>
    BY <1>1, <2>3
  <2> HIDE DEF c
  <2> QED  BY <2>1, <2>3, <2>4, <2>5, <2>6, SameTarget
<1> QED  BY <1>3, <1>4

\* The pin is set where there was none: no tunnel that counts on another one
\* is open.
LEMMA PinStep ==
    ASSUME IInv, NEW t \in Tunnel, pinFirst(t)
    PROVE  IInv'
<1> DEFINE c == tunnels[t].conn
<1>1. tunnels[t].pc = "first" /\ UNCHANGED <<used, edits, crossed>>
  BY DEF pinFirst, limitVars
<1>2. /\ tunnels[t] \in Tunnels /\ tunnels[t].host \in SshHost
      /\ tunnels[t].key \in KeysOf[tunnels[t].host]
      /\ c \in used \cap Conn
  BY <1>1 DEF IInv, KnownInv, TunnelTypes, Presented
<1>3. CASE ~(c \in saved /\ conns[c].key = Unpinned)
  <2> DEFINE r == [tunnels[t] EXCEPT !.pc = "again"]
  <2>1. tunnels' = [tunnels EXCEPT ![t] = r] /\ UNCHANGED conns
    BY <1>3 DEF pinFirst
  <2>2. /\ r \in Tunnels /\ r.conn = tunnels[t].conn /\ r.host = tunnels[t].host
        /\ r.key = tunnels[t].key /\ r.pc = "again"
    BY <1>2 DEF Tunnels
  <2> HIDE DEF r, c
  <2>3. r.key \in KeysOf[r.host] /\ r.pc \notin {"idle", "open"}
    BY <1>2, <2>2
  <2>4. tunnels[t].pc # "idle" /\ UNCHANGED <<conns, used, edits, crossed>>
    BY <1>1, <2>1
  <2> QED  BY <2>1, <2>2, <2>3, <2>4, SameTarget
<1>4. CASE c \in saved /\ conns[c].key = Unpinned
  <2> DEFINE r == [tunnels[t] EXCEPT !.pc = "open", !.old = FALSE]
             p == [conns[c] EXCEPT !.key = tunnels[t].key]
  <2>1. tunnels' = [tunnels EXCEPT ![t] = r] /\ conns' = [conns EXCEPT ![c] = p]
    BY <1>4 DEF pinFirst
  <2>2. conns[c] \in Rows /\ tunnels[t].key \in HostKey
    BY <1>2, KeysAreKeys DEF IInv, TunnelTypes
  <2>3. p \in Rows /\ p.host = conns[c].host /\ p.key = tunnels[t].key
    BY <2>2 DEF Rows
  <2>4. /\ r \in Tunnels /\ r.conn = c /\ r.host = tunnels[t].host
        /\ r.key = tunnels[t].key /\ r.pc = "open"
    BY <1>2 DEF Tunnels
  <2> HIDE DEF r, p
  <2>5. \A x \in Conn : conns'[x] = IF x = c THEN p ELSE conns[x]
    BY <2>1 DEF IInv, TunnelTypes
  <2>6. \A u \in Tunnel : tunnels'[u] = IF u = t THEN r ELSE tunnels[u]
    BY <2>1 DEF IInv, TunnelTypes
  <2>7. TunnelTypes'
    BY <1>1, <2>1, <2>3, <2>4 DEF IInv, TunnelTypes
  <2>8. saved' = saved
    BY <2>3, <2>5 DEF saved
  <2>9. KnownInv'
    BY <1>1, <1>2, <2>3, <2>4, <2>5, <2>6, <2>8 DEF IInv, KnownInv, saved, Presented
  <2>10. CalmInv'
    <3>1. \A u \in Tunnel : tunnels'[u].conn = tunnels[u].conn
                            /\ tunnels'[u].host = tunnels[u].host
      BY <2>4, <2>6
    <3>2. \A x \in saved : conns'[x].host = conns[x].host
      BY <2>3, <2>5 DEF saved
    <3>3. \A x \in saved \ crossed :
              conns'[x].key # Unpinned => conns'[x].key \in KeysOf[conns'[x].host]
      BY <1>2, <1>4, <2>3, <2>5 DEF IInv, CalmInv, saved
    <3> QED  BY <1>1, <2>8, <3>1, <3>2, <3>3 DEF IInv, CalmInv
  <2>11. ASSUME NEW u \in Tunnel \ {t}, tunnels[u].pc = "open", tunnels[u].conn = c
         PROVE  tunnels[u].old
    <3>1. tunnels[u].key \in HostKey
      BY <2>11, KeysAreKeys DEF IInv, KnownInv, Presented
    <3> QED  BY <1>4, <2>11, <3>1, ConnectionsAssumption DEF IInv, OneKeyTrusted
  <2>12. OneKeyTrusted'
    BY <1>2, <2>3, <2>4, <2>5, <2>6, <2>11 DEF IInv, OneKeyTrusted, KnownInv
  <2> QED  BY <2>7, <2>9, <2>10, <2>12 DEF IInv
<1> QED  BY <1>3, <1>4

LEMMA IStep == IInv /\ [ConnectionsNext]_connectionVars => IInv'
<1> SUFFICES ASSUME IInv, [ConnectionsNext]_connectionVars PROVE IInv'
  OBVIOUS
<1>1. ASSUME UNCHANGED <<conns, used, pinVars>> PROVE IInv'
  <2>1. saved' = saved
    BY <1>1 DEF saved
  <2> QED  BY <1>1, <2>1 DEF pinVars, IInv, TunnelTypes, KnownInv, CalmInv, OneKeyTrusted
<1>2. ASSUME NEW m \in Maker, NEW n \in {1, BundleSize}, checkLimit(m, n) PROVE IInv'
  BY <1>1, <1>2 DEF checkLimit
<1>3. ASSUME NEW m \in Maker, failImport(m) PROVE IInv'
  BY <1>1, <1>3 DEF failImport
<1>4. ASSUME NEW c \in Conn, resetSshHostKey(c) PROVE IInv'
  <2>1. c \in used /\ conns[c] \in Rows /\ conns[c].host \in SshHost
    BY <1>4 DEF resetSshHostKey, IInv, TunnelTypes, KnownInv
  <2>2. [conns[c] EXCEPT !.key = Unpinned] = [host |-> conns[c].host, key |-> Unpinned]
    BY <2>1 DEF Rows
  <2>3. conns' = [conns EXCEPT ![c] = [conns[c] EXCEPT !.key = Unpinned]]
    BY <1>4 DEF resetSshHostKey
  <2>4. conns' = [conns EXCEPT ![c] = [host |-> conns[c].host, key |-> Unpinned]]
    BY <2>2, <2>3
  <2> QED  BY <1>4, <2>1, <2>4, PinGoes DEF resetSshHostKey, limitVars
<1>5. ASSUME NEW c \in Conn, deleteConnection(c) PROVE IInv'
  <2>1. c \in used
    BY <1>5 DEF deleteConnection, IInv, KnownInv
  <2> QED  BY <1>5, <2>1, PinGoes DEF deleteConnection, limitVars
<1>6. ASSUME NEW t \in Tunnel, closeTunnel(t) PROVE IInv'
  BY <1>6, TunnelGoes DEF closeTunnel, limitVars
<1>7. CASE UNCHANGED connectionVars
  BY <1>1, <1>7 DEF connectionVars, pinVars
<1> QED  BY <1>2, <1>3, <1>4, <1>5, <1>6, <1>7, CreateStep, BeginUpdateStep, UpdateStep,
            ToEngineConfigStep, VerifyStep, AgainStep, PinStep
         DEF ConnectionsNext

-----------------------------------------------------------------------------

\* The pin is a key of the server the connection names, unless the connection
\* was edited while a tunnel or another edit of it was under way
\* (connection.controller.ts, updateConnection; ssh.service.ts, verifyHostKey).
THEOREM PinNamesTarget == ConnectionsSpec => []PinIsOfTarget
<1>1. IInv => PinIsOfTarget
  BY DEF IInv, CalmInv, PinIsOfTarget
<1> QED  BY <1>1, IInit, IStep, PTL DEF ConnectionsSpec

\* Concurrent first connects agree on one key: until the pin is forgotten, every
\* open tunnel was accepted with the key the row has pinned (ssh.service.ts).
THEOREM TunnelsAgree == ConnectionsSpec => []OneKeyTrusted
<1>1. IInv => OneKeyTrusted
  BY DEF IInv
<1> QED  BY <1>1, IInit, IStep, PTL DEF ConnectionsSpec

-----------------------------------------------------------------------------
(* The limit on connections.                                               *)

\* What is saved and what the makers still insert fits under the limit and the surplus.
LimitInv == Cardinality(saved \cup awaited) <= ConnectionLimit + surplus

MakersInv == ConnectionsTypeOK /\ IInv /\ LimitInv

LEMMA FewerAreLess ==
    ASSUME NEW S \in SUBSET Conn, NEW T \in SUBSET S
    PROVE  /\ Cardinality(T) <= Cardinality(S)
           /\ Cardinality(T) \in Nat /\ Cardinality(S) \in Nat
<1>1. IsFiniteSet(S) /\ IsFiniteSet(T)
  BY ConnectionsAssumption, FS_Subset
<1> QED  BY <1>1, FS_Subset, FS_CardinalityType

LEMMA MakersInvInit == ConnectionsInit => MakersInv
<1> SUFFICES ASSUME ConnectionsInit PROVE MakersInv
  OBVIOUS
<1>1. IInv
  BY IInit
<1>2. /\ makers = [m \in Maker |-> {}] /\ surplus = 0 /\ used = {} /\ crossed = {}
      /\ saved \cup awaited = {}
  BY DEF ConnectionsInit, saved, awaited
<1>3. LimitInv
  BY <1>2, FS_EmptySet, ConnectionsAssumption DEF LimitInv
<1>4. ConnectionsTypeOK
  BY <1>1, <1>2 DEF ConnectionsTypeOK, IInv, TunnelTypes, Rows, Edits, Tunnels
<1> QED  BY <1>1, <1>3, <1>4 DEF MakersInv

\* No other request saves a connection or has one to insert.
LEMMA NoneSaved ==
    ASSUME MakersInv, IInv', saved' \subseteq saved, crossed' \subseteq Conn,
           UNCHANGED <<used, makers, surplus>>
    PROVE  MakersInv'
<1> USE DEF MakersInv
<1>1. ConnectionsTypeOK'
  BY DEF ConnectionsTypeOK, IInv, TunnelTypes, Rows, Edits, Tunnels
<1>2. /\ (saved \cup awaited) \in SUBSET Conn
      /\ (saved \cup awaited)' \in SUBSET (saved \cup awaited)
  BY DEF saved, awaited, ConnectionsTypeOK
<1>3. /\ Cardinality((saved \cup awaited)') <= Cardinality(saved \cup awaited)
      /\ Cardinality((saved \cup awaited)') \in Nat
      /\ Cardinality(saved \cup awaited) \in Nat
  BY <1>2, FewerAreLess
<1>4. LimitInv'
  BY <1>3, ConnectionsAssumption DEF LimitInv, ConnectionsTypeOK
<1> QED  BY <1>1, <1>4

LEMMA MakersInvStep == MakersInv /\ [ConnectionsNext]_connectionVars => MakersInv'
<1> SUFFICES ASSUME MakersInv, [ConnectionsNext]_connectionVars PROVE MakersInv'
  OBVIOUS
<1>0. IInv'
  BY IStep DEF MakersInv
<1> USE ConnectionsAssumption DEF MakersInv, limitVars, pinVars
<1>a. saved \in SUBSET Conn /\ awaited \in SUBSET Conn
  BY DEF saved, awaited, ConnectionsTypeOK
<1>1. ASSUME NEW m \in Maker, NEW n \in {1, BundleSize}, checkLimit(m, n)
      PROVE  MakersInv'
  <2>1. PICK new \in SUBSET (Conn \ (used \cup awaited)) :
            Cardinality(new) = n /\ makers' = [makers EXCEPT ![m] = new]
    BY <1>1 DEF checkLimit
  <2>2. /\ Cardinality(saved) + n <= ConnectionLimit
        /\ surplus' = IF Cardinality(awaited) > surplus THEN Cardinality(awaited) ELSE surplus
        /\ UNCHANGED <<conns, used, edits, tunnels, crossed>>
    BY <1>1 DEF checkLimit, underLimit
  <2>3. IsFiniteSet(saved) /\ IsFiniteSet(awaited) /\ IsFiniteSet(new)
    BY <1>a, <2>1, FS_Subset
  <2>4. /\ Cardinality(saved) \in Nat /\ Cardinality(awaited) \in Nat /\ n \in Nat
        /\ surplus \in Nat
    BY <2>1, <2>3, FS_CardinalityType DEF ConnectionsTypeOK
  <2>5. surplus' \in Nat /\ Cardinality(awaited) <= surplus'
    BY <2>2, <2>4
  <2>6. makers' \in [Maker -> SUBSET Conn]
    BY <2>1 DEF ConnectionsTypeOK
  <2>7. ConnectionsTypeOK'
    BY <2>2, <2>5, <2>6 DEF ConnectionsTypeOK
  <2>8. saved' = saved /\ awaited' \subseteq awaited \cup new
    BY <2>1, <2>2 DEF saved, awaited, ConnectionsTypeOK
  <2>9. /\ IsFiniteSet(saved \cup new)
        /\ Cardinality(saved \cup new) <= Cardinality(saved) + n
        /\ Cardinality(saved \cup new) \in Nat
    <3>1. /\ IsFiniteSet(saved \cup new) /\ IsFiniteSet(saved \cap new)
          /\ Cardinality(saved \cup new) =
                 Cardinality(saved) + Cardinality(new) - Cardinality(saved \cap new)
      BY <2>3, FS_Union, FS_Intersection
    <3>2. Cardinality(saved \cap new) \in Nat /\ Cardinality(saved \cup new) \in Nat
      BY <3>1, FS_CardinalityType
    <3> QED  BY <2>1, <2>4, <3>1, <3>2
  <2>10. /\ IsFiniteSet((saved \cup new) \cup awaited)
         /\ Cardinality((saved \cup new) \cup awaited)
                <= Cardinality(saved \cup new) + Cardinality(awaited)
         /\ Cardinality((saved \cup new) \cup awaited) \in Nat
    <3>1. /\ IsFiniteSet((saved \cup new) \cup awaited)
          /\ IsFiniteSet((saved \cup new) \cap awaited)
          /\ Cardinality((saved \cup new) \cup awaited) =
                 Cardinality(saved \cup new) + Cardinality(awaited)
                     - Cardinality((saved \cup new) \cap awaited)
      BY <2>3, <2>9, FS_Union, FS_Intersection
    <3>2. /\ Cardinality((saved \cup new) \cap awaited) \in Nat
          /\ Cardinality((saved \cup new) \cup awaited) \in Nat
      BY <3>1, FS_CardinalityType
    <3> QED  BY <2>4, <2>9, <3>1, <3>2
  <2>11. /\ Cardinality((saved \cup awaited)') <= Cardinality((saved \cup new) \cup awaited)
         /\ Cardinality((saved \cup awaited)') \in Nat
    <3>1. (saved \cup awaited)' \in SUBSET ((saved \cup new) \cup awaited)
      BY <2>8
    <3>2. ((saved \cup new) \cup awaited) \in SUBSET Conn
      BY <1>a, <2>1
    <3> QED  BY <3>1, <3>2, FewerAreLess
  <2>12. LimitInv'
    BY <2>2, <2>4, <2>5, <2>9, <2>10, <2>11 DEF LimitInv
  <2> QED  BY <1>0, <2>7, <2>12
\* What goes from one set to the other, or out of both.
<1>b. ASSUME (saved \cup awaited)' \in SUBSET (saved \cup awaited), surplus' = surplus
      PROVE  LimitInv'
  <2>1. /\ Cardinality((saved \cup awaited)') <= Cardinality(saved \cup awaited)
        /\ Cardinality((saved \cup awaited)') \in Nat
        /\ Cardinality(saved \cup awaited) \in Nat
    BY <1>a, <1>b, FewerAreLess
  <2> QED  BY <1>b, <2>1 DEF LimitInv, ConnectionsTypeOK
<1>2. ASSUME NEW m \in Maker, createConnection(m) PROVE MakersInv'
  <2>1. PICK c \in Conn \ used : \E h \in IF c \in SshConn THEN SshHost ELSE {NoHost} :
            \E k \in {Unpinned} \cup IF c \in SshConn THEN KeysOf[h] ELSE {} :
                /\ c \in makers[m] /\ conns' = [conns EXCEPT ![c] = [host |-> h, key |-> k]]
                /\ used' = used \cup {c} /\ makers' = [makers EXCEPT ![m] = @ \ {c}]
                /\ UNCHANGED <<surplus, edits, tunnels, crossed>>
    BY <1>2 DEF createConnection
  <2>2. /\ c \in makers[m] /\ used' = used \cup {c}
        /\ makers' = [makers EXCEPT ![m] = @ \ {c}]
        /\ UNCHANGED <<surplus, edits, tunnels, crossed>>
        /\ \A x \in Conn \ {c} : conns'[x] = conns[x]
    BY <2>1 DEF ConnectionsTypeOK
  <2>3. makers' \in [Maker -> SUBSET Conn] /\ awaited' \subseteq awaited /\ c \in awaited
    BY <2>2 DEF ConnectionsTypeOK, awaited
  <2>4. saved' \subseteq saved \cup {c}
    BY <2>2 DEF saved
  <2>5. ConnectionsTypeOK'
    BY <1>0, <2>2, <2>3
       DEF ConnectionsTypeOK, IInv, TunnelTypes, Rows, Edits, Tunnels
  <2> QED  BY <1>0, <1>b, <2>2, <2>3, <2>4, <2>5
<1>3. ASSUME NEW m \in Maker, failImport(m) PROVE MakersInv'
  <2>1. /\ makers' = [makers EXCEPT ![m] = {}]
        /\ UNCHANGED <<conns, used, surplus, edits, tunnels, crossed>>
    BY <1>3 DEF failImport
  <2>2. /\ saved' = saved /\ makers' \in [Maker -> SUBSET Conn] /\ awaited' \subseteq awaited
    BY <2>1 DEF saved, awaited, ConnectionsTypeOK
  <2>3. ConnectionsTypeOK'
    BY <2>1, <2>2 DEF ConnectionsTypeOK
  <2> QED  BY <1>0, <1>b, <2>1, <2>2, <2>3
<1>4. ASSUME NEW e \in Editor, updateConnection(e) PROVE MakersInv'
  <2>1. UNCHANGED <<used, makers, surplus, crossed>>
    BY <1>4 DEF updateConnection
  <2>2. saved' \subseteq saved
    <3>1. CASE edits[e].conn \in saved
      <4>1. \A x \in Conn \ {edits[e].conn} : conns'[x] = conns[x]
        BY <1>4, <3>1 DEF updateConnection, ConnectionsTypeOK
      <4> QED  BY <3>1, <4>1 DEF saved
    <3>2. CASE edits[e].conn \notin saved
      BY <1>4, <3>2 DEF updateConnection, saved
    <3> QED  BY <3>1, <3>2
  <2>3. crossed' \subseteq Conn
    BY <2>1 DEF ConnectionsTypeOK
  <2> QED  BY <1>0, <2>1, <2>2, <2>3, NoneSaved
<1>5. ASSUME NEW c \in Conn, resetSshHostKey(c) \/ deleteConnection(c) PROVE MakersInv'
  <2>1. UNCHANGED <<used, makers, surplus, crossed>> /\ c \in saved
        /\ \A x \in Conn \ {c} : conns'[x] = conns[x]
    BY <1>5 DEF resetSshHostKey, deleteConnection, ConnectionsTypeOK
  <2>2. saved' \subseteq saved
    BY <2>1 DEF saved
  <2>3. crossed' \subseteq Conn
    BY <2>1 DEF ConnectionsTypeOK
  <2> QED  BY <1>0, <2>1, <2>2, <2>3, NoneSaved
<1>6. ASSUME NEW t \in Tunnel, pinFirst(t) PROVE MakersInv'
  <2>1. UNCHANGED <<used, makers, surplus, crossed>>
    BY <1>6 DEF pinFirst
  <2>2. saved' \subseteq saved
    <3> DEFINE c == tunnels[t].conn
    <3>1. CASE c \in saved /\ conns[c].key = Unpinned
      <4>1. \A x \in Conn \ {c} : conns'[x] = conns[x]
        BY <1>6, <3>1 DEF pinFirst, ConnectionsTypeOK
      <4> QED  BY <3>1, <4>1 DEF saved
    <3>2. CASE ~(c \in saved /\ conns[c].key = Unpinned)
      BY <1>6, <3>2 DEF pinFirst, saved
    <3> QED  BY <3>1, <3>2
  <2>3. crossed' \subseteq Conn
    BY <2>1 DEF ConnectionsTypeOK
  <2> QED  BY <1>0, <2>1, <2>2, <2>3, NoneSaved
<1>7. ASSUME UNCHANGED <<conns, used, makers, surplus>>, crossed' \subseteq Conn
      PROVE  MakersInv'
  <2>1. saved' \subseteq saved
    BY <1>7 DEF saved
  <2> QED  BY <1>0, <1>7, <2>1, NoneSaved
<1>8. ASSUME NEW e \in Editor, NEW c \in Conn, NEW h \in SshHost, beginUpdate(e, c, h)
      PROVE  MakersInv'
  BY <1>7, <1>8 DEF beginUpdate, ConnectionsTypeOK
<1>9. ASSUME NEW t \in Tunnel, NEW c \in Conn, toEngineConfig(t, c) PROVE MakersInv'
  BY <1>7, <1>9 DEF toEngineConfig, ConnectionsTypeOK
<1>10. ASSUME NEW t \in Tunnel, verifyHostKey(t) \/ verifyAgain(t) \/ closeTunnel(t)
       PROVE  MakersInv'
  BY <1>7, <1>10 DEF verifyHostKey, verifyAgain, closeTunnel, ConnectionsTypeOK
<1>11. CASE UNCHANGED connectionVars
  BY <1>7, <1>11 DEF connectionVars, ConnectionsTypeOK
<1> QED  BY <1>1, <1>2, <1>3, <1>4, <1>5, <1>6, <1>8, <1>9, <1>10, <1>11
         DEF ConnectionsNext

LEMMA LimitFromInv == MakersInv => LimitHolds /\ OneKeyTrusted /\ ConnectionsTypeOK
<1> SUFFICES ASSUME MakersInv PROVE Cardinality(saved) <= ConnectionLimit + surplus
  BY DEF MakersInv, LimitHolds, IInv
<1>1. (saved \cup awaited) \in SUBSET Conn /\ saved \in SUBSET (saved \cup awaited)
  BY DEF MakersInv, ConnectionsTypeOK, saved, awaited
<1>2. /\ Cardinality(saved) <= Cardinality(saved \cup awaited)
      /\ Cardinality(saved) \in Nat /\ Cardinality(saved \cup awaited) \in Nat
  BY <1>1, FewerAreLess
<1> QED  BY <1>2, ConnectionsAssumption DEF MakersInv, LimitInv, ConnectionsTypeOK
=============================================================================
