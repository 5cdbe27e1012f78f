-------------------------------- MODULE AtRest --------------------------------
(***************************************************************************)
(* Artifacts at rest: the storage settings of one user, saved while backups   *)
(* are encrypted and uploaded, the copies of an artifact on disk and in a     *)
(* remote account, and the uses of a stored artifact, which read it through   *)
(* a temporary directory when it is remote or encrypted.                      *)
(***************************************************************************)
EXTENDS Naturals

CONSTANTS Artifact,
          Saver,            \* requests that save the settings
          Use,              \* verifications, dry runs, restores and drills
          MaxPass           \* bound: passphrases ever chosen

NoPass == 0

ASSUME AtRestAssumption == MaxPass \in Nat

VARIABLES
    settings,       \* StorageSettings: [remote, deleteLocal, enabled, pass, history];
                    \* remote: the provider is S3 or Drive
    saves,          \* Saver -> what it will write, NoSave when idle
    nextPass,
    overwritten,    \* history: two saves of a passphrase overlapped
    underTmp,       \* BACKUP_STORAGE_PATH lies below the system's temporary directory
    artifacts,      \* Artifact -> [pc, pass, local, remote, opened]: the copies, the
                    \* passphrase they are encrypted with, and history: whether the
                    \* copy on disk was decrypted for a use
    uses            \* Use -> [pc, of, temp]; temp: through a directory of its own

atRestVars == <<settings, saves, nextPass, overwritten, underTmp, artifacts, uses>>
settingsVars == <<settings, saves, nextPass, overwritten, underTmp>>

NoSave == [pc |-> "idle", pass |-> NoPass, history |-> {}, renew |-> FALSE, patch |-> {}]
NoArtifact == [pc |-> "none", pass |-> NoPass, local |-> FALSE, remote |-> FALSE,
               opened |-> FALSE]
NoUse == [pc |-> "idle", of |-> "none", temp |-> FALSE]

Patch == [remote : BOOLEAN, deleteLocal : BOOLEAN, enabled : BOOLEAN]

AtRestTypeOK ==
    /\ settings.remote \in BOOLEAN /\ settings.deleteLocal \in BOOLEAN
    /\ settings.enabled \in BOOLEAN /\ settings.pass \in 0 .. MaxPass
    /\ settings.history \subseteq 1 .. MaxPass
    /\ nextPass \in 1 .. MaxPass + 1 /\ overwritten \in BOOLEAN
    /\ underTmp \in BOOLEAN
    /\ \A s \in Saver : /\ saves[s].pc \in {"idle", "read"} /\ saves[s].pass \in 0 .. MaxPass
                        /\ saves[s].history \subseteq 1 .. MaxPass
                        /\ saves[s].patch \subseteq Patch /\ saves[s].renew \in BOOLEAN
    /\ artifacts \in [Artifact -> [pc : {"none", "dumped", "encrypting", "encrypted", "stored",
                                         "deleted"},
                                   pass : 0 .. MaxPass, local : BOOLEAN,
                                   remote : BOOLEAN, opened : BOOLEAN]]
    /\ uses \in [Use -> [pc : {"idle", "resolving", "using"},
                         of : Artifact \cup {"none"}, temp : BOOLEAN]]

AtRestInit ==
    /\ settings = [remote |-> FALSE, deleteLocal |-> FALSE, enabled |-> FALSE,
                   pass |-> NoPass, history |-> {}]
    /\ saves = [s \in Saver |-> NoSave] /\ nextPass = 1 /\ overwritten = FALSE
    /\ underTmp \in BOOLEAN
    /\ artifacts = [b \in Artifact |-> NoArtifact]
    /\ uses = [u \in Use |-> NoUse]

-----------------------------------------------------------------------------
(* Saving the settings: the row is read, checked against and written.       *)

changingPassphrase(pass) ==
    NoPass \notin {pass, settings.pass} /\ pass # settings.pass

\* Mutant: the old passphrase is replaced like any other field.
forgetOld(pass) == {}

\* The passphrases that are only kept to decrypt, once `pass' is the current one.
backupPassphraseHistory(pass) ==
    settings.history \cup {settings.pass}

\* NoPass: no passphrase was typed. A new one needs the stored one typed as
\* well, which the requests of the model do; encryption needs a passphrase.
readSettings(s, patch, pass) ==
    /\ saves[s] = NoSave
    /\ pass \in {NoPass, settings.pass, nextPass} /\ pass <= MaxPass
    /\ patch.enabled => {pass, settings.pass} # {NoPass}
    /\ nextPass' = IF pass = nextPass THEN nextPass + 1 ELSE nextPass
    /\ saves' = [saves EXCEPT ![s] =
           [pc |-> "read", pass |-> pass, renew |-> changingPassphrase(pass),
            history |-> IF changingPassphrase(pass) THEN backupPassphraseHistory(pass)
                        ELSE {},
            patch |-> {patch}]]
    /\ overwritten' = (overwritten \/ (pass # NoPass
                                      /\ \E o \in Saver : saves[o].pass # NoPass))
    /\ UNCHANGED <<settings, underTmp, artifacts, uses>>

upsertStorageSettings(s) ==
    \E patch \in saves[s].patch :
        /\ settings' = [remote |-> patch.remote, deleteLocal |-> patch.deleteLocal,
                        enabled |-> patch.enabled,
                        pass |-> IF saves[s].pass = NoPass THEN settings.pass
                                 ELSE saves[s].pass,
                        history |-> IF saves[s].renew THEN saves[s].history
                                    ELSE settings.history]
        /\ saves' = [saves EXCEPT ![s] = NoSave]
        /\ UNCHANGED <<nextPass, overwritten, underTmp, artifacts, uses>>

-----------------------------------------------------------------------------
(* The end of the pipeline: encryption and upload.                         *)

dump(b) ==
    /\ artifacts[b].pc = "none"
    /\ artifacts' = [artifacts EXCEPT ![b].pc = "dumped", ![b].local = TRUE]
    /\ UNCHANGED <<settingsVars, uses>>

\* The passphrase is read before the file is encrypted; what is encrypted in
\* vain twice stays plain.
beginEncrypt(b) ==
    /\ artifacts[b].pc = "dumped"
    /\ artifacts' = [artifacts EXCEPT
           ![b].pc = IF settings.enabled THEN "encrypting" ELSE "encrypted",
           ![b].pass = IF settings.enabled THEN settings.pass ELSE NoPass]
    /\ UNCHANGED <<settingsVars, uses>>

encryptBackupFile(b) ==
    /\ artifacts[b].pc = "encrypting"
    /\ \E p \in {artifacts[b].pass, NoPass} :
           artifacts' = [artifacts EXCEPT ![b].pc = "encrypted", ![b].pass = p]
    /\ UNCHANGED <<settingsVars, uses>>

\* Mutant: the copy on disk goes with any upload.
deleteAfterTry(b, done) == settings.deleteLocal /\ settings.remote

\* The copy on disk is deleted once the upload is done.
deleteLocalCopy(b, done) == settings.deleteLocal /\ done

\* An upload that fails leaves the artifact on disk only.
uploadBackupFile(b) ==
    /\ artifacts[b].pc = "encrypted"
    /\ \E done \in {FALSE, settings.remote} :
           artifacts' = [artifacts EXCEPT
               ![b].pc = "stored", ![b].remote = done,
               ![b].local = ~deleteLocalCopy(b, done)]
    /\ UNCHANGED <<settingsVars, uses>>

\* The remote copy is deleted through the settings of now, and an error of it
\* is swallowed: the object may stay behind.
deleteBackup(b) ==
    /\ artifacts[b].pc = "stored"
    /\ artifacts' = [artifacts EXCEPT ![b] = [NoArtifact EXCEPT !.pc = "deleted"]]
    /\ UNCHANGED <<settingsVars, uses>>

-----------------------------------------------------------------------------
(* Uses of a stored artifact.                                              *)

candidates == settings.history \cup ({settings.pass} \ {NoPass})

\* A plain file on disk is used in place, anything else in a directory of its
\* own.
beginUse(u, b) ==
    /\ uses[u] = NoUse /\ artifacts[b].pc = "stored"
    /\ uses' = [uses EXCEPT ![u] =
           [pc |-> "resolving", of |-> b,
            temp |-> ~artifacts[b].local \/ artifacts[b].pass # NoPass]]
    /\ UNCHANGED <<settingsVars, artifacts>>

\* The copy on disk, or else a download, which may fail; an encrypted one is
\* tried with every passphrase of the settings. Once it is decrypted, the file that
\* was read is unlinked if it lies below the temporary directory, and so does a copy
\* on disk whose directory does.
ensureLocalBackupFile(u) ==
    LET b == uses[u].of
        opens == artifacts[b].pass \in candidates \cup {NoPass}
        decrypted == artifacts[b].local /\ opens /\ artifacts[b].pass # NoPass IN
    /\ uses[u].pc = "resolving"
    /\ \E found \in {artifacts[b].local, artifacts[b].local \/ artifacts[b].remote} :
           uses' = [uses EXCEPT ![u] =
               IF found /\ opens THEN [@ EXCEPT !.pc = "using"] ELSE NoUse]
    /\ artifacts' = IF decrypted
                    THEN [artifacts EXCEPT ![b].opened = TRUE, ![b].local = ~underTmp]
                    ELSE artifacts
    /\ UNCHANGED settingsVars

\* Mutant: the directory of the file that was used is removed in any case.
cleanupAlways(u) ==
    /\ uses[u].pc = "using" /\ uses' = [uses EXCEPT ![u] = NoUse]
    /\ artifacts' = IF uses[u].temp THEN artifacts
                    ELSE [artifacts EXCEPT ![uses[u].of].local = FALSE]
    /\ UNCHANGED <<settingsVars>>

\* Only what was made for this use is removed.
cleanupTempFile(u) ==
    /\ uses[u].pc = "using" /\ uses' = [uses EXCEPT ![u] = NoUse]
    /\ UNCHANGED <<settingsVars, artifacts>>

AtRestNext ==
    \/ \E s \in Saver : \/ upsertStorageSettings(s)
                        \/ \E patch \in Patch, p \in 0 .. MaxPass : readSettings(s, patch, p)
    \/ \E b \in Artifact : \/ dump(b) \/ beginEncrypt(b) \/ encryptBackupFile(b)
                           \/ uploadBackupFile(b) \/ deleteBackup(b)
    \/ \E u \in Use : \/ ensureLocalBackupFile(u) \/ cleanupTempFile(u)
                      \/ \E b \in Artifact : beginUse(u, b)

AtRestSpec == AtRestInit /\ [][AtRestNext]_atRestVars

-----------------------------------------------------------------------------

\* A stored artifact has a copy: no order of uploads that fail, saved settings
\* and uses of it takes the last one away, but for an encrypted artifact that was used
\* while the storage directory is below the temporary one, which loses the copy on disk,
\* against `if it was the local artifact on disk, leave it (that's the at-rest copy)'
\* (storage.service.ts:395-396; uploadBackupFile, cleanupTempFile).
ArtifactKept ==
    \A b \in Artifact : artifacts[b].pc = "stored" =>
        \/ artifacts[b].local \/ artifacts[b].remote
        \/ underTmp /\ artifacts[b].opened /\ artifacts[b].pass # NoPass

\* `no data loss on rotation' (storage.controller.ts): what was encrypted, or is
\* being encrypted, can be opened with a passphrase of the settings, unless two
\* saves overlapped.
RotationKeeps ==
    overwritten \/ \A b \in Artifact : artifacts[b].pass \in candidates \cup {NoPass}
=============================================================================
