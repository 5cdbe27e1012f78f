---------------------------- MODULE Notifications ----------------------------
(***************************************************************************)
(* The notification settings of one user: the form of the settings page in   *)
(* several tabs, its secrets shown masked, the row they are saved in, and     *)
(* the events sent by mail through a transporter that is kept for a while.    *)
(***************************************************************************)
EXTENDS Naturals

CONSTANTS SettingsTab,
          SecretField,          \* the secrets of the form, smtpPass among them
          LoadsEmpty,           \* those the page does not take from the answer
          TransporterTtl,       \* ten minutes
          MaxSecret             \* bound: secrets ever typed

Null == 0
Mask == MaxSecret + 1

ASSUME NotificationsAssumption ==
    /\ "smtpPass" \in SecretField \ LoadsEmpty /\ LoadsEmpty \subseteq SecretField
    /\ MaxSecret \in Nat /\ TransporterTtl \in Nat \ {0}

VARIABLES
    stored,         \* NotificationSettings: SecretField -> Null or a secret
    meant,          \* history: what was last typed and saved
    emptied,        \* history: secrets cleared by a form that was filled before they were
                    \* stored, and not typed since
    blank,          \* history: SettingsTab -> those not stored when the form was filled
    form,           \* SettingsTab -> SecretField -> Null, a secret or Mask
    typed,          \* SettingsTab -> fields edited since the form was filled
    nextSecret,
    transporter,    \* [pass, age, stale]: kept, with the minutes since the
                    \* password it holds was replaced; age Ttl when there is none
    notifying,      \* passwords that calls of notify have read
    sentStale       \* history: stale of the last mail

notificationVars == <<stored, meant, emptied, blank, form, typed, nextSecret, transporter, notifying,
                      sentStale>>
rowVars == <<stored, meant, emptied>>
mailVars == <<transporter, notifying, sentStale>>
pageVars == <<blank, form, typed, nextSecret>>

NotificationsTypeOK ==
    /\ stored \in [SecretField -> 0 .. Mask] /\ meant \in [SecretField -> 0 .. MaxSecret]
    /\ emptied \subseteq SecretField /\ blank \in [SettingsTab -> SUBSET SecretField]
    /\ form \in [SettingsTab -> [SecretField -> 0 .. Mask]]
    /\ typed \in [SettingsTab -> SUBSET SecretField]
    /\ nextSecret \in 1 .. MaxSecret + 1
    /\ transporter \in [pass : 0 .. Mask, age : 0 .. TransporterTtl,
                        stale : 0 .. TransporterTtl]
    /\ notifying \subseteq 0 .. Mask /\ sentStale \in 0 .. TransporterTtl

NotificationsInit ==
    /\ stored = [f \in SecretField |-> Null] /\ meant = stored
    /\ emptied = {} /\ blank = [t \in SettingsTab |-> SecretField]
    /\ form = [t \in SettingsTab |-> stored] /\ typed = [t \in SettingsTab |-> {}]
    /\ nextSecret = 1 /\ notifying = {} /\ sentStale = 0
    /\ transporter = [pass |-> Null, age |-> TransporterTtl, stale |-> 0]

-----------------------------------------------------------------------------
(* The page and its row.                                                   *)

maskSecrets == [f \in SecretField |-> IF stored[f] = Null THEN Null ELSE Mask]

fill(t) ==
    /\ form' = [form EXCEPT ![t] = [f \in SecretField |->
                   IF f \in LoadsEmpty THEN Null ELSE maskSecrets[f]]]
    /\ typed' = [typed EXCEPT ![t] = {}]
    /\ blank' = [blank EXCEPT ![t] = {f \in SecretField : stored[f] = Null}]
    /\ UNCHANGED <<rowVars, nextSecret, mailVars>>

type(t, f) ==
    /\ typed' = [typed EXCEPT ![t] = @ \cup {f}]
    /\ \/ /\ form' = [form EXCEPT ![t][f] = Null] /\ UNCHANGED nextSecret
       \/ /\ nextSecret <= MaxSecret /\ nextSecret' = nextSecret + 1
          /\ form' = [form EXCEPT ![t][f] = nextSecret]
    /\ UNCHANGED <<rowVars, blank, mailVars>>

\* Mutant: what the form holds is written.
setAny(f, value) == value

\* The mask keeps what is stored, an empty string clears it.
setSecret(f, value) == IF value = Mask THEN stored[f] ELSE value

\* All fields are sent, the ones nobody edited too.
upsertNotificationSettings(t) ==
    /\ stored' = [f \in SecretField |-> setSecret(f, form[t][f])]
    /\ meant' = [f \in SecretField |-> IF f \in typed[t] THEN form[t][f] ELSE meant[f]]
    /\ emptied' = (emptied \cup {f \in blank[t] : stored[f] # Null}) \ typed[t]
    /\ UNCHANGED <<pageVars, mailVars>>

-----------------------------------------------------------------------------
(* Mails.                                                                  *)

notify ==
    /\ stored["smtpPass"] # Null
    /\ notifying' = notifying \cup {stored["smtpPass"]}
    /\ UNCHANGED <<rowVars, pageVars, transporter, sentStale>>

\* Mutant: every use keeps the transporter for longer.
slidingTransporter(pass) ==
    IF transporter.age < TransporterTtl
    THEN [transporter EXCEPT !.age = 0]
    ELSE [pass |-> pass, age |-> 0, stale |-> 0]

\* The key names host, port and user, not the password.
getTransporter(pass) ==
    IF transporter.age < TransporterTtl THEN transporter
    ELSE [pass |-> pass, age |-> 0, stale |-> 0]

sendEmail ==
    \E pass \in notifying :
        /\ notifying' = notifying \ {pass}
        /\ transporter' = getTransporter(pass)
        /\ sentStale' = getTransporter(pass).stale
        /\ UNCHANGED <<rowVars, pageVars>>

\* A call of notify takes less than a minute.
passMinute ==
    /\ notifying = {} /\ transporter.age < TransporterTtl
    /\ transporter' = [transporter EXCEPT
           !.age = @ + 1,
           !.stale = IF transporter.pass = stored["smtpPass"] THEN 0
                     ELSE IF @ < TransporterTtl THEN @ + 1 ELSE @]
    /\ UNCHANGED <<rowVars, pageVars, notifying, sentStale>>

NotificationsNext ==
    \/ \E t \in SettingsTab : \/ fill(t) \/ upsertNotificationSettings(t)
                              \/ \E f \in SecretField : type(t, f)
    \/ notify \/ sendEmail \/ passMinute

NotificationsSpec == NotificationsInit /\ [][NotificationsNext]_notificationVars

-----------------------------------------------------------------------------

\* A save never stores the mask, nor clears or changes a secret that was not edited in
\* that form, with two exceptions: a secret the page does not take from the answer
\* (SettingsPage.tsx:107), cleared by every save of other fields, and one that another
\* tab stored after the form had been filled without it
\* (notification.controller.ts, upsertNotificationSettings).
NeverMasked ==
    \A f \in SecretField :
        stored[f] = meant[f] \/ (stored[f] = Null /\ f \in LoadsEmpty \cup emptied)

\* The transporter is kept by host, port and user, so a mail may still go out with a
\* password that was replaced, but never with one replaced as long ago as a
\* transporter is kept (notification.service.ts, getTransporter).
MailFresh == sentStale < TransporterTtl
=============================================================================
