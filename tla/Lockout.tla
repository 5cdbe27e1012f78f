------------------------------- MODULE Lockout -------------------------------
(***************************************************************************)
(* The counters of failed sign-ins, kept in memory: a lock per address,    *)
(* one alert per account and window for failures from several addresses,   *)
(* and the pause between two mails about failures.  A sign-in looks at the *)
(* lock, awaits the database and the password hash, and counts after that. *)
(***************************************************************************)
EXTENDS Integers, FiniteSets

CONSTANTS Ip,
          Attempts, LockTime,           \* LOGIN_LOCKOUT_ATTEMPTS, _MINUTES
          Window, Threshold, NotifyGap, \* of the account's counter and its mails
          MaxFlight, MaxNow             \* bounds

ASSUME LockoutAssumption ==
    /\ {Attempts, LockTime, NotifyGap, MaxFlight} \subseteq Nat \ {0}
    /\ Window \in Nat /\ Threshold \in Nat \ {0, 1} /\ MaxNow \in Nat

VARIABLES now,
          lock,         \* per address: [fails, until]
          trying,       \* sign-ins past the look at the lock
          window,       \* acctState: [start, count, ips, alertAt]
          mailAt,       \* lastFailureNotify, 0 for none
          alerts,       \* history: the last two cross-address alerts
          mails         \* history: the last two mails

lockoutVars == <<now, lock, trying, window, mailAt, alerts, mails>>

Fresh == [fails |-> 0, until |-> 0]
\* Time is counted from long before the first sign-in.
Start == Window + NotifyGap + LockTime + 1

LockoutTypeOK ==
    /\ now \in Nat
    /\ lock \in [Ip -> [fails : 0 .. Attempts - 1, until : Nat]]
    /\ trying \in [Ip -> 0 .. MaxFlight]
    /\ window \in [start : Nat, count : Nat, ips : SUBSET Ip, alertAt : Nat]
    /\ mailAt \in Nat
    /\ alerts \in Nat \X Nat /\ mails \in Nat \X Nat

LockoutInit ==
    /\ now = Start
    /\ lock = [i \in Ip |-> Fresh]
    /\ trying = [i \in Ip |-> 0]
    /\ window = [start |-> 0, count |-> 0, ips |-> {}, alertAt |-> 0]
    /\ mailAt = 0 /\ alerts = <<0, 0>> /\ mails = <<0, 0>>

isLoginLocked(ip) == lock[ip].until >= now

beginLogin(ip) ==
    /\ ~isLoginLocked(ip) /\ trying[ip] < MaxFlight
    /\ trying' = [trying EXCEPT ![ip] = @ + 1]
    /\ UNCHANGED <<now, lock, window, mailAt, alerts, mails>>

recordLoginFailure(ip) ==
    LET fails == lock[ip].fails + 1 IN
    IF fails >= Attempts THEN [fails |-> 0, until |-> now + LockTime]
    ELSE [fails |-> fails, until |-> lock[ip].until]

\* Mutant: an alert forgets when the last one was.
countAndForget(ip) ==
    LET w == IF now - window.start > Window
             THEN [start |-> now, count |-> 1, ips |-> {ip}, alertAt |-> 0]
             ELSE [window EXCEPT !.count = @ + 1, !.ips = @ \cup {ip}]
        trips == w.count >= Threshold /\ Cardinality(w.ips) >= 2
    IN  [window |-> IF trips THEN [start |-> now, count |-> 0, ips |-> {},
                                   alertAt |-> 0] ELSE w,
         trips |-> trips]

recordAccountFailure(ip) ==
    LET w == IF now - window.start > Window
             THEN [start |-> now, count |-> 1, ips |-> {ip}, alertAt |-> 0]
             ELSE [window EXCEPT !.count = @ + 1, !.ips = @ \cup {ip}]
        trips == /\ w.count >= Threshold /\ Cardinality(w.ips) >= 2
                 /\ now - w.alertAt > Window
    IN  [window |-> IF trips THEN [start |-> now, count |-> 0, ips |-> {},
                                   alertAt |-> now] ELSE w,
         trips |-> trips]

\* A wrong password: the lock, then the account's counter, then the mail.
failLogin(ip) ==
    LET acct == recordAccountFailure(ip)
        mail == ~acct.trips /\ now - mailAt >= NotifyGap
    IN  /\ trying[ip] > 0
        /\ trying' = [trying EXCEPT ![ip] = @ - 1]
        /\ lock' = [lock EXCEPT ![ip] = recordLoginFailure(ip)]
        /\ window' = [acct.window EXCEPT !.count = IF @ > Threshold
                                                   THEN Threshold ELSE @]
        /\ mailAt' = IF mail THEN now ELSE mailAt
        /\ alerts' = IF acct.trips THEN <<alerts[2], now>> ELSE alerts
        /\ mails' = IF mail THEN <<mails[2], now>> ELSE mails
        /\ UNCHANGED now

\* An unknown account, or an inactive one, counts for the address only.
failUnknown(ip) ==
    /\ trying[ip] > 0
    /\ trying' = [trying EXCEPT ![ip] = @ - 1]
    /\ lock' = [lock EXCEPT ![ip] = recordLoginFailure(ip)]
    /\ UNCHANGED <<now, window, mailAt, alerts, mails>>

\* The right password forgets the address, a lock of meanwhile included, unless
\* the account signs in with passkeys only.
passLogin(ip, only) ==
    /\ trying[ip] > 0
    /\ trying' = [trying EXCEPT ![ip] = @ - 1]
    /\ lock' = IF only THEN lock ELSE [lock EXCEPT ![ip] = Fresh]
    /\ UNCHANGED <<now, window, mailAt, alerts, mails>>

\* A passkey signs in whatever the lock says.
passkeyLogin(ip) ==
    /\ lock[ip] # Fresh
    /\ lock' = [lock EXCEPT ![ip] = Fresh]
    /\ UNCHANGED <<now, trying, window, mailAt, alerts, mails>>

tick ==
    /\ now < Start + MaxNow
    /\ now' = now + 1
    /\ UNCHANGED <<lock, trying, window, mailAt, alerts, mails>>

LockoutNext ==
    \/ \E ip \in Ip : beginLogin(ip) \/ failLogin(ip) \/ failUnknown(ip)
                      \/ passkeyLogin(ip) \/ \E only \in BOOLEAN : passLogin(ip, only)
    \/ tick

LockoutSpec == LockoutInit /\ [][LockoutNext]_lockoutVars

-----------------------------------------------------------------------------

\* Two alerts about one account are more than a window apart, and two mails
\* about failures at least their pause, in however many sign-ins at a time.
AlertsSpaced == alerts[1] # 0 => alerts[2] - alerts[1] > Window
MailsSpaced == mails[1] # 0 => mails[2] - mails[1] >= NotifyGap
=============================================================================
