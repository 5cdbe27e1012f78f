-------------------------- MODULE Retention_proofs --------------------------
(***************************************************************************)
(* Retention takes no backup too soon, for every number of backups,        *)
(* schedules, accounts and overlapping runs.  A run reads the caps, then   *)
(* the schedules, then selects by two queries and deletes many steps later;*)
(* what it selected stays selectable, since the strictest rules so far only *)
(* become stricter, days pass, and what has completed stays completed.     *)
(***************************************************************************)
EXTENDS Retention, FiniteSetTheorems, WellFoundedInduction, TLAPS

-----------------------------------------------------------------------------
(* Rules and caps.                                                         *)

\* A rule of n days or backups takes all that a rule of m takes; 0 takes none.
Covers(n, m) == m > 0 => n > 0 /\ n <= m

CoversRules(r, q) == Covers(r.days, q.days) /\ Covers(r.count, q.count)

\* The cap x allows no more than the cap y.
CapCovers(x, y) == y # Unlimited => x # Unlimited /\ x <= y

\* A set of numbers that is not empty has a least one.
LEMMA LeastExists ==
    ASSUME NEW S, S \subseteq Nat, S # {}
    PROVE  \E n \in S : \A m \in S : n <= m
<1> DEFINE R == OpToRel(<, Nat)
<1>1. IsWellFoundedOn(R, Nat)
  BY NatLessThanWellFounded
<1>2. \A m, n \in Nat : <<m, n>> \notin R => n <= m
  BY DEF OpToRel
<1> HIDE DEF R
<1>3. PICK n \in S : \A m \in S : <<m, n>> \notin R
  BY <1>1, WFMin
<1> QED
  BY <1>2, <1>3

\* What Strictest chooses.
LEMMA StrictestIsLeast ==
    ASSUME NEW S, S \subseteq Nat
    PROVE  /\ Strictest(S) \in Nat
           /\ S \subseteq {0} => Strictest(S) = 0
           /\ ~(S \subseteq {0}) => /\ Strictest(S) \in S \ {0}
                                    /\ \A m \in S \ {0} : Strictest(S) <= m
<1>1. CASE S \subseteq {0}
  BY <1>1 DEF Strictest
<1>2. CASE ~(S \subseteq {0})
  <2>1. \E n \in S \ {0} : \A m \in S \ {0} : n <= m
    <3>1. S \ {0} # {} /\ S \ {0} \subseteq Nat
      BY <1>2
    <3> QED
      BY <3>1, LeastExists
  <2>2. Strictest(S) = CHOOSE n \in S \ {0} : \A m \in S \ {0} : n <= m
    BY <1>2 DEF Strictest
  <2>3. Strictest(S) \in S \ {0} /\ \A m \in S \ {0} : Strictest(S) <= m
    BY <2>1, <2>2
  <2> QED
    BY <1>2, <2>3
<1> QED
  BY <1>1, <1>2

\* Of two rules the strictest covers both.
LEMMA StrictestOfTwo ==
    ASSUME NEW a \in Nat, NEW b \in Nat
    PROVE  /\ Strictest({a, b}) \in {a, b}
           /\ Covers(Strictest({a, b}), a) /\ Covers(Strictest({a, b}), b)
<1>1. {a, b} \subseteq Nat
  OBVIOUS
<1>2. {a, b} \subseteq {0} <=> a = 0 /\ b = 0
  OBVIOUS
<1> DEFINE s == Strictest({a, b})
<1>3. /\ s \in Nat /\ (a = 0 /\ b = 0 => s = 0)
      /\ ~(a = 0 /\ b = 0) => /\ s \in {a, b} \ {0}
                              /\ \A m \in {a, b} \ {0} : s <= m
  BY <1>1, <1>2, StrictestIsLeast
<1> HIDE DEF s
<1>4. s \in {a, b} /\ Covers(s, a) /\ Covers(s, b)
  BY <1>3 DEF Covers
<1> QED
  BY <1>4 DEF s

\* A rule under a cap, and under a lower one.
LEMMA ClampTighter ==
    ASSUME NEW d \in Nat, NEW x \in Caps \cup {Unlimited}, NEW y \in Caps \cup {Unlimited},
           CapCovers(x, y)
    PROVE  /\ Clamp(d, x) \in Nat /\ Clamp(d, y) \in Nat
           /\ Covers(Clamp(d, x), Clamp(d, y))
<1>1. /\ x # Unlimited => x \in Nat \ {0}
      /\ y # Unlimited => y \in Nat \ {0}
  BY RulesAssumption
<1>2. CASE d = 0
  BY <1>2 DEF Clamp, Covers
<1>3. CASE d # 0 /\ x = Unlimited
  BY <1>3 DEF Clamp, Covers, CapCovers
<1>4. CASE d # 0 /\ x # Unlimited /\ y = Unlimited
  <2>1. Clamp(d, x) = Strictest({d, x}) /\ Clamp(d, y) = d
    BY <1>4 DEF Clamp
  <2>2. Strictest({d, x}) \in {d, x} /\ Covers(Strictest({d, x}), d)
    BY <1>1, <1>4, StrictestOfTwo
  <2> QED
    BY <1>1, <1>4, <2>1, <2>2
<1>5. CASE d # 0 /\ x # Unlimited /\ y # Unlimited
  <2>1. Clamp(d, x) = Strictest({d, x}) /\ Clamp(d, y) = Strictest({d, y})
    BY <1>5 DEF Clamp
  <2>2. /\ Strictest({d, x}) \in {d, x}
        /\ Covers(Strictest({d, x}), d) /\ Covers(Strictest({d, x}), x)
    BY <1>1, <1>5, StrictestOfTwo
  <2>3. Strictest({d, y}) \in {d, y}
    BY <1>1, <1>5, StrictestOfTwo
  <2>4. x <= y
    BY <1>5 DEF CapCovers
  <2> QED
    BY <1>1, <1>5, <2>1, <2>2, <2>3, <2>4 DEF Covers
<1> QED
  BY <1>2, <1>3, <1>4, <1>5

Schedules == [Schedule -> [conn : Conn \cup {None}, days : Nat, count : Nat]]

\* The policy of a connection, and the one under a lower cap.
LEMMA PolicyTighter ==
    ASSUME NEW g, NEW sch \in Schedules,
           NEW x \in Caps \cup {Unlimited}, NEW y \in Caps \cup {Unlimited}, CapCovers(x, y)
    PROVE  /\ getRetentionPolicy(g, x, sch) \in Rules
           /\ getRetentionPolicy(g, y, sch) \in Rules
           /\ CoversRules(getRetentionPolicy(g, x, sch), getRetentionPolicy(g, y, sch))
<1> DEFINE mine == schedulesOf(g, sch)
           d == Strictest({sch[s].days : s \in mine})
           n == Strictest({sch[s].count : s \in mine})
<1>1. CASE g = None \/ mine = {}
  <2>1. /\ getRetentionPolicy(g, x, sch) = envDefaultRetention
        /\ getRetentionPolicy(g, y, sch) = envDefaultRetention
    BY <1>1 DEF getRetentionPolicy
  <2>2. EnvDays \in Nat /\ EnvCount \in Nat
    BY RulesAssumption
  <2> QED
    BY <2>1, <2>2 DEF envDefaultRetention, Rules, CoversRules, Covers
<1>2. CASE ~(g = None \/ mine = {})
  <2>1. /\ getRetentionPolicy(g, x, sch) = [days |-> Clamp(d, x), count |-> n]
        /\ getRetentionPolicy(g, y, sch) = [days |-> Clamp(d, y), count |-> n]
    BY <1>2 DEF getRetentionPolicy
  <2>2. mine \subseteq Schedule
    BY DEF schedulesOf
  <2>3. /\ {sch[s].days : s \in mine} \subseteq Nat
        /\ {sch[s].count : s \in mine} \subseteq Nat
    BY <2>2 DEF Schedules
  <2>4. d \in Nat /\ n \in Nat
    BY <2>3, StrictestIsLeast
  <2> HIDE DEF d, n
  <2>5. /\ Clamp(d, x) \in Nat /\ Clamp(d, y) \in Nat
        /\ Covers(Clamp(d, x), Clamp(d, y))
    BY <2>4, ClampTighter
  <2> QED
    BY <2>1, <2>4, <2>5 DEF Rules, CoversRules, Covers
<1> QED
  BY <1>1, <1>2

-----------------------------------------------------------------------------
(* Types.                                                                  *)

Procs == Slot \cup {Daily}

\* A backup has an owner from its creation, its connection's as long as it has one.
RowsOK == \A b \in Backup :
    /\ rows[b].status # "absent" => rows[b].owner \in User
    /\ rows[b].conn # None => rows[b].status # "absent" /\ rows[b].owner = Owner[rows[b].conn]

TypeInv == TypeOK /\ RowsOK

\* The requests and the clock, which leave the runs alone.
request ==
    \/ tick
    \/ \E b \in Backup, c \in Conn : createBackup(b, c)
    \/ \E b \in Backup : deleteBackup(b)
    \/ \E c \in Conn : deleteConnection(c)
    \/ \E s \in Schedule, c \in Conn, d \in Days, n \in Counts : createSchedule(s, c, d, n)
    \/ \E s \in Schedule, d \in Days \cup {None}, n \in Counts : updateSchedule(s, d, n)
    \/ \E s \in Schedule : deleteSchedule(s)
    \/ \E u \in User, max \in Caps : setUserRetentionLimit(u, max)

begin(p) == \E user \in User \cup {None} : runGlobalRetentionSweep(p, user)

LEMMA NextCases ==
    ASSUME [Next]_vars
    PROVE  \/ request
           \/ \E b \in Backup : completeBackup(b)
           \/ \E p \in Procs : begin(p) \/ step(p)
           \/ crash
           \/ UNCHANGED vars
  BY DEF Next, request, begin, Procs, sweep

LEMMA IdleType == Idle \in Proc
  BY DEF Idle, Proc, Rules

\* Strictest of what was and what is.
LEMMA TightenedRules ==
    ASSUME strict \in [Conn -> Rules], NEW sch \in Schedules,
           NEW caps \in [User -> Caps]
    PROVE  /\ Tightened(sch, caps) \in [Conn -> Rules]
           /\ \A c \in Conn :
                 /\ CoversRules(Tightened(sch, caps)[c], strict[c])
                 /\ CoversRules(Tightened(sch, caps)[c],
                                getRetentionPolicy(c, caps[Owner[c]], sch))
<1> SUFFICES ASSUME NEW c \in Conn
             PROVE  /\ Tightened(sch, caps)[c] \in Rules
                    /\ CoversRules(Tightened(sch, caps)[c], strict[c])
                    /\ CoversRules(Tightened(sch, caps)[c],
                                   getRetentionPolicy(c, caps[Owner[c]], sch))
  BY DEF Tightened
<1> DEFINE p == getRetentionPolicy(c, caps[Owner[c]], sch)
           t == Tightened(sch, caps)[c]
<1>1. caps[Owner[c]] \in Caps \cup {Unlimited}
  BY OwnerAssumption
<1>2. CapCovers(caps[Owner[c]], caps[Owner[c]])
  <2>1. \A v \in Caps \cup {Unlimited} : v # Unlimited => v \in Nat /\ v <= v
    BY RulesAssumption
  <2> QED
    BY <1>1, <2>1 DEF CapCovers
<1>3. p \in Rules
  BY <1>1, <1>2, PolicyTighter
<1>4. t = [days |-> Strictest({strict[c].days, p.days}),
           count |-> Strictest({strict[c].count, p.count})]
  BY DEF Tightened
<1> HIDE DEF p, t
<1>5. /\ strict[c].days \in Nat /\ strict[c].count \in Nat
      /\ p.days \in Nat /\ p.count \in Nat
  BY <1>3 DEF Rules
<1>6. t \in Rules /\ CoversRules(t, strict[c]) /\ CoversRules(t, p)
  BY <1>4, <1>5, StrictestOfTwo DEF Rules, CoversRules
<1> QED
  BY <1>6 DEF p, t

LEMMA TypeInit == Init => TypeInv
<1> SUFFICES ASSUME Init PROVE TypeInv
  OBVIOUS
<1>1. envDefaultRetention \in Rules
  BY RulesAssumption DEF envDefaultRetention, Rules
<1>2. proc \in [Slot \cup {Daily} -> Proc]
  BY IdleType DEF Init
<1>3. rows \in [Backup -> Row]
  BY DEF Init, Row, NoRow
<1> QED
  BY <1>1, <1>2, <1>3 DEF Init, TypeInv, TypeOK, RowsOK, NoRow, NoSchedule

\* The requests keep the types.
LEMMA RequestType == TypeInv /\ request => TypeInv'
<1> SUFFICES ASSUME TypeInv, request PROVE TypeInv'
  OBVIOUS
<1> USE DEF TypeInv, TypeOK, data, settings
<1>1. CASE tick
  BY <1>1 DEF tick, RowsOK
<1>2. ASSUME NEW b \in Backup, NEW c \in Conn, createBackup(b, c) PROVE TypeInv'
  <2>1. [status |-> "pending", owner |-> Owner[c], conn |-> c, born |-> now] \in Row
    BY OwnerAssumption DEF Row
  <2>2. rows' \in [Backup -> Row]
    BY <1>2, <2>1 DEF createBackup
  <2>3. RowsOK'
    BY <1>2, OwnerAssumption DEF createBackup, RowsOK
  <2> QED
    BY <1>2, <2>2, <2>3 DEF createBackup
<1>3. ASSUME NEW b \in Backup, deleteBackup(b) PROVE TypeInv'
  <2>0. [rows[b] EXCEPT !.status = "removed"] \in Row
    BY DEF Row
  <2>1. rows' \in [Backup -> Row]
    BY <1>3, <2>0 DEF deleteBackup
  <2>2. RowsOK'
    BY <1>3 DEF deleteBackup, RowsOK, Row
  <2> QED
    BY <1>3, <2>1, <2>2 DEF deleteBackup
<1>4. ASSUME NEW c \in Conn, deleteConnection(c) PROVE TypeInv'
  <2>1. rows' \in [Backup -> Row]
    BY <1>4 DEF deleteConnection, Row
  <2>2. RowsOK'
    BY <1>4 DEF deleteConnection, RowsOK, Row
  <2>3. sched' \in Schedules
    BY <1>4 DEF deleteConnection, Schedules, NoSchedule
  <2>4. strict' \in [Conn -> Rules]
    BY <1>4, <2>3, TightenedRules DEF deleteConnection
  <2> QED
    BY <1>4, <2>1, <2>2, <2>3, <2>4 DEF deleteConnection, Schedules
<1>5. ASSUME NEW s \in Schedule, NEW c \in Conn, NEW d \in Days, NEW n \in Counts,
             createSchedule(s, c, d, n)
      PROVE  TypeInv'
  <2>1. n \in Nat /\ (IF d = 0 THEN DefaultDays ELSE d) \in Nat
    BY RulesAssumption
  <2>2. sched' \in Schedules
    BY <1>5, <2>1 DEF createSchedule, Schedules
  <2>3. strict' \in [Conn -> Rules]
    BY <1>5, <2>2, TightenedRules DEF createSchedule
  <2> QED
    BY <1>5, <2>2, <2>3 DEF createSchedule, Schedules, RowsOK
<1>6. ASSUME NEW s \in Schedule, NEW d \in Days \cup {None}, NEW n \in Counts,
             updateSchedule(s, d, n)
      PROVE  TypeInv'
  <2>1. n \in Nat /\ (d # None => d \in Nat)
    BY RulesAssumption
  <2>2. sched' \in Schedules
    BY <1>6, <2>1 DEF updateSchedule, Schedules
  <2>3. strict' \in [Conn -> Rules]
    BY <1>6, <2>2, TightenedRules DEF updateSchedule
  <2> QED
    BY <1>6, <2>2, <2>3 DEF updateSchedule, Schedules, RowsOK
<1>7. ASSUME NEW s \in Schedule, deleteSchedule(s) PROVE TypeInv'
  <2>1. sched' \in Schedules
    BY <1>7 DEF deleteSchedule, Schedules, NoSchedule
  <2>2. strict' \in [Conn -> Rules]
    BY <1>7, <2>1, TightenedRules DEF deleteSchedule
  <2> QED
    BY <1>7, <2>1, <2>2 DEF deleteSchedule, Schedules, RowsOK
<1>8. ASSUME NEW u \in User, NEW max \in Caps, setUserRetentionLimit(u, max) PROVE TypeInv'
  <2>1. (IF lowest[u] = Unlimited THEN max ELSE Clamp(lowest[u], max)) \in Caps
    <3>1. CASE lowest[u] = Unlimited \/ max = Unlimited
      BY <3>1 DEF Clamp
    <3>2. CASE lowest[u] # Unlimited /\ max # Unlimited
      <4>1. lowest[u] \in Nat \ {0} /\ max \in Nat \ {0}
        BY <3>2, RulesAssumption
      <4>2. Clamp(lowest[u], max) = Strictest({lowest[u], max})
        BY <3>2, <4>1 DEF Clamp
      <4> QED
        BY <3>2, <4>1, <4>2, StrictestOfTwo
    <3> QED
      BY <3>1, <3>2
  <2>2. lowest' \in [User -> Caps] /\ cap' \in [User -> Caps]
    BY <1>8, <2>1 DEF setUserRetentionLimit
  <2>3. strict' \in [Conn -> Rules]
    BY <1>8, <2>2, TightenedRules DEF setUserRetentionLimit, Schedules
  <2> QED
    BY <1>8, <2>2, <2>3 DEF setUserRetentionLimit, RowsOK
<1> QED
  BY <1>1, <1>2, <1>3, <1>4, <1>5, <1>6, <1>7, <1>8 DEF request

\* A run that begins.
LEMMA BeginType == ASSUME TypeInv, NEW p \in Procs, begin(p) PROVE TypeInv'
<1> USE DEF TypeInv, TypeOK, data, settings
<1>1. PICK user \in User \cup {None} : runGlobalRetentionSweep(p, user)
  BY DEF begin
<1> DEFINE seen == {b \in Backup : /\ rows[b].status = "COMPLETED"
                                   /\ user = None \/ rows[b].owner = user}
           group(b) == [conn |-> rows[b].conn, owner |-> rows[b].owner]
<1>2. {group(b) : b \in seen} \subseteq Group
  BY DEF RowsOK, Row, Group
<1>3. PICK groups \in SUBSET {group(b) : b \in seen} :
         proc' = [proc EXCEPT ![p] = [Idle EXCEPT !.pc = "caps", !.user = user,
                                                  !.groups = groups]]
  BY <1>1 DEF runGlobalRetentionSweep
<1>4. groups \subseteq Group
  BY <1>2, <1>3
<1> HIDE DEF seen, group
<1>5. [Idle EXCEPT !.pc = "caps", !.user = user, !.groups = groups] \in Proc
  BY <1>4, IdleType DEF Proc
<1>6. proc' \in [Slot \cup {Daily} -> Proc]
  BY <1>3, <1>5 DEF Procs
<1> QED
  BY <1>1, <1>6 DEF runGlobalRetentionSweep, RowsOK

LEMMA CompleteType == ASSUME TypeInv, NEW b \in Backup, completeBackup(b) PROVE TypeInv'
<1> USE DEF TypeInv, TypeOK, data, settings
<1>0. [rows[b] EXCEPT !.status = "COMPLETED"] \in Row
  BY DEF Row
<1>1. rows' \in [Backup -> Row]
  BY <1>0 DEF completeBackup
<1>2. RowsOK'
  BY DEF completeBackup, RowsOK, Row
<1>3. proc' \in [Slot \cup {Daily} -> Proc]
  <2>1. CASE UNCHANGED proc
    BY <2>1
  <2>2. ASSUME NEW p \in Slot, rows[b].conn # None,
               proc' = [proc EXCEPT ![p] =
                   [Idle EXCEPT !.pc = "caps",
                        !.groups = {[conn  |-> rows[b].conn, owner |-> rows[b].owner]}]]
        PROVE  proc' \in [Slot \cup {Daily} -> Proc]
    <3>1. [conn  |-> rows[b].conn, owner |-> rows[b].owner] \in Group
      BY <2>2 DEF RowsOK, Row, Group
    <3>2. [Idle EXCEPT !.pc = "caps",
              !.groups = {[conn  |-> rows[b].conn, owner |-> rows[b].owner]}] \in Proc
      BY <3>1, IdleType DEF Proc
    <3> QED
      BY <2>2, <3>2
  <2> QED
    BY <2>1, <2>2 DEF completeBackup
<1> QED
  BY <1>1, <1>2, <1>3 DEF completeBackup

LEMMA StepType == ASSUME TypeInv, NEW p \in Procs, step(p) PROVE TypeInv'
<1> USE DEF TypeInv, TypeOK, data, settings
<1>0. proc[p] \in Proc /\ p \in Slot \cup {Daily}
  BY DEF Procs
<1>1. CASE readCaps(p)
  <2>1. [proc[p] EXCEPT !.pc = "next", !.caps = cap] \in Proc
    <3>1. cap \in [User -> Caps \cup {Unlimited}]
      OBVIOUS
    <3> QED
      BY <1>0, <3>1 DEF Proc
  <2>2. proc' = [proc EXCEPT ![p] = [proc[p] EXCEPT !.pc = "next", !.caps = cap]]
    BY <1>1 DEF readCaps
  <2>3. proc' \in [Slot \cup {Daily} -> Proc]
    BY <1>0, <2>1, <2>2
  <2> QED
    BY <1>1, <2>3 DEF readCaps, RowsOK
<1>2. CASE nextGroup(p)
  <2>1. PICK g \in proc[p].groups :
          LET rules == getRetentionPolicy(g.conn, proc[p].caps[g.owner], sched)
          IN  proc' = [proc EXCEPT
                 ![p].groups = @ \ {g},
                 ![p].pc = IF rules.days = 0 /\ rules.count = 0 THEN "next" ELSE "age",
                 ![p].group = g.conn,
                 ![p].rules = rules]
    BY <1>2 DEF nextGroup
  <2> DEFINE rules == getRetentionPolicy(g.conn, proc[p].caps[g.owner], sched)
  <2>2. g \in Group
    BY <1>0, <2>1 DEF Proc
  <2>3. proc[p].caps[g.owner] \in Caps \cup {Unlimited}
    BY <1>0, <2>2 DEF Proc, Group
  <2>4. CapCovers(proc[p].caps[g.owner], proc[p].caps[g.owner])
    <3>1. \A v \in Caps \cup {Unlimited} : v # Unlimited => v \in Nat /\ v <= v
      BY RulesAssumption
    <3> QED
      BY <2>3, <3>1 DEF CapCovers
  <2>5. rules \in Rules
    BY <2>3, <2>4, PolicyTighter DEF Schedules
  <2> HIDE DEF rules
  <2>6. [proc[p] EXCEPT !.groups = @ \ {g},
                        !.pc = IF rules.days = 0 /\ rules.count = 0 THEN "next" ELSE "age",
                        !.group = g.conn, !.rules = rules] \in Proc
    BY <1>0, <2>2, <2>5 DEF Proc, Group
  <2>7. proc' \in [Slot \cup {Daily} -> Proc]
    BY <1>0, <2>1, <2>6 DEF rules
  <2> QED
    BY <1>2, <2>7 DEF nextGroup, RowsOK
<1>3. CASE endSweep(p)
  BY <1>0, <1>3, IdleType DEF endSweep, RowsOK
<1>4. CASE selectByAge(p)
  <2>1. [proc[p] EXCEPT !.pc = "count",
            !.del = {b \in Completed(proc[p].group) : Aged(b, proc[p].rules.days)}] \in Proc
    BY <1>0 DEF Proc, Completed
  <2>2. proc' = [proc EXCEPT ![p] = [proc[p] EXCEPT !.pc = "count",
            !.del = {b \in Completed(proc[p].group) : Aged(b, proc[p].rules.days)}]]
    BY <1>4 DEF selectByAge
  <2>3. proc' \in [Slot \cup {Daily} -> Proc]
    BY <1>0, <2>1, <2>2
  <2> QED
    BY <1>4, <2>3 DEF selectByAge, RowsOK
<1>5. CASE selectByCount(p)
  <2> DEFINE all == Completed(proc[p].group)
             del == proc[p].del \cup {b \in all : Surplus(b, all, proc[p].rules.count)}
  <2>1. del \subseteq Backup
    BY <1>0 DEF Proc, Completed
  <2>2. proc' = [proc EXCEPT ![p] = [proc[p] EXCEPT
            !.pc = IF del = {} THEN "next" ELSE "artifacts", !.del = del, !.todo = del]]
    BY <1>5 DEF selectByCount
  <2> HIDE DEF del
  <2>3. [proc[p] EXCEPT !.pc = IF del = {} THEN "next" ELSE "artifacts",
                        !.del = del, !.todo = del] \in Proc
    BY <1>0, <2>1 DEF Proc
  <2>4. proc' \in [Slot \cup {Daily} -> Proc]
    BY <1>0, <2>2, <2>3
  <2> QED
    BY <1>5, <2>4 DEF selectByCount, RowsOK
<1>6. CASE deleteArtifact(p)
  <2>1. PICK b \in proc[p].todo :
          /\ proc' = [proc EXCEPT
                ![p].todo = @ \ {b},
                ![p].pc = IF proc[p].todo = {b} THEN "rows" ELSE "artifacts"]
          /\ files' \in {files, files \ {b}}
    BY <1>6 DEF deleteArtifact
  <2>2. [proc[p] EXCEPT !.todo = @ \ {b},
                        !.pc = IF proc[p].todo = {b} THEN "rows" ELSE "artifacts"] \in Proc
    BY <1>0 DEF Proc
  <2>3. proc' \in [Slot \cup {Daily} -> Proc]
    BY <1>0, <2>1, <2>2
  <2> QED
    BY <1>6, <2>1, <2>3 DEF deleteArtifact, RowsOK
<1>7. CASE deleteRows(p)
  <2>0. \A b \in Backup : [rows[b] EXCEPT !.status = "purged"] \in Row
    BY DEF Row
  <2>1. rows' \in [Backup -> Row]
    BY <1>7, <2>0 DEF deleteRows
  <2>2. RowsOK'
    BY <1>7 DEF deleteRows, RowsOK, Row
  <2>3. [proc[p] EXCEPT !.pc = "next", !.del = {}] \in Proc
    BY <1>0 DEF Proc
  <2>4. proc' = [proc EXCEPT ![p] = [proc[p] EXCEPT !.pc = "next", !.del = {}]]
    BY <1>7 DEF deleteRows
  <2> QED
    BY <1>0, <1>7, <2>1, <2>2, <2>3, <2>4 DEF deleteRows
<1> QED
  BY <1>1, <1>2, <1>3, <1>4, <1>5, <1>6, <1>7 DEF step

LEMMA TypeStep == TypeInv /\ [Next]_vars => TypeInv'
<1> SUFFICES ASSUME TypeInv, [Next]_vars PROVE TypeInv'
  OBVIOUS
<1>1. CASE crash
  BY <1>1, IdleType DEF crash, TypeInv, TypeOK, data, settings, RowsOK
<1>2. CASE UNCHANGED vars
  BY <1>2 DEF vars, TypeInv, TypeOK, data, settings, RowsOK
<1> QED
  BY <1>1, <1>2, NextCases, RequestType, BeginType, CompleteType, StepType

\* Every variable of retention keeps its type (retention.service.ts).
THEOREM TypeCorrect == Spec => []TypeOK
<1>1. TypeInv => TypeOK
  BY DEF TypeInv
<1> QED
  BY TypeInit, TypeStep, <1>1, PTL DEF Spec

-----------------------------------------------------------------------------
(* The inductive invariant.                                                *)

\* NeverTooSoon's condition: the strictest rules ever take b.
Chosen(b) ==
    LET s == strict[rows[b].conn] IN
    \/ Aged(b, s.days)
    \/ Surplus(b, EverCompleted(rows[b].conn), s.count)

\* The owner a run takes a connection for is its owner.
GroupsOK == \A p \in Procs : \A g \in proc[p].groups :
    g.conn \in Conn => g.owner = Owner[g.conn]

\* No cap is, or was when a run read it, lower than the lowest there ever was.
CapsOK == \A u \in User :
    /\ CapCovers(lowest[u], cap[u])
    /\ \A p \in Procs : proc[p].pc \notin {"idle", "caps"} =>
          CapCovers(lowest[u], proc[p].caps[u])

\* The strictest rules cover those in force, under the lowest cap.
StrictOK == \A c \in Conn :
    CoversRules(strict[c], getRetentionPolicy(c, lowest[Owner[c]], sched))

\* They cover the rules a run works with.
RulesOK == \A p \in Procs :
    proc[p].group \in Conn => CoversRules(strict[proc[p].group], proc[p].rules)

\* What a run is about to delete.
DelOK == \A p \in Procs : \A b \in proc[p].del :
    /\ rows[b].status # "absent"
    /\ rows[b].conn \in conns => Chosen(b)

RetentionInv ==
    /\ TypeInv /\ GroupsOK /\ CapsOK /\ StrictOK /\ RulesOK
    /\ DelOK /\ NeverTooSoon

-----------------------------------------------------------------------------
(* What every step does to the past.                                       *)

Done == {"COMPLETED", "purged", "removed"}

\* Days pass, connections only go, the strictest rules become stricter, and a backup
\* keeps its age, what it has reached and, while that exists, its connection.
Onward ==
    /\ now <= now' /\ conns' \subseteq conns
    /\ \A c \in Conn : CoversRules(strict'[c], strict[c])
    /\ \A b \in Backup : rows[b].status # "absent" =>
          /\ rows'[b].status # "absent" /\ rows'[b].born = rows[b].born
          /\ rows'[b].conn \in {rows[b].conn, None}
          /\ rows[b].conn \in conns' => rows'[b].conn = rows[b].conn
          /\ rows[b].status \in Done => rows'[b].status \in Done

LEMMA CoversItself == \A r \in Rules : CoversRules(r, r)
  BY DEF Rules, CoversRules, Covers

LEMMA CoversAll ==
    ASSUME NEW r \in Rules, NEW q \in Rules, NEW t \in Rules,
           CoversRules(r, q), CoversRules(q, t)
    PROVE  CoversRules(r, t)
  BY DEF Rules, CoversRules, Covers

\* The rows alone.
RowsOnward == \A b \in Backup : rows[b].status # "absent" =>
    /\ rows'[b].status # "absent" /\ rows'[b].born = rows[b].born
    /\ rows'[b].conn \in {rows[b].conn, None}
    /\ rows[b].conn \in conns' => rows'[b].conn = rows[b].conn
    /\ rows[b].status \in Done => rows'[b].status \in Done

LEMMA OnwardStep == ASSUME TypeInv, [Next]_vars PROVE Onward
<1> USE DEF TypeInv, TypeOK
<1>1. strict' = strict => \A c \in Conn : CoversRules(strict'[c], strict[c])
  BY CoversItself
<1>2. ASSUME UNCHANGED <<rows, settings, now>> PROVE Onward
  BY <1>1, <1>2 DEF Onward, settings
<1>3. ASSUME UNCHANGED <<settings, now>>, RowsOnward PROVE Onward
  BY <1>1, <1>3 DEF Onward, RowsOnward, settings
<1>4. ASSUME UNCHANGED <<rows, conns, now>>,
             \A c \in Conn : CoversRules(strict'[c], strict[c])
      PROVE  Onward
  BY <1>4 DEF Onward
<1>5. CASE request
  <2>1. CASE tick
    BY <1>1, <2>1 DEF tick, Onward, data, settings
  <2>2. ASSUME NEW b \in Backup, NEW c \in Conn, createBackup(b, c) PROVE Onward
    BY <1>3, <2>2 DEF createBackup, RowsOnward, settings
  <2>3. ASSUME NEW b \in Backup, deleteBackup(b) PROVE Onward
    BY <1>3, <2>3 DEF deleteBackup, RowsOnward, Done, Row, settings
  <2>4. ASSUME NEW c \in Conn, deleteConnection(c) PROVE Onward
    <3>1. sched' \in Schedules
      BY <2>4 DEF deleteConnection, Schedules, NoSchedule
    <3>2. \A d \in Conn : CoversRules(strict'[d], strict[d])
      BY <2>4, <3>1, TightenedRules DEF deleteConnection
    <3>3. RowsOnward
      BY <2>4 DEF deleteConnection, RowsOnward, Done, Row
    <3> QED
      BY <2>4, <3>2, <3>3 DEF deleteConnection, Onward, RowsOnward
  <2>5. ASSUME NEW s \in Schedule, NEW c \in Conn, NEW d \in Days, NEW n \in Counts,
               createSchedule(s, c, d, n)
        PROVE  Onward
    <3>1. n \in Nat /\ (IF d = 0 THEN DefaultDays ELSE d) \in Nat
      BY RulesAssumption
    <3>2. sched' \in Schedules
      BY <2>5, <3>1 DEF createSchedule, Schedules
    <3> QED
      BY <1>4, <2>5, <3>2, TightenedRules DEF createSchedule, data
  <2>6. ASSUME NEW s \in Schedule, NEW d \in Days \cup {None}, NEW n \in Counts,
               updateSchedule(s, d, n)
        PROVE  Onward
    <3>1. n \in Nat /\ (d # None => d \in Nat)
      BY RulesAssumption
    <3>2. sched' \in Schedules
      BY <2>6, <3>1 DEF updateSchedule, Schedules
    <3> QED
      BY <1>4, <2>6, <3>2, TightenedRules DEF updateSchedule, data
  <2>7. ASSUME NEW s \in Schedule, deleteSchedule(s) PROVE Onward
    <3>1. sched' \in Schedules
      BY <2>7 DEF deleteSchedule, Schedules, NoSchedule
    <3> QED
      BY <1>4, <2>7, <3>1, TightenedRules DEF deleteSchedule, data
  <2>8. ASSUME NEW u \in User, NEW max \in Caps, setUserRetentionLimit(u, max) PROVE Onward
    <3>1. lowest' \in [User -> Caps]
      BY <2>8, TypeStep
    <3> QED
      BY <1>4, <2>8, <3>1, TightenedRules DEF setUserRetentionLimit, Schedules, data
  <2> QED
    BY <1>5, <2>1, <2>2, <2>3, <2>4, <2>5, <2>6, <2>7, <2>8 DEF request
<1>6. ASSUME NEW b \in Backup, completeBackup(b) PROVE Onward
  BY <1>3, <1>6 DEF completeBackup, RowsOnward, Done, Row, settings
<1>7. ASSUME NEW p \in Procs, begin(p) PROVE Onward
  BY <1>2, <1>7 DEF begin, runGlobalRetentionSweep, data
<1>8. ASSUME NEW p \in Procs, step(p) PROVE Onward
  <2>1. CASE deleteRows(p)
    BY <1>3, <2>1 DEF deleteRows, RowsOnward, Done, Row
  <2>2. CASE ~deleteRows(p)
    BY <1>2, <1>8, <2>2 DEF step, readCaps, nextGroup, endSweep, selectByAge, selectByCount,
                            deleteArtifact, data
  <2> QED
    BY <2>1, <2>2
<1>9. crash \/ UNCHANGED vars => Onward
  BY <1>2 DEF crash, vars, data
<1> QED
  BY <1>5, <1>6, <1>7, <1>8, <1>9, NextCases

\* A set of backups that grows has at least as many members.
LEMMA MoreBackups ==
    ASSUME NEW S, NEW T, T \subseteq Backup, S \subseteq T
    PROVE  Cardinality(S) \in Nat /\ Cardinality(T) \in Nat /\ Cardinality(S) <= Cardinality(T)
<1>1. IsFiniteSet(T)
  BY FiniteAssumption, FS_Subset
<1>2. IsFiniteSet(S) /\ Cardinality(S) <= Cardinality(T)
  BY <1>1, FS_Subset
<1> QED
  BY <1>1, <1>2, FS_CardinalityType

\* What was chosen stays so.
LEMMA ChosenStays ==
    ASSUME TypeInv, TypeInv', Onward, NEW b \in Backup,
           rows[b].status # "absent", rows'[b].conn \in conns', Chosen(b)
    PROVE  Chosen(b)'
<1> DEFINE c == rows[b].conn
<1>1. c \in Conn /\ c \in conns' /\ rows'[b].conn = c /\ rows'[b].born = rows[b].born
  BY NoneAssumption DEF Onward, TypeInv, TypeOK
<1>2. /\ strict[c] \in Rules /\ strict'[c] \in Rules /\ CoversRules(strict'[c], strict[c])
  BY <1>1 DEF Onward, TypeInv, TypeOK
<1>3. now \in Nat /\ now' \in Nat /\ now <= now' /\ rows[b].born \in Nat
  BY DEF Onward, TypeInv, TypeOK, Row
<1>4. CASE Aged(b, strict[c].days)
  <2>1. Aged(b, strict[c].days)'
    BY <1>1, <1>2, <1>3, <1>4 DEF Aged, Rules, CoversRules, Covers
  <2> QED
    BY <1>1, <2>1 DEF Chosen
<1>5. CASE Surplus(b, EverCompleted(c), strict[c].count)
  <2> DEFINE S == Newer(b, EverCompleted(c))
             T == {x \in Backup : /\ rows'[x].status \in Done /\ rows'[x].conn = c
                                  /\ rows'[x].born > rows'[b].born}
  <2>1. S \subseteq T
    BY <1>1 DEF Newer, EverCompleted, Onward, Done
  <2>2. T \subseteq Backup
    OBVIOUS
  <2>3. Newer(b, EverCompleted(c))' = T
    BY <1>1 DEF Newer, EverCompleted, Done
  <2> HIDE DEF S, T
  <2>4. Cardinality(S) \in Nat /\ Cardinality(T) \in Nat /\ Cardinality(S) <= Cardinality(T)
    BY <2>1, <2>2, MoreBackups
  <2>5. strict[c].count > 0 /\ Cardinality(S) >= strict[c].count
    BY <1>5 DEF Surplus, S
  <2>6. strict'[c].count > 0 /\ Cardinality(T) >= strict'[c].count
    BY <1>2, <2>4, <2>5 DEF Rules, CoversRules, Covers
  <2> QED
    BY <1>1, <2>3, <2>6 DEF Chosen, Surplus
<1> QED
  BY <1>4, <1>5 DEF Chosen

-----------------------------------------------------------------------------
(* What a step does to a run.                                              *)

OwnGroups(groups) == \A g \in groups : g.conn \in Conn => g.owner = Owner[g.conn]

\* The rules of the run take b.
Picked(p, b) ==
    /\ b \in Completed(proc[p].group)
    /\ \/ Aged(b, proc[p].rules.days)
       \/ Surplus(b, Completed(proc[p].group), proc[p].rules.count)

Stays(p) == proc'[p] = proc[p]

\* It begins, or is over.
Renewed(p) ==
    /\ proc'[p].pc \in {"idle", "caps"} /\ proc'[p].group = None /\ proc'[p].del = {}
    /\ OwnGroups(proc'[p].groups)

ReadsCaps(p) ==
    /\ proc'[p] = [proc[p] EXCEPT !.pc = "next", !.caps = cap]
    /\ UNCHANGED settings

ReadsRules(p) ==
    /\ proc[p].pc \notin {"idle", "caps"}
    /\ \E g \in proc[p].groups :
          /\ proc'[p].groups \subseteq proc[p].groups
          /\ proc'[p].caps = proc[p].caps /\ proc'[p].del = proc[p].del
          /\ proc'[p].group = g.conn
          /\ proc'[p].rules = getRetentionPolicy(g.conn, proc[p].caps[g.owner], sched)
    /\ UNCHANGED settings

Works(p) ==
    /\ proc[p].pc \notin {"idle", "caps"}
    /\ proc'[p].groups = proc[p].groups /\ proc'[p].caps = proc[p].caps
    /\ proc'[p].group = proc[p].group /\ proc'[p].rules = proc[p].rules
    /\ \A b \in proc'[p].del :
          b \in proc[p].del \/ (Picked(p, b) /\ UNCHANGED rows)
    /\ UNCHANGED settings

Moves(p) == Stays(p) \/ Renewed(p) \/ ReadsCaps(p) \/ ReadsRules(p) \/ Works(p)

LEMMA IdleRenewed == ASSUME NEW p \in Procs, proc'[p] = Idle PROVE Moves(p)
  BY DEF Moves, Renewed, Idle, OwnGroups

\* A step of one run, and what it does to that run.
LEMMA StepMoves == ASSUME TypeInv, NEW p \in Procs, step(p) PROVE Moves(p)
<1> USE DEF TypeInv, TypeOK
<1>0. proc[p] \in Proc /\ p \in Slot \cup {Daily}
  BY DEF Procs
<1>1. CASE readCaps(p)
  <2>1. ReadsCaps(p)
    BY <1>0, <1>1 DEF readCaps, ReadsCaps, Proc
  <2> QED
    BY <2>1 DEF Moves
<1>2. CASE nextGroup(p)
  <2>1. PICK g \in proc[p].groups :
          LET rules == getRetentionPolicy(g.conn, proc[p].caps[g.owner], sched)
          IN  proc' = [proc EXCEPT
                 ![p].groups = @ \ {g},
                 ![p].pc = IF rules.days = 0 /\ rules.count = 0 THEN "next" ELSE "age",
                 ![p].group = g.conn,
                 ![p].rules = rules]
    BY <1>2 DEF nextGroup
  <2> DEFINE rules == getRetentionPolicy(g.conn, proc[p].caps[g.owner], sched)
             pc == IF rules.days = 0 /\ rules.count = 0 THEN "next" ELSE "age"
  <2>2. proc' = [proc EXCEPT ![p].groups = @ \ {g}, ![p].pc = pc,
                             ![p].group = g.conn, ![p].rules = rules]
    BY <2>1
  <2> HIDE DEF rules, pc
  <2>3. /\ proc'[p].groups = proc[p].groups \ {g} /\ proc'[p].caps = proc[p].caps
        /\ proc'[p].del = proc[p].del /\ proc'[p].group = g.conn /\ proc'[p].rules = rules
    BY <1>0, <2>2 DEF Proc
  <2>4. ReadsRules(p)
    BY <1>2, <2>3 DEF nextGroup, ReadsRules, rules
  <2> QED
    BY <2>4 DEF Moves
<1>3. CASE endSweep(p)
  BY <1>0, <1>3, IdleRenewed DEF endSweep
<1>4. CASE selectByAge(p)
  <2> DEFINE del == {b \in Completed(proc[p].group) : Aged(b, proc[p].rules.days)}
  <2>1. proc' = [proc EXCEPT ![p].pc = "count", ![p].del = del]
    BY <1>4 DEF selectByAge
  <2>2. \A b \in del : Picked(p, b)
    BY DEF Picked
  <2> HIDE DEF del
  <2>3. /\ proc'[p].groups = proc[p].groups /\ proc'[p].caps = proc[p].caps
        /\ proc'[p].group = proc[p].group /\ proc'[p].rules = proc[p].rules
        /\ proc'[p].del = del
    BY <1>0, <2>1 DEF Proc
  <2>4. Works(p)
    BY <1>4, <2>2, <2>3 DEF selectByAge, Works, data
  <2> QED
    BY <2>4 DEF Moves
<1>5. CASE selectByCount(p)
  <2> DEFINE all == Completed(proc[p].group)
             del == proc[p].del \cup {b \in all : Surplus(b, all, proc[p].rules.count)}
             pc == IF del = {} THEN "next" ELSE "artifacts"
  <2>1. proc' = [proc EXCEPT ![p].pc = pc, ![p].del = del, ![p].todo = del]
    BY <1>5 DEF selectByCount
  <2>2. \A b \in del : b \in proc[p].del \/ Picked(p, b)
    BY DEF Picked
  <2> HIDE DEF del, pc
  <2>3. /\ proc'[p].groups = proc[p].groups /\ proc'[p].caps = proc[p].caps
        /\ proc'[p].group = proc[p].group /\ proc'[p].rules = proc[p].rules
        /\ proc'[p].del = del
    BY <1>0, <2>1 DEF Proc
  <2>4. Works(p)
    BY <1>5, <2>2, <2>3 DEF selectByCount, Works, data
  <2> QED
    BY <2>4 DEF Moves
<1>6. CASE deleteArtifact(p)
  <2>1. PICK b \in proc[p].todo :
          proc' = [proc EXCEPT
                ![p].todo = @ \ {b},
                ![p].pc = IF proc[p].todo = {b} THEN "rows" ELSE "artifacts"]
    BY <1>6 DEF deleteArtifact
  <2>2. /\ proc'[p].groups = proc[p].groups /\ proc'[p].caps = proc[p].caps
        /\ proc'[p].group = proc[p].group /\ proc'[p].rules = proc[p].rules
        /\ proc'[p].del = proc[p].del
    BY <1>0, <2>1 DEF Proc
  <2>3. Works(p)
    BY <1>6, <2>2 DEF deleteArtifact, Works
  <2> QED
    BY <2>3 DEF Moves
<1>7. CASE deleteRows(p)
  <2>1. /\ proc'[p].groups = proc[p].groups /\ proc'[p].caps = proc[p].caps
        /\ proc'[p].group = proc[p].group /\ proc'[p].rules = proc[p].rules
        /\ proc'[p].del = {}
    BY <1>0, <1>7 DEF Proc, deleteRows
  <2>2. Works(p)
    BY <1>7, <2>1 DEF deleteRows, Works
  <2> QED
    BY <2>2 DEF Moves
<1> QED
  BY <1>1, <1>2, <1>3, <1>4, <1>5, <1>6, <1>7 DEF step

\* The other runs stay as they are.
LEMMA OthersStay ==
    ASSUME TypeInv, NEW p \in Procs, NEW q \in Procs, q # p, step(p) \/ begin(p)
    PROVE  Stays(q)
  BY DEF TypeInv, TypeOK, Procs, Stays, step, begin, runGlobalRetentionSweep, readCaps, nextGroup,
         endSweep, selectByAge, selectByCount, deleteArtifact, deleteRows

\* A run that begins takes the owner of a backup for the owner of its connection.
LEMMA BeginMoves == ASSUME TypeInv, NEW p \in Procs, begin(p) PROVE Moves(p)
<1> USE DEF TypeInv, TypeOK
<1>1. PICK user \in User \cup {None} : runGlobalRetentionSweep(p, user)
  BY DEF begin
<1> DEFINE seen == {b \in Backup : /\ rows[b].status = "COMPLETED"
                                   /\ user = None \/ rows[b].owner = user}
           group(b) == [conn |-> rows[b].conn, owner |-> rows[b].owner]
<1>2. OwnGroups({group(b) : b \in seen})
  BY NoneAssumption DEF RowsOK, OwnGroups
<1>3. PICK groups \in SUBSET {group(b) : b \in seen} :
         proc' = [proc EXCEPT ![p] = [Idle EXCEPT !.pc = "caps", !.user = user,
                                                  !.groups = groups]]
  BY <1>1 DEF runGlobalRetentionSweep
<1>4. OwnGroups(groups)
  BY <1>2, <1>3 DEF OwnGroups
<1> HIDE DEF seen, group
<1>5. Renewed(p)
  BY <1>3, <1>4 DEF Procs, Renewed, Idle
<1> QED
  BY <1>5 DEF Moves

LEMMA CompleteMoves ==
    ASSUME TypeInv, NEW b \in Backup, completeBackup(b), NEW q \in Procs
    PROVE  Moves(q)
<1> USE DEF TypeInv, TypeOK
<1>1. CASE UNCHANGED proc
  BY <1>1 DEF Moves, Stays
<1>2. ASSUME NEW p \in Slot, rows[b].conn # None,
             proc' = [proc EXCEPT ![p] =
                 [Idle EXCEPT !.pc = "caps",
                      !.groups = {[conn  |-> rows[b].conn, owner |-> rows[b].owner]}]]
      PROVE  Moves(q)
  <2>1. CASE q = p
    <3>1. OwnGroups({[conn  |-> rows[b].conn, owner |-> rows[b].owner]})
      BY <1>2 DEF RowsOK, OwnGroups
    <3>2. Renewed(p)
      BY <1>2, <3>1 DEF Procs, Renewed, Idle
    <3> QED
      BY <2>1, <3>2 DEF Moves
  <2>2. CASE q # p
    BY <1>2, <2>2 DEF Moves, Stays, Procs
  <2> QED
    BY <2>1, <2>2
<1> QED
  BY <1>1, <1>2 DEF completeBackup

LEMMA NextMoves == ASSUME TypeInv, [Next]_vars, NEW q \in Procs PROVE Moves(q)
<1>1. CASE request
  BY <1>1 DEF request, tick, createBackup, deleteBackup, deleteConnection, createSchedule,
              updateSchedule, deleteSchedule, setUserRetentionLimit, Moves, Stays
<1>2. ASSUME NEW p \in Procs, begin(p) \/ step(p) PROVE Moves(q)
  <2>1. CASE q = p
    BY <1>2, <2>1, BeginMoves, StepMoves
  <2>2. CASE q # p
    BY <1>2, <2>2, OthersStay DEF Moves
  <2> QED
    BY <2>1, <2>2
<1>3. CASE crash
  BY <1>3, IdleRenewed DEF crash, Procs
<1>4. CASE UNCHANGED vars
  BY <1>4 DEF vars, Moves, Stays
<1> QED
  BY <1>1, <1>2, <1>3, <1>4, CompleteMoves, NextCases

-----------------------------------------------------------------------------
(* The invariant holds.                                                    *)

LEMMA CapCoversItself == \A v \in Caps \cup {Unlimited} : CapCovers(v, v)
<1>1. \A v \in Caps \cup {Unlimited} : v # Unlimited => v \in Nat
  BY RulesAssumption
<1> QED
  BY <1>1 DEF CapCovers

\* The lowest of a cap and a new one.
LEMMA LowestCovers ==
    ASSUME NEW old \in Caps, NEW max \in Caps
    PROVE  LET low == IF old = Unlimited THEN max ELSE Clamp(old, max)
           IN  CapCovers(low, old) /\ CapCovers(low, max)
<1>1. /\ old # Unlimited => old \in Nat \ {0}
      /\ max # Unlimited => max \in Nat \ {0}
  BY RulesAssumption
<1>2. CASE old = Unlimited
  BY <1>2, CapCoversItself DEF CapCovers
<1>3. CASE old # Unlimited /\ max = Unlimited
  BY <1>3, CapCoversItself DEF Clamp, CapCovers
<1>4. CASE old # Unlimited /\ max # Unlimited
  <2>1. Clamp(old, max) = Strictest({old, max})
    BY <1>1, <1>4 DEF Clamp
  <2>2. /\ Strictest({old, max}) \in {old, max}
        /\ Covers(Strictest({old, max}), old) /\ Covers(Strictest({old, max}), max)
    BY <1>1, <1>4, StrictestOfTwo
  <2> QED
    BY <1>1, <1>4, <2>1, <2>2, RulesAssumption DEF Covers, CapCovers
<1> QED
  BY <1>2, <1>3, <1>4

LEMMA CapCoversAll ==
    ASSUME NEW x \in Caps \cup {Unlimited}, NEW y \in Caps \cup {Unlimited},
           NEW z \in Caps \cup {Unlimited}, CapCovers(x, y), CapCovers(y, z)
    PROVE  CapCovers(x, z)
<1>1. \A v \in Caps \cup {Unlimited} : v # Unlimited => v \in Nat
  BY RulesAssumption
<1> QED
  BY <1>1 DEF CapCovers

LEMMA RetentionInit == Init => RetentionInv
<1> SUFFICES ASSUME Init PROVE RetentionInv
  OBVIOUS
<1>1. TypeInv
  BY TypeInit
<1>2. GroupsOK /\ RulesOK /\ DelOK
  BY NoneAssumption DEF Init, GroupsOK, RulesOK, DelOK, Procs, Idle
<1>3. CapsOK
  BY CapCoversItself DEF Init, CapsOK, Procs, Idle
<1>4. StrictOK
  <2>1. \A c \in Conn : getRetentionPolicy(c, lowest[Owner[c]], sched) = envDefaultRetention
    BY NoneAssumption DEF Init, getRetentionPolicy, schedulesOf, NoSchedule
  <2>2. envDefaultRetention \in Rules
    BY RulesAssumption DEF envDefaultRetention, Rules
  <2> QED
    BY <2>1, <2>2, CoversItself DEF Init, StrictOK
<1>5. NeverTooSoon
  BY DEF Init, NeverTooSoon, NoRow
<1> QED
  BY <1>1, <1>2, <1>3, <1>4, <1>5 DEF RetentionInv

LEMMA GroupsStep == ASSUME TypeInv, GroupsOK, \A p \in Procs : Moves(p) PROVE GroupsOK'
<1> SUFFICES ASSUME NEW p \in Procs PROVE OwnGroups(proc'[p].groups)
  BY DEF GroupsOK, OwnGroups
<1>1. OwnGroups(proc[p].groups) /\ Moves(p) /\ proc[p] \in Proc
  BY DEF GroupsOK, OwnGroups, TypeInv, TypeOK, Procs
<1>2. proc'[p].groups \subseteq proc[p].groups \/ OwnGroups(proc'[p].groups)
  BY <1>1 DEF Moves, Stays, Renewed, ReadsCaps, ReadsRules, Works, Proc
<1> QED
  BY <1>1, <1>2 DEF OwnGroups

\* Caps are read as they are; the lowest only sinks.
LEMMA CapsStep ==
    ASSUME TypeInv, [Next]_vars, CapsOK, \A p \in Procs : Moves(p)
    PROVE  CapsOK'
<1> USE DEF TypeInv, TypeOK
<1> SUFFICES ASSUME NEW u \in User
             PROVE  /\ CapCovers(lowest'[u], cap'[u])
                    /\ \A p \in Procs : proc'[p].pc \notin {"idle", "caps"} =>
                          CapCovers(lowest'[u], proc'[p].caps[u])
  BY DEF CapsOK
<1>1. /\ CapCovers(lowest[u], cap[u])
      /\ \A p \in Procs : proc[p].pc \notin {"idle", "caps"} =>
            CapCovers(lowest[u], proc[p].caps[u])
  BY DEF CapsOK
<1>2. ASSUME NEW v \in User, NEW max \in Caps, setUserRetentionLimit(v, max)
      PROVE  /\ CapCovers(lowest'[u], cap'[u])
             /\ \A p \in Procs : proc'[p].pc \notin {"idle", "caps"} =>
                   CapCovers(lowest'[u], proc'[p].caps[u])
  <2>1. CASE u # v
    BY <1>1, <1>2, <2>1 DEF setUserRetentionLimit
  <2>2. CASE u = v
    <3>1. lowest'[u] = (IF lowest[u] = Unlimited THEN max ELSE Clamp(lowest[u], max))
          /\ cap'[u] = max /\ proc' = proc
      BY <1>2, <2>2 DEF setUserRetentionLimit
    <3>2. CapCovers(lowest'[u], lowest[u]) /\ CapCovers(lowest'[u], cap'[u])
      BY <3>1, LowestCovers
    <3>3. lowest'[u] \in Caps
      BY TypeStep
    <3>4. \A p \in Procs : proc[p].caps[u] \in Caps \cup {Unlimited}
      BY DEF Procs, Proc
    <3> QED
      BY <1>1, <3>1, <3>2, <3>3, <3>4, CapCoversAll
  <2> QED
    BY <2>1, <2>2
<1>3. ASSUME UNCHANGED <<cap, lowest>>
      PROVE  /\ CapCovers(lowest'[u], cap'[u])
             /\ \A p \in Procs : proc'[p].pc \notin {"idle", "caps"} =>
                   CapCovers(lowest'[u], proc'[p].caps[u])
  <2> SUFFICES ASSUME NEW p \in Procs, proc'[p].pc \notin {"idle", "caps"}
               PROVE  CapCovers(lowest[u], proc'[p].caps[u])
    BY <1>1, <1>3
  <2>1. /\ proc[p] \in Proc /\ Moves(p)
    BY DEF Procs
  <2>2. CASE ReadsCaps(p)
    BY <1>1, <2>1, <2>2 DEF ReadsCaps, Proc
  <2>3. CASE ~ReadsCaps(p)
    BY <1>1, <2>1, <2>3 DEF Moves, Stays, Renewed, ReadsRules, Works
  <2> QED
    BY <2>2, <2>3
<1>4. ASSUME ~ \E v \in User, max \in Caps : setUserRetentionLimit(v, max)
      PROVE  UNCHANGED <<cap, lowest>>
  <2>1. CASE request
    BY <1>4, <2>1 DEF request, settings, tick, createBackup, deleteBackup, deleteConnection,
                      createSchedule, updateSchedule, deleteSchedule
  <2>2. ASSUME NEW b \in Backup, completeBackup(b) PROVE UNCHANGED <<cap, lowest>>
    BY <2>2 DEF completeBackup, settings
  <2>3. ASSUME NEW p \in Procs, begin(p) PROVE UNCHANGED <<cap, lowest>>
    BY <2>3 DEF begin, runGlobalRetentionSweep, settings
  <2>4. ASSUME NEW p \in Procs, step(p) PROVE UNCHANGED <<cap, lowest>>
    BY <2>4 DEF step, readCaps, nextGroup, endSweep, selectByAge, selectByCount, deleteArtifact,
                deleteRows, settings
  <2>5. CASE crash \/ UNCHANGED vars
    BY <2>5 DEF crash, vars, settings
  <2> QED
    BY <2>1, <2>2, <2>3, <2>4, <2>5, NextCases
<1> QED
  BY <1>2, <1>3, <1>4

\* Every change of the settings tightens the strictest rules.
LEMMA StrictStep == ASSUME TypeInv, [Next]_vars, StrictOK PROVE StrictOK'
<1>1. UNCHANGED <<sched, lowest, strict>> \/ strict' = Tightened(sched', lowest')
  <2>1. CASE request
    BY <2>1 DEF request, settings, tick, createBackup, deleteBackup, deleteConnection,
                createSchedule, updateSchedule, deleteSchedule, setUserRetentionLimit
  <2>2. ASSUME NEW b \in Backup, completeBackup(b) PROVE UNCHANGED <<sched, lowest, strict>>
    BY <2>2 DEF completeBackup, settings
  <2>3. ASSUME NEW p \in Procs, begin(p) PROVE UNCHANGED <<sched, lowest, strict>>
    BY <2>3 DEF begin, runGlobalRetentionSweep, settings
  <2>4. ASSUME NEW p \in Procs, step(p) PROVE UNCHANGED <<sched, lowest, strict>>
    BY <2>4 DEF step, readCaps, nextGroup, endSweep, selectByAge, selectByCount, deleteArtifact,
                deleteRows, settings
  <2>5. CASE crash \/ UNCHANGED vars
    BY <2>5 DEF crash, vars, settings
  <2> QED
    BY <2>1, <2>2, <2>3, <2>4, <2>5, NextCases
<1>2. strict \in [Conn -> Rules] /\ sched' \in Schedules /\ lowest' \in [User -> Caps]
  BY TypeStep DEF TypeInv, TypeOK, Schedules
<1>3. CASE UNCHANGED <<sched, lowest, strict>>
  BY <1>3 DEF StrictOK
<1>4. CASE strict' = Tightened(sched', lowest')
  BY <1>2, <1>4, TightenedRules DEF StrictOK
<1> QED
  BY <1>1, <1>3, <1>4

\* The rules a run reads are covered by the strictest; these only become stricter.
LEMMA RulesStep ==
    ASSUME TypeInv, TypeInv', Onward, GroupsOK, CapsOK, StrictOK, RulesOK,
           \A p \in Procs : Moves(p)
    PROVE  RulesOK'
<1> SUFFICES ASSUME NEW p \in Procs, proc'[p].group \in Conn
             PROVE  CoversRules(strict'[proc'[p].group], proc'[p].rules)
  BY DEF RulesOK
<1> DEFINE c == proc'[p].group
<1>1. /\ strict[c] \in Rules /\ strict'[c] \in Rules /\ CoversRules(strict'[c], strict[c])
      /\ proc[p] \in Proc /\ proc'[p] \in Proc /\ Moves(p)
  BY DEF TypeInv, TypeOK, Onward, Procs
<1>2. CoversRules(strict[c], proc'[p].rules)
  <2>1. CASE ReadsRules(p)
    <3>1. PICK g \in proc[p].groups :
             /\ c = g.conn
             /\ proc'[p].rules = getRetentionPolicy(g.conn, proc[p].caps[g.owner], sched)
      BY <2>1 DEF ReadsRules
    <3>2. g.owner = Owner[c] /\ Owner[c] \in User
      BY <3>1, OwnerAssumption DEF GroupsOK
    <3>3. /\ lowest[Owner[c]] \in Caps \cup {Unlimited}
          /\ proc[p].caps[Owner[c]] \in Caps \cup {Unlimited}
          /\ CapCovers(lowest[Owner[c]], proc[p].caps[Owner[c]])
      BY <1>1, <2>1, <3>2 DEF TypeInv, TypeOK, Proc, CapsOK, ReadsRules
    <3>4. sched \in Schedules
      BY DEF TypeInv, TypeOK, Schedules
    <3> DEFINE low == getRetentionPolicy(c, lowest[Owner[c]], sched)
               read == getRetentionPolicy(c, proc[p].caps[Owner[c]], sched)
    <3>5. low \in Rules /\ read \in Rules /\ CoversRules(low, read)
      BY <3>3, <3>4, PolicyTighter
    <3>6. CoversRules(strict[c], low)
      BY DEF StrictOK
    <3> HIDE DEF low
    <3>7. CoversRules(strict[c], read)
      BY <1>1, <3>5, <3>6, CoversAll
    <3> QED
      BY <3>1, <3>2, <3>7
  <2>2. CASE Stays(p) \/ ReadsCaps(p) \/ Works(p)
    <3>1. proc'[p].group = proc[p].group /\ proc'[p].rules = proc[p].rules
      BY <1>1, <2>2 DEF Stays, ReadsCaps, Works, Proc
    <3> QED
      BY <3>1 DEF RulesOK
  <2>3. CASE Renewed(p)
    BY <2>3, NoneAssumption DEF Renewed
  <2> QED
    BY <1>1, <2>1, <2>2, <2>3 DEF Moves
<1>3. proc'[p].rules \in Rules
  BY <1>1 DEF Proc
<1> QED
  BY <1>1, <1>2, <1>3, CoversAll

\* What a run picks the strictest rules take.
LEMMA PickedChosen ==
    ASSUME TypeInv, RulesOK, NEW p \in Procs, NEW b, Picked(p, b), rows[b].conn \in conns
    PROVE  b \in Backup /\ rows[b].status # "absent" /\ Chosen(b)
<1> DEFINE c == rows[b].conn
           r == proc[p].rules
<1>1. /\ b \in Backup /\ rows[b].status = "COMPLETED" /\ c = proc[p].group /\ c \in Conn
  BY DEF Picked, Completed, TypeInv, TypeOK
<1>2. /\ strict[c] \in Rules /\ r \in Rules /\ CoversRules(strict[c], r)
      /\ now \in Nat /\ rows[b].born \in Nat
  BY <1>1 DEF TypeInv, TypeOK, RulesOK, Procs, Proc, Row
<1>3. CASE Aged(b, r.days)
  <2>1. Aged(b, strict[c].days)
    BY <1>2, <1>3 DEF Aged, Rules, CoversRules, Covers
  <2> QED
    BY <1>1, <2>1 DEF Chosen
<1>4. CASE Surplus(b, Completed(c), r.count)
  <2> DEFINE S == Newer(b, Completed(c))
             T == Newer(b, EverCompleted(c))
  <2>1. S \subseteq T /\ T \subseteq Backup
    BY DEF Newer, Completed, EverCompleted
  <2>2. r.count > 0 /\ Cardinality(S) >= r.count
    BY <1>4 DEF Surplus
  <2> HIDE DEF S, T
  <2>3. Cardinality(S) \in Nat /\ Cardinality(T) \in Nat /\ Cardinality(S) <= Cardinality(T)
    BY <2>1, MoreBackups
  <2>4. strict[c].count > 0 /\ Cardinality(T) >= strict[c].count
    BY <1>2, <2>2, <2>3 DEF Rules, CoversRules, Covers
  <2> QED
    BY <1>1, <2>4 DEF Chosen, Surplus, T
<1> QED
  BY <1>1, <1>3, <1>4 DEF Picked

LEMMA DelStep ==
    ASSUME TypeInv, TypeInv', Onward, RulesOK, DelOK, \A p \in Procs : Moves(p)
    PROVE  DelOK'
<1> SUFFICES ASSUME NEW p \in Procs, NEW b \in proc'[p].del
             PROVE  /\ rows'[b].status # "absent"
                    /\ rows'[b].conn \in conns' => Chosen(b)'
  BY DEF DelOK
<1>1. b \in Backup /\ proc[p] \in Proc
  BY DEF TypeInv, TypeOK, Procs, Proc
<1>2. b \in proc[p].del \/ Picked(p, b)
  BY <1>1 DEF Moves, Stays, Renewed, ReadsCaps, ReadsRules, Works, Proc
<1>3. /\ rows[b].status # "absent"
      /\ rows[b].conn \in conns => Chosen(b)
  <2>1. CASE b \in proc[p].del
    BY <2>1 DEF DelOK
  <2>2. CASE Picked(p, b)
    <3>1. rows[b].status # "absent"
      BY <2>2 DEF Picked, Completed
    <3> QED
      BY <2>2, <3>1, PickedChosen
  <2> QED
    BY <1>2, <2>1, <2>2
<1>4. rows'[b].status # "absent"
  BY <1>1, <1>3 DEF Onward
<1>5. ASSUME rows'[b].conn \in conns' PROVE Chosen(b)'
  <2>1. rows[b].conn \in conns
    BY <1>1, <1>3, <1>5, NoneAssumption DEF Onward, TypeInv, TypeOK
  <2> QED
    BY <1>1, <1>3, <1>5, <2>1, ChosenStays
<1> QED
  BY <1>4, <1>5

\* Only a run purges, and what it has picked.
LEMMA PurgeStep ==
    ASSUME TypeInv, [Next]_vars, NEW b \in Backup, rows'[b].status = "purged"
    PROVE  rows[b].status = "purged" \/ \E p \in Procs : b \in proc[p].del
<1> USE DEF TypeInv, TypeOK
<1>1. CASE request
  <2>1. ASSUME NEW x \in Backup, NEW c \in Conn, createBackup(x, c)
        PROVE  rows[b].status = "purged"
    BY <2>1 DEF createBackup
  <2>2. ASSUME NEW x \in Backup, deleteBackup(x) PROVE rows[b].status = "purged"
    BY <2>2 DEF deleteBackup, Row
  <2>3. ASSUME NEW c \in Conn, deleteConnection(c) PROVE rows[b].status = "purged"
    BY <2>3 DEF deleteConnection, Row
  <2> QED
    BY <1>1, <2>1, <2>2, <2>3 DEF request, tick, createSchedule, updateSchedule, deleteSchedule,
                                  setUserRetentionLimit, data
<1>2. ASSUME NEW x \in Backup, completeBackup(x)
      PROVE  rows[b].status = "purged"
  BY <1>2 DEF completeBackup, Row
<1>3. ASSUME NEW p \in Procs, step(p)
      PROVE  rows[b].status = "purged" \/ b \in proc[p].del
  BY <1>3 DEF step, readCaps, nextGroup, endSweep, selectByAge, selectByCount, deleteArtifact,
              deleteRows, data
<1>4. ASSUME NEW p \in Procs, begin(p) PROVE rows[b].status = "purged"
  BY <1>4 DEF begin, runGlobalRetentionSweep, data
<1>5. CASE crash \/ UNCHANGED vars
  BY <1>5 DEF crash, vars, data
<1> QED
  BY <1>1, <1>2, <1>3, <1>4, <1>5, NextCases

LEMMA TooSoonStep ==
    ASSUME TypeInv, TypeInv', [Next]_vars, Onward, DelOK, NeverTooSoon
    PROVE  NeverTooSoon'
<1> SUFFICES ASSUME NEW b \in Backup, rows'[b].status = "purged", rows'[b].conn \in conns'
             PROVE  Chosen(b)'
  BY DEF NeverTooSoon, Chosen
<1>1. rows[b].status = "purged" \/ \E p \in Procs : b \in proc[p].del
  BY PurgeStep
<1>2. /\ rows[b].status # "absent"
      /\ rows[b].conn \in conns => Chosen(b)
  BY <1>1 DEF DelOK, NeverTooSoon, Chosen
<1>3. rows[b].conn \in conns
  BY <1>2, NoneAssumption DEF Onward, TypeInv, TypeOK
<1> QED
  BY <1>2, <1>3, ChosenStays

LEMMA RetentionStep == RetentionInv /\ [Next]_vars => RetentionInv'
<1> SUFFICES ASSUME RetentionInv, [Next]_vars PROVE RetentionInv'
  OBVIOUS
<1>1. TypeInv'
  BY TypeStep DEF RetentionInv
<1>2. Onward
  BY OnwardStep DEF RetentionInv
<1>3. \A p \in Procs : Moves(p)
  BY NextMoves DEF RetentionInv
<1>4. GroupsOK'
  BY <1>3, GroupsStep DEF RetentionInv
<1>5. CapsOK'
  BY <1>3, CapsStep DEF RetentionInv
<1>6. StrictOK'
  BY StrictStep DEF RetentionInv
<1>7. RulesOK'
  BY <1>1, <1>2, <1>3, RulesStep DEF RetentionInv
<1>8. DelOK'
  BY <1>1, <1>2, <1>3, DelStep DEF RetentionInv
<1>9. NeverTooSoon'
  BY <1>1, <1>2, TooSoonStep DEF RetentionInv
<1> QED
  BY <1>1, <1>4, <1>5, <1>6, <1>7, <1>8, <1>9 DEF RetentionInv

\* Whatever runs overlap and whatever the user deletes or changes meanwhile, a backup
\* that retention took from a connection was taken by the strictest rules the connection
\* ever had (retention.service.ts, runGlobalRetentionSweep, applyRetention).
THEOREM NothingGoesTooSoon == Spec => []NeverTooSoon
<1>1. RetentionInv => NeverTooSoon
  BY DEF RetentionInv
<1> QED
  BY RetentionInit, RetentionStep, <1>1, PTL DEF Spec
=============================================================================
