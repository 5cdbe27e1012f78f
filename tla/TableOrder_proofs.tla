------------------------- MODULE TableOrder_proofs -------------------------
(***************************************************************************)
(* The order of tables, for every list of tables without repetition and    *)
(* all foreign keys between them.  What a recursive function computes      *)
(* follows from its recursion by induction over sets of numbers, and one   *)
(* invariant of the loop: what is out or queued are the tables all whose   *)
(* parents are out, and a parent came out before its children.             *)
(***************************************************************************)
EXTENDS TableOrder, FiniteSetTheorems, SequenceTheorems, WellFoundedInduction, TLAPS

-----------------------------------------------------------------------------
(* Induction, over a set instead of a predicate.                           *)

\* A set of numbers that is not empty has a least one.
LEMMA LeastExists ==
    ASSUME NEW S, S \subseteq Nat, S # {}
    PROVE  \E n \in S : \A m \in S : n <= m
<1> DEFINE R == OpToRel(<, Nat)
<1>1. IsWellFoundedOn(R, Nat)
  BY NatLessThanWellFounded
<1>2. \A m, n \in Nat : <<m, n>> \notin R => n <= m
  BY DEF OpToRel
<1> HIDE DEF R
<1>3. PICK n \in S : \A m \in S : <<m, n>> \notin R
  BY <1>1, WFMin
<1> QED
  BY <1>2, <1>3

\* A set with 0, and with the successor of each number up to N that it has, has all of them.
LEMMA Induct ==
    ASSUME NEW N \in Nat, NEW S, 0 \in S,
           \A n \in 1 .. N : n - 1 \in S => n \in S
    PROVE  0 .. N \subseteq S
<1> SUFFICES ASSUME (0 .. N) \ S # {} PROVE FALSE
  OBVIOUS
<1>1. (0 .. N) \ S \subseteq Nat
  OBVIOUS
<1>2. PICK n \in (0 .. N) \ S : \A m \in (0 .. N) \ S : n <= m
  BY <1>1, LeastExists
<1>3. n # 0 /\ n - 1 \in 0 .. N /\ n \in 1 .. N
  BY <1>2
<1>4. n - 1 \in S
  BY <1>2, <1>3
<1> QED  BY <1>2, <1>3, <1>4

Iterates(f, N, b, step) == f[0] = b /\ \A n \in 1 .. N : f[n] = step[<<n, f[n - 1]>>]

\* A function can be defined by its value at 0 and a step.
LEMMA Iterate ==
    ASSUME NEW N \in Nat, NEW A, NEW b \in A, NEW step \in [(1 .. N) \X A -> A]
    PROVE  \E f \in [0 .. N -> A] : Iterates(f, N, b, step)
<1> DEFINE S == {k \in 0 .. N : \E f \in [0 .. N -> A] : Iterates(f, k, b, step)}
<1>1. 0 \in S
  <2> DEFINE g == [n \in 0 .. N |-> b]
  <2>1. g \in [0 .. N -> A] /\ Iterates(g, 0, b, step)
    BY DEF Iterates
  <2> HIDE DEF g
  <2> QED  BY <2>1
<1>2. ASSUME NEW k \in 1 .. N, k - 1 \in S PROVE k \in S
  <2>1. PICK f \in [0 .. N -> A] : Iterates(f, k - 1, b, step)
    BY <1>2
  <2> DEFINE g == [f EXCEPT ![k] = step[<<k, f[k - 1]>>]]
  <2>2. k - 1 \in 0 .. N /\ f[k - 1] \in A /\ <<k, f[k - 1]>> \in (1 .. N) \X A
    BY <1>2
  <2>3. step[<<k, f[k - 1]>>] \in A
    BY <2>2
  <2>4. g \in [0 .. N -> A]
    BY <2>3
  <2>5. g[k] = step[<<k, f[k - 1]>>] /\ \A n \in 0 .. N : n # k => g[n] = f[n]
    BY <1>2
  <2>6. g[0] = b
    BY <1>2, <2>1, <2>5 DEF Iterates
  <2>7. ASSUME NEW n \in 1 .. k PROVE g[n] = step[<<n, g[n - 1]>>]
    <3>1. n - 1 \in 0 .. N /\ n - 1 # k
      BY <1>2
    <3>2. g[n - 1] = f[n - 1]
      BY <2>5, <3>1
    <3>3. CASE n = k
      BY <2>5, <3>2, <3>3
    <3>4. CASE n # k
      <4>1. n \in 1 .. k - 1 /\ n \in 0 .. N
        BY <1>2, <3>4
      <4> QED  BY <2>1, <2>5, <3>2, <3>4, <4>1 DEF Iterates
    <3> QED  BY <3>3, <3>4
  <2> HIDE DEF g
  <2>8. Iterates(g, k, b, step)
    BY <2>6, <2>7 DEF Iterates
  <2> QED  BY <1>2, <2>4, <2>8
<1>3. N \in S
  <2> HIDE DEF S
  <2>1. 0 .. N \subseteq S
    BY <1>1, <1>2, Induct
  <2> QED  BY <2>1
<1> QED  BY <1>3

-----------------------------------------------------------------------------
(* Sub-lists.                                                              *)

\* The recursion of Keep.
Keeps(kept, tables, S) ==
    /\ kept[0] = <<>>
    /\ \A n \in 1 .. Len(tables) :
           kept[n] = IF tables[n] \in S THEN Append(kept[n - 1], tables[n]) ELSE kept[n - 1]
    /\ Keep(tables, S) = kept[Len(tables)]

LEMMA KeepUnfolds ==
    ASSUME NEW T, NEW tables \in Seq(T), NEW S
    PROVE  \E kept \in [0 .. Len(tables) -> Seq(T)] : Keeps(kept, tables, S)
<1> DEFINE N == Len(tables)
           Unfold(f) == [n \in 0 .. N |->
                            IF n = 0 THEN <<>>
                            ELSE IF tables[n] \in S THEN Append(f[n - 1], tables[n])
                            ELSE f[n - 1]]
           kept[n \in 0 .. N] == IF n = 0 THEN <<>>
                                 ELSE IF tables[n] \in S THEN Append(kept[n - 1], tables[n])
                                 ELSE kept[n - 1]
           step == [p \in (1 .. N) \X Seq(T) |->
                       IF tables[p[1]] \in S THEN Append(p[2], tables[p[1]]) ELSE p[2]]
<1>1. N \in Nat /\ <<>> \in Seq(T)
  OBVIOUS
<1>2. step \in [(1 .. N) \X Seq(T) -> Seq(T)]
  <2> SUFFICES ASSUME NEW n \in 1 .. N, NEW s \in Seq(T)
               PROVE  Append(s, tables[n]) \in Seq(T)
    OBVIOUS
  <2>1. tables[n] \in T
    BY <1>1
  <2> QED  BY <2>1
<1>3. \A n \in 1 .. N, s \in Seq(T) :
          step[<<n, s>>] = IF tables[n] \in S THEN Append(s, tables[n]) ELSE s
  OBVIOUS
<1>4. Keep(tables, S) = kept[N]
  BY DEF Keep
<1>5. kept = CHOOSE f : f = Unfold(f)
  OBVIOUS
<1> HIDE DEF N, kept, step
<1>6. PICK f \in [0 .. N -> Seq(T)] :
          f[0] = <<>> /\ \A n \in 1 .. N : f[n] = step[<<n, f[n - 1]>>]
  <2> DEFINE A == Seq(T)
  <2>1. N \in Nat /\ <<>> \in A /\ step \in [(1 .. N) \X A -> A]
    BY <1>1, <1>2
  <2> HIDE DEF A
  <2>2. \E f \in [0 .. N -> A] : Iterates(f, N, <<>>, step)
    BY <2>1, Iterate
  <2> QED  BY <2>2 DEF A, Iterates
<1>7. f = Unfold(f)
  <2>1. \A n \in 0 .. N : n # 0 => n \in 1 .. N /\ n - 1 \in 0 .. N
    BY <1>1
  <2>2. \A n \in 0 .. N : f[n] = Unfold(f)[n]
    BY <1>3, <1>6, <2>1
  <2> QED  BY <1>6, <2>2
<1>8. kept = Unfold(kept)
  BY <1>5, <1>7
<1>9. \A n \in 0 .. N : kept[n] = f[n]
  <2> DEFINE Q == {n \in 0 .. N : kept[n] = f[n]}
  <2>1. 0 \in Q
    BY <1>1, <1>6, <1>8
  <2>2. ASSUME NEW n \in 1 .. N, n - 1 \in Q PROVE n \in Q
    <3>1. n \in 0 .. N /\ n # 0 /\ kept[n - 1] = f[n - 1]
      BY <1>1, <2>2
    <3>2. Unfold(kept)[n] = Unfold(f)[n]
      BY <3>1
    <3> HIDE DEF Unfold
    <3>3. kept[n] = f[n]
      BY <1>7, <1>8, <3>2
    <3> QED  BY <3>1, <3>3
  <2> HIDE DEF Q
  <2>3. 0 .. N \subseteq Q
    BY <1>1, <2>1, <2>2, Induct
  <2> QED  BY <2>3 DEF Q
<1>10. \A n \in 1 .. N : f[n] = IF tables[n] \in S THEN Append(f[n - 1], tables[n])
                                 ELSE f[n - 1]
  <2> SUFFICES ASSUME NEW n \in 1 .. N
               PROVE  f[n] = IF tables[n] \in S THEN Append(f[n - 1], tables[n]) ELSE f[n - 1]
    OBVIOUS
  <2>1. n - 1 \in 0 .. N
    BY <1>1
  <2> QED  BY <1>3, <1>6, <2>1
<1>11. Keep(tables, S) = f[N]
  BY <1>1, <1>4, <1>9
<1>12. Keeps(f, tables, S)
  BY <1>6, <1>10, <1>11 DEF N, Keeps, Iterates
<1> QED  BY <1>6, <1>12 DEF N

\* No table comes twice.
Distinct(s) == \A i, j \in 1 .. Len(s) : s[i] = s[j] => i = j

\* As many places as tables.
LEMMA LenIs ==
    ASSUME NEW T, NEW s \in Seq(T)
    PROVE  /\ IsFiniteSet(Members(s))
           /\ Distinct(s) => Cardinality(Members(s)) = Len(s)
<1> DEFINE f == [i \in 1 .. Len(s) |-> s[i]]
<1>1. Len(s) \in Nat /\ 1 \in Int /\ Len(s) \in Int
  OBVIOUS
<1>2. (IF 1 > Len(s) THEN 0 ELSE Len(s) - 1 + 1) = Len(s)
  BY <1>1
<1>3. IsFiniteSet(1 .. Len(s)) /\ Cardinality(1 .. Len(s)) = Len(s)
  BY <1>1, <1>2, FS_Interval
<1>4. f \in Surjection(1 .. Len(s), Members(s))
  BY DEF Surjection, Members
<1>5. IsFiniteSet(Members(s))
  BY <1>3, <1>4, FS_Surjection
<1>6. ASSUME Distinct(s) PROVE f \in Injection(1 .. Len(s), Members(s))
  BY <1>6 DEF Injection, IsInjective, Members, Distinct
<1>7. /\ Cardinality(Members(s)) <= Cardinality(1 .. Len(s))
      /\ Cardinality(Members(s)) = Cardinality(1 .. Len(s)) <=>
             f \in Injection(1 .. Len(s), Members(s))
  BY <1>3, <1>4, FS_Surjection
<1> QED  BY <1>3, <1>5, <1>6, <1>7

LEMMA MembersIn ==
    ASSUME NEW T, NEW s \in Seq(T)
    PROVE  Members(s) \subseteq T
<1>1. \A i \in 1 .. Len(s) : s[i] \in T
  OBVIOUS
<1> QED  BY <1>1 DEF Members

LEMMA AppendIs ==
    ASSUME NEW T, NEW s \in Seq(T), NEW t \in T
    PROVE  /\ Append(s, t) \in Seq(T)
           /\ Members(Append(s, t)) = Members(s) \cup {t}
           /\ Distinct(s) /\ t \notin Members(s) => Distinct(Append(s, t))
<1> DEFINE u == Append(s, t)
<1>1. /\ u \in Seq(T) /\ Len(u) = Len(s) + 1 /\ Len(s) \in Nat
      /\ \A i \in 1 .. Len(s) : u[i] = s[i]
      /\ u[Len(s) + 1] = t
  BY AppendProperties
<1> HIDE DEF u
<1>2. \A i \in 1 .. Len(u) : i = Len(s) + 1 \/ i \in 1 .. Len(s)
  BY <1>1
<1>3. /\ \A i \in 1 .. Len(s) : i \in 1 .. Len(u)
      /\ Len(s) + 1 \in 1 .. Len(u)
  BY <1>1
<1>4. Members(u) = Members(s) \cup {t}
  BY <1>1, <1>2, <1>3 DEF Members
<1>5. ASSUME Distinct(s), t \notin Members(s) PROVE Distinct(u)
  BY <1>1, <1>2, <1>5 DEF Members, Distinct
<1> QED  BY <1>1, <1>4, <1>5 DEF u

LEMMA ConcatIs ==
    ASSUME NEW T, NEW s \in Seq(T), NEW u \in Seq(T)
    PROVE  /\ s \o u \in Seq(T) /\ Len(s \o u) = Len(s) + Len(u)
           /\ Members(s \o u) = Members(s) \cup Members(u)
           /\ Distinct(s) /\ Distinct(u) /\ Members(s) \cap Members(u) = {} => Distinct(s \o u)
<1> DEFINE v == s \o u
<1>1. /\ v \in Seq(T) /\ Len(v) = Len(s) + Len(u) /\ Len(s) \in Nat /\ Len(u) \in Nat
      /\ \A i \in 1 .. Len(s) : v[i] = s[i]
      /\ \A i \in 1 .. Len(u) : v[Len(s) + i] = u[i]
  BY ConcatProperties
<1> HIDE DEF v
<1>2. \A i \in 1 .. Len(v) : i \in 1 .. Len(s) \/ \E j \in 1 .. Len(u) : i = Len(s) + j
  <2> SUFFICES ASSUME NEW i \in 1 .. Len(v), i \notin 1 .. Len(s)
               PROVE  \E j \in 1 .. Len(u) : i = Len(s) + j
    OBVIOUS
  <2>1. i - Len(s) \in 1 .. Len(u) /\ i = Len(s) + (i - Len(s))
    BY <1>1
  <2> QED  BY <2>1
<1>3. /\ \A i \in 1 .. Len(s) : i \in 1 .. Len(v)
      /\ \A j \in 1 .. Len(u) : Len(s) + j \in 1 .. Len(v)
  BY <1>1
<1>4. Members(v) = Members(s) \cup Members(u)
  <2>1. ASSUME NEW i \in 1 .. Len(v) PROVE v[i] \in Members(s) \cup Members(u)
    <3>1. CASE i \in 1 .. Len(s)
      BY <1>1, <3>1 DEF Members
    <3>2. ASSUME NEW j \in 1 .. Len(u), i = Len(s) + j
          PROVE  v[i] \in Members(s) \cup Members(u)
      BY <1>1, <3>2 DEF Members
    <3> QED  BY <1>2, <3>1, <3>2
  <2>2. Members(s) \subseteq Members(v)
    BY <1>1, <1>3 DEF Members
  <2>3. Members(u) \subseteq Members(v)
    BY <1>1, <1>3 DEF Members
  <2>4. \A x \in Members(v) : \E i \in 1 .. Len(v) : x = v[i]
    BY DEF Members
  <2> QED  BY <2>1, <2>2, <2>3, <2>4
<1>5. ASSUME Distinct(s), Distinct(u), Members(s) \cap Members(u) = {} PROVE Distinct(v)
  <2> SUFFICES ASSUME NEW i \in 1 .. Len(v), NEW j \in 1 .. Len(v), v[i] = v[j]
               PROVE  i = j
    BY DEF Distinct
  <2>1. \A k \in 1 .. Len(s) : s[k] \in Members(s)
    BY DEF Members
  <2>2. \A k \in 1 .. Len(u) : u[k] \in Members(u)
    BY DEF Members
  <2>3. CASE i \in 1 .. Len(s) /\ j \in 1 .. Len(s)
    BY <1>1, <1>5, <2>3 DEF Distinct
  <2>4. ASSUME i \notin 1 .. Len(s) PROVE i = j
    <3>1. PICK k \in 1 .. Len(u) : i = Len(s) + k
      BY <1>2, <2>4
    <3>2. PICK l \in 1 .. Len(u) : j = Len(s) + l
      BY <1>1, <1>2, <1>5, <2>1, <2>2, <3>1
    <3> QED  BY <1>1, <1>5, <3>1, <3>2 DEF Distinct
  <2>5. ASSUME j \notin 1 .. Len(s) PROVE i = j
    <3>1. PICK k \in 1 .. Len(u) : j = Len(s) + k
      BY <1>2, <2>5
    <3>2. PICK l \in 1 .. Len(u) : i = Len(s) + l
      BY <1>1, <1>2, <1>5, <2>1, <2>2, <3>1
    <3> QED  BY <1>1, <1>5, <3>1, <3>2 DEF Distinct
  <2> QED  BY <2>3, <2>4, <2>5
<1> QED  BY <1>1, <1>4, <1>5 DEF v

\* A sub-list has the tables of the set, each as often as the list.
LEMMA KeepIs ==
    ASSUME NEW T, NEW tables \in Seq(T), NEW S
    PROVE  /\ Keep(tables, S) \in Seq(T)
           /\ Members(Keep(tables, S)) = Members(tables) \cap S
           /\ Distinct(tables) => Distinct(Keep(tables, S))
<1> DEFINE N == Len(tables)
           First(n) == {tables[i] : i \in 1 .. n}
<1>0. PICK kept \in [0 .. N -> Seq(T)] : Keeps(kept, tables, S)
  BY KeepUnfolds
<1>1. /\ kept[0] = <<>>
      /\ \A n \in 1 .. N : kept[n] = IF tables[n] \in S THEN Append(kept[n - 1], tables[n])
                                    ELSE kept[n - 1]
      /\ Keep(tables, S) = kept[N]
  BY <1>0 DEF Keeps
<1> DEFINE Q == {n \in 0 .. N : /\ Members(kept[n]) = First(n) \cap S
                                /\ Distinct(tables) => Distinct(kept[n])}
<1>2. N \in Nat /\ \A n \in 1 .. N : tables[n] \in T
  OBVIOUS
<1>3. 0 \in Q
  BY <1>1, <1>2 DEF Members, Distinct
<1>4. ASSUME NEW n \in 1 .. N, n - 1 \in Q PROVE n \in Q
  <2> DEFINE k == kept[n - 1]
             t == tables[n]
  <2>1. n - 1 \in 0 .. N /\ n \in 0 .. N
    BY <1>2
  <2>2. k \in Seq(T) /\ Members(k) = First(n - 1) \cap S /\ (Distinct(tables) => Distinct(k))
    BY <1>1, <1>4, <2>1
  <2>3. First(n) = First(n - 1) \cup {t}
    <3>1. \A i \in 1 .. n : i = n \/ i \in 1 .. n - 1
      BY <1>2
    <3>2. n \in 1 .. n /\ \A i \in 1 .. n - 1 : i \in 1 .. n
      BY <1>2
    <3> QED  BY <3>1, <3>2
  <2>4. ASSUME Distinct(tables) PROVE t \notin First(n - 1)
    BY <1>2, <2>1, <2>4 DEF Distinct
  <2>5. t \in T
    BY <1>2
  <2>6. kept[n] = IF t \in S THEN Append(k, t) ELSE k
    BY <1>1
  <2> HIDE DEF k, t, First
  <2>7. Members(kept[n]) = First(n) \cap S /\ (Distinct(tables) => Distinct(kept[n]))
    <3>1. /\ Members(Append(k, t)) = Members(k) \cup {t}
          /\ Distinct(k) /\ t \notin Members(k) => Distinct(Append(k, t))
      BY <2>2, <2>5, AppendIs
    <3> QED  BY <2>2, <2>3, <2>4, <2>6, <3>1
  <2> QED  BY <2>1, <2>7
<1>5. N \in Q
  <2> HIDE DEF Q
  <2>1. 0 .. N \subseteq Q
    BY <1>2, <1>3, <1>4, Induct
  <2> QED  BY <1>2, <2>1
<1>6. First(N) = Members(tables)
  BY DEF Members
<1>7. kept[N] \in Seq(T)
  BY <1>1, <1>2
<1> QED  BY <1>1, <1>5, <1>6, <1>7

-----------------------------------------------------------------------------
(* The turns of the loop.                                                  *)

States(T) == [ordered : Seq(T), queue : Seq(T)]
StartState(tables, edges) ==
    [ordered |-> <<>>, queue |-> Keep(tables, {t \in Members(tables) : InDegree(t, edges) = 0})]

\* What joins the queue when h is emitted and out are out.
Freed(edges, h, out) ==
    {d[2] : d \in {e \in edges :
        e[1] = h /\ Cardinality({d \in edges : d[2] = e[2] /\ d[1] \notin Members(out)}) = 0}}

LEMMA EmitIs ==
    ASSUME NEW tables, NEW edges, NEW s
    PROVE  Emit(tables, edges, s) =
               LET out == Append(s.ordered, Head(s.queue))
               IN  [ordered |-> out,
                    queue |-> Tail(s.queue) \o Keep(tables, Freed(edges, Head(s.queue), out))]
  BY DEF Emit, Freed

LEMMA EmitTyped ==
    ASSUME NEW T, NEW tables \in Seq(T), NEW edges, NEW s \in States(T), s.queue # <<>>
    PROVE  Emit(tables, edges, s) \in States(T)
<1>1. s.ordered \in Seq(T) /\ s.queue \in Seq(T)
  BY DEF States
<1>2. Head(s.queue) \in T /\ Tail(s.queue) \in Seq(T)
  BY <1>1, HeadTailProperties
<1> DEFINE out == Append(s.ordered, Head(s.queue))
           kept == Keep(tables, Freed(edges, Head(s.queue), out))
<1>3. out \in Seq(T)
  BY <1>1, <1>2, AppendIs
<1>4. kept \in Seq(T)
  BY KeepIs
<1>5. Emit(tables, edges, s) = [ordered |-> out, queue |-> Tail(s.queue) \o kept]
  BY EmitIs
<1> HIDE DEF out, kept
<1>6. Tail(s.queue) \o kept \in Seq(T)
  BY <1>2, <1>4, ConcatIs
<1> QED  BY <1>3, <1>5, <1>6 DEF States

\* The recursion of Turns.
Looped(turn, tables, edges) ==
    /\ turn[0] = StartState(tables, edges)
    /\ \A n \in 1 .. Len(tables) :
           turn[n] = IF turn[n - 1].queue = <<>> THEN turn[n - 1]
                     ELSE Emit(tables, edges, turn[n - 1])
    /\ Turns(tables, edges) = turn[Len(tables)].ordered

LEMMA TurnsUnfold ==
    ASSUME NEW T, NEW tables \in Seq(T), NEW edges
    PROVE  \E turn \in [0 .. Len(tables) -> States(T)] : Looped(turn, tables, edges)
<1> DEFINE N == Len(tables)
           start == StartState(tables, edges)
           Next1(s) == IF s.queue = <<>> THEN s ELSE Emit(tables, edges, s)
           Unfold(f) == [n \in 0 .. N |-> IF n = 0 THEN start
                                          ELSE IF f[n - 1].queue = <<>> THEN f[n - 1]
                                          ELSE Emit(tables, edges, f[n - 1])]
           turn[n \in 0 .. N] == IF n = 0 THEN start
                                 ELSE IF turn[n - 1].queue = <<>> THEN turn[n - 1]
                                 ELSE Emit(tables, edges, turn[n - 1])
           step == [p \in (1 .. N) \X States(T) |-> Next1(p[2])]
<1>1. N \in Nat /\ start \in States(T)
  BY KeepIs DEF StartState, States
<1>2. step \in [(1 .. N) \X States(T) -> States(T)]
  <2> SUFFICES ASSUME NEW s \in States(T) PROVE Next1(s) \in States(T)
    OBVIOUS
  <2> QED  BY EmitTyped
<1>3. \A n \in 1 .. N, s \in States(T) : step[<<n, s>>] = Next1(s)
  OBVIOUS
<1>4. Turns(tables, edges) = turn[N].ordered
  BY DEF Turns, StartState
<1>5. turn = CHOOSE f : f = Unfold(f)
  OBVIOUS
<1> HIDE DEF N, start, turn, step
<1>6. PICK f \in [0 .. N -> States(T)] : Iterates(f, N, start, step)
  <2> DEFINE A == States(T)
  <2>1. N \in Nat /\ start \in A /\ step \in [(1 .. N) \X A -> A]
    BY <1>1, <1>2
  <2> HIDE DEF A
  <2>2. \E f \in [0 .. N -> A] : Iterates(f, N, start, step)
    BY <2>1, Iterate
  <2> QED  BY <2>2 DEF A
<1>7. f[0] = start /\ \A n \in 1 .. N : f[n] = Next1(f[n - 1])
  <2>1. \A n \in 1 .. N : n - 1 \in 0 .. N
    BY <1>1
  <2> HIDE DEF Next1
  <2> QED  BY <1>3, <1>6, <2>1 DEF Iterates
<1>8. f = Unfold(f)
  <2>1. \A n \in 0 .. N : n # 0 => n \in 1 .. N /\ n - 1 \in 0 .. N
    BY <1>1
  <2>2. \A n \in 0 .. N : f[n] = Unfold(f)[n]
    BY <1>7, <2>1
  <2> QED  BY <1>6, <2>2
<1>9. turn = Unfold(turn)
  BY <1>5, <1>8
<1>10. \A n \in 0 .. N : turn[n] = f[n]
  <2> DEFINE Q == {n \in 0 .. N : turn[n] = f[n]}
  <2>1. 0 \in Q
    BY <1>1, <1>7, <1>9
  <2>2. ASSUME NEW n \in 1 .. N, n - 1 \in Q PROVE n \in Q
    <3>1. n \in 0 .. N /\ n # 0 /\ turn[n - 1] = f[n - 1]
      BY <1>1, <2>2
    <3>2. Unfold(turn)[n] = Unfold(f)[n]
      BY <3>1
    <3> HIDE DEF Unfold
    <3>3. turn[n] = f[n]
      BY <1>8, <1>9, <3>2
    <3> QED  BY <3>1, <3>3
  <2> HIDE DEF Q
  <2>3. 0 .. N \subseteq Q
    BY <1>1, <2>1, <2>2, Induct
  <2> QED  BY <2>3 DEF Q
<1>11. Turns(tables, edges) = f[N].ordered
  BY <1>1, <1>4, <1>10
<1>12. Looped(f, tables, edges)
  BY <1>7, <1>11 DEF N, start, Looped
<1> QED  BY <1>6, <1>12 DEF N

\* The sort gives back tables of the list.
LEMMA OrderTyped ==
    ASSUME NEW T, NEW tables \in Seq(T), NEW deps, NEW metadata, NEW strict
    PROVE  getTablesInDependencyOrder(tables, deps, metadata, strict) \in Seq(T)
<1> DEFINE edges == Edges(tables, deps)
           ordered == Turns(tables, edges)
           rest == Keep(tables, Members(tables) \ Members(ordered))
<1>1. PICK turn \in [0 .. Len(tables) -> States(T)] : Looped(turn, tables, edges)
  BY TurnsUnfold
<1>2. ordered \in Seq(T)
  <2>1. Len(tables) \in 0 .. Len(tables)
    OBVIOUS
  <2>2. turn[Len(tables)] \in States(T)
    BY <2>1
  <2> QED  BY <1>1, <2>2 DEF Looped, States
<1>3. rest \in Seq(T)
  BY KeepIs
<1>4. topologicalSortTables(tables, deps) = ordered \o rest
  BY DEF topologicalSortTables
<1> HIDE DEF ordered, rest
<1>5. topologicalSortTables(tables, deps) \in Seq(T)
  BY <1>2, <1>3, <1>4, ConcatIs
<1> QED  BY <1>5 DEF getTablesInDependencyOrder

-----------------------------------------------------------------------------
(* What the loop keeps: the parents of what is out or in the queue are     *)
(* out, each before its children, and no other table has all of them out.  *)

Ready(edges, t, out) == \A d \in edges : d[2] = t => d[1] \in Members(out)

KahnInv(tables, edges, s) ==
    /\ s \in States(Members(tables))
    /\ Distinct(s.ordered) /\ Distinct(s.queue)
    /\ Members(s.ordered) \cap Members(s.queue) = {}
    /\ \A t \in Members(tables) :
           t \in Members(s.ordered) \cup Members(s.queue) <=> Ready(edges, t, s.ordered)
    /\ \A j \in 1 .. Len(s.ordered), d \in edges :
           d[2] = s.ordered[j] => \E i \in 1 .. j - 1 : s.ordered[i] = d[1]

LEMMA NoneOpen ==
    ASSUME NEW edges, IsFiniteSet(edges), NEW E \in SUBSET edges
    PROVE  Cardinality(E) = 0 <=> E = {}
  BY FS_Subset, FS_EmptySet

LEMMA FreedIs ==
    ASSUME NEW edges, IsFiniteSet(edges), NEW h, NEW out
    PROVE  Freed(edges, h, out) = {d[2] : d \in {e \in edges : e[1] = h /\ Ready(edges, e[2], out)}}
<1>1. ASSUME NEW e \in edges
      PROVE  Cardinality({d \in edges : d[2] = e[2] /\ d[1] \notin Members(out)}) = 0
                 <=> Ready(edges, e[2], out)
  <2> DEFINE E == {d \in edges : d[2] = e[2] /\ d[1] \notin Members(out)}
  <2>1. Cardinality(E) = 0 <=> E = {}
    <3>1. E \in SUBSET edges
      OBVIOUS
    <3> HIDE DEF E
    <3> QED  BY <3>1, NoneOpen
  <2>2. E = {} <=> Ready(edges, e[2], out)
    BY DEF Ready
  <2> QED  BY <2>1, <2>2
<1> QED  BY <1>1 DEF Freed

LEMMA HeadIs ==
    ASSUME NEW T, NEW s \in Seq(T), s # <<>>
    PROVE  /\ Head(s) \in T /\ Tail(s) \in Seq(T)
           /\ Members(s) = {Head(s)} \cup Members(Tail(s))
           /\ Distinct(s) => Distinct(Tail(s)) /\ Head(s) \notin Members(Tail(s))
<1> DEFINE u == Tail(s)
           h == Head(s)
<1>1. /\ h \in T /\ u \in Seq(T) /\ Len(u) = Len(s) - 1 /\ Len(s) \in Nat /\ Len(u) \in Nat
      /\ \A i \in 1 .. Len(u) : u[i] = s[i + 1]
  BY HeadTailProperties
<1>2. h = s[1] /\ Len(s) >= 1
  OBVIOUS
<1> HIDE DEF u, h
<1>3. /\ \A i \in 1 .. Len(u) : i + 1 \in 1 .. Len(s) /\ i + 1 # 1
      /\ \A i \in 1 .. Len(s) : i = 1 \/ (i - 1 \in 1 .. Len(u) /\ i = (i - 1) + 1)
      /\ 1 \in 1 .. Len(s)
  BY <1>1, <1>2
<1>4. ASSUME NEW x \in Members(s) PROVE x = h \/ x \in Members(u)
  <2>1. PICK i \in 1 .. Len(s) : x = s[i]
    BY DEF Members
  <2>2. CASE i # 1
    <3>1. i - 1 \in 1 .. Len(u) /\ s[i] = u[i - 1]
      BY <1>1, <1>3, <2>2
    <3> QED  BY <2>1, <3>1 DEF Members
  <2> QED  BY <1>2, <2>1, <2>2
<1>5. h \in Members(s) /\ Members(u) \subseteq Members(s)
  BY <1>1, <1>2, <1>3 DEF Members
<1>6. ASSUME Distinct(s) PROVE Distinct(u) /\ h \notin Members(u)
  BY <1>1, <1>2, <1>3, <1>6 DEF Distinct, Members
<1> QED  BY <1>1, <1>4, <1>5, <1>6 DEF u, h

\* A turn keeps it, and puts one more table out.
LEMMA KahnTurn ==
    ASSUME NEW tables, tables \in Seq(Members(tables)), Distinct(tables),
           NEW edges, IsFiniteSet(edges), \A d \in edges : d[2] \in Members(tables),
           NEW s, KahnInv(tables, edges, s), s.queue # <<>>
    PROVE  /\ KahnInv(tables, edges, Emit(tables, edges, s))
           /\ Len(Emit(tables, edges, s).ordered) = Len(s.ordered) + 1
<1> DEFINE M == Members(tables)
           o == s.ordered
           h == Head(s.queue)
           u == Tail(s.queue)
           out == Append(o, h)
           F == Freed(edges, h, out)
           K == Keep(tables, F)
           q == u \o K
<1>1. /\ o \in Seq(M) /\ s.queue \in Seq(M)
      /\ Distinct(o) /\ Distinct(s.queue) /\ Members(o) \cap Members(s.queue) = {}
  BY DEF KahnInv, States
<1>2. \A t \in M : t \in Members(o) \cup Members(s.queue) <=> Ready(edges, t, o)
  BY DEF KahnInv
<1>3. \A j \in 1 .. Len(o), d \in edges : d[2] = o[j] => \E i \in 1 .. j - 1 : o[i] = d[1]
  BY DEF KahnInv
<1>4. /\ h \in M /\ u \in Seq(M) /\ Members(s.queue) = {h} \cup Members(u)
      /\ Distinct(u) /\ h \notin Members(u)
  BY <1>1, HeadIs
<1>5. /\ out \in Seq(M) /\ Members(out) = Members(o) \cup {h} /\ Distinct(out)
  BY <1>1, <1>4, AppendIs
<1>6. /\ K \in Seq(M) /\ Members(K) = M \cap F /\ Distinct(K)
  BY KeepIs
<1>7. \A t : t \in F <=> Ready(edges, t, out) /\ \E d \in edges : d[1] = h /\ d[2] = t
  BY FreedIs
<1>8. Emit(tables, edges, s) = [ordered |-> out, queue |-> q]
  BY EmitIs
<1>9. /\ Len(out) = Len(o) + 1 /\ out[Len(o) + 1] = h /\ Len(o) \in Nat
      /\ \A i \in 1 .. Len(o) : out[i] = o[i]
  BY <1>1, <1>4, AppendProperties
<1> HIDE DEF M, o, h, u, out, F, K
<1>10. ASSUME NEW t \in Members(K) PROVE t \notin Members(o) \cup Members(s.queue)
  <2>1. PICK d \in edges : d[1] = h /\ d[2] = t
    BY <1>6, <1>7
  <2>2. h \notin Members(o) /\ t \in M
    BY <1>1, <1>4, <1>6
  <2>3. ~Ready(edges, t, o)
    BY <2>1, <2>2 DEF Ready
  <2> QED  BY <1>2, <2>2, <2>3
<1>11. Members(u) \cap Members(K) = {}
  BY <1>4, <1>10
<1>12. q \in Seq(M) /\ Members(q) = Members(u) \cup Members(K) /\ Distinct(q)
  BY <1>4, <1>6, <1>11, ConcatIs
<1> HIDE DEF q
<1>13. Members(out) \cap Members(q) = {}
  BY <1>1, <1>4, <1>5, <1>10, <1>12
<1>14. ASSUME NEW t \in M PROVE t \in Members(out) \cup Members(q) <=> Ready(edges, t, out)
  <2>1. t \in Members(out) \cup Members(q)
            <=> t \in Members(o) \cup Members(s.queue) \/ t \in F
    BY <1>4, <1>5, <1>6, <1>12
  <2>2. Ready(edges, t, o) => Ready(edges, t, out)
    BY <1>5 DEF Ready
  <2>3. ASSUME Ready(edges, t, out), ~Ready(edges, t, o) PROVE t \in F
    <3>1. PICK d \in edges : d[2] = t /\ d[1] \notin Members(o)
      BY <2>3 DEF Ready
    <3>2. d[1] = h
      BY <1>5, <2>3, <3>1 DEF Ready
    <3> QED  BY <1>7, <2>3, <3>1, <3>2
  <2> QED  BY <1>2, <1>7, <2>1, <2>2, <2>3
<1>15. ASSUME NEW j \in 1 .. Len(out), NEW d \in edges, d[2] = out[j]
       PROVE  \E i \in 1 .. j - 1 : out[i] = d[1]
  <2>1. CASE j \in 1 .. Len(o)
    <3>1. PICK i \in 1 .. j - 1 : o[i] = d[1]
      BY <1>3, <1>9, <1>15, <2>1
    <3>2. i \in 1 .. Len(o)
      BY <1>9, <2>1
    <3> QED  BY <1>9, <3>1, <3>2
  <2>2. CASE j \notin 1 .. Len(o)
    <3>1. j = Len(o) + 1 /\ d[2] = h
      BY <1>9, <1>15, <2>2
    <3>2. Ready(edges, h, o)
      BY <1>2, <1>4
    <3>3. d[1] \in Members(o)
      BY <3>1, <3>2 DEF Ready
    <3>4. PICK i \in 1 .. Len(o) : o[i] = d[1]
      BY <3>3 DEF Members
    <3>5. i \in 1 .. j - 1
      BY <1>9, <3>1
    <3> QED  BY <1>9, <3>4, <3>5
  <2> QED  BY <2>1, <2>2
<1>16. [ordered |-> out, queue |-> q] \in States(M)
  BY <1>5, <1>12 DEF States
<1>17. KahnInv(tables, edges, [ordered |-> out, queue |-> q])
  <2> DEFINE n == [ordered |-> out, queue |-> q]
  <2>1. n.ordered = out /\ n.queue = q
    OBVIOUS
  <2>2. n \in States(Members(tables))
    BY <1>16 DEF M
  <2>3. \A t \in Members(tables) : t \in Members(out) \cup Members(q) <=> Ready(edges, t, out)
    BY <1>14 DEF M
  <2> HIDE DEF n
  <2>4. KahnInv(tables, edges, n)
    BY <1>5, <1>12, <1>13, <1>15, <2>1, <2>2, <2>3 DEF KahnInv
  <2> QED  BY <2>4 DEF n
<1> QED  BY <1>8, <1>9, <1>17 DEF o

LEMMA KahnStart ==
    ASSUME NEW tables, tables \in Seq(Members(tables)), Distinct(tables),
           NEW edges, IsFiniteSet(edges)
    PROVE  KahnInv(tables, edges, StartState(tables, edges))
<1> DEFINE M == Members(tables)
           S == {t \in M : InDegree(t, edges) = 0}
           q == Keep(tables, S)
<1>1. q \in Seq(M) /\ Members(q) = M \cap S /\ Distinct(q)
  BY KeepIs
<1>2. ASSUME NEW t \in M PROVE InDegree(t, edges) = 0 <=> Ready(edges, t, <<>>)
  <2> DEFINE E == {d \in edges : d[2] = t}
  <2>1. Cardinality(E) = 0 <=> E = {}
    <3>1. E \in SUBSET edges
      OBVIOUS
    <3> HIDE DEF E
    <3> QED  BY <3>1, NoneOpen
  <2>2. E = {} <=> Ready(edges, t, <<>>)
    BY DEF Ready, Members
  <2> QED  BY <2>1, <2>2 DEF InDegree
<1>3. <<>> \in Seq(M) /\ Members(<<>>) = {} /\ Distinct(<<>>) /\ Len(<<>>) = 0
  BY DEF Members, Distinct
<1>4. \A t \in M : t \in S <=> Ready(edges, t, <<>>)
  BY <1>2
<1>5. StartState(tables, edges) = [ordered |-> <<>>, queue |-> q]
  BY DEF StartState
<1> HIDE DEF M, S, q
<1>6. [ordered |-> <<>>, queue |-> q] \in States(M)
  BY <1>1, <1>3 DEF States
<1>7. KahnInv(tables, edges, [ordered |-> <<>>, queue |-> q])
  BY <1>1, <1>3, <1>4, <1>6 DEF KahnInv, M
<1> QED  BY <1>5, <1>7

\* After as many turns as there are tables the queue is empty.
LEMMA TurnsAre ==
    ASSUME NEW tables, tables \in Seq(Members(tables)), Distinct(tables),
           NEW edges, IsFiniteSet(edges), \A d \in edges : d[2] \in Members(tables)
    PROVE  LET out == Turns(tables, edges) IN
               /\ out \in Seq(Members(tables)) /\ Distinct(out)
               /\ \A t \in Members(tables) : t \in Members(out) <=> Ready(edges, t, out)
               /\ \A j \in 1 .. Len(out), d \in edges :
                      d[2] = out[j] => \E i \in 1 .. j - 1 : out[i] = d[1]
<1> DEFINE N == Len(tables)
           M == Members(tables)
<1>1. PICK turn \in [0 .. N -> States(M)] : Looped(turn, tables, edges)
  BY TurnsUnfold
<1>2. /\ turn[0] = StartState(tables, edges)
      /\ \A n \in 1 .. N : turn[n] = IF turn[n - 1].queue = <<>> THEN turn[n - 1]
                                    ELSE Emit(tables, edges, turn[n - 1])
      /\ Turns(tables, edges) = turn[N].ordered
  BY <1>1 DEF Looped
<1>3. N \in Nat
  OBVIOUS
<1> DEFINE Q == {n \in 0 .. N : /\ KahnInv(tables, edges, turn[n])
                                /\ Len(turn[n].ordered) = n \/ turn[n].queue = <<>>}
<1>4. 0 \in Q
  <2>1. Len(turn[0].ordered) = 0
    BY <1>2 DEF StartState
  <2> QED  BY <1>2, <1>3, <2>1, KahnStart
<1>5. ASSUME NEW n \in 1 .. N, n - 1 \in Q PROVE n \in Q
  <2> DEFINE s == turn[n - 1]
  <2>1. KahnInv(tables, edges, s) /\ (Len(s.ordered) = n - 1 \/ s.queue = <<>>)
    BY <1>5
  <2>2. turn[n] = IF s.queue = <<>> THEN s ELSE Emit(tables, edges, s)
    BY <1>2
  <2>3. n \in 0 .. N /\ (n - 1) + 1 = n
    BY <1>3
  <2> HIDE DEF s
  <2>4. CASE s.queue = <<>>
    BY <2>1, <2>2, <2>3, <2>4
  <2>5. CASE s.queue # <<>>
    <3>1. /\ KahnInv(tables, edges, Emit(tables, edges, s))
          /\ Len(Emit(tables, edges, s).ordered) = Len(s.ordered) + 1
      BY <2>1, <2>5, KahnTurn
    <3> QED  BY <2>1, <2>2, <2>3, <2>5, <3>1
  <2> QED  BY <2>4, <2>5
<1>6. N \in Q
  <2> HIDE DEF Q
  <2>1. 0 .. N \subseteq Q
    BY <1>3, <1>4, <1>5, Induct
  <2> QED  BY <1>3, <2>1
<1> DEFINE s == turn[N]
           out == s.ordered
<1>7. KahnInv(tables, edges, s) /\ (Len(out) = N \/ s.queue = <<>>)
  BY <1>6
<1> HIDE DEF s, Q
<1>8. /\ out \in Seq(M) /\ s.queue \in Seq(M) /\ Distinct(out)
      /\ Members(out) \cap Members(s.queue) = {}
  BY <1>7 DEF KahnInv, States
<1>9. Members(s.queue) = {}
  <2>1. ASSUME Len(out) = N PROVE Members(s.queue) = {}
    <3>1. /\ IsFiniteSet(M) /\ Cardinality(M) = N /\ Cardinality(Members(out)) = N
      BY <1>8, <2>1, LenIs
    <3>2. Members(out) \in SUBSET M /\ Members(s.queue) \in SUBSET M
      BY <1>8, MembersIn
    <3> HIDE DEF M
    <3>3. Members(out) = M
      BY <3>1, <3>2, FS_Subset
    <3> QED  BY <1>8, <3>2, <3>3
  <2>2. ASSUME s.queue = <<>> PROVE Members(s.queue) = {}
    BY <2>2 DEF Members
  <2> QED  BY <1>7, <2>1, <2>2
<1> QED  BY <1>2, <1>7, <1>8, <1>9 DEF KahnInv, s

\* The tables on a cycle of dependencies or behind one: the largest set in which every
\* table has another as its parent.
Stuck(tables, deps) ==
    UNION {S \in SUBSET Members(tables) : \A t \in S : \E p \in S \ {t} : <<p, t>> \in deps}

\* What topologicalSortTables gives back has every table once, a parent that is not stuck before its children,
\* and the stuck ones last, in the order of the list.
THEOREM SortIs ==
    ASSUME NEW tables, tables \in Seq(Members(tables)), Distinct(tables),
           NEW deps, deps \subseteq Members(tables) \X Members(tables)
    PROVE  LET order == topologicalSortTables(tables, deps)
               B == Stuck(tables, deps)
           IN  /\ order \in Seq(Members(tables)) /\ Distinct(order)
               /\ Members(order) = Members(tables) /\ Len(order) = Len(tables)
               /\ \A d \in deps, i, j \in 1 .. Len(order) :
                      /\ d[1] # d[2] /\ d[1] \notin B
                      /\ order[i] = d[1] /\ order[j] = d[2]
                      => i < j
               /\ Keep(tables, B) = SubSeq(order, Len(order) - Cardinality(B) + 1, Len(order))
<1> DEFINE M == Members(tables)
           edges == Edges(tables, deps)
           out == Turns(tables, edges)
           rest == M \ Members(out)
           tail == Keep(tables, rest)
           order == topologicalSortTables(tables, deps)
           B == Stuck(tables, deps)
<1>1. \A d : d \in edges <=> d \in deps /\ d[1] # d[2]
  BY DEF Edges
<1>2. IsFiniteSet(edges) /\ \A d \in edges : d[1] \in M /\ d[2] \in M /\ d = <<d[1], d[2]>>
  <2>1. IsFiniteSet(M)
    BY LenIs
  <2>2. IsFiniteSet(M \X M) /\ edges \in SUBSET (M \X M)
    BY <1>1, <2>1, FS_Product
  <2>3. IsFiniteSet(edges)
    BY <2>2, FS_Subset
  <2> QED  BY <2>2, <2>3
<1> HIDE DEF edges
<1>3. /\ out \in Seq(M) /\ Distinct(out)
      /\ \A t \in M : t \in Members(out) <=> Ready(edges, t, out)
      /\ \A j \in 1 .. Len(out), d \in edges :
             d[2] = out[j] => \E i \in 1 .. j - 1 : out[i] = d[1]
  BY <1>2, TurnsAre
<1>4. order = out \o tail
  BY DEF topologicalSortTables, edges
<1>5. tail \in Seq(M) /\ Members(tail) = rest /\ Distinct(tail)
  BY KeepIs
<1> HIDE DEF out, tail, order
<1>6. Members(out) \subseteq M /\ Members(out) \cap rest = {} /\ Members(out) \cup rest = M
  BY <1>3, MembersIn
<1>7. /\ order \in Seq(M) /\ Len(order) = Len(out) + Len(tail)
      /\ Members(order) = M /\ Distinct(order)
  <2> HIDE DEF M, rest
  <2>1. out \in Seq(M) /\ tail \in Seq(M) /\ Distinct(out) /\ Distinct(tail)
    BY <1>3, <1>5
  <2>2. /\ out \o tail \in Seq(M) /\ Len(out \o tail) = Len(out) + Len(tail)
        /\ Members(out \o tail) = Members(out) \cup Members(tail)
        /\ Members(out) \cap Members(tail) = {} => Distinct(out \o tail)
    BY <2>1, ConcatIs
  <2> QED  BY <1>4, <1>5, <1>6, <2>2
<1>8. Len(order) = Len(tables)
  <2>1. Cardinality(M) = Len(order)
    BY <1>7, LenIs
  <2>2. Cardinality(M) = Len(tables)
    BY LenIs
  <2> QED  BY <2>1, <2>2
<1>9. B = rest
  <2>1. \A t \in rest : \E p \in rest \ {t} : <<p, t>> \in deps
    <3> SUFFICES ASSUME NEW t \in rest PROVE \E p \in rest \ {t} : <<p, t>> \in deps
      OBVIOUS
    <3>1. PICK d \in edges : d[2] = t /\ d[1] \notin Members(out)
      BY <1>3 DEF Ready
    <3>2. d[1] \in rest \ {t} /\ <<d[1], t>> \in deps
      BY <1>1, <1>2, <3>1
    <3> QED  BY <3>2
  <2>2. ASSUME NEW S \in SUBSET M, \A t \in S : \E p \in S \ {t} : <<p, t>> \in deps
        PROVE  S \subseteq rest
    <3> SUFFICES ASSUME NEW x \in S, x \in Members(out) PROVE FALSE
      BY <1>6
    <3> DEFINE P == {i \in 1 .. Len(out) : out[i] \in S}
    <3>1. P \subseteq Nat /\ P # {}
      BY DEF Members
    <3>2. PICK j \in P : \A i \in P : j <= i
      BY <3>1, LeastExists
    <3>3. PICK p \in S \ {out[j]} : <<p, out[j]>> \in deps
      BY <2>2, <3>2
    <3>4. <<p, out[j]>> \in edges /\ <<p, out[j]>>[1] = p /\ <<p, out[j]>>[2] = out[j]
      BY <1>1, <3>3
    <3>5. PICK i \in 1 .. j - 1 : out[i] = p
      BY <1>3, <3>2, <3>4
    <3>6. i \in 1 .. Len(out) /\ i < j /\ j \in Nat
      BY <1>3, <3>2, <3>5
    <3> QED  BY <3>2, <3>3, <3>5, <3>6
  <2>3. rest \in SUBSET M
    OBVIOUS
  <2> HIDE DEF rest, M
  <2> QED  BY <2>1, <2>2, <2>3 DEF Stuck, M
<1>10. ASSUME NEW d \in deps, NEW i \in 1 .. Len(order), NEW j \in 1 .. Len(order),
             d[1] # d[2], d[1] \notin B, order[i] = d[1], order[j] = d[2]
       PROVE  i < j
  <2>1. /\ Len(out) \in Nat /\ Len(tail) \in Nat
        /\ \A k \in 1 .. Len(out) : order[k] = out[k] /\ k \in 1 .. Len(order)
    BY <1>3, <1>4, <1>5, <1>7, ConcatProperties
  <2>2. d \in edges /\ d[1] \in M
    BY <1>1, <1>2, <1>10
  <2>3. PICK k \in 1 .. Len(out) : out[k] = d[1]
    BY <1>6, <1>9, <1>10, <2>2 DEF Members
  <2>4. i = k
    <3>1. k \in 1 .. Len(order) /\ order[k] = order[i]
      BY <1>10, <2>1, <2>3
    <3>2. \A x, y \in 1 .. Len(order) : order[x] = order[y] => x = y
      BY <1>7 DEF Distinct
    <3> QED  BY <1>10, <3>1, <3>2
  <2>5. CASE j \in 1 .. Len(out)
    <3>1. PICK l \in 1 .. j - 1 : out[l] = d[1]
      BY <1>3, <1>10, <2>1, <2>2, <2>5
    <3>2. l \in 1 .. Len(out) /\ l < j
      BY <2>1, <2>5
    <3>3. l = k
      BY <1>3, <2>3, <3>1, <3>2 DEF Distinct
    <3> QED  BY <2>4, <3>2, <3>3
  <2>6. CASE j \notin 1 .. Len(out)
    BY <1>7, <2>1, <2>4, <2>6
  <2> QED  BY <2>5, <2>6
<1>11. Keep(tables, B) = SubSeq(order, Len(order) - Cardinality(B) + 1, Len(order))
  <2>1. Cardinality(rest) = Len(tail) /\ Len(out) \in Nat /\ Len(tail) \in Nat
    <3>1. Cardinality(Members(tail)) = Len(tail)
      BY <1>5, LenIs
    <3> QED  BY <1>3, <1>5, <3>1
  <2>2. Keep(tables, B) = tail
    BY <1>9 DEF tail
  <2>3. Len(order) - Cardinality(B) + 1 = Len(out) + 1
    BY <1>7, <1>9, <2>1
  <2>4. tail = SubSeq(order, Len(out) + 1, Len(order))
    <3> DEFINE m == Len(out) + 1
               n == Len(order)
               u == SubSeq(order, m, n)
    <3>1. m \in Int /\ n \in Int /\ \A k \in m .. n : order[k] \in M
      BY <1>7, <2>1
    <3>2. /\ u \in Seq(M) /\ Len(u) = IF m <= n THEN n - m + 1 ELSE 0
          /\ \A k \in 1 .. n - m + 1 : u[k] = order[m + k - 1]
      BY <3>1, SubSeqProperties
    <3>3. /\ n - m + 1 = Len(tail) /\ Len(u) = Len(tail)
          /\ \A k \in 1 .. Len(tail) : m + k - 1 = Len(out) + k
      BY <1>7, <2>1, <3>2
    <3>4. \A k \in 1 .. Len(tail) : order[Len(out) + k] = tail[k]
      BY <1>3, <1>4, <1>5, <2>1, ConcatProperties
    <3>5. \A k \in 1 .. Len(tail) : tail[k] = u[k]
      BY <3>2, <3>3, <3>4
    <3> HIDE DEF u
    <3> QED  BY <1>5, <3>2, <3>3, <3>5, SeqEqual DEF u
  <2> QED  BY <2>2, <2>3, <2>4
<1> QED  BY <1>7, <1>8, <1>10, <1>11 DEF order
=============================================================================
